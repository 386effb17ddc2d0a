------------------------- MODULE SessionLists_proofs -------------------------
(***************************************************************************)
(* What a tab offers to join, for any number of sessions, of requests in   *)
(* flight and of publications on their way.                                *)
(*   What has ended is not offered: an answer is filtered by the sessions  *)
(* that have ended when it arrives, and a session joins that set in the    *)
(* step that takes it off the list.                                        *)
(*   The list is current once nothing is in flight (ListsInv): of several  *)
(* fetches the last one asked either sees the server as it is, or something*)
(* on its way makes the tab ask again.                                     *)
(*   A session is invited to once: by induction over the filtered list.    *)
(***************************************************************************)
EXTENDS SessionLists, SequenceTheorems, WellFoundedInduction, TLAPS

\* What MarkSessionEnded takes off the list stays off it.
LEMMA MarkKeepsApart ==
  ASSUME EndedNotOffered, NEW s, MarkSessionEnded(s)
  PROVE  EndedNotOffered'
  BY DEF EndedNotOffered, MarkSessionEnded

\* A session that is entered may be offered again.
LEMMA EnteringKeepsApart ==
  ASSUME EndedNotOffered, NEW s, ended' = ended \ {s}, UNCHANGED active
  PROVE  EndedNotOffered'
  BY DEF EndedNotOffered

\* The rest of a request of the user.
LEMMA ContinuedKeepsApart ==
  ASSUME EndedNotOffered, NEW c, Continued(c)
  PROVE  EndedNotOffered'
<1>1. CASE Entered(c.s) /\ UNCHANGED active
  BY <1>1, EnteringKeepsApart DEF Entered
<1>2. CASE UNCHANGED <<active, ended>>
  BY <1>2 DEF EndedNotOffered
<1>3. CASE MarkSessionEnded(c.s)
  BY <1>3, MarkKeepsApart
<1> QED BY <1>1, <1>2, <1>3 DEF Continued

\* A publication: only the end of a session changes the two sets.
LEMMA DeliverKeepsApart ==
  ASSUME EndedNotOffered, Deliver
  PROVE  EndedNotOffered'
<1>1. CASE HandleSessionOver
  BY <1>1, MarkKeepsApart DEF HandleSessionOver
<1>2. CASE \/ HandleSessionInvited \/ HandleActiveSessionsUpdated
           \/ HandleUserRemovedFromSession
  <2>1. UNCHANGED <<active, ended>>
    BY <1>2 DEF HandleSessionInvited, HandleActiveSessionsUpdated,
                HandleUserRemovedFromSession
  <2> QED BY <2>1 DEF EndedNotOffered
<1> QED BY <1>1, <1>2 DEF Deliver

\* Of the other steps only the answer to a fetch changes the list.
LEMMA NextKeepsApart ==
  ASSUME EndedNotOffered, [Next]_vars
  PROVE  EndedNotOffered'
<1>1. CASE \E i \in DOMAIN gets : ActiveShown(i)
  BY <1>1 DEF ActiveShown, EndedNotOffered
<1>2. CASE \E c \in calls : Continued(c)
  BY <1>2, ContinuedKeepsApart
<1>3. CASE Deliver
  BY <1>3, DeliverKeepsApart
<1>4. CASE \/ \E i \in DOMAIN gets : ActiveRead(i) \/ ActiveFailed(i)
           \/ RefreshActiveSessions \/ Create \/ ClearRemovedSession
           \/ \E s \in Sessions : Join(s) \/ Decline(s) \/ LeaveOrStop(s)
           \/ \E c \in calls : Served(c) \/ Failed(c)
           \/ Reconnect
           \/ \E s \in Sessions :
                \/ OtherInvites(s) \/ OtherRemoves(s)
                \/ OtherBegins(s) \/ OtherEnds(s) \/ Completes(s)
           \/ UNCHANGED vars
  <2>1. UNCHANGED <<active, ended>>
    BY <1>4 DEF ActiveRead, ActiveFailed, RefreshActiveSessions, Create,
                ClearRemovedSession, Join, Decline, LeaveOrStop, Ask, Served,
                Failed, Reconnect, ServerOnly, OtherInvites, OtherRemoves,
                OtherBegins, OtherEnds, Completes, vars
  <2> QED BY <2>1 DEF EndedNotOffered
<1> QED BY <1>1, <1>2, <1>3, <1>4 DEF Next

\* A session the tab was told has ended, or has left, is not offered again by a
\* list that was read before, however many fetches are in flight.
THEOREM EndedNeverOffered == Spec => []EndedNotOffered
<1>1. Init => EndedNotOffered
  BY DEF Init, EndedNotOffered
<1>2. EndedNotOffered /\ [Next]_vars => EndedNotOffered'
  BY NextKeepsApart
<1> QED BY <1>1, <1>2, PTL DEF Spec

-----------------------------------------------------------------------------
(* The list is current once nothing is in flight.                          *)

\* What the answer to the i-th GET leaves of a sequence.
LEMMA RemovedAt ==
  ASSUME NEW S, NEW q \in Seq(S), NEW i \in 1 .. Len(q)
  PROVE  /\ RemoveAt(q, i) \in Seq(S)
         /\ Len(RemoveAt(q, i)) = Len(q) - 1
         /\ \A j \in 1 .. Len(q) - 1 :
              RemoveAt(q, i)[j] = q[IF j < i THEN j ELSE j + 1]
<1> DEFINE before == SubSeq(q, 1, i - 1)
           after == SubSeq(q, i + 1, Len(q))
<1>1. /\ before \in Seq(S) /\ Len(before) = i - 1
      /\ \A j \in 1 .. i - 1 : before[j] = q[j]
  BY SubSeqProperties
<1>2. /\ after \in Seq(S) /\ Len(after) = Len(q) - i
      /\ \A j \in 1 .. Len(q) - i : after[j] = q[i + j]
  BY SubSeqProperties
<1>3. RemoveAt(q, i) = before \o after
  BY DEF RemoveAt
<1> HIDE DEF before, after
<1>4. /\ before \o after \in Seq(S) /\ Len(before \o after) = Len(q) - 1
      /\ \A j \in 1 .. Len(q) - 1 : (before \o after)[j] =
           IF j <= i - 1 THEN before[j] ELSE after[j - (i - 1)]
  BY <1>1, <1>2, ConcatProperties
<1>5. ASSUME NEW j \in 1 .. Len(q) - 1
      PROVE  RemoveAt(q, i)[j] = q[IF j < i THEN j ELSE j + 1]
  BY <1>1, <1>2, <1>3, <1>4
<1> QED BY <1>3, <1>4, <1>5

\* The answer to a GET: it is gone, and those asked before it are old.
LEMMA Answered ==
  ASSUME gets \in Seq(Gets), NEW i \in DOMAIN gets, Answer(i)
  PROVE  /\ gets' \in Seq(Gets) /\ Len(gets') = Len(gets) - 1
         /\ \A j \in DOMAIN gets' :
              /\ j \in DOMAIN gets /\ j + 1 \in DOMAIN gets
              /\ gets'[j].rows = gets[IF j < i THEN j ELSE j + 1].rows
              /\ j < i => gets'[j].old
              /\ ~(j < i) => gets'[j].old = gets[j + 1].old
<1> DEFINE marked == [j \in DOMAIN gets |-> [gets[j] EXCEPT !.old = @ \/ j < i]]
<1>1. \A j \in DOMAIN gets : gets[j] \in Gets
  OBVIOUS
<1>2. ASSUME NEW j \in DOMAIN gets
      PROVE /\ marked[j] \in Gets /\ marked[j].rows = gets[j].rows
            /\ marked[j].old = (gets[j].old \/ j < i)
  BY <1>1 DEF Gets
<1>3. marked \in Seq(Gets) /\ Len(marked) = Len(gets)
  <2>1. DOMAIN gets = 1 .. Len(gets) /\ Len(gets) \in Nat
    OBVIOUS
  <2>2. marked = [j \in 1 .. Len(gets) |-> marked[j]]
    BY <2>1
  <2> HIDE DEF marked
  <2>3. marked \in [1 .. Len(gets) -> Gets]
    BY <1>2, <2>1, <2>2
  <2> QED BY <2>1, <2>3
<1>4. gets' = RemoveAt(marked, i)
  BY DEF Answer
<1> HIDE DEF marked
<1>9. i \in 1 .. Len(marked)
  BY <1>3
<1>5. /\ gets' \in Seq(Gets) /\ Len(gets') = Len(gets) - 1
      /\ \A j \in 1 .. Len(gets) - 1 :
           gets'[j] = marked[IF j < i THEN j ELSE j + 1]
  BY <1>3, <1>4, <1>9, RemovedAt
<1>6. ASSUME NEW j \in DOMAIN gets'
      PROVE  /\ j \in DOMAIN gets /\ j + 1 \in DOMAIN gets
             /\ gets'[j].rows = gets[IF j < i THEN j ELSE j + 1].rows
             /\ j < i => gets'[j].old
             /\ ~(j < i) => gets'[j].old = gets[j + 1].old
  <2>1. j \in DOMAIN gets /\ j + 1 \in DOMAIN gets /\ j \in 1 .. Len(gets) - 1
    BY <1>5
  <2>2. CASE j < i
    BY <2>1, <2>2, <1>2, <1>5
  <2>3. CASE ~(j < i)
    <3>1. gets'[j] = marked[j + 1] /\ ~(j + 1 < i)
      BY <2>1, <2>3, <1>5
    <3>2. gets[j + 1] \in Gets
      BY <2>1, <1>1
    <3> QED BY <3>1, <3>2, <2>1, <2>3, <1>2 DEF Gets
  <2> QED BY <2>2, <2>3
<1> QED BY <1>5, <1>6

\* After a fetch is asked the list will be current.
LEMMA AskedSettles ==
  ASSUME gets \in Seq(Gets), OldComeFirst, FetchActiveSessions
  PROVE  gets' \in Seq(Gets) /\ OldComeFirst' /\ ListSettles'
<1>1. Asked \in Gets
  BY DEF Asked, Gets
<1>2. /\ gets' \in Seq(Gets) /\ Len(gets') = Len(gets) + 1
      /\ \A j \in DOMAIN gets : gets'[j] = gets[j]
      /\ gets'[Len(gets) + 1] = Asked
  BY <1>1 DEF FetchActiveSessions
<1>3. OldComeFirst'
  <2>1. ASSUME NEW i \in DOMAIN gets', NEW j \in DOMAIN gets', i < j, gets'[j].old
        PROVE  gets'[i].old
    <3>1. j # Len(gets) + 1
      BY <1>2, <2>1 DEF Asked
    <3> QED BY <3>1, <1>2, <2>1 DEF OldComeFirst
  <2> QED BY <2>1 DEF OldComeFirst
<1>4. gets' # <<>> /\ LastGet' = Asked
  BY <1>2 DEF LastGet
<1> QED BY <1>2, <1>3, <1>4 DEF ListSettles, Asked

\* Steps that leave the list and the fetches alone.
LEMMA FetchesFrame ==
  ASSUME OldComeFirst, ListSettles, UNCHANGED <<gets, active, ended, stale>>,
         WillFetch' \/ (Offered' = Offered /\ (WillFetch => WillFetch'))
  PROVE  OldComeFirst' /\ ListSettles'
BY DEF OldComeFirst, ListSettles, LastGet

\* A GET is read at the server: what it says is the list of the moment.
LEMMA ReadSettles ==
  ASSUME gets \in Seq(Gets), OldComeFirst, ListSettles,
         NEW i \in DOMAIN gets, ActiveRead(i)
  PROVE  OldComeFirst' /\ ListSettles'
<1>1. /\ Len(gets') = Len(gets) /\ DOMAIN gets' = DOMAIN gets
      /\ \A j \in DOMAIN gets :
           gets'[j].old = gets[j].old /\ (j # i => gets'[j].rows = gets[j].rows)
      /\ gets'[i].rows = member \cap live
  <2>1. \A j \in DOMAIN gets : gets[j] \in Gets
    OBVIOUS
  <2> QED BY <2>1 DEF ActiveRead, Gets
<1>2. OldComeFirst'
  BY <1>1 DEF OldComeFirst
<1>3. (gets' = <<>>) <=> (gets = <<>>)
  BY <1>1 DEF ActiveRead
<1>4. gets # <<>> => Len(gets) \in DOMAIN gets
  OBVIOUS
<1>5. Offered' = Offered /\ WillFetch' = WillFetch
  BY DEF ActiveRead, Offered, WillFetch, serverVars
<1>6. gets # <<>> => /\ LastGet'.old = LastGet.old
                     /\ LastGet'.rows \in {LastGet.rows, Offered}
  BY <1>1, <1>4 DEF LastGet, Offered
<1>7. UNCHANGED <<active, ended, stale>>
  BY DEF ActiveRead
<1> QED BY <1>2, <1>3, <1>5, <1>6, <1>7 DEF ListSettles

\* A GET is answered, with the list or with an error.  If it was the last one
\* asked, those left are old; if that one is old, so is the one answered.
LEMMA AnswerSettles ==
  ASSUME gets \in Seq(Gets), stale \in BOOLEAN, OldComeFirst, ListSettles,
         NEW i \in DOMAIN gets, ActiveShown(i) \/ ActiveFailed(i)
  PROVE  gets' \in Seq(Gets) /\ OldComeFirst' /\ ListSettles'
<1>1. Answer(i)
  BY DEF ActiveShown, ActiveFailed
<1>2. /\ gets' \in Seq(Gets) /\ Len(gets') = Len(gets) - 1
      /\ \A j \in DOMAIN gets' :
           /\ j \in DOMAIN gets /\ j + 1 \in DOMAIN gets
           /\ gets'[j].rows = gets[IF j < i THEN j ELSE j + 1].rows
           /\ j < i => gets'[j].old
           /\ ~(j < i) => gets'[j].old = gets[j + 1].old
  BY <1>1, Answered
<1>3. OldComeFirst'
  <2>1. ASSUME NEW j \in DOMAIN gets', NEW k \in DOMAIN gets', j < k,
               gets'[k].old
        PROVE  gets'[j].old
    <3>0. j \in Nat /\ k \in Nat /\ i \in Nat
      BY <1>2
    <3>1. CASE j < i
      BY <3>1, <1>2
    <3>2. CASE ~(j < i)
      <4>0. ~(k < i)
        BY <3>0, <3>2, <2>1
      <4>1. /\ gets[k + 1].old /\ j + 1 \in DOMAIN gets
            /\ k + 1 \in DOMAIN gets /\ j + 1 < k + 1
        BY <3>0, <4>0, <2>1, <1>2
      <4>2. gets[j + 1].old
        BY <4>1, <2>1 DEF OldComeFirst
      <4> QED BY <4>2, <3>2, <1>2
    <3> QED BY <3>1, <3>2
  <2> QED BY <2>1 DEF OldComeFirst
<1>4. /\ Offered' = Offered /\ WillFetch' = WillFetch /\ ended' = ended
      /\ stale' \in BOOLEAN
      /\ gets[i].old => stale' \/ (stale' = stale /\ active' = active)
      /\ stale' \/ (gets[i].rows # None /\ active' = gets[i].rows \ ended)
                \/ (gets[i].old /\ stale' = stale /\ active' = active)
  <2>1. gets[i].old \in BOOLEAN
    <3>1. gets[i] \in Gets
      OBVIOUS
    <3> QED BY <3>1 DEF Gets
  <2>2. Offered' = Offered /\ WillFetch' = WillFetch /\ ended' = ended
    <3>1. ActiveShown(i) => UNCHANGED <<member, live, ended, inbox, calls>>
      BY DEF ActiveShown, serverVars
    <3>2. ActiveFailed(i) => UNCHANGED <<member, live, ended, inbox, calls>>
      BY DEF ActiveFailed, serverVars
    <3> QED BY <3>1, <3>2 DEF Offered, WillFetch
  <2>3. CASE ActiveShown(i)
    <3>1. /\ stale' = gets[i].old /\ gets[i].rows # None
          /\ active' = gets[i].rows \ ended
      BY <2>3 DEF ActiveShown
    <3> QED BY <3>1, <2>1, <2>2
  <2>4. CASE ActiveFailed(i)
    <3>1. stale' = (stale \/ ~gets[i].old) /\ active' = active
      BY <2>4 DEF ActiveFailed
    <3> QED BY <3>1, <2>1, <2>2
  <2> QED BY <2>3, <2>4
<1>5. CASE WillFetch
  BY <1>2, <1>3, <1>4, <1>5 DEF ListSettles
<1>6. ASSUME ~WillFetch, i = Len(gets) PROVE ListSettles'
  <2>1. gets' = <<>> \/ LastGet'.old
    <3>1. gets' # <<>> => Len(gets') \in DOMAIN gets' /\ Len(gets') < i
      BY <1>2, <1>6
    <3> QED BY <3>1, <1>2 DEF LastGet
  <2>2. gets # <<>> /\ LastGet = gets[i]
    BY <1>6 DEF LastGet
  <2>3. stale' \/ active' = Offered \ ended
    BY <1>4, <1>6, <2>2 DEF ListSettles
  <2> QED BY <2>1, <2>3, <1>4 DEF ListSettles
<1>7. ASSUME ~WillFetch, i # Len(gets) PROVE ListSettles'
  <2>1. /\ Len(gets') \in DOMAIN gets' /\ ~(Len(gets') < i)
        /\ Len(gets') + 1 = Len(gets) /\ gets # <<>> /\ gets' # <<>>
        /\ Len(gets) \in DOMAIN gets /\ i < Len(gets)
    BY <1>2, <1>7
  <2>2. LastGet'.rows = LastGet.rows /\ LastGet'.old = LastGet.old
    BY <2>1, <1>2 DEF LastGet
  <2>3. LastGet.old => gets[i].old
    BY <2>1 DEF OldComeFirst, LastGet
  <2> QED BY <2>1, <2>2, <2>3, <1>4, <1>7 DEF ListSettles
<1> QED BY <1>2, <1>3, <1>5, <1>6, <1>7

\* The connection is made again: every GET is old, and so may the list be.
LEMMA ReconnectSettles ==
  ASSUME gets \in Seq(Gets), Reconnect
  PROVE  gets' \in Seq(Gets) /\ OldComeFirst' /\ ListSettles'
<1>1. /\ gets' \in Seq(Gets) /\ \A j \in DOMAIN gets' : gets'[j].old
  <2>1. DOMAIN gets = 1 .. Len(gets) /\ Len(gets) \in Nat
    OBVIOUS
  <2>2. \A j \in DOMAIN gets : gets[j] \in Gets
    OBVIOUS
  <2>3. gets' = [j \in 1 .. Len(gets) |-> [gets[j] EXCEPT !.old = TRUE]]
    BY <2>1 DEF Reconnect
  <2>4. \A j \in 1 .. Len(gets) :
           gets'[j] \in Gets /\ gets'[j].old
    BY <2>1, <2>2, <2>3 DEF Gets
  <2>5. gets' \in [1 .. Len(gets) -> Gets]
    BY <2>3, <2>4
  <2> QED BY <2>1, <2>3, <2>4, <2>5
<1>2. gets' # <<>> => Len(gets') \in DOMAIN gets'
  BY <1>1
<1> QED BY <1>1, <1>2 DEF Reconnect, OldComeFirst, ListSettles, LastGet

\* Of a request only its step changes, and only an answer of the server that
\* makes it fetch again may come with a change of what the server has.
LEMMA ServedChanges ==
  ASSUME calls \subseteq Calls, NEW c \in calls, Served(c)
  PROVE  WillFetch' \/ (Offered' = Offered /\ (WillFetch => WillFetch'))
<1>1. CASE Step(c, "ok")
  <2>1. [c EXCEPT !.step = "ok"].step = "ok"
    BY DEF Calls
  <2>2. [c EXCEPT !.step = "ok"] \in calls'
    BY <1>1 DEF Step
  <2> QED BY <2>1, <2>2 DEF WillFetch
<1>2. CASE Step(c, "failed") /\ UNCHANGED <<inbox, serverVars>>
  BY <1>2 DEF Served, Step, WillFetch, Offered, serverVars
<1> QED BY <1>1, <1>2 DEF Served

\* A step of another user that changes what the server has tells this one; the
\* end of a session is told to those who have a row in it.
LEMMA OthersChange ==
  ASSUME inbox \in Seq(Events), NEW s \in Sessions,
         \/ OtherInvites(s) \/ OtherRemoves(s) \/ OtherBegins(s)
         \/ OtherEnds(s) \/ Completes(s)
  PROVE  WillFetch' \/ (Offered' = Offered /\ (WillFetch => WillFetch'))
<1>1. ASSUME NEW e, Pushes(e) PROVE WillFetch'
  <2>1. inbox' # <<>>
    BY <1>1 DEF Pushes
  <2> QED BY <2>1 DEF WillFetch
<1>2. CASE OtherEnds(s)
  <2> DEFINE ended1 == IF s \in channels THEN <<Event("session_ended", s)>>
                                         ELSE <<>>
             updated == IF s \in member
                        THEN <<Event("active_sessions_updated", s)>> ELSE <<>>
  <2>1. inbox' = inbox \o (ended1 \o updated) /\ live' = live \ {s}
        /\ member' = member /\ calls' = calls
    BY <1>2 DEF OtherEnds, ServerOnly
  <2>2. ended1 \in Seq(Events) /\ updated \in Seq(Events)
    <3>1. \A type \in {"session_ended", "active_sessions_updated"} :
             Event(type, s) \in Events
      BY DEF Event, Events
    <3> QED BY <3>1
  <2>3. CASE s \in member
    <3>1. updated # <<>>
      BY <2>3
    <3>2. inbox' # <<>>
      <4> HIDE DEF ended1, updated
      <4> QED BY <2>1, <2>2, <3>1, ConcatProperties, ConcatEqualIffEmpty
    <3> QED BY <3>2 DEF WillFetch
  <2>4. CASE s \notin member
    <3>1. Offered' = Offered
      BY <2>1, <2>4 DEF Offered
    <3>2. inbox # <<>> => inbox' # <<>>
      <4> HIDE DEF ended1, updated
      <4>1. ended1 \o updated \in Seq(Events)
        BY <2>2, ConcatProperties
      <4> QED BY <2>1, <4>1, ConcatEqualIffEmpty
    <3> QED BY <2>1, <3>1, <3>2 DEF WillFetch
  <2> QED BY <2>3, <2>4
<1> QED BY <1>1, <1>2 DEF OtherInvites, OtherRemoves, OtherBegins, Completes

LEMMA NextSettles ==
  ASSUME TypeOK, OldComeFirst, ListSettles, [Next]_vars
  PROVE  OldComeFirst' /\ ListSettles'
<1>1. gets \in Seq(Gets) /\ inbox \in Seq(Events) /\ stale \in BOOLEAN
      /\ calls \subseteq Calls
  BY DEF TypeOK
<1>2. ASSUME NEW i \in DOMAIN gets,
             ActiveRead(i) \/ ActiveShown(i) \/ ActiveFailed(i)
      PROVE  OldComeFirst' /\ ListSettles'
  BY <1>1, <1>2, ReadSettles, AnswerSettles
<1>3. CASE \/ RefreshActiveSessions \/ Deliver
           \/ \E c \in calls : Continued(c)
  <2>1. FetchActiveSessions
    BY <1>3 DEF RefreshActiveSessions, Deliver, HandleSessionInvited, Continued,
                HandleActiveSessionsUpdated, HandleUserRemovedFromSession,
                HandleSessionOver
  <2> QED BY <1>1, <2>1, AskedSettles
<1>4. CASE Reconnect
  BY <1>1, <1>4, ReconnectSettles
<1>5. CASE \/ Create \/ ClearRemovedSession \/ UNCHANGED vars
           \/ \E s \in Sessions : Join(s) \/ Decline(s) \/ LeaveOrStop(s)
           \/ \E c \in calls : Served(c) \/ Failed(c)
           \/ \E s \in Sessions :
                \/ OtherInvites(s) \/ OtherRemoves(s)
                \/ OtherBegins(s) \/ OtherEnds(s) \/ Completes(s)
  <2>1. UNCHANGED <<gets, active, ended, stale>>
    BY <1>5 DEF Create, Join, Decline, LeaveOrStop, Ask, Served, Failed, vars,
                ClearRemovedSession, ServerOnly, OtherInvites, OtherRemoves,
                OtherBegins, OtherEnds, Completes
  <2>2. CASE \/ Create \/ ClearRemovedSession \/ UNCHANGED vars
             \/ \E s \in Sessions : Join(s) \/ Decline(s) \/ LeaveOrStop(s)
    <3>1. calls \subseteq calls' /\ UNCHANGED <<inbox, member, live>>
      BY <2>2 DEF Create, Join, Decline, LeaveOrStop, Ask, vars, serverVars,
                  ClearRemovedSession
    <3> QED BY <2>1, <3>1, FetchesFrame DEF WillFetch, Offered
  <2>3. CASE \E c \in calls : Failed(c)
    <3>1. \A c \in calls : c.step = "ok" => c \in calls'
      BY <2>3 DEF Failed
    <3>2. UNCHANGED <<inbox, member, live>>
      BY <2>3 DEF Failed, serverVars
    <3> QED BY <2>1, <3>1, <3>2, FetchesFrame DEF WillFetch, Offered
  <2>4. CASE \E c \in calls : Served(c)
    BY <1>1, <2>1, <2>4, ServedChanges, FetchesFrame
  <2>5. CASE \E s \in Sessions :
                \/ OtherInvites(s) \/ OtherRemoves(s)
                \/ OtherBegins(s) \/ OtherEnds(s) \/ Completes(s)
    BY <1>1, <2>1, <2>5, OthersChange, FetchesFrame
  <2> QED BY <1>5, <2>2, <2>3, <2>4, <2>5
<1> QED BY <1>2, <1>3, <1>4, <1>5 DEF Next

-----------------------------------------------------------------------------
(* Induction over a sequence.  The library states induction over a predicate *)
(* of the prover's logic, which no backend can instantiate; over a set of    *)
(* numbers the same fact is first-order.                                     *)

\* A set of numbers has a least one: what induction over a sequence needs.
LEMMA LeastNumber ==
  ASSUME NEW T \in SUBSET Nat, T # {}
  PROVE \E x \in T : \A y \in T : x <= y
<1>1. PICK x \in T : \A y \in T : ~ (<<y, x>> \in OpToRel(<, Nat))
  BY NatLessThanWellFounded, WFMin
<1>2. \A y \in T : ~ (y < x)
  BY <1>1 DEF OpToRel
<1> QED BY <1>2

\* So a set of numbers with 0 and with every successor has them all.
LEMMA EveryNumber ==
  ASSUME NEW T \in SUBSET Nat, 0 \in T, \A n \in T : n + 1 \in T
  PROVE  T = Nat
<1>1. SUFFICES ASSUME Nat \ T # {} PROVE FALSE
  OBVIOUS
<1>2. PICK n \in Nat \ T : \A m \in Nat \ T : n <= m
  BY <1>1, LeastNumber
<1>3. n # 0 /\ n - 1 \in Nat /\ n - 1 \in T
  BY <1>2
<1> QED BY <1>2, <1>3

\* f[n] is what the first n elements of q leave, n up to m.
Filters(f, q, s, m) ==
  f = [n \in 0 .. m |->
         IF n = 0 THEN <<>>
         ELSE IF q[n] = s THEN f[n - 1] ELSE Append(f[n - 1], q[n])]

LEMMA WithoutSteps ==
  ASSUME NEW q, NEW s, NEW l \in Nat, l = Len(q)
  PROVE  \E f : Filters(f, q, s, l) /\ Without(q, s) = f[l]
<1> DEFINE Body(f, n) == IF n = 0 THEN <<>>
                ELSE IF q[n] = s THEN f[n - 1] ELSE Append(f[n - 1], q[n])
           Steps(f, m) == f = [n \in 0 .. m |-> Body(f, n)]
           Made == {m \in Nat : \E f : Steps(f, m)}
<1>1. 0 \in Made
  <2> DEFINE f == [n \in 0 .. 0 |-> <<>>]
  <2>1. Steps(f, 0)
    OBVIOUS
  <2> QED BY <2>1
<1>2. ASSUME NEW m \in Made PROVE m + 1 \in Made
  <2>1. PICK f : Steps(f, m)
    OBVIOUS
  <2>0. \A k \in 0 .. m : f[k] = Body(f, k)
    BY <2>1
  <2> DEFINE g == [n \in 0 .. m + 1 |-> IF n <= m THEN f[n] ELSE Body(f, n)]
  <2>2. ASSUME NEW n \in 0 .. m + 1 PROVE g[n] = Body(g, n)
    <3>1. CASE n = 0
      BY <2>0, <3>1
    <3>2. CASE n # 0
      <4>1. g[n-1] = f[n-1] /\ n - 1 \in 0 .. m
        BY <3>2
      <4>2. g[n] = Body(f, n)
        BY <2>0
      <4> HIDE DEF g
      <4> QED BY <4>1, <4>2, <3>2
    <3> QED BY <3>1, <3>2
  <2>3. Steps(g, m + 1)
    BY <2>2
  <2> HIDE DEF g, Steps
  <2> QED BY <2>3
<1>3. Made = Nat
  <2> HIDE DEF Made
  <2>1. Made \in SUBSET Nat
    BY DEF Made
  <2> QED BY <1>1, <1>2, <2>1, EveryNumber
<1>4. PICK f : Steps(f, l)
  BY <1>3
<1> QED BY <1>4 DEF Without, Filters

\* What the filter keeps: elements of the sequence other than the one named,
\* each as often as it was there.
LEMMA WithoutKeeps ==
  ASSUME NEW S, NEW q \in Seq(S), NEW s
  PROVE  /\ Without(q, s) \in Seq(S)
         /\ (\A i, j \in DOMAIN q : q[i] = q[j] => i = j) =>
              \A i, j \in DOMAIN Without(q, s) :
                Without(q, s)[i] = Without(q, s)[j] => i = j
<1> DEFINE l == Len(q)
           Single(t) == \A i, j \in DOMAIN t : t[i] = t[j] => i = j
<1>1. /\ l \in Nat /\ l = Len(q) /\ DOMAIN q = 1 .. l
      /\ \A i \in 1 .. l : q[i] \in S
  OBVIOUS
<1> HIDE DEF l
<1>2. PICK f : Filters(f, q, s, l) /\ Without(q, s) = f[l]
  BY <1>1, WithoutSteps
<1>3. /\ f[0] = <<>>
      /\ \A n \in 0 .. l : n + 1 \in 0 .. l =>
           f[n + 1] = IF q[n + 1] = s THEN f[n] ELSE Append(f[n], q[n + 1])
  <2>1. \A n \in 0 .. l : f[n] =
          IF n = 0 THEN <<>>
          ELSE IF q[n] = s THEN f[n - 1] ELSE Append(f[n - 1], q[n])
    BY <1>2 DEF Filters
  <2>2. 0 \in 0 .. l /\ \A n \in 0 .. l : n + 1 # 0 /\ (n + 1) - 1 = n
    BY <1>1
  <2> QED BY <2>1, <2>2
<1> DEFINE Kept(n) == /\ f[n] \in Seq(S)
                      /\ \A i \in DOMAIN f[n] : \E k \in 1 .. n : f[n][i] = q[k]
                      /\ Single(q) => Single(f[n])
           Good == {n \in Nat : n <= l => Kept(n)}
<1>4. 0 \in Good
  <2>1. /\ f[0] \in Seq(S) /\ DOMAIN f[0] = {}
    BY <1>3
  <2> QED BY <2>1
<1>5. ASSUME NEW n \in Good PROVE n + 1 \in Good
  <2>1. n \in Nat
    OBVIOUS
  <2>2. SUFFICES ASSUME n + 1 <= l PROVE Kept(n + 1)
    BY <2>1
  <2>3. n \in 0 .. l /\ n + 1 \in 0 .. l /\ n <= l /\ n + 1 \in 1 .. l
    BY <1>1, <2>1, <2>2
  <2>4. Kept(n)
    BY <2>3
  <2>5. CASE q[n + 1] = s
    <3>1. f[n + 1] = f[n]
      BY <1>3, <2>3, <2>5
    <3> QED BY <2>1, <2>4, <3>1
  <2>6. CASE q[n + 1] # s
    <3> DEFINE t == f[n]
               e == q[n + 1]
    <3>1. f[n + 1] = Append(t, e)
      BY <1>3, <2>3, <2>6
    <3>2. t \in Seq(S) /\ e \in S
      BY <1>1, <2>3, <2>4
    <3>3. /\ Append(t, e) \in Seq(S) /\ DOMAIN Append(t, e) = 1 .. Len(t) + 1
          /\ DOMAIN t = 1 .. Len(t) /\ Len(t) \in Nat
          /\ \A i \in 1 .. Len(t) : Append(t, e)[i] = t[i]
          /\ Append(t, e)[Len(t) + 1] = e
      <4> HIDE DEF t, e
      <4> QED BY <3>2
    <3>4. ASSUME NEW i \in DOMAIN f[n + 1]
          PROVE  \E k \in 1 .. n + 1 : f[n + 1][i] = q[k]
      <4>1. CASE i \in 1 .. Len(t)
        <5>1. PICK k \in 1 .. n : t[i] = q[k]
          BY <4>1, <2>4, <3>3
        <5>2. f[n + 1][i] = q[k]
          BY <3>1, <3>3, <4>1, <5>1
        <5> QED BY <5>2, <2>1
      <4>2. CASE i = Len(t) + 1
        BY <4>2, <3>1, <3>3, <2>1
      <4> QED BY <4>1, <4>2, <3>1, <3>3
    <3>5. ASSUME Single(q), NEW i \in DOMAIN f[n + 1], NEW j \in DOMAIN f[n + 1],
                 f[n + 1][i] = f[n + 1][j]
          PROVE  i = j
      <4>1. \A k \in 1 .. Len(t) : t[k] # e
        <5>1. ASSUME NEW k \in 1 .. Len(t), t[k] = e PROVE FALSE
          <6>1. PICK m \in 1 .. n : t[k] = q[m]
            BY <2>4, <3>3
          <6>2. m \in DOMAIN q /\ n + 1 \in DOMAIN q /\ m # n + 1
            BY <1>1, <2>1, <2>3
          <6> QED BY <6>1, <6>2, <5>1, <3>5
        <5> QED BY <5>1
      <4>2. Single(t)
        BY <2>4, <3>5
      <4>3. /\ i \in 1 .. Len(t) \/ i = Len(t) + 1
            /\ j \in 1 .. Len(t) \/ j = Len(t) + 1
        BY <3>1, <3>3
      <4> HIDE DEF t, e
      <4> QED BY <4>1, <4>2, <4>3, <3>1, <3>3, <3>5
    <3> QED BY <3>1, <3>2, <3>3, <3>4, <3>5
  <2> QED BY <2>5, <2>6
<1>6. Good = Nat
  <2>1. Good \in SUBSET Nat
    OBVIOUS
  <2> HIDE DEF Good
  <2> QED BY <1>4, <1>5, <2>1, EveryNumber
<1>7. Kept(l)
  BY <1>1, <1>6
<1> QED BY <1>2, <1>7 DEF l

-----------------------------------------------------------------------------
(* Types, and the invitations.                                             *)

\* What the steps have in common: a fetch, a publication taken or made, the
\* step of a request, an invitation filtered out.
LEMMA TypedParts ==
  ASSUME TypeOK
  PROVE  /\ FetchActiveSessions => gets' \in Seq(Gets)
         /\ \A type : Receive(type) =>
              Head(inbox) \in Events /\ Subject \in Sessions
              /\ inbox' \in Seq(Events)
         /\ \A e \in Events : Pushes(e) => inbox' \in Seq(Events)
         /\ \A c \in calls, step \in {"sent", "ok", "failed"} :
              c \in Calls /\ c.s \in Sessions
              /\ (Step(c, step) => calls' \subseteq Calls)
         /\ \A s : DismissInvite(s) => invites' \in Seq(Sessions)
<1>1. gets \in Seq(Gets) /\ inbox \in Seq(Events) /\ calls \subseteq Calls
      /\ invites \in Seq(Sessions)
  BY DEF TypeOK
<1>2. FetchActiveSessions => gets' \in Seq(Gets)
  <2>1. Asked \in Gets
    BY DEF Asked, Gets
  <2> QED BY <1>1, <2>1 DEF FetchActiveSessions
<1>3. ASSUME NEW type, Receive(type)
      PROVE  Head(inbox) \in Events /\ Subject \in Sessions
             /\ inbox' \in Seq(Events)
  <2>1. Head(inbox) \in Events /\ inbox' \in Seq(Events)
    BY <1>1, <1>3, HeadTailProperties DEF Receive
  <2> QED BY <2>1 DEF Subject, Events
<1>4. ASSUME NEW e \in Events, Pushes(e) PROVE inbox' \in Seq(Events)
  BY <1>1, <1>4 DEF Pushes
<1>5. ASSUME NEW c \in calls, NEW step \in {"sent", "ok", "failed"}
      PROVE  /\ c \in Calls /\ c.s \in Sessions
             /\ Step(c, step) => calls' \subseteq Calls
  <2>1. c \in Calls /\ [c EXCEPT !.step = step] \in Calls /\ c.s \in Sessions
    BY <1>1 DEF Calls
  <2> QED BY <1>1, <2>1 DEF Step
<1>6. ASSUME NEW s, DismissInvite(s) PROVE invites' \in Seq(Sessions)
  BY <1>1, <1>6, WithoutKeeps DEF DismissInvite
<1> QED BY <1>2, <1>3, <1>4, <1>5, <1>6

\* A request of the user.
LEMMA AskTyped ==
  ASSUME TypeOK, NEW kind \in Kinds, NEW s \in Sessions, Ask(kind, s)
  PROVE  TypeOK'
<1>1. [kind |-> kind, s |-> s, step |-> "sent"] \in Calls
  BY DEF Calls
<1> QED BY <1>1, ListsAssumption DEF Ask, TypeOK, serverVars

LEMMA RequestsTyped ==
  ASSUME TypeOK,
         \/ RefreshActiveSessions \/ Create \/ ClearRemovedSession
         \/ \E s \in Sessions : Join(s) \/ Decline(s) \/ LeaveOrStop(s)
         \/ Reconnect
  PROVE  TypeOK'
<1>1. CASE Create \/ \E s \in Sessions : Join(s) \/ Decline(s)
  <2>1. {"create", "join", "decline"} \subseteq Kinds /\ Own \subseteq Sessions
    BY ListsAssumption DEF Kinds
  <2> QED BY <1>1, <2>1, AskTyped DEF Create, Join, Decline
<1>2. ASSUME NEW s \in Sessions, LeaveOrStop(s) PROVE TypeOK'
  <2>1. [kind |-> IF s \in Own THEN "stop" ELSE "leave", s |-> s,
         step |-> "sent"] \in Calls
    BY DEF Calls, Kinds
  <2> QED BY <1>2, <2>1, ListsAssumption DEF LeaveOrStop, TypeOK, serverVars
<1>3. CASE RefreshActiveSessions
  <2>1. gets' \in Seq(Gets)
    BY <1>3, TypedParts DEF RefreshActiveSessions
  <2> QED BY <1>3, <2>1, ListsAssumption
          DEF RefreshActiveSessions, TypeOK, serverVars
<1>4. CASE ClearRemovedSession
  BY <1>4 DEF ClearRemovedSession, TypeOK, serverVars
<1>5. CASE Reconnect
  <2>1. gets' \in Seq(Gets)
    BY <1>5, ReconnectSettles DEF TypeOK
  <2>2. \A c \in calls : [c EXCEPT !.step = "failed"] \in Calls
    BY DEF TypeOK, Calls
  <2>3. calls' \subseteq Calls
    BY <1>5, <2>2 DEF Reconnect
  <2> QED BY <1>5, <2>1, <2>3, ListsAssumption
          DEF Reconnect, TypeOK, serverVars
<1> QED BY <1>1, <1>2, <1>3, <1>4, <1>5

\* An answer to a GET, and what comes of a request.
LEMMA AnswersTyped ==
  ASSUME TypeOK, OldComeFirst, ListSettles,
         \/ \E i \in DOMAIN gets :
              ActiveRead(i) \/ ActiveShown(i) \/ ActiveFailed(i)
         \/ \E c \in calls : Served(c) \/ Continued(c) \/ Failed(c)
  PROVE  TypeOK'
<1>1. ASSUME NEW i \in DOMAIN gets, ActiveRead(i) PROVE TypeOK'
  <2>1. gets[i] \in Gets
    BY DEF TypeOK
  <2>2. [gets[i] EXCEPT !.rows = member \cap live] \in Gets
    BY <2>1 DEF Gets, TypeOK
  <2>3. gets' \in Seq(Gets)
    BY <1>1, <2>2, ExceptSeq DEF ActiveRead, TypeOK
  <2> QED BY <1>1, <2>3 DEF ActiveRead, TypeOK, serverVars
<1>2. ASSUME NEW i \in DOMAIN gets, ActiveShown(i) \/ ActiveFailed(i)
      PROVE  TypeOK'
  <2>1. gets' \in Seq(Gets)
    BY <1>2, AnswerSettles DEF TypeOK
  <2>2. gets[i].rows \in {None} \cup SUBSET Sessions /\ gets[i].old \in BOOLEAN
    <3>1. gets[i] \in Gets
      BY DEF TypeOK
    <3> QED BY <3>1 DEF Gets
  <2>3. active' \subseteq Sessions /\ stale' \in BOOLEAN
    BY <1>2, <2>2 DEF ActiveShown, ActiveFailed, TypeOK
  <2>4. UNCHANGED <<ended, invites, removedId, calls, channels, inbox, presses,
                    member, live>>
    BY <1>2 DEF ActiveShown, ActiveFailed, serverVars
  <2> QED BY <2>1, <2>3, <2>4 DEF TypeOK
<1>3. ASSUME NEW c \in calls, Served(c) PROVE TypeOK'
  <2>1. c \in Calls /\ c.s \in Sessions
    BY TypedParts
  <2>2. Event("active_sessions_updated", c.s) \in Events
    BY <2>1 DEF Event, Events
  <2>3. inbox' \in Seq(Events)
    BY <1>3, <2>2, TypedParts DEF Served, TypeOK
  <2>4. calls' \subseteq Calls
    BY <1>3, TypedParts DEF Served
  <2>5. member' \subseteq Sessions /\ live' \subseteq Sessions
    BY <1>3, <2>1 DEF Served, TypeOK, serverVars
  <2> QED BY <1>3, <2>3, <2>4, <2>5 DEF Served, TypeOK
<1>4. ASSUME NEW c \in calls, Continued(c) PROVE TypeOK'
  <2>1. c.s \in Sessions /\ gets' \in Seq(Gets) /\ calls' \subseteq Calls
    BY <1>4, TypedParts DEF Continued, TypeOK
  <2>2. invites' \in Seq(Sessions)
    BY <1>4, TypedParts DEF Continued, TypeOK
  <2>3. /\ ended' \subseteq Sessions /\ active' \subseteq Sessions
        /\ channels' \subseteq Sessions
    BY <1>4, <2>1 DEF Continued, TypeOK, MarkSessionEnded, Entered
  <2> QED BY <1>4, <2>1, <2>2, <2>3 DEF Continued, TypeOK, serverVars
<1>5. ASSUME NEW c \in calls, Failed(c) PROVE TypeOK'
  BY <1>5 DEF Failed, TypeOK, serverVars
<1> QED BY <1>1, <1>2, <1>3, <1>4, <1>5

\* A publication, and the steps of others.
LEMMA EventsTyped ==
  ASSUME TypeOK,
         \/ Deliver
         \/ \E s \in Sessions :
              \/ OtherInvites(s) \/ OtherRemoves(s)
              \/ OtherBegins(s) \/ OtherEnds(s) \/ Completes(s)
  PROVE  TypeOK'
<1>1. CASE Deliver
  <2>1. /\ Subject \in Sessions /\ inbox' \in Seq(Events)
        /\ gets' \in Seq(Gets)
    BY <1>1, TypedParts DEF Deliver, HandleSessionInvited, HandleSessionOver,
       HandleActiveSessionsUpdated, HandleUserRemovedFromSession
  <2>2. CASE HandleSessionInvited
    <3>1. invites' \in Seq(Sessions)
      <4>1. <<Subject>> \in Seq(Sessions)
        BY <2>1
      <4>2. <<Subject>> \o invites \in Seq(Sessions)
        BY <4>1, ConcatProperties DEF TypeOK
      <4> QED BY <2>2, <4>2 DEF HandleSessionInvited, TypeOK
    <3> QED BY <2>1, <2>2, <3>1 DEF HandleSessionInvited, TypeOK, serverVars
  <2>3. CASE HandleActiveSessionsUpdated
    BY <2>1, <2>3 DEF HandleActiveSessionsUpdated, TypeOK, serverVars
  <2>4. CASE HandleUserRemovedFromSession
    <3>1. invites' \in Seq(Sessions)
      BY <2>4, TypedParts DEF HandleUserRemovedFromSession
    <3> QED BY <2>1, <2>4, <3>1
            DEF HandleUserRemovedFromSession, TypeOK, serverVars
  <2>5. CASE HandleSessionOver
    <3>1. /\ channels' \subseteq Sessions
          /\ ended' = ended \cup {Subject} /\ active' = active \ {Subject}
      BY <2>5 DEF HandleSessionOver, MarkSessionEnded, TypeOK
    <3> QED BY <2>1, <2>5, <3>1 DEF HandleSessionOver, TypeOK, serverVars
  <2> QED BY <1>1, <2>2, <2>3, <2>4, <2>5 DEF Deliver
<1>2. ASSUME NEW s \in Sessions,
             \/ OtherInvites(s) \/ OtherRemoves(s)
             \/ OtherBegins(s) \/ OtherEnds(s) \/ Completes(s)
      PROVE  TypeOK'
  <2>1. \A type \in {"session_invited", "active_sessions_updated", "removed",
                     "session_started", "session_ended", "upload_completed"} :
           Event(type, s) \in Events
    BY DEF Event, Events
  <2>2. inbox' \in Seq(Events)
    <3>1. CASE OtherEnds(s)
      <4> DEFINE ended1 == IF s \in channels
                           THEN <<Event("session_ended", s)>> ELSE <<>>
                 updated == IF s \in member
                            THEN <<Event("active_sessions_updated", s)>>
                            ELSE <<>>
      <4>1. ended1 \in Seq(Events) /\ updated \in Seq(Events)
        BY <2>1
      <4>2. inbox' = inbox \o (ended1 \o updated)
        BY <3>1 DEF OtherEnds
      <4> HIDE DEF ended1, updated
      <4> QED BY <4>1, <4>2, ConcatProperties DEF TypeOK
    <3>2. CASE \/ OtherInvites(s) \/ OtherRemoves(s)
               \/ OtherBegins(s) \/ Completes(s)
      BY <2>1, <3>2, TypedParts
         DEF OtherInvites, OtherRemoves, OtherBegins, Completes
    <3> QED BY <1>2, <3>1, <3>2
  <2>3. member' \subseteq Sessions /\ live' \subseteq Sessions
    BY <1>2 DEF OtherInvites, OtherRemoves, OtherBegins, OtherEnds, Completes,
                TypeOK, serverVars
  <2>4. UNCHANGED <<active, ended, invites, removedId, gets, calls, channels,
                    presses, stale>>
    BY <1>2 DEF OtherInvites, OtherRemoves, OtherBegins, OtherEnds, Completes,
                ServerOnly
  <2> QED BY <2>2, <2>3, <2>4 DEF TypeOK
<1> QED BY <1>1, <1>2

\* A session already invited to is not put in the list again, and filtering
\* one out doubles none.
LEMMA NextKeepsInvites ==
  ASSUME TypeOK, OneInvitePerSession, [Next]_vars
  PROVE  OneInvitePerSession'
<1>1. invites \in Seq(Sessions)
  BY DEF TypeOK
<1>2. ASSUME NEW s, DismissInvite(s) PROVE OneInvitePerSession'
  BY <1>1, <1>2, WithoutKeeps DEF DismissInvite, OneInvitePerSession
<1>3. CASE HandleSessionInvited
  <2>1. CASE Subject \in ToSet(invites)
    BY <1>3, <2>1 DEF HandleSessionInvited, OneInvitePerSession
  <2>2. CASE Subject \notin ToSet(invites)
    <3>1. Subject \in Sessions
      BY <1>3, TypedParts DEF HandleSessionInvited
    <3>2. invites' = <<Subject>> \o invites
      BY <1>3, <2>2 DEF HandleSessionInvited
    <3>3. /\ DOMAIN invites' = 1 .. Len(invites) + 1 /\ invites'[1] = Subject
          /\ \A i \in 2 .. Len(invites) + 1 : invites'[i] = invites[i - 1]
          /\ Len(invites) \in Nat /\ DOMAIN invites = 1 .. Len(invites)
      BY <1>1, <3>1, <3>2
    <3>4. \A i \in DOMAIN invites : invites[i] # Subject
      BY <2>2 DEF ToSet
    <3>5. ASSUME NEW i \in DOMAIN invites', NEW j \in DOMAIN invites',
                 invites'[i] = invites'[j]
          PROVE  i = j
      <4>1. \A k \in DOMAIN invites' : k # 1 =>
              k \in 2 .. Len(invites) + 1 /\ k - 1 \in DOMAIN invites
        BY <3>3
      <4> QED BY <4>1, <3>3, <3>4, <3>5 DEF OneInvitePerSession
    <3> QED BY <3>5 DEF OneInvitePerSession
  <2> QED BY <2>1, <2>2
<1>4. CASE UNCHANGED invites
  BY <1>4 DEF OneInvitePerSession
<1>5. invites' = invites \/ HandleSessionInvited \/ \E s : DismissInvite(s)
  BY DEF Next, vars, ActiveRead, ActiveShown, ActiveFailed, Continued, Failed,
         RefreshActiveSessions, Create, ClearRemovedSession, Join, Decline,
         LeaveOrStop, Ask, Served, Deliver, HandleActiveSessionsUpdated,
         HandleUserRemovedFromSession, HandleSessionOver, Reconnect, ServerOnly,
         OtherInvites, OtherRemoves, OtherBegins, OtherEnds, Completes
<1> QED BY <1>2, <1>3, <1>4, <1>5

\* The invariant that is inductive.
THEOREM ListsInvariant == Spec => [](ListsInv /\ OneInvitePerSession)
<1>1. Init => ListsInv /\ OneInvitePerSession
  <2> SUFFICES ASSUME Init PROVE ListsInv /\ OneInvitePerSession
    OBVIOUS
  <2>1. Asked \in Gets /\ gets = <<Asked>> /\ Len(gets) = 1 /\ gets[1] = Asked
        /\ gets # <<>> /\ DOMAIN gets = {1}
    BY DEF Init, Asked, Gets
  <2>2. gets \in Seq(Gets) /\ invites = <<>> /\ inbox = <<>>
    BY <2>1 DEF Init
  <2>3. TypeOK
    BY <2>2, ListsAssumption DEF Init, TypeOK
  <2>4. OldComeFirst /\ ListSettles
    BY <2>1 DEF OldComeFirst, ListSettles, LastGet, Asked
  <2>5. OneInvitePerSession
    BY <2>2 DEF OneInvitePerSession
  <2> QED BY <2>3, <2>4, <2>5 DEF ListsInv
<1>2. ListsInv /\ OneInvitePerSession /\ [Next]_vars
        => (ListsInv /\ OneInvitePerSession)'
  <2> SUFFICES ASSUME ListsInv, OneInvitePerSession, [Next]_vars
               PROVE  (ListsInv /\ OneInvitePerSession)'
    OBVIOUS
  <2>1. TypeOK /\ OldComeFirst /\ ListSettles
    BY DEF ListsInv
  <2>2. TypeOK'
    <3>1. CASE UNCHANGED vars
      BY <2>1, <3>1 DEF TypeOK, vars
    <3>2. CASE Next
      BY <2>1, <3>2, RequestsTyped, AnswersTyped, EventsTyped DEF Next
    <3> QED BY <3>1, <3>2
  <2> QED BY <2>1, <2>2, NextSettles, NextKeepsInvites DEF ListsInv
<1> QED BY <1>1, <1>2, PTL DEF Spec

\* Every change of the list is followed by a fetch that sees it, for any number
\* of fetches in flight whose answers come in any order: when all is quiet the
\* list is what the server would answer, less the sessions that ended.
THEOREM QuietListsAreCurrent == Spec => []QuietListIsCurrent
<1>1. ListsInv => QuietListIsCurrent
  <2> SUFFICES ASSUME ListsInv, Quiet, ~stale
               PROVE  active = (member \cap live) \ ended
    BY DEF QuietListIsCurrent
  <2>1. ~WillFetch /\ gets = <<>>
    BY DEF Quiet, WillFetch
  <2> QED BY <2>1 DEF ListsInv, ListSettles, Offered
<1> QED BY <1>1, ListsInvariant, PTL

\* A session is invited to at most once in the list, however often the
\* invitation is repeated, accepted, declined or withdrawn.
THEOREM InvitedOnce == Spec => []OneInvitePerSession
BY ListsInvariant, PTL
=============================================================================
