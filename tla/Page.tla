-------------------------------- MODULE Page --------------------------------
(***************************************************************************)
(* What the pages of the browser application have in common.  The router   *)
(* mounts one page at a time: ui is the React state of that page, net the  *)
(* requests it has in flight, db what the server holds of its concern.     *)
(*                                                                         *)
(* A request is a record with a step: "sent", then "ok" with the answer or *)
(* "failed" when the server has dealt with it, and gone when the page has. *)
(* Code between two awaits is one step, with the effects React runs after  *)
(* the state it sets.                                                      *)
(***************************************************************************)
EXTENDS Naturals, Sequences, FiniteSets

CONSTANTS None,
          MaxActs  \* what the user and others do, a bound

ASSUME PageAssumption == MaxActs \in Nat

VARIABLES ui, net, db, acts

pageVars == <<ui, net, db, acts>>

Act == acts < MaxActs /\ acts' = acts + 1

Request(kind, on, arg) ==
  [kind |-> kind, on |-> on, arg |-> arg, step |-> "sent", answer |-> None]

Sent(r) == r \in net /\ r.step = "sent"
Answered(r, kind) == r \in net /\ r.kind = kind /\ r.step = "ok"
Refused(r, kind) == r \in net /\ r.kind = kind /\ r.step = "failed"

Others(r) == net \ {r}
Answer(r, answer) ==
  net' = Others(r) \cup {[r EXCEPT !.step = "ok", !.answer = answer]}
Refuse(r) == net' = Others(r) \cup {[r EXCEPT !.step = "failed"]}

\* Requests whose answer their effect will ignore, cancelled or aborted.
Without(kinds) == {r \in net : r.kind \notin kinds}

InFlight(kinds) == {r \in net : r.kind \in kinds}
=============================================================================
