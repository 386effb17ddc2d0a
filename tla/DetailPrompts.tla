---------------------------- MODULE DetailPrompts ----------------------------
(***************************************************************************)
(* The prompts of a finished session on its page: the results, the one     *)
(* that is open, and asking for and deleting one.                          *)
(***************************************************************************)
EXTENDS Page, FiniteSetsExt

CONSTANTS Prompts,     \* prompts that can be applied
          MaxResults   \* results a session may have, a bound

\* Results are numbered as they are made.  A list of them has the latest first,
\* so that the set says which list it is.
Results == 1 .. MaxResults

PromptsTypeOK ==
  /\ ui \in [results : SUBSET Results, loading : BOOLEAN, error : BOOLEAN,
             active : Results \cup {None},
             options : {None} \cup SUBSET Prompts,
             selected : Prompts \cup {None}, applying : BOOLEAN,
             deleting : Results \cup {None},
             mixed : BOOLEAN]  \* history: requests that overlapped
  /\ db \in [rows : SUBSET Results, used : 0 .. MaxResults, may : BOOLEAN]

GetResults(by) == Request("results", by, None)

\* refreshPromptResults and, where the user may apply prompts,
\* refreshPromptOptions run when the page opens.
PromptsInit ==
  /\ \E n \in 0 .. 1, may \in BOOLEAN :
       /\ db = [rows |-> 1 .. n, used |-> n, may |-> may]
       /\ net = {GetResults("page")} \cup
                (IF may THEN {Request("options", "page", None)} ELSE {})
  /\ ui = [results |-> {}, loading |-> TRUE, error |-> FALSE,
           active |-> None, options |-> None, selected |-> None,
           applying |-> FALSE, deleting |-> None, mixed |-> FALSE]
  /\ acts = 0

-----------------------------------------------------------------------------
\* The server.

PromptsServed(r) ==
  /\ Sent(r)
  /\ \/ r.kind = "results" /\ Answer(r, db.rows) /\ UNCHANGED db
     \/ r.kind = "options" /\ Answer(r, Prompts) /\ UNCHANGED db
     \/ /\ r.kind = "apply" /\ db.used < MaxResults
        /\ db' = [db EXCEPT !.used = @ + 1, !.rows = @ \cup {db.used + 1}]
        /\ Answer(r, None)
     \/ /\ r.kind = "delete" /\ r.arg \in db.rows
        /\ db' = [db EXCEPT !.rows = @ \ {r.arg}]
        /\ Answer(r, None)
     \/ Refuse(r) /\ UNCHANGED db
  /\ UNCHANGED <<ui, acts>>

-----------------------------------------------------------------------------

\* The effect that keeps an existing result open.
ActiveResult(results, active) ==
  IF results = {} THEN None
  ELSE IF active \notin results THEN Max(results) ELSE active

\* The button Vernieuwen, of the panel and of the sidebar.
RefreshPromptResults ==
  /\ ~ui.loading /\ Act
  /\ ui' = [ui EXCEPT !.loading = TRUE, !.error = FALSE,
                      !.mixed = @ \/ InFlight({"results", "apply", "delete"}) # {}]
  /\ net' = net \cup {GetResults("user")}
  /\ UNCHANGED db

SelectPrompt(p) ==
  /\ db.may /\ ui.options # None /\ p \in ui.options
  /\ ui.selected # p
  /\ ui' = [ui EXCEPT !.selected = p]
  /\ UNCHANGED <<net, db, acts>>

\* The button needs a prompt and no application under way.
ApplyPrompt ==
  /\ db.may /\ ~ui.applying /\ ui.selected # None /\ Act
  /\ ui' = [ui EXCEPT !.applying = TRUE,
                      !.mixed = @ \/ InFlight({"results", "delete"}) # {}]
  /\ net' = net \cup {Request("apply", ui.selected, None)}
  /\ UNCHANGED db

SelectResult(x) ==
  /\ x \in ui.results /\ ui.active # x
  /\ ui' = [ui EXCEPT !.active = x]
  /\ UNCHANGED <<net, db, acts>>

\* Confirmed by the user.  Only the open result has the button.
DeletePromptResult ==
  /\ db.may /\ ~ui.loading /\ ui.active \notin {None, ui.deleting} /\ Act
  /\ ui' = [ui EXCEPT !.deleting = ui.active,
                      !.mixed = @ \/ InFlight({"results", "apply", "delete"}) # {}]
  /\ net' = net \cup {Request("delete", "user", ui.active)}
  /\ UNCHANGED db

-----------------------------------------------------------------------------
Done(r) == net' = Others(r) /\ UNCHANGED <<db, acts>>

\* An application waits for the results it asked for.
ResultsShown(r) ==
  LET free(u) == IF r.on = "apply" THEN [u EXCEPT !.applying = FALSE] ELSE u
  IN \/ /\ Answered(r, "results") /\ Done(r)
        /\ ui' = free([ui EXCEPT !.results = r.answer, !.loading = FALSE,
                                 !.active = ActiveResult(r.answer, @)])
     \/ /\ Refused(r, "results") /\ Done(r)
        /\ ui' = free([ui EXCEPT !.error = TRUE, !.loading = FALSE])

OptionsShown(r) ==
  \/ /\ Answered(r, "options") /\ Done(r)
     /\ ui' = [ui EXCEPT !.options = r.answer]
  \/ Refused(r, "options") /\ Done(r) /\ UNCHANGED ui

\* Mutation of PromptApplied: the results are not fetched again.
PromptAppliedUnseen(r) ==
  /\ Answered(r, "apply") \/ Refused(r, "apply")
  /\ Done(r)
  /\ ui' = [ui EXCEPT !.applying = FALSE, !.selected = None]

PromptApplied(r) ==
  \/ /\ Answered(r, "apply")
     /\ ui' = [ui EXCEPT !.selected = None, !.loading = TRUE, !.error = FALSE,
                         !.mixed = @ \/ InFlight({"results"}) # {}]
     /\ net' = Others(r) \cup {GetResults("apply")}
     /\ UNCHANGED <<db, acts>>
  \/ /\ Refused(r, "apply") /\ Done(r)
     /\ ui' = [ui EXCEPT !.applying = FALSE]

PromptResultDeleted(r) ==
  \/ /\ Answered(r, "delete") /\ Done(r)
     /\ LET results == ui.results \ {r.arg}
        IN ui' = [ui EXCEPT !.results = results, !.deleting = None,
                            !.active = ActiveResult(results, @)]
  \/ /\ Refused(r, "delete") /\ Done(r)
     /\ ui' = [ui EXCEPT !.deleting = None]

PromptsNext ==
  \/ \E r \in net : \/ PromptsServed(r) \/ ResultsShown(r) \/ OptionsShown(r)
                    \/ PromptApplied(r) \/ PromptResultDeleted(r)
  \/ RefreshPromptResults \/ ApplyPrompt \/ DeletePromptResult
  \/ \E p \in Prompts : SelectPrompt(p)
  \/ \E x \in Results : SelectResult(x)

-----------------------------------------------------------------------------

\* The list is the stored one, with what was just applied in it, when no
\* request overlapped another and the last fetch did not fail.
ResultsShownAreStored ==
  ~ui.mixed /\ ~ui.error /\ InFlight({"results", "apply", "delete"}) = {}
  => ui.results = db.rows
=============================================================================
