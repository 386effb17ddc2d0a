--------------------------- MODULE PromptLifecycle ---------------------------
(***************************************************************************)
(* What the data model promises of a SessionPromptResult: one application  *)
(* of a prompt, queued and then completed or failed, once; the user may     *)
(* delete it at any time.                                                  *)
(***************************************************************************)
CONSTANT ResultIds

VARIABLE state

Init == state = [r \in ResultIds |-> "absent"]

Move(r, from, to) ==
  /\ state[r] \in from
  /\ state' = [state EXCEPT ![r] = to]

Create(r) == Move(r, {"absent"}, "queued")

Settle(r) == Move(r, {"queued"}, "completed") \/ Move(r, {"queued"}, "failed")

Delete(r) == Move(r, {"queued", "completed", "failed"}, "deleted")

Next == \E r \in ResultIds : Create(r) \/ Settle(r) \/ Delete(r)

Spec == Init /\ [][Next]_state

Settles == \A r \in ResultIds : state[r] = "queued" ~> state[r] # "queued"
=============================================================================
