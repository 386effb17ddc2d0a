----------------------------- MODULE LatestView -----------------------------
(***************************************************************************)
(* What a view that is loaded for a key promises, whatever the requests do *)
(* in between: what is shown is what was asked for last, or the view says  *)
(* that it is loading or that loading failed.                              *)
(***************************************************************************)
CONSTANTS Keys, None

VARIABLES key,    \* what is to be shown, None for nothing
          shown,  \* whose content is there
          state   \* "busy", "ready" or "failed"

viewVars == <<key, shown, state>>

ViewInit ==
  /\ key \in Keys \cup {None} /\ shown = None
  /\ state = IF key = None THEN "ready" ELSE "busy"

Select(k) == key' = k /\ state' = "busy" /\ UNCHANGED shown
Close == key' = None /\ shown' = None /\ state' = "ready"
Show == state = "busy" /\ shown' = key /\ state' = "ready" /\ UNCHANGED key
Fail == state = "busy" /\ state' = "failed" /\ UNCHANGED <<key, shown>>

ViewNext == (\E k \in Keys : Select(k)) \/ Close \/ Show \/ Fail

ViewSpec == ViewInit /\ [][ViewNext]_viewVars

\* A view that is ready shows its key.
ReadyShowsKey == state = "ready" => shown = key
=============================================================================
