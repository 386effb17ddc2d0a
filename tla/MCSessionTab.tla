---------------------------- MODULE MCSessionTab ----------------------------
(***************************************************************************)
(* TLC instances of SessionTab.                                            *)
(***************************************************************************)
EXTENDS SessionTab, TLC

\* What the user presses while an operation waits: the buttons of the same
\* operation are disabled, or give way to others.
UserOverlaps == {"create", "join"} \X {"stop", "leave"}

AudioSymmetry == Permutations(Chunks) \cup Permutations(Captures)
=============================================================================
