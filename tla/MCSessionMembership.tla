------------------------- MODULE MCSessionMembership -------------------------
(***************************************************************************)
(* Small instances of SessionMembership for TLC.                           *)
(***************************************************************************)
EXTENDS SessionMembership, TLC

CONSTANTS c1, c2, c3, ann, bob, cas

\* Two tabs of one user and a tab of a second user.
ThreeTabs == (c1 :> ann) @@ (c2 :> ann) @@ (c3 :> bob)

\* Sessions that allow invitations are interchangeable, and so are slots.
Symmetry == Permutations(Sessions) \cup Permutations(Posts)
=============================================================================
