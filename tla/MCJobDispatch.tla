--------------------------- MODULE MCJobDispatch ---------------------------
(***************************************************************************)
(* Instances of JobDispatch for TLC.                                       *)
(***************************************************************************)
EXTENDS JobDispatch, TLC

CONSTANTS j1, j2, p1, p2, s1, s2

OneSlotEach == (s1 :> p1) @@ (s2 :> p2)
OneAtATime == [k \in Kinds |-> 1]
\* A rolling deploy: p2 registers the shorter interval.
Rollout == (p1 :> 2) @@ (p2 :> 1)
SameInterval == (p1 :> 2) @@ (p2 :> 2)
=============================================================================
