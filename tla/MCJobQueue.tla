----------------------------- MODULE MCJobQueue -----------------------------
(***************************************************************************)
(* Instances of JobQueue for TLC.                                          *)
(***************************************************************************)
EXTENDS JobQueue, TLC

CONSTANTS j1, j2, p1, p2, s1, s2, s3

\* Pod p1 is a server with two slots, p2 a worker with one.
TwoPods == (s1 :> p1) @@ (s2 :> p1) @@ (s3 :> p2)
TwoPodIds == {p1, p2} \X {s1, s2, s3, NoSlot}
MixedRoles == (p1 :> "server") @@ (p2 :> "all")
NoOverride == (p1 :> {}) @@ (p2 :> {})
\* During a rolling deploy p2 does not know the new kind yet.
RollingHandlers == (p1 :> {"light", "new"}) @@ (p2 :> {"light"})
FullHandlers == (p1 :> {"light"}) @@ (p2 :> {"light"})

\* One pod with two slots.
OnePod == (s1 :> p1) @@ (s2 :> p1)
OnePodIds == {p1} \X {s1, s2, NoSlot}
OneRole == (p1 :> "all")
OneOverride == (p1 :> {})
OneHandlers == (p1 :> {"light"})

\* Two pods of one slot each.
SinglePods == (s1 :> p1) @@ (s2 :> p2)

ZeroToThree == {0, 3}
\* A server that leaves the heavy kind to a worker.
SplitRoles == (p1 :> "server") @@ (p2 :> "worker")
SplitHandlers == (p1 :> {"light", "heavy"}) @@ (p2 :> {"light", "heavy"})

JustTwo == {2}
=============================================================================
