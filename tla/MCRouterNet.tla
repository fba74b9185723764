---------------------------- MODULE MCRouterNet ----------------------------
(***************************************************************************)
(* Networks of two or three routers.                                       *)
(***************************************************************************)
EXTENDS RouterNet, TLC

CONSTANTS r1, r2, r3, l1, l2, l3

\* A chain: r2 and r3 call r1 or each other as the configuration says, the
\* middle router has no local net of its own.
ChainCalls == {<<r2, r1>>, <<r3, r2>>}
ChainHome == l1 :> r1 @@ l3 :> r3

\* A pair of routers with a local net each.
PairCalls == {<<r2, r1>>}
PairHome == l1 :> r1 @@ l2 :> r2

\* Two routers with a local net each, joined by a third that calls both.
JoinCalls == {<<r3, r1>>, <<r3, r2>>}
JoinHome == l1 :> r1 @@ l2 :> r2

\* A triangle: a cycle of links.
TriangleCalls == {<<r2, r1>>, <<r3, r1>>, <<r3, r2>>}
TriangleHome == l1 :> r1
=============================================================================
