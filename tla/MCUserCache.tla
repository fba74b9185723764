---------------------------- MODULE MCUserCache ----------------------------
(***************************************************************************)
(* Three users on two nets, two channels and two topics: enough for a       *)
(* channel to be shared, to lose one holder of several, to be freed and to *)
(* be created again in the same or in another heap block.                  *)
(***************************************************************************)
EXTENDS UserCache, TLC

CONSTANTS u1, u2, u3, n1, n2

MCUsers == {u1, u2, u3}
MCNets == {n1, n2}
MCNetOf == (u1 :> n1) @@ (u2 :> n1) @@ (u3 :> n2)
=============================================================================
