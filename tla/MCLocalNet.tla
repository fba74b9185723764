----------------------------- MODULE MCLocalNet -----------------------------
(***************************************************************************)
(* One client with two nicknames and one without, and a user of another    *)
(* net.                                                                    *)
(***************************************************************************)
EXTENDS LocalNet, TLC

CONSTANTS c1, c2

MCNicks == c1 :> {"ann", "anna"} @@ c2 :> {"bob"}
=============================================================================
