----------------------------- MODULE MCNetwork -----------------------------
(* Three ports scanned in two parts, and a network on the first. *)
EXTENDS Network

ThreePorts == 1 .. 3

OneRange == {<<1, 3>>}

OneServer == {[type |-> "VYPRESS", port |-> 1, mcast |-> TRUE]}
=============================================================================
