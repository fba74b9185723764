------------------------------- MODULE MCDesk -------------------------------
(* Two others and two windows of messages; one of the names may be ignored. *)
EXTENDS Desk
=============================================================================
