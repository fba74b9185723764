------------------------------ MODULE MCClient ------------------------------
(* Two persons and the pages of the main channel and of chats with them. *)
EXTENDS Client

PersistentChannels == <<>>

TwoPreferences == {[keep |-> TRUE, important |-> {}], [keep |-> FALSE, important |-> {"Main"}]}
=============================================================================
