------------------------------ MODULE MCProto ------------------------------
(***************************************************************************)
(* A router, whose packets a client hears up to two times; and two clients.*)
(***************************************************************************)
EXTENDS Proto

ARouterAndAClient == [router |-> "old", client |-> "new"]
ClientHears == [router |-> 0, client |-> 2]

Text == [kind |-> "MESSAGE_SEND", src |-> "ann", dst |-> "bob", text |-> "hi"]
Leave == [kind |-> "CHANNEL_LEAVE", src |-> "ann", chan |-> "Main"]
TextsAndLeaves == {Text, Leave}
Texts == {Text}

TwoClients == [ann |-> "new", bob |-> "new"]
Each == [ann |-> 1, bob |-> 1]
=============================================================================
