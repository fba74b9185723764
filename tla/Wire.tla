-------------------------------- MODULE Wire --------------------------------
(***************************************************************************)
(* The packets of the QuickChat and Vypress Chat protocols, as the two     *)
(* versions of the packet library make and parse them: "new", which the    *)
(* client is built with (vqcc-gtk/src/libqcproto), and "old", which the    *)
(* router is (qcrouter/src/qcproto, a copy of qcproto).                    *)
(*                                                                         *)
(* A packet is the letter of its kind and its fields in order.  What a     *)
(* maker writes and what a parser reads are tables of their own, as they   *)
(* are functions of their own in the library; a parser does not look at    *)
(* what is left over.  "#chan" is a channel's name with its `#', "chan"    *)
(* one, or a list of them, without; "-" a byte and "..." a string that     *)
(* mean nothing.                                                           *)
(*                                                                         *)
(* Abstracted: text, which is one value per field; packets too long for    *)
(* one datagram; memory, of which there is enough; and packets that no     *)
(* version of the library makes, which the parsers refuse.                 *)
(***************************************************************************)
EXTENDS Naturals, Sequences, SequencesExt

\* qcs__make_qchat_msg, in the new library
Makes == [
    REFRESH_REQUEST    |-> <<"0", "src">>,
    REFRESH_ACK        |-> <<"1", "dst", "src", "mode", "-", "active">>,
    CHANNEL_BROADCAST  |-> <<"2", "#chan", "src", "text">>,
    CHANNEL_JOIN       |-> <<"4", "src", "#chan", "mode", "-">>,
    CHANNEL_LEAVE      |-> <<"5", "src", "#chan", "-">>,
    CHANNEL_ME         |-> <<"A", "#chan", "src", "text">>,
    MESSAGE_ACK        |-> <<"7", "mode", "dst", "src", "-", "text">>,
    MESSAGE_MASS       |-> <<"E", "src", "dst", "text">>,
    MESSAGE_SEND       |-> <<"6", "src", "dst", "text">>,
    RENAME             |-> <<"3", "src", "text", "-">>,
    MODE_CHANGE        |-> <<"D", "src", "mode", "-">>,
    ACTIVE_CHANGE      |-> <<"M", "src", "active">>,
    TOPIC_REPLY        |-> <<"C", "dst", "text">>,
    TOPIC_CHANGE       |-> <<"B", "text">>,
    INFO_REPLY         |-> <<"G", "dst", "src", "text", "...", "...", "...", "chan", "supp">>,
    INFO_REQUEST       |-> <<"F", "dst", "src">>,
    CHANMEMBER_REPLY   |-> <<"K", "dst", "chan", "src">>,
    CHANMEMBER_REQUEST |-> <<"L", "src">>,
    CHANLIST_REPLY     |-> <<"O", "dst", "chan">>,
    CHANLIST_REQUEST   |-> <<"N", "src">>,
    BEEP_SEND          |-> <<"H0", "dst", "src">>,
    BEEP_ACK           |-> <<"H1", "dst", "src", "-">>,
    PRIVATE_OPEN       |-> <<"J0", "src", "dst", "-">>,
    PRIVATE_CLOSE      |-> <<"J1", "src", "dst", "-">>,
    PRIVATE_TEXT       |-> <<"J2", "src", "dst", "text">>,
    PRIVATE_ME         |-> <<"J3", "src", "dst", "text">>]

Kinds == DOMAIN Makes

\* qcs__make_qchat_msg, in the old one
MakesOld == [Makes EXCEPT !.REFRESH_ACK = <<"1", "dst", "src", "mode", "active">>]

\* qcs__parse_qchat_msg, in both
Reads == [
    REFRESH_REQUEST    |-> <<"0", "src">>,
    REFRESH_ACK        |-> <<"1", "dst", "src", "mode", "active">>,
    CHANNEL_BROADCAST  |-> <<"2", "#chan", "src", "text">>,
    CHANNEL_JOIN       |-> <<"4", "src", "#chan", "mode">>,
    CHANNEL_LEAVE      |-> <<"5", "src", "#chan">>,
    CHANNEL_ME         |-> <<"A", "#chan", "src", "text">>,
    MESSAGE_ACK        |-> <<"7", "mode", "dst", "src", "-", "text">>,
    MESSAGE_MASS       |-> <<"E", "src", "dst", "text">>,
    MESSAGE_SEND       |-> <<"6", "src", "dst", "text">>,
    RENAME             |-> <<"3", "src", "text">>,
    MODE_CHANGE        |-> <<"D", "src", "mode">>,
    ACTIVE_CHANGE      |-> <<"M", "src", "active">>,
    TOPIC_REPLY        |-> <<"C", "dst", "text">>,
    TOPIC_CHANGE       |-> <<"B", "text">>,
    INFO_REPLY         |-> <<"G", "dst", "src", "text", "...", "...", "...", "chan", "supp">>,
    INFO_REQUEST       |-> <<"F", "dst", "src">>,
    CHANMEMBER_REPLY   |-> <<"K", "dst", "chan", "src">>,
    CHANMEMBER_REQUEST |-> <<"L", "src">>,
    CHANLIST_REPLY     |-> <<"O", "dst", "chan">>,
    CHANLIST_REQUEST   |-> <<"N", "src">>,
    BEEP_SEND          |-> <<"H0", "dst", "src">>,
    BEEP_ACK           |-> <<"H1", "dst", "src">>,
    PRIVATE_OPEN       |-> <<"J0", "src", "dst">>,
    PRIVATE_CLOSE      |-> <<"J1", "src", "dst">>,
    PRIVATE_TEXT       |-> <<"J2", "src", "dst", "text">>,
    PRIVATE_ME         |-> <<"J3", "src", "dst", "text">>]

\* qcs__make_vypress_msg: where Vypress Chat's packets differ, in both libraries
VypressMakes(table) == [table EXCEPT
    !.TOPIC_CHANGE = <<"B", "#chan", "text">>,
    !.TOPIC_REPLY  = <<"C", "dst", "#chan", "text">>,
    !.INFO_REPLY   = <<"G", "dst", "src", "text", "...", "...", "chan", "supp">>]

\* Mutant of VypressReads: one field of the information is not skipped.
VypressReadsOne == [Reads EXCEPT
    !.TOPIC_CHANGE = <<"B", "#chan", "text">>,
    !.TOPIC_REPLY  = <<"C", "dst", "#chan", "text">>,
    !.INFO_REPLY   = <<"G", "dst", "src", "text", "...", "chan", "supp">>]

\* qcs__parse_vypress_msg
VypressReads == [Reads EXCEPT
    !.TOPIC_CHANGE = <<"B", "#chan", "text">>,
    !.TOPIC_REPLY  = <<"C", "dst", "#chan", "text">>,
    !.INFO_REPLY   = <<"G", "dst", "src", "text", "...", "...", "chan", "supp">>]

MakersOf(lib, proto) ==
    LET table == IF lib = "old" THEN MakesOld ELSE Makes
    IN  IF proto = "vypress" THEN VypressMakes(table) ELSE table

ReadersOf(proto) == IF proto = "vypress" THEN VypressReads ELSE Reads

-----------------------------------------------------------------------------
Named(field) == IF field = "#chan" THEN "chan" ELSE field

FieldsOf(fields) == {Named(f) : f \in Range(Tail(fields))} \ {"-", "..."}

\* qcs__net_qcumode
ModeCode == [normal |-> "0", dnd |-> "1", away |-> "2", offline |-> "3"]

\* qcs__local_qcumode
ModeOf(code) == CHOOSE m \in DOMAIN ModeCode : ModeCode[m] = code

Written(f, m) ==
    CASE f \in {"-", "..."} -> "0"
      [] f = "mode"         -> ModeCode[m.mode]
      [] f = "active"       -> IF m.active THEN "1" ELSE "2"
      [] OTHER              -> m[Named(f)]

Read(f, value) ==
    CASE f = "mode"   -> ModeOf(value)
      [] f = "active" -> value = "1"
      [] OTHER        -> value

\* Topics of QuickChat are Main's, and no others are made.
Makable(proto, m) ==
    proto = "qchat" /\ m.kind \in {"TOPIC_CHANGE", "TOPIC_REPLY"} => m.chan = "Main"

Made(lib, proto, m) ==
    LET fields == MakersOf(lib, proto)[m.kind]
    IN  <<Head(fields)>> \o [i \in 1..Len(fields) - 1 |-> Written(fields[i + 1], m)]

\* The channel of a QuickChat topic is filled in.
Parsed(proto, packet) ==
    LET table == ReadersOf(proto)
        kind == CHOOSE k \in Kinds : Head(table[k]) = Head(packet)
        fields == Tail(table[kind])
        topic == proto = "qchat" /\ kind \in {"TOPIC_CHANGE", "TOPIC_REPLY"}
        ValueOf(n) ==
            IF n = "kind" THEN kind
            ELSE IF n = "chan" /\ topic THEN "Main"
            ELSE LET i == SelectInSeq(fields, LAMBDA f : Named(f) = n)
                 IN  Read(fields[i], packet[i + 1])
    IN  [n \in {"kind"} \cup FieldsOf(table[kind]) \cup (IF topic THEN {"chan"} ELSE {})
           |-> ValueOf(n)]
=============================================================================
