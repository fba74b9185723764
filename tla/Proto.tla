------------------------------- MODULE Proto -------------------------------
(***************************************************************************)
(* The packet library at work: hosts that send on the nets they have links *)
(* to (qcs_open, qcs_send, qcs_recv, qcs_close), and the signatures by     *)
(* which a Vypress Chat packet that comes twice is told from a new one.    *)
(*                                                                         *)
(* A packet is broadcast, so that its sender hears it too; it may be lost, *)
(* come late and come more than once (the old library sends it to a list   *)
(* of addresses).  The signatures of all links of a process are one list,  *)
(* and are drawn with rand(): the router calls srand() with the time it    *)
(* starts (qcrouter/src/common.c), the client never does, so that every    *)
(* client draws the same ones in the same order from its start.            *)
(*                                                                         *)
(* Abstracted: a failing socket, whose packet is a lost one; two routers   *)
(* started in the same second; two different numbers that come out as the  *)
(* same signature (one of 26^9).                                           *)
(***************************************************************************)
EXTENDS Wire

CONSTANTS
    Hosts,      \* the processes
    Lib,        \* "new" or "old": the version of the library each has
    Protos,     \* the protocols the nets may use
    Nets,       \* the nets, a port of their own each
    Window,     \* QCS_SIGNATURE_MAX_DUP: the number of signatures kept
    Usual,      \* bound: the messages of which there may be several
    MaxSent,    \* bound: the packets sent
    Copies,     \* bound: how often one packet comes to each host
    MaxStarts   \* bound: how often a host starts

ASSUME WindowAssumption == Window \in Nat \ {0}

VARIABLES
    proto,      \* link->proto
    links,      \* links[h]: the nets h has a link to (link_count is their number)
    drawn,      \* drawn[h]: how many signatures h has drawn since it started
    starts,     \* starts[h]: how often h has started
    dups,       \* dups[h]: dup_head..dup_tail, the newest first
    sent,       \* the packets in the order they were sent
    due,        \* due[i][h]: how many copies of packet i may still come to h
    heard,      \* heard[h]: the packets qcs_recv passed on since dups[h] was emptied
    last        \* last[h]: the last of all it passed on

protoVars == <<proto, links, drawn, starts, dups, sent, due, heard, last>>

None == [id |-> 0]

-----------------------------------------------------------------------------
\* The messages programs send.
Messages ==
    LET values == [src : {"ann"}, dst : {"bob"}, text : {"hi"}, supp : {"more"},
                   chan : {"Main", "Lobby"}, mode : DOMAIN ModeCode, active : BOOLEAN]
        FieldsIn(k) == FieldsOf(Makes[k])
                         \cup IF k \in {"TOPIC_CHANGE", "TOPIC_REPLY"} THEN {"chan"} ELSE {}
    IN  UNION {{[n \in {"kind"} \cup FieldsIn(k) |-> IF n = "kind" THEN k ELSE v[n]]
                  : v \in values} : k \in Kinds}

\* qcs__generate_signature
Signature(h) == IF Lib[h] = "old" THEN <<drawn[h], h, starts[h]>> ELSE <<drawn[h]>>

\* Mutant of Inserted: a full list takes no more.
InsertedIfRoom(list, sig) == IF Len(list) = Window THEN list ELSE <<sig>> \o list

\* qcs__insert_dup_entry, qcs__remove_last_entry
Inserted(list, sig) ==
    <<sig>> \o SubSeq(list, 1, IF Len(list) = Window THEN Window - 1 ELSE Len(list))

\* qcs__known_dup_entry
Known(h, sig) == proto = "vypress" /\ sig \in Range(dups[h])

\* The leave of a user from Main has everybody's signatures forgotten.
Flushes(m) == proto = "vypress" /\ m.kind = "CHANNEL_LEAVE" /\ m.chan = "Main"

-----------------------------------------------------------------------------
ProtoInit ==
    /\ proto \in Protos
    /\ links = [h \in Hosts |-> {}]
    /\ drawn = [h \in Hosts |-> 0]
    /\ starts = [h \in Hosts |-> 1]
    /\ dups = [h \in Hosts |-> <<>>]
    /\ sent = <<>>
    /\ due = <<>>
    /\ heard = [h \in Hosts |-> <<>>]
    /\ last = [h \in Hosts |-> None]

\* qcs_open: two sockets of a host cannot be bound to one port.
Open(h, n) ==
    /\ n \notin links[h]
    /\ links' = [links EXCEPT ![h] = @ \cup {n}]
    /\ UNCHANGED <<proto, drawn, starts, dups, sent, due, heard, last>>

\* qcs_close: the last link has the signatures forgotten.
Close(h, n) ==
    /\ n \in links[h]
    /\ links' = [links EXCEPT ![h] = @ \ {n}]
    /\ IF links[h] = {n}
       THEN /\ dups' = [dups EXCEPT ![h] = <<>>]
            /\ heard' = [heard EXCEPT ![h] = <<>>]
       ELSE UNCHANGED <<dups, heard>>
    /\ UNCHANGED <<proto, drawn, starts, sent, due, last>>

\* qcs_send; what cannot be made is not sent.
Send(h, n, m) ==
    /\ n \in links[h]
    /\ Makable(proto, m)
    /\ Len(sent) < MaxSent /\ \A i \in DOMAIN sent : sent[i].msg \in Usual
    /\ m \in Usual \/ sent = <<>>
    /\ sent' = Append(sent, [net |-> n, sig |-> Signature(h), lib |-> Lib[h], msg |-> m,
                             packet |-> Made(Lib[h], proto, m)])
    /\ due' = Append(due, Copies)
    /\ drawn' = [drawn EXCEPT ![h] = IF proto = "vypress" THEN @ + 1 ELSE @]
    /\ UNCHANGED <<proto, links, starts, dups, heard, last>>

\* qcs_recv of a packet whose signature is known: an INVALID message, that nobody minds.
Swallow(h, i) ==
    /\ sent[i].net \in links[h] /\ due[i][h] > 0
    /\ Known(h, sent[i].sig)
    /\ due' = [due EXCEPT ![i][h] = @ - 1]
    /\ UNCHANGED <<proto, links, drawn, starts, dups, sent, heard, last>>

\* qcs_recv of another one: it is registered and parsed.
Receive(h, i) ==
    LET m == Parsed(proto, sent[i].packet)
        forgotten == Flushes(m)
    IN  /\ sent[i].net \in links[h] /\ due[i][h] > 0
        /\ ~Known(h, sent[i].sig)
        /\ due' = [due EXCEPT ![i][h] = @ - 1]
        /\ dups' = [dups EXCEPT ![h] = IF forgotten THEN <<>>
                                       ELSE IF proto = "vypress" THEN Inserted(@, sent[i].sig)
                                       ELSE @]
        /\ heard' = [heard EXCEPT ![h] = IF forgotten THEN <<>> ELSE Append(@, i)]
        /\ last' = [last EXCEPT ![h] = [id |-> i, msg |-> m]]
        /\ UNCHANGED <<proto, links, drawn, starts, sent>>

\* The process ends, or dies, and is started again.
Restart(h) ==
    /\ starts[h] < MaxStarts
    /\ starts' = [starts EXCEPT ![h] = @ + 1]
    /\ links' = [links EXCEPT ![h] = {}]
    /\ drawn' = [drawn EXCEPT ![h] = 0]
    /\ dups' = [dups EXCEPT ![h] = <<>>]
    /\ heard' = [heard EXCEPT ![h] = <<>>]
    /\ last' = [last EXCEPT ![h] = None]
    /\ UNCHANGED <<proto, sent, due>>

ProtoNext ==
    \E h \in Hosts :
        \/ \E n \in Nets : Open(h, n) \/ Close(h, n) \/ \E m \in Messages : Send(h, n, m)
        \/ \E i \in DOMAIN sent : Swallow(h, i) \/ Receive(h, i)
        \/ Restart(h)

ProtoSpec == ProtoInit /\ [][ProtoNext]_protoVars

-----------------------------------------------------------------------------
(***************************************************************************)
(* Copies of one Vypress Chat packet, on whatever link they come and       *)
(* however late, are passed on once (qcs__known_dup_entry), unless Window  *)
(* others came in between or the signatures were forgotten: by the leave   *)
(* of anybody from Main (qcs__parse_vypress_msg), with the last link       *)
(* (qcs_close), or with the process.                                       *)
(***************************************************************************)
PassedOnOnce ==
    proto = "vypress" =>
    \A h \in Hosts : \A i, j \in DOMAIN heard[h] :
        i < j /\ heard[h][i] = heard[h][j] => j - i > Window

(***************************************************************************)
(* What is parsed is what was made: of every kind of packet, by either     *)
(* version of the library and in either protocol, every field arrives as   *)
(* it was sent.  The exception is the activity in a REFRESH_ACK of the new *)
(* library: qcs__make_qchat_msg writes a byte before it that               *)
(* qcs__parse_qchat_msg takes for it.                                      *)
(***************************************************************************)
ArrivesAsSent ==
    \A h \in Hosts : last[h] # None =>
        LET was == sent[last[h].id]
            got == last[h].msg
            overlaid == was.lib = "new" /\ was.msg.kind = "REFRESH_ACK"
        IN  /\ DOMAIN got = DOMAIN was.msg
            /\ \A n \in DOMAIN got : (overlaid /\ n = "active") \/ got[n] = was.msg[n]

(***************************************************************************)
(* Only a packet that was heard before is ignored ("duplicate encountered: *)
(* ignore", qcs__parse_vypress_msg): it does not hold of hosts that draw   *)
(* the same signatures.                                                    *)
(***************************************************************************)
OnlyDuplicatesIgnored ==
    [][\A h \in Hosts : \A i \in DOMAIN sent :
         Swallow(h, i) => i \in Range(heard[h])]_protoVars
=============================================================================
