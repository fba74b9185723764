------------------------------ MODULE LocalNet ------------------------------
(***************************************************************************)
(* A router's connection to one local broadcast net                        *)
(* (qcrouter/src/localconn.c), with the part of the user cache that tells  *)
(* who is alive (usercache.c) and the event loop that drives both          *)
(* (process_net_event in qcrouter.c).                                      *)
(*                                                                         *)
(* The router hears the packets of the net's clients, and the packets it   *)
(* sends there itself on behalf of the users of other nets: a UDP          *)
(* broadcast comes back to its sender.  From the nicknames in them it      *)
(* makes users with ids, and asks all of them from time to time whether    *)
(* they are still there.                                                   *)
(*                                                                         *)
(* Abstracted: channels and topics (UserCache), user modes, what is said,  *)
(* and the routes of the emitted messages (RouterNet).  Private messages,  *)
(* beeps and info requests change no state here: "text" stands for any     *)
(* packet that only makes its sender known.                                *)
(***************************************************************************)
EXTENDS Naturals, Sequences, SequencesExt, FiniteSets

CONSTANTS
    Clients,        \* programs that may run on the local net
    Nicks,          \* Nicks[c]: the nicknames client c goes by
    Remotes,        \* nicknames of users of other nets
    UidModulus,     \* next_user_id is an unsigned short: 2^16
    MaxSocket,      \* bound: packets the socket buffer holds, more are dropped
    MaxLost,        \* bound: pending USER_LOST at a timeout
    MaxStays,       \* bound: how often clients come
    MaxRenames,     \* bound: how often clients rename
    MaxVisits,      \* bound: how often remote users come
    MaxTexts,       \* bound: how often users say something
    None,           \* no nickname, no packet, no net
    Unhurried       \* TRUE: a remote user is lost only after the router has read
                    \* back what it sent on the user's behalf

Router == "qcRouter_msg"

ASSUME LocalNetAssumption ==
    /\ \A c, d \in Clients : c # d => Nicks[c] \cap Nicks[d] = {}
    /\ \A c \in Clients : Nicks[c] \cap (Remotes \cup {Router}) = {}
    /\ UidModulus \in Nat \ {0} /\ Unhurried \in BOOLEAN
    /\ {MaxSocket, MaxLost, MaxStays, MaxRenames, MaxVisits, MaxTexts} \subseteq Nat

\* None is neither a net nor a packet.
ASSUME NoneAssumption ==
    LET names == (UNION {Nicks[c] : c \in Clients}) \cup Remotes \cup {Router}
    IN  None \notin {"here", "away"}
                   \cup [kind : {"text", "rename", "leave main", "leave", "ack", "ask"},
                         src : names, text : names \cup {None}]

VARIABLES
    nick,           \* the nickname of each client, None while it does not run
    asked,          \* clients that have a REFRESH_REQUEST to answer
    socket,         \* packets in the receive buffer of the link
    cache,          \* the user cache, in the order of its list
    nextUid,        \* next_user_id
    lost,           \* delayed_queue: the users whose USER_LOST is pending
    delayed,        \* delayed_qmsg: the packet put off behind a USER_NEW
    more,           \* more_msg_left: process_net_event goes on with recv()
    used            \* how often each bounded thing was done (not in the code)

vars == <<nick, asked, socket, cache, nextUid, lost, delayed, more, used>>

-----------------------------------------------------------------------------
(***************************************************************************)
(* The user cache.  A user of this net has an id <<"here", n>>.            *)
(***************************************************************************)

User(net, num, name) == [uid |-> <<net, num>>, nick |-> name, alive |-> TRUE]
NoUid == <<None, 0>>
IsLocal(uid) == uid[1] = "here"

\* usercache_uid_of: the first entry of the nickname.
UidOf(name) ==
    LET at == {i \in DOMAIN cache : cache[i].nick = name}
    IN  IF at = {} THEN NoUid
        ELSE cache[CHOOSE i \in at : \A j \in at : i <= j].uid
IsKnown(name) == UidOf(name) # NoUid

\* usercache_add with a full record: a user of that id is overwritten.
Added(u) ==
    IF \E i \in DOMAIN cache : cache[i].uid = u.uid
    THEN [i \in DOMAIN cache |->
            IF cache[i].uid = u.uid THEN [cache[i] EXCEPT !.nick = u.nick] ELSE cache[i]]
    ELSE Append(cache, u)

\* The users of the cache that are in S, in its order
Those(S) == FoldLeft(LAMBDA some, u : IF u \in S THEN Append(some, u) ELSE some, <<>>, cache)

Removed(uid) == Those({u \in Range(cache) : u.uid # uid})

Renamed(uid, name) ==
    [i \in DOMAIN cache |->
        IF cache[i].uid = uid THEN [cache[i] EXCEPT !.nick = name] ELSE cache[i]]

\* usercache_tag_alive and usercache_tag_dead_from
TaggedAlive(uid) ==
    [i \in DOMAIN cache |->
        IF cache[i].uid = uid THEN [cache[i] EXCEPT !.alive = TRUE] ELSE cache[i]]
TaggedNobody == cache                                       \* mutant: no effect
TaggedDead ==
    [i \in DOMAIN cache |->
        IF IsLocal(cache[i].uid) THEN [cache[i] EXCEPT !.alive = FALSE] ELSE cache[i]]

\* usercache_dead_users_from
Dead ==
    LET dead == Those({u \in Range(cache) : IsLocal(u.uid) /\ ~u.alive})
    IN  [i \in DOMAIN dead |-> dead[i].uid]

-----------------------------------------------------------------------------
(***************************************************************************)
(* The packets of the net.                                                 *)
(***************************************************************************)

Packet(kind, src, text) == [kind |-> kind, src |-> src, text |-> text]

\* A full buffer drops what arrives.
Buffered(buf, ps) ==
    LET room == MaxSocket - Len(buf)
    IN  buf \o SubSeq(ps, 1, IF room < Len(ps) THEN room ELSE Len(ps))

Unread(names) == \E i \in DOMAIN socket : socket[i].src \in names

Times(what, bound) == used[what] < bound /\ used' = [used EXCEPT ![what] = @ + 1]

Init ==
    /\ nick = [c \in Clients |-> None]
    /\ asked = {}
    /\ socket = <<>>
    /\ cache = <<>>
    /\ nextUid = 0
    /\ lost = <<>>
    /\ delayed = None
    /\ more = FALSE
    /\ used = [what \in {"stays", "renames", "visits", "texts"} |-> 0]

-----------------------------------------------------------------------------
(***************************************************************************)
(* The clients of the net (external): each answers the router's requests   *)
(* and speaks for itself.  No client takes a nickname another user has.    *)
(***************************************************************************)

Send(p) == Len(socket) < MaxSocket /\ socket' = Append(socket, p)

routerVars == <<cache, nextUid, lost, delayed, more>>

SignOn(c) ==
    /\ nick[c] = None
    /\ Times("stays", MaxStays)
    /\ \E name \in Nicks[c] :
          /\ nick' = [nick EXCEPT ![c] = name]
          /\ Send(Packet("text", name, None))
    /\ UNCHANGED <<routerVars, asked>>

Text(c) ==
    /\ nick[c] # None
    /\ Times("texts", MaxTexts)
    /\ Send(Packet("text", nick[c], None))
    /\ UNCHANGED <<routerVars, nick, asked>>

Rename(c) ==
    /\ nick[c] # None
    /\ Times("renames", MaxRenames)
    /\ \E name \in Nicks[c] \ {nick[c]} :
          /\ nick' = [nick EXCEPT ![c] = name]
          /\ Send(Packet("rename", nick[c], name))
    /\ UNCHANGED <<routerVars, asked>>

\* A client leaves "main", then its other channels, and ends.
SignOff(c) ==
    /\ nick[c] # None
    /\ nick' = [nick EXCEPT ![c] = None]
    /\ asked' = asked \ {c}
    /\ socket' = Buffered(socket, <<Packet("leave main", nick[c], None),
                                    Packet("leave", nick[c], None)>>)
    /\ UNCHANGED <<routerVars, used>>

\* A client ends without a word.
Vanish(c) ==
    /\ nick[c] # None
    /\ nick' = [nick EXCEPT ![c] = None]
    /\ asked' = asked \ {c}
    /\ UNCHANGED <<routerVars, socket, used>>

Answer(c) ==
    /\ c \in asked
    /\ asked' = asked \ {c}
    /\ Send(Packet("ack", nick[c], Router))
    /\ UNCHANGED <<routerVars, nick, used>>

\* A client asks who is there: the router answers for the users of other nets.
AskAround(c) ==
    /\ nick[c] # None
    /\ Times("texts", MaxTexts)
    /\ Send(Packet("ask", nick[c], None))
    /\ UNCHANGED <<routerVars, nick, asked>>

-----------------------------------------------------------------------------
(***************************************************************************)
(* local_recv, and the switch_msg of what it returns.                      *)
(***************************************************************************)

\* USER_LOST, from the queue.  The socket waits for the next poll().
Funeral ==
    /\ cache' = Removed(Head(lost))
    /\ lost' = Tail(lost)
    /\ more' = (delayed # None \/ Tail(lost) # <<>>)
    /\ UNCHANGED <<socket, nextUid, delayed>>

\* handle_new_user.  The last two kinds come after a leave of "main", or have
\* no meaning for a new user.
\* (NETCONN->delayed_qmsg is NULL here: local_recv has just taken it.)
IsNewUserOrLeaver(q) == ~IsKnown(q.src) /\ q.kind # "rename"  \* mutant: leaves count
IsNewUser(q) == ~IsKnown(q.src) /\ q.kind \notin {"leave main", "leave", "rename"}

NewUserUnflagged(q) ==                \* mutant: more_msg_left is not set
    /\ delayed' = q
    /\ nextUid' = (nextUid + 1) % UidModulus
    /\ cache' = Added(User("here", nextUid', q.src))
    /\ more' = FALSE
    /\ UNCHANGED lost
NewUserCounted(q) ==                  \* mutant: the id is the number of users
    /\ delayed' = q
    /\ nextUid' = Cardinality({i \in DOMAIN cache : IsLocal(cache[i].uid)})
    /\ cache' = Added(User("here", nextUid', q.src))
    /\ more' = TRUE
    /\ UNCHANGED lost
NewUser(q) ==
    /\ delayed' = q
    /\ nextUid' = (nextUid + 1) % UidModulus
    /\ cache' = Added(User("here", nextUid', q.src))
    /\ more' = TRUE
    /\ UNCHANGED lost

\* The packets sent for the users of other nets: REFRESH_ACK for each.
Masqueraded(q) ==
    LET others == Those({u \in Range(cache) : ~IsLocal(u.uid)})
    IN  [i \in DOMAIN others |-> Packet("ack", others[i].nick, q.src)]

\* handle_recv_refresh_ack: an answer to a request that is not the router's
\* tells nothing.
Acked(q) == IF q.text = Router THEN TaggedAlive(UidOf(q.src)) ELSE cache

\* handle_recv_channel: the leave of "main" queues the USER_LOST.
Left(q) == IF q.kind = "leave main" THEN Append(lost, UidOf(q.src)) ELSE lost

\* The handlers behind switch_qmsg, for a packet of a known user: rest is the
\* socket without the packet.
Handle(q, rest) ==
    /\ cache' = CASE q.kind = "rename" -> Renamed(UidOf(q.src), q.text)
                  [] q.kind = "ack" -> Acked(q)
                  [] OTHER -> cache
    /\ lost' = Left(q)
    /\ socket' = IF q.kind = "ask" THEN Buffered(rest, Masqueraded(q)) ELSE rest

\* Ours, or of a user of another net.
IsOwn(q) == q.src = Router \/ (IsKnown(q.src) /\ ~IsLocal(UidOf(q.src)))

\* A packet: the one put off, or the first in the socket.
Read ==
    LET q == IF delayed # None THEN delayed ELSE Head(socket)
        rest == IF delayed # None THEN socket ELSE Tail(socket)
    IN  IF IsOwn(q)
        THEN /\ socket' = rest /\ delayed' = None /\ more' = FALSE
             /\ UNCHANGED <<cache, nextUid, lost>>
        ELSE IF IsNewUser(q)
        THEN NewUser(q) /\ socket' = rest
        ELSE /\ delayed' = None
             /\ IF IsKnown(q.src) THEN Handle(q, rest)
                ELSE socket' = rest /\ UNCHANGED <<cache, lost>>
             /\ more' = (lost' # <<>>)
             /\ UNCHANGED nextUid

\* Mutant: the packets before the queue.
RecvPacketsFirst ==
    /\ more \/ socket # <<>>
    /\ IF delayed # None \/ socket # <<>> THEN Read ELSE Funeral
    /\ UNCHANGED <<nick, asked, used>>

\* One recv() of process_net_event, which poll() or more_msg_left calls for.
Recv ==
    /\ more \/ socket # <<>>
    /\ IF lost # <<>> THEN Funeral ELSE Read
    /\ UNCHANGED <<nick, asked, used>>

-----------------------------------------------------------------------------
(***************************************************************************)
(* handle_refresh_timeout, between two events of the loop.                 *)
(***************************************************************************)

\* The refresh period is longer than clients and router take to answer and to
\* read the answers of the last one.
AllAnswersRead ==
    /\ asked = {}
    /\ \A i \in DOMAIN socket : socket[i].kind # "ack"

Timeout ==
    /\ ~more
    /\ AllAnswersRead
    /\ Len(lost) <= MaxLost
    /\ lost' = lost \o Dead
    /\ cache' = TaggedDead
    /\ asked' = {c \in Clients : nick[c] # None}
    /\ socket' = Buffered(socket, <<Packet("text", Router, None)>>)
    /\ UNCHANGED <<nick, nextUid, delayed, more, used>>

-----------------------------------------------------------------------------
(***************************************************************************)
(* Messages of other routers, about users of other nets (local_send).      *)
(***************************************************************************)

RemoteVars == <<nick, asked, nextUid, lost, delayed, more>>

\* USER_NEW: nothing goes to the net.
RemoteComes(name) ==
    /\ ~more
    /\ ~IsKnown(name)
    /\ Times("visits", MaxVisits)
    /\ cache' = Added(User("away", used["visits"], name))
    /\ UNCHANGED <<RemoteVars, socket>>

\* CHANNEL_TEXT: said on the net in the user's name.
RemoteText(name) ==
    /\ ~more
    /\ ~IsLocal(UidOf(name)) /\ IsKnown(name)
    /\ Times("texts", MaxTexts)
    /\ socket' = Buffered(socket, <<Packet("text", name, None)>>)
    /\ UNCHANGED <<RemoteVars, cache>>

\* CHANNEL_LEAVE of "main".
RemoteLeaves(name) ==
    /\ ~more
    /\ ~IsLocal(UidOf(name)) /\ IsKnown(name)
    /\ Times("texts", MaxTexts)
    /\ socket' = Buffered(socket, <<Packet("leave main", name, None)>>)
    /\ UNCHANGED <<RemoteVars, cache>>

\* USER_LOST, or the loss of the user's net.
RemoteLost(name) ==
    /\ ~more
    /\ ~IsLocal(UidOf(name)) /\ IsKnown(name)
    /\ Unhurried => \A i \in DOMAIN socket :
                        socket[i].src = name => socket[i].kind = "leave main"
    /\ cache' = Removed(UidOf(name))
    /\ UNCHANGED <<RemoteVars, socket, used>>

Next ==
    \/ \E c \in Clients : SignOn(c) \/ Text(c) \/ Rename(c) \/ AskAround(c)
    \/ \E c \in Clients : SignOff(c) \/ Vanish(c) \/ Answer(c)
    \/ Recv
    \/ Timeout
    \/ \E name \in Remotes : RemoteComes(name) \/ RemoteText(name)
    \/ \E name \in Remotes : RemoteLeaves(name) \/ RemoteLost(name)

\* The event loop serves the net, the timer of the net goes off for ever, and
\* running clients answer.
Fairness ==
    /\ WF_vars(Recv) /\ WF_vars(Timeout)
    /\ \A c \in Clients : WF_vars(Answer(c))

Spec == Init /\ [][Next]_vars /\ Fairness

-----------------------------------------------------------------------------
(***************************************************************************)
(* Correctness.                                                            *)
(***************************************************************************)

EntriesOf(c) == {i \in DOMAIN cache : IsLocal(cache[i].uid) /\ cache[i].nick \in Nicks[c]}

\* A packet is put off only while recv() will be called again at once: it is
\* never left behind when the loop goes back to poll(), to be handled out of
\* order when an unrelated packet comes.
NothingLeftBehind == ~more => delayed = None

\* A client that runs, owes no answer, and whose packets have all been read is a
\* known user under its present nickname: a pending USER_LOST never overtakes
\* the answer that should have prevented it, and a rename or a new stay is never
\* confused with the last.  (One that came back after it vanished is declared
\* lost when it has said something but not answered yet: only answers count.)
SteadyClientsKnown ==
    \A c \in Clients :
        (nick[c] # None /\ ~more /\ c \notin asked /\ ~Unread(Nicks[c])) =>
            \E i \in EntriesOf(c) : cache[i].nick = nick[c]

\* A new user never takes the id of another, whose entry usercache_add would
\* overwrite, however users come, go and are lost in between.
UidsFresh ==
    [][(delayed = None /\ delayed' # None) => Len(cache') = Len(cache) + 1]_vars

\* local_recv, "ignore the msg if it came from ourselves or one of masqueraded
\* users": what the router sent for others never makes a user of this net.
NoGhosts ==
    \A i \in DOMAIN cache : IsLocal(cache[i].uid) =>
        \E c \in Clients : cache[i].nick \in Nicks[c]

\* Once clients neither come nor rename, the cache has one entry for each client
\* that runs and none for one that is gone, with or without a word.  On the way
\* there it may have several: a client that vanished and is back under another
\* nickname, or has renamed to one still in the cache.
CacheSettles ==
    <>[](\A c \in Clients :
            {cache[i].nick : i \in EntriesOf(c)} = {nick[c]} \ {None}
            /\ Cardinality(EntriesOf(c)) <= 1)
=============================================================================
