----------------------------- MODULE RouterNet -----------------------------
(***************************************************************************)
(* Several routers, their local nets and the links between them            *)
(* (qcrouter/src: switch.c, routetbl.c, net.c, msg.c, routerconn.c,        *)
(* qcrouter.c).                                                            *)
(*                                                                         *)
(* A router attaches its local nets and calls the routers of its           *)
(* configuration while it starts, then serves its links one message at a   *)
(* time.  It keeps a route table (one entry per connection, each with the  *)
(* branches reached through it), the users it knows, and a cache of the    *)
(* message ids it has seen.  A link is a TCP connection: two FIFO queues.  *)
(*                                                                         *)
(* Abstracted: each local net has one user, named like the net, so d_net   *)
(* and d_user are one field; channels and topics are in UserCache; the     *)
(* order of the entries of a table is not modelled (no branch is in two    *)
(* entries, so no search depends on it), the order of branches is.  Ids    *)
(* are random in the code and never clash here; an id is used again only   *)
(* when no copy of its message is left.                                    *)
(***************************************************************************)
EXTENDS Naturals, Sequences, SequencesExt, FiniteSets

CONSTANTS
    Routers,    \* router ids (and processes)
    Nets,       \* ids of local nets
    Home,       \* the router each local net is configured at
    Calls,      \* <<r, s>>: the configuration of r names s
    MaxActs,    \* bound: how many times users come, go or speak
    MaxCuts,    \* bound: how many times a router loses a link or dies
    Patient,    \* TRUE: a router calls while the others enumerate no users and nobody
                \* speaks, and users speak only when no enumeration is under way
    Considerate \* TRUE: nobody is spoken to privately who has left, and nobody leaves
                \* while private words to him are on the way

Node == Routers \cup Nets
Null == "null"
BROADCAST == "broadcast"

ASSUME RouterNetAssumption ==
    /\ Routers \cap Nets = {}
    /\ Home \in [Nets -> Routers]
    /\ Calls \subseteq Routers \X Routers
    /\ MaxActs \in Nat /\ MaxCuts \in Nat
    /\ Patient \in BOOLEAN /\ Considerate \in BOOLEAN
    /\ IsFiniteSet(Routers) /\ IsFiniteSet(Nets)

\* These are no ids of nets.
ASSUME NamesAssumption == {Null, BROADCAST} \cap Node = {}

VARIABLES
    phase,      \* "off", "starting", "up" or "dead", per router
    todo,       \* configured nets a starting router has not tried yet
    table,      \* route table: table[r][c] is the branch[] of connection c
    known,      \* the user cache: nets whose user r knows
    lastId,     \* the ids the id cache of r holds besides the initial filling
    wire,       \* wire[s][r]: messages sent by s, not yet read by r
    acts, cuts  \* how many acts and cuts so far (not in the code)

vars == <<phase, todo, table, known, lastId, wire, acts, cuts>>

-----------------------------------------------------------------------------
(***************************************************************************)
(* The route table of one router.                                          *)
(***************************************************************************)

Conns(tbl) == DOMAIN tbl
BranchesOf(tbl, c) == ToSet(tbl[c])

\* routetbl_enum_root and routetbl_enum_all
Root(tbl, c) == {c} \cup BranchesOf(tbl, c)
AllNets(tbl) == UNION {Root(tbl, c) : c \in Conns(tbl)}

\* routetbl_add: an entry without branches.
AddEntry(tbl, c) == [d \in Conns(tbl) \cup {c} |-> IF d = c THEN <<>> ELSE tbl[d]]

\* routetbl_remove
Unlinked(tbl, c) == [d \in Conns(tbl) \ {c} |-> tbl[d]]

\* routetbl_add_branch: nothing, if n is a branch of any entry.
IsNewBranch(tbl, n) == \A c \in Conns(tbl) : n \notin BranchesOf(tbl, c)
AddedTwice(tbl, c, n) == [tbl EXCEPT ![c] = Append(@, n)]  \* mutant: no check
AddBranch(tbl, c, n) ==
    IF IsNewBranch(tbl, n) THEN [tbl EXCEPT ![c] = Append(@, n)] ELSE tbl

\* remove_branch: the unsigned test `left<0' never holds, so the last branch
\* goes when n is not found.
RemoveBranch(tbl, c, n) ==
    [tbl EXCEPT ![c] = IF n \in ToSet(@) THEN RemoveAt(@, SelectInSeq(@, LAMBDA b : b = n))
                       ELSE IF @ = <<>> THEN @ ELSE RemoveAt(@, Len(@))]

\* Mutant: do_near_broadcast looks at the connection's own id only.
TargetsOnlyNear(tbl, src) == Conns(tbl) \ {src}

\* do_near_broadcast: every connection but the one the source is behind.
Targets(tbl, src) == {c \in Conns(tbl) : c # src /\ src \notin BranchesOf(tbl, c)}

\* routetbl_where: a neighbour, else the connection with the branch.
Where(tbl, dst) ==
    IF dst \in Conns(tbl) THEN {dst}
    ELSE {c \in Conns(tbl) : dst \in BranchesOf(tbl, c)}

-----------------------------------------------------------------------------
(***************************************************************************)
(* Messages.  An emission is a message with the connections it is sent to; *)
(* id 0 stands for the fresh id that msg_new or idcache_assign_id draws.   *)
(***************************************************************************)

Message(type, src, dst, d) == [id |-> 0, type |-> type, src |-> src, dst |-> dst, d |-> d]

\* Mutant: the change is not broadcast.
RouteChangeKept(tbl, n, type) ==
    <<[msg |-> Message(type, n, BROADCAST, n), to |-> {}]>>

\* broadcast_route_change, with the table at the time of the call.
RouteChange(tbl, n, type) ==
    <<[msg |-> Message(type, n, BROADCAST, n), to |-> Targets(tbl, n)]>>

Ids(q) == {q[i].id : i \in DOMAIN q}
UsedIds == (UNION {Ids(wire[s][r]) : s, r \in Routers}) \cup {lastId[r] : r \in Routers}

\* The emissions with their k-th zero id replaced by the k-th smallest unused id.
WithIds(ems) ==
    LET free == (1 .. Cardinality(UsedIds) + Len(ems)) \ UsedIds
        Rank(i) == Cardinality({j \in 1 .. i : ems[j].msg.id = 0})
        Fresh(k) == CHOOSE x \in free : Cardinality({y \in free : y <= x}) = k
    IN  [i \in DOMAIN ems |-> IF ems[i].msg.id # 0 THEN ems[i]
                              ELSE [ems[i] EXCEPT !.msg.id = Fresh(Rank(i))]]

\* routerconn_send: what ends up in the queue to s.
Outgoing(ems, s) ==
    FoldLeft(LAMBDA q, e : IF s \in e.to THEN Append(q, e.msg) ELSE q, <<>>, ems)

\* r sends ems over the queues w; a peer that has given up its end of the link,
\* so that r is not in its table in tbls, never reads them.
Sent(tbls, w, r, ems) ==
    [w EXCEPT ![r] = [s \in Routers |->
        IF r \in Conns(tbls[s]) THEN w[r][s] \o Outgoing(ems, s) ELSE w[r][s]]]

-----------------------------------------------------------------------------
(***************************************************************************)
(* switch_msg: router r handles message m from connection c.               *)
(***************************************************************************)

\* parse_msg: the table, the users and the emissions after the message.
Parsed(r, c, m) ==
    LET same == [table |-> table[r], known |-> known[r], ems |-> <<>>]
    IN  CASE m.type = "NET_NEW" ->
                LET tbl == AddBranch(table[r], c, m.d)
                IN  [same EXCEPT !.table = tbl,
                         !.ems = IF tbl = table[r] THEN <<>>
                                 ELSE RouteChange(tbl, m.d, "NET_NEW")]
          [] m.type = "NET_LOST" ->
                [table |-> RemoveBranch(table[r], c, m.d),
                 known |-> known[r] \ {m.d},
                 ems   |-> RouteChange(table[r], m.d, "NET_LOST")]
          [] m.type = "USER_NEW" -> [same EXCEPT !.known = @ \cup {m.d}]
          [] m.type = "USER_LOST" -> [same EXCEPT !.known = @ \ {m.d}]
          [] m.type = "ENUM_REQUEST" ->
                LET users == SetToSeq(known[r])
                IN  [same EXCEPT !.ems =
                        [i \in DOMAIN users |->
                            [msg |-> Message("USER_NEW", r, c, users[i]),
                             to |-> Where(table[r], c)]]]
          [] OTHER -> same

\* Mutant: a broadcast stops at the first router.
ForwardNoBroadcast(r, tbl, m) ==
    IF m.dst \in {r, Null, BROADCAST} THEN <<>>
    ELSE <<[msg |-> m, to |-> Where(tbl, m.dst)]>>

\* routetbl_send of m itself: not if it is for this router or for nobody.
Forward(r, tbl, m) ==
    IF m.dst \in {r, Null} THEN <<>>
    ELSE <<[msg |-> m,
            to |-> IF m.dst = BROADCAST THEN Targets(tbl, m.src) ELSE Where(tbl, m.dst)]>>

\* Assertions of the user cache: usercache_add of a partial record for an
\* unknown user, and usercache_nickname_of (in local_send) of an unknown user.
AssertionFails(users, m, to) ==
    \/ m.type = "MODE" /\ m.d \notin users
    \/ m.type = "TEXT" /\ to \cap Nets # {} /\ m.src \notin users
    \/ m.type = "PRIVATE" /\ to \cap Nets # {} /\ ~({m.src, m.dst} \subseteq users)

\* The id cache: head is never advanced, so one id is all it remembers.
IsKnown(r, m) == m.id = lastId[r]

\* The process of r is gone: its sockets are closed, what was sent to it is lost.
Gone(r, w) ==
    /\ phase' = [phase EXCEPT ![r] = "dead"]
    /\ table' = [table EXCEPT ![r] = <<>>]
    /\ known' = [known EXCEPT ![r] = {}]
    /\ wire' = [s \in Routers |-> [w[s] EXCEPT ![r] = <<>>]]

\* The effect of switch_msg on r, and on the queues w.
Switch(w, r, c, m) ==
    IF IsKnown(r, m)
    THEN /\ wire' = w
         /\ UNCHANGED <<phase, table, known, lastId>>
    ELSE \E p \in {Parsed(r, c, m)} :
         LET fwd == Forward(r, p.table, m)
             to == UNION {e.to : e \in ToSet(fwd)}
         IN  /\ lastId' = [lastId EXCEPT ![r] = m.id]
             /\ IF AssertionFails(p.known, m, to)
                THEN Gone(r, w)
                ELSE \E ems \in {WithIds(p.ems \o fwd)} :
                       /\ table' = [table EXCEPT ![r] = p.table]
                       /\ known' = [known EXCEPT ![r] = p.known]
                       /\ wire' = Sent(table, w, r, ems)
                       /\ UNCHANGED phase

-----------------------------------------------------------------------------
(***************************************************************************)
(* Starting: do_connect opens the nets of the configuration, then the      *)
(* router begins to host and enters route_loop.                            *)
(***************************************************************************)

\* An enumeration of users is under way among the routers R: its request, or an
\* answer, is unread.
Enumerating(R) ==
    \E s, r \in R : \E i \in DOMAIN wire[s][r] :
        \/ wire[s][r][i].type = "ENUM_REQUEST"
        \/ wire[s][r][i].type = "USER_NEW" /\ wire[s][r][i].dst # BROADCAST

\* Somebody's words are on the way.
Talking ==
    \E s, r \in Routers : \E i \in DOMAIN wire[s][r] :
        wire[s][r][i].type \in {"MODE", "TEXT", "PRIVATE"}

\* Private words to the user of l are on the way.
Addressed(l) ==
    \E s, r \in Routers : \E i \in DOMAIN wire[s][r] :
        wire[s][r][i].type = "PRIVATE" /\ wire[s][r][i].dst = l

Init ==
    /\ phase = [r \in Routers |-> "off"]
    /\ todo = [r \in Routers |-> {}]
    /\ table = [r \in Routers |-> <<>>]
    /\ known = [r \in Routers |-> {}]
    /\ lastId = [r \in Routers |-> 0]
    /\ wire = [r \in Routers |-> [s \in Routers |-> <<>>]]
    /\ acts = 0 /\ cuts = 0

Boot(r) ==
    /\ phase[r] = "off"
    /\ phase' = [phase EXCEPT ![r] = "starting"]
    /\ todo' = [todo EXCEPT ![r] = {l \in Nets : Home[l] = r}
                                    \cup {s \in Routers : <<r, s>> \in Calls}]
    /\ UNCHANGED <<table, known, lastId, wire, acts, cuts>>

\* net_connect to a local net, whose handshake local_send and local_recv answer.
AttachLocal(r, l) ==
    /\ phase[r] = "starting"
    /\ l \in todo[r] \cap Nets
    /\ todo' = [todo EXCEPT ![r] = @ \ {l}]
    /\ LET tbl == AddEntry(table[r], l)
       IN  /\ table' = [table EXCEPT ![r] = tbl]
           /\ wire' = Sent(table, wire, r, WithIds(RouteChange(tbl, l, "NET_NEW")))
    /\ UNCHANGED <<phase, known, lastId, acts, cuts>>

\* exchange_routetbl: the nets listed to the peer, before its entry is made.
Listed(tbl, peer) == AllNets(tbl)

\* exchange_routetbl: the new entry for the peer, with the nets the peer listed
\* that are not a branch yet, ...
Joined(tbl, peer, nets) ==
    [AddEntry(tbl, peer) EXCEPT ![peer] = SetToSeq({n \in nets : IsNewBranch(tbl, n)})]

\* ... the changes it broadcasts on the way, ...
Announcements(tbl, nets, type) ==
    [i \in DOMAIN nets |-> Head(RouteChange(tbl, nets[i], type))]

\* ... and the request of exchange_usercache.
GreetingsUnasked(tbl, peer) ==                      \* mutant: it is forgotten
    Announcements(tbl, <<peer>> \o tbl[peer], "NET_NEW")
Greetings(tbl, peer) ==
    Announcements(tbl, <<peer>> \o tbl[peer], "NET_NEW")
    \o <<[msg |-> Message("ENUM_REQUEST", Null, Null, Null), to |-> {peer}]>>

\* r calls s, and s, in its route_loop, accepts: do_handshake at both ends.
LinkUp(r, s) ==
    /\ phase[r] = "starting" /\ phase[s] = "up"
    /\ s \in todo[r]
    /\ Patient => ~Enumerating(Routers \ {r}) /\ ~Talking
    /\ todo' = [todo EXCEPT ![r] = @ \ {s}]
    /\ LET tblR == Joined(table[r], s, Listed(table[s], r))
           tblS == Joined(table[s], r, Listed(table[r], s))
           tbls == [table EXCEPT ![r] = tblR, ![s] = tblS]
       IN \E fromR \in {Greetings(tblR, s)}, fromS \in {Greetings(tblS, r)} :
          \E all \in {WithIds(fromR \o fromS)} :
            /\ table' = tbls
            /\ wire' = Sent(tbls, Sent(tbls, wire, r, SubSeq(all, 1, Len(fromR))),
                            s, SubSeq(all, Len(fromR) + 1, Len(all)))
    /\ UNCHANGED <<phase, known, lastId, acts, cuts>>

\* connect() fails: s does not host (yet, or any more).  It is not tried again.
LinkFails(r, s) ==
    /\ phase[r] = "starting" /\ phase[s] \in {"off", "starting", "dead"}
    /\ s \in todo[r]
    /\ todo' = [todo EXCEPT ![r] = @ \ {s}]
    /\ UNCHANGED <<phase, table, known, lastId, wire, acts, cuts>>

GoUp(r) ==
    /\ phase[r] = "starting"
    /\ todo[r] = {}
    /\ phase' = [phase EXCEPT ![r] = "up"]
    /\ UNCHANGED <<todo, table, known, lastId, wire, acts, cuts>>

-----------------------------------------------------------------------------
(***************************************************************************)
(* route_loop: one message of one link, or of one local net.               *)
(***************************************************************************)

Receive(r, s) ==
    /\ phase[r] = "up"
    /\ s \in Conns(table[r]) \cap Routers
    /\ wire[s][r] # <<>>
    /\ Switch([wire EXCEPT ![s][r] = Tail(@)], r, s, Head(wire[s][r]))
    /\ UNCHANGED <<todo, acts, cuts>>

\* The user of local net l does something its router r turns into a message.
FromLocal(l, type, dst) ==
    LET r == Home[l]
        m == Head(WithIds(<<[msg |-> Message(type, l, dst, l), to |-> {}]>>)).msg
    IN  /\ phase[r] = "up" /\ l \in Conns(table[r])
        /\ acts < MaxActs
        /\ acts' = acts + 1
        /\ Switch(wire, r, l, m)
        /\ UNCHANGED <<todo, cuts>>

\* handle_new_user: the first packet of an unknown user.
SignOn(l) == l \notin known[Home[l]] /\ FromLocal(l, "USER_NEW", BROADCAST)

\* The USER_LOST behind a leave of "main", or of a user who did not answer.
SignOff(l) ==
    /\ l \in known[Home[l]]
    /\ Considerate => ~Addressed(l)
    /\ FromLocal(l, "USER_LOST", BROADCAST)

\* A change of mode, a channel text, or a private text to a user of another net.
Speak(l) ==
    /\ l \in known[Home[l]]
    /\ Patient => ~Enumerating(Routers)
    /\ \/ \E type \in {"MODE", "TEXT"} : FromLocal(l, type, BROADCAST)
       \/ \E u \in known[Home[l]] \ {l} :
             /\ Considerate => u \in known[Home[u]]
             /\ FromLocal(l, "PRIVATE", u)

\* remove_users_from: the nets whose users go with the connection c.
DesertedNear(tbl, c) == {c}                        \* mutant: without the branches
Deserted(tbl, c) == Root(tbl, c)

\* kill_net_link after poll() reported POLLHUP or POLLERR on the link to s.
Cut(r, s) ==
    /\ phase[r] = "up"
    /\ s \in Conns(table[r]) \cap Routers
    /\ cuts < MaxCuts
    /\ cuts' = cuts + 1
    /\ LET tbl == table[r]
           ems == Announcements(tbl, Append(tbl[s], s), "NET_LOST")
       IN  /\ table' = [table EXCEPT ![r] = Unlinked(tbl, s)]
           /\ known' = [known EXCEPT ![r] = @ \ Deserted(tbl, s)]
           /\ wire' = [Sent(table, wire, r, WithIds(ems)) EXCEPT ![s][r] = <<>>]
    /\ UNCHANGED <<phase, todo, lastId, acts>>

Serve(r) == \E s \in Routers : Receive(r, s)

Start(r) ==
    \/ Boot(r)
    \/ \E l \in Nets : AttachLocal(r, l)
    \/ \E s \in Routers : LinkUp(r, s)
    \/ \E s \in Routers : LinkFails(r, s)
    \/ GoUp(r)

Next ==
    \/ \E r \in Routers : Start(r)
    \/ \E r \in Routers : Serve(r)
    \/ \E l \in Nets : SignOn(l)
    \/ \E l \in Nets : SignOff(l)
    \/ \E l \in Nets : Speak(l)
    \/ \E r, s \in Routers : Cut(r, s)

\* As long as some router has a net of its configuration left to open, or an
\* unread message on a link, some router goes on.
Fairness == WF_vars(\E r \in Routers : Start(r) \/ Serve(r))

Spec == Init /\ [][Next]_vars /\ Fairness

-----------------------------------------------------------------------------
(***************************************************************************)
(* Correctness.                                                            *)
(***************************************************************************)

\* The nodes reached from the set From over the relation Step, not through Wall.
Closure(From, Step(_, _), Wall) ==
    {n \in Node : \A S \in SUBSET (Node \ Wall) :
        (/\ From \subseteq S
         /\ \A x \in S, y \in Node \ Wall : Step(x, y) => y \in S) => n \in S}

\* The configured network, and what lies beyond the neighbour c of x in it.
Adjacent(x, y) ==
    \/ <<x, y>> \in Calls \/ <<y, x>> \in Calls
    \/ x \in Nets /\ Home[x] = y
    \/ y \in Nets /\ Home[y] = x
Beyond == [x \in Node |-> [c \in Node |-> Closure({c}, Adjacent, {x} \ {c})]]

\* Both ends have the link.
Linked(x, y) ==
    \/ x \in Routers /\ y \in Routers /\ y \in Conns(table[x]) /\ x \in Conns(table[y])
    \/ x \in Routers /\ y \in Nets /\ y \in Conns(table[x])
    \/ y \in Routers /\ x \in Nets /\ x \in Conns(table[y])
Reachable(r) == Closure({r}, Linked, {}) \ {r}

Quiet == \A s, r \in Routers : wire[s][r] = <<>>

\* Routes lead the right way, each once: a branch of a connection lies beyond
\* it, whatever order changes of the network are heard in (routetbl_add_branch).
RoutesTrue ==
    \A r \in Routers : \A c \in Conns(table[r]) :
        /\ BranchesOf(table[r], c) \subseteq Beyond[r][c] \ {c}
        /\ Len(table[r][c]) = Cardinality(BranchesOf(table[r], c))

\* When all messages are read, every router has a route to all it is linked to,
\* also through routers that came up, or whose local nets came up, later.
RoutesComplete ==
    Quiet => \A r \in Routers : phase[r] = "up" => Reachable(r) \subseteq AllNets(table[r])

\* When all messages are read, every router knows the users of the nets it can
\* reach exactly as their own routers do: nobody is missing, nobody a ghost.
UsersAgree ==
    Quiet => \A r \in Routers : phase[r] = "up" =>
        \A l \in Reachable(r) \cap Nets : l \in known[r] <=> l \in known[Home[l]]

\* The cache holds no user the route table has no way to: what a lost link took
\* away is forgotten with the link, and a user is never heard of before its net.
UsersRoutable == \A r \in Routers : known[r] \subseteq AllNets(table[r])

\* A broadcast never turns back towards its source, which is what keeps a
\* network without cycles free of message loops (do_near_broadcast).
MovesAway ==
    \A s, r \in Routers : \A i \in DOMAIN wire[s][r] :
        wire[s][r][i].dst = BROADCAST => wire[s][r][i].src \in Beyond[r][s]

\* No router fails an assertion of its user cache: a router hears of a user's
\* presence before anything else of the user, and while it hears of the user.
NoAssertionFails == \A r \in Routers : phase[r] # "dead"

\* Once nothing new happens, the network falls silent, with no router stuck in
\* its start or left with an unread message.
Settles == <>[](Quiet /\ \A r \in Routers : phase[r] = "up")

\* switch_msg, "duplicate msg received: ignored": a router has registered what
\* its own local nets sent, so a copy that comes back over a link changes nothing
\* and is not sent on.
OwnMessagesIgnored ==
    [][\A r, s \in Routers :
        (Receive(r, s) /\ Head(wire[s][r]).src \in {l \in Nets : Home[l] = r}) =>
            /\ wire' = [wire EXCEPT ![s][r] = Tail(@)]
            /\ UNCHANGED <<table, known, phase>>]_vars

=============================================================================
