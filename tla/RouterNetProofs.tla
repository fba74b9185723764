--------------------------- MODULE RouterNetProofs ---------------------------
(***************************************************************************)
(* The route tables of any number of routers and nets whose configured     *)
(* network has no cycle (Tree).                                            *)
(*                                                                         *)
(* RoutesTrue is part of Sound, which every step keeps, cuts and deaths    *)
(* included: tables and queues speak only of nets on the right side of a   *)
(* link (RightWay, FromBehind).  What makes it inductive is that a branch  *)
(* is added behind the link the news came through, that the neighbours the *)
(* news are passed to are on the other side of it (Nested, Sides), that a  *)
(* link is made once (MadeOnce), and that nothing is unread but on a link  *)
(* the reader has (OnLinks).                                               *)
(*                                                                         *)
(* MovesAway and RoutesComplete say more than that nothing false is said:  *)
(* that all there is to say is said, and in time.  Lossless is that, as    *)
(* long as no link is cut: what s has on its side of a link its peer has,  *)
(* or will have when it has read what s has sent (AllTold), and s has told *)
(* of nothing else (OnlyTold); a net is told of before its user's acts are *)
(* passed on (ToldBefore).  For that no message may be ignored as a copy   *)
(* of one that was handled: no two copies are on their way to the same     *)
(* router, nor any to one that remembers it (Outward).  A step sends what  *)
(* it sends behind what is in the queues; LosslessStep says when that is   *)
(* enough, and there is a lemma for each kind of step.                     *)
(*                                                                         *)
(* UsersRoutable holds on top of that because a router is told of a net    *)
(* before it is told of the net's user (Routed).                           *)
(*                                                                         *)
(* That no assertion of a user cache fails, and that the caches agree when *)
(* all is read, is Informed.  Who reads what a neighbour has sent comes to *)
(* know of the users on its side just what the neighbour knows (SameUsers, *)
(* where Heeds says who is known after so many messages), unless it has    *)
(* asked and has no other link: then the answer is yet to come (AsksFirst, *)
(* RepliesPlain).  Words are sent behind the news of who speaks            *)
(* (WordsKnown), and private ones to who is there (Heeded).  For this the  *)
(* network is patient (OneAtATime), its users are considerate, and no      *)
(* router calls two (OneCall): MCRouterJoin.cfg and MCRouterPrivate.cfg    *)
(* show what happens otherwise.  A message that is handled goes to the     *)
(* tables, the caches and the queues in one way (Served), from whatever    *)
(* connection it is (Ready, Step); a lemma for each part of Informed says  *)
(* why it stays.                                                           *)
(***************************************************************************)
EXTENDS RouterNet, FiniteSetTheorems, FunctionTheorems, SequenceTheorems, TLAPS


-----------------------------------------------------------------------------
(***************************************************************************)
(* The hypothesis, and the invariants.                                     *)
(***************************************************************************)

\* The configured network has no cycle: what is beyond one neighbour is not
\* beyond another.
Tree ==
    \A x, c, d \in Node :
        Adjacent(x, c) /\ Adjacent(x, d) /\ c # d => Beyond[x][c] \cap Beyond[x][d] = {}

Types == {"NET_NEW", "NET_LOST", "USER_NEW", "USER_LOST", "ENUM_REQUEST", "MODE", "TEXT", "PRIVATE"}

Messages == [id : Nat, type : Types, src : Node \cup {Null},
             dst : Node \cup {Null, BROADCAST}, d : Node \cup {Null}]

Wires == [Routers -> [Routers -> Seq(Messages)]]

Neighbours(r) == {c \in Node : Adjacent(r, c)}

Shape ==
    /\ phase \in [Routers -> {"off", "starting", "up", "dead"}]
    /\ DOMAIN todo = Routers /\ \A r \in Routers : todo[r] \subseteq Neighbours(r)
    /\ DOMAIN table = Routers
    /\ \A r \in Routers : Conns(table[r]) \subseteq Neighbours(r) \ {r}
    /\ known \in [Routers -> SUBSET Nets]
    /\ lastId \in [Routers -> Nat]
    /\ wire \in Wires
    /\ acts \in Nat /\ cuts \in Nat

\* What a connection has as branches: what is beyond it, each once.
OnceEach(q) == \A i, j \in DOMAIN q : q[i] = q[j] => i = j

RightWay ==
    \A r \in Routers : \A c \in Conns(table[r]) :
        table[r][c] \in Seq(Beyond[r][c] \ {c}) /\ OnceEach(table[r][c])

\* A link is made once: a router that has it yet to open does not have it, nor
\* does its peer.
MadeOnce ==
    \A r \in Routers : \A c \in Node :
        phase[r] = "off" \/ (phase[r] = "starting" /\ c \in todo[r]) =>
            /\ c \notin Conns(table[r])
            /\ c \in Routers => r \notin Conns(table[c])

\* What is unread is on a link the reader has.
OnLinks ==
    \A s, r \in Routers : wire[s][r] # <<>> => s \in Conns(table[r])

\* What s may send to its neighbour r: news of nets on the side of s, and of
\* users of nets.
Fine(s, r, m) ==
    /\ m.type = "NET_NEW" => m.src = m.d /\ m.dst = BROADCAST /\ m.d \in Beyond[r][s] \ {s}
    /\ m.type = "NET_LOST" => m.src = m.d /\ m.d \in Node
    /\ m.type \in {"USER_NEW", "USER_LOST", "MODE", "TEXT", "PRIVATE"} => m.src \in Node /\ m.d \in Nets
    /\ m.type = "ENUM_REQUEST" => m.dst = Null

AllFine(w) == \A s, r \in Routers : \A i \in DOMAIN w[s][r] : Fine(s, r, w[s][r][i])

FromBehind == AllFine(wire)

Sound == Shape /\ RightWay /\ MadeOnce /\ OnLinks /\ FromBehind

\* r knows that n is behind s, or will when it has read i messages from s.
Told(T, w, r, s, n, i) ==
    \/ n \in BranchesOf(T[r], s)
    \/ \E j \in 1 .. i : w[s][r][j].type = "NET_NEW" /\ w[s][r][j].d = n

\* Both ends have the link.
Link(T, s, r) == r \in Conns(T[s]) /\ s \in Conns(T[r])

\* What s knows to be on its side of a link it has told r, ...
AllTold(T, w) ==
    \A s, r \in Routers : Link(T, s, r) =>
        \A c \in Conns(T[s]) \ {r} : \A n \in Root(T[s], c) : Told(T, w, r, s, n, Len(w[s][r]))

\* ... it has told nothing else, ...
OnlyTold(T, w) ==
    \A s, r \in Routers : Link(T, s, r) =>
        /\ BranchesOf(T[r], s) \subseteq AllNets(T[s])
        /\ \A i \in DOMAIN w[s][r] : w[s][r][i].type = "NET_NEW" => w[s][r][i].d \in AllNets(T[s])

\* ... and it has told of a net before it passes on what the net's user did.
Due(T, w, s, r, m, i) ==
    /\ m.type # "NET_LOST"
    /\ m.dst = BROADCAST /\ m.type # "NET_NEW" => Told(T, w, r, s, m.src, i)
    /\ m.dst \in Node => m.dst \in Beyond[s][r]

ToldBefore(T, w) ==
    \A s, r \in Routers : \A i \in DOMAIN w[s][r] : Due(T, w, s, r, w[s][r][i], i - 1)

\* No copy of a message is on its way to a router that has handled the message,
\* nor two copies on their way to the same router.
Unseen(lid, s, r, id) == id # 0 /\ \A q \in Routers : lid[q] = id => q \notin Beyond[s][r]

Apart(s, r, t, q) == Beyond[s][r] \cap Beyond[t][q] = {}

Outward(w, lid) ==
    /\ \A s, r \in Routers : \A i \in DOMAIN w[s][r] : Unseen(lid, s, r, w[s][r][i].id)
    /\ \A s, r, t, q \in Routers : \A i \in DOMAIN w[s][r], j \in DOMAIN w[t][q] :
           w[s][r][i].id = w[t][q][j].id => (s = t /\ r = q /\ i = j) \/ Apart(s, r, t, q)

Lossless ==
    /\ cuts = 0
    /\ AllTold(table, wire) /\ OnlyTold(table, wire) /\ ToldBefore(table, wire)
    /\ Outward(wire, lastId)

\* What Outgoing does with one emission
Queued(s, q, e) == IF s \in e.to THEN Append(q, e.msg) ELSE q

FO == INSTANCE FoldFacts WITH Op <- Queued


-----------------------------------------------------------------------------
(***************************************************************************)
(* What lies beyond a neighbour.                                           *)
(***************************************************************************)

\* Being configured together has no direction.
LEMMA AdjacentBoth == \A x, y \in Node : Adjacent(x, y) => Adjacent(y, x)
BY DEF Adjacent

\* The neighbour lies beyond itself, the node does not, and with a node its
\* neighbours do.
LEMMA BeyondFacts ==
    ASSUME NEW x \in Node, NEW c \in Node, c # x
    PROVE  /\ c \in Beyond[x][c] /\ x \notin Beyond[x][c] /\ Beyond[x][c] \subseteq Node
           /\ \A y \in Beyond[x][c], z \in Node : Adjacent(y, z) /\ z # x => z \in Beyond[x][c]
<1> DEFINE W == Node \ ({x} \ {c})
           closed(S) == {c} \subseteq S /\ \A y \in S, z \in W : Adjacent(y, z) => z \in S
<1>1. Beyond[x][c] = {n \in Node : \A S \in SUBSET W : closed(S) => n \in S}
    BY DEF Beyond, Closure
<1>2. W \in SUBSET W /\ closed(W) /\ c \in W /\ x \notin W /\ W = Node \ {x}
    OBVIOUS
<1>3. ASSUME NEW y \in Beyond[x][c], NEW z \in Node, Adjacent(y, z), z # x
      PROVE  z \in Beyond[x][c]
    <2>1. \A S \in SUBSET W : closed(S) => y \in S /\ z \in W /\ z \in S
        BY <1>1, <1>2, <1>3
    <2> HIDE DEF closed, W
    <2>2. QED
        BY <1>1, <2>1
<1>4. c \in Beyond[x][c]
    BY <1>1
<1>5. x \notin Beyond[x][c] /\ Beyond[x][c] \subseteq Node
    <2> HIDE DEF closed, W
    <2>1. QED
        BY <1>1, <1>2
<1>6. QED
    BY <1>3, <1>4, <1>5

\* It is the least such set.
LEMMA BeyondLeast ==
    ASSUME NEW x \in Node, NEW c \in Node, c # x, NEW S \in SUBSET (Node \ {x}), c \in S,
           \A y \in S, z \in Node : Adjacent(y, z) /\ z # x => z \in S
    PROVE  Beyond[x][c] \subseteq S
<1>1. Beyond[x][c] = {n \in Node : \A T \in SUBSET (Node \ ({x} \ {c})) :
          (/\ {c} \subseteq T
           /\ \A y \in T, z \in Node \ ({x} \ {c}) : Adjacent(y, z) => z \in T) => n \in T}
    BY DEF Beyond, Closure
<1>2. Node \ ({x} \ {c}) = Node \ {x}
    OBVIOUS
<1>3. /\ {c} \subseteq S
      /\ \A y \in S, z \in Node \ {x} : Adjacent(y, z) => z \in S
    OBVIOUS
<1>4. QED
    BY <1>1, <1>2, <1>3

\* The two sides of a link have nothing in common.
LEMMA Sides ==
    ASSUME Tree, NEW r \in Node, NEW s \in Node, r # s, Adjacent(r, s)
    PROVE  Beyond[s][r] \cap Beyond[r][s] = {}
<1> DEFINE S == Beyond[s][r] \ Beyond[r][s]
<1>1. /\ r \in Beyond[s][r] /\ s \notin Beyond[s][r] /\ Beyond[s][r] \subseteq Node
      /\ \A y \in Beyond[s][r], z \in Node : Adjacent(y, z) /\ z # s => z \in Beyond[s][r]
    BY BeyondFacts
<1>2. /\ s \in Beyond[r][s] /\ r \notin Beyond[r][s]
      /\ \A y \in Beyond[r][s], z \in Node : Adjacent(y, z) /\ z # r => z \in Beyond[r][s]
    BY BeyondFacts
<1>3. S \in SUBSET (Node \ {s}) /\ r \in S
    BY <1>1, <1>2
<1>4. ASSUME NEW y \in S, NEW z \in Node, Adjacent(y, z), z # s
      PROVE  z \in S
    <2>1. z \in Beyond[s][r] /\ y \in Node
        BY <1>1, <1>4
    <2>2. CASE y = r
        <3>1. CASE z = r
            BY <1>3, <3>1
        <3>2. CASE z # r
            <4>1. z \in Beyond[r][z]
                BY <3>2, BeyondFacts
            <4>2. Beyond[r][z] \cap Beyond[r][s] = {}
                BY <1>4, <2>2 DEF Tree
            <4>3. QED
                BY <2>1, <4>1, <4>2
        <3>3. QED
            BY <3>1, <3>2
    <2>3. CASE y # r
        <3>1. Adjacent(z, y)
            BY <1>4, <2>1, AdjacentBoth
        <3>2. z \in Beyond[r][s] => y \in Beyond[r][s]
            BY <1>2, <2>1, <2>3, <3>1
        <3>3. QED
            BY <2>1, <3>2
    <2>4. QED
        BY <2>2, <2>3
<1>5. Beyond[s][r] \subseteq S
    <2> HIDE DEF S
    <2>1. QED
        BY <1>3, <1>4, BeyondLeast
<1>6. QED
    BY <1>5

\* What lies beyond a neighbour of r lies beyond r for any other.
LEMMA Nested ==
    ASSUME Tree, NEW s \in Node, NEW r \in Node, NEW c \in Node,
           r # s, c # r, c # s, Adjacent(r, s), Adjacent(r, c)
    PROVE  Beyond[r][c] \subseteq Beyond[s][r] \ {r}
<1> DEFINE S == Beyond[s][r] \cap Beyond[r][c]
<1>1. /\ r \in Beyond[s][r] /\ s \notin Beyond[s][r] /\ Beyond[s][r] \subseteq Node
      /\ \A y \in Beyond[s][r], z \in Node : Adjacent(y, z) /\ z # s => z \in Beyond[s][r]
    BY BeyondFacts
<1>2. /\ c \in Beyond[r][c] /\ r \notin Beyond[r][c]
      /\ \A y \in Beyond[r][c], z \in Node : Adjacent(y, z) /\ z # r => z \in Beyond[r][c]
    BY BeyondFacts
<1>3. s \notin Beyond[r][c]
    <2>1. s \in Beyond[r][s]
        BY BeyondFacts
    <2>2. QED
        BY <2>1 DEF Tree
<1>4. S \in SUBSET (Node \ {r}) /\ c \in S
    BY <1>1, <1>2
<1>5. ASSUME NEW y \in S, NEW z \in Node, Adjacent(y, z), z # r
      PROVE  z \in S
    BY <1>1, <1>2, <1>3, <1>5
<1>6. Beyond[r][c] \subseteq S
    <2> HIDE DEF S
    <2>1. QED
        BY <1>4, <1>5, BeyondLeast
<1>7. QED
    BY <1>2, <1>6

-----------------------------------------------------------------------------
(***************************************************************************)
(* Sequences.                                                              *)
(***************************************************************************)

\* The elements of a finite set, each once
LEMMA Enumerated ==
    ASSUME NEW S, IsFiniteSet(S)
    PROVE  /\ SetToSeq(S) \in Seq(S)
           /\ OnceEach(SetToSeq(S)) /\ ToSet(SetToSeq(S)) = S
<1> DEFINE n == Cardinality(S)
           s == SetToSeq(S)
<1>1. n \in Nat /\ ExistsBijection(1 .. n, S)
    BY FS_CardinalityType
<1>2. PICK f : f \in Bijection(1 .. n, S)
    BY <1>1 DEF ExistsBijection
<1>3. f \in [1 .. n -> S] /\ \A a, b \in 1 .. n : f[a] = f[b] => a = b
    BY <1>2 DEF Bijection, Injection, IsInjective
<1>4. s \in [1 .. n -> S] /\ IsInjective(s)
    <2>1. \E g \in [1 .. n -> S] : IsInjective(g)
        BY <1>3 DEF IsInjective
    <2>2. QED
        BY <2>1 DEF SetToSeq
<1> HIDE DEF n, s
<1>5. s \in Seq(S) /\ Len(s) = n /\ DOMAIN s = 1 .. n
    BY <1>1, <1>4
<1>6. OnceEach(s)
    BY <1>4, <1>5 DEF OnceEach, IsInjective
<1>7. S \subseteq ToSet(s)
    <2> SUFFICES ASSUME NEW x \in S, x \notin ToSet(s) PROVE FALSE
        OBVIOUS
    <2>1. IsFiniteSet(S \ {x}) /\ Cardinality(S \ {x}) = n - 1
        BY FS_RemoveElement DEF n
    <2>2. s \in [1 .. n -> S \ {x}]
        BY <1>4, <1>5 DEF ToSet
    <2>3. IsFiniteSet(1 .. n) /\ Cardinality(1 .. n) = n
        BY <1>1, FS_Interval
    <2>4. \E a, b \in 1 .. n : a # b /\ s[a] = s[b]
        BY <1>1, <2>1, <2>2, <2>3, FS_PigeonHole
    <2>5. QED
        BY <1>4, <1>5, <2>4 DEF IsInjective
<1>8. ToSet(s) = S
    BY <1>5, <1>7 DEF ToSet
<1>9. QED
    BY <1>5, <1>6, <1>8 DEF s

\* One element more
LEMMA AppendedTo ==
    ASSUME NEW T, NEW q \in Seq(T), NEW e \in T
    PROVE  /\ Append(q, e) \in Seq(T) /\ Len(Append(q, e)) = Len(q) + 1
           /\ Append(q, e)[Len(q) + 1] = e /\ \A i \in 1 .. Len(q) : Append(q, e)[i] = q[i]
           /\ ToSet(Append(q, e)) = ToSet(q) \cup {e}
           /\ OnceEach(q) /\ e \notin ToSet(q) => OnceEach(Append(q, e))
<1> DEFINE p == Append(q, e)
           n == Len(q)
<1>1. /\ p \in Seq(T) /\ Len(p) = n + 1 /\ DOMAIN p = 1 .. n + 1 /\ DOMAIN q = 1 .. n /\ n \in Nat
      /\ p[n + 1] = e /\ \A i \in 1 .. n : p[i] = q[i]
    OBVIOUS
<1> HIDE DEF p, n
<1>2. ToSet(p) = ToSet(q) \cup {e}
    BY <1>1 DEF ToSet
<1>3. OnceEach(q) /\ e \notin ToSet(q) => OnceEach(p)
    BY <1>1 DEF OnceEach, ToSet
<1>4. QED
    BY <1>1, <1>2, <1>3 DEF p, n

\* One taken out
LEMMA TakenOut ==
    ASSUME NEW S, NEW s \in Seq(S), NEW i \in 1 .. Len(s)
    PROVE  /\ RemoveAt(s, i) \in Seq(S) /\ Len(RemoveAt(s, i)) = Len(s) - 1
           /\ \A j \in 1 .. Len(s) - 1 : RemoveAt(s, i)[j] = IF j < i THEN s[j] ELSE s[j + 1]
<1> DEFINE n == Len(s)
           a == SubSeq(s, 1, i - 1)
           c == SubSeq(s, i + 1, n)
<1>1. n \in Nat /\ i \in Int /\ n \in Int /\ i - 1 \in Int /\ i + 1 \in Int
    OBVIOUS
<1>2. a \in Seq(S) /\ Len(a) = i - 1 /\ \A j \in 1 .. i - 1 : a[j] = s[j]
    BY <1>1, SubSeqProperties
<1>3. c \in Seq(S) /\ Len(c) = n - i /\ \A j \in 1 .. n - i : c[j] = s[i + j]
    <2>1. \A j \in i + 1 .. n : s[j] \in S
        OBVIOUS
    <2>2. c \in Seq(S) /\ Len(c) = (IF i + 1 <= n THEN n - (i + 1) + 1 ELSE 0)
          /\ \A j \in 1 .. n - (i + 1) + 1 : c[j] = s[(i + 1) + j - 1]
        BY <1>1, <2>1, SubSeqProperties
    <2>3. \A j \in 1 .. n - i : (i + 1) + j - 1 = i + j /\ j \in 1 .. n - (i + 1) + 1
        BY <1>1
    <2> HIDE DEF c
    <2>4. QED
        BY <1>1, <2>2, <2>3
<1>4. RemoveAt(s, i) = a \o c
    BY DEF RemoveAt
<1> HIDE DEF a, c
<1>5. /\ a \o c \in Seq(S) /\ Len(a \o c) = n - 1
      /\ \A j \in 1 .. n - 1 : (a \o c)[j] = IF j <= i - 1 THEN a[j] ELSE c[j - (i - 1)]
    <2>1. Len(a) + Len(c) = n - 1
        BY <1>1, <1>2, <1>3
    <2> DEFINE ac == a \o c
    <2>2. /\ ac \in Seq(S) /\ Len(ac) = Len(a) + Len(c)
          /\ \A j \in 1 .. Len(a) + Len(c) : ac[j] = IF j <= Len(a) THEN a[j] ELSE c[j - Len(a)]
        BY <1>2, <1>3, ConcatProperties
    <2> HIDE DEF ac
    <2>3. /\ ac \in Seq(S) /\ Len(ac) = n - 1
          /\ \A j \in 1 .. n - 1 : ac[j] = IF j <= i - 1 THEN a[j] ELSE c[j - (i - 1)]
        BY <1>2, <2>1, <2>2
    <2>4. QED
        BY <2>3 DEF ac
<1>6. ASSUME NEW j \in 1 .. n - 1 PROVE (a \o c)[j] = IF j < i THEN s[j] ELSE s[j + 1]
    <2>1. CASE j < i
        BY <2>1, <1>2, <1>5
    <2>2. CASE j >= i
        <3>1. j - (i - 1) \in 1 .. n - i /\ i + (j - (i - 1)) = j + 1 /\ ~(j <= i - 1)
            BY <2>2, <1>1
        <3>2. QED
            BY <2>2, <3>1, <1>3, <1>5
    <2>3. j < i \/ j >= i
        OBVIOUS
    <2>4. QED
        BY <2>1, <2>2, <2>3, Zenon
<1>7. QED
    BY <1>4, <1>5, <1>6

\* remove_branch leaves of the branches some, each once.
LEMMA BranchRemoved ==
    ASSUME NEW T, NEW tbl, NEW c \in DOMAIN tbl, tbl[c] \in Seq(T), OnceEach(tbl[c]), NEW n
    PROVE  /\ Conns(RemoveBranch(tbl, c, n)) = Conns(tbl)
           /\ \A d \in Conns(tbl) \ {c} : RemoveBranch(tbl, c, n)[d] = tbl[d]
           /\ RemoveBranch(tbl, c, n)[c] \in Seq(T) /\ OnceEach(RemoveBranch(tbl, c, n)[c])
<1> DEFINE q == tbl[c]
           I == {i \in 1 .. Len(q) : q[i] = n}
           at == SelectInSeq(q, LAMBDA b : b = n)
           new == RemoveBranch(tbl, c, n)
<1>1. q \in Seq(T) /\ Len(q) \in Nat /\ DOMAIN q = 1 .. Len(q)
    OBVIOUS
<1>2. at = IF I # {} THEN Min(I) ELSE 0
    BY DEF SelectInSeq
<1>3. /\ Conns(new) = Conns(tbl) /\ \A d \in Conns(tbl) \ {c} : new[d] = tbl[d]
      /\ new[c] = IF n \in ToSet(q) THEN RemoveAt(q, at) ELSE IF q = <<>> THEN q ELSE RemoveAt(q, Len(q))
    BY DEF RemoveBranch, Conns
<1> HIDE DEF q, new, at
<1>4. ASSUME NEW i \in 1 .. Len(q) PROVE RemoveAt(q, i) \in Seq(T) /\ OnceEach(RemoveAt(q, i))
    <2> DEFINE p == RemoveAt(q, i)
    <2>1. /\ p \in Seq(T) /\ Len(p) = Len(q) - 1
          /\ \A j \in 1 .. Len(q) - 1 : p[j] = IF j < i THEN q[j] ELSE q[j + 1]
        BY <1>1, TakenOut
    <2> HIDE DEF p
    <2>2. OnceEach(p)
        <3> SUFFICES ASSUME NEW j \in 1 .. Len(q) - 1, NEW k \in 1 .. Len(q) - 1, p[j] = p[k] PROVE j = k
            BY <2>1 DEF OnceEach
        <3> DEFINE J == IF j < i THEN j ELSE j + 1
                   K == IF k < i THEN k ELSE k + 1
        <3>1. J \in 1 .. Len(q) /\ K \in 1 .. Len(q) /\ p[j] = q[J] /\ p[k] = q[K]
            BY <1>1, <2>1
        <3>2. J = K
            BY <1>1, <3>1 DEF OnceEach, q
        <3>3. QED
            BY <3>2
    <2>3. QED
        BY <2>1, <2>2 DEF p
<1>5. CASE n \in ToSet(q)
    <2>1. I # {} /\ I \in SUBSET Nat
        BY <1>1, <1>5 DEF ToSet
    <2>2. \E i \in I : \A j \in I : i <= j
        <3> HIDE DEF I
        <3>1. QED
            BY <2>1, FO!Least
    <2>3. at \in I
        BY <1>2, <2>1, <2>2 DEF Min
    <2>4. new[c] \in Seq(T) /\ OnceEach(new[c])
        BY <1>3, <1>4, <1>5, <2>3
    <2>5. QED
        BY <1>3, <2>4 DEF new
<1>6. CASE n \notin ToSet(q)
    <2>1. CASE q = <<>>
        BY <1>1, <1>3, <1>6, <2>1 DEF new, q
    <2>2. CASE q # <<>>
        <3>1. Len(q) \in 1 .. Len(q)
            BY <1>1, <2>2
        <3>2. new[c] \in Seq(T) /\ OnceEach(new[c])
            BY <1>3, <1>4, <1>6, <2>2, <3>1
        <3>3. QED
            BY <1>3, <3>2 DEF new
    <2>3. QED
        BY <2>1, <2>2
<1>7. QED
    BY <1>5, <1>6

-----------------------------------------------------------------------------
(***************************************************************************)
(* What is sent.                                                           *)
(***************************************************************************)

Emissions == [msg : Messages, to : SUBSET Node]

\* q is made of those of the first n emissions E that go to s, in their order.
Picks(q, E, s, n) ==
    \E f \in [1 .. Len(q) -> 1 .. n] :
        /\ \A a \in 1 .. Len(q) : q[a] = E[f[a]].msg /\ s \in E[f[a]].to
        /\ \A a, b \in 1 .. Len(q) : f[a] = f[b] => a = b
        /\ \A i \in 1 .. n : s \in E[i].to => \E a \in 1 .. Len(q) : f[a] = i

\* The fold's next step picks the next emission, if it is for s.
LEMMA PicksOne ==
    ASSUME NEW E \in Seq(Emissions), NEW s, NEW n \in 1 .. Len(E),
           NEW q \in Seq(Messages), Picks(q, E, s, n - 1)
    PROVE  Queued(s, q, E[n]) \in Seq(Messages) /\ Picks(Queued(s, q, E[n]), E, s, n)
<1> DEFINE k == Len(q)
           e == E[n]
           m == e.msg
           p == Append(q, m)
<1>1. PICK f \in [1 .. k -> 1 .. n - 1] :
          /\ \A a \in 1 .. k : q[a] = E[f[a]].msg /\ s \in E[f[a]].to
          /\ \A a, b \in 1 .. k : f[a] = f[b] => a = b
          /\ \A i \in 1 .. n - 1 : s \in E[i].to => \E a \in 1 .. k : f[a] = i
    BY DEF Picks
<1>2. k \in Nat /\ n \in Nat /\ n >= 1 /\ m \in Messages
    <2>1. e \in Emissions
        OBVIOUS
    <2>2. m \in Messages
        BY <2>1 DEF Emissions
    <2>3. QED
        BY <2>2
<1> HIDE DEF k, e, m
<1>3. CASE s \in e.to
    <2> DEFINE g == [a \in 1 .. k + 1 |-> IF a = k + 1 THEN n ELSE f[a]]
    <2>1. /\ p \in Seq(Messages) /\ Len(p) = k + 1 /\ p[k + 1] = m /\ \A a \in 1 .. k : p[a] = q[a]
        BY <1>2, AppendedTo DEF k
    <2>2. g \in [1 .. k + 1 -> 1 .. n] /\ g[k + 1] = n /\ \A a \in 1 .. k : g[a] = f[a] /\ g[a] \in 1 .. n - 1
        BY <1>1, <1>2
    <2> HIDE DEF g, p
    <2>3. \A a \in 1 .. k + 1 : p[a] = E[g[a]].msg /\ s \in E[g[a]].to
        BY <1>1, <1>2, <1>3, <2>1, <2>2 DEF e, m
    <2>4. \A a, b \in 1 .. k + 1 : g[a] = g[b] => a = b
        <3>1. \A a \in 1 .. k + 1 : a = k + 1 \/ a \in 1 .. k
            BY <1>2
        <3>2. \A a \in 1 .. k : g[a] # n
            BY <1>2, <2>2
        <3>3. \A a, b \in 1 .. k : g[a] = g[b] => a = b
            BY <1>1, <2>2
        <3>4. QED
            BY <2>2, <3>1, <3>2, <3>3, Zenon
    <2>5. \A i \in 1 .. n : s \in E[i].to => \E a \in 1 .. k + 1 : g[a] = i
        <3> TAKE i \in 1 .. n
        <3> HAVE s \in E[i].to
        <3>1. CASE i = n
            BY <1>2, <2>2, <3>1
        <3>2. CASE i # n
            <4>1. PICK a \in 1 .. k : f[a] = i
                BY <1>1, <1>2, <3>2
            <4>2. a \in 1 .. k + 1 /\ g[a] = i
                BY <1>2, <2>2, <4>1
            <4>3. QED
                BY <4>2
        <3>3. QED
            BY <3>1, <3>2
    <2>6. Picks(p, E, s, n)
        <3>1. k + 1 = Len(p)
            BY <2>1
        <3>2. g \in [1 .. Len(p) -> 1 .. n]
            BY <2>2, <3>1
        <3>3. /\ \A a \in 1 .. Len(p) : p[a] = E[g[a]].msg /\ s \in E[g[a]].to
              /\ \A a, b \in 1 .. Len(p) : g[a] = g[b] => a = b
              /\ \A i \in 1 .. n : s \in E[i].to => \E a \in 1 .. Len(p) : g[a] = i
            BY <2>3, <2>4, <2>5, <3>1
        <3>4. QED
            BY <3>2, <3>3 DEF Picks
    <2>7. Queued(s, q, e) = p
        BY <1>3 DEF Queued, p, m
    <2>8. QED
        BY <2>1, <2>6, <2>7 DEF e
<1>4. CASE s \notin e.to
    <2>1. Queued(s, q, e) = q
        BY <1>4 DEF Queued
    <2>2. f \in [1 .. k -> 1 .. n]
        BY <1>1, <1>2
    <2>3. \A i \in 1 .. n : s \in E[i].to => \E a \in 1 .. k : f[a] = i
        BY <1>1, <1>2, <1>4 DEF e
    <2>4. Picks(q, E, s, n)
        BY <1>1, <2>2, <2>3 DEF Picks, k
    <2>5. QED
        BY <2>1, <2>4 DEF e
<1>5. QED
    BY <1>3, <1>4

\* A queue gets the emissions that go to its reader.
LEMMA OutgoingPicks ==
    ASSUME NEW E \in Seq(Emissions), NEW s
    PROVE  Outgoing(E, s) \in Seq(Messages) /\ Picks(Outgoing(E, s), E, s, Len(E))
<1> DEFINE n == Len(E)
           J == [i \in 0 .. n |-> {q \in Seq(Messages) : Picks(q, E, s, i)}]
<1>1. Outgoing(E, s) = FO!Fold(s, <<>>, E)
    BY DEF Outgoing, FO!Fold, Queued, FoldLeft, FO!FoldLeft, MapThenFoldSet, FO!MapThenFoldSet, Max, FO!Max
<1>2. n \in Nat
    OBVIOUS
<1>3. <<>> \in J[0]
    <2> DEFINE q == <<>>
    <2>1. q \in Seq(Messages) /\ Len(q) = 0
        OBVIOUS
    <2> HIDE DEF q
    <2> DEFINE f == [a \in 1 .. 0 |-> 0]
    <2>2. f \in [1 .. Len(q) -> 1 .. 0]
        BY <2>1
    <2>3. \A a \in 1 .. Len(q) : FALSE
        BY <2>1
    <2>4. \A i \in 1 .. 0 : FALSE
        OBVIOUS
    <2>5. Picks(q, E, s, 0)
        BY <2>2, <2>3, <2>4 DEF Picks
    <2>6. QED
        BY <1>2, <2>1, <2>5 DEF q
<1>4. ASSUME NEW i \in 1 .. n, NEW x \in J[i - 1] PROVE Queued(s, x, E[i]) \in J[i]
    <2>1. i - 1 \in 0 .. n /\ i \in 0 .. n
        BY <1>2
    <2>2. x \in Seq(Messages) /\ Picks(x, E, s, i - 1)
        BY <2>1
    <2>3. Queued(s, x, E[i]) \in Seq(Messages) /\ Picks(Queued(s, x, E[i]), E, s, i)
        BY <2>2, PicksOne
    <2>4. QED
        BY <2>1, <2>3
<1>5. FO!Fold(s, <<>>, E) \in J[n]
    <2> HIDE DEF J
    <2>1. QED
        BY <1>3, <1>4, FO!FoldChain
<1>6. n \in 0 .. n
    BY <1>2
<1>7. QED
    BY <1>1, <1>5, <1>6

-----------------------------------------------------------------------------
(***************************************************************************)
(* Ids of messages.                                                        *)
(***************************************************************************)

\* The k-th smallest element of a set
LEMMA KthSmallest ==
    ASSUME NEW A \in SUBSET Nat, IsFiniteSet(A)
    PROVE  \A k \in 1 .. Cardinality(A) : \E x \in A : Cardinality({y \in A : y <= x}) = k
<1> DEFINE N == Cardinality(A)
           upTo(x) == {y \in A : y <= x}
           P == {k \in Nat : k + 1 <= N => \E x \in A : Cardinality(upTo(x)) = k + 1}
<1>1. N \in Nat
    BY FS_CardinalityType
<1>2. 0 \in P
    <2> SUFFICES ASSUME 1 <= N PROVE \E x \in A : Cardinality(upTo(x)) = 1
        BY <1>1
    <2>1. A # {}
        BY FS_EmptySet
    <2>2. PICK x \in A : \A y \in A : x <= y
        BY <2>1, FO!Least
    <2>3. \A y : y \in upTo(x) <=> y = x
        <3>1. \A y \in A : y \in Nat /\ x \in Nat /\ x <= y
            BY <2>2
        <3>2. \A y \in A : y <= x <=> y = x
            BY <3>1
        <3>3. QED
            BY <3>2
    <2>4. upTo(x) = {x}
        <3> HIDE DEF upTo
        <3>1. QED
            BY <2>3
    <2>5. Cardinality(upTo(x)) = 1
        BY <2>4, FS_Singleton
    <2>6. QED
        BY <2>5
<1>3. ASSUME NEW k \in Nat, k \in P PROVE k + 1 \in P
    <2> SUFFICES ASSUME k + 2 <= N PROVE \E x \in A : Cardinality(upTo(x)) = k + 2
        BY <1>1
    <2>1. PICK x \in A : Cardinality(upTo(x)) = k + 1
        BY <1>1, <1>3
    <2> DEFINE X == upTo(x)
               B == A \ X
    <2>2. X # A
        <3>1. Cardinality(X) # Cardinality(A)
            BY <1>1, <2>1
        <3> HIDE DEF X
        <3>2. QED
            BY <3>1
    <2>3. B # {} /\ B \in SUBSET Nat
        BY <2>2
    <2>4. PICK z \in B : \A y \in B : z <= y
        <3> HIDE DEF B
        <3>1. QED
            BY <2>3, FO!Least
    <2>5. z \in A /\ z > x
        BY <2>4
    <2>6. ASSUME NEW y \in A PROVE y <= z <=> (y <= x \/ y = z)
        <3>1. CASE y <= x
            BY <2>5, <3>1
        <3>2. CASE ~(y <= x)
            <4>1. y \in B
                BY <3>2
            <4>2. z <= y
                BY <2>4, <4>1
            <4>3. QED
                BY <2>5, <3>2, <4>2
        <3>3. QED
            BY <3>1, <3>2
    <2>7. z \notin X
        OBVIOUS
    <2>8. upTo(z) = X \cup {z}
        <3>1. \A y : y \in upTo(z) <=> y \in X \/ y = z
            BY <2>5, <2>6
        <3> HIDE DEF upTo, X
        <3>2. QED
            BY <3>1
    <2>9. IsFiniteSet(X)
        BY FS_Subset
    <2> HIDE DEF X
    <2>10. Cardinality(X \cup {z}) = Cardinality(X) + 1
        BY <2>7, <2>9, FS_AddElement
    <2>11. Cardinality(upTo(z)) = k + 2
        BY <2>1, <2>8, <2>10 DEF X
    <2>12. QED
        BY <2>5, <2>11
<1>4. \A k \in Nat : k \in P
    <2> HIDE DEF P
    <2>1. QED
        BY <1>2, <1>3, FO!NatSetInduction
<1>5. QED
    <2> TAKE k \in 1 .. N
    <2>1. k - 1 \in Nat /\ (k - 1) + 1 = k /\ k <= N
        BY <1>1
    <2>2. k - 1 \in P
        BY <1>4, <2>1
    <2>3. QED
        BY <2>1, <2>2

\* There are as many unused ids as are asked for.
LEMMA EnoughIds ==
    ASSUME NEW U \in SUBSET Nat, IsFiniteSet(U), NEW n \in Nat
    PROVE  LET free == (1 .. Cardinality(U) + n) \ U
           IN  IsFiniteSet(free) /\ Cardinality(free) \in Nat /\ n <= Cardinality(free)
<1> DEFINE u == Cardinality(U)
           all == 1 .. u + n
           free == all \ U
<1>1. u \in Nat
    BY FS_CardinalityType
<1>2. IsFiniteSet(all) /\ Cardinality(all) = u + n
    <2> DEFINE k == u + n
    <2>1. k \in Nat /\ k \in Int
        BY <1>1
    <2> HIDE DEF k
    <2>2. IsFiniteSet(1 .. k) /\ Cardinality(1 .. k) = IF 1 > k THEN 0 ELSE k - 1 + 1
        BY <2>1, FS_Interval
    <2>3. IsFiniteSet(1 .. k) /\ Cardinality(1 .. k) = k
        BY <2>1, <2>2
    <2>4. QED
        BY <2>3 DEF k
<1> HIDE DEF all, u
<1>3. IsFiniteSet(free) /\ Cardinality(free) \in Nat
    BY <1>2, FS_Subset, FS_CardinalityType
<1>4. free \cap U = {} /\ all \subseteq free \cup U
    OBVIOUS
<1> HIDE DEF free
<1>5. /\ IsFiniteSet(free \cup U)
      /\ Cardinality(free \cup U) = Cardinality(free) + u - Cardinality(free \cap U)
    BY <1>3, FS_Union DEF u
<1>6. Cardinality(free \cap U) = 0
    BY <1>4, FS_EmptySet
<1>7. Cardinality(all) <= Cardinality(free \cup U)
    BY <1>4, <1>5, FS_Subset
<1>8. n <= Cardinality(free)
    BY <1>1, <1>2, <1>3, <1>5, <1>6, <1>7
<1>9. QED
    BY <1>3, <1>8 DEF free, all, u

\* The values a function takes on a finite set are finitely many.
LEMMA FiniteImage ==
    ASSUME NEW S, IsFiniteSet(S), NEW f
    PROVE  IsFiniteSet({f[x] : x \in S})
<1> DEFINE T == {f[x] : x \in S}
           g == [x \in S |-> f[x]]
<1>1. g \in Surjection(S, T)
    BY DEF Surjection
<1> HIDE DEF g, T
<1>2. IsFiniteSet(T)
    BY <1>1, FS_Surjection
<1>3. QED
    BY <1>2 DEF T

\* Messages and what the routers remember are finitely many.
LEMMA UsedIdsFinite ==
    ASSUME Shape
    PROVE  UsedIds \in SUBSET Nat /\ IsFiniteSet(UsedIds)
<1>1. ASSUME NEW s \in Routers, NEW r \in Routers
      PROVE  IsFiniteSet(Ids(wire[s][r])) /\ Ids(wire[s][r]) \subseteq Nat
    <2> DEFINE q == wire[s][r]
               f == [i \in DOMAIN q |-> q[i].id]
    <2>1. q \in Seq(Messages)
        BY DEF Shape, Wires
    <2> HIDE DEF q
    <2>2. DOMAIN q = 1 .. Len(q) /\ Len(q) \in Int /\ \A i \in DOMAIN q : q[i] \in Messages
        BY <2>1
    <2>3. IsFiniteSet(DOMAIN q)
        <3> DEFINE n == Len(q)
        <3> HIDE DEF n
        <3>1. n \in Int /\ 1 \in Int
            BY <2>2 DEF n
        <3>2. IsFiniteSet(1 .. n)
            BY <3>1, FS_Interval
        <3>3. QED
            BY <2>2, <3>2 DEF n
    <2>4. \A i \in DOMAIN q : f[i] = q[i].id
        OBVIOUS
    <2> HIDE DEF f
    <2>5. IsFiniteSet({f[i] : i \in DOMAIN q})
        BY <2>3, FiniteImage
    <2>6. Ids(q) = {f[i] : i \in DOMAIN q}
        BY <2>4 DEF Ids
    <2>7. Ids(q) \subseteq Nat
        BY <2>2 DEF Ids, Messages
    <2>8. QED
        BY <2>5, <2>6, <2>7 DEF q
<1> DEFINE last == {lastId[r] : r \in Routers}
<1>2. IsFiniteSet(last) /\ last \subseteq Nat
    <2>1. IsFiniteSet(last)
        BY RouterNetAssumption, FiniteImage
    <2>2. QED
        BY <2>1 DEF Shape
<1> DEFINE links == Routers \X Routers
           f == [p \in links |-> Ids(wire[p[1]][p[2]])]
           S == {f[p] : p \in links}
           W == {Ids(wire[s][r]) : s, r \in Routers}
<1>3. IsFiniteSet(links)
    BY RouterNetAssumption, FS_Product
<1>4. IsFiniteSet(S)
    <2> HIDE DEF links, f
    <2>1. QED
        BY <1>3, FiniteImage
<1>5. S = W
    <2>1. \A x : x \in S <=> x \in W
        <3>1. \A p \in links : p[1] \in Routers /\ p[2] \in Routers /\ f[p] = Ids(wire[p[1]][p[2]])
            OBVIOUS
        <3>2. \A s, r \in Routers : <<s, r>> \in links /\ f[<<s, r>>] = Ids(wire[s][r])
            OBVIOUS
        <3> HIDE DEF links, f
        <3>3. ASSUME NEW x \in S PROVE x \in W
            <4>1. PICK p \in links : x = f[p]
                OBVIOUS
            <4>2. QED
                BY <3>1, <4>1
        <3>4. ASSUME NEW x \in W PROVE x \in S
            <4>1. PICK s \in Routers, r \in Routers : x = Ids(wire[s][r])
                OBVIOUS
            <4> DEFINE p == <<s, r>>
            <4>2. p \in links /\ x = f[p]
                BY <3>2, <4>1
            <4> HIDE DEF p
            <4>3. QED
                BY <4>2
        <3>5. QED
            BY <3>3, <3>4
    <2> HIDE DEF S, W
    <2>2. QED
        BY <2>1
<1>6. \A T \in W : IsFiniteSet(T) /\ T \subseteq Nat
    BY <1>1
<1>7. UsedIds = (UNION W) \cup last
    BY DEF UsedIds
<1> HIDE DEF S, W, last
<1>8. IsFiniteSet(UNION W)
    BY <1>4, <1>5, <1>6, FS_UNION
<1>9. IsFiniteSet(UsedIds)
    <2> DEFINE w == UNION W
    <2>1. IsFiniteSet(w) /\ UsedIds = w \cup last
        BY <1>7, <1>8
    <2> HIDE DEF w
    <2>2. QED
        BY <1>2, <2>1, FS_Union
<1>10. UsedIds \in SUBSET Nat
    BY <1>2, <1>6, <1>7
<1>11. QED
    BY <1>9, <1>10

\* E is ems with ids.
Numbered(E, ems) ==
    /\ E \in Seq(Emissions) /\ Len(E) = Len(ems)
    /\ \A i \in 1 .. Len(ems) :
          /\ E[i].to = ems[i].to
          /\ E[i].msg.type = ems[i].msg.type /\ E[i].msg.src = ems[i].msg.src
          /\ E[i].msg.dst = ems[i].msg.dst /\ E[i].msg.d = ems[i].msg.d
          /\ ems[i].msg.id # 0 => E[i].msg.id = ems[i].msg.id
          /\ ems[i].msg.id = 0 => E[i].msg.id \notin UsedIds \cup {0}
    /\ \A i, j \in 1 .. Len(ems) :
          ems[i].msg.id = 0 /\ ems[j].msg.id = 0 /\ E[i].msg.id = E[j].msg.id => i = j

\* WithIds numbers: what has no id gets one that is unused, no two the same.
LEMMA WithIdsNumber ==
    ASSUME Shape, NEW ems \in Seq(Emissions)
    PROVE  Numbered(WithIds(ems), ems)
<1> DEFINE n == Len(ems)
           U == UsedIds
           free == (1 .. Cardinality(U) + n) \ U
           zeros(i) == {j \in 1 .. i : ems[j].msg.id = 0}
           rank(i) == Cardinality(zeros(i))
           upTo(x) == {y \in free : y <= x}
           fresh(k) == CHOOSE x \in free : Cardinality(upTo(x)) = k
           E == WithIds(ems)
<1>1. U \in SUBSET Nat /\ IsFiniteSet(U)
    BY UsedIdsFinite
<1>2. n \in Nat /\ DOMAIN ems = 1 .. n /\ \A i \in 1 .. n : ems[i] \in Emissions
    OBVIOUS
<1>3. E = [i \in 1 .. n |-> IF ems[i].msg.id # 0 THEN ems[i]
                            ELSE [ems[i] EXCEPT !.msg.id = fresh(rank(i))]]
    BY <1>2 DEF WithIds
<1> HIDE DEF U, n, E
<1>4. IsFiniteSet(free) /\ Cardinality(free) \in Nat /\ n <= Cardinality(free)
    BY <1>1, <1>2, EnoughIds
<1>5. free \in SUBSET Nat /\ 0 \notin free /\ free \cap U = {}
    BY <1>1
<1> HIDE DEF free
<1>6. ASSUME NEW k \in 1 .. n PROVE fresh(k) \in free /\ Cardinality(upTo(fresh(k))) = k
    <2>1. k \in 1 .. Cardinality(free)
        BY <1>2, <1>4
    <2>2. \E x \in free : Cardinality({y \in free : y <= x}) = k
        BY <1>4, <1>5, <2>1, KthSmallest
    <2>3. \E x \in free : Cardinality(upTo(x)) = k
        BY <2>2
    <2> HIDE DEF upTo
    <2>4. QED
        BY <2>3
<1>7. ASSUME NEW i \in 1 .. n
      PROVE  IsFiniteSet(zeros(i)) /\ rank(i) \in Nat /\ rank(i) <= i
    <2>1. IsFiniteSet(1 .. i) /\ Cardinality(1 .. i) = i
        <3>1. i \in Int /\ 1 \in Int /\ ~(1 > i) /\ i - 1 + 1 = i
            BY <1>2
        <3>2. QED
            BY <3>1, FS_Interval
    <2>2. zeros(i) \in SUBSET (1 .. i)
        OBVIOUS
    <2> HIDE DEF zeros
    <2>3. QED
        BY <2>1, <2>2, FS_Subset, FS_CardinalityType
<1>8. ASSUME NEW i \in 1 .. n, ems[i].msg.id = 0 PROVE rank(i) \in 1 .. n
    <2>1. zeros(i) # {}
        BY <1>2, <1>8
    <2>2. rank(i) # 0
        <3>1. IsFiniteSet(zeros(i))
            BY <1>7
        <3> HIDE DEF zeros
        <3>2. QED
            BY <2>1, <3>1, FS_EmptySet
    <2>3. rank(i) \in Nat /\ rank(i) <= i
        BY <1>7
    <2> HIDE DEF rank
    <2>4. QED
        BY <1>2, <2>2, <2>3
<1>9. ASSUME NEW i \in 1 .. n, NEW j \in 1 .. n, i < j, ems[j].msg.id = 0
      PROVE  rank(i) < rank(j)
    <2>1. zeros(i) \cup {j} \subseteq zeros(j) /\ j \notin zeros(i)
        BY <1>2, <1>9
    <2>2. /\ IsFiniteSet(zeros(i)) /\ rank(i) \in Nat
          /\ IsFiniteSet(zeros(j)) /\ rank(j) \in Nat
        BY <1>7
    <2> HIDE DEF zeros
    <2>3. Cardinality(zeros(i) \cup {j}) = rank(i) + 1
        BY <2>1, <2>2, FS_AddElement
    <2>4. rank(i) + 1 <= rank(j)
        BY <2>1, <2>2, <2>3, FS_Subset
    <2> HIDE DEF rank
    <2>5. QED
        BY <2>2, <2>4
<1> HIDE DEF fresh, rank
<1>10. ASSUME NEW i \in 1 .. n
       PROVE  /\ E[i] \in Emissions /\ E[i].to = ems[i].to
              /\ E[i].msg.type = ems[i].msg.type /\ E[i].msg.src = ems[i].msg.src
              /\ E[i].msg.dst = ems[i].msg.dst /\ E[i].msg.d = ems[i].msg.d
              /\ ems[i].msg.id # 0 => E[i].msg.id = ems[i].msg.id
              /\ ems[i].msg.id = 0 => E[i].msg.id = fresh(rank(i))
    <2> DEFINE e == ems[i]
               m == e.msg
               x == fresh(rank(i))
    <2>1. e \in Emissions /\ m \in Messages
        BY <1>2 DEF Emissions
    <2>2. CASE ems[i].msg.id # 0
        <3>1. E[i] = e
            BY <1>3, <2>2
        <3>2. QED
            BY <2>1, <2>2, <3>1
    <2>3. CASE ems[i].msg.id = 0
        <3>1. E[i] = [e EXCEPT !.msg.id = x]
            BY <1>3, <2>3
        <3>2. x \in Nat
            BY <1>5, <1>6, <1>8, <2>3
        <3> HIDE DEF x
        <3> DEFINE m2 == [m EXCEPT !.id = x]
        <3>3. E[i] = [e EXCEPT !.msg = m2]
            BY <2>1, <3>1
        <3>4. /\ m2 \in Messages /\ m2.id = x /\ m2.type = m.type
              /\ m2.src = m.src /\ m2.dst = m.dst /\ m2.d = m.d
            BY <2>1, <3>2 DEF Messages
        <3> HIDE DEF m2, e
        <3>5. E[i] \in Emissions /\ E[i].to = e.to /\ E[i].msg = m2
            BY <2>1, <3>3, <3>4 DEF Emissions
        <3>6. QED
            BY <2>3, <3>4, <3>5 DEF e, x
    <2>4. QED
        BY <2>2, <2>3
<1>11. ASSUME NEW i \in 1 .. n, ems[i].msg.id = 0 PROVE E[i].msg.id \notin U \cup {0}
    <2>1. E[i].msg.id = fresh(rank(i)) /\ rank(i) \in 1 .. n
        BY <1>8, <1>10, <1>11
    <2>2. fresh(rank(i)) \in free
        BY <1>6, <2>1
    <2>3. QED
        BY <1>5, <2>1, <2>2
<1>12. ASSUME NEW i \in 1 .. n, NEW j \in 1 .. n, ems[i].msg.id = 0, ems[j].msg.id = 0,
              E[i].msg.id = E[j].msg.id
       PROVE  i = j
    <2>1. rank(i) = rank(j)
        <3>1. fresh(rank(i)) = fresh(rank(j))
            BY <1>10, <1>12
        <3>2. rank(i) \in 1 .. n /\ rank(j) \in 1 .. n
            BY <1>8, <1>12
        <3> HIDE DEF upTo
        <3>3. QED
            BY <1>6, <3>1, <3>2
    <2>2. /\ i < j => rank(i) < rank(j)
          /\ j < i => rank(j) < rank(i)
        BY <1>9, <1>12
    <2>3. rank(i) \in Nat /\ rank(j) \in Nat
        BY <1>7
    <2>4. QED
        BY <1>2, <2>1, <2>2, <2>3
<1>13. E \in Seq(Emissions) /\ Len(E) = n
    <2>1. DOMAIN E = 1 .. n
        BY <1>3
    <2>2. E = [i \in 1 .. n |-> E[i]]
        BY <1>3
    <2>3. E \in [1 .. n -> Emissions]
        BY <1>10, <2>2
    <2>4. QED
        BY <1>2, <2>1, <2>3
<1>14. QED
    BY <1>10, <1>11, <1>12, <1>13 DEF Numbered, E, n, U
-----------------------------------------------------------------------------
(***************************************************************************)
(* What r may send.                                                        *)
(***************************************************************************)

\* Every emission may be sent to each router it goes to.
FineEms(r, ems) ==
    \A k \in 1 .. Len(ems) : \A q \in ems[k].to \cap Routers : Fine(r, q, ems[k].msg)

\* What is sent one after the other may be sent.
LEMMA FineBoth ==
    ASSUME NEW r, NEW a \in Seq(Emissions), NEW b \in Seq(Emissions), FineEms(r, a), FineEms(r, b)
    PROVE  a \o b \in Seq(Emissions) /\ FineEms(r, a \o b)
<1> DEFINE ab == a \o b
<1>1. /\ ab \in Seq(Emissions) /\ Len(ab) = Len(a) + Len(b)
      /\ \A k \in 1 .. Len(a) + Len(b) : ab[k] = IF k <= Len(a) THEN a[k] ELSE b[k - Len(a)]
    BY ConcatProperties
<1> HIDE DEF ab
<1>2. Len(a) \in Nat /\ Len(b) \in Nat
    OBVIOUS
<1>3. ASSUME NEW k \in 1 .. Len(ab), NEW q \in ab[k].to \cap Routers PROVE Fine(r, q, ab[k].msg)
    <2>1. CASE k <= Len(a)
        <3>1. k \in 1 .. Len(a) /\ ab[k] = a[k]
            BY <1>1, <1>2, <2>1
        <3>2. QED
            BY <1>3, <3>1 DEF FineEms
    <2>2. CASE ~(k <= Len(a))
        <3>1. k - Len(a) \in 1 .. Len(b) /\ ab[k] = b[k - Len(a)]
            BY <1>1, <1>2, <2>2
        <3>2. QED
            BY <1>3, <3>1 DEF FineEms
    <2>3. QED
        BY <2>1, <2>2
<1>4. QED
    BY <1>1, <1>3 DEF FineEms, ab

\* Ids make no difference.
LEMMA FineNumbered ==
    ASSUME Shape, NEW r, NEW ems \in Seq(Emissions), FineEms(r, ems)
    PROVE  WithIds(ems) \in Seq(Emissions) /\ Len(WithIds(ems)) = Len(ems) /\ FineEms(r, WithIds(ems))
<1> DEFINE E == WithIds(ems)
<1>1. Numbered(E, ems)
    BY WithIdsNumber
<1> HIDE DEF E
<1>2. /\ E \in Seq(Emissions) /\ Len(E) = Len(ems)
      /\ \A k \in 1 .. Len(ems) :
            /\ E[k].to = ems[k].to
            /\ E[k].msg.type = ems[k].msg.type /\ E[k].msg.src = ems[k].msg.src
            /\ E[k].msg.dst = ems[k].msg.dst /\ E[k].msg.d = ems[k].msg.d
    BY <1>1 DEF Numbered
<1>3. FineEms(r, E)
    BY <1>2 DEF FineEms, Fine
<1>4. QED
    BY <1>2, <1>3 DEF E

\* What is in the queue from p to q when r has sent E
Grown(tbls, w, r, E, p, q) ==
    IF p = r /\ r \in Conns(tbls[q]) THEN w[p][q] \o Outgoing(E, q) ELSE w[p][q]

\* What was sent is still there, then what is sent now.
LEMMA SentFacts ==
    ASSUME NEW tbls, NEW w \in Wires, NEW r \in Routers, NEW E \in Seq(Emissions),
           NEW v, v = Sent(tbls, w, r, E)
    PROVE  v \in Wires /\ \A p, q \in Routers : v[p][q] = Grown(tbls, w, r, E, p, q)
<1> DEFINE row == [q \in Routers |-> Grown(tbls, w, r, E, r, q)]
<1>1. ASSUME NEW q \in Routers PROVE row[q] \in Seq(Messages)
    <2>1. Outgoing(E, q) \in Seq(Messages)
        BY OutgoingPicks
    <2>2. w[r][q] \in Seq(Messages)
        BY DEF Wires
    <2>3. QED
        BY <2>1, <2>2 DEF Grown
<1>2. row = [q \in Routers |-> row[q]]
    OBVIOUS
<1>3. v = [w EXCEPT ![r] = row]
    BY DEF Sent, Grown
<1>4. \A q \in Routers : row[q] = Grown(tbls, w, r, E, r, q)
    OBVIOUS
<1> HIDE DEF row
<1>5. row \in [Routers -> Seq(Messages)]
    BY <1>1, <1>2
<1>6. v \in Wires
    BY <1>3, <1>5 DEF Wires
<1>7. \A p, q \in Routers : v[p][q] = IF p = r THEN row[q] ELSE w[p][q]
    BY <1>3 DEF Wires
<1>8. \A p, q \in Routers : p # r => Grown(tbls, w, r, E, p, q) = w[p][q]
    BY DEF Grown
<1>9. QED
    BY <1>4, <1>6, <1>7, <1>8

\* New in the queues v, after w, are only messages of r to those who have it.
OnlyFrom(r, tbls, w, v) ==
    \A s, q \in Routers : v[s][q] # <<>> => w[s][q] # <<>> \/ (s = r /\ r \in Conns(tbls[q]))

\* What may be sent may be read.
LEMMA SentFine ==
    ASSUME NEW tbls, NEW w \in Wires, AllFine(w), NEW r \in Routers,
           NEW E \in Seq(Emissions), FineEms(r, E), NEW v, v = Sent(tbls, w, r, E)
    PROVE  v \in Wires /\ AllFine(v) /\ OnlyFrom(r, tbls, w, v)
<1>1. v \in Wires /\ \A p, q \in Routers : v[p][q] = Grown(tbls, w, r, E, p, q)
    BY SentFacts
<1>2. ASSUME NEW q \in Routers, r \in Conns(tbls[q]), NEW i \in DOMAIN v[r][q]
      PROVE  Fine(r, q, v[r][q][i])
    <2> DEFINE a == w[r][q]
               b == Outgoing(E, q)
               ab == a \o b
    <2>1. a \in Seq(Messages) /\ v[r][q] = ab
        BY <1>1, <1>2 DEF Wires, Grown
    <2>2. b \in Seq(Messages) /\ Picks(b, E, q, Len(E))
        BY OutgoingPicks
    <2>3. \A j \in DOMAIN a : Fine(r, q, a[j])
        BY DEF AllFine
    <2> HIDE DEF a, b
    <2>4. \A j \in 1 .. Len(b) : Fine(r, q, b[j])
        <3>1. PICK f \in [1 .. Len(b) -> 1 .. Len(E)] : \A j \in 1 .. Len(b) : b[j] = E[f[j]].msg /\ q \in E[f[j]].to
            BY <2>2 DEF Picks
        <3>2. QED
            BY <3>1 DEF FineEms
    <2>5. /\ ab \in Seq(Messages) /\ Len(ab) = Len(a) + Len(b)
          /\ \A k \in 1 .. Len(a) + Len(b) : ab[k] = IF k <= Len(a) THEN a[k] ELSE b[k - Len(a)]
        BY <2>1, <2>2, ConcatProperties
    <2> HIDE DEF ab
    <2>6. i \in 1 .. Len(a) + Len(b) /\ Len(a) \in Nat /\ Len(b) \in Nat
        BY <1>2, <2>1, <2>2, <2>5
    <2>7. CASE i <= Len(a)
        <3>1. i \in DOMAIN a /\ ab[i] = a[i]
            BY <2>1, <2>5, <2>6, <2>7
        <3>2. QED
            BY <2>1, <2>3, <3>1
    <2>8. CASE ~(i <= Len(a))
        <3>1. i - Len(a) \in 1 .. Len(b) /\ ab[i] = b[i - Len(a)]
            BY <2>5, <2>6, <2>8
        <3>2. QED
            BY <2>1, <2>4, <3>1
    <2>9. QED
        BY <2>7, <2>8
<1>3. AllFine(v)
    <2> SUFFICES ASSUME NEW s \in Routers, NEW q \in Routers, NEW i \in DOMAIN v[s][q]
                 PROVE  Fine(s, q, v[s][q][i])
        BY DEF AllFine
    <2>1. CASE s = r /\ r \in Conns(tbls[q])
        BY <1>2, <2>1
    <2>2. CASE ~(s = r /\ r \in Conns(tbls[q]))
        <3>1. v[s][q] = w[s][q]
            BY <1>1, <2>2 DEF Grown
        <3>2. QED
            BY <3>1 DEF AllFine
    <2>3. QED
        BY <2>1, <2>2
<1>4. OnlyFrom(r, tbls, w, v)
    BY <1>1 DEF Grown, OnlyFrom
<1>5. QED
    BY <1>1, <1>3, <1>4

\* A table that leads the right way
Leads(r, tbl) ==
    /\ Conns(tbl) \subseteq Neighbours(r) \ {r}
    /\ \A c \in Conns(tbl) : tbl[c] \in Seq(Beyond[r][c] \ {c}) /\ OnceEach(tbl[c])

\* News of what is behind a connection go to where it is news.
LEMMA AwayFrom ==
    ASSUME Tree, NEW r \in Routers, NEW tbl, Conns(tbl) \subseteq Neighbours(r) \ {r},
           NEW c \in Conns(tbl), NEW n \in Root(tbl, c), n \in Beyond[r][c]
    PROVE  \A q \in Targets(tbl, n) : q \in Conns(tbl) \ {c} /\ q \in Node /\ n \in Beyond[q][r] \ {r}
<1> TAKE q \in Targets(tbl, n)
<1>1. q \in Conns(tbl) /\ q # n /\ n \notin BranchesOf(tbl, q)
    BY DEF Targets
<1>2. /\ q \in Node /\ Adjacent(r, q) /\ q # r
      /\ c \in Node /\ Adjacent(r, c) /\ c # r /\ r \in Node
    BY <1>1 DEF Neighbours, Node
<1>3. q # c
    BY <1>1 DEF Root
<1>4. Adjacent(r, q) /\ Adjacent(r, c)
    BY <1>2
<1>5. Beyond[r][c] \subseteq Beyond[q][r] \ {r}
    BY <1>2, <1>3, <1>4, Nested
<1>6. QED
    BY <1>1, <1>2, <1>3, <1>5

\* broadcast_route_change tells of a new net to where it may.
LEMMA NewsFine ==
    ASSUME Tree, NEW r \in Routers, NEW tbl, Conns(tbl) \subseteq Neighbours(r) \ {r},
           NEW c \in Conns(tbl), NEW nets \in Seq(Node),
           \A i \in DOMAIN nets : nets[i] \in Root(tbl, c) /\ nets[i] \in Beyond[r][c]
    PROVE  /\ Announcements(tbl, nets, "NET_NEW") \in Seq(Emissions)
           /\ FineEms(r, Announcements(tbl, nets, "NET_NEW"))
<1> DEFINE A == Announcements(tbl, nets, "NET_NEW")
           m(n) == Message("NET_NEW", n, BROADCAST, n)
           e(n) == [msg |-> m(n), to |-> Targets(tbl, n)]
<1>1. A = [i \in DOMAIN nets |-> e(nets[i])]
    BY DEF Announcements, RouteChange
<1>2. ASSUME NEW n \in Node
      PROVE  /\ e(n) \in Emissions /\ e(n).to = Targets(tbl, n) /\ e(n).msg = m(n)
             /\ m(n).type = "NET_NEW" /\ m(n).src = n /\ m(n).dst = BROADCAST /\ m(n).d = n
    <2>1. Targets(tbl, n) \in SUBSET Node
        BY DEF Targets, Neighbours
    <2>2. m(n) \in Messages
        BY DEF Message, Messages, Types
    <2>3. QED
        BY <2>1, <2>2 DEF Emissions, Message
<1> HIDE DEF m, A, e
<1>3. A \in Seq(Emissions) /\ Len(A) = Len(nets) /\ \A i \in 1 .. Len(A) : i \in DOMAIN nets /\ A[i] = e(nets[i])
    BY <1>1, <1>2
<1>4. ASSUME NEW i \in 1 .. Len(A), NEW q \in A[i].to \cap Routers PROVE Fine(r, q, A[i].msg)
    <2> DEFINE n == nets[i]
    <2>1. n \in Node /\ n \in Root(tbl, c) /\ n \in Beyond[r][c] /\ A[i] = e(n)
        BY <1>3
    <2> HIDE DEF n
    <2>2. q \in Targets(tbl, n)
        BY <1>2, <1>4, <2>1
    <2>3. n \in Beyond[q][r] \ {r}
        BY <2>1, <2>2, AwayFrom
    <2>4. QED
        BY <1>2, <2>1, <2>3 DEF Fine
<1>5. QED
    BY <1>3, <1>4 DEF FineEms, A

\* It tells of a lost net to anybody.
LEMMA LossFine ==
    ASSUME NEW r \in Routers, NEW tbl, Conns(tbl) \subseteq Node, NEW nets \in Seq(Node)
    PROVE  /\ Announcements(tbl, nets, "NET_LOST") \in Seq(Emissions)
           /\ FineEms(r, Announcements(tbl, nets, "NET_LOST"))
<1> DEFINE A == Announcements(tbl, nets, "NET_LOST")
           m(n) == Message("NET_LOST", n, BROADCAST, n)
           e(n) == [msg |-> m(n), to |-> Targets(tbl, n)]
<1>1. A = [i \in DOMAIN nets |-> e(nets[i])]
    BY DEF Announcements, RouteChange
<1>2. ASSUME NEW n \in Node
      PROVE  /\ e(n) \in Emissions /\ e(n).msg = m(n)
             /\ m(n).type = "NET_LOST" /\ m(n).src = n /\ m(n).dst = BROADCAST /\ m(n).d = n
    <2>1. Targets(tbl, n) \in SUBSET Node
        BY DEF Targets
    <2>2. m(n) \in Messages
        BY DEF Message, Messages, Types
    <2>3. QED
        BY <2>1, <2>2 DEF Emissions, Message
<1> HIDE DEF m, A, e
<1>3. A \in Seq(Emissions) /\ Len(A) = Len(nets) /\ \A i \in 1 .. Len(A) : nets[i] \in Node /\ A[i] = e(nets[i])
    BY <1>1, <1>2
<1>4. FineEms(r, A)
    BY <1>2, <1>3 DEF FineEms, Fine
<1>5. QED
    BY <1>3, <1>4 DEF A

\* One change is one announcement.
LEMMA OneChange ==
    ASSUME NEW tbl, NEW n, NEW type
    PROVE  RouteChange(tbl, n, type) = Announcements(tbl, <<n>>, type)
<1>1. RouteChange(tbl, n, type) = <<Head(RouteChange(tbl, n, type))>>
    BY DEF RouteChange
<1>2. Announcements(tbl, <<n>>, type) = <<Head(RouteChange(tbl, n, type))>>
    BY DEF Announcements
<1>3. QED
    BY <1>1, <1>2

-----------------------------------------------------------------------------
(***************************************************************************)
(* The routes are true.                                                    *)
(***************************************************************************)

\* All tables lead the right way.
LEMMA AllLead ==
    ASSUME Sound, NEW r \in Routers
    PROVE  /\ Leads(r, table[r])
           /\ \A c \in Conns(table[r]) : c \in Node /\ c # r /\ Adjacent(r, c)
BY DEF Sound, Shape, RightWay, Leads, Neighbours

\* Steps that change one table, and add at most a local net to it
LEMMA OneTable ==
    ASSUME Sound, NEW r \in Routers, NEW tbl, Leads(r, tbl),
           DOMAIN table' = Routers, table'[r] = tbl, \A q \in Routers : q # r => table'[q] = table[q],
           phase' \in [Routers -> {"off", "starting", "up", "dead"}],
           \A q \in Routers : phase'[q] \in {"off", "starting"} => phase'[q] = phase[q],
           DOMAIN todo' = Routers, \A q \in Routers : todo'[q] \subseteq todo[q],
           known' \in [Routers -> SUBSET Nets], lastId' \in [Routers -> Nat],
           wire' \in Wires, AllFine(wire'), acts' \in Nat, cuts' \in Nat,
           \A c \in Conns(tbl) \ Conns(table[r]) : phase'[r] # "off" /\ c \notin todo'[r] /\ c \notin Routers,
           \A s, q \in Routers : wire'[s][q] # <<>> => s \in Conns(table'[q])
    PROVE  Sound'
<1>1. /\ DOMAIN table' = Routers /\ table'[r] = tbl
      /\ \A q \in Routers : q # r => table'[q] = table[q]
    OBVIOUS
<1>2. \A q \in Routers : Leads(q, table'[q])
    BY <1>1, AllLead
<1>3. Shape'
    <2>1. \A q \in Routers : todo'[q] \subseteq Neighbours(q)
        BY DEF Sound, Shape
    <2>2. \A q \in Routers : Conns(table'[q]) \subseteq Neighbours(q) \ {q}
        BY <1>2 DEF Leads
    <2>3. QED
        BY <1>1, <2>1, <2>2 DEF Shape
<1>4. RightWay'
    BY <1>2 DEF RightWay, Leads
<1>5. MadeOnce'
    <2> SUFFICES ASSUME NEW q \in Routers, NEW c \in Node,
                        phase'[q] = "off" \/ (phase'[q] = "starting" /\ c \in todo'[q])
                 PROVE  c \notin Conns(table'[q]) /\ (c \in Routers => q \notin Conns(table'[c]))
        BY DEF MadeOnce
    <2>1. c \notin Conns(table[q]) /\ (c \in Routers => q \notin Conns(table[c]))
        BY DEF Sound, MadeOnce
    <2>2. c \notin Conns(table'[q])
        BY <1>1, <2>1
    <2>3. c \in Routers => q \notin Conns(table'[c])
        BY <1>1, <2>1
    <2>4. QED
        BY <2>2, <2>3
<1>6. OnLinks' /\ FromBehind'
    BY DEF OnLinks, FromBehind, AllFine
<1>7. QED
    BY <1>3, <1>4, <1>5, <1>6 DEF Sound

\* parse_msg keeps the table true and says nothing untrue.
LEMMA ParsedFine ==
    ASSUME Tree, Sound, NEW r \in Routers, NEW c \in Conns(table[r]),
           NEW m \in Messages, Fine(c, r, m), NEW p, p = Parsed(r, c, m)
    PROVE  /\ Leads(r, p.table) /\ Conns(p.table) = Conns(table[r])
           /\ p.known \in SUBSET Nets
           /\ p.ems \in Seq(Emissions) /\ FineEms(r, p.ems)
           /\ m.type = "NET_NEW" => m.d \in Root(p.table, c)
<1> DEFINE t == table[r]
<1>1. /\ Leads(r, t) /\ known[r] \in SUBSET Nets
      /\ c \in Node /\ c # r /\ Adjacent(r, c)
      /\ t[c] \in Seq(Beyond[r][c] \ {c}) /\ OnceEach(t[c])
      /\ Conns(t) \subseteq Neighbours(r) \ {r}
    BY AllLead DEF Sound, Shape, Leads
<1>2. <<>> \in Seq(Emissions) /\ FineEms(r, <<>>)
    BY DEF FineEms
<1>3. CASE m.type = "NET_NEW"
    <2> DEFINE tbl == AddBranch(t, c, m.d)
               d == m.d
    <2>1. /\ p.table = tbl /\ p.known = known[r]
          /\ p.ems = IF tbl = t THEN <<>> ELSE RouteChange(tbl, d, "NET_NEW")
        BY <1>3 DEF Parsed
    <2>2. d \in Beyond[r][c] \ {c}
        BY <1>3 DEF Fine
    <2>3. /\ DOMAIN tbl = DOMAIN t /\ \A e \in DOMAIN t : e # c => tbl[e] = t[e]
          /\ tbl[c] = IF IsNewBranch(t, d) THEN Append(t[c], d) ELSE t[c]
          /\ ~IsNewBranch(t, d) => tbl = t
        BY DEF AddBranch, Conns
    <2> HIDE DEF tbl, d
    <2>4. /\ tbl[c] \in Seq(Beyond[r][c] \ {c}) /\ OnceEach(tbl[c]) /\ d \in BranchesOf(tbl, c)
        <3>1. CASE IsNewBranch(t, d)
            <4>1. d \notin ToSet(t[c])
                BY <3>1 DEF IsNewBranch, BranchesOf, Conns
            <4>2. QED
                BY <1>1, <2>2, <2>3, <3>1, <4>1, AppendedTo DEF BranchesOf
        <3>2. CASE ~IsNewBranch(t, d)
            <4>1. PICK e \in Conns(t) : d \in ToSet(t[e])
                BY <3>2 DEF IsNewBranch, BranchesOf
            <4>2. e \in Node /\ Adjacent(r, e) /\ d \in Beyond[r][e] /\ r \in Node
                <5>1. t[e] \in Seq(Beyond[r][e] \ {e})
                    BY <1>1 DEF Leads
                <5>2. d \in Beyond[r][e]
                    BY <4>1, <5>1 DEF ToSet
                <5>3. QED
                    BY <1>1, <5>2 DEF Neighbours, Node
            <4>3. e = c
                BY <1>1, <2>2, <4>2 DEF Tree
            <4>4. QED
                BY <1>1, <2>3, <3>2, <4>1, <4>3 DEF BranchesOf
        <3>3. QED
            BY <3>1, <3>2
    <2>5. Leads(r, tbl) /\ Conns(tbl) = Conns(t)
        BY <1>1, <2>3, <2>4 DEF Leads, Conns
    <2>6. d \in Root(tbl, c) /\ c \in Conns(tbl)
        BY <2>4, <2>5 DEF Root
    <2>7. RouteChange(tbl, d, "NET_NEW") \in Seq(Emissions) /\ FineEms(r, RouteChange(tbl, d, "NET_NEW"))
        <3>1. Beyond[r][c] \subseteq Node
            BY <1>1, BeyondFacts DEF Node
        <3>2. d \in Node
            BY <2>2, <3>1
        <3> DEFINE nets == <<d>>
        <3>3. nets \in Seq(Node) /\ \A i \in DOMAIN nets : nets[i] \in Root(tbl, c) /\ nets[i] \in Beyond[r][c]
            BY <2>2, <2>6, <3>2
        <3>4. RouteChange(tbl, d, "NET_NEW") = Announcements(tbl, nets, "NET_NEW")
            BY OneChange
        <3> HIDE DEF nets
        <3>5. QED
            BY <1>1, <2>5, <2>6, <3>3, <3>4, NewsFine
    <2>8. QED
        BY <1>1, <1>2, <2>1, <2>5, <2>6, <2>7 DEF d
<1>4. CASE m.type = "NET_LOST"
    <2> DEFINE tbl == RemoveBranch(t, c, m.d)
               d == m.d
    <2>1. /\ p.table = tbl /\ p.known = known[r] \ {d} /\ p.ems = RouteChange(t, d, "NET_LOST")
        BY <1>4 DEF Parsed
    <2>2. d \in Node
        BY <1>4 DEF Fine
    <2>3. /\ Conns(tbl) = Conns(t) /\ \A e \in Conns(t) \ {c} : tbl[e] = t[e]
          /\ tbl[c] \in Seq(Beyond[r][c] \ {c}) /\ OnceEach(tbl[c])
        <3> DEFINE T == Beyond[r][c] \ {c}
        <3>1. c \in DOMAIN t /\ t[c] \in Seq(T)
            BY <1>1 DEF Conns
        <3> HIDE DEF T, d, t
        <3>2. QED
            BY <1>1, <3>1, BranchRemoved DEF d, T
    <2> HIDE DEF tbl, d
    <2>4. Leads(r, tbl)
        BY <1>1, <2>3 DEF Leads
    <2>5. RouteChange(t, d, "NET_LOST") \in Seq(Emissions) /\ FineEms(r, RouteChange(t, d, "NET_LOST"))
        <3> DEFINE nets == <<d>>
        <3>1. nets \in Seq(Node)
            BY <2>2
        <3>2. RouteChange(t, d, "NET_LOST") = Announcements(t, nets, "NET_LOST")
            BY OneChange
        <3>3. Conns(t) \subseteq Node
            BY <1>1 DEF Neighbours
        <3> HIDE DEF nets
        <3>4. QED
            BY <3>1, <3>2, <3>3, LossFine
    <2>6. QED
        BY <1>1, <1>4, <2>1, <2>3, <2>4, <2>5
<1>5. CASE m.type = "USER_NEW"
    <2>1. p.table = t /\ p.known = known[r] \cup {m.d} /\ p.ems = <<>> /\ m.d \in Nets
        BY <1>5 DEF Parsed, Fine
    <2>2. QED
        BY <1>1, <1>2, <1>5, <2>1
<1>6. CASE m.type = "USER_LOST"
    <2>1. p.table = t /\ p.known = known[r] \ {m.d} /\ p.ems = <<>>
        BY <1>6 DEF Parsed
    <2>2. QED
        BY <1>1, <1>2, <1>6, <2>1
<1>7. CASE m.type = "ENUM_REQUEST"
    <2> DEFINE users == SetToSeq(known[r])
               M(u) == Message("USER_NEW", r, c, u)
               e(u) == [msg |-> M(u), to |-> Where(t, c)]
               E == [i \in DOMAIN users |-> e(users[i])]
    <2>1. p.table = t /\ p.known = known[r] /\ p.ems = E
        BY <1>7 DEF Parsed
    <2>2. users \in Seq(known[r])
        <3>1. IsFiniteSet(known[r])
            BY <1>1, RouterNetAssumption, FS_Subset
        <3>2. QED
            BY <3>1, Enumerated
    <2> HIDE DEF users
    <2>3. ASSUME NEW u \in Nets
          PROVE  e(u) \in Emissions /\ e(u).msg = M(u) /\ M(u).type = "USER_NEW" /\ M(u).src = r /\ M(u).d = u
        <3>1. Where(t, c) \in SUBSET Node
            BY <1>1 DEF Where, Neighbours
        <3>2. M(u) \in Messages
            BY <1>1 DEF Message, Messages, Types, Node
        <3>3. QED
            BY <3>1, <3>2 DEF Emissions, Message
    <2> HIDE DEF M, e
    <2>4. \A i \in DOMAIN users : users[i] \in Nets
        BY <1>1, <2>2
    <2>5. E \in Seq(Emissions) /\ \A i \in 1 .. Len(E) : i \in DOMAIN users /\ E[i] = e(users[i])
        BY <2>2, <2>3, <2>4
    <2> HIDE DEF E
    <2>6. FineEms(r, E)
        BY <2>3, <2>4, <2>5 DEF FineEms, Fine, Node
    <2>7. QED
        BY <1>1, <1>7, <2>1, <2>5, <2>6
<1>8. CASE m.type \in {"MODE", "TEXT", "PRIVATE"}
    <2>1. p.table = t /\ p.known = known[r] /\ p.ems = <<>>
        BY <1>8 DEF Parsed
    <2>2. QED
        BY <1>1, <1>2, <1>8, <2>1
<1>9. m.type \in Types
    BY DEF Messages
<1>10. QED
    BY <1>3, <1>4, <1>5, <1>6, <1>7, <1>8, <1>9 DEF Types

\* routetbl_send passes on only what may be passed on.
LEMMA ForwardFine ==
    ASSUME Tree, NEW r \in Routers, NEW tbl, Conns(tbl) \subseteq Neighbours(r) \ {r},
           NEW c \in Conns(tbl), NEW m \in Messages, Fine(c, r, m),
           m.type = "NET_NEW" => m.d \in Root(tbl, c)
    PROVE  Forward(r, tbl, m) \in Seq(Emissions) /\ FineEms(r, Forward(r, tbl, m))
<1> DEFINE to == IF m.dst = BROADCAST THEN Targets(tbl, m.src) ELSE Where(tbl, m.dst)
           e == [msg |-> m, to |-> to]
<1>1. CASE m.dst \in {r, Null}
    <2>1. Forward(r, tbl, m) = <<>>
        BY <1>1 DEF Forward
    <2>2. QED
        BY <2>1 DEF FineEms
<1>2. CASE m.dst \notin {r, Null}
    <2>1. Forward(r, tbl, m) = <<e>>
        BY <1>2 DEF Forward
    <2>2. to \in SUBSET Node
        BY DEF Targets, Where, Neighbours
    <2>3. e \in Emissions
        BY <2>2 DEF Emissions
    <2>4. ASSUME NEW q \in to \cap Routers PROVE Fine(r, q, m)
        <3>1. CASE m.type = "NET_NEW"
            <4>1. m.dst = BROADCAST /\ m.src = m.d /\ m.d \in Beyond[r][c] /\ m.d \in Root(tbl, c)
                BY <3>1 DEF Fine
            <4>2. q \in Targets(tbl, m.d)
                BY <2>4, <4>1
            <4>3. m.d \in Beyond[q][r] \ {r}
                BY <4>1, <4>2, AwayFrom
            <4>4. QED
                BY <3>1, <4>1, <4>3 DEF Fine
        <3>2. CASE m.type # "NET_NEW"
            BY <3>2 DEF Fine
        <3>3. QED
            BY <3>1, <3>2
    <2> DEFINE E == <<e>>
    <2>5. E \in Seq(Emissions) /\ \A k \in 1 .. Len(E) : E[k].to = to /\ E[k].msg = m
        BY <2>3
    <2> HIDE DEF E, to
    <2>6. FineEms(r, E)
        BY <2>4, <2>5 DEF FineEms
    <2>7. QED
        BY <2>1, <2>5, <2>6 DEF E
<1>3. QED
    BY <1>1, <1>2

\* switch_msg, and what comes of it when the message may be read
LEMMA SwitchSound ==
    ASSUME Tree, Sound, NEW r \in Routers, NEW c \in Conns(table[r]),
           NEW m \in Messages, Fine(c, r, m), NEW w \in Wires, AllFine(w),
           \A s, q \in Routers : w[s][q] # <<>> => wire[s][q] # <<>>,
           phase[r] = "up", Switch(w, r, c, m),
           todo' = todo, acts' \in Nat, cuts' \in Nat
    PROVE  Sound'
<1>1. /\ Shape /\ DOMAIN table = Routers /\ Leads(r, table[r])
      /\ \A s, q \in Routers : w[s][q] # <<>> => s \in Conns(table[q])
    BY AllLead DEF Sound, Shape, OnLinks
<1>2. /\ phase \in [Routers -> {"off", "starting", "up", "dead"}] /\ DOMAIN todo = Routers
      /\ known \in [Routers -> SUBSET Nets] /\ lastId \in [Routers -> Nat] /\ m.id \in Nat
    BY <1>1 DEF Shape, Messages
<1>3. CASE IsKnown(r, m)
    <2>1. wire' = w /\ phase' = phase /\ table' = table /\ known' = known /\ lastId' = lastId
        BY <1>3 DEF Switch
    <2> DEFINE tbl == table[r]
    <2>2. /\ DOMAIN table' = Routers /\ table'[r] = tbl /\ \A q \in Routers : table'[q] = table[q]
          /\ Leads(r, tbl) /\ \A c2 \in Conns(tbl) : c2 \in Conns(table[r])
        BY <1>1, <2>1
    <2> HIDE DEF tbl
    <2>3. QED
        BY <1>1, <1>2, <2>1, <2>2, OneTable
<1>4. CASE ~IsKnown(r, m)
    <2> DEFINE p == Parsed(r, c, m)
               fwd == Forward(r, p.table, m)
               E == WithIds(p.ems \o fwd)
    <2>1. /\ Leads(r, p.table) /\ Conns(p.table) = Conns(table[r])
          /\ p.known \in SUBSET Nets
          /\ p.ems \in Seq(Emissions) /\ FineEms(r, p.ems)
          /\ m.type = "NET_NEW" => m.d \in Root(p.table, c)
        BY ParsedFine
    <2>2. /\ lastId' = [lastId EXCEPT ![r] = m.id]
          /\ \/ Gone(r, w)
             \/ /\ table' = [table EXCEPT ![r] = p.table]
                /\ known' = [known EXCEPT ![r] = p.known]
                /\ wire' = Sent(table, w, r, E)
                /\ phase' = phase
        BY <1>4 DEF Switch
    <2> HIDE DEF p
    <2>3. fwd \in Seq(Emissions) /\ FineEms(r, fwd)
        BY <2>1, ForwardFine DEF Leads
    <2> DEFINE ems == p.ems \o fwd
    <2> HIDE DEF fwd
    <2>4. ems \in Seq(Emissions) /\ FineEms(r, ems)
        BY <2>1, <2>3, FineBoth
    <2>5. E = WithIds(ems)
        OBVIOUS
    <2> HIDE DEF ems, E
    <2>6. E \in Seq(Emissions) /\ FineEms(r, E)
        BY <1>1, <2>4, <2>5, FineNumbered
    <2>7. CASE Gone(r, w)
        <3> DEFINE none == <<>>
        <3>1. /\ phase' = [phase EXCEPT ![r] = "dead"] /\ table' = [table EXCEPT ![r] = none]
              /\ known' = [known EXCEPT ![r] = {}]
              /\ \A s, q \in Routers : wire'[s][q] = IF q = r THEN <<>> ELSE w[s][q]
            BY <2>7 DEF Gone, Wires
        <3>2. Leads(r, none) /\ Conns(none) = {}
            BY DEF Leads, Conns
        <3> HIDE DEF none
        <3>3. wire' \in Wires
            <4>1. \A s \in Routers : [w[s] EXCEPT ![r] = <<>>] \in [Routers -> Seq(Messages)]
                BY DEF Wires
            <4>2. QED
                BY <2>7, <4>1 DEF Gone, Wires
        <3>4. AllFine(wire')
            BY <3>1 DEF AllFine
        <3>5. \A s, q \in Routers : wire'[s][q] # <<>> => s \in Conns(table'[q])
            BY <1>1, <3>1
        <3>6. /\ phase' \in [Routers -> {"off", "starting", "up", "dead"}]
              /\ \A q \in Routers : phase'[q] \in {"off", "starting"} => phase'[q] = phase[q]
              /\ known' \in [Routers -> SUBSET Nets] /\ lastId' \in [Routers -> Nat]
            BY <1>2, <2>2, <3>1
        <3>7. QED
            <4>1. /\ DOMAIN table' = Routers /\ table'[r] = none
                  /\ \A q \in Routers : q # r => table'[q] = table[q]
                BY <1>1, <3>1
            <4>2. QED
                BY <1>2, <3>2, <3>3, <3>4, <3>5, <3>6, <4>1, OneTable
    <2>8. CASE /\ table' = [table EXCEPT ![r] = p.table]
               /\ known' = [known EXCEPT ![r] = p.known]
               /\ wire' = Sent(table, w, r, E)
               /\ phase' = phase
        <3>1. wire' \in Wires /\ AllFine(wire') /\ OnlyFrom(r, table, w, wire')
            BY <2>6, <2>8, SentFine
        <3>2. \A q \in Routers : Conns(table'[q]) = Conns(table[q])
            BY <1>1, <2>1, <2>8
        <3>3. \A s, q \in Routers : wire'[s][q] # <<>> => s \in Conns(table'[q])
            BY <1>1, <3>1, <3>2 DEF OnlyFrom
        <3>4. known' \in [Routers -> SUBSET Nets] /\ lastId' \in [Routers -> Nat]
            BY <1>2, <2>1, <2>2, <2>8
        <3> DEFINE tbl == p.table
        <3>5. Leads(r, tbl) /\ Conns(tbl) = Conns(table[r])
            BY <2>1
        <3> HIDE DEF tbl
        <3>6. DOMAIN table' = Routers /\ table'[r] = tbl /\ \A q \in Routers : q # r => table'[q] = table[q]
            BY <1>1, <2>8 DEF tbl
        <3>7. QED
            BY <1>2, <2>8, <3>1, <3>3, <3>4, <3>5, <3>6, OneTable
    <2>9. QED
        BY <2>2, <2>7, <2>8
<1>5. QED
    BY <1>3, <1>4

\* The rest of a queue
LEMMA Dequeued ==
    ASSUME NEW s \in Routers, NEW r \in Routers, NEW w \in Wires, AllFine(w), w[s][r] # <<>>,
           NEW v, v = [w EXCEPT ![s][r] = Tail(@)]
    PROVE  /\ v \in Wires /\ AllFine(v)
           /\ \A p, q \in Routers : v[p][q] # <<>> => w[p][q] # <<>>
           /\ Head(w[s][r]) \in Messages /\ Fine(s, r, Head(w[s][r]))
<1> DEFINE a == w[s][r]
<1>1. a \in Seq(Messages) /\ a # <<>>
    BY DEF Wires
<1>2. /\ v \in Wires /\ v[s][r] = Tail(a)
      /\ \A p, q \in Routers : <<p, q>> # <<s, r>> => v[p][q] = w[p][q]
    BY <1>1 DEF Wires
<1>3. \A i \in DOMAIN a : Fine(s, r, a[i])
    BY DEF AllFine
<1> HIDE DEF a
<1>4. /\ Head(a) = a[1] /\ 1 \in DOMAIN a /\ a[1] \in Messages
      /\ \A i \in DOMAIN Tail(a) : i + 1 \in DOMAIN a /\ Tail(a)[i] = a[i + 1]
    BY <1>1
<1>5. AllFine(v)
    <2> SUFFICES ASSUME NEW p \in Routers, NEW q \in Routers, NEW i \in DOMAIN v[p][q]
                 PROVE  Fine(p, q, v[p][q][i])
        BY DEF AllFine
    <2>1. CASE <<p, q>> = <<s, r>>
        BY <1>2, <1>3, <1>4, <2>1
    <2>2. CASE <<p, q>> # <<s, r>>
        BY <1>2, <2>2 DEF AllFine
    <2>3. QED
        BY <2>1, <2>2
<1>6. \A p, q \in Routers : v[p][q] # <<>> => w[p][q] # <<>>
    BY <1>1, <1>2 DEF a
<1>7. QED
    BY <1>2, <1>3, <1>4, <1>5, <1>6 DEF a

\* Receive keeps the tables right: the head of a queue may be read.
LEMMA ReceiveSound ==
    ASSUME Tree, Sound, NEW r \in Routers, NEW s \in Routers, Receive(r, s)
    PROVE  Sound'
<1> DEFINE w == [wire EXCEPT ![s][r] = Tail(@)]
           m == Head(wire[s][r])
<1>1. /\ phase[r] = "up" /\ s \in Conns(table[r]) /\ wire[s][r] # <<>> /\ Switch(w, r, s, m)
      /\ todo' = todo /\ acts' = acts /\ cuts' = cuts
    BY DEF Receive
<1>2. wire \in Wires /\ AllFine(wire) /\ acts \in Nat /\ cuts \in Nat
    BY DEF Sound, Shape, FromBehind
<1> HIDE DEF w
<1>3. /\ w \in Wires /\ AllFine(w)
      /\ \A p, q \in Routers : w[p][q] # <<>> => wire[p][q] # <<>>
      /\ m \in Messages /\ Fine(s, r, m)
    BY <1>1, <1>2, Dequeued DEF w
<1> HIDE DEF m
<1>4. QED
    BY <1>1, <1>2, <1>3, SwitchSound

\* The messages a local net causes
LocalTypes == {"USER_NEW", "USER_LOST", "MODE", "TEXT", "PRIVATE"}

\* What a local net causes has the next id.
LEMMA LocalMessage ==
    ASSUME Shape, NEW l \in Nets, NEW type \in LocalTypes, NEW dst \in Node \cup {Null, BROADCAST},
           NEW m, m = Head(WithIds(<<[msg |-> Message(type, l, dst, l), to |-> {}]>>)).msg
    PROVE  /\ m \in Messages /\ m.type = type /\ m.src = l /\ m.dst = dst /\ m.d = l
           /\ m.id \notin UsedIds \cup {0}
<1> DEFINE m0 == Message(type, l, dst, l)
           e == [msg |-> m0, to |-> {}]
           ems == <<e>>
           E == WithIds(ems)
<1>1. /\ m0 \in Messages /\ m0.id = 0
      /\ m0.type = type /\ m0.src = l /\ m0.dst = dst /\ m0.d = l
    BY DEF Message, Messages, Types, LocalTypes, Node
<1> HIDE DEF m0
<1>2. e \in Emissions /\ e.msg = m0
    BY <1>1 DEF Emissions
<1> HIDE DEF e
<1>3. ems \in Seq(Emissions) /\ Len(ems) = 1 /\ ems[1] = e
    BY <1>2
<1> HIDE DEF ems
<1>4. Numbered(E, ems)
    BY <1>3, WithIdsNumber
<1> HIDE DEF E
<1>5. /\ E \in Seq(Emissions) /\ Len(E) = 1
      /\ E[1].msg.type = type /\ E[1].msg.src = l /\ E[1].msg.dst = dst /\ E[1].msg.d = l
      /\ E[1].msg.id \notin UsedIds \cup {0}
    BY <1>1, <1>2, <1>3, <1>4 DEF Numbered
<1>6. E[1] \in Emissions /\ Head(E) = E[1]
    <2> DEFINE i == 1
    <2>1. E \in Seq(Emissions) /\ i \in 1 .. Len(E)
        BY <1>5
    <2> HIDE DEF i
    <2>2. E[i] \in Emissions
        BY <2>1, ElementOfSeq
    <2>3. Head(E) = E[1]
        BY <1>5
    <2>4. QED
        BY <2>2, <2>3 DEF i
<1>7. m = E[1].msg
    BY <1>6 DEF E, ems, e, m0
<1>8. m \in Messages
    BY <1>6, <1>7 DEF Emissions
<1>9. QED
    BY <1>5, <1>7, <1>8

\* A message of a user of a local net may be read.
LEMMA FromLocalSound ==
    ASSUME Tree, Sound, NEW l \in Nets, NEW type \in LocalTypes, NEW dst \in Node \cup {Null, BROADCAST},
           FromLocal(l, type, dst)
    PROVE  Sound'
<1> DEFINE r == Home[l]
           m == Head(WithIds(<<[msg |-> Message(type, l, dst, l), to |-> {}]>>)).msg
<1>1. /\ phase[r] = "up" /\ l \in Conns(table[r]) /\ Switch(wire, r, l, m)
      /\ acts' = acts + 1 /\ todo' = todo /\ cuts' = cuts
    BY DEF FromLocal
<1>2. /\ Shape /\ wire \in Wires /\ AllFine(wire) /\ acts \in Nat /\ cuts \in Nat /\ r \in Routers
    BY RouterNetAssumption DEF Sound, Shape, FromBehind
<1> HIDE DEF r
<1>3. /\ m \in Messages /\ m.type = type /\ m.src = l /\ m.d = l
    BY <1>2, LocalMessage
<1> HIDE DEF m
<1>4. Fine(l, r, m)
    BY <1>3 DEF Fine, LocalTypes, Node
<1>5. QED
    BY <1>1, <1>2, <1>3, <1>4, SwitchSound

\* The users' acts keep the tables right.
LEMMA UserSound ==
    ASSUME Tree, Sound, NEW l \in Nets, SignOn(l) \/ SignOff(l) \/ Speak(l)
    PROVE  Sound'
<1>1. Home[l] \in Routers /\ known[Home[l]] \subseteq Nets
    BY RouterNetAssumption DEF Sound, Shape
<1>2. PICK type \in LocalTypes, dst \in Node \cup {Null, BROADCAST} : FromLocal(l, type, dst)
    BY <1>1 DEF SignOn, SignOff, Speak, LocalTypes, Node
<1>3. QED
    BY <1>2, FromLocalSound

\* The table of r as it links up with s: all is as before, and behind s is what s has
\* and r has not.
Linking(r, s, tbl) ==
    /\ Leads(r, tbl) /\ Conns(tbl) = Conns(table[r]) \cup {s}
    /\ \A c \in Conns(table[r]) : tbl[c] = table[r][c]
    /\ tbl[s] \in Seq(Beyond[r][s] \ {s})
    /\ ToSet(tbl[s]) = {n \in AllNets(table[s]) : IsNewBranch(table[r], n)}

\* The tables of the two ends of a new link
LEMMA JoinedLeads ==
    ASSUME Tree, Sound, NEW r \in Routers, NEW s \in Routers, r # s, Adjacent(r, s),
           s \notin Conns(table[r]), r \notin Conns(table[s]),
           NEW tbl, tbl = Joined(table[r], s, Listed(table[s], r))
    PROVE  Linking(r, s, tbl)
<1> DEFINE t == table[r]
           B == {n \in AllNets(table[s]) : IsNewBranch(t, n)}
           q == SetToSeq(B)
           T == Beyond[r][s] \ {s}
<1>1. /\ Leads(r, t) /\ Leads(s, table[s])
      /\ \A c \in Conns(table[s]) : c \in Node /\ c # s /\ Adjacent(s, c)
    BY AllLead
<1>2. s \in Node /\ r \in Node
    BY DEF Node
<1>3. B \subseteq T
    <2> SUFFICES ASSUME NEW n \in AllNets(table[s]) PROVE n \in T
        OBVIOUS
    <2>1. PICK c \in Conns(table[s]) : n \in Root(table[s], c)
        BY DEF AllNets
    <2>2. c \in Node /\ c # s /\ Adjacent(s, c) /\ c # r
        BY <1>1
    <2>3. Beyond[s][c] \subseteq Beyond[r][s] \ {s}
        BY <1>2, <2>2, AdjacentBoth, Nested
    <2>4. c \in Beyond[s][c]
        BY <1>2, <2>2, BeyondFacts
    <2>5. table[s][c] \in Seq(Beyond[s][c] \ {c})
        BY <1>1 DEF Leads
    <2>6. n \in Beyond[s][c]
        BY <2>1, <2>4, <2>5 DEF Root, BranchesOf, ToSet
    <2>7. QED
        BY <2>3, <2>6
<1>4. IsFiniteSet(B)
    <2>1. IsFiniteSet(Node)
        BY RouterNetAssumption, FS_Union DEF Node
    <2>2. T \subseteq Node
        BY <1>2, BeyondFacts
    <2> HIDE DEF B, T
    <2>3. B \in SUBSET Node
        BY <1>3, <2>2
    <2>4. QED
        BY <2>1, <2>3, FS_Subset
<1>5. /\ Conns(tbl) = Conns(t) \cup {s} /\ tbl[s] = q
      /\ \A c \in Conns(t) : tbl[c] = t[c]
    <2>1. tbl = [AddEntry(t, s) EXCEPT ![s] = q]
        BY DEF Joined, Listed
    <2> HIDE DEF q
    <2>2. QED
        BY <2>1 DEF AddEntry, Conns
<1> HIDE DEF B
<1>6. q \in Seq(B) /\ OnceEach(q) /\ ToSet(q) = B
    BY <1>4, Enumerated
<1> HIDE DEF q
<1>7. q \in Seq(T)
    BY <1>3, <1>6
<1>8. Leads(r, tbl)
    <2>1. s \in Neighbours(r) \ {r}
        BY <1>2 DEF Neighbours
    <2>2. Conns(tbl) \subseteq Neighbours(r) \ {r}
        BY <1>1, <1>5, <2>1 DEF Leads
    <2>3. QED
        BY <1>1, <1>5, <1>6, <1>7, <2>2 DEF Leads
<1>9. /\ Conns(tbl) = Conns(table[r]) \cup {s}
      /\ \A c \in Conns(table[r]) : tbl[c] = table[r][c]
      /\ tbl[s] \in Seq(Beyond[r][s] \ {s})
      /\ ToSet(tbl[s]) = {n \in AllNets(table[s]) : IsNewBranch(table[r], n)}
    BY <1>5, <1>6, <1>7 DEF B
<1>10. QED
    BY <1>8, <1>9 DEF Linking

\* What the two ends of a new link tell others and each other
LEMMA GreetingsFine ==
    ASSUME Tree, NEW r \in Routers, NEW s \in Routers, r # s, Adjacent(r, s),
           NEW tbl, Leads(r, tbl), s \in Conns(tbl)
    PROVE  Greetings(tbl, s) \in Seq(Emissions) /\ FineEms(r, Greetings(tbl, s))
<1> DEFINE nets == <<s>> \o tbl[s]
           A == Announcements(tbl, nets, "NET_NEW")
           m == Message("ENUM_REQUEST", Null, Null, Null)
           e == [msg |-> m, to |-> {s}]
           B == <<e>>
           T == Beyond[r][s] \ {s}
           q == tbl[s]
<1>1. q \in Seq(T) /\ T \subseteq Node /\ s \in Beyond[r][s] /\ s \in Node
    BY BeyondFacts DEF Leads, Node
<1>2. nets \in Seq(Node) /\ \A i \in DOMAIN nets : nets[i] \in Root(tbl, s) /\ nets[i] \in Beyond[r][s]
    <2>1. \A i \in 1 .. Len(q) : q[i] \in T /\ q[i] \in ToSet(q)
        BY <1>1 DEF ToSet
    <2> DEFINE one == <<s>>
    <2>2. one \in Seq(Node) /\ Len(one) = 1 /\ one[1] = s /\ q \in Seq(Node) /\ nets = one \o q
        BY <1>1
    <2> HIDE DEF one
    <2>3. /\ nets \in Seq(Node) /\ Len(nets) = Len(one) + Len(q)
          /\ \A i \in 1 .. Len(one) + Len(q) : nets[i] = IF i <= Len(one) THEN one[i] ELSE q[i - Len(one)]
        BY <2>2, ConcatProperties
    <2> HIDE DEF nets, q, T
    <2>4. ASSUME NEW i \in DOMAIN nets PROVE nets[i] = s \/ (nets[i] \in T /\ nets[i] \in ToSet(q))
        <3>1. i \in 1 .. 1 + Len(q) /\ Len(q) \in Nat
            BY <2>2, <2>3
        <3>2. CASE i = 1
            BY <2>2, <2>3, <3>1, <3>2
        <3>3. CASE i # 1
            <4>1. i - 1 \in 1 .. Len(q) /\ nets[i] = q[i - 1]
                BY <2>2, <2>3, <3>1, <3>3
            <4>2. QED
                BY <2>1, <4>1
        <3>4. QED
            BY <3>2, <3>3
    <2>5. QED
        BY <1>1, <2>3, <2>4 DEF Root, BranchesOf, q, T
<1>3. Greetings(tbl, s) = A \o B
    BY DEF Greetings
<1> HIDE DEF nets, q
<1>4. A \in Seq(Emissions) /\ FineEms(r, A)
    BY <1>2, NewsFine DEF Leads
<1>5. B \in Seq(Emissions) /\ FineEms(r, B)
    <2>1. m \in Messages /\ m.type = "ENUM_REQUEST" /\ m.dst = Null
        BY DEF Message, Messages, Types
    <2> HIDE DEF m
    <2>2. e \in Emissions /\ e.msg = m
        BY <1>1, <2>1 DEF Emissions
    <2> HIDE DEF e
    <2>3. B \in Seq(Emissions) /\ \A k \in 1 .. Len(B) : B[k] = e
        BY <2>2
    <2> HIDE DEF B
    <2>4. QED
        BY <2>1, <2>2, <2>3 DEF FineEms, Fine
<1> HIDE DEF A, B
<1>6. QED
    BY <1>3, <1>4, <1>5, FineBoth

\* A and B are the first m and the last n emissions of E.
Halves(E, m, n, A, B) ==
    /\ A \in Seq(Emissions) /\ Len(A) = m /\ \A k \in 1 .. m : A[k] = E[k]
    /\ B \in Seq(Emissions) /\ Len(B) = n /\ \A k \in 1 .. n : B[k] = E[m + k]

\* The two parts of a numbered sequence of emissions
LEMMA Parts ==
    ASSUME NEW a \in Seq(Emissions), NEW b \in Seq(Emissions), NEW E \in Seq(Emissions),
           Len(E) = Len(a) + Len(b)
    PROVE  Halves(E, Len(a), Len(b), SubSeq(E, 1, Len(a)), SubSeq(E, Len(a) + 1, Len(E)))
<1> DEFINE x == Len(a)
           y == Len(b)
           n == Len(E)
           f == SubSeq(E, 1, x)
           g == SubSeq(E, x + 1, n)
<1>1. x \in Nat /\ y \in Nat /\ n = x + y /\ n \in Nat /\ 1 \in Int /\ x \in Int /\ x + 1 \in Int /\ n \in Int
    OBVIOUS
<1>2. \A k \in 1 .. n : E[k] \in Emissions
    OBVIOUS
<1> HIDE DEF x, y, n
<1>3. f \in Seq(Emissions) /\ Len(f) = x /\ \A k \in 1 .. x : f[k] = E[k]
    <2>1. \A k \in 1 .. x : E[k] \in Emissions
        BY <1>1, <1>2
    <2>2. f \in Seq(Emissions) /\ Len(f) = (IF 1 <= x THEN x - 1 + 1 ELSE 0)
          /\ \A k \in 1 .. x - 1 + 1 : f[k] = E[1 + k - 1]
        BY <1>1, <2>1, SubSeqProperties
    <2>3. \A k \in 1 .. x : 1 + k - 1 = k /\ k \in 1 .. x - 1 + 1
        BY <1>1
    <2> HIDE DEF f
    <2>4. QED
        BY <1>1, <2>2, <2>3
<1>4. g \in Seq(Emissions) /\ Len(g) = y /\ \A k \in 1 .. y : g[k] = E[x + k]
    <2>1. \A k \in x + 1 .. n : E[k] \in Emissions
        BY <1>1, <1>2
    <2>2. g \in Seq(Emissions) /\ Len(g) = (IF x + 1 <= n THEN n - (x + 1) + 1 ELSE 0)
          /\ \A k \in 1 .. n - (x + 1) + 1 : g[k] = E[(x + 1) + k - 1]
        BY <1>1, <2>1, SubSeqProperties
    <2>3. \A k \in 1 .. y : (x + 1) + k - 1 = x + k /\ k \in 1 .. n - (x + 1) + 1
        BY <1>1
    <2> HIDE DEF g
    <2>4. QED
        BY <1>1, <2>2, <2>3
<1>5. QED
    BY <1>3, <1>4 DEF Halves, x, y, n

\* A router that boots has no table yet.
LEMMA BootSound ==
    ASSUME Sound, NEW r \in Routers, Boot(r)
    PROVE  Sound'
<1>1. /\ phase[r] = "off" /\ phase' = [phase EXCEPT ![r] = "starting"]
      /\ todo' = [todo EXCEPT ![r] = {l \in Nets : Home[l] = r} \cup {s \in Routers : <<r, s>> \in Calls}]
      /\ table' = table /\ known' = known /\ lastId' = lastId /\ wire' = wire /\ acts' = acts /\ cuts' = cuts
    BY DEF Boot
<1>2. Shape'
    <2>1. \A c \in todo'[r] : c \in Neighbours(r)
        BY <1>1 DEF Sound, Shape, Neighbours, Adjacent, Node
    <2>2. DOMAIN todo' = Routers /\ \A q \in Routers : todo'[q] \subseteq Neighbours(q)
        BY <1>1, <2>1 DEF Sound, Shape
    <2>3. QED
        BY <1>1, <2>2 DEF Sound, Shape
<1>3. MadeOnce'
    BY <1>1 DEF Sound, Shape, MadeOnce
<1>4. RightWay' /\ OnLinks' /\ FromBehind'
    BY <1>1 DEF Sound, RightWay, OnLinks, FromBehind, AllFine
<1>5. QED
    BY <1>2, <1>3, <1>4 DEF Sound

\* A local net has nothing behind it.
LEMMA AttachLocalSound ==
    ASSUME Tree, Sound, NEW r \in Routers, NEW l \in Nets, AttachLocal(r, l)
    PROVE  Sound'
<1> DEFINE tbl == AddEntry(table[r], l)
           ems == RouteChange(tbl, l, "NET_NEW")
           E == WithIds(ems)
           nets == <<l>>
<1>1. /\ phase[r] = "starting" /\ l \in todo[r] /\ todo' = [todo EXCEPT ![r] = @ \ {l}]
      /\ table' = [table EXCEPT ![r] = tbl] /\ wire' = Sent(table, wire, r, E)
      /\ phase' = phase /\ known' = known /\ lastId' = lastId /\ acts' = acts /\ cuts' = cuts
    BY DEF AttachLocal
<1>2. /\ Shape /\ wire \in Wires /\ AllFine(wire) /\ DOMAIN table = Routers /\ Leads(r, table[r])
      /\ \A s, q \in Routers : wire[s][q] # <<>> => s \in Conns(table[q])
      /\ DOMAIN todo = Routers
    BY AllLead DEF Sound, Shape, OnLinks, FromBehind
<1>3. l \in Node /\ l \notin Routers /\ l # r /\ Adjacent(r, l) /\ l \in Neighbours(r) \ {r} /\ r \in Node
    BY <1>1, RouterNetAssumption DEF Sound, Shape, Neighbours, Node
<1>4. l \notin Conns(table[r])
    BY <1>1, <1>3 DEF Sound, MadeOnce
<1>5. /\ Conns(tbl) = Conns(table[r]) \cup {l} /\ tbl[l] = <<>>
      /\ \A c \in Conns(table[r]) : tbl[c] = table[r][c]
    BY <1>4 DEF AddEntry, Conns
<1> HIDE DEF tbl
<1>6. Leads(r, tbl)
    <2>1. tbl[l] \in Seq(Beyond[r][l] \ {l}) /\ OnceEach(tbl[l])
        BY <1>5 DEF OnceEach
    <2>2. QED
        BY <1>2, <1>3, <1>5, <2>1 DEF Leads
<1>7. ems \in Seq(Emissions) /\ FineEms(r, ems)
    <2>1. ems = Announcements(tbl, nets, "NET_NEW")
        BY OneChange
    <2>2. nets \in Seq(Node) /\ \A i \in DOMAIN nets : nets[i] \in Root(tbl, l) /\ nets[i] \in Beyond[r][l]
        BY <1>3, BeyondFacts DEF Root
    <2> HIDE DEF ems, nets
    <2>3. l \in Conns(tbl) /\ Conns(tbl) \subseteq Neighbours(r) \ {r}
        BY <1>5, <1>6 DEF Leads
    <2>4. QED
        BY <2>1, <2>2, <2>3, NewsFine
<1> HIDE DEF ems
<1>8. E \in Seq(Emissions) /\ FineEms(r, E)
    BY <1>2, <1>7, FineNumbered
<1> HIDE DEF E
<1>9. wire' \in Wires /\ AllFine(wire') /\ OnlyFrom(r, table, wire, wire')
    BY <1>1, <1>2, <1>8, SentFine
<1>10. DOMAIN table' = Routers /\ table'[r] = tbl /\ \A q \in Routers : q # r => table'[q] = table[q]
    BY <1>1, <1>2
<1>11. \A s, q \in Routers : wire'[s][q] # <<>> => s \in Conns(table'[q])
    BY <1>2, <1>5, <1>9, <1>10 DEF OnlyFrom
<1>12. DOMAIN todo' = Routers /\ \A q \in Routers : todo'[q] \subseteq todo[q] /\ l \notin todo'[r]
    BY <1>1, <1>2
<1>13. /\ phase' \in [Routers -> {"off", "starting", "up", "dead"}] /\ phase'[r] # "off"
       /\ known' \in [Routers -> SUBSET Nets] /\ lastId' \in [Routers -> Nat] /\ acts' \in Nat /\ cuts' \in Nat
    BY <1>1, <1>2 DEF Shape
<1>14. \A c \in Conns(tbl) \ Conns(table[r]) : c = l
    BY <1>5
<1>15. QED
    BY <1>1, <1>3, <1>6, <1>9, <1>10, <1>11, <1>12, <1>13, <1>14, OneTable

\* The ends of a new link list to each other what is on their side.
LEMMA LinkUpSound ==
    ASSUME Tree, Sound, NEW r \in Routers, NEW s \in Routers, LinkUp(r, s)
    PROVE  Sound'
<1> DEFINE tblR == Joined(table[r], s, Listed(table[s], r))
           tblS == Joined(table[s], r, Listed(table[r], s))
           tbls == [table EXCEPT ![r] = tblR, ![s] = tblS]
           fromR == Greetings(tblR, s)
           fromS == Greetings(tblS, r)
           both == fromR \o fromS
           all == WithIds(both)
           E == SubSeq(all, 1, Len(fromR))
           F == SubSeq(all, Len(fromR) + 1, Len(all))
           mid == Sent(tbls, wire, r, E)
<1>1. /\ phase[r] = "starting" /\ phase[s] = "up" /\ s \in todo[r]
      /\ todo' = [todo EXCEPT ![r] = @ \ {s}]
      /\ table' = tbls /\ wire' = Sent(tbls, mid, s, F)
      /\ phase' = phase /\ known' = known /\ lastId' = lastId /\ acts' = acts /\ cuts' = cuts
    BY DEF LinkUp
<1>2. /\ Shape /\ wire \in Wires /\ AllFine(wire) /\ DOMAIN table = Routers
      /\ \A p, q \in Routers : wire[p][q] # <<>> => p \in Conns(table[q])
      /\ DOMAIN todo = Routers
    BY DEF Sound, Shape, OnLinks, FromBehind
<1>3. r # s /\ r \in Node /\ s \in Node /\ Adjacent(r, s) /\ Adjacent(s, r)
    BY <1>1, <1>2, AdjacentBoth DEF Shape, Neighbours, Node
<1>4. s \notin Conns(table[r]) /\ r \notin Conns(table[s])
    BY <1>1, <1>3 DEF Sound, MadeOnce
<1>5. /\ Leads(r, tblR) /\ Conns(tblR) = Conns(table[r]) \cup {s}
      /\ Leads(s, tblS) /\ Conns(tblS) = Conns(table[s]) \cup {r}
    BY <1>3, <1>4, JoinedLeads DEF Linking
<1>6. /\ DOMAIN table' = Routers /\ table'[r] = tblR /\ table'[s] = tblS
      /\ \A q \in Routers : q # r /\ q # s => table'[q] = table[q]
    BY <1>1, <1>2, <1>3
<1>7. \A q \in Routers : Leads(q, table'[q]) /\ Conns(table[q]) \subseteq Conns(table'[q])
    BY <1>5, <1>6, AllLead
<1> HIDE DEF tblR, tblS
<1>8. fromR \in Seq(Emissions) /\ FineEms(r, fromR) /\ fromS \in Seq(Emissions) /\ FineEms(s, fromS)
    BY <1>3, <1>5, GreetingsFine
<1> HIDE DEF fromR, fromS
<1>9. both \in Seq(Emissions) /\ Len(both) = Len(fromR) + Len(fromS)
    BY <1>8
<1>10. Numbered(all, both)
    BY <1>2, <1>9, WithIdsNumber
<1>11. all \in Seq(Emissions) /\ Len(all) = Len(fromR) + Len(fromS)
    BY <1>9, <1>10 DEF Numbered
<1> HIDE DEF all
<1>12. /\ E \in Seq(Emissions) /\ Len(E) = Len(fromR) /\ \A k \in 1 .. Len(fromR) : E[k] = all[k]
       /\ F \in Seq(Emissions) /\ Len(F) = Len(fromS) /\ \A k \in 1 .. Len(fromS) : F[k] = all[Len(fromR) + k]
    <2>1. Halves(all, Len(fromR), Len(fromS), E, F)
        BY <1>8, <1>11, Parts
    <2> HIDE DEF E, F
    <2>2. QED
        BY <2>1 DEF Halves
<1> HIDE DEF E, F
<1>13. ASSUME NEW k \in 1 .. Len(both), NEW p, NEW q \in all[k].to \cap Routers,
              q \in both[k].to => Fine(p, q, both[k].msg)
       PROVE  Fine(p, q, all[k].msg)
    BY <1>10, <1>13 DEF Numbered, Fine
<1>14. /\ \A k \in 1 .. Len(fromR) : k \in 1 .. Len(both) /\ both[k] = fromR[k]
       /\ \A k \in 1 .. Len(fromS) : Len(fromR) + k \in 1 .. Len(both) /\ both[Len(fromR) + k] = fromS[k]
    BY <1>8, <1>9
<1>15. \A k \in 1 .. Len(both) : all[k].to = both[k].to
    BY <1>10 DEF Numbered
<1> HIDE DEF both
<1>16. FineEms(r, E) /\ FineEms(s, F)
    <2>1. FineEms(r, E)
        BY <1>8, <1>12, <1>13, <1>14, <1>15 DEF FineEms
    <2>2. FineEms(s, F)
        BY <1>8, <1>12, <1>13, <1>14, <1>15 DEF FineEms
    <2>3. QED
        BY <2>1, <2>2
<1>17. mid \in Wires /\ AllFine(mid) /\ OnlyFrom(r, tbls, wire, mid)
    <2> HIDE DEF tbls
    <2>1. QED
        BY <1>2, <1>12, <1>16, SentFine
<1> HIDE DEF mid, tbls
<1>18. wire' \in Wires /\ AllFine(wire') /\ OnlyFrom(s, tbls, mid, wire')
    BY <1>1, <1>12, <1>16, <1>17, SentFine
<1>19. OnLinks'
    BY <1>1, <1>2, <1>7, <1>17, <1>18 DEF OnLinks, OnlyFrom
<1>20. MadeOnce'
    <2> SUFFICES ASSUME NEW q \in Routers, NEW c \in Node,
                        phase'[q] = "off" \/ (phase'[q] = "starting" /\ c \in todo'[q])
                 PROVE  c \notin Conns(table'[q]) /\ (c \in Routers => q \notin Conns(table'[c]))
        BY DEF MadeOnce
    <2>1. phase[q] = "off" \/ (phase[q] = "starting" /\ c \in todo[q])
        BY <1>1, <1>2
    <2>2. c \notin Conns(table[q]) /\ (c \in Routers => q \notin Conns(table[c]))
        BY <2>1 DEF Sound, MadeOnce
    <2>3. q # s /\ (q = r => c # s)
        BY <1>1, <1>2, <2>1
    <2>4. c \notin Conns(table'[q])
        BY <1>5, <1>6, <2>2, <2>3
    <2>5. c \in Routers => q \notin Conns(table'[c])
        BY <1>5, <1>6, <2>2, <2>3
    <2>6. QED
        BY <2>4, <2>5
<1>21. Shape'
    <2>1. \A q \in Routers : todo'[q] \subseteq Neighbours(q)
        BY <1>1, <1>2 DEF Shape
    <2>2. \A q \in Routers : Conns(table'[q]) \subseteq Neighbours(q) \ {q}
        BY <1>7 DEF Leads
    <2>3. DOMAIN todo' = Routers
        BY <1>1, <1>2
    <2>4. QED
        BY <1>1, <1>2, <1>6, <1>18, <2>1, <2>2, <2>3 DEF Shape
<1>22. RightWay'
    BY <1>7 DEF RightWay, Leads
<1>23. QED
    BY <1>18, <1>19, <1>20, <1>21, <1>22 DEF Sound, FromBehind

\* A failed call leaves the table alone.
LEMMA LinkFailsSound ==
    ASSUME Sound, NEW r \in Routers, NEW s \in Routers, LinkFails(r, s)
    PROVE  Sound'
<1>1. /\ todo' = [todo EXCEPT ![r] = @ \ {s}]
      /\ phase' = phase /\ table' = table /\ known' = known /\ lastId' = lastId /\ wire' = wire
      /\ acts' = acts /\ cuts' = cuts
    BY DEF LinkFails
<1>2. DOMAIN todo' = Routers /\ \A q \in Routers : todo'[q] \subseteq todo[q]
    BY <1>1 DEF Sound, Shape
<1>3. Shape'
    BY <1>1, <1>2 DEF Sound, Shape
<1>4. MadeOnce'
    BY <1>1, <1>2 DEF Sound, MadeOnce
<1>5. RightWay' /\ OnLinks' /\ FromBehind'
    BY <1>1 DEF Sound, RightWay, OnLinks, FromBehind, AllFine
<1>6. QED
    BY <1>3, <1>4, <1>5 DEF Sound

\* A router that starts to host leaves the table alone.
LEMMA GoUpSound ==
    ASSUME Sound, NEW r \in Routers, GoUp(r)
    PROVE  Sound'
<1>1. /\ phase' = [phase EXCEPT ![r] = "up"]
      /\ todo' = todo /\ table' = table /\ known' = known /\ lastId' = lastId /\ wire' = wire
      /\ acts' = acts /\ cuts' = cuts
    BY DEF GoUp
<1>2. Shape'
    BY <1>1 DEF Sound, Shape
<1>3. MadeOnce'
    BY <1>1 DEF Sound, Shape, MadeOnce
<1>4. RightWay' /\ OnLinks' /\ FromBehind'
    BY <1>1 DEF Sound, RightWay, OnLinks, FromBehind, AllFine
<1>5. QED
    BY <1>2, <1>3, <1>4 DEF Sound

\* The end that loses the link forgets what was behind it; what it sends of that is
\* no news of nets.
LEMMA CutSound ==
    ASSUME Tree, Sound, NEW r \in Routers, NEW s \in Routers, Cut(r, s)
    PROVE  Sound'
<1> DEFINE t == table[r]
           tbl == Unlinked(t, s)
           nets == Append(t[s], s)
           ems == Announcements(t, nets, "NET_LOST")
           E == WithIds(ems)
           mid == Sent(table, wire, r, E)
<1>1. /\ phase[r] = "up" /\ s \in Conns(t) /\ cuts' = cuts + 1
      /\ table' = [table EXCEPT ![r] = tbl]
      /\ known' = [known EXCEPT ![r] = @ \ Deserted(t, s)]
      /\ wire' = [mid EXCEPT ![s][r] = <<>>]
      /\ phase' = phase /\ todo' = todo /\ lastId' = lastId /\ acts' = acts
    BY DEF Cut
<1>2. /\ Shape /\ wire \in Wires /\ AllFine(wire) /\ DOMAIN table = Routers /\ Leads(r, t)
      /\ \A p, q \in Routers : wire[p][q] # <<>> => p \in Conns(table[q])
      /\ Conns(t) \subseteq Node \ {r}
    BY AllLead DEF Sound, Shape, OnLinks, FromBehind, Neighbours
<1>3. nets \in Seq(Node)
    <2> DEFINE T == Beyond[r][s] \ {s}
    <2>1. t[s] \in Seq(T)
        BY <1>1, <1>2 DEF Leads
    <2>2. T \subseteq Node
        <3>1. r \in Node /\ s \in Node /\ r # s
            BY <1>1, <1>2 DEF Node
        <3>2. QED
            BY <3>1, BeyondFacts
    <2> HIDE DEF T
    <2>3. t[s] \in Seq(Node) /\ s \in Node
        BY <2>1, <2>2 DEF Node
    <2>4. QED
        BY <2>3
<1>4. ems \in Seq(Emissions) /\ FineEms(r, ems)
    <2>1. Conns(t) \subseteq Node
        BY <1>2
    <2> HIDE DEF t, nets
    <2>2. QED
        BY <1>3, <2>1, LossFine
<1> HIDE DEF ems
<1>5. E \in Seq(Emissions) /\ FineEms(r, E)
    BY <1>2, <1>4, FineNumbered
<1> HIDE DEF E
<1>6. mid \in Wires /\ AllFine(mid) /\ OnlyFrom(r, table, wire, mid)
    BY <1>2, <1>5, SentFine
<1> HIDE DEF mid
<1>7. \A p, q \in Routers : wire'[p][q] = IF p = s /\ q = r THEN <<>> ELSE mid[p][q]
    BY <1>1, <1>6 DEF Wires
<1>8. wire' \in Wires
    <2>1. \A p, q \in Routers : mid[p][q] \in Seq(Messages)
        BY <1>6 DEF Wires
    <2>2. [mid[s] EXCEPT ![r] = <<>>] \in [Routers -> Seq(Messages)]
        BY <1>6 DEF Wires
    <2>3. QED
        BY <1>1, <1>6, <2>2 DEF Wires
<1>9. AllFine(wire')
    BY <1>6, <1>7 DEF AllFine
<1>10. Conns(tbl) = Conns(t) \ {s} /\ \A c \in Conns(tbl) : tbl[c] = t[c]
    BY DEF Unlinked, Conns
<1> HIDE DEF tbl
<1>11. DOMAIN table' = Routers /\ table'[r] = tbl /\ \A q \in Routers : q # r => table'[q] = table[q]
    BY <1>1, <1>2
<1>12. \A p, q \in Routers : wire'[p][q] # <<>> => p \in Conns(table'[q])
    BY <1>2, <1>6, <1>7, <1>10, <1>11 DEF OnlyFrom
<1>13. Leads(r, tbl) /\ \A c \in Conns(tbl) : c \in Conns(table[r])
    BY <1>2, <1>10 DEF Leads
<1>14. /\ phase' \in [Routers -> {"off", "starting", "up", "dead"}] /\ DOMAIN todo' = Routers
       /\ known' \in [Routers -> SUBSET Nets] /\ lastId' \in [Routers -> Nat] /\ acts' \in Nat /\ cuts' \in Nat
    BY <1>1, <1>2 DEF Shape
<1>15. \A q \in Routers : todo'[q] \subseteq todo[q] /\ phase'[q] = phase[q]
    BY <1>1
<1> HIDE DEF t
<1>16. QED
    BY <1>8, <1>9, <1>11, <1>12, <1>13, <1>14, <1>15, OneTable

\* Nobody knows anything yet.
LEMMA SoundInit == Init => Sound
<1> SUFFICES ASSUME Init PROVE Sound
    OBVIOUS
<1>1. \A r \in Routers : Conns(table[r]) = {} /\ \A q \in Routers : wire[q][r] = <<>>
    BY DEF Init, Conns
<1>2. Shape
    BY <1>1 DEF Init, Shape, Wires
<1>3. RightWay /\ MadeOnce
    BY <1>1 DEF RightWay, MadeOnce
<1>4. OnLinks /\ FromBehind
    BY <1>1 DEF OnLinks, FromBehind, AllFine
<1>5. QED
    BY <1>2, <1>3, <1>4 DEF Sound

\* Every step, also a cut or a death, leaves the tables right.
LEMMA SoundNext ==
    ASSUME Tree, Sound, [Next]_vars
    PROVE  Sound'
<1>1. ASSUME NEW r \in Routers, Start(r) PROVE Sound'
    BY <1>1, BootSound, AttachLocalSound, LinkUpSound, LinkFailsSound, GoUpSound DEF Start
<1>2. ASSUME NEW r \in Routers, Serve(r) PROVE Sound'
    BY <1>2, ReceiveSound DEF Serve
<1>3. ASSUME NEW l \in Nets, SignOn(l) \/ SignOff(l) \/ Speak(l) PROVE Sound'
    BY <1>3, UserSound
<1>4. ASSUME NEW r \in Routers, NEW s \in Routers, Cut(r, s) PROVE Sound'
    BY <1>4, CutSound
<1>5. CASE UNCHANGED vars
    BY <1>5 DEF vars, Sound, Shape, RightWay, MadeOnce, OnLinks, FromBehind, AllFine
<1>6. QED
    BY <1>1, <1>2, <1>3, <1>4, <1>5 DEF Next

\* As many branches as there are elements
LEMMA OnceEachCounts ==
    ASSUME NEW T, NEW q \in Seq(T), OnceEach(q)
    PROVE  Len(q) = Cardinality(ToSet(q))
<1> DEFINE n == Len(q)
           S == ToSet(q)
<1>1. n \in Nat /\ q \in [1 .. n -> S] /\ \A x \in S : \E i \in 1 .. n : q[i] = x
    BY DEF ToSet
<1>2. \A i, j \in 1 .. n : q[i] = q[j] => i = j
    BY DEF OnceEach
<1> HIDE DEF S, n
<1>3. q \in Bijection(1 .. n, S)
    BY <1>1, <1>2, Fun_IsBij
<1>4. IsFiniteSet(1 .. n) /\ Cardinality(1 .. n) = n
    <2>1. n \in Int /\ 1 \in Int
        BY <1>1
    <2>2. IsFiniteSet(1 .. n) /\ Cardinality(1 .. n) = IF 1 > n THEN 0 ELSE n - 1 + 1
        BY <2>1, FS_Interval
    <2>3. QED
        BY <1>1, <2>2
<1>5. Cardinality(S) = n
    <2>1. ExistsBijection(1 .. n, S)
        BY <1>3 DEF ExistsBijection
    <2>2. q \in Surjection(1 .. n, S) /\ q \in Injection(1 .. n, S)
        BY <1>3 DEF Bijection
    <2>3. QED
        BY <1>4, <2>2, FS_Surjection
<1>6. QED
    BY <1>5 DEF n, S

\* What the invariant says of one table is what the property says.
LEMMA SoundRoutes ==
    ASSUME Sound
    PROVE  RoutesTrue
<1> SUFFICES ASSUME NEW r \in Routers, NEW c \in Conns(table[r])
             PROVE  /\ BranchesOf(table[r], c) \subseteq Beyond[r][c] \ {c}
                    /\ Len(table[r][c]) = Cardinality(BranchesOf(table[r], c))
    BY DEF RoutesTrue
<1> DEFINE q == table[r][c]
           T == Beyond[r][c] \ {c}
<1>1. q \in Seq(T) /\ OnceEach(q)
    BY DEF Sound, RightWay
<1>2. BranchesOf(table[r], c) = ToSet(q)
    BY DEF BranchesOf
<1> HIDE DEF q, T
<1>3. ToSet(q) \subseteq T /\ Len(q) = Cardinality(ToSet(q))
    BY <1>1, OnceEachCounts DEF ToSet
<1>4. QED
    BY <1>2, <1>3 DEF q, T

\* Whatever links are lost and whatever routers die, and in whatever order the
\* routers hear of changes: a branch of a connection lies beyond it, and each
\* branch is there once (routetbl_add_branch, exchange_routetbl).
THEOREM RoutesStayTrue ==
    ASSUME Tree
    PROVE  Spec => []RoutesTrue
<1>1. Sound => RoutesTrue
    BY SoundRoutes
<1>2. Sound /\ [Next]_vars => Sound'
    BY SoundNext
<1>3. QED
    BY <1>1, <1>2, SoundInit, PTL DEF Spec

-----------------------------------------------------------------------------
(***************************************************************************)
(* As long as no link is lost.                                             *)
(***************************************************************************)

\* The queue b to q is a, then what E has for q.
Adds(a, b, E, q) ==
    /\ Len(a) <= Len(b) /\ \A i \in 1 .. Len(a) : b[i] = a[i]
    /\ \E f \in [Len(a) + 1 .. Len(b) -> 1 .. Len(E)] :
          /\ \A i \in Len(a) + 1 .. Len(b) : b[i] = E[f[i]].msg /\ q \in E[f[i]].to
          /\ \A i, j \in Len(a) + 1 .. Len(b) : f[i] = f[j] => i = j
          /\ \A k \in 1 .. Len(E) : q \in E[k].to => \E i \in Len(a) + 1 .. Len(b) : f[i] = k

\* Every router p has sent Es[p].
Extends(T, w, v, Es) ==
    \A p, q \in Routers : IF p \in Conns(T[q]) THEN Adds(w[p][q], v[p][q], Es[p], q)
                                               ELSE v[p][q] = w[p][q]

\* s may send e now.
Proper(T, w, lid, s, e, q) ==
    /\ q # s /\ Adjacent(s, q)
    /\ e.msg.type = "NET_NEW" => e.msg.d \in AllNets(T[s])
    /\ Due(T, w, s, q, e.msg, Len(w[s][q]))
    /\ Unseen(lid, s, q, e.msg.id)
    /\ \A t, u \in Routers : \A j \in DOMAIN w[t][u] : w[t][u][j].id = e.msg.id => Apart(t, u, s, q)

AllProper(T, w, lid, Es) ==
    \A s \in Routers : \A k \in 1 .. Len(Es[s]) : \A q \in Es[s][k].to \cap Routers :
        s \in Conns(T[q]) => Proper(T, w, lid, s, Es[s][k], q)

\* No id is used twice.
Distinct(Es) ==
    \A s, t \in Routers : \A k \in 1 .. Len(Es[s]), l \in 1 .. Len(Es[t]) :
        Es[s][k].msg.id = Es[t][l].msg.id => s = t /\ k = l

\* E tells r of n.
Announced(E, r, n) ==
    \E k \in 1 .. Len(E) : r \in E[k].to /\ E[k].msg.type = "NET_NEW" /\ E[k].msg.d = n

AllToldOrAnnounced(T, w, Es) ==
    \A s, r \in Routers : Link(T, s, r) =>
        \A c \in Conns(T[s]) \ {r} : \A n \in Root(T[s], c) :
            Told(T, w, r, s, n, Len(w[s][r])) \/ Announced(Es[s], r, n)

\* What was told stays told.
LEMMA ToldStill ==
    ASSUME NEW T, NEW w \in Wires, NEW v \in Wires, NEW Es, Extends(T, w, v, Es),
           NEW r \in Routers, NEW s \in Routers, NEW n, NEW i \in Int, i <= Len(w[s][r]),
           Told(T, w, r, s, n, i)
    PROVE  Told(T, v, r, s, n, i)
<1> DEFINE a == w[s][r]
           b == v[s][r]
<1>1. a \in Seq(Messages) /\ b \in Seq(Messages)
    BY DEF Wires
<1>2. \A j \in 1 .. Len(a) : b[j] = a[j]
    BY DEF Extends, Adds
<1> HIDE DEF a, b
<1>3. \A j \in 1 .. i : j \in 1 .. Len(a)
    BY <1>1 DEF a
<1>4. QED
    BY <1>2, <1>3 DEF Told, a, b

\* The i-th message in the queue from s to r was there, or is an emission.
Kept(w, v, s, r, i) == i \in DOMAIN w[s][r] /\ v[s][r][i] = w[s][r][i]

Emitted(T, w, v, Es, s, r, i) ==
    /\ i > Len(w[s][r]) /\ s \in Conns(T[r])
    /\ \E k \in 1 .. Len(Es[s]) : v[s][r][i] = Es[s][k].msg /\ r \in Es[s][k].to

SameId(v, s, r, i, j) == v[s][r][i].id = v[s][r][j].id

\* A message in a queue was there, or is an emission.
LEMMA WhereFrom ==
    ASSUME NEW T, NEW w \in Wires, NEW v \in Wires, NEW Es, Extends(T, w, v, Es),
           NEW s \in Routers, NEW r \in Routers, NEW i \in DOMAIN v[s][r]
    PROVE  Kept(w, v, s, r, i) \/ Emitted(T, w, v, Es, s, r, i)
<1> DEFINE a == w[s][r]
           b == v[s][r]
           E == Es[s]
<1>1. a \in Seq(Messages) /\ b \in Seq(Messages) /\ i \in 1 .. Len(b) /\ Len(a) \in Nat /\ Len(b) \in Nat
    BY DEF Wires
<1>2. IF s \in Conns(T[r]) THEN Adds(a, b, E, r) ELSE b = a
    BY DEF Extends
<1> HIDE DEF a, b, E
<1>3. DOMAIN a = 1 .. Len(a)
    BY <1>1
<1>4. CASE s \in Conns(T[r])
    <2>1. PICK f \in [Len(a) + 1 .. Len(b) -> 1 .. Len(E)] :
              \A j \in Len(a) + 1 .. Len(b) : b[j] = E[f[j]].msg /\ r \in E[f[j]].to
        BY <1>2, <1>4 DEF Adds
    <2>2. CASE i <= Len(a)
        <3>1. i \in 1 .. Len(a)
            BY <1>1, <2>2
        <3>2. b[i] = a[i]
            BY <1>2, <1>4, <3>1 DEF Adds
        <3>3. QED
            BY <1>3, <3>1, <3>2 DEF a, b, Kept
    <2>3. CASE ~(i <= Len(a))
        <3>1. i \in Len(a) + 1 .. Len(b) /\ i > Len(a)
            BY <1>1, <2>3
        <3>2. f[i] \in 1 .. Len(E) /\ b[i] = E[f[i]].msg /\ r \in E[f[i]].to
            BY <2>1, <3>1
        <3>3. QED
            BY <1>4, <3>1, <3>2 DEF a, b, E, Emitted
    <2>4. QED
        BY <2>2, <2>3
<1>5. CASE s \notin Conns(T[r])
    BY <1>1, <1>2, <1>3, <1>5 DEF a, b, Kept
<1>6. QED
    BY <1>4, <1>5

\* An emission that goes to a linked router is in its queue.
LEMMA Arrives ==
    ASSUME NEW T, NEW w \in Wires, NEW v \in Wires, NEW Es, Extends(T, w, v, Es),
           NEW s \in Routers, NEW r \in Routers, s \in Conns(T[r]),
           NEW n, Announced(Es[s], r, n)
    PROVE  Told(T, v, r, s, n, Len(v[s][r]))
<1> DEFINE a == w[s][r]
           b == v[s][r]
           E == Es[s]
<1>1. a \in Seq(Messages) /\ b \in Seq(Messages) /\ Len(a) \in Nat /\ Len(b) \in Nat
    BY DEF Wires
<1>2. Adds(a, b, E, r)
    BY DEF Extends
<1>3. PICK k \in 1 .. Len(E) : r \in E[k].to /\ E[k].msg.type = "NET_NEW" /\ E[k].msg.d = n
    BY DEF Announced
<1> HIDE DEF a, b, E
<1>4. PICK i \in Len(a) + 1 .. Len(b) : b[i] = E[k].msg
    BY <1>2, <1>3 DEF Adds
<1>5. i \in 1 .. Len(b) /\ b[i].type = "NET_NEW" /\ b[i].d = n
    BY <1>1, <1>3, <1>4
<1>6. QED
    BY <1>5 DEF Told, b

\* Two copies of one emission are in different queues.
LEMMA OneCopy ==
    ASSUME NEW T, NEW w \in Wires, NEW v \in Wires, NEW Es, Extends(T, w, v, Es), Distinct(Es),
           NEW s \in Routers, NEW r \in Routers, NEW i \in DOMAIN v[s][r], NEW j \in DOMAIN v[s][r],
           Emitted(T, w, v, Es, s, r, i), Emitted(T, w, v, Es, s, r, j), SameId(v, s, r, i, j)
    PROVE  i = j
<1> DEFINE a == w[s][r]
           b == v[s][r]
           E == Es[s]
<1>1. /\ a \in Seq(Messages) /\ b \in Seq(Messages) /\ Len(a) \in Nat /\ Len(b) \in Nat
      /\ i \in 1 .. Len(b) /\ j \in 1 .. Len(b) /\ i > Len(a) /\ j > Len(a)
    <2>1. a \in Seq(Messages) /\ b \in Seq(Messages)
        BY DEF Wires
    <2>2. i > Len(a) /\ j > Len(a) /\ i \in DOMAIN b /\ j \in DOMAIN b
        BY DEF Emitted
    <2> HIDE DEF a, b
    <2>3. QED
        BY <2>1, <2>2
<1>2. IF s \in Conns(T[r]) THEN Adds(a, b, E, r) ELSE b = a
    BY DEF Extends
<1>3. \A k, l \in 1 .. Len(E) : E[k].msg.id = E[l].msg.id => k = l
    BY DEF Distinct
<1>4. b[i].id = b[j].id
    BY DEF SameId
<1> HIDE DEF a, b, E
<1>5. i \in Len(a) + 1 .. Len(b) /\ j \in Len(a) + 1 .. Len(b) /\ b # a
    BY <1>1
<1>6. PICK f \in [Len(a) + 1 .. Len(b) -> 1 .. Len(E)] :
          /\ \A x \in Len(a) + 1 .. Len(b) : b[x] = E[f[x]].msg
          /\ \A x, y \in Len(a) + 1 .. Len(b) : f[x] = f[y] => x = y
    BY <1>2, <1>5 DEF Adds
<1>7. f[i] = f[j]
    BY <1>3, <1>4, <1>5, <1>6
<1>8. QED
    BY <1>5, <1>6, <1>7

\* What was told stays told, and what is announced arrives.
LEMMA StepAllTold ==
    ASSUME NEW T, NEW w \in Wires, NEW v \in Wires, NEW Es, Extends(T, w, v, Es),
           AllToldOrAnnounced(T, w, Es)
    PROVE  AllTold(T, v)
<1> SUFFICES ASSUME NEW s \in Routers, NEW r \in Routers, Link(T, s, r),
                    NEW c \in Conns(T[s]) \ {r}, NEW n \in Root(T[s], c)
             PROVE  Told(T, v, r, s, n, Len(v[s][r]))
    BY DEF AllTold
<1>1. Told(T, w, r, s, n, Len(w[s][r])) \/ Announced(Es[s], r, n)
    BY DEF AllToldOrAnnounced
<1>2. s \in Conns(T[r])
    BY DEF Link
<1>3. CASE Told(T, w, r, s, n, Len(w[s][r]))
    <2> DEFINE a == w[s][r]
               b == v[s][r]
    <2>1. a \in Seq(Messages) /\ b \in Seq(Messages)
        BY DEF Wires
    <2>2. Len(a) \in Int /\ Len(b) \in Int /\ Len(a) <= Len(b)
        BY <1>2, <2>1 DEF Extends, Adds
    <2> DEFINE i == Len(a)
    <2>3. i \in Int /\ i <= Len(w[s][r]) /\ Told(T, w, r, s, n, i)
        BY <1>3, <2>2
    <2> HIDE DEF i
    <2>4. Told(T, v, r, s, n, i)
        BY <2>3, ToldStill
    <2>5. QED
        BY <2>2, <2>4 DEF Told, i
<1>4. CASE Announced(Es[s], r, n)
    BY <1>2, <1>4, Arrives
<1>5. QED
    BY <1>1, <1>3, <1>4

\* News of nets are of nets the sender has.
LEMMA StepOnlyTold ==
    ASSUME NEW T, NEW w \in Wires, NEW v \in Wires, NEW lid, NEW Es, Extends(T, w, v, Es),
           AllProper(T, w, lid, Es), OnlyTold(T, w)
    PROVE  OnlyTold(T, v)
<1> SUFFICES ASSUME NEW s \in Routers, NEW r \in Routers, Link(T, s, r)
             PROVE  /\ BranchesOf(T[r], s) \subseteq AllNets(T[s])
                    /\ \A i \in DOMAIN v[s][r] : v[s][r][i].type = "NET_NEW" => v[s][r][i].d \in AllNets(T[s])
    BY DEF OnlyTold
<1>1. BranchesOf(T[r], s) \subseteq AllNets(T[s])
    BY DEF OnlyTold
<1>2. ASSUME NEW i \in DOMAIN v[s][r], v[s][r][i].type = "NET_NEW"
      PROVE  v[s][r][i].d \in AllNets(T[s])
    <2>1. CASE Kept(w, v, s, r, i)
        BY <1>2, <2>1 DEF OnlyTold, Kept
    <2>2. CASE Emitted(T, w, v, Es, s, r, i)
        <3>1. PICK k \in 1 .. Len(Es[s]) : s \in Conns(T[r]) /\ v[s][r][i] = Es[s][k].msg /\ r \in Es[s][k].to
            BY <2>2 DEF Emitted
        <3>2. Proper(T, w, lid, s, Es[s][k], r)
            BY <2>2, <3>1 DEF AllProper
        <3>3. QED
            BY <1>2, <3>1, <3>2 DEF Proper
    <2>3. QED
        BY <2>1, <2>2, WhereFrom
<1>3. QED
    BY <1>1, <1>2

\* What is sent now is sent behind all that was told.
LEMMA StepToldBefore ==
    ASSUME NEW T, NEW w \in Wires, NEW v \in Wires, NEW lid, NEW Es, Extends(T, w, v, Es),
           AllProper(T, w, lid, Es), ToldBefore(T, w)
    PROVE  ToldBefore(T, v)
<1> SUFFICES ASSUME NEW s \in Routers, NEW r \in Routers, NEW i \in DOMAIN v[s][r]
             PROVE  Due(T, v, s, r, v[s][r][i], i - 1)
    BY DEF ToldBefore
<1> DEFINE a == w[s][r]
           b == v[s][r]
           m == b[i]
           x == m.src
<1>1. a \in Seq(Messages) /\ b \in Seq(Messages) /\ i \in DOMAIN b
    BY DEF Wires
<1>2. Len(a) \in Int /\ i \in Int /\ DOMAIN a = 1 .. Len(a)
    BY <1>1
<1>3. CASE Kept(w, v, s, r, i)
    <2>1. Due(T, w, s, r, m, i - 1)
        BY <1>3 DEF ToldBefore, Kept
    <2> DEFINE j == i - 1
    <2>2. j \in Int /\ j <= Len(w[s][r])
        BY <1>2, <1>3 DEF Kept
    <2> HIDE DEF j, x
    <2>3. Told(T, w, r, s, x, j) => Told(T, v, r, s, x, j)
        BY <2>2, ToldStill
    <2>4. QED
        BY <2>1, <2>3 DEF Due, j, x
<1>4. CASE Emitted(T, w, v, Es, s, r, i)
    <2>1. PICK k \in 1 .. Len(Es[s]) : m = Es[s][k].msg /\ r \in Es[s][k].to
        BY <1>4 DEF Emitted
    <2>2. Proper(T, w, lid, s, Es[s][k], r)
        BY <1>4, <2>1 DEF AllProper, Emitted
    <2>3. Due(T, w, s, r, m, Len(w[s][r]))
        BY <2>1, <2>2 DEF Proper
    <2> DEFINE j == Len(w[s][r])
    <2>4. j \in Int /\ j <= Len(w[s][r]) /\ j <= i - 1
        BY <1>2, <1>4 DEF Emitted
    <2>5. Due(T, w, s, r, m, j)
        BY <2>3
    <2> HIDE DEF j, x, m
    <2>6. Told(T, w, r, s, x, j) => Told(T, v, r, s, x, j)
        BY <2>4, ToldStill
    <2>7. Told(T, v, r, s, x, j) => Told(T, v, r, s, x, i - 1)
        BY <1>2, <2>4 DEF Told
    <2>8. QED
        BY <2>5, <2>6, <2>7 DEF Due, x, m
<1>5. QED
    BY <1>3, <1>4, WhereFrom

\* What is sent now has no copy on its way to the same routers.
LEMMA StepOutward ==
    ASSUME Tree, NEW T, NEW w \in Wires, NEW v \in Wires, NEW lid, NEW Es, Extends(T, w, v, Es),
           AllProper(T, w, lid, Es), Distinct(Es), Outward(w, lid)
    PROVE  Outward(v, lid)
<1>1. ASSUME NEW s \in Routers, NEW r \in Routers, NEW i \in DOMAIN v[s][r]
      PROVE  Kept(w, v, s, r, i) \/ Emitted(T, w, v, Es, s, r, i)
    BY WhereFrom
<1>2. ASSUME NEW s \in Routers, NEW r \in Routers, NEW i \in DOMAIN v[s][r], Emitted(T, w, v, Es, s, r, i)
      PROVE  /\ i > Len(w[s][r])
             /\ \E k \in 1 .. Len(Es[s]) : v[s][r][i] = Es[s][k].msg /\ Proper(T, w, lid, s, Es[s][k], r)
    BY <1>2 DEF AllProper, Emitted
<1>3. ASSUME NEW s \in Routers, NEW r \in Routers, NEW i \in DOMAIN v[s][r]
      PROVE  Unseen(lid, s, r, v[s][r][i].id)
    <2>1. CASE Kept(w, v, s, r, i)
        BY <2>1 DEF Outward, Kept
    <2>2. CASE Emitted(T, w, v, Es, s, r, i)
        BY <1>2, <2>2 DEF Proper
    <2>3. QED
        BY <1>1, <2>1, <2>2
<1>4. ASSUME NEW s \in Routers, NEW r \in Routers, NEW t \in Routers, NEW q \in Routers,
             NEW i \in DOMAIN v[s][r], NEW j \in DOMAIN v[t][q], v[s][r][i].id = v[t][q][j].id
      PROVE  (s = t /\ r = q /\ i = j) \/ Apart(s, r, t, q)
    <2>1. CASE Kept(w, v, s, r, i) /\ Kept(w, v, t, q, j)
        BY <1>4, <2>1 DEF Outward, Kept
    <2>2. CASE Kept(w, v, s, r, i) /\ Emitted(T, w, v, Es, t, q, j)
        <3>1. PICK k \in 1 .. Len(Es[t]) : v[t][q][j] = Es[t][k].msg /\ Proper(T, w, lid, t, Es[t][k], q)
            BY <1>2, <2>2
        <3>2. w[s][r][i].id = Es[t][k].msg.id /\ i \in DOMAIN w[s][r]
            BY <1>4, <2>2, <3>1 DEF Kept
        <3>3. Apart(s, r, t, q)
            BY <3>1, <3>2 DEF Proper
        <3>4. QED
            BY <3>3
    <2>3. CASE Emitted(T, w, v, Es, s, r, i) /\ Kept(w, v, t, q, j)
        <3>1. PICK k \in 1 .. Len(Es[s]) : v[s][r][i] = Es[s][k].msg /\ Proper(T, w, lid, s, Es[s][k], r)
            BY <1>2, <2>3
        <3>2. w[t][q][j].id = Es[s][k].msg.id /\ j \in DOMAIN w[t][q]
            BY <1>4, <2>3, <3>1 DEF Kept
        <3>3. Apart(t, q, s, r)
            BY <3>1, <3>2 DEF Proper
        <3>4. QED
            BY <3>3 DEF Apart
    <2>4. CASE Emitted(T, w, v, Es, s, r, i) /\ Emitted(T, w, v, Es, t, q, j)
        <3>1. PICK k \in 1 .. Len(Es[s]) : v[s][r][i] = Es[s][k].msg /\ Proper(T, w, lid, s, Es[s][k], r)
            BY <1>2, <2>4
        <3>2. PICK l \in 1 .. Len(Es[t]) : v[t][q][j] = Es[t][l].msg /\ Proper(T, w, lid, t, Es[t][l], q)
            BY <1>2, <2>4
        <3>3. s = t
            BY <1>4, <3>1, <3>2 DEF Distinct
        <3>4. CASE r = q
            <4>1. j \in DOMAIN v[s][r] /\ Emitted(T, w, v, Es, s, r, i) /\ Emitted(T, w, v, Es, s, r, j)
                BY <2>4, <3>3, <3>4
            <4>2. SameId(v, s, r, i, j)
                BY <1>4, <3>3, <3>4 DEF SameId
            <4>3. i = j
                BY <4>1, <4>2, OneCopy
            <4>4. QED
                BY <3>3, <3>4, <4>3
        <3>5. CASE r # q
            <4>1. Adjacent(s, r) /\ Adjacent(s, q)
                BY <3>1, <3>2, <3>3 DEF Proper
            <4>2. s \in Node /\ r \in Node /\ q \in Node
                BY DEF Node
            <4>3. Apart(s, r, t, q)
                BY <3>3, <3>5, <4>1, <4>2 DEF Tree, Apart
            <4>4. QED
                BY <4>3
        <3>6. QED
            BY <3>4, <3>5
    <2>5. QED
        BY <1>1, <2>1, <2>2, <2>3, <2>4
<1>5. QED
    BY <1>3, <1>4 DEF Outward

\* What keeps the news complete, told first, and on their way out
LEMMA LosslessStep ==
    ASSUME Tree, NEW T, NEW w \in Wires, NEW v \in Wires, NEW lid, NEW Es, Extends(T, w, v, Es),
           AllProper(T, w, lid, Es), Distinct(Es),
           AllToldOrAnnounced(T, w, Es), OnlyTold(T, w), ToldBefore(T, w), Outward(w, lid)
    PROVE  AllTold(T, v) /\ OnlyTold(T, v) /\ ToldBefore(T, v) /\ Outward(v, lid)
<1>1. AllTold(T, v)
    BY StepAllTold
<1>2. OnlyTold(T, v)
    BY StepOnlyTold
<1>3. ToldBefore(T, v)
    BY StepToldBefore
<1>4. Outward(v, lid)
    BY StepOutward
<1>5. QED
    BY <1>1, <1>2, <1>3, <1>4

\* Sent makes a sender, and all others are silent.
Only(r, E) == [p \in Routers |-> IF p = r THEN E ELSE <<>>]

\* A queue grows by the picked emissions, in order.
LEMMA SentAdds ==
    ASSUME NEW a \in Seq(Messages), NEW E \in Seq(Emissions), NEW q
    PROVE  Adds(a, a \o Outgoing(E, q), E, q)
<1> DEFINE b == Outgoing(E, q)
           ab == a \o b
<1>1. b \in Seq(Messages) /\ Picks(b, E, q, Len(E))
    BY OutgoingPicks
<1> HIDE DEF b
<1>2. /\ ab \in Seq(Messages) /\ Len(ab) = Len(a) + Len(b)
      /\ \A i \in 1 .. Len(a) + Len(b) : ab[i] = IF i <= Len(a) THEN a[i] ELSE b[i - Len(a)]
    BY <1>1, ConcatProperties
<1>3. Len(a) \in Nat /\ Len(b) \in Nat
    BY <1>1
<1>4. PICK g \in [1 .. Len(b) -> 1 .. Len(E)] :
          /\ \A x \in 1 .. Len(b) : b[x] = E[g[x]].msg /\ q \in E[g[x]].to
          /\ \A x, y \in 1 .. Len(b) : g[x] = g[y] => x = y
          /\ \A k \in 1 .. Len(E) : q \in E[k].to => \E x \in 1 .. Len(b) : g[x] = k
    BY <1>1 DEF Picks
<1> HIDE DEF ab
<1> DEFINE la == Len(a)
           f == [i \in la + 1 .. Len(ab) |-> g[i - la]]
<1>5. \A i \in la + 1 .. Len(ab) : i - la \in 1 .. Len(b) /\ ab[i] = b[i - la] /\ f[i] = g[i - la]
    BY <1>2, <1>3
<1>6. f \in [la + 1 .. Len(ab) -> 1 .. Len(E)]
    BY <1>4, <1>5
<1>7. \A x \in 1 .. Len(b) : la + x \in la + 1 .. Len(ab) /\ (la + x) - la = x
    BY <1>2, <1>3
<1>8. Len(a) <= Len(ab) /\ \A i \in 1 .. Len(a) : ab[i] = a[i]
    BY <1>2, <1>3
<1>9. \A i, j \in la + 1 .. Len(ab) : i - la = j - la => i = j
    BY <1>3
<1> HIDE DEF f, la
<1>10. \A i \in la + 1 .. Len(ab) : ab[i] = E[f[i]].msg /\ q \in E[f[i]].to
    BY <1>4, <1>5
<1>11. \A i, j \in la + 1 .. Len(ab) : f[i] = f[j] => i = j
    <2> SUFFICES ASSUME NEW i \in la + 1 .. Len(ab), NEW j \in la + 1 .. Len(ab), f[i] = f[j] PROVE i = j
        OBVIOUS
    <2>1. g[i - la] = g[j - la] /\ i - la \in 1 .. Len(b) /\ j - la \in 1 .. Len(b)
        BY <1>5
    <2>2. i - la = j - la
        BY <1>4, <2>1
    <2>3. QED
        BY <1>9, <2>2
<1>12. \A k \in 1 .. Len(E) : q \in E[k].to => \E i \in la + 1 .. Len(ab) : f[i] = k
    <2> SUFFICES ASSUME NEW k \in 1 .. Len(E), q \in E[k].to PROVE \E i \in la + 1 .. Len(ab) : f[i] = k
        OBVIOUS
    <2>1. PICK x \in 1 .. Len(b) : g[x] = k
        BY <1>4
    <2> DEFINE i == la + x
    <2>2. i \in la + 1 .. Len(ab) /\ i - la = x
        BY <1>7
    <2> HIDE DEF i
    <2>3. f[i] = k
        BY <1>5, <2>1, <2>2
    <2>4. QED
        BY <2>2, <2>3
<1>13. Adds(a, ab, E, q)
    BY <1>6, <1>8, <1>10, <1>11, <1>12 DEF Adds, la
<1>14. QED
    BY <1>13 DEF ab, b

\* Nor does it shrink.
LEMMA AddsNothing ==
    ASSUME NEW a \in Seq(Messages), NEW q
    PROVE  Adds(a, a, <<>>, q)
<1> DEFINE E == <<>>
           f == [i \in Len(a) + 1 .. Len(a) |-> 0]
<1>1. Len(a) \in Nat /\ Len(E) = 0
    OBVIOUS
<1>2. \A i \in Len(a) + 1 .. Len(a) : FALSE
    BY <1>1
<1>3. f \in [Len(a) + 1 .. Len(a) -> 1 .. Len(E)]
    BY <1>2
<1>4. \A k \in 1 .. Len(E) : FALSE
    BY <1>1
<1> HIDE DEF E, f
<1>5. Adds(a, a, E, q)
    BY <1>1, <1>2, <1>3, <1>4 DEF Adds
<1>6. QED
    BY <1>5 DEF E

\* Sent, as the queues see it
LEMMA SentExtends ==
    ASSUME NEW T, NEW tbls, NEW w \in Wires, NEW r \in Routers, NEW E \in Seq(Emissions),
           NEW v, v = Sent(tbls, w, r, E), \A q \in Routers : r \in Conns(T[q]) <=> r \in Conns(tbls[q])
    PROVE  v \in Wires /\ Extends(T, w, v, Only(r, E))
<1>1. v \in Wires /\ \A p, q \in Routers : v[p][q] = Grown(tbls, w, r, E, p, q)
    BY SentFacts
<1>2. ASSUME NEW p \in Routers, NEW q \in Routers
      PROVE  IF p \in Conns(T[q]) THEN Adds(w[p][q], v[p][q], Only(r, E)[p], q) ELSE v[p][q] = w[p][q]
    <2> DEFINE a == w[p][q]
    <2>1. a \in Seq(Messages)
        BY DEF Wires
    <2>2. CASE p = r
        <3>1. Only(r, E)[p] = E
            BY <2>2 DEF Only
        <3>2. CASE r \in Conns(T[q])
            <4>1. v[p][q] = a \o Outgoing(E, q)
                BY <1>1, <2>2, <3>2 DEF Grown
            <4> HIDE DEF a
            <4>2. Adds(a, a \o Outgoing(E, q), E, q)
                BY <2>1, SentAdds
            <4>3. QED
                BY <2>2, <3>1, <3>2, <4>1, <4>2 DEF a
        <3>3. CASE r \notin Conns(T[q])
            BY <1>1, <2>2, <3>3 DEF Grown
        <3>4. QED
            BY <3>2, <3>3
    <2>3. CASE p # r
        <3>1. Only(r, E)[p] = <<>> /\ v[p][q] = a
            BY <1>1, <2>3 DEF Only, Grown
        <3> HIDE DEF a
        <3>2. Adds(a, a, <<>>, q)
            BY <2>1, AddsNothing
        <3>3. QED
            BY <3>1, <3>2 DEF a
    <2>4. QED
        BY <2>2, <2>3
<1>3. QED
    BY <1>1, <1>2 DEF Extends

\* A fresh id is nobody's.
LEMMA FreshUnseen ==
    ASSUME NEW id, id \notin UsedIds \cup {0}, NEW s, NEW q
    PROVE  /\ Unseen(lastId, s, q, id)
           /\ \A t, u \in Routers : \A j \in DOMAIN wire[t][u] : wire[t][u][j].id # id
<1>1. \A z \in Routers : lastId[z] \in UsedIds
    BY DEF UsedIds
<1>2. \A t, u \in Routers : \A j \in DOMAIN wire[t][u] : wire[t][u][j].id \in UsedIds
    <2> SUFFICES ASSUME NEW t \in Routers, NEW u \in Routers, NEW j \in DOMAIN wire[t][u]
                 PROVE  wire[t][u][j].id \in UsedIds
        OBVIOUS
    <2>1. wire[t][u][j].id \in Ids(wire[t][u])
        BY DEF Ids
    <2>2. Ids(wire[t][u]) \subseteq UsedIds
        BY DEF UsedIds
    <2>3. QED
        BY <2>1, <2>2
<1>3. QED
    BY <1>1, <1>2 DEF Unseen

\* Tables that lost nothing
Larger(T) ==
    \A q \in Routers : \A c \in Conns(table[q]) :
        c \in Conns(T[q]) /\ BranchesOf(table[q], c) \subseteq BranchesOf(T[q], c)

\* Larger tables know no less.
LEMMA ToldLarger ==
    ASSUME NEW T, Larger(T), NEW q \in Routers, NEW s \in Conns(table[q]), NEW w, NEW n, NEW i,
           Told(table, w, q, s, n, i)
    PROVE  Told(T, w, q, s, n, i)
<1>1. BranchesOf(table[q], s) \subseteq BranchesOf(T[q], s)
    BY DEF Larger
<1>2. QED
    BY <1>1 DEF Told

\* They have no fewer nets.
LEMMA NetsLarger ==
    ASSUME NEW T, Larger(T), NEW q \in Routers
    PROVE  AllNets(table[q]) \subseteq AllNets(T[q])
<1> SUFFICES ASSUME NEW n \in AllNets(table[q]) PROVE n \in AllNets(T[q])
    OBVIOUS
<1>1. PICK c \in Conns(table[q]) : n \in Root(table[q], c)
    BY DEF AllNets
<1>2. c \in Conns(T[q]) /\ n \in Root(T[q], c)
    BY <1>1 DEF Larger, Root
<1>3. QED
    BY <1>2 DEF AllNets

\* What was sent in time was so for larger tables too.
LEMMA BeforeLarger ==
    ASSUME Sound, Lossless, NEW T, Larger(T)
    PROVE  ToldBefore(T, wire)
<1> SUFFICES ASSUME NEW s \in Routers, NEW q \in Routers, NEW i \in DOMAIN wire[s][q]
             PROVE  Due(T, wire, s, q, wire[s][q][i], i - 1)
    BY DEF ToldBefore
<1> DEFINE m == wire[s][q][i]
           x == m.src
           j == i - 1
<1>1. Due(table, wire, s, q, m, j)
    BY DEF Lossless, ToldBefore
<1>2. s \in Conns(table[q])
    <2>1. wire[s][q] # <<>>
        OBVIOUS
    <2>2. QED
        BY <2>1 DEF Sound, OnLinks
<1> HIDE DEF x, j, m
<1>3. Told(table, wire, q, s, x, j) => Told(T, wire, q, s, x, j)
    BY <1>2, ToldLarger
<1>4. Due(T, wire, s, q, m, j)
    BY <1>1, <1>3 DEF Due, x
<1>5. QED
    BY <1>4 DEF m, j

\* Only branches of the same connection are beyond it.
LEMMA NotBehind ==
    ASSUME Tree, NEW r \in Routers, NEW tbl, Leads(r, tbl), NEW c \in Node, c # r, Adjacent(r, c),
           NEW n \in Beyond[r][c], NEW q \in Conns(tbl), q # c
    PROVE  n # q /\ n \notin BranchesOf(tbl, q)
<1>1. q \in Node /\ q # r /\ Adjacent(r, q) /\ r \in Node /\ tbl[q] \in Seq(Beyond[r][q] \ {q})
    BY DEF Leads, Neighbours, Node
<1>2. q \in Beyond[r][q] /\ \A x \in BranchesOf(tbl, q) : x \in Beyond[r][q]
    BY <1>1, BeyondFacts DEF BranchesOf, ToSet
<1>3. Beyond[r][c] \cap Beyond[r][q] = {}
    BY <1>1 DEF Tree
<1>4. QED
    BY <1>2, <1>3

\* All neighbours hear of the new local net.
LEMMA AttachLocalLossless ==
    ASSUME Tree, Sound, Lossless, NEW r \in Routers, NEW l \in Nets, AttachLocal(r, l)
    PROVE  Lossless'
<1> DEFINE tbl == AddEntry(table[r], l)
           ems == RouteChange(tbl, l, "NET_NEW")
           E == WithIds(ems)
           Es == Only(r, E)
           T == table'
<1>1. /\ phase[r] = "starting" /\ l \in todo[r]
      /\ table' = [table EXCEPT ![r] = tbl] /\ wire' = Sent(table, wire, r, E)
      /\ lastId' = lastId /\ cuts' = cuts
    BY DEF AttachLocal
<1>2. /\ Shape /\ wire \in Wires /\ DOMAIN table = Routers /\ Leads(r, table[r])
    BY AllLead DEF Sound, Shape
<1>3. l \in Node /\ l \notin Routers /\ l # r /\ Adjacent(r, l) /\ l \in Neighbours(r) \ {r} /\ r \in Node
    BY <1>1, RouterNetAssumption DEF Sound, Shape, Neighbours, Node
<1>4. l \notin Conns(table[r])
    BY <1>1, <1>3 DEF Sound, MadeOnce
<1>5. /\ Conns(tbl) = Conns(table[r]) \cup {l} /\ tbl[l] = <<>>
      /\ \A c \in Conns(table[r]) : tbl[c] = table[r][c]
    BY <1>4 DEF AddEntry, Conns
<1> HIDE DEF tbl
<1>6. Leads(r, tbl)
    <2>1. tbl[l] \in Seq(Beyond[r][l] \ {l}) /\ OnceEach(tbl[l])
        BY <1>5 DEF OnceEach
    <2>2. QED
        BY <1>2, <1>3, <1>5, <2>1 DEF Leads
<1>7. \A q \in Routers : IF q = r THEN T[q] = tbl ELSE T[q] = table[q]
    BY <1>1, <1>2
<1> HIDE DEF T
<1>8. Root(tbl, l) = {l} /\ l \in AllNets(tbl)
    <2>1. Root(tbl, l) = {l}
        BY <1>5 DEF Root, BranchesOf, ToSet
    <2>2. QED
        BY <1>5, <2>1 DEF AllNets
<1>9. /\ ems \in Seq(Emissions) /\ Len(ems) = 1 /\ ems[1].to = Targets(tbl, l)
      /\ ems[1].msg.id = 0 /\ ems[1].msg.type = "NET_NEW" /\ ems[1].msg.dst = BROADCAST /\ ems[1].msg.d = l
    <2> DEFINE m == Message("NET_NEW", l, BROADCAST, l)
               e == [msg |-> m, to |-> Targets(tbl, l)]
    <2>1. /\ m \in Messages /\ m.id = 0 /\ m.type = "NET_NEW" /\ m.dst = BROADCAST /\ m.d = l
        BY <1>3 DEF Message, Messages, Types
    <2> HIDE DEF m
    <2>2. Targets(tbl, l) \in SUBSET Node
        BY <1>6 DEF Targets, Leads, Neighbours
    <2>3. e \in Emissions /\ e.to = Targets(tbl, l) /\ e.msg = m
        BY <2>1, <2>2 DEF Emissions
    <2>4. ems = <<e>>
        BY DEF RouteChange, m
    <2> HIDE DEF e, ems
    <2>5. ems \in Seq(Emissions) /\ Len(ems) = 1 /\ ems[1] = e
        BY <2>3, <2>4
    <2>6. QED
        BY <2>1, <2>3, <2>5
<1> HIDE DEF ems
<1>10. /\ E \in Seq(Emissions) /\ Len(E) = 1 /\ E[1].to = Targets(tbl, l)
       /\ E[1].msg.type = "NET_NEW" /\ E[1].msg.dst = BROADCAST /\ E[1].msg.d = l
       /\ E[1].msg.id \notin UsedIds \cup {0}
    <2>1. Numbered(E, ems)
        BY <1>2, <1>9, WithIdsNumber
    <2> HIDE DEF E
    <2>2. QED
        BY <1>9, <2>1 DEF Numbered
<1> HIDE DEF E
<1>11. \A q \in Routers : r \in Conns(T[q]) <=> r \in Conns(table[q])
    BY <1>3, <1>5, <1>7
<1>12. wire' \in Wires /\ Extends(T, wire, wire', Es)
    BY <1>1, <1>2, <1>10, <1>11, SentExtends
<1>13. \A s \in Routers : \A k \in 1 .. Len(Es[s]) : s = r /\ k = 1 /\ Es[s][k] = E[1]
    <2> SUFFICES ASSUME NEW s \in Routers, NEW k \in 1 .. Len(Es[s])
                 PROVE  s = r /\ k = 1 /\ Es[s][k] = E[1]
        OBVIOUS
    <2>1. CASE s = r
        <3>1. Es[s] = E /\ Len(E) = 1
            BY <1>10, <2>1 DEF Only
        <3> HIDE DEF Es
        <3>2. k \in 1 .. 1
            BY <3>1
        <3>3. QED
            BY <2>1, <3>1, <3>2
    <2>2. CASE s # r
        <3>1. Es[s] = <<>>
            BY <2>2 DEF Only
        <3>2. QED
            BY <3>1
    <2>3. QED
        BY <2>1, <2>2
<1>14. Es[r] = E
    BY DEF Only
<1> HIDE DEF Es
<1>15. Distinct(Es)
    BY <1>13 DEF Distinct
<1>16. Larger(T)
    BY <1>5, <1>7 DEF Larger, BranchesOf
<1>17. AllProper(T, wire, lastId, Es)
    <2> SUFFICES ASSUME NEW q \in E[1].to \cap Routers
                 PROVE  Proper(T, wire, lastId, r, E[1], q)
        BY <1>13 DEF AllProper
    <2>1. q \in Conns(tbl) /\ q # r /\ Adjacent(r, q)
        BY <1>6, <1>10 DEF Targets, Leads, Neighbours
    <2>2. E[1].msg.d \in AllNets(T[r])
        BY <1>7, <1>8, <1>10
    <2>3. Due(T, wire, r, q, E[1].msg, Len(wire[r][q]))
        BY <1>10, NamesAssumption DEF Due
    <2> DEFINE id == E[1].msg.id
    <2>4. id \notin UsedIds \cup {0}
        BY <1>10
    <2> HIDE DEF id
    <2>5. Unseen(lastId, r, q, id) /\ \A t, u \in Routers : \A j \in DOMAIN wire[t][u] : wire[t][u][j].id # id
        BY <2>4, FreshUnseen
    <2>6. QED
        BY <2>1, <2>2, <2>3, <2>5 DEF Proper, id
<1>18. ASSUME NEW s \in Routers, NEW q \in Routers, Link(T, s, q) PROVE Link(table, s, q)
    <2>1. \A x, y \in Routers : y \in Conns(T[x]) => y \in Conns(table[x])
        BY <1>3, <1>5, <1>7
    <2>2. QED
        BY <1>18, <2>1 DEF Link
<1>19. ASSUME NEW s \in Routers, NEW q \in Routers, s \in Conns(table[q])
       PROVE  T[q][s] = table[q][s]
    BY <1>5, <1>7, <1>19
<1>20. AllToldOrAnnounced(T, wire, Es)
    <2> SUFFICES ASSUME NEW s \in Routers, NEW q \in Routers, Link(T, s, q),
                        NEW c \in Conns(T[s]) \ {q}, NEW n \in Root(T[s], c)
                 PROVE  Told(T, wire, q, s, n, Len(wire[s][q])) \/ Announced(Es[s], q, n)
        BY DEF AllToldOrAnnounced
    <2>1. Link(table, s, q)
        BY <1>18
    <2>2. CASE s = r /\ c = l
        <3>1. n = l
            BY <1>7, <1>8, <2>2
        <3>2. q \in Conns(tbl) /\ q # l
            BY <1>3, <1>5, <2>1, <2>2 DEF Link
        <3>3. l \in Beyond[r][l]
            BY <1>3, BeyondFacts
        <3>4. l \notin BranchesOf(tbl, q)
            BY <1>3, <1>6, <3>2, <3>3, NotBehind
        <3>5. q \in E[1].to
            BY <1>10, <3>2, <3>4 DEF Targets
        <3>6. 1 \in 1 .. Len(E) /\ E[1].msg.type = "NET_NEW" /\ E[1].msg.d = n
            BY <1>10, <3>1
        <3>7. Announced(E, q, n)
            BY <3>5, <3>6 DEF Announced
        <3>8. QED
            BY <1>14, <2>2, <3>7
    <2>3. CASE ~(s = r /\ c = l)
        <3>1. c \in Conns(table[s]) \ {q} /\ n \in Root(table[s], c)
            BY <1>5, <1>7, <2>3 DEF Root, BranchesOf
        <3> DEFINE i == Len(wire[s][q])
        <3>2. Told(table, wire, q, s, n, i)
            BY <2>1, <3>1 DEF Lossless, AllTold
        <3>3. s \in Conns(table[q])
            BY <2>1 DEF Link
        <3> HIDE DEF i
        <3>4. Told(T, wire, q, s, n, i)
            BY <1>16, <3>2, <3>3, ToldLarger
        <3>5. QED
            BY <3>4 DEF i
    <2>4. QED
        BY <2>2, <2>3
<1>21. OnlyTold(T, wire)
    <2> SUFFICES ASSUME NEW s \in Routers, NEW q \in Routers, Link(T, s, q)
                 PROVE  /\ BranchesOf(T[q], s) \subseteq AllNets(T[s])
                        /\ \A i \in DOMAIN wire[s][q] : wire[s][q][i].type = "NET_NEW" => wire[s][q][i].d \in AllNets(T[s])
        BY DEF OnlyTold
    <2>1. Link(table, s, q)
        BY <1>18
    <2>2. s \in Conns(table[q])
        BY <2>1 DEF Link
    <2>3. BranchesOf(T[q], s) = BranchesOf(table[q], s)
        BY <1>19, <2>2 DEF BranchesOf
    <2>4. AllNets(table[s]) \subseteq AllNets(T[s])
        BY <1>16, NetsLarger
    <2>5. /\ BranchesOf(table[q], s) \subseteq AllNets(table[s])
          /\ \A i \in DOMAIN wire[s][q] : wire[s][q][i].type = "NET_NEW" => wire[s][q][i].d \in AllNets(table[s])
        BY <2>1 DEF Lossless, OnlyTold
    <2>6. QED
        BY <2>3, <2>4, <2>5
<1>22. ToldBefore(T, wire)
    BY <1>16, BeforeLarger
<1>23. Outward(wire, lastId) /\ cuts = 0
    BY DEF Lossless
<1>24. AllTold(T, wire') /\ OnlyTold(T, wire') /\ ToldBefore(T, wire') /\ Outward(wire', lastId)
    BY <1>2, <1>12, <1>15, <1>17, <1>20, <1>21, <1>22, <1>23, LosslessStep
<1>25. QED
    BY <1>1, <1>23, <1>24 DEF Lossless, T

\* News of a net behind c
IsNews(tbl, c, e) ==
    /\ e.msg.type = "NET_NEW" /\ e.msg.dst = BROADCAST
    /\ e.msg.d \in Root(tbl, c) /\ e.to = Targets(tbl, e.msg.d)

IsRequest(c, e) == e.msg.type = "ENUM_REQUEST" /\ e.msg.dst = Null /\ e.to = {c}

\* What r tells when it has linked up with s: all that is behind s
LEMMA GreetingsAre ==
    ASSUME Tree, NEW r \in Routers, NEW s \in Routers, r # s, Adjacent(r, s),
           NEW tbl, Leads(r, tbl), s \in Conns(tbl), NEW G, G = Greetings(tbl, s)
    PROVE  /\ \A k \in 1 .. Len(G) : G[k].msg.id = 0 /\ (IsNews(tbl, s, G[k]) \/ IsRequest(s, G[k]))
           /\ \A n \in Root(tbl, s) : \E k \in 1 .. Len(G) : IsNews(tbl, s, G[k]) /\ G[k].msg.d = n
<1> DEFINE q == tbl[s]
           one == <<s>>
           nets == one \o q
           A == Announcements(tbl, nets, "NET_NEW")
           e == [msg |-> Message("ENUM_REQUEST", Null, Null, Null), to |-> {s}]
           B == <<e>>
           T == Beyond[r][s] \ {s}
           m(n) == Message("NET_NEW", n, BROADCAST, n)
           a(n) == [msg |-> m(n), to |-> Targets(tbl, n)]
<1>1. q \in Seq(T) /\ Root(tbl, s) = {s} \cup ToSet(q)
    BY DEF Leads, Root, BranchesOf
<1>2. /\ nets \in Seq(Root(tbl, s)) /\ Len(nets) = 1 + Len(q)
      /\ \A i \in 1 .. 1 + Len(q) : nets[i] = IF i = 1 THEN s ELSE q[i - 1]
    <2>1. q \in Seq(Root(tbl, s))
        BY <1>1 DEF ToSet
    <2>2. one \in Seq(Root(tbl, s)) /\ Len(one) = 1 /\ one[1] = s
        BY <1>1
    <2> HIDE DEF one, q
    <2>3. /\ nets \in Seq(Root(tbl, s)) /\ Len(nets) = Len(one) + Len(q)
          /\ \A i \in 1 .. Len(one) + Len(q) : nets[i] = IF i <= Len(one) THEN one[i] ELSE q[i - Len(one)]
        BY <2>1, <2>2, ConcatProperties
    <2> HIDE DEF nets
    <2>4. Len(q) \in Nat
        BY <2>1
    <2>5. QED
        BY <2>2, <2>3, <2>4
<1>3. G = A \o B
    BY DEF Greetings
<1>4. A = [i \in DOMAIN nets |-> a(nets[i])]
    BY DEF Announcements, RouteChange
<1>5. ASSUME NEW n \in Root(tbl, s)
      PROVE  a(n).msg.id = 0 /\ IsNews(tbl, s, a(n)) /\ a(n).msg.d = n
    BY DEF IsNews, Message
<1>6. e.msg.id = 0 /\ IsRequest(s, e)
    BY DEF IsRequest, Message
<1> HIDE DEF a, e, nets, one
<1> DEFINE N == Len(nets)
<1>7. N \in Nat /\ DOMAIN nets = 1 .. N /\ \A i \in 1 .. N : nets[i] \in Root(tbl, s)
    BY <1>2
<1> DEFINE X == {a(n) : n \in Root(tbl, s)} \cup {e}
<1>8. A \in Seq(X) /\ Len(A) = N /\ \A i \in 1 .. N : A[i] = a(nets[i])
    <2>1. \A i \in 1 .. N : a(nets[i]) \in X
        BY <1>7
    <2> HIDE DEF X
    <2>2. QED
        BY <1>4, <1>7, <2>1
<1>9. B \in Seq(X) /\ Len(B) = 1 /\ B[1] = e
    OBVIOUS
<1> HIDE DEF A, B, X, N
<1> DEFINE AB == A \o B
<1>10. /\ Len(AB) = Len(A) + Len(B)
       /\ \A k \in 1 .. Len(A) + Len(B) : AB[k] = IF k <= Len(A) THEN A[k] ELSE B[k - Len(A)]
    BY <1>8, <1>9, ConcatProperties
<1>11. G = AB
    BY <1>3
<1> HIDE DEF AB
<1>12. Len(G) = N + 1 /\ G[N + 1] = e /\ \A k \in 1 .. N : G[k] = a(nets[k])
    BY <1>7, <1>8, <1>9, <1>10, <1>11
<1>13. ASSUME NEW k \in 1 .. Len(G)
       PROVE  G[k].msg.id = 0 /\ (IsNews(tbl, s, G[k]) \/ IsRequest(s, G[k]))
    <2>1. CASE k = N + 1
        BY <1>6, <1>12, <2>1
    <2>2. CASE k # N + 1
        <3>1. k \in 1 .. N
            BY <1>7, <1>12, <2>2
        <3>2. QED
            BY <1>5, <1>7, <1>12, <3>1
    <2>3. QED
        BY <2>1, <2>2
<1>14. ASSUME NEW n \in Root(tbl, s)
       PROVE  \E k \in 1 .. Len(G) : IsNews(tbl, s, G[k]) /\ G[k].msg.d = n
    <2>1. \E i \in 1 .. N : nets[i] = n
        <3>1. N = 1 + Len(q) /\ Len(q) \in Nat
            BY <1>1, <1>2 DEF N
        <3>2. CASE n = s
            <4>1. 1 \in 1 .. N /\ nets[1] = s
                BY <1>2, <3>1
            <4>2. QED
                BY <3>2, <4>1
        <3>3. CASE n \in ToSet(q)
            <4>1. PICK j \in 1 .. Len(q) : q[j] = n
                BY <1>1, <3>3 DEF ToSet
            <4> HIDE DEF q
            <4>2. j + 1 \in 1 .. N /\ nets[j + 1] = q[j]
                <5>1. j + 1 \in 1 .. 1 + Len(q) /\ j + 1 # 1 /\ (j + 1) - 1 = j
                    BY <3>1
                <5>2. QED
                    BY <1>2, <3>1, <5>1
            <4>3. QED
                BY <4>1, <4>2
        <3>4. QED
            BY <1>1, <3>2, <3>3
    <2>2. PICK i \in 1 .. N : nets[i] = n
        BY <2>1
    <2>3. i \in 1 .. Len(G) /\ G[i] = a(n)
        BY <1>7, <1>12, <2>2
    <2>4. QED
        BY <1>5, <2>3
<1>15. QED
    BY <1>13, <1>14

\* What a new peer is given has no copy in the table.
LEMMA JoinedTold ==
    ASSUME Tree, Sound, NEW r \in Routers, NEW s \in Routers, r # s, Adjacent(r, s),
           s \notin Conns(table[r]), r \notin Conns(table[s]),
           NEW tbl, tbl = Joined(table[r], s, Listed(table[s], r)),
           NEW c \in Conns(table[s]), NEW n \in Root(table[s], c)
    PROVE  n \in BranchesOf(tbl, s)
<1>1. ToSet(tbl[s]) = {x \in AllNets(table[s]) : IsNewBranch(table[r], x)}
    BY JoinedLeads DEF Linking
<1>2. n \in AllNets(table[s])
    BY DEF AllNets
<1>3. c \in Node /\ c # s /\ Adjacent(s, c) /\ c # r /\ s \in Node /\ r \in Node /\ Adjacent(s, r)
    BY AllLead, AdjacentBoth DEF Node
<1>4. n \in Beyond[s][c]
    <2>1. c \in Beyond[s][c]
        BY <1>3, BeyondFacts
    <2>2. table[s][c] \in Seq(Beyond[s][c] \ {c})
        BY AllLead DEF Leads
    <2>3. QED
        BY <2>1, <2>2 DEF Root, BranchesOf, ToSet
<1>5. n \in Beyond[r][s]
    <2>1. Beyond[s][c] \subseteq Beyond[r][s] \ {s}
        BY <1>3, Nested
    <2>2. QED
        BY <1>4, <2>1
<1>6. ASSUME NEW q \in Conns(table[r]) PROVE n \notin BranchesOf(table[r], q)
    <2>1. Leads(r, table[r]) /\ q # s
        BY AllLead
    <2> DEFINE t == table[r]
    <2>2. Leads(r, t) /\ q \in Conns(t)
        BY <2>1
    <2> HIDE DEF t
    <2>3. n \notin BranchesOf(t, q)
        BY <1>3, <1>5, <2>1, <2>2, NotBehind
    <2>4. QED
        BY <2>3 DEF t
<1>7. IsNewBranch(table[r], n)
    BY <1>6 DEF IsNewBranch
<1>8. QED
    BY <1>1, <1>2, <1>7 DEF BranchesOf

\* What is said of a new link may be said.
LEMMA EndProper ==
    ASSUME Tree, NEW T, NEW x \in Routers, NEW y, Leads(x, T[x]), y \in Conns(T[x]),
           NEW e, IsNews(T[x], y, e) \/ IsRequest(y, e), e.msg.id \notin UsedIds \cup {0},
           NEW q \in Routers, q \in e.to
    PROVE  Proper(T, wire, lastId, x, e, q)
<1> DEFINE id == e.msg.id
           tbl == T[x]
<1>1. q \in Conns(tbl) /\ q # x /\ Adjacent(x, q)
    BY DEF IsNews, IsRequest, Targets, Leads, Neighbours
<1>2. e.msg.type = "NET_NEW" => e.msg.d \in AllNets(tbl)
    <2>1. CASE IsNews(tbl, y, e)
        BY <2>1 DEF IsNews, AllNets
    <2>2. CASE IsRequest(y, e)
        BY <2>2 DEF IsRequest
    <2>3. QED
        BY <2>1, <2>2
<1>3. Due(T, wire, x, q, e.msg, Len(wire[x][q]))
    BY NamesAssumption DEF Due, IsNews, IsRequest, Null, BROADCAST
<1>4. id \notin UsedIds \cup {0}
    OBVIOUS
<1> HIDE DEF id
<1>5. Unseen(lastId, x, q, id) /\ \A t, u \in Routers : \A j \in DOMAIN wire[t][u] : wire[t][u][j].id # id
    BY <1>4, FreshUnseen
<1>6. QED
    BY <1>1, <1>2, <1>3, <1>5 DEF Proper, id

\* E is G with fresh ids.
Copy(e, g) ==
    /\ e.to = g.to /\ e.msg.type = g.msg.type /\ e.msg.dst = g.msg.dst /\ e.msg.d = g.msg.d
    /\ e.msg.id \notin UsedIds \cup {0}

Stamped(E, G) ==
    /\ E \in Seq(Emissions) /\ Len(E) = Len(G)
    /\ \A k \in 1 .. Len(G) : Copy(E[k], G[k])
    /\ \A k, l \in 1 .. Len(G) : E[k].msg.id = E[l].msg.id => k = l

Unstamped(G) == \A k \in 1 .. Len(G) : G[k].msg.id = 0

NoneShared(E, F) == \A k \in 1 .. Len(E), l \in 1 .. Len(F) : E[k].msg.id # F[l].msg.id

\* The emissions of the two ends of a new link get ids of their own.
LEMMA TwoEnds ==
    ASSUME Shape, NEW a \in Seq(Emissions), NEW b \in Seq(Emissions),
           Unstamped(a), Unstamped(b), NEW both, both = a \o b, NEW all, all = WithIds(both),
           NEW E, E = SubSeq(all, 1, Len(a)), NEW F, F = SubSeq(all, Len(a) + 1, Len(all))
    PROVE  Stamped(E, a) /\ Stamped(F, b) /\ NoneShared(E, F)
<1>1. /\ both \in Seq(Emissions) /\ Len(both) = Len(a) + Len(b) /\ Len(a) \in Nat /\ Len(b) \in Nat
      /\ \A k \in 1 .. Len(a) : k \in 1 .. Len(both) /\ both[k] = a[k]
      /\ \A k \in 1 .. Len(b) : Len(a) + k \in 1 .. Len(both) /\ both[Len(a) + k] = b[k]
    OBVIOUS
<1>17. /\ \A k \in 1 .. Len(a) : a[k].msg.id = 0
      /\ \A k \in 1 .. Len(b) : b[k].msg.id = 0
    BY DEF Unstamped
<1>2. ASSUME NEW k \in 1 .. Len(both) PROVE both[k].msg.id = 0
    <2>1. CASE k <= Len(a)
        <3>1. k \in 1 .. Len(a)
            BY <1>1, <2>1
        <3>2. QED
            BY <1>1, <1>17, <3>1
    <2>2. CASE ~(k <= Len(a))
        <3>1. k - Len(a) \in 1 .. Len(b) /\ Len(a) + (k - Len(a)) = k
            BY <1>1, <2>2
        <3>2. both[k] = b[k - Len(a)]
            BY <1>1, <3>1
        <3>3. QED
            BY <1>17, <3>1, <3>2
    <2>3. QED
        BY <2>1, <2>2
<1>3. Numbered(all, both)
    BY <1>1, WithIdsNumber
<1>4. /\ all \in Seq(Emissions) /\ Len(all) = Len(a) + Len(b)
      /\ \A k \in 1 .. Len(both) : Copy(all[k], both[k])
      /\ \A k, l \in 1 .. Len(both) : all[k].msg.id = all[l].msg.id => k = l
    <2>1. all \in Seq(Emissions) /\ Len(all) = Len(a) + Len(b)
        BY <1>1, <1>3 DEF Numbered
    <2>2. ASSUME NEW k \in 1 .. Len(both) PROVE Copy(all[k], both[k])
        BY <1>2, <1>3 DEF Numbered, Copy
    <2>3. ASSUME NEW k \in 1 .. Len(both), NEW l \in 1 .. Len(both), all[k].msg.id = all[l].msg.id
          PROVE  k = l
        BY <1>2, <1>3, <2>3 DEF Numbered
    <2>4. QED
        BY <2>1, <2>2, <2>3
<1> DEFINE n == Len(a)
           A == SubSeq(all, 1, n)
           B == SubSeq(all, n + 1, Len(all))
<1>5. /\ A \in Seq(Emissions) /\ Len(A) = n /\ \A k \in 1 .. n : A[k] = all[k]
      /\ B \in Seq(Emissions) /\ Len(B) = Len(b) /\ \A k \in 1 .. Len(b) : B[k] = all[n + k]
    <2>1. Halves(all, n, Len(b), A, B)
        BY <1>4, Parts
    <2> HIDE DEF A, B
    <2>2. QED
        BY <2>1 DEF Halves
<1>6. A = E /\ B = F
    OBVIOUS
<1> HIDE DEF A, B, n
<1>7. /\ n \in Nat /\ Len(b) \in Nat /\ Len(a) = n
      /\ \A k \in 1 .. n : k \in 1 .. Len(both) /\ both[k] = a[k]
      /\ \A k \in 1 .. Len(b) : n + k \in 1 .. Len(both) /\ both[n + k] = b[k]
    BY <1>1 DEF n
<1>8. \A k \in 1 .. n : Copy(E[k], a[k])
    BY <1>4, <1>5, <1>6, <1>7
<1>9. \A k \in 1 .. Len(b) : Copy(F[k], b[k])
    BY <1>4, <1>5, <1>6, <1>7
<1>10. \A k, l \in 1 .. n : E[k].msg.id = E[l].msg.id => k = l
    BY <1>4, <1>5, <1>6, <1>7
<1>11. \A k, l \in 1 .. Len(b) : F[k].msg.id = F[l].msg.id => k = l
    <2> SUFFICES ASSUME NEW k \in 1 .. Len(b), NEW l \in 1 .. Len(b), F[k].msg.id = F[l].msg.id PROVE k = l
        OBVIOUS
    <2>1. F[k] = all[n + k] /\ F[l] = all[n + l] /\ n + k \in 1 .. Len(both) /\ n + l \in 1 .. Len(both)
        BY <1>5, <1>6, <1>7
    <2> DEFINE x == n + k
               y == n + l
    <2>2. all[x].msg.id = all[y].msg.id /\ x \in 1 .. Len(both) /\ y \in 1 .. Len(both)
        BY <2>1
    <2> HIDE DEF x, y
    <2>3. x = y
        BY <1>4, <2>2
    <2>4. QED
        BY <1>7, <2>3 DEF x, y
<1>12. \A k \in 1 .. n, l \in 1 .. Len(b) : E[k].msg.id # F[l].msg.id
    <2> SUFFICES ASSUME NEW k \in 1 .. n, NEW l \in 1 .. Len(b), E[k].msg.id = F[l].msg.id PROVE FALSE
        OBVIOUS
    <2>1. E[k] = all[k] /\ F[l] = all[n + l] /\ k \in 1 .. Len(both) /\ n + l \in 1 .. Len(both)
        BY <1>5, <1>6, <1>7
    <2> DEFINE x == n + l
    <2>2. all[k].msg.id = all[x].msg.id /\ k \in 1 .. Len(both) /\ x \in 1 .. Len(both)
        BY <2>1
    <2> HIDE DEF x
    <2>3. k = x
        BY <1>4, <2>2
    <2>4. QED
        BY <1>7, <2>3 DEF x
<1>13. Stamped(E, a)
    BY <1>5, <1>6, <1>7, <1>8, <1>10 DEF Stamped
<1>14. Stamped(F, b)
    BY <1>5, <1>6, <1>9, <1>11 DEF Stamped
<1>15. NoneShared(E, F)
    <2>1. Len(E) = n /\ Len(F) = Len(b)
        BY <1>5, <1>6
    <2>2. SUFFICES ASSUME NEW k \in 1 .. Len(E), NEW l \in 1 .. Len(F) PROVE E[k].msg.id # F[l].msg.id
        BY Zenon DEF NoneShared
    <2>3. k \in 1 .. n /\ l \in 1 .. Len(b)
        BY <2>1
    <2>4. QED
        BY <1>12, <2>3, Zenon
<1>16. QED
    BY <1>13, <1>14, <1>15

\* All neighbours but the new one hear of what is behind the new one.
LEMMA EndAnnounces ==
    ASSUME Tree, NEW x \in Routers, NEW y \in Routers, x # y, Adjacent(x, y),
           NEW tbl, Leads(x, tbl), y \in Conns(tbl), NEW G, G = Greetings(tbl, y),
           NEW E, Stamped(E, G), NEW b \in Conns(tbl), b # y, NEW n \in Root(tbl, y)
    PROVE  Announced(E, b, n)
<1>1. PICK k \in 1 .. Len(G) : IsNews(tbl, y, G[k]) /\ G[k].msg.d = n
    BY GreetingsAre
<1>2. x \in Node /\ y \in Node /\ y # x
    BY DEF Node
<1>3. n \in Beyond[x][y]
    <2>1. y \in Beyond[x][y] /\ tbl[y] \in Seq(Beyond[x][y] \ {y})
        BY <1>2, BeyondFacts DEF Leads
    <2>2. QED
        BY <2>1 DEF Root, BranchesOf, ToSet
<1>4. n # b /\ n \notin BranchesOf(tbl, b)
    BY <1>2, <1>3, NotBehind
<1>5. b \in Targets(tbl, n)
    BY <1>4 DEF Targets
<1>6. QED
    BY <1>1, <1>5 DEF Announced, IsNews, Stamped, Copy

\* The ends of a new link know all of each other, and their neighbours hear of it.
LEMMA LinkUpLossless ==
    ASSUME Tree, Sound, Lossless, NEW r \in Routers, NEW s \in Routers, LinkUp(r, s)
    PROVE  Lossless'
<1> DEFINE tblR == Joined(table[r], s, Listed(table[s], r))
           tblS == Joined(table[s], r, Listed(table[r], s))
           tbls == [table EXCEPT ![r] = tblR, ![s] = tblS]
           fromR == Greetings(tblR, s)
           fromS == Greetings(tblS, r)
           both == fromR \o fromS
           all == WithIds(both)
           E == SubSeq(all, 1, Len(fromR))
           F == SubSeq(all, Len(fromR) + 1, Len(all))
           mid == Sent(tbls, wire, r, E)
           T == table'
           Es == [p \in Routers |-> IF p = r THEN E ELSE IF p = s THEN F ELSE <<>>]
<1>1. /\ phase[r] = "starting" /\ phase[s] = "up" /\ s \in todo[r]
      /\ T = tbls /\ wire' = Sent(T, mid, s, F) /\ mid = Sent(T, wire, r, E)
      /\ lastId' = lastId /\ cuts' = cuts
    BY DEF LinkUp
<1>2. Shape /\ wire \in Wires /\ DOMAIN table = Routers
    BY DEF Sound, Shape
<1>3. r # s /\ r \in Node /\ s \in Node /\ Adjacent(r, s) /\ Adjacent(s, r)
    BY <1>1, <1>2, AdjacentBoth DEF Shape, Neighbours, Node
<1>4. s \notin Conns(table[r]) /\ r \notin Conns(table[s])
    BY <1>1, <1>3 DEF Sound, MadeOnce
<1>5. /\ Leads(r, tblR) /\ Conns(tblR) = Conns(table[r]) \cup {s}
      /\ \A c \in Conns(table[r]) : tblR[c] = table[r][c]
      /\ ToSet(tblR[s]) = {n \in AllNets(table[s]) : IsNewBranch(table[r], n)}
    <2>1. Linking(r, s, tblR)
        BY <1>3, <1>4, JoinedLeads
    <2> HIDE DEF tblR, tblS, T
    <2>2. QED
        BY <2>1 DEF Linking
<1>6. /\ Leads(s, tblS) /\ Conns(tblS) = Conns(table[s]) \cup {r}
      /\ \A c \in Conns(table[s]) : tblS[c] = table[s][c]
      /\ ToSet(tblS[r]) = {n \in AllNets(table[r]) : IsNewBranch(table[s], n)}
    <2>1. Linking(s, r, tblS)
        BY <1>3, <1>4, JoinedLeads
    <2> HIDE DEF tblR, tblS, T
    <2>2. QED
        BY <2>1 DEF Linking
<1>7. /\ T[r] = tblR /\ T[s] = tblS
      /\ \A q \in Routers : q # r /\ q # s => T[q] = table[q]
    BY <1>1, <1>2, <1>3
<1>8. /\ \A c \in Conns(table[s]) : \A n \in Root(table[s], c) : n \in BranchesOf(tblR, s)
      /\ \A c \in Conns(table[r]) : \A n \in Root(table[r], c) : n \in BranchesOf(tblS, r)
    <2>1. ASSUME NEW c \in Conns(table[s]), NEW n \in Root(table[s], c) PROVE n \in BranchesOf(tblR, s)
        BY <1>3, <1>4, JoinedTold
    <2>2. ASSUME NEW c \in Conns(table[r]), NEW n \in Root(table[r], c) PROVE n \in BranchesOf(tblS, r)
        BY <1>3, <1>4, JoinedTold
    <2>3. QED
        BY <2>1, <2>2
<1> HIDE DEF tblR, tblS, T
<1>9. /\ fromR \in Seq(Emissions)
      /\ \A k \in 1 .. Len(fromR) : fromR[k].msg.id = 0 /\ (IsNews(tblR, s, fromR[k]) \/ IsRequest(s, fromR[k]))
    <2>1. s \in Conns(tblR)
        BY <1>5
    <2>2. QED
        BY <1>3, <1>5, <2>1, GreetingsFine, GreetingsAre
<1>10. /\ fromS \in Seq(Emissions)
       /\ \A k \in 1 .. Len(fromS) : fromS[k].msg.id = 0 /\ (IsNews(tblS, r, fromS[k]) \/ IsRequest(r, fromS[k]))
    <2>1. r \in Conns(tblS)
        BY <1>6
    <2>2. QED
        BY <1>3, <1>6, <2>1, GreetingsFine, GreetingsAre
<1>11. fromR = Greetings(tblR, s) /\ fromS = Greetings(tblS, r)
    OBVIOUS
<1> HIDE DEF fromR, fromS
<1>12. both = fromR \o fromS /\ all = WithIds(both)
    OBVIOUS
<1> HIDE DEF all, both
<1>13. E = SubSeq(all, 1, Len(fromR)) /\ F = SubSeq(all, Len(fromR) + 1, Len(all))
    OBVIOUS
<1> HIDE DEF E, F
<1>14. Stamped(E, fromR) /\ Stamped(F, fromS) /\ NoneShared(E, F)
    <2>1. Unstamped(fromR)
        BY <1>9 DEF Unstamped
    <2>2. Unstamped(fromS)
        BY <1>10 DEF Unstamped
    <2>3. fromR \in Seq(Emissions) /\ fromS \in Seq(Emissions)
        BY <1>9, <1>10
    <2> HIDE DEF tbls, mid, Es
    <2>4. QED
        BY <1>2, <1>12, <1>13, <2>1, <2>2, <2>3, TwoEnds
<1>15. E \in Seq(Emissions) /\ Len(E) = Len(fromR) /\ F \in Seq(Emissions) /\ Len(F) = Len(fromS)
    BY <1>14 DEF Stamped
<1>16. \A k \in 1 .. Len(E) :
           E[k].msg.id \notin UsedIds \cup {0} /\ (IsNews(tblR, s, E[k]) \/ IsRequest(s, E[k]))
    BY <1>9, <1>14, <1>15 DEF Stamped, Copy, IsNews, IsRequest
<1>17. \A k \in 1 .. Len(F) :
           F[k].msg.id \notin UsedIds \cup {0} /\ (IsNews(tblS, r, F[k]) \/ IsRequest(r, F[k]))
    BY <1>10, <1>14, <1>15 DEF Stamped, Copy, IsNews, IsRequest
<1>18. Es[r] = E /\ Es[s] = F /\ \A p \in Routers : p # r /\ p # s => Es[p] = <<>>
    BY <1>3
<1> HIDE DEF Es
<1>19. Distinct(Es)
    <2>1. \A k, l \in 1 .. Len(E) : E[k].msg.id = E[l].msg.id => k = l
        BY <1>14, <1>15 DEF Stamped
    <2>2. \A k, l \in 1 .. Len(F) : F[k].msg.id = F[l].msg.id => k = l
        BY <1>14, <1>15 DEF Stamped
    <2>3. \A k \in 1 .. Len(E), l \in 1 .. Len(F) : E[k].msg.id # F[l].msg.id
        BY <1>14 DEF NoneShared
    <2>4. \A p \in Routers : p # r /\ p # s => \A k \in 1 .. Len(Es[p]) : FALSE
        <3>1. ASSUME NEW p \in Routers, p # r, p # s, NEW k \in 1 .. Len(Es[p]) PROVE FALSE
            <4>1. Es[p] = <<>>
                BY <1>18, <3>1
            <4>2. QED
                BY <3>1, <4>1
        <3>2. QED
            BY <3>1
    <2>5. QED
        BY <1>18, <2>1, <2>2, <2>3, <2>4 DEF Distinct
<1>19a. wire' = Sent(T, mid, s, F)
    BY <1>1
<1>20. /\ mid \in Wires /\ \A p, q \in Routers : mid[p][q] = Grown(T, wire, r, E, p, q)
    <2>1. mid = Sent(T, wire, r, E)
        BY <1>1
    <2> HIDE DEF mid
    <2>2. QED
        BY <1>2, <1>15, <2>1, SentFacts
<1> HIDE DEF mid
<1> DEFINE W == wire'
<1>21. W \in Wires /\ \A p, q \in Routers : W[p][q] = Grown(T, mid, s, F, p, q)
    <2>1. W = Sent(T, mid, s, F) /\ mid \in Wires
        BY <1>19a, <1>20
    <2> HIDE DEF W
    <2>2. QED
        BY <1>15, <2>1, SentFacts
<1>22. Extends(T, wire, wire', Es)
    <2> SUFFICES ASSUME NEW p \in Routers, NEW q \in Routers
                 PROVE  IF p \in Conns(T[q]) THEN Adds(wire[p][q], wire'[p][q], Es[p], q)
                                             ELSE wire'[p][q] = wire[p][q]
        BY DEF Extends
    <2> DEFINE a == wire[p][q]
    <2>1. a \in Seq(Messages)
        BY <1>2 DEF Wires
    <2>2. CASE p \notin Conns(T[q])
        BY <1>20, <1>21, <2>2 DEF Grown
    <2>3. CASE p \in Conns(T[q]) /\ p = r
        <3>1. wire'[p][q] = a \o Outgoing(E, q)
            BY <1>3, <1>20, <1>21, <2>3 DEF Grown
        <3> HIDE DEF a
        <3>2. Adds(a, a \o Outgoing(E, q), E, q)
            BY <1>15, <2>1, SentAdds
        <3>3. QED
            BY <1>18, <2>3, <3>1, <3>2 DEF a
    <2>4. CASE p \in Conns(T[q]) /\ p = s
        <3>1. wire'[p][q] = a \o Outgoing(F, q)
            BY <1>3, <1>20, <1>21, <2>4 DEF Grown
        <3> HIDE DEF a
        <3>2. Adds(a, a \o Outgoing(F, q), F, q)
            BY <1>15, <2>1, SentAdds
        <3>3. QED
            BY <1>18, <2>4, <3>1, <3>2 DEF a
    <2>5. CASE p \in Conns(T[q]) /\ p # r /\ p # s
        <3>1. wire'[p][q] = a
            BY <1>20, <1>21, <2>5 DEF Grown
        <3> HIDE DEF a
        <3>2. Adds(a, a, <<>>, q)
            BY <2>1, AddsNothing
        <3>3. QED
            BY <1>18, <2>5, <3>1, <3>2 DEF a
    <2>6. QED
        BY <2>2, <2>3, <2>4, <2>5
<1>23. Larger(T)
    BY <1>5, <1>6, <1>7 DEF Larger, BranchesOf
<1>24. AllProper(T, wire, lastId, Es)
    <2> SUFFICES ASSUME NEW p \in Routers, NEW k \in 1 .. Len(Es[p]), NEW q \in Routers, q \in Es[p][k].to
                 PROVE  Proper(T, wire, lastId, p, Es[p][k], q)
        BY DEF AllProper
    <2> DEFINE e == Es[p][k]
    <2>1. CASE p = r
        <3>1. /\ Leads(r, T[r]) /\ s \in Conns(T[r]) /\ (IsNews(T[r], s, e) \/ IsRequest(s, e))
              /\ e.msg.id \notin UsedIds \cup {0} /\ q \in e.to
            BY <1>5, <1>7, <1>15, <1>16, <1>18, <2>1
        <3> HIDE DEF e
        <3>2. Proper(T, wire, lastId, r, e, q)
            BY <3>1, EndProper
        <3>3. QED
            BY <2>1, <3>2 DEF e
    <2>2. CASE p = s
        <3>1. /\ Leads(s, T[s]) /\ r \in Conns(T[s]) /\ (IsNews(T[s], r, e) \/ IsRequest(r, e))
              /\ e.msg.id \notin UsedIds \cup {0} /\ q \in e.to
            BY <1>6, <1>7, <1>15, <1>17, <1>18, <2>2
        <3> HIDE DEF e
        <3>2. Proper(T, wire, lastId, s, e, q)
            BY <3>1, EndProper
        <3>3. QED
            BY <2>2, <3>2 DEF e
    <2>3. CASE p # r /\ p # s
        <3>1. Es[p] = <<>>
            BY <1>18, <2>3
        <3>2. QED
            BY <3>1
    <2>4. QED
        BY <2>1, <2>2, <2>3
<1>25. ASSUME NEW p \in Routers, NEW q \in Routers, Link(T, p, q)
       PROVE  (p = r /\ q = s) \/ (p = s /\ q = r) \/ Link(table, p, q)
    <2>1. /\ \A x \in Conns(T[r]) : x = s \/ x \in Conns(table[r])
          /\ \A x \in Conns(T[s]) : x = r \/ x \in Conns(table[s])
        BY <1>5, <1>6, <1>7
    <2>2. r \notin Conns(T[r]) /\ s \notin Conns(T[s])
        BY <1>5, <1>6, <1>7 DEF Leads
    <2>3. q \in Conns(T[p]) /\ p \in Conns(T[q])
        BY <1>25 DEF Link
    <2>4. q \in Conns(table[p]) \/ (p = r /\ q = s) \/ (p = s /\ q = r)
        BY <1>7, <2>1, <2>3
    <2>5. p \in Conns(table[q]) \/ (p = r /\ q = s) \/ (p = s /\ q = r)
        BY <1>7, <2>1, <2>3
    <2>6. QED
        BY <2>4, <2>5 DEF Link
<1>26. AllToldOrAnnounced(T, wire, Es)
    <2> SUFFICES ASSUME NEW p \in Routers, NEW q \in Routers, Link(T, p, q),
                        NEW c \in Conns(T[p]) \ {q}, NEW n \in Root(T[p], c)
                 PROVE  Told(T, wire, q, p, n, Len(wire[p][q])) \/ Announced(Es[p], q, n)
        BY DEF AllToldOrAnnounced
    <2>1. CASE p = r /\ q = s
        <3>1. c \in Conns(table[r]) /\ n \in Root(table[r], c)
            BY <1>5, <1>7, <2>1 DEF Root, BranchesOf
        <3>2. n \in BranchesOf(T[s], r)
            BY <1>7, <1>8, <3>1
        <3>3. QED
            BY <2>1, <3>2 DEF Told
    <2>2. CASE p = s /\ q = r
        <3>1. c \in Conns(table[s]) /\ n \in Root(table[s], c)
            BY <1>6, <1>7, <2>2 DEF Root, BranchesOf
        <3>2. n \in BranchesOf(T[r], s)
            BY <1>7, <1>8, <3>1
        <3>3. QED
            BY <2>2, <3>2 DEF Told
    <2>3. CASE Link(table, p, q) /\ p = r /\ c = s
        <3>1. q \in Conns(tblR) /\ q # s /\ n \in Root(tblR, s) /\ s \in Conns(tblR)
            BY <1>5, <1>7, <2>3 DEF Link
        <3>2. Announced(E, q, n)
            BY <1>3, <1>5, <1>11, <1>14, <3>1, EndAnnounces
        <3>3. QED
            BY <1>18, <2>3, <3>2
    <2>4. CASE Link(table, p, q) /\ p = s /\ c = r
        <3>1. q \in Conns(tblS) /\ q # r /\ n \in Root(tblS, r) /\ r \in Conns(tblS)
            BY <1>6, <1>7, <2>4 DEF Link
        <3>2. Announced(F, q, n)
            BY <1>3, <1>6, <1>11, <1>14, <3>1, EndAnnounces
        <3>3. QED
            BY <1>18, <2>4, <3>2
    <2>5. CASE Link(table, p, q) /\ ~(p = r /\ c = s) /\ ~(p = s /\ c = r)
        <3>1. c \in Conns(table[p]) \ {q} /\ n \in Root(table[p], c)
            BY <1>5, <1>6, <1>7, <2>5 DEF Root, BranchesOf
        <3> DEFINE i == Len(wire[p][q])
        <3>2. Told(table, wire, q, p, n, i)
            BY <2>5, <3>1 DEF Lossless, AllTold
        <3>3. p \in Conns(table[q])
            BY <2>5 DEF Link
        <3> HIDE DEF i
        <3>4. Told(T, wire, q, p, n, i)
            BY <1>23, <3>2, <3>3, ToldLarger
        <3>5. QED
            BY <3>4 DEF i
    <2>6. QED
        BY <1>25, <2>1, <2>2, <2>3, <2>4, <2>5
<1>27. OnlyTold(T, wire)
    <2> SUFFICES ASSUME NEW p \in Routers, NEW q \in Routers, Link(T, p, q)
                 PROVE  /\ BranchesOf(T[q], p) \subseteq AllNets(T[p])
                        /\ \A i \in DOMAIN wire[p][q] : wire[p][q][i].type = "NET_NEW" => wire[p][q][i].d \in AllNets(T[p])
        BY DEF OnlyTold
    <2>1. AllNets(table[p]) \subseteq AllNets(T[p])
        BY <1>23, NetsLarger
    <2>2. CASE (p = r /\ q = s) \/ (p = s /\ q = r)
        <3>1. BranchesOf(T[q], p) \subseteq AllNets(table[p])
            BY <1>5, <1>6, <1>7, <2>2 DEF BranchesOf
        <3>2. wire[p][q] = <<>>
            BY <1>4, <2>2 DEF Sound, OnLinks
        <3>3. QED
            BY <2>1, <3>1, <3>2
    <2>3. CASE Link(table, p, q)
        <3>1. p \in Conns(table[q])
            BY <2>3 DEF Link
        <3>2. BranchesOf(T[q], p) = BranchesOf(table[q], p)
            BY <1>5, <1>6, <1>7, <3>1 DEF BranchesOf
        <3>3. /\ BranchesOf(table[q], p) \subseteq AllNets(table[p])
              /\ \A i \in DOMAIN wire[p][q] : wire[p][q][i].type = "NET_NEW" => wire[p][q][i].d \in AllNets(table[p])
            BY <2>3 DEF Lossless, OnlyTold
        <3>4. QED
            BY <2>1, <3>2, <3>3
    <2>4. QED
        BY <1>25, <2>2, <2>3
<1>28. ToldBefore(T, wire)
    BY <1>23, BeforeLarger
<1>29. Outward(wire, lastId) /\ cuts = 0
    BY DEF Lossless
<1>30. AllTold(T, wire') /\ OnlyTold(T, wire') /\ ToldBefore(T, wire') /\ Outward(wire', lastId)
    BY <1>2, <1>19, <1>21, <1>22, <1>24, <1>26, <1>27, <1>28, <1>29, LosslessStep
<1>31. QED
    BY <1>1, <1>29, <1>30 DEF Lossless, T

\* What r's handling of m, from c, does to the tables: r learns of m.d, if m is
\* news.
Heard(T, r, c, m) ==
    /\ \A q \in Routers : q # r => T[q] = table[q]
    /\ Leads(r, T[r]) /\ Conns(T[r]) = Conns(table[r])
    /\ \A d \in Conns(table[r]) : d # c => T[r][d] = table[r][d]
    /\ BranchesOf(table[r], c) \subseteq BranchesOf(T[r], c)
    /\ m.type = "NET_NEW" => m.d \in BranchesOf(T[r], c)
    /\ \A n \in BranchesOf(T[r], c) :
          n \in BranchesOf(table[r], c) \/ (m.type = "NET_NEW" /\ n = m.d)

\* The table was t, is u, and n is announced if it is new.
Learnt(t, u, c, n, ems) ==
    /\ \A d \in Conns(t) : d # c => u[d] = t[d]
    /\ IF IsNewBranch(t, n)
       THEN BranchesOf(u, c) = BranchesOf(t, c) \cup {n} /\ ems = RouteChange(u, n, "NET_NEW")
       ELSE u = t /\ ems = <<>>

\* parse_msg: news of a net go to the table, unless they are no news.
LEMMA NewsParsed ==
    ASSUME NEW r, NEW c \in Conns(table[r]), NEW m, m.type = "NET_NEW",
           NEW B, table[r][c] \in Seq(B), m.d \in B, NEW p, p = Parsed(r, c, m)
    PROVE  Learnt(table[r], p.table, c, m.d, p.ems)
<1> DEFINE t == table[r]
           d == m.d
           tbl == AddBranch(t, c, d)
<1>1. /\ p.table = tbl
      /\ p.ems = IF tbl = t THEN <<>> ELSE RouteChange(tbl, d, "NET_NEW")
    BY DEF Parsed
<1>2. /\ \A e \in DOMAIN t : e # c => tbl[e] = t[e]
      /\ tbl[c] = IF IsNewBranch(t, d) THEN Append(t[c], d) ELSE t[c]
      /\ ~IsNewBranch(t, d) => tbl = t
    BY DEF AddBranch, Conns
<1> HIDE DEF tbl, d
<1>3. CASE IsNewBranch(t, d)
    <2>1. d \notin ToSet(t[c])
        BY <1>3 DEF IsNewBranch, BranchesOf
    <2>2. ToSet(tbl[c]) = ToSet(t[c]) \cup {d}
        <3> DEFINE q == t[c]
        <3>1. q \in Seq(B) /\ d \in B /\ tbl[c] = Append(q, d)
            BY <1>2, <1>3 DEF d
        <3> HIDE DEF q
        <3>2. ToSet(Append(q, d)) = ToSet(q) \cup {d}
            BY <3>1, AppendedTo
        <3>3. QED
            BY <3>1, <3>2 DEF q
    <2>3. tbl # t
        BY <2>1, <2>2
    <2>4. QED
        BY <1>1, <1>2, <1>3, <2>2, <2>3 DEF Learnt, BranchesOf, Conns, d
<1>4. CASE ~IsNewBranch(t, d)
    BY <1>1, <1>2, <1>4 DEF Learnt, Conns, d
<1>5. QED
    BY <1>3, <1>4 DEF d

\* A net that is behind c is a branch of c or of nothing.
LEMMA NewHere ==
    ASSUME Tree, Sound, NEW r \in Routers, NEW c \in Conns(table[r]), NEW n \in Beyond[r][c],
           n \notin BranchesOf(table[r], c)
    PROVE  IsNewBranch(table[r], n)
<1> DEFINE t == table[r]
<1>1. Leads(r, t) /\ c \in Conns(t) /\ c \in Node /\ c # r /\ Adjacent(r, c) /\ n \notin BranchesOf(t, c)
    BY AllLead
<1> HIDE DEF t
<1>2. ASSUME NEW q \in Conns(t), q # c PROVE n \notin BranchesOf(t, q)
    BY <1>1, <1>2, NotBehind
<1>3. \A q \in Conns(t) : n \notin BranchesOf(t, q)
    BY <1>1, <1>2
<1>4. IsNewBranch(t, n)
    BY <1>3 DEF IsNewBranch
<1>5. QED
    BY <1>4 DEF t

\* Handling a message but a loss leaves the table no smaller.
LEMMA HeardParsed ==
    ASSUME Tree, Sound, NEW r \in Routers, NEW c \in Conns(table[r]),
           NEW m \in Messages, Fine(c, r, m), m.type # "NET_LOST", NEW p, p = Parsed(r, c, m),
           NEW T, T = [table EXCEPT ![r] = p.table]
    PROVE  Heard(T, r, c, m)
<1> DEFINE t == table[r]
           u == p.table
<1>1. Leads(r, u) /\ Conns(u) = Conns(t)
    BY ParsedFine
<1>2. T[r] = u /\ \A q \in Routers : q # r => T[q] = table[q]
    BY DEF Sound, Shape
<1>3. CASE m.type = "NET_NEW"
    <2> DEFINE n == m.d
               B == Beyond[r][c] \ {c}
    <2>1. n \in B /\ t[c] \in Seq(B)
        BY <1>3, AllLead DEF Fine, Leads
    <2>2. /\ \A d \in Conns(t) : d # c => u[d] = t[d]
          /\ IF IsNewBranch(t, n) THEN BranchesOf(u, c) = BranchesOf(t, c) \cup {n} ELSE u = t
        <3> HIDE DEF B
        <3>1. Learnt(table[r], p.table, c, m.d, p.ems)
            BY <1>3, <2>1, NewsParsed
        <3>2. QED
            BY <3>1 DEF Learnt
    <2>3. n \notin BranchesOf(t, c) => IsNewBranch(t, n)
        BY <2>1, NewHere
    <2> HIDE DEF B, n, u, t
    <2>4. /\ BranchesOf(t, c) \subseteq BranchesOf(u, c) /\ n \in BranchesOf(u, c)
          /\ \A x \in BranchesOf(u, c) : x \in BranchesOf(t, c) \/ x = n
        BY <2>2, <2>3
    <2>5. QED
        BY <1>1, <1>2, <1>3, <2>2, <2>4 DEF Heard, n, t
<1>4. CASE m.type # "NET_NEW"
    <2>1. m.type \in Types \ {"NET_NEW", "NET_LOST"}
        BY <1>4 DEF Messages
    <2>2. u = t
        BY <2>1 DEF Parsed, Types
    <2> HIDE DEF t, u
    <2>3. QED
        BY <1>1, <1>2, <1>4, <2>2 DEF Heard, t
<1>5. QED
    BY <1>3, <1>4

\* What r says of itself to c, which asked
IsAnswer(c, e) == e.msg.type = "USER_NEW" /\ e.msg.dst = c /\ e.to = {c}

\* parse_msg: what it emits has no id yet.
LEMMA ParsedSays ==
    ASSUME Tree, Sound, NEW r \in Routers, NEW c \in Conns(table[r]),
           NEW m \in Messages, Fine(c, r, m), m.type # "NET_LOST",
           NEW p, p = Parsed(r, c, m)
    PROVE  /\ Unstamped(p.ems)
           /\ m.type \in LocalTypes => p.ems = <<>>
           /\ \A k \in 1 .. Len(p.ems) : IsNews(p.table, c, p.ems[k]) \/ IsAnswer(c, p.ems[k])
<1> DEFINE ems == p.ems
<1>1. CASE m.type = "NET_NEW"
    <2> DEFINE d == m.d
               e == [msg |-> Message("NET_NEW", d, BROADCAST, d), to |-> Targets(p.table, d)]
    <2>1. e.msg.id = 0 /\ e.msg.type = "NET_NEW" /\ e.msg.dst = BROADCAST /\ e.msg.d = d /\ e.to = Targets(p.table, d)
        BY DEF Message
    <2>2. d \in Root(p.table, c)
        BY <1>1, ParsedFine
    <2>3. ems = <<>> \/ ems = <<e>>
        BY <1>1 DEF Parsed, RouteChange
    <2>4. IsNews(p.table, c, e)
        BY <2>1, <2>2 DEF IsNews
    <2> HIDE DEF ems, e
    <2>5. \A k \in 1 .. Len(ems) : ems[k] = e
        BY <2>3
    <2>6. Unstamped(ems)
        BY <2>1, <2>5 DEF Unstamped
    <2>7. QED
        BY <1>1, <2>4, <2>5, <2>6 DEF LocalTypes, ems
<1>2. CASE m.type = "ENUM_REQUEST"
    <2> DEFINE users == SetToSeq(known[r])
               e(u) == [msg |-> Message("USER_NEW", r, c, u), to |-> Where(table[r], c)]
               E == [i \in DOMAIN users |-> e(users[i])]
    <2>1. ems = E
        BY <1>2 DEF Parsed
    <2>2. users \in Seq(known[r])
        <3>1. IsFiniteSet(known[r])
            <4>1. known[r] \subseteq Nets
                BY DEF Sound, Shape
            <4>2. QED
                BY <4>1, RouterNetAssumption, FS_Subset
        <3>2. QED
            BY <3>1, Enumerated
    <2> HIDE DEF users
    <2>3. ASSUME NEW u PROVE e(u).msg.id = 0 /\ IsAnswer(c, e(u))
        BY DEF IsAnswer, Where, Message
    <2> HIDE DEF e
    <2>4. \A k \in 1 .. Len(E) : E[k].msg.id = 0 /\ IsAnswer(c, E[k])
        BY <2>2, <2>3
    <2> HIDE DEF E
    <2>5. QED
        BY <1>2, <2>1, <2>4 DEF Unstamped, LocalTypes
<1>3. CASE m.type \in LocalTypes
    <2>1. ems = <<>>
        BY <1>3 DEF Parsed, LocalTypes
    <2>2. QED
        BY <2>1 DEF Unstamped
<1>4. m.type \in Types
    BY DEF Messages
<1>5. QED
    BY <1>1, <1>2, <1>3, <1>4 DEF Types, LocalTypes

\* w is wire without the message m from c, which r has read; a local net has no
\* queue.
Taken(w, r, c, m) ==
    \A s, q \in Routers :
        IF s = c /\ q = r
        THEN /\ Len(wire[s][q]) = Len(w[s][q]) + 1 /\ wire[s][q][1] = m
             /\ \A i \in 1 .. Len(w[s][q]) : wire[s][q][i + 1] = w[s][q][i]
        ELSE w[s][q] = wire[s][q]

\* What is told stays told when the message that tells it has been handled.
LEMMA ToldShift ==
    ASSUME Shape, NEW r \in Routers, NEW c \in Conns(table[r]), NEW m, NEW T, Heard(T, r, c, m),
           NEW w \in Wires, Taken(w, r, c, m),
           NEW q \in Routers, NEW s \in Routers, s \in Conns(table[q]),
           NEW n, NEW i \in Int, i <= Len(wire[s][q]), Told(table, wire, q, s, n, i)
    PROVE  /\ s = c /\ q = r => Told(T, w, q, s, n, i - 1)
           /\ ~(s = c /\ q = r) => Told(T, w, q, s, n, i)
<1>1. n \in BranchesOf(table[q], s) => n \in BranchesOf(T[q], s)
    <2>1. CASE q # r
        BY <2>1 DEF Heard
    <2>2. CASE q = r /\ s # c
        BY <2>2 DEF Heard, BranchesOf
    <2>3. CASE q = r /\ s = c
        BY <2>3 DEF Heard
    <2>4. QED
        BY <2>1, <2>2, <2>3
<1>2. CASE n \in BranchesOf(table[q], s)
    BY <1>1, <1>2 DEF Told
<1>3. CASE n \notin BranchesOf(table[q], s)
    <2> DEFINE a == wire[s][q]
               b == w[s][q]
    <2>1. PICK j \in 1 .. i : a[j].type = "NET_NEW" /\ a[j].d = n
        BY <1>3 DEF Told
    <2>2. CASE ~(s = c /\ q = r)
        <3>1. b = a
            BY <2>2 DEF Taken
        <3>2. QED
            BY <2>1, <2>2, <3>1 DEF Told
    <2>3. CASE s = c /\ q = r
        <3>1. Len(a) = Len(b) + 1 /\ a[1] = m /\ \A k \in 1 .. Len(b) : a[k + 1] = b[k]
            BY <2>3 DEF Taken
        <3>2. Len(b) \in Nat
            BY DEF Wires
        <3> HIDE DEF a, b
        <3>3. CASE j = 1
            <4>1. n \in BranchesOf(T[q], s)
                BY <2>1, <2>3, <3>1, <3>3 DEF Heard
            <4>2. QED
                BY <2>3, <4>1 DEF Told
        <3>4. CASE j # 1
            <4>1. j - 1 \in 1 .. i - 1 /\ j - 1 \in 1 .. Len(b) /\ (j - 1) + 1 = j
                BY <3>1, <3>2, <3>4 DEF a
            <4>2. b[j - 1] = a[j]
                BY <3>1, <4>1
            <4>3. QED
                BY <2>1, <2>3, <4>1, <4>2 DEF Told, b
        <3>5. QED
            BY <3>3, <3>4
    <2>4. QED
        BY <2>2, <2>3
<1>4. QED
    BY <1>2, <1>3

\* The copies of m, if any, are where neither c nor what is behind r will see
\* them.
Elsewhere(w, r, c, m) ==
    /\ \A z \in Routers : lastId[z] = m.id => z \notin Beyond[c][r]
    /\ \A s, q \in Routers : \A i \in DOMAIN w[s][q] : w[s][q][i].id = m.id => Apart(s, q, c, r)

\* Each message that is left was there, one place further back on its link.
LEMMA WasThere ==
    ASSUME NEW r, NEW c, NEW m, NEW w \in Wires, wire \in Wires, Taken(w, r, c, m),
           NEW s \in Routers, NEW q \in Routers, NEW i \in DOMAIN w[s][q],
           NEW k, k = IF s = c /\ q = r THEN i + 1 ELSE i
    PROVE  k \in DOMAIN wire[s][q] /\ wire[s][q][k] = w[s][q][i] /\ k \in Int /\ k - 1 <= Len(wire[s][q])
<1> DEFINE a == wire[s][q]
           b == w[s][q]
<1>1. a \in Seq(Messages) /\ b \in Seq(Messages)
    BY DEF Wires
<1>2. CASE ~(s = c /\ q = r)
    <2>1. b = a /\ k = i
        BY <1>2 DEF Taken
    <2> HIDE DEF a, b
    <2>2. i \in 1 .. Len(a)
        BY <1>1, <2>1 DEF b
    <2>3. QED
        BY <1>1, <2>1, <2>2 DEF a, b
<1>3. CASE s = c /\ q = r
    <2>1. Len(a) = Len(b) + 1 /\ (\A j \in 1 .. Len(b) : a[j + 1] = b[j]) /\ k = i + 1
        BY <1>3 DEF Taken
    <2> HIDE DEF a, b
    <2>2. i \in 1 .. Len(b) /\ Len(b) \in Nat
        BY <1>1 DEF b
    <2>3. k \in 1 .. Len(a) /\ a[k] = b[i] /\ k \in Int /\ k - 1 <= Len(a)
        BY <2>1, <2>2
    <2>4. QED
        BY <1>1, <2>3 DEF a, b
<1>4. QED
    BY <1>2, <1>3

\* Nothing that is left was sent too early.
LEMMA ShiftedBefore ==
    ASSUME Sound, Lossless, NEW r \in Routers, NEW c \in Conns(table[r]), NEW m,
           NEW T, Heard(T, r, c, m), NEW w \in Wires, Taken(w, r, c, m)
    PROVE  ToldBefore(T, w)
<1> SUFFICES ASSUME NEW s \in Routers, NEW q \in Routers, NEW i \in DOMAIN w[s][q]
             PROVE  Due(T, w, s, q, w[s][q][i], i - 1)
    BY DEF ToldBefore
<1>1. Shape /\ wire \in Wires
    BY DEF Sound, Shape
<1> DEFINE k == IF s = c /\ q = r THEN i + 1 ELSE i
<1>2. k \in DOMAIN wire[s][q] /\ wire[s][q][k] = w[s][q][i] /\ k \in Int /\ k - 1 <= Len(wire[s][q])
    BY <1>1, WasThere
<1>3. s \in Conns(table[q])
    <2> HIDE DEF k
    <2>1. wire[s][q] # <<>>
        BY <1>2
    <2>2. QED
        BY <2>1 DEF Sound, OnLinks
<1> DEFINE x == w[s][q][i]
           n == x.src
           j == k - 1
<1>4. Due(table, wire, s, q, x, j)
    <2> HIDE DEF k
    <2>1. Due(table, wire, s, q, wire[s][q][k], k - 1)
        BY <1>2 DEF Lossless, ToldBefore
    <2>2. QED
        BY <1>2, <2>1
<1>5. j \in Int /\ j <= Len(wire[s][q])
    <2> HIDE DEF k
    <2>1. QED
        BY <1>2
<1>6. IF s = c /\ q = r THEN j - 1 = i - 1 ELSE j = i - 1
    <2>1. i \in Int
        BY DEF Wires
    <2>2. QED
        BY <2>1
<1> HIDE DEF k, j, x, n
<1>7. Told(table, wire, q, s, n, j) => Told(T, w, q, s, n, i - 1)
    <2>1. SUFFICES ASSUME Told(table, wire, q, s, n, j) PROVE Told(T, w, q, s, n, i - 1)
        OBVIOUS
    <2>2. /\ s = c /\ q = r => Told(T, w, q, s, n, j - 1)
          /\ ~(s = c /\ q = r) => Told(T, w, q, s, n, j)
        BY <1>1, <1>3, <1>5, <2>1, ToldShift
    <2>3. QED
        BY <1>6, <2>2
<1>8. Due(T, w, s, q, x, i - 1)
    BY <1>4, <1>7 DEF Due, n
<1>9. QED
    BY <1>8 DEF x

\* What r learns, c knows.
LEMMA ShiftedOnly ==
    ASSUME Sound, Lossless, NEW r \in Routers, NEW c \in Conns(table[r]), NEW m,
           NEW T, Heard(T, r, c, m), NEW w \in Wires, Taken(w, r, c, m)
    PROVE  Larger(T) /\ OnlyTold(T, w)
<1>1. Shape /\ wire \in Wires
    BY DEF Sound, Shape
<1>2. ASSUME NEW q \in Routers PROVE Conns(T[q]) = Conns(table[q])
    <2>1. CASE q = r
        BY <2>1 DEF Heard
    <2>2. CASE q # r
        BY <2>2 DEF Heard
    <2>3. QED
        BY <2>1, <2>2
<1>3. Larger(T)
    <2> SUFFICES ASSUME NEW q \in Routers, NEW d \in Conns(table[q])
                 PROVE  d \in Conns(T[q]) /\ BranchesOf(table[q], d) \subseteq BranchesOf(T[q], d)
        BY DEF Larger
    <2>1. CASE q # r
        BY <2>1 DEF Heard
    <2>2. CASE q = r /\ d # c
        BY <2>2 DEF Heard, BranchesOf
    <2>3. CASE q = r /\ d = c
        BY <2>3 DEF Heard
    <2>4. QED
        BY <2>1, <2>2, <2>3
<1>4. ASSUME NEW s \in Routers, NEW q \in Routers, Link(T, s, q)
      PROVE  /\ BranchesOf(T[q], s) \subseteq AllNets(T[s])
             /\ \A i \in DOMAIN w[s][q] : w[s][q][i].type = "NET_NEW" => w[s][q][i].d \in AllNets(T[s])
    <2>1. Link(table, s, q)
        BY <1>2, <1>4 DEF Link
    <2> DEFINE a == wire[s][q]
               b == w[s][q]
               N == AllNets(table[s])
    <2>2. N \subseteq AllNets(T[s])
        BY <1>3, NetsLarger
    <2>3. BranchesOf(table[q], s) \subseteq N /\ \A k \in DOMAIN a : a[k].type = "NET_NEW" => a[k].d \in N
        BY <2>1 DEF Lossless, OnlyTold
    <2>4. a \in Seq(Messages) /\ b \in Seq(Messages)
        BY <1>1 DEF Wires
    <2>5. CASE s = c /\ q = r
        <3>1. Len(a) = Len(b) + 1 /\ a[1] = m /\ \A j \in 1 .. Len(b) : a[j + 1] = b[j]
            BY <2>5 DEF Taken
        <3>2. \A n \in BranchesOf(T[q], s) : n \in BranchesOf(table[q], s) \/ (m.type = "NET_NEW" /\ n = m.d)
            BY <2>5 DEF Heard
        <3> HIDE DEF a, b, N
        <3>3. 1 \in DOMAIN a
            BY <2>4, <3>1
        <3>4. BranchesOf(T[q], s) \subseteq N
            BY <2>3, <3>1, <3>2, <3>3
        <3>5. ASSUME NEW i \in DOMAIN b, b[i].type = "NET_NEW" PROVE b[i].d \in N
            <4>1. i \in 1 .. Len(b) /\ i + 1 \in DOMAIN a
                BY <2>4, <3>1
            <4>2. a[i + 1] = b[i]
                BY <3>1, <4>1
            <4>3. QED
                BY <2>3, <3>5, <4>1, <4>2
        <3>6. QED
            BY <2>2, <3>4, <3>5 DEF b
    <2>6. CASE ~(s = c /\ q = r)
        <3>1. b = a
            BY <2>6 DEF Taken
        <3>2. BranchesOf(T[q], s) = BranchesOf(table[q], s)
            <4>1. CASE q # r
                BY <4>1 DEF Heard
            <4>2. CASE q = r
                BY <2>1, <2>6, <4>2 DEF Heard, Link, BranchesOf
            <4>3. QED
                BY <4>1, <4>2
        <3> HIDE DEF a, b, N
        <3>3. QED
            BY <2>2, <2>3, <3>1, <3>2 DEF b
    <2>7. QED
        BY <2>5, <2>6
<1>5. OnlyTold(T, w)
    BY <1>4 DEF OnlyTold
<1>6. QED
    BY <1>3, <1>5

\* Copies of m are not on their way to r, which now remembers m.
LEMMA ShiftedOutward ==
    ASSUME Sound, Lossless, NEW r \in Routers, NEW c \in Conns(table[r]), NEW m,
           NEW w \in Wires, Taken(w, r, c, m), Elsewhere(w, r, c, m),
           NEW lid, lid = [lastId EXCEPT ![r] = m.id]
    PROVE  Outward(w, lid)
<1>1. Shape /\ wire \in Wires
    BY DEF Sound, Shape
<1>2. lid[r] = m.id /\ \A z \in Routers : z # r => lid[z] = lastId[z]
    BY <1>1 DEF Shape
<1>3. r \in Beyond[c][r]
    <2>1. c \in Node /\ r \in Node /\ c # r
        BY AllLead DEF Node
    <2>2. QED
        BY <2>1, BeyondFacts
<1>4. Outward(wire, lastId)
    BY DEF Lossless
<1>5. ASSUME NEW s \in Routers, NEW q \in Routers, NEW i \in DOMAIN w[s][q]
      PROVE  Unseen(lid, s, q, w[s][q][i].id)
    <2> DEFINE id == w[s][q][i].id
               k == IF s = c /\ q = r THEN i + 1 ELSE i
    <2>1. k \in DOMAIN wire[s][q] /\ wire[s][q][k] = w[s][q][i]
        BY <1>1, WasThere
    <2>2. Unseen(lastId, s, q, id)
        <3> HIDE DEF k
        <3>1. Unseen(lastId, s, q, wire[s][q][k].id)
            BY <1>4, <2>1 DEF Outward
        <3>2. QED
            BY <2>1, <3>1
    <2>3. id = m.id => Apart(s, q, c, r)
        BY DEF Elsewhere
    <2> HIDE DEF id, k
    <2>4. lid[r] = id => r \notin Beyond[s][q]
        BY <1>2, <1>3, <2>3 DEF Apart
    <2>5. Unseen(lid, s, q, id)
        BY <1>2, <2>2, <2>4 DEF Unseen
    <2>6. QED
        BY <2>5 DEF id
<1>6. ASSUME NEW s \in Routers, NEW q \in Routers, NEW t \in Routers, NEW u \in Routers,
             NEW i \in DOMAIN w[s][q], NEW j \in DOMAIN w[t][u], w[s][q][i].id = w[t][u][j].id
      PROVE  (s = t /\ q = u /\ i = j) \/ Apart(s, q, t, u)
    <2> DEFINE k == IF s = c /\ q = r THEN i + 1 ELSE i
               l == IF t = c /\ u = r THEN j + 1 ELSE j
    <2>1. k \in DOMAIN wire[s][q] /\ wire[s][q][k] = w[s][q][i]
        BY <1>1, WasThere
    <2>2. l \in DOMAIN wire[t][u] /\ wire[t][u][l] = w[t][u][j]
        BY <1>1, WasThere
    <2>3. i \in Int /\ j \in Int
        <3>1. w[s][q] \in Seq(Messages) /\ w[t][u] \in Seq(Messages)
            BY DEF Wires
        <3>2. i \in 1 .. Len(w[s][q]) /\ Len(w[s][q]) \in Nat
            BY <3>1
        <3>3. j \in 1 .. Len(w[t][u]) /\ Len(w[t][u]) \in Nat
            BY <3>1
        <3>4. QED
            BY <3>2, <3>3
    <2>4. s = t /\ q = u /\ k = l => i = j
        BY <2>3
    <2> HIDE DEF k, l
    <2>5. wire[s][q][k].id = wire[t][u][l].id
        BY <1>6, <2>1, <2>2
    <2>6. (s = t /\ q = u /\ k = l) \/ Apart(s, q, t, u)
        BY <1>4, <2>1, <2>2, <2>5 DEF Outward
    <2>7. QED
        BY <2>4, <2>6
<1>7. QED
    BY <1>5, <1>6 DEF Outward

\* What r may pass on or say when it handles m
Handles(r, c, m) ==
    /\ m.id # 0 /\ m.type # "NET_LOST"
    /\ m.dst = BROADCAST /\ m.type # "NET_NEW" => m.src \in Root(table[r], c)
    /\ m.dst \in Node => c \in Nets \/ m.dst \in Beyond[c][r]
    /\ m.id \in UsedIds \/ m.type \in LocalTypes

\* All neighbours but c hear of what is new behind c.
LEMMA SwitchAllTold ==
    ASSUME Tree, Sound, Lossless, NEW r \in Routers, NEW c \in Conns(table[r]),
           NEW m \in Messages, Fine(c, r, m), m.type # "NET_LOST",
           NEW w \in Wires, Taken(w, r, c, m),
           NEW p, p = Parsed(r, c, m), NEW T, T = [table EXCEPT ![r] = p.table], Heard(T, r, c, m),
           NEW ems, Len(ems) >= Len(p.ems), \A k \in 1 .. Len(p.ems) : ems[k] = p.ems[k],
           NEW E, Numbered(E, ems)
    PROVE  AllToldOrAnnounced(T, w, Only(r, E))
<1>1. Shape /\ wire \in Wires /\ T[r] = p.table
    BY DEF Sound, Shape
<1>2. Larger(T)
    BY ShiftedOnly
<1>3. \A q \in Routers : Conns(T[q]) = Conns(table[q])
    BY DEF Heard
<1> SUFFICES ASSUME NEW s \in Routers, NEW q \in Routers, Link(T, s, q),
                    NEW d \in Conns(T[s]) \ {q}, NEW n \in Root(T[s], d)
             PROVE  Told(T, w, q, s, n, Len(w[s][q])) \/ Announced(Only(r, E)[s], q, n)
    BY DEF AllToldOrAnnounced
<1>4. Link(table, s, q)
    BY <1>3 DEF Link
<1>5. CASE n \in Root(table[s], d)
    <2> DEFINE i == Len(wire[s][q])
    <2>1. Told(table, wire, q, s, n, i)
        BY <1>3, <1>4, <1>5 DEF Lossless, AllTold
    <2>2. s \in Conns(table[q])
        BY <1>4 DEF Link
    <2>3. wire[s][q] \in Seq(Messages) /\ w[s][q] \in Seq(Messages)
        BY <1>1 DEF Wires
    <2>4. i \in Int /\ i <= Len(wire[s][q])
        BY <2>3
    <2>5. IF s = c /\ q = r THEN i - 1 = Len(w[s][q]) ELSE i = Len(w[s][q])
        <3>1. CASE s = c /\ q = r
            <4>1. i = Len(w[s][q]) + 1
                BY <3>1 DEF Taken
            <4>2. Len(w[s][q]) \in Nat
                BY <2>3
            <4>3. QED
                BY <3>1, <4>1, <4>2
        <3>2. CASE ~(s = c /\ q = r)
            BY <3>2 DEF Taken
        <3>3. QED
            BY <3>1, <3>2
    <2> HIDE DEF i
    <2>6. /\ s = c /\ q = r => Told(T, w, q, s, n, i - 1)
          /\ ~(s = c /\ q = r) => Told(T, w, q, s, n, i)
        BY <1>1, <2>1, <2>2, <2>4, ToldShift
    <2>7. QED
        BY <2>5, <2>6
<1>6. CASE n \notin Root(table[s], d)
    <2>1. s = r /\ d = c /\ m.type = "NET_NEW" /\ n = m.d /\ n \notin BranchesOf(table[r], c)
        <3>1. s = r
            BY <1>6 DEF Heard
        <3>2. d = c
            BY <1>3, <1>6, <3>1 DEF Heard, Root, BranchesOf
        <3>3. QED
            BY <1>6, <3>1, <3>2 DEF Heard, Root
    <2>2. n \in Beyond[r][c] \ {c} /\ table[r][c] \in Seq(Beyond[r][c] \ {c})
        BY <2>1, AllLead DEF Fine, Leads
    <2>3. p.ems = RouteChange(p.table, n, "NET_NEW")
        <3> DEFINE B == Beyond[r][c] \ {c}
        <3> HIDE DEF B
        <3>1. table[r][c] \in Seq(B) /\ m.d \in B
            BY <2>1, <2>2 DEF B
        <3>2. Learnt(table[r], p.table, c, m.d, p.ems)
            BY <2>1, <3>1, NewsParsed
        <3>3. IsNewBranch(table[r], n)
            BY <2>1, <2>2, NewHere
        <3>4. QED
            BY <2>1, <3>2, <3>3 DEF Learnt
    <2>4. q \in Conns(p.table) /\ q # c
        BY <1>1, <2>1 DEF Link
    <2>5. c \in Node /\ c # r /\ Adjacent(r, c)
        BY AllLead
    <2>6. q \in Targets(p.table, n)
        <3> DEFINE tbl == p.table
        <3>1. Leads(r, tbl) /\ q \in Conns(tbl)
            BY <1>1, <2>4 DEF Heard
        <3> HIDE DEF tbl
        <3>2. n # q /\ n \notin BranchesOf(tbl, q)
            BY <2>2, <2>4, <2>5, <3>1, NotBehind
        <3>3. QED
            BY <3>1, <3>2 DEF Targets, tbl
    <2>7. /\ Len(p.ems) = 1 /\ p.ems[1].to = Targets(p.table, n)
          /\ p.ems[1].msg.type = "NET_NEW" /\ p.ems[1].msg.d = n
        BY <2>3 DEF RouteChange, Message
    <2>8. 1 \in 1 .. Len(E) /\ E[1].to = p.ems[1].to /\ E[1].msg.type = p.ems[1].msg.type /\ E[1].msg.d = p.ems[1].msg.d
        <3>1. 1 \in 1 .. Len(ems) /\ ems[1] = p.ems[1]
            <4>1. Len(ems) \in Int
                BY DEF Numbered
            <4>2. QED
                BY <2>7, <4>1
        <3>2. QED
            BY <3>1 DEF Numbered
    <2>9. Announced(E, q, n)
        BY <2>6, <2>7, <2>8 DEF Announced
    <2>10. QED
        BY <2>1, <2>9 DEF Only
<1>7. QED
    BY <1>5, <1>6

\* What a broadcast is of is not beyond the connections it goes to, and where a
\* message is for one is beyond the connection it goes to.
LEMMA PassedOn ==
    ASSUME Tree, Sound, NEW r \in Routers, NEW c \in Conns(table[r]), NEW m \in Messages,
           Fine(c, r, m), Handles(r, c, m), NEW T, Heard(T, r, c, m), m.dst \notin {r, Null},
           NEW q \in Routers,
           q \in IF m.dst = BROADCAST THEN Targets(T[r], m.src) ELSE Where(T[r], m.dst)
    PROVE  /\ q \in Conns(T[r]) /\ q # c /\ q # r /\ Adjacent(r, q)
           /\ m.dst \in Node => m.dst \in Beyond[r][q]
<1> DEFINE tbl == T[r]
<1>1. Leads(r, tbl) /\ Conns(tbl) = Conns(table[r]) /\ r \in Node /\ q \in Node
    BY DEF Heard, Node
<1>2. c \in Node /\ c # r /\ Adjacent(r, c) /\ Adjacent(c, r)
    BY <1>1, AllLead, AdjacentBoth
<1>3. CASE m.dst = BROADCAST
    <2>1. q \in Conns(tbl) /\ q # m.src /\ m.src \notin BranchesOf(tbl, q)
        BY <1>3 DEF Targets
    <2>2. m.src \in Root(tbl, c)
        <3>1. CASE m.type = "NET_NEW"
            BY <3>1 DEF Fine, Heard, Root
        <3>2. CASE m.type # "NET_NEW"
            BY <1>3, <3>2 DEF Handles, Heard, Root
        <3>3. QED
            BY <3>1, <3>2
    <2>3. q # c
        BY <2>1, <2>2 DEF Root
    <2>4. QED
        BY <1>1, <1>3, <2>1, <2>3, NamesAssumption DEF Leads, Neighbours
<1>4. CASE m.dst # BROADCAST
    <2>1. m.dst \in Node
        BY <1>4 DEF Messages
    <2> DEFINE d == m.dst
    <2>2. q \in Conns(tbl) /\ (q = d \/ d \in BranchesOf(tbl, q))
        BY <1>4 DEF Where
    <2>3. q # r /\ Adjacent(r, q)
        BY <1>1, <2>2 DEF Leads, Neighbours
    <2>4. d \in Beyond[r][q]
        <3>1. q \in Beyond[r][q]
            BY <1>1, <2>3, BeyondFacts
        <3>2. tbl[q] \in Seq(Beyond[r][q] \ {q})
            BY <1>1, <2>2 DEF Leads
        <3>3. QED
            BY <2>2, <3>1, <3>2 DEF BranchesOf, ToSet
    <2>5. q # c
        <3>1. CASE c \in Nets
            BY <3>1, RouterNetAssumption
        <3>2. CASE c \notin Nets
            <4>1. d \in Beyond[c][r]
                BY <2>1, <3>2 DEF Handles
            <4>2. Beyond[c][r] \cap Beyond[r][c] = {}
                BY <1>1, <1>2, Sides
            <4>3. QED
                BY <2>4, <4>1, <4>2
        <3>3. QED
            BY <3>1, <3>2
    <2>6. QED
        BY <2>2, <2>3, <2>4, <2>5
<1>5. QED
    BY <1>3, <1>4

\* routetbl_send: m itself may be passed on.
LEMMA ForwardProper ==
    ASSUME Tree, Sound, Lossless, NEW r \in Routers, NEW c \in Conns(table[r]), NEW m \in Messages,
           Fine(c, r, m), Handles(r, c, m), NEW T, Heard(T, r, c, m), m.dst \notin {r, Null},
           NEW w \in Wires, Taken(w, r, c, m), Elsewhere(w, r, c, m),
           NEW lid, lid = [lastId EXCEPT ![r] = m.id],
           NEW e, e.msg = m, NEW q \in Routers, r \in Conns(T[q]),
           q \in IF m.dst = BROADCAST THEN Targets(T[r], m.src) ELSE Where(T[r], m.dst)
    PROVE  Proper(T, w, lid, r, e, q)
<1>1. /\ q \in Conns(T[r]) /\ q # c /\ q # r /\ Adjacent(r, q)
      /\ m.dst \in Node => m.dst \in Beyond[r][q]
    BY PassedOn
<1>2. Shape /\ wire \in Wires /\ Conns(T[r]) = Conns(table[r]) /\ Conns(T[q]) = Conns(table[q])
    BY <1>1 DEF Sound, Shape, Heard
<1>3. c \in Node /\ r \in Node /\ q \in Node /\ c # r /\ Adjacent(r, c)
    BY AllLead DEF Node
<1>4. Beyond[r][q] \subseteq Beyond[c][r] \ {r}
    BY <1>1, <1>3, Nested
<1>5. m.type = "NET_NEW" => m.d \in AllNets(T[r])
    BY <1>2 DEF Heard, AllNets, Root
<1>6. Due(T, w, r, q, m, Len(w[r][q]))
    <2>1. m.type # "NET_LOST"
        BY DEF Handles
    <2>2. ASSUME m.dst = BROADCAST, m.type # "NET_NEW" PROVE Told(T, w, q, r, m.src, Len(w[r][q]))
        <3> DEFINE n == m.src
                   i == Len(wire[r][q])
        <3>1. n \in Root(table[r], c)
            BY <2>2 DEF Handles
        <3>2. Link(table, r, q)
            BY <1>1, <1>2 DEF Link
        <3>3. c \in Conns(table[r]) \ {q}
            BY <1>1
        <3>4. Told(table, wire, q, r, n, i)
            BY <3>1, <3>2, <3>3 DEF Lossless, AllTold
        <3>5. w[r][q] = wire[r][q] /\ wire[r][q] \in Seq(Messages)
            BY <1>1, <1>2 DEF Taken, Wires
        <3>6. i \in Int /\ i <= Len(wire[r][q]) /\ i = Len(w[r][q])
            BY <3>5
        <3>7. r \in Conns(table[q]) /\ ~(r = c /\ q = r)
            BY <1>1, <1>2
        <3> HIDE DEF i, n
        <3>8. Told(T, w, q, r, n, i)
            BY <1>2, <3>4, <3>6, <3>7, ToldShift
        <3>9. QED
            BY <3>6, <3>8 DEF n
    <2>3. QED
        BY <1>1, <2>1, <2>2 DEF Due
<1>7. Unseen(lid, r, q, m.id)
    <2>1. lid[r] = m.id /\ \A z \in Routers : z # r => lid[z] = lastId[z]
        BY <1>2 DEF Shape
    <2>2. m.id # 0 /\ \A z \in Routers : lastId[z] = m.id => z \notin Beyond[c][r]
        BY DEF Handles, Elsewhere
    <2>3. QED
        BY <1>4, <2>1, <2>2 DEF Unseen
<1>8. ASSUME NEW t \in Routers, NEW u \in Routers, NEW j \in DOMAIN w[t][u], w[t][u][j].id = m.id
      PROVE  Apart(t, u, r, q)
    <2>1. Apart(t, u, c, r)
        BY <1>8 DEF Elsewhere
    <2>2. QED
        BY <1>4, <2>1 DEF Apart
<1>9. QED
    BY <1>1, <1>5, <1>6, <1>7, <1>8 DEF Proper

\* What r says of its own may be said.
LEMMA SaidProper ==
    ASSUME Tree, Sound, NEW r \in Routers, NEW c \in Conns(table[r]), NEW m,
           NEW T, Heard(T, r, c, m), NEW w \in Wires, Taken(w, r, c, m), m.id \in UsedIds,
           NEW lid, lid = [lastId EXCEPT ![r] = m.id],
           NEW e, IsNews(T[r], c, e) \/ IsAnswer(c, e), e.msg.id \notin UsedIds \cup {0},
           NEW q \in Routers, q \in e.to
    PROVE  Proper(T, w, lid, r, e, q)
<1> DEFINE id == e.msg.id
           tbl == T[r]
<1>1. Shape /\ wire \in Wires /\ Leads(r, tbl) /\ c \in Conns(tbl)
    BY DEF Sound, Shape, Heard
<1>2. q \in Conns(tbl) /\ q # r /\ Adjacent(r, q)
    BY <1>1 DEF IsNews, IsAnswer, Targets, Leads, Neighbours
<1>3. e.msg.type = "NET_NEW" => e.msg.d \in AllNets(tbl)
    <2>1. CASE IsNews(tbl, c, e)
        BY <1>1, <2>1 DEF IsNews, AllNets
    <2>2. CASE IsAnswer(c, e)
        BY <2>2 DEF IsAnswer
    <2>3. QED
        BY <2>1, <2>2
<1>4. c \in Node /\ r \in Node /\ c # r
    BY AllLead DEF Node
<1>5. Due(T, w, r, q, e.msg, Len(w[r][q]))
    <2>1. CASE IsNews(tbl, c, e)
        BY <2>1, NamesAssumption DEF Due, IsNews
    <2>2. CASE IsAnswer(c, e)
        <3>1. c \in Beyond[r][c] /\ c # BROADCAST /\ q = c
            BY <1>4, <2>2, BeyondFacts, NamesAssumption DEF IsAnswer
        <3>2. QED
            BY <2>2, <3>1 DEF Due, IsAnswer
    <2>3. QED
        BY <2>1, <2>2
<1>6. id \notin UsedIds \cup {0} /\ id # m.id
    OBVIOUS
<1> HIDE DEF id
<1>7. Unseen(lastId, r, q, id) /\ \A t, u \in Routers : \A j \in DOMAIN wire[t][u] : wire[t][u][j].id # id
    BY <1>6, FreshUnseen
<1>8. Unseen(lid, r, q, id)
    <2>1. lid[r] = m.id /\ \A z \in Routers : z # r => lid[z] = lastId[z]
        BY <1>1 DEF Shape
    <2>2. QED
        BY <1>6, <1>7, <2>1 DEF Unseen
<1>9. ASSUME NEW t \in Routers, NEW u \in Routers, NEW j \in DOMAIN w[t][u] PROVE w[t][u][j].id # id
    <2> DEFINE k == IF t = c /\ u = r THEN j + 1 ELSE j
    <2>1. k \in DOMAIN wire[t][u] /\ wire[t][u][k] = w[t][u][j]
        BY <1>1, WasThere
    <2> HIDE DEF k
    <2>2. QED
        BY <1>7, <2>1
<1>10. QED
    BY <1>2, <1>3, <1>5, <1>8, <1>9 DEF Proper, id

\* What r remembers says so.
LEMMA NotRemembered ==
    ASSUME Sound, NEW r \in Routers, NEW c \in Conns(table[r]), NEW m, NEW w, Elsewhere(w, r, c, m)
    PROVE  ~IsKnown(r, m)
<1>1. c \in Node /\ r \in Node /\ c # r
    BY AllLead DEF Node
<1>2. r \in Beyond[c][r]
    BY <1>1, BeyondFacts
<1>3. QED
    BY <1>2 DEF Elsewhere, IsKnown

\* Tables and queues that shrink to nothing tell nothing.
LEMMA GoneLossless ==
    ASSUME Sound, Lossless, NEW r \in Routers, NEW c \in Conns(table[r]), NEW m,
           NEW w \in Wires, Taken(w, r, c, m), Elsewhere(w, r, c, m),
           lastId' = [lastId EXCEPT ![r] = m.id], Gone(r, w), cuts' = cuts
    PROVE  Lossless'
<1> DEFINE T == table'
           v == wire'
           lid == lastId'
<1>1. Shape /\ wire \in Wires /\ DOMAIN table = Routers
    BY DEF Sound, Shape
<1>2. /\ \A q \in Routers : T[q] = IF q = r THEN <<>> ELSE table[q]
      /\ \A s, q \in Routers : v[s][q] = IF q = r THEN <<>> ELSE w[s][q]
    BY <1>1 DEF Gone, Wires
<1>3. \A s, q \in Routers : q # r => w[s][q] = wire[s][q]
    BY DEF Taken
<1>4. Outward(w, lid)
    BY ShiftedOutward
<1> HIDE DEF T, v, lid
<1>5. ASSUME NEW s \in Routers, NEW q \in Routers, Link(T, s, q)
      PROVE  s # r /\ q # r /\ Link(table, s, q)
    <2>1. Conns(<<>>) = {}
        BY DEF Conns
    <2>2. s # r /\ q # r
        BY <1>2, <1>5, <2>1 DEF Link
    <2>3. QED
        BY <1>2, <1>5, <2>2 DEF Link
<1>6. ASSUME NEW s \in Routers, NEW q \in Routers, q # r, NEW n, NEW i, Told(table, wire, q, s, n, i)
      PROVE  Told(T, v, q, s, n, i)
    <2>1. T[q] = table[q] /\ v[s][q] = wire[s][q]
        BY <1>2, <1>3, <1>6
    <2>2. QED
        BY <1>6, <2>1 DEF Told
<1>7. AllTold(T, v)
    <2> SUFFICES ASSUME NEW s \in Routers, NEW q \in Routers, Link(T, s, q),
                        NEW d \in Conns(T[s]) \ {q}, NEW n \in Root(T[s], d)
                 PROVE  Told(T, v, q, s, n, Len(v[s][q]))
        BY DEF AllTold
    <2>1. s # r /\ q # r /\ Link(table, s, q)
        BY <1>5
    <2>2. T[s] = table[s] /\ v[s][q] = wire[s][q]
        BY <1>2, <1>3, <2>1
    <2> DEFINE i == Len(wire[s][q])
    <2>3. Told(table, wire, q, s, n, i)
        BY <2>1, <2>2 DEF Lossless, AllTold
    <2> HIDE DEF i
    <2>4. Told(T, v, q, s, n, i)
        BY <1>6, <2>1, <2>3
    <2>5. QED
        BY <2>2, <2>4 DEF i
<1>8. OnlyTold(T, v)
    <2> SUFFICES ASSUME NEW s \in Routers, NEW q \in Routers, Link(T, s, q)
                 PROVE  /\ BranchesOf(T[q], s) \subseteq AllNets(T[s])
                        /\ \A i \in DOMAIN v[s][q] : v[s][q][i].type = "NET_NEW" => v[s][q][i].d \in AllNets(T[s])
        BY DEF OnlyTold
    <2>1. s # r /\ q # r /\ Link(table, s, q)
        BY <1>5
    <2>2. T[s] = table[s] /\ T[q] = table[q] /\ v[s][q] = wire[s][q]
        BY <1>2, <1>3, <2>1
    <2>3. QED
        BY <2>1, <2>2 DEF Lossless, OnlyTold
<1>9. ToldBefore(T, v)
    <2> SUFFICES ASSUME NEW s \in Routers, NEW q \in Routers, NEW i \in DOMAIN v[s][q]
                 PROVE  Due(T, v, s, q, v[s][q][i], i - 1)
        BY DEF ToldBefore
    <2>1. q # r /\ v[s][q] = wire[s][q]
        <3>1. q # r
            BY <1>2
        <3>2. QED
            BY <1>2, <1>3, <3>1
    <2> DEFINE x == v[s][q][i]
               n == x.src
               j == i - 1
    <2>2. Due(table, wire, s, q, x, j)
        BY <2>1 DEF Lossless, ToldBefore
    <2> HIDE DEF x, n, j
    <2>3. Told(table, wire, q, s, n, j) => Told(T, v, q, s, n, j)
        BY <1>6, <2>1
    <2>4. Due(T, v, s, q, x, j)
        BY <2>2, <2>3 DEF Due, n
    <2>5. QED
        BY <2>4 DEF x, j
<1>10. Outward(v, lid)
    <2>1. \A s, q \in Routers : \A i \in DOMAIN v[s][q] : i \in DOMAIN w[s][q] /\ v[s][q][i] = w[s][q][i]
        BY <1>2
    <2>2. ASSUME NEW s \in Routers, NEW q \in Routers, NEW i \in DOMAIN v[s][q]
          PROVE  Unseen(lid, s, q, v[s][q][i].id)
        BY <1>4, <2>1 DEF Outward
    <2>3. ASSUME NEW s \in Routers, NEW q \in Routers, NEW t \in Routers, NEW u \in Routers,
                 NEW i \in DOMAIN v[s][q], NEW j \in DOMAIN v[t][u], v[s][q][i].id = v[t][u][j].id
          PROVE  (s = t /\ q = u /\ i = j) \/ Apart(s, q, t, u)
        <3>1. i \in DOMAIN w[s][q] /\ j \in DOMAIN w[t][u] /\ w[s][q][i].id = w[t][u][j].id
            BY <2>1, <2>3
        <3>2. QED
            BY <1>4, <3>1 DEF Outward
    <2>4. QED
        BY <2>2, <2>3 DEF Outward
<1>11. QED
    BY <1>7, <1>8, <1>9, <1>10 DEF Lossless, T, v, lid

\* Ids that are fresh, or that of m
Ordinary(ems, m, n) ==
    /\ ems \in Seq(Emissions) /\ Len(ems) <= n + 1 /\ n <= Len(ems)
    /\ \A k \in 1 .. n : ems[k].msg.id = 0
    /\ n < Len(ems) => ems[n + 1].msg = m

\* So no two have the same id.
LEMMA OneSender ==
    ASSUME NEW ems, NEW m, NEW n \in Nat, Ordinary(ems, m, n), m.id # 0, m.id \in UsedIds \/ n = 0,
           NEW E, Numbered(E, ems), NEW r
    PROVE  Distinct(Only(r, E))
<1>1. E \in Seq(Emissions) /\ Len(E) = Len(ems)
    BY DEF Numbered
<1>2. ASSUME NEW k \in 1 .. Len(E), NEW l \in 1 .. Len(E), E[k].msg.id = E[l].msg.id PROVE k = l
    <2>1. k \in 1 .. Len(ems) /\ l \in 1 .. Len(ems) /\ Len(ems) \in Nat
        BY <1>1 DEF Ordinary
    <2>2. CASE k <= n /\ l <= n
        <3>1. ems[k].msg.id = 0 /\ ems[l].msg.id = 0
            BY <2>1, <2>2 DEF Ordinary
        <3>2. QED
            BY <1>2, <2>1, <3>1 DEF Numbered
    <2>3. ASSUME NEW x \in 1 .. Len(ems), ~(x <= n) PROVE x = n + 1 /\ E[x].msg.id = m.id
        <3>1. x = n + 1 /\ n < Len(ems)
            BY <2>1, <2>3 DEF Ordinary
        <3>2. ems[x].msg = m
            BY <3>1 DEF Ordinary
        <3>3. QED
            BY <3>1, <3>2 DEF Numbered
    <2>4. ASSUME NEW x \in 1 .. Len(ems), x <= n PROVE E[x].msg.id # m.id
        <3>1. ems[x].msg.id = 0
            BY <2>1, <2>4 DEF Ordinary
        <3>2. E[x].msg.id \notin UsedIds
            BY <3>1 DEF Numbered
        <3>3. n # 0
            BY <2>1, <2>4
        <3>4. QED
            BY <3>2, <3>3
    <2>5. CASE ~(k <= n) /\ ~(l <= n)
        BY <2>1, <2>3, <2>5
    <2>6. CASE k <= n /\ ~(l <= n)
        BY <1>2, <2>1, <2>3, <2>4, <2>6
    <2>7. CASE ~(k <= n) /\ l <= n
        BY <1>2, <2>1, <2>3, <2>4, <2>7
    <2>8. QED
        BY <2>2, <2>5, <2>6, <2>7
<1>3. ASSUME NEW p \in Routers, NEW k \in 1 .. Len(Only(r, E)[p]) PROVE p = r /\ k \in 1 .. Len(E) /\ Only(r, E)[p] = E
    <2>1. CASE p = r
        BY <2>1 DEF Only
    <2>2. CASE p # r
        <3>1. Only(r, E)[p] = <<>>
            BY <2>2 DEF Only
        <3>2. QED
            BY <3>1
    <2>3. QED
        BY <2>1, <2>2
<1>4. QED
    BY <1>2, <1>3 DEF Distinct

\* switch_msg, and what comes of it when the message was sent in time
LEMMA SwitchLossless ==
    ASSUME Tree, Sound, Lossless, NEW r \in Routers, NEW c \in Conns(table[r]), NEW m \in Messages,
           Fine(c, r, m), Handles(r, c, m),
           NEW w \in Wires, Taken(w, r, c, m), Elsewhere(w, r, c, m),
           Switch(w, r, c, m), cuts' = cuts
    PROVE  Lossless'
<1> DEFINE p == Parsed(r, c, m)
           fwd == Forward(r, p.table, m)
           ems == p.ems \o fwd
           E == WithIds(ems)
           T == [table EXCEPT ![r] = p.table]
           lid == [lastId EXCEPT ![r] = m.id]
           to == IF m.dst = BROADCAST THEN Targets(p.table, m.src) ELSE Where(p.table, m.dst)
           n == Len(p.ems)
<1>1. ~IsKnown(r, m)
    BY NotRemembered
<1>2. /\ lastId' = lid
      /\ \/ Gone(r, w)
         \/ table' = T /\ wire' = Sent(table, w, r, E)
    BY <1>1 DEF Switch
<1>3. CASE Gone(r, w)
    BY <1>2, <1>3, GoneLossless
<1>4. CASE table' = T /\ wire' = Sent(table, w, r, E)
    <2>1. Shape /\ wire \in Wires /\ m.type # "NET_LOST" /\ m.id # 0
        BY DEF Sound, Shape, Handles
    <2>2. p.ems \in Seq(Emissions) /\ Conns(p.table) = Conns(table[r]) /\ Conns(p.table) \subseteq Node
          /\ (m.type = "NET_NEW" => m.d \in Root(p.table, c)) /\ Conns(p.table) \subseteq Neighbours(r) \ {r}
        BY ParsedFine DEF Leads, Neighbours
    <2>3. Unstamped(p.ems) /\ (m.type \in LocalTypes => p.ems = <<>>)
        BY <2>1, ParsedSays
    <2>4. \A k \in 1 .. Len(p.ems) : IsNews(p.table, c, p.ems[k]) \/ IsAnswer(c, p.ems[k])
        BY <2>1, ParsedSays
    <2>5. Heard(T, r, c, m) /\ T[r] = p.table
        <3>1. Heard(T, r, c, m)
            <4> HIDE DEF p
            <4>1. p = Parsed(r, c, m)
                BY DEF p
            <4> HIDE DEF T
            <4>2. T = [table EXCEPT ![r] = p.table]
                BY DEF T
            <4>3. QED
                BY <2>1, <4>1, <4>2, HeardParsed
        <3>2. T[r] = p.table
            BY <2>1 DEF Shape
        <3>3. QED
            BY <3>1, <3>2
    <2>6. /\ fwd \in Seq(Emissions)
          /\ IF m.dst \in {r, Null} THEN fwd = <<>> ELSE fwd = <<[msg |-> m, to |-> to]>>
        <3>1. fwd \in Seq(Emissions)
            <4> DEFINE tbl == p.table
            <4>1. /\ Conns(tbl) \subseteq Neighbours(r) \ {r} /\ c \in Conns(tbl)
                  /\ m.type = "NET_NEW" => m.d \in Root(tbl, c)
                BY <2>2
            <4> HIDE DEF tbl
            <4>2. Forward(r, tbl, m) \in Seq(Emissions)
                BY <4>1, ForwardFine
            <4>3. QED
                BY <4>2 DEF tbl
        <3>2. QED
            BY <3>1 DEF Forward
    <2>7. Len(fwd) <= 1 /\ Len(fwd) \in Nat /\ (Len(fwd) = 1 => fwd[1].msg = m /\ fwd[1].to = to /\ m.dst \notin {r, Null})
        <3>1. CASE m.dst \in {r, Null}
            <4>1. fwd = <<>>
                BY <2>6, <3>1
            <4> HIDE DEF fwd
            <4>2. QED
                BY <4>1
        <3>2. CASE m.dst \notin {r, Null}
            <4> DEFINE e == [msg |-> m, to |-> to]
            <4>1. fwd = <<e>> /\ e.msg = m /\ e.to = to
                BY <2>6, <3>2
            <4> HIDE DEF fwd, e, to
            <4>2. QED
                BY <3>2, <4>1
        <3>3. QED
            BY <3>1, <3>2
    <2> HIDE DEF p, fwd, to, T, lid
    <2>8. /\ ems \in Seq(Emissions) /\ Len(ems) = n + Len(fwd) /\ n \in Nat
          /\ (\A k \in 1 .. n : ems[k] = p.ems[k]) /\ (\A k \in 1 .. Len(fwd) : ems[n + k] = fwd[k])
        BY <2>2, <2>6
    <2> HIDE DEF ems, n
    <2>9. Ordinary(ems, m, n)
        <3>1. \A k \in 1 .. n : ems[k].msg.id = 0
            BY <2>3, <2>8 DEF Unstamped, n
        <3>2. ASSUME n < Len(ems) PROVE ems[n + 1].msg = m
            <4> DEFINE f == Len(fwd)
            <4>1. f \in Nat /\ f <= 1 /\ Len(ems) = n + f /\ n \in Nat
                BY <2>7, <2>8
            <4> HIDE DEF f
            <4>2. f = 1
                BY <3>2, <4>1
            <4>3. 1 \in 1 .. Len(fwd) /\ fwd[1].msg = m
                BY <2>7, <4>2 DEF f
            <4>4. ems[n + 1] = fwd[1]
                BY <2>8, <4>3
            <4>5. QED
                BY <4>3, <4>4
        <3>3. Len(ems) <= n + 1 /\ n <= Len(ems)
            BY <2>7, <2>8
        <3>4. QED
            BY <2>8, <3>1, <3>2, <3>3 DEF Ordinary
    <2>10. Numbered(E, ems) /\ E \in Seq(Emissions) /\ Len(E) = Len(ems)
        <3>1. Numbered(E, ems)
            BY <2>1, <2>8, WithIdsNumber
        <3>2. QED
            BY <3>1 DEF Numbered
    <2>11. m.id \in UsedIds \/ n = 0
        BY <2>3 DEF Handles, n
    <2> HIDE DEF E
    <2> DEFINE Es == Only(r, E)
    <2>12. Distinct(Es)
        BY <2>1, <2>8, <2>9, <2>10, <2>11, OneSender
    <2> DEFINE v == wire'
    <2>13. v \in Wires /\ Extends(T, w, v, Es)
        <3>1. \A q \in Routers : r \in Conns(T[q]) <=> r \in Conns(table[q])
            BY <2>5 DEF Heard
        <3>2. v = Sent(table, w, r, E)
            BY <1>4
        <3> HIDE DEF v, Es
        <3>3. QED
            BY <2>10, <3>1, <3>2, SentExtends DEF Es
    <2>14. AllToldOrAnnounced(T, w, Es)
        <3>1. Len(ems) >= Len(p.ems) /\ \A k \in 1 .. Len(p.ems) : ems[k] = p.ems[k]
            BY <2>8, <2>7 DEF n
        <3>2. p = Parsed(r, c, m) /\ T = [table EXCEPT ![r] = p.table]
            BY DEF p, T
        <3>3. QED
            BY <2>1, <2>5, <2>10, <3>1, <3>2, SwitchAllTold
    <2>15. OnlyTold(T, w)
        BY <2>5, ShiftedOnly
    <2>16. ToldBefore(T, w)
        BY <2>5, ShiftedBefore
    <2>17. Outward(w, lid)
        BY ShiftedOutward DEF lid
    <2>18. AllProper(T, w, lid, Es)
        <3>1. ASSUME NEW k \in 1 .. Len(E), NEW q \in E[k].to \cap Routers, r \in Conns(T[q])
              PROVE  Proper(T, w, lid, r, E[k], q)
            <4> DEFINE e == E[k]
            <4>1. k \in 1 .. Len(ems) /\ q \in Routers /\ q \in e.to
                BY <2>10, <3>1
            <4>2. CASE k <= n
                <5>1. k \in 1 .. n /\ ems[k] = p.ems[k] /\ ems[k].msg.id = 0
                    BY <2>8, <2>9, <4>1, <4>2 DEF Ordinary
                <5>2. /\ e.to = p.ems[k].to /\ e.msg.type = p.ems[k].msg.type /\ e.msg.dst = p.ems[k].msg.dst
                      /\ e.msg.d = p.ems[k].msg.d /\ e.msg.id \notin UsedIds \cup {0}
                    BY <2>10, <4>1, <5>1 DEF Numbered
                <5>3. IsNews(p.table, c, p.ems[k]) \/ IsAnswer(c, p.ems[k])
                    BY <2>4, <5>1 DEF n
                <5>4. m.id \in UsedIds
                    BY <2>8, <2>11, <5>1
                <5> HIDE DEF e
                <5>5. IsNews(T[r], c, e) \/ IsAnswer(c, e)
                    BY <2>5, <5>2, <5>3 DEF IsNews, IsAnswer
                <5>6. lid = [lastId EXCEPT ![r] = m.id]
                    BY DEF lid
                <5>7. Proper(T, w, lid, r, e, q)
                    BY <2>5, <4>1, <5>2, <5>4, <5>5, <5>6, SaidProper
                <5>8. QED
                    BY <5>7 DEF e
            <4>3. CASE ~(k <= n)
                <5>1. k = n + 1 /\ Len(fwd) = 1 /\ n < Len(ems)
                    <6> DEFINE f == Len(fwd)
                    <6>1. f \in Nat /\ f <= 1 /\ Len(ems) = n + f /\ n \in Nat
                        BY <2>7, <2>8
                    <6>2. k \in 1 .. Len(ems) /\ ~(k <= n)
                        BY <4>1, <4>3
                    <6> HIDE DEF f
                    <6>3. k = n + 1 /\ f = 1 /\ n < Len(ems)
                        BY <6>1, <6>2
                    <6>4. QED
                        BY <6>3 DEF f
                <5>2. ems[k] = fwd[1] /\ fwd[1].msg = m /\ fwd[1].to = to /\ m.dst \notin {r, Null}
                    BY <2>7, <2>8, <5>1
                <5>3. e.to = to /\ e.msg.type = m.type /\ e.msg.dst = m.dst
                      /\ e.msg.d = m.d /\ e.msg.id = m.id /\ e.msg.src = m.src /\ e.msg \in Messages
                    <6>1. e \in Emissions
                        BY <2>10
                    <6>2. QED
                        BY <2>1, <2>10, <4>1, <5>2, <6>1 DEF Numbered, Emissions
                <5> HIDE DEF e
                <5>4. e.msg = m
                    BY <5>3 DEF Messages
                <5>5. lid = [lastId EXCEPT ![r] = m.id]
                    BY DEF lid
                <5>6. q \in IF m.dst = BROADCAST THEN Targets(T[r], m.src) ELSE Where(T[r], m.dst)
                    BY <2>5, <4>1, <5>3 DEF to
                <5>7. Proper(T, w, lid, r, e, q)
                    BY <2>5, <3>1, <4>1, <5>2, <5>4, <5>5, <5>6, ForwardProper
                <5>8. QED
                    BY <5>7 DEF e
            <4>4. QED
                BY <4>2, <4>3
        <3>2. ASSUME NEW s \in Routers, NEW k \in 1 .. Len(Es[s]) PROVE s = r /\ k \in 1 .. Len(E) /\ Es[s][k] = E[k]
            <4>1. CASE s = r
                BY <4>1 DEF Only
            <4>2. CASE s # r
                <5>1. Es[s] = <<>>
                    BY <4>2 DEF Only
                <5>2. QED
                    BY <5>1
            <4>3. QED
                BY <4>1, <4>2
        <3> HIDE DEF Es
        <3>3. QED
            BY <3>1, <3>2 DEF AllProper
    <2> HIDE DEF v, Es
    <2>19. AllTold(T, v) /\ OnlyTold(T, v) /\ ToldBefore(T, v) /\ Outward(v, lid)
        BY <2>12, <2>13, <2>14, <2>15, <2>16, <2>17, <2>18, LosslessStep
    <2>20. QED
        BY <1>2, <1>4, <2>19 DEF Lossless, v
<1>5. QED
    BY <1>2, <1>3, <1>4

\* r can handle m from c, and does, when w is what is left on the links.
Ready(w, r, c, m) ==
    /\ c \in Conns(table[r]) /\ m \in Messages /\ w \in Wires
    /\ Fine(c, r, m) /\ Handles(r, c, m) /\ Taken(w, r, c, m) /\ Elsewhere(w, r, c, m)
    /\ Switch(w, r, c, m)

\* Receive: the head of a queue was sent in time.
LEMMA ReceiveReady ==
    ASSUME Tree, Sound, Lossless, NEW r \in Routers, NEW s \in Routers, Receive(r, s)
    PROVE  \E w, m : Ready(w, r, s, m)
<1> DEFINE q == wire[s][r]
           m == Head(q)
           w == [wire EXCEPT ![s][r] = Tail(@)]
<1>1. /\ s \in Conns(table[r]) /\ q # <<>> /\ Switch(w, r, s, m)
    BY DEF Receive
<1>2. wire \in Wires /\ AllFine(wire) /\ s # r
    <2>1. s # r
        BY <1>1, AllLead
    <2>2. QED
        BY <2>1 DEF Sound, Shape, FromBehind
<1>3. w \in Wires /\ m \in Messages /\ Fine(s, r, m)
    <2>1. w = [wire EXCEPT ![s][r] = Tail(@)] /\ wire[s][r] # <<>>
        BY <1>1
    <2> HIDE DEF w, m, q
    <2>2. w \in Wires /\ Head(wire[s][r]) \in Messages /\ Fine(s, r, Head(wire[s][r]))
        BY <1>2, <2>1, Dequeued
    <2>3. QED
        BY <2>2 DEF m, q
<1>4. q \in Seq(Messages)
    BY <1>2 DEF Wires
<1>5. w[s][r] = Tail(q) /\ \A t, u \in Routers : ~(t = s /\ u = r) => w[t][u] = wire[t][u]
    <2> DEFINE row == [wire[s] EXCEPT ![r] = Tail(@)]
    <2>1. row[r] = Tail(q) /\ \A u \in Routers : u # r => row[u] = wire[s][u]
        BY <1>2 DEF Wires
    <2>2. w = [wire EXCEPT ![s] = row]
        OBVIOUS
    <2> HIDE DEF row, w, q
    <2>3. w[s] = row /\ \A t \in Routers : t # s => w[t] = wire[t]
        BY <1>2, <2>2 DEF Wires
    <2>4. QED
        BY <2>1, <2>3
<1> HIDE DEF w
<1>6. Len(q) = Len(Tail(q)) + 1 /\ q[1] = m /\ (\A i \in 1 .. Len(Tail(q)) : q[i + 1] = Tail(q)[i]) /\ 1 \in DOMAIN q
    <2> DEFINE b == Tail(q)
    <2> HIDE DEF q
    <2>1. Len(q) \in Nat /\ Len(q) # 0 /\ m = q[1]
        BY <1>1, <1>4 DEF q
    <2>2. Len(b) = Len(q) - 1 /\ \A i \in 1 .. Len(b) : b[i] = q[i + 1]
        BY <1>1, <1>4 DEF q
    <2>3. 1 \in DOMAIN q
        BY <1>4, <2>1
    <2>4. QED
        BY <2>1, <2>2, <2>3
<1>7. Taken(w, r, s, m)
    <2> SUFFICES ASSUME NEW t \in Routers, NEW u \in Routers
                 PROVE  IF t = s /\ u = r
                        THEN /\ Len(wire[t][u]) = Len(w[t][u]) + 1 /\ wire[t][u][1] = m
                             /\ \A i \in 1 .. Len(w[t][u]) : wire[t][u][i + 1] = w[t][u][i]
                        ELSE w[t][u] = wire[t][u]
        BY DEF Taken
    <2>1. CASE t = s /\ u = r
        <3> HIDE DEF m
        <3>1. QED
            BY <1>5, <1>6, <2>1
    <2>2. CASE ~(t = s /\ u = r)
        BY <1>5, <2>2
    <2>3. QED
        BY <2>1, <2>2
<1>8. /\ Due(table, wire, s, r, q[1], 1 - 1) /\ Unseen(lastId, s, r, q[1].id)
      /\ \A t, u \in Routers : \A j \in DOMAIN wire[t][u] :
            wire[t][u][j].id = q[1].id => (s = t /\ r = u /\ 1 = j) \/ Apart(s, r, t, u)
    BY <1>6 DEF Lossless, ToldBefore, Outward
<1>9. m.id \in UsedIds
    <2>1. m.id \in Ids(wire[s][r])
        BY <1>6 DEF Ids
    <2>2. QED
        BY <2>1 DEF UsedIds
<1> HIDE DEF m
<1>10. Elsewhere(w, r, s, m)
    <2>1. ASSUME NEW z \in Routers, lastId[z] = m.id PROVE z \notin Beyond[s][r]
        BY <1>6, <1>8, <2>1 DEF Unseen
    <2>2. ASSUME NEW t \in Routers, NEW u \in Routers, NEW i \in DOMAIN w[t][u], w[t][u][i].id = m.id
          PROVE  Apart(t, u, s, r)
        <3> DEFINE k == IF t = s /\ u = r THEN i + 1 ELSE i
        <3>1. k \in DOMAIN wire[t][u] /\ wire[t][u][k] = w[t][u][i]
            BY <1>2, <1>3, <1>7, WasThere
        <3>2. ~(s = t /\ r = u /\ 1 = k)
            <4>1. CASE t = s /\ u = r
                <5>1. w[t][u] \in Seq(Messages)
                    BY <1>3 DEF Wires
                <5>2. i \in 1 .. Len(w[t][u]) /\ Len(w[t][u]) \in Nat
                    BY <5>1
                <5>3. k = i + 1 /\ i \in Nat /\ i # 0
                    BY <4>1, <5>2
                <5>4. QED
                    BY <5>3
            <4>2. CASE ~(t = s /\ u = r)
                BY <4>2
            <4>3. QED
                BY <4>1, <4>2
        <3> HIDE DEF k
        <3>3. wire[t][u][k].id = q[1].id
            BY <1>6, <2>2, <3>1
        <3>4. Apart(s, r, t, u)
            BY <1>8, <3>1, <3>2, <3>3
        <3>5. QED
            BY <3>4 DEF Apart
    <2>3. QED
        BY <2>1, <2>2 DEF Elsewhere
<1>11. Handles(r, s, m)
    <2>1. m.id # 0
        BY <1>6, <1>8 DEF Unseen
    <2>2. ASSUME m.dst = BROADCAST, m.type # "NET_NEW" PROVE m.src \in Root(table[r], s)
        BY <1>6, <1>8, <2>2 DEF Due, Told, Root
    <2>3. QED
        BY <1>6, <1>8, <1>9, <2>1, <2>2 DEF Handles, Due
<1>12. Ready(w, r, s, m)
    BY <1>1, <1>3, <1>7, <1>10, <1>11 DEF Ready
<1>13. QED
    BY <1>12

\* What a user does is the router's to pass on.
LEMMA FromLocalReady ==
    ASSUME Tree, Sound, Lossless, NEW l \in Nets, NEW type \in LocalTypes,
           NEW dst \in Node \cup {Null, BROADCAST}, FromLocal(l, type, dst)
    PROVE  \E m : Ready(wire, Home[l], l, m) /\ m.type = type /\ m.src = l /\ m.dst = dst /\ m.d = l
<1> DEFINE r == Home[l]
           m == Head(WithIds(<<[msg |-> Message(type, l, dst, l), to |-> {}]>>)).msg
<1>1. l \in Conns(table[r]) /\ Switch(wire, r, l, m)
    BY DEF FromLocal
<1>2. r \in Routers /\ l \notin Routers /\ Shape /\ wire \in Wires
    BY RouterNetAssumption DEF Sound, Shape
<1>3. /\ m \in Messages /\ m.type = type /\ m.src = l /\ m.dst = dst /\ m.d = l
      /\ m.id \notin UsedIds \cup {0}
    BY <1>2, LocalMessage
<1> DEFINE id == m.id
<1>4. /\ \A z \in Routers : lastId[z] # id
      /\ \A t, u \in Routers : \A j \in DOMAIN wire[t][u] : wire[t][u][j].id # id
    <2>1. id \notin UsedIds \cup {0}
        BY <1>3
    <2> HIDE DEF id
    <2>2. \A t, u \in Routers : \A j \in DOMAIN wire[t][u] : wire[t][u][j].id # id
        BY <2>1, FreshUnseen
    <2>3. \A z \in Routers : lastId[z] \in UsedIds
        BY DEF UsedIds
    <2>4. QED
        BY <2>1, <2>2, <2>3
<1> HIDE DEF m, r
<1>5. Elsewhere(wire, r, l, m)
    BY <1>4 DEF Elsewhere
<1>6. Taken(wire, r, l, m)
    BY <1>2 DEF Taken
<1>7. Handles(r, l, m)
    BY <1>3 DEF Handles, Root, LocalTypes
<1>8. Fine(l, r, m)
    BY <1>3 DEF Fine, LocalTypes, Node
<1>9. Ready(wire, r, l, m)
    BY <1>1, <1>2, <1>3, <1>5, <1>6, <1>7, <1>8 DEF Ready
<1>10. QED
    BY <1>3, <1>9 DEF r

\* Either way, nothing is lost.
LEMMA ReadyLossless ==
    ASSUME Tree, Sound, Lossless, NEW r \in Routers, NEW c, NEW w, NEW m, Ready(w, r, c, m), cuts' = cuts
    PROVE  Lossless'
BY SwitchLossless DEF Ready

\* A message that is received ...
LEMMA ReceiveLossless ==
    ASSUME Tree, Sound, Lossless, NEW r \in Routers, NEW s \in Routers, Receive(r, s)
    PROVE  Lossless'
<1>1. PICK w, m : Ready(w, r, s, m)
    BY ReceiveReady
<1>2. QED
    BY <1>1, ReadyLossless DEF Receive

\* ... or comes from a local net
LEMMA FromLocalLossless ==
    ASSUME Tree, Sound, Lossless, NEW l \in Nets, NEW type \in LocalTypes,
           NEW dst \in Node \cup {Null, BROADCAST}, FromLocal(l, type, dst)
    PROVE  Lossless'
<1>1. PICK m : Ready(wire, Home[l], l, m)
    BY FromLocalReady
<1>2. Home[l] \in Routers /\ cuts' = cuts
    BY RouterNetAssumption DEF FromLocal
<1>3. QED
    BY <1>1, <1>2, ReadyLossless

\* The users' acts
LEMMA UserLossless ==
    ASSUME Tree, Sound, Lossless, NEW l \in Nets, SignOn(l) \/ SignOff(l) \/ Speak(l)
    PROVE  Lossless'
<1>1. CASE SignOn(l)
    <2>1. FromLocal(l, "USER_NEW", BROADCAST)
        BY <1>1 DEF SignOn
    <2>2. QED
        BY <2>1, FromLocalLossless DEF LocalTypes
<1>2. CASE SignOff(l)
    <2>1. FromLocal(l, "USER_LOST", BROADCAST)
        BY <1>2 DEF SignOff
    <2>2. QED
        BY <2>1, FromLocalLossless DEF LocalTypes
<1>3. CASE \E type \in {"MODE", "TEXT"} : FromLocal(l, type, BROADCAST)
    <2>1. PICK type \in {"MODE", "TEXT"} : FromLocal(l, type, BROADCAST)
        BY <1>3
    <2>2. type \in LocalTypes
        BY DEF LocalTypes
    <2>3. QED
        BY <2>1, <2>2, FromLocalLossless
<1>4. CASE \E u \in known[Home[l]] \ {l} :
             (Considerate => u \in known[Home[u]]) /\ FromLocal(l, "PRIVATE", u)
    <2>1. PICK u \in known[Home[l]] \ {l} : FromLocal(l, "PRIVATE", u)
        BY <1>4
    <2>2. u \in Node
        BY RouterNetAssumption DEF Sound, Shape, Node
    <2>3. "PRIVATE" \in LocalTypes
        BY DEF LocalTypes
    <2>4. QED
        BY <2>1, <2>2, <2>3, FromLocalLossless
<1>5. QED
    BY <1>1, <1>2, <1>3, <1>4 DEF Speak

\* What leaves tables, queues and caches alone
LEMMA StillLossless ==
    ASSUME Lossless, table' = table, wire' = wire, lastId' = lastId, cuts' = cuts
    PROVE  Lossless'
BY DEF Lossless

\* There is no link yet.
LEMMA LosslessInit ==
    ASSUME Init
    PROVE  Lossless
<1>1. /\ cuts = 0 /\ \A s, r \in Routers : wire[s][r] = <<>>
      /\ \A r \in Routers : table[r] = <<>>
    BY DEF Init
<1>2. \A r \in Routers : Conns(table[r]) = {}
    BY <1>1 DEF Conns
<1>3. AllTold(table, wire) /\ OnlyTold(table, wire)
    BY <1>2 DEF AllTold, OnlyTold, Link
<1>4. \A s, r \in Routers : DOMAIN wire[s][r] = {}
    BY <1>1
<1>5. ToldBefore(table, wire)
    BY <1>4 DEF ToldBefore
<1>6. Outward(wire, lastId)
    BY <1>4 DEF Outward
<1>7. QED
    BY <1>1, <1>3, <1>5, <1>6 DEF Lossless

\* Without cuts, nothing is lost.
LEMMA LosslessNext ==
    ASSUME Tree, MaxCuts = 0, Sound, Lossless, [Next]_vars
    PROVE  Lossless'
<1>1. CASE UNCHANGED vars
    BY <1>1, StillLossless DEF vars
<1>2. ASSUME NEW r \in Routers, Start(r) PROVE Lossless'
    <2>1. CASE Boot(r)
        BY <2>1, StillLossless DEF Boot
    <2>2. CASE \E l \in Nets : AttachLocal(r, l)
        BY <2>2, AttachLocalLossless
    <2>3. CASE \E s \in Routers : LinkUp(r, s)
        BY <2>3, LinkUpLossless
    <2>4. CASE \E s \in Routers : LinkFails(r, s)
        BY <2>4, StillLossless DEF LinkFails
    <2>5. CASE GoUp(r)
        BY <2>5, StillLossless DEF GoUp
    <2>6. QED
        BY <1>2, <2>1, <2>2, <2>3, <2>4, <2>5 DEF Start
<1>3. ASSUME NEW r \in Routers, Serve(r) PROVE Lossless'
    BY <1>3, ReceiveLossless DEF Serve
<1>4. ASSUME NEW r \in Routers, NEW s \in Routers, Cut(r, s) PROVE FALSE
    BY <1>4 DEF Cut, Lossless
<1>5. QED
    BY <1>1, <1>2, <1>3, <1>4, UserLossless DEF Next

\* What is unread was sent by the source, or came through a net the reader has
\* or will have behind the same link.
LEMMA MovesAwayHolds ==
    ASSUME Sound, Lossless
    PROVE  MovesAway
<1> SUFFICES ASSUME NEW s \in Routers, NEW r \in Routers, NEW i \in DOMAIN wire[s][r],
                    wire[s][r][i].dst = BROADCAST
             PROVE  wire[s][r][i].src \in Beyond[r][s]
    BY DEF MovesAway
<1> DEFINE m == wire[s][r][i]
<1>1. \A j \in DOMAIN wire[s][r] : wire[s][r][j].type = "NET_NEW" =>
          wire[s][r][j].src = wire[s][r][j].d /\ wire[s][r][j].d \in Beyond[r][s]
    BY DEF Sound, FromBehind, AllFine, Fine
<1>2. Due(table, wire, s, r, m, i - 1)
    BY DEF Lossless, ToldBefore
<1>3. CASE m.type = "NET_NEW"
    BY <1>1, <1>3
<1>4. CASE m.type # "NET_NEW"
    <2>1. Told(table, wire, r, s, m.src, i - 1)
        BY <1>2, <1>4 DEF Due
    <2>2. CASE m.src \in BranchesOf(table[r], s)
        <3>1. s \in Conns(table[r])
            <4>1. wire[s][r] # <<>>
                OBVIOUS
            <4>2. QED
                BY <4>1 DEF Sound, OnLinks
        <3>2. table[r][s] \in Seq(Beyond[r][s] \ {s})
            BY <3>1 DEF Sound, RightWay
        <3>3. QED
            BY <2>2, <3>2 DEF BranchesOf, ToSet
    <2>3. CASE \E j \in 1 .. i - 1 : wire[s][r][j].type = "NET_NEW" /\ wire[s][r][j].d = m.src
        <3>1. wire[s][r] \in Seq(Messages)
            BY DEF Sound, Shape, Wires
        <3>2. \A j \in 1 .. i - 1 : j \in DOMAIN wire[s][r]
            BY <3>1
        <3>3. QED
            BY <1>1, <2>3, <3>2
    <2>4. QED
        BY <2>1, <2>2, <2>3 DEF Told
<1>5. QED
    BY <1>3, <1>4

\* What r knows of, itself included
Knows(r) == {r} \cup AllNets(table[r])

\* When all is read, the ends of a link know the same.
LEMMA SameKnown ==
    ASSUME Sound, Lossless, Quiet, NEW s \in Routers, NEW q \in Routers, Link(table, s, q)
    PROVE  Knows(s) \subseteq Knows(q)
<1>1. s \in Conns(table[q]) /\ q \in Conns(table[s])
    BY DEF Link
<1>2. s \in AllNets(table[q])
    BY <1>1 DEF AllNets, Root
<1>3. ASSUME NEW n \in AllNets(table[s]) PROVE n \in Knows(q)
    <2>1. PICK c \in Conns(table[s]) : n \in Root(table[s], c)
        BY DEF AllNets
    <2>2. CASE c = q
        <3>1. BranchesOf(table[s], q) \subseteq AllNets(table[q])
            <4>1. Link(table, q, s)
                BY DEF Link
            <4>2. QED
                BY <4>1 DEF Lossless, OnlyTold
        <3>2. QED
            BY <2>1, <2>2, <3>1 DEF Root, Knows
    <2>3. CASE c # q
        <3>1. Told(table, wire, q, s, n, Len(wire[s][q]))
            BY <2>1, <2>3 DEF Lossless, AllTold
        <3>2. wire[s][q] = <<>>
            BY DEF Quiet
        <3>3. Len(wire[s][q]) = 0
            BY <3>2
        <3>4. n \in BranchesOf(table[q], s)
            BY <3>1, <3>3 DEF Told
        <3>5. QED
            BY <1>1, <3>4 DEF Knows, AllNets, Root
    <2>4. QED
        BY <2>2, <2>3
<1>4. QED
    BY <1>2, <1>3 DEF Knows

\* So whatever is reached over links is known.
LEMMA CompleteHolds ==
    ASSUME Sound, Lossless
    PROVE  RoutesComplete
<1> SUFFICES ASSUME Quiet, NEW r \in Routers, NEW n \in Reachable(r) PROVE n \in AllNets(table[r])
    BY DEF RoutesComplete
<1> DEFINE S == {z \in Routers : Knows(z) = Knows(r)}
                \cup {l \in Nets : Knows(Home[l]) = Knows(r) /\ l \in Conns(table[Home[l]])}
<1>1. \A l \in Nets : Home[l] \in Routers /\ l \notin Routers
    BY RouterNetAssumption
<1>2. ASSUME NEW x \in Nets, NEW y \in Routers, x \in Conns(table[y]) PROVE y = Home[x]
    <2>1. Adjacent(y, x)
        BY <1>2, AllLead
    <2>2. QED
        BY <1>1, <2>1, RouterNetAssumption DEF Adjacent
<1>3. ASSUME NEW x \in S, NEW y \in Node, Linked(x, y) PROVE y \in S
    <2>1. CASE x \in Routers /\ y \in Routers /\ y \in Conns(table[x]) /\ x \in Conns(table[y])
        <3>1. Knows(x) \subseteq Knows(y)
            BY <2>1, SameKnown DEF Link
        <3>2. Knows(y) \subseteq Knows(x)
            BY <2>1, SameKnown DEF Link
        <3>3. Knows(x) = Knows(r)
            BY <1>1, <2>1
        <3>4. QED
            BY <2>1, <3>1, <3>2, <3>3
    <2>2. CASE x \in Routers /\ y \in Nets /\ y \in Conns(table[x])
        <3>1. x = Home[y] /\ Knows(x) = Knows(r)
            BY <1>1, <1>2, <2>2
        <3>2. QED
            BY <2>2, <3>1
    <2>3. CASE y \in Routers /\ x \in Nets /\ x \in Conns(table[y])
        <3>1. y = Home[x] /\ Knows(Home[x]) = Knows(r)
            BY <1>1, <1>2, <2>3
        <3>2. QED
            BY <2>3, <3>1
    <2>4. QED
        BY <1>3, <2>1, <2>2, <2>3 DEF Linked
<1>4. S \in SUBSET Node /\ r \in S
    BY DEF Node
<1>5. ASSUME NEW x \in S PROVE x \in Knows(r)
    <2>1. CASE x \in Routers
        BY <1>1, <2>1 DEF Knows
    <2>2. CASE x \notin Routers
        <3>1. x \in Nets /\ Knows(Home[x]) = Knows(r) /\ x \in Conns(table[Home[x]])
            BY <2>2
        <3>2. x \in AllNets(table[Home[x]])
            BY <3>1 DEF AllNets, Root
        <3>3. QED
            BY <3>1, <3>2 DEF Knows
    <2>3. QED
        BY <2>1, <2>2
<1> HIDE DEF S
<1>6. n \in S /\ n # r
    <2>1. Reachable(r) = {x \in Node : \A T \in SUBSET (Node \ {}) :
              (/\ {r} \subseteq T
               /\ \A y \in T, z \in Node \ {} : Linked(y, z) => z \in T) => x \in T} \ {r}
        BY DEF Reachable, Closure
    <2>2. S \in SUBSET (Node \ {}) /\ {r} \subseteq S /\ \A y \in S, z \in Node \ {} : Linked(y, z) => z \in S
        BY <1>3, <1>4
    <2>3. QED
        BY <2>1, <2>2
<1>7. QED
    BY <1>5, <1>6 DEF Knows

\* As long as no link is lost and no router dies of a signal, what routers send
\* on moves away from where it comes from (do_near_broadcast), ...
THEOREM BroadcastsMoveAway ==
    ASSUME Tree, MaxCuts = 0
    PROVE  Spec => []MovesAway
<1> DEFINE Inv == Sound /\ Lossless
<1>1. Init => Inv
    BY SoundInit, LosslessInit
<1>2. Inv /\ [Next]_vars => Inv'
    BY SoundNext, LosslessNext
<1>3. Inv => MovesAway
    BY MovesAwayHolds
<1>4. QED
    BY <1>1, <1>2, <1>3, PTL DEF Spec

\* ... and when all is read, every router has a route to all it is linked to,
\* in whatever order routers and nets came up (exchange_routetbl, switch_msg).
THEOREM RoutesGetComplete ==
    ASSUME Tree, MaxCuts = 0
    PROVE  Spec => []RoutesComplete
<1> DEFINE Inv == Sound /\ Lossless
<1>1. Init => Inv
    BY SoundInit, LosslessInit
<1>2. Inv /\ [Next]_vars => Inv'
    BY SoundNext, LosslessNext
<1>3. Inv => RoutesComplete
    BY CompleteHolds
<1>4. QED
    BY <1>1, <1>2, <1>3, PTL DEF Spec

-----------------------------------------------------------------------------
(***************************************************************************)
(* What is said of users, and to whom.                                     *)
(***************************************************************************)

\* Where r sends m itself
Dest(r, tbl, m) ==
    IF m.dst \in {r, Null} THEN {}
    ELSE IF m.dst = BROADCAST THEN Targets(tbl, m.src) ELSE Where(tbl, m.dst)

\* What a message says of the user of l
IsNew(m, l) == m.type = "USER_NEW" /\ m.d = l
IsLost(m, l) == m.type = "USER_LOST" /\ m.d = l

\* r's reply to c on the user of d
IsReply(r, c, m, d) == m.type = "USER_NEW" /\ m.src = r /\ m.dst = c /\ m.d = d

\* What r may send to q when it handles m from c: news of a net, m itself, and its
\* users, if m asks for them
Sayable(r, c, m, q, K, x) ==
    \/ x.type = "NET_NEW"
    \/ x = m
    \/ m.type = "ENUM_REQUEST" /\ q = c /\ \E d \in K : IsReply(r, c, x, d)

\* The queue b to q is the queue a, and what r has to say of m.
Answered(r, c, m, q, to, K, a, b) ==
    /\ Len(a) <= Len(b) /\ \A i \in 1 .. Len(a) : b[i] = a[i]
    /\ \A i \in Len(a) + 1 .. Len(b) : Sayable(r, c, m, q, K, b[i]) /\ (b[i] = m => q \in to)
    /\ q \in to => \E i \in Len(a) + 1 .. Len(b) : b[i] = m
    /\ m.type = "ENUM_REQUEST" /\ q = c =>
           \A d \in K : \E i \in Len(a) + 1 .. Len(b) : IsReply(r, c, b[i], d)

\* What switch_msg does but for a failed assertion
Served(w, r, c, m) ==
    /\ phase' = phase
    /\ Heard(table', r, c, m)
    /\ \A q \in Routers : q # r => known'[q] = known[q]
    /\ \A l : l \in known'[r] <=> IsNew(m, l) \/ (l \in known[r] /\ ~IsLost(m, l))
    /\ ~AssertionFails(known'[r], m, Dest(r, table'[r], m))
    /\ \A s, q \in Routers : s # r \/ r \notin Conns(table'[q]) => wire'[s][q] = w[s][q]
    /\ \A q \in Routers : r \in Conns(table'[q]) =>
           Answered(r, c, m, q, Dest(r, table'[r], m), known[r], w[r][q], wire'[r][q])

\* The process is gone.
Failed(w, r, c, m) ==
    /\ Gone(r, w)
    /\ \E K, T : /\ \A l : l \in K <=> IsNew(m, l) \/ (l \in known[r] /\ ~IsLost(m, l))
                 /\ Heard(T, r, c, m)
                 /\ AssertionFails(K, m, Dest(r, T[r], m))

\* The users after a message
LEMMA UsersParsed ==
    ASSUME NEW r, NEW c, NEW m \in Messages, m.type # "NET_LOST", NEW p, p = Parsed(r, c, m)
    PROVE  \A l : l \in p.known <=> IsNew(m, l) \/ (l \in known[r] /\ ~IsLost(m, l))
<1>1. m.type \in Types
    BY DEF Messages
<1>2. CASE m.type = "USER_NEW"
    <2>1. p.known = known[r] \cup {m.d}
        BY <1>2 DEF Parsed
    <2>2. QED
        BY <1>2, <2>1 DEF IsNew, IsLost
<1>3. CASE m.type = "USER_LOST"
    <2>1. p.known = known[r] \ {m.d}
        BY <1>3 DEF Parsed
    <2>2. QED
        BY <1>3, <2>1 DEF IsNew, IsLost
<1>4. CASE m.type \notin {"USER_NEW", "USER_LOST"}
    <2>1. p.known = known[r]
        BY <1>1, <1>4 DEF Parsed, Types
    <2>2. QED
        BY <1>4, <2>1 DEF IsNew, IsLost
<1>5. QED
    BY <1>2, <1>3, <1>4

\* One emission for each user, to c
Replies(r, c, ems) ==
    /\ \A k \in 1 .. Len(ems) : ems[k].to = {c} /\ \E d \in known[r] : IsReply(r, c, ems[k].msg, d)
    /\ \A d \in known[r] : \E k \in 1 .. Len(ems) : IsReply(r, c, ems[k].msg, d)

\* parse_msg: a request is replied to with all users.
LEMMA RequestParsed ==
    ASSUME Shape, NEW r \in Routers, NEW c \in Conns(table[r]),
           NEW m, m.type = "ENUM_REQUEST", NEW p, p = Parsed(r, c, m)
    PROVE  Replies(r, c, p.ems)
<1> DEFINE users == SetToSeq(known[r])
           e(u) == [msg |-> Message("USER_NEW", r, c, u), to |-> Where(table[r], c)]
           E == [i \in DOMAIN users |-> e(users[i])]
<1>1. p.ems = E
    BY DEF Parsed
<1>2. users \in Seq(known[r]) /\ ToSet(users) = known[r]
    <2>1. IsFiniteSet(known[r])
        <3>1. known[r] \subseteq Nets
            BY DEF Shape
        <3>2. QED
            BY <3>1, RouterNetAssumption, FS_Subset
    <2>2. QED
        BY <2>1, Enumerated
<1> HIDE DEF users
<1>3. \A u : e(u).to = {c} /\ IsReply(r, c, e(u).msg, u)
    BY DEF IsReply, Where, Message
<1> HIDE DEF e
<1>4. /\ Len(E) = Len(users) /\ Len(users) \in Nat
      /\ \A k \in 1 .. Len(users) : E[k] = e(users[k]) /\ users[k] \in known[r]
      /\ \A d \in known[r] : \E k \in 1 .. Len(users) : users[k] = d
    BY <1>2 DEF ToSet
<1> HIDE DEF E
<1>5. QED
    BY <1>1, <1>3, <1>4 DEF Replies

\* What the emissions E to q are
Emits(r, c, m, q, to, K, E) ==
    /\ E \in Seq(Emissions)
    /\ \A k \in 1 .. Len(E) : q \in E[k].to =>
          Sayable(r, c, m, q, K, E[k].msg) /\ (E[k].msg = m => q \in to)
    /\ q \in to => \E k \in 1 .. Len(E) : q \in E[k].to /\ E[k].msg = m
    /\ m.type = "ENUM_REQUEST" /\ q = c =>
          \A d \in K : \E k \in 1 .. Len(E) : q \in E[k].to /\ IsReply(r, c, E[k].msg, d)

\* What Switch sends: what it says of the message, then the message.
LEMMA SwitchEmits ==
    ASSUME Tree, Sound, NEW r \in Routers, NEW c \in Conns(table[r]), NEW m \in Messages,
           Fine(c, r, m), Handles(r, c, m), NEW p, p = Parsed(r, c, m), NEW E,
           E = WithIds(p.ems \o Forward(r, p.table, m)), NEW q
    PROVE  Emits(r, c, m, q, Dest(r, p.table, m), known[r], E)
<1> DEFINE fwd == Forward(r, p.table, m)
           ems == p.ems \o fwd
           n == Len(p.ems)
           to == Dest(r, p.table, m)
<1>1. Shape /\ m.type # "NET_LOST" /\ m.id # 0
    BY DEF Sound, Handles
<1>2. /\ p.ems \in Seq(Emissions) /\ Conns(p.table) \subseteq Neighbours(r) \ {r}
      /\ c \in Conns(p.table) /\ (m.type = "NET_NEW" => m.d \in Root(p.table, c))
    BY ParsedFine DEF Leads
<1>3. Unstamped(p.ems) /\ (m.type \in LocalTypes => p.ems = <<>>)
    BY <1>1, ParsedSays
<1>4. \A k \in 1 .. n : IsNews(p.table, c, p.ems[k]) \/ IsAnswer(c, p.ems[k])
    BY <1>1, ParsedSays
<1>5. m.type # "ENUM_REQUEST" => \A k \in 1 .. n : p.ems[k].msg.type = "NET_NEW"
    <2>1. CASE m.type = "NET_NEW"
        <3> DEFINE B == Beyond[r][c] \ {c}
        <3>1. table[r][c] \in Seq(B) /\ m.d \in B
            BY <2>1, AllLead DEF Fine, Leads
        <3> HIDE DEF B
        <3>2. Learnt(table[r], p.table, c, m.d, p.ems)
            BY <2>1, <3>1, NewsParsed
        <3> DEFINE e == [msg |-> Message("NET_NEW", m.d, BROADCAST, m.d), to |-> Targets(p.table, m.d)]
        <3>3. p.ems = <<>> \/ p.ems = <<e>>
            BY <3>2 DEF Learnt, RouteChange
        <3>4. e.msg.type = "NET_NEW"
            BY DEF Message
        <3> HIDE DEF e
        <3>5. QED
            BY <3>3, <3>4
    <2>2. CASE m.type \in LocalTypes
        BY <1>3, <2>2
    <2>3. m.type \in Types
        BY DEF Messages
    <2>4. QED
        BY <1>1, <2>1, <2>2, <2>3 DEF Types, LocalTypes
<1>6. fwd \in Seq(Emissions)
    <2> DEFINE tbl == p.table
    <2>1. /\ Conns(tbl) \subseteq Neighbours(r) \ {r} /\ c \in Conns(tbl)
          /\ m.type = "NET_NEW" => m.d \in Root(tbl, c)
        BY <1>2
    <2> HIDE DEF tbl
    <2>2. Forward(r, tbl, m) \in Seq(Emissions)
        BY <2>1, ForwardFine
    <2>3. QED
        BY <2>2 DEF tbl
<1>7. IF m.dst \in {r, Null} THEN fwd = <<>> /\ to = {} ELSE fwd = <<[msg |-> m, to |-> to]>>
    BY DEF Forward, Dest
<1> HIDE DEF to, fwd
<1>8. /\ Len(fwd) \in Nat /\ Len(fwd) <= 1
      /\ Len(fwd) = 1 => fwd[1].msg = m /\ fwd[1].to = to
      /\ Len(fwd) # 1 => to = {}
    <2>1. CASE m.dst \in {r, Null}
        BY <1>7, <2>1
    <2>2. CASE m.dst \notin {r, Null}
        <3> DEFINE e == [msg |-> m, to |-> to]
        <3>1. fwd = <<e>> /\ e.msg = m /\ e.to = to
            BY <1>7, <2>2
        <3> HIDE DEF e
        <3>2. QED
            BY <3>1
    <2>3. QED
        BY <2>1, <2>2
<1>9. /\ ems \in Seq(Emissions) /\ Len(ems) = n + Len(fwd) /\ n \in Nat
      /\ (\A k \in 1 .. n : ems[k] = p.ems[k]) /\ (\A k \in 1 .. Len(fwd) : ems[n + k] = fwd[k])
    BY <1>2, <1>6
<1> HIDE DEF ems
<1>10. Numbered(E, ems) /\ E \in Seq(Emissions) /\ Len(E) = Len(ems)
    <2>1. E = WithIds(ems)
        BY DEF ems, fwd
    <2>1a. Numbered(E, ems)
        BY <1>1, <1>9, <2>1, WithIdsNumber
    <2>2. QED
        BY <2>1a DEF Numbered
<1>11. m.id \in UsedIds \/ n = 0
    BY <1>3 DEF Handles
<1> HIDE DEF n
<1>12. ASSUME NEW k \in 1 .. n
       PROVE  /\ k \in 1 .. Len(E) /\ E[k].to = p.ems[k].to /\ E[k].msg # m
              /\ E[k].msg.type = p.ems[k].msg.type /\ E[k].msg.src = p.ems[k].msg.src
              /\ E[k].msg.dst = p.ems[k].msg.dst /\ E[k].msg.d = p.ems[k].msg.d
    <2>1. k \in 1 .. Len(ems) /\ n # 0
        BY <1>8, <1>9
    <2>2. ems[k] = p.ems[k]
        BY <1>9
    <2>3. p.ems[k].msg.id = 0
        BY <1>3 DEF Unstamped, n
    <2>4. E[k].msg.id \notin UsedIds
        BY <1>10, <2>1, <2>2, <2>3 DEF Numbered
    <2>5. E[k].msg # m
        BY <1>11, <2>1, <2>4
    <2>6. k \in 1 .. Len(E)
        BY <1>10, <2>1 DEF Numbered
    <2>7. /\ E[k].to = ems[k].to /\ E[k].msg.type = ems[k].msg.type /\ E[k].msg.src = ems[k].msg.src
          /\ E[k].msg.dst = ems[k].msg.dst /\ E[k].msg.d = ems[k].msg.d
        BY <1>10, <2>1 DEF Numbered
    <2>8. QED
        BY <2>2, <2>5, <2>6, <2>7
<1>13. ASSUME NEW k \in 1 .. Len(E), ~(k <= n) PROVE E[k].msg = m /\ E[k].to = to
    <2> DEFINE f == Len(fwd)
    <2>1. f \in Nat /\ f <= 1 /\ Len(ems) = n + f /\ n \in Nat /\ k \in 1 .. Len(ems)
        BY <1>8, <1>9, <1>10
    <2> HIDE DEF f
    <2>2. k = n + 1 /\ f = 1
        BY <1>13, <2>1
    <2>3. ems[k] = fwd[1] /\ fwd[1].msg = m /\ fwd[1].to = to
        BY <1>8, <1>9, <2>2 DEF f
    <2>4. E[k] \in Emissions
        BY <1>10
    <2> DEFINE x == E[k].msg
    <2>5. /\ x.type = m.type /\ x.dst = m.dst /\ x.d = m.d /\ x.id = m.id /\ x.src = m.src
          /\ x \in Messages /\ E[k].to = to
        BY <1>1, <1>10, <2>1, <2>3, <2>4 DEF Numbered, Emissions
    <2> HIDE DEF x
    <2>6. x = m
        BY <2>5 DEF Messages
    <2>7. QED
        BY <2>5, <2>6 DEF x
<1>14. ASSUME NEW k \in 1 .. Len(E), q \in E[k].to
       PROVE  Sayable(r, c, m, q, known[r], E[k].msg) /\ (E[k].msg = m => q \in to)
    <2>1. CASE ~(k <= n)
        BY <1>13, <1>14, <2>1 DEF Sayable
    <2>2. CASE k <= n /\ m.type # "ENUM_REQUEST"
        <3>1. k \in 1 .. n
            BY <1>9, <2>2
        <3>2. p.ems[k].msg.type = "NET_NEW"
            BY <1>5, <2>2, <3>1
        <3>3. QED
            BY <1>12, <3>1, <3>2 DEF Sayable
    <2>3. CASE k <= n /\ m.type = "ENUM_REQUEST"
        <3>1. k \in 1 .. n
            BY <1>9, <2>3
        <3>2. Replies(r, c, p.ems)
            BY <1>1, <2>3, RequestParsed
        <3>3. p.ems[k].to = {c} /\ \E d \in known[r] : IsReply(r, c, p.ems[k].msg, d)
            BY <3>1, <3>2 DEF Replies, n
        <3>4. q = c /\ \E d \in known[r] : IsReply(r, c, E[k].msg, d)
            BY <1>12, <1>14, <3>1, <3>3 DEF IsReply
        <3>5. QED
            BY <1>12, <2>3, <3>1, <3>4 DEF Sayable
    <2>4. QED
        BY <2>1, <2>2, <2>3
<1>15. ASSUME q \in to PROVE \E k \in 1 .. Len(E) : q \in E[k].to /\ E[k].msg = m
    <2>1. Len(fwd) = 1
        BY <1>8, <1>15
    <2>2. n + 1 \in 1 .. Len(E) /\ ~(n + 1 <= n)
        BY <1>9, <1>10, <2>1
    <2>3. QED
        BY <1>13, <1>15, <2>2
<1>16. ASSUME m.type = "ENUM_REQUEST", q = c, NEW d \in known[r]
       PROVE  \E k \in 1 .. Len(E) : q \in E[k].to /\ IsReply(r, c, E[k].msg, d)
    <2>1. Replies(r, c, p.ems)
        BY <1>1, <1>16, RequestParsed
    <2>2. PICK k \in 1 .. n : IsReply(r, c, p.ems[k].msg, d)
        BY <2>1 DEF Replies, n
    <2>3. p.ems[k].to = {c}
        BY <2>1 DEF Replies, n
    <2>4. QED
        BY <1>12, <1>16, <2>2, <2>3 DEF IsReply
<1>17. QED
    BY <1>10, <1>14, <1>15, <1>16 DEF to, Emits

\* Where the forwarded message goes
LEMMA ForwardDest ==
    ASSUME NEW r, NEW tbl, NEW m, NEW fwd, fwd = Forward(r, tbl, m)
    PROVE  UNION {e.to : e \in ToSet(fwd)} = Dest(r, tbl, m)
<1> DEFINE to == Dest(r, tbl, m)
           x == [msg |-> m, to |-> to]
<1>1. IF m.dst \in {r, Null} THEN fwd = <<>> /\ to = {} ELSE fwd = <<x>>
    BY DEF Forward, Dest
<1>2. x.to = to
    OBVIOUS
<1> HIDE DEF to, x
<1>3. CASE m.dst \in {r, Null}
    <2>1. ToSet(fwd) = {}
        BY <1>1, <1>3 DEF ToSet
    <2>2. QED
        BY <1>1, <1>3, <2>1 DEF to
<1>4. CASE m.dst \notin {r, Null}
    <2>1. ToSet(fwd) = {x}
        BY <1>1, <1>4 DEF ToSet
    <2>2. QED
        BY <1>2, <2>1 DEF to
<1>5. QED
    BY <1>3, <1>4

\* A queue with what is sent on it
LEMMA Answers ==
    ASSUME NEW r, NEW c, NEW m, NEW q, NEW to, NEW K, NEW E, Emits(r, c, m, q, to, K, E),
           NEW a, NEW b, Adds(a, b, E, q)
    PROVE  Answered(r, c, m, q, to, K, a, b)
<1> DEFINE N == Len(a) + 1 .. Len(b)
<1>1. Len(a) <= Len(b) /\ \A i \in 1 .. Len(a) : b[i] = a[i]
    BY DEF Adds
<1>2. PICK f \in [N -> 1 .. Len(E)] :
          /\ \A i \in N : b[i] = E[f[i]].msg /\ q \in E[f[i]].to
          /\ \A k \in 1 .. Len(E) : q \in E[k].to => \E i \in N : f[i] = k
    BY DEF Adds
<1> HIDE DEF N
<1>3. \A i \in N : Sayable(r, c, m, q, K, b[i]) /\ (b[i] = m => q \in to)
    BY <1>2 DEF Emits
<1>4. ASSUME q \in to PROVE \E i \in N : b[i] = m
    BY <1>2, <1>4 DEF Emits
<1>5. ASSUME m.type = "ENUM_REQUEST", q = c, NEW d \in K PROVE \E i \in N : IsReply(r, c, b[i], d)
    <2>1. PICK k \in 1 .. Len(E) : q \in E[k].to /\ IsReply(r, c, E[k].msg, d)
        BY <1>5 DEF Emits
    <2>2. PICK i \in N : f[i] = k
        BY <1>2, <2>1
    <2>3. QED
        BY <1>2, <2>1, <2>2
<1>6. QED
    BY <1>1, <1>3, <1>4, <1>5 DEF Answered, N

\* switch_msg, as seen by its neighbours
LEMMA SwitchServes ==
    ASSUME Tree, Sound, NEW r \in Routers, NEW c \in Conns(table[r]), NEW m \in Messages,
           Fine(c, r, m), Handles(r, c, m), NEW w \in Wires, Elsewhere(w, r, c, m),
           Switch(w, r, c, m)
    PROVE  Served(w, r, c, m) \/ Failed(w, r, c, m)
<1> DEFINE p == Parsed(r, c, m)
           fwd == Forward(r, p.table, m)
           E == WithIds(p.ems \o fwd)
           T == [table EXCEPT ![r] = p.table]
           to == Dest(r, p.table, m)
           v == wire'
<1>1. ~IsKnown(r, m)
    BY NotRemembered
<1>2. \/ AssertionFails(p.known, m, UNION {e.to : e \in ToSet(fwd)}) /\ Gone(r, w)
      \/ /\ ~AssertionFails(p.known, m, UNION {e.to : e \in ToSet(fwd)})
         /\ table' = T /\ known' = [known EXCEPT ![r] = p.known]
         /\ v = Sent(table, w, r, E) /\ phase' = phase
    BY <1>1 DEF Switch
<1>3. UNION {e.to : e \in ToSet(fwd)} = to
    BY ForwardDest
<1>4. m.type # "NET_LOST" /\ Shape /\ DOMAIN table = Routers /\ DOMAIN known = Routers
    BY DEF Handles, Sound, Shape
<1>5. T[r] = p.table
    BY <1>4
<1>6. Heard(T, r, c, m)
    <2> HIDE DEF p
    <2>1. p = Parsed(r, c, m)
        BY DEF p
    <2> HIDE DEF T
    <2>2. T = [table EXCEPT ![r] = p.table]
        BY DEF T
    <2>3. QED
        BY <1>4, <2>1, <2>2, HeardParsed
<1>7. \A l : l \in p.known <=> IsNew(m, l) \/ (l \in known[r] /\ ~IsLost(m, l))
    <2> HIDE DEF p
    <2>1. p = Parsed(r, c, m)
        BY DEF p
    <2>2. QED
        BY <1>4, <2>1, UsersParsed
<1>8. E \in Seq(Emissions) /\ \A q \in Routers : \A a \in Seq(Messages) : \A b : Adds(a, b, E, q) =>
          Answered(r, c, m, q, to, known[r], a, b)
    <2> HIDE DEF p
    <2>1. p = Parsed(r, c, m) /\ E = WithIds(p.ems \o Forward(r, p.table, m))
        BY DEF p
    <2> HIDE DEF E, fwd, T, v
    <2>2. to = Dest(r, p.table, m)
        OBVIOUS
    <2> HIDE DEF to
    <2>3. \A q : Emits(r, c, m, q, to, known[r], E)
        BY <2>1, <2>2, SwitchEmits
    <2>4. \A q \in Routers : \A a \in Seq(Messages) : \A b : Adds(a, b, E, q) =>
              Answered(r, c, m, q, to, known[r], a, b)
        BY <2>3, Answers
    <2>5. QED
        BY <2>3, <2>4 DEF Emits
<1> HIDE DEF p, fwd, E, T, to, v
<1>9. CASE AssertionFails(p.known, m, UNION {e.to : e \in ToSet(fwd)}) /\ Gone(r, w)
    <2>1. AssertionFails(p.known, m, Dest(r, T[r], m))
        BY <1>3, <1>5, <1>9 DEF to
    <2>2. QED
        BY <1>6, <1>7, <1>9, <2>1 DEF Failed
<1>10. CASE /\ ~AssertionFails(p.known, m, UNION {e.to : e \in ToSet(fwd)})
            /\ table' = T /\ known' = [known EXCEPT ![r] = p.known]
            /\ v = Sent(table, w, r, E) /\ phase' = phase
    <2>1. known'[r] = p.known /\ \A q \in Routers : q # r => known'[q] = known[q]
        BY <1>4, <1>10
    <2>2. ~AssertionFails(known'[r], m, Dest(r, table'[r], m))
        BY <1>3, <1>5, <1>10, <2>1 DEF to
    <2>3. \A q \in Routers : r \in Conns(table'[q]) <=> r \in Conns(table[q])
        BY <1>6, <1>10 DEF Heard
    <2>4. v = Sent(table, w, r, E)
        BY <1>10
    <2>5. \A s, q \in Routers : v[s][q] = Grown(table, w, r, E, s, q)
        BY <1>8, <2>4, SentFacts
    <2>6. \A s, q \in Routers : s # r \/ r \notin Conns(table'[q]) => v[s][q] = w[s][q]
        BY <2>3, <2>5 DEF Grown
    <2>7. ASSUME NEW q \in Routers, r \in Conns(table'[q])
          PROVE  Answered(r, c, m, q, to, known[r], w[r][q], v[r][q])
        <3> DEFINE a == w[r][q]
        <3>1. v[r][q] = a \o Outgoing(E, q)
            BY <2>3, <2>5, <2>7 DEF Grown
        <3>2. a \in Seq(Messages)
            BY DEF Wires
        <3> HIDE DEF a
        <3>3. Adds(a, a \o Outgoing(E, q), E, q)
            BY <1>8, <3>2, SentAdds
        <3>4. QED
            BY <1>8, <3>1, <3>2, <3>3 DEF a
    <2>8. to = Dest(r, table'[r], m) /\ Heard(table', r, c, m)
        BY <1>5, <1>6, <1>10 DEF to
    <2>9. \A l : l \in known'[r] <=> IsNew(m, l) \/ (l \in known[r] /\ ~IsLost(m, l))
        BY <1>7, <2>1
    <2>10. QED
        BY <1>10, <2>1, <2>2, <2>6, <2>7, <2>8, <2>9 DEF Served, v
<1>11. QED
    BY <1>2, <1>9, <1>10

-----------------------------------------------------------------------------
(***************************************************************************)
(* New nets and links: what is sent then is no news of users.              *)
(***************************************************************************)

\* The queue b is the queue a, and messages of the types S.
Announces(a, b, S) ==
    /\ Len(a) <= Len(b) /\ \A i \in 1 .. Len(a) : b[i] = a[i]
    /\ \A i \in Len(a) + 1 .. Len(b) : b[i].type \in S

\* Emissions of such types make such queues.
LEMMA SentAnnounces ==
    ASSUME NEW a \in Seq(Messages), NEW E \in Seq(Emissions), NEW q, NEW S,
           \A k \in 1 .. Len(E) : q \in E[k].to => E[k].msg.type \in S
    PROVE  Announces(a, a \o Outgoing(E, q), S)
<1> DEFINE b == a \o Outgoing(E, q)
           N == Len(a) + 1 .. Len(b)
<1>1. Adds(a, b, E, q)
    BY SentAdds
<1> HIDE DEF b
<1>2. PICK f \in [N -> 1 .. Len(E)] : \A i \in N : b[i] = E[f[i]].msg /\ q \in E[f[i]].to
    BY <1>1 DEF Adds
<1>3. Len(a) <= Len(b) /\ \A i \in 1 .. Len(a) : b[i] = a[i]
    BY <1>1 DEF Adds
<1> HIDE DEF N
<1>4. \A i \in N : b[i].type \in S
    BY <1>2
<1>5. QED
    BY <1>3, <1>4 DEF Announces, b, N

\* Nothing is nothing of any type.
LEMMA AnnouncesNothing ==
    ASSUME NEW a \in Seq(Messages), NEW S
    PROVE  Announces(a, a, S)
BY DEF Announces

\* A net is opened: its router tells its neighbours.
Attached(r, l) ==
    /\ l \notin Conns(table[r]) /\ l \in Node /\ l # r /\ Adjacent(r, l)
    /\ \A x : x \in Conns(table'[r]) <=> x \in Conns(table[r]) \/ x = l
    /\ \A c \in Conns(table[r]) : table'[r][c] = table[r][c]
    /\ \A q \in Routers : q # r => table'[q] = table[q]
    /\ \A p, q \in Routers : Announces(wire[p][q], wire'[p][q], {"NET_NEW"})

\* AttachLocal does that.
LEMMA AttachSends ==
    ASSUME Tree, Sound, NEW r \in Routers, NEW l \in Nets, AttachLocal(r, l)
    PROVE  Attached(r, l)
<1> DEFINE tbl == AddEntry(table[r], l)
           ems == RouteChange(tbl, l, "NET_NEW")
           E == WithIds(ems)
           v == wire'
<1>1. /\ phase[r] = "starting" /\ l \in todo[r]
      /\ table' = [table EXCEPT ![r] = tbl] /\ v = Sent(table, wire, r, E)
    BY DEF AttachLocal
<1>2. Shape /\ wire \in Wires /\ DOMAIN table = Routers /\ Leads(r, table[r])
    BY AllLead DEF Sound, Shape
<1>3. l \in Node /\ l \notin Routers /\ l # r /\ Adjacent(r, l)
    BY <1>1, <1>2, RouterNetAssumption DEF Shape, Neighbours
<1>4. l \notin Conns(table[r])
    BY <1>1, <1>3 DEF Sound, MadeOnce
<1>5. /\ \A x : x \in Conns(tbl) <=> x \in Conns(table[r]) \/ x = l
      /\ \A c \in Conns(table[r]) : tbl[c] = table[r][c]
    BY <1>4 DEF AddEntry, Conns
<1> HIDE DEF tbl
<1>6. \A q \in Routers : IF q = r THEN table'[q] = tbl ELSE table'[q] = table[q]
    BY <1>1, <1>2
<1>7. ems \in Seq(Emissions) /\ \A k \in 1 .. Len(ems) : ems[k].msg.type = "NET_NEW"
    <2> DEFINE m == Message("NET_NEW", l, BROADCAST, l)
               e == [msg |-> m, to |-> Targets(tbl, l)]
    <2>1. m \in Messages /\ m.type = "NET_NEW"
        BY <1>3 DEF Message, Messages, Types
    <2> HIDE DEF m
    <2>2. Targets(tbl, l) \in SUBSET Node
        BY <1>2, <1>3, <1>5 DEF Targets, Leads, Neighbours
    <2>3. e \in Emissions /\ e.msg = m
        BY <2>1, <2>2 DEF Emissions
    <2>4. ems = <<e>>
        BY DEF RouteChange, m
    <2> HIDE DEF e, ems
    <2>5. QED
        BY <2>1, <2>3, <2>4
<1> HIDE DEF ems
<1>8. E \in Seq(Emissions) /\ \A k \in 1 .. Len(E) : E[k].msg.type = "NET_NEW"
    <2>1. Numbered(E, ems)
        BY <1>2, <1>7, WithIdsNumber
    <2> HIDE DEF E
    <2>2. QED
        BY <1>7, <2>1 DEF Numbered
<1> HIDE DEF E, v
<1>9. \A p, q \in Routers : v[p][q] = Grown(table, wire, r, E, p, q)
    BY <1>1, <1>2, <1>8, SentFacts
<1>10. ASSUME NEW p \in Routers, NEW q \in Routers PROVE Announces(wire[p][q], v[p][q], {"NET_NEW"})
    <2> DEFINE a == wire[p][q]
    <2>1. a \in Seq(Messages)
        BY <1>2 DEF Wires
    <2>2. v[p][q] = a \/ v[p][q] = a \o Outgoing(E, q)
        BY <1>9 DEF Grown
    <2> HIDE DEF a
    <2>3. Announces(a, a, {"NET_NEW"}) /\ Announces(a, a \o Outgoing(E, q), {"NET_NEW"})
        BY <1>8, <2>1, SentAnnounces, AnnouncesNothing
    <2>4. QED
        BY <2>2, <2>3 DEF a
<1>11. QED
    BY <1>3, <1>4, <1>5, <1>6, <1>10 DEF Attached, v

\* A link is made: each end asks the other, and tells the others of it.
Greeted(r, s, p, q) ==
    IF (p = r /\ q = s) \/ (p = s /\ q = r) THEN {"NET_NEW", "ENUM_REQUEST"} ELSE {"NET_NEW"}

LinkedUp(r, s) ==
    /\ r # s /\ Adjacent(r, s) /\ Adjacent(s, r) /\ s \notin Conns(table[r]) /\ r \notin Conns(table[s])
    /\ \A x : x \in Conns(table'[r]) <=> x \in Conns(table[r]) \/ x = s
    /\ \A x : x \in Conns(table'[s]) <=> x \in Conns(table[s]) \/ x = r
    /\ \A c \in Conns(table[r]) : table'[r][c] = table[r][c]
    /\ \A c \in Conns(table[s]) : table'[s][c] = table[s][c]
    /\ \A q \in Routers : q # r /\ q # s => table'[q] = table[q]
    /\ \A p, q \in Routers : Announces(wire[p][q], wire'[p][q], Greeted(r, s, p, q))
    /\ \E i \in DOMAIN wire'[r][s] : wire'[r][s][i].type = "ENUM_REQUEST"

\* What is sent on, once more, by the other end
LEMMA BothAnnounce ==
    ASSUME NEW T, NEW w \in Wires, NEW r \in Routers, NEW s \in Routers, r # s,
           NEW E \in Seq(Emissions), NEW F \in Seq(Emissions),
           NEW mid, mid = Sent(T, w, r, E), NEW v, v = Sent(T, mid, s, F),
           \A q : \A k \in 1 .. Len(E) : q \in E[k].to => E[k].msg.type \in Greeted(r, s, r, q),
           \A q : \A k \in 1 .. Len(F) : q \in F[k].to => F[k].msg.type \in Greeted(r, s, s, q)
    PROVE  \A p, q \in Routers : Announces(w[p][q], v[p][q], Greeted(r, s, p, q))
<1>1. mid \in Wires /\ \A p, q \in Routers : mid[p][q] = Grown(T, w, r, E, p, q)
    BY SentFacts
<1>2. \A p, q \in Routers : v[p][q] = Grown(T, mid, s, F, p, q)
    BY <1>1, SentFacts
<1> SUFFICES ASSUME NEW p \in Routers, NEW q \in Routers
             PROVE  Announces(w[p][q], v[p][q], Greeted(r, s, p, q))
    OBVIOUS
<1> DEFINE a == w[p][q]
           S == Greeted(r, s, p, q)
<1>3. a \in Seq(Messages)
    BY DEF Wires
<1>4. \/ v[p][q] = a
      \/ p = r /\ v[p][q] = a \o Outgoing(E, q)
      \/ p = s /\ v[p][q] = a \o Outgoing(F, q)
    <2>1. mid[p][q] = Grown(T, w, r, E, p, q) /\ v[p][q] = Grown(T, mid, s, F, p, q)
        BY <1>1, <1>2
    <2>2. p = r => p # s
        OBVIOUS
    <2>3. mid[p][q] = a \/ (p = r /\ mid[p][q] = a \o Outgoing(E, q))
        BY <2>1 DEF Grown
    <2>4. v[p][q] = mid[p][q] \/ (p = s /\ v[p][q] = mid[p][q] \o Outgoing(F, q))
        BY <2>1 DEF Grown
    <2> HIDE DEF a
    <2>5. QED
        BY <2>2, <2>3, <2>4
<1>5. p = r => \A k \in 1 .. Len(E) : q \in E[k].to => E[k].msg.type \in S
    OBVIOUS
<1>6. p = s => \A k \in 1 .. Len(F) : q \in F[k].to => F[k].msg.type \in S
    OBVIOUS
<1> HIDE DEF a, S
<1>7. Announces(a, a, S)
    BY <1>3, AnnouncesNothing
<1>8. p = r => Announces(a, a \o Outgoing(E, q), S)
    BY <1>3, <1>5, SentAnnounces
<1>9. p = s => Announces(a, a \o Outgoing(F, q), S)
    BY <1>3, <1>6, SentAnnounces
<1>10. QED
    BY <1>4, <1>7, <1>8, <1>9 DEF a, S

\* Each end asks the other for its users.
Asks(G, s) == \E k \in 1 .. Len(G) : G[k].to = {s} /\ G[k].msg.type = "ENUM_REQUEST"

\* A greeting does.
LEMMA GreetingsAsk ==
    ASSUME NEW tbl, NEW s, NEW S, tbl[s] \in Seq(S), NEW G, G = Greetings(tbl, s)
    PROVE  Asks(G, s)
<1> DEFINE q == tbl[s]
           one == <<s>>
           nets == one \o q
           a(n) == Head(RouteChange(tbl, n, "NET_NEW"))
           A == [i \in DOMAIN nets |-> a(nets[i])]
           e == [msg |-> Message("ENUM_REQUEST", Null, Null, Null), to |-> {s}]
           B == <<e>>
<1>1. G = A \o B
    BY DEF Greetings, Announcements
<1>2. e.to = {s} /\ e.msg.type = "ENUM_REQUEST"
    BY DEF Message
<1>3. one \in Seq(S \cup {s}) /\ q \in Seq(S \cup {s})
    OBVIOUS
<1> HIDE DEF one, q
<1>4. nets \in Seq(S \cup {s})
    BY <1>3
<1> HIDE DEF nets, a, e
<1>5. A \in Seq({a(n) : n \in S \cup {s}}) /\ B \in Seq({e}) /\ Len(B) = 1 /\ B[1] = e
    BY <1>4
<1> DEFINE X == {a(n) : n \in S \cup {s}} \cup {e}
<1>6. A \in Seq(X) /\ B \in Seq(X)
    BY <1>5
<1> HIDE DEF A, B, X
<1>7. Len(A \o B) = Len(A) + 1 /\ (A \o B)[Len(A) + 1] = e /\ Len(A) \in Nat
    <2>1. Len(A) \in Nat
        BY <1>6
    <2>2. Len(A \o B) = Len(A) + Len(B)
        BY <1>6, ConcatProperties
    <2>3. (A \o B)[Len(A) + 1] = B[(Len(A) + 1) - Len(A)]
        <3>1. Len(A) + 1 \in 1 .. Len(A) + Len(B) /\ ~(Len(A) + 1 <= Len(A))
            BY <1>5, <2>1
        <3>2. QED
            BY <1>6, <3>1, ConcatProperties
    <2>4. (Len(A) + 1) - Len(A) = 1
        BY <2>1
    <2>5. QED
        BY <1>5, <2>1, <2>2, <2>3, <2>4
<1> DEFINE k == Len(A) + 1
<1>8. k \in 1 .. Len(A \o B)
    BY <1>7
<1>9. (A \o B)[k].to = {s} /\ (A \o B)[k].msg.type = "ENUM_REQUEST"
    BY <1>2, <1>7
<1> HIDE DEF k
<1>10. QED
    BY <1>1, <1>8, <1>9 DEF Asks

\* LinkUp does that.
LEMMA LinkUpSends ==
    ASSUME Tree, Sound, NEW r \in Routers, NEW s \in Routers, LinkUp(r, s)
    PROVE  LinkedUp(r, s)
<1> DEFINE tblR == Joined(table[r], s, Listed(table[s], r))
           tblS == Joined(table[s], r, Listed(table[r], s))
           tbls == [table EXCEPT ![r] = tblR, ![s] = tblS]
           fromR == Greetings(tblR, s)
           fromS == Greetings(tblS, r)
           both == fromR \o fromS
           all == WithIds(both)
           E == SubSeq(all, 1, Len(fromR))
           F == SubSeq(all, Len(fromR) + 1, Len(all))
           mid == Sent(tbls, wire, r, E)
<1>1. /\ phase[r] = "starting" /\ phase[s] = "up" /\ s \in todo[r]
      /\ table' = tbls /\ wire' = Sent(tbls, mid, s, F)
    BY DEF LinkUp
<1>2. Shape /\ wire \in Wires /\ DOMAIN table = Routers
    BY DEF Sound, Shape
<1>3. r # s /\ r \in Node /\ s \in Node /\ Adjacent(r, s) /\ Adjacent(s, r)
    BY <1>1, <1>2, AdjacentBoth DEF Shape, Neighbours, Node
<1>4. s \notin Conns(table[r]) /\ r \notin Conns(table[s])
    BY <1>1, <1>3 DEF Sound, MadeOnce
<1>5. Linking(r, s, tblR) /\ Linking(s, r, tblS)
    BY <1>3, <1>4, JoinedLeads
<1>6. /\ table'[r] = tblR /\ table'[s] = tblS
      /\ \A q \in Routers : q # r /\ q # s => table'[q] = table[q]
    BY <1>1, <1>2, <1>3
<1> HIDE DEF tblR, tblS
<1>7. /\ Leads(r, tblR) /\ s \in Conns(tblR) /\ Leads(s, tblS) /\ r \in Conns(tblS)
      /\ \A x : x \in Conns(tblR) <=> x \in Conns(table[r]) \/ x = s
      /\ \A x : x \in Conns(tblS) <=> x \in Conns(table[s]) \/ x = r
      /\ \A c \in Conns(table[r]) : tblR[c] = table[r][c]
      /\ \A c \in Conns(table[s]) : tblS[c] = table[s][c]
    BY <1>5 DEF Linking
<1>8. /\ fromR \in Seq(Emissions) /\ fromS \in Seq(Emissions)
      /\ \A k \in 1 .. Len(fromR) : IsNews(tblR, s, fromR[k]) \/ IsRequest(s, fromR[k])
      /\ \A k \in 1 .. Len(fromS) : IsNews(tblS, r, fromS[k]) \/ IsRequest(r, fromS[k])
    <2>1. fromR \in Seq(Emissions) /\ fromS \in Seq(Emissions)
        BY <1>3, <1>7, GreetingsFine
    <2>2. \A k \in 1 .. Len(fromR) : IsNews(tblR, s, fromR[k]) \/ IsRequest(s, fromR[k])
        BY <1>3, <1>7, GreetingsAre
    <2>3. \A k \in 1 .. Len(fromS) : IsNews(tblS, r, fromS[k]) \/ IsRequest(r, fromS[k])
        BY <1>3, <1>7, GreetingsAre
    <2>4. QED
        BY <2>1, <2>2, <2>3
<1>8a. Asks(fromR, s)
    <2>1. tblR[s] \in Seq(Beyond[r][s] \ {s})
        BY <1>7 DEF Leads
    <2> DEFINE Z == Beyond[r][s] \ {s}
    <2> HIDE DEF Z
    <2>2. tblR[s] \in Seq(Z)
        BY <2>1 DEF Z
    <2>3. fromR = Greetings(tblR, s)
        OBVIOUS
    <2> HIDE DEF fromR
    <2>4. QED
        BY <2>2, <2>3, GreetingsAsk
<1> HIDE DEF fromR, fromS
<1>9. both \in Seq(Emissions) /\ Len(both) = Len(fromR) + Len(fromS)
      /\ (\A k \in 1 .. Len(fromR) : k \in 1 .. Len(both) /\ both[k] = fromR[k])
      /\ (\A k \in 1 .. Len(fromS) : Len(fromR) + k \in 1 .. Len(both) /\ both[Len(fromR) + k] = fromS[k])
    BY <1>8
<1> HIDE DEF both
<1>10. Numbered(all, both) /\ all \in Seq(Emissions) /\ Len(all) = Len(fromR) + Len(fromS)
    <2>1. Numbered(all, both)
        BY <1>2, <1>9, WithIdsNumber
    <2>2. QED
        BY <1>9, <2>1 DEF Numbered
<1> HIDE DEF all
<1>11. Halves(all, Len(fromR), Len(fromS), E, F)
    BY <1>8, <1>10, Parts
<1> HIDE DEF E, F
<1>12. /\ E \in Seq(Emissions) /\ Len(E) = Len(fromR) /\ \A k \in 1 .. Len(fromR) : E[k] = all[k]
       /\ F \in Seq(Emissions) /\ Len(F) = Len(fromS) /\ \A k \in 1 .. Len(fromS) : F[k] = all[Len(fromR) + k]
    BY <1>11 DEF Halves
<1>13. \A k \in 1 .. Len(both) : all[k].to = both[k].to /\ all[k].msg.type = both[k].msg.type
    BY <1>10 DEF Numbered
<1>14. \A k \in 1 .. Len(E) : E[k].to = fromR[k].to /\ E[k].msg.type = fromR[k].msg.type
    BY <1>9, <1>12, <1>13
<1> HIDE DEF tbls, mid
<1>15. ASSUME NEW k \in 1 .. Len(F) PROVE F[k].to = fromS[k].to /\ F[k].msg.type = fromS[k].msg.type
    <2> DEFINE n == Len(fromR) + k
    <2>1. k \in 1 .. Len(fromS) /\ F[k] = all[n]
        BY <1>12
    <2>2. n \in 1 .. Len(both) /\ both[n] = fromS[k]
        BY <1>9, <2>1
    <2> HIDE DEF n
    <2>3. QED
        BY <1>13, <2>1, <2>2
<1>16. ASSUME NEW q, NEW k \in 1 .. Len(E), q \in E[k].to PROVE E[k].msg.type \in Greeted(r, s, r, q)
    <2>1. k \in 1 .. Len(fromR) /\ E[k].to = fromR[k].to /\ E[k].msg.type = fromR[k].msg.type
        BY <1>12, <1>14
    <2>2. fromR[k].msg.type = "NET_NEW" \/ (fromR[k].msg.type = "ENUM_REQUEST" /\ fromR[k].to = {s})
        BY <1>8, <2>1 DEF IsNews, IsRequest
    <2>3. QED
        BY <1>16, <2>1, <2>2 DEF Greeted
<1>17. ASSUME NEW q, NEW k \in 1 .. Len(F), q \in F[k].to PROVE F[k].msg.type \in Greeted(r, s, s, q)
    <2>1. k \in 1 .. Len(fromS) /\ F[k].to = fromS[k].to /\ F[k].msg.type = fromS[k].msg.type
        BY <1>12, <1>15
    <2>2. fromS[k].msg.type = "NET_NEW" \/ (fromS[k].msg.type = "ENUM_REQUEST" /\ fromS[k].to = {r})
        BY <1>8, <2>1 DEF IsNews, IsRequest
    <2>3. QED
        BY <1>17, <2>1, <2>2 DEF Greeted
<1>17a. r \in Conns(tbls[s])
    BY <1>1, <1>6, <1>7 DEF tbls
<1>18. \A p, q \in Routers : Announces(wire[p][q], wire'[p][q], Greeted(r, s, p, q))
    <2> DEFINE v == wire'
    <2>1. v = Sent(tbls, mid, s, F) /\ mid = Sent(tbls, wire, r, E)
        BY <1>1 DEF mid
    <2> HIDE DEF v
    <2>2. \A p, q \in Routers : Announces(wire[p][q], v[p][q], Greeted(r, s, p, q))
        BY <1>2, <1>3, <1>12, <1>16, <1>17, <2>1, BothAnnounce
    <2>3. QED
        BY <2>2 DEF v
<1>19. \E i \in DOMAIN wire'[r][s] : wire'[r][s][i].type = "ENUM_REQUEST"
    <2> DEFINE v == wire'
               a == wire[r][s]
    <2>1. v = Sent(tbls, mid, s, F) /\ mid = Sent(tbls, wire, r, E)
        BY <1>1 DEF mid
    <2> HIDE DEF v
    <2>2. mid \in Wires /\ mid[r][s] = Grown(tbls, wire, r, E, r, s)
        BY <1>2, <1>12, <2>1, SentFacts
    <2>3. v \in Wires /\ v[r][s] = Grown(tbls, mid, s, F, r, s)
        BY <1>12, <2>1, <2>2, SentFacts
    <2> DEFINE b == a \o Outgoing(E, s)
    <2>4. v[r][s] = b
        BY <1>3, <1>17a, <2>2, <2>3 DEF Grown
    <2>5. a \in Seq(Messages) /\ v[r][s] \in Seq(Messages)
        BY <1>2, <2>3 DEF Wires
    <2> HIDE DEF a
    <2>6. Adds(a, b, E, s)
        BY <1>12, <2>5, SentAdds
    <2> HIDE DEF b
    <2>7. PICK k \in 1 .. Len(E) : s \in E[k].to /\ E[k].msg.type = "ENUM_REQUEST"
        BY <1>8a, <1>12, <1>14 DEF Asks
    <2>9. PICK j \in Len(a) + 1 .. Len(b) : b[j].type = "ENUM_REQUEST"
        <3>1. PICK g \in [Len(a) + 1 .. Len(b) -> 1 .. Len(E)] :
                  /\ \A i \in Len(a) + 1 .. Len(b) : b[i] = E[g[i]].msg
                  /\ \E j \in Len(a) + 1 .. Len(b) : g[j] = k
            BY <2>6, <2>7 DEF Adds
        <3>2. QED
            BY <2>7, <3>1
    <2>10. b \in Seq(Messages) /\ j \in DOMAIN b
        <3>1. b \in Seq(Messages) /\ Len(a) \in Nat
            BY <2>4, <2>5
        <3>2. QED
            BY <3>1
    <2>11. QED
        BY <2>4, <2>9, <2>10 DEF v
<1>20. QED
    BY <1>3, <1>4, <1>6, <1>7, <1>18, <1>19 DEF LinkedUp

\* What a router can handle is served, or the router fails.
LEMMA ReadyServes ==
    ASSUME Tree, Sound, NEW r \in Routers, NEW c, NEW w, NEW m, Ready(w, r, c, m)
    PROVE  Served(w, r, c, m) \/ Failed(w, r, c, m)
BY SwitchServes DEF Ready

-----------------------------------------------------------------------------
(***************************************************************************)
(* The users r knows have their nets in its route table (UsersRoutable).   *)
(***************************************************************************)

\* A user is heard of from the net's side, and after the net.
NewsRouted(T, w, s, r, i) ==
    w[s][r][i].type = "USER_NEW" =>
        /\ w[s][r][i].dst \in {BROADCAST, r}
        /\ w[s][r][i].dst = BROADCAST => w[s][r][i].src = w[s][r][i].d
        /\ w[s][r][i].d \in AllNets(T[r]) \/ Told(T, w, r, s, w[s][r][i].d, i - 1)

Routed ==
    /\ UsersRoutable
    /\ \A s, r \in Routers : \A i \in DOMAIN wire[s][r] : NewsRouted(table, wire, s, r, i)

\* What is in a queue after a message was served
LEMMA ServedQueue ==
    ASSUME NEW r, NEW c, NEW m, NEW w \in Wires, wire' \in Wires, Served(w, r, c, m),
           NEW s \in Routers, NEW q \in Routers, NEW i \in DOMAIN wire'[s][q]
    PROVE  \/ Kept(w, wire', s, q, i)
           \/ /\ s = r /\ r \in Conns(table'[q]) /\ i > Len(w[s][q])
              /\ Sayable(r, c, m, q, known[r], wire'[s][q][i])
              /\ wire'[s][q][i] = m => q \in Dest(r, table'[r], m)
<1> DEFINE a == w[s][q]
           b == wire'[s][q]
           to == Dest(r, table'[r], m)
<1>1. a \in Seq(Messages) /\ b \in Seq(Messages)
    BY DEF Wires
<1>2. CASE s # r \/ r \notin Conns(table'[q])
    <2>1. b = a
        BY <1>2 DEF Served
    <2>2. QED
        BY <2>1 DEF Kept
<1>3. CASE s = r /\ r \in Conns(table'[q])
    <2>1. Answered(r, c, m, q, to, known[r], a, b)
        BY <1>3 DEF Served
    <2> HIDE DEF a, b, to
    <2>2. i \in 1 .. Len(b) /\ Len(a) \in Nat /\ i \in Int
        BY <1>1 DEF b
    <2>3. CASE i <= Len(a)
        <3>1. i \in 1 .. Len(a)
            BY <2>2, <2>3
        <3>2. i \in DOMAIN a /\ b[i] = a[i]
            BY <1>1, <2>1, <3>1 DEF Answered
        <3>3. QED
            BY <3>2 DEF Kept, a, b
    <2>4. CASE ~(i <= Len(a))
        <3>1. i \in Len(a) + 1 .. Len(b) /\ i > Len(a)
            BY <2>2, <2>4
        <3>2. Sayable(r, c, m, q, known[r], b[i]) /\ (b[i] = m => q \in to)
            BY <2>1, <3>1 DEF Answered
        <3>3. QED
            BY <1>3, <3>1, <3>2 DEF a, b, to
    <2>5. QED
        BY <2>3, <2>4
<1>4. QED
    BY <1>2, <1>3

\* What was in it before is there still.
LEMMA ServedKeeps ==
    ASSUME NEW r, NEW c, NEW m, NEW w \in Wires, Served(w, r, c, m),
           NEW s \in Routers, NEW q \in Routers
    PROVE  Len(w[s][q]) <= Len(wire'[s][q]) /\ \A i \in 1 .. Len(w[s][q]) : wire'[s][q][i] = w[s][q][i]
<1> DEFINE a == w[s][q]
           b == wire'[s][q]
<1>1. Len(a) \in Nat
    BY DEF Wires
<1>2. b = a \/ (Len(a) <= Len(b) /\ \A i \in 1 .. Len(a) : b[i] = a[i])
    BY DEF Served, Answered
<1> HIDE DEF a, b
<1>3. Len(a) <= Len(b) /\ \A i \in 1 .. Len(a) : b[i] = a[i]
    BY <1>1, <1>2
<1>4. QED
    BY <1>3 DEF a, b

\* So what is told there is told still.
LEMMA ToldOn ==
    ASSUME NEW w \in Wires, NEW v, NEW s \in Routers, NEW q \in Routers,
           \A j \in 1 .. Len(w[s][q]) : v[s][q][j] = w[s][q][j],
           NEW T, NEW n, NEW i \in Int, i <= Len(w[s][q]), NEW k \in Int, i <= k, Told(T, w, q, s, n, i)
    PROVE  Told(T, v, q, s, n, k)
<1> DEFINE a == w[s][q]
           b == v[s][q]
<1>1. Len(a) \in Nat /\ \A j \in 1 .. Len(a) : b[j] = a[j]
    BY DEF Wires
<1>2. CASE n \in BranchesOf(T[q], s)
    BY <1>2 DEF Told
<1>3. CASE \E j \in 1 .. i : a[j].type = "NET_NEW" /\ a[j].d = n
    <2> HIDE DEF a, b
    <2>1. PICK j \in 1 .. i : a[j].type = "NET_NEW" /\ a[j].d = n
        BY <1>3
    <2>2. j \in 1 .. Len(a) /\ j \in 1 .. k
        BY <1>1 DEF a
    <2>3. b[j].type = "NET_NEW" /\ b[j].d = n
        BY <1>1, <2>1, <2>2
    <2>4. QED
        BY <2>2, <2>3 DEF Told, b
<1>4. QED
    BY <1>2, <1>3 DEF Told

\* A table that heard of something is no smaller.
LEMMA HeardLarger ==
    ASSUME Shape, NEW r \in Routers, NEW c, NEW m, NEW T, Heard(T, r, c, m)
    PROVE  Larger(T)
<1> SUFFICES ASSUME NEW q \in Routers, NEW d \in Conns(table[q])
             PROVE  d \in Conns(T[q]) /\ BranchesOf(table[q], d) \subseteq BranchesOf(T[q], d)
    BY DEF Larger
<1>1. CASE q # r
    BY <1>1 DEF Heard
<1>2. CASE q = r
    <2>1. d # c => T[r][d] = table[r][d]
        BY <1>2 DEF Heard
    <2>2. QED
        BY <1>2, <2>1 DEF Heard, BranchesOf
<1>3. QED
    BY <1>1, <1>2

\* What is left of the queues is routed as it was.
LEMMA LeftRouted ==
    ASSUME Sound, Routed, NEW r \in Routers, NEW c \in Conns(table[r]), NEW m, NEW T, Heard(T, r, c, m),
           NEW w \in Wires, Taken(w, r, c, m),
           NEW s \in Routers, NEW q \in Routers, NEW i \in DOMAIN w[s][q]
    PROVE  NewsRouted(T, w, s, q, i)
<1> DEFINE k == IF s = c /\ q = r THEN i + 1 ELSE i
           x == w[s][q][i]
           j == k - 1
<1>1. wire \in Wires /\ Shape
    BY DEF Sound, Shape
<1>2. k \in DOMAIN wire[s][q] /\ wire[s][q][k] = x /\ k \in Int /\ j <= Len(wire[s][q])
    BY <1>1, WasThere
<1>3. IF s = c /\ q = r THEN j - 1 = i - 1 ELSE j = i - 1
    <2>1. w[s][q] \in Seq(Messages)
        BY DEF Wires
    <2>2. i \in Int
        BY <2>1
    <2>3. QED
        BY <2>2
<1> HIDE DEF k, x
<1>4. NewsRouted(table, wire, s, q, k)
    BY <1>2 DEF Routed
<1> SUFFICES ASSUME x.type = "USER_NEW"
             PROVE  /\ x.dst \in {BROADCAST, q} /\ (x.dst = BROADCAST => x.src = x.d)
                    /\ x.d \in AllNets(T[q]) \/ Told(T, w, q, s, x.d, i - 1)
    BY DEF NewsRouted, x
<1>5. /\ x.dst \in {BROADCAST, q} /\ (x.dst = BROADCAST => x.src = x.d)
      /\ x.d \in AllNets(table[q]) \/ Told(table, wire, q, s, x.d, j)
    BY <1>2, <1>4 DEF NewsRouted
<1>6. Larger(T)
    BY <1>1, HeardLarger
<1>7. CASE x.d \in AllNets(table[q])
    BY <1>5, <1>6, <1>7, NetsLarger
<1>8. CASE Told(table, wire, q, s, x.d, j)
    <2>1. s \in Conns(table[q])
        <3>1. wire[s][q] # <<>>
            BY <1>2
        <3>2. QED
            BY <3>1 DEF Sound, OnLinks
    <2> DEFINE n == x.d
    <2>2. j \in Int /\ j <= Len(wire[s][q]) /\ Told(table, wire, q, s, n, j)
        BY <1>2, <1>8
    <2> HIDE DEF j, n
    <2>3. /\ s = c /\ q = r => Told(T, w, q, s, n, j - 1)
          /\ ~(s = c /\ q = r) => Told(T, w, q, s, n, j)
        BY <1>1, <2>1, <2>2, ToldShift
    <2>4. Told(T, w, q, s, n, i - 1)
        BY <1>3, <2>3
    <2>5. QED
        BY <1>5, <2>4 DEF n
<1>9. QED
    BY <1>5, <1>7, <1>8

\* What r says of the user of a net that it has a route to comes after what it
\* says of the net.
LEMMA ReplyRouted ==
    ASSUME Sound, Lossless, NEW r \in Routers, NEW q \in Routers, q \in Conns(table[r]),
           r \in Conns(table[q]), NEW d \in Nets, d \in AllNets(table[r])
    PROVE  d \in AllNets(table[q]) \/ Told(table, wire, q, r, d, Len(wire[r][q]))
<1>1. PICK e \in Conns(table[r]) : d \in Root(table[r], e)
    BY DEF AllNets
<1>2. CASE e = q
    <2>1. d \in BranchesOf(table[r], q)
        BY <1>1, <1>2, RouterNetAssumption DEF Root
    <2>2. Link(table, q, r)
        BY DEF Link
    <2>3. BranchesOf(table[r], q) \subseteq AllNets(table[q])
        BY <2>2 DEF Lossless, OnlyTold
    <2>4. QED
        BY <2>1, <2>3
<1>3. CASE e # q
    <2>1. Link(table, r, q)
        BY DEF Link
    <2>2. QED
        BY <1>1, <1>3, <2>1 DEF Lossless, AllTold
<1>4. QED
    BY <1>2, <1>3

\* What a message makes known
NewsOf(r, c, m) ==
    m.type = "USER_NEW" =>
        m.dst \in {BROADCAST, r} /\ (m.dst = BROADCAST => m.src = m.d) /\ m.d \in AllNets(table[r])

\* So are a served message's users ...
LEMMA ServedRoutable ==
    ASSUME Sound, Routed, NEW r \in Routers, NEW c, NEW w, NEW m, Served(w, r, c, m), NewsOf(r, c, m)
    PROVE  UsersRoutable'
<1> SUFFICES ASSUME NEW q \in Routers, NEW l \in known'[q] PROVE l \in AllNets(table'[q])
    BY DEF UsersRoutable
<1>1. Heard(table', r, c, m) /\ Shape
    BY DEF Served, Sound
<1>2. AllNets(table[q]) \subseteq AllNets(table'[q])
    BY <1>1, HeardLarger, NetsLarger
<1>3. CASE l \in known[q]
    BY <1>2, <1>3 DEF Routed, UsersRoutable
<1>4. CASE l \notin known[q]
    <2>1. q = r /\ IsNew(m, l)
        BY <1>4 DEF Served
    <2>2. QED
        BY <1>2, <2>1 DEF NewsOf, IsNew
<1>5. QED
    BY <1>3, <1>4

\* ... and what is said of it.
LEMMA ServedRouted ==
    ASSUME Tree, Sound, Lossless, Routed, Sound', Lossless', NEW r \in Routers, NEW c, NEW w, NEW m,
           Ready(w, r, c, m), Served(w, r, c, m), NewsOf(r, c, m)
    PROVE  Routed'
<1> DEFINE T == table'
           v == wire'
<1>1. w \in Wires /\ wire \in Wires /\ v \in Wires /\ Shape /\ c \in Conns(table[r]) /\ Taken(w, r, c, m)
      /\ Heard(T, r, c, m)
    BY DEF Ready, Sound, Shape, Served
<1>2. ASSUME NEW s \in Routers, NEW q \in Routers, NEW i \in DOMAIN v[s][q]
      PROVE  NewsRouted(T, v, s, q, i)
    <2> DEFINE x == v[s][q][i]
    <2>1. \A j \in 1 .. Len(w[s][q]) : v[s][q][j] = w[s][q][j]
        BY <1>1, ServedKeeps
    <2>2. i \in 1 .. Len(v[s][q]) /\ i \in Int /\ Len(w[s][q]) \in Nat
        <3>1. v[s][q] \in Seq(Messages) /\ w[s][q] \in Seq(Messages)
            BY <1>1 DEF Wires
        <3> HIDE DEF v
        <3>2. QED
            BY <3>1
    <2>3. CASE Kept(w, v, s, q, i)
        <3>1. i \in DOMAIN w[s][q] /\ w[s][q][i] = x
            BY <2>3 DEF Kept
        <3>2. NewsRouted(T, w, s, q, i)
            BY <1>1, <3>1, LeftRouted
        <3>3. i - 1 <= Len(w[s][q]) /\ i - 1 \in Int
            <4>1. w[s][q] \in Seq(Messages)
                BY <1>1 DEF Wires
            <4>2. QED
                BY <2>2, <3>1, <4>1
        <3> DEFINE n == x.d
                   k == i - 1
        <3>4. Told(T, w, q, s, n, k) => Told(T, v, q, s, n, k)
            <4> HIDE DEF n, T, x, v
            <4>1. k \in Int /\ k <= Len(w[s][q]) /\ k <= k
                BY <3>3
            <4> HIDE DEF k
            <4>2. QED
                BY <1>1, <2>1, <4>1, ToldOn
        <3>5. QED
            BY <3>1, <3>2, <3>4 DEF NewsRouted
    <2>4. CASE /\ s = r /\ r \in Conns(T[q]) /\ i > Len(w[s][q])
               /\ Sayable(r, c, m, q, known[r], x)
               /\ x = m => q \in Dest(r, T[r], m)
        <3>1. CASE x.type = "NET_NEW"
            BY <3>1 DEF NewsRouted
        <3>2. CASE x = m /\ m.type = "USER_NEW"
            <4>1. m.dst = BROADCAST /\ m.src = m.d
                BY <2>4, <3>2 DEF NewsOf, Dest
            <4>2. Due(T, v, s, q, x, i - 1)
                BY DEF Lossless, ToldBefore
            <4>3. Told(T, v, q, s, x.d, i - 1)
                BY <3>2, <4>1, <4>2 DEF Due
            <4>4. QED
                BY <3>2, <4>1, <4>3 DEF NewsRouted
        <3>3. CASE m.type = "ENUM_REQUEST" /\ q = c /\ \E d \in known[r] : IsReply(r, c, x, d)
            <4>1. PICK d \in known[r] : IsReply(r, c, x, d)
                BY <3>3
            <4>2. x.dst = q /\ x.dst # BROADCAST /\ x.d = d /\ d \in Nets /\ d \in AllNets(table[r])
                BY <1>1, <3>3, <4>1, NamesAssumption DEF IsReply, Node, Shape, Routed, UsersRoutable
            <4>3. q \in Conns(table[r]) /\ r \in Conns(table[q]) /\ q # r
                <5>1. q \in Conns(table[r]) /\ q # r
                    BY <1>1, <3>3, AllLead
                <5>2. T[q] = table[q]
                    BY <1>1, <5>1 DEF Heard
                <5>3. QED
                    BY <2>4, <5>1, <5>2
            <4>4. d \in AllNets(table[q]) \/ Told(table, wire, q, r, d, Len(wire[r][q]))
                BY <4>2, <4>3, ReplyRouted
            <4>5. AllNets(table[q]) \subseteq AllNets(T[q])
                BY <1>1, HeardLarger, NetsLarger
            <4>6. CASE Told(table, wire, q, r, d, Len(wire[r][q]))
                <5> DEFINE n == Len(wire[r][q])
                           k == i - 1
                <5>1. n \in Int /\ n <= n /\ Told(table, wire, q, r, d, n)
                    BY <1>1, <4>6 DEF Wires
                <5>2. n = Len(w[r][q])
                    BY <4>3 , <3>3, <1>1 DEF Taken
                <5>3. k \in Int /\ n <= k /\ n <= Len(w[r][q])
                    BY <2>2, <2>4, <5>1, <5>2
                <5>4. ~(r = c /\ q = r)
                    BY <4>3
                <5> HIDE DEF n, k, T, v
                <5>5. Told(T, w, q, r, d, n)
                    BY <1>1, <4>3, <5>1, <5>4, ToldShift DEF n
                <5>6. Told(T, v, q, r, d, k)
                    BY <1>1, <2>1, <2>4, <5>1, <5>3, <5>5, ToldOn
                <5>7. QED
                    BY <2>4, <4>2, <5>6 DEF NewsRouted, k
            <4>7. QED
                BY <4>2, <4>4, <4>5, <4>6 DEF NewsRouted
        <3>4. CASE x = m /\ m.type # "USER_NEW"
            BY <3>4 DEF NewsRouted
        <3>5. QED
            BY <2>4, <3>1, <3>2, <3>3, <3>4 DEF Sayable
    <2>5. QED
        BY <1>1, <2>3, <2>4, ServedQueue
<1>3. UsersRoutable'
    BY ServedRoutable
<1>4. QED
    BY <1>2, <1>3 DEF Routed

\* Who is gone knows nobody, and is told nothing.
LEMMA FailedRouted ==
    ASSUME Sound, Routed, NEW r \in Routers, NEW c, NEW w, NEW m,
           Ready(w, r, c, m), Failed(w, r, c, m)
    PROVE  Routed'
<1>1. Shape /\ w \in Wires /\ Taken(w, r, c, m)
    BY DEF Sound, Ready
<1>2. /\ known'[r] = {} /\ \A q \in Routers : q # r => table'[q] = table[q] /\ known'[q] = known[q]
      /\ \A s, q \in Routers : wire'[s][q] = IF q = r THEN <<>> ELSE w[s][q]
    BY <1>1 DEF Failed, Gone, Shape, Wires
<1>3. UsersRoutable'
    BY <1>2 DEF Routed, UsersRoutable
<1>4. ASSUME NEW s \in Routers, NEW q \in Routers, NEW i \in DOMAIN wire'[s][q]
      PROVE  NewsRouted(table', wire', s, q, i)
    <2>1. q # r
        <3>1. CASE q = r
            <4>1. wire'[s][q] = <<>>
                BY <1>2, <3>1
            <4>2. QED
                BY <4>1
        <3>2. QED
            BY <3>1
    <2>2. wire'[s][q] = wire[s][q] /\ table'[q] = table[q]
        BY <1>1, <1>2, <2>1 DEF Taken
    <2>3. NewsRouted(table, wire, s, q, i)
        BY <2>2 DEF Routed
    <2>4. QED
        BY <2>2, <2>3 DEF NewsRouted, Told
<1>5. QED
    BY <1>3, <1>4 DEF Routed

\* New nets and links, and what is said of them, make nobody known.
LEMMA GrowRouted ==
    ASSUME Sound, Routed, Larger(table'), known' = known,
           \A s, q \in Routers : Announces(wire[s][q], wire'[s][q], {"NET_NEW", "ENUM_REQUEST"}),
           wire' \in Wires
    PROVE  Routed'
<1>1. UsersRoutable'
    BY NetsLarger DEF Routed, UsersRoutable
<1>2. ASSUME NEW s \in Routers, NEW q \in Routers, NEW i \in DOMAIN wire'[s][q]
      PROVE  NewsRouted(table', wire', s, q, i)
    <2> DEFINE a == wire[s][q]
               b == wire'[s][q]
    <2>1. /\ Len(a) <= Len(b) /\ (\A j \in 1 .. Len(a) : b[j] = a[j])
          /\ \A j \in Len(a) + 1 .. Len(b) : b[j].type \in {"NET_NEW", "ENUM_REQUEST"}
        BY DEF Announces
    <2>2. a \in Seq(Messages) /\ b \in Seq(Messages) /\ wire \in Wires
        BY DEF Wires, Sound, Shape
    <2> HIDE DEF a, b
    <2>3. i \in 1 .. Len(b) /\ i \in Int /\ Len(a) \in Nat
        BY <2>2 DEF b
    <2>4. CASE i \in 1 .. Len(a)
        <3> DEFINE x == b[i]
                   n == x.d
                   k == i - 1
        <3>1. i \in DOMAIN a /\ a[i] = x
            BY <2>1, <2>2, <2>4
        <3>2. NewsRouted(table, wire, s, q, i)
            BY <3>1 DEF Routed, a
        <3>3. s \in Conns(table[q])
            <4>1. a # <<>>
                BY <3>1
            <4>2. QED
                BY <4>1 DEF Sound, OnLinks, a
        <3>4. Told(table, wire, q, s, n, k) => Told(table', wire', q, s, n, k)
            <4> HIDE DEF n
            <4>1. Told(table, wire, q, s, n, k) => Told(table', wire, q, s, n, k)
                BY <3>3, ToldLarger
            <4>2. k \in Int /\ k <= Len(wire[s][q]) /\ k <= k
                BY <2>3, <2>4 DEF a
            <4> HIDE DEF k
            <4>3. Told(table', wire, q, s, n, k) => Told(table', wire', q, s, n, k)
                BY <2>1, <2>2, <4>2, ToldOn DEF a, b
            <4>4. QED
                BY <4>1, <4>3
        <3>5. AllNets(table[q]) \subseteq AllNets(table'[q])
            BY NetsLarger
        <3>6. QED
            BY <3>1, <3>2, <3>4, <3>5 DEF NewsRouted, a, b
    <2>5. CASE i \notin 1 .. Len(a)
        <3>1. i \in Len(a) + 1 .. Len(b)
            BY <2>3, <2>5
        <3>2. QED
            BY <2>1, <3>1 DEF NewsRouted, b
    <2>6. QED
        BY <2>4, <2>5
<1>3. QED
    BY <1>1, <1>2 DEF Routed

\* Two types are among three.
LEMMA AnnouncesMore ==
    ASSUME NEW a, NEW b, NEW S, NEW R, S \subseteq R, Announces(a, b, S)
    PROVE  Announces(a, b, R)
BY DEF Announces

\* A new net
LEMMA AttachRouted ==
    ASSUME Tree, Sound, Sound', Routed, NEW r \in Routers, NEW l \in Nets, AttachLocal(r, l)
    PROVE  Routed'
<1>1. Attached(r, l)
    BY AttachSends
<1>2. Larger(table')
    BY <1>1 DEF Attached, Larger, BranchesOf
<1>3. \A s, q \in Routers : Announces(wire[s][q], wire'[s][q], {"NET_NEW", "ENUM_REQUEST"})
    BY <1>1, AnnouncesMore DEF Attached
<1>4. QED
    BY <1>2, <1>3, GrowRouted DEF AttachLocal, Sound, Shape

\* The tables after a link was made
LEMMA LinkUpLarger ==
    ASSUME NEW r \in Routers, NEW s \in Routers, LinkedUp(r, s)
    PROVE  Larger(table')
<1> SUFFICES ASSUME NEW q \in Routers, NEW c \in Conns(table[q])
             PROVE  c \in Conns(table'[q]) /\ BranchesOf(table[q], c) \subseteq BranchesOf(table'[q], c)
    BY DEF Larger
<1>1. c \in Conns(table'[q]) /\ table'[q][c] = table[q][c]
    BY DEF LinkedUp
<1>2. QED
    BY <1>1 DEF BranchesOf

\* A new link
LEMMA LinkUpRouted ==
    ASSUME Tree, Sound, Sound', Routed, NEW r \in Routers, NEW s \in Routers, LinkUp(r, s)
    PROVE  Routed'
<1>1. LinkedUp(r, s)
    BY LinkUpSends
<1>2. \A p, q \in Routers : Announces(wire[p][q], wire'[p][q], {"NET_NEW", "ENUM_REQUEST"})
    <2> TAKE p, q \in Routers
    <2>1. Announces(wire[p][q], wire'[p][q], Greeted(r, s, p, q))
        BY <1>1 DEF LinkedUp
    <2>2. Greeted(r, s, p, q) \subseteq {"NET_NEW", "ENUM_REQUEST"}
        BY DEF Greeted
    <2>3. QED
        BY <2>1, <2>2, AnnouncesMore
<1>3. QED
    BY <1>1, <1>2, LinkUpLarger, GrowRouted DEF LinkUp, Sound, Shape

\* A message
LEMMA ReceiveRouted ==
    ASSUME Tree, Sound, Lossless, Routed, Sound', Lossless', NEW r \in Routers, NEW s \in Routers,
           Receive(r, s)
    PROVE  Routed'
<1>1. PICK w, m : Ready(w, r, s, m)
    BY ReceiveReady
<1>2. 1 \in DOMAIN wire[s][r] /\ wire[s][r][1] = m /\ s \in Conns(table[r])
    <2>1. w[s][r] \in Seq(Messages) /\ wire[s][r] \in Seq(Messages)
        BY <1>1 DEF Ready, Wires, Sound, Shape
    <2>2. Len(wire[s][r]) = Len(w[s][r]) + 1 /\ wire[s][r][1] = m
        BY <1>1 DEF Ready, Taken
    <2>3. QED
        BY <1>1, <2>1, <2>2 DEF Ready
<1>3. NewsRouted(table, wire, s, r, 1)
    BY <1>2 DEF Routed
<1>4. \A n : Told(table, wire, r, s, n, 1 - 1) => n \in AllNets(table[r])
    BY <1>2 DEF Told, AllNets, Root
<1>5. NewsOf(r, s, m)
    BY <1>2, <1>3, <1>4 DEF NewsRouted, NewsOf
<1>6. CASE Served(w, r, s, m)
    BY <1>1, <1>5, <1>6, ServedRouted
<1>7. CASE Failed(w, r, s, m)
    BY <1>1, <1>7, FailedRouted
<1>8. QED
    BY <1>1, <1>6, <1>7, ReadyServes

\* What a user does
LEMMA FromLocalRouted ==
    ASSUME Tree, Sound, Lossless, Routed, Sound', Lossless', NEW l \in Nets, NEW type \in LocalTypes,
           NEW dst \in Node \cup {Null, BROADCAST}, type = "USER_NEW" => dst = BROADCAST,
           FromLocal(l, type, dst)
    PROVE  Routed'
<1>1. PICK m : Ready(wire, Home[l], l, m) /\ m.type = type /\ m.src = l /\ m.dst = dst /\ m.d = l
    BY FromLocalReady
<1> DEFINE r == Home[l]
<1>2. r \in Routers /\ l \in Conns(table[r])
    BY <1>1, RouterNetAssumption DEF Ready
<1> HIDE DEF r
<1>3. NewsOf(r, l, m)
    BY <1>1, <1>2 DEF NewsOf, AllNets, Root
<1>4. Ready(wire, r, l, m)
    BY <1>1 DEF r
<1>5. CASE Served(wire, r, l, m)
    BY <1>2, <1>3, <1>4, <1>5, ServedRouted
<1>6. CASE Failed(wire, r, l, m)
    BY <1>2, <1>4, <1>6, FailedRouted
<1>7. QED
    BY <1>2, <1>4, <1>5, <1>6, ReadyServes

\* The users' acts are such.
LEMMA UserActs ==
    ASSUME Sound, NEW l \in Nets, SignOn(l) \/ SignOff(l) \/ Speak(l)
    PROVE  \E type \in LocalTypes, dst \in Node \cup {Null, BROADCAST} :
               (type # "PRIVATE" => dst = BROADCAST) /\ FromLocal(l, type, dst)
<1>1. CASE SignOn(l) \/ SignOff(l) \/ \E type \in {"MODE", "TEXT"} : FromLocal(l, type, BROADCAST)
    <2>1. PICK type \in LocalTypes : FromLocal(l, type, BROADCAST)
        BY <1>1 DEF SignOn, SignOff, LocalTypes
    <2>2. QED
        BY <2>1
<1>2. CASE \E u \in known[Home[l]] \ {l} : FromLocal(l, "PRIVATE", u)
    <2>1. PICK u \in known[Home[l]] \ {l} : FromLocal(l, "PRIVATE", u)
        BY <1>2
    <2>2. u \in Node
        BY RouterNetAssumption DEF Sound, Shape, Node
    <2>3. "PRIVATE" \in LocalTypes
        BY DEF LocalTypes
    <2>4. QED
        BY <2>1, <2>2, <2>3
<1>3. QED
    BY <1>1, <1>2 DEF Speak

\* There is nobody yet.
LEMMA RoutedInit ==
    ASSUME Init
    PROVE  Routed
<1>1. \A s, r \in Routers : DOMAIN wire[s][r] = {}
    BY DEF Init
<1>2. QED
    BY <1>1 DEF Routed, UsersRoutable, Init

\* Every step keeps it.
LEMMA RoutedNext ==
    ASSUME Tree, MaxCuts = 0, Sound, Lossless, Routed, Sound', Lossless', [Next]_vars
    PROVE  Routed'
<1>1. ASSUME table' = table, known' = known, wire' = wire PROVE Routed'
    BY <1>1 DEF Routed, UsersRoutable
<1>2. CASE UNCHANGED vars
    BY <1>1, <1>2 DEF vars
<1>3. ASSUME NEW r \in Routers, Start(r) PROVE Routed'
    <2>1. CASE Boot(r) \/ GoUp(r) \/ \E s \in Routers : LinkFails(r, s)
        BY <1>1, <2>1 DEF Boot, GoUp, LinkFails
    <2>2. CASE \E l \in Nets : AttachLocal(r, l)
        BY <2>2, AttachRouted
    <2>3. CASE \E s \in Routers : LinkUp(r, s)
        BY <2>3, LinkUpRouted
    <2>4. QED
        BY <1>3, <2>1, <2>2, <2>3 DEF Start
<1>4. ASSUME NEW r \in Routers, Serve(r) PROVE Routed'
    BY <1>4, ReceiveRouted DEF Serve
<1>5. ASSUME NEW l \in Nets, SignOn(l) \/ SignOff(l) \/ Speak(l) PROVE Routed'
    <2>1. PICK type \in LocalTypes, dst \in Node \cup {Null, BROADCAST} :
               (type # "PRIVATE" => dst = BROADCAST) /\ FromLocal(l, type, dst)
        BY <1>5, UserActs
    <2>2. type = "USER_NEW" => dst = BROADCAST
        BY <2>1
    <2>3. QED
        BY <2>1, <2>2, FromLocalRouted
<1>6. ASSUME NEW r \in Routers, NEW s \in Routers, Cut(r, s) PROVE FALSE
    BY <1>6 DEF Cut, Lossless
<1>7. QED
    BY <1>2, <1>3, <1>4, <1>5, <1>6 DEF Next

\* As long as no link is lost, no router knows a user whose net it has no route
\* to, whatever order nets, users and links come up in (usercache_add_user,
\* routetbl_add_branch).
THEOREM UsersStayRoutable ==
    ASSUME Tree, MaxCuts = 0
    PROVE  Spec => []UsersRoutable
<1> DEFINE Inv == Sound /\ Lossless /\ Routed
<1>1. Init => Inv
    BY SoundInit, LosslessInit, RoutedInit
<1>2. Inv /\ [Next]_vars => Inv'
    BY SoundNext, LosslessNext, RoutedNext
<1>3. Inv => UsersRoutable
    BY DEF Routed
<1>4. QED
    BY <1>1, <1>2, <1>3, PTL DEF Spec

-----------------------------------------------------------------------------
(***************************************************************************)
(* All routers know the same users.                                        *)
(***************************************************************************)

\* Who calls calls one router.
OneCall == \A r, s, t \in Routers : <<r, s>> \in Calls /\ <<r, t>> \in Calls => s = t

\* Who knows the users K, and then reads the first i messages of q, knows l.
Heeds(K, q, l, i) ==
    \/ \E j \in 1 .. i : IsNew(q[j], l) /\ \A k \in j + 1 .. i : ~IsLost(q[k], l)
    \/ l \in K /\ \A k \in 1 .. i : ~IsLost(q[k], l)

\* Only the messages that are read count.
LEMMA HeedsSame ==
    ASSUME NEW K, NEW J, NEW a, NEW b, NEW l, l \in K <=> l \in J, NEW i \in Nat,
           \A j \in 1 .. i : b[j] = a[j]
    PROVE  Heeds(K, a, l, i) <=> Heeds(J, b, l, i)
<1>1. ASSUME NEW G, NEW H, NEW x, NEW y, l \in G <=> l \in H, \A j \in 1 .. i : y[j] = x[j],
             Heeds(G, x, l, i)
      PROVE  Heeds(H, y, l, i)
    <2>1. CASE l \in G /\ \A k \in 1 .. i : ~IsLost(x[k], l)
        BY <1>1, <2>1 DEF Heeds
    <2>2. ASSUME NEW j \in 1 .. i, IsNew(x[j], l), \A k \in j + 1 .. i : ~IsLost(x[k], l)
          PROVE  Heeds(H, y, l, i)
        <3>1. \A k \in j + 1 .. i : k \in 1 .. i
            OBVIOUS
        <3>2. \A k \in j + 1 .. i : ~IsLost(y[k], l)
            BY <1>1, <2>2, <3>1
        <3>3. IsNew(y[j], l)
            BY <1>1, <2>2
        <3>4. QED
            BY <3>2, <3>3 DEF Heeds
    <2>3. QED
        BY <1>1, <2>1, <2>2 DEF Heeds
<1>2. QED
    BY <1>1

\* Who is known stays so until the news that he has left.
LEMMA HeedsOn ==
    ASSUME NEW K, NEW a, NEW l, NEW i \in Nat, NEW n \in Nat, i <= n, Heeds(K, a, l, i),
           \A j \in i + 1 .. n : ~IsLost(a[j], l)
    PROVE  Heeds(K, a, l, n)
<1>1. CASE l \in K /\ \A k \in 1 .. i : ~IsLost(a[k], l)
    <2>1. \A k \in 1 .. n : k \in 1 .. i \/ k \in i + 1 .. n
        OBVIOUS
    <2>2. QED
        BY <1>1, <2>1 DEF Heeds
<1>2. ASSUME NEW j \in 1 .. i, IsNew(a[j], l), \A k \in j + 1 .. i : ~IsLost(a[k], l)
      PROVE  Heeds(K, a, l, n)
    <2>1. \A k \in j + 1 .. n : k \in j + 1 .. i \/ k \in i + 1 .. n
        OBVIOUS
    <2>2. \A k \in j + 1 .. n : ~IsLost(a[k], l)
        BY <1>2, <2>1
    <2>3. j \in 1 .. n
        OBVIOUS
    <2>4. QED
        BY <1>2, <2>2, <2>3 DEF Heeds
<1>3. QED
    BY <1>1, <1>2 DEF Heeds

\* Who is known was so before what is no news of him.
LEMMA HeedsBack ==
    ASSUME NEW K, NEW a, NEW l, NEW i \in Nat, NEW n \in Nat, i <= n, Heeds(K, a, l, n),
           \A j \in i + 1 .. n : ~IsNew(a[j], l)
    PROVE  Heeds(K, a, l, i)
<1>1. CASE l \in K /\ \A k \in 1 .. n : ~IsLost(a[k], l)
    <2>1. \A k \in 1 .. i : k \in 1 .. n
        OBVIOUS
    <2>2. QED
        BY <1>1, <2>1 DEF Heeds
<1>2. ASSUME NEW j \in 1 .. n, IsNew(a[j], l), \A k \in j + 1 .. n : ~IsLost(a[k], l)
      PROVE  Heeds(K, a, l, i)
    <2>1. j \in 1 .. i
        BY <1>2
    <2>2. \A k \in j + 1 .. i : k \in j + 1 .. n
        OBVIOUS
    <2>3. \A k \in j + 1 .. i : ~IsLost(a[k], l)
        BY <1>2, <2>2
    <2>4. QED
        BY <1>2, <2>1, <2>3 DEF Heeds
<1>3. QED
    BY <1>1, <1>2 DEF Heeds

\* The last news count.
LEMMA HeedsLast ==
    ASSUME NEW K, NEW a, NEW l, NEW n \in Nat, NEW j \in 1 .. n
    PROVE  /\ IsNew(a[j], l) /\ (\A k \in j + 1 .. n : ~IsLost(a[k], l)) => Heeds(K, a, l, n)
           /\ IsLost(a[j], l) /\ (\A k \in j + 1 .. n : ~IsNew(a[k], l)) => ~Heeds(K, a, l, n)
<1>1. ~(IsNew(a[j], l) /\ IsLost(a[j], l))
    BY DEF IsNew, IsLost
<1>2. ASSUME IsLost(a[j], l), \A k \in j + 1 .. n : ~IsNew(a[k], l),
             NEW i \in 1 .. n, IsNew(a[i], l), \A k \in i + 1 .. n : ~IsLost(a[k], l)
      PROVE  FALSE
    <2>1. i # j
        BY <1>1, <1>2
    <2>2. i \in j + 1 .. n \/ j \in i + 1 .. n
        BY <2>1
    <2>3. QED
        BY <1>2, <2>2
<1>3. QED
    BY <1>2 DEF Heeds

\* Reading the first message
LEMMA HeedsShift ==
    ASSUME NEW K, NEW J, NEW a, NEW b, NEW m, NEW l, NEW n \in Nat,
           a[1] = m, \A i \in 1 .. n : a[i + 1] = b[i],
           l \in J <=> IsNew(m, l) \/ (l \in K /\ ~IsLost(m, l))
    PROVE  Heeds(K, a, l, n + 1) <=> Heeds(J, b, l, n)
<1>1. \A i \in 1 .. n + 1 : i = 1 \/ (i - 1 \in 1 .. n /\ a[i] = b[i - 1])
    <2> TAKE i \in 1 .. n + 1
    <2>1. i = 1 \/ (i - 1 \in 1 .. n /\ (i - 1) + 1 = i)
        OBVIOUS
    <2>2. QED
        BY <2>1
<1>2. ASSUME Heeds(K, a, l, n + 1) PROVE Heeds(J, b, l, n)
    <2>1. ASSUME NEW j \in 1 .. n + 1, \A k \in j + 1 .. n + 1 : ~IsLost(a[k], l)
          PROVE  \A k \in j .. n : ~IsLost(b[k], l)
        <3> TAKE k \in j .. n
        <3>1. k + 1 \in j + 1 .. n + 1 /\ k \in 1 .. n
            OBVIOUS
        <3>2. QED
            BY <2>1, <3>1
    <2>2. ASSUME NEW j \in 1 .. n + 1, IsNew(a[j], l), \A k \in j + 1 .. n + 1 : ~IsLost(a[k], l)
          PROVE  Heeds(J, b, l, n)
        <3>1. \A k \in j .. n : ~IsLost(b[k], l)
            BY <2>1, <2>2
        <3>2. CASE j = 1
            <4>1. l \in J
                BY <2>2, <3>2
            <4>2. QED
                BY <3>1, <3>2, <4>1 DEF Heeds
        <3>3. CASE j # 1
            <4>1. j - 1 \in 1 .. n /\ a[j] = b[j - 1] /\ (j - 1) + 1 .. n = j .. n
                BY <1>1, <3>3
            <4>2. QED
                BY <2>2, <3>1, <4>1 DEF Heeds
        <3>4. QED
            BY <3>2, <3>3
    <2>3. CASE l \in K /\ \A k \in 1 .. n + 1 : ~IsLost(a[k], l)
        <3>1. 1 \in 1 .. n + 1 /\ \A k \in 1 .. n : k + 1 \in 1 .. n + 1
            OBVIOUS
        <3>2. l \in J /\ \A k \in 1 .. n : ~IsLost(b[k], l)
            BY <2>3, <3>1
        <3>3. QED
            BY <3>2 DEF Heeds
    <2>4. QED
        BY <1>2, <2>2, <2>3 DEF Heeds
<1>3. ASSUME Heeds(J, b, l, n) PROVE Heeds(K, a, l, n + 1)
    <2>1. ASSUME NEW j \in 0 .. n, \A k \in j + 1 .. n : ~IsLost(b[k], l)
          PROVE  \A k \in j + 2 .. n + 1 : ~IsLost(a[k], l)
        <3> TAKE k \in j + 2 .. n + 1
        <3>1. k \in 1 .. n + 1 /\ k # 1 /\ k - 1 \in j + 1 .. n
            OBVIOUS
        <3>2. QED
            BY <1>1, <2>1, <3>1
    <2>2. ASSUME NEW j \in 1 .. n, IsNew(b[j], l), \A k \in j + 1 .. n : ~IsLost(b[k], l)
          PROVE  Heeds(K, a, l, n + 1)
        <3>1. \A k \in j + 2 .. n + 1 : ~IsLost(a[k], l)
            BY <2>1, <2>2
        <3>2. j + 1 \in 1 .. n + 1 /\ (j + 1) + 1 = j + 2 /\ a[j + 1] = b[j]
            OBVIOUS
        <3>3. QED
            BY <2>2, <3>1, <3>2 DEF Heeds
    <2>3. CASE l \in J /\ \A k \in 1 .. n : ~IsLost(b[k], l)
        <3>1. \A k \in 2 .. n + 1 : ~IsLost(a[k], l)
            <4>1. \A k \in 0 + 1 .. n : ~IsLost(b[k], l)
                BY <2>3
            <4>2. \A k \in 0 + 2 .. n + 1 : ~IsLost(a[k], l)
                BY <2>1, <4>1
            <4>3. QED
                BY <4>2
        <3>2. 1 \in 1 .. n + 1 /\ 1 + 1 = 2 /\ \A k \in 1 .. n + 1 : k = 1 \/ k \in 2 .. n + 1
            OBVIOUS
        <3>3. CASE IsNew(m, l)
            BY <3>1, <3>2, <3>3 DEF Heeds
        <3>4. CASE l \in K /\ ~IsLost(m, l)
            BY <3>1, <3>2, <3>4 DEF Heeds
        <3>5. QED
            BY <2>3, <3>3, <3>4
    <2>4. QED
        BY <1>3, <2>2, <2>3 DEF Heeds
<1>4. QED
    BY <1>2, <1>3

Words == {"MODE", "TEXT", "PRIVATE"}

\* p has one link at most.
Alone(p) == \A x, y \in Conns(table[p]) \cap Routers : x = y

\* What answers a request
Reply(m) == m.type = "USER_NEW" /\ m.dst # BROADCAST

Asked(r, s) == \E i \in DOMAIN wire[r][s] : wire[r][s][i].type = "ENUM_REQUEST"

\* s passes to r what users on its side do, ...
Speaks(s, r, m) ==
    /\ m.type \in LocalTypes => m.d \in Beyond[r][s]
    /\ m.type \in {"USER_LOST", "MODE", "TEXT"} => m.dst = BROADCAST
    /\ m.type = "USER_NEW" => m.dst \in {BROADCAST, r}
    /\ m.type \in LocalTypes /\ m.dst # r => m.src = m.d
    /\ m.type = "PRIVATE" => m.dst \in Nets

TheirSide == \A s, r \in Routers : \A i \in DOMAIN wire[s][r] : Speaks(s, r, wire[s][r][i])

\* ... both ends have a link, nobody is dead, and who starts knows nobody and has
\* links to those it calls, ...
Peers ==
    /\ \A r, s \in Routers : s \in Conns(table[r]) => r \in Conns(table[s])
    /\ \A r \in Routers : phase[r] # "dead"
    /\ \A r \in Routers : phase[r] \in {"off", "starting"} =>
           /\ known[r] = {}
           /\ \A s \in Conns(table[r]) \cap Routers : <<r, s>> \in Calls
    /\ \A r \in Routers : \A s \in todo[r] \cap Routers : <<r, s>> \in Calls

\* ... a user is known through a connection, ...
KnownThrough == \A r \in Routers : \A l \in known[r] : \E c \in Conns(table[r]) : l \in Beyond[r][c]

\* ... a request comes before the users of its side, ...
AsksFirst ==
    \A s, r \in Routers : \A i \in DOMAIN wire[s][r] : wire[s][r][i].type = "ENUM_REQUEST" =>
        /\ \A j \in 1 .. i : wire[s][r][j].type \in {"NET_NEW", "ENUM_REQUEST"}
        /\ known[r] \cap Beyond[r][s] = {}

\* ... a reply is news only to who has no other link, ...
RepliesPlain ==
    \A s, r \in Routers : \A i \in DOMAIN wire[s][r] : Reply(wire[s][r][i]) =>
        Alone(r) \/ Heeds(known[r], wire[s][r], wire[s][r][i].d, i - 1)

\* ... when r has read what s has sent, it knows of the users on the side of s the
\* same as s, unless it has asked, ...
Same(s, r, l) ==
    /\ Heeds(known[r], wire[s][r], l, Len(wire[s][r])) => l \in known[s]
    /\ l \in known[s] => \/ Heeds(known[r], wire[s][r], l, Len(wire[s][r]))
                         \/ Asked(r, s) /\ Alone(r)

SameUsers ==
    \A s, r \in Routers : s \in Conns(table[r]) => \A l \in Nets \cap Beyond[r][s] : Same(s, r, l)

\* ... words come from who is known, ...
WordsKnown ==
    \A s, r \in Routers : \A i \in DOMAIN wire[s][r] : wire[s][r][i].type \in Words =>
        Heeds(known[r], wire[s][r], wire[s][r][i].d, i - 1)

\* ... not while users are enumerated, ...
OneAtATime == ~(Enumerating(Routers) /\ Talking)

\* ... and private words are for who is there.
Heeded ==
    \A s, r \in Routers : \A i \in DOMAIN wire[s][r] : wire[s][r][i].type = "PRIVATE" =>
        wire[s][r][i].dst \in known[Home[wire[s][r][i].dst]]

Informed ==
    /\ TheirSide /\ Peers /\ KnownThrough /\ AsksFirst /\ RepliesPlain
    /\ SameUsers /\ WordsKnown /\ OneAtATime /\ Heeded

\* What r may be told by c
Says(r, c, m) ==
    /\ Speaks(c, r, m)
    /\ m.type \in Words => m.d \in known[r] /\ ~Enumerating(Routers)
    /\ Reply(m) => (c \in Routers /\ Alone(r)) \/ m.d \in known[r]
    /\ m.type = "PRIVATE" => m.dst \in known[Home[m.dst]]
    /\ m.type = "USER_LOST" /\ Home[m.d] = r => ~Addressed(m.d)
    /\ m.type = "ENUM_REQUEST" => c \in Routers /\ Enumerating(Routers) /\ known[r] \cap Beyond[r][c] = {}

\* r is told m by c, and serves it.
Step(w, r, c, m) ==
    /\ Ready(w, r, c, m) /\ Says(r, c, m) /\ Served(w, r, c, m)
    /\ phase[r] = "up" /\ todo' = todo

\* Nothing is beyond a local net but the net.
LEMMA NetIsLeaf ==
    ASSUME NEW r \in Routers, NEW l \in Nets, Adjacent(r, l)
    PROVE  Home[l] = r /\ Beyond[r][l] = {l}
<1>1. l \in Node /\ r \in Node /\ l # r /\ l \notin Routers /\ r \notin Nets
    BY RouterNetAssumption DEF Node
<1>2. \A x \in Node : Adjacent(l, x) => x = Home[l]
    BY <1>1, RouterNetAssumption DEF Adjacent
<1>3. Home[l] = r
    BY <1>1, <1>2, AdjacentBoth
<1>4. \A y \in {l}, z \in Node : Adjacent(y, z) /\ z # r => z \in {l}
    BY <1>2, <1>3
<1> DEFINE S == {l}
<1>5. S \in SUBSET (Node \ {r}) /\ l \in S /\ \A y \in S, z \in Node : Adjacent(y, z) /\ z # r => z \in S
    BY <1>1, <1>4
<1> HIDE DEF S
<1>6. Beyond[r][l] \subseteq S
    BY <1>1, <1>5, BeyondLeast
<1>7. l \in Beyond[r][l]
    BY <1>1, BeyondFacts
<1>8. QED
    BY <1>3, <1>6, <1>7 DEF S

\* Where a message goes: away from where it comes from
LEMMA GoesOn ==
    ASSUME Tree, Sound, NEW r \in Routers, NEW c, NEW w, NEW m, Ready(w, r, c, m), Says(r, c, m),
           NEW T, Heard(T, r, c, m), NEW q \in Dest(r, T[r], m)
    PROVE  /\ q \in Conns(table[r]) /\ q # r /\ m.dst # r /\ m.dst # Null
           /\ q \in Routers => q # c
           /\ q \in Routers /\ m.type \in LocalTypes => m.d \in Beyond[q][r]
<1> DEFINE tbl == T[r]
<1>1. /\ c \in Conns(table[r]) /\ m \in Messages /\ Handles(r, c, m) /\ Fine(c, r, m) /\ Speaks(c, r, m)
      /\ Leads(r, tbl) /\ Conns(tbl) = Conns(table[r]) /\ BranchesOf(table[r], c) \subseteq BranchesOf(tbl, c)
    BY DEF Ready, Says, Heard
<1>2. m.dst # r /\ m.dst # Null /\ (m.dst = BROADCAST => q \in Targets(tbl, m.src))
      /\ (m.dst # BROADCAST => q \in Where(tbl, m.dst))
    BY DEF Dest
<1>3. q \in Conns(table[r]) /\ q \in Node /\ q # r /\ Adjacent(r, q)
    <2>1. q \in Conns(table[r])
        BY <1>1, <1>2 DEF Targets, Where
    <2>2. QED
        BY <2>1, AllLead
<1>4. c \in Node /\ c # r /\ Adjacent(r, c) /\ r \in Node
    BY <1>1, AllLead DEF Node
<1>5. ASSUME q \in Routers PROVE q # c
    <2>1. CASE m.dst = BROADCAST /\ m.type # "NET_NEW"
        <3>1. m.src \in Root(table[r], c)
            BY <1>1, <2>1 DEF Handles
        <3>2. m.src \in Root(tbl, c)
            BY <1>1, <3>1 DEF Root
        <3>3. QED
            BY <1>2, <2>1, <3>2 DEF Targets, Root
    <2>2. CASE m.dst = BROADCAST /\ m.type = "NET_NEW"
        <3>1. m.src = m.d /\ m.d \in BranchesOf(tbl, c)
            BY <1>1, <2>2 DEF Heard, Fine
        <3>2. QED
            BY <1>2, <2>2, <3>1 DEF Targets
    <2>3. CASE m.dst # BROADCAST
        <3> SUFFICES ASSUME q = c PROVE FALSE
            OBVIOUS
        <3>1. m.dst \in Node
            BY <1>1, <1>2, <2>3 DEF Messages
        <3>2. c \in Routers /\ c \notin Nets
            BY <1>5, RouterNetAssumption
        <3>3. m.dst \in Beyond[c][r]
            BY <1>1, <3>1, <3>2 DEF Handles
        <3>4. m.dst \in Beyond[r][c]
            <4>1. CASE m.dst = c
                BY <1>4, <4>1, BeyondFacts
            <4>2. CASE m.dst # c
                <5>1. m.dst \in BranchesOf(tbl, c)
                    BY <1>2, <2>3, <4>2 DEF Where
                <5>2. tbl[c] \in Seq(Beyond[r][c] \ {c})
                    BY <1>1 DEF Leads
                <5>3. QED
                    BY <5>1, <5>2 DEF BranchesOf, ToSet
            <4>3. QED
                BY <4>1, <4>2
        <3>5. QED
            BY <1>4, <3>3, <3>4, Sides
    <2>4. QED
        BY <2>1, <2>2, <2>3
<1>6. ASSUME q \in Routers, m.type \in LocalTypes PROVE m.d \in Beyond[q][r]
    <2>1. m.d \in Beyond[r][c]
        BY <1>1, <1>6 DEF Speaks
    <2>2. Beyond[r][c] \subseteq Beyond[q][r] \ {r}
        BY <1>3, <1>4, <1>5, <1>6, Nested
    <2>3. QED
        BY <2>1, <2>2
<1>7. QED
    BY <1>2, <1>3, <1>5, <1>6

\* No assertion fails of what may be told.
LEMMA SaysNoFailure ==
    ASSUME Tree, Sound, Informed, NEW r \in Routers, NEW c, NEW w, NEW m, Ready(w, r, c, m), Says(r, c, m)
    PROVE  ~Failed(w, r, c, m)
<1> SUFFICES ASSUME NEW K, NEW T, \A l : l \in K <=> IsNew(m, l) \/ (l \in known[r] /\ ~IsLost(m, l)),
                    Heard(T, r, c, m), AssertionFails(K, m, Dest(r, T[r], m))
             PROVE  FALSE
    BY DEF Failed
<1>1. m.type \in Words /\ \A l : l \in K <=> l \in known[r]
    BY DEF AssertionFails, Words, IsNew, IsLost
<1>2. m.d \in known[r] /\ m.type \in LocalTypes /\ Speaks(c, r, m)
    BY <1>1 DEF Says, Words, LocalTypes
<1>3. PICK q \in Dest(r, T[r], m) \cap Nets : m.src \notin K \/ (m.type = "PRIVATE" /\ m.dst \notin K)
    BY <1>1, <1>2 DEF AssertionFails
<1>4. q \in Conns(table[r]) /\ m.dst # r
    BY <1>3, GoesOn
<1>5. m.src \in K
    BY <1>1, <1>2, <1>4 DEF Speaks
<1>6. m.type = "PRIVATE" /\ m.dst \notin K
    BY <1>3, <1>5
<1>7. m.dst \in Nets /\ m.dst \in known[Home[m.dst]]
    BY <1>2, <1>6 DEF Says, Speaks
<1>8. q \in Where(T[r], m.dst) /\ Leads(r, T[r])
    <2>1. m.dst \in Node
        BY <1>7 DEF Node
    <2>2. m.dst # BROADCAST /\ m.dst # Null
        BY <2>1, NamesAssumption
    <2>3. QED
        BY <1>3, <1>4, <2>2 DEF Dest, Heard
<1>9. Adjacent(r, q) /\ Home[q] = r /\ Beyond[r][q] = {q}
    BY <1>3, <1>4, AllLead, NetIsLeaf
<1>10. m.dst = q
    <2>1. CASE m.dst \notin BranchesOf(T[r], q)
        BY <1>8, <2>1 DEF Where
    <2>2. CASE m.dst \in BranchesOf(T[r], q)
        <3>1. T[r][q] \in Seq(Beyond[r][q] \ {q})
            BY <1>8 DEF Leads, Where
        <3>2. QED
            BY <1>9, <2>2, <3>1 DEF BranchesOf, ToSet
    <2>3. QED
        BY <2>1, <2>2
<1>11. QED
    BY <1>1, <1>6, <1>7, <1>9, <1>10

-----------------------------------------------------------------------------
(***************************************************************************)
(* A message that may be told leaves all informed.                         *)
(***************************************************************************)

\* The k-th message from s to q was there, and is the i-th now.
Stayed(w, r, c, s, q, i, k) ==
    /\ k = (IF s = c /\ q = r THEN i + 1 ELSE i) /\ k \in DOMAIN wire[s][q]
    /\ i \in 1 .. Len(w[s][q]) /\ wire'[s][q][i] = wire[s][q][k]

\* The i-th message from r to q is new.
Added(w, r, c, m, q, i) ==
    /\ q \in Conns(table[r]) /\ r \in Conns(table[q]) /\ q # r
    /\ i \in Len(w[r][q]) + 1 .. Len(wire'[r][q]) /\ w[r][q] = wire[r][q]
    /\ Sayable(r, c, m, q, known[r], wire'[r][q][i])
    /\ wire'[r][q][i] = m => q \in Dest(r, table'[r], m)

\* What a step is about
LEMMA StepFacts ==
    ASSUME Sound, Sound', Informed, NEW r \in Routers, NEW c, NEW w, NEW m, Step(w, r, c, m)
    PROVE  /\ Shape /\ wire \in Wires /\ w \in Wires /\ wire' \in Wires
           /\ c \in Conns(table[r]) /\ c \in Node /\ c # r /\ Adjacent(r, c) /\ m \in Messages
           /\ Taken(w, r, c, m) /\ Heard(table', r, c, m) /\ Speaks(c, r, m) /\ Peers
           /\ \A q \in Routers : Conns(table'[q]) = Conns(table[q])
           /\ \A q \in Routers : q # r => known'[q] = known[q]
           /\ \A l : l \in known'[r] <=> IsNew(m, l) \/ (l \in known[r] /\ ~IsLost(m, l))
<1>1. c \in Conns(table[r])
    BY DEF Step, Ready
<1>2. c \in Node /\ c # r /\ Adjacent(r, c)
    BY <1>1, AllLead
<1>3. Heard(table', r, c, m)
    BY DEF Step, Served
<1>4. \A q \in Routers : Conns(table'[q]) = Conns(table[q])
    BY <1>3 DEF Heard
<1>5. QED
    BY <1>1, <1>2, <1>3, <1>4 DEF Step, Ready, Served, Says, Sound, Shape, Informed

\* Every message was there or is new.
LEMMA StepQueue ==
    ASSUME Tree, Sound, Sound', Informed, NEW r \in Routers, NEW c, NEW w, NEW m, Step(w, r, c, m),
           NEW s \in Routers, NEW q \in Routers, NEW i \in DOMAIN wire'[s][q]
    PROVE  (\E k : Stayed(w, r, c, s, q, i, k)) \/ (s = r /\ Added(w, r, c, m, q, i))
<1>1. /\ Shape /\ wire \in Wires /\ w \in Wires /\ wire' \in Wires /\ Taken(w, r, c, m)
      /\ c \in Conns(table[r]) /\ c # r /\ Peers /\ \A p \in Routers : Conns(table'[p]) = Conns(table[p])
    BY StepFacts
<1>2. Served(w, r, c, m)
    BY DEF Step
<1>3. i \in 1 .. Len(wire'[s][q]) /\ Len(w[s][q]) \in Nat /\ DOMAIN w[s][q] = 1 .. Len(w[s][q])
    <2>1. wire'[s][q] \in Seq(Messages) /\ w[s][q] \in Seq(Messages)
        BY <1>1 DEF Wires
    <2> DEFINE b == wire'[s][q]
    <2> HIDE DEF b
    <2>2. i \in DOMAIN b /\ b \in Seq(Messages)
        BY <2>1 DEF b
    <2>3. i \in 1 .. Len(b)
        BY <2>2
    <2>4. QED
        BY <2>1, <2>3 DEF b
<1>4. CASE Kept(w, wire', s, q, i)
    <2> DEFINE k == IF s = c /\ q = r THEN i + 1 ELSE i
    <2>1. i \in DOMAIN w[s][q] /\ wire'[s][q][i] = w[s][q][i]
        BY <1>4 DEF Kept
    <2>2. k \in DOMAIN wire[s][q] /\ wire[s][q][k] = w[s][q][i]
        BY <1>1, <2>1, WasThere
    <2>3. Stayed(w, r, c, s, q, i, k)
        BY <1>3, <2>1, <2>2 DEF Stayed
    <2> HIDE DEF k
    <2>4. QED
        BY <2>3
<1>5. CASE /\ s = r /\ r \in Conns(table'[q]) /\ i > Len(w[s][q])
           /\ Sayable(r, c, m, q, known[r], wire'[s][q][i])
           /\ wire'[s][q][i] = m => q \in Dest(r, table'[r], m)
    <2>1. r \in Conns(table[q])
        BY <1>1, <1>5
    <2>2. q \in Conns(table[r])
        BY <1>1, <2>1 DEF Peers
    <2>3. q # r
        BY <2>2, AllLead
    <2>4. w[r][q] = wire[r][q]
        BY <1>1, <2>3 DEF Taken
    <2>5. i \in Len(w[s][q]) + 1 .. Len(wire'[s][q])
        BY <1>3, <1>5
    <2>6. QED
        BY <1>5, <2>1, <2>2, <2>3, <2>4, <2>5 DEF Added
<1>6. QED
    BY <1>1, <1>2, <1>4, <1>5, ServedQueue

\* What r is told by c is not of users beyond another neighbour.
LEMMA StepOther ==
    ASSUME Tree, Sound, Sound', Informed, NEW r \in Routers, NEW c, NEW w, NEW m, Step(w, r, c, m),
           NEW s \in Conns(table[r]), s # c, NEW l \in Beyond[r][s]
    PROVE  ~IsNew(m, l) /\ ~IsLost(m, l) /\ (l \in known'[r] <=> l \in known[r])
<1>1. c \in Node /\ Adjacent(r, c) /\ Speaks(c, r, m) /\ s \in Node /\ Adjacent(r, s) /\ r \in Node
    BY StepFacts, AllLead DEF Node
<1>2. l \notin Beyond[r][c]
    BY <1>1 DEF Tree
<1>3. ~IsNew(m, l) /\ ~IsLost(m, l)
    BY <1>1, <1>2 DEF Speaks, IsNew, IsLost, LocalTypes
<1>4. QED
    BY <1>3, StepFacts

\* Who has read i messages after a step, and had read as many before, knows the
\* same users, but for what the step tells.
LEMMA StepHeeds ==
    ASSUME Tree, Sound, Sound', Informed, NEW r \in Routers, NEW c, NEW w, NEW m, Step(w, r, c, m),
           NEW s \in Routers, NEW q \in Routers, s \in Conns(table[q]), NEW l \in Beyond[q][s],
           NEW i \in 0 .. Len(w[s][q]), NEW k, k = IF s = c /\ q = r THEN i + 1 ELSE i
    PROVE  Heeds(known'[q], wire'[s][q], l, i) <=> Heeds(known[q], wire[s][q], l, k)
<1> DEFINE a == wire[s][q]
           b == wire'[s][q]
           K == known[q]
           J == known'[q]
<1>1. /\ Taken(w, r, c, m) /\ w \in Wires
      /\ \A p \in Routers : p # r => known'[p] = known[p]
      /\ \A x : x \in known'[r] <=> IsNew(m, x) \/ (x \in known[r] /\ ~IsLost(m, x))
    BY StepFacts
<1>2. \A j \in 1 .. Len(w[s][q]) : b[j] = w[s][q][j]
    BY <1>1, ServedKeeps DEF Step
<1>3. i \in Nat /\ \A j \in 1 .. i : j \in 1 .. Len(w[s][q])
    <2>1. Len(w[s][q]) \in Nat
        BY <1>1 DEF Wires
    <2>2. QED
        BY <2>1
<1>4. CASE s = c /\ q = r
    <2>1. a[1] = m /\ \A j \in 1 .. Len(w[s][q]) : a[j + 1] = w[s][q][j]
        BY <1>1, <1>4 DEF Taken
    <2>2. \A j \in 1 .. i : a[j + 1] = b[j]
        BY <1>2, <1>3, <2>1
    <2>3. l \in J <=> IsNew(m, l) \/ (l \in K /\ ~IsLost(m, l))
        BY <1>1, <1>4
    <2> HIDE DEF a, b, K, J
    <2>4. Heeds(K, a, l, i + 1) <=> Heeds(J, b, l, i)
        BY <1>3, <2>1, <2>2, <2>3, HeedsShift
    <2>5. QED
        BY <1>4, <2>4 DEF a, b, K, J
<1>5. CASE ~(s = c /\ q = r)
    <2>1. w[s][q] = a
        BY <1>1, <1>5 DEF Taken
    <2>2. \A j \in 1 .. i : b[j] = a[j]
        BY <1>2, <1>3, <2>1
    <2>3. l \in K <=> l \in J
        <3>1. CASE q # r
            BY <1>1, <3>1
        <3>2. CASE q = r
            BY <1>5, <3>2, StepOther
        <3>3. QED
            BY <3>1, <3>2
    <2> HIDE DEF a, b, K, J
    <2>4. Heeds(K, a, l, i) <=> Heeds(J, b, l, i)
        BY <1>3, <2>2, <2>3, HeedsSame
    <2>5. QED
        BY <1>5, <2>4 DEF a, b, K, J
<1>6. QED
    BY <1>4, <1>5

\* What comes from the other side of a link stays on it.
LEMMA StepTheirSide ==
    ASSUME Tree, Sound, Sound', Informed, NEW r \in Routers, NEW c, NEW w, NEW m, Step(w, r, c, m)
    PROVE  TheirSide'
<1> SUFFICES ASSUME NEW s \in Routers, NEW q \in Routers, NEW i \in DOMAIN wire'[s][q]
             PROVE  Speaks(s, q, wire'[s][q][i])
    BY DEF TheirSide
<1> DEFINE x == wire'[s][q][i]
<1>1. CASE \E k : Stayed(w, r, c, s, q, i, k)
    BY <1>1 DEF Stayed, Informed, TheirSide
<1>2. CASE s = r /\ Added(w, r, c, m, q, i)
    <2>1. /\ Heard(table', r, c, m) /\ Speaks(c, r, m) /\ Shape /\ q \in Conns(table[r]) /\ q # r
          /\ c \in Conns(table[r]) /\ Ready(w, r, c, m) /\ Says(r, c, m)
          /\ Sayable(r, c, m, q, known[r], x) /\ (x = m => q \in Dest(r, table'[r], m))
        BY <1>2, StepFacts DEF Added, Step
    <2>2. CASE x.type = "NET_NEW"
        BY <2>2 DEF Speaks, LocalTypes
    <2>3. CASE x = m
        <3>1. m.dst # r /\ (m.type \in LocalTypes => m.d \in Beyond[q][r])
            BY <2>1, <2>3, GoesOn
        <3>2. QED
            BY <1>2, <2>1, <2>3, <3>1 DEF Speaks, LocalTypes
    <2>4. ASSUME m.type = "ENUM_REQUEST", q = c, NEW d \in known[r], IsReply(r, c, x, d)
          PROVE  Speaks(r, q, x)
        <3>1. known[r] \cap Beyond[r][q] = {}
            BY <2>1, <2>4 DEF Says
        <3>2. PICK e \in Conns(table[r]) : d \in Beyond[r][e]
            BY DEF Informed, KnownThrough
        <3>3. e # q
            BY <3>1, <3>2
        <3>4. q \in Node /\ Adjacent(r, q) /\ e \in Node /\ Adjacent(r, e) /\ e # r /\ r \in Node
            BY <2>1, AllLead DEF Node
        <3>5. d \in Beyond[q][r]
            BY <2>1, <3>2, <3>3, <3>4, Nested
        <3>6. QED
            BY <2>4, <3>5 DEF Speaks, IsReply, LocalTypes
    <2>5. QED
        BY <1>2, <2>1, <2>2, <2>3, <2>4 DEF Sayable
<1>3. QED
    BY <1>1, <1>2, StepQueue

\* The links, and who starts
LEMMA StepPeers ==
    ASSUME Tree, Sound, Sound', Informed, NEW r \in Routers, NEW c, NEW w, NEW m, Step(w, r, c, m)
    PROVE  Peers'
<1>1. phase' = phase /\ todo' = todo /\ phase[r] = "up" /\ Peers
    BY DEF Step, Served, Informed
<1>2. /\ \A q \in Routers : Conns(table'[q]) = Conns(table[q])
      /\ \A q \in Routers : q # r => known'[q] = known[q]
    BY StepFacts
<1>3. QED
    BY <1>1, <1>2 DEF Peers

\* A user who is new is behind the connection the news came through.
LEMMA StepKnownThrough ==
    ASSUME Tree, Sound, Sound', Informed, NEW r \in Routers, NEW c, NEW w, NEW m, Step(w, r, c, m)
    PROVE  KnownThrough'
<1> SUFFICES ASSUME NEW q \in Routers, NEW l \in known'[q] PROVE \E e \in Conns(table[q]) : l \in Beyond[q][e]
    BY StepFacts DEF KnownThrough
<1>1. CASE l \in known[q]
    BY <1>1 DEF Informed, KnownThrough
<1>2. CASE l \notin known[q]
    <2>1. q = r /\ IsNew(m, l) /\ c \in Conns(table[r]) /\ Speaks(c, r, m)
        BY <1>2, StepFacts
    <2>2. l \in Beyond[r][c]
        BY <2>1 DEF IsNew, Speaks, LocalTypes
    <2>3. QED
        BY <2>1, <2>2
<1>3. QED
    BY <1>1, <1>2

\* Requests still come first.
LEMMA StepAsksFirst ==
    ASSUME Tree, Sound, Sound', Informed, NEW r \in Routers, NEW c, NEW w, NEW m, Step(w, r, c, m)
    PROVE  AsksFirst'
<1> SUFFICES ASSUME NEW s \in Routers, NEW q \in Routers, NEW i \in DOMAIN wire'[s][q],
                    wire'[s][q][i].type = "ENUM_REQUEST"
             PROVE  /\ \A j \in 1 .. i : wire'[s][q][j].type \in {"NET_NEW", "ENUM_REQUEST"}
                    /\ known'[q] \cap Beyond[q][s] = {}
    BY DEF AsksFirst
<1>1. /\ Taken(w, r, c, m) /\ w \in Wires /\ c \in Conns(table[r]) /\ Heard(table', r, c, m) /\ m \in Messages
      /\ \A p \in Routers : p # r => known'[p] = known[p]
      /\ \A x : x \in known'[r] <=> IsNew(m, x) \/ (x \in known[r] /\ ~IsLost(m, x))
    BY StepFacts
<1>2. CASE s = r /\ Added(w, r, c, m, q, i)
    <2>1. wire'[s][q][i] = m /\ q \in Dest(r, table'[r], m)
        BY <1>2 DEF Added, Sayable, IsReply
    <2>2. m.dst = Null
        BY <2>1 DEF Step, Ready, Fine
    <2>3. QED
        BY <2>1, <2>2 DEF Dest
<1>3. ASSUME NEW k, Stayed(w, r, c, s, q, i, k)
      PROVE  /\ \A j \in 1 .. i : wire'[s][q][j].type \in {"NET_NEW", "ENUM_REQUEST"}
             /\ known'[q] \cap Beyond[q][s] = {}
    <2> DEFINE a == wire[s][q]
               b == wire'[s][q]
    <2>1. /\ \A j \in 1 .. k : a[j].type \in {"NET_NEW", "ENUM_REQUEST"}
          /\ known[q] \cap Beyond[q][s] = {}
        BY <1>3 DEF Stayed, Informed, AsksFirst
    <2>2. k = (IF s = c /\ q = r THEN i + 1 ELSE i) /\ i \in 1 .. Len(w[s][q]) /\ Len(w[s][q]) \in Nat
        BY <1>1, <1>3 DEF Stayed, Wires
    <2>3. \A j \in 1 .. Len(w[s][q]) : b[j] = w[s][q][j]
        BY <1>1, ServedKeeps DEF Step
    <2>4. \A j \in 1 .. i : j \in 1 .. Len(w[s][q])
        BY <2>2
    <2>5. CASE s = c /\ q = r
        <3>1. a[1] = m /\ \A j \in 1 .. Len(w[s][q]) : a[j + 1] = w[s][q][j]
            BY <1>1, <2>5 DEF Taken
        <3> HIDE DEF a, b
        <3>2. \A j \in 1 .. i : j + 1 \in 1 .. k /\ 1 \in 1 .. k
            BY <2>2, <2>5
        <3>3. \A j \in 1 .. i : b[j].type \in {"NET_NEW", "ENUM_REQUEST"}
            BY <2>1, <2>3, <2>4, <3>1, <3>2
        <3>4. m.type \in {"NET_NEW", "ENUM_REQUEST"}
            BY <2>1, <2>2, <3>1, <3>2
        <3>5. \A x : x \in known'[r] <=> x \in known[r]
            BY <1>1, <3>4 DEF IsNew, IsLost
        <3>6. QED
            BY <2>1, <2>5, <3>3, <3>5 DEF b
    <2>6. CASE ~(s = c /\ q = r)
        <3>1. w[s][q] = a
            BY <1>1, <2>6 DEF Taken
        <3>2. \A j \in 1 .. i : b[j].type \in {"NET_NEW", "ENUM_REQUEST"}
            BY <2>1, <2>2, <2>3, <2>4, <2>6, <3>1
        <3>3. known'[q] \cap Beyond[q][s] = {}
            <4>1. CASE q # r
                BY <1>1, <2>1, <4>1
            <4>2. CASE q = r
                <5>1. s \in Conns(table[r])
                    <6>1. a # <<>>
                        BY <1>3 DEF Stayed
                    <6>2. QED
                        BY <4>2, <6>1 DEF Sound, OnLinks
                <5>2. \A x \in Beyond[r][s] : x \in known'[r] <=> x \in known[r]
                    BY <2>6, <4>2, <5>1, StepOther
                <5>3. QED
                    BY <2>1, <4>2, <5>2
            <4>3. QED
                BY <4>1, <4>2
        <3>4. QED
            BY <3>2, <3>3
    <2>7. QED
        BY <2>5, <2>6
<1>4. QED
    BY <1>2, <1>3, StepQueue

\* What is sent to a neighbour of r
LEMMA StepSends ==
    ASSUME Sound, Sound', Informed, NEW r \in Routers, NEW c, NEW w, NEW m, Step(w, r, c, m),
           NEW q \in Routers, r \in Conns(table[q])
    PROVE  Answered(r, c, m, q, Dest(r, table'[r], m), known[r], wire[r][q], wire'[r][q])
<1>1. q # r
    BY AllLead
<1>2. w[r][q] = wire[r][q] /\ r \in Conns(table'[q])
    BY <1>1, StepFacts DEF Taken
<1>3. QED
    BY <1>2 DEF Step, Served

\* Who stays known
LEMMA StayedHeeds ==
    ASSUME Tree, Sound, Sound', Informed, NEW r \in Routers, NEW c, NEW w, NEW m, Step(w, r, c, m),
           NEW s \in Routers, NEW q \in Routers, NEW i, NEW k, Stayed(w, r, c, s, q, i, k)
    PROVE  /\ s \in Conns(table[q])
           /\ \A l \in Beyond[q][s] : Heeds(known[q], wire[s][q], l, k - 1)
                                         => Heeds(known'[q], wire'[s][q], l, i - 1)
<1>1. s \in Conns(table[q])
    <2>1. wire[s][q] # <<>>
        BY DEF Stayed
    <2>2. QED
        BY <2>1 DEF Sound, OnLinks
<1> DEFINE j == i - 1
<1>2. j \in 0 .. Len(w[s][q]) /\ k - 1 = (IF s = c /\ q = r THEN j + 1 ELSE j)
    <2>1. w \in Wires
        BY StepFacts
    <2>2. Len(w[s][q]) \in Nat
        BY <2>1 DEF Wires
    <2>3. QED
        BY <2>2 DEF Stayed
<1> HIDE DEF j
<1> DEFINE n == k - 1
<1>3. n = (IF s = c /\ q = r THEN j + 1 ELSE j)
    BY <1>2
<1> HIDE DEF n
<1>4. \A l \in Beyond[q][s] : Heeds(known'[q], wire'[s][q], l, j) <=> Heeds(known[q], wire[s][q], l, n)
    BY <1>1, <1>2, <1>3, StepHeeds
<1>5. QED
    BY <1>1, <1>4 DEF j, n

\* Who is known to the reader of all there is, is known to who reads what is sent
\* besides, as long as nothing more is said of him.
LEMMA AddedHeeds ==
    ASSUME Sound, Sound', Informed, NEW r \in Routers, NEW c, NEW w, NEW m, Step(w, r, c, m),
           NEW q \in Routers, r \in Conns(table[q]), NEW l, ~IsLost(m, l),
           Heeds(known[q], wire[r][q], l, Len(wire[r][q])),
           NEW i \in Nat, Len(wire[r][q]) <= i, i <= Len(wire'[r][q])
    PROVE  Heeds(known'[q], wire'[r][q], l, i)
<1> DEFINE a == wire[r][q]
           b == wire'[r][q]
           K == known[q]
           to == Dest(r, table'[r], m)
<1>1. Answered(r, c, m, q, to, known[r], a, b)
    BY StepSends
<1>2. known'[q] = K /\ a \in Seq(Messages)
    <2>1. q # r
        BY AllLead
    <2>2. wire[r][q] \in Seq(Messages)
        BY StepFacts DEF Wires
    <2>3. QED
        BY <2>1, <2>2, StepFacts
<1> HIDE DEF a, b, K, to
<1>3. Len(a) \in Nat /\ \A j \in 1 .. Len(a) : b[j] = a[j]
    BY <1>1, <1>2 DEF Answered
<1>4. Heeds(K, b, l, Len(a))
    BY <1>3, HeedsSame DEF a, K
<1>5. ASSUME NEW j \in Len(a) + 1 .. i PROVE ~IsLost(b[j], l)
    <2>1. j \in Len(a) + 1 .. Len(b)
        BY <1>3, <1>5 DEF b
    <2>2. Sayable(r, c, m, q, known[r], b[j])
        BY <1>1, <2>1 DEF Answered
    <2>3. QED
        BY <2>2 DEF Sayable, IsReply, IsLost
<1>6. Heeds(K, b, l, i)
    <2>1. Len(a) <= i
        BY DEF a
    <2> DEFINE n == Len(a)
    <2> HIDE DEF n
    <2>2. Heeds(K, b, l, n) /\ n \in Nat /\ n <= i /\ \A j \in n + 1 .. i : ~IsLost(b[j], l)
        BY <1>3, <1>4, <1>5, <2>1 DEF n
    <2>3. QED
        BY <2>2, HeedsOn
<1>7. QED
    BY <1>2, <1>6 DEF b

\* What is new
LEMMA AddedRange ==
    ASSUME Sound, Sound', Informed, NEW r \in Routers, NEW c, NEW w, NEW m, Step(w, r, c, m),
           NEW q \in Routers, NEW i, Added(w, r, c, m, q, i)
    PROVE  i - 1 \in Nat /\ Len(wire[r][q]) <= i - 1 /\ i - 1 <= Len(wire'[r][q])
<1>1. Len(wire[r][q]) \in Nat /\ Len(wire'[r][q]) \in Nat
    BY StepFacts DEF Wires
<1>2. i \in Len(wire[r][q]) + 1 .. Len(wire'[r][q])
    BY DEF Added
<1>3. QED
    BY <1>1, <1>2

\* Replies are still no news.
LEMMA StepRepliesPlain ==
    ASSUME Tree, Sound, Sound', Informed, NEW r \in Routers, NEW c, NEW w, NEW m, Step(w, r, c, m)
    PROVE  RepliesPlain'
<1>1. \A q \in Routers : Alone(q) => Alone(q)'
    BY StepFacts DEF Alone
<1> SUFFICES ASSUME NEW s \in Routers, NEW q \in Routers, NEW i \in DOMAIN wire'[s][q],
                    Reply(wire'[s][q][i]), ~Alone(q)
             PROVE  Heeds(known'[q], wire'[s][q], wire'[s][q][i].d, i - 1)
    BY <1>1 DEF RepliesPlain
<1> DEFINE x == wire'[s][q][i]
<1>2. x.type \in LocalTypes /\ x.type = "USER_NEW" /\ x.dst # BROADCAST
    BY DEF Reply, LocalTypes
<1>3. ASSUME NEW k, Stayed(w, r, c, s, q, i, k)
      PROVE  Heeds(known'[q], wire'[s][q], x.d, i - 1)
    <2>1. k \in DOMAIN wire[s][q] /\ wire[s][q][k] = x
        BY <1>3 DEF Stayed
    <2>2. Heeds(known[q], wire[s][q], x.d, k - 1) /\ x.d \in Beyond[q][s]
        BY <1>2, <2>1 DEF Informed, RepliesPlain, TheirSide, Speaks
    <2>3. QED
        BY <1>3, <2>2, StayedHeeds
<1>4. CASE s = r /\ Added(w, r, c, m, q, i)
    <2>1. /\ Sayable(r, c, m, q, known[r], x) /\ (x = m => q \in Dest(r, table'[r], m))
          /\ q \in Conns(table[r]) /\ r \in Conns(table[q]) /\ q # r
        BY <1>4 DEF Added
    <2>2. x # m
        <3> SUFFICES ASSUME x = m PROVE FALSE
            OBVIOUS
        <3>1. m.dst # r
            BY <2>1, GoesOn, StepFacts DEF Step
        <3>2. QED
            BY <1>2, <3>1, StepFacts DEF Speaks
    <2>3. PICK d \in known[r] : IsReply(r, c, x, d) /\ q = c /\ m.type = "ENUM_REQUEST"
        BY <1>2, <2>1, <2>2 DEF Sayable
    <2>4. x.d = d /\ ~IsLost(m, d)
        BY <2>3 DEF IsReply, IsLost
    <2>5. d \in Nets /\ d \in Beyond[q][r]
        <3>1. TheirSide'
            BY StepTheirSide
        <3>2. Speaks(s, q, x)
            BY <3>1 DEF TheirSide
        <3>3. d \in Nets
            BY StepFacts, <2>3 DEF Shape
        <3>4. QED
            BY <1>2, <1>4, <2>4, <3>2, <3>3 DEF Speaks
    <2>6. Heeds(known[q], wire[r][q], d, Len(wire[r][q]))
        BY <2>1, <2>3, <2>5 DEF Informed, SameUsers, Same
    <2> DEFINE n == i - 1
    <2>7. n \in Nat /\ Len(wire[r][q]) <= n /\ n <= Len(wire'[r][q])
        BY <1>4, AddedRange
    <2> HIDE DEF n
    <2>8. Heeds(known'[q], wire'[r][q], d, n)
        BY <2>1, <2>4, <2>6, <2>7, AddedHeeds
    <2>9. QED
        BY <1>4, <2>4, <2>8 DEF n
<1>5. QED
    BY <1>3, <1>4, StepQueue

\* Words still come from who is known.
LEMMA StepWordsKnown ==
    ASSUME Tree, Sound, Sound', Informed, NEW r \in Routers, NEW c, NEW w, NEW m, Step(w, r, c, m)
    PROVE  WordsKnown'
<1> SUFFICES ASSUME NEW s \in Routers, NEW q \in Routers, NEW i \in DOMAIN wire'[s][q],
                    wire'[s][q][i].type \in Words
             PROVE  Heeds(known'[q], wire'[s][q], wire'[s][q][i].d, i - 1)
    BY DEF WordsKnown
<1> DEFINE x == wire'[s][q][i]
<1>2. x.type \in LocalTypes /\ x.type \in Words
    BY DEF Words, LocalTypes
<1>3. ASSUME NEW k, Stayed(w, r, c, s, q, i, k)
      PROVE  Heeds(known'[q], wire'[s][q], x.d, i - 1)
    <2>1. k \in DOMAIN wire[s][q] /\ wire[s][q][k] = x
        BY <1>3 DEF Stayed
    <2>2. Heeds(known[q], wire[s][q], x.d, k - 1) /\ x.d \in Beyond[q][s]
        BY <1>2, <2>1 DEF Informed, WordsKnown, TheirSide, Speaks
    <2>3. QED
        BY <1>3, <2>2, StayedHeeds
<1>4. CASE s = r /\ Added(w, r, c, m, q, i)
    <2>1. /\ Sayable(r, c, m, q, known[r], x) /\ (x = m => q \in Dest(r, table'[r], m))
          /\ q \in Conns(table[r]) /\ r \in Conns(table[q]) /\ q # r
        BY <1>4 DEF Added
    <2>2. x = m /\ q \in Dest(r, table'[r], m)
        BY <1>2, <2>1 DEF Sayable, IsReply, Words
    <2> DEFINE d == m.d
    <2>3. d \in Nets /\ d \in Beyond[q][r]
        <3>1. d \in Beyond[q][r]
            BY <1>2, <2>1, <2>2, GoesOn, StepFacts DEF Step
        <3>2. d \in Nets
            BY <1>2, <2>2 DEF Step, Ready, Fine, LocalTypes
        <3>3. QED
            BY <3>1, <3>2
    <2>4. d \in known[r] /\ ~Enumerating(Routers) /\ ~IsLost(m, d)
        BY <1>2, <2>2 DEF Step, Says, IsLost, Words
    <2>5. ~Asked(q, r)
        BY <2>4 DEF Enumerating, Asked
    <2>6. Heeds(known[q], wire[r][q], d, Len(wire[r][q]))
        BY <2>1, <2>3, <2>4, <2>5 DEF Informed, SameUsers, Same
    <2> DEFINE n == i - 1
    <2>7. n \in Nat /\ Len(wire[r][q]) <= n /\ n <= Len(wire'[r][q])
        BY <1>4, AddedRange
    <2> HIDE DEF n, d
    <2>8. Heeds(known'[q], wire'[r][q], d, n)
        BY <2>1, <2>4, <2>6, <2>7, AddedHeeds
    <2>9. QED
        BY <1>4, <2>2, <2>8 DEF n, d
<1>5. QED
    BY <1>3, <1>4, StepQueue

\* Nobody speaks while users are enumerated.
LEMMA StepOneAtATime ==
    ASSUME Tree, Sound, Sound', Informed, NEW r \in Routers, NEW c, NEW w, NEW m, Step(w, r, c, m)
    PROVE  OneAtATime'
<1>1. ASSUME Enumerating(Routers)' PROVE Enumerating(Routers)
    <2>1. PICK s \in Routers, q \in Routers : \E i \in DOMAIN wire'[s][q] :
               wire'[s][q][i].type = "ENUM_REQUEST" \/ Reply(wire'[s][q][i])
        BY <1>1 DEF Enumerating, Reply
    <2>2. PICK i \in DOMAIN wire'[s][q] : wire'[s][q][i].type = "ENUM_REQUEST" \/ Reply(wire'[s][q][i])
        BY <2>1
    <2>3. CASE \E k : Stayed(w, r, c, s, q, i, k)
        BY <2>2, <2>3 DEF Stayed, Enumerating, Reply
    <2>4. CASE s = r /\ Added(w, r, c, m, q, i)
        <3> DEFINE x == wire'[s][q][i]
        <3>1. Sayable(r, c, m, q, known[r], x) /\ (x = m => q \in Dest(r, table'[r], m))
            BY <2>4 DEF Added
        <3>2. CASE x = m
            <4>1. m.dst # r /\ m.dst # Null
                BY <3>1, <3>2, GoesOn, StepFacts DEF Step
            <4>2. m.type # "ENUM_REQUEST"
                BY <4>1 DEF Step, Ready, Fine
            <4>3. QED
                BY <2>2, <3>2, <4>1, <4>2, StepFacts DEF Reply, Speaks
        <3>3. CASE m.type = "ENUM_REQUEST"
            BY <3>3 DEF Step, Says
        <3>4. QED
            BY <2>2, <3>1, <3>2, <3>3 DEF Sayable, Reply
    <2>5. QED
        BY <2>3, <2>4, StepQueue
<1>2. ASSUME Talking' PROVE Talking \/ ~Enumerating(Routers)
    <2>1. PICK s \in Routers, q \in Routers : \E i \in DOMAIN wire'[s][q] : wire'[s][q][i].type \in Words
        BY <1>2 DEF Talking, Words
    <2>2. PICK i \in DOMAIN wire'[s][q] : wire'[s][q][i].type \in Words
        BY <2>1
    <2>3. CASE \E k : Stayed(w, r, c, s, q, i, k)
        BY <2>2, <2>3 DEF Stayed, Talking, Words
    <2>4. CASE s = r /\ Added(w, r, c, m, q, i)
        <3>1. wire'[s][q][i] = m
            BY <2>2, <2>4 DEF Added, Sayable, IsReply, Words
        <3>2. QED
            BY <2>2, <3>1 DEF Step, Says
    <2>5. QED
        BY <2>3, <2>4, StepQueue
<1>3. QED
    BY <1>1, <1>2 DEF Informed, OneAtATime

\* Private words are still for who is there.
LEMMA StepHeeded ==
    ASSUME Tree, Sound, Sound', Informed, NEW r \in Routers, NEW c, NEW w, NEW m, Step(w, r, c, m)
    PROVE  Heeded'
<1> SUFFICES ASSUME NEW s \in Routers, NEW q \in Routers, NEW i \in DOMAIN wire'[s][q],
                    wire'[s][q][i].type = "PRIVATE"
             PROVE  wire'[s][q][i].dst \in known'[Home[wire'[s][q][i].dst]]
    BY DEF Heeded
<1> DEFINE x == wire'[s][q][i]
           d == x.dst
<1>1. /\ \A p \in Routers : p # r => known'[p] = known[p]
      /\ \A l : l \in known'[r] <=> IsNew(m, l) \/ (l \in known[r] /\ ~IsLost(m, l))
    BY StepFacts
<1>2. d \in known[Home[d]] /\ d \in Nets /\ ~(IsLost(m, d) /\ Home[d] = r)
    <2>1. ASSUME NEW k, Stayed(w, r, c, s, q, i, k)
          PROVE  d \in known[Home[d]] /\ d \in Nets /\ ~(IsLost(m, d) /\ Home[d] = r)
        <3>1. k \in DOMAIN wire[s][q] /\ wire[s][q][k] = x
            BY <2>1 DEF Stayed
        <3>2. Addressed(d)
            BY <3>1 DEF Addressed
        <3>3. d \in known[Home[d]] /\ d \in Nets
            BY <3>1 DEF Informed, Heeded, TheirSide, Speaks
        <3>4. QED
            BY <3>2, <3>3 DEF Step, Says, IsLost
    <2>2. CASE s = r /\ Added(w, r, c, m, q, i)
        <3>1. x = m
            BY <2>2 DEF Added, Sayable, IsReply
        <3>2. QED
            BY <3>1 DEF Step, Says, Speaks, IsLost
    <2>3. QED
        BY <2>1, <2>2, StepQueue
<1>3. Home[d] \in Routers
    BY <1>2, RouterNetAssumption
<1>4. QED
    BY <1>1, <1>2, <1>3

\* Of whom nothing is said, it is known what was known.
LEMMA HeedsQuiet ==
    ASSUME NEW K, NEW a \in Seq(Messages), NEW b \in Seq(Messages), NEW l, Len(a) <= Len(b),
           \A j \in 1 .. Len(a) : b[j] = a[j],
           \A j \in Len(a) + 1 .. Len(b) : ~IsNew(b[j], l) /\ ~IsLost(b[j], l)
    PROVE  Heeds(K, b, l, Len(b)) <=> Heeds(K, a, l, Len(a))
<1> DEFINE i == Len(a)
           n == Len(b)
<1>1. /\ i \in Nat /\ n \in Nat /\ i <= n /\ (\A j \in 1 .. i : b[j] = a[j])
      /\ (\A j \in i + 1 .. n : ~IsLost(b[j], l)) /\ (\A j \in i + 1 .. n : ~IsNew(b[j], l))
    OBVIOUS
<1> HIDE DEF i, n
<1>2. Heeds(K, a, l, i) <=> Heeds(K, b, l, i)
    BY <1>1, HeedsSame
<1>3. Heeds(K, b, l, i) <=> Heeds(K, b, l, n)
    BY <1>1, HeedsOn, HeedsBack
<1>4. QED
    BY <1>2, <1>3 DEF i, n

\* Who is asked is still asked until he answers.
LEMMA StepAsked ==
    ASSUME Sound, Sound', Informed, NEW r \in Routers, NEW c, NEW w, NEW m, Step(w, r, c, m),
           NEW s \in Routers, NEW q \in Routers, Asked(s, q),
           s = c /\ q = r => m.type # "ENUM_REQUEST"
    PROVE  Asked(s, q)'
<1>1. /\ w \in Wires /\ wire \in Wires /\ wire' \in Wires /\ Taken(w, r, c, m)
      /\ \A j \in 1 .. Len(w[s][q]) : wire'[s][q][j] = w[s][q][j]
      /\ Len(w[s][q]) <= Len(wire'[s][q])
    BY StepFacts, ServedKeeps DEF Step
<1> DEFINE a == wire[s][q]
           b == wire'[s][q]
           e == w[s][q]
<1>2. /\ a \in Seq(Messages) /\ b \in Seq(Messages) /\ e \in Seq(Messages)
      /\ Len(e) <= Len(b) /\ \A j \in 1 .. Len(e) : b[j] = e[j]
    BY <1>1 DEF Wires
<1>3. IF s = c /\ q = r THEN Len(a) = Len(e) + 1 /\ a[1] = m /\ \A j \in 1 .. Len(e) : a[j + 1] = e[j]
                        ELSE e = a
    BY <1>1 DEF Taken
<1>4. PICK i \in DOMAIN a : a[i].type = "ENUM_REQUEST"
    BY DEF Asked
<1> HIDE DEF a, b, e
<1>5. i \in 1 .. Len(a) /\ Len(e) \in Nat /\ Len(b) \in Nat
    BY <1>2
<1>6. \E j \in 1 .. Len(e) : e[j].type = "ENUM_REQUEST"
    <2>1. CASE s = c /\ q = r
        <3>1. i # 1
            BY <1>3, <1>4, <2>1
        <3>2. i - 1 \in 1 .. Len(e) /\ (i - 1) + 1 = i
            BY <1>3, <1>5, <2>1, <3>1
        <3>3. e[i - 1] = a[i]
            BY <1>3, <2>1, <3>2
        <3>4. QED
            BY <1>4, <3>2, <3>3
    <2>2. CASE ~(s = c /\ q = r)
        BY <1>3, <1>4, <1>5, <2>2
    <2>3. QED
        BY <2>1, <2>2
<1>7. PICK j \in 1 .. Len(e) : e[j].type = "ENUM_REQUEST"
    BY <1>6
<1>8. j \in DOMAIN b /\ b[j] = e[j]
    BY <1>2, <1>5
<1>9. QED
    BY <1>7, <1>8 DEF Asked, b

\* The other neighbours know the same of whom nothing is said, ...
LEMMA SilentSame ==
    ASSUME Tree, Sound, Sound', Informed, NEW r \in Routers, NEW c, NEW w, NEW m, Step(w, r, c, m),
           NEW q \in Routers, r \in Conns(table[q]), NEW l \in Nets, l \in Beyond[q][r],
           l \in known'[r] <=> l \in known[r],
           q = c => m.type # "ENUM_REQUEST",
           \A j \in Len(wire[r][q]) + 1 .. Len(wire'[r][q]) :
               ~IsNew(wire'[r][q][j], l) /\ ~IsLost(wire'[r][q][j], l)
    PROVE  Same(r, q, l)'
<1>1. Same(r, q, l)
    BY DEF Informed, SameUsers
<1>2. Alone(q) => Alone(q)'
    BY StepFacts DEF Alone
<1>3. q # r /\ known'[q] = known[q]
    BY AllLead, StepFacts
<1>4. Asked(q, r) => Asked(q, r)'
    BY StepAsked
<1>5. Answered(r, c, m, q, Dest(r, table'[r], m), known[r], wire[r][q], wire'[r][q])
    BY StepSends
<1>6. wire[r][q] \in Seq(Messages) /\ wire'[r][q] \in Seq(Messages)
    BY StepFacts DEF Wires
<1> DEFINE a == wire[r][q]
           b == wire'[r][q]
           K == known[q]
<1>7. /\ a \in Seq(Messages) /\ b \in Seq(Messages) /\ Len(a) <= Len(b)
      /\ (\A j \in 1 .. Len(a) : b[j] = a[j])
      /\ \A j \in Len(a) + 1 .. Len(b) : ~IsNew(b[j], l) /\ ~IsLost(b[j], l)
    BY <1>5, <1>6 DEF Answered
<1> HIDE DEF a, b, K
<1>8. Heeds(K, b, l, Len(b)) <=> Heeds(K, a, l, Len(a))
    BY <1>7, HeedsQuiet
<1>9. QED
    BY <1>1, <1>2, <1>3, <1>4, <1>8 DEF Same, a, b, K

\* ... as does who has asked, once he has read the answers, ...
LEMMA AnswerSame ==
    ASSUME Tree, Sound, Sound', Informed, NEW r \in Routers, NEW c, NEW w, NEW m, Step(w, r, c, m),
           c \in Routers, r \in Conns(table[c]), NEW l \in Nets, l \in Beyond[c][r], m.type = "ENUM_REQUEST"
    PROVE  Same(r, c, l)'
<1> DEFINE a == wire[r][c]
           b == wire'[r][c]
           K == known[c]
           to == Dest(r, table'[r], m)
<1>1. Heeds(K, a, l, Len(a)) => l \in known[r]
    BY DEF Informed, SameUsers, Same
<1>2. known'[c] = K /\ \A x : x \in known'[r] <=> x \in known[r]
    <2>1. c # r
        BY AllLead
    <2>2. QED
        BY <2>1, StepFacts DEF IsNew, IsLost
<1>3. Answered(r, c, m, c, to, known[r], a, b)
    BY StepSends
<1>4. a \in Seq(Messages) /\ b \in Seq(Messages)
    BY StepFacts DEF Wires
<1> HIDE DEF a, b, K, to
<1>5. /\ Len(a) \in Nat /\ Len(b) \in Nat /\ Len(a) <= Len(b) /\ \A j \in 1 .. Len(a) : b[j] = a[j]
    BY <1>3, <1>4 DEF Answered
<1>6. \A j \in Len(a) + 1 .. Len(b) : ~IsLost(b[j], l) /\ (IsNew(b[j], l) => l \in known[r])
    <2> TAKE j \in Len(a) + 1 .. Len(b)
    <2>1. Sayable(r, c, m, c, known[r], b[j])
        BY <1>3 DEF Answered
    <2>2. QED
        BY <2>1 DEF Sayable, IsReply, IsNew, IsLost
<1>7. ASSUME l \in known[r] PROVE Heeds(K, b, l, Len(b))
    <2>1. PICK j \in Len(a) + 1 .. Len(b) : IsReply(r, c, b[j], l)
        BY <1>3, <1>7 DEF Answered
    <2>2. IsNew(b[j], l)
        BY <2>1 DEF IsReply, IsNew
    <2> DEFINE n == Len(b)
               i == Len(a)
    <2>3. n \in Nat /\ i \in Nat /\ j \in i + 1 .. n /\ \A k \in i + 1 .. n : ~IsLost(b[k], l)
        BY <1>5, <1>6
    <2> HIDE DEF n, i
    <2>4. j \in 1 .. n /\ \A k \in j + 1 .. n : k \in i + 1 .. n
        BY <2>3
    <2>5. Heeds(K, b, l, n)
        BY <2>2, <2>3, <2>4, HeedsLast
    <2>6. QED
        BY <2>5 DEF n
<1>8. ASSUME l \notin known[r] PROVE ~Heeds(K, b, l, Len(b))
    <2>1. \A j \in Len(a) + 1 .. Len(b) : ~IsNew(b[j], l) /\ ~IsLost(b[j], l)
        BY <1>6, <1>8
    <2>2. Heeds(K, b, l, Len(b)) <=> Heeds(K, a, l, Len(a))
        BY <1>4, <1>5, <2>1, HeedsQuiet
    <2>3. QED
        BY <1>1, <1>8, <2>2
<1>9. QED
    BY <1>2, <1>7, <1>8 DEF Same, b, K

\* ... and who is passed the news; a reply is no news to them.
LEMMA NewsSame ==
    ASSUME Tree, Sound, Sound', Informed, NEW r \in Routers, NEW c, NEW w, NEW m, Step(w, r, c, m),
           NEW q \in Routers, r \in Conns(table[q]), q # c, NEW l \in Nets, l \in Beyond[q][r], IsNew(m, l)
    PROVE  Same(r, q, l)'
<1> DEFINE b == wire'[r][q]
           to == Dest(r, table'[r], m)
<1>1. m.type = "USER_NEW" /\ m.d = l /\ ~IsLost(m, l) /\ l \in known'[r]
    BY StepFacts DEF IsNew, IsLost
<1>2. /\ Speaks(c, r, m) /\ Heard(table', r, c, m) /\ c \in Node /\ c # r /\ Adjacent(r, c)
      /\ q \in Conns(table[r]) /\ q # r /\ q \in Conns(table'[r]) /\ c \in Conns(table[r])
    <2>1. q \in Conns(table[r])
        BY StepFacts DEF Peers
    <2>2. q # r
        BY AllLead
    <2>3. QED
        BY <2>1, <2>2, StepFacts
<1>3. Answered(r, c, m, q, to, known[r], wire[r][q], b)
    BY StepSends
<1>4. wire[r][q] \in Seq(Messages) /\ b \in Seq(Messages)
    BY StepFacts DEF Wires
<1>5. Alone(q) => Alone(q)'
    BY StepFacts DEF Alone
<1>6. Asked(q, r) => Asked(q, r)'
    BY <1>1, StepAsked
<1>7. Len(b) \in Nat /\ Len(wire[r][q]) \in Nat /\ Len(wire[r][q]) <= Len(b)
    BY <1>3, <1>4 DEF Answered
<1>8. CASE m.dst = BROADCAST
    <2>1. m.src = l /\ l \in Beyond[r][c] /\ m.dst # r /\ m.dst # Null
        BY <1>1, <1>2, <1>8, NamesAssumption DEF Speaks, LocalTypes, Node, Null, BROADCAST
    <2>2. l # q /\ l \notin BranchesOf(table'[r], q)
        BY <1>2, <2>1, NotBehind DEF Heard
    <2>3. q \in to
        BY <1>2, <1>8, <2>1, <2>2 DEF Dest, Targets
    <2> DEFINE n == Len(b)
               i == Len(wire[r][q])
    <2> HIDE DEF to
    <2>4. PICK j \in i + 1 .. n : b[j] = m
        BY <1>3, <2>3 DEF Answered
    <2>5. \A k \in i + 1 .. n : ~IsLost(b[k], l)
        <3> TAKE k \in i + 1 .. n
        <3>1. Sayable(r, c, m, q, known[r], b[k])
            BY <1>3 DEF Answered
        <3>2. QED
            BY <1>1, <3>1 DEF Sayable, IsReply, IsLost
    <2> HIDE DEF b
    <2>6. n \in Nat /\ i \in Nat
        BY <1>7
    <2> HIDE DEF n, i
    <2>7. j \in 1 .. n /\ \A k \in j + 1 .. n : k \in i + 1 .. n
        BY <2>6
    <2>8. IsNew(b[j], l) /\ \A k \in j + 1 .. n : ~IsLost(b[k], l)
        BY <2>4, <2>5, <2>7 DEF IsNew, IsLost
    <2>9. Heeds(known'[q], b, l, n)
        BY <2>6, <2>7, <2>8, HeedsLast
    <2>10. QED
        BY <1>1, <2>9 DEF Same, b, n
<1>9. CASE m.dst # BROADCAST
    <2>1. l \in known[r]
        <3>1. (c \in Routers /\ Alone(r)) \/ l \in known[r]
            BY <1>1, <1>9 DEF Step, Says, Reply
        <3>2. ~(c \in Routers /\ Alone(r))
            BY <1>2 DEF Alone
        <3>3. QED
            BY <3>1, <3>2
    <2>2. Heeds(known[q], wire[r][q], l, Len(wire[r][q])) \/ (Asked(q, r) /\ Alone(q))
        BY <2>1 DEF Informed, SameUsers, Same
    <2>3. Heeds(known[q], wire[r][q], l, Len(wire[r][q])) => Heeds(known'[q], b, l, Len(b))
        <3> DEFINE n == Len(b)
        <3>1. n \in Nat /\ Len(wire[r][q]) <= n /\ n <= Len(wire'[r][q])
            BY <1>7
        <3> HIDE DEF n
        <3>2. Heeds(known[q], wire[r][q], l, Len(wire[r][q])) => Heeds(known'[q], wire'[r][q], l, n)
            BY <1>1, <3>1, AddedHeeds
        <3>3. QED
            BY <3>2 DEF n
    <2>4. QED
        BY <1>1, <1>5, <1>6, <2>2, <2>3 DEF Same
<1>10. QED
    BY <1>8, <1>9

\* The news that somebody left is passed on too.
LEMMA LossSame ==
    ASSUME Tree, Sound, Sound', Informed, NEW r \in Routers, NEW c, NEW w, NEW m, Step(w, r, c, m),
           NEW q \in Routers, r \in Conns(table[q]), q # c, NEW l \in Nets, l \in Beyond[q][r], IsLost(m, l)
    PROVE  Same(r, q, l)'
<1> DEFINE b == wire'[r][q]
           to == Dest(r, table'[r], m)
           n == Len(b)
           i == Len(wire[r][q])
<1>1. m.type = "USER_LOST" /\ m.d = l /\ ~IsNew(m, l) /\ l \notin known'[r]
    BY StepFacts DEF IsNew, IsLost
<1>2. /\ Speaks(c, r, m) /\ Heard(table', r, c, m) /\ c \in Node /\ c # r /\ Adjacent(r, c)
      /\ q \in Conns(table[r]) /\ q \in Conns(table'[r]) /\ c \in Conns(table[r])
    <2>1. q \in Conns(table[r])
        BY StepFacts DEF Peers
    <2>2. QED
        BY <2>1, StepFacts
<1>3. Answered(r, c, m, q, to, known[r], wire[r][q], b)
    BY StepSends
<1>4. n \in Nat /\ i \in Nat
    <2>1. wire[r][q] \in Seq(Messages) /\ b \in Seq(Messages)
        BY StepFacts DEF Wires
    <2> HIDE DEF b
    <2>2. QED
        BY <2>1
<1>5. q \in to
    <2>1. m.dst = BROADCAST /\ m.src = l /\ l \in Beyond[r][c] /\ m.dst # r /\ m.dst # Null
        BY <1>1, <1>2, NamesAssumption DEF Speaks, LocalTypes, Node, Null, BROADCAST
    <2>2. l # q /\ l \notin BranchesOf(table'[r], q)
        BY <1>2, <2>1, NotBehind DEF Heard
    <2>3. QED
        BY <1>2, <2>1, <2>2 DEF Dest, Targets
<1> HIDE DEF to
<1>6. PICK j \in i + 1 .. n : b[j] = m
    BY <1>3, <1>5 DEF Answered
<1>7. \A k \in i + 1 .. n : ~IsNew(b[k], l)
    <2> TAKE k \in i + 1 .. n
    <2>1. Sayable(r, c, m, q, known[r], b[k])
        BY <1>3 DEF Answered
    <2>2. QED
        BY <1>1, <2>1 DEF Sayable, IsReply, IsNew
<1> HIDE DEF b, n, i
<1>8. j \in 1 .. n /\ \A k \in j + 1 .. n : k \in i + 1 .. n
    BY <1>4
<1>9. IsLost(b[j], l) /\ \A k \in j + 1 .. n : ~IsNew(b[k], l)
    BY <1>1, <1>6, <1>7, <1>8 DEF IsLost
<1>10. ~Heeds(known'[q], b, l, n)
    BY <1>4, <1>8, <1>9, HeedsLast
<1>11. QED
    BY <1>1, <1>10 DEF Same, b, n

\* So the ends of a link know the same, or will.
LEMMA StepSameUsers ==
    ASSUME Tree, Sound, Sound', Informed, NEW r \in Routers, NEW c, NEW w, NEW m, Step(w, r, c, m)
    PROVE  SameUsers'
<1>1. \A q \in Routers : Conns(table'[q]) = Conns(table[q])
    BY StepFacts
<1> SUFFICES ASSUME NEW s \in Routers, NEW q \in Routers, s \in Conns(table[q]),
                    NEW l \in Nets, l \in Beyond[q][s]
             PROVE  Same(s, q, l)'
    BY <1>1 DEF SameUsers
<1>2. /\ c \in Conns(table[r]) /\ c \in Node /\ c # r /\ Adjacent(r, c) /\ Speaks(c, r, m) /\ r \in Node
      /\ w \in Wires /\ wire \in Wires /\ Taken(w, r, c, m)
    BY StepFacts DEF Node
<1>3. CASE s # r
    <2>1. wire'[s][q] = w[s][q] /\ known'[s] = known[s]
        BY <1>3, StepFacts DEF Step, Served
    <2> DEFINE i == Len(w[s][q])
               k == Len(wire[s][q])
    <2>2. i \in 0 .. Len(w[s][q]) /\ k = (IF s = c /\ q = r THEN i + 1 ELSE i)
        <3>1. w[s][q] \in Seq(Messages)
            BY <1>2 DEF Wires
        <3>2. QED
            BY <1>2, <3>1 DEF Taken
    <2> HIDE DEF i, k
    <2>3. Heeds(known'[q], wire'[s][q], l, i) <=> Heeds(known[q], wire[s][q], l, k)
        BY <2>2, StepHeeds
    <2>4. Asked(q, s) => Asked(q, s)'
        BY <1>3, StepAsked
    <2>5. Alone(q) => Alone(q)'
        BY <1>1 DEF Alone
    <2>6. Same(s, q, l)
        BY DEF Informed, SameUsers
    <2>7. QED
        BY <2>1, <2>3, <2>4, <2>5, <2>6 DEF Same, i, k
<1>4. CASE s = r /\ q = c
    <2>1. l \notin Beyond[r][c]
        <3>1. c # r /\ Adjacent(r, c) /\ c \in Node /\ r \in Node
            BY <1>2
        <3>2. Beyond[c][r] \cap Beyond[r][c] = {}
            BY <3>1, Sides
        <3>3. QED
            BY <1>4, <3>2
    <2>2. ~IsNew(m, l) /\ ~IsLost(m, l)
        BY <1>2, <2>1 DEF Speaks, IsNew, IsLost, LocalTypes
    <2>3. l \in known'[r] <=> l \in known[r]
        BY <2>2, StepFacts
    <2>4. CASE m.type = "ENUM_REQUEST"
        BY <1>4, <2>4, AnswerSame
    <2>5. CASE m.type # "ENUM_REQUEST"
        <3>1. ASSUME NEW j \in Len(wire[r][q]) + 1 .. Len(wire'[r][q])
              PROVE  ~IsNew(wire'[r][q][j], l) /\ ~IsLost(wire'[r][q][j], l)
            <4>1. Answered(r, c, m, q, Dest(r, table'[r], m), known[r], wire[r][q], wire'[r][q])
                BY <1>4, StepSends
            <4>2. Sayable(r, c, m, q, known[r], wire'[r][q][j])
                BY <4>1 DEF Answered
            <4>3. QED
                BY <2>2, <2>5, <4>2 DEF Sayable, IsNew, IsLost
        <3>2. QED
            BY <1>4, <2>3, <2>5, <3>1, SilentSame
    <2>6. QED
        BY <2>4, <2>5
<1>5. CASE s = r /\ q # c
    <2>1. CASE IsNew(m, l)
        BY <1>5, <2>1, NewsSame
    <2>2. CASE IsLost(m, l)
        BY <1>5, <2>2, LossSame
    <2>3. CASE ~IsNew(m, l) /\ ~IsLost(m, l)
        <3>1. l \in known'[r] <=> l \in known[r]
            BY <2>3, StepFacts
        <3>2. ASSUME NEW j \in Len(wire[r][q]) + 1 .. Len(wire'[r][q])
              PROVE  ~IsNew(wire'[r][q][j], l) /\ ~IsLost(wire'[r][q][j], l)
            <4>1. Answered(r, c, m, q, Dest(r, table'[r], m), known[r], wire[r][q], wire'[r][q])
                BY <1>5, StepSends
            <4>2. Sayable(r, c, m, q, known[r], wire'[r][q][j])
                BY <4>1 DEF Answered
            <4>3. QED
                BY <1>5, <2>3, <4>2 DEF Sayable, IsNew, IsLost
        <3>3. QED
            BY <1>5, <3>1, <3>2, SilentSame
    <2>4. QED
        BY <2>1, <2>2, <2>3
<1>6. QED
    BY <1>3, <1>4, <1>5

\* All routers stay informed when one serves a message.
LEMMA StepInformed ==
    ASSUME Tree, Sound, Sound', Informed, NEW r \in Routers, NEW c, NEW w, NEW m, Step(w, r, c, m)
    PROVE  Informed'
<1>1. TheirSide' /\ Peers' /\ KnownThrough' /\ AsksFirst' /\ RepliesPlain'
    BY StepTheirSide, StepPeers, StepKnownThrough, StepAsksFirst, StepRepliesPlain
<1>2. SameUsers' /\ WordsKnown' /\ OneAtATime' /\ Heeded'
    BY StepSameUsers, StepWordsKnown, StepOneAtATime, StepHeeded
<1>3. QED
    BY <1>1, <1>2 DEF Informed

-----------------------------------------------------------------------------
(***************************************************************************)
(* What is received, and what users do, may be told.                       *)
(***************************************************************************)

\* What is read may be told.
LEMMA ReceiveSays ==
    ASSUME Tree, Sound, Informed, NEW r \in Routers, NEW s \in Routers, NEW w, NEW m, Ready(w, r, s, m)
    PROVE  Says(r, s, m)
<1>1. 1 \in DOMAIN wire[s][r] /\ wire[s][r][1] = m /\ s \in Conns(table[r])
    <2>1. w[s][r] \in Seq(Messages) /\ wire[s][r] \in Seq(Messages)
        BY DEF Ready, Wires, Sound, Shape
    <2>2. Len(wire[s][r]) = Len(w[s][r]) + 1 /\ wire[s][r][1] = m
        BY DEF Ready, Taken
    <2>3. QED
        BY <2>1, <2>2 DEF Ready
<1>2. Speaks(s, r, m)
    BY <1>1 DEF Informed, TheirSide
<1>3. \A l : Heeds(known[r], wire[s][r], l, 1 - 1) => l \in known[r]
    BY DEF Heeds
<1>4. ASSUME m.type \in Words PROVE m.d \in known[r] /\ ~Enumerating(Routers)
    <2>1. Talking
        BY <1>1, <1>4 DEF Talking, Words
    <2>2. Heeds(known[r], wire[s][r], m.d, 1 - 1)
        BY <1>1, <1>4 DEF Informed, WordsKnown
    <2>3. QED
        BY <1>3, <2>1, <2>2 DEF Informed, OneAtATime
<1>5. ASSUME Reply(m) PROVE Alone(r) \/ m.d \in known[r]
    <2>1. Alone(r) \/ Heeds(known[r], wire[s][r], m.d, 1 - 1)
        BY <1>1, <1>5 DEF Informed, RepliesPlain
    <2>2. QED
        BY <1>3, <2>1
<1>6. m.type = "PRIVATE" => m.dst \in known[Home[m.dst]]
    BY <1>1 DEF Informed, Heeded
<1>7. ASSUME m.type = "USER_LOST", Home[m.d] = r PROVE FALSE
    <2> DEFINE l == m.d
    <2>1. l \in Nets /\ l \in Node /\ l # r /\ l # s /\ Adjacent(r, l)
        <3>1. l \in Nets
            BY <1>7 DEF Ready, Fine
        <3>2. QED
            BY <1>7, <3>1, RouterNetAssumption DEF Adjacent, Node
    <2>2. l \in Beyond[r][l] /\ l \in Beyond[r][s]
        BY <1>2, <1>7, <2>1, BeyondFacts DEF Speaks, LocalTypes, Node
    <2>3. s \in Node /\ Adjacent(r, s) /\ r \in Node
        BY <1>1, AllLead DEF Node
    <2>4. QED
        BY <2>1, <2>2, <2>3 DEF Tree
<1>8. ASSUME m.type = "ENUM_REQUEST" PROVE Enumerating(Routers) /\ known[r] \cap Beyond[r][s] = {}
    BY <1>1, <1>8 DEF Informed, AsksFirst, Enumerating
<1>9. QED
    BY <1>2, <1>4, <1>5, <1>6, <1>7, <1>8 DEF Says

\* A message that is read leaves all informed.
LEMMA ReceiveInformed ==
    ASSUME Tree, Sound, Sound', Lossless, Informed, NEW r \in Routers, NEW s \in Routers, Receive(r, s)
    PROVE  Informed'
<1>1. PICK w, m : Ready(w, r, s, m)
    BY ReceiveReady
<1>2. Says(r, s, m)
    BY <1>1, ReceiveSays
<1>3. Served(w, r, s, m)
    BY <1>1, <1>2, SaysNoFailure, ReadyServes
<1>4. Step(w, r, s, m)
    BY <1>1, <1>2, <1>3 DEF Step, Receive
<1>5. QED
    BY <1>4, StepInformed

\* What a user does does, too, if he may do it.
LEMMA FromLocalInformed ==
    ASSUME Tree, Sound, Sound', Lossless, Informed, NEW l \in Nets, NEW type \in LocalTypes,
           NEW dst \in Node \cup {Null, BROADCAST}, FromLocal(l, type, dst),
           type # "PRIVATE" => dst = BROADCAST,
           type = "PRIVATE" => dst \in Nets /\ dst \in known[Home[dst]],
           type \in Words => l \in known[Home[l]] /\ ~Enumerating(Routers),
           type = "USER_LOST" => ~Addressed(l)
    PROVE  Informed'
<1>1. PICK m : Ready(wire, Home[l], l, m) /\ m.type = type /\ m.src = l /\ m.dst = dst /\ m.d = l
    BY FromLocalReady
<1> DEFINE r == Home[l]
<1>2. r \in Routers /\ l \in Conns(table[r]) /\ phase[r] = "up" /\ todo' = todo
    BY <1>1, RouterNetAssumption DEF Ready, FromLocal
<1>3. Ready(wire, r, l, m)
    BY <1>1
<1>4. l \in Beyond[r][l]
    <2>1. r \in Node /\ l \in Node /\ l # r
        BY <1>2, AllLead DEF Node
    <2>2. QED
        BY <2>1, BeyondFacts
<1>5. Says(r, l, m)
    BY <1>1, <1>2, <1>4 DEF Says, Speaks, Reply, Words, LocalTypes
<1> HIDE DEF r
<1>6. Served(wire, r, l, m)
    BY <1>2, <1>3, <1>5, SaysNoFailure, ReadyServes
<1>7. Step(wire, r, l, m)
    BY <1>2, <1>3, <1>5, <1>6 DEF Step
<1>8. QED
    BY <1>2, <1>7, StepInformed

\* What users do when they are considerate
LEMMA UserInformed ==
    ASSUME Tree, Sound, Sound', Lossless, Informed, Patient, Considerate,
           NEW l \in Nets, SignOn(l) \/ SignOff(l) \/ Speak(l)
    PROVE  Informed'
<1>1. CASE SignOn(l)
    <2>1. FromLocal(l, "USER_NEW", BROADCAST)
        BY <1>1 DEF SignOn
    <2>2. QED
        BY <2>1, FromLocalInformed DEF LocalTypes, Words
<1>2. CASE SignOff(l)
    <2>1. FromLocal(l, "USER_LOST", BROADCAST) /\ ~Addressed(l)
        BY <1>2 DEF SignOff
    <2>2. QED
        BY <2>1, FromLocalInformed DEF LocalTypes, Words
<1>3. CASE Speak(l)
    <2>1. l \in known[Home[l]] /\ ~Enumerating(Routers)
        BY <1>3 DEF Speak
    <2>2. ASSUME NEW type \in {"MODE", "TEXT"}, FromLocal(l, type, BROADCAST) PROVE Informed'
        <3>1. type \in LocalTypes /\ type # "PRIVATE" /\ type # "USER_LOST"
            BY DEF LocalTypes
        <3>2. QED
            BY <2>1, <2>2, <3>1, FromLocalInformed
    <2>3. ASSUME NEW u \in known[Home[l]] \ {l}, u \in known[Home[u]], FromLocal(l, "PRIVATE", u)
          PROVE  Informed'
        <3>1. u \in Nets /\ u \in Node
            BY RouterNetAssumption DEF Sound, Shape, Node
        <3>2. "PRIVATE" \in LocalTypes
            BY DEF LocalTypes
        <3>3. QED
            BY <2>1, <2>3, <3>1, <3>2, FromLocalInformed
    <2>4. QED
        BY <1>3, <2>2, <2>3 DEF Speak
<1>4. QED
    BY <1>1, <1>2, <1>3

-----------------------------------------------------------------------------
(***************************************************************************)
(* Nets and links that are new leave all informed.                         *)
(***************************************************************************)

\* What is added says nothing of users.
Grows ==
    /\ known' = known /\ Larger(table')
    /\ \A s, q \in Routers : Announces(wire[s][q], wire'[s][q], {"NET_NEW", "ENUM_REQUEST"})

\* Who says nothing of users changes nothing of what is said of them.
LEMMA GrowQueue ==
    ASSUME Sound, Sound', Grows, NEW s \in Routers, NEW q \in Routers
    PROVE  /\ \A i \in DOMAIN wire[s][q] : i \in DOMAIN wire'[s][q] /\ wire'[s][q][i] = wire[s][q][i]
           /\ \A i \in DOMAIN wire'[s][q] : wire'[s][q][i].type \notin {"NET_NEW", "ENUM_REQUEST"} =>
                  i \in DOMAIN wire[s][q]
           /\ \A l : Heeds(known'[q], wire'[s][q], l, Len(wire'[s][q])) <=>
                     Heeds(known[q], wire[s][q], l, Len(wire[s][q]))
           /\ \A l : \A i \in DOMAIN wire[s][q] :
                  Heeds(known[q], wire[s][q], l, i - 1) => Heeds(known'[q], wire'[s][q], l, i - 1)
<1> DEFINE a == wire[s][q]
           b == wire'[s][q]
           K == known[q]
<1>1. /\ Len(a) <= Len(b) /\ (\A j \in 1 .. Len(a) : b[j] = a[j])
      /\ \A j \in Len(a) + 1 .. Len(b) : b[j].type \in {"NET_NEW", "ENUM_REQUEST"}
    BY DEF Grows, Announces
<1>2. a \in Seq(Messages) /\ b \in Seq(Messages) /\ known'[q] = K
    BY DEF Grows, Sound, Shape, Wires
<1> HIDE DEF a, b, K
<1>3. \A i \in DOMAIN a : i \in DOMAIN b /\ b[i] = a[i]
    BY <1>1, <1>2
<1>4. \A i \in DOMAIN b : i \in DOMAIN a \/ i \in Len(a) + 1 .. Len(b)
    BY <1>1, <1>2
<1>5. ASSUME NEW l PROVE Heeds(K, b, l, Len(b)) <=> Heeds(K, a, l, Len(a))
    <2>1. \A j \in Len(a) + 1 .. Len(b) : ~IsNew(b[j], l) /\ ~IsLost(b[j], l)
        BY <1>1 DEF IsNew, IsLost
    <2>2. QED
        BY <1>1, <1>2, <2>1, HeedsQuiet
<1>6. ASSUME NEW l, NEW i \in DOMAIN a, Heeds(K, a, l, i - 1) PROVE Heeds(K, b, l, i - 1)
    <2> DEFINE n == i - 1
    <2>1. n \in Nat /\ \A j \in 1 .. n : b[j] = a[j]
        BY <1>1, <1>2
    <2> HIDE DEF n
    <2>2. Heeds(K, a, l, n) <=> Heeds(K, b, l, n)
        BY <2>1, HeedsSame
    <2>3. QED
        BY <1>6, <2>2 DEF n
<1>7. \A i \in DOMAIN b : b[i].type \notin {"NET_NEW", "ENUM_REQUEST"} => i \in DOMAIN a
    BY <1>1, <1>4
<1>8. QED
    BY <1>2, <1>3, <1>5, <1>6, <1>7 DEF a, b, K

\* Nothing is said of users, ...
LEMMA GrowSays ==
    ASSUME Sound, Sound', Grows, Informed
    PROVE  /\ TheirSide' /\ KnownThrough' /\ WordsKnown' /\ Heeded'
           /\ Talking' => Talking
<1>1. known' = known
    BY DEF Grows
<1>2. ASSUME NEW s \in Routers, NEW q \in Routers, NEW i \in DOMAIN wire'[s][q]
      PROVE  Speaks(s, q, wire'[s][q][i])
    <2>1. CASE i \in DOMAIN wire[s][q]
        <3>1. wire'[s][q][i] = wire[s][q][i]
            BY <2>1, GrowQueue
        <3>2. QED
            BY <2>1, <3>1 DEF Informed, TheirSide
    <2>2. CASE i \notin DOMAIN wire[s][q]
        <3>1. wire'[s][q][i].type \in {"NET_NEW", "ENUM_REQUEST"}
            BY <2>2, GrowQueue
        <3>2. QED
            BY <3>1 DEF Speaks, LocalTypes
    <2>3. QED
        BY <2>1, <2>2
<1>3. ASSUME NEW q \in Routers, NEW l \in known'[q] PROVE \E c \in Conns(table'[q]) : l \in Beyond[q][c]
    <2>1. PICK c \in Conns(table[q]) : l \in Beyond[q][c]
        BY <1>1 DEF Informed, KnownThrough
    <2>2. c \in Conns(table'[q])
        BY DEF Grows, Larger
    <2>3. QED
        BY <2>1, <2>2
<1>4. ASSUME NEW s \in Routers, NEW q \in Routers, NEW i \in DOMAIN wire'[s][q], wire'[s][q][i].type \in Words
      PROVE  i \in DOMAIN wire[s][q] /\ wire[s][q][i] = wire'[s][q][i]
    <2>1. wire'[s][q][i].type \notin {"NET_NEW", "ENUM_REQUEST"}
        BY <1>4 DEF Words
    <2>2. QED
        BY <2>1, GrowQueue
<1>5. ASSUME NEW s \in Routers, NEW q \in Routers, NEW i \in DOMAIN wire'[s][q], wire'[s][q][i].type \in Words
      PROVE  Heeds(known'[q], wire'[s][q], wire'[s][q][i].d, i - 1)
    <2>1. i \in DOMAIN wire[s][q] /\ wire[s][q][i] = wire'[s][q][i]
        BY <1>4, <1>5
    <2> DEFINE l == wire'[s][q][i].d
    <2>2. Heeds(known[q], wire[s][q], l, i - 1)
        BY <1>5, <2>1 DEF Informed, WordsKnown
    <2> HIDE DEF l
    <2>3. Heeds(known'[q], wire'[s][q], l, i - 1)
        BY <2>1, <2>2, GrowQueue
    <2>4. QED
        BY <2>3 DEF l
<1>6. ASSUME NEW s \in Routers, NEW q \in Routers, NEW i \in DOMAIN wire'[s][q], wire'[s][q][i].type = "PRIVATE"
      PROVE  wire'[s][q][i].dst \in known'[Home[wire'[s][q][i].dst]]
    <2>1. i \in DOMAIN wire[s][q] /\ wire[s][q][i] = wire'[s][q][i]
        BY <1>4, <1>6 DEF Words
    <2>2. QED
        BY <1>1, <1>6, <2>1 DEF Informed, Heeded
<1>7. Talking' => Talking
    <2> SUFFICES ASSUME NEW s \in Routers, NEW q \in Routers, NEW i \in DOMAIN wire'[s][q],
                        wire'[s][q][i].type \in Words
                 PROVE  Talking
        BY DEF Talking, Words
    <2>1. i \in DOMAIN wire[s][q] /\ wire[s][q][i] = wire'[s][q][i]
        BY <1>4
    <2>2. QED
        BY <2>1 DEF Talking, Words
<1>8. QED
    BY <1>2, <1>3, <1>5, <1>6, <1>7 DEF TheirSide, KnownThrough, WordsKnown, Heeded

\* ... who has one link gets no other while users are enumerated, and so all stay
\* informed but, perhaps, over new links.
LEMMA GrowInformed ==
    ASSUME Sound, Sound', Grows, Informed, Peers', AsksFirst',
           (\A q \in Routers : Alone(q) => Alone(q)') \/ ~Enumerating(Routers),
           Enumerating(Routers)' => Enumerating(Routers) \/ ~Talking,
           \A s, q \in Routers : s \in Conns(table'[q]) /\ s \notin Conns(table[q]) =>
               \A l \in Nets \cap Beyond[q][s] : Same(s, q, l)'
    PROVE  Informed'
<1>1. known' = known
    BY DEF Grows
<1>2. ASSUME NEW s \in Routers, NEW q \in Routers, NEW i \in DOMAIN wire'[s][q], Reply(wire'[s][q][i])
      PROVE  Alone(q)' \/ Heeds(known'[q], wire'[s][q], wire'[s][q][i].d, i - 1)
    <2>1. wire'[s][q][i].type \notin {"NET_NEW", "ENUM_REQUEST"}
        BY <1>2 DEF Reply
    <2>2. i \in DOMAIN wire[s][q] /\ wire[s][q][i] = wire'[s][q][i]
        BY <2>1, GrowQueue
    <2>3. Enumerating(Routers)
        BY <1>2, <2>2 DEF Enumerating, Reply
    <2> DEFINE l == wire'[s][q][i].d
    <2>4. Alone(q) \/ Heeds(known[q], wire[s][q], l, i - 1)
        BY <1>2, <2>2 DEF Informed, RepliesPlain
    <2> HIDE DEF l
    <2>5. Alone(q)' \/ Heeds(known'[q], wire'[s][q], l, i - 1)
        BY <2>2, <2>3, <2>4, GrowQueue
    <2>6. QED
        BY <2>5 DEF l
<1>3. RepliesPlain'
    BY <1>2 DEF RepliesPlain
<1>4. ASSUME NEW s \in Routers, NEW q \in Routers, s \in Conns(table[q]), NEW l \in Nets \cap Beyond[q][s]
      PROVE  Same(s, q, l)'
    <2>1. Same(s, q, l)
        BY <1>4 DEF Informed, SameUsers
    <2>2. Heeds(known'[q], wire'[s][q], l, Len(wire'[s][q])) <=> Heeds(known[q], wire[s][q], l, Len(wire[s][q]))
        BY GrowQueue
    <2>3. ASSUME Asked(q, s), Alone(q) PROVE Asked(q, s)' /\ Alone(q)'
        <3>1. Enumerating(Routers)
            BY <2>3 DEF Asked, Enumerating
        <3>2. PICK i \in DOMAIN wire[q][s] : wire[q][s][i].type = "ENUM_REQUEST"
            BY <2>3 DEF Asked
        <3>3. i \in DOMAIN wire'[q][s] /\ wire'[q][s][i] = wire[q][s][i]
            BY GrowQueue
        <3>4. QED
            BY <2>3, <3>1, <3>2, <3>3 DEF Asked
    <2>4. QED
        BY <1>1, <2>1, <2>2, <2>3 DEF Same
<1>5. SameUsers'
    BY <1>4 DEF SameUsers
<1>6. OneAtATime'
    BY GrowSays DEF OneAtATime, Informed
<1>7. QED
    BY <1>3, <1>5, <1>6, GrowSays DEF Informed

\* A net is opened.
LEMMA AttachInformed ==
    ASSUME Tree, Sound, Sound', Informed, NEW r \in Routers, NEW l \in Nets, AttachLocal(r, l)
    PROVE  Informed'
<1>1. Attached(r, l) /\ phase' = phase /\ known' = known /\ l \notin Routers
      /\ todo' = [todo EXCEPT ![r] = @ \ {l}]
    BY AttachSends, RouterNetAssumption DEF AttachLocal
<1>2. \A s, q \in Routers : Announces(wire[s][q], wire'[s][q], {"NET_NEW", "ENUM_REQUEST"})
    BY <1>1, AnnouncesMore DEF Attached
<1>3. Grows
    <2>1. Larger(table')
        BY <1>1 DEF Attached, Larger, BranchesOf
    <2>2. QED
        BY <1>1, <1>2, <2>1 DEF Grows
<1>4. \A q \in Routers : \A s \in Routers : s \in Conns(table'[q]) <=> s \in Conns(table[q])
    BY <1>1 DEF Attached
<1>5. \A q \in Routers : todo'[q] \subseteq todo[q]
    BY <1>1 DEF Sound, Shape
<1>6. Peers'
    BY <1>1, <1>4, <1>5 DEF Peers, Informed
<1>7. \A q \in Routers : Alone(q) => Alone(q)'
    BY <1>4 DEF Alone
<1>8. ASSUME NEW s \in Routers, NEW q \in Routers, NEW i \in DOMAIN wire'[s][q], i \notin DOMAIN wire[s][q]
      PROVE  wire'[s][q][i].type = "NET_NEW"
    <2> DEFINE a == wire[s][q]
               b == wire'[s][q]
    <2>1. \A j \in Len(a) + 1 .. Len(b) : b[j].type \in {"NET_NEW"}
        BY <1>1 DEF Attached, Announces
    <2>2. a \in Seq(Messages) /\ b \in Seq(Messages)
        BY DEF Sound, Shape, Wires
    <2> HIDE DEF a, b
    <2>3. i \in Len(a) + 1 .. Len(b)
        BY <1>8, <2>2 DEF a, b
    <2>4. QED
        BY <2>1, <2>3 DEF b
<1>9. Enumerating(Routers)' => Enumerating(Routers)
    <2> SUFFICES ASSUME NEW s \in Routers, NEW q \in Routers, NEW i \in DOMAIN wire'[s][q],
                        \/ wire'[s][q][i].type = "ENUM_REQUEST"
                        \/ wire'[s][q][i].type = "USER_NEW" /\ wire'[s][q][i].dst # BROADCAST
                 PROVE  Enumerating(Routers)
        BY DEF Enumerating
    <2>1. i \in DOMAIN wire[s][q]
        BY <1>8
    <2>2. wire'[s][q][i] = wire[s][q][i]
        BY <1>3, <2>1, GrowQueue
    <2>3. QED
        BY <2>1, <2>2 DEF Enumerating
<1>10. ASSUME NEW s \in Routers, NEW q \in Routers, NEW i \in DOMAIN wire'[s][q],
              wire'[s][q][i].type = "ENUM_REQUEST"
       PROVE  /\ \A j \in 1 .. i : wire'[s][q][j].type \in {"NET_NEW", "ENUM_REQUEST"}
              /\ known'[q] \cap Beyond[q][s] = {}
    <2>1. i \in DOMAIN wire[s][q]
        BY <1>8, <1>10
    <2>2. \A j \in DOMAIN wire[s][q] : wire'[s][q][j] = wire[s][q][j]
        BY <1>3, GrowQueue
    <2>3. wire[s][q] \in Seq(Messages)
        BY DEF Sound, Shape, Wires
    <2>4. \A j \in 1 .. i : j \in DOMAIN wire[s][q]
        BY <2>1, <2>3
    <2>5. /\ \A j \in 1 .. i : wire[s][q][j].type \in {"NET_NEW", "ENUM_REQUEST"}
          /\ known[q] \cap Beyond[q][s] = {}
        BY <1>10, <2>1, <2>2 DEF Informed, AsksFirst
    <2>6. QED
        BY <1>1, <2>2, <2>4, <2>5
<1>11. AsksFirst'
    BY <1>10 DEF AsksFirst
<1>12. QED
    BY <1>3, <1>4, <1>6, <1>7, <1>9, <1>11, GrowInformed

\* Who calls has no link to a router yet, so nothing of users is on the way.
LEMMA LinkUpFree ==
    ASSUME Tree, Sound, Informed, Patient, OneCall, NEW r \in Routers, NEW s \in Routers, LinkUp(r, s)
    PROVE  /\ s \in todo[r] /\ <<r, s>> \in Calls /\ Conns(table[r]) \cap Routers = {} /\ known[r] = {}
           /\ \A q \in Routers : wire[r][q] = <<>> /\ wire[q][r] = <<>>
           /\ ~Enumerating(Routers) /\ ~Talking
           /\ known[s] \cap Beyond[s][r] = {}
<1>1. /\ phase[r] = "starting" /\ s \in todo[r] /\ ~Enumerating(Routers \ {r}) /\ ~Talking
      /\ Peers /\ LinkedUp(r, s)
    BY LinkUpSends DEF LinkUp, Informed
<1>2. known[r] = {} /\ <<r, s>> \in Calls /\ \A x \in Conns(table[r]) \cap Routers : <<r, x>> \in Calls
    BY <1>1 DEF Peers
<1>3. Conns(table[r]) \cap Routers = {}
    <2>1. \A x \in Conns(table[r]) \cap Routers : x = s
        BY <1>2 DEF OneCall
    <2>2. QED
        BY <1>1, <2>1 DEF LinkedUp
<1>4. ASSUME NEW q \in Routers PROVE wire[r][q] = <<>> /\ wire[q][r] = <<>>
    <2>1. q \notin Conns(table[r])
        BY <1>3
    <2>2. r \notin Conns(table[q])
        BY <1>1, <2>1 DEF Peers
    <2>3. QED
        BY <2>1, <2>2 DEF Sound, OnLinks
<1>5. ~Enumerating(Routers)
    <2>1. \A p, q \in Routers : \A i \in DOMAIN wire[p][q] : p \in Routers \ {r} /\ q \in Routers \ {r}
        BY <1>4
    <2>2. QED
        BY <1>1, <2>1 DEF Enumerating
<1>6. ASSUME NEW l \in known[s], l \in Beyond[s][r] PROVE FALSE
    <2>1. PICK c \in Conns(table[s]) : l \in Beyond[s][c]
        BY DEF Informed, KnownThrough
    <2>2. c # r
        BY <1>1 DEF LinkedUp
    <2>3. Adjacent(s, c) /\ c \in Node /\ s \in Node /\ r \in Node /\ Adjacent(s, r)
        BY <1>1, AllLead DEF LinkedUp, Node
    <2>4. QED
        BY <1>6, <2>1, <2>2, <2>3 DEF Tree
<1>7. QED
    BY <1>1, <1>2, <1>3, <1>4, <1>5, <1>6

\* A link is made: the caller asks before it is told of anybody, and has no other
\* link.
LEMMA LinkUpInformed ==
    ASSUME Tree, Sound, Sound', Informed, Patient, OneCall,
           NEW r \in Routers, NEW s \in Routers, LinkUp(r, s)
    PROVE  Informed'
<1>1. LinkedUp(r, s) /\ phase' = phase /\ known' = known /\ todo' = [todo EXCEPT ![r] = @ \ {s}]
      /\ phase[s] = "up"
    BY LinkUpSends DEF LinkUp
<1>2. /\ s \in todo[r] /\ <<r, s>> \in Calls /\ Conns(table[r]) \cap Routers = {} /\ known[r] = {}
      /\ \A q \in Routers : wire[r][q] = <<>> /\ wire[q][r] = <<>>
      /\ ~Enumerating(Routers) /\ ~Talking
      /\ known[s] \cap Beyond[s][r] = {}
    BY LinkUpFree
<1>3. Grows
    <2>1. \A p, q \in Routers : Announces(wire[p][q], wire'[p][q], {"NET_NEW", "ENUM_REQUEST"})
        <3> TAKE p, q \in Routers
        <3>1. Announces(wire[p][q], wire'[p][q], Greeted(r, s, p, q))
            BY <1>1 DEF LinkedUp
        <3>2. Greeted(r, s, p, q) \subseteq {"NET_NEW", "ENUM_REQUEST"}
            BY DEF Greeted
        <3>3. QED
            BY <3>1, <3>2, AnnouncesMore
    <2>2. QED
        BY <1>1, <2>1, LinkUpLarger DEF Grows
<1>4. /\ r # s
      /\ \A x : x \in Conns(table'[r]) <=> x \in Conns(table[r]) \/ x = s
      /\ \A x : x \in Conns(table'[s]) <=> x \in Conns(table[s]) \/ x = r
      /\ \A q \in Routers : q # r /\ q # s => table'[q] = table[q]
    BY <1>1 DEF LinkedUp
<1>5. \A q \in Routers : todo'[q] \subseteq todo[q]
    BY <1>1 DEF Sound, Shape
<1>6. Peers'
    <2>1. Peers
        BY DEF Informed
    <2>2. ASSUME NEW p \in Routers, NEW q \in Routers, q \in Conns(table'[p]) PROVE p \in Conns(table'[q])
        <3>1. q \in Conns(table[p]) \/ (p = r /\ q = s) \/ (p = s /\ q = r)
            BY <1>4, <2>2
        <3>2. CASE q \in Conns(table[p])
            <4>1. p \in Conns(table[q])
                BY <2>1, <3>2 DEF Peers
            <4>2. QED
                BY <1>4, <4>1
        <3>3. QED
            BY <1>4, <3>1, <3>2
    <2>3. ASSUME NEW q \in Routers, phase'[q] \in {"off", "starting"}
          PROVE  known'[q] = {} /\ \A x \in Conns(table'[q]) \cap Routers : <<q, x>> \in Calls
        <3>1. q # s /\ phase[q] \in {"off", "starting"}
            BY <1>1, <2>3
        <3>2. known[q] = {} /\ \A x \in Conns(table[q]) \cap Routers : <<q, x>> \in Calls
            BY <2>1, <3>1 DEF Peers
        <3>3. QED
            BY <1>1, <1>2, <1>4, <3>1, <3>2
    <2>4. QED
        BY <1>1, <1>5, <2>1, <2>2, <2>3 DEF Peers
<1>7. ASSUME NEW p \in Routers, NEW q \in Routers, NEW i \in DOMAIN wire'[p][q],
             wire'[p][q][i].type = "ENUM_REQUEST"
      PROVE  /\ \A j \in 1 .. i : wire'[p][q][j].type \in {"NET_NEW", "ENUM_REQUEST"}
             /\ known'[q] \cap Beyond[q][p] = {}
    <2> DEFINE a == wire[p][q]
               b == wire'[p][q]
    <2>1. /\ Len(a) <= Len(b) /\ (\A j \in 1 .. Len(a) : b[j] = a[j])
          /\ \A j \in Len(a) + 1 .. Len(b) : b[j].type \in Greeted(r, s, p, q)
        BY <1>1 DEF LinkedUp, Announces
    <2>2. a \in Seq(Messages) /\ b \in Seq(Messages)
        BY DEF Sound, Shape, Wires
    <2>3. \A j \in DOMAIN a : a[j].type # "ENUM_REQUEST"
        BY <1>2 DEF Enumerating
    <2>4. (p = r /\ q = s) \/ (p = s /\ q = r)
        <3> HIDE DEF a, b
        <3>1. i \in DOMAIN b /\ b[i].type = "ENUM_REQUEST"
            BY <1>7 DEF b
        <3>2. i \in Len(a) + 1 .. Len(b)
            BY <2>1, <2>2, <2>3, <3>1
        <3>3. "ENUM_REQUEST" \in Greeted(r, s, p, q)
            BY <2>1, <3>1, <3>2
        <3>4. QED
            BY <3>3 DEF Greeted
    <2>5. a = <<>>
        BY <1>2, <2>4
    <2>6. known[q] \cap Beyond[q][p] = {}
        BY <1>2, <2>4
    <2> HIDE DEF a, b
    <2>7. \A j \in 1 .. i : b[j].type \in {"NET_NEW", "ENUM_REQUEST"}
        <3>1. \A j \in 1 .. i : j \in Len(a) + 1 .. Len(b)
            BY <1>7, <2>2, <2>5 DEF b
        <3>2. QED
            BY <2>1, <3>1 DEF Greeted
    <2>8. QED
        BY <1>1, <2>6, <2>7 DEF b
<1>8. AsksFirst'
    BY <1>7 DEF AsksFirst
<1>9. ASSUME NEW l \in Nets \cap Beyond[r][s] PROVE Same(s, r, l)'
    <2>1. Asked(r, s)'
        BY <1>1 DEF LinkedUp, Asked
    <2>2. Alone(r)'
        BY <1>2, <1>4 DEF Alone
    <2>3. ~Heeds(known[r], wire[s][r], l, Len(wire[s][r]))
        BY <1>2 DEF Heeds
    <2>4. ~Heeds(known'[r], wire'[s][r], l, Len(wire'[s][r]))
        BY <1>3, <2>3, GrowQueue
    <2>5. QED
        BY <2>1, <2>2, <2>4 DEF Same
<1>10. ASSUME NEW l \in Nets \cap Beyond[s][r] PROVE Same(r, s, l)'
    <2>1. l \notin known'[r] /\ l \notin known[s]
        BY <1>1, <1>2, <1>10
    <2>2. ~Heeds(known[s], wire[r][s], l, Len(wire[r][s]))
        BY <1>2, <2>1 DEF Heeds
    <2>3. ~Heeds(known'[s], wire'[r][s], l, Len(wire'[r][s]))
        BY <1>3, <2>2, GrowQueue
    <2>4. QED
        BY <2>1, <2>3 DEF Same
<1>11. ASSUME NEW p \in Routers, NEW q \in Routers, p \in Conns(table'[q]), p \notin Conns(table[q]),
              NEW l \in Nets \cap Beyond[q][p]
       PROVE  Same(p, q, l)'
    <2>1. (q = r /\ p = s) \/ (q = s /\ p = r)
        BY <1>4, <1>11
    <2>2. QED
        BY <1>9, <1>10, <2>1
<1>12. QED
    BY <1>2, <1>3, <1>6, <1>8, <1>11, GrowInformed

\* There is nobody yet.
LEMMA InformedInit ==
    ASSUME Init
    PROVE  Informed
<1>1. /\ \A s, r \in Routers : wire[s][r] = <<>>
      /\ \A r \in Routers : phase[r] = "off" /\ todo[r] = {} /\ table[r] = <<>> /\ known[r] = {}
    BY DEF Init
<1>2. \A r \in Routers : Conns(table[r]) = {}
    BY <1>1 DEF Conns
<1>3. TheirSide /\ KnownThrough /\ AsksFirst /\ RepliesPlain /\ SameUsers /\ WordsKnown /\ Heeded
    BY <1>1, <1>2 DEF TheirSide, KnownThrough, AsksFirst, RepliesPlain, SameUsers, WordsKnown, Heeded
<1>4. Peers
    BY <1>1, <1>2 DEF Peers
<1>5. ~Talking
    BY <1>1 DEF Talking
<1>6. QED
    BY <1>3, <1>4, <1>5 DEF Informed, OneAtATime

\* What concerns no user and no link
LEMMA InformedSame ==
    ASSUME Informed, Peers', UNCHANGED <<table, known, wire>>
    PROVE  Informed'
<1>1. TheirSide'
    BY DEF Informed, TheirSide
<1>2. KnownThrough' /\ AsksFirst'
    BY DEF Informed, KnownThrough, AsksFirst
<1>3. RepliesPlain'
    BY DEF Informed, RepliesPlain, Alone
<1>4. SameUsers'
    BY DEF Informed, SameUsers, Same, Asked, Alone
<1>5. WordsKnown' /\ Heeded'
    BY DEF Informed, WordsKnown, Heeded
<1>6. OneAtATime'
    BY DEF Informed, OneAtATime, Enumerating, Talking
<1>7. QED
    BY <1>1, <1>2, <1>3, <1>4, <1>5, <1>6 DEF Informed

\* Starting, going up, and a call nobody answers
LEMMA StartInformed ==
    ASSUME Sound, Informed, NEW r \in Routers, Boot(r) \/ GoUp(r) \/ \E s \in Routers : LinkFails(r, s)
    PROVE  Informed'
<1>1. UNCHANGED <<table, known, wire>> /\ Peers /\ phase \in [Routers -> {"off", "starting", "up", "dead"}]
      /\ DOMAIN todo = Routers
    BY DEF Boot, GoUp, LinkFails, Informed, Sound, Shape
<1>2. CASE Boot(r)
    <2>1. phase' = [phase EXCEPT ![r] = "starting"] /\ phase[r] = "off"
        BY <1>2 DEF Boot
    <2>2. \A q \in Routers : q # r => todo'[q] = todo[q]
        BY <1>1, <1>2 DEF Boot
    <2>3. \A s \in todo'[r] \cap Routers : <<r, s>> \in Calls
        <3>1. todo'[r] = {l \in Nets : Home[l] = r} \cup {s \in Routers : <<r, s>> \in Calls}
            BY <1>1, <1>2 DEF Boot
        <3>2. QED
            BY <3>1, RouterNetAssumption
    <2>4. \A q \in Routers : \A s \in todo'[q] \cap Routers : <<q, s>> \in Calls
        BY <1>1, <2>2, <2>3 DEF Peers
    <2>5. \A q \in Routers : phase'[q] # "dead" /\ (phase'[q] \in {"off", "starting"} => phase[q] \in {"off", "starting"})
        BY <1>1, <2>1 DEF Peers
    <2>6. Peers'
        BY <1>1, <2>4, <2>5 DEF Peers
    <2>7. QED
        BY <1>1, <2>6, InformedSame
<1>3. CASE GoUp(r)
    <2>1. phase' = [phase EXCEPT ![r] = "up"] /\ todo' = todo
        BY <1>3 DEF GoUp
    <2>2. \A q \in Routers : phase'[q] # "dead" /\ (phase'[q] \in {"off", "starting"} => phase[q] \in {"off", "starting"})
        BY <1>1, <2>1 DEF Peers
    <2>3. Peers'
        BY <1>1, <2>1, <2>2 DEF Peers
    <2>4. QED
        BY <1>1, <2>3, InformedSame
<1>4. ASSUME NEW s \in Routers, LinkFails(r, s) PROVE Informed'
    <2>1. phase' = phase /\ \A q \in Routers : todo'[q] \subseteq todo[q]
        BY <1>1, <1>4 DEF LinkFails
    <2>2. Peers'
        BY <1>1, <2>1 DEF Peers
    <2>3. QED
        BY <1>1, <2>2, InformedSame
<1>5. QED
    BY <1>2, <1>3, <1>4

\* Every step of a patient and considerate network keeps all informed.
LEMMA InformedNext ==
    ASSUME Tree, MaxCuts = 0, Patient, Considerate, OneCall,
           Sound, Lossless, Informed, Sound', [Next]_vars
    PROVE  Informed'
<1>1. CASE UNCHANGED vars
    <2>1. UNCHANGED <<phase, todo, table, known, wire>>
        BY <1>1 DEF vars
    <2>2. Peers'
        BY <2>1 DEF Informed, Peers
    <2>3. QED
        BY <2>1, <2>2, InformedSame
<1>2. ASSUME NEW r \in Routers, Start(r) PROVE Informed'
    <2>1. CASE Boot(r) \/ GoUp(r) \/ \E s \in Routers : LinkFails(r, s)
        BY <2>1, StartInformed
    <2>2. CASE \E l \in Nets : AttachLocal(r, l)
        BY <2>2, AttachInformed
    <2>3. CASE \E s \in Routers : LinkUp(r, s)
        BY <2>3, LinkUpInformed
    <2>4. QED
        BY <1>2, <2>1, <2>2, <2>3 DEF Start
<1>3. ASSUME NEW r \in Routers, Serve(r) PROVE Informed'
    BY <1>3, ReceiveInformed DEF Serve
<1>4. ASSUME NEW l \in Nets, SignOn(l) \/ SignOff(l) \/ Speak(l) PROVE Informed'
    BY <1>4, UserInformed
<1>5. ASSUME NEW r \in Routers, NEW s \in Routers, Cut(r, s) PROVE FALSE
    BY <1>5 DEF Cut, Lossless
<1>6. QED
    BY <1>1, <1>2, <1>3, <1>4, <1>5 DEF Next

\* Both ends of a link know the same users when all is read.
LEMMA SameWhenQuiet ==
    ASSUME Tree, Sound, Informed, Quiet, NEW x \in Routers, NEW y \in Routers,
           y \in Conns(table[x]), x \in Conns(table[y])
    PROVE  known[x] \subseteq known[y]
<1> SUFFICES ASSUME NEW l \in known[x] PROVE l \in known[y]
    OBVIOUS
<1>1. l \in Nets /\ wire[x][y] = <<>> /\ wire[y][x] = <<>>
    BY DEF Quiet, Sound, Shape
<1>2. PICK c \in Conns(table[x]) : l \in Beyond[x][c]
    BY DEF Informed, KnownThrough
<1>3. CASE c = y
    <2>1. Same(y, x, l)
        BY <1>1, <1>2, <1>3 DEF Informed, SameUsers
    <2>2. Heeds(known[x], wire[y][x], l, Len(wire[y][x]))
        BY <1>1 DEF Heeds
    <2>3. QED
        BY <2>1, <2>2 DEF Same
<1>4. CASE c # y
    <2>1. /\ c \in Node /\ y \in Node /\ x \in Node /\ x # y /\ c # x
          /\ Adjacent(x, y) /\ Adjacent(x, c)
        BY AllLead DEF Node
    <2>2. l \in Beyond[y][x]
        BY <1>2, <1>4, <2>1, Nested
    <2>3. Same(x, y, l)
        BY <1>1, <2>2 DEF Informed, SameUsers
    <2>4. ~Asked(y, x)
        BY <1>1 DEF Asked
    <2>5. Heeds(known[y], wire[x][y], l, Len(wire[x][y]))
        BY <2>3, <2>4 DEF Same
    <2>6. QED
        BY <1>1, <2>5 DEF Heeds
<1>5. QED
    BY <1>3, <1>4

\* So all routers that are linked do.
LEMMA AgreeHolds ==
    ASSUME Tree, Sound, Informed
    PROVE  UsersAgree
<1> SUFFICES ASSUME Quiet, NEW r \in Routers, NEW n \in Reachable(r) \cap Nets
             PROVE  n \in known[r] <=> n \in known[Home[n]]
    BY DEF UsersAgree
<1> DEFINE S == {z \in Routers : known[z] = known[r]} \cup {l \in Nets : known[Home[l]] = known[r]}
<1>1. \A l \in Nets : Home[l] \in Routers /\ l \notin Routers
    BY RouterNetAssumption
<1>2. ASSUME NEW x \in Nets, NEW y \in Routers, x \in Conns(table[y]) PROVE y = Home[x]
    <2>1. Adjacent(y, x)
        BY <1>2, AllLead
    <2>2. QED
        BY <1>1, <2>1, RouterNetAssumption DEF Adjacent
<1>3. ASSUME NEW x \in S, NEW y \in Node, Linked(x, y) PROVE y \in S
    <2>1. CASE x \in Routers /\ y \in Routers /\ y \in Conns(table[x]) /\ x \in Conns(table[y])
        <3>1. known[x] \subseteq known[y] /\ known[y] \subseteq known[x]
            BY <2>1, SameWhenQuiet
        <3>2. known[x] = known[r]
            BY <1>1, <2>1
        <3>3. QED
            BY <2>1, <3>1, <3>2
    <2>2. CASE x \in Routers /\ y \in Nets /\ y \in Conns(table[x])
        <3>1. x = Home[y] /\ known[x] = known[r]
            BY <1>1, <1>2, <2>2
        <3>2. QED
            BY <2>2, <3>1
    <2>3. CASE y \in Routers /\ x \in Nets /\ x \in Conns(table[y])
        <3>1. y = Home[x] /\ known[Home[x]] = known[r]
            BY <1>1, <1>2, <2>3
        <3>2. QED
            BY <2>3, <3>1
    <2>4. QED
        BY <1>3, <2>1, <2>2, <2>3 DEF Linked
<1>4. S \in SUBSET Node /\ r \in S
    BY DEF Node
<1> HIDE DEF S
<1>5. n \in S
    <2>1. Reachable(r) = {x \in Node : \A T \in SUBSET (Node \ {}) :
              (/\ {r} \subseteq T
               /\ \A y \in T, z \in Node \ {} : Linked(y, z) => z \in T) => x \in T} \ {r}
        BY DEF Reachable, Closure
    <2>2. S \in SUBSET (Node \ {}) /\ {r} \subseteq S /\ \A y \in S, z \in Node \ {} : Linked(y, z) => z \in S
        BY <1>3, <1>4
    <2>3. QED
        BY <2>1, <2>2
<1>6. QED
    BY <1>1, <1>5 DEF S

\* In a network whose routers call one router each, and at times nobody speaks and
\* no users are enumerated, no router fails an assertion of its user cache, as long
\* as no link is lost and nobody leaves before what is said to him in private has
\* come (usercache_add, usercache_nickname_of), ...
THEOREM NoRouterAborts ==
    ASSUME Tree, MaxCuts = 0, Patient, Considerate, OneCall
    PROVE  Spec => []NoAssertionFails
<1> DEFINE Inv == Sound /\ Lossless /\ Informed
<1>1. Init => Inv
    BY SoundInit, LosslessInit, InformedInit
<1>2. Inv /\ [Next]_vars => Inv'
    BY SoundNext, LosslessNext, InformedNext
<1>3. Inv => NoAssertionFails
    BY DEF Informed, Peers, NoAssertionFails
<1>4. QED
    BY <1>1, <1>2, <1>3, PTL DEF Spec

\* ... and when all is read, all routers that reach each other know the same users
\* as the routers of these users do: nobody is missing and nobody has stayed
\* (switch_msg, exchange_usercache).
THEOREM UsersComeToAgree ==
    ASSUME Tree, MaxCuts = 0, Patient, Considerate, OneCall
    PROVE  Spec => []UsersAgree
<1> DEFINE Inv == Sound /\ Lossless /\ Informed
<1>1. Init => Inv
    BY SoundInit, LosslessInit, InformedInit
<1>2. Inv /\ [Next]_vars => Inv'
    BY SoundNext, LosslessNext, InformedNext
<1>3. Inv => UsersAgree
    BY AgreeHolds
<1>4. QED
    BY <1>1, <1>2, <1>3, PTL DEF Spec

=============================================================================
