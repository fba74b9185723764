--------------------------- MODULE LocalNetProofs ---------------------------
(***************************************************************************)
(* The user cache of a router and a router on a local net, modules         *)
(* UserCache and LocalNet.                                                 *)
(*                                                                         *)
(* The reference counts of the user cache are exact, and with them the     *)
(* cache implements its book, for every set of users, channels, topics and *)
(* heap blocks.  RefCountExact is inductive once the shape of the cache    *)
(* and the uniqueness of channel names are known: an exact count means     *)
(* that an entry is freed only when nobody points to it, and a unique name *)
(* means that a name leads to the one entry whose count is to be changed.  *)
(*                                                                         *)
(* Two theorems about a router on a local net, for any clients, nicknames  *)
(* and bounds.                                                             *)
(*                                                                         *)
(* The packet a router puts off behind the USER_NEW of its sender is never *)
(* left behind.  This is inductive: a call of recv() that leaves a packet  *)
(* put off says that there is more to read, be it because it has put the   *)
(* packet off just now or because a funeral came first, and nothing else   *)
(* touches the packet.                                                     *)
(*                                                                         *)
(* What the router sends for users of other nets never makes a user of     *)
(* this one.  For that the router must know the sender of such a packet    *)
(* when it comes back, so the invariant (Apart) relates the socket to the  *)
(* cache: every packet in it is a client's, the router's own, one of a     *)
(* user of another net that is in the cache, or the leave of one that no   *)
(* longer is.  The ids of users of other nets must be told apart for it    *)
(* (a removal by id takes none but the user meant), while those of users   *)
(* of this net may well wrap around and meet.                              *)
(***************************************************************************)
EXTENDS UserCache, LocalNet, FiniteSetTheorems, SequenceTheorems, TLAPS

-----------------------------------------------------------------------------
(***************************************************************************)
(* The user cache                                                          *)
(***************************************************************************)

\* ChannelNamesUnique of any heap.
NamesUnique(h) ==
    \A s \in Slots : Allocated(h, s) =>
        /\ h[s].name \in Channels
        /\ \A r \in FindChan(h, h[s].name) : r = s

IInv == TypeOK /\ RefCountExact /\ ChannelNamesUnique /\ NeverCrashes

\* The holders of a slot are finitely many, so they can be counted.
LEMMA HoldersFinite ==
    ASSUME TypeOK, NEW s \in Slots
    PROVE  IsFiniteSet(Holders(s)) /\ Cardinality(Holders(s)) \in Nat
<1>1. Holders(s) \subseteq Users
    BY DEF Holders, TypeOK
<1>2. IsFiniteSet(Holders(s))
    BY <1>1, UserCacheAssumption, FS_Subset DEF UserCacheAssumption
<1>3. QED
    BY <1>2, FS_CardinalityType

\* With exact counts no list points to a freed entry.
LEMMA NoDanglingPointer ==
    ASSUME TypeOK, RefCountExact, NEW u \in Users, NEW s \in chan[u]
    PROVE  s \in Slots /\ Allocated(heap, s)
<1>1. s \in Slots
    BY DEF TypeOK
<1>2. u \in Holders(s)
    BY DEF Holders, TypeOK
<1>3. Cardinality(Holders(s)) # 0
    BY <1>1, <1>2, HoldersFinite, FS_EmptySet
<1>4. QED
    BY <1>1, <1>3, HoldersFinite DEF RefCountExact, Allocated

\* Dropping all the references of the users W leaves an exact count of the
\* others, and every entry that is left keeps its name and its topic.
LEMMA ReleasedExact ==
    ASSUME TypeOK, RefCountExact, NEW W \in SUBSET Users
    PROVE  /\ Released(W) \in [Slots -> ChannelEntry]
           /\ \A s \in Slots :
                /\ Released(W)[s].refs = Cardinality(Holders(s) \ W)
                /\ Allocated(Released(W), s) =>
                     /\ Allocated(heap, s)
                     /\ Released(W)[s].name = heap[s].name
                     /\ Released(W)[s].topic = heap[s].topic
<1>1. ASSUME NEW s \in Slots
      PROVE  /\ Released(W)[s] \in ChannelEntry
             /\ Released(W)[s].refs = Cardinality(Holders(s) \ W)
             /\ Released(W)[s].refs > 0 =>
                  /\ heap[s].refs > 0
                  /\ Released(W)[s].name = heap[s].name
                  /\ Released(W)[s].topic = heap[s].topic
    <2> DEFINE R == {u \in W : s \in chan[u]}
               left == heap[s].refs - Cardinality(R)
    <2>1. R = Holders(s) \cap W
        BY DEF Holders, TypeOK
    <2>2. IsFiniteSet(Holders(s)) /\ Cardinality(Holders(s)) \in Nat
        BY HoldersFinite
    <2>3. /\ IsFiniteSet(Holders(s) \ W)
          /\ Cardinality(Holders(s) \ W) = Cardinality(Holders(s)) - Cardinality(R)
        BY <2>1, <2>2, FS_Difference
    <2>4. Cardinality(Holders(s) \ W) \in Nat
        BY <2>3, FS_CardinalityType
    <2>5. Cardinality(R) \in Nat
        BY <2>1, <2>2, FS_Intersection, FS_CardinalityType
    <2>6. left = Cardinality(Holders(s) \ W)
        BY <2>3 DEF RefCountExact
    <2>7. Released(W)[s] = IF left = 0 THEN Freed ELSE [heap[s] EXCEPT !.refs = left]
        BY DEF Released
    <2>8. heap[s] \in ChannelEntry
        BY DEF TypeOK
    <2> HIDE DEF left, R
    <2>9. QED
        BY <2>2, <2>3, <2>4, <2>5, <2>6, <2>7, <2>8
        DEF Freed, ChannelEntry, RefCountExact
<1>2. Released(W) = [s \in Slots |-> Released(W)[s]]
    BY DEF Released
<1>3. QED
    BY <1>1, <1>2 DEF Allocated

\* Taking one reference to the entry of each name in N raises exactly those
\* counts by one, makes a fresh entry for each name that had none, and never
\* makes a second entry of a name.
LEMMA ReferencedExact ==
    ASSUME NEW h \in [Slots -> ChannelEntry], NamesUnique(h),
           NEW N \in SUBSET Channels, NEW place \in Placements(h, N)
    PROVE  /\ Referenced(h, N, place) \in [Slots -> ChannelEntry]
           /\ NamesUnique(Referenced(h, N, place))
           /\ \A s \in Slots :
                /\ (\A c \in N : place[c] # s) => Referenced(h, N, place)[s] = h[s]
                /\ (\E c \in N : place[c] = s) =>
                        Referenced(h, N, place)[s].refs = h[s].refs + 1
                /\ Allocated(h, s) =>
                     /\ Referenced(h, N, place)[s].name = h[s].name
                     /\ Referenced(h, N, place)[s].topic = h[s].topic
<1> DEFINE g == Referenced(h, N, place)
<1>1. /\ place \in [N -> Slots]
      /\ \A c \in N : FindChan(h, c) # {} => place[c] \in FindChan(h, c)
      /\ \A c \in N : FindChan(h, c) = {} => ~Allocated(h, place[c])
      /\ \A c, d \in N : place[c] = place[d] => c = d
    BY DEF Placements
<1>2. ASSUME NEW s \in Slots, \A c \in N : place[c] # s
      PROVE  g[s] = h[s]
    BY <1>2 DEF Referenced
<1>3. ASSUME NEW s \in Slots, NEW c \in N, place[c] = s, Allocated(h, s)
      PROVE  g[s] = [h[s] EXCEPT !.refs = @ + 1]
    BY <1>3 DEF Referenced
<1>4. ASSUME NEW s \in Slots, NEW c \in N, place[c] = s, ~Allocated(h, s)
      PROVE  g[s] = [name |-> c, topic |-> NoTopic, refs |-> 1]
    <2>1. (CHOOSE d \in N : place[d] = s) = c
        BY <1>1, <1>4
    <2>2. QED
        BY <2>1, <1>4 DEF Referenced
<1>5. \A s \in Slots : h[s] \in ChannelEntry
    OBVIOUS
<1>6. ASSUME NEW s \in Slots
      PROVE  /\ g[s] \in ChannelEntry
             /\ (\E c \in N : place[c] = s) => g[s].refs = h[s].refs + 1
             /\ Allocated(h, s) => g[s].name = h[s].name /\ g[s].topic = h[s].topic
    <2>1. CASE \A c \in N : place[c] # s
        BY <2>1, <1>2, <1>5
    <2>2. ASSUME NEW c \in N, place[c] = s, Allocated(h, s)
          PROVE  /\ g[s] \in ChannelEntry
                 /\ g[s].refs = h[s].refs + 1
                 /\ g[s].name = h[s].name /\ g[s].topic = h[s].topic
        <3>1. g[s] = [h[s] EXCEPT !.refs = @ + 1]
            BY <2>2, <1>3
        <3>2. h[s] \in ChannelEntry
            OBVIOUS
        <3> HIDE DEF g
        <3>3. QED
            BY <3>1, <3>2 DEF ChannelEntry
    <2>3. ASSUME NEW c \in N, place[c] = s, ~Allocated(h, s)
          PROVE  /\ g[s] \in ChannelEntry
                 /\ g[s].refs = h[s].refs + 1
        <3>1. g[s] = [name |-> c, topic |-> NoTopic, refs |-> 1]
            BY <2>3, <1>4
        <3>2. h[s].refs = 0
            BY <2>3 DEF ChannelEntry, Allocated
        <3> HIDE DEF g
        <3>3. QED
            BY <3>1, <3>2 DEF ChannelEntry
    <2> HIDE DEF g
    <2>4. QED
        BY <2>1, <2>2, <2>3
<1>7. g \in [Slots -> ChannelEntry]
    BY <1>6 DEF Referenced
<1>8. NamesUnique(g)
    <2>1. ASSUME NEW s \in Slots, Allocated(g, s), ~Allocated(h, s)
          PROVE  \E c \in N : /\ place[c] = s
                              /\ g[s].name = c
                              /\ FindChan(h, c) = {}
        <3>0. g[s] # h[s]
            BY <2>1 DEF Allocated
        <3>1. PICK c \in N : place[c] = s
            BY <3>0, <1>2
        <3>2. g[s].name = c
            <4>1. g[s] = [name |-> c, topic |-> NoTopic, refs |-> 1]
                BY <3>1, <2>1, <1>4
            <4> HIDE DEF g
            <4>2. QED
                BY <4>1
        <3>3. FindChan(h, c) = {}
            BY <3>1, <2>1, <1>1 DEF FindChan
        <3>4. QED
            BY <3>1, <3>2, <3>3
    <2>2. ASSUME NEW s \in Slots, Allocated(g, s)
          PROVE  g[s].name \in Channels
        BY <2>1, <2>2, <1>6 DEF NamesUnique
    <2>3. ASSUME NEW s \in Slots, NEW r \in Slots, Allocated(g, s), Allocated(g, r),
                 g[r].name = g[s].name
          PROVE  r = s
        <3>1. CASE Allocated(h, s) /\ Allocated(h, r)
            BY <3>1, <2>3, <1>6 DEF NamesUnique, FindChan
        <3>2. CASE Allocated(h, s) /\ ~Allocated(h, r)
            BY <3>2, <2>1, <2>3, <1>6 DEF FindChan
        <3>3. CASE ~Allocated(h, s) /\ Allocated(h, r)
            BY <3>3, <2>1, <2>3, <1>6 DEF FindChan
        <3>4. CASE ~Allocated(h, s) /\ ~Allocated(h, r)
            BY <3>4, <2>1, <2>3
        <3>5. QED
            BY <3>1, <3>2, <3>3, <3>4
    <2> HIDE DEF g
    <2>4. QED
        BY <2>2, <2>3 DEF NamesUnique, FindChan
<1>9. QED
    BY <1>2, <1>6, <1>7, <1>8

\* Dropping one counted reference keeps names unique and lowers one count.
LEMMA UnreferencedExact ==
    ASSUME TypeOK, ChannelNamesUnique, NEW s \in Slots, Allocated(heap, s)
    PROVE  /\ Unreferenced(s) \in [Slots -> ChannelEntry]
           /\ NamesUnique(Unreferenced(s))
           /\ Unreferenced(s)[s].refs = heap[s].refs - 1
           /\ \A r \in Slots :
                /\ r # s => Unreferenced(s)[r] = heap[r]
                /\ Allocated(Unreferenced(s), r) =>
                     /\ Allocated(heap, r)
                     /\ Unreferenced(s)[r].name = heap[r].name
                     /\ Unreferenced(s)[r].topic = heap[r].topic
<1> DEFINE g == Unreferenced(s)
<1>1. heap \in [Slots -> ChannelEntry] /\ heap[s] \in ChannelEntry
    BY DEF TypeOK
<1>2. g[s] = IF heap[s].refs = 1 THEN Freed
                                 ELSE [heap[s] EXCEPT !.refs = heap[s].refs - 1]
    BY <1>1 DEF Unreferenced
<1>3. /\ g[s] \in ChannelEntry
      /\ g[s].refs = heap[s].refs - 1
      /\ Allocated(g, s) => g[s].name = heap[s].name /\ g[s].topic = heap[s].topic
    BY <1>1, <1>2 DEF ChannelEntry, Freed, Allocated
<1>4. \A r \in Slots : r # s => g[r] = heap[r]
    BY <1>1 DEF Unreferenced
<1>5. g \in [Slots -> ChannelEntry]
    <2>1. \A r \in Slots : g[r] \in ChannelEntry
        BY <1>1, <1>3, <1>4
    <2>2. g = [r \in Slots |-> g[r]]
        BY <1>1 DEF Unreferenced
    <2>3. QED
        BY <2>1, <2>2
<1>6. \A r \in Slots : Allocated(g, r) =>
          Allocated(heap, r) /\ g[r].name = heap[r].name /\ g[r].topic = heap[r].topic
    BY <1>3, <1>4 DEF Allocated
<1> HIDE DEF g
<1>7. NamesUnique(g)
    BY <1>6 DEF NamesUnique, ChannelNamesUnique, FindChan
<1>8. QED
    BY <1>3, <1>4, <1>5, <1>6, <1>7 DEF g

\* The heap after a release still has unique names.
LEMMA ReleasedNamesUnique ==
    ASSUME TypeOK, RefCountExact, ChannelNamesUnique, NEW W \in SUBSET Users
    PROVE  NamesUnique(Released(W))
<1> DEFINE g == Released(W)
<1>1. \A s \in Slots : Allocated(g, s) => Allocated(heap, s) /\ g[s].name = heap[s].name
    BY ReleasedExact
<1> HIDE DEF g
<1>2. NamesUnique(g)
    BY <1>1 DEF NamesUnique, ChannelNamesUnique, FindChan
<1>3. QED
    BY <1>2 DEF g

\* The empty cache is well formed.
LEMMA InitIInv == CacheInit => IInv
<1> SUFFICES ASSUME CacheInit PROVE IInv
    OBVIOUS
<1>1. TypeOK
    BY DEF CacheInit, TypeOK, Freed, ChannelEntry
<1>2. \A s \in Slots : Holders(s) = {} /\ heap[s].refs = 0
    BY DEF CacheInit, Holders, Freed
<1>3. RefCountExact
    BY <1>2, FS_EmptySet DEF RefCountExact
<1>4. ChannelNamesUnique
    BY <1>2 DEF ChannelNamesUnique, Allocated
<1>5. QED
    BY <1>1, <1>3, <1>4 DEF IInv, CacheInit, NeverCrashes

\* With one holder more the number of holders is one more.
LEMMA OneHolderMore ==
    ASSUME NEW S, IsFiniteSet(S), NEW u, u \notin S
    PROVE  Cardinality(S \cup {u}) = Cardinality(S) + 1
BY FS_AddElement

\* With one holder less the number of holders is one less.
LEMMA OneHolderLess ==
    ASSUME NEW S, IsFiniteSet(S), NEW u \in S
    PROVE  Cardinality(S \ {u}) = Cardinality(S) - 1
BY FS_RemoveElement

\* Announcing a user: all its references are dropped, then taken anew.
LEMMA AddUserStep ==
    ASSUME IInv, NEW u \in Users, NEW N \in SUBSET Channels, AddUser(u, N)
    PROVE  IInv'
<1> USE DEF IInv
<1>1. ~FollowsDanglingPointer({u})
    BY NoDanglingPointer DEF FollowsDanglingPointer
<1> DEFINE h == Released({u})
<1>2. PICK place \in Placements(h, N) :
          /\ heap' = Referenced(h, N, place)
          /\ chan' = [chan EXCEPT ![u] = {place[c] : c \in N}]
          /\ cached' = cached \cup {u}
          /\ UNCHANGED crashed
    BY <1>1 DEF AddUser
<1>3. /\ h \in [Slots -> ChannelEntry]
      /\ NamesUnique(h)
      /\ \A s \in Slots : h[s].refs = Cardinality(Holders(s) \ {u})
    BY ReleasedExact, ReleasedNamesUnique
<1> HIDE DEF h
<1>4. /\ heap' \in [Slots -> ChannelEntry]
      /\ NamesUnique(heap')
      /\ \A s \in Slots : (\A c \in N : place[c] # s) => heap'[s] = h[s]
      /\ \A s \in Slots : (\E c \in N : place[c] = s) => heap'[s].refs = h[s].refs + 1
    BY <1>2, <1>3, ReferencedExact
<1>5. place \in [N -> Slots]
    BY DEF Placements
<1>6. TypeOK'
    BY <1>2, <1>4, <1>5 DEF TypeOK
<1>7. RefCountExact'
    <2> SUFFICES ASSUME NEW s \in Slots
                 PROVE  heap'[s].refs = Cardinality(Holders(s)')
        BY DEF RefCountExact
    <2>1. CASE \A c \in N : place[c] # s
        <3>1. Holders(s)' = Holders(s) \ {u}
            BY <2>1, <1>2, <1>5 DEF Holders, TypeOK
        <3>2. QED
            BY <3>1, <2>1, <1>3, <1>4
    <2>2. CASE \E c \in N : place[c] = s
        <3>1. Holders(s)' = (Holders(s) \ {u}) \cup {u}
            BY <2>2, <1>2, <1>5 DEF Holders, TypeOK
        <3>2. IsFiniteSet(Holders(s) \ {u})
            BY HoldersFinite, FS_RemoveElement
        <3>3. Cardinality(Holders(s)') = Cardinality(Holders(s) \ {u}) + 1
            BY <3>1, <3>2, OneHolderMore
        <3>4. QED
            BY <3>3, <2>2, <1>3, <1>4
    <2>3. QED
        BY <2>1, <2>2
<1>8. ChannelNamesUnique' /\ NeverCrashes'
    BY <1>2, <1>4
    DEF ChannelNamesUnique, NamesUnique, Allocated, FindChan, NeverCrashes
<1>9. QED
    BY <1>6, <1>7, <1>8

\* Removing a set of users: exactly their references go.
LEMMA RemoveUsersStep ==
    ASSUME IInv, NEW W \in SUBSET Users, RemoveUsers(W)
    PROVE  IInv'
<1> USE DEF IInv
<1>1. ~FollowsDanglingPointer(W)
    BY NoDanglingPointer DEF FollowsDanglingPointer
<1>2. /\ heap' = Released(W)
      /\ chan' = [u \in Users |-> IF u \in W THEN {} ELSE chan[u]]
      /\ cached' = cached \ W
      /\ UNCHANGED crashed
    BY <1>1 DEF RemoveUsers
<1>3. /\ heap' \in [Slots -> ChannelEntry]
      /\ NamesUnique(heap')
      /\ \A s \in Slots : heap'[s].refs = Cardinality(Holders(s) \ W)
    BY <1>2, ReleasedExact, ReleasedNamesUnique
<1>4. TypeOK'
    BY <1>2, <1>3 DEF TypeOK
<1>5. \A s \in Slots : Holders(s)' = Holders(s) \ W
    BY <1>2 DEF Holders, TypeOK
<1>6. RefCountExact'
    BY <1>3, <1>5 DEF RefCountExact
<1>7. ChannelNamesUnique' /\ NeverCrashes'
    BY <1>2, <1>3
    DEF ChannelNamesUnique, NamesUnique, Allocated, FindChan, NeverCrashes
<1>8. QED
    BY <1>4, <1>6, <1>7

\* Joining a channel the user is not in takes one reference.
LEMMA JoinChanStep ==
    ASSUME IInv, NEW u \in Users, NEW c \in Channels, JoinChan(u, c)
    PROVE  IInv'
<1> USE DEF IInv
<1>1. PICK place \in Placements(heap, {c}) :
          /\ heap' = Referenced(heap, {c}, place)
          /\ chan' = [chan EXCEPT ![u] = @ \cup {place[c]}]
    BY DEF JoinChan
<1>2. u \in cached /\ UNCHANGED <<cached, crashed>>
    BY DEF JoinChan
<1> DEFINE t == place[c]
<1>3. t \in Slots
    BY DEF Placements
<1>4. u \notin Holders(t)
    <2>1. CASE FindChan(heap, c) # {}
        BY <2>1 DEF Placements, JoinChan, Holders
    <2>2. CASE FindChan(heap, c) = {}
        BY <2>2, <1>3, NoDanglingPointer DEF Placements, Holders
    <2>3. QED
        BY <2>1, <2>2
<1>5. NamesUnique(heap)
    BY DEF ChannelNamesUnique, NamesUnique
<1>6. /\ heap' \in [Slots -> ChannelEntry]
      /\ NamesUnique(heap')
      /\ \A s \in Slots : s # t => heap'[s] = heap[s]
      /\ heap'[t].refs = heap[t].refs + 1
    <2>1. heap \in [Slots -> ChannelEntry] /\ {c} \in SUBSET Channels
        BY DEF TypeOK
    <2>2. place \in Placements(heap, {c})
        OBVIOUS
    <2> DEFINE g == Referenced(heap, {c}, place)
    <2>3. /\ g \in [Slots -> ChannelEntry]
          /\ NamesUnique(g)
          /\ \A s \in Slots :
                /\ (\A d \in {c} : place[d] # s) => g[s] = heap[s]
                /\ (\E d \in {c} : place[d] = s) => g[s].refs = heap[s].refs + 1
        BY <1>5, <2>1, <2>2, ReferencedExact
    <2>4. heap' = g
        BY <1>1
    <2> HIDE DEF g
    <2>5. QED
        BY <1>3, <2>3, <2>4
<1>7. TypeOK'
    BY <1>1, <1>2, <1>3, <1>6 DEF TypeOK
<1>8. RefCountExact'
    <2> SUFFICES ASSUME NEW s \in Slots
                 PROVE  heap'[s].refs = Cardinality(Holders(s)')
        BY DEF RefCountExact
    <2>1. CASE s # t
        <3>1. Holders(s)' = Holders(s)
            BY <2>1, <1>1, <1>2 DEF Holders, TypeOK
        <3>2. QED
            BY <3>1, <2>1, <1>6 DEF RefCountExact
    <2>2. CASE s = t
        <3>1. Holders(s)' = Holders(s) \cup {u}
            BY <2>2, <1>1, <1>2 DEF Holders, TypeOK
        <3>2. Cardinality(Holders(s)') = Cardinality(Holders(s)) + 1
            BY <3>1, <2>2, <1>4, HoldersFinite, OneHolderMore
        <3>3. QED
            BY <3>2, <2>2, <1>6 DEF RefCountExact
    <2>3. QED
        BY <2>1, <2>2
<1>9. ChannelNamesUnique' /\ NeverCrashes'
    BY <1>2, <1>6
    DEF ChannelNamesUnique, NamesUnique, Allocated, FindChan, NeverCrashes
<1>10. QED
    BY <1>7, <1>8, <1>9

\* Leaving a channel on the user's list drops one reference.
LEMMA PartChanStep ==
    ASSUME IInv, NEW u \in Users, NEW c \in Channels, PartChan(u, c)
    PROVE  IInv'
<1> USE DEF IInv
<1>1. PICK t \in FindChan(heap, c) \cap chan[u] :
          /\ heap' = Unreferenced(t)
          /\ chan' = [chan EXCEPT ![u] = @ \ {t}]
    BY DEF PartChan
<1>2. u \in cached /\ UNCHANGED <<cached, crashed>>
    BY DEF PartChan
<1>3. t \in Slots /\ Allocated(heap, t) /\ u \in Holders(t)
    BY <1>2 DEF FindChan, Holders
<1>4. /\ heap' \in [Slots -> ChannelEntry]
      /\ NamesUnique(heap')
      /\ heap'[t].refs = heap[t].refs - 1
      /\ \A s \in Slots : s # t => heap'[s] = heap[s]
    BY <1>1, <1>3, UnreferencedExact
<1>5. TypeOK'
    BY <1>1, <1>2, <1>4 DEF TypeOK
<1>6. RefCountExact'
    <2> SUFFICES ASSUME NEW s \in Slots
                 PROVE  heap'[s].refs = Cardinality(Holders(s)')
        BY DEF RefCountExact
    <2>1. CASE s # t
        <3>1. Holders(s)' = Holders(s)
            BY <2>1, <1>1, <1>2 DEF Holders, TypeOK
        <3>2. QED
            BY <3>1, <2>1, <1>4 DEF RefCountExact
    <2>2. CASE s = t
        <3>1. Holders(s)' = Holders(s) \ {u}
            BY <2>2, <1>1, <1>2 DEF Holders, TypeOK
        <3>2. Cardinality(Holders(s)') = Cardinality(Holders(s)) - 1
            BY <3>1, <2>2, <1>3, HoldersFinite, OneHolderLess
        <3>3. QED
            BY <3>2, <2>2, <1>4 DEF RefCountExact
    <2>3. QED
        BY <2>1, <2>2
<1>7. ChannelNamesUnique' /\ NeverCrashes'
    BY <1>2, <1>4
    DEF ChannelNamesUnique, NamesUnique, Allocated, FindChan, NeverCrashes
<1>8. QED
    BY <1>5, <1>6, <1>7

\* A topic message touches neither a count nor a name.
LEMMA SetTopicStep ==
    ASSUME IInv, NEW c \in Channels, NEW t \in Topics, SetTopic(c, t)
    PROVE  IInv'
<1> USE DEF IInv
<1>1. PICK s \in FindChan(heap, c) : heap' = [heap EXCEPT ![s].topic = t]
    BY DEF SetTopic
<1>2. UNCHANGED <<cached, chan, crashed>>
    BY DEF SetTopic
<1>3. s \in Slots
    BY DEF FindChan
<1>4. heap' \in [Slots -> ChannelEntry]
    <2>1. [heap[s] EXCEPT !.topic = t] \in ChannelEntry
        BY <1>3 DEF TypeOK, ChannelEntry
    <2>2. QED
        BY <1>1, <1>3, <2>1 DEF TypeOK
<1>5. \A r \in Slots : heap'[r].refs = heap[r].refs /\ heap'[r].name = heap[r].name
    BY <1>1, <1>3 DEF TypeOK, ChannelEntry
<1>6. TypeOK' /\ NeverCrashes'
    BY <1>2, <1>4 DEF TypeOK, NeverCrashes
<1>7. RefCountExact'
    BY <1>2, <1>5 DEF RefCountExact, Holders
<1>8. ChannelNamesUnique'
    BY <1>5 DEF ChannelNamesUnique, FindChan, Allocated
<1>9. QED
    BY <1>6, <1>7, <1>8

\* Every step of the cache preserves the invariant.
LEMMA NextIInv == IInv /\ [CacheNext]_cacheVars => IInv'
<1> SUFFICES ASSUME IInv, [CacheNext]_cacheVars PROVE IInv'
    OBVIOUS
<1>1. ASSUME NEW u \in Users, NEW N \in SUBSET Channels \ {{}}, AddUser(u, N)
      PROVE  IInv'
    BY <1>1, AddUserStep
<1>2. ASSUME NEW u \in Users, RemoveUser(u)
      PROVE  IInv'
    BY <1>2, RemoveUsersStep, {u} \in SUBSET Users DEF RemoveUser
<1>3. ASSUME NEW n \in Nets, RemoveNet(n)
      PROVE  IInv'
    <2>1. {u \in cached : NetOf[u] = n} \in SUBSET Users
        BY DEF IInv, TypeOK
    <2>2. QED
        BY <1>3, <2>1, RemoveUsersStep DEF RemoveNet
<1>4. ASSUME NEW u \in Users, NEW c \in Channels, JoinChan(u, c)
      PROVE  IInv'
    BY <1>4, JoinChanStep
<1>5. ASSUME NEW u \in Users, NEW c \in Channels, PartChan(u, c)
      PROVE  IInv'
    BY <1>5, PartChanStep
<1>6. ASSUME NEW c \in Channels, NEW t \in Topics, SetTopic(c, t)
      PROVE  IInv'
    BY <1>6, SetTopicStep
<1>7. CASE UNCHANGED cacheVars
    BY <1>7
    DEF cacheVars, IInv, TypeOK, RefCountExact, ChannelNamesUnique, NeverCrashes,
        Holders, FindChan, Allocated
<1>8. QED
    BY <1>1, <1>2, <1>3, <1>4, <1>5, <1>6, <1>7 DEF CacheNext

\* The invariant holds in every reachable state.
LEMMA Invariance == CacheSpec => []IInv
BY InitIInv, NextIInv, PTL DEF CacheSpec

\* The cache keeps its shape.
THEOREM TypeCorrect == CacheSpec => []TypeOK
<1>1. IInv => TypeOK
    BY DEF IInv
<1>2. QED
    BY <1>1, Invariance, PTL

\* Every channel entry counts exactly the users whose lists point to it, so none
\* is freed under a user and none is leaked.
THEOREM RefCountsExact == CacheSpec => []RefCountExact
<1>1. IInv => RefCountExact
    BY DEF IInv
<1>2. QED
    BY <1>1, Invariance, PTL

\* chan_find's first match is the only match.
THEOREM NamesStayUnique == CacheSpec => []ChannelNamesUnique
<1>1. IInv => ChannelNamesUnique
    BY DEF IInv
<1>2. QED
    BY <1>1, Invariance, PTL

\* No pointer of any list is ever followed into freed memory, and the assertion
\* of usercache_remove never fails.
THEOREM CacheNeverCrashes == CacheSpec => []NeverCrashes
<1>1. IInv => NeverCrashes
    BY DEF IInv
<1>2. QED
    BY <1>1, Invariance, PTL
-----------------------------------------------------------------------------
(***************************************************************************)
(* The cache implements the book of presence, membership and topics.       *)
(*                                                                         *)
(* The argument follows the entries: an entry stays allocated exactly as   *)
(* long as some user points to it (the counts are exact), so a channel has *)
(* a topic exactly as long as it has a member; and there is at most one    *)
(* entry of a name, so the topic of a name is the topic of that entry.     *)
(***************************************************************************)

\* TopicOf and ChannelsOf in any heap.
TopicIn(h, c) ==
    IF FindChan(h, c) = {} THEN NoTopic
    ELSE h[CHOOSE s \in FindChan(h, c) : TRUE].topic
NamesIn(h, S) == {h[s].name : s \in S}

\* The topic of a name is the topic of any entry found under it.
LEMMA TopicOfEntry ==
    ASSUME NEW h, NamesUnique(h), NEW c, NEW s \in FindChan(h, c)
    PROVE  TopicIn(h, c) = h[s].topic
<1>1. \A r \in FindChan(h, c) : r = s
    BY DEF NamesUnique, FindChan
<1>2. (CHOOSE r \in FindChan(h, c) : TRUE) \in FindChan(h, c)
    OBVIOUS
<1>3. QED
    BY <1>1, <1>2 DEF TopicIn

\* A channel entry is allocated exactly while a user points to it.
AllocatedWhileHeld ==
    \A s \in Slots : Allocated(heap, s) <=> \E u \in Users : s \in chan[u]

\* In the invariant, an entry is allocated exactly while a user points to it...
LEMMA HeldNow == IInv => AllocatedWhileHeld
<1> SUFFICES ASSUME IInv, NEW s \in Slots
             PROVE  Allocated(heap, s) <=> \E u \in Users : s \in chan[u]
    BY DEF AllocatedWhileHeld
<1>1. ASSUME Allocated(heap, s) PROVE \E u \in Users : s \in chan[u]
    <2>1. Cardinality(Holders(s)) # 0
        BY <1>1 DEF IInv, RefCountExact, Allocated
    <2>2. Holders(s) # {}
        BY <2>1, FS_EmptySet
    <2>3. QED
        BY <2>2 DEF Holders, IInv, TypeOK
<1>2. QED
    BY <1>1, NoDanglingPointer DEF IInv

\* ... and so it is after a step.
LEMMA HeldNext == IInv' => AllocatedWhileHeld'
BY HeldNow, PTL

\* After the users W have dropped their channels, an entry is allocated exactly
\* while another user points to it.
LEMMA ReleasedWhileHeld ==
    ASSUME IInv, NEW W \in SUBSET Users, NEW s \in Slots
    PROVE  Allocated(Released(W), s) <=> \E u \in Users \ W : s \in chan[u]
<1> DEFINE n == Released(W)[s].refs
<1>1. n = Cardinality(Holders(s) \ W)
    BY ReleasedExact DEF IInv
<1>2. IsFiniteSet(Holders(s) \ W)
    BY HoldersFinite, FS_Difference DEF IInv
<1>3. n \in Nat /\ (n = 0 <=> Holders(s) \ W = {})
    BY <1>1, <1>2, FS_CardinalityType, FS_EmptySet
<1>4. Holders(s) \ W = {u \in Users \ W : s \in chan[u]}
    BY DEF Holders, IInv, TypeOK
<1> HIDE DEF n
<1>5. n > 0 <=> \E u \in Users \ W : s \in chan[u]
    BY <1>3, <1>4
<1>6. QED
    BY <1>5 DEF Allocated, n

\* A channel has an entry exactly while it has a member outside W.
LEMMA ReleasedChannels ==
    ASSUME IInv, NEW W \in SUBSET Users
    PROVE  /\ \A c \in Channels :
                FindChan(Released(W), c) # {} <=> \E u \in Users \ W : c \in ChannelsOf(u)
           /\ \A u \in Users \ W : NamesIn(Released(W), chan[u]) = ChannelsOf(u)
           /\ \A c \in Channels : TopicIn(Released(W), c) = Book!TopicsWithout(W)[c]
<1> DEFINE h == Released(W)
<1>1. \A s \in Slots : Allocated(h, s) =>
          Allocated(heap, s) /\ h[s].name = heap[s].name /\ h[s].topic = heap[s].topic
    BY ReleasedExact DEF IInv
<1>2. \A s \in Slots : Allocated(h, s) <=> \E u \in Users \ W : s \in chan[u]
    BY ReleasedWhileHeld
<1>3. NamesUnique(h) /\ NamesUnique(heap)
    BY ReleasedNamesUnique DEF IInv, ChannelNamesUnique, NamesUnique
<1>4. \A u \in Users : chan[u] \subseteq Slots
    BY DEF IInv, TypeOK
<1> HIDE DEF h
<1>5. ASSUME NEW c \in Channels
      PROVE  FindChan(h, c) # {} <=> \E u \in Users \ W : c \in ChannelsOf(u)
    BY <1>1, <1>2, <1>4 DEF FindChan, ChannelsOf
<1>6. ASSUME NEW u \in Users \ W
      PROVE  NamesIn(h, chan[u]) = ChannelsOf(u)
    <2>1. \A s \in chan[u] : h[s].name = heap[s].name
        BY <1>1, <1>2, <1>4
    <2>2. QED
        BY <2>1 DEF NamesIn, ChannelsOf
<1>7. ASSUME NEW c \in Channels
      PROVE  TopicIn(h, c) = Book!TopicsWithout(W)[c]
    <2>1. CASE FindChan(h, c) = {}
        BY <2>1, <1>5 DEF TopicIn, Book!TopicsWithout
    <2>2. ASSUME NEW s \in FindChan(h, c)
          PROVE  TopicIn(h, c) = TopicOf(c)
        <3>1. s \in FindChan(heap, c) /\ heap[s].topic = h[s].topic
            BY <1>1 DEF FindChan
        <3>2. TopicIn(h, c) = h[s].topic /\ TopicIn(heap, c) = heap[s].topic
            BY <3>1, <1>3, TopicOfEntry
        <3>3. QED
            BY <3>1, <3>2 DEF TopicIn, TopicOf
    <2>3. CASE FindChan(h, c) # {}
        BY <2>2, <2>3, <1>5 DEF Book!TopicsWithout
    <2>4. QED
        BY <2>1, <2>3
<1>8. QED
    BY <1>5, <1>6, <1>7 DEF h

\* Taking references places each name in an entry of that name, and changes no
\* topic: a fresh entry has none, as a missing one.
LEMMA ReferencedTopics ==
    ASSUME NEW h \in [Slots -> ChannelEntry], NamesUnique(h),
           NEW N \in SUBSET Channels, NEW place \in Placements(h, N)
    PROVE  /\ \A c \in N : Referenced(h, N, place)[place[c]].name = c
           /\ \A c \in Channels : TopicIn(Referenced(h, N, place), c) = TopicIn(h, c)
           /\ \A s \in Slots : Allocated(h, s) => Allocated(Referenced(h, N, place), s)
<1> DEFINE g == Referenced(h, N, place)
<1>1. /\ place \in [N -> Slots]
      /\ \A c \in N : FindChan(h, c) # {} => place[c] \in FindChan(h, c)
      /\ \A c, d \in N : place[c] = place[d] => c = d
    BY DEF Placements
<1>2. /\ NamesUnique(g)
      /\ \A s \in Slots :
            /\ (\A c \in N : place[c] # s) => g[s] = h[s]
            /\ (\E c \in N : place[c] = s) => g[s].refs = h[s].refs + 1
            /\ Allocated(h, s) => g[s].name = h[s].name /\ g[s].topic = h[s].topic
    BY ReferencedExact
<1>3. \A s \in Slots : h[s].refs \in Nat
    BY DEF ChannelEntry
<1>4. ASSUME NEW s \in Slots, NEW c \in N, place[c] = s, ~Allocated(h, s)
      PROVE  g[s].name = c /\ g[s].topic = NoTopic
    <2>1. (CHOOSE d \in N : place[d] = s) = c
        BY <1>1, <1>4
    <2>2. g[s] = [name |-> c, topic |-> NoTopic, refs |-> 1]
        BY <2>1, <1>4 DEF Referenced
    <2> HIDE DEF g
    <2>3. QED
        BY <2>2
<1> HIDE DEF g
<1>5. ASSUME NEW c \in N PROVE g[place[c]].name = c
    <2>1. CASE Allocated(h, place[c])
        <3>1. FindChan(h, c) # {}
            BY <2>1, <1>1 DEF Placements
        <3>2. QED
            BY <3>1, <2>1, <1>1, <1>2 DEF FindChan
    <2>2. CASE ~Allocated(h, place[c])
        BY <2>2, <1>1, <1>4
    <2>3. QED
        BY <2>1, <2>2
<1>6. ASSUME NEW s \in Slots, Allocated(h, s) PROVE Allocated(g, s)
    <2>1. CASE \A c \in N : place[c] # s
        BY <2>1, <1>2, <1>6 DEF Allocated
    <2>2. CASE \E c \in N : place[c] = s
        BY <2>2, <1>2, <1>3, <1>6 DEF Allocated
    <2>3. QED
        BY <2>1, <2>2
<1>7. ASSUME NEW c \in Channels PROVE TopicIn(g, c) = TopicIn(h, c)
    <2>1. ASSUME NEW s \in FindChan(h, c) PROVE TopicIn(g, c) = TopicIn(h, c)
        <3>1. s \in Slots /\ Allocated(h, s) /\ h[s].name = c
            BY DEF FindChan
        <3>2. s \in FindChan(g, c) /\ g[s].topic = h[s].topic
            BY <3>1, <1>2, <1>6 DEF FindChan
        <3>3. QED
            BY <3>2, <1>2, TopicOfEntry
    <2>2. ASSUME FindChan(h, c) = {}, NEW s \in FindChan(g, c)
          PROVE  TopicIn(g, c) = TopicIn(h, c)
        <3>1. s \in Slots /\ Allocated(g, s) /\ g[s].name = c
            BY DEF FindChan
        <3>2. ~Allocated(h, s)
            BY <2>2, <3>1, <1>2 DEF FindChan
        <3>3. PICK d \in N : place[d] = s
            BY <3>1, <3>2, <1>2 DEF Allocated
        <3>4. g[s].topic = NoTopic
            BY <3>1, <3>2, <3>3, <1>4
        <3>5. QED
            BY <3>4, <2>2, <1>2, TopicOfEntry DEF TopicIn
    <2>3. CASE FindChan(h, c) = {} /\ FindChan(g, c) = {}
        BY <2>3 DEF TopicIn
    <2>4. QED
        BY <2>1, <2>2, <2>3
<1>8. QED
    BY <1>5, <1>6, <1>7 DEF g

-----------------------------------------------------------------------------
\* The names under a list of the users that an action leaves alone.
LEMMA SameNames ==
    ASSUME NEW g, NEW h, NEW S, \A s \in S : g[s].name = h[s].name
    PROVE  NamesIn(g, S) = NamesIn(h, S)
BY DEF NamesIn

\* Announcing a user with a list of channels.
LEMMA AddUserBook ==
    ASSUME IInv, NEW u \in Users, NEW N \in SUBSET Channels, AddUser(u, N)
    PROVE  Book!Announce(u, N)
<1>1. ~FollowsDanglingPointer({u})
    BY NoDanglingPointer DEF FollowsDanglingPointer, IInv
<1> DEFINE h == Released({u})
<1>2. PICK place \in Placements(h, N) :
          /\ heap' = Referenced(h, N, place)
          /\ chan' = [chan EXCEPT ![u] = {place[c] : c \in N}]
          /\ cached' = cached \cup {u}
    BY <1>1 DEF AddUser
<1>3. h \in [Slots -> ChannelEntry] /\ NamesUnique(h)
    BY ReleasedExact, ReleasedNamesUnique DEF IInv
<1>4. /\ \A v \in Users \ {u} : NamesIn(h, chan[v]) = ChannelsOf(v)
      /\ \A c \in Channels : TopicIn(h, c) = Book!TopicsWithout({u})[c]
    BY ReleasedChannels
<1>5. \A v \in Users \ {u} : \A s \in chan[v] : s \in Slots /\ Allocated(h, s)
    BY ReleasedWhileHeld DEF IInv, TypeOK
<1> HIDE DEF h
<1>6. /\ \A c \in N : heap'[place[c]].name = c
      /\ \A c \in Channels : TopicIn(heap', c) = TopicIn(h, c)
    BY <1>2, <1>3, ReferencedTopics
<1>7. \A s \in Slots : Allocated(h, s) => heap'[s].name = h[s].name
    BY <1>2, <1>3, ReferencedExact
<1>8. NamesIn(heap', chan'[u]) = N
    BY <1>2, <1>6 DEF NamesIn, IInv, TypeOK
<1>9. ASSUME NEW v \in Users \ {u}
      PROVE  NamesIn(heap', chan'[v]) = ChannelsOf(v)
    <2>1. chan'[v] = chan[v]
        BY <1>2 DEF IInv, TypeOK
    <2>2. NamesIn(heap', chan[v]) = NamesIn(h, chan[v])
        BY <1>5, <1>7, SameNames
    <2>3. QED
        BY <2>1, <2>2, <1>4
<1>10. \A c \in Channels : TopicOf(c)' = Book!TopicsWithout({u})[c]
    BY <1>4, <1>6 DEF TopicOf, TopicIn, FindChan
<1>11. \A v \in Users : ChannelsOf(v)' = IF v = u THEN N ELSE ChannelsOf(v)
    BY <1>8, <1>9 DEF ChannelsOf, NamesIn
<1>12. [v \in Users |-> ChannelsOf(v)]'
          = [[v \in Users |-> ChannelsOf(v)] EXCEPT ![u] = N]
    BY <1>11
<1>13. [c \in Channels |-> TopicOf(c)]' = Book!TopicsWithout({u})
    BY <1>10 DEF Book!TopicsWithout
<1>14. QED
    BY <1>2, <1>12, <1>13 DEF Book!Announce

\* Removing users.
LEMMA RemoveUsersBook ==
    ASSUME IInv, NEW W \in SUBSET Users, RemoveUsers(W)
    PROVE  Book!Withdraw(W)
<1>1. ~FollowsDanglingPointer(W)
    BY NoDanglingPointer DEF FollowsDanglingPointer, IInv
<1>2. /\ heap' = Released(W)
      /\ chan' = [u \in Users |-> IF u \in W THEN {} ELSE chan[u]]
      /\ cached' = cached \ W
    BY <1>1 DEF RemoveUsers
<1>3. /\ \A v \in Users \ W : NamesIn(heap', chan[v]) = ChannelsOf(v)
      /\ \A c \in Channels : TopicIn(heap', c) = Book!TopicsWithout(W)[c]
    BY <1>2, ReleasedChannels
<1>4. \A v \in Users : ChannelsOf(v)' = IF v \in W THEN {} ELSE ChannelsOf(v)
    BY <1>2, <1>3 DEF ChannelsOf, NamesIn
<1>5. \A c \in Channels : TopicOf(c)' = Book!TopicsWithout(W)[c]
    BY <1>3 DEF TopicOf, TopicIn, FindChan
<1>6. [v \in Users |-> ChannelsOf(v)]'
          = [v \in Users |-> IF v \in W THEN {} ELSE [w \in Users |-> ChannelsOf(w)][v]]
    BY <1>4
<1>7. [c \in Channels |-> TopicOf(c)]' = Book!TopicsWithout(W)
    BY <1>5 DEF Book!TopicsWithout
<1>8. QED
    BY <1>2, <1>6, <1>7 DEF Book!Withdraw

\* Joining a channel.
LEMMA JoinChanBook ==
    ASSUME IInv, NEW u \in Users, NEW c \in Channels, JoinChan(u, c)
    PROVE  Book!Enter(u, c)
<1>1. PICK place \in Placements(heap, {c}) :
          /\ heap' = Referenced(heap, {c}, place)
          /\ chan' = [chan EXCEPT ![u] = @ \cup {place[c]}]
    BY DEF JoinChan
<1>2. u \in cached /\ UNCHANGED cached
    BY DEF JoinChan
<1>3. heap \in [Slots -> ChannelEntry] /\ NamesUnique(heap)
    BY DEF IInv, TypeOK, ChannelNamesUnique, NamesUnique
<1> DEFINE g == Referenced(heap, {c}, place)
<1>4. /\ g[place[c]].name = c
      /\ \A d \in Channels : TopicIn(g, d) = TopicIn(heap, d)
      /\ \A s \in Slots : Allocated(heap, s) => g[s].name = heap[s].name
    <2> DEFINE N == {c}
    <2>0. N \in SUBSET Channels /\ place \in Placements(heap, N)
        OBVIOUS
    <2> HIDE DEF N
    <2>1. /\ \A d \in N : Referenced(heap, N, place)[place[d]].name = d
          /\ \A d \in Channels :
                TopicIn(Referenced(heap, N, place), d) = TopicIn(heap, d)
        BY <1>3, <2>0, ReferencedTopics
    <2>2. \A s \in Slots : Allocated(heap, s) => g[s].name = heap[s].name
        BY <1>3, ReferencedExact, {c} \in SUBSET Channels
    <2>3. /\ \A d \in {c} : g[place[d]].name = d
          /\ \A d \in Channels : TopicIn(g, d) = TopicIn(heap, d)
        BY <2>1 DEF N
    <2> HIDE DEF g
    <2>4. QED
        BY <2>2, <2>3
<1>5. heap' = g
    BY <1>1
<1> HIDE DEF g
<1>6. \A v \in Users : \A s \in chan[v] : heap'[s].name = heap[s].name
    BY <1>4, <1>5, NoDanglingPointer DEF IInv
<1>7. ASSUME NEW v \in Users
      PROVE  NamesIn(heap', chan[v]) = ChannelsOf(v)
    BY <1>6, SameNames DEF NamesIn, ChannelsOf
<1>8. chan' = [v \in Users |-> IF v = u THEN chan[u] \cup {place[c]} ELSE chan[v]]
    BY <1>1 DEF IInv, TypeOK
<1>9. \A v \in Users :
          ChannelsOf(v)' = IF v = u THEN ChannelsOf(u) \cup {c} ELSE ChannelsOf(v)
    <2>1. NamesIn(heap', chan[u] \cup {place[c]}) = NamesIn(heap', chan[u]) \cup {c}
        BY <1>4, <1>5 DEF NamesIn
    <2>2. QED
        BY <2>1, <1>7, <1>8 DEF ChannelsOf, NamesIn
<1>10. \A d \in Channels : TopicOf(d)' = TopicOf(d)
    BY <1>4, <1>5 DEF TopicOf, TopicIn, FindChan
<1>11. [v \in Users |-> ChannelsOf(v)]'
           = [[v \in Users |-> ChannelsOf(v)] EXCEPT ![u] = @ \cup {c}]
    BY <1>9
<1>12. [d \in Channels |-> TopicOf(d)]' = [d \in Channels |-> TopicOf(d)]
    BY <1>10
<1>13. QED
    BY <1>2, <1>11, <1>12 DEF Book!Enter

\* Leaving a channel: its entry goes exactly with the last member.
LEMMA PartChanBook ==
    ASSUME IInv, NEW u \in Users, NEW c \in Channels, PartChan(u, c)
    PROVE  Book!Leave(u, c)
<1>1. PICK t \in FindChan(heap, c) \cap chan[u] :
          /\ heap' = Unreferenced(t)
          /\ chan' = [chan EXCEPT ![u] = @ \ {t}]
    BY DEF PartChan
<1>2. u \in cached /\ UNCHANGED cached
    BY DEF PartChan
<1>3. t \in Slots /\ Allocated(heap, t) /\ heap[t].name = c
    BY DEF FindChan
<1>4. /\ NamesUnique(heap')
      /\ heap'[t].refs = heap[t].refs - 1
      /\ \A s \in Slots :
            /\ s # t => heap'[s] = heap[s]
            /\ Allocated(heap', s) =>
                 /\ Allocated(heap, s)
                 /\ heap'[s].name = heap[s].name
                 /\ heap'[s].topic = heap[s].topic
    BY <1>1, <1>3, UnreferencedExact DEF IInv
<1>5. /\ NamesUnique(heap)
      /\ \A v \in Users : chan[v] \subseteq Slots
    BY DEF IInv, TypeOK, ChannelNamesUnique, NamesUnique
<1>6. chan' = [v \in Users |-> IF v = u THEN chan[u] \ {t} ELSE chan[v]]
    BY <1>1 DEF IInv, TypeOK
<1>7. IInv'
    BY PartChanStep
<1>8. Allocated(heap', t) <=> \E v \in Users \ {u} : c \in ChannelsOf(v)
    <2>1. Allocated(heap', t) <=> \E v \in Users : t \in chan'[v]
        BY <1>3, <1>7, HeldNext DEF AllocatedWhileHeld, Allocated
    <2>2. (\E v \in Users : t \in chan'[v]) <=> \E v \in Users \ {u} : t \in chan[v]
        BY <1>6
    <2>3. \A v \in Users : t \in chan[v] <=> c \in ChannelsOf(v)
        BY <1>3, <1>5, NoDanglingPointer DEF ChannelsOf, NamesUnique, FindChan, IInv
    <2>4. QED
        BY <2>1, <2>2, <2>3
<1>9. ASSUME NEW v \in Users
      PROVE  ChannelsOf(v)' = IF v = u THEN ChannelsOf(u) \ {c} ELSE ChannelsOf(v)
    <2>1. \A s \in chan[v] : s # t => heap'[s].name = heap[s].name /\ heap[s].name # c
        BY <1>3, <1>4, <1>5, NoDanglingPointer DEF NamesUnique, FindChan, IInv
    <2>2. CASE v = u
        BY <2>1, <2>2, <1>1, <1>3, <1>6 DEF ChannelsOf
    <2>3. CASE v # u
        <3>1. t \in chan[v] => heap'[t].name = heap[t].name
            <4>1. t \in chan[v] => c \in ChannelsOf(v)
                BY <1>3 DEF ChannelsOf
            <4>2. QED
                BY <4>1, <2>3, <1>3, <1>4, <1>8
        <3>2. \A s \in chan[v] : heap'[s].name = heap[s].name
            BY <3>1, <2>1
        <3>3. QED
            BY <3>2, <2>3, <1>6 DEF ChannelsOf
    <2>4. QED
        BY <2>2, <2>3
<1>10. ASSUME NEW d \in Channels, d # c
       PROVE  TopicOf(d)' = TopicOf(d)
    <2>1. \A s \in Slots : s \in FindChan(heap', d) <=> s \in FindChan(heap, d)
        BY <1>3, <1>4, <1>10 DEF FindChan, Allocated
    <2>2. FindChan(heap', d) = FindChan(heap, d)
        BY <2>1 DEF FindChan
    <2>3. \A s \in FindChan(heap, d) : heap'[s].topic = heap[s].topic
        BY <1>4, <2>2 DEF FindChan
    <2>4. TopicIn(heap', d) = TopicIn(heap, d)
        BY <2>2, <2>3 DEF TopicIn
    <2>5. QED
        BY <2>4 DEF TopicOf, TopicIn, FindChan
<1>11. TopicOf(c)' = IF \E v \in Users \ {u} : c \in ChannelsOf(v) THEN TopicOf(c)
                     ELSE NoTopic
    <2>1. CASE Allocated(heap', t)
        <3>1. t \in FindChan(heap', c) /\ heap'[t].topic = heap[t].topic
            BY <2>1, <1>3, <1>4 DEF FindChan
        <3>2. TopicIn(heap', c) = TopicIn(heap, c)
            BY <3>1, <1>4, <1>5, TopicOfEntry
        <3>3. QED
            BY <3>2, <2>1, <1>8 DEF TopicOf, TopicIn, FindChan
    <2>2. CASE ~Allocated(heap', t)
        <3>1. \A s \in Slots : s \in FindChan(heap', c) => s = t
            BY <1>3, <1>4, <1>5 DEF FindChan, NamesUnique
        <3>2. FindChan(heap', c) = {}
            BY <3>1, <2>2 DEF FindChan
        <3>3. QED
            BY <3>2, <2>2, <1>8 DEF TopicOf, FindChan
    <2>3. QED
        BY <2>1, <2>2
<1>12. c \in ChannelsOf(u)
    BY <1>1, <1>3 DEF ChannelsOf
<1>13. [v \in Users |-> ChannelsOf(v)]'
           = [[v \in Users |-> ChannelsOf(v)] EXCEPT ![u] = @ \ {c}]
    BY <1>9
<1>14. [d \in Channels |-> TopicOf(d)]'
           = IF \E v \in Users \ {u} : c \in ChannelsOf(v)
             THEN [d \in Channels |-> TopicOf(d)]
             ELSE [[d \in Channels |-> TopicOf(d)] EXCEPT ![c] = NoTopic]
    BY <1>10, <1>11
<1>15. QED
    BY <1>2, <1>12, <1>13, <1>14 DEF Book!Leave

\* Setting the topic of a channel somebody is in.
LEMMA SetTopicBook ==
    ASSUME IInv, NEW c \in Channels, NEW t \in Topics, SetTopic(c, t)
    PROVE  Book!Discuss(c, t)
<1>1. PICK s \in FindChan(heap, c) : heap' = [heap EXCEPT ![s].topic = t]
    BY DEF SetTopic
<1>2. UNCHANGED <<cached, chan>>
    BY DEF SetTopic
<1>3. s \in Slots /\ Allocated(heap, s) /\ heap[s].name = c
    BY DEF FindChan
<1>4. heap \in [Slots -> ChannelEntry] /\ NamesUnique(heap)
    BY DEF IInv, TypeOK, ChannelNamesUnique, NamesUnique
<1>5. \A r \in Slots : /\ heap'[r].refs = heap[r].refs
                       /\ heap'[r].name = heap[r].name
                       /\ heap'[r].topic = IF r = s THEN t ELSE heap[r].topic
    <2>1. heap'[s] = [heap[s] EXCEPT !.topic = t]
        BY <1>1, <1>3, <1>4
    <2>2. \A r \in Slots : r # s => heap'[r] = heap[r]
        BY <1>1, <1>4
    <2>3. heap[s] \in ChannelEntry
        BY <1>3, <1>4
    <2>4. QED
        BY <2>1, <2>2, <2>3 DEF ChannelEntry
<1>6. \A d \in Channels : FindChan(heap', d) = FindChan(heap, d)
    BY <1>5 DEF FindChan, Allocated
<1>7. NamesUnique(heap')
    BY <1>4, <1>5 DEF NamesUnique, FindChan, Allocated
<1>8. \A d \in Channels : TopicOf(d)' = IF d = c THEN t ELSE TopicOf(d)
    <2>1. TopicIn(heap', c) = t
        BY <1>3, <1>5, <1>6, <1>7, TopicOfEntry
    <2>2. ASSUME NEW d \in Channels, d # c
          PROVE  TopicIn(heap', d) = TopicIn(heap, d)
        <3>1. \A r \in FindChan(heap, d) : heap'[r].topic = heap[r].topic
            BY <1>3, <1>5, <2>2 DEF FindChan
        <3>2. QED
            BY <3>1, <1>6 DEF TopicIn
    <2>3. \A d \in Channels :
              TopicOf(d)' = TopicIn(heap', d) /\ TopicOf(d) = TopicIn(heap, d)
        BY DEF TopicOf, TopicIn, FindChan
    <2>4. QED
        BY <2>1, <2>2, <2>3
<1>9. \A v \in Users : ChannelsOf(v)' = ChannelsOf(v)
    BY <1>2, <1>5 DEF ChannelsOf, IInv, TypeOK
<1>10. \E u \in cached : c \in ChannelsOf(u)
    <2>1. PICK u \in Users : s \in chan[u]
        BY <1>3, HeldNow DEF AllocatedWhileHeld
    <2>2. u \in cached
        BY <2>1 DEF IInv, TypeOK
    <2>3. QED
        BY <2>1, <2>2, <1>3 DEF ChannelsOf
<1>11. cached \subseteq Users
    BY DEF IInv, TypeOK
<1>12. [d \in Channels |-> TopicOf(d)]' = [[d \in Channels |-> TopicOf(d)] EXCEPT ![c] = t]
    BY <1>8
<1>13. [v \in Users |-> ChannelsOf(v)]' = [v \in Users |-> ChannelsOf(v)]
    BY <1>9
<1>14. QED
    BY <1>2, <1>10, <1>11, <1>12, <1>13 DEF Book!Discuss

\* The empty cache is the empty book.
LEMMA InitBook == CacheInit => Book!Init
<1> SUFFICES ASSUME CacheInit PROVE Book!Init
    OBVIOUS
<1>1. \A u \in Users : ChannelsOf(u) = {}
    BY DEF CacheInit, ChannelsOf
<1>2. \A c \in Channels : FindChan(heap, c) = {}
    BY DEF CacheInit, FindChan, Allocated, Freed
<1>3. \A c \in Channels : TopicOf(c) = NoTopic
    BY <1>2 DEF TopicOf
<1>4. QED
    BY <1>1, <1>3 DEF CacheInit, Book!Init

\* A step that leaves the cache alone leaves the book alone.
LEMMA StutterBook == UNCHANGED cacheVars => UNCHANGED Book!vars
<1> SUFFICES ASSUME UNCHANGED cacheVars PROVE UNCHANGED Book!vars
    OBVIOUS
<1>1. \A u \in Users : ChannelsOf(u)' = ChannelsOf(u)
    BY DEF cacheVars, ChannelsOf
<1>2. \A c \in Channels : TopicOf(c)' = TopicOf(c)
    BY DEF cacheVars, TopicOf, FindChan, Allocated
<1>3. QED
    BY <1>1, <1>2 DEF cacheVars, Book!vars

\* Every step of the cache is a step of the book, or leaves the book alone.
LEMMA NextBook == IInv /\ [CacheNext]_cacheVars => [Book!Next]_(Book!vars)
<1> SUFFICES ASSUME IInv, [CacheNext]_cacheVars PROVE [Book!Next]_(Book!vars)
    OBVIOUS
<1>1. ASSUME NEW u \in Users, NEW N \in SUBSET Channels \ {{}}, AddUser(u, N)
      PROVE  Book!Next
    BY <1>1, AddUserBook DEF Book!Next
<1>2. ASSUME NEW u \in Users, RemoveUser(u)
      PROVE  Book!Next
    BY <1>2, RemoveUsersBook, {u} \in SUBSET Users DEF RemoveUser, Book!Next
<1>3. ASSUME NEW n \in Nets, RemoveNet(n)
      PROVE  Book!Next
    <2>1. {u \in cached : NetOf[u] = n} \in SUBSET Users
        BY DEF IInv, TypeOK
    <2>2. QED
        BY <2>1, <1>3, RemoveUsersBook DEF RemoveNet, Book!Next
<1>4. ASSUME NEW u \in Users, NEW c \in Channels, JoinChan(u, c)
      PROVE  Book!Next
    BY <1>4, JoinChanBook DEF Book!Next
<1>5. ASSUME NEW u \in Users, NEW c \in Channels, PartChan(u, c)
      PROVE  Book!Next
    BY <1>5, PartChanBook DEF Book!Next
<1>6. ASSUME NEW c \in Channels, NEW t \in Topics, SetTopic(c, t)
      PROVE  Book!Next
    BY <1>6, SetTopicBook DEF Book!Next
<1>7. CASE UNCHANGED cacheVars
    BY <1>7, StutterBook
<1>8. QED
    BY <1>1, <1>2, <1>3, <1>4, <1>5, <1>6, <1>7 DEF CacheNext

\* Entries, pointers and counts implement the book: what one user does never
\* changes another user's channels, and a topic lasts exactly as long as its
\* channel has a member.
THEOREM CacheImplementsBook == CacheSpec => ImplementsBook
<1>1. CacheInit => Book!Init
    BY InitBook
<1>2. IInv /\ [CacheNext]_cacheVars => [Book!Next]_(Book!vars)
    BY NextBook
<1>3. QED
    BY <1>1, <1>2, Invariance, PTL DEF CacheSpec, ImplementsBook, Book!Spec

-----------------------------------------------------------------------------
(***************************************************************************)
(* The local net                                                           *)
(***************************************************************************)

\* Only recv() touches what is put off and what more_msg_left says.
LEMMA OthersKeep ==
    ASSUME Next, ~Recv
    PROVE  UNCHANGED <<delayed, more>>
<1>1. ASSUME NEW c \in Clients,
             \/ SignOn(c) \/ Text(c) \/ Rename(c) \/ AskAround(c)
             \/ SignOff(c) \/ Vanish(c) \/ Answer(c)
      PROVE  UNCHANGED <<delayed, more>>
    BY <1>1 DEF SignOn, Text, Rename, AskAround, SignOff, Vanish, Answer, routerVars
<1>2. CASE Timeout
    BY <1>2 DEF Timeout
<1>3. ASSUME NEW name \in Remotes,
             \/ RemoteComes(name) \/ RemoteText(name)
             \/ RemoteLeaves(name) \/ RemoteLost(name)
      PROVE  UNCHANGED <<delayed, more>>
    BY <1>3 DEF RemoteComes, RemoteText, RemoteLeaves, RemoteLost, RemoteVars
<1>4. QED
    BY <1>1, <1>2, <1>3 DEF Next

\* The pending USER_LOST of a queue come first, and keep the put off packet.
LEMMA FuneralKeeps ==
    ASSUME Funeral
    PROVE  NothingLeftBehind'
BY DEF Funeral, NothingLeftBehind

\* A packet that is put off leaves more to read; any other clears the place.
LEMMA ReadKeeps ==
    ASSUME Read
    PROVE  NothingLeftBehind'
<1> DEFINE q == IF delayed # None THEN delayed ELSE Head(socket)
<1>1. CASE IsOwn(q)
    BY <1>1 DEF Read, NothingLeftBehind
<1>2. CASE ~IsOwn(q) /\ IsNewUser(q)
    <2>1. NewUser(q)
        BY <1>2 DEF Read
    <2>2. QED
        BY <2>1 DEF NewUser, NothingLeftBehind
<1>3. CASE ~IsOwn(q) /\ ~IsNewUser(q)
    BY <1>3 DEF Read, NothingLeftBehind
<1>4. QED
    BY <1>1, <1>2, <1>3

\* Every step keeps the property.
LEMMA NextKeeps == NothingLeftBehind /\ [Next]_vars => NothingLeftBehind'
<1> SUFFICES ASSUME NothingLeftBehind, [Next]_vars PROVE NothingLeftBehind'
    OBVIOUS
<1>1. CASE Recv
    BY <1>1, FuneralKeeps, ReadKeeps DEF Recv
<1>2. CASE Next /\ ~Recv
    BY <1>2, OthersKeep DEF NothingLeftBehind
<1>3. CASE UNCHANGED vars
    BY <1>3 DEF vars, NothingLeftBehind
<1>4. QED
    BY <1>1, <1>2, <1>3

\* When the event loop goes back to poll(), no packet is put off that an
\* unrelated one would have to bring to light.
THEOREM PutOffIsTaken == Spec => []NothingLeftBehind
<1>1. Init => NothingLeftBehind
    BY DEF Init, NothingLeftBehind
<1>2. QED
    BY <1>1, NextKeeps, PTL DEF Spec

-----------------------------------------------------------------------------
(***************************************************************************)
(* The inductive invariant of NoGhosts.                                    *)
(***************************************************************************)

\* The nicknames of the net's clients
Mine == UNION {Nicks[c] : c \in Clients}

\* All that can be heard on the net
Packets == [kind : {"text", "rename", "leave main", "leave", "ack", "ask"},
            src : Mine \cup Remotes \cup {Router}, text : Mine \cup Remotes \cup {Router, None}]

\* Packets of clients, of the router, and of users of other nets that the
\* router knows, or knew when they left
Plausible(away) ==
    {p \in Packets : /\ p.src \in Remotes \ {Router} => p.src \in away \/ p.kind = "leave main"
                     /\ p.kind = "rename" => p.src \in Mine /\ p.text \in Mine}

Entry == [uid : {"here", "away"} \X Nat, nick : Mine \cup Remotes, alive : BOOLEAN]

\* The entries E of a cache; n users of other nets have come so far.
Sound(E, n) ==
    /\ E \subseteq Entry
    /\ \A u \in E : IF IsLocal(u.uid) THEN u.nick \in Mine ELSE u.nick \in Remotes /\ u.uid[2] < n
    /\ \A u, v \in E : ~IsLocal(u.uid) /\ u.uid = v.uid => u.nick = v.nick

Away(E) == {u.nick : u \in {v \in E : ~IsLocal(v.uid)}}

\* The inductive invariant
CacheApart ==
    /\ cache \in Seq(Entry)
    /\ used["visits"] \in Nat /\ DOMAIN used = {"stays", "renames", "visits", "texts"}
    /\ Sound(Range(cache), used["visits"])

ClientsApart ==
    /\ DOMAIN nick = Clients /\ \A c \in Clients : nick[c] \in Nicks[c] \cup {None}
    /\ asked \subseteq {c \in Clients : nick[c] \in Nicks[c]}

RouterApart ==
    /\ nextUid \in Nat /\ lost \in Seq({"here"} \X Nat)
    /\ delayed # None => delayed \in Plausible({}) /\ delayed.src \in Mine
    /\ more \in BOOLEAN /\ (more => delayed # None \/ lost # <<>>)

Apart ==
    /\ CacheApart /\ ClientsApart /\ RouterApart
    /\ socket \in Seq(Plausible(Away(Range(cache))))


\* What Those puts together, one user at a time
Chosen(S, some, u) == IF u \in S THEN Append(some, u) ELSE some

FC == INSTANCE FoldFacts WITH Op <- Chosen

\* Names of clients, of other users and of the router are different.
LEMMA NamesApart == Mine \cap (Remotes \cup {Router}) = {}
BY LocalNetAssumption DEF Mine

\* One more at the end
LEMMA AppendedTo ==
    ASSUME NEW T, NEW s \in Seq(T), NEW e \in T
    PROVE  Append(s, e) \in Seq(T) /\ Range(Append(s, e)) = Range(s) \cup {e}
<1>1. /\ Append(s, e) \in Seq(T) /\ DOMAIN Append(s, e) = 1 .. Len(s) + 1
      /\ DOMAIN s = 1 .. Len(s) /\ Len(s) \in Nat
      /\ Append(s, e)[Len(s) + 1] = e
      /\ \A k \in 1 .. Len(s) : Append(s, e)[k] = s[k]
    OBVIOUS
<1>2. QED
    BY <1>1 DEF Range

\* Those in S are all those and no others.
LEMMA ThoseAre ==
    ASSUME NEW T, cache \in Seq(T), NEW S
    PROVE  /\ Those(S) \in Seq(T)
           /\ Range(Those(S)) = Range(cache) \cap S
<1>1. Those(S) = FC!Fold(S, <<>>, cache)
    BY DEF Those, FC!Fold, Chosen, FoldLeft, FC!FoldLeft, MapThenFoldSet, FC!MapThenFoldSet, Max, FC!Max
<1> DEFINE n == Len(cache)
           J == [i \in 0 .. n |-> {x \in Seq(T) : Range(x) = {cache[k] : k \in 1 .. i} \cap S}]
<1>2. n \in Nat /\ DOMAIN cache = 1 .. n
    OBVIOUS
<1>3. <<>> \in J[0]
    <2>1. <<>> \in Seq(T) /\ Range(<<>>) = {} /\ {cache[k] : k \in 1 .. 0} = {}
        BY DEF Range
    <2>2. QED
        BY <1>2, <2>1
<1>4. ASSUME NEW i \in 1 .. n, NEW x \in J[i - 1] PROVE Chosen(S, x, cache[i]) \in J[i]
    <2>1. i - 1 \in 0 .. n /\ i \in 0 .. n /\ cache[i] \in T
        BY <1>2
    <2>2. x \in Seq(T) /\ Range(x) = {cache[k] : k \in 1 .. i - 1} \cap S
        BY <1>4, <2>1
    <2>3. {cache[k] : k \in 1 .. i} = {cache[k] : k \in 1 .. i - 1} \cup {cache[i]}
        BY <2>1
    <2> DEFINE e == cache[i]
    <2>4. Append(x, e) \in Seq(T) /\ Range(Append(x, e)) = Range(x) \cup {e}
        <3>1. x \in Seq(T) /\ e \in T
            BY <2>1, <2>2
        <3> HIDE DEF e
        <3>2. QED
            BY <3>1, AppendedTo
    <2>5. Chosen(S, x, cache[i]) \in Seq(T) /\ Range(Chosen(S, x, cache[i])) = {cache[k] : k \in 1 .. i} \cap S
        BY <2>2, <2>3, <2>4 DEF Chosen
    <2>6. QED
        BY <2>1, <2>5
<1>5. FC!Fold(S, <<>>, cache) \in J[n]
    <2> HIDE DEF J
    <2>1. QED
        BY <1>3, <1>4, FC!FoldChain
<1>6. n \in 0 .. n /\ Range(cache) = {cache[k] : k \in 1 .. n}
    BY <1>2 DEF Range
<1>7. QED
    BY <1>1, <1>5, <1>6

\* A nickname of a client is found with a user of this net, and one of another
\* net with one of that.
LEMMA FoundAre ==
    ASSUME cache \in Seq(Entry), NEW n, Sound(Range(cache), n), NEW name
    PROVE  /\ IsKnown(name) => \E u \in Range(cache) : u.uid = UidOf(name) /\ u.nick = name
           /\ (name \in Mine /\ IsKnown(name)) => UidOf(name) \in {"here"} \X Nat
           /\ name \in Away(Range(cache)) => IsKnown(name) /\ ~IsLocal(UidOf(name))
<1> DEFINE at == {i \in DOMAIN cache : cache[i].nick = name}
           i0 == CHOOSE i \in at : \A j \in at : i <= j
           uid == UidOf(name)
<1>1. uid = IF at = {} THEN NoUid ELSE cache[i0].uid
    BY DEF UidOf
<1>2. ASSUME at # {} PROVE i0 \in at
    <2>1. at \in SUBSET Nat
        OBVIOUS
    <2>2. \E i \in at : \A j \in at : i <= j
        <3> HIDE DEF at
        <3>1. QED
            BY <1>2, <2>1, FC!Least
    <2> HIDE DEF at
    <2>3. QED
        BY <2>2
<1>3. \A i \in DOMAIN cache : cache[i] \in Range(cache) /\ cache[i] \in Entry
    BY DEF Range
<1>4. \A u \in Entry : u.uid \in {"here", "away"} \X Nat /\ u.uid # NoUid
                       /\ (IsLocal(u.uid) => u.uid \in {"here"} \X Nat)
    <2>1. \A u \in Entry : u.uid \in {"here", "away"} \X Nat
        BY DEF Entry
    <2>2. ASSUME NEW x \in {"here", "away"} \X Nat
          PROVE  x # NoUid /\ (IsLocal(x) => x \in {"here"} \X Nat)
        <3>1. PICK a \in {"here", "away"}, k \in Nat : x = <<a, k>>
            OBVIOUS
        <3>2. None # a
            BY NoneAssumption
        <3>3. QED
            BY <3>1, <3>2 DEF NoUid, IsLocal
    <2>3. QED
        BY <2>1, <2>2
<1> HIDE DEF i0, uid
<1>5. CASE at = {}
    <2>1. ~IsKnown(name)
        BY <1>1, <1>5 DEF IsKnown, uid
    <2>2. name \notin Away(Range(cache))
        BY <1>5 DEF Away, Range
    <2>3. QED
        BY <2>1, <2>2
<1>6. CASE at # {}
    <2> DEFINE u == cache[i0]
    <2>1. u \in Range(cache) /\ u \in Entry /\ u.nick = name /\ u.uid = uid
        BY <1>1, <1>2, <1>3, <1>6
    <2> HIDE DEF u
    <2>2. name \in Mine => IsLocal(u.uid)
        BY <2>1, NamesApart DEF Sound
    <2>3. name \in Away(Range(cache)) => ~IsLocal(u.uid)
        BY <2>1, NamesApart DEF Sound, Away
    <2>4. QED
        BY <1>4, <2>1, <2>2, <2>3 DEF IsKnown, uid
<1>7. QED
    BY <1>5, <1>6

\* Users of this net may get other nicknames of clients, or go; of others all remain.
LEMMA SoundStays ==
    ASSUME NEW E, NEW n, Sound(E, n), NEW D, D \subseteq Entry,
           \A v \in D : \E u \in E : v.uid = u.uid /\ (v.nick = u.nick \/ (IsLocal(u.uid) /\ v.nick \in Mine)),
           \A u \in E : ~IsLocal(u.uid) => \E v \in D : v.uid = u.uid /\ v.nick = u.nick
    PROVE  Sound(D, n) /\ Away(D) = Away(E)
<1>1. \A v \in D : IF IsLocal(v.uid) THEN v.nick \in Mine ELSE v.nick \in Remotes /\ v.uid[2] < n
    BY DEF Sound
<1>2. \A u, v \in D : ~IsLocal(u.uid) /\ u.uid = v.uid => u.nick = v.nick
    BY DEF Sound
<1>3. Away(D) = Away(E)
    BY DEF Away
<1>4. QED
    BY <1>1, <1>2, <1>3 DEF Sound

\* A change of the users one by one
LEMMA ChangedStays ==
    ASSUME cache \in Seq(Entry), NEW n, Sound(Range(cache), n),
           NEW d, DOMAIN d = DOMAIN cache, d = [i \in DOMAIN cache |-> d[i]],
           \A i \in DOMAIN cache :
               /\ d[i] \in Entry /\ d[i].uid = cache[i].uid
               /\ d[i].nick = cache[i].nick \/ (IsLocal(cache[i].uid) /\ d[i].nick \in Mine)
    PROVE  d \in Seq(Entry) /\ Sound(Range(d), n) /\ Away(Range(d)) = Away(Range(cache))
<1>1. DOMAIN cache = 1 .. Len(cache) /\ Len(cache) \in Nat
    OBVIOUS
<1>2. d \in [1 .. Len(cache) -> Entry]
    BY <1>1
<1>3. d \in Seq(Entry)
    BY <1>1, <1>2
<1>4. Range(d) \subseteq Entry
    BY DEF Range
<1>5. \A v \in Range(d) : \E u \in Range(cache) :
          v.uid = u.uid /\ (v.nick = u.nick \/ (IsLocal(u.uid) /\ v.nick \in Mine))
    BY DEF Range
<1>6. \A u \in Range(cache) : ~IsLocal(u.uid) => \E v \in Range(d) : v.uid = u.uid /\ v.nick = u.nick
    <2> SUFFICES ASSUME NEW i \in DOMAIN cache, ~IsLocal(cache[i].uid)
                 PROVE  \E v \in Range(d) : v.uid = cache[i].uid /\ v.nick = cache[i].nick
        BY DEF Range
    <2>1. d[i] \in Range(d) /\ d[i].uid = cache[i].uid
        BY DEF Range
    <2>2. d[i].nick = cache[i].nick
        OBVIOUS
    <2>3. QED
        BY <2>1, <2>2
<1>7. QED
    BY <1>3, <1>4, <1>5, <1>6, SoundStays

\* A field of an entry
LEMMA EntryFields ==
    ASSUME NEW u \in Entry
    PROVE  /\ \A b \in BOOLEAN : /\ [u EXCEPT !.alive = b] \in Entry
                                /\ [u EXCEPT !.alive = b].uid = u.uid
                                /\ [u EXCEPT !.alive = b].nick = u.nick
           /\ \A m \in Mine : /\ [u EXCEPT !.nick = m] \in Entry
                             /\ [u EXCEPT !.nick = m].uid = u.uid
                             /\ [u EXCEPT !.nick = m].nick = m
BY DEF Entry

\* usercache_tag_alive, usercache_tag_dead_from, and a rename of a user of this net
LEMMA TaggedStay ==
    ASSUME cache \in Seq(Entry), NEW n, Sound(Range(cache), n), NEW uid, NEW d,
           \/ d = TaggedAlive(uid)
           \/ d = TaggedDead
           \/ \E m \in Mine : IsLocal(uid) /\ d = Renamed(uid, m)
    PROVE  d \in Seq(Entry) /\ Sound(Range(d), n) /\ Away(Range(d)) = Away(Range(cache))
<1>1. \A i \in DOMAIN cache : cache[i] \in Entry
    OBVIOUS
<1>2. DOMAIN d = DOMAIN cache /\ d = [i \in DOMAIN cache |-> d[i]]
    BY DEF TaggedAlive, TaggedDead, Renamed
<1>3. ASSUME NEW i \in DOMAIN cache
      PROVE  /\ d[i] \in Entry /\ d[i].uid = cache[i].uid
             /\ d[i].nick = cache[i].nick \/ (IsLocal(cache[i].uid) /\ d[i].nick \in Mine)
    <2> DEFINE x == cache[i]
    <2>1. \/ d[i] = x
          \/ \E b \in BOOLEAN : d[i] = [x EXCEPT !.alive = b]
          \/ \E m \in Mine : IsLocal(x.uid) /\ d[i] = [x EXCEPT !.nick = m]
        BY DEF TaggedAlive, TaggedDead, Renamed
    <2>2. x \in Entry
        BY <1>1
    <2> HIDE DEF x
    <2>3. d[i] \in Entry /\ d[i].uid = x.uid /\ (d[i].nick = x.nick \/ (IsLocal(x.uid) /\ d[i].nick \in Mine))
        <3>1. /\ \A b \in BOOLEAN : /\ [x EXCEPT !.alive = b] \in Entry
                                  /\ [x EXCEPT !.alive = b].uid = x.uid
                                  /\ [x EXCEPT !.alive = b].nick = x.nick
              /\ \A m \in Mine : /\ [x EXCEPT !.nick = m] \in Entry
                               /\ [x EXCEPT !.nick = m].uid = x.uid
                               /\ [x EXCEPT !.nick = m].nick = m
            BY <2>2, EntryFields
        <3>2. ASSUME NEW b \in BOOLEAN, d[i] = [x EXCEPT !.alive = b]
              PROVE  d[i] \in Entry /\ d[i].uid = x.uid /\ d[i].nick = x.nick
            BY <3>1, <3>2
        <3>3. ASSUME NEW m \in Mine, IsLocal(x.uid), d[i] = [x EXCEPT !.nick = m]
              PROVE  d[i] \in Entry /\ d[i].uid = x.uid /\ d[i].nick = m
            BY <3>1, <3>3
        <3>4. QED
            BY <2>1, <2>2, <3>2, <3>3
    <2>4. QED
        BY <2>3 DEF x
<1>4. QED
    BY <1>2, <1>3, ChangedStays
\* A rename of a user of this net
LEMMA RenamedStay ==
    ASSUME cache \in Seq(Entry), NEW n, Sound(Range(cache), n), NEW uid, IsLocal(uid), NEW m \in Mine,
           NEW d, d = Renamed(uid, m)
    PROVE  d \in Seq(Entry) /\ Sound(Range(d), n) /\ Away(Range(d)) = Away(Range(cache))
<1>1. \E k \in Mine : IsLocal(uid) /\ d = Renamed(uid, k)
    OBVIOUS
<1>2. QED
    BY <1>1, TaggedStay


\* usercache_add of a user of this net, who may get the id of another
LEMMA AddedHere ==
    ASSUME cache \in Seq(Entry), NEW n, Sound(Range(cache), n), NEW k \in Nat, NEW name \in Mine,
           NEW d, d = Added(User("here", k, name))
    PROVE  d \in Seq(Entry) /\ Sound(Range(d), n) /\ Away(Range(d)) = Away(Range(cache))
<1> DEFINE u == User("here", k, name)
<1>1. u \in Entry /\ IsLocal(u.uid) /\ u.nick = name
    BY DEF User, Entry, IsLocal
<1>2. d = Added(u)
    OBVIOUS
<1> HIDE DEF u
<1>3. CASE \E i \in DOMAIN cache : cache[i].uid = u.uid
    <2> DEFINE uid == u.uid
    <2>1. d = Renamed(uid, name) /\ IsLocal(uid)
        BY <1>1, <1>2, <1>3 DEF Added, Renamed
    <2> HIDE DEF uid
    <2>2. \E m \in Mine : IsLocal(uid) /\ d = Renamed(uid, m)
        BY <2>1
    <2>3. QED
        BY <2>2, TaggedStay
<1>4. CASE ~\E i \in DOMAIN cache : cache[i].uid = u.uid
    <2>1. d = Append(cache, u)
        BY <1>2, <1>4 DEF Added
    <2>2. d \in Seq(Entry) /\ Range(d) = Range(cache) \cup {u}
        <3>1. Append(cache, u) \in Seq(Entry) /\ Range(Append(cache, u)) = Range(cache) \cup {u}
            BY <1>1, AppendedTo
        <3>2. QED
            BY <2>1, <3>1
    <2>3. Range(d) \subseteq Entry
        BY <1>1, <2>2 DEF Sound
    <2>4. \A v \in Range(d) : IF IsLocal(v.uid) THEN v.nick \in Mine ELSE v.nick \in Remotes /\ v.uid[2] < n
        BY <1>1, <2>2 DEF Sound
    <2>5. \A x, v \in Range(d) : ~IsLocal(x.uid) /\ x.uid = v.uid => x.nick = v.nick
        BY <1>1, <2>2 DEF Sound
    <2>6. Away(Range(d)) = Away(Range(cache))
        BY <1>1, <2>2 DEF Away
    <2>7. QED
        BY <2>2, <2>3, <2>4, <2>5, <2>6 DEF Sound
<1>5. QED
    BY <1>3, <1>4

\* ... and of a user of another net, who is new
LEMMA AddedAway ==
    ASSUME cache \in Seq(Entry), NEW n \in Nat, Sound(Range(cache), n), NEW name \in Remotes,
           NEW d, d = Added(User("away", n, name))
    PROVE  d \in Seq(Entry) /\ Sound(Range(d), n + 1) /\ Away(Range(cache)) \subseteq Away(Range(d))
<1> DEFINE u == User("away", n, name)
<1>1. u \in Entry /\ ~IsLocal(u.uid) /\ u.nick = name /\ u.uid[2] = n
    BY DEF User, Entry, IsLocal
<1>2. d = Added(u)
    OBVIOUS
<1> HIDE DEF u
<1>3. \A v \in Range(cache) : ~IsLocal(v.uid) => v.uid[2] \in Nat /\ v.uid[2] < n
    BY DEF Sound, Entry
<1>4. \A v \in Range(cache) : v.uid # u.uid
    BY <1>1, <1>3
<1>5. d = Append(cache, u)
    BY <1>2, <1>4 DEF Added, Range
<1>6. d \in Seq(Entry) /\ Range(d) = Range(cache) \cup {u}
    <2>1. Append(cache, u) \in Seq(Entry) /\ Range(Append(cache, u)) = Range(cache) \cup {u}
        BY <1>1, AppendedTo
    <2>2. QED
        BY <1>5, <2>1
<1>7. Range(d) \subseteq Entry
    BY <1>1, <1>6 DEF Sound
<1>8. \A v \in Range(d) : IF IsLocal(v.uid) THEN v.nick \in Mine ELSE v.nick \in Remotes /\ v.uid[2] < n + 1
    BY <1>1, <1>3, <1>6 DEF Sound
<1>9. \A x, v \in Range(d) : ~IsLocal(x.uid) /\ x.uid = v.uid => x.nick = v.nick
    BY <1>1, <1>4, <1>6 DEF Sound
<1>10. Away(Range(cache)) \subseteq Away(Range(d))
    BY <1>6 DEF Away
<1>11. QED
    BY <1>6, <1>7, <1>8, <1>9, <1>10 DEF Sound

\* usercache_remove of a user of this net
LEMMA RemovedHere ==
    ASSUME cache \in Seq(Entry), NEW n, Sound(Range(cache), n), NEW uid, IsLocal(uid),
           NEW d, d = Removed(uid)
    PROVE  d \in Seq(Entry) /\ Sound(Range(d), n) /\ Away(Range(d)) = Away(Range(cache))
<1>1. d \in Seq(Entry) /\ Range(d) = Range(cache) \cap {u \in Range(cache) : u.uid # uid}
    BY ThoseAre DEF Removed
<1>2. Range(d) \subseteq Entry
    BY <1>1 DEF Sound
<1>3. Sound(Range(d), n) /\ Away(Range(d)) = Away(Range(cache))
    BY <1>1, <1>2, SoundStays
<1>4. QED
    BY <1>1, <1>3

\* ... and of a user of another net, who was the only one of that name and id
LEMMA RemovedAway ==
    ASSUME cache \in Seq(Entry), NEW n, Sound(Range(cache), n), NEW name \in Remotes,
           IsKnown(name), ~IsLocal(UidOf(name)), NEW d, d = Removed(UidOf(name))
    PROVE  d \in Seq(Entry) /\ Sound(Range(d), n) /\ Away(Range(cache)) \ {name} \subseteq Away(Range(d))
<1>1. d \in Seq(Entry) /\ Range(d) = Range(cache) \cap {u \in Range(cache) : u.uid # UidOf(name)}
    BY ThoseAre DEF Removed
<1>2. \E u \in Range(cache) : u.uid = UidOf(name) /\ u.nick = name
    BY FoundAre
<1>3. Sound(Range(d), n)
    BY <1>1 DEF Sound
<1>4. \A v \in Range(cache) : ~IsLocal(v.uid) /\ v.nick # name => v \in Range(d)
    BY <1>1, <1>2 DEF Sound
<1>5. Away(Range(cache)) \ {name} \subseteq Away(Range(d))
    BY <1>4 DEF Away
<1>6. QED
    BY <1>1, <1>3, <1>5

-----------------------------------------------------------------------------
(***************************************************************************)
(* What is heard stays plausible.                                          *)
(***************************************************************************)

\* None is no packet.
LEMMA NoneApart == None \notin Packets
<1> DEFINE names == Mine \cup Remotes \cup {Router}
           K == [kind : {"text", "rename", "leave main", "leave", "ack", "ask"},
                 src : names, text : names \cup {None}]
<1>0. None \notin {"here", "away"} \cup K
    <2>1. names = (UNION {Nicks[c] : c \in Clients}) \cup Remotes \cup {Router}
        BY DEF Mine
    <2> HIDE DEF names
    <2>2. QED
        BY <2>1, NoneAssumption
<1>1. None \notin K
    <2> HIDE DEF K
    <2>1. QED
        BY <1>0
<1>2. names \cup {None} = Mine \cup Remotes \cup {Router, None}
    OBVIOUS
<1>3. QED
    BY <1>1, <1>2 DEF Packets

\* A full buffer drops packets and makes up none.
LEMMA BufferedIn ==
    ASSUME NEW P, NEW buf \in Seq(P), NEW ps \in Seq(P)
    PROVE  Buffered(buf, ps) \in Seq(P)
<1> DEFINE room == MaxSocket - Len(buf)
           m == IF room < Len(ps) THEN room ELSE Len(ps)
           part == SubSeq(ps, 1, m)
<1>1. room \in Int /\ Len(ps) \in Nat
    BY LocalNetAssumption
<1>2. m \in Int /\ m <= Len(ps)
    BY <1>1
<1> HIDE DEF m
<1>3. \A i \in 1 .. m : ps[i] \in P
    BY <1>2
<1>4. part \in Seq(P)
    BY <1>2, <1>3, SubSeqProperties
<1>5. Buffered(buf, ps) = buf \o part
    BY DEF Buffered, m
<1> HIDE DEF part
<1>6. QED
    BY <1>4, <1>5

\* One packet more, in a full buffer or not
LEMMA OnePacketIn ==
    ASSUME NEW P, NEW buf \in Seq(P), NEW p \in P
    PROVE  Buffered(buf, <<p>>) \in Seq(P) /\ Append(buf, p) \in Seq(P)
<1> DEFINE ps == <<p>>
<1>1. ps \in Seq(P)
    OBVIOUS
<1> HIDE DEF ps
<1>2. Buffered(buf, ps) \in Seq(P)
    BY <1>1, BufferedIn
<1>3. QED
    BY <1>2 DEF ps

\* The more users of other nets are known, the more is plausible.
LEMMA PlausibleGrows ==
    ASSUME NEW A, NEW B, A \subseteq B
    PROVE  /\ Plausible(A) \subseteq Plausible(B)
           /\ \A s \in Seq(Plausible(A)) : s \in Seq(Plausible(B))
<1> DEFINE P == Plausible(A)
           Q == Plausible(B)
<1>1. P \subseteq Q
    BY DEF Plausible
<1> HIDE DEF P, Q
<1>2. \A s \in Seq(P) : s \in Seq(Q)
    <2> TAKE s \in Seq(P)
    <2>1. s \in [1 .. Len(s) -> P] /\ Len(s) \in Nat
        OBVIOUS
    <2>2. s \in [1 .. Len(s) -> Q]
        BY <1>1, <2>1
    <2>3. QED
        BY <2>1, <2>2
<1>3. QED
    BY <1>1, <1>2 DEF P, Q

\* What each can say
LEMMA Sayable ==
    ASSUME NEW A
    PROVE  /\ \A name \in Mine, kind \in {"text", "leave main", "leave", "ask"} :
                  Packet(kind, name, None) \in Plausible(A)
           /\ \A name \in Mine : Packet("ack", name, Router) \in Plausible(A)
           /\ \A name, other \in Mine : Packet("rename", name, other) \in Plausible(A)
           /\ Packet("text", Router, None) \in Plausible(A)
           /\ \A name \in Remotes : Packet("leave main", name, None) \in Plausible(A)
           /\ \A name \in Remotes \cap A :
                  /\ Packet("text", name, None) \in Plausible(A)
                  /\ \A other \in Mine : Packet("ack", name, other) \in Plausible(A)
<1>1. \A p : p \in Plausible(A) <=>
          /\ p \in Packets
          /\ p.src \in Remotes \ {Router} => p.src \in A \/ p.kind = "leave main"
          /\ p.kind = "rename" => p.src \in Mine /\ p.text \in Mine
    BY DEF Plausible
<1>2. ASSUME NEW kind \in {"text", "rename", "leave main", "leave", "ack", "ask"},
             NEW src \in Mine \cup Remotes \cup {Router},
             NEW text \in Mine \cup Remotes \cup {Router, None},
             src \in Remotes \ {Router} => src \in A \/ kind = "leave main",
             kind = "rename" => src \in Mine /\ text \in Mine
      PROVE  Packet(kind, src, text) \in Plausible(A)
    <2> DEFINE p == Packet(kind, src, text)
    <2>1. p \in Packets /\ p.kind = kind /\ p.src = src /\ p.text = text
        BY DEF Packet, Packets
    <2> HIDE DEF p
    <2>2. p \in Plausible(A)
        BY <1>1, <1>2, <2>1
    <2>3. QED
        BY <2>2 DEF p
<1>3. \A name \in Mine : name \notin Remotes
    BY NamesApart
<1>4. /\ \A name \in Mine, kind \in {"text", "leave main", "leave", "ask"} :
            Packet(kind, name, None) \in Plausible(A)
      /\ \A name \in Mine : Packet("ack", name, Router) \in Plausible(A)
    BY <1>2, <1>3
<1>5. \A name, other \in Mine : Packet("rename", name, other) \in Plausible(A)
    BY <1>2, <1>3
<1>6. Packet("text", Router, None) \in Plausible(A)
    BY <1>2
<1>7. \A name \in Remotes : Packet("leave main", name, None) \in Plausible(A)
    BY <1>2
<1>8. \A name \in Remotes \cap A :
          /\ Packet("text", name, None) \in Plausible(A)
          /\ \A other \in Mine : Packet("ack", name, other) \in Plausible(A)
    BY <1>2
<1>9. QED
    BY <1>4, <1>5, <1>6, <1>7, <1>8

-----------------------------------------------------------------------------
(***************************************************************************)
(* The steps.                                                              *)
(***************************************************************************)

\* Counting what else happens leaves the number of visits alone.
LEMMA TimesKeeps ==
    ASSUME CacheApart, NEW what \in {"stays", "renames", "visits", "texts"}, NEW b, Times(what, b)
    PROVE  /\ DOMAIN used' = {"stays", "renames", "visits", "texts"}
           /\ used'["visits"] = IF what = "visits" THEN used["visits"] + 1 ELSE used["visits"]
BY DEF CacheApart, Times

\* Clients speak for themselves.
LEMMA ClientsKeep ==
    ASSUME Apart, NEW c \in Clients,
           \/ SignOn(c) \/ Text(c) \/ Rename(c) \/ AskAround(c)
           \/ SignOff(c) \/ Vanish(c) \/ Answer(c)
    PROVE  Apart'
<1> DEFINE P == Plausible(Away(Range(cache)))
<1>1. /\ cache' = cache /\ nextUid' = nextUid /\ lost' = lost /\ delayed' = delayed /\ more' = more
    BY DEF SignOn, Text, Rename, AskAround, SignOff, Vanish, Answer, routerVars
<1>2. RouterApart'
    BY <1>1 DEF Apart, RouterApart
<1>3. CacheApart'
    <2>1. used' = used \/ \E what \in {"stays", "renames", "texts"}, b \in {MaxStays, MaxRenames, MaxTexts} : Times(what, b)
        BY DEF SignOn, Text, Rename, AskAround, SignOff, Vanish, Answer
    <2>2. used'["visits"] = used["visits"] /\ DOMAIN used' = {"stays", "renames", "visits", "texts"}
        BY <2>1, TimesKeeps DEF Apart, CacheApart
    <2>3. QED
        BY <1>1, <2>2 DEF Apart, CacheApart
<1>4. ClientsApart'
    <2>1. ClientsApart /\ \A d \in Clients : Nicks[d] \subseteq Mine
        BY DEF Apart, Mine
    <2>2. CASE SignOn(c) \/ Rename(c)
        <3>1. \E name \in Nicks[c] : nick' = [nick EXCEPT ![c] = name]
            BY <2>2 DEF SignOn, Rename
        <3>2. asked' = asked
            BY <2>2 DEF SignOn, Rename
        <3>3. QED
            BY <2>1, <3>1, <3>2 DEF ClientsApart
    <2>3. CASE Text(c) \/ AskAround(c) \/ Answer(c)
        BY <2>1, <2>3 DEF Text, AskAround, Answer, ClientsApart
    <2>4. CASE SignOff(c) \/ Vanish(c)
        BY <2>1, <2>4 DEF SignOff, Vanish, ClientsApart
    <2>5. QED
        BY <2>2, <2>3, <2>4
<1>5. socket' \in Seq(P)
    <2>1. socket \in Seq(P)
        BY DEF Apart
    <2>2. Nicks[c] \subseteq Mine /\ (nick[c] # None => nick[c] \in Mine) /\ (c \in asked => nick[c] \in Mine)
        BY DEF Apart, ClientsApart, Mine
    <2>3. /\ \A name \in Mine, kind \in {"text", "leave main", "leave", "ask"} : Packet(kind, name, None) \in P
          /\ \A name \in Mine : Packet("ack", name, Router) \in P
          /\ \A name, other \in Mine : Packet("rename", name, other) \in P
        BY Sayable
    <2> HIDE DEF P
    <2>4. CASE SignOn(c)
        <3>1. \E name \in Nicks[c] : socket' = Append(socket, Packet("text", name, None))
            BY <2>4 DEF SignOn, Send
        <3>2. QED
            BY <2>1, <2>2, <2>3, <3>1, OnePacketIn
    <2>5. CASE Text(c)
        <3>1. socket' = Append(socket, Packet("text", nick[c], None)) /\ nick[c] # None
            BY <2>5 DEF Text, Send
        <3>2. QED
            BY <2>1, <2>2, <2>3, <3>1, OnePacketIn
    <2>6. CASE Rename(c)
        <3>1. /\ nick[c] # None
              /\ \E name \in Nicks[c] : socket' = Append(socket, Packet("rename", nick[c], name))
            BY <2>6 DEF Rename, Send
        <3>2. QED
            BY <2>1, <2>2, <2>3, <3>1, OnePacketIn
    <2>7. CASE AskAround(c)
        <3>1. socket' = Append(socket, Packet("ask", nick[c], None)) /\ nick[c] # None
            BY <2>7 DEF AskAround, Send
        <3>2. QED
            BY <2>1, <2>2, <2>3, <3>1, OnePacketIn
    <2>8. CASE SignOff(c)
        <3> DEFINE p == Packet("leave main", nick[c], None)
                   q == Packet("leave", nick[c], None)
                   ps == <<p, q>>
        <3>1. socket' = Buffered(socket, ps) /\ nick[c] # None
            BY <2>8 DEF SignOff
        <3>2. p \in P /\ q \in P
            BY <2>2, <2>3, <3>1
        <3> HIDE DEF p, q
        <3>3. ps \in Seq(P)
            BY <3>2
        <3> HIDE DEF ps
        <3>4. QED
            BY <2>1, <3>1, <3>3, BufferedIn
    <2>9. CASE Vanish(c)
        BY <2>1, <2>9 DEF Vanish
    <2>10. CASE Answer(c)
        <3>1. socket' = Append(socket, Packet("ack", nick[c], Router)) /\ c \in asked
            BY <2>10 DEF Answer, Send
        <3>2. QED
            BY <2>1, <2>2, <2>3, <3>1, OnePacketIn
    <2>11. QED
        BY <2>4, <2>5, <2>6, <2>7, <2>8, <2>9, <2>10
<1>6. QED
    BY <1>1, <1>2, <1>3, <1>4, <1>5 DEF Apart

\* The clients and the users of other nets stay as they are.
LEMMA OthersStay ==
    ASSUME Apart, UNCHANGED <<nick, asked, used>>
    PROVE  /\ ClientsApart' /\ used'["visits"] = used["visits"]
           /\ DOMAIN used' = {"stays", "renames", "visits", "texts"}
BY DEF Apart, ClientsApart, CacheApart

\* A pending USER_LOST is of a user of this net.
LEMMA FuneralApart ==
    ASSUME Apart, Funeral, lost # <<>>, UNCHANGED <<nick, asked, used>>
    PROVE  Apart'
<1> DEFINE uid == Head(lost)
           n == used["visits"]
           d == cache'
<1>1. uid \in {"here"} \X Nat /\ Tail(lost) \in Seq({"here"} \X Nat)
    BY DEF Apart, RouterApart
<1>2. IsLocal(uid)
    BY <1>1 DEF IsLocal
<1>3. cache \in Seq(Entry) /\ Sound(Range(cache), n) /\ d = Removed(uid)
    BY DEF Apart, CacheApart, Funeral
<1>4. d \in Seq(Entry) /\ Sound(Range(d), n) /\ Away(Range(d)) = Away(Range(cache))
    <2> HIDE DEF uid, n, d
    <2>1. QED
        BY <1>2, <1>3, RemovedHere
<1>5. CacheApart' /\ ClientsApart'
    BY <1>4, OthersStay DEF Apart, CacheApart
<1>6. RouterApart'
    BY <1>1 DEF Apart, RouterApart, Funeral
<1>7. socket' \in Seq(Plausible(Away(Range(cache'))))
    BY <1>4 DEF Apart, Funeral
<1>8. QED
    BY <1>5, <1>6, <1>7 DEF Apart

\* What the router takes for news of this net comes from its clients: it is in
\* the name of a client, or the leave of a user of another net it has forgotten.
LEMMA NewsOfClients ==
    ASSUME Apart, NEW q \in Plausible(Away(Range(cache))), ~IsOwn(q)
    PROVE  /\ IsKnown(q.src) \/ IsNewUser(q) => q.src \in Mine
           /\ IsKnown(q.src) => UidOf(q.src) \in {"here"} \X Nat /\ IsLocal(UidOf(q.src))
<1> DEFINE name == q.src
<1>1. /\ name \in Mine \cup Remotes \cup {Router}
      /\ name \in Remotes \ {Router} => name \in Away(Range(cache)) \/ q.kind = "leave main"
    BY DEF Plausible, Packets
<1>2. name # Router /\ (IsKnown(name) => IsLocal(UidOf(name)))
    BY DEF IsOwn
<1>3. cache \in Seq(Entry) /\ Sound(Range(cache), used["visits"])
    BY DEF Apart, CacheApart
<1>4. /\ IsKnown(name) => \E u \in Range(cache) : u.uid = UidOf(name) /\ u.nick = name
      /\ (name \in Mine /\ IsKnown(name)) => UidOf(name) \in {"here"} \X Nat
      /\ name \in Away(Range(cache)) => IsKnown(name) /\ ~IsLocal(UidOf(name))
    <2> HIDE DEF name
    <2>1. QED
        BY <1>3, FoundAre
<1>5. name \notin Away(Range(cache))
    BY <1>2, <1>4
<1>6. IsKnown(name) => name \in Mine
    BY <1>2, <1>3, <1>4 DEF Sound
<1>7. IsNewUser(q) => name \in Mine
    BY <1>1, <1>2, <1>5 DEF IsNewUser
<1>8. QED
    BY <1>2, <1>4, <1>6, <1>7

\* The sender of a packet gets an id.
LEMMA NewUserApart ==
    ASSUME Apart, NEW q \in Plausible(Away(Range(cache))), q.src \in Mine, NewUser(q),
           socket' \in Seq(Plausible(Away(Range(cache)))), UNCHANGED <<nick, asked, used>>
    PROVE  Apart'
<1> DEFINE n == used["visits"]
           k == (nextUid + 1) % UidModulus
           name == q.src
           d == cache'
<1>1. k \in Nat /\ nextUid' = k
    BY LocalNetAssumption DEF Apart, RouterApart, NewUser
<1>2. cache \in Seq(Entry) /\ Sound(Range(cache), n) /\ d = Added(User("here", k, name)) /\ name \in Mine
    BY DEF Apart, CacheApart, NewUser
<1>3. d \in Seq(Entry) /\ Sound(Range(d), n) /\ Away(Range(d)) = Away(Range(cache))
    <2>1. k \in Nat
        BY <1>1
    <2> HIDE DEF n, k, name, d
    <2>2. QED
        BY <1>2, <2>1, AddedHere
<1>4. CacheApart' /\ ClientsApart'
    BY <1>3, OthersStay DEF Apart, CacheApart
<1>5. q # None /\ q \in Plausible({})
    <2>1. q \in Packets /\ q.src \in Mine /\ q.src \notin Remotes /\ q.src # Router
        BY NamesApart DEF Plausible
    <2>2. q \in Plausible({})
        BY <2>1 DEF Plausible
    <2>3. None \notin Packets
        BY NoneApart
    <2>4. QED
        BY <2>1, <2>2, <2>3
<1>6. RouterApart'
    BY <1>1, <1>5 DEF Apart, RouterApart, NewUser
<1>7. QED
    BY <1>3, <1>4, <1>6 DEF Apart

\* The answers for the users of other nets
LEMMA AnswersPlausible ==
    ASSUME Apart, NEW q, q.src \in Mine
    PROVE  Masqueraded(q) \in Seq(Plausible(Away(Range(cache))))
<1> DEFINE S == {u \in Range(cache) : ~IsLocal(u.uid)}
           others == Those(S)
           P == Plausible(Away(Range(cache)))
           ps == [i \in DOMAIN others |-> Packet("ack", others[i].nick, q.src)]
<1>1. cache \in Seq(Entry) /\ Sound(Range(cache), used["visits"])
    BY DEF Apart, CacheApart
<1>2. others \in Seq(Entry) /\ Range(others) = Range(cache) \cap S
    <2> HIDE DEF S
    <2>1. QED
        BY <1>1, ThoseAre
<1>3. \A u \in Range(others) : u.nick \in Remotes \cap Away(Range(cache))
    BY <1>1, <1>2 DEF Sound, Away
<1>4. \A name \in Remotes \cap Away(Range(cache)) : Packet("ack", name, q.src) \in P
    BY Sayable
<1> HIDE DEF P, others
<1>5. \A i \in DOMAIN others : ps[i] \in P
    BY <1>3, <1>4 DEF Range
<1>6. DOMAIN others = 1 .. Len(others) /\ Len(others) \in Nat
    BY <1>2
<1>7. ps \in [1 .. Len(others) -> P]
    BY <1>5, <1>6
<1>8. ps \in Seq(P)
    BY <1>6, <1>7
<1>9. QED
    BY <1>8 DEF Masqueraded, others, P

\* A packet of a known user of this net
LEMMA HandleApart ==
    ASSUME Apart, NEW q \in Plausible(Away(Range(cache))), q.src \in Mine,
           IsKnown(q.src), UidOf(q.src) \in {"here"} \X Nat, IsLocal(UidOf(q.src)),
           NEW rest \in Seq(Plausible(Away(Range(cache)))), Handle(q, rest)
    PROVE  /\ cache' \in Seq(Entry) /\ Sound(Range(cache'), used["visits"])
           /\ socket' \in Seq(Plausible(Away(Range(cache'))))
           /\ lost' \in Seq({"here"} \X Nat)
<1> DEFINE n == used["visits"]
           uid == UidOf(q.src)
           d == cache'
<1>1. cache \in Seq(Entry) /\ Sound(Range(cache), n)
    BY DEF Apart, CacheApart
<1>2. lost' \in Seq({"here"} \X Nat)
    <2> DEFINE U == {"here"} \X Nat
    <2>1. lost \in Seq(U) /\ uid \in U
        BY DEF Apart, RouterApart
    <2>2. lost' = Append(lost, uid) \/ lost' = lost
        BY DEF Handle, Left
    <2>3. lost' \in Seq(U)
        <3> HIDE DEF U, uid
        <3>1. QED
            BY <2>1, <2>2
    <2>4. QED
        BY <2>3
<1>3. CASE q.kind = "rename"
    <2>1. q.text \in Mine
        BY <1>3 DEF Plausible
    <2>2. d = Renamed(uid, q.text) /\ socket' = rest
        BY <1>3 DEF Handle
    <2>3. d \in Seq(Entry) /\ Sound(Range(d), n) /\ Away(Range(d)) = Away(Range(cache))
        <3> DEFINE m == q.text
        <3>1. m \in Mine /\ IsLocal(uid) /\ d = Renamed(uid, m)
            BY <2>1, <2>2
        <3> HIDE DEF d, uid, n, m
        <3>2. QED
            BY <1>1, <3>1, RenamedStay
    <2>4. QED
        BY <1>2, <2>2, <2>3
<1>4. CASE q.kind = "ack"
    <2>1. (d = TaggedAlive(uid) \/ d = cache) /\ socket' = rest
        BY <1>4 DEF Handle, Acked
    <2>2. CASE d = TaggedAlive(uid)
        <3>1. d \in Seq(Entry) /\ Sound(Range(d), n) /\ Away(Range(d)) = Away(Range(cache))
            <4> HIDE DEF d, uid, n
            <4>1. QED
                BY <1>1, <2>2, TaggedStay
        <3>2. QED
            BY <1>2, <2>1, <3>1
    <2>3. CASE d = cache
        BY <1>1, <1>2, <2>1, <2>3
    <2>4. QED
        BY <2>1, <2>2, <2>3
<1>5. CASE q.kind = "ask"
    <2>1. d = cache /\ socket' = Buffered(rest, Masqueraded(q))
        BY <1>5 DEF Handle
    <2>2. Masqueraded(q) \in Seq(Plausible(Away(Range(cache))))
        BY AnswersPlausible
    <2>3. socket' \in Seq(Plausible(Away(Range(cache))))
        BY <2>1, <2>2, BufferedIn
    <2>4. QED
        BY <1>1, <1>2, <2>1, <2>3
<1>6. CASE q.kind \notin {"rename", "ack", "ask"}
    <2>1. d = cache /\ socket' = rest
        BY <1>6 DEF Handle
    <2>2. QED
        BY <1>1, <1>2, <2>1
<1>7. QED
    BY <1>3, <1>4, <1>5, <1>6

\* One recv()
LEMMA RecvApart ==
    ASSUME Apart, Recv
    PROVE  Apart'
<1> DEFINE P == Plausible(Away(Range(cache)))
           q == IF delayed # None THEN delayed ELSE Head(socket)
           rest == IF delayed # None THEN socket ELSE Tail(socket)
<1>1. UNCHANGED <<nick, asked, used>> /\ (more \/ socket # <<>>)
    BY DEF Recv
<1>2. CASE lost # <<>>
    BY <1>1, <1>2, FuneralApart DEF Recv
<1>3. CASE lost = <<>>
    <2>1. Read
        BY <1>3 DEF Recv
    <2>2. socket \in Seq(P) /\ (delayed # None => delayed \in P) /\ (delayed = None => socket # <<>>)
        <3>1. Plausible({}) \subseteq P
            BY PlausibleGrows
        <3>2. QED
            BY <1>1, <1>3, <3>1 DEF Apart, RouterApart
    <2>3. q \in P /\ rest \in Seq(P)
        <3> HIDE DEF P
        <3>1. QED
            BY <2>2
    <2>4. CASE IsOwn(q)
        <3>1. /\ socket' = rest /\ delayed' = None /\ more' = FALSE
              /\ UNCHANGED <<cache, nextUid, lost>>
            BY <2>1, <2>4 DEF Read
        <3>2. CacheApart' /\ ClientsApart'
            BY <1>1, <3>1, OthersStay DEF Apart, CacheApart
        <3>3. RouterApart'
            BY <3>1 DEF Apart, RouterApart
        <3>4. QED
            BY <2>3, <3>1, <3>2, <3>3 DEF Apart
    <2>5. CASE ~IsOwn(q) /\ IsNewUser(q)
        <3>1. NewUser(q) /\ socket' = rest
            BY <2>1, <2>5 DEF Read
        <3>2. q.src \in Mine
            <4> HIDE DEF q
            <4>1. QED
                BY <2>3, <2>5, NewsOfClients
        <3> HIDE DEF q, rest
        <3>3. QED
            BY <1>1, <2>3, <3>1, <3>2, NewUserApart
    <2>6. CASE ~IsOwn(q) /\ ~IsNewUser(q)
        <3>1. /\ delayed' = None /\ more' = (lost' # <<>>) /\ nextUid' = nextUid
              /\ IF IsKnown(q.src) THEN Handle(q, rest)
                 ELSE socket' = rest /\ UNCHANGED <<cache, lost>>
            BY <2>1, <2>6 DEF Read
        <3>2. /\ cache' \in Seq(Entry) /\ Sound(Range(cache'), used["visits"])
              /\ socket' \in Seq(Plausible(Away(Range(cache'))))
              /\ lost' \in Seq({"here"} \X Nat)
            <4>1. CASE IsKnown(q.src)
                <5>1. Handle(q, rest)
                    BY <3>1, <4>1
                <5> HIDE DEF q, rest
                <5>2. q.src \in Mine /\ UidOf(q.src) \in {"here"} \X Nat /\ IsLocal(UidOf(q.src))
                    BY <2>3, <2>6, <4>1, NewsOfClients
                <5>3. QED
                    BY <2>3, <4>1, <5>1, <5>2, HandleApart
            <4>2. CASE ~IsKnown(q.src)
                <5>1. socket' = rest /\ cache' = cache /\ lost' = lost
                    BY <3>1, <4>2
                <5> HIDE DEF q, rest
                <5>2. QED
                    BY <2>3, <5>1 DEF Apart, CacheApart, RouterApart
            <4>3. QED
                BY <4>1, <4>2
        <3>3. CacheApart' /\ ClientsApart'
            BY <1>1, <3>2, OthersStay DEF Apart, CacheApart
        <3>4. RouterApart'
            BY <3>1, <3>2 DEF Apart, RouterApart
        <3>5. QED
            BY <3>2, <3>3, <3>4 DEF Apart
    <2>7. QED
        BY <2>4, <2>5, <2>6
<1>4. QED
    BY <1>2, <1>3

\* Those that have not answered
LEMMA DeadHere ==
    ASSUME Apart
    PROVE  Dead \in Seq({"here"} \X Nat)
<1> DEFINE S == {u \in Range(cache) : IsLocal(u.uid) /\ ~u.alive}
           dead == Those(S)
           U == {"here"} \X Nat
           us == [i \in DOMAIN dead |-> dead[i].uid]
<1>1. cache \in Seq(Entry)
    BY DEF Apart, CacheApart
<1>2. dead \in Seq(Entry) /\ Range(dead) = Range(cache) \cap S
    <2> HIDE DEF S
    <2>1. QED
        BY <1>1, ThoseAre
<1>3. \A u \in Range(dead) : u.uid \in U
    <2>1. \A u \in Range(dead) : u \in Entry /\ IsLocal(u.uid)
        BY <1>1, <1>2 DEF Range
    <2>2. QED
        BY <2>1 DEF Entry, IsLocal
<1> HIDE DEF U, dead
<1>4. DOMAIN dead = 1 .. Len(dead) /\ Len(dead) \in Nat
    BY <1>2
<1>5. us \in [1 .. Len(dead) -> U]
    BY <1>3, <1>4 DEF Range
<1>6. us \in Seq(U)
    BY <1>4, <1>5
<1>7. QED
    BY <1>6 DEF Dead, dead, U

\* The refresh timeout only queues users of this net.
LEMMA TimeoutApart ==
    ASSUME Apart, Timeout
    PROVE  Apart'
<1> DEFINE n == used["visits"]
           d == cache'
           U == {"here"} \X Nat
           P == Plausible(Away(Range(cache)))
<1>1. cache \in Seq(Entry) /\ Sound(Range(cache), n) /\ d = TaggedDead
    BY DEF Apart, CacheApart, Timeout
<1>2. d \in Seq(Entry) /\ Sound(Range(d), n) /\ Away(Range(d)) = Away(Range(cache))
    <2> HIDE DEF n, d
    <2>1. QED
        BY <1>1, TaggedStay
<1>3. CacheApart'
    BY <1>2 DEF Apart, CacheApart, Timeout
<1>4. ClientsApart'
    BY DEF Apart, ClientsApart, Timeout
<1>5. lost' \in Seq(U)
    <2>1. lost \in Seq(U) /\ Dead \in Seq(U) /\ lost' = lost \o Dead
        BY DeadHere DEF Apart, RouterApart, Timeout
    <2> HIDE DEF U
    <2>2. QED
        BY <2>1
<1>6. RouterApart'
    BY <1>5 DEF Apart, RouterApart, Timeout
<1>7. socket' \in Seq(P)
    <2>1. socket \in Seq(P) /\ Packet("text", Router, None) \in P
        BY Sayable DEF Apart
    <2>2. socket' = Buffered(socket, <<Packet("text", Router, None)>>)
        BY DEF Timeout
    <2> HIDE DEF P
    <2>3. QED
        BY <2>1, <2>2, OnePacketIn
<1>8. QED
    BY <1>2, <1>3, <1>4, <1>6, <1>7 DEF Apart

\* A user of another net comes.
LEMMA ComesApart ==
    ASSUME Apart, NEW name \in Remotes, RemoteComes(name)
    PROVE  Apart'
<1> DEFINE n == used["visits"]
           d == cache'
           A == Away(Range(cache))
           B == Away(Range(d))
<1>1. cache \in Seq(Entry) /\ n \in Nat /\ Sound(Range(cache), n) /\ d = Added(User("away", n, name))
    BY DEF Apart, CacheApart, RemoteComes
<1>2. d \in Seq(Entry) /\ Sound(Range(d), n + 1) /\ A \subseteq B
    <2> HIDE DEF n, d
    <2>1. QED
        BY <1>1, AddedAway DEF A, B
<1>3. used'["visits"] = n + 1 /\ DOMAIN used' = {"stays", "renames", "visits", "texts"}
    <2>1. CacheApart /\ Times("visits", MaxVisits)
        BY DEF Apart, RemoteComes
    <2>2. QED
        BY <2>1, TimesKeeps
<1>4. CacheApart'
    BY <1>1, <1>2, <1>3 DEF CacheApart
<1>5. ClientsApart' /\ RouterApart'
    BY DEF Apart, ClientsApart, RouterApart, RemoteComes, RemoteVars
<1>6. socket' = socket /\ socket \in Seq(Plausible(A))
    BY DEF Apart, RemoteComes
<1>7. socket \in Seq(Plausible(B))
    <2> HIDE DEF A, B
    <2>1. QED
        BY <1>2, <1>6, PlausibleGrows
<1>8. QED
    BY <1>4, <1>5, <1>6, <1>7 DEF Apart

\* The router says something in the name of a user of another net it knows.
LEMMA SpokenForApart ==
    ASSUME Apart, NEW name \in Remotes, RemoteText(name) \/ RemoteLeaves(name)
    PROVE  Apart'
<1> DEFINE P == Plausible(Away(Range(cache)))
<1>1. /\ UNCHANGED <<cache, nick, asked, nextUid, lost, delayed, more>>
      /\ IsKnown(name) /\ ~IsLocal(UidOf(name)) /\ Times("texts", MaxTexts)
    BY DEF RemoteText, RemoteLeaves, RemoteVars
<1>2. used'["visits"] = used["visits"] /\ DOMAIN used' = {"stays", "renames", "visits", "texts"}
    BY <1>1, TimesKeeps DEF Apart
<1>3. CacheApart' /\ ClientsApart' /\ RouterApart'
    BY <1>1, <1>2 DEF Apart, CacheApart, ClientsApart, RouterApart
<1>4. name \in Away(Range(cache))
    <2>1. \E u \in Range(cache) : u.uid = UidOf(name) /\ u.nick = name
        BY <1>1, FoundAre DEF Apart, CacheApart
    <2>2. QED
        BY <1>1, <2>1 DEF Away
<1>5. Packet("text", name, None) \in P /\ Packet("leave main", name, None) \in P
    BY <1>4, Sayable
<1>6. socket' = Buffered(socket, <<Packet("text", name, None)>>)
      \/ socket' = Buffered(socket, <<Packet("leave main", name, None)>>)
    BY DEF RemoteText, RemoteLeaves
<1>7. socket' \in Seq(P)
    <2>1. socket \in Seq(P)
        BY DEF Apart
    <2> HIDE DEF P
    <2>2. QED
        BY <1>5, <1>6, <2>1, OnePacketIn
<1>8. QED
    BY <1>1, <1>3, <1>7 DEF Apart

\* A user of another net is lost when the router has read back what it said in
\* the user's name: the leaves that may remain count for nothing.
LEMMA LostApart ==
    ASSUME Unhurried, Apart, NEW name \in Remotes, RemoteLost(name)
    PROVE  Apart'
<1> DEFINE n == used["visits"]
           d == cache'
           A == Away(Range(cache))
           B == Away(Range(d))
<1>1. cache \in Seq(Entry) /\ Sound(Range(cache), n) /\ d = Removed(UidOf(name))
      /\ IsKnown(name) /\ ~IsLocal(UidOf(name))
    BY DEF Apart, CacheApart, RemoteLost
<1>2. d \in Seq(Entry) /\ Sound(Range(d), n) /\ A \ {name} \subseteq B
    <2> HIDE DEF n, d
    <2>1. QED
        BY <1>1, RemovedAway DEF A, B
<1>3. CacheApart'
    BY <1>2 DEF Apart, CacheApart, RemoteLost
<1>4. ClientsApart' /\ RouterApart'
    BY DEF Apart, ClientsApart, RouterApart, RemoteLost, RemoteVars
<1>5. /\ socket' = socket /\ socket \in Seq(Plausible(A))
      /\ \A i \in DOMAIN socket : socket[i].src = name => socket[i].kind = "leave main"
    BY DEF Apart, RemoteLost
<1>6. socket \in Seq(Plausible(B))
    <2> DEFINE P == Plausible(A)
               Q == Plausible(B)
    <2>1. socket \in Seq(P)
        BY <1>5
    <2>2. ASSUME NEW p \in P, p.src = name => p.kind = "leave main"
          PROVE  p \in Q
        BY <1>2, <2>2 DEF Plausible
    <2> HIDE DEF A, B, P, Q
    <2>3. DOMAIN socket = 1 .. Len(socket) /\ Len(socket) \in Nat /\ \A i \in DOMAIN socket : socket[i] \in P
        BY <2>1
    <2>4. \A i \in DOMAIN socket : socket[i] \in Q
        BY <1>5, <2>2, <2>3
    <2>5. socket \in [1 .. Len(socket) -> Q]
        BY <2>1, <2>3, <2>4
    <2>6. socket \in Seq(Q)
        BY <2>3, <2>5
    <2>7. QED
        BY <2>6 DEF Q
<1>7. QED
    BY <1>3, <1>4, <1>5, <1>6 DEF Apart

\* Initially nothing is known or heard.
LEMMA InitApart == Init => Apart
<1> SUFFICES ASSUME Init PROVE Apart
    OBVIOUS
<1>1. cache = <<>> /\ Range(cache) = {}
    BY DEF Init, Range
<1>2. CacheApart
    BY <1>1 DEF Init, CacheApart, Sound
<1>3. ClientsApart
    BY DEF Init, ClientsApart
<1>4. RouterApart
    <2> DEFINE U == {"here"} \X Nat
    <2>1. lost = <<>> /\ nextUid = 0 /\ delayed = None /\ more = FALSE
        BY DEF Init
    <2>2. lost \in Seq(U)
        <3> HIDE DEF U
        <3>1. QED
            BY <2>1
    <2>3. QED
        BY <2>1, <2>2 DEF RouterApart
<1>5. socket \in Seq(Plausible(Away(Range(cache))))
    BY DEF Init
<1>6. QED
    BY <1>2, <1>3, <1>4, <1>5 DEF Apart

\* Every step keeps the invariant.
LEMMA NextApart ==
    ASSUME Unhurried, Apart, [Next]_vars
    PROVE  Apart'
<1>1. ASSUME NEW c \in Clients,
             \/ SignOn(c) \/ Text(c) \/ Rename(c) \/ AskAround(c)
             \/ SignOff(c) \/ Vanish(c) \/ Answer(c)
      PROVE  Apart'
    BY <1>1, ClientsKeep
<1>2. CASE Recv
    BY <1>2, RecvApart
<1>3. CASE Timeout
    BY <1>3, TimeoutApart
<1>4. ASSUME NEW name \in Remotes,
             \/ RemoteComes(name) \/ RemoteText(name)
             \/ RemoteLeaves(name) \/ RemoteLost(name)
      PROVE  Apart'
    BY <1>4, ComesApart, SpokenForApart, LostApart
<1>5. CASE UNCHANGED vars
    BY <1>5 DEF vars, Apart, CacheApart, ClientsApart, RouterApart
<1>6. QED
    BY <1>1, <1>2, <1>3, <1>4, <1>5 DEF Next

\* What the router hears of itself, its own packets and those it sent for the
\* users of other nets, never makes a user of this net, for any clients and
\* nicknames and any number of users, however users come and go, provided that
\* a user of another net is lost only after the packets sent in its name came back.
THEOREM NoUserFromOthers ==
    ASSUME Unhurried
    PROVE  Spec => []NoGhosts
<1>1. Apart => NoGhosts
    <2> SUFFICES ASSUME Apart, NEW i \in DOMAIN cache, IsLocal(cache[i].uid)
                 PROVE  \E c \in Clients : cache[i].nick \in Nicks[c]
        BY DEF NoGhosts
    <2>1. cache[i].nick \in Mine
        BY DEF Apart, CacheApart, Sound, Range
    <2>2. QED
        BY <2>1 DEF Mine
<1>2. QED
    BY <1>1, InitApart, NextApart, PTL DEF Spec
=============================================================================
