----------------------------- MODULE UserCache -----------------------------
(***************************************************************************)
(* The router's cache of known users and their channels                    *)
(* (qcrouter/src/usercache.c).                                             *)
(*                                                                         *)
(* The cache holds two linked structures: the users, each with a list of   *)
(* pointers to channel entries, and the channel entries, each with a count *)
(* of the users that point to it.  An entry is freed when its count drops  *)
(* to zero.  A channel entry is modelled by the heap slot it lives in, so  *)
(* that a pointer to a freed entry differs from a pointer to a new entry   *)
(* of the same name.                                                       *)
(*                                                                         *)
(* Abstracted: a user's channel list is a set of slots (add_ue_channel     *)
(* never puts a channel on the list twice, and no operation depends on the *)
(* order); the user mode and the nickname, which usercache_add only        *)
(* overwrites, are left out; the `alive' flag is part of LocalNet.         *)
(***************************************************************************)
EXTENDS Naturals, FiniteSets

CONSTANTS
    Users,          \* user ids <<net, number>> the switch may name
    Nets,           \* ids of the nets the users belong to
    NetOf,          \* the net of each user id
    Channels,       \* channel names
    Topics,         \* topic texts
    NoTopic,        \* the empty topic of a fresh channel entry
    NoName,         \* the name of no channel
    Slots           \* heap blocks a channel entry may occupy

ASSUME UserCacheAssumption ==
    /\ IsFiniteSet(Users)
    /\ NetOf \in [Users -> Nets]
    /\ NoName \notin Channels
    /\ NoTopic \notin Topics

VARIABLES
    cached,     \* the users on the list ue_first .. ue_last
    chan,       \* the slots in each user's chan[]
    heap,       \* the channel entries chan_first .. chan_last, by slot
    crashed     \* the process has aborted or faulted

cacheVars == <<cached, chan, heap, crashed>>

ChannelEntry ==
    [name : Channels \cup {NoName}, topic : Topics \cup {NoTopic}, refs : Nat]

\* A slot that holds no entry: never allocated, or freed by chan_delete_ref.
Freed == [name |-> NoName, topic |-> NoTopic, refs |-> 0]

Allocated(h, s) == h[s].refs > 0

\* chan_find: the entry of a name (at most one, see ChannelNamesUnique).
FindChan(h, c) == {s \in Slots : Allocated(h, s) /\ h[s].name = c}

Holders(s) == {u \in cached : s \in chan[u]}

\* usercache_chanlist_of: what the router tells others of a user's channels.
ChannelsOf(u) == {heap[s].name : s \in chan[u]}

(***************************************************************************)
(* The loops over chan_delete_ref and chan_add_ref.                        *)
(***************************************************************************)

\* The heap after each user in W has dropped all its channels.
Released(W) ==
    [s \in Slots |->
        LET left == heap[s].refs - Cardinality({u \in W : s \in chan[u]})
        IN  IF left = 0 THEN Freed ELSE [heap[s] EXCEPT !.refs = left]]

\* Mutant: chan_delete_ref frees the entry on every call.
FreedAtOnce(s) == [heap EXCEPT ![s] = Freed]

\* One chan_delete_ref of the entry in slot s.
Unreferenced(s) ==
    [heap EXCEPT ![s] = IF heap[s].refs = 1 THEN Freed
                        ELSE [heap[s] EXCEPT !.refs = heap[s].refs - 1]]

\* Mutant: chan_add_ref always makes a new entry.
FreshPlacements(h, N) ==
    {place \in [N -> Slots] :
        /\ \A c \in N : ~Allocated(h, place[c])
        /\ \A c, d \in N : place[c] = place[d] => c = d}

\* The slots that chan_add_ref may return for the names N: the entry of the
\* name if there is one, a new block otherwise.
Placements(h, N) ==
    {place \in [N -> Slots] :
        /\ \A c \in N : IF FindChan(h, c) # {} THEN place[c] \in FindChan(h, c)
                                               ELSE ~Allocated(h, place[c])
        /\ \A c, d \in N : place[c] = place[d] => c = d}

\* Mutants: chan_add_ref does not count a second reference, or clears the topic.
ReferencedUncounted(h, N, place) ==
    [s \in Slots |->
        IF Allocated(h, s) \/ \A c \in N : place[c] # s THEN h[s]
        ELSE [name |-> CHOOSE c \in N : place[c] = s, topic |-> NoTopic, refs |-> 1]]
ReferencedUntitled(h, N, place) ==
    [s \in Slots |->
        IF \A c \in N : place[c] # s THEN h[s]
        ELSE [name |-> CHOOSE c \in N : place[c] = s, topic |-> NoTopic,
              refs |-> h[s].refs + 1]]

\* The heap after one chan_add_ref for each of the names N.
Referenced(h, N, place) ==
    [s \in Slots |->
        IF \A c \in N : place[c] # s THEN h[s]
        ELSE IF Allocated(h, s) THEN [h[s] EXCEPT !.refs = @ + 1]
        ELSE [name |-> CHOOSE c \in N : place[c] = s, topic |-> NoTopic, refs |-> 1]]

\* A pointer in one of the lists of W leads to a freed entry: following it is
\* undefined, and usercache_remove's assertion fails if it is skipped.
FollowsDanglingPointer(W) == \E u \in W : \E s \in chan[u] : ~Allocated(heap, s)

Crash == crashed' = TRUE /\ UNCHANGED <<cached, chan, heap>>

-----------------------------------------------------------------------------
(***************************************************************************)
(* The operations, as the switch calls them.                               *)
(***************************************************************************)

\* usercache_init
CacheInit ==
    /\ cached = {}
    /\ chan = [u \in Users |-> {}]
    /\ heap = [s \in Slots |-> Freed]
    /\ crashed = FALSE

\* usercache_add with a full record (USER_NEW): a new user is appended, and the
\* channel list of a new or known user is replaced by N (set_ue_channels).
AddUser(u, N) ==
    /\ ~crashed
    /\ IF FollowsDanglingPointer({u}) THEN Crash
       ELSE LET h == Released({u}) IN
            \E place \in Placements(h, N) :
                /\ heap' = Referenced(h, N, place)
                /\ chan' = [chan EXCEPT ![u] = {place[c] : c \in N}]
                /\ cached' = cached \cup {u}
                /\ UNCHANGED crashed

\* Mutant: usercache_remove keeps the pointer list of the user.
RemoveUsersButLists(W) ==
    /\ heap' = Released(W)
    /\ cached' = cached \ W
    /\ UNCHANGED <<chan, crashed>>

\* usercache_remove, and usercache_remove_net, which calls it for each user.
RemoveUsers(W) ==
    IF FollowsDanglingPointer(W) THEN Crash
    ELSE /\ heap' = Released(W)
         /\ chan' = [u \in Users |-> IF u \in W THEN {} ELSE chan[u]]
         /\ cached' = cached \ W
         /\ UNCHANGED crashed

RemoveUser(u) ==
    /\ ~crashed
    /\ u \in cached
    /\ RemoveUsers({u})

RemoveNet(n) ==
    /\ ~crashed
    /\ RemoveUsers({u \in cached : NetOf[u] = n})

\* usercache_join_chan: unknown users, and channels the user has, are ignored.
JoinChan(u, c) ==
    /\ ~crashed
    /\ u \in cached
    /\ FindChan(heap, c) \cap chan[u] = {}
    /\ \E place \in Placements(heap, {c}) :
           /\ heap' = Referenced(heap, {c}, place)
           /\ chan' = [chan EXCEPT ![u] = @ \cup {place[c]}]
    /\ UNCHANGED <<cached, crashed>>

\* usercache_part_chan for a channel on the user's list.
PartChan(u, c) ==
    /\ ~crashed
    /\ u \in cached
    /\ \E s \in FindChan(heap, c) \cap chan[u] :
           /\ heap' = Unreferenced(s)
           /\ chan' = [chan EXCEPT ![u] = @ \ {s}]
    /\ UNCHANGED <<cached, crashed>>

\* usercache_set_topic: unknown channels are ignored.
SetTopic(c, t) ==
    /\ ~crashed
    /\ \E s \in FindChan(heap, c) : heap' = [heap EXCEPT ![s].topic = t]
    /\ UNCHANGED <<cached, chan, crashed>>

CacheNext ==
    \/ \E u \in Users, N \in SUBSET Channels \ {{}} : AddUser(u, N)
    \/ \E u \in Users : RemoveUser(u)
    \/ \E n \in Nets : RemoveNet(n)
    \/ \E u \in Users, c \in Channels : JoinChan(u, c)
    \/ \E u \in Users, c \in Channels : PartChan(u, c)
    \/ \E c \in Channels, t \in Topics : SetTopic(c, t)

CacheSpec == CacheInit /\ [][CacheNext]_cacheVars

-----------------------------------------------------------------------------
(***************************************************************************)
(* Correctness.                                                            *)
(***************************************************************************)

\* The shape of the cache.  Users outside the cache own no list: usercache_add
\* and usercache_remove allocate and free it with the user.
TypeOK ==
    /\ cached \subseteq Users
    /\ chan \in [Users -> SUBSET Slots]
    /\ \A u \in Users \ cached : chan[u] = {}
    /\ heap \in [Slots -> ChannelEntry]
    /\ crashed \in BOOLEAN

\* The count of every channel entry is the number of users whose list points to
\* it.  A count too low frees the entry under a user that still points to it; a
\* count too high leaks the entry, and its stale topic, for ever.
RefCountExact == \A s \in Slots : heap[s].refs = Cardinality(Holders(s))

\* No channel name has two entries, and entries have names: chan_find returns
\* the first match, so a second entry of the name would be unreachable.
ChannelNamesUnique ==
    \A s \in Slots : Allocated(heap, s) =>
        /\ heap[s].name \in Channels
        /\ \A r \in FindChan(heap, heap[s].name) : r = s

\* The topic usercache_topic returns for a channel.
TopicOf(c) ==
    IF FindChan(heap, c) = {} THEN NoTopic
    ELSE heap[CHOOSE s \in FindChan(heap, c) : TRUE].topic

Book == INSTANCE ChannelBook
            WITH present <- cached,
                 member <- [u \in Users |-> ChannelsOf(u)],
                 topic <- [c \in Channels |-> TopicOf(c)]

\* Entries, pointers and counts implement the book of presence, membership and
\* topics: what one user does, or its coming or going, never changes another
\* user's channels, and a topic lasts as long as the channel has a member.
ImplementsBook == Book!Spec

\* As long as the switch parts users only from channels on their lists, no
\* assertion of the cache fails and no freed memory is touched.
NeverCrashes == ~crashed

=============================================================================
