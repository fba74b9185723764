---------------------------- MODULE ChannelBook ----------------------------
(***************************************************************************)
(* What the user cache promises (qcrouter/src/usercache.h): a book of who  *)
(* is present, which channels each is in, and what the topic of each       *)
(* channel is.  No entries, pointers or counts: UserCache implements it.   *)
(*                                                                         *)
(* A topic belongs to a gathering: it is forgotten as soon as a channel    *)
(* has no member left, and a user announced again counts as having left.   *)
(***************************************************************************)
CONSTANTS Users, Nets, NetOf, Channels, Topics, NoTopic

VARIABLES
    present,    \* the users the book knows
    member,     \* the channels of each
    topic       \* the topic of each channel

vars == <<present, member, topic>>

Init ==
    /\ present = {}
    /\ member = [u \in Users |-> {}]
    /\ topic = [c \in Channels |-> NoTopic]

\* The topics once the users W are out of all their channels.
TopicsWithout(W) ==
    [c \in Channels |->
        IF \E u \in Users \ W : c \in member[u] THEN topic[c] ELSE NoTopic]

\* usercache_add
Announce(u, N) ==
    /\ present' = present \cup {u}
    /\ member' = [member EXCEPT ![u] = N]
    /\ topic' = TopicsWithout({u})

\* usercache_remove, usercache_remove_net
Withdraw(W) ==
    /\ present' = present \ W
    /\ member' = [u \in Users |-> IF u \in W THEN {} ELSE member[u]]
    /\ topic' = TopicsWithout(W)

\* usercache_join_chan
Enter(u, c) ==
    /\ u \in present
    /\ member' = [member EXCEPT ![u] = @ \cup {c}]
    /\ UNCHANGED <<present, topic>>

\* usercache_part_chan
Leave(u, c) ==
    /\ c \in member[u]
    /\ member' = [member EXCEPT ![u] = @ \ {c}]
    /\ topic' = IF \E v \in Users \ {u} : c \in member[v] THEN topic
                ELSE [topic EXCEPT ![c] = NoTopic]
    /\ UNCHANGED present

\* usercache_set_topic
Discuss(c, t) ==
    /\ \E u \in present : c \in member[u]
    /\ topic' = [topic EXCEPT ![c] = t]
    /\ UNCHANGED <<present, member>>

Next ==
    \/ \E u \in Users, N \in SUBSET Channels : Announce(u, N)
    \/ \E u \in present : Withdraw({u})
    \/ \E n \in Nets : Withdraw({u \in present : NetOf[u] = n})
    \/ \E u \in Users, c \in Channels : Enter(u, c) \/ Leave(u, c)
    \/ \E c \in Channels, t \in Topics : Discuss(c, t)

Spec == Init /\ [][Next]_vars
=============================================================================
