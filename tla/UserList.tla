------------------------------ MODULE UserList ------------------------------
(***************************************************************************)
(* The client's list of users (vqcc-gtk/src/user.c), as operators on its   *)
(* value.                                                                  *)
(*                                                                         *)
(* A list maps the user_info_t's there are - memory blocks, whose          *)
(* addresses are the user ids of the rest of the program - to what they    *)
(* hold.  The key of a user in the hash table is always its name.          *)
(*                                                                         *)
(* Each operation yields the list after it, `tab', and `evs', the events   *)
(* it has raised, in order.  The other modules handle an event while it is *)
(* raised; an event therefore carries what they ask the list for then.     *)
(*                                                                         *)
(* Abstracted: whether a user looks at his window, and when he was last    *)
(* heard of; nothing depends on them but what is shown.                    *)
(***************************************************************************)
EXTENDS Naturals, Sequences, SequencesExt, FiniteSets

CONSTANTS
    Nicks,      \* nicknames of others
    Blocks,     \* where a user_info_t may be allocated
    Modes       \* the modes one may be in

\* There is memory for all.
ASSUME BlocksAssumption ==
    IsFiniteSet(Nicks) /\ IsFiniteSet(Blocks) /\ Cardinality(Nicks) <= Cardinality(Blocks)

ASSUME ModesAssumption == "normal" \in Modes

DEAD == "dead"

Users(tab) == DOMAIN tab
Names(tab) == {tab[u].name : u \in Users(tab)}

\* user_by_name, for a name that is known
ByName(tab, n) == CHOOSE u \in Users(tab) : tab[u].name = n

Without(tab, u) == [v \in Users(tab) \ {u} |-> tab[v]]

\* g_malloc of a user_info_t: a block that was freed is used again.
FreeBlock(tab) == CHOOSE b \in Blocks : b \notin Users(tab)

Raise(ev, u, name, mode, prev) == <<[ev |-> ev, uid |-> u, name |-> name, mode |-> mode, prev |-> prev]>>

\* add_user, in the memory block u
Added(tab, u, n, m) ==
    [tab |-> [v \in Users(tab) \cup {u} |->
                 IF v = u THEN [name |-> n, mode |-> m, replied |-> TRUE] ELSE tab[v]],
     evs |-> Raise("NEW", u, n, m, m)]

\* set_user_mode
ModeSet(tab, u, m) ==
    [tab |-> [tab EXCEPT ![u].mode = m],
     evs |-> IF tab[u].mode = m THEN <<>>
             ELSE Raise("MODE", u, tab[u].name, m, tab[u].mode)]

\* user_hash_destroy_value: the destructor of the hash table's values.
Destroyed(r, u) ==
    [tab |-> Without(r.tab, u),
     evs |-> r.evs \o Raise("REMOVED", u, r.tab[u].name, DEAD, DEAD)]

\* remove_user_hash_func: the removal is announced here and by the destructor.
Removed(tab, u) ==
    LET dead == ModeSet(tab, u, DEAD)
    IN  Destroyed([dead EXCEPT !.evs = @ \o Raise("REMOVED", u, tab[u].name, DEAD, DEAD)], u)

\* g_hash_table_foreach_remove of Op; no user's turn depends on another's.
ForEachUser(tab, Op(_, _)) ==
    LET Turn(r, u) == LET next == Op(r.tab, u)
                      IN  [tab |-> next.tab, evs |-> r.evs \o next.evs]
    IN  FoldLeft(Turn, [tab |-> tab, evs |-> <<>>], SetToSeq(Users(tab)))

\* remove_all_users
RemovedAll(tab) == ForEachUser(tab, Removed)

\* remove_dead_cb
Unreplied(tab, u, keep) ==
    LET dead == ModeSet(tab, u, DEAD)
    IN  IF tab[u].replied THEN [tab |-> [tab EXCEPT ![u].replied = FALSE], evs |-> <<>>]
        ELSE IF keep THEN dead ELSE Destroyed(dead, u)

\* Mutant: the answers are not forgotten.
RoundEndedNoReset(tab, keep) ==
    ForEachUser(tab, LAMBDA t, u : IF t[u].replied THEN [tab |-> t, evs |-> <<>>]
                                   ELSE Unreplied(t, u, keep))

\* Mutant: the answer of the last period counts for nothing.
RoundEndedUnheard(tab, keep) ==
    ForEachUser(tab, LAMBDA t, u : Unreplied([t EXCEPT ![u].replied = FALSE], u, keep))

\* refresh_timeout_handler, when timeout_left gets to 0
RoundEnded(tab, keep) == ForEachUser(tab, LAMBDA t, u : Unreplied(t, u, keep))

\* mark_all_users_dead
AllMarkedDead(tab, keep) ==
    IF keep THEN ForEachUser(tab, LAMBDA t, u : ModeSet(t, u, DEAD)) ELSE RemovedAll(tab)

\* Mutant: a nickname in use is not noticed.
RenamedAnyway(tab, u, n) ==
    [tab |-> [tab EXCEPT ![u].name = n],
     evs |-> Raise("RENAME", u, n, tab[u].mode, tab[u].mode)]

\* set_user_name: the user is removed if the new name is taken.
Renamed(tab, u, n) ==
    IF tab[u].name = n THEN [tab |-> tab, evs |-> <<>>]
    ELSE IF n \in Names(tab) THEN Removed(tab, u)
    ELSE [tab |-> [tab EXCEPT ![u].name = n],
          evs |-> Raise("RENAME", u, n, tab[u].mode, tab[u].mode)]

\* What EVENT_NET_MSG_REFRESH_ACK does to the list.
Answered(tab, u, m) == ModeSet([tab EXCEPT ![u].replied = TRUE], u, m)

\* The mode of a user who is new with a message of this type (net.c).
ModeOfNew(p) == IF p.type \in {"CHANNEL_JOIN", "MODE_CHANGE", "REFRESH_ACK"} THEN p.mode ELSE "normal"
=============================================================================
