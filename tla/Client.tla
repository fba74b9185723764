------------------------------- MODULE Client -------------------------------
(***************************************************************************)
(* The chat client vqcc-gtk on its network: net.c, user.c, sess.c,         *)
(* gui_page.c, and of main.c and cmd_proc.c what they call these for.      *)
(*                                                                         *)
(* The program has one thread; each action is one event of the main loop   *)
(* with all the callbacks it raises, in the order in which main registers  *)
(* the modules: the pages learn of an event before the sessions, and both  *)
(* before the list of users.                                               *)
(*                                                                         *)
(* The others on the network are known by what they send.  A person who    *)
(* has vanished sends nothing more (silent).  The client's own packets     *)
(* come back to it and are dropped, unless it has renamed since; it takes  *)
(* itself then for a person who sends a little more and vanishes.          *)
(*                                                                         *)
(* The client is neither invisible nor told to keep joins to itself, and   *)
(* ignores nobody: to the list of users, who is ignored has vanished.      *)
(***************************************************************************)
EXTENDS Sessions

CONSTANTS
    Frail,       \* those of the others who may vanish
    Chans,       \* channels one may join
    Persistent,  \* PREFS_MAIN_PERSISTENT_CHANNELS, a sequence
    Preferences, \* the settings to start with: keep, important
    Patient      \* whether nobody chats privately on a page opened under another name,
                 \* and channels are joined only while connected

ASSUME NoUserAssumption == NoUser \notin Blocks

ASSUME PersistentAssumption == Persistent \in Seq({Persistent[i] : i \in DOMAIN Persistent})

VARIABLES
    users,      \* user_hash
    st,         \* sessions, pages and the connection (Sessions)
    keep,       \* PREFS_USER_KEEP_UNREPLIED
    important,  \* PREFS_SESS_IMPORTANT_CHANNELS
    over,       \* whether the program has ended
    silent,     \* of those who may vanish: 0, or 1 + the rounds since, up to 3
    heard       \* those who have been new or have answered since the last round

vars == <<users, st, keep, important, over, silent, heard>>

Gone == {n \in Frail : silent[n] > 0}

\* What an event works on
Now == [users |-> users, st |-> st]

\* The list of users is now r.tab, and the events r.evs are raised for it.
Raised(c, r) == [users |-> r.tab, st |-> Handled(c.st, r.evs, important)]

WithSt(c, s) == [c EXCEPT !.st = s]

\* The event is over.
Become(c, h) ==
    /\ users' = c.users
    /\ st' = c.st
    /\ heard' = h \cap Names(c.users)
    /\ UNCHANGED <<keep, important>>

-----------------------------------------------------------------------------
(***************************************************************************)
(* Connecting and disconnecting (net.c)                                    *)
(***************************************************************************)

\* main.c: connected_to_network
MainOpened(s, imp) ==
    LET open(t, k) == Opened(t, k, NoUser, TRUE, imp)
        main == Opened(s, Channel(Main), NoUser, FALSE, imp)
    IN  SwitchTo(FoldLeft(open, main, [i \in DOMAIN Persistent |-> Channel(Persistent[i])]),
                 Channel(Main))

\* net_connect, which may fail; it is logged on the status page.
Connected(s, ok, imp) ==
    LET logged == Written([s EXCEPT !.up = ok], Status, imp)
    IN  IF ok THEN MainOpened(logged, imp) ELSE logged

\* Mutant: EVENT_NET_PREDISCONNECT is raised after qcs_close.
DisconnectedFirst(c) ==
    IF ~c.st.up THEN c
    ELSE Raised(WithSt(c, ClosedAll(ClosedAll([c.st EXCEPT !.up = FALSE], "CHANNEL"), "PRIVATE")),
                RemovedAll(c.users))

\* net_disconnect: sessions are closed before the socket, users removed after.
Disconnected(c) ==
    IF ~c.st.up THEN c
    ELSE LET alone == ClosedAll(ClosedAll(c.st, "CHANNEL"), "PRIVATE")
         IN  Raised(WithSt(c, [alone EXCEPT !.up = FALSE]), RemovedAll(c.users))

\* EVENT_MAIN_START, on a network that is not configured, or that one gets to or not
Init ==
    LET none == [list |-> <<>>, shown |-> Status, up |-> FALSE, told |-> {}]
        status(imp) == Written(Opened(none, Status, NoUser, FALSE, imp), Status, imp)
    IN  /\ users = <<>> /\ silent = [n \in Frail |-> 0] /\ heard = {} /\ over = FALSE
        /\ \E p \in Preferences : keep = p.keep /\ important = p.important
        /\ \E configured, ok \in BOOLEAN :
             st = IF configured THEN Connected(status(important), ok, important)
                  ELSE status(important)

\* A network setting is changed, or the network configured.
ChangeSettings(ok) ==
    /\ ~over
    /\ LET c == Disconnected(Now) IN Become(WithSt(c, Connected(c.st, ok, important)), heard)
    /\ UNCHANGED <<over, silent>>

\* The end of the main loop: EVENT_MAIN_PRECLOSE and EVENT_MAIN_CLOSE
Quit ==
    /\ ~over
    /\ LET c == Disconnected(Now)
           all == [i \in DOMAIN c.st.list |-> c.st.list[i].id]
       IN  Become(WithSt(c, FoldLeft(Closed, c.st, all)), heard)
    /\ over' = TRUE
    /\ UNCHANGED silent

-----------------------------------------------------------------------------
(***************************************************************************)
(* What comes from the network (net_handle_netmsg)                         *)
(***************************************************************************)

\* A PRIVATE_OPEN or PRIVATE_ME does what a PRIVATE_TEXT does, a CHANNEL_ME or a
\* topic what a CHANNEL_TEXT; all others only make the sender known, as does
\* a CHANNEL_TEXT on a channel that is not open.
Packets ==
    [type : {"REFRESH_ACK", "MODE_CHANGE"}, src : Nicks, mode : Modes]
        \cup [type : {"CHANNEL_JOIN"}, src : Nicks, mode : Modes, chan : Chans]
        \cup [type : {"CHANNEL_LEAVE", "CHANNEL_TEXT"}, src : Nicks, chan : Chans]
        \cup {p \in [type : {"RENAME"}, src : Nicks, text : Nicks] : p.text # p.src}
        \cup [type : {"PRIVATE_TEXT", "PRIVATE_CLOSE"}, src : Nicks]

\* Those who send these are not on the list for it.
QuietTypes == {"CHANNEL_LEAVE", "RENAME", "REFRESH_REQUEST", "PRIVATE_CLOSE"}

\* EVENT_NET_NEW_USER
Noticed(c, p) ==
    IF p.src \in Names(c.users) \/ p.type \in QuietTypes THEN c
    ELSE Raised(c, Added(c.users, FreeBlock(c.users), p.src, ModeOfNew(p)))

Said(c, k) == IF IsOpen(c.st, k) THEN WithSt(c, Written(c.st, k, important)) ELSE c

\* sess_net_event: the chat is opened, unless it is.
SaidPrivately(c, n) ==
    Said(WithSt(c, Opened(c.st, Private(n), ByName(c.users, n), TRUE, important)), Private(n))

\* The event of each type of message, from someone on the list
Parsed(c, p) ==
    LET u == ByName(c.users, p.src)
    IN  CASE p.type = "REFRESH_ACK"   -> Raised(c, Answered(c.users, u, p.mode))
          [] p.type = "MODE_CHANGE"   -> Raised(c, ModeSet(c.users, u, p.mode))
          [] p.type \in {"CHANNEL_JOIN", "CHANNEL_TEXT"} -> Said(c, Channel(p.chan))
          [] p.type = "CHANNEL_LEAVE" ->
               LET left == Said(c, Channel(p.chan))
               IN  IF p.chan = Main THEN Raised(left, Removed(c.users, u)) ELSE left
          [] p.type = "RENAME"        -> Raised(c, Renamed(c.users, u, p.text))
          [] p.type = "PRIVATE_TEXT" -> SaidPrivately(c, p.src)
          [] p.type = "PRIVATE_CLOSE" -> Said(c, Private(p.src))

Received(c, p) ==
    LET noticed == Noticed(c, p)
    IN  IF p.src \in Names(noticed.users) THEN Parsed(noticed, p) ELSE noticed

\* Nobody's page bears another name than his, as far as private words go.
OnOwnPage(n) == \A i \in Indices(st) : st.list[i].label = n => st.list[i].id.name = n

\* Who of those heard of is still known under which name.
HeardAfter(p) ==
    IF p.type = "RENAME"
    THEN IF p.src \notin heard \/ p.text \in Names(users) THEN heard
         ELSE (heard \ {p.src}) \cup {p.text}
    ELSE IF p.type = "REFRESH_ACK" \/ p.src \notin Names(users) THEN heard \cup {p.src}
    ELSE heard

Recv(p) ==
    /\ ~over /\ st.up
    /\ p.src \notin Gone /\ (p.type = "RENAME" => p.text \notin Gone)
    /\ Patient /\ p.type = "PRIVATE_TEXT" => OnOwnPage(p.src)
    /\ Become(Received(Now, p), HeardAfter(p))
    /\ UNCHANGED <<over, silent>>

\* Someone leaves the network without a word, or his last words are lost.
Vanish(n) ==
    /\ n \notin Gone
    /\ silent' = [silent EXCEPT ![n] = 1]
    /\ UNCHANGED <<users, st, keep, important, over, heard>>

-----------------------------------------------------------------------------
(***************************************************************************)
(* The timer and the user                                                  *)
(***************************************************************************)

\* refresh_timeout_handler: the period is over.
RefreshRound ==
    /\ ~over /\ st.up
    /\ Become(Raised(Now, RoundEnded(users, keep)), {})
    /\ silent' = [n \in Frail |-> IF silent[n] \in {1, 2} THEN silent[n] + 1 ELSE silent[n]]
    /\ UNCHANGED over

\* EVENT_IFACE_USER_LIST_REFRESH_REQ
RefreshList ==
    /\ ~over
    /\ Become(Raised(Now, AllMarkedDead(users, keep)), heard)
    /\ UNCHANGED <<over, silent>>

\* EVENT_IFACE_USER_REMOVE_REQ
RemoveUser(u) ==
    /\ ~over
    /\ Become(Raised(Now, Removed(users, u)), heard)
    /\ UNCHANGED <<over, silent>>

\* sess_private_open_req
OpenPrivate(u) ==
    LET k == Private(users[u].name)
    IN  /\ ~over
        /\ Patient => OnOwnPage(users[u].name)
        /\ Become(WithSt(Now, SwitchTo(Opened(st, k, u, TRUE, important), k)), heard)
        /\ UNCHANGED <<over, silent>>

\* EVENT_IFACE_JOIN_CHANNEL
JoinChannel(ch) ==
    /\ ~over /\ (Patient => st.up)
    /\ Become(WithSt(Now, SwitchTo(Opened(st, Channel(ch), NoUser, TRUE, important), Channel(ch))), heard)
    /\ UNCHANGED <<over, silent>>

\* EVENT_IFACE_PAGE_CLOSE
ClosePage(k) ==
    /\ ~over
    /\ Become(WithSt(Now, ClosedByUser(st, k)), heard)
    /\ UNCHANGED <<over, silent>>

\* The user turns to another page.
SwitchPage(k) ==
    /\ ~over
    /\ Become(WithSt(Now, Shown(st, k)), heard)
    /\ UNCHANGED <<over, silent>>

Pages == Ids(st)

Next ==
    \/ \E p \in Packets : Recv(p)
    \/ \E n \in Frail : Vanish(n)
    \/ RefreshRound
    \/ \E ok \in BOOLEAN : ChangeSettings(ok)
    \/ RefreshList
    \/ \E u \in Users(users) : RemoveUser(u) \/ OpenPrivate(u)
    \/ \E ch \in Chans : JoinChannel(ch)
    \/ \E k \in Pages : ClosePage(k) \/ SwitchPage(k)
    \/ Quit

Spec == Init /\ [][Next]_vars

-----------------------------------------------------------------------------
\* No two users have one nickname, whatever order of renames, losses and
\* returns the network delivers: add_user asserts it.
NamesUnique == \A u, v \in Users(users) : users[u].name = users[v].name => u = v

\* A tab flickers exactly while its session has unread words, and never the
\* one that is shown: the two flags of sess.c and gui_page.c stay in step.
HilitesTrue ==
    \A i \in Indices(st) :
        /\ st.list[i].flick = st.list[i].hilited
        /\ st.list[i].hilited => st.list[i].id # st.shown

\* A page's user is on the list, or the page has none; and its label is his
\* name.  After a removal, a timeout or a collision of names no page keeps
\* the address of the user_info_t that was freed.
PagesFollowUsers ==
    \A i \in Indices(st) :
        \/ st.list[i].user = NoUser
        \/ /\ st.list[i].user \in Users(users)
           /\ users[st.list[i].user].name = st.list[i].label

\* Others believe the client to be only where it is: whatever way a channel or
\* a chat is closed, they have been told so while the socket was open.
ToldIsOpen == st.told \subseteq Pages

\* A round neither removes nor marks dead who was new or has answered since
\* the last one, under whatever name.
HeardAreKept ==
    [][heard # {} /\ heard' = {} /\ RefreshRound =>
         \A n \in heard : /\ n \in Names(users')
                         /\ users'[ByName(users', n)].mode = users[ByName(users, n)].mode]_vars

\* Who has vanished is removed or shown dead two rounds later at the latest,
\* whatever has come from others and whatever the user has done.
VanishedForgotten ==
    \A n \in Frail : silent[n] = 3 =>
        \A u \in Users(users) : users[u].name = n => users[u].mode = DEAD

=============================================================================
