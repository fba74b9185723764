-------------------------------- MODULE Desk --------------------------------
(***************************************************************************)
(* What the chat client vqcc-gtk shows of the users: the windows of        *)
(* messages (gui_msg.c), the list of users with its info tip (gui_ulist.c) *)
(* and the dialog of ignored users (gui_ignore.c), with prefs.c's list of  *)
(* their names.  All three keep copies of what the list of users           *)
(* (UserList) holds, and its addresses, and follow it by its events.       *)
(*                                                                         *)
(* Each action is one event of the main loop with all it raises.  A menu   *)
(* may have been up for any time, so that its items come for any name.     *)
(* A setting that is only read is left open at each use, and so is who has *)
(* answered since the last round.  Names are compared as utf8_strcasecmp   *)
(* does, which puts them in an order.                                      *)
(***************************************************************************)
EXTENDS UserList

CONSTANTS
    MyNicks,      \* one's own nicknames
    Null,         \* no user; on the list of users, oneself
    Ignorable,    \* nicknames one may ignore
    MaxWindows,   \* PREFS_GUI_MSG_MAX_WINDOWS
    MaxOwn        \* bound: windows one has open when opening another

\* Nicknames are numbers in alphabetical order.
ASSUME NamesAssumption == Nicks \cup MyNicks \subseteq Nat

ASSUME NullAssumption == Null \notin Blocks

VARIABLES
    users,    \* user_hash
    up,       \* net_connected
    me,       \* PREFS_MAIN_NICKNAME and PREFS_MAIN_MODE
    windows,  \* msg_list
    rows,     \* ulist_model
    tip,      \* info_tip_...
    ignored,  \* PREFS_NET_IGNORED_USERS
    dialog,   \* the_dlg: whether it is open, the icons of its rows by nickname
    over      \* whether the program has ended

vars == <<users, up, me, windows, rows, tip, ignored, dialog, over>>

\* IS_MESSAGEABLE_MODE
Messageable == {"normal"}

-----------------------------------------------------------------------------
(***************************************************************************)
(* Windows of messages                                                     *)
(***************************************************************************)

\* message_new and message_make_window
WindowFor(tab, u, my) ==
    [user |-> u, name |-> tab[u].name, my |-> my, send |-> tab[u].mode \in Messageable]

\* Mutant: the address of who is gone stays.
WindowKept(w, e) ==
    IF e.ev \in {"MODE", "REMOVED"} /\ w.user = e.uid
    THEN [w EXCEPT !.send = e.mode \in Messageable]
    ELSE w

\* message_user_mode_change, message_user_new, message_user_rename
WindowAfter(w, e) ==
    CASE e.ev = "MODE" /\ w.user = e.uid    -> [w EXCEPT !.send = e.mode \in Messageable]
      [] e.ev = "REMOVED" /\ w.user = e.uid -> [w EXCEPT !.user = Null, !.send = FALSE]
      [] e.ev = "NEW" /\ w.user = Null /\ w.name = e.name ->
           [w EXCEPT !.user = e.uid, !.send = e.mode \in Messageable]
      [] e.ev = "RENAME" /\ w.user = e.uid  -> [w EXCEPT !.name = e.name]
      [] OTHER -> w

-----------------------------------------------------------------------------
(***************************************************************************)
(* The list of users                                                       *)
(***************************************************************************)

Row(u, n, m) == [user |-> u, name |-> n, icon |-> m]

\* ulist_where_to_insert, ulist_add
RowAdded(rs, r) ==
    LET greater == {i \in DOMAIN rs : rs[i].name > r.name}
        at == IF greater = {} THEN Len(rs) + 1 ELSE CHOOSE i \in greater : \A j \in greater : i <= j
    IN  InsertAt(rs, at, r)

\* ulist_iter_by_user, ulist_remove
RowRemoved(rs, u) ==
    LET at == SelectInSeq(rs, LAMBDA r : r.user = u)
    IN  IF at = 0 THEN rs ELSE RemoveAt(rs, at)

\* ulist_update_icon_for
IconUpdated(rs, u, m) ==
    [i \in DOMAIN rs |-> IF rs[i].user = u THEN [rs[i] EXCEPT !.icon = m] ELSE rs[i]]

\* Mutant: the row of who renames stays, and another comes.
RowsTwice(rs, e) ==
    CASE e.ev \in {"NEW", "RENAME"} -> RowAdded(rs, Row(e.uid, e.name, e.mode))
      [] e.ev = "REMOVED" -> RowRemoved(rs, e.uid)
      [] e.ev = "MODE"    -> IconUpdated(rs, e.uid, e.mode)

\* ulist_event_cb
RowsAfter(rs, e) ==
    CASE e.ev = "NEW"     -> RowAdded(rs, Row(e.uid, e.name, e.mode))
      [] e.ev = "REMOVED" -> RowRemoved(rs, e.uid)
      [] e.ev = "MODE"    -> IconUpdated(rs, e.uid, e.mode)
      [] e.ev = "RENAME"  -> RowAdded(RowRemoved(rs, e.uid), Row(e.uid, e.name, e.mode))

\* update_ignore_list_icon_for: the row of the name the user has now.
IconsAfter(d, e) ==
    IF d.open /\ e.name \in DOMAIN d.icons THEN [d EXCEPT !.icons[e.name] = e.mode] ELSE d

\* ignore_list_insert
IconOf(tab, n) == IF n \in Names(tab) THEN tab[ByName(tab, n)].mode ELSE DEAD

\* update_ignore_list
Filled(tab, names) == [n \in names |-> IconOf(tab, n)]

-----------------------------------------------------------------------------
(***************************************************************************)
(* The info tip                                                            *)
(***************************************************************************)

\* The texts prepared and shown are given by whom they are about, {} for none.
\* info_tip_destroy; whom the last tip was about does not matter.
NoTip == [user |-> Null, rect |-> FALSE, waiting |-> FALSE, content |-> {},
          shown |-> {}, timer |-> FALSE]

\* ulist_motion_notify_cb, when the pointer gets on the row of u
TipStarted(u) ==
    [user |-> u, rect |-> TRUE, waiting |-> u # Null,
     content |-> IF u = Null THEN {u} ELSE {}, shown |-> {}, timer |-> TRUE]

\* Mutant: anybody's answer will do.
TipAnsweredByAny(t, u) ==
    IF t.waiting THEN [t EXCEPT !.content = {u}, !.waiting = FALSE] ELSE t

\* info_tip_net_info_reply
TipAnswered(t, u) ==
    IF t.waiting /\ u = t.user THEN [t EXCEPT !.content = {u}, !.waiting = FALSE] ELSE t

\* info_tip_show_timeout_cb: without an answer, the user of the tip is asked for.
TipTimedOut(t) ==
    [t EXCEPT !.shown = IF t.content = {} THEN {t.user} ELSE t.content,
              !.content = {}, !.timer = FALSE]

-----------------------------------------------------------------------------
\* The list of users is now r.tab, and its events are handled in order.
Follow(r) ==
    /\ users' = r.tab
    /\ windows' = [i \in DOMAIN windows |-> FoldLeft(WindowAfter, windows[i], r.evs)]
    /\ rows' = FoldLeft(RowsAfter, rows, r.evs)
    /\ dialog' = FoldLeft(IconsAfter, dialog, r.evs)

Init ==
    /\ users = <<>> /\ up = FALSE /\ me \in [name : MyNicks, mode : Modes]
    /\ windows = <<>> /\ rows = <<>>
    /\ tip = [NoTip EXCEPT !.rect = TRUE]
    /\ ignored = {} /\ dialog = [open |-> FALSE, icons |-> <<>>] /\ over = FALSE

\* Someone is heard of, and in what mode.
Hear(n, m) ==
    /\ ~over /\ up
    /\ Follow(IF n \in Names(users) THEN Answered(users, ByName(users, n), m)
              ELSE Added(users, FreeBlock(users), n, m))
    /\ UNCHANGED <<up, me, tip, ignored, over>>

Rename(u, n) ==
    /\ ~over /\ up
    /\ Follow(Renamed(users, u, n))
    /\ UNCHANGED <<up, me, tip, ignored, over>>

\* He leaves, or is removed from the list by its menu.
Leave(u) ==
    /\ ~over
    /\ Follow(Removed(users, u))
    /\ UNCHANGED <<up, me, tip, ignored, over>>

\* user_menu_remove_all_unreplied_cb
RemoveUnreplied ==
    /\ ~over
    /\ Follow(ForEachUser(users, LAMBDA t, u : IF t[u].mode = DEAD THEN Removed(t, u)
                                               ELSE [tab |-> t, evs |-> <<>>]))
    /\ UNCHANGED <<up, me, tip, ignored, over>>

\* Who is to answer in a round is open until its end.
AllReplied(tab) == [u \in Users(tab) |-> [tab[u] EXCEPT !.replied = TRUE]]

\* The round is over for mute, who have not answered.
Round(mute, keep) ==
    LET asked == [u \in Users(users) |-> [users[u] EXCEPT !.replied = u \notin mute]]
        ended == RoundEnded(asked, keep)
    IN  /\ ~over /\ up
        /\ Follow([ended EXCEPT !.tab = AllReplied(@)])
        /\ UNCHANGED <<up, me, tip, ignored, over>>

RefreshList(keep) ==
    /\ ~over
    /\ Follow(AllMarkedDead(users, keep))
    /\ UNCHANGED <<up, me, tip, ignored, over>>

\* EVENT_NET_CONNECTED
Connect ==
    /\ ~over /\ ~up
    /\ up' = TRUE
    /\ rows' = RowAdded(rows, Row(Null, me.name, me.mode))
    /\ UNCHANGED <<users, windows, dialog, me, tip, ignored, over>>

\* EVENT_NET_DISCONNECTED
Disconnect ==
    LET none == RemovedAll(users)
    IN  /\ ~over /\ up
        /\ up' = FALSE
        /\ users' = none.tab
        /\ windows' = [i \in DOMAIN windows |-> FoldLeft(WindowAfter, windows[i], none.evs)]
        /\ rows' = RowRemoved(FoldLeft(RowsAfter, rows, none.evs), Null)
        /\ dialog' = FoldLeft(IconsAfter, dialog, none.evs)
        /\ UNCHANGED <<me, tip, ignored, over>>

-----------------------------------------------------------------------------
\* ulist_prefs_main_mode_changed_cb
ChangeMode(m) ==
    /\ ~over /\ m # me.mode
    /\ me' = [me EXCEPT !.mode = m]
    /\ rows' = IconUpdated(rows, Null, m)
    /\ UNCHANGED <<users, up, windows, tip, ignored, dialog, over>>

\* ulist_prefs_main_nickname_changed_cb
ChangeNick(n) ==
    /\ ~over /\ n # me.name
    /\ me' = [me EXCEPT !.name = n]
    /\ rows' = IF up THEN RowAdded(RowRemoved(rows, Null), Row(Null, n, me.mode)) ELSE rows
    /\ UNCHANGED <<users, up, windows, tip, ignored, dialog, over>>

-----------------------------------------------------------------------------
\* net_message_from and message_net_msg: what comes in a mode without messages
\* is dropped by the first, whatever the settings tell the second; what gets
\* no window is written to a page.
Message(u) ==
    /\ ~over /\ up
    /\ me.mode \in Messageable
    /\ Len(windows) < MaxWindows
    /\ windows' = <<WindowFor(users, u, FALSE)>> \o windows
    /\ UNCHANGED <<users, up, me, rows, tip, ignored, dialog, over>>

\* ulist_row_activated_cb and user_menu_send_cb: EVENT_IFACE_USER_MESSAGE_REQ
WriteTo(n) ==
    /\ ~over /\ n \in Names(users)
    /\ Len(windows) < MaxOwn
    /\ windows' = <<WindowFor(users, ByName(users, n), TRUE)>> \o windows
    /\ UNCHANGED <<users, up, me, rows, tip, ignored, dialog, over>>

\* message_turn_into_my
Reply(i) ==
    /\ ~over /\ ~windows[i].my
    /\ windows' = [windows EXCEPT ![i].my = TRUE]
    /\ UNCHANGED <<users, up, me, rows, tip, ignored, dialog, over>>

\* message_send, which a key reaches when the button is not to be pressed, or
\* message_delete
CloseWindow(i) ==
    /\ ~over
    /\ windows' = RemoveAt(windows, i)
    /\ UNCHANGED <<users, up, me, rows, tip, ignored, dialog, over>>

-----------------------------------------------------------------------------
PointAt(i) ==
    /\ ~over /\ ~tip.rect
    /\ tip' = TipStarted(rows[i].user)
    /\ UNCHANGED <<users, up, me, windows, rows, ignored, dialog, over>>

PointAway ==
    /\ ~over
    /\ tip' = NoTip
    /\ UNCHANGED <<users, up, me, windows, rows, ignored, dialog, over>>

TipTimeout ==
    /\ ~over /\ tip.timer
    /\ tip' = TipTimedOut(tip)
    /\ UNCHANGED <<users, up, me, windows, rows, ignored, dialog, over>>

InfoReply(u) ==
    /\ ~over /\ up
    /\ tip' = TipAnswered(tip, u)
    /\ UNCHANGED <<users, up, me, windows, rows, ignored, dialog, over>>

-----------------------------------------------------------------------------
\* prefs_list_add_unique, prefs_list_remove, prefs_list_clear; then
\* ignore_prefs_ignore_list_changed_cb
SetIgnored(names) ==
    /\ ~over
    /\ ignored' = names
    /\ dialog' = IF dialog.open THEN [dialog EXCEPT !.icons = Filled(users, names)] ELSE dialog
    /\ UNCHANGED <<users, up, me, windows, rows, tip, over>>

Ignore(n) == SetIgnored(ignored \cup {n})
Unignore(n) == SetIgnored(ignored \ {n})
UnignoreAll == SetIgnored({})

\* show_ignore_dialog
ShowDialog ==
    /\ ~over /\ ~dialog.open
    /\ dialog' = [open |-> TRUE, icons |-> Filled(users, ignored)]
    /\ UNCHANGED <<users, up, me, windows, rows, tip, ignored, over>>

\* destroy_ignore_dialog
CloseDialog ==
    /\ ~over
    /\ dialog' = [open |-> FALSE, icons |-> <<>>]
    /\ UNCHANGED <<users, up, me, windows, rows, tip, ignored, over>>

\* EVENT_MAIN_PRECLOSE and EVENT_MAIN_CLOSE: message_cleanup, destroy_ignore_dialog
Quit ==
    /\ ~over /\ ~up
    /\ over' = TRUE
    /\ windows' = <<>> /\ dialog' = [open |-> FALSE, icons |-> <<>>]
    /\ UNCHANGED <<users, up, me, rows, tip, ignored>>

Next ==
    \/ \E n \in Nicks, m \in Modes : Hear(n, m)
    \/ \E u \in Users(users) :
         \/ \E n \in Nicks : Rename(u, n)
         \/ Leave(u) \/ Message(u) \/ InfoReply(u)
    \/ RemoveUnreplied
    \/ \E keep \in BOOLEAN :
         RefreshList(keep) \/ \E mute \in SUBSET Users(users) : Round(mute, keep)
    \/ Connect \/ Disconnect
    \/ \E m \in Modes : ChangeMode(m)
    \/ \E n \in MyNicks : ChangeNick(n)
    \/ \E n \in Nicks : WriteTo(n)
    \/ \E i \in DOMAIN windows : Reply(i) \/ CloseWindow(i)
    \/ \E i \in DOMAIN rows : PointAt(i)
    \/ PointAway \/ TipTimeout
    \/ \E n \in Ignorable : Ignore(n) \/ Unignore(n)
    \/ UnignoreAll \/ ShowDialog \/ CloseDialog
    \/ Quit

Spec == Init /\ [][Next]_vars

-----------------------------------------------------------------------------
\* A window knows its correspondent by the address of a user on the list and
\* by his present name, and its Send button can be pressed exactly if he takes
\* messages; or he is gone, and neither the address nor the button is left.
WindowsReach ==
    \A i \in DOMAIN windows :
        LET w == windows[i]
        IN  IF w.user = Null THEN ~w.send
            ELSE /\ w.user \in Users(users)
                 /\ users[w.user].name = w.name
                 /\ w.send = (users[w.user].mode \in Messageable)

\* The list shows each user there is once, and oneself while connected, by
\* present name and mode and in alphabetical order; and the dialog shows
\* every ignored user who is on the list in the mode he is in.
ListsAgree ==
    /\ {rows[i] : i \in DOMAIN rows} =
         {Row(u, users[u].name, users[u].mode) : u \in Users(users)}
             \cup {Row(Null, me.name, me.mode) : x \in IF up THEN {1} ELSE {}}
    /\ Len(rows) = Cardinality(Users(users)) + (IF up THEN 1 ELSE 0)
    /\ \A i, j \in DOMAIN rows : i < j => rows[i].name <= rows[j].name
    /\ dialog.open => /\ DOMAIN dialog.icons = ignored
                      /\ \A u \in Users(users) : users[u].name \in ignored =>
                            dialog.icons[users[u].name] = users[u].mode

\* The tip tells of whom the pointer is on, however late an answer comes or the
\* timer goes off; it is never made twice (info_tip_show asserts it), and
\* nothing of it is left when the pointer is away.
TipTellsOfPointed ==
    /\ tip.content \cup tip.shown \subseteq {tip.user}
    /\ tip.timer => tip.shown = {}
    /\ ~tip.rect => tip = NoTip
=============================================================================
