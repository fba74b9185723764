------------------------------ MODULE Sessions ------------------------------
(***************************************************************************)
(* Sessions and their pages (vqcc-gtk/src/sess.c, gui_page.c), as          *)
(* operators on a state                                                    *)
(*                                                                         *)
(*   st.list   sess_list and page_list, which grow and shrink together     *)
(*   st.shown  the session whose page the notebook shows                   *)
(*   st.up     whether the client is connected (net is not NULL)           *)
(*   st.told   the sessions that others have been told are open; a packet  *)
(*             is sent only while connected (net_send)                     *)
(*                                                                         *)
(* A session is named by its type and name, which sess_new keeps apart.    *)
(* It has the user it was opened for, which sess.c never forgets (owner),  *)
(* the user its page belongs to (user) and the text of the page's label    *)
(* (label), and the hilite flags of the session and of the page.           *)
(*                                                                         *)
(* Abstracted: what is written, topics, timestamps and icons.              *)
(***************************************************************************)
EXTENDS Naturals, Sequences, SequencesExt, FiniteSets, UserList

CONSTANTS
    Main,       \* the channel one is in while connected
    NoUser      \* NULL, as a user id

Status == [type |-> "STATUS", name |-> "Status"]
Channel(c) == [type |-> "CHANNEL", name |-> c]
Private(n) == [type |-> "PRIVATE", name |-> n]

Indices(st) == DOMAIN st.list
IsOpen(st, k) == \E i \in Indices(st) : st.list[i].id = k
IndexOf(st, k) == CHOOSE i \in Indices(st) : st.list[i].id = k

Ids(st) == {st.list[i].id : i \in Indices(st)}

\* Those of the sessions ks that there are, in the order of sess_list
InOrder(st, ks) ==
    FoldLeft(LAMBDA some, s : IF s.id \in ks THEN Append(some, s.id) ELSE some, <<>>, st.list)

\* The sessions of a type (sess_enumerate)
Enumerated(st, type) == InOrder(st, {k \in Ids(st) : k.type = type})

\* gui_page_hilite, with the flag of the session
Hilite(st, k, on) ==
    LET i == IndexOf(st, k)
    IN  [st EXCEPT !.list[i].flick = on, !.list[i].hilited = on]

\* Mutant: EVENT_IFACE_PAGE_SWITCH is not handled.
ShownStill(st, k) == [st EXCEPT !.shown = k]

\* notebook_switch_page_cb and, in sess_event_cb, EVENT_IFACE_PAGE_SWITCH
Shown(st, k) ==
    LET now == [st EXCEPT !.shown = k]
    IN  IF now.list[IndexOf(now, k)].hilited THEN Hilite(now, k, FALSE) ELSE now

\* sess_switch_to, gui_page_switch
SwitchTo(st, k) == IF st.shown = k THEN st ELSE Shown(st, k)

\* sess_write: important channels come to the front, others are hilited.
Written(st, k, important) ==
    IF k.type = "CHANNEL" /\ k.name \in important THEN SwitchTo(st, k)
    ELSE IF st.shown # k /\ ~st.list[IndexOf(st, k)].hilited THEN Hilite(st, k, TRUE)
    ELSE st

WrittenToAll(st, ks, important) == FoldLeft(LAMBDA t, k : Written(t, k, important), st, ks)

\* net_handle_session_open_close: CHANNEL_JOIN or _LEAVE, PRIVATE_OPEN or _CLOSE
Announced(st, k, open) ==
    IF k.type = "STATUS" \/ ~st.up THEN st
    ELSE [st EXCEPT !.told = IF open THEN @ \cup {k} ELSE @ \ {k}]

\* gui_page_new: GTK shows the first page at once.
PageMade(st, k, u, closeable) ==
    LET page == [id |-> k, owner |-> u, user |-> u, label |-> k.name,
                 hilited |-> FALSE, flick |-> FALSE, closeable |-> closeable]
        made == [st EXCEPT !.list = Append(@, page)]
    IN  IF st.list = <<>> THEN Shown(made, k) ELSE made

\* What sess_new does unless there is such a session
OpenedAnyway(st, k, u, closeable, important) ==
    LET made == PageMade(st, k, u, closeable)
        noted == IF k.type = "STATUS" THEN made ELSE Written(made, k, important)
    IN  Announced(noted, k, TRUE)

\* sess_new
Opened(st, k, u, closeable, important) ==
    IF IsOpen(st, k) THEN st ELSE OpenedAnyway(st, k, u, closeable, important)

\* The page gtk_notebook_remove_page turns to: the one before, if there is one.
NextShown(st, k) ==
    LET i == IndexOf(st, k)
    IN  st.list[IF i > 1 THEN i - 1 ELSE i + 1].id

\* sess_delete, gui_page_delete
Closed(st, k) ==
    LET told == Announced(st, k, FALSE)
        left == IF st.shown = k /\ Len(st.list) > 1 THEN Shown(told, NextShown(st, k)) ELSE told
    IN  [left EXCEPT !.list = RemoveAt(@, IndexOf(st, k))]

\* delete_all_sessions_of_type
ClosedAll(st, type) == FoldLeft(Closed, st, Enumerated(st, type))

\* EVENT_IFACE_PAGE_CLOSE
ClosedByUser(st, k) == IF st.list[IndexOf(st, k)].closeable THEN Closed(st, k) ELSE st

-----------------------------------------------------------------------------
(***************************************************************************)
(* What the events of the user list do, first in gui_page.c.               *)
(***************************************************************************)

PagesOf(st, u) == {i \in Indices(st) : st.list[i].user = u}
First(is) == CHOOSE i \in is : \A j \in is : i <= j

\* page_update_for_user: the label of the first page of the user
Relabelled(st, u, name) ==
    IF PagesOf(st, u) = {} THEN st
    ELSE [st EXCEPT !.list[First(PagesOf(st, u))].label = name]

\* page_set_user_for_dead_name: the first page without a user and with this label
Revived(st, u, name) ==
    LET dead == {i \in PagesOf(st, NoUser) : st.list[i].label = name}
    IN  IF dead = {} THEN st
        ELSE Relabelled([st EXCEPT !.list[First(dead)].user = u], u, name)

\* Mutant: the removal of a user is not handled.
DesertedNever(st, u) == st

\* page_user_removed: the first page of the user loses him.
Deserted(st, u) ==
    IF PagesOf(st, u) = {} THEN st
    ELSE [st EXCEPT !.list[First(PagesOf(st, u))].user = NoUser]

\* handle_user_mode_change: told to all channels and in the chats opened for him.
ModeTold(st, u, important) ==
    LET Concerns(s) == s.id.type = "CHANNEL" \/ (s.id.type = "PRIVATE" /\ s.owner = u)
    IN  WrittenToAll(st, InOrder(st, {st.list[i].id : i \in {j \in Indices(st) : Concerns(st.list[j])}}),
                     important)

\* handle_user_rename: the session it looks for already has the new name.
RenameTold(st, important) == WrittenToAll(st, Enumerated(st, "CHANNEL"), important)

OnUserEvent(st, e, important) ==
    CASE e.ev = "NEW"     -> Revived(st, e.uid, e.name)
      [] e.ev = "REMOVED" -> Deserted(st, e.uid)
      [] e.ev = "RENAME"  -> RenameTold(Relabelled(st, e.uid, e.name), important)
      [] e.ev = "MODE"    -> LET seen == Relabelled(st, e.uid, e.name)
                             IN  IF DEAD \in {e.mode, e.prev} THEN seen
                                 ELSE ModeTold(seen, e.uid, important)

Handled(st, evs, important) == FoldLeft(LAMBDA t, e : OnUserEvent(t, e, important), st, evs)
=============================================================================
