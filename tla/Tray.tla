-------------------------------- MODULE Tray --------------------------------
(***************************************************************************)
(* The main window of vqcc-gtk (gui.c) and its icon on the system tray     *)
(* (gui_tray.c over gui_tray_x11.c).  The window may be hidden when the    *)
(* icon is there to bring it back, and the icon blinks for what nobody     *)
(* has seen.                                                               *)
(*                                                                         *)
(* Each action is one event of the main loop with all it raises; the tray  *)
(* itself, which takes an icon in and may vanish at any time with the      *)
(* icons on it, is external.  A widget that the tray has destroyed is made *)
(* again when the program is idle.                                         *)
(*                                                                         *)
(* An icon that does not exist any more may be drawn; the program then     *)
(* goes on or ends.  Whether a text triggers the blinking is left open,    *)
(* and the tooltip and the user's mode, which the icon also shows, are     *)
(* left out.                                                               *)
(*                                                                         *)
(* TrayInit, TrayNext and TraySpec are named so that one module can extend *)
(* this one and another of the client's modules.                           *)
(***************************************************************************)
EXTENDS Naturals

VARIABLES
    visible,   \* GTK_WIDGET_VISIBLE of the main window
    active,    \* has_focus
    widget,    \* tray_widget: "none", "made" or "embedded"
    remake,    \* whether x11_create_tray_widget waits for idleness
    image,     \* of the widget: "empty", "plain" or "faded"
    wired,     \* whether the notifier_... pointers are set
    enabled,   \* PREFS_GUI_TRAY_ENABLE
    created,   \* tray_created
    known,     \* tray_embedded
    blink,     \* tray_blink_timeout and tray_blink_state: "no", "plain", "faded"
    hidden,    \* already_got_embedded
    over,      \* whether the program has ended
    missed     \* whether the icon has vanished while it blinked

trayVars == <<visible, active, widget, remake, image, wired, enabled, created, known,
              blink, hidden, over, missed>>

window == <<visible, active, hidden>>
icon == <<widget, remake, image, wired>>
tray == <<enabled, created, known, blink, missed>>

\* EVENT_MAIN_START: gui.c shows the window before gui_tray.c makes the icon.
TrayInit ==
    /\ visible = TRUE /\ active = FALSE /\ hidden = FALSE
    /\ enabled \in BOOLEAN
    /\ widget = (IF enabled THEN "made" ELSE "none")
    /\ image = (IF enabled THEN "plain" ELSE "empty")
    /\ created = enabled /\ wired = TRUE
    /\ remake = FALSE /\ known = FALSE /\ blink = "no"
    /\ over = FALSE /\ missed = FALSE

-----------------------------------------------------------------------------
(***************************************************************************)
(* The icon                                                                *)
(***************************************************************************)

\* update_tray_icon: set_icon on the widget there is, or on what it was
Draw(state) ==
    IF widget # "none" THEN image' = state /\ UNCHANGED over
    ELSE UNCHANGED image /\ over' \in BOOLEAN

\* tray_removed_cb, and EVENT_IFACE_TRAY_REMOVED
Removed == IF wired THEN known' = FALSE /\ visible' = TRUE ELSE UNCHANGED <<known, visible>>

\* The tray takes the icon in: x11_tray_embedded_cb, tray_embedded_cb and
\* EVENT_IFACE_TRAY_EMBEDDED, which hides the window once if the user wishes so.
Embed(wish) ==
    /\ ~over /\ widget = "made"
    /\ widget' = "embedded"
    /\ IF wired THEN /\ known' = TRUE
                     /\ visible' = (visible /\ (wish => hidden))
                     /\ hidden' = (hidden \/ wish)
       ELSE UNCHANGED <<known, visible, hidden>>
    /\ UNCHANGED <<active, remake, image, wired, enabled, created, blink, over, missed>>

\* The tray vanishes: x11_tray_destroyed_cb.
TrayGone ==
    /\ ~over /\ widget = "embedded"
    /\ widget' = "none" /\ image' = "empty"
    /\ remake' = TRUE
    /\ Removed
    /\ missed' = (blink # "no")
    /\ UNCHANGED <<active, hidden, wired, enabled, created, blink, over>>

\* x11_create_tray_widget, when idle.  A widget that was made meanwhile is
\* destroyed as if by the tray, and so the next one will be.
Remake ==
    /\ ~over /\ remake
    /\ remake' = (widget # "none")
    /\ IF widget # "none" THEN Removed ELSE UNCHANGED <<known, visible>>
    /\ widget' = "made" /\ image' = "empty"
    /\ UNCHANGED <<active, hidden, wired, enabled, created, blink, over, missed>>

\* Mutant: the notifiers are cleaned up before one is needed.
CleanedUpFirst == /\ wired' = FALSE
                  /\ UNCHANGED <<known, visible>>

\* x11_tray_destroy: removed_cb is called, then the notifiers are forgotten.
CleanedUp == /\ IF widget # "none" THEN Removed ELSE UNCHANGED <<known, visible>>
             /\ wired' = FALSE

\* tray_prefs_gui_tray_enable_changed_cb: destroy_tray
Disable ==
    /\ ~over /\ enabled
    /\ enabled' = FALSE
    /\ blink' = "no" /\ missed' = FALSE
    /\ IF blink # "no" /\ widget = "none" THEN over' \in BOOLEAN ELSE UNCHANGED over
    /\ CleanedUp
    /\ widget' = "none" /\ image' = "empty"
    /\ UNCHANGED <<active, hidden, remake, created>>

\* tray_prefs_gui_tray_enable_changed_cb: create_tray
Enable ==
    /\ ~over /\ ~enabled
    /\ enabled' = TRUE /\ created' = TRUE
    /\ known' = FALSE /\ blink' = "no"
    /\ IF widget = "none" THEN UNCHANGED <<remake, visible>>
       ELSE remake' = TRUE /\ IF wired THEN visible' = TRUE ELSE UNCHANGED visible
    /\ widget' = "made" /\ image' = "plain"
    /\ UNCHANGED <<active, hidden, wired, over, missed>>

\* tray_blink_cb
Tick ==
    /\ ~over /\ blink # "no"
    /\ Draw(blink)
    /\ blink' = (IF blink = "faded" THEN "plain" ELSE "faded")
    /\ UNCHANGED <<window, widget, remake, wired, enabled, created, known, missed>>

\* tray_prefs_main_mode_changed_cb, in gui_tray.c
ChangeMode ==
    /\ ~over /\ created
    /\ Draw(IF blink = "no" THEN "plain" ELSE blink)
    /\ UNCHANGED <<window, widget, remake, wired, enabled, created, known, blink, missed>>

\* EVENT_SESSION_TEXT: tray_blink_trigger, tray_start_blinking
Text(triggers) ==
    /\ ~over
    /\ IF known /\ ~active /\ triggers /\ blink = "no"
       THEN blink' = "plain" /\ Draw("faded")
       ELSE UNCHANGED <<blink, image, over>>
    /\ UNCHANGED <<window, widget, remake, wired, enabled, created, known, missed>>

-----------------------------------------------------------------------------
(***************************************************************************)
(* The window                                                              *)
(***************************************************************************)

\* tray_stop_blinking
StopBlinking ==
    IF blink = "no" THEN UNCHANGED <<blink, image, over, missed>>
    ELSE blink' = "no" /\ missed' = FALSE /\ Draw("plain")

\* Mutant: the blinking stops when the window is left.
StopsWhenLeft(in) ==
    IF known /\ ~in THEN StopBlinking ELSE UNCHANGED <<blink, image, over, missed>>

\* EVENT_IFACE_ACTIVE_CHANGE
StopsWhenActive(in) ==
    IF known /\ in THEN StopBlinking ELSE UNCHANGED <<blink, image, over, missed>>

\* main_wnd_focus_change_cb
Focus(in) ==
    /\ ~over /\ in # active /\ (in => visible)
    /\ active' = in
    /\ StopsWhenActive(in)
    /\ UNCHANGED <<visible, hidden, widget, remake, wired, enabled, created, known>>

\* main_wnd_delete_event_cb, or Esc, which only hides
CloseWindow(esc) ==
    /\ ~over /\ visible
    /\ esc => known
    /\ IF known THEN visible' = FALSE /\ UNCHANGED over ELSE over' = TRUE /\ UNCHANGED visible
    /\ UNCHANGED <<active, hidden, icon, tray>>

\* tray_clicked_cb and tray_toggle_visible: a window one does not see is presented.
Click(seen) ==
    /\ ~over /\ widget = "embedded" /\ wired
    /\ visible' = (visible => ~seen)
    /\ UNCHANGED <<active, hidden, icon, tray, over>>

\* gui_set_visible(TRUE), for EVENT_SESSION_OPENED or EVENT_IFACE_REQ_PRESENT
Present ==
    /\ ~over
    /\ visible' = TRUE
    /\ UNCHANGED <<active, hidden, icon, tray, over>>

\* EVENT_MAIN_PRECLOSE: the icon is destroyed, if there ever was one.
PreClose ==
    /\ ~over
    /\ over' = TRUE
    /\ CleanedUp
    /\ widget' = "none" /\ image' = "empty"
    /\ UNCHANGED <<active, hidden, remake, enabled, created, blink, missed>>

TrayNext ==
    \/ TrayGone \/ Remake
    \/ Enable \/ Disable
    \/ Tick \/ ChangeMode
    \/ \E b \in BOOLEAN : Embed(b) \/ Text(b) \/ Focus(b) \/ CloseWindow(b) \/ Click(b)
    \/ Present \/ PreClose

TraySpec == TrayInit /\ [][TrayNext]_trayVars

-----------------------------------------------------------------------------
\* The user can always get at the program: while its window is hidden its icon
\* is on the tray, and clicking it is heeded, with the assertion of
\* tray_clicked_cb true, however trays come and go and settings change.
Reachable ==
    ~visible /\ ~over => /\ widget = "embedded" /\ wired
                         /\ created /\ known

\* The icon blinks only for what is unseen: not while the window is active,
\* unless the tray has vanished with the blinking icon and it blinks on when
\* it is back; and it is left faded by nothing but the blinking.
BlinksForUnseen ==
    ~over /\ ~missed => (blink # "no" => ~active \/ ~known) /\ (image = "faded" => blink # "no")
=============================================================================
