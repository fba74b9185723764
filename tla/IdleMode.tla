------------------------------ MODULE IdleMode ------------------------------
(***************************************************************************)
(* The auto-away and auto-offline modes of vqcc-gtk: the check in idle.c,  *)
(* the user mode main.c sets and restores on its events, and the settings  *)
(* of both as prefs.c validates, stores and loads them.                    *)
(*                                                                         *)
(* The program is a single-threaded event loop: an action is one callback, *)
(* with all the validators, notifiers and events it sets off.              *)
(*                                                                         *)
(* Abstracted: the minutes are few (the shape of the settings is what      *)
(* matters), and of all settings only those of idle.c and the user mode    *)
(* are modelled.  The presets save the settings on exit, as here.          *)
(***************************************************************************)
EXTENDS Naturals

CONSTANTS
    MaxMinutes,     \* the longest timeout the validators allow (240)
    PresetAway,     \* preset minutes until auto-away (15)
    PresetOffline,  \* preset minutes until auto-offline (30)
    Modes,          \* the user modes a user may choose
    Unhurried       \* TRUE: who comes back chooses no mode, and neither stores the
                    \* settings nor quits, before the check has noticed

ASSUME IdleModeAssumption ==
    /\ MaxMinutes \in Nat \ {0}
    /\ PresetAway \in 1 .. MaxMinutes /\ PresetOffline \in 1 .. MaxMinutes
    /\ {"normal", "away", "offline"} \subseteq Modes /\ "null" \notin Modes
    /\ Unhurried \in BOOLEAN

VARIABLES
    running,    \* the program runs
    prefs,      \* the settings: enable, away, offline and mode
    file,       \* the settings on disk
    idleMode,   \* idle_mode
    pre,        \* pre_idle_user_mode
    idle,       \* for how many minutes the user has done nothing
    chosen      \* the mode the user has last chosen (not in the code)

vars == <<running, prefs, file, idleMode, pre, idle, chosen>>

Settings == [enable : BOOLEAN, away : 0 .. MaxMinutes, offline : 0 .. MaxMinutes,
             mode : Modes]

-----------------------------------------------------------------------------
(***************************************************************************)
(* prefs_set of the two timeouts: each validator refuses a value out of    *)
(* bounds, and may set the other timeout, which the other one validates.   *)
(***************************************************************************)

Valid(minutes) == minutes \in 1 .. MaxMinutes

\* idle_prefs_auto_away_validator
SetAway(p, minutes) ==
    IF minutes = p.away \/ ~Valid(minutes) THEN p
    ELSE [p EXCEPT !.away = minutes,
                   !.offline = IF @ < minutes THEN minutes ELSE @]

SetOfflineStrict(p, minutes) ==     \* mutant: auto-away is kept a minute ahead
    IF minutes = p.offline \/ ~Valid(minutes) THEN p
    ELSE [p EXCEPT !.offline = minutes,
                   !.away = IF @ >= minutes THEN minutes - 1 ELSE @]

\* idle_prefs_auto_offline_validator
SetOffline(p, minutes) ==
    IF minutes = p.offline \/ ~Valid(minutes) THEN p
    ELSE [p EXCEPT !.offline = minutes,
                   !.away = IF @ < minutes THEN minutes ELSE @]

Unset == [enable |-> FALSE, away |-> 0, offline |-> 0, mode |-> "normal"]

\* EVENT_MAIN_PRESET_PREFS, in main.c and then in idle.c
Preset == [SetOffline(SetAway(Unset, PresetAway), PresetOffline) EXCEPT !.enable = TRUE]

\* prefs_load: the settings are in the file in the order of their names.
Loaded ==
    [SetOffline(SetAway(Preset, file.away), file.offline)
        EXCEPT !.enable = file.enable, !.mode = file.mode]

-----------------------------------------------------------------------------
(***************************************************************************)
(* What main.c does on the events of idle.c.                               *)
(***************************************************************************)

IdleVars == <<prefs, idleMode, pre>>

AutoAway ==
    /\ idleMode' = "away"
    /\ IF pre = "null"
       THEN /\ pre' = prefs.mode
            /\ prefs' = IF prefs.mode = "offline" THEN prefs
                        ELSE [prefs EXCEPT !.mode = "away"]
       ELSE UNCHANGED <<pre, prefs>>

AutoOfflineAnew ==                  \* mutant: the mode is saved again
    /\ idleMode' = "offline"
    /\ pre' = prefs.mode
    /\ prefs' = [prefs EXCEPT !.mode = "offline"]
AutoOffline ==
    /\ idleMode' = "offline"
    /\ pre' = IF pre = "null" THEN prefs.mode ELSE pre
    /\ prefs' = [prefs EXCEPT !.mode = "offline"]

\* EVENT_IDLE_NOT, with p the settings at that moment.
BackTo(p) ==
    /\ idleMode' = "not"
    /\ prefs' = [p EXCEPT !.mode = pre]
    /\ pre' = "null"

\* idle_prefs_idle_enable_changed has stopped or started the timer.
Enabled(p) ==
    IF ~p.enable /\ idleMode # "not" THEN BackTo(p)
    ELSE prefs' = p /\ UNCHANGED <<idleMode, pre>>

-----------------------------------------------------------------------------
\* There is no file at first: the presets hold, as if it held them.
Init ==
    /\ running = FALSE
    /\ prefs = Unset
    /\ file = Preset
    /\ idleMode = "not"
    /\ pre = "null"
    /\ idle = 0
    /\ chosen = "normal"

Start ==
    /\ ~running
    /\ running' = TRUE
    /\ prefs' = Loaded
    /\ idleMode' = "not"
    /\ pre' = "null"
    /\ idle' = 0
    /\ UNCHANGED <<file, chosen>>

\* idle_check_cb.  In each mode, what comes first wins.
FromNot ==
    /\ idleMode = "not"
    /\ \/ idle >= prefs.offline /\ AutoOffline
       \/ idle < prefs.offline /\ idle >= prefs.away /\ AutoAway
       \/ idle < prefs.offline /\ idle < prefs.away /\ UNCHANGED IdleVars

FromAwayStaying ==                  \* mutant: auto-away is the end of it
    /\ idleMode = "away"
    /\ IF idle < prefs.away THEN BackTo(prefs) ELSE UNCHANGED IdleVars
FromAway ==
    /\ idleMode = "away"
    /\ \/ idle < prefs.away /\ BackTo(prefs)
       \/ idle >= prefs.away /\ idle >= prefs.offline /\ AutoOffline
       \/ idle >= prefs.away /\ idle < prefs.offline /\ UNCHANGED IdleVars

FromOfflineStaying == idleMode = "offline" /\ UNCHANGED IdleVars    \* mutant
FromOffline ==
    /\ idleMode = "offline"
    /\ IF idle < prefs.away THEN BackTo(prefs) ELSE UNCHANGED IdleVars

\* The timer runs while the function is enabled (once a second).
Check ==
    /\ running /\ prefs.enable
    /\ prefs.mode # "invisible"
    /\ FromNot \/ FromAway \/ FromOffline
    /\ UNCHANGED <<running, file, idle, chosen>>

\* A minute passes.
Idle ==
    /\ running
    /\ idle < MaxMinutes
    /\ idle' = idle + 1
    /\ UNCHANGED <<running, prefs, file, idleMode, pre, chosen>>

\* The user moves the mouse.
Awake ==
    /\ running
    /\ idle > 0
    /\ idle' = 0
    /\ UNCHANGED <<running, prefs, file, idleMode, pre, chosen>>

Noticed == Unhurried => idleMode = "not"

\* usermode_selected_cb, or the menu of the tray icon.
ChooseMode(mode) ==
    /\ running
    /\ Noticed
    /\ prefs' = [prefs EXCEPT !.mode = mode]
    /\ chosen' = mode
    /\ idle' = 0
    /\ UNCHANGED <<running, file, idleMode, pre>>

\* The configuration dialog sets all its settings, one after the other, ...
Configured(p, enable, away, offline) ==
    [SetOffline(SetAway(p, away), offline) EXCEPT !.enable = enable]

\* ... and prefs_store stores them if the user says so.
Configure(enable, away, offline, save) ==
    /\ running
    /\ save => Noticed
    /\ Enabled(Configured(prefs, enable, away, offline))
    /\ file' = IF save THEN prefs' ELSE file
    /\ idle' = 0
    /\ UNCHANGED <<running, chosen>>

\* prefs_store: on exit.
Quit ==
    /\ running
    /\ Noticed
    /\ file' = prefs
    /\ running' = FALSE
    /\ idle' = 0
    /\ UNCHANGED <<prefs, idleMode, pre, chosen>>

\* The program ends without EVENT_MAIN_CLOSE: nothing is stored.
Killed ==
    /\ running
    /\ running' = FALSE
    /\ chosen' = file.mode
    /\ idle' = 0
    /\ UNCHANGED <<prefs, file, idleMode, pre>>

Next ==
    \/ Start
    \/ Check
    \/ Idle
    \/ Awake
    \/ \E mode \in Modes : ChooseMode(mode)
    \/ \E enable, save \in BOOLEAN, away, offline \in 1 .. MaxMinutes :
          Configure(enable, away, offline, save)
    \/ Quit
    \/ Killed

\* The timer goes off again and again.
Spec == Init /\ [][Next]_vars /\ WF_vars(Check)

-----------------------------------------------------------------------------
(***************************************************************************)
(* Correctness.                                                            *)
(***************************************************************************)

\* The shape of the state; the timeouts of a running program are in bounds, and
\* its mode is never the one that stands for none in pre_idle_user_mode.
TypeOK ==
    /\ running \in BOOLEAN
    /\ prefs \in Settings
    /\ file \in Settings
    /\ running => Valid(prefs.away) /\ Valid(prefs.offline)
    /\ idleMode \in {"not", "away", "offline"}
    /\ pre \in Modes \cup {"null"}
    /\ idle \in 0 .. MaxMinutes
    /\ chosen \in Modes

\* The two halves of the state, idle_mode in idle.c and pre_idle_user_mode in
\* main.c, agree, and the mode the user chose is never lost in an auto-away or
\* auto-offline, whatever order the modes, the changes of the settings and the
\* ends of the program come in: it is the mode when the user is back.
ChoiceKept ==
    running => /\ (pre = "null") <=> (idleMode = "not")
               /\ chosen = IF idleMode = "not" THEN prefs.mode ELSE pre

\* A user who is back is taken back to the chosen mode, without doing anything
\* about it (unless the mode is one the check never touches).
BackIsNoticed ==
    (running /\ idle = 0 /\ idleMode # "not")
        ~> (~running \/ idle > 0 \/ idleMode = "not")

\* A user idle long enough is set offline, also when the settings were such that
\* auto-away came first, or came later than auto-offline.
OfflineInTheEnd ==
    (running /\ prefs.enable /\ prefs.mode # "invisible" /\ idle >= prefs.offline)
        ~> (~running \/ idle = 0 \/ prefs.mode = "offline")
=============================================================================
