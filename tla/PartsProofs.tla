----------------------------- MODULE PartsProofs -----------------------------
(***************************************************************************)
(* Three parts that do not meet: of vqcc-gtk the idle modes, module        *)
(* IdleMode, and the tray icon, module Tray; and the packet library of     *)
(* both programs, module Proto.                                            *)
(*                                                                         *)
(* The mode a user has chosen survives auto-away and auto-offline, for     *)
(* every timeout, preset and set of modes, as long as those who come back  *)
(* wait for the check before they choose, store or quit.                   *)
(*                                                                         *)
(* ChoiceKept says nothing of a program that does not run.  What carries   *)
(* it over a restart is that the settings on disk hold the choice.         *)
(*                                                                         *)
(* Copies of a packet are passed on once, for any number of hosts, nets,   *)
(* packets, copies and restarts and any size of the list of signatures.    *)
(* PassedOnOnce speaks of what was passed on; the code looks at its list.  *)
(* What joins them is that the list holds the signatures of the last       *)
(* Window packets passed on, the newest first (Registered).                *)
(***************************************************************************)
EXTENDS IdleMode, Tray, Proto, SequenceTheorems, TLAPS

\* Between two runs the choice is on disk.
ChoiceStored == ~running => chosen = file.mode

IInv == TypeOK /\ ChoiceKept /\ ChoiceStored

\* The timeouts of p are in bounds.
InBounds(p) == Valid(p.away) /\ Valid(p.offline)

\* Setting a timeout keeps the shape, the bounds and the mode of the settings.
LEMMA SetAwayKeeps ==
    ASSUME NEW p \in Settings, NEW minutes \in 0 .. MaxMinutes
    PROVE  /\ SetAway(p, minutes) \in Settings
           /\ SetAway(p, minutes).mode = p.mode
           /\ SetAway(p, minutes).enable = p.enable
           /\ InBounds(p) => InBounds(SetAway(p, minutes))
<1>1. CASE minutes = p.away \/ ~Valid(minutes)
    BY <1>1 DEF SetAway
<1>2. CASE ~(minutes = p.away \/ ~Valid(minutes))
    <2> DEFINE other == IF p.offline < minutes THEN minutes ELSE p.offline
    <2>1. SetAway(p, minutes) = [p EXCEPT !.away = minutes, !.offline = other]
        BY <1>2 DEF SetAway, Settings
    <2>2. other \in {minutes, p.offline}
        OBVIOUS
    <2> HIDE DEF other
    <2>3. /\ SetAway(p, minutes).away = minutes
          /\ SetAway(p, minutes).offline = other
        BY <2>1 DEF Settings
    <2>4. other \in 0 .. MaxMinutes
        BY <2>2 DEF Settings
    <2>5. /\ SetAway(p, minutes) \in Settings
          /\ SetAway(p, minutes).mode = p.mode
          /\ SetAway(p, minutes).enable = p.enable
        BY <2>1, <2>4 DEF Settings
    <2>6. InBounds(p) => InBounds(SetAway(p, minutes))
        BY <1>2, <2>2, <2>3 DEF InBounds
    <2>7. QED
        BY <2>5, <2>6
<1>3. QED
    BY <1>1, <1>2

\* Setting the auto-offline timeout keeps both timeouts in bounds, and the mode.
LEMMA SetOfflineKeeps ==
    ASSUME NEW p \in Settings, NEW minutes \in 0 .. MaxMinutes
    PROVE  /\ SetOffline(p, minutes) \in Settings
           /\ SetOffline(p, minutes).mode = p.mode
           /\ SetOffline(p, minutes).enable = p.enable
           /\ InBounds(p) => InBounds(SetOffline(p, minutes))
<1>1. CASE minutes = p.offline \/ ~Valid(minutes)
    BY <1>1 DEF SetOffline
<1>2. CASE ~(minutes = p.offline \/ ~Valid(minutes))
    <2> DEFINE other == IF p.away < minutes THEN minutes ELSE p.away
    <2>1. SetOffline(p, minutes) = [p EXCEPT !.offline = minutes, !.away = other]
        BY <1>2 DEF SetOffline, Settings
    <2>2. other \in {minutes, p.away}
        OBVIOUS
    <2> HIDE DEF other
    <2>3. /\ SetOffline(p, minutes).offline = minutes
          /\ SetOffline(p, minutes).away = other
        BY <2>1 DEF Settings
    <2>4. other \in 0 .. MaxMinutes
        BY <2>2 DEF Settings
    <2>5. /\ SetOffline(p, minutes) \in Settings
          /\ SetOffline(p, minutes).mode = p.mode
          /\ SetOffline(p, minutes).enable = p.enable
        BY <2>1, <2>4 DEF Settings
    <2>6. InBounds(p) => InBounds(SetOffline(p, minutes))
        BY <1>2, <2>2, <2>3 DEF InBounds
    <2>7. QED
        BY <2>5, <2>6
<1>3. QED
    BY <1>1, <1>2

\* The presets are in bounds, which the unset timeouts are not.
LEMMA PresetGood ==
    Preset \in Settings /\ InBounds(Preset) /\ Preset.mode = "normal"
<1> USE IdleModeAssumption DEF IdleModeAssumption
<1>1. Unset \in Settings
    BY DEF Unset, Settings
<1> DEFINE p == SetAway(Unset, PresetAway)
           q == SetOffline(p, PresetOffline)
<1>2. p \in Settings /\ p.mode = "normal"
    BY <1>1, SetAwayKeeps DEF Unset
<1>3. InBounds(p)
    <2>1. Unset.away = 0 /\ Unset.offline = 0
        BY DEF Unset
    <2>2. Valid(PresetAway) /\ PresetAway # Unset.away /\ Unset.offline < PresetAway
        BY <2>1 DEF Valid
    <2>3. p = [Unset EXCEPT !.away = PresetAway, !.offline = PresetAway]
        BY <2>2, Zenon DEF SetAway
    <2>4. p.away = PresetAway /\ p.offline = PresetAway
        BY <2>3 DEF Unset
    <2>5. QED
        BY <2>2, <2>4 DEF InBounds
<1>4. q \in Settings /\ q.mode = "normal" /\ InBounds(q)
    BY <1>2, <1>3, SetOfflineKeeps
<1>5. Preset = [q EXCEPT !.enable = TRUE]
    BY DEF Preset
<1>6. QED
    <2> HIDE DEF q
    <2>1. QED
        BY <1>4, <1>5 DEF Settings, InBounds

\* A start takes the mode from the file, and timeouts in bounds whatever it holds.
LEMMA LoadedGood ==
    ASSUME file \in Settings
    PROVE  Loaded \in Settings /\ InBounds(Loaded) /\ Loaded.mode = file.mode
<1> DEFINE p == SetAway(Preset, file.away)
           q == SetOffline(p, file.offline)
<1>1. file.away \in 0 .. MaxMinutes /\ file.offline \in 0 .. MaxMinutes
    BY DEF Settings
<1>2. p \in Settings /\ InBounds(p)
    BY <1>1, PresetGood, SetAwayKeeps
<1>3. q \in Settings /\ InBounds(q)
    BY <1>1, <1>2, SetOfflineKeeps
<1>4. Loaded = [q EXCEPT !.enable = file.enable, !.mode = file.mode]
    BY DEF Loaded
<1>5. QED
    <2> HIDE DEF q
    <2>1. QED
        BY <1>3, <1>4 DEF Settings, InBounds

\* The configuration dialog leaves the mode alone.
LEMMA ConfiguredGood ==
    ASSUME prefs \in Settings, InBounds(prefs), NEW enable \in BOOLEAN,
           NEW away \in 1 .. MaxMinutes, NEW offline \in 1 .. MaxMinutes
    PROVE  /\ Configured(prefs, enable, away, offline) \in Settings
           /\ InBounds(Configured(prefs, enable, away, offline))
           /\ Configured(prefs, enable, away, offline).mode = prefs.mode
<1> DEFINE q == SetOffline(SetAway(prefs, away), offline)
<1>1. away \in 0 .. MaxMinutes /\ offline \in 0 .. MaxMinutes
    BY IdleModeAssumption DEF IdleModeAssumption
<1>2. /\ SetAway(prefs, away) \in Settings
      /\ InBounds(SetAway(prefs, away))
      /\ SetAway(prefs, away).mode = prefs.mode
    BY <1>1, SetAwayKeeps
<1>3. q \in Settings /\ InBounds(q) /\ q.mode = prefs.mode
    BY <1>1, <1>2, SetOfflineKeeps
<1>4. Configured(prefs, enable, away, offline) = [q EXCEPT !.enable = enable]
    BY DEF Configured
<1>5. QED
    <2> HIDE DEF q
    <2>1. QED
        BY <1>3, <1>4 DEF Settings, InBounds

\* The invariant holds at the first start.
LEMMA InitIInv == Init => IInv
<1> SUFFICES ASSUME Init PROVE IInv
    OBVIOUS
<1> USE IdleModeAssumption DEF IdleModeAssumption
<1>1. Unset \in Settings
    BY DEF Unset, Settings
<1>2. TypeOK
    <2>1. "normal" \in Modes /\ 0 \in 0 .. MaxMinutes
        OBVIOUS
    <2>2. QED
        BY <1>1, <2>1, PresetGood DEF Init, TypeOK
<1>3. ChoiceKept /\ ChoiceStored
    BY PresetGood DEF Init, ChoiceKept, ChoiceStored
<1>4. QED
    BY <1>2, <1>3 DEF IInv

\* The check changes the mode and what is remembered of it together.
LEMMA CheckStep ==
    ASSUME IInv, Check
    PROVE  IInv'
<1> USE IdleModeAssumption DEF IdleModeAssumption
<1>1. /\ running /\ running' = running /\ file' = file
      /\ idle' = idle /\ chosen' = chosen
    BY DEF Check
<1>2. /\ prefs \in Settings /\ InBounds(prefs)
      /\ pre \in Modes \cup {"null"} /\ chosen \in Modes
      /\ (pre = "null") <=> (idleMode = "not")
      /\ chosen = IF idleMode = "not" THEN prefs.mode ELSE pre
    BY <1>1 DEF IInv, TypeOK, ChoiceKept, InBounds
<1> DEFINE Good == /\ prefs' \in Settings /\ InBounds(prefs')
                   /\ idleMode' \in {"not", "away", "offline"}
                   /\ pre' \in Modes \cup {"null"}
                   /\ (pre' = "null") <=> (idleMode' = "not")
                   /\ chosen = IF idleMode' = "not" THEN prefs'.mode ELSE pre'
<1>3. CASE UNCHANGED IdleVars
    <2>1. prefs' = prefs /\ idleMode' = idleMode /\ pre' = pre
        BY <1>3 DEF IdleVars
    <2>2. Good
        BY <1>2, <2>1 DEF IInv, TypeOK
    <2>3. QED
        BY <1>1, <2>2 DEF IInv, TypeOK, ChoiceKept, ChoiceStored, InBounds
<1>4. CASE AutoAway
    <2>1. Good
        BY <1>2, <1>4 DEF AutoAway, Settings, InBounds
    <2>2. QED
        BY <1>1, <2>1 DEF IInv, TypeOK, ChoiceKept, ChoiceStored, InBounds
<1>5. CASE AutoOffline
    <2>1. Good
        BY <1>2, <1>5 DEF AutoOffline, Settings, InBounds
    <2>2. QED
        BY <1>1, <2>1 DEF IInv, TypeOK, ChoiceKept, ChoiceStored, InBounds
<1>6. CASE BackTo(prefs) /\ idleMode # "not"
    <2>1. Good
        BY <1>2, <1>6 DEF BackTo, Settings, InBounds
    <2>2. QED
        BY <1>1, <2>1 DEF IInv, TypeOK, ChoiceKept, ChoiceStored, InBounds
<1>7. QED
    BY <1>3, <1>4, <1>5, <1>6 DEF Check, FromNot, FromAway, FromOffline

\* A mode is chosen, and the settings are stored, only in the mode "not".
LEMMA ChooseModeStep ==
    ASSUME IInv, Unhurried, NEW mode \in Modes, ChooseMode(mode)
    PROVE  IInv'
<1>1. /\ running /\ running' = running /\ file' = file
      /\ idleMode = "not" /\ idleMode' = idleMode /\ pre' = pre
      /\ prefs' = [prefs EXCEPT !.mode = mode] /\ chosen' = mode /\ idle' = 0
    BY DEF ChooseMode, Noticed
<1>2. 0 \in 0 .. MaxMinutes
    BY IdleModeAssumption DEF IdleModeAssumption
<1>3. /\ prefs' \in Settings /\ prefs'.mode = mode
      /\ prefs'.away = prefs.away /\ prefs'.offline = prefs.offline
    BY <1>1 DEF IInv, TypeOK, Settings
<1>4. TypeOK'
    BY <1>1, <1>2, <1>3 DEF IInv, TypeOK
<1>5. QED
    BY <1>1, <1>3, <1>4 DEF IInv, ChoiceKept, ChoiceStored

\* Storing the settings of the dialog keeps the choice.
LEMMA ConfigureStep ==
    ASSUME IInv, NEW enable \in BOOLEAN, NEW save \in BOOLEAN,
           NEW away \in 1 .. MaxMinutes, NEW offline \in 1 .. MaxMinutes,
           Configure(enable, away, offline, save)
    PROVE  IInv'
<1> DEFINE p == Configured(prefs, enable, away, offline)
<1>1. /\ running /\ running' = running /\ chosen' = chosen /\ idle' = 0
      /\ file' = (IF save THEN prefs' ELSE file)
      /\ Enabled(p)
    BY DEF Configure
<1>2. prefs \in Settings /\ InBounds(prefs)
    BY <1>1 DEF IInv, TypeOK, InBounds
<1>3. p \in Settings /\ InBounds(p) /\ p.mode = prefs.mode
    BY <1>2, ConfiguredGood
<1>4. 0 \in 0 .. MaxMinutes
    BY IdleModeAssumption DEF IdleModeAssumption
<1> HIDE DEF p
<1>5. CASE BackTo(p) /\ idleMode # "not"
    <2>0. pre \in Modes
        BY <1>1, <1>5 DEF IInv, TypeOK, ChoiceKept
    <2>1. /\ prefs' \in Settings /\ InBounds(prefs') /\ prefs'.mode = pre
          /\ idleMode' = "not" /\ pre' = "null"
        BY <1>3, <1>5, <2>0 DEF BackTo, Settings, InBounds
    <2>2. TypeOK'
        BY <1>1, <1>4, <2>1 DEF IInv, TypeOK, InBounds
    <2>3. QED
        BY <1>1, <1>5, <2>1, <2>2 DEF IInv, ChoiceKept, ChoiceStored
<1>6. CASE prefs' = p /\ UNCHANGED <<idleMode, pre>>
    <2>1. TypeOK'
        BY <1>1, <1>3, <1>4, <1>6 DEF IInv, TypeOK, InBounds
    <2>2. QED
        BY <1>1, <1>3, <1>6, <2>1 DEF IInv, ChoiceKept, ChoiceStored
<1>7. QED
    BY <1>1, <1>5, <1>6 DEF Enabled

\* Starts and ends of the program.
LEMMA StartStep ==
    ASSUME IInv, Start
    PROVE  IInv'
<1>1. /\ ~running /\ running' /\ running' \in BOOLEAN
      /\ prefs' = Loaded /\ idleMode' = "not" /\ pre' = "null"
      /\ idle' = 0 /\ file' = file /\ chosen' = chosen
    BY DEF Start
<1>2. Loaded \in Settings /\ InBounds(Loaded) /\ Loaded.mode = file.mode
    BY LoadedGood DEF IInv, TypeOK
<1>3. 0 \in 0 .. MaxMinutes
    BY IdleModeAssumption DEF IdleModeAssumption
<1>4. TypeOK'
    BY <1>1, <1>2, <1>3 DEF IInv, TypeOK, InBounds
<1>5. QED
    BY <1>1, <1>2, <1>4 DEF IInv, ChoiceKept, ChoiceStored

\* Ending the program stores the choice.
LEMMA QuitStep ==
    ASSUME IInv, Unhurried, Quit
    PROVE  IInv'
<1>1. /\ running /\ running' = FALSE /\ idleMode = "not" /\ file' = prefs
      /\ prefs' = prefs /\ idleMode' = idleMode /\ pre' = pre
      /\ chosen' = chosen /\ idle' = 0
    BY DEF Quit, Noticed
<1>2. 0 \in 0 .. MaxMinutes
    BY IdleModeAssumption DEF IdleModeAssumption
<1>3. TypeOK'
    BY <1>1, <1>2 DEF IInv, TypeOK
<1>4. QED
    BY <1>1, <1>3 DEF IInv, ChoiceKept, ChoiceStored

\* A killed program leaves the file as it was.
LEMMA KilledStep ==
    ASSUME IInv, Killed
    PROVE  IInv'
<1>1. /\ running' = FALSE /\ chosen' = file.mode /\ idle' = 0
      /\ prefs' = prefs /\ file' = file /\ idleMode' = idleMode /\ pre' = pre
      /\ file.mode \in Modes
    BY DEF Killed, IInv, TypeOK, Settings
<1>2. 0 \in 0 .. MaxMinutes
    BY IdleModeAssumption DEF IdleModeAssumption
<1>3. TypeOK'
    BY <1>1, <1>2 DEF IInv, TypeOK
<1>4. QED
    BY <1>1, <1>3 DEF IInv, ChoiceKept, ChoiceStored

\* Every step keeps the invariant.
LEMMA NextIInv ==
    ASSUME Unhurried
    PROVE  IInv /\ [Next]_vars => IInv'
<1> SUFFICES ASSUME IInv, [Next]_vars
             PROVE  IInv'
    OBVIOUS
<1>1. CASE Start
    BY <1>1, StartStep
<1>2. CASE Check
    BY <1>2, CheckStep
<1>3. CASE Idle \/ Awake
    <2>1. /\ idle' \in 0 .. MaxMinutes
          /\ UNCHANGED <<running, prefs, file, idleMode, pre, chosen>>
        BY <1>3, IdleModeAssumption DEF Idle, Awake, IInv, TypeOK, IdleModeAssumption
    <2>2. QED
        BY <2>1 DEF IInv, TypeOK, ChoiceKept, ChoiceStored
<1>4. CASE \E mode \in Modes : ChooseMode(mode)
    BY <1>4, ChooseModeStep
<1>5. CASE \E enable, save \in BOOLEAN, away, offline \in 1 .. MaxMinutes :
              Configure(enable, away, offline, save)
    BY <1>5, ConfigureStep
<1>6. CASE Quit
    BY <1>6, QuitStep
<1>7. CASE Killed
    BY <1>7, KilledStep
<1>8. CASE UNCHANGED vars
    BY <1>8 DEF vars, IInv, TypeOK, ChoiceKept, ChoiceStored
<1>9. QED
    BY <1>1, <1>2, <1>3, <1>4, <1>5, <1>6, <1>7, <1>8 DEF Next

\* If those who come back wait for the check, the program's mode and timeouts
\* are always real ones (prefs_set of idle.c and main.c) ...
THEOREM TypeCorrect ==
    ASSUME Unhurried
    PROVE  Spec => []TypeOK
<1>1. IInv /\ [Next]_vars => IInv'
    BY NextIInv
<1>2. IInv => TypeOK
    BY DEF IInv
<1>3. QED
    BY <1>1, <1>2, InitIInv, PTL DEF Spec

\* ... and the mode they have chosen is what EVENT_IDLE_NOT takes them back to,
\* for every timeout and over every restart.
THEOREM ChoiceIsKept ==
    ASSUME Unhurried
    PROVE  Spec => []ChoiceKept
<1>1. IInv /\ [Next]_vars => IInv'
    BY NextIInv
<1>2. IInv => ChoiceKept
    BY DEF IInv
<1>3. QED
    BY <1>1, <1>2, InitIInv, PTL DEF Spec

-----------------------------------------------------------------------------
(***************************************************************************)
(* The tray icon, module Tray: the window can always be got at, and the    *)
(* icon blinks only for what is unseen, over any number of trays that come *)
(* and go.                                                                 *)
(*                                                                         *)
(* Neither is inductive.  A hidden window stays within reach because       *)
(* tray_embedded is TRUE only for a widget on the tray whose notifiers are *)
(* set, and because clicks are heeded of such a widget only (Held).  The   *)
(* blinking ends on time because it starts only while the icon is known to *)
(* be there, and what takes that knowledge away stops the blinking or is   *)
(* the vanishing of the tray (Blinking); for that, a widget that waits to  *)
(* be made again must be the only one as long as the notifiers are set.    *)
(***************************************************************************)

\* The shape of the state.
TrayShape ==
    /\ visible \in BOOLEAN /\ active \in BOOLEAN /\ hidden \in BOOLEAN
    /\ widget \in {"none", "made", "embedded"}
    /\ image \in {"empty", "plain", "faded"}
    /\ remake \in BOOLEAN /\ wired \in BOOLEAN
    /\ enabled \in BOOLEAN /\ created \in BOOLEAN /\ known \in BOOLEAN
    /\ blink \in {"no", "plain", "faded"}
    /\ over \in BOOLEAN /\ missed \in BOOLEAN

\* The icon is known to be there when it is, as long as anybody is told.
Held ==
    /\ known => widget = "embedded" /\ wired
    /\ widget = "embedded" /\ wired => known
    /\ widget # "none" \/ remake => created
    /\ ~visible => known \/ over

\* It blinks only while it is known, or since it has vanished.
Blinking ==
    /\ ~over /\ blink # "no" => wired /\ (known \/ missed)
    /\ widget = "none" => image = "empty"
    /\ wired /\ ~over => (remake => widget = "none")
    /\ wired /\ ~over => (remake \/ widget # "none" => enabled)

TrayInv == TrayShape /\ Held /\ Blinking /\ BlinksForUnseen

\* What the program does next leaves all of it true.
LEMMA TrayNextKeeps ==
    ASSUME TrayInv, TrayNext
    PROVE  TrayInv'
<1> USE DEF TrayInv, TrayShape, Held, Blinking, BlinksForUnseen, window, icon, tray
<1>1. CASE TrayGone
    BY <1>1 DEF TrayGone, Removed
<1>2. CASE Remake
    BY <1>2 DEF Remake, Removed
<1>3. CASE Enable
    BY <1>3 DEF Enable
<1>4. CASE Disable
    BY <1>4 DEF Disable, CleanedUp, Removed
<1>5. CASE Tick
    BY <1>5 DEF Tick, Draw
<1>6. CASE ChangeMode
    BY <1>6 DEF ChangeMode, Draw
<1>7. ASSUME NEW b \in BOOLEAN, Embed(b)
      PROVE  TrayInv'
    BY <1>7 DEF Embed
<1>8. ASSUME NEW b \in BOOLEAN, Text(b)
      PROVE  TrayInv'
    BY <1>8 DEF Text, Draw
<1>9. ASSUME NEW b \in BOOLEAN, Focus(b)
      PROVE  TrayInv'
    BY <1>9 DEF Focus, StopsWhenActive, StopBlinking, Draw
<1>10. ASSUME NEW b \in BOOLEAN, CloseWindow(b)
       PROVE  TrayInv'
    BY <1>10 DEF CloseWindow
<1>11. ASSUME NEW b \in BOOLEAN, Click(b)
       PROVE  TrayInv'
    BY <1>11 DEF Click
<1>12. CASE Present
    BY <1>12 DEF Present
<1>13. CASE PreClose
    BY <1>13 DEF PreClose, CleanedUp, Removed
<1>14. QED
    BY <1>1, <1>2, <1>3, <1>4, <1>5, <1>6, <1>7, <1>8, <1>9, <1>10, <1>11, <1>12, <1>13
    DEF TrayNext

\* The invariant holds throughout (gui.c, gui_tray.c, gui_tray_x11.c).
LEMMA TrayInvariance == TraySpec => []TrayInv
<1>1. TrayInit => TrayInv
  <2> SUFFICES ASSUME TrayInit PROVE TrayInv
    OBVIOUS
  <2> USE DEF TrayInit, TrayInv, TrayShape, Held, Blinking, BlinksForUnseen
  <2>1. CASE enabled = TRUE
    BY <2>1
  <2>2. CASE enabled = FALSE
    BY <2>2
  <2>3. QED
    BY <2>1, <2>2
<1>2. TrayInv /\ [TrayNext]_trayVars => TrayInv'
  <2>1. CASE TrayNext
    BY <2>1, TrayNextKeeps
  <2>2. CASE UNCHANGED trayVars
    BY <2>2 DEF trayVars, TrayInv, TrayShape, Held, Blinking, BlinksForUnseen
  <2>3. QED
    BY <2>1, <2>2
<1>3. QED
    BY <1>1, <1>2, PTL DEF TraySpec

\* The user can always get at the program (gui.c, main_wnd_delete_event_cb and
\* tray_toggle_visible): the window is hidden only while a click on the icon is
\* heeded.
THEOREM AlwaysReachable == TraySpec => []Reachable
<1>1. TrayInv => Reachable
    BY DEF TrayInv, TrayShape, Held, Reachable
<1>2. QED
    BY <1>1, TrayInvariance, PTL

\* The icon (gui_tray.c, tray_stop_blinking) blinks only for what is unseen.
THEOREM BlinkingEnds == TraySpec => []BlinksForUnseen
<1>1. TrayInv => BlinksForUnseen
    BY DEF TrayInv
<1>2. QED
    BY <1>1, TrayInvariance, PTL

-----------------------------------------------------------------------------
(***************************************************************************)
(* The packet library                                                      *)
(***************************************************************************)

Sigs == {sent[i].sig : i \in DOMAIN sent}

\* The packets sent are numbered, and each host has its own list and log.
Shape ==
    /\ sent \in Seq({sent[i] : i \in DOMAIN sent})
    /\ DOMAIN dups = Hosts /\ DOMAIN heard = Hosts
    /\ \A h \in Hosts : heard[h] \in Seq(DOMAIN sent)

\* dup_head..dup_tail are the signatures of the last packets passed on.
RegisteredBy(h) ==
    /\ dups[h] \in Seq(Sigs)
    /\ Len(dups[h]) = IF Len(heard[h]) <= Window THEN Len(heard[h]) ELSE Window
    /\ \A k \in 1 .. Len(dups[h]) :
          dups[h][k] = sent[heard[h][Len(heard[h]) + 1 - k]].sig

Registered == proto = "vypress" => \A h \in Hosts : RegisteredBy(h)

ProtoInv == Shape /\ Registered /\ PassedOnOnce

-----------------------------------------------------------------------------
\* qcs__insert_dup_entry puts the new signature first and drops the oldest of a
\* full list.
LEMMA InsertedList ==
    ASSUME NEW S, NEW list \in Seq(S), NEW sig \in S, Len(list) <= Window
    PROVE  /\ Inserted(list, sig) \in Seq(S)
           /\ Len(Inserted(list, sig)) = IF Len(list) = Window THEN Window ELSE Len(list) + 1
           /\ Inserted(list, sig)[1] = sig
           /\ \A k \in 2 .. Len(Inserted(list, sig)) : Inserted(list, sig)[k] = list[k - 1]
<1> DEFINE n == IF Len(list) = Window THEN Window - 1 ELSE Len(list)
           rest == SubSeq(list, 1, n)
<1>1. n \in Nat /\ n <= Len(list)
    BY WindowAssumption, LenProperties
<1>2. /\ rest \in Seq(S) /\ Len(rest) = n
      /\ \A k \in 1 .. n : rest[k] = list[k]
  <2>1. \A k \in 1 .. n : list[k] \in S
    BY <1>1, ElementOfSeq
  <2> HIDE DEF n
  <2>2. QED
    BY <1>1, <2>1, SubSeqProperties
<1>3. Inserted(list, sig) = <<sig>> \o rest
    BY DEF Inserted
<1>4. <<sig>> \in Seq(S) /\ Len(<<sig>>) = 1 /\ <<sig>>[1] = sig
    OBVIOUS
<1> HIDE DEF rest
<1>5. /\ <<sig>> \o rest \in Seq(S)
      /\ Len(<<sig>> \o rest) = 1 + n
      /\ \A k \in 1 .. 1 + n : (<<sig>> \o rest)[k] = IF k <= 1 THEN <<sig>>[k] ELSE rest[k - 1]
    BY <1>1, <1>2, <1>4, ConcatProperties
<1>6. QED
    BY <1>1, <1>2, <1>3, <1>4, <1>5

\* qcs__cleanup_dup: where nothing is kept, nothing has been heard since.
LEMMA EmptyIsRegistered ==
    ASSUME NEW h \in Hosts, dups'[h] = <<>>, heard'[h] = <<>>
    PROVE  RegisteredBy(h)'
<1>1. <<>> \in Seq(Sigs') /\ Len(<<>>) = 0
    BY EmptySeq
<1>2. \A k \in 1 .. 0 : FALSE
    OBVIOUS
<1>3. Len(<<>>) = IF Len(<<>>) <= Window THEN Len(<<>>) ELSE Window
    BY <1>1, WindowAssumption
<1>4. QED
    BY <1>1, <1>2, <1>3 DEF RegisteredBy

\* The log of one host may be another sequence of the packets sent.
LEMMA ShapeKeeps ==
    ASSUME Shape, NEW h \in Hosts, NEW log \in Seq(DOMAIN sent), sent' = sent,
           DOMAIN dups' = Hosts, heard' = [heard EXCEPT ![h] = log]
    PROVE  Shape'
<1>1. DOMAIN heard' = Hosts /\ \A g \in Hosts : heard'[g] \in Seq(DOMAIN sent')
    BY DEF Shape
<1>2. sent' \in Seq({sent'[i] : i \in DOMAIN sent'})
    BY DEF Shape
<1>3. QED
    BY <1>1, <1>2 DEF Shape

\* What one host receives or forgets leaves the lists of the others alone.
LEMMA OthersStayRegistered ==
    ASSUME NEW h \in Hosts, RegisteredBy(h),
           sent' = sent, dups'[h] = dups[h], heard'[h] = heard[h]
    PROVE  RegisteredBy(h)'
<1>1. Sigs' = Sigs
    BY DEF Sigs
<1>2. QED
    BY <1>1 DEF RegisteredBy

\* A packet whose signature is not registered is none of the last ones.
LEMMA ReceiveKeeps ==
    ASSUME ProtoInv, NEW h \in Hosts, NEW i \in DOMAIN sent, Receive(h, i)
    PROVE  ProtoInv'
<1> DEFINE forgotten == Flushes(Parsed(proto, sent[i].packet))
<1>1. /\ sent' = sent /\ proto' = proto /\ Sigs' = Sigs
      /\ ~Known(h, sent[i].sig)
      /\ dups' = [dups EXCEPT ![h] = IF forgotten THEN <<>>
                                     ELSE IF proto = "vypress" THEN Inserted(@, sent[i].sig)
                                     ELSE @]
      /\ heard' = [heard EXCEPT ![h] = IF forgotten THEN <<>> ELSE Append(@, i)]
    BY DEF Receive, Sigs
<1> HIDE DEF forgotten
<1>2. Shape'
  <2>1. heard[h] \in Seq(DOMAIN sent)
    BY DEF ProtoInv, Shape
  <2>2. <<>> \in Seq(DOMAIN sent) /\ Append(heard[h], i) \in Seq(DOMAIN sent)
    BY <2>1, EmptySeq, AppendProperties
  <2>3. DOMAIN dups' = Hosts
    BY <1>1 DEF ProtoInv, Shape
  <2>4. QED
    BY <1>1, <2>2, <2>3, ShapeKeeps DEF ProtoInv
<1>3. CASE forgotten
  <2>1. dups'[h] = <<>> /\ heard'[h] = <<>>
    BY <1>1, <1>3 DEF ProtoInv, Shape
  <2>2. \A g \in Hosts \ {h} : dups'[g] = dups[g] /\ heard'[g] = heard[g]
    BY <1>1 DEF ProtoInv, Shape
  <2>3. Registered'
    <3>1. RegisteredBy(h)'
      BY <2>1, EmptyIsRegistered
    <3>2. QED
      BY <1>1, <2>2, <3>1, OthersStayRegistered DEF ProtoInv, Registered
  <2>4. PassedOnOnce'
    BY <1>1, <2>1, <2>2 DEF ProtoInv, Shape, PassedOnOnce
  <2>5. QED
    BY <1>2, <2>3, <2>4 DEF ProtoInv
<1>4. CASE ~forgotten /\ proto = "vypress"
  <2> DEFINE new == Inserted(dups[h], sent[i].sig)
             n == Len(heard[h])
  <2>1. /\ dups'[h] = new /\ heard'[h] = Append(heard[h], i)
        /\ \A g \in Hosts \ {h} : dups'[g] = dups[g] /\ heard'[g] = heard[g]
    BY <1>1, <1>4 DEF ProtoInv, Shape
  <2>2. /\ n \in Nat /\ Len(heard'[h]) = n + 1
        /\ heard'[h][n + 1] = i /\ \A k \in 1 .. n : heard'[h][k] = heard[h][k]
    BY <2>1 DEF ProtoInv, Shape
  <2>3. /\ dups[h] \in Seq(Sigs) /\ Len(dups[h]) = IF n <= Window THEN n ELSE Window
        /\ \A k \in 1 .. Len(dups[h]) : dups[h][k] = sent[heard[h][n + 1 - k]].sig
    BY <1>4 DEF ProtoInv, Registered, RegisteredBy
  <2>4. sent[i].sig \in Sigs /\ Len(dups[h]) <= Window
    BY <2>2, <2>3, WindowAssumption DEF Sigs
  <2>5. /\ new \in Seq(Sigs)
        /\ Len(new) = IF Len(dups[h]) = Window THEN Window ELSE Len(dups[h]) + 1
        /\ new[1] = sent[i].sig
        /\ \A k \in 2 .. Len(new) : new[k] = dups[h][k - 1]
    <3> DEFINE list == dups[h]
               sig == sent[i].sig
               sigs == Sigs
    <3>1. list \in Seq(sigs) /\ sig \in sigs /\ Len(list) <= Window
      BY <2>3, <2>4
    <3> HIDE DEF list, sig, sigs
    <3>2. /\ Inserted(list, sig) \in Seq(sigs)
          /\ Len(Inserted(list, sig)) = IF Len(list) = Window THEN Window ELSE Len(list) + 1
          /\ Inserted(list, sig)[1] = sig
          /\ \A k \in 2 .. Len(Inserted(list, sig)) : Inserted(list, sig)[k] = list[k - 1]
      BY <3>1, InsertedList
    <3>3. QED
      BY <3>2 DEF list, sig, sigs
  <2> HIDE DEF new, n
  <2>6. Registered'
    <3>1. /\ dups'[h] \in Seq(Sigs')
          /\ Len(dups'[h]) = IF Len(heard'[h]) <= Window THEN Len(heard'[h]) ELSE Window
      BY <1>1, <2>1, <2>2, <2>3, <2>5, WindowAssumption
    <3>2. ASSUME NEW k \in 1 .. Len(new)
          PROVE  new[k] = sent[heard'[h][n + 1 + 1 - k]].sig
      <4>1. CASE k = 1
        BY <2>2, <2>5, <4>1
      <4>2. CASE k # 1
        <5>1. /\ k - 1 \in 1 .. Len(dups[h]) /\ k \in 2 .. Len(new)
              /\ n + 1 + 1 - k \in 1 .. n /\ n + 1 - (k - 1) = n + 1 + 1 - k
          BY <2>2, <2>3, <2>5, <4>2, WindowAssumption
        <5>2. new[k] = dups[h][k - 1] /\ dups[h][k - 1] = sent[heard[h][n + 1 - (k - 1)]].sig
          BY <2>3, <2>5, <5>1
        <5>3. QED
          BY <2>2, <5>1, <5>2
      <4>3. QED
        BY <4>1, <4>2
    <3>3. RegisteredBy(h)'
      BY <1>1, <2>1, <2>2, <3>1, <3>2 DEF RegisteredBy
    <3>4. QED
      BY <1>1, <2>1, <3>3, OthersStayRegistered DEF ProtoInv, Registered
  <2>7. ASSUME NEW k \in 1 .. n, n + 1 - k <= Window
        PROVE  heard[h][k] # i
    <3>1. n + 1 - k \in 1 .. Len(dups[h])
      <4>1. n \in Nat /\ k \in Nat /\ 1 <= k /\ k <= n /\ n + 1 - k <= Window
        BY <2>2, <2>7
      <4>2. Len(dups[h]) = IF n <= Window THEN n ELSE Window
        BY <2>3
      <4>3. QED
        BY <4>1, <4>2, WindowAssumption
    <3>2. dups[h][n + 1 - k] = sent[heard[h][k]].sig
      <4>1. n + 1 - (n + 1 - k) = k
        BY <2>2
      <4>2. QED
        BY <2>3, <3>1, <4>1
    <3>3. DOMAIN dups[h] = 1 .. Len(dups[h])
      BY <2>3, LenProperties
    <3>4. dups[h][n + 1 - k] # sent[i].sig
      BY <1>1, <1>4, <3>1, <3>3 DEF Known, Range
    <3>5. QED
      BY <3>2, <3>4
  <2>8. PassedOnOnce'
    <3>1. DOMAIN heard[h] = 1 .. n /\ DOMAIN heard'[h] = 1 .. n + 1
      BY <2>1, <2>2 DEF ProtoInv, Shape, n
    <3>2. ASSUME NEW j \in DOMAIN heard'[h], NEW k \in DOMAIN heard'[h],
                 j < k, heard'[h][j] = heard'[h][k]
          PROVE  k - j > Window
      <4>1. CASE k = n + 1
        BY <2>2, <2>7, <3>1, <3>2, <4>1, WindowAssumption
      <4>2. CASE k # n + 1
        BY <1>4, <2>2, <3>1, <3>2, <4>2 DEF ProtoInv, PassedOnOnce
      <4>3. QED
        BY <4>1, <4>2
    <3>3. QED
      BY <1>1, <2>1, <3>2 DEF ProtoInv, PassedOnOnce
  <2>9. QED
    BY <1>2, <2>6, <2>8 DEF ProtoInv
<1>5. CASE proto # "vypress"
    BY <1>1, <1>2, <1>5 DEF ProtoInv, Registered, PassedOnOnce
<1>6. QED
    BY <1>3, <1>4, <1>5

\* What is sent later changes nothing of what was passed on before.
LEMMA SendKeeps ==
    ASSUME ProtoInv, NEW h \in Hosts, NEW n \in Nets, NEW m \in Messages, Send(h, n, m)
    PROVE  ProtoInv'
<1> DEFINE p == [net |-> n, sig |-> Signature(h), lib |-> Lib[h], msg |-> m,
                 packet |-> Made(Lib[h], proto, m)]
<1>1. /\ sent' = Append(sent, p)
      /\ proto' = proto /\ dups' = dups /\ heard' = heard
    BY DEF Send
<1> HIDE DEF p
<1>2. /\ DOMAIN sent = 1 .. Len(sent) /\ Len(sent) \in Nat
      /\ DOMAIN sent' = 1 .. Len(sent) + 1
      /\ \A i \in DOMAIN sent : sent'[i] = sent[i]
    BY <1>1 DEF ProtoInv, Shape
<1>3. DOMAIN sent \subseteq DOMAIN sent' /\ Sigs \subseteq Sigs'
    BY <1>2 DEF Sigs
<1>4. Shape'
  <2>1. sent' \in Seq({sent'[i] : i \in DOMAIN sent'})
    <3> DEFINE S == {sent[i] : i \in DOMAIN sent} \cup {p}
    <3>1. sent \in Seq(S)
      BY SeqMonotonic DEF ProtoInv, Shape
    <3>2. sent' \in Seq(S) /\ sent'[Len(sent) + 1] = p
      BY <1>1, <3>1, AppendProperties
    <3>3. S \subseteq {sent'[i] : i \in DOMAIN sent'}
      BY <1>2, <3>2
    <3>4. QED
      BY <3>2, <3>3, SeqMonotonic
  <2>2. \A g \in Hosts : heard'[g] \in Seq(DOMAIN sent')
    BY <1>1, <1>3, SeqMonotonic DEF ProtoInv, Shape
  <2>3. QED
    BY <1>1, <2>1, <2>2 DEF ProtoInv, Shape
<1>5. Registered'
  <2> SUFFICES ASSUME proto = "vypress", NEW g \in Hosts
               PROVE  /\ dups[g] \in Seq(Sigs')
                      /\ Len(dups[g]) = IF Len(heard[g]) <= Window THEN Len(heard[g]) ELSE Window
                      /\ \A k \in 1 .. Len(dups[g]) :
                            dups[g][k] = sent'[heard[g][Len(heard[g]) + 1 - k]].sig
    BY <1>1 DEF Registered, RegisteredBy
  <2>1. /\ dups[g] \in Seq(Sigs)
        /\ Len(dups[g]) = IF Len(heard[g]) <= Window THEN Len(heard[g]) ELSE Window
        /\ \A k \in 1 .. Len(dups[g]) :
              dups[g][k] = sent[heard[g][Len(heard[g]) + 1 - k]].sig
    BY DEF ProtoInv, Registered, RegisteredBy
  <2>2. dups[g] \in Seq(Sigs')
    BY <1>3, <2>1, SeqMonotonic
  <2>3. heard[g] \in Seq(DOMAIN sent) /\ Len(heard[g]) \in Nat
    BY LenProperties DEF ProtoInv, Shape
  <2>4. ASSUME NEW k \in 1 .. Len(dups[g])
        PROVE  heard[g][Len(heard[g]) + 1 - k] \in DOMAIN sent
    <3>1. Len(heard[g]) + 1 - k \in 1 .. Len(heard[g])
      BY <2>1, <2>3, WindowAssumption
    <3>2. QED
      BY <2>3, <3>1, ElementOfSeq
  <2>5. QED
    BY <1>2, <2>1, <2>2, <2>4
<1>6. PassedOnOnce'
    BY <1>1 DEF ProtoInv, PassedOnOnce
<1>7. QED
    BY <1>4, <1>5, <1>6 DEF ProtoInv

\* A link that is closed last, or a process that ends, forgets both list and log.
LEMMA ForgettingKeeps ==
    ASSUME ProtoInv, NEW h \in Hosts,
           sent' = sent, proto' = proto,
           dups' = [dups EXCEPT ![h] = <<>>], heard' = [heard EXCEPT ![h] = <<>>]
    PROVE  ProtoInv'
<1>1. /\ dups'[h] = <<>> /\ heard'[h] = <<>> /\ Sigs' = Sigs
      /\ \A g \in Hosts \ {h} : dups'[g] = dups[g] /\ heard'[g] = heard[g]
    BY DEF ProtoInv, Shape, Sigs
<1>2. Shape'
  <2>1. DOMAIN dups' = Hosts /\ <<>> \in Seq(DOMAIN sent)
    BY EmptySeq DEF ProtoInv, Shape
  <2>2. QED
    BY <2>1, ShapeKeeps DEF ProtoInv
<1>3. Registered'
  <2>1. RegisteredBy(h)'
    BY <1>1, EmptyIsRegistered
  <2>2. QED
    BY <1>1, <2>1, OthersStayRegistered DEF ProtoInv, Registered
<1>4. PassedOnOnce'
    BY <1>1 DEF ProtoInv, PassedOnOnce
<1>5. QED
    BY <1>2, <1>3, <1>4 DEF ProtoInv

\* A step that neither sends nor passes on a packet leaves all of it true.
LEMMA StutterKeeps ==
    ASSUME ProtoInv, UNCHANGED <<proto, sent, dups, heard>>
    PROVE  ProtoInv'
<1>1. Shape'
    BY DEF ProtoInv, Shape
<1>2. Registered'
    BY OthersStayRegistered DEF ProtoInv, Registered
<1>3. PassedOnOnce'
    BY DEF ProtoInv, PassedOnOnce
<1>4. QED
    BY <1>1, <1>2, <1>3 DEF ProtoInv

-----------------------------------------------------------------------------
\* Copies of one packet are passed on once (p_vypress.c, qcs__known_dup_entry),
\* unless Window others came in between or the signatures were forgotten.
THEOREM CopiesPassedOnOnce == ProtoSpec => []PassedOnOnce
<1>1. ProtoInit => ProtoInv
  <2> SUFFICES ASSUME ProtoInit PROVE ProtoInv
    OBVIOUS
  <2>1. Shape
    BY EmptySeq DEF ProtoInit, Shape
  <2>2. Registered
    <3>1. \A h \in Hosts : dups[h] = <<>> /\ heard[h] = <<>> /\ Len(<<>>) = 0
      BY EmptySeq DEF ProtoInit
    <3>2. <<>> \in Seq(Sigs) /\ \A k \in 1 .. 0 : FALSE
      BY EmptySeq
    <3>3. 0 = IF 0 <= Window THEN 0 ELSE Window
      BY WindowAssumption
    <3>4. QED
      BY <3>1, <3>2, <3>3 DEF Registered, RegisteredBy
  <2>3. PassedOnOnce
    BY DEF ProtoInit, PassedOnOnce
  <2>4. QED
    BY <2>1, <2>2, <2>3 DEF ProtoInv
<1>2. ProtoInv /\ [ProtoNext]_protoVars => ProtoInv'
  <2> SUFFICES ASSUME ProtoInv, [ProtoNext]_protoVars PROVE ProtoInv'
    OBVIOUS
  <2>1. ASSUME NEW h \in Hosts, NEW n \in Nets, Open(h, n)
        PROVE  ProtoInv'
    BY <2>1, StutterKeeps DEF Open
  <2>2. ASSUME NEW h \in Hosts, NEW n \in Nets, Close(h, n)
        PROVE  ProtoInv'
    <3>1. CASE links[h] = {n}
      BY <2>2, <3>1, ForgettingKeeps DEF Close
    <3>2. CASE links[h] # {n}
      BY <2>2, <3>2, StutterKeeps DEF Close
    <3>3. QED
      BY <3>1, <3>2
  <2>3. ASSUME NEW h \in Hosts, NEW n \in Nets, NEW m \in Messages, Send(h, n, m)
        PROVE  ProtoInv'
    BY <2>3, SendKeeps
  <2>4. ASSUME NEW h \in Hosts, NEW i \in DOMAIN sent, Swallow(h, i)
        PROVE  ProtoInv'
    BY <2>4, StutterKeeps DEF Swallow
  <2>5. ASSUME NEW h \in Hosts, NEW i \in DOMAIN sent, Receive(h, i)
        PROVE  ProtoInv'
    BY <2>5, ReceiveKeeps
  <2>6. ASSUME NEW h \in Hosts, Restart(h)
        PROVE  ProtoInv'
    BY <2>6, ForgettingKeeps DEF Restart
  <2>7. CASE UNCHANGED protoVars
    BY <2>7, StutterKeeps DEF protoVars
  <2>8. QED
    BY <2>1, <2>2, <2>3, <2>4, <2>5, <2>6, <2>7 DEF ProtoNext
<1>3. ProtoInv => PassedOnOnce
    BY DEF ProtoInv
<1>4. QED
    BY <1>1, <1>2, <1>3, PTL DEF ProtoSpec
==============================================================================
