------------------------------- MODULE Network -------------------------------
(***************************************************************************)
(* The network settings of vqcc-gtk and the three parties that act on      *)
(* them: the link to the network (net.c), the configuration dialog         *)
(* (gui_config.c) and the detection of networks (gui_netselect_dlg.c),     *)
(* over the settings store (prefs.c) and the sockets (libqcproto/link.c).  *)
(*                                                                         *)
(* Each action is one callback of the main loop, with all it calls.  The   *)
(* links of the client and of the detection are sockets bound to a port,   *)
(* which one socket may be (no SO_REUSEADDR but on Windows); other         *)
(* programs take and leave ports as they like.  Opening a link fails for   *)
(* no other reason.                                                        *)
(***************************************************************************)
EXTENDS Integers, Sequences, SequencesExt, FiniteSets

CONSTANTS
    Ports,      \* the ports in play, an interval
    Step,       \* DETECT_PORT_STEP
    Begin, End, \* the range scanned unless another is chosen
    Ranges,     \* the other ranges that are
    Usual,      \* the ports users enter
    MaxEdits,   \* how many fields of the configuration differ from the settings
    Masks,      \* addresses for broadcast
    Groups,     \* addresses for multicast
    Bad,        \* a text that is no address
    Rivals,     \* the ports other programs use at times
    Servers,    \* networks there are, as rows of the dialog's list
    None,       \* NULL
    Patient     \* whether settings are left alone during detection

\* dlg_init_detect_links counts ports in 16 bits: a range up to the last port has no end.
ASSUME RangeAssumption == \A p \in Ports : p < 65535

ASSUME StepAssumption == Step \in Nat \ {0} /\ Begin <= End

\* Ports are numbers, and those between two of them are ports.
ASSUME PortsAssumption ==
    /\ Ports \subseteq Nat /\ Usual \subseteq Ports /\ {Begin, End} \subseteq Ports
    /\ Ranges \subseteq Ports \X Ports
    /\ \A p, q \in Ports : p .. q \subseteq Ports

VARIABLES
    set,    \* the settings (prefs_hash)
    net,    \* the link
    why,    \* why the last attempt at a link failed
    others, \* the ports of other programs
    cfg,    \* the configuration dialog
    sel,    \* the network selection dialog
    links,  \* detect_links: the ports they are bound to
    seen,   \* what the detection has tried
    over    \* whether the program has ended

vars == <<set, net, why, others, cfg, sel, links, seen, over>>

NetTypes == {"QCHAT", "VYPRESS"}

Setting == [type : NetTypes, port : Ports, mcast : BOOLEAN, mask : Masks, group : Groups,
            configured : BOOLEAN]

Link == [type : NetTypes, port : Ports, mcast : BOOLEAN, addr : Masks \cup Groups]

ConfigDialog == [fields : [type : NetTypes, port : Ports, mcast : BOOLEAN,
                           mask : Masks \cup {Bad}, group : Groups \cup {Bad}],
                 changed : BOOLEAN, save : BOOLEAN]

NetworkRow == [type : NetTypes, port : Ports, mcast : BOOLEAN]

Detection == [begin : Ports, end : Ports, first : Nat, type : NetTypes, mcast : BOOLEAN, step : Nat]

SelectDialog == [type : NetTypes, port : Ports, mcast : BOOLEAN, first : NetworkRow \cup {None},
                 mask : Masks, group : Groups, scan : Detection \cup {None}]

\* NULL is no structure.
ASSUME NoneAssumption == None \notin Link \cup ConfigDialog \cup NetworkRow \cup Detection \cup SelectDialog

TypeOK ==
    /\ set \in Setting
    /\ net \in Link \cup {None}
    /\ why \in {"none", "taken", "detection"}
    /\ cfg \in ConfigDialog \cup {None}
    /\ sel \in SelectDialog \cup {None}
    /\ sel # None /\ sel.scan # None => sel.scan.begin <= sel.scan.first
    /\ links \subseteq Ports
    /\ over \in BOOLEAN

\* The settings of a connection in the order in which the configuration dialog stores them
Keys == <<"type", "port", "mcast", "mask", "group">>

\* What a callback works on; `gathering' is a flag of the configuration dialog.
Now == [set |-> set, net |-> net, why |-> why, cfg |-> cfg, gathering |-> FALSE]

Become(c) ==
    /\ set' = c.set /\ net' = c.net
    /\ why' = c.why /\ cfg' = c.cfg

-----------------------------------------------------------------------------
(***************************************************************************)
(* The link (net.c)                                                        *)
(***************************************************************************)

\* What net_connect asks qcs_open for.
LinkFor(s) ==
    LET mcast == s.type = "VYPRESS" /\ s.mcast
    IN  [type |-> s.type, port |-> s.port, mcast |-> mcast,
         addr |-> IF mcast THEN s.group ELSE s.mask]

\* net_connect, with qcs_open
Connected(c) ==
    IF c.set.port \in others THEN [c EXCEPT !.why = "taken"]
    ELSE IF c.set.port \in links THEN [c EXCEPT !.why = "detection"]
    ELSE [c EXCEPT !.net = LinkFor(c.set), !.why = "none"]

Disconnected(c) == [c EXCEPT !.net = None]

\* Mutant: the address of multicasts is thought to matter only to QuickChat.
ReconnectsSwapped(s, key) ==
    CASE key \in {"type", "port"} -> TRUE
      [] key = "mcast" -> s.type = "VYPRESS"
      [] key = "group" -> s.type # "VYPRESS" /\ s.mcast
      [] key = "mask"  -> s.type # "VYPRESS" \/ ~s.mcast
      [] OTHER -> FALSE

\* The conditions of net_prefs_net_settings_changed_cb
Reconnects(s, key) ==
    CASE key \in {"type", "port"} -> TRUE
      [] key = "mcast" -> s.type = "VYPRESS"
      [] key = "group" -> s.type = "VYPRESS" /\ s.mcast
      [] key = "mask"  -> s.type # "VYPRESS" \/ ~s.mcast
      [] OTHER -> FALSE

\* The notifiers of net.c
Notified(c, key) ==
    IF Reconnects(c.set, key) THEN Connected(Disconnected(c))
    ELSE IF key = "configured" /\ c.set.configured /\ c.net = None THEN Connected(c)
    ELSE c

-----------------------------------------------------------------------------
(***************************************************************************)
(* Settings and the configuration dialog                                   *)
(***************************************************************************)

Shown(s) == [k \in {Keys[i] : i \in DOMAIN Keys} |-> s[k]]

\* Mutant: the dialog stays as it is.
SyncedLater(c) == c

\* sync_dlg_from_config; a widget that changes turns the Save button on.
Synced(c) ==
    IF c.cfg = None THEN c
    ELSE [c EXCEPT !.cfg = [fields |-> Shown(c.set), changed |-> FALSE,
                            save |-> @.save \/ @.fields # Shown(c.set)]]

\* EVENT_PREFS_CHANGED
Told(c) == IF c.gathering THEN c ELSE Synced(c)

\* prefs_set
Set(c, key, v) ==
    IF c.set[key] = v THEN c
    ELSE Told(Notified([c EXCEPT !.set[key] = v], key))

\* READ_IPV4_ENTRY: a text that is no address leaves the setting alone.
Read(c, key, v) == IF v = Bad THEN c ELSE Set(c, key, v)

\* Settings stored one by one
SetAll(c, keys, values) == FoldLeft(LAMBDA d, k : Read(d, k, values[k]), c, keys)

\* prefs_store: whether the file could be written or not, Save is turned off.
Stored(c) == [c EXCEPT !.cfg.save = FALSE]

\* Mutant: the dialog follows the settings while it is being read.
GatheredScattered(c) ==
    [FoldLeft(LAMBDA d, k : Read(d, k, d.cfg.fields[k]), c, Keys) EXCEPT !.cfg.changed = FALSE]

Corrected(fields, s) == [k \in DOMAIN fields |-> IF fields[k] = Bad THEN s[k] ELSE fields[k]]

\* set_config_from_dlg: the setting is shown in the place of a text that is no address.
Gathered(c) ==
    LET read == SetAll([c EXCEPT !.gathering = TRUE], Keys, c.cfg.fields)
    IN  [read EXCEPT !.gathering = FALSE, !.cfg.changed = FALSE,
                     !.cfg.fields = Corrected(@, read.set)]

\* Settings are not applied while the detection runs (if Patient).
Calm == Patient /\ sel # None => sel.scan = None

\* EVENT_IFACE_SHOW_CONFIGURE_DLG; filling in the new dialog turns Save on.
OpenConfig ==
    /\ ~over
    /\ Become(Synced(IF cfg # None THEN Now
                     ELSE [Now EXCEPT !.cfg = [fields |-> Shown(set), changed |-> FALSE, save |-> TRUE]]))
    /\ UNCHANGED <<others, sel, links, seen, over>>

\* The user changes a field: QuickChat has no multicast.
EditConfig(key, v) ==
    /\ ~over /\ cfg # None
    /\ cfg.fields[key] # v
    /\ key = "mcast" => cfg.fields.type = "VYPRESS"
    /\ Cardinality({k \in DOMAIN cfg.fields : cfg.fields[k] # set[k]} \cup {key}) <= MaxEdits
    /\ cfg' = [fields |-> IF key = "type" /\ v = "QCHAT"
                          THEN [cfg.fields EXCEPT ![key] = v, !.mcast = FALSE]
                          ELSE [cfg.fields EXCEPT ![key] = v],
               changed |-> TRUE, save |-> TRUE]
    /\ UNCHANGED <<set, net, why, others, sel, links, seen, over>>

\* config_dlg_response_handler
ConfigResponse(button) ==
    /\ ~over /\ cfg # None
    /\ LET read == Gathered(Now)
       IN  \/ /\ button = "OK" /\ Calm
              /\ Become([(IF cfg.changed THEN read ELSE Now) EXCEPT !.cfg = None])
           \/ button = "CANCEL" /\ Become([Now EXCEPT !.cfg = None])
           \/ button = "APPLY" /\ cfg.changed /\ Calm /\ Become(Synced(read))
           \/ button = "SAVE" /\ cfg.save /\ Calm /\ Become(Stored(Synced(read)))
    /\ UNCHANGED <<others, sel, links, seen, over>>

-----------------------------------------------------------------------------
(***************************************************************************)
(* The network selection dialog                                            *)
(*                                                                         *)
(*   type, port, mcast       the fields                                    *)
(*   mask, group   addresses of the last detection                         *)
(*   first         of the networks it has listed, the first                *)
(*   scan          its range, the part of the range that is being tried,   *)
(*                 the kind of network, and the number of the step         *)
(***************************************************************************)

Row(type, port, mcast) == [type |-> type, port |-> port, mcast |-> mcast]

Least(a, b) == IF a < b THEN a ELSE b

Part(scan) == scan.first .. Least(scan.end, scan.first + Step - 1)

\* detect_num_steps
NumSteps(scan) == ((scan.end - scan.begin + 1 + Step - 1) \div Step) * (Cardinality(NetTypes) + 1)

\* The links dlg_init_detect_links opens: not those of the client's own network,
\* and not on ports that are taken.
Probed(scan) ==
    LET own(p) == net # None /\ set.type = scan.type /\ set.port = p
    IN  {p \in Part(scan) : ~own(p)} \ (others \cup (IF net = None THEN {} ELSE {net.port}))

Tried(scan) == {Row(scan.type, p, scan.mcast) : p \in Part(scan)}

\* Mutant: networks with multicast are not looked for in the other parts.
AdvancedOver(scan) ==
    [scan EXCEPT !.step = @ + 1, !.type = IF @ = "QCHAT" THEN "VYPRESS" ELSE "QCHAT",
                 !.mcast = FALSE, !.first = IF scan.type = "QCHAT" THEN @ ELSE @ + Step]

\* dlg_advance_detect_step, for a scan that is not finished
Advanced(scan) ==
    LET next == [scan EXCEPT !.step = @ + 1]
    IN  IF ~scan.mcast /\ scan.type = "VYPRESS" THEN [next EXCEPT !.mcast = TRUE]
        ELSE IF scan.type = "QCHAT" THEN [next EXCEPT !.type = "VYPRESS", !.mcast = FALSE]
        ELSE [next EXCEPT !.type = "QCHAT", !.mcast = FALSE, !.first = @ + Step]

Finished(scan) == scan.type = "VYPRESS" /\ scan.mcast /\ scan.first + Step > scan.end

\* dlg_start_detection: the client's own network is listed at once.
Scan(d, b, e, mask, group) ==
    LET own == Row(set.type, set.port, set.type = "VYPRESS" /\ set.mcast)
    IN  [d EXCEPT !.first = IF net # None /\ set.port \in b .. e THEN own ELSE None,
                  !.mask = mask, !.group = group,
                  !.scan = [begin |-> b, end |-> e, first |-> b, type |-> "QCHAT",
                            mcast |-> FALSE, step |-> 0]]

ScanFor(d, b, e, mask, group) ==
    /\ sel' = Scan(d, b, e, mask, group)
    /\ links' = Probed(sel'.scan)
    /\ seen' = Tried(sel'.scan)

\* netselect_dlg_show
NewDialog == [first |-> None, type |-> set.type, port |-> set.port,
              mcast |-> set.type = "VYPRESS" /\ set.mcast, mask |-> None, group |-> None,
              scan |-> None]

\* EVENT_IFACE_SHOW_NETDETECT_DLG
OpenSelect ==
    /\ ~over /\ sel = None
    /\ ScanFor(NewDialog, Begin, End, set.mask, set.group)
    /\ UNCHANGED <<set, net, why, others, cfg, over>>

\* The Refresh button, with what the user has entered; a mask is taken even if
\* the other address is none.
StartScan(b, e, mask, group) ==
    /\ ~over /\ sel # None /\ sel.scan = None
    /\ IF Bad \notin {mask, group} THEN ScanFor(sel, b, e, mask, group)
       ELSE /\ sel' = [sel EXCEPT !.mask = IF mask = Bad THEN @ ELSE mask]
            /\ UNCHANGED <<links, seen>>
    /\ UNCHANGED <<set, net, why, others, cfg, over>>

\* list_cursor_changed
Chosen(d, row) == [d EXCEPT !.type = row.type, !.port = row.port, !.mcast = row.mcast]

\* Mutant of dlg_stop_detection: links are left open.
StoppedOpen == sel' = [sel EXCEPT !.scan = None, !.first = None] /\ seen' = {} /\ UNCHANGED links

\* dlg_stop_detection
Stopped == sel' = [sel EXCEPT !.scan = None, !.first = None] /\ seen' = {} /\ links' = {}

\* The Stop button
StopScan ==
    /\ ~over /\ sel # None /\ sel.scan # None
    /\ Stopped
    /\ UNCHANGED <<set, net, why, others, cfg, over>>

\* detection_timeout: answers have come on some of the links; the next step is
\* begun, or the first network found is chosen.
Timeout(answers) ==
    /\ ~over /\ sel # None /\ sel.scan # None
    /\ LET found == IF sel.first = None /\ answers # {} THEN CHOOSE r \in answers : TRUE ELSE sel.first
           next == Advanced(sel.scan)
       IN  IF Finished(sel.scan)
           THEN /\ sel' = [(IF found = None THEN sel ELSE Chosen(sel, found))
                              EXCEPT !.scan = None, !.first = None]
                /\ links' = {} /\ seen' = {}
           ELSE /\ sel' = [sel EXCEPT !.scan = next, !.first = found]
                /\ links' = Probed(next)
                /\ seen' = seen \cup Tried(next)
    /\ UNCHANGED <<set, net, why, others, cfg, over>>

\* The user chooses a network of the list, or enters one.
EditSelect(row) ==
    /\ ~over /\ sel # None
    /\ sel' = Chosen(sel, row)
    /\ UNCHANGED <<set, net, why, others, cfg, links, seen, over>>

\* The end of the main loop: EVENT_MAIN_PRECLOSE
Ended ==
    /\ over' = TRUE
    /\ Become([Disconnected(Now) EXCEPT !.cfg = None])
    /\ sel' = None /\ links' = {} /\ seen' = {}
    /\ UNCHANGED others

Quit == ~over /\ Ended

\* dlg_response: settings are stored one by one, then the detection is stopped.
SelectOK ==
    /\ ~over /\ sel # None /\ Calm
    /\ LET values == [type |-> sel.type, port |-> sel.port, mcast |-> sel.mcast,
                      group |-> sel.group, mask |-> sel.mask, configured |-> TRUE]
       IN  Become(SetAll(Now, <<"type", "port", "mcast", "group", "mask", "configured">>, values))
    /\ sel' = None /\ links' = {} /\ seen' = {}
    /\ UNCHANGED <<others, over>>

\* dlg_response: one cannot get away without network configured.
SelectCancel ==
    /\ ~over /\ sel # None
    /\ IF ~set.configured THEN Ended
       ELSE /\ sel' = None /\ links' = {} /\ seen' = {}
            /\ UNCHANGED <<set, net, why, others, cfg, over>>

\* Another program opens or closes a port.
Rival(p) ==
    /\ p \notin links /\ (net # None => net.port # p)
    /\ others' = IF p \in others THEN others \ {p} ELSE others \cup {p}
    /\ UNCHANGED <<set, net, why, cfg, sel, links, seen, over>>

\* Settings as a configuration file may hold them
Settings == {s \in Setting : s.port \in Usual /\ (s.mcast => s.type = "VYPRESS")}

\* EVENT_MAIN_START; without a file the network is not configured.
Init ==
    /\ set \in Settings
    /\ others \in SUBSET Rivals
    /\ cfg = None /\ over = FALSE
    /\ IF set.configured
       THEN /\ sel = None /\ links = {} /\ seen = {}
            /\ IF set.port \in others THEN net = None /\ why = "taken"
               ELSE net = LinkFor(set) /\ why = "none"
       ELSE LET scan == [begin |-> Begin, end |-> End, first |-> Begin, type |-> "QCHAT",
                         mcast |-> FALSE, step |-> 0]
            IN  /\ net = None /\ why = "none"
                /\ sel = [first |-> None, type |-> set.type, port |-> set.port, mcast |-> set.mcast,
                          mask |-> set.mask, group |-> set.group, scan |-> scan]
                /\ links = Part(scan) \ others /\ seen = Tried(scan)

Fields == ({"type"} \X NetTypes) \cup ({"port"} \X Usual) \cup ({"mcast"} \X BOOLEAN)
            \cup ({"mask"} \X (Masks \cup {Bad})) \cup ({"group"} \X (Groups \cup {Bad}))

Rows == {r \in NetworkRow : r.port \in Usual /\ (r.mcast => r.type = "VYPRESS")}

Answering == {s \in Servers : s \in Tried(sel.scan) /\ s.port \in links}

Next ==
    \/ OpenConfig
    \/ \E f \in Fields : EditConfig(f[1], f[2])
    \/ \E b \in {"OK", "CANCEL", "APPLY", "SAVE"} : ConfigResponse(b)
    \/ OpenSelect
    \/ \E r \in Ranges, m \in Masks \cup {Bad}, g \in Groups \cup {Bad} : StartScan(r[1], r[2], m, g)
    \/ StopScan
    \/ sel # None /\ sel.scan # None /\ \E answers \in SUBSET Answering : Timeout(answers)
    \/ \E r \in Rows : EditSelect(r)
    \/ SelectOK \/ SelectCancel
    \/ Quit
    \/ \E p \in Rivals : Rival(p)

Spec == Init /\ [][Next]_vars

-----------------------------------------------------------------------------
\* The link is the one the settings describe: whatever dialog changes which of
\* them, in whatever order, a setting in force is never passed over.
LinkFollowsSettings == net # None => net = LinkFor(set)

\* The configuration dialog shows the settings unless the user has changed it:
\* neither storing them one by one nor what the other dialog does leaves it behind.
DialogShowsSettings == cfg # None /\ ~cfg.changed => cfg.fields = Shown(set)

\* What is stored from the configuration dialog is what it shows, all of it,
\* although each setting stored is announced to the dialog too.
StoredAsEntered ==
    [][cfg # None /\ sel' = sel /\ set' # set =>
         \A k \in DOMAIN cfg.fields : cfg.fields[k] # Bad => set'[k] = cfg.fields[k]]_vars

\* A detection that runs to its end has looked for every kind of network on
\* every port of its range, in the number of steps the progress bar is told,
\* and then, as when it is stopped, holds no port.
DetectionComplete ==
    /\ links # {} => sel # None /\ sel.scan # None
    /\ sel # None /\ sel.scan # None =>
         /\ sel.scan.step < NumSteps(sel.scan)
         /\ Finished(sel.scan) =>
              /\ sel.scan.step = NumSteps(sel.scan) - 1
              /\ seen = UNION {{Row("QCHAT", p, FALSE), Row("VYPRESS", p, FALSE), Row("VYPRESS", p, TRUE)}
                                 : p \in sel.scan.begin .. sel.scan.end}

\* "check if there are any programs running on the same port" (net.c): a link
\* cannot be opened only if another program holds its port.
FailsOnlyIfTaken == why # "detection"
=============================================================================
