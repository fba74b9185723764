--------------------------- MODULE NetworkProofs ---------------------------
(***************************************************************************)
(* The link, the settings, the dialogs and the detection agree, for any    *)
(* ports, addresses, ranges, networks and rivals.                          *)
(*                                                                         *)
(* Settings are stored one by one by a fold, and each may reconnect and be *)
(* announced: SetStep is what one of them keeps, and FoldFacts carries it  *)
(* over all of them, for OK in either dialog (ReadAll, StoreAll).  IInv is *)
(* inductive from there, callback by callback.  That a detection is        *)
(* complete rests on a second invariant, DetectionTrue: the part of the    *)
(* range and the kind of network it is at tell what it has tried and how   *)
(* many steps it took.                                                     *)
(***************************************************************************)
EXTENDS Network, FiniteSetTheorems, TLAPS

\* One step of storing settings one by one
ReadStep(values, c, key) == Read(c, key, values[key])

F == INSTANCE FoldFacts WITH Op <- ReadStep

\* Storing settings one by one is a fold of FoldFacts.
LEMMA SetAllFolds ==
    ASSUME NEW c, NEW keys, NEW values
    PROVE  SetAll(c, keys, values) = F!Fold(values, c, keys)
BY DEF SetAll, F!Fold, ReadStep, FoldLeft, F!FoldLeft, MapThenFoldSet, F!MapThenFoldSet, Max, F!Max

\* What a callback works on (Now)
Working == [set : Setting, net : Link \cup {None}, why : {"none", "taken", "detection"},
            cfg : ConfigDialog \cup {None}, gathering : BOOLEAN]

\* LinkFollowsSettings and DialogShowsSettings, of what a callback works on
LinkTrue(c) == c.net # None => c.net = LinkFor(c.set)

DialogTrue(c) == c.cfg # None /\ ~c.cfg.changed => c.cfg.fields = Shown(c.set)

\* net_connect asks for a link.
LEMMA LinkForType ==
    ASSUME NEW s \in Setting
    PROVE  LinkFor(s) \in Link
BY DEF LinkFor, Setting, Link, NetTypes

\* What the configuration dialog shows of the settings can be entered in it.
LEMMA ShownType ==
    ASSUME NEW s \in Setting
    PROVE  Shown(s) \in [type : NetTypes, port : Ports, mcast : BOOLEAN, mask : Masks \cup {Bad}, group : Groups \cup {Bad}]
<1>1. {Keys[i] : i \in DOMAIN Keys} = {"type", "port", "mcast", "mask", "group"}
    BY DEF Keys
<1>2. Shown(s) = [k \in {"type", "port", "mcast", "mask", "group"} |-> s[k]]
    BY <1>1 DEF Shown
<1>3. QED
    BY <1>2 DEF Setting

\* net_connect opens the link the settings describe, or none.
LEMMA ConnectedStep ==
    ASSUME NEW c \in Working, LinkTrue(Disconnected(c))
    PROVE  /\ Connected(Disconnected(c)) \in Working
           /\ LinkTrue(Connected(Disconnected(c)))
           /\ Connected(Disconnected(c)).set = c.set
           /\ Connected(Disconnected(c)).cfg = c.cfg
           /\ Connected(Disconnected(c)).gathering = c.gathering
           /\ links = {} /\ c.why # "detection" => Connected(Disconnected(c)).why # "detection"
BY LinkForType DEF Working, LinkTrue, Connected, Disconnected

Names == {"type", "port", "mcast", "mask", "group", "configured"}

\* A setting that does not make the client reconnect does not matter to its link.
LEMMA PassedOver ==
    ASSUME NEW s \in Setting, NEW key \in Names, NEW v,
           [s EXCEPT ![key] = v] \in Setting, ~Reconnects([s EXCEPT ![key] = v], key)
    PROVE  LinkFor([s EXCEPT ![key] = v]) = LinkFor(s)
<1>1. CASE key = "mcast"
    BY <1>1 DEF Setting, NetTypes, Reconnects, LinkFor
<1>2. CASE key = "mask"
    BY <1>2 DEF Setting, NetTypes, Reconnects, LinkFor
<1>3. CASE key = "group"
    BY <1>3 DEF Setting, NetTypes, Reconnects, LinkFor
<1>4. CASE key = "configured"
    BY <1>4 DEF Setting, NetTypes, Reconnects, LinkFor
<1>5. CASE key \in {"type", "port"}
    BY <1>5 DEF Reconnects
<1>6. QED
    BY <1>1, <1>2, <1>3, <1>4, <1>5 DEF Names

\* After sync_dlg_from_config the dialog shows the settings, and nothing else has changed.
LEMMA SyncedStep ==
    ASSUME NEW c \in Working, LinkTrue(c)
    PROVE  /\ Synced(c) \in Working /\ LinkTrue(Synced(c)) /\ DialogTrue(Synced(c))
           /\ Synced(c).set = c.set /\ Synced(c).why = c.why
           /\ Synced(c).gathering = c.gathering
           /\ Synced(c).cfg = None <=> c.cfg = None
<1>1. CASE c.cfg = None
    BY <1>1 DEF Synced, DialogTrue
<1>2. CASE c.cfg # None
    <2>1. c.cfg \in ConfigDialog /\ c.set \in Setting
        BY <1>2 DEF Working
    <2> DEFINE e == [fields |-> Shown(c.set), changed |-> FALSE,
                     save |-> c.cfg.save \/ c.cfg.fields # Shown(c.set)]
    <2>2. e \in ConfigDialog
        BY <2>1, ShownType DEF ConfigDialog
    <2>3. Synced(c) = [c EXCEPT !.cfg = e]
        BY <1>2 DEF Synced, Working
    <2>4. e.fields = Shown(c.set) /\ e # None
        BY <2>2, NoneAssumption
    <2> HIDE DEF e
    <2>5. QED
        BY <1>2, <2>2, <2>3, <2>4 DEF Working, DialogTrue, LinkTrue
<1>3. QED
    BY <1>1, <1>2

\* prefs_set keeps the link and the dialog true: whichever setting is stored, the link
\* that was right before is right after it.
LEMMA SetStep ==
    ASSUME NEW c \in Working, LinkTrue(c), NEW key \in Names, NEW v,
           [c.set EXCEPT ![key] = v] \in Setting
    PROVE  /\ Set(c, key, v) \in Working
           /\ LinkTrue(Set(c, key, v))
           /\ Set(c, key, v).set = [c.set EXCEPT ![key] = v]
           /\ Set(c, key, v).gathering = c.gathering
           /\ c.gathering => Set(c, key, v).cfg = c.cfg
           /\ ~c.gathering /\ DialogTrue(c) => DialogTrue(Set(c, key, v))
           /\ links = {} /\ c.why # "detection" => Set(c, key, v).why # "detection"
<1> DEFINE b == [c EXCEPT !.set[key] = v]
           d == Notified(b, key)
<1>1. /\ b \in Working /\ b.set = [c.set EXCEPT ![key] = v]
      /\ b.cfg = c.cfg /\ b.gathering = c.gathering /\ b.why = c.why /\ b.net = c.net
    BY DEF Working
<1>2. /\ d \in Working /\ LinkTrue(d) /\ d.set = b.set
      /\ d.cfg = b.cfg /\ d.gathering = b.gathering
      /\ links = {} /\ b.why # "detection" => d.why # "detection"
    <2> HIDE DEF b
    <2>1. CASE Reconnects(b.set, key)
        <3>1. LinkTrue(Disconnected(b))
            BY <1>1 DEF LinkTrue, Disconnected, Working
        <3>2. d = Connected(Disconnected(b))
            BY <2>1 DEF Notified
        <3>3. QED
            BY <1>1, <3>1, <3>2, ConnectedStep
    <2>2. CASE ~Reconnects(b.set, key)
        <3>1. LinkTrue(b)
            BY <1>1, <2>2, PassedOver DEF LinkTrue, Working
        <3>2. CASE key = "configured" /\ b.set.configured /\ b.net = None
            <4>1. d = Connected(b) /\ b = Disconnected(b)
                BY <2>2, <3>2, <1>1 DEF Notified, Disconnected, Working
            <4>2. QED
                BY <4>1, <3>1, <1>1, ConnectedStep
        <3>3. CASE ~(key = "configured" /\ b.set.configured /\ b.net = None)
            <4>1. d = b
                BY <2>2, <3>3 DEF Notified
            <4>2. QED
                BY <4>1, <3>1, <1>1
        <3>4. QED
            BY <3>2, <3>3
    <2>3. QED
        BY <2>1, <2>2
<1>3. c.set[key] = v => Set(c, key, v) = c /\ [c.set EXCEPT ![key] = v] = c.set
    BY DEF Set, Working, Setting, Names
<1>4. c.set[key] # v => Set(c, key, v) = Told(d)
    BY DEF Set
<1> HIDE DEF b, d
<1>5. /\ Told(d) \in Working /\ LinkTrue(Told(d)) /\ Told(d).set = d.set
      /\ Told(d).gathering = d.gathering /\ Told(d).why = d.why
      /\ d.gathering => Told(d).cfg = d.cfg
      /\ ~d.gathering => DialogTrue(Told(d))
    <2>1. CASE d.gathering
        BY <2>1, <1>2 DEF Told
    <2>2. CASE ~d.gathering
        BY <2>2, <1>2, SyncedStep DEF Told
    <2>3. QED
        BY <2>1, <2>2
<1>6. QED
    BY <1>1, <1>2, <1>3, <1>4, <1>5

\* What the fields of a dialog may hold
Entered == [type : NetTypes, port : Ports, mcast : BOOLEAN,
            mask : Masks \cup {Bad}, group : Groups \cup {Bad}]

\* What is entered, unless it is no address, is a value of the setting.
LEMMA EnteredFits ==
    ASSUME NEW s \in Setting, NEW values \in Entered,
           NEW key \in {"type", "port", "mcast", "mask", "group"}, values[key] # Bad
    PROVE  [s EXCEPT ![key] = values[key]] \in Setting
BY DEF Setting, Entered

\* Reading the configuration dialog stores all that can be stored, and leaves
\* the dialog alone while it does.
LEMMA ReadAll ==
    ASSUME NEW c \in Working, LinkTrue(c), c.gathering, NEW values \in Entered
    PROVE  LET d == SetAll(c, Keys, values)
           IN  /\ d \in Working /\ LinkTrue(d)
               /\ d.cfg = c.cfg
               /\ \A k \in {"type", "port", "mcast", "mask", "group"} :
                      values[k] # Bad => d.set[k] = values[k]
               /\ links = {} /\ c.why # "detection" => d.why # "detection"
<1> DEFINE Ok(d) == /\ LinkTrue(d) /\ d.gathering /\ d.cfg = c.cfg
                    /\ links = {} /\ c.why # "detection" => d.why # "detection"
           Stores(d, i) ==
               \A j \in 1 .. i : values[Keys[j]] # Bad => d.set[Keys[j]] = values[Keys[j]]
           J == [i \in 0 .. 5 |-> {d \in Working : Ok(d) /\ Stores(d, i)}]
<1>1. /\ Keys \in Seq({"type", "port", "mcast", "mask", "group"}) /\ Len(Keys) = 5
      /\ \A i \in 1 .. 5 : Keys[i] \in {"type", "port", "mcast", "mask", "group"}
      /\ \A i, j \in 1 .. 5 : Keys[i] = Keys[j] => i = j
      /\ \A k \in {"type", "port", "mcast", "mask", "group"} : \E i \in 1 .. 5 : Keys[i] = k
    <2> HIDE DEF Ok, J
    <2>1. /\ Keys \in Seq({"type", "port", "mcast", "mask", "group"})
          /\ Len(Keys) = 5
        BY DEF Keys
    <2>2. /\ Keys[1] = "type" /\ Keys[2] = "port" /\ Keys[3] = "mcast"
          /\ Keys[4] = "mask" /\ Keys[5] = "group"
        BY DEF Keys
    <2>3. \A i \in 1 .. 5 : i = 1 \/ i = 2 \/ i = 3 \/ i = 4 \/ i = 5
        OBVIOUS
    <2>4. QED
        BY <2>1, <2>2, <2>3
<1>2. c \in J[0]
    OBVIOUS
<1>3. ASSUME NEW i \in 1 .. 5, NEW d \in J[i - 1]
      PROVE  ReadStep(values, d, Keys[i]) \in J[i]
    <2> DEFINE key == Keys[i]
               v == values[key]
    <2>1. /\ d \in Working /\ Ok(d) /\ i - 1 \in 0 .. 5
          /\ \A j \in 1 .. i - 1 : values[Keys[j]] # Bad => d.set[Keys[j]] = values[Keys[j]]
        OBVIOUS
    <2>2. CASE v = Bad
        <3>1. ReadStep(values, d, key) = d
            BY <2>2 DEF ReadStep, Read
        <3>2. \A j \in 1 .. i : values[Keys[j]] # Bad => d.set[Keys[j]] = values[Keys[j]]
            BY <2>1, <2>2
        <3>3. QED
            BY <2>1, <3>1, <3>2
    <2>3. CASE v # Bad
        <3> DEFINE e == Set(d, key, v)
        <3>1. ReadStep(values, d, key) = e
            BY <2>3 DEF ReadStep, Read
        <3>2. d.set \in Setting /\ key \in Names
            BY <2>1, <1>1 DEF Working, Names
        <3>3. [d.set EXCEPT ![key] = v] \in Setting
            <4>1. key \in {"type", "port", "mcast", "mask", "group"} /\ values[key] # Bad
                BY <2>3, <1>1
            <4> HIDE DEF key
            <4>2. [d.set EXCEPT ![key] = values[key]] \in Setting
                BY <4>1, <3>2, EnteredFits
            <4>3. QED
                BY <4>2
        <3>4. /\ e \in Working /\ LinkTrue(e) /\ e.set = [d.set EXCEPT ![key] = v]
              /\ e.gathering /\ e.cfg = d.cfg
              /\ links = {} /\ d.why # "detection" => e.why # "detection"
            BY <2>1, <3>2, <3>3, SetStep
        <3> HIDE DEF e
        <3>5. e.set[key] = v /\ \A k \in Names : k # key => e.set[k] = d.set[k]
            BY <3>2, <3>4 DEF Setting, Names
        <3>6. \A j \in 1 .. i : values[Keys[j]] # Bad => e.set[Keys[j]] = values[Keys[j]]
            <4>1. ASSUME NEW j \in 1 .. i, j # i, values[Keys[j]] # Bad
                  PROVE  e.set[Keys[j]] = values[Keys[j]]
                <5>1. j \in 1 .. i - 1 /\ j \in 1 .. 5
                    BY <4>1
                <5>2. Keys[j] # key /\ Keys[j] \in Names
                    BY <4>1, <5>1, <1>1 DEF Names
                <5>3. QED
                    BY <4>1, <5>1, <5>2, <3>5, <2>1
            <4>2. QED
                BY <4>1, <3>5
        <3>7. Ok(e)
            BY <2>1, <3>4
        <3> HIDE DEF Ok
        <3>8. i \in 0 .. 5
            OBVIOUS
        <3>9. e \in J[i]
            BY <3>4, <3>6, <3>7, <3>8
        <3>10. QED
            BY <3>1, <3>9
    <2>4. QED
        BY <2>2, <2>3
<1> DEFINE d == SetAll(c, Keys, values)
<1>4. d \in J[5]
    <2> HIDE DEF J, d
    <2>1. F!Fold(values, c, Keys) \in J[Len(Keys)]
        BY <1>1, <1>2, <1>3, F!FoldChain
    <2>2. QED
        BY <2>1, <1>1, SetAllFolds DEF d
<1> HIDE DEF d
<1>5. /\ d \in Working /\ Ok(d)
      /\ \A j \in 1 .. 5 : values[Keys[j]] # Bad => d.set[Keys[j]] = values[Keys[j]]
    BY <1>4
<1>6. QED
    BY <1>1, <1>5 DEF d

ChoiceKeys == <<"type", "port", "mcast", "group", "mask", "configured">>

\* Storing what was chosen in the other dialog keeps the link and the
\* configuration dialog true at every step.
LEMMA StoreAll ==
    ASSUME NEW c \in Working, LinkTrue(c), DialogTrue(c), ~c.gathering, NEW values \in Setting
    PROVE  LET d == SetAll(c, ChoiceKeys, values)
           IN  /\ d \in Working /\ LinkTrue(d) /\ DialogTrue(d)
               /\ links = {} /\ c.why # "detection" => d.why # "detection"
<1> DEFINE Ok(d) == /\ LinkTrue(d) /\ DialogTrue(d) /\ ~d.gathering
                    /\ links = {} /\ c.why # "detection" => d.why # "detection"
           J == {d \in Working : Ok(d)}
<1>1. ChoiceKeys \in Seq(Names)
    BY DEF ChoiceKeys, Names
<1>2. c \in J
    OBVIOUS
<1>3. ASSUME NEW key \in Names, NEW d \in J
      PROVE  ReadStep(values, d, key) \in J
    <2>1. CASE values[key] = Bad
        BY <2>1 DEF ReadStep, Read
    <2>2. CASE values[key] # Bad
        <3>1. ReadStep(values, d, key) = Set(d, key, values[key])
            BY <2>2 DEF ReadStep, Read
        <3>2. d.set \in Setting
            BY DEF Working
        <3>3. [d.set EXCEPT ![key] = values[key]] \in Setting
            BY <3>2 DEF Setting, Names
        <3>4. /\ d \in Working /\ LinkTrue(d) /\ DialogTrue(d) /\ ~d.gathering
              /\ links = {} /\ c.why # "detection" => d.why # "detection"
            OBVIOUS
        <3> DEFINE e == Set(d, key, values[key])
        <3>5. /\ e \in Working /\ LinkTrue(e) /\ DialogTrue(e) /\ e.gathering = d.gathering
              /\ links = {} /\ d.why # "detection" => e.why # "detection"
            BY <3>3, <3>4, SetStep
        <3> HIDE DEF e
        <3>6. e \in J
            BY <3>4, <3>5
        <3>7. QED
            BY <3>1, <3>6 DEF e
    <2>3. QED
        BY <2>1, <2>2
<1>4. \A i \in 1 .. Len(ChoiceKeys) : ChoiceKeys[i] \in Names
    BY <1>1
<1>5. F!Fold(values, c, ChoiceKeys) \in J
    <2> HIDE DEF J
    <2>1. QED
        BY <1>1, <1>2, <1>3, <1>4, F!FoldInvariant
<1> DEFINE d == SetAll(c, ChoiceKeys, values)
<1>6. d = F!Fold(values, c, ChoiceKeys)
    BY SetAllFolds
<1> HIDE DEF d
<1>7. d \in J
    BY <1>5, <1>6
<1>8. QED
    BY <1>7 DEF d

\* The inductive invariant of the link and the configuration dialog: a detection holds
\* ports only while it runs.
IInv ==
    /\ TypeOK
    /\ LinkFollowsSettings
    /\ DialogShowsSettings
    /\ links # {} => sel # None /\ sel.scan # None
    /\ Patient => FailsOnlyIfTaken

\* The program starts in the invariant.
LEMMA InitIInv == Init => IInv
<1> SUFFICES ASSUME Init PROVE IInv
    OBVIOUS
<1>1. set \in Setting
    BY DEF Init, Settings
<1>2. /\ cfg = None /\ over = FALSE
      /\ why \in {"none", "taken"}
    BY DEF Init
<1>3. LinkFollowsSettings /\ net \in Link \cup {None}
    BY <1>1, LinkForType DEF Init, LinkFollowsSettings
<1>4. /\ sel \in SelectDialog \cup {None}
      /\ links \subseteq Ports
      /\ sel # None /\ sel.scan # None => sel.scan.begin <= sel.scan.first
      /\ links # {} => sel # None /\ sel.scan # None
    <2>1. CASE set.configured
        BY <2>1 DEF Init
    <2>2. CASE ~set.configured
        <3> DEFINE scan == [begin |-> Begin, end |-> End, first |-> Begin, type |-> "QCHAT",
                            mcast |-> FALSE, step |-> 0]
        <3>0. Begin \in Nat /\ End \in Nat /\ Step \in Nat
            BY PortsAssumption, StepAssumption
        <3>1. sel = [first |-> None, type |-> set.type, port |-> set.port, mcast |-> set.mcast,
                     mask |-> set.mask, group |-> set.group, scan |-> scan]
            BY <2>2 DEF Init
        <3>2. scan \in Detection
            BY PortsAssumption DEF Detection, NetTypes
        <3>3. links \subseteq Part(scan)
            BY <2>2 DEF Init
        <3>4. Part(scan) \subseteq Begin .. End
            BY <3>0 DEF Part, Least
        <3>5. scan.begin <= scan.first
            BY <3>0
        <3> HIDE DEF scan
        <3>6. sel \in SelectDialog
            BY <1>1, <3>1, <3>2 DEF Setting, SelectDialog
        <3>7. sel.scan # None /\ sel # None
            BY <3>1, <3>2, <3>6, NoneAssumption
        <3>8. QED
            BY <3>1, <3>3, <3>4, <3>5, <3>6, <3>7, PortsAssumption
    <2>3. QED
        BY <2>1, <2>2
<1>5. QED
    BY <1>1, <1>2, <1>3, <1>4 DEF IInv, TypeOK, DialogShowsSettings, FailsOnlyIfTaken

\* The state a callback starts from
LEMMA NowTrue ==
    ASSUME IInv
    PROVE  /\ Now \in Working /\ LinkTrue(Now) /\ DialogTrue(Now) /\ ~Now.gathering
           /\ Now.cfg = cfg /\ Now.set = set /\ Now.why = why
           /\ Patient => Now.why # "detection"
BY DEF IInv, TypeOK, Now, Working, LinkTrue, DialogTrue, LinkFollowsSettings,
       DialogShowsSettings, FailsOnlyIfTaken

\* What holds of the working state at the end of a callback holds of the program.
LEMMA BecomeTrue ==
    ASSUME NEW c \in Working, LinkTrue(c), DialogTrue(c), Patient => c.why # "detection", Become(c)
    PROVE  /\ set' \in Setting /\ net' \in Link \cup {None}
           /\ why' \in {"none", "taken", "detection"} /\ cfg' \in ConfigDialog \cup {None}
           /\ LinkFollowsSettings' /\ DialogShowsSettings' /\ (Patient => FailsOnlyIfTaken')
BY DEF Become, Working, LinkTrue, DialogTrue, LinkFollowsSettings, DialogShowsSettings,
       FailsOnlyIfTaken

\* With no detection in progress settings can be applied.
LEMMA CalmIdle ==
    ASSUME IInv, Calm, Patient
    PROVE  links = {}
BY DEF IInv, Calm

\* set_config_from_dlg leaves the dialog as the settings are.
LEMMA GatheredStep ==
    ASSUME IInv, cfg # None, Calm
    PROVE  /\ Gathered(Now) \in Working /\ LinkTrue(Gathered(Now)) /\ DialogTrue(Gathered(Now))
           /\ Gathered(Now).cfg # None
           /\ Patient => Gathered(Now).why # "detection"
           /\ \A k \in {"type", "port", "mcast", "mask", "group"} :
                  cfg.fields[k] # Bad => Gathered(Now).set[k] = cfg.fields[k]
<1> DEFINE c == [Now EXCEPT !.gathering = TRUE]
           values == cfg.fields
           d == SetAll(c, Keys, values)
<1>1. /\ c \in Working /\ LinkTrue(c) /\ c.gathering /\ c.cfg = cfg /\ c.why = why
      /\ cfg \in ConfigDialog /\ values \in Entered
      /\ Now.cfg.fields = values
      /\ Patient => c.why # "detection" /\ links = {}
    BY NowTrue, CalmIdle
    DEF Working, LinkTrue, IInv, TypeOK, ConfigDialog, Entered, FailsOnlyIfTaken, Now
<1> HIDE DEF c
<1>2. /\ d \in Working /\ LinkTrue(d) /\ d.cfg = cfg
      /\ \A k \in {"type", "port", "mcast", "mask", "group"} : values[k] # Bad => d.set[k] = values[k]
      /\ Patient => d.why # "detection"
    BY <1>1, ReadAll
<1> DEFINE shown == Corrected(values, d.set)
           e == [cfg EXCEPT !.changed = FALSE, !.fields = shown]
<1>3. Gathered(Now) = [d EXCEPT !.gathering = FALSE, !.cfg = e]
    <2>1. Gathered(Now) = [d EXCEPT !.gathering = FALSE, !.cfg.changed = FALSE,
                                    !.cfg.fields = Corrected(@, d.set)]
        BY <1>1 DEF Gathered, c
    <2>2. e = [d.cfg EXCEPT !.changed = FALSE, !.fields = Corrected(d.cfg.fields, d.set)]
        BY <1>2
    <2> HIDE DEF d, e, shown
    <2>3. QED
        BY <2>1, <2>2, <1>1, <1>2 DEF Working, ConfigDialog
<1>4. shown = Shown(d.set) /\ shown \in Entered
    <2>1. {Keys[i] : i \in DOMAIN Keys} = {"type", "port", "mcast", "mask", "group"}
        BY DEF Keys
    <2>2. Shown(d.set) = [k \in {"type", "port", "mcast", "mask", "group"} |-> d.set[k]]
        BY <2>1 DEF Shown
    <2> HIDE DEF d, values
    <2>3. DOMAIN values = {"type", "port", "mcast", "mask", "group"}
        BY <1>1 DEF Entered
    <2>4. shown = Shown(d.set)
        BY <1>2, <2>2, <2>3 DEF Corrected
    <2>5. QED
        BY <2>4, <1>2, ShownType DEF Working, Entered
<1> HIDE DEF shown, d, values
<1>5. e \in ConfigDialog /\ e.fields = shown /\ ~e.changed /\ e # None
    <2>1. e \in ConfigDialog /\ e.fields = shown /\ ~e.changed
        BY <1>1, <1>4 DEF ConfigDialog, Entered
    <2>2. QED
        BY <2>1, NoneAssumption
<1> HIDE DEF e
<1>6. QED
    BY <1>2, <1>3, <1>4, <1>5 DEF Working, LinkTrue, DialogTrue, values

-----------------------------------------------------------------------------
\* The part of the invariant that is about the selection dialog
SelectTrue ==
    /\ sel \in SelectDialog \cup {None}
    /\ sel # None /\ sel.scan # None => sel.scan.begin <= sel.scan.first
    /\ links \subseteq Ports
    /\ links # {} => sel # None /\ sel.scan # None

\* A callback that ends in a true working state and leaves the selection dialog true
LEMMA Settles ==
    ASSUME NEW c \in Working, LinkTrue(c), DialogTrue(c), Patient => c.why # "detection", Become(c),
           SelectTrue', over' \in BOOLEAN
    PROVE  IInv'
BY BecomeTrue DEF IInv, TypeOK, SelectTrue

\* A callback of the selection dialog that leaves the settings alone
LEMMA SelectsOnly ==
    ASSUME IInv, SelectTrue', UNCHANGED <<set, net, why, cfg, over>>
    PROVE  IInv'
BY DEF IInv, TypeOK, SelectTrue, LinkFollowsSettings, DialogShowsSettings, FailsOnlyIfTaken

\* A callback that leaves the selection dialog alone
LEMMA SelectStays == ASSUME IInv, UNCHANGED <<sel, links>> PROVE SelectTrue'
BY DEF IInv, TypeOK, SelectTrue

\* The selection dialog is closed, and the detection with it.
LEMMA SelectCloses == ASSUME sel' = None, links' = {} PROVE SelectTrue'
BY DEF SelectTrue

\* The configuration dialog opens showing the settings.
LEMMA OpenConfigStep == ASSUME IInv, OpenConfig PROVE IInv'
<1> DEFINE new == [fields |-> Shown(set), changed |-> FALSE, save |-> TRUE]
           c == IF cfg # None THEN Now ELSE [Now EXCEPT !.cfg = new]
<1>1. set \in Setting /\ over \in BOOLEAN
    BY DEF IInv, TypeOK
<1>2. new \in ConfigDialog
    BY <1>1, ShownType DEF ConfigDialog
<1> HIDE DEF new
<1>3. c \in Working /\ LinkTrue(c) /\ (Patient => c.why # "detection")
    BY <1>2, NowTrue DEF Working, LinkTrue
<1>4. Become(Synced(c)) /\ UNCHANGED <<sel, links, over>>
    BY DEF OpenConfig, new
<1> HIDE DEF c
<1> DEFINE d == Synced(c)
<1>5. /\ d \in Working /\ LinkTrue(d) /\ DialogTrue(d)
      /\ Patient => d.why # "detection"
    BY <1>3, SyncedStep
<1>6. SelectTrue'
    BY <1>4, SelectStays
<1> HIDE DEF d
<1>7. Become(d)
    BY <1>4 DEF d
<1>8. QED
    BY <1>1, <1>4, <1>5, <1>6, <1>7, Settles

\* Editing marks the dialog as changed.
LEMMA EditConfigStep ==
    ASSUME IInv, NEW f \in Fields, EditConfig(f[1], f[2])
    PROVE  IInv'
<1>1. /\ cfg \in ConfigDialog
      /\ UNCHANGED <<set, net, why, sel, links, over>>
    BY DEF EditConfig, IInv, TypeOK
<1>2. /\ f[1] \in {"type", "port", "mcast", "mask", "group"}
      /\ [cfg.fields EXCEPT ![f[1]] = f[2]] \in Entered
    BY <1>1, PortsAssumption DEF Fields, ConfigDialog, Entered
<1>3. \E fields \in Entered : cfg' = [fields |-> fields, changed |-> TRUE, save |-> TRUE]
    <2>1. CASE f[1] = "type" /\ f[2] = "QCHAT"
        <3>1. [cfg.fields EXCEPT ![f[1]] = f[2], !.mcast = FALSE] \in Entered
            BY <1>1, <1>2, <2>1 DEF ConfigDialog, Entered
        <3>2. QED
            BY <2>1, <3>1 DEF EditConfig
    <2>2. CASE ~(f[1] = "type" /\ f[2] = "QCHAT")
        BY <1>2, <2>2 DEF EditConfig
    <2>3. QED
        BY <2>1, <2>2
<1>4. cfg' \in ConfigDialog /\ cfg'.changed
    BY <1>3 DEF ConfigDialog, Entered
<1>5. QED
    BY <1>1, <1>4, SelectStays
    DEF IInv, TypeOK, SelectTrue, LinkFollowsSettings, DialogShowsSettings, FailsOnlyIfTaken

\* Every button of the configuration dialog keeps the invariant.
LEMMA ConfigResponseStep ==
    ASSUME IInv, NEW b, ConfigResponse(b)
    PROVE  IInv'
<1>1. cfg # None /\ UNCHANGED <<sel, links, over>> /\ over \in BOOLEAN
    BY DEF ConfigResponse, IInv, TypeOK
<1>2. SelectTrue'
    BY <1>1, SelectStays
<1>3. /\ Now \in Working /\ LinkTrue(Now) /\ DialogTrue(Now)
      /\ Patient => Now.why # "detection"
    BY NowTrue
<1>4. ASSUME NEW c \in Working, LinkTrue(c), Patient => c.why # "detection",
             Become([c EXCEPT !.cfg = None])
      PROVE  IInv'
    <2> DEFINE d == [c EXCEPT !.cfg = None]
    <2>1. d \in Working /\ LinkTrue(d) /\ DialogTrue(d) /\ d.why = c.why
        BY <1>4 DEF Working, LinkTrue, DialogTrue
    <2> HIDE DEF d
    <2>2. Become(d)
        BY <1>4 DEF d
    <2>3. QED
        BY <2>1, <2>2, <1>1, <1>2, <1>4, Settles
<1> DEFINE read == Gathered(Now)
<1>5. Calm => /\ read \in Working /\ LinkTrue(read) /\ DialogTrue(read) /\ read.cfg # None
              /\ Patient => read.why # "detection"
    BY <1>1, GatheredStep
<1>6. CASE b = "OK" /\ Calm /\ Become([(IF cfg.changed THEN read ELSE Now) EXCEPT !.cfg = None])
    <2> HIDE DEF read
    <2>1. CASE cfg.changed
        BY <2>1, <1>4, <1>5, <1>6
    <2>2. CASE ~cfg.changed
        BY <2>2, <1>3, <1>4, <1>6
    <2>3. QED
        BY <2>1, <2>2
<1>7. CASE b = "CANCEL" /\ Become([Now EXCEPT !.cfg = None])
    BY <1>3, <1>4, <1>7
<1>8. CASE b = "APPLY" /\ Calm /\ Become(Synced(read))
    <2> HIDE DEF read
    <2>1. QED
        BY <1>1, <1>2, <1>5, <1>8, SyncedStep, Settles
<1>9. CASE b = "SAVE" /\ Calm /\ Become(Stored(Synced(read)))
    <2> DEFINE c == Synced(read)
               d == Stored(c)
    <2> HIDE DEF read
    <2>1. /\ c \in Working /\ LinkTrue(c) /\ DialogTrue(c) /\ c.cfg # None
          /\ Patient => c.why # "detection"
        BY <1>5, <1>9, SyncedStep
    <2> HIDE DEF c
    <2>2. d \in Working /\ LinkTrue(d) /\ DialogTrue(d) /\ d.why = c.why
        BY <2>1 DEF Stored, Working, ConfigDialog, LinkTrue, DialogTrue
    <2> HIDE DEF d
    <2>3. Become(d)
        BY <1>9 DEF c, d
    <2>4. QED
        BY <2>1, <2>2, <2>3, <1>1, <1>2, Settles
<1>10. QED
    BY <1>6, <1>7, <1>8, <1>9 DEF ConfigResponse

-----------------------------------------------------------------------------
\* The ports of a detection's links are ports.
LEMMA ProbedPorts ==
    ASSUME NEW scan \in Detection, scan.begin <= scan.first
    PROVE  Part(scan) \subseteq Ports /\ Probed(scan) \subseteq Ports
<1>1. /\ scan.begin \in Ports /\ scan.end \in Ports /\ scan.first \in Nat
      /\ scan.begin \in Nat /\ scan.end \in Nat /\ Step \in Nat
    BY PortsAssumption, StepAssumption DEF Detection
<1>2. Part(scan) \subseteq scan.begin .. scan.end
    BY <1>1 DEF Part, Least
<1>3. scan.begin .. scan.end \subseteq Ports
    BY <1>1, PortsAssumption
<1>4. QED
    BY <1>2, <1>3 DEF Probed

\* A new dialog is a dialog but for its addresses.
LEMMA ScanForStep ==
    ASSUME NEW d \in [type : NetTypes, port : Ports, mcast : BOOLEAN, first : NetworkRow \cup {None},
                      mask : Masks \cup {None}, group : Groups \cup {None},
                      scan : Detection \cup {None}],
           NEW b \in Ports, NEW e \in Ports, NEW mask \in Masks, NEW group \in Groups,
           set \in Setting, ScanFor(d, b, e, mask, group)
    PROVE  SelectTrue'
<1> DEFINE scan == [begin |-> b, end |-> e, first |-> b, type |-> "QCHAT", mcast |-> FALSE, step |-> 0]
           own == Row(set.type, set.port, set.type = "VYPRESS" /\ set.mcast)
           row == IF net # None /\ set.port \in b .. e THEN own ELSE None
<1>1. scan \in Detection /\ scan.begin <= scan.first
    BY PortsAssumption DEF Detection, NetTypes
<1>2. row \in NetworkRow \cup {None}
    BY DEF Row, NetworkRow, Setting
<1>3. sel' = [d EXCEPT !.first = row, !.mask = mask, !.group = group, !.scan = scan]
    BY DEF ScanFor, Scan
<1> HIDE DEF scan, row
<1>4. sel' \in SelectDialog /\ sel'.scan = scan
    BY <1>1, <1>2, <1>3 DEF SelectDialog
<1>5. links' = Probed(scan)
    BY <1>4 DEF ScanFor
<1>6. sel' # None /\ scan # None
    BY <1>1, <1>4, NoneAssumption
<1>7. links' \subseteq Ports
    BY <1>1, <1>5, ProbedPorts
<1>8. QED
    BY <1>1, <1>4, <1>6, <1>7 DEF SelectTrue

\* A detection starts with the dialog.
LEMMA OpenSelectStep == ASSUME IInv, OpenSelect PROVE IInv'
<1>1. set \in Setting
    BY DEF IInv, TypeOK
<1>2. NewDialog \in [type : NetTypes, port : Ports, mcast : BOOLEAN, first : NetworkRow \cup {None},
                     mask : Masks \cup {None}, group : Groups \cup {None},
                     scan : Detection \cup {None}]
    BY <1>1 DEF NewDialog, Setting
<1>3. ScanFor(NewDialog, Begin, End, set.mask, set.group)
    BY DEF OpenSelect
<1>4. Begin \in Ports /\ End \in Ports /\ set.mask \in Masks /\ set.group \in Groups
    BY <1>1, PortsAssumption DEF Setting
<1> HIDE DEF NewDialog
<1>5. SelectTrue'
    BY <1>1, <1>2, <1>3, <1>4, ScanForStep
<1>6. QED
    BY <1>5, SelectsOnly DEF OpenSelect

\* A detection starts with the Refresh button.
LEMMA StartScanStep ==
    ASSUME IInv, NEW r \in Ranges, NEW m \in Masks \cup {Bad}, NEW g \in Groups \cup {Bad},
           StartScan(r[1], r[2], m, g)
    PROVE  IInv'
<1>1. sel \in SelectDialog /\ set \in Setting /\ sel.scan = None
    BY DEF StartScan, IInv, TypeOK
<1>2. CASE Bad \notin {m, g}
    <2>1. sel \in [type : NetTypes, port : Ports, mcast : BOOLEAN, first : NetworkRow \cup {None},
                   mask : Masks \cup {None}, group : Groups \cup {None},
                   scan : Detection \cup {None}]
        BY <1>1 DEF SelectDialog
    <2>2. r[1] \in Ports /\ r[2] \in Ports /\ m \in Masks /\ g \in Groups
        BY <1>2, PortsAssumption
    <2>3. ScanFor(sel, r[1], r[2], m, g)
        BY <1>2 DEF StartScan
    <2>4. SelectTrue'
        BY <1>1, <2>1, <2>2, <2>3, ScanForStep
    <2>5. QED
        BY <2>4, SelectsOnly DEF StartScan
<1>3. CASE Bad \in {m, g}
    <2>1. /\ sel' = [sel EXCEPT !.mask = IF m = Bad THEN @ ELSE m]
          /\ UNCHANGED links
        BY <1>3 DEF StartScan
    <2>2. sel' \in SelectDialog /\ sel'.scan = None
        BY <1>1, <2>1 DEF SelectDialog
    <2>3. SelectTrue'
        BY <1>1, <2>1, <2>2 DEF SelectTrue, IInv, TypeOK
    <2>4. QED
        BY <2>3, SelectsOnly DEF StartScan
<1>4. QED
    BY <1>2, <1>3

\* A detection that has ended holds no port.
LEMMA Ends ==
    ASSUME NEW d \in SelectDialog, sel' = [d EXCEPT !.scan = None, !.first = None], links' = {}
    PROVE  SelectTrue'
BY DEF SelectTrue, SelectDialog

\* A detection that is stopped holds no port.
LEMMA StopScanStep == ASSUME IInv, StopScan PROVE IInv'
<1>1. sel \in SelectDialog
    BY DEF StopScan, IInv, TypeOK
<1>2. SelectTrue'
    BY <1>1, Ends DEF StopScan, Stopped
<1>3. QED
    BY <1>2, SelectsOnly DEF StopScan

\* A network of the list is chosen.
LEMMA ChosenType ==
    ASSUME NEW d \in SelectDialog, NEW row \in NetworkRow
    PROVE  Chosen(d, row) \in SelectDialog /\ Chosen(d, row).scan = d.scan
BY DEF Chosen, SelectDialog, NetworkRow

\* The next step of a detection
LEMMA AdvancedType ==
    ASSUME NEW scan \in Detection, scan.begin <= scan.first
    PROVE  Advanced(scan) \in Detection /\ Advanced(scan).begin <= Advanced(scan).first
<1>1. /\ scan.first \in Nat /\ scan.step \in Nat /\ scan.begin \in Nat /\ Step \in Nat
    BY PortsAssumption, StepAssumption DEF Detection
<1> DEFINE next == [scan EXCEPT !.step = @ + 1]
<1>2. next \in Detection /\ next.first = scan.first /\ next.begin = scan.begin
    BY <1>1 DEF Detection
<1> HIDE DEF next
<1>3. CASE ~scan.mcast /\ scan.type = "VYPRESS"
    <2>1. Advanced(scan) = [next EXCEPT !.mcast = TRUE]
        BY <1>3 DEF Advanced, next
    <2>2. QED
        BY <2>1, <1>2 DEF Detection
<1>4. CASE scan.type = "QCHAT"
    <2>1. Advanced(scan) = [next EXCEPT !.type = "VYPRESS", !.mcast = FALSE]
        BY <1>4 DEF Advanced, next
    <2>2. QED
        BY <2>1, <1>2 DEF Detection, NetTypes
<1>5. CASE scan.mcast /\ scan.type # "QCHAT"
    <2>1. Advanced(scan) = [next EXCEPT !.type = "QCHAT", !.mcast = FALSE, !.first = @ + Step]
        BY <1>5 DEF Advanced, next
    <2>2. /\ next.first + Step \in Nat
          /\ next.begin <= next.first + Step
        BY <1>1, <1>2
    <2>3. Advanced(scan) \in Detection
        BY <2>1, <2>2, <1>2 DEF Detection, NetTypes
    <2>4. Advanced(scan).begin = next.begin /\ Advanced(scan).first = next.first + Step
        BY <2>1, <1>2 DEF Detection
    <2>5. QED
        BY <2>2, <2>3, <2>4
<1>6. QED
    BY <1>3, <1>4, <1>5 DEF Detection, NetTypes

\* A step of the detection ends.
LEMMA TimeoutStep ==
    ASSUME IInv, NEW answers \in SUBSET Answering, Timeout(answers)
    PROVE  IInv'
<1>1. sel \in SelectDialog /\ sel # None /\ sel.scan # None
    BY DEF Timeout, IInv, TypeOK
<1>2. sel.scan \in Detection /\ sel.scan.begin <= sel.scan.first
    BY <1>1 DEF IInv, TypeOK, SelectDialog
<1> DEFINE found == IF sel.first = None /\ answers # {} THEN CHOOSE r \in answers : TRUE ELSE sel.first
           next == Advanced(sel.scan)
<1>3. found \in NetworkRow \cup {None}
    <2>1. sel.first \in NetworkRow \cup {None}
        BY <1>1 DEF SelectDialog
    <2>2. Part(sel.scan) \subseteq Ports
        BY <1>2, ProbedPorts
    <2>3. Answering \subseteq NetworkRow
        BY <1>2, <2>2 DEF Answering, Tried, Row, NetworkRow, Detection
    <2>4. answers # {} => (CHOOSE r \in answers : TRUE) \in NetworkRow
        BY <2>3
    <2>5. QED
        BY <2>1, <2>4
<1>4. CASE Finished(sel.scan)
    <2> DEFINE d == IF found = None THEN sel ELSE Chosen(sel, found)
    <2>1. d \in SelectDialog
        BY <1>1, <1>3, ChosenType
    <2>2. sel' = [d EXCEPT !.scan = None, !.first = None] /\ links' = {}
        BY <1>4 DEF Timeout
    <2> HIDE DEF d
    <2>3. SelectTrue'
        BY <2>1, <2>2, Ends
    <2>4. QED
        BY <2>3, SelectsOnly DEF Timeout
<1>5. CASE ~Finished(sel.scan)
    <2>1. next \in Detection /\ next.begin <= next.first /\ next # None
        BY <1>2, AdvancedType, NoneAssumption
    <2>2. sel' = [sel EXCEPT !.scan = next, !.first = found] /\ links' = Probed(next)
        BY <1>5 DEF Timeout
    <2> HIDE DEF next, found
    <2>3. sel' \in SelectDialog /\ sel'.scan = next /\ sel' # None
        <3>1. sel' \in SelectDialog /\ sel'.scan = next
            BY <1>1, <1>3, <2>1, <2>2 DEF SelectDialog
        <3>2. QED
            BY <3>1, NoneAssumption
    <2>4. SelectTrue'
        BY <2>1, <2>2, <2>3, ProbedPorts DEF SelectTrue
    <2>5. QED
        BY <2>4, SelectsOnly DEF Timeout
<1>6. QED
    BY <1>4, <1>5

\* The user picks or enters a network.
LEMMA EditSelectStep == ASSUME IInv, NEW r \in Rows, EditSelect(r) PROVE IInv'
<1>1. sel \in SelectDialog /\ sel # None /\ sel' = Chosen(sel, r) /\ UNCHANGED links
    BY DEF EditSelect, IInv, TypeOK
<1>2. sel' \in SelectDialog /\ sel'.scan = sel.scan /\ sel' # None
    BY <1>1, ChosenType, NoneAssumption DEF Rows
<1>3. Chosen(sel, r).scan = sel.scan
    BY <1>1, ChosenType DEF Rows
<1>4. SelectTrue'
    BY <1>1, <1>2 DEF IInv, TypeOK, SelectTrue
<1>5. QED
    BY <1>4, SelectsOnly DEF EditSelect

\* OK in the network selection dialog, which ends the detection too
LEMMA SelectOKStep == ASSUME IInv, SelectOK PROVE IInv'
<1> DEFINE values == [type |-> sel.type, port |-> sel.port, mcast |-> sel.mcast,
                      group |-> sel.group, mask |-> sel.mask, configured |-> TRUE]
           d == SetAll(Now, ChoiceKeys, values)
<1>1. sel \in SelectDialog /\ Calm /\ over' = over /\ over \in BOOLEAN
    BY DEF SelectOK, IInv, TypeOK
<1>2. values \in Setting
    BY <1>1 DEF SelectDialog, Setting
<1> HIDE DEF values
<1>3. /\ d \in Working /\ LinkTrue(d) /\ DialogTrue(d)
      /\ Patient => d.why # "detection"
    BY <1>1, <1>2, NowTrue, CalmIdle, StoreAll
<1>4. Become(d)
    BY DEF SelectOK, values, ChoiceKeys
<1>5. SelectTrue'
    BY SelectCloses DEF SelectOK
<1> HIDE DEF d
<1>6. QED
    BY <1>1, <1>3, <1>4, <1>5, Settles

\* The program ends.
LEMMA EndedStep == ASSUME IInv, Ended PROVE IInv'
<1> DEFINE c == [Disconnected(Now) EXCEPT !.cfg = None]
<1>1. c \in Working /\ LinkTrue(c) /\ DialogTrue(c) /\ (Patient => c.why # "detection")
    BY NowTrue DEF Working, LinkTrue, DialogTrue, Disconnected
<1>2. Become(c) /\ over' = TRUE
    BY DEF Ended
<1>3. SelectTrue'
    BY SelectCloses DEF Ended
<1> HIDE DEF c
<1>4. QED
    BY <1>1, <1>2, <1>3, Settles

\* Cancel in the network selection dialog, which may end the program
LEMMA SelectCancelStep == ASSUME IInv, SelectCancel PROVE IInv'
<1>1. CASE ~set.configured
    BY <1>1, EndedStep DEF SelectCancel
<1>2. CASE set.configured
    <2>1. SelectTrue'
        BY <1>2, SelectCloses DEF SelectCancel
    <2>2. QED
        BY <1>2, <2>1, SelectsOnly DEF SelectCancel
<1>3. QED
    BY <1>1, <1>2

\* What other programs do is no matter of the invariant.
LEMMA RivalStep == ASSUME IInv, NEW p, Rival(p) PROVE IInv'
<1>1. SelectTrue'
    BY SelectStays DEF Rival
<1>2. QED
    BY <1>1, SelectsOnly DEF Rival

\* The invariant is inductive.
LEMMA NextIInv == IInv /\ [Next]_vars => IInv'
<1> SUFFICES ASSUME IInv, [Next]_vars PROVE IInv'
    OBVIOUS
<1>1. CASE UNCHANGED vars
    <2>1. SelectTrue'
        BY <1>1, SelectStays DEF vars
    <2>2. QED
        BY <1>1, <2>1, SelectsOnly DEF vars
<1>2. QED
    BY <1>1, OpenConfigStep, EditConfigStep, ConfigResponseStep, OpenSelectStep, StartScanStep,
       StopScanStep, TimeoutStep, EditSelectStep, SelectOKStep, SelectCancelStep, EndedStep,
       RivalStep DEF Next, Quit

\* The invariant holds.
LEMMA Invariance == Spec => []IInv
BY InitIInv, NextIInv, PTL DEF Spec

\* TypeOK, of every configuration: the link, the dialogs and the detection keep to their
\* types whatever is entered in whatever order.
THEOREM TypeCorrect == Spec => []TypeOK
<1>1. IInv => TypeOK
    BY DEF IInv
<1>2. QED
    BY <1>1, Invariance, PTL

\* LinkFollowsSettings: net_prefs_net_settings_changed_cb passes over no setting that
\* matters to the link, whichever dialog stores how many of them, and whether or not each
\* reconnection succeeds.
THEOREM LinkTracksSettings == Spec => []LinkFollowsSettings
<1>1. IInv => LinkFollowsSettings
    BY DEF IInv
<1>2. QED
    BY <1>1, Invariance, PTL

\* DialogShowsSettings: EVENT_PREFS_CHANGED keeps an unchanged configuration dialog on the
\* settings in force.
THEOREM DialogTracksSettings == Spec => []DialogShowsSettings
<1>1. IInv => DialogShowsSettings
    BY DEF IInv
<1>2. QED
    BY <1>1, Invariance, PTL

\* FailsOnlyIfTaken, if settings are left alone while a detection runs: the program never
\* takes from itself the port that it needs.  Without Patient it may, see the run Network.
THEOREM OnlyRivalsStopIt == ASSUME Patient PROVE Spec => []FailsOnlyIfTaken
<1>1. IInv => FailsOnlyIfTaken
    BY DEF IInv
<1>2. QED
    BY <1>1, Invariance, PTL

-----------------------------------------------------------------------------
\* The settings that a callback ends with, if it is not the other dialog's OK
StoresEntered ==
    cfg # None /\ sel' = sel /\ set' # set =>
        \A k \in DOMAIN cfg.fields : cfg.fields[k] # Bad => set'[k] = cfg.fields[k]

\* What the configuration dialog stores is what was entered in it.
LEMMA ConfigResponseStores ==
    ASSUME IInv, NEW b, ConfigResponse(b)
    PROVE  StoresEntered
<1>1. cfg # None /\ cfg \in ConfigDialog
    BY DEF ConfigResponse, IInv, TypeOK
<1>2. DOMAIN cfg.fields = {"type", "port", "mcast", "mask", "group"}
    BY <1>1 DEF ConfigDialog
<1> DEFINE read == Gathered(Now)
<1>3. Calm => /\ read \in Working /\ LinkTrue(read) /\ read.cfg # None
              /\ \A k \in {"type", "port", "mcast", "mask", "group"} :
                     cfg.fields[k] # Bad => read.set[k] = cfg.fields[k]
    BY <1>1, GatheredStep
<1>4. Now \in Working /\ Now.set = set
    BY NowTrue
<1>5. ASSUME NEW c \in Working, Become([c EXCEPT !.cfg = None])
      PROVE  set' = c.set
    BY <1>5 DEF Become, Working
<1>6. Calm => /\ Synced(read) \in Working
              /\ Synced(read).set = read.set /\ Synced(read).cfg # None
    BY <1>3, SyncedStep
<1> HIDE DEF read
<1>7. set' = set \/ (Calm /\ set' = read.set)
    <2>1. CASE b = "OK" /\ Calm /\ Become([(IF cfg.changed THEN read ELSE Now) EXCEPT !.cfg = None])
        <3>1. CASE cfg.changed
            BY <2>1, <3>1, <1>3, <1>5
        <3>2. CASE ~cfg.changed
            BY <2>1, <3>2, <1>4, <1>5
        <3>3. QED
            BY <3>1, <3>2
    <2>2. CASE b = "CANCEL" /\ Become([Now EXCEPT !.cfg = None])
        BY <2>2, <1>4, <1>5
    <2>3. CASE b = "APPLY" /\ Calm /\ Become(Synced(read))
        BY <2>3, <1>6 DEF Become
    <2>4. CASE b = "SAVE" /\ Calm /\ Become(Stored(Synced(read)))
        <3> DEFINE c == Synced(read)
        <3>1. c \in Working /\ c.set = read.set
            BY <2>4, <1>6
        <3>2. Become(Stored(c))
            BY <2>4
        <3> HIDE DEF c
        <3>3. Stored(c).set = c.set
            BY <3>1 DEF Stored, Working
        <3>4. QED
            BY <2>4, <3>1, <3>2, <3>3 DEF Become
    <2>5. QED
        BY <2>1, <2>2, <2>3, <2>4 DEF ConfigResponse, read
<1>8. QED
    BY <1>2, <1>3, <1>7 DEF StoresEntered

\* No other callback stores settings and leaves the selection dialog open.
LEMMA NextStores == IInv /\ [Next]_vars => StoresEntered
<1> SUFFICES ASSUME IInv, [Next]_vars PROVE StoresEntered
    OBVIOUS
<1>1. ASSUME set' = set PROVE StoresEntered
    BY <1>1 DEF StoresEntered
<1>2. CASE OpenConfig
    <2> DEFINE new == [fields |-> Shown(set), changed |-> FALSE, save |-> TRUE]
               c == IF cfg # None THEN Now ELSE [Now EXCEPT !.cfg = new]
    <2>1. set \in Setting
        BY DEF IInv, TypeOK
    <2>2. new \in ConfigDialog
        BY <2>1, ShownType DEF ConfigDialog
    <2> HIDE DEF new
    <2>3. c \in Working /\ LinkTrue(c) /\ c.set = set
        BY <2>2, NowTrue DEF Working, LinkTrue
    <2>4. Become(Synced(c))
        BY <1>2 DEF OpenConfig, new
    <2> HIDE DEF c
    <2>5. QED
        BY <2>3, <2>4, <1>1, SyncedStep DEF Become
<1>3. ASSUME NEW f \in Fields, EditConfig(f[1], f[2]) PROVE StoresEntered
    BY <1>1, <1>3 DEF EditConfig
<1>4. ASSUME NEW b, ConfigResponse(b) PROVE StoresEntered
    BY <1>4, ConfigResponseStores
<1>5. ASSUME OpenSelect \/ StopScan PROVE StoresEntered
    BY <1>1, <1>5 DEF OpenSelect, StopScan
<1>6. ASSUME NEW b, NEW e, NEW m, NEW g, StartScan(b, e, m, g) PROVE StoresEntered
    BY <1>1, <1>6 DEF StartScan
<1>7. ASSUME NEW answers, Timeout(answers) PROVE StoresEntered
    BY <1>1, <1>7 DEF Timeout
<1>8. ASSUME NEW r, EditSelect(r) PROVE StoresEntered
    BY <1>1, <1>8 DEF EditSelect
<1>9. CASE SelectOK
    BY <1>9 DEF SelectOK, StoresEntered
<1>10. ASSUME Ended PROVE StoresEntered
    <2>1. [Disconnected(Now) EXCEPT !.cfg = None].set = set
        BY DEF Disconnected, Now
    <2>2. QED
        BY <2>1, <1>1, <1>10 DEF Ended, Become
<1>11. CASE SelectCancel
    BY <1>11, <1>1, <1>10 DEF SelectCancel
<1>12. ASSUME NEW p, Rival(p) PROVE StoresEntered
    BY <1>1, <1>12 DEF Rival
<1>13. CASE UNCHANGED vars
    BY <1>1, <1>13 DEF vars
<1>14. QED
    BY <1>2, <1>3, <1>4, <1>5, <1>6, <1>7, <1>8, <1>9, <1>10, <1>11, <1>12, <1>13 DEF Next, Quit

\* StoredAsEntered: set_config_from_dlg loses no field of the dialog, although each setting
\* it stores is announced to the dialog it reads from.
THEOREM EnteredIsStored == Spec => StoredAsEntered
<1>1. IInv /\ [Next]_vars =>
        [cfg # None /\ sel' = sel /\ set' # set =>
           \A k \in DOMAIN cfg.fields : cfg.fields[k] # Bad => set'[k] = cfg.fields[k]]_vars
    BY NextStores DEF StoresEntered
<1>2. QED
    BY <1>1, Invariance, PTL DEF Spec, StoredAsEntered

-----------------------------------------------------------------------------
\* The users who enter ranges enter the lower port first.
Ordered == \A r \in Ranges : r[1] <= r[2]

\* How many kinds of network have been looked for in this part of the range
Kind(scan) == IF scan.type = "QCHAT" THEN 0 ELSE IF scan.mcast THEN 2 ELSE 1

\* What a detection has looked for when it comes to a part of its range
Swept(scan) ==
    {r \in [type : NetTypes, port : scan.begin .. scan.end, mcast : BOOLEAN] :
        /\ r.type = "QCHAT" => ~r.mcast
        /\ \/ r.port < scan.first
           \/ r.port \in Part(scan) /\ Kind(r) <= Kind(scan)}

\* Where a detection stands: the step is the number of whole parts and kinds behind it,
\* and all that lies behind it has been tried.
ScanTrue(scan, tried) ==
    /\ scan.begin <= scan.first /\ scan.first <= scan.end
    /\ \E q \in Nat : scan.first = scan.begin + q * Step /\ scan.step = 3 * q + Kind(scan)
    /\ scan.type = "QCHAT" => ~scan.mcast
    /\ tried = Swept(scan)

\* The invariant of the detection in progress, if there is one
DetectionTrue == sel # None /\ sel.scan # None => ScanTrue(sel.scan, seen)

\* How a count of parts relates to the quotient of detect_num_steps
LEMMA Quotient ==
    ASSUME NEW n \in Nat, NEW d \in Nat \ {0}, NEW q \in Nat
    PROVE  /\ q * d <= n => q <= n \div d
           /\ n < (q + 1) * d => n \div d <= q
OBVIOUS

\* QuickChat, Vypress without multicast and with it
LEMMA KindsOfNetwork == Cardinality(NetTypes) + 1 = 3
<1>1. NetTypes = {"QCHAT"} \cup {"VYPRESS"}
    BY DEF NetTypes
<1>2. IsFiniteSet({"QCHAT"}) /\ Cardinality({"QCHAT"}) = 1 /\ "VYPRESS" \notin {"QCHAT"}
    BY FS_Singleton
<1>3. Cardinality(NetTypes) = 2
    BY <1>1, <1>2, FS_AddElement
<1>4. QED
    BY <1>3

\* A detection takes the announced number of steps.
LEMMA StepsCounted ==
    ASSUME NEW scan \in Detection, NEW tried, ScanTrue(scan, tried)
    PROVE  /\ scan.step < NumSteps(scan)
           /\ Finished(scan) => scan.step = NumSteps(scan) - 1
<1>1. /\ scan.begin \in Nat /\ scan.end \in Nat /\ scan.first \in Nat
      /\ Step \in Nat \ {0}
    BY PortsAssumption, StepAssumption DEF Detection
<1>2. PICK q \in Nat : scan.first = scan.begin + q * Step /\ scan.step = 3 * q + Kind(scan)
    BY DEF ScanTrue
<1> DEFINE n == scan.end - scan.begin + 1 + Step - 1
           d == n \div Step
<1>3. n \in Nat /\ (q + 1) * Step <= n
    <2>1. (q + 1) * Step = q * Step + Step
        BY <1>1
    <2>2. q * Step \in Nat
        BY <1>1
    <2>3. QED
        BY <1>1, <1>2, <2>1, <2>2 DEF ScanTrue
<1>4. Finished(scan) => n < (q + 1 + 1) * Step
    <2>1. (q + 1 + 1) * Step = q * Step + Step + Step
        BY <1>1
    <2>2. q * Step \in Nat
        BY <1>1
    <2>3. QED
        BY <1>1, <1>2, <2>1, <2>2 DEF Finished
<1> HIDE DEF n
<1>5. d \in Int /\ q + 1 <= d /\ (Finished(scan) => d <= q + 1)
    <2>1. q + 1 \in Nat
        OBVIOUS
    <2>2. q + 1 <= d /\ (Finished(scan) => d <= q + 1)
        BY <1>1, <1>3, <1>4, <2>1, Quotient
    <2>3. d \in Int
        BY <1>1, <1>3
    <2>4. QED
        BY <2>2, <2>3
<1>6. NumSteps(scan) = d * 3
    BY KindsOfNetwork DEF NumSteps, n
<1> HIDE DEF d
<1>7. Kind(scan) \in 0 .. 2 /\ (Finished(scan) => Kind(scan) = 2)
    BY DEF Kind, Finished
<1>8. QED
    BY <1>2, <1>5, <1>6, <1>7

\* A detection that runs to its end has looked for every kind on every port.
LEMMA SweptAll ==
    ASSUME NEW scan \in Detection, NEW tried, ScanTrue(scan, tried), Finished(scan)
    PROVE  tried = UNION {{Row("QCHAT", p, FALSE), Row("VYPRESS", p, FALSE), Row("VYPRESS", p, TRUE)}
                            : p \in scan.begin .. scan.end}
<1>1. /\ scan.begin \in Nat /\ scan.end \in Nat /\ scan.first \in Nat
      /\ Step \in Nat \ {0}
    BY PortsAssumption, StepAssumption DEF Detection
<1>2. Part(scan) = scan.first .. scan.end
    BY <1>1 DEF Finished, Part, Least
<1>3. Kind(scan) = 2
    BY DEF Kind, Finished
<1>4. \A p \in scan.begin .. scan.end : p < scan.first \/ p \in Part(scan)
    BY <1>1, <1>2
<1>5. tried = {r \in [type : NetTypes, port : scan.begin .. scan.end, mcast : BOOLEAN] :
                   r.type = "QCHAT" => ~r.mcast}
    BY <1>3, <1>4 DEF ScanTrue, Swept, Kind
<1>6. ASSUME NEW r \in tried
      PROVE  \E p \in scan.begin .. scan.end :
                 r \in {Row("QCHAT", p, FALSE), Row("VYPRESS", p, FALSE), Row("VYPRESS", p, TRUE)}
    <2>1. /\ r = Row(r.type, r.port, r.mcast) /\ r.port \in scan.begin .. scan.end
          /\ r.type \in {"QCHAT", "VYPRESS"} /\ r.mcast \in BOOLEAN
          /\ r.type = "QCHAT" => ~r.mcast
        BY <1>5 DEF Row, NetTypes
    <2>2. \/ r = Row("QCHAT", r.port, FALSE)
          \/ r = Row("VYPRESS", r.port, FALSE)
          \/ r = Row("VYPRESS", r.port, TRUE)
        BY <2>1
    <2>3. QED
        BY <2>1, <2>2
<1>7. ASSUME NEW p \in scan.begin .. scan.end
      PROVE  {Row("QCHAT", p, FALSE), Row("VYPRESS", p, FALSE), Row("VYPRESS", p, TRUE)} \subseteq tried
    BY <1>5 DEF Row, NetTypes
<1> DEFINE kinds(p) == {Row("QCHAT", p, FALSE), Row("VYPRESS", p, FALSE), Row("VYPRESS", p, TRUE)}
<1>8. /\ \A r \in tried : \E p \in scan.begin .. scan.end : r \in kinds(p)
      /\ \A p \in scan.begin .. scan.end : kinds(p) \subseteq tried
    BY <1>6, <1>7
<1> HIDE DEF kinds
<1>9. tried = UNION {kinds(p) : p \in scan.begin .. scan.end}
    BY <1>8
<1>10. QED
    BY <1>9 DEF kinds

\* A detection begins with the first kind of network on the first part of its range.
LEMMA ScanBegins ==
    ASSUME NEW b \in Ports, NEW e \in Ports, b <= e
    PROVE  LET scan == [begin |-> b, end |-> e, first |-> b, type |-> "QCHAT", mcast |-> FALSE, step |-> 0]
           IN  scan \in Detection /\ ScanTrue(scan, Tried(scan))
<1> DEFINE scan == [begin |-> b, end |-> e, first |-> b, type |-> "QCHAT", mcast |-> FALSE, step |-> 0]
<1>1. b \in Nat /\ e \in Nat /\ Step \in Nat \ {0}
    BY PortsAssumption, StepAssumption
<1>2. scan \in Detection
    BY <1>1 DEF Detection, NetTypes
<1>3. /\ scan.begin = b /\ scan.end = e /\ scan.first = b /\ scan.type = "QCHAT"
      /\ scan.mcast = FALSE /\ scan.step = 0
    OBVIOUS
<1> HIDE DEF scan
<1>4. Kind(scan) = 0 /\ scan.first = scan.begin + 0 * Step /\ scan.step = 3 * 0 + Kind(scan)
    BY <1>1, <1>3 DEF Kind
<1>5. Part(scan) \subseteq b .. e
    BY <1>1, <1>3 DEF Part, Least
<1>6. Tried(scan) = Swept(scan)
    <2>1. ASSUME NEW r \in Tried(scan) PROVE r \in Swept(scan)
        <3>1. PICK p \in Part(scan) : r = Row("QCHAT", p, FALSE)
            BY <1>3 DEF Tried
        <3>2. /\ r \in [type : NetTypes, port : b .. e, mcast : BOOLEAN]
              /\ r.type = "QCHAT" /\ r.mcast = FALSE /\ r.port \in Part(scan)
            BY <3>1, <1>5 DEF Row, NetTypes
        <3>3. Kind(r) = 0
            BY <3>2 DEF Kind
        <3>4. QED
            BY <3>2, <3>3, <1>3, <1>4 DEF Swept
    <2>2. ASSUME NEW r \in Swept(scan) PROVE r \in Tried(scan)
        <3>1. /\ r \in [type : NetTypes, port : b .. e, mcast : BOOLEAN]
              /\ r.port \in Part(scan) /\ Kind(r) <= 0 /\ (r.type = "QCHAT" => ~r.mcast)
            BY <1>1, <1>3, <1>4 DEF Swept
        <3>2. r.type = "QCHAT" /\ r.mcast = FALSE
            BY <3>1 DEF Kind
        <3>3. r = Row("QCHAT", r.port, FALSE)
            BY <3>1, <3>2 DEF Row
        <3>4. QED
            BY <3>1, <3>3, <1>3 DEF Tried
    <2>3. QED
        BY <2>1, <2>2
<1>7. ScanTrue(scan, Tried(scan))
    <2>1. \E q \in Nat : scan.first = scan.begin + q * Step /\ scan.step = 3 * q + Kind(scan)
        BY <1>4
    <2>2. QED
        BY <2>1, <1>1, <1>3, <1>6 DEF ScanTrue
<1>8. QED
    BY <1>2, <1>7 DEF scan

\* The rows of the next kind of network
LEMMA SweepsOn ==
    ASSUME NEW scan \in Detection, NEW next \in Detection,
           scan.begin <= scan.first, scan.first <= scan.end,
           scan.type = "QCHAT" => ~scan.mcast,
           next.begin = scan.begin, next.end = scan.end, next.first = scan.first,
           next.type = "VYPRESS", Kind(next) = Kind(scan) + 1
    PROVE  Swept(next) = Swept(scan) \cup Tried(next)
<1>1. /\ scan.begin \in Nat /\ scan.end \in Nat /\ scan.first \in Nat
      /\ Step \in Nat \ {0}
    BY PortsAssumption, StepAssumption DEF Detection
<1>2. Part(next) = Part(scan) /\ Part(scan) \subseteq scan.begin .. scan.end
    BY <1>1 DEF Part, Least
<1>3. \A r \in [type : NetTypes, port : scan.begin .. scan.end, mcast : BOOLEAN] :
          /\ Kind(r) \in 0 .. 2
          /\ (r.type = "QCHAT" => ~r.mcast) =>
                (Kind(r) = Kind(next) <=> r.type = next.type /\ r.mcast = next.mcast)
    BY DEF Kind, NetTypes, Detection
<1>4. Kind(next) \in 1 .. 2 /\ Kind(scan) \in 0 .. 1
    BY DEF Kind
<1>5. \A r \in [type : NetTypes, port : scan.begin .. scan.end, mcast : BOOLEAN] :
          Kind(r) <= Kind(next) <=> Kind(r) <= Kind(scan) \/ Kind(r) = Kind(next)
    BY <1>3, <1>4
<1>6. ASSUME NEW r \in Swept(next) PROVE r \in Swept(scan) \cup Tried(next)
    <2>1. /\ r \in [type : NetTypes, port : scan.begin .. scan.end, mcast : BOOLEAN]
          /\ r.type = "QCHAT" => ~r.mcast
          /\ r.port < scan.first \/ (r.port \in Part(scan) /\ Kind(r) <= Kind(next))
        BY <1>2 DEF Swept
    <2>2. CASE Kind(r) = Kind(next) /\ r.port \in Part(scan)
        <3>1. r = Row(next.type, r.port, next.mcast)
            BY <2>1, <2>2, <1>3 DEF Row
        <3>2. QED
            BY <3>1, <2>2, <1>2 DEF Tried
    <2>3. CASE r.port < scan.first \/ (r.port \in Part(scan) /\ Kind(r) <= Kind(scan))
        BY <2>1, <2>3 DEF Swept
    <2>4. QED
        BY <2>1, <2>2, <2>3, <1>5
<1>7. ASSUME NEW r \in Swept(scan) PROVE r \in Swept(next)
    BY <1>2, <1>5 DEF Swept
<1>8. ASSUME NEW r \in Tried(next) PROVE r \in Swept(next)
    <2>1. PICK p \in Part(next) : r = Row(next.type, p, next.mcast)
        BY DEF Tried
    <2>2. r \in [type : NetTypes, port : scan.begin .. scan.end, mcast : BOOLEAN]
        BY <2>1, <1>2 DEF Row, Detection
    <2>3. r.type = next.type /\ r.mcast = next.mcast /\ r.port \in Part(next)
        BY <2>1 DEF Row
    <2>4. Kind(r) = Kind(next) /\ (r.type = "QCHAT" => ~r.mcast)
        BY <2>3 DEF Kind
    <2>5. QED
        BY <2>2, <2>3, <2>4, <1>4 DEF Swept
<1>9. QED
    BY <1>6, <1>7, <1>8

\* dlg_advance_detect_step leaves out no kind of network and no port.
LEMMA ScanAdvances ==
    ASSUME NEW scan \in Detection, NEW tried, ScanTrue(scan, tried), ~Finished(scan)
    PROVE  ScanTrue(Advanced(scan), tried \cup Tried(Advanced(scan)))
<1>1. /\ scan.begin \in Nat /\ scan.end \in Nat /\ scan.first \in Nat /\ scan.step \in Nat
      /\ Step \in Nat \ {0}
    BY PortsAssumption, StepAssumption DEF Detection
<1>2. PICK q \in Nat : scan.first = scan.begin + q * Step /\ scan.step = 3 * q + Kind(scan)
    BY DEF ScanTrue
<1>3. /\ scan.begin <= scan.first /\ scan.first <= scan.end
      /\ scan.type = "QCHAT" => ~scan.mcast
      /\ tried = Swept(scan)
    BY DEF ScanTrue
<1> DEFINE next == Advanced(scan)
<1>4. next \in Detection
    BY <1>3, AdvancedType
<1>5. CASE Kind(scan) # 2
    <2>1. /\ next.begin = scan.begin /\ next.end = scan.end /\ next.first = scan.first
          /\ next.type = "VYPRESS" /\ next.step = scan.step + 1 /\ Kind(next) = Kind(scan) + 1
        <3>1. CASE scan.type = "QCHAT"
            <4>1. next = [scan EXCEPT !.step = @ + 1, !.type = "VYPRESS", !.mcast = FALSE]
                BY <3>1 DEF Advanced, Detection
            <4> HIDE DEF next
            <4>2. QED
                BY <3>1, <4>1 DEF Kind, Detection, NetTypes
        <3>2. CASE scan.type # "QCHAT"
            <4>1. scan.type = "VYPRESS" /\ ~scan.mcast
                BY <3>2, <1>5 DEF Kind, Detection, NetTypes
            <4>2. next = [scan EXCEPT !.step = @ + 1, !.mcast = TRUE]
                BY <4>1 DEF Advanced, Detection
            <4> HIDE DEF next
            <4>3. QED
                BY <4>1, <4>2 DEF Kind, Detection, NetTypes
        <3>3. QED
            BY <3>1, <3>2
    <2> HIDE DEF next
    <2>2. Swept(next) = tried \cup Tried(next)
        BY <1>3, <1>4, <2>1, SweepsOn
    <2>3. Kind(scan) \in Nat
        BY DEF Kind
    <2>4. next.step = 3 * q + Kind(next)
        BY <1>2, <2>1, <2>3
    <2>5. QED
        BY <1>2, <1>3, <2>1, <2>2, <2>4 DEF ScanTrue, next
<1>6. CASE Kind(scan) = 2
    <2>1. scan.type = "VYPRESS" /\ scan.mcast
        BY <1>6 DEF Kind, Detection, NetTypes
    <2>2. next = [scan EXCEPT !.step = @ + 1, !.type = "QCHAT", !.mcast = FALSE, !.first = @ + Step]
        BY <2>1 DEF Advanced, Detection
    <2> HIDE DEF next
    <2>3. /\ next.begin = scan.begin /\ next.end = scan.end /\ next.first = scan.first + Step
          /\ next.type = "QCHAT" /\ next.mcast = FALSE /\ next.step = scan.step + 1
        BY <2>2 DEF Detection
    <2>4. Kind(next) = 0
        BY <2>3 DEF Kind
    <2>5. scan.first + Step <= scan.end
        BY <2>1, <1>1 DEF Finished
    <2>6. /\ next.first = next.begin + (q + 1) * Step /\ next.step = 3 * (q + 1) + Kind(next)
          /\ q + 1 \in Nat
        <3>1. (q + 1) * Step = q * Step + Step /\ q * Step \in Nat
            BY <1>1
        <3>2. QED
            BY <3>1, <1>1, <1>2, <1>6, <2>3, <2>4
    <2>7. /\ Part(scan) = scan.first .. scan.first + Step - 1
          /\ Part(next) \subseteq scan.first + Step .. scan.end
        BY <1>1, <2>3, <2>5 DEF Part, Least
    <2> DEFINE R == [type : NetTypes, port : scan.begin .. scan.end, mcast : BOOLEAN]
    <2>8. \A r \in R : Kind(r) \in 0 .. 2 /\ ((r.type = "QCHAT" => ~r.mcast) => (Kind(r) = 0 <=> r.type = "QCHAT" /\ r.mcast = FALSE))
        BY DEF Kind
    <2>9. \A r \in R : r.port < next.first <=> r.port < scan.first \/ r.port \in Part(scan)
        BY <1>1, <2>3, <2>7
    <2>10. tried = {r \in R : (r.type = "QCHAT" => ~r.mcast) /\ r.port < next.first}
        <3>1. \A r \in R : Kind(r) <= Kind(scan)
            BY <2>8, <1>6
        <3>2. QED
            BY <3>1, <2>9, <1>3 DEF Swept
    <2>11. Tried(next) = {r \in R : /\ r.type = "QCHAT" => ~r.mcast
                                    /\ r.port \in Part(next) /\ Kind(r) <= 0}
        <3>1. ASSUME NEW r \in R, r.type = "QCHAT" => ~r.mcast, r.port \in Part(next), Kind(r) <= 0
              PROVE  r \in Tried(next)
            <4>1. r = Row("QCHAT", r.port, FALSE)
                BY <3>1, <2>8 DEF Row
            <4>2. QED
                BY <4>1, <3>1, <2>3 DEF Tried
        <3>2. ASSUME NEW p \in Part(next)
              PROVE  /\ Row("QCHAT", p, FALSE) \in R
                     /\ Kind(Row("QCHAT", p, FALSE)) = 0
                     /\ Row("QCHAT", p, FALSE).port \in Part(next)
                     /\ ~Row("QCHAT", p, FALSE).mcast
            BY <2>7, <1>1, <1>3 DEF Row, Kind, NetTypes
        <3>3. Tried(next) = {Row("QCHAT", p, FALSE) : p \in Part(next)}
            BY <2>3 DEF Tried
        <3> DEFINE T == {r \in R : /\ r.type = "QCHAT" => ~r.mcast
                                   /\ r.port \in Part(next) /\ Kind(r) <= 0}
        <3>4. T \subseteq Tried(next)
            BY <3>1
        <3>5. ASSUME NEW p \in Part(next) PROVE Row("QCHAT", p, FALSE) \in T
            <4> DEFINE row == Row("QCHAT", p, FALSE)
            <4>1. /\ row \in R /\ Kind(row) = 0 /\ row.port \in Part(next) /\ ~row.mcast
                BY <3>2
            <4> HIDE DEF row, R
            <4>2. row \in T
                BY <4>1
            <4>3. QED
                BY <4>2 DEF row
        <3> HIDE DEF T
        <3>6. Tried(next) = T
            BY <3>3, <3>4, <3>5
        <3>7. QED
            BY <3>6 DEF T
    <2>12. Swept(next) = tried \cup Tried(next)
        BY <2>3, <2>4, <2>10, <2>11 DEF Swept
    <2>13. next.begin <= next.first /\ next.first <= next.end
        BY <1>1, <1>3, <2>3, <2>5
    <2>14. QED
        BY <2>3, <2>6, <2>12, <2>13 DEF ScanTrue, next
<1>7. QED
    BY <1>5, <1>6

\* The detection the program starts with, if the network is not configured
LEMMA InitDetection == Init => DetectionTrue
<1> SUFFICES ASSUME Init, sel # None, sel.scan # None PROVE ScanTrue(sel.scan, seen)
    BY DEF DetectionTrue
<1> DEFINE scan == [begin |-> Begin, end |-> End, first |-> Begin, type |-> "QCHAT",
                    mcast |-> FALSE, step |-> 0]
<1>1. ~set.configured
    BY DEF Init
<1>2. sel = [first |-> None, type |-> set.type, port |-> set.port, mcast |-> set.mcast,
             mask |-> set.mask, group |-> set.group, scan |-> scan]
    BY <1>1 DEF Init
<1>3. seen = Tried(scan)
    BY <1>1 DEF Init
<1>4. ScanTrue(scan, Tried(scan))
    BY PortsAssumption, StepAssumption, ScanBegins
<1> HIDE DEF scan
<1>5. QED
    BY <1>2, <1>3, <1>4

\* dlg_start_detection starts a true detection.
LEMMA ScanForDetects ==
    ASSUME NEW d \in [type : NetTypes, port : Ports, mcast : BOOLEAN, first : NetworkRow \cup {None},
                      mask : Masks \cup {None}, group : Groups \cup {None},
                      scan : Detection \cup {None}],
           NEW b \in Ports, NEW e \in Ports, NEW mask, NEW group, b <= e,
           ScanFor(d, b, e, mask, group)
    PROVE  DetectionTrue'
<1> DEFINE scan == [begin |-> b, end |-> e, first |-> b, type |-> "QCHAT", mcast |-> FALSE, step |-> 0]
           own == Row(set.type, set.port, set.type = "VYPRESS" /\ set.mcast)
           row == IF net # None /\ set.port \in b .. e THEN own ELSE None
<1>1. ScanTrue(scan, Tried(scan))
    BY ScanBegins
<1>2. sel' = [d EXCEPT !.first = row, !.mask = mask, !.group = group, !.scan = scan]
    BY DEF ScanFor, Scan
<1> HIDE DEF scan, row
<1>3. sel'.scan = scan
    BY <1>2
<1>4. seen' = Tried(scan)
    BY <1>3 DEF ScanFor
<1>5. QED
    BY <1>1, <1>3, <1>4 DEF DetectionTrue

\* The invariant of the detection is inductive.
LEMMA NextDetection ==
    ASSUME Ordered
    PROVE  IInv /\ DetectionTrue /\ [Next]_vars => DetectionTrue'
<1> SUFFICES ASSUME IInv, DetectionTrue, [Next]_vars PROVE DetectionTrue'
    OBVIOUS
<1>1. ASSUME UNCHANGED <<sel, seen>> PROVE DetectionTrue'
    BY <1>1 DEF DetectionTrue
<1>2. ASSUME sel' = None \/ sel'.scan = None PROVE DetectionTrue'
    BY <1>2 DEF DetectionTrue
<1>3. sel \in SelectDialog \cup {None} /\ set \in Setting
    BY DEF IInv, TypeOK
<1>4. CASE OpenSelect
    <2>1. NewDialog \in [type : NetTypes, port : Ports, mcast : BOOLEAN, first : NetworkRow \cup {None},
                         mask : Masks \cup {None}, group : Groups \cup {None},
                         scan : Detection \cup {None}]
        BY <1>3 DEF NewDialog, Setting
    <2>2. Begin \in Ports /\ End \in Ports /\ Begin <= End
        BY PortsAssumption, StepAssumption
    <2>3. ScanFor(NewDialog, Begin, End, set.mask, set.group)
        BY <1>4 DEF OpenSelect
    <2> HIDE DEF NewDialog
    <2>4. QED
        BY <2>1, <2>2, <2>3, ScanForDetects
<1>5. ASSUME NEW r \in Ranges, NEW m \in Masks \cup {Bad}, NEW g \in Groups \cup {Bad},
             StartScan(r[1], r[2], m, g)
      PROVE  DetectionTrue'
    <2>1. sel \in SelectDialog /\ sel.scan = None
        BY <1>3, <1>5 DEF StartScan
    <2>2. CASE Bad \notin {m, g}
        <3>1. sel \in [type : NetTypes, port : Ports, mcast : BOOLEAN, first : NetworkRow \cup {None},
                       mask : Masks \cup {None}, group : Groups \cup {None},
                       scan : Detection \cup {None}]
            BY <2>1 DEF SelectDialog
        <3>2. r[1] \in Ports /\ r[2] \in Ports /\ r[1] <= r[2]
            BY PortsAssumption DEF Ordered
        <3>3. ScanFor(sel, r[1], r[2], m, g)
            BY <1>5, <2>2 DEF StartScan
        <3>4. QED
            BY <3>1, <3>2, <3>3, ScanForDetects
    <2>3. CASE Bad \in {m, g}
        <3>1. sel' = [sel EXCEPT !.mask = IF m = Bad THEN @ ELSE m]
            BY <1>5, <2>3 DEF StartScan
        <3>2. sel'.scan = None
            BY <2>1, <3>1 DEF SelectDialog
        <3>3. QED
            BY <3>2, <1>2
    <2>4. QED
        BY <2>2, <2>3
<1>6. CASE StopScan
    <2>1. sel \in SelectDialog
        BY <1>3, <1>6 DEF StopScan
    <2>2. QED
        BY <2>1, <1>2, <1>6 DEF StopScan, Stopped, SelectDialog
<1>7. ASSUME NEW answers \in SUBSET Answering, Timeout(answers) PROVE DetectionTrue'
    <2>1. sel \in SelectDialog /\ sel # None /\ sel.scan # None
        BY <1>3, <1>7 DEF Timeout
    <2>2. sel.scan \in Detection /\ ScanTrue(sel.scan, seen)
        BY <2>1 DEF SelectDialog, DetectionTrue
    <2> DEFINE found == IF sel.first = None /\ answers # {} THEN CHOOSE r \in answers : TRUE ELSE sel.first
               next == Advanced(sel.scan)
    <2>3. CASE Finished(sel.scan)
        <3>1. /\ DOMAIN sel = {"type", "port", "mcast", "first", "mask", "group", "scan"}
              /\ \A row : DOMAIN Chosen(sel, row) = DOMAIN sel
            BY <2>1 DEF SelectDialog, Chosen
        <3>2. sel' = [(IF found = None THEN sel ELSE Chosen(sel, found)) EXCEPT !.scan = None, !.first = None]
            BY <1>7, <2>3 DEF Timeout
        <3> HIDE DEF found
        <3>3. sel'.scan = None
            BY <3>1, <3>2
        <3>4. QED
            BY <3>3, <1>2
    <2>4. CASE ~Finished(sel.scan)
        <3>1. /\ sel' = [sel EXCEPT !.scan = next, !.first = found]
              /\ seen' = seen \cup Tried(next)
            BY <1>7, <2>4 DEF Timeout
        <3>2. ScanTrue(next, seen \cup Tried(next))
            BY <2>2, <2>4, ScanAdvances
        <3> HIDE DEF next, found
        <3>3. sel'.scan = next
            BY <2>1, <3>1 DEF SelectDialog
        <3>4. QED
            BY <3>1, <3>2, <3>3 DEF DetectionTrue
    <2>5. QED
        BY <2>3, <2>4
<1>8. ASSUME NEW r \in Rows, EditSelect(r) PROVE DetectionTrue'
    <2>1. sel \in SelectDialog /\ sel # None /\ sel' = Chosen(sel, r) /\ seen' = seen
        BY <1>3, <1>8 DEF EditSelect
    <2>2. sel'.scan = sel.scan
        BY <2>1 DEF Chosen, SelectDialog
    <2>3. QED
        BY <2>1, <2>2 DEF DetectionTrue
<1>9. ASSUME Ended PROVE DetectionTrue'
    BY <1>2, <1>9 DEF Ended
<1>10. ASSUME SelectOK \/ SelectCancel PROVE DetectionTrue'
    BY <1>2, <1>9, <1>10 DEF SelectOK, SelectCancel
<1>11. ASSUME NEW f, NEW v, EditConfig(f, v) PROVE DetectionTrue'
    BY <1>1, <1>11 DEF EditConfig
<1>12. ASSUME NEW b, ConfigResponse(b) PROVE DetectionTrue'
    BY <1>1, <1>12 DEF ConfigResponse
<1>13. ASSUME OpenConfig PROVE DetectionTrue'
    BY <1>1, <1>13 DEF OpenConfig
<1>14. ASSUME NEW p, Rival(p) PROVE DetectionTrue'
    BY <1>1, <1>14 DEF Rival
<1>15. CASE UNCHANGED vars
    BY <1>1, <1>15 DEF vars
<1>16. QED
    BY <1>4, <1>5, <1>6, <1>7, <1>8, <1>9, <1>10, <1>11, <1>12, <1>13, <1>14, <1>15
    DEF Next, Quit

\* DetectionComplete, of any ranges entered in order: a detection that runs to its end has
\* tried everything, in the number of steps announced, and one that has ended holds no port.
THEOREM DetectionIsComplete == ASSUME Ordered PROVE Spec => []DetectionComplete
<1>1. IInv /\ DetectionTrue => DetectionComplete
    <2> SUFFICES ASSUME IInv, DetectionTrue PROVE DetectionComplete
        OBVIOUS
    <2>1. links # {} => sel # None /\ sel.scan # None
        BY DEF IInv
    <2>2. ASSUME sel # None, sel.scan # None
          PROVE  sel.scan \in Detection /\ ScanTrue(sel.scan, seen)
        BY <2>2 DEF IInv, TypeOK, SelectDialog, DetectionTrue
    <2>3. QED
        BY <2>1, <2>2, StepsCounted, SweptAll DEF DetectionComplete
<1>2. IInv /\ DetectionTrue /\ [Next]_vars => DetectionTrue'
    BY NextDetection
<1>3. QED
    BY <1>1, <1>2, InitDetection, Invariance, PTL DEF Spec
==============================================================================
