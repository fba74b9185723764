----------------------------- MODULE DeskProofs -----------------------------
(***************************************************************************)
(* The windows, the list of users, the dialog of ignored users and the     *)
(* info tip show what the list of users holds, for any nicknames, memory   *)
(* blocks and numbers of windows.                                          *)
(*                                                                         *)
(* The tip: TipTellsOfPointed is inductive once the tip is known to be a   *)
(* record of its fields.  Only an answer of the user of the tip is taken,  *)
(* and the timer shows what there is, of that user, once.                  *)
(*                                                                         *)
(* The rest follows the list by its events alone: module UserListProofs    *)
(* shows that they lead, one legal event after another, from the list      *)
(* before an operation to the list after it.  A window, the rows and the   *)
(* icons are each true to a view of the list, and remain so by one legal   *)
(* event; so, folded over the events, they are true to the list.  That is  *)
(* why a removal may be told twice, and why the order of a removal and of  *)
(* who then comes with the same name or in the same memory matters.        *)
(***************************************************************************)
EXTENDS Desk, UserListProofs

\* The tip is a record of these fields.
TipShape ==
    /\ tip = [user |-> tip.user, rect |-> tip.rect, waiting |-> tip.waiting,
              content |-> tip.content, shown |-> tip.shown, timer |-> tip.timer]
    /\ tip.rect \in BOOLEAN /\ tip.waiting \in BOOLEAN /\ tip.timer \in BOOLEAN

TipInv == TipShape /\ TipTellsOfPointed

\* With no tip there is nothing to tell.
LEMMA NoTipKeeps ==
    ASSUME tip' = NoTip
    PROVE  TipInv'
<1>1. tip' = [user |-> Null, rect |-> FALSE, waiting |-> FALSE, content |-> {},
              shown |-> {}, timer |-> FALSE]
    BY DEF NoTip
<1>2. TipShape'
    BY <1>1 DEF TipShape
<1>3. tip'.content = {} /\ tip'.shown = {}
    BY <1>1
<1>4. QED
    BY <1>2, <1>3 DEF TipInv, TipTellsOfPointed

\* The pointer gets on a row.
LEMMA PointAtKeeps ==
    ASSUME NEW u, tip' = TipStarted(u)
    PROVE  TipInv'
<1>1. tip' = [user |-> u, rect |-> TRUE, waiting |-> u # Null,
              content |-> IF u = Null THEN {u} ELSE {}, shown |-> {}, timer |-> TRUE]
    BY DEF TipStarted
<1>2. TipShape'
    BY <1>1 DEF TipShape
<1>3. tip'.user = u /\ tip'.content \subseteq {u} /\ tip'.shown = {} /\ tip'.rect
    BY <1>1
<1>4. QED
    BY <1>2, <1>3 DEF TipInv, TipTellsOfPointed

\* The timer goes off: the tip is about its user, and no tip has no timer.
LEMMA TimedOutKeeps ==
    ASSUME TipInv, tip.timer, tip' = TipTimedOut(tip)
    PROVE  TipInv'
<1>1. tip' = [user |-> tip.user, rect |-> tip.rect, waiting |-> tip.waiting, content |-> {},
              shown |-> IF tip.content = {} THEN {tip.user} ELSE tip.content, timer |-> FALSE]
    BY DEF TipTimedOut, TipInv, TipShape
<1>2. tip.rect
    BY DEF TipInv, TipShape, TipTellsOfPointed, NoTip
<1>3. TipShape'
    BY <1>1 DEF TipShape, TipInv
<1>4. /\ tip'.user = tip.user /\ tip'.content = {} /\ tip'.shown \subseteq {tip.user}
      /\ ~tip'.timer /\ tip'.rect
    BY <1>1, <1>2 DEF TipInv, TipTellsOfPointed
<1>5. QED
    BY <1>3, <1>4 DEF TipInv, TipTellsOfPointed

\* An answer comes: it is taken from the user of the tip only.
LEMMA AnsweredKeeps ==
    ASSUME TipInv, NEW u, tip' = TipAnswered(tip, u)
    PROVE  TipInv'
<1>1. CASE tip.waiting /\ u = tip.user
    <2>1. tip' = [user |-> tip.user, rect |-> tip.rect, waiting |-> FALSE, content |-> {u},
                  shown |-> tip.shown, timer |-> tip.timer]
        BY <1>1 DEF TipAnswered, TipInv, TipShape
    <2>2. tip.rect
        BY <1>1 DEF TipInv, TipShape, TipTellsOfPointed, NoTip
    <2>3. TipShape'
        BY <2>1 DEF TipShape, TipInv
    <2>4. /\ tip'.user = u /\ tip'.content = {u} /\ tip'.shown = tip.shown
          /\ tip'.timer = tip.timer /\ tip'.rect
        BY <1>1, <2>1, <2>2
    <2>5. QED
        BY <1>1, <2>3, <2>4 DEF TipInv, TipTellsOfPointed
<1>2. CASE ~(tip.waiting /\ u = tip.user)
    <2>1. tip' = tip
        BY <1>2 DEF TipAnswered
    <2>2. QED
        BY <2>1 DEF TipInv, TipShape, TipTellsOfPointed
<1>3. QED
    BY <1>1, <1>2

\* What concerns the users, the windows and the ignored leaves the tip alone.
LEMMA OthersKeepTip ==
    ASSUME Next,
           ~\E i \in DOMAIN rows : PointAt(i), ~PointAway, ~TipTimeout,
           ~\E u \in Users(users) : InfoReply(u)
    PROVE  tip' = tip
<1>1. ASSUME NEW n \in Nicks, NEW m \in Modes, Hear(n, m) PROVE tip' = tip
    BY <1>1 DEF Hear
<1>2. ASSUME NEW u \in Users(users), (\E n \in Nicks : Rename(u, n)) \/ Leave(u) \/ Message(u)
      PROVE  tip' = tip
    BY <1>2 DEF Rename, Leave, Message
<1>3. ASSUME RemoveUnreplied \/ Connect \/ Disconnect \/ Quit \/ ShowDialog \/ CloseDialog
      PROVE  tip' = tip
    BY <1>3 DEF RemoveUnreplied, Connect, Disconnect, Quit, ShowDialog, CloseDialog
<1>4. ASSUME NEW keep \in BOOLEAN,
             RefreshList(keep) \/ \E mute \in SUBSET Users(users) : Round(mute, keep)
      PROVE  tip' = tip
    BY <1>4 DEF RefreshList, Round
<1>5. ASSUME (\E m \in Modes : ChangeMode(m)) \/ (\E n \in MyNicks : ChangeNick(n))
      PROVE  tip' = tip
    BY <1>5 DEF ChangeMode, ChangeNick
<1>6. ASSUME \/ \E n \in Nicks : WriteTo(n)
             \/ \E i \in DOMAIN windows : Reply(i) \/ CloseWindow(i)
      PROVE  tip' = tip
    BY <1>6 DEF WriteTo, Reply, CloseWindow
<1>7. ASSUME UnignoreAll \/ \E n \in Ignorable : Ignore(n) \/ Unignore(n)
      PROVE  tip' = tip
    BY <1>7 DEF Ignore, Unignore, UnignoreAll, SetIgnored
<1>8. QED
    BY <1>1, <1>2, <1>3, <1>4, <1>5, <1>6, <1>7 DEF Next

\* Every step keeps the tip right.
LEMMA NextTipInv == TipInv /\ [Next]_vars => TipInv'
<1> SUFFICES ASSUME TipInv, [Next]_vars PROVE TipInv'
    OBVIOUS
<1>1. ASSUME NEW i \in DOMAIN rows, PointAt(i) PROVE TipInv'
    BY <1>1, PointAtKeeps DEF PointAt
<1>2. CASE PointAway
    BY <1>2, NoTipKeeps DEF PointAway
<1>3. CASE TipTimeout
    BY <1>3, TimedOutKeeps DEF TipTimeout
<1>4. ASSUME NEW u \in Users(users), InfoReply(u) PROVE TipInv'
    BY <1>4, AnsweredKeeps DEF InfoReply
<1>5. CASE tip' = tip
    BY <1>5 DEF TipInv, TipShape, TipTellsOfPointed
<1>6. CASE UNCHANGED vars
    BY <1>5, <1>6 DEF vars
<1>7. QED
    BY <1>1, <1>2, <1>3, <1>4, <1>5, <1>6, OthersKeepTip

\* At first no row has been pointed at.
LEMMA InitTipInv == Init => TipInv
<1> SUFFICES ASSUME Init PROVE TipInv
    OBVIOUS
<1>1. tip = [user |-> Null, rect |-> TRUE, waiting |-> FALSE, content |-> {},
             shown |-> {}, timer |-> FALSE]
    BY DEF Init, NoTip
<1>2. TipShape
    BY <1>1 DEF TipShape
<1>3. tip.rect /\ tip.content = {} /\ tip.shown = {}
    BY <1>1
<1>4. QED
    BY <1>2, <1>3 DEF TipInv, TipTellsOfPointed

\* The tip is never about anybody but the user the pointer is on, is made once,
\* and leaves nothing behind.
THEOREM TipIsOfPointed == Spec => []TipTellsOfPointed
<1>1. Init => TipInv
    BY InitTipInv
<1>2. TipInv => TipTellsOfPointed
    BY DEF TipInv
<1>3. QED
    BY <1>1, <1>2, NextTipInv, PTL DEF Spec

-----------------------------------------------------------------------------
(***************************************************************************)
(* The walk of the menu over the list of users                             *)
(***************************************************************************)

\* What user_menu_remove_all_unreplied_cb does to one user
VisitMenu(p, r, u) ==
    LET next == IF r.tab[u].mode = DEAD THEN Removed(r.tab, u) ELSE [tab |-> r.tab, evs |-> <<>>]
    IN  [tab |-> next.tab, evs |-> r.evs \o next.evs]

VM == INSTANCE FoldFacts WITH Op <- VisitMenu

\* user_menu_remove_all_unreplied_cb
LEMMA MenuReports ==
    ASSUME NEW t, IsTab(t)
    PROVE  Report(t, ForEachUser(t, LAMBDA x, u : IF x[u].mode = DEAD THEN Removed(x, u)
                                                  ELSE [tab |-> x, evs |-> <<>>]))
<1> DEFINE s == SetToSeq(Users(t))
           b == [tab |-> t, evs |-> <<>>]
<1>1. ForEachUser(t, LAMBDA x, u : IF x[u].mode = DEAD THEN Removed(x, u)
                                  ELSE [tab |-> x, evs |-> <<>>])
         = VM!Fold(<<>>, b, s)
    BY DEF ForEachUser, VM!Fold, VisitMenu, FoldLeft, VM!FoldLeft,
           MapThenFoldSet, VM!MapThenFoldSet, Max, VM!Max
<1>2. s \in Seq(Users(t))
    BY UsersFinite, Order
<1> HIDE DEF s, b
<1>3. PICK h : /\ h[0] = b
               /\ \A i \in 1 .. Len(s) : h[i] = VisitMenu(<<>>, h[i - 1], s[i])
               /\ VM!Fold(<<>>, b, s) = h[Len(s)]
    BY <1>2, VM!FoldTrace
<1>4. ASSUME NEW i \in 1 .. Len(s), IsTab(h[i - 1].tab), s[i] \in Users(h[i - 1].tab)
      PROVE  \E r : /\ Turn(h[i - 1].tab, s[i], r)
                    /\ h[i] = [tab |-> r.tab, evs |-> h[i - 1].evs \o r.evs]
    BY <1>3, <1>4, OtherTurns DEF VisitMenu
<1>5. Report(t, h[Len(s)])
    BY <1>3, <1>4, Walks DEF s, b
<1>6. QED
    BY <1>1, <1>3, <1>5

-----------------------------------------------------------------------------
(***************************************************************************)
(* What follows a user: a window of messages, the list, the dialog         *)
(***************************************************************************)

Window == [user : Blocks \cup {Null}, name : Nicks, my : BOOLEAN, send : BOOLEAN]

\* WindowsReach, of one window
WindowOn(w, v) ==
    /\ w \in Window
    /\ w.user = Null => ~w.send
    /\ w.user # Null => /\ w.user \in DOMAIN v
                        /\ v[w.user].name = w.name
                        /\ w.send = (v[w.user].mode \in Messageable)

\* A window follows an event: the address of who is gone goes with him.
LEMMA WindowStep ==
    ASSUME NEW v, IsView(v), NEW e, Legal(v, e), NEW w, WindowOn(w, v)
    PROVE  WindowOn(WindowAfter(w, e), ViewAfter(v, e))
<1> DEFINE x == ViewAfter(v, e)
           y == WindowAfter(w, e)
<1>1. e \in Event /\ w \in Window /\ e.uid # Null
    BY NullAssumption DEF Legal, WindowOn, Event
<1>2. CASE e.ev = "REMOVED"
    <2>1. DOMAIN x = DOMAIN v \ {e.uid} /\ \A a \in DOMAIN x : x[a] = v[a]
        BY <1>2 DEF ViewAfter
    <2>2. y = IF w.user = e.uid THEN [w EXCEPT !.user = Null, !.send = FALSE] ELSE w
        BY <1>2 DEF WindowAfter
    <2> HIDE DEF x, y
    <2>3. WindowOn(y, x)
        BY <1>1, <2>1, <2>2 DEF WindowOn, Window
    <2>4. QED
        BY <2>3 DEF x, y
<1>3. ASSUME e.ev # "REMOVED"
      PROVE  /\ DOMAIN x = DOMAIN v \cup {e.uid}
             /\ \A a \in DOMAIN x : x[a] = IF a = e.uid THEN [name |-> e.name, mode |-> e.mode] ELSE v[a]
    BY <1>3 DEF ViewAfter
<1>4. CASE e.ev = "NEW"
    <2>1. y = IF w.user = Null /\ w.name = e.name
              THEN [w EXCEPT !.user = e.uid, !.send = e.mode \in Messageable] ELSE w
        BY <1>4 DEF WindowAfter
    <2>2. e.uid \notin DOMAIN v
        BY <1>4 DEF Legal
    <2>3. e.uid \in Blocks /\ e.uid \in DOMAIN x /\ x[e.uid].name = e.name /\ x[e.uid].mode = e.mode
        BY <1>1, <1>3, <1>4 DEF Event
    <2>4. DOMAIN v \subseteq DOMAIN x /\ \A a \in DOMAIN v : x[a] = v[a]
        BY <1>3, <1>4, <2>2
    <2> HIDE DEF x, y
    <2>5. CASE w.user = Null /\ w.name = e.name
        <3> DEFINE b == e.mode \in Messageable
        <3>0. b \in BOOLEAN /\ y = [w EXCEPT !.user = e.uid, !.send = b]
            BY <2>1, <2>5
        <3> HIDE DEF b
        <3>1. y.user = e.uid /\ y.send = b /\ y.name = w.name /\ y \in Window
            BY <1>1, <2>3, <3>0 DEF Window
        <3>2. QED
            BY <1>1, <2>3, <2>5, <3>1 DEF WindowOn, x, y, b
    <2>6. CASE ~(w.user = Null /\ w.name = e.name)
        <3>1. y = w
            BY <2>1, <2>6
        <3>2. QED
            BY <3>1, <2>4 DEF WindowOn, x, y
    <2>7. QED
        BY <2>5, <2>6
<1>5. CASE e.ev = "MODE"
    <2>1. y = IF w.user = e.uid THEN [w EXCEPT !.send = e.mode \in Messageable] ELSE w
        BY <1>5 DEF WindowAfter
    <2>2. \A a \in DOMAIN v : v[a].name = e.name <=> a = e.uid
        BY <1>5 DEF Legal
    <2>3. e.uid \in DOMAIN x /\ x[e.uid].name = e.name /\ x[e.uid].mode = e.mode
        BY <1>1, <1>3, <1>5 DEF Event
    <2>4. DOMAIN v \subseteq DOMAIN x /\ \A a \in DOMAIN v : a # e.uid => x[a] = v[a]
        BY <1>3, <1>5
    <2> HIDE DEF x, y
    <2>5. CASE w.user = e.uid
        <3> DEFINE b == e.mode \in Messageable
        <3>0. b \in BOOLEAN /\ y = [w EXCEPT !.send = b]
            BY <2>1, <2>5
        <3> HIDE DEF b
        <3>1. y.user = e.uid /\ y.send = b /\ y.name = w.name /\ y \in Window
            BY <1>1, <2>5, <3>0 DEF Window
        <3>2. w.name = e.name
            BY <1>1, <2>2, <2>5 DEF WindowOn
        <3>3. QED
            BY <1>1, <2>3, <3>1, <3>2 DEF WindowOn, x, y, b
    <2>6. CASE w.user # e.uid
        <3>1. y = w
            BY <2>1, <2>6
        <3>2. QED
            BY <3>1, <2>4, <2>6 DEF WindowOn, x, y
    <2>7. QED
        BY <2>5, <2>6
<1>6. CASE e.ev = "RENAME"
    <2>1. y = IF w.user = e.uid THEN [w EXCEPT !.name = e.name] ELSE w
        BY <1>6 DEF WindowAfter
    <2>2. v[e.uid].mode = e.mode
        BY <1>6 DEF Legal
    <2> HIDE DEF x, y
    <2>3. WindowOn(y, x)
        BY <1>1, <1>3, <1>6, <2>1, <2>2 DEF WindowOn, Window, Event
    <2>4. QED
        BY <2>3 DEF x, y
<1>7. QED
    BY <1>1, <1>2, <1>4, <1>5, <1>6 DEF Event

\* ListsAgree, of the dialog's icons: those of the ignored, of whom some are there
IconsOn(d, I, v) ==
    /\ d \in [open : BOOLEAN, icons : [I -> AnyMode]]
    /\ d.open => \A a \in DOMAIN v : v[a].name \in I => d.icons[v[a].name] = v[a].mode

\* The dialog follows an event.
LEMMA IconsStep ==
    ASSUME NEW v, IsView(v), NEW e, Legal(v, e), NEW I, NEW d, IconsOn(d, I, v)
    PROVE  IconsOn(IconsAfter(d, e), I, ViewAfter(v, e))
<1> DEFINE x == ViewAfter(v, e)
           y == IconsAfter(d, e)
<1>1. e \in Event /\ d \in [open : BOOLEAN, icons : [I -> AnyMode]]
    BY DEF Legal, IconsOn
<1>2. /\ y \in [open : BOOLEAN, icons : [I -> AnyMode]] /\ y.open = d.open
      /\ d.open => \A n \in I : y.icons[n] = IF n = e.name THEN e.mode ELSE d.icons[n]
    BY <1>1 DEF IconsAfter, Event
<1>3. ASSUME NEW a \in DOMAIN x
      PROVE  \/ a \in DOMAIN v /\ x[a] = v[a] /\ v[a].name # e.name
             \/ x[a].name = e.name /\ x[a].mode = e.mode
    <2>1. CASE e.ev = "REMOVED"
        BY <2>1 DEF ViewAfter, Legal
    <2>2. CASE e.ev # "REMOVED"
        <3>1. /\ a \in DOMAIN v \cup {e.uid}
              /\ x[a] = IF a = e.uid THEN [name |-> e.name, mode |-> e.mode] ELSE v[a]
            BY <2>2 DEF ViewAfter
        <3>2. \A b \in DOMAIN v : v[b].name = e.name => b = e.uid
            BY <1>1, <2>2 DEF Legal, Event
        <3> HIDE DEF x
        <3>3. QED
            BY <3>1, <3>2
    <2>3. QED
        BY <2>1, <2>2
<1> HIDE DEF x, y
<1>4. IconsOn(y, I, x)
    BY <1>2, <1>3 DEF IconsOn
<1>5. QED
    BY <1>4 DEF x, y

\* An element put into a sequence
LEMMA Inserted ==
    ASSUME NEW S, NEW s \in Seq(S), NEW i \in 1 .. Len(s) + 1, NEW e \in S
    PROVE  /\ InsertAt(s, i, e) \in Seq(S) /\ Len(InsertAt(s, i, e)) = Len(s) + 1
           /\ \A j \in 1 .. Len(s) + 1 :
                 InsertAt(s, i, e)[j] = IF j < i THEN s[j] ELSE IF j = i THEN e ELSE s[j - 1]
<1> DEFINE n == Len(s)
           a == SubSeq(s, 1, i - 1)
           b == <<e>>
           c == SubSeq(s, i, n)
           ab == a \o b
<1>1. n \in Nat /\ i \in Int /\ n \in Int /\ i - 1 \in Int
    OBVIOUS
<1>2. a \in Seq(S) /\ Len(a) = i - 1 /\ \A j \in 1 .. i - 1 : a[j] = s[j]
    BY <1>1, SubSeqProperties
<1>3. c \in Seq(S) /\ Len(c) = n - i + 1 /\ \A j \in 1 .. n - i + 1 : c[j] = s[i + j - 1]
    BY <1>1, SubSeqProperties
<1>4. b \in Seq(S) /\ Len(b) = 1 /\ b[1] = e
    OBVIOUS
<1>5. InsertAt(s, i, e) = ab \o c
    BY DEF InsertAt
<1> HIDE DEF a, b, c
<1>6. /\ ab \in Seq(S) /\ Len(ab) = i
      /\ \A j \in 1 .. i : ab[j] = IF j <= i - 1 THEN a[j] ELSE b[j - (i - 1)]
    <2>1. Len(a) + Len(b) = i
        BY <1>1, <1>2, <1>4
    <2>2. /\ ab \in Seq(S) /\ Len(ab) = Len(a) + Len(b)
          /\ \A j \in 1 .. Len(a) + Len(b) : ab[j] = IF j <= Len(a) THEN a[j] ELSE b[j - Len(a)]
        BY <1>2, <1>4, ConcatProperties
    <2> HIDE DEF ab
    <2>3. QED
        BY <1>2, <2>1, <2>2
<1> HIDE DEF ab
<1>7. /\ ab \o c \in Seq(S) /\ Len(ab \o c) = n + 1
      /\ \A j \in 1 .. n + 1 : (ab \o c)[j] = IF j <= i THEN ab[j] ELSE c[j - i]
    BY <1>3, <1>6, ConcatProperties
<1>8. ASSUME NEW j \in 1 .. n + 1
      PROVE  (ab \o c)[j] = IF j < i THEN s[j] ELSE IF j = i THEN e ELSE s[j - 1]
    <2>1. CASE j < i
        <3>1. j \in 1 .. i - 1 /\ j \in 1 .. i
            BY <2>1
        <3>2. QED
            BY <2>1, <3>1, <1>2, <1>6, <1>7
    <2>2. CASE j = i
        <3>1. j - (i - 1) = 1 /\ ~(j <= i - 1)
            BY <2>2
        <3>2. QED
            BY <2>2, <3>1, <1>4, <1>6, <1>7
    <2>3. CASE j > i
        <3>1. j - i \in 1 .. n - i + 1 /\ i + (j - i) - 1 = j - 1
            BY <2>3, <1>1
        <3>2. c[j - i] = s[j - 1]
            BY <3>1, <1>3
        <3>3. QED
            BY <2>3, <3>2, <1>7
    <2>4. j < i \/ j = i \/ j > i
        OBVIOUS
    <2>5. QED
        BY <2>1, <2>2, <2>3, <2>4, Zenon
<1>9. QED
    BY <1>5, <1>7, <1>8

RowType == [user : Blocks \cup {Null}, name : Nicks \cup MyNicks, icon : AnyMode]

\* The list shows the rows R, one for each user, in order.
RowsShow(rs, R) ==
    /\ rs \in Seq(RowType)
    /\ {rs[i] : i \in 1 .. Len(rs)} = R
    /\ \A i, j \in 1 .. Len(rs) : rs[i].user = rs[j].user => i = j
    /\ \A i, j \in 1 .. Len(rs) : i < j => rs[i].name <= rs[j].name

\* Names can be compared.
LEMMA NamesOrdered ==
    ASSUME NEW rs \in Seq(RowType)
    PROVE  \A i \in 1 .. Len(rs) : rs[i] \in RowType /\ rs[i].name \in Nat
<1>1. \A x \in RowType : x.name \in Nat
    BY NamesAssumption DEF RowType
<1>2. \A i \in 1 .. Len(rs) : rs[i] \in RowType
    OBVIOUS
<1>3. QED
    BY <1>1, <1>2

\* Where ulist_where_to_insert puts a row
LEMMA WhereToInsert ==
    ASSUME NEW rs, NEW R, RowsShow(rs, R), NEW r \in RowType
    PROVE  \E at \in 1 .. Len(rs) + 1 :
              /\ RowAdded(rs, r) = InsertAt(rs, at, r)
              /\ \A j \in 1 .. Len(rs) : (j < at => rs[j].name <= r.name) /\ (j >= at => r.name <= rs[j].name)
<1> DEFINE greater == {i \in DOMAIN rs : rs[i].name > r.name}
           at == IF greater = {} THEN Len(rs) + 1 ELSE CHOOSE i \in greater : \A j \in greater : i <= j
<1>1. /\ DOMAIN rs = 1 .. Len(rs) /\ Len(rs) \in Nat /\ r.name \in Nat
      /\ \A i \in 1 .. Len(rs) : rs[i].name \in Nat
    <2>1. r.name \in Nat
        BY NamesAssumption DEF RowType
    <2>2. rs \in Seq(RowType)
        BY DEF RowsShow
    <2>3. QED
        BY <2>1, <2>2, NamesOrdered
<1>2. RowAdded(rs, r) = InsertAt(rs, at, r)
    BY DEF RowAdded
<1>3. CASE greater = {}
    <2>1. at = Len(rs) + 1 /\ at \in 1 .. Len(rs) + 1
        BY <1>1, <1>3
    <2>2. \A j \in 1 .. Len(rs) : j < at /\ rs[j].name <= r.name
        BY <1>1, <1>3, <2>1
    <2> HIDE DEF at
    <2>3. QED
        BY <1>1, <1>2, <2>1, <2>2
<1>4. CASE greater # {}
    <2>1. greater \in SUBSET Nat
        BY <1>1
    <2>2. \E i \in greater : \A j \in greater : i <= j
        BY <1>4, <2>1, VR!Least
    <2>3. at \in greater /\ \A j \in greater : at <= j
        BY <1>4, <2>2
    <2>4. at \in 1 .. Len(rs) + 1 /\ at \in 1 .. Len(rs) /\ rs[at].name > r.name
        BY <1>1, <2>3
    <2> HIDE DEF at
    <2>5. ASSUME NEW j \in 1 .. Len(rs)
          PROVE  (j < at => rs[j].name <= r.name) /\ (j >= at => r.name <= rs[j].name)
        <3>1. j < at => rs[j].name <= r.name
            BY <1>1, <2>3, <2>4
        <3>2. j >= at => rs[at].name <= rs[j].name
            <4>1. j = at \/ at < j \/ j < at
                BY <2>4
            <4>2. rs[at].name \in Nat /\ rs[j].name \in Nat
                BY <1>1, <2>4
            <4>3. at < j => rs[at].name <= rs[j].name
                BY <2>4 DEF RowsShow
            <4>4. QED
                BY <2>4, <4>1, <4>2, <4>3
        <3>3. rs[at].name \in Nat /\ rs[j].name \in Nat
            BY <1>1, <2>4
        <3>4. QED
            BY <1>1, <2>4, <3>1, <3>2, <3>3
    <2>6. QED
        BY <1>2, <2>4, <2>5
<1>5. QED
    BY <1>3, <1>4

\* ulist_add, of someone who has no row
LEMMA RowAddedShows ==
    ASSUME NEW rs, NEW R, RowsShow(rs, R), NEW r \in RowType, \A x \in R : x.user # r.user
    PROVE  RowsShow(RowAdded(rs, r), R \cup {r})
<1>1. PICK at \in 1 .. Len(rs) + 1 :
              /\ RowAdded(rs, r) = InsertAt(rs, at, r)
              /\ \A j \in 1 .. Len(rs) : (j < at => rs[j].name <= r.name) /\ (j >= at => r.name <= rs[j].name)
    BY WhereToInsert
<1> DEFINE n == Len(rs)
           q == RowAdded(rs, r)
<1>2. rs \in Seq(RowType) /\ n \in Nat
    BY DEF RowsShow
<1>3. /\ q \in Seq(RowType) /\ Len(q) = n + 1
      /\ \A j \in 1 .. n + 1 : q[j] = IF j < at THEN rs[j] ELSE IF j = at THEN r ELSE rs[j - 1]
    <2> DEFINE w == InsertAt(rs, at, r)
    <2>1. /\ w \in Seq(RowType) /\ Len(w) = n + 1
          /\ \A j \in 1 .. n + 1 : w[j] = IF j < at THEN rs[j] ELSE IF j = at THEN r ELSE rs[j - 1]
        BY <1>2, Inserted
    <2> HIDE DEF w, q, n
    <2>2. q = w
        BY <1>1 DEF w, q
    <2>3. QED
        BY <2>1, <2>2
<1> HIDE DEF q
\* which of the old rows a row is
<1> DEFINE old(j) == IF j < at THEN j ELSE j - 1
<1>4. \A j \in 1 .. n + 1 : j # at => old(j) \in 1 .. n /\ q[j] = rs[old(j)]
    BY <1>2, <1>3
<1>5. q[at] = r
    BY <1>2, <1>3
<1>6. {q[i] : i \in 1 .. Len(q)} = R \cup {r}
    <2>1. ASSUME NEW i \in 1 .. n PROVE \E j \in 1 .. n + 1 : q[j] = rs[i]
        <3>1. CASE i < at
            <4>1. i \in 1 .. n + 1
                BY <1>2
            <4>2. q[i] = rs[i]
                BY <4>1, <3>1, <1>3
            <4>3. QED
                BY <4>1, <4>2
        <3>2. CASE i >= at
            <4>1. i + 1 \in 1 .. n + 1 /\ ~(i + 1 < at) /\ i + 1 # at /\ (i + 1) - 1 = i
                BY <3>2, <1>2
            <4>2. QED
                BY <4>1, <1>3
        <3>3. i < at \/ i >= at
            OBVIOUS
        <3>4. QED
            BY <3>1, <3>2, <3>3
    <2>2. R = {rs[i] : i \in 1 .. n}
        BY DEF RowsShow
    <2>3. \A x \in R \cup {r} : \E j \in 1 .. n + 1 : q[j] = x
        BY <2>1, <2>2, <1>5, <1>2
    <2>4. \A j \in 1 .. n + 1 : q[j] \in R \cup {r}
        BY <2>2, <1>4, <1>5
    <2>5. QED
        BY <2>3, <2>4, <1>3
<1>7. ASSUME NEW i \in 1 .. n + 1, NEW j \in 1 .. n + 1, q[i].user = q[j].user
      PROVE  i = j
    <2>1. \A k \in 1 .. n : rs[k].user # r.user
        BY DEF RowsShow
    <2>2. (i = at) <=> (j = at)
        BY <2>1, <1>4, <1>5, <1>7
    <2>3. ASSUME i # at, j # at PROVE i = j
        <3>1. /\ old(i) \in 1 .. n /\ old(j) \in 1 .. n
              /\ rs[old(i)].user = rs[old(j)].user
            BY <2>3, <1>4, <1>7
        <3> HIDE DEF old
        <3>2. old(i) = old(j)
            BY <3>1 DEF RowsShow
        <3>3. QED
            BY <2>3, <3>2 DEF old
    <2>4. QED
        BY <2>2, <2>3
<1>8. ASSUME NEW i \in 1 .. n + 1, NEW j \in 1 .. n + 1, i < j
      PROVE  q[i].name <= q[j].name
    <2>0. /\ i \in Int /\ j \in Int /\ at \in Int
          /\ \A k \in 1 .. n : rs[k].name \in Nat
        BY <1>2, NamesOrdered
    <2>1. CASE i = at
        <3>1. ~(j < at) /\ j # at /\ old(j) = j - 1 /\ j - 1 \in 1 .. n /\ j - 1 >= at
            BY <1>8, <2>1
        <3>2. q[j] = rs[j - 1] /\ q[i] = r
            BY <3>1, <1>4, <1>5, <2>1
        <3>3. QED
            BY <3>1, <3>2, <1>1
    <2>2. CASE j = at
        <3>1. i < at /\ i # at /\ i \in 1 .. n
            BY <1>8, <2>2, <1>2
        <3>2. q[i] = rs[i] /\ q[j] = r
            BY <3>1, <1>3, <1>5, <2>2
        <3>3. QED
            BY <3>1, <3>2, <1>1
    <2>3. CASE i # at /\ j # at
        <3>1. old(i) < old(j)
            BY <1>8, <2>3, <2>0
        <3>2. old(i) \in 1 .. n /\ old(j) \in 1 .. n /\ q[i] = rs[old(i)] /\ q[j] = rs[old(j)]
            BY <1>4, <2>3
        <3> HIDE DEF old
        <3>3. QED
            BY <3>1, <3>2 DEF RowsShow
    <2>4. QED
        BY <2>1, <2>2, <2>3
<1>9. QED
    BY <1>3, <1>6, <1>7, <1>8 DEF RowsShow, q

\* ulist_remove, of whoever has a row or has not
LEMMA RowRemovedShows ==
    ASSUME NEW rs, NEW R, RowsShow(rs, R), NEW u
    PROVE  RowsShow(RowRemoved(rs, u), {x \in R : x.user # u})
<1> DEFINE n == Len(rs)
           at == SelectInSeq(rs, LAMBDA x : x.user = u)
           I == {i \in 1 .. Len(rs) : rs[i].user = u}
           q == RowRemoved(rs, u)
<1>1. rs \in Seq(RowType) /\ n \in Nat
    BY DEF RowsShow
<1>2. at = IF I # {} THEN Min(I) ELSE 0
    BY DEF SelectInSeq
<1>3. q = IF at = 0 THEN rs ELSE RemoveAt(rs, at)
    BY DEF RowRemoved
<1> HIDE DEF at, q
<1>4. CASE I = {}
    <2>1. q = rs
        BY <1>2, <1>3, <1>4
    <2>2. {x \in R : x.user # u} = R
        BY <1>4 DEF RowsShow
    <2>3. QED
        BY <2>1, <2>2 DEF q
<1>5. CASE I # {}
    <2>1. I \in SUBSET Nat
        BY <1>1
    <2>2. \E x \in I : \A y \in I : x <= y
        BY <1>5, <2>1, VR!Least
    <2>3. at \in I
        BY <1>2, <1>5, <2>2 DEF Min
    <2>4. at \in 1 .. n /\ at # 0 /\ rs[at].user = u
        BY <1>1, <2>3
    <2>5. \A i \in 1 .. n : rs[i].user = u => i = at
        BY <2>4 DEF RowsShow
    <2>6. /\ q \in Seq(RowType) /\ Len(q) = n - 1
          /\ \A j \in 1 .. n - 1 : q[j] = IF j < at THEN rs[j] ELSE rs[j + 1]
        BY <1>1, <1>3, <2>4, TakenOut
    <2> DEFINE old(j) == IF j < at THEN j ELSE j + 1
    <2>7. \A j \in 1 .. n - 1 : old(j) \in 1 .. n /\ old(j) # at /\ q[j] = rs[old(j)]
        BY <1>1, <2>4, <2>6
    <2>8. \A i, j \in 1 .. n - 1 : i < j => old(i) < old(j)
        BY <2>4
    <2>9. \A i, j \in 1 .. n - 1 : old(i) = old(j) => i = j
        BY <2>4
    <2>10. \A i \in 1 .. n : i # at => \E j \in 1 .. n - 1 : q[j] = rs[i]
        <3> SUFFICES ASSUME NEW i \in 1 .. n, i # at PROVE \E j \in 1 .. n - 1 : q[j] = rs[i]
            OBVIOUS
        <3>1. CASE i < at
            BY <3>1, <1>1, <2>4, <2>6
        <3>2. CASE i > at
            <4>1. i - 1 \in 1 .. n - 1 /\ ~(i - 1 < at) /\ (i - 1) + 1 = i
                BY <3>2, <1>1, <2>4
            <4>2. QED
                BY <4>1, <2>6
        <3>3. QED
            BY <3>1, <3>2, <2>4
    <2> HIDE DEF old
    <2>11. {q[i] : i \in 1 .. n - 1} = {x \in R : x.user # u}
        <3>1. R = {rs[i] : i \in 1 .. n}
            BY DEF RowsShow
        <3>2. \A j \in 1 .. n - 1 : q[j] \in R /\ q[j].user # u
            BY <2>5, <2>7, <3>1
        <3>3. \A x \in R : x.user # u => \E j \in 1 .. n - 1 : q[j] = x
            BY <2>4, <2>10, <3>1
        <3>4. QED
            BY <3>2, <3>3
    <2>12. ASSUME NEW i \in 1 .. n - 1, NEW j \in 1 .. n - 1
           PROVE  /\ q[i].user = q[j].user => i = j
                  /\ i < j => q[i].name <= q[j].name
        <3>1. /\ old(i) \in 1 .. n /\ q[i] = rs[old(i)]
              /\ old(j) \in 1 .. n /\ q[j] = rs[old(j)]
            BY <2>7
        <3>2. q[i].user = q[j].user => old(i) = old(j)
            BY <3>1 DEF RowsShow
        <3>3. old(i) < old(j) => q[i].name <= q[j].name
            BY <3>1 DEF RowsShow
        <3>4. QED
            BY <3>2, <3>3, <2>8, <2>9
    <2>13. QED
        BY <2>6, <2>11, <2>12 DEF RowsShow, q
<1>6. QED
    BY <1>4, <1>5

\* ulist_update_icon_for
LEMMA IconUpdatedShows ==
    ASSUME NEW rs, NEW R, RowsShow(rs, R), NEW u, NEW m \in AnyMode
    PROVE  RowsShow(IconUpdated(rs, u, m),
                    {[user |-> x.user, name |-> x.name, icon |-> IF x.user = u THEN m ELSE x.icon] : x \in R})
<1> DEFINE n == Len(rs)
           q == IconUpdated(rs, u, m)
           New(x) == [user |-> x.user, name |-> x.name, icon |-> IF x.user = u THEN m ELSE x.icon]
<1>1. rs \in Seq(RowType) /\ n \in Nat /\ DOMAIN rs = 1 .. n /\ \A i \in 1 .. n : rs[i] \in RowType
    BY DEF RowsShow
<1>2. \A i \in 1 .. n : New(rs[i]) \in RowType /\ q[i] = New(rs[i])
    <2> SUFFICES ASSUME NEW i \in 1 .. n PROVE New(rs[i]) \in RowType /\ q[i] = New(rs[i])
        OBVIOUS
    <2>1. q[i] = IF rs[i].user = u THEN [rs[i] EXCEPT !.icon = m] ELSE rs[i]
        BY <1>1 DEF IconUpdated
    <2> DEFINE x == rs[i]
    <2>2. x \in RowType
        BY <1>1
    <2> HIDE DEF x, q
    <2>3. New(x) \in RowType /\ (IF x.user = u THEN [x EXCEPT !.icon = m] ELSE x) = New(x)
        BY <2>2 DEF RowType
    <2>4. QED
        BY <2>1, <2>3 DEF x
<1>3. q \in Seq(RowType) /\ Len(q) = n
    <2>1. q \in [1 .. n -> RowType]
        BY <1>1, <1>2 DEF IconUpdated
    <2>2. QED
        BY <1>1, <2>1
<1> HIDE DEF q
<1>5. \A i \in 1 .. n : q[i].user = rs[i].user /\ q[i].name = rs[i].name
    <2>1. \A x : New(x).user = x.user /\ New(x).name = x.name
        OBVIOUS
    <2> HIDE DEF New
    <2>2. QED
        BY <1>2, <2>1
<1> HIDE DEF New
<1>4. {q[i] : i \in 1 .. n} = {New(x) : x \in R}
    <2>1. R = {rs[i] : i \in 1 .. n}
        BY DEF RowsShow
    <2>2. QED
        BY <1>2, <2>1
<1>6. RowsShow(q, {New(x) : x \in R})
    BY <1>3, <1>4, <1>5 DEF RowsShow
<1>7. QED
    BY <1>6 DEF q, New

\* The rows there are for the users that the others know, and one's own
Rows(v, own) == {Row(a, v[a].name, v[a].mode) : a \in DOMAIN v} \cup own

\* The list follows an event: of two removals the second finds no row.
LEMMA RowsStep ==
    ASSUME NEW v, IsView(v), NEW e, Legal(v, e), NEW own, \A x \in own : x.user = Null,
           NEW rs, RowsShow(rs, Rows(v, own))
    PROVE  RowsShow(RowsAfter(rs, e), Rows(ViewAfter(v, e), own))
<1> DEFINE x == ViewAfter(v, e)
           R == Rows(v, own)
           r == Row(e.uid, e.name, e.mode)
<1>1. e \in Event /\ e.uid # Null /\ e.uid \in Blocks /\ e.mode \in AnyMode
    BY NullAssumption DEF Legal, Event
<1>2. r \in RowType /\ r.user = e.uid /\ r.name = e.name /\ r.icon = e.mode
    BY <1>1 DEF Row, RowType, Event
<1>3. \A a, n, m : Row(a, n, m).user = a /\ Row(a, n, m).name = n /\ Row(a, n, m).icon = m
    BY DEF Row
<1>4. {y \in R : y.user # e.uid} = Rows([a \in DOMAIN v \ {e.uid} |-> v[a]], own)
    <2> DEFINE z == [a \in DOMAIN v \ {e.uid} |-> v[a]]
    <2>1. DOMAIN z = DOMAIN v \ {e.uid} /\ \A a \in DOMAIN z : z[a] = v[a]
        OBVIOUS
    <2> HIDE DEF z
    <2>2. {y \in R : y.user # e.uid} = Rows(z, own)
        BY <1>1, <1>3, <2>1 DEF Rows
    <2>3. QED
        BY <2>2 DEF z
<1>5. RowsShow(RowRemoved(rs, e.uid), {y \in R : y.user # e.uid})
    BY RowRemovedShows
<1>6. ASSUME e.ev # "REMOVED"
      PROVE  Rows(x, own) = {y \in R : y.user # e.uid} \cup {r}
    <2>1. /\ DOMAIN x = DOMAIN v \cup {e.uid}
          /\ x[e.uid].name = e.name /\ x[e.uid].mode = e.mode
          /\ \A a \in DOMAIN v : a # e.uid => x[a] = v[a]
        BY <1>6 DEF ViewAfter
    <2> HIDE DEF x
    <2>2. \A a \in DOMAIN x : Row(a, x[a].name, x[a].mode) = IF a = e.uid THEN r ELSE Row(a, v[a].name, v[a].mode)
        BY <2>1
    <2> DEFINE old == {Row(a, v[a].name, v[a].mode) : a \in DOMAIN v \ {e.uid}}
    <2>3. Rows(x, own) = old \cup {r} \cup own
        <3>1. {Row(a, x[a].name, x[a].mode) : a \in DOMAIN x} = old \cup {r}
            <4> HIDE DEF r
            <4>1. QED
                BY <2>1, <2>2
        <3>2. QED
            BY <3>1 DEF Rows
    <2>4. {y \in R : y.user # e.uid} = old \cup own
        <3>1. \A a \in DOMAIN v : Row(a, v[a].name, v[a].mode).user = a
            BY <1>3
        <3>2. \A y \in own : y.user # e.uid
            BY <1>1
        <3>3. QED
            BY <3>1, <3>2 DEF Rows
    <2>5. QED
        BY <2>3, <2>4
<1>7. CASE e.ev = "REMOVED"
    BY <1>4, <1>5, <1>7 DEF RowsAfter, ViewAfter
<1>8. CASE e.ev = "RENAME"
    <2>1. RowsAfter(rs, e) = RowAdded(RowRemoved(rs, e.uid), r)
        BY <1>8 DEF RowsAfter
    <2>2. RowsShow(RowAdded(RowRemoved(rs, e.uid), r), {y \in R : y.user # e.uid} \cup {r})
        BY <1>2, <1>5, RowAddedShows
    <2>3. QED
        BY <2>1, <2>2, <1>6, <1>8
<1>9. CASE e.ev = "NEW"
    <2>1. RowsAfter(rs, e) = RowAdded(rs, r)
        BY <1>9 DEF RowsAfter
    <2>2. e.uid \notin DOMAIN v
        BY <1>9 DEF Legal
    <2>3. \A y \in R : y.user # e.uid
        BY <1>1, <1>3, <2>2 DEF Rows
    <2>4. RowsShow(RowAdded(rs, r), R \cup {r})
        BY <1>2, <2>3, RowAddedShows
    <2>5. R \cup {r} = {y \in R : y.user # e.uid} \cup {r}
        BY <2>3
    <2>6. QED
        BY <2>1, <2>4, <2>5, <1>6, <1>9
<1>10. CASE e.ev = "MODE"
    <2>1. RowsAfter(rs, e) = IconUpdated(rs, e.uid, e.mode)
        BY <1>10 DEF RowsAfter
    <2> DEFINE New(y) == [user |-> y.user, name |-> y.name, icon |-> IF y.user = e.uid THEN e.mode ELSE y.icon]
    <2>2. RowsShow(IconUpdated(rs, e.uid, e.mode), {New(y) : y \in R})
        BY <1>1, IconUpdatedShows
    <2>3. \A y \in R : y = Row(y.user, y.name, y.icon)
        <3>1. \A y \in RowType : y = Row(y.user, y.name, y.icon)
            BY DEF RowType, Row
        <3>2. R \subseteq RowType
            BY DEF RowsShow
        <3>3. QED
            BY <3>1, <3>2
    <2>4. \A y \in R : y.user # e.uid => New(y) = y
        BY <2>3 DEF Row
    <2>5. e.uid \in DOMAIN v /\ v[e.uid].name = e.name
        BY <1>10 DEF Legal
    <2>6. New(Row(e.uid, v[e.uid].name, v[e.uid].mode)) = r
        BY <2>5 DEF Row
    <2>7. \A y \in R : y.user = e.uid => y = Row(e.uid, v[e.uid].name, v[e.uid].mode)
        BY <1>1, <1>3 DEF Rows
    <2>8. Row(e.uid, v[e.uid].name, v[e.uid].mode) \in R
        BY <2>5 DEF Rows
    <2> HIDE DEF New, r, R
    <2>9. {New(y) : y \in R} = {y \in R : y.user # e.uid} \cup {r}
        <3>1. Row(e.uid, v[e.uid].name, v[e.uid].mode).user = e.uid
            BY <1>3
        <3>2. \A y \in R : New(y) = IF y.user = e.uid THEN r ELSE y
            BY <2>4, <2>6, <2>7
        <3>3. QED
            BY <2>8, <3>1, <3>2
    <2>10. RowsShow(IconUpdated(rs, e.uid, e.mode), {New(y) : y \in R})
        BY <2>2 DEF New
    <2>11. QED
        BY <2>1, <2>9, <2>10, <1>6, <1>10 DEF R, r
<1>11. QED
    BY <1>1, <1>7, <1>8, <1>9, <1>10 DEF Event

-----------------------------------------------------------------------------
(***************************************************************************)
(* Whatever is told, in whatever number of events, what follows follows    *)
(***************************************************************************)

WindowSees(p, w, e) == WindowAfter(w, e)
RowsSee(p, rs, e) == RowsAfter(rs, e)
IconsSee(p, d, e) == IconsAfter(d, e)

FW == INSTANCE FoldFacts WITH Op <- WindowSees
FR == INSTANCE FoldFacts WITH Op <- RowsSee
FI == INSTANCE FoldFacts WITH Op <- IconsSee

\* message_event_cb, for all that is told
LEMMA WindowFollows ==
    ASSUME NEW u, IsView(u), NEW v, NEW evs, Tells(u, evs, v), NEW w, WindowOn(w, u)
    PROVE  WindowOn(FoldLeft(WindowAfter, w, evs), v)
<1>1. FoldLeft(WindowAfter, w, evs) = FW!Fold(<<>>, w, evs)
    BY DEF FW!Fold, WindowSees, FoldLeft, FW!FoldLeft, MapThenFoldSet, FW!MapThenFoldSet, Max, FW!Max
<1>2. PICK h : /\ h[0] = u /\ h[Len(evs)] = v
               /\ \A i \in 1 .. Len(evs) : Legal(h[i - 1], evs[i]) /\ h[i] = ViewAfter(h[i - 1], evs[i])
    BY DEF Tells
<1>3. evs \in Seq(Event) /\ Len(evs) \in Nat
    BY DEF Tells
<1> DEFINE J == [i \in 0 .. Len(evs) |-> {x \in Window : IsView(h[i]) /\ WindowOn(x, h[i])}]
<1>4. w \in J[0]
    BY <1>2, <1>3 DEF WindowOn
<1>5. ASSUME NEW i \in 1 .. Len(evs), NEW x \in J[i - 1] PROVE WindowSees(<<>>, x, evs[i]) \in J[i]
    <2>1. i - 1 \in 0 .. Len(evs) /\ i \in 0 .. Len(evs)
        BY <1>3
    <2>2. IsView(h[i - 1]) /\ WindowOn(x, h[i - 1])
        BY <1>5, <2>1
    <2>3. IsView(h[i]) /\ WindowOn(WindowAfter(x, evs[i]), h[i])
        BY <1>2, <2>2, ViewStep, WindowStep
    <2>4. QED
        BY <2>1, <2>3 DEF WindowSees, WindowOn
<1>6. FW!Fold(<<>>, w, evs) \in J[Len(evs)]
    <2> HIDE DEF J
    <2>1. QED
        BY <1>3, <1>4, <1>5, FW!FoldChain
<1>7. Len(evs) \in 0 .. Len(evs)
    BY <1>3
<1>8. QED
    BY <1>1, <1>2, <1>6, <1>7

\* ulist_event_cb
LEMMA RowsFollow ==
    ASSUME NEW u, IsView(u), NEW v, NEW evs, Tells(u, evs, v), NEW own, \A x \in own : x.user = Null,
           NEW rs, RowsShow(rs, Rows(u, own))
    PROVE  RowsShow(FoldLeft(RowsAfter, rs, evs), Rows(v, own))
<1>1. FoldLeft(RowsAfter, rs, evs) = FR!Fold(<<>>, rs, evs)
    BY DEF FR!Fold, RowsSee, FoldLeft, FR!FoldLeft, MapThenFoldSet, FR!MapThenFoldSet, Max, FR!Max
<1>2. PICK h : /\ h[0] = u /\ h[Len(evs)] = v
               /\ \A i \in 1 .. Len(evs) : Legal(h[i - 1], evs[i]) /\ h[i] = ViewAfter(h[i - 1], evs[i])
    BY DEF Tells
<1>3. evs \in Seq(Event) /\ Len(evs) \in Nat
    BY DEF Tells
<1> DEFINE J == [i \in 0 .. Len(evs) |-> {x \in Seq(RowType) : IsView(h[i]) /\ RowsShow(x, Rows(h[i], own))}]
<1>4. rs \in J[0]
    BY <1>2, <1>3 DEF RowsShow
<1>5. ASSUME NEW i \in 1 .. Len(evs), NEW x \in J[i - 1] PROVE RowsSee(<<>>, x, evs[i]) \in J[i]
    <2>1. i - 1 \in 0 .. Len(evs) /\ i \in 0 .. Len(evs)
        BY <1>3
    <2>2. IsView(h[i - 1]) /\ RowsShow(x, Rows(h[i - 1], own))
        BY <1>5, <2>1
    <2>3. IsView(h[i]) /\ RowsShow(RowsAfter(x, evs[i]), Rows(h[i], own))
        BY <1>2, <2>2, ViewStep, RowsStep
    <2>4. QED
        BY <2>1, <2>3 DEF RowsSee, RowsShow
<1>6. FR!Fold(<<>>, rs, evs) \in J[Len(evs)]
    <2> HIDE DEF J
    <2>1. QED
        BY <1>3, <1>4, <1>5, FR!FoldChain
<1>7. Len(evs) \in 0 .. Len(evs)
    BY <1>3
<1>8. QED
    BY <1>1, <1>2, <1>6, <1>7

\* ignore_event_cb
LEMMA IconsFollow ==
    ASSUME NEW u, IsView(u), NEW v, NEW evs, Tells(u, evs, v), NEW I, NEW d, IconsOn(d, I, u)
    PROVE  /\ IconsOn(FoldLeft(IconsAfter, d, evs), I, v)
           /\ FoldLeft(IconsAfter, d, evs).open = d.open
<1>1. FoldLeft(IconsAfter, d, evs) = FI!Fold(<<>>, d, evs)
    BY DEF FI!Fold, IconsSee, FoldLeft, FI!FoldLeft, MapThenFoldSet, FI!MapThenFoldSet, Max, FI!Max
<1>2. PICK h : /\ h[0] = u /\ h[Len(evs)] = v
               /\ \A i \in 1 .. Len(evs) : Legal(h[i - 1], evs[i]) /\ h[i] = ViewAfter(h[i - 1], evs[i])
    BY DEF Tells
<1>3. evs \in Seq(Event) /\ Len(evs) \in Nat
    BY DEF Tells
<1> DEFINE J == [i \in 0 .. Len(evs) |-> {x \in [open : BOOLEAN, icons : [I -> AnyMode]] :
                                             IsView(h[i]) /\ IconsOn(x, I, h[i]) /\ x.open = d.open}]
<1>4. d \in J[0]
    BY <1>2, <1>3 DEF IconsOn
<1>5. ASSUME NEW i \in 1 .. Len(evs), NEW x \in J[i - 1] PROVE IconsSee(<<>>, x, evs[i]) \in J[i]
    <2>1. i - 1 \in 0 .. Len(evs) /\ i \in 0 .. Len(evs)
        BY <1>3
    <2>2. IsView(h[i - 1]) /\ IconsOn(x, I, h[i - 1]) /\ x.open = d.open
        BY <1>5, <2>1
    <2>3. IsView(h[i]) /\ IconsOn(IconsAfter(x, evs[i]), I, h[i])
        BY <1>2, <2>2, ViewStep, IconsStep
    <2>4. IconsAfter(x, evs[i]).open = d.open
        BY <2>2 DEF IconsAfter, IconsOn
    <2>5. QED
        BY <2>1, <2>3, <2>4 DEF IconsSee, IconsOn
<1>6. FI!Fold(<<>>, d, evs) \in J[Len(evs)]
    <2> HIDE DEF J
    <2>1. QED
        BY <1>3, <1>4, <1>5, FI!FoldChain
<1>7. Len(evs) \in 0 .. Len(evs)
    BY <1>3
<1>8. QED
    BY <1>1, <1>2, <1>6, <1>7

-----------------------------------------------------------------------------
\* The row of oneself, while connected
Own(on, who) == IF on THEN {Row(Null, who.name, who.mode)} ELSE {}

\* The inductive invariant of the windows and the lists
DeskInv ==
    /\ IsTab(users) /\ up \in BOOLEAN /\ me \in [name : MyNicks, mode : Modes]
    /\ windows \in Seq(Window)
    /\ \A i \in 1 .. Len(windows) : WindowOn(windows[i], View(users))
    /\ RowsShow(rows, Rows(View(users), Own(up, me)))
    /\ IconsOn(dialog, DOMAIN dialog.icons, View(users))
    /\ dialog.open => DOMAIN dialog.icons = ignored

\* One's own row is a row of no user.
LEMMA OwnRow ==
    ASSUME NEW who \in [name : MyNicks, mode : Modes], NEW on
    PROVE  /\ \A x \in Own(on, who) : x.user = Null
           /\ Row(Null, who.name, who.mode) \in RowType
           /\ Row(Null, who.name, who.mode).user = Null
BY DEF Own, Row, RowType, AnyMode

\* What an operation on the list of users tells is followed.
LEMMA FollowKeeps ==
    ASSUME DeskInv, NEW r, Report(users, r), Follow(r), UNCHANGED <<up, me, ignored>>
    PROVE  DeskInv'
<1>1. IsView(View(users)) /\ Tells(View(users), r.evs, View(r.tab)) /\ IsTab(r.tab) /\ users' = r.tab
    BY DEF DeskInv, IsTab, Report, Follow
<1>2. /\ windows' \in Seq(Window) /\ Len(windows') = Len(windows)
      /\ \A i \in 1 .. Len(windows) : WindowOn(windows'[i], View(r.tab))
    <2> DEFINE after == [i \in DOMAIN windows |-> FoldLeft(WindowAfter, windows[i], r.evs)]
    <2>1. windows \in Seq(Window) /\ DOMAIN windows = 1 .. Len(windows) /\ Len(windows) \in Nat
        BY DEF DeskInv
    <2>2. \A i \in 1 .. Len(windows) : after[i] = FoldLeft(WindowAfter, windows[i], r.evs)
        BY <2>1
    <2>3. \A i \in 1 .. Len(windows) : WindowOn(FoldLeft(WindowAfter, windows[i], r.evs), View(r.tab))
        BY <1>1, WindowFollows DEF DeskInv
    <2>4. \A i \in 1 .. Len(windows) : WindowOn(after[i], View(r.tab))
        BY <2>2, <2>3
    <2>5. DOMAIN after = 1 .. Len(windows) /\ after = [i \in 1 .. Len(windows) |-> after[i]]
        BY <2>1
    <2>6. windows' = after
        BY DEF Follow
    <2> HIDE DEF after
    <2>7. after \in [1 .. Len(windows) -> Window]
        BY <2>4, <2>5 DEF WindowOn
    <2>8. after \in Seq(Window) /\ Len(after) = Len(windows)
        BY <2>1, <2>7
    <2>9. QED
        BY <2>4, <2>6, <2>8
<1>3. RowsShow(rows', Rows(View(r.tab), Own(up, me)))
    <2>1. \A x \in Own(up, me) : x.user = Null
        BY OwnRow DEF DeskInv
    <2>2. RowsShow(rows, Rows(View(users), Own(up, me))) /\ rows' = FoldLeft(RowsAfter, rows, r.evs)
        BY DEF DeskInv, Follow
    <2>3. QED
        BY <1>1, <2>1, <2>2, RowsFollow
<1>4. IconsOn(dialog', DOMAIN dialog.icons, View(r.tab)) /\ dialog'.open = dialog.open
    <2>1. IconsOn(dialog, DOMAIN dialog.icons, View(users)) /\ dialog' = FoldLeft(IconsAfter, dialog, r.evs)
        BY DEF DeskInv, Follow
    <2>2. QED
        BY <1>1, <2>1, IconsFollow
<1>5. DOMAIN dialog'.icons = DOMAIN dialog.icons
    BY <1>4 DEF IconsOn
<1>6. QED
    BY <1>1, <1>2, <1>3, <1>4, <1>5 DEF DeskInv

\* What the end of a round yields is a list and its events.
LEMMA RoundShape ==
    ASSUME NEW t, IsTab(t), NEW keep
    PROVE  RoundEnded(t, keep) = [tab |-> RoundEnded(t, keep).tab, evs |-> RoundEnded(t, keep).evs]
<1> DEFINE s == SetToSeq(Users(t))
           b == [tab |-> t, evs |-> <<>>]
<1>1. RoundEnded(t, keep) = VU!Fold(keep, b, s)
    BY DEF RoundEnded, ForEachUser, VU!Fold, VisitUnreplied, FoldLeft, VU!FoldLeft,
           MapThenFoldSet, VU!MapThenFoldSet, Max, VU!Max
<1>2. s \in Seq(Users(t))
    BY UsersFinite, Order
<1> HIDE DEF s
<1>3. PICK h : /\ h[0] = b
               /\ \A i \in 1 .. Len(s) : h[i] = VisitUnreplied(keep, h[i - 1], s[i])
               /\ VU!Fold(keep, b, s) = h[Len(s)]
    BY <1>2, VU!FoldTrace
<1>4. Len(s) = 0 \/ Len(s) \in 1 .. Len(s)
    BY <1>2
<1>5. QED
    BY <1>1, <1>3, <1>4 DEF VisitUnreplied

\* What concerns neither the users, nor the windows, nor the list, nor the ignored
LEMMA TipOnly ==
    ASSUME DeskInv, UNCHANGED <<users, up, me, windows, rows, ignored, dialog>>
    PROVE  DeskInv'
BY DEF DeskInv

\* Someone is heard of.
LEMMA HearKeeps == ASSUME DeskInv, NEW n \in Nicks, NEW m \in Modes, Hear(n, m) PROVE DeskInv'
<1>1. IsTab(users) /\ m \in AnyMode
    BY DEF DeskInv, AnyMode
<1>2. CASE n \in Names(users)
    <2>1. ByName(users, n) \in Users(users)
        BY <1>2 DEF ByName, Names
    <2>2. QED
        BY <1>1, <1>2, <2>1, AnsweredReports, FollowKeeps DEF Hear
<1>3. CASE n \notin Names(users)
    <2>1. FreeBlock(users) \in Blocks \ Users(users)
        BY <1>1, <1>3, FreeBlockIsFree
    <2>2. QED
        BY <1>1, <1>3, <2>1, AddedReports, FollowKeeps DEF Hear
<1>4. QED
    BY <1>2, <1>3

\* One user renames, or goes.
LEMMA RenameKeeps ==
    ASSUME DeskInv, NEW u \in Users(users), (\E n \in Nicks : Rename(u, n)) \/ Leave(u)
    PROVE  DeskInv'
<1>1. IsTab(users)
    BY DEF DeskInv
<1>2. ASSUME NEW n \in Nicks, Rename(u, n) PROVE DeskInv'
    BY <1>1, <1>2, RenamedReports, FollowKeeps DEF Rename
<1>3. ASSUME Leave(u) PROVE DeskInv'
    BY <1>1, <1>3, RemovedReports, FollowKeeps DEF Leave, Turn
<1>4. QED
    BY <1>2, <1>3

\* Those who have not replied go.
LEMMA UnrepliedKeeps == ASSUME DeskInv, RemoveUnreplied PROVE DeskInv'
<1>1. IsTab(users)
    BY DEF DeskInv
<1>2. QED
    BY <1>1, MenuReports, FollowKeeps DEF RemoveUnreplied

\* The round is over.
LEMMA RoundKeeps ==
    ASSUME DeskInv, NEW keep \in BOOLEAN, NEW mute, Round(mute, keep)
    PROVE  DeskInv'
<1> DEFINE asked == [u \in Users(users) |-> [users[u] EXCEPT !.replied = u \notin mute]]
           ended == RoundEnded(asked, keep)
           r == [ended EXCEPT !.tab = AllReplied(@)]
<1>1. IsTab(users)
    BY DEF DeskInv
<1>2. IsTab(asked) /\ View(asked) = View(users)
    <2>1. ASSUME NEW u \in Users(users)
          PROVE  /\ asked[u] \in [name : Nicks, mode : AnyMode, replied : BOOLEAN]
                 /\ asked[u].name = users[u].name /\ asked[u].mode = users[u].mode
        <3> DEFINE b == u \notin mute
        <3>1. b \in BOOLEAN /\ asked[u] = [users[u] EXCEPT !.replied = b]
            OBVIOUS
        <3> HIDE DEF b, asked
        <3>2. users[u] \in [name : Nicks, mode : AnyMode, replied : BOOLEAN]
            BY <1>1 DEF IsTab
        <3>3. QED
            BY <3>1, <3>2
    <2>2. asked \in [Users(users) -> [name : Nicks, mode : AnyMode, replied : BOOLEAN]]
        BY <2>1
    <2> HIDE DEF asked
    <2>3. QED
        BY <1>1, <2>1, <2>2, SameView
<1> HIDE DEF asked
<1>3. Report(asked, ended)
    BY <1>2, RoundEndedReports
<1> HIDE DEF ended
<1>4. IsTab(AllReplied(ended.tab)) /\ View(AllReplied(ended.tab)) = View(ended.tab)
    <2> DEFINE t == ended.tab
    <2>1. IsTab(t)
        BY <1>3 DEF Report
    <2> HIDE DEF t
    <2>2. ASSUME NEW u \in Users(t)
          PROVE  /\ AllReplied(t)[u] \in [name : Nicks, mode : AnyMode, replied : BOOLEAN]
                 /\ AllReplied(t)[u].name = t[u].name /\ AllReplied(t)[u].mode = t[u].mode
        <3>1. AllReplied(t)[u] = [t[u] EXCEPT !.replied = TRUE]
            BY DEF AllReplied
        <3>2. t[u] \in [name : Nicks, mode : AnyMode, replied : BOOLEAN]
            BY <2>1 DEF IsTab
        <3>3. QED
            BY <3>1, <3>2
    <2>3. AllReplied(t) \in [Users(t) -> [name : Nicks, mode : AnyMode, replied : BOOLEAN]]
        BY <2>2 DEF AllReplied
    <2>4. QED
        BY <2>1, <2>2, <2>3, SameView DEF t
<1>5. r.evs = ended.evs /\ r.tab = AllReplied(ended.tab)
    <2>1. ended = [tab |-> ended.tab, evs |-> ended.evs]
        BY <1>2, RoundShape DEF ended
    <2>2. QED
        BY <2>1
<1>6. Report(users, r)
    BY <1>2, <1>3, <1>4, <1>5 DEF Report
<1>7. Follow(r) /\ UNCHANGED <<up, me, ignored>>
    BY DEF Round, ended, asked
<1> HIDE DEF r
<1>8. QED
    BY <1>6, <1>7, FollowKeeps

\* Refresh in the menu
LEMMA RefreshKeeps == ASSUME DeskInv, NEW keep \in BOOLEAN, RefreshList(keep) PROVE DeskInv'
<1>1. IsTab(users)
    BY DEF DeskInv
<1>2. CASE keep
    BY <1>1, <1>2, MarkedDeadReports, FollowKeeps DEF RefreshList
<1>3. CASE ~keep
    <2>1. AllMarkedDead(users, keep) = RemovedAll(users)
        BY <1>3 DEF AllMarkedDead
    <2>2. QED
        BY <1>1, <2>1, RemovedAllReports, FollowKeeps DEF RefreshList
<1>4. QED
    BY <1>2, <1>3

\* One's own row comes with the network.
LEMMA ConnectKeeps == ASSUME DeskInv, Connect PROVE DeskInv'
<1> DEFINE r == Row(Null, me.name, me.mode)
<1>1. r \in RowType /\ r.user = Null /\ me \in [name : MyNicks, mode : Modes]
    BY OwnRow DEF DeskInv
<1>2. Rows(View(users), Own(up, me)) \cup {r} = Rows(View(users), Own(TRUE, me))
    BY DEF Connect, Own, Rows
<1>3. \A x \in Rows(View(users), Own(up, me)) : x.user # Null
    <2>1. DOMAIN View(users) \subseteq Blocks
        BY DEF DeskInv, IsTab, IsView
    <2>2. QED
        BY <2>1, NullAssumption DEF Connect, Own, Rows, Row
<1> HIDE DEF r
<1>4. RowsShow(RowAdded(rows, r), Rows(View(users), Own(TRUE, me)))
    <2> DEFINE R == Rows(View(users), Own(up, me))
    <2>1. RowsShow(rows, R)
        BY DEF DeskInv
    <2>2. \A x \in R : x.user # r.user
        BY <1>1, <1>3
    <2> HIDE DEF R
    <2>3. RowsShow(RowAdded(rows, r), R \cup {r})
        BY <1>1, <2>1, <2>2, RowAddedShows
    <2>4. QED
        BY <1>2, <2>3 DEF R
<1>5. QED
    BY <1>4 DEF Connect, DeskInv, r

\* ... and goes with it, after all the others.
LEMMA DisconnectKeeps == ASSUME DeskInv, Disconnect PROVE DeskInv'
<1> DEFINE none == RemovedAll(users)
           left == FoldLeft(RowsAfter, rows, none.evs)
<1>1. IsTab(users) /\ Report(users, none)
    BY RemovedAllReports DEF DeskInv
<1>2. IsView(View(users)) /\ Tells(View(users), none.evs, View(none.tab)) /\ IsTab(none.tab)
    BY <1>1 DEF IsTab, Report
<1>3. RowsShow(left, Rows(View(none.tab), Own(up, me)))
    <2>1. \A x \in Own(up, me) : x.user = Null
        BY OwnRow DEF DeskInv
    <2>2. RowsShow(rows, Rows(View(users), Own(up, me)))
        BY DEF DeskInv
    <2> HIDE DEF none
    <2>3. QED
        BY <1>2, <2>1, <2>2, RowsFollow
<1>4. {x \in Rows(View(none.tab), Own(up, me)) : x.user # Null} = Rows(View(none.tab), Own(FALSE, me))
    <2>1. DOMAIN View(none.tab) \subseteq Blocks
        BY <1>2 DEF IsTab, IsView
    <2> HIDE DEF none
    <2>2. \A x \in Own(up, me) : x.user = Null
        BY OwnRow DEF DeskInv
    <2>3. QED
        BY <2>1, <2>2, NullAssumption DEF Own, Rows, Row
<1>5. RowsShow(RowRemoved(left, Null), Rows(View(none.tab), Own(FALSE, me)))
    <2> DEFINE R == Rows(View(none.tab), Own(up, me))
    <2>1. RowsShow(left, R)
        BY <1>3
    <2> HIDE DEF R, left, none
    <2>2. RowsShow(RowRemoved(left, Null), {x \in R : x.user # Null})
        BY <2>1, RowRemovedShows
    <2>3. QED
        BY <1>4, <2>2 DEF R
<1> DEFINE after == [i \in DOMAIN windows |-> FoldLeft(WindowAfter, windows[i], none.evs)]
<1>6. /\ after \in Seq(Window) /\ Len(after) = Len(windows)
      /\ \A i \in 1 .. Len(windows) : WindowOn(after[i], View(none.tab))
    <2> HIDE DEF none
    <2>1. windows \in Seq(Window) /\ DOMAIN windows = 1 .. Len(windows) /\ Len(windows) \in Nat
        BY DEF DeskInv
    <2>2. \A i \in 1 .. Len(windows) : after[i] = FoldLeft(WindowAfter, windows[i], none.evs)
        BY <2>1
    <2>3. \A i \in 1 .. Len(windows) : WindowOn(FoldLeft(WindowAfter, windows[i], none.evs), View(none.tab))
        BY <1>2, WindowFollows DEF DeskInv
    <2>4. \A i \in 1 .. Len(windows) : WindowOn(after[i], View(none.tab))
        BY <2>2, <2>3
    <2>5. DOMAIN after = 1 .. Len(windows) /\ after = [i \in 1 .. Len(windows) |-> after[i]]
        BY <2>1
    <2> HIDE DEF after
    <2>7. after \in [1 .. Len(windows) -> Window]
        BY <2>4, <2>5 DEF WindowOn
    <2>8. QED
        BY <2>1, <2>4, <2>7
<1>7. /\ IconsOn(FoldLeft(IconsAfter, dialog, none.evs), DOMAIN dialog.icons, View(none.tab))
      /\ FoldLeft(IconsAfter, dialog, none.evs).open = dialog.open
    BY <1>2, IconsFollow DEF DeskInv
<1>8. /\ up' = FALSE /\ users' = none.tab /\ windows' = after /\ rows' = RowRemoved(left, Null)
      /\ dialog' = FoldLeft(IconsAfter, dialog, none.evs) /\ me' = me /\ ignored' = ignored
    BY DEF Disconnect
<1> HIDE DEF none, left, after
<1>9. DOMAIN dialog'.icons = DOMAIN dialog.icons /\ dialog'.open = dialog.open
    BY <1>7, <1>8 DEF IconsOn
<1>10. QED
    BY <1>2, <1>5, <1>6, <1>7, <1>8, <1>9 DEF DeskInv

\* One changes one's mode.
LEMMA ChangeModeKeeps == ASSUME DeskInv, NEW m \in Modes, ChangeMode(m) PROVE DeskInv'
<1> DEFINE R == Rows(View(users), Own(up, me))
           New(x) == [user |-> x.user, name |-> x.name, icon |-> IF x.user = Null THEN m ELSE x.icon]
<1>1. RowsShow(rows, R) /\ IsTab(users) /\ me \in [name : MyNicks, mode : Modes] /\ up \in BOOLEAN
    BY DEF DeskInv
<1>2. me' = [name |-> me.name, mode |-> m] /\ me' \in [name : MyNicks, mode : Modes]
    BY <1>1 DEF ChangeMode
<1>3. m \in AnyMode /\ rows' = IconUpdated(rows, Null, m)
    BY DEF AnyMode, ChangeMode
<1>4. RowsShow(rows', {New(x) : x \in R})
    <2> HIDE DEF R
    <2>1. QED
        BY <1>1, <1>3, IconUpdatedShows
<1>5. {New(x) : x \in R} = Rows(View(users), Own(up, me'))
    <2> DEFINE A == {Row(a, View(users)[a].name, View(users)[a].mode) : a \in DOMAIN View(users)}
    <2>1. R = A \cup Own(up, me) /\ Rows(View(users), Own(up, me')) = A \cup Own(up, me')
        BY DEF Rows
    <2>2. \A x \in A : New(x) = x
        <3>1. DOMAIN View(users) \subseteq Blocks
            BY <1>1 DEF IsTab, IsView
        <3>2. QED
            BY <3>1, NullAssumption DEF Row
    <2>3. New(Row(Null, me.name, me.mode)) = Row(Null, me.name, m)
        BY DEF Row
    <2>4. {New(x) : x \in Own(up, me)} = Own(up, me')
        BY <1>2, <2>3 DEF Own
    <2> HIDE DEF A, New, R
    <2>5. {New(x) : x \in A \cup Own(up, me)} = A \cup Own(up, me')
        BY <2>2, <2>4
    <2>6. QED
        BY <2>1, <2>5
<1> HIDE DEF R, New
<1>6. QED
    BY <1>2, <1>4, <1>5 DEF DeskInv, ChangeMode

\* One changes one's nickname.
LEMMA ChangeNickKeeps == ASSUME DeskInv, NEW n \in MyNicks, ChangeNick(n) PROVE DeskInv'
<1> DEFINE R == Rows(View(users), Own(up, me))
           r == Row(Null, n, me.mode)
<1>1. RowsShow(rows, R) /\ IsTab(users) /\ me \in [name : MyNicks, mode : Modes] /\ up \in BOOLEAN
    BY DEF DeskInv
<1>2. me' = [name |-> n, mode |-> me.mode] /\ me' \in [name : MyNicks, mode : Modes]
    BY <1>1 DEF ChangeNick
<1>3. RowsShow(rows', Rows(View(users), Own(up, me')))
    <2>1. CASE up
        <3>1. r \in RowType /\ r.user = Null /\ Own(up, me') = {r}
            BY <1>2, <2>1 DEF Row, RowType, Own, AnyMode
        <3>2. {x \in R : x.user # Null} \cup {r} = Rows(View(users), Own(up, me'))
            <4>1. \A x \in Own(up, me) : x.user = Null
                BY <1>1, OwnRow
            <4>2. DOMAIN View(users) \subseteq Blocks
                BY <1>1 DEF IsTab, IsView
            <4> HIDE DEF r
            <4>3. QED
                BY <3>1, <4>1, <4>2, NullAssumption DEF Rows, Row
        <3> HIDE DEF R, r
        <3>3. RowsShow(RowRemoved(rows, Null), {x \in R : x.user # Null})
            BY <1>1, RowRemovedShows
        <3> DEFINE S == {x \in R : x.user # Null}
        <3>4. \A x \in S : x.user # r.user
            BY <3>1
        <3>5. RowsShow(RowRemoved(rows, Null), S)
            BY <3>3
        <3> HIDE DEF S
        <3>6. RowsShow(RowAdded(RowRemoved(rows, Null), r), S \cup {r})
            BY <3>1, <3>4, <3>5, RowAddedShows
        <3>7. rows' = RowAdded(RowRemoved(rows, Null), r)
            BY <2>1 DEF ChangeNick, r
        <3>8. QED
            BY <3>2, <3>6, <3>7 DEF S
    <2>2. CASE ~up
        <3>1. rows' = rows /\ Own(up, me') = Own(up, me)
            BY <2>2 DEF ChangeNick, Own
        <3>2. QED
            BY <1>1, <3>1
    <2>3. QED
        BY <2>1, <2>2
<1>4. QED
    BY <1>2, <1>3 DEF DeskInv, ChangeNick

\* A window comes up for a user on the list.
LEMMA WindowComes ==
    ASSUME DeskInv, NEW u \in Users(users), NEW my \in BOOLEAN,
           windows' = <<WindowFor(users, u, my)>> \o windows,
           UNCHANGED <<users, up, me, rows, ignored, dialog>>
    PROVE  DeskInv'
<1> DEFINE w == WindowFor(users, u, my)
           n == Len(windows)
           ws == <<w>> \o windows
<1>1. /\ DOMAIN View(users) = Users(users) /\ Users(users) \subseteq Blocks
      /\ View(users)[u].name = users[u].name /\ View(users)[u].mode = users[u].mode
      /\ users[u].name \in Nicks
    BY DEF DeskInv, IsTab, IsView, View
<1>2. WindowOn(w, View(users))
    <2>1. (users[u].mode \in Messageable) \in BOOLEAN
        OBVIOUS
    <2>2. w \in Window
        BY <1>1, <2>1 DEF WindowFor, Window
    <2>3. QED
        BY <1>1, <2>2, NullAssumption DEF WindowFor, WindowOn
<1> HIDE DEF w
<1>3. windows \in Seq(Window) /\ n \in Nat /\ \A i \in 1 .. n : WindowOn(windows[i], View(users))
    BY DEF DeskInv
<1>4. w \in Window
    BY <1>2 DEF WindowOn
<1>5. /\ ws \in Seq(Window) /\ Len(ws) = n + 1
      /\ \A i \in 1 .. n + 1 : ws[i] = IF i = 1 THEN w ELSE windows[i - 1]
    BY <1>3, <1>4
<1> HIDE DEF ws
<1>6. \A i \in 1 .. Len(ws) : WindowOn(ws[i], View(users))
    <2> SUFFICES ASSUME NEW i \in 1 .. n + 1 PROVE WindowOn(ws[i], View(users))
        BY <1>5
    <2>1. CASE i = 1
        BY <1>2, <1>5, <2>1
    <2>2. CASE i # 1
        <3>1. i - 1 \in 1 .. n
            BY <1>3, <2>2
        <3>2. QED
            BY <1>3, <1>5, <2>2, <3>1
    <2>3. QED
        BY <2>1, <2>2
<1>7. windows' = ws
    BY DEF ws, w
<1>8. QED
    BY <1>5, <1>6, <1>7 DEF DeskInv

\* A message is received, or one is to be written.
LEMMA WindowsOpenKeep ==
    ASSUME DeskInv, (\E u \in Users(users) : Message(u)) \/ (\E n \in Nicks : WriteTo(n))
    PROVE  DeskInv'
<1>1. ASSUME NEW u \in Users(users), Message(u) PROVE DeskInv'
    BY <1>1, WindowComes DEF Message
<1>2. ASSUME NEW n \in Nicks, WriteTo(n) PROVE DeskInv'
    <2>1. ByName(users, n) \in Users(users)
        BY <1>2 DEF WriteTo, ByName, Names
    <2>2. QED
        BY <1>2, <2>1, WindowComes DEF WriteTo
<1>3. QED
    BY <1>1, <1>2

\* A window becomes one's own, or goes.
LEMMA WindowsChangeKeep ==
    ASSUME DeskInv, NEW i \in DOMAIN windows, Reply(i) \/ CloseWindow(i)
    PROVE  DeskInv'
<1> DEFINE n == Len(windows)
<1>1. /\ windows \in Seq(Window) /\ n \in Nat /\ i \in 1 .. n /\ DOMAIN windows = 1 .. n
      /\ \A j \in 1 .. n : WindowOn(windows[j], View(users))
    BY DEF DeskInv
<1>2. CASE Reply(i)
    <2> DEFINE w == [windows[i] EXCEPT !.my = TRUE]
    <2>1. WindowOn(w, View(users))
        <3> DEFINE x == windows[i]
        <3>1. WindowOn(x, View(users)) /\ x \in Window
            BY <1>1 DEF WindowOn
        <3> HIDE DEF x
        <3>2. /\ [x EXCEPT !.my = TRUE] \in Window
              /\ [x EXCEPT !.my = TRUE].user = x.user /\ [x EXCEPT !.my = TRUE].name = x.name
              /\ [x EXCEPT !.my = TRUE].send = x.send
            BY <3>1 DEF Window
        <3>3. WindowOn([x EXCEPT !.my = TRUE], View(users))
            BY <3>1, <3>2 DEF WindowOn
        <3>4. QED
            BY <3>3 DEF x
    <2>2. windows' = [windows EXCEPT ![i] = w]
        BY <1>2 DEF Reply
    <2> HIDE DEF w
    <2>3. w \in Window
        BY <2>1 DEF WindowOn
    <2>4. /\ windows' \in Seq(Window) /\ Len(windows') = n
          /\ \A j \in 1 .. n : windows'[j] = IF j = i THEN w ELSE windows[j]
        BY <1>1, <2>2, <2>3
    <2>5. \A j \in 1 .. Len(windows') : WindowOn(windows'[j], View(users))
        BY <1>1, <2>1, <2>4
    <2>6. QED
        BY <1>2, <2>4, <2>5 DEF DeskInv, Reply
<1>3. CASE CloseWindow(i)
    <2> DEFINE q == RemoveAt(windows, i)
    <2>1. /\ q \in Seq(Window) /\ Len(q) = n - 1
          /\ \A j \in 1 .. n - 1 : q[j] = IF j < i THEN windows[j] ELSE windows[j + 1]
        BY <1>1, TakenOut
    <2>2. windows' = q
        BY <1>3 DEF CloseWindow
    <2> HIDE DEF q
    <2>3. \A j \in 1 .. n - 1 : j \in 1 .. n /\ j + 1 \in 1 .. n
        BY <1>1
    <2>4. \A j \in 1 .. Len(windows') : WindowOn(windows'[j], View(users))
        BY <1>1, <2>1, <2>2, <2>3
    <2>5. QED
        BY <1>3, <2>1, <2>2, <2>4 DEF DeskInv, CloseWindow
<1>4. QED
    BY <1>2, <1>3

\* The dialog shows every ignored user who is on the list in the mode he is in.
LEMMA FilledAgrees ==
    ASSUME NEW t, IsTab(t), NEW names
    PROVE  /\ Filled(t, names) \in [names -> AnyMode]
           /\ \A u \in Users(t) : t[u].name \in names => Filled(t, names)[t[u].name] = t[u].mode
<1> DEFINE f == Filled(t, names)
<1>1. \A u, v \in Users(t) : t[u].name = t[v].name => u = v
    BY DEF IsTab, IsView, View, Users
<1>2. \A u \in Users(t) : t[u].mode \in AnyMode
    BY DEF IsTab
<1>3. \A u \in Users(t) : IconOf(t, t[u].name) = t[u].mode
    <2> SUFFICES ASSUME NEW u \in Users(t) PROVE IconOf(t, t[u].name) = t[u].mode
        OBVIOUS
    <2> DEFINE v == ByName(t, t[u].name)
    <2>1. v \in Users(t) /\ t[v].name = t[u].name
        BY DEF ByName
    <2>2. v = u
        BY <1>1, <2>1
    <2>3. QED
        BY <2>2 DEF IconOf, Names
<1>4. \A n \in names : IconOf(t, n) \in AnyMode
    <2> SUFFICES ASSUME NEW n \in names PROVE IconOf(t, n) \in AnyMode
        OBVIOUS
    <2>1. CASE n \in Names(t)
        BY <1>2, <1>3, <2>1 DEF Names
    <2>2. CASE n \notin Names(t)
        BY <2>2 DEF IconOf, AnyMode
    <2>3. QED
        BY <2>1, <2>2
<1>5. QED
    BY <1>3, <1>4 DEF Filled

\* A nickname is ignored, or no more, or the dialog comes up.
LEMMA IgnoredKeep ==
    ASSUME DeskInv, NEW names,
           \/ SetIgnored(names)
           \/ names = ignored /\ ShowDialog
    PROVE  DeskInv'
<1> DEFINE f == Filled(users, names)
<1>1. IsTab(users) /\ IconsOn(dialog, DOMAIN dialog.icons, View(users))
    BY DEF DeskInv
<1>2. f \in [names -> AnyMode] /\ \A u \in Users(users) : users[u].name \in names => f[users[u].name] = users[u].mode
    BY <1>1, FilledAgrees
<1> HIDE DEF f
<1>3. DOMAIN f = names
    BY <1>2
<1>4. DOMAIN View(users) = Users(users)
      /\ \A u \in Users(users) : View(users)[u].name = users[u].name /\ View(users)[u].mode = users[u].mode
    BY DEF View
<1>5. ASSUME NEW d, d = [open |-> TRUE, icons |-> f]
      PROVE  IconsOn(d, DOMAIN d.icons, View(users)) /\ DOMAIN d.icons = names
    <2>1. d.open = TRUE /\ d.icons = f /\ d \in [open : BOOLEAN, icons : [names -> AnyMode]]
        BY <1>2, <1>5
    <2>2. QED
        BY <1>2, <1>3, <1>4, <2>1 DEF IconsOn
<1>6. CASE SetIgnored(names)
    <2>1. CASE dialog.open
        <3>1. dialog \in [open : BOOLEAN, icons : [DOMAIN dialog.icons -> AnyMode]]
            BY <1>1 DEF IconsOn
        <3>2. dialog' = [open |-> TRUE, icons |-> f]
            BY <1>6, <2>1, <3>1 DEF SetIgnored, f
        <3>3. QED
            BY <1>5, <1>6, <3>2 DEF SetIgnored, DeskInv
    <2>2. CASE ~dialog.open
        <3>1. dialog' = dialog
            BY <1>6, <2>2 DEF SetIgnored
        <3>2. QED
            BY <1>6, <2>2, <3>1 DEF SetIgnored, DeskInv
    <2>3. QED
        BY <2>1, <2>2
<1>7. CASE names = ignored /\ ShowDialog
    <2>1. dialog' = [open |-> TRUE, icons |-> f]
        BY <1>7 DEF ShowDialog, f
    <2>2. QED
        BY <1>5, <1>7, <2>1 DEF ShowDialog, DeskInv
<1>8. QED
    BY <1>6, <1>7

\* Nothing is shown.
LEMMA NoIcons == ASSUME NEW v, NEW d, d = [open |-> FALSE, icons |-> <<>>]
                 PROVE  IconsOn(d, DOMAIN d.icons, v) /\ ~d.open
<1>1. d.open = FALSE /\ d.icons = <<>> /\ d \in [open : BOOLEAN, icons : [DOMAIN d.icons -> AnyMode]]
    <2>1. <<>> \in [DOMAIN <<>> -> AnyMode]
        OBVIOUS
    <2>2. QED
        BY <2>1
<1>2. QED
    BY <1>1 DEF IconsOn

\* The dialog is closed, or the program ends.
LEMMA ClosesKeep == ASSUME DeskInv, CloseDialog \/ Quit PROVE DeskInv'
<1>1. dialog' = [open |-> FALSE, icons |-> <<>>]
    BY DEF CloseDialog, Quit
<1>2. IconsOn(dialog', DOMAIN dialog'.icons, View(users)) /\ ~dialog'.open
    BY <1>1, NoIcons
<1>3. CASE CloseDialog
    BY <1>2, <1>3 DEF CloseDialog, DeskInv
<1>4. CASE Quit
    <2>1. windows' = <<>> /\ windows' \in Seq(Window) /\ Len(windows') = 0
        BY <1>4 DEF Quit
    <2>2. QED
        BY <1>2, <1>4, <2>1 DEF Quit, DeskInv
<1>5. QED
    BY <1>3, <1>4

\* Every step, and none, keeps the windows and the lists true.
LEMMA NextDeskInv == DeskInv /\ [Next]_vars => DeskInv'
<1> SUFFICES ASSUME DeskInv, [Next]_vars PROVE DeskInv'
    OBVIOUS
<1>1. CASE \E n \in Nicks, m \in Modes : Hear(n, m)
    BY <1>1, HearKeeps
<1>2. CASE \E u \in Users(users) : (\E n \in Nicks : Rename(u, n)) \/ Leave(u)
    BY <1>2, RenameKeeps
<1>3. CASE (\E u \in Users(users) : Message(u)) \/ (\E n \in Nicks : WriteTo(n))
    BY <1>3, WindowsOpenKeep
<1>4. CASE RemoveUnreplied
    BY <1>4, UnrepliedKeeps
<1>5. CASE \E keep \in BOOLEAN : RefreshList(keep) \/ \E mute \in SUBSET Users(users) : Round(mute, keep)
    <2>1. ASSUME NEW keep \in BOOLEAN, RefreshList(keep) PROVE DeskInv'
        BY <2>1, RefreshKeeps
    <2>2. ASSUME NEW keep \in BOOLEAN, NEW mute \in SUBSET Users(users), Round(mute, keep) PROVE DeskInv'
        BY <2>2, RoundKeeps
    <2>3. QED
        BY <1>5, <2>1, <2>2
<1>6. CASE Connect \/ Disconnect
    BY <1>6, ConnectKeeps, DisconnectKeeps
<1>7. CASE (\E m \in Modes : ChangeMode(m)) \/ (\E n \in MyNicks : ChangeNick(n))
    BY <1>7, ChangeModeKeeps, ChangeNickKeeps
<1>8. CASE \E i \in DOMAIN windows : Reply(i) \/ CloseWindow(i)
    BY <1>8, WindowsChangeKeep
<1>9. CASE \/ \E u \in Users(users) : InfoReply(u)
           \/ \E i \in DOMAIN rows : PointAt(i)
           \/ PointAway \/ TipTimeout \/ UNCHANGED vars
    <2>1. UNCHANGED <<users, up, me, windows, rows, ignored, dialog>>
        BY <1>9 DEF InfoReply, PointAt, PointAway, TipTimeout, vars
    <2>2. QED
        BY <2>1, TipOnly
<1>10. CASE (\E n \in Ignorable : Ignore(n) \/ Unignore(n)) \/ UnignoreAll \/ ShowDialog
    BY <1>10, IgnoredKeep DEF Ignore, Unignore, UnignoreAll
<1>11. CASE CloseDialog \/ Quit
    BY <1>11, ClosesKeep
<1>12. QED
    BY <1>1, <1>2, <1>3, <1>4, <1>5, <1>6, <1>7, <1>8, <1>9, <1>10, <1>11 DEF Next

\* At the start there is nobody, no window and no row.
LEMMA InitDeskInv == Init => DeskInv
<1> SUFFICES ASSUME Init PROVE DeskInv
    OBVIOUS
<1>1. users = <<>> /\ Users(users) = {} /\ View(users) = <<>>
    BY DEF Init, Users, View
<1>2. IsTab(users)
    <2>1. users \in [Users(users) -> [name : Nicks, mode : AnyMode, replied : BOOLEAN]]
        BY <1>1 DEF Users
    <2>2. IsView(View(users))
        <3> DEFINE v == View(users)
        <3>1. v = <<>> /\ DOMAIN v = {}
            BY <1>1
        <3>2. v \in [DOMAIN v -> [name : Nicks, mode : AnyMode]]
            BY <3>1
        <3> HIDE DEF v
        <3>3. IsView(v)
            BY <3>1, <3>2 DEF IsView
        <3>4. QED
            BY <3>3 DEF v
    <2>3. QED
        BY <2>1, <2>2 DEF IsTab
<1>3. windows \in Seq(Window) /\ \A i \in 1 .. Len(windows) : WindowOn(windows[i], View(users))
    <2>1. windows = <<>> /\ windows \in Seq(Window) /\ Len(windows) = 0
        BY DEF Init
    <2>2. QED
        BY <2>1
<1>4. RowsShow(rows, Rows(View(users), Own(up, me)))
    <2>1. rows = <<>> /\ rows \in Seq(RowType) /\ Len(rows) = 0 /\ ~up
        BY DEF Init
    <2>2. Rows(View(users), Own(up, me)) = {}
        BY <1>1, <2>1 DEF Rows, Own
    <2>3. QED
        BY <2>1, <2>2 DEF RowsShow
<1>5. IconsOn(dialog, DOMAIN dialog.icons, View(users)) /\ ~dialog.open
    BY NoIcons DEF Init
<1>6. up \in BOOLEAN /\ me \in [name : MyNicks, mode : Modes]
    BY DEF Init
<1>7. QED
    BY <1>2, <1>3, <1>4, <1>5, <1>6 DEF DeskInv

\* WindowsReach: the address a window keeps is of a user on the list who has
\* the window's name, through all events of the list of users.
THEOREM WindowsFollowUsers == Spec => []WindowsReach
<1>1. DeskInv => WindowsReach
    <2> SUFFICES ASSUME DeskInv, NEW i \in DOMAIN windows
                 PROVE  LET w == windows[i]
                        IN  IF w.user = Null THEN ~w.send
                            ELSE /\ w.user \in Users(users)
                                 /\ users[w.user].name = w.name
                                 /\ w.send = (users[w.user].mode \in Messageable)
        BY DEF WindowsReach
    <2>1. WindowOn(windows[i], View(users))
        BY DEF DeskInv
    <2>2. DOMAIN View(users) = Users(users)
          /\ \A u \in Users(users) : View(users)[u].name = users[u].name /\ View(users)[u].mode = users[u].mode
        BY DEF View
    <2> DEFINE w == windows[i]
    <2> HIDE DEF w
    <2>3. WindowOn(w, View(users))
        BY <2>1 DEF w
    <2>4. IF w.user = Null THEN ~w.send
          ELSE /\ w.user \in Users(users)
               /\ users[w.user].name = w.name
               /\ w.send = (users[w.user].mode \in Messageable)
        BY <2>2, <2>3 DEF WindowOn
    <2>5. QED
        BY <2>4 DEF w
<1>2. QED
    BY <1>1, InitDeskInv, NextDeskInv, PTL DEF Spec

\* As many rows as there are users, and one's own
LEMMA RowsCounted ==
    ASSUME DeskInv
    PROVE  Len(rows) = Cardinality(Users(users)) + (IF up THEN 1 ELSE 0)
<1> DEFINE v == View(users)
           A == {Row(a, v[a].name, v[a].mode) : a \in DOMAIN v}
           R == Rows(v, Own(up, me))
           f == [a \in DOMAIN v |-> Row(a, v[a].name, v[a].mode)]
           n == Len(rows)
<1>1. IsTab(users) /\ DOMAIN v = Users(users) /\ DOMAIN v \subseteq Blocks
    BY DEF DeskInv, IsTab, IsView, View
<1>2. IsFiniteSet(DOMAIN v)
    BY <1>1, UsersFinite
<1>3. f \in Bijection(DOMAIN v, A)
    <2>1. f \in Injection(DOMAIN v, A)
        BY DEF Injection, IsInjective, Row
    <2>2. f \in Surjection(DOMAIN v, A)
        BY DEF Surjection
    <2>3. QED
        BY <2>1, <2>2 DEF Bijection
<1> HIDE DEF f
<1>4. IsFiniteSet(A) /\ Cardinality(A) = Cardinality(DOMAIN v)
    <2> HIDE DEF A, v
    <2>1. QED
        BY <1>2, <1>3, FS_Bijection DEF ExistsBijection
<1>5. Cardinality(A) \in Nat
    BY <1>4, FS_CardinalityType
<1>6. IsFiniteSet(R) /\ Cardinality(R) = Cardinality(A) + (IF up THEN 1 ELSE 0)
    <2>1. R = A \cup Own(up, me)
        BY DEF Rows
    <2>2. CASE up
        <3> DEFINE r == Row(Null, me.name, me.mode)
        <3>1. R = A \cup {r}
            BY <2>1, <2>2 DEF Own
        <3>2. r \notin A
            BY <1>1, NullAssumption DEF Row
        <3> HIDE DEF A, r
        <3>3. IsFiniteSet(A \cup {r}) /\ Cardinality(A \cup {r}) = Cardinality(A) + 1
            BY <1>4, <3>2, FS_AddElement
        <3>4. QED
            BY <2>2, <3>1, <3>3
    <2>3. CASE ~up
        <3>1. R = A
            BY <2>1, <2>3 DEF Own
        <3> HIDE DEF A, R
        <3>2. QED
            BY <1>4, <1>5, <2>3, <3>1
    <2>4. QED
        BY <2>2, <2>3
<1>7. RowsShow(rows, R)
    BY DEF DeskInv
<1> HIDE DEF R
<1>8. n \in Nat /\ DOMAIN rows = 1 .. n /\ rows \in Bijection(1 .. n, R)
    <2>1. n \in Nat /\ DOMAIN rows = 1 .. n /\ rows \in [1 .. n -> R] /\ R = {rows[i] : i \in 1 .. n}
        BY <1>7 DEF RowsShow
    <2>2. \A i, j \in 1 .. n : rows[i] = rows[j] => i = j
        BY <1>7 DEF RowsShow
    <2>3. rows \in Injection(1 .. n, R)
        BY <2>1, <2>2 DEF Injection, IsInjective
    <2>4. rows \in Surjection(1 .. n, R)
        BY <2>1 DEF Surjection
    <2>5. QED
        BY <2>1, <2>3, <2>4 DEF Bijection
<1>9. IsFiniteSet(1 .. n) /\ Cardinality(1 .. n) = n
    <2>1. Cardinality(1 .. n) = IF 1 > n THEN 0 ELSE n - 1 + 1
        BY <1>8, FS_Interval
    <2>2. IsFiniteSet(1 .. n)
        BY <1>8, FS_Interval
    <2>3. QED
        BY <1>8, <2>1, <2>2
<1>10. Cardinality(R) = n
    <2> HIDE DEF n
    <2>1. QED
        BY <1>8, <1>9, FS_Bijection DEF ExistsBijection
<1>11. QED
    BY <1>1, <1>4, <1>6, <1>10

\* ListsAgree: the list of users shows who there is, in order, and oneself; the
\* dialog of ignored users shows each in the mode he is in.
THEOREM ListsFollowUsers == Spec => []ListsAgree
<1>1. DeskInv => ListsAgree
    <2> SUFFICES ASSUME DeskInv PROVE ListsAgree
        OBVIOUS
    <2> DEFINE v == View(users)
    <2>1. DOMAIN v = Users(users)
          /\ \A u \in Users(users) : v[u].name = users[u].name /\ v[u].mode = users[u].mode
        BY DEF View
    <2>2. RowsShow(rows, Rows(v, Own(up, me)))
        BY DEF DeskInv
    <2>3. DOMAIN rows = 1 .. Len(rows)
        BY <2>2 DEF RowsShow
    <2>4. Own(up, me) = {Row(Null, me.name, me.mode) : x \in IF up THEN {1} ELSE {}}
        BY DEF Own
    <2>5. {Row(a, v[a].name, v[a].mode) : a \in DOMAIN v}
            = {Row(u, users[u].name, users[u].mode) : u \in Users(users)}
        BY <2>1
    <2>6. {rows[i] : i \in DOMAIN rows} = Rows(v, Own(up, me))
        BY <2>2, <2>3 DEF RowsShow
    <2>7. Rows(v, Own(up, me)) = {Row(u, users[u].name, users[u].mode) : u \in Users(users)}
                                   \cup {Row(Null, me.name, me.mode) : x \in IF up THEN {1} ELSE {}}
        BY <2>4, <2>5 DEF Rows
    <2>8. \A i, j \in DOMAIN rows : i < j => rows[i].name <= rows[j].name
        BY <2>2, <2>3 DEF RowsShow
    <2>9. Len(rows) = Cardinality(Users(users)) + (IF up THEN 1 ELSE 0)
        BY RowsCounted
    <2>10. dialog.open => /\ DOMAIN dialog.icons = ignored
                          /\ \A u \in Users(users) : users[u].name \in ignored =>
                                dialog.icons[users[u].name] = users[u].mode
        BY <2>1 DEF DeskInv, IconsOn
    <2>11. QED
        BY <2>6, <2>7, <2>8, <2>9, <2>10 DEF ListsAgree
<1>2. QED
    BY <1>1, InitDeskInv, NextDeskInv, PTL DEF Spec
=============================================================================
