--------------------------- MODULE UserListProofs ---------------------------
(***************************************************************************)
(* What user.c tells the other modules of the list of users, for any       *)
(* nicknames, modes and memory blocks.                                     *)
(*                                                                         *)
(* The others follow the list by its events alone.  What the events have   *)
(* told so far is a view: the names and modes by address.  Legal says      *)
(* which events may come to those who have a view, and ViewAfter what they *)
(* know then.  Each operation of user.c is shown to Report: its events     *)
(* lead, one legal event after another, from the view of the list before   *)
(* it to that of the list after it.                                        *)
(***************************************************************************)
EXTENDS UserList, FiniteSetTheorems, SequenceTheorems, TLAPS

-----------------------------------------------------------------------------
(***************************************************************************)
(* What the other modules know of a user                                   *)
(***************************************************************************)

AnyMode == Modes \cup {DEAD}

View(tab) == [u \in Users(tab) |-> [name |-> tab[u].name, mode |-> tab[u].mode]]

\* No two users have one name, as the hash table is keyed by it.
IsView(v) ==
    /\ v \in [DOMAIN v -> [name : Nicks, mode : AnyMode]]
    /\ DOMAIN v \subseteq Blocks
    /\ \A a, b \in DOMAIN v : v[a].name = v[b].name => a = b

IsTab(tab) ==
    /\ tab \in [Users(tab) -> [name : Nicks, mode : AnyMode, replied : BOOLEAN]]
    /\ IsView(View(tab))

Event == [ev : {"NEW", "MODE", "RENAME", "REMOVED"}, uid : Blocks, name : Nicks,
          mode : AnyMode, prev : AnyMode]

\* The events that may come when the others know v: one's removal comes twice.
Legal(v, e) ==
    /\ e \in Event
    /\ e.ev = "NEW" => e.uid \notin DOMAIN v
    /\ e.ev \in {"NEW", "RENAME"} => \A a \in DOMAIN v : v[a].name # e.name
    /\ e.ev \in {"MODE", "RENAME"} => e.uid \in DOMAIN v
    /\ e.ev \in {"MODE", "REMOVED"} => \A a \in DOMAIN v : v[a].name = e.name <=> a = e.uid
    /\ e.ev = "RENAME" => v[e.uid].mode = e.mode
    /\ e.ev = "REMOVED" => e.mode = DEAD

ViewAfter(v, e) ==
    IF e.ev = "REMOVED" THEN [a \in DOMAIN v \ {e.uid} |-> v[a]]
    ELSE [a \in DOMAIN v \cup {e.uid} |->
             IF a = e.uid THEN [name |-> e.name, mode |-> e.mode] ELSE v[a]]

\* A legal event leaves them with what there may be.
LEMMA ViewStep ==
    ASSUME NEW v, IsView(v), NEW e, Legal(v, e)
    PROVE  IsView(ViewAfter(v, e))
<1> DEFINE x == ViewAfter(v, e)
<1>1. CASE e.ev = "REMOVED"
    <2>1. /\ DOMAIN x = DOMAIN v \ {e.uid}
          /\ \A a \in DOMAIN x : x[a] = v[a]
          /\ x = [a \in DOMAIN x |-> x[a]]
        BY <1>1 DEF ViewAfter
    <2> HIDE DEF x
    <2>2. IsView(x)
        BY <2>1 DEF IsView
    <2>3. QED
        BY <2>2 DEF x
<1>2. CASE e.ev # "REMOVED"
    <2>1. /\ DOMAIN x = DOMAIN v \cup {e.uid}
          /\ \A a \in DOMAIN x : x[a] = IF a = e.uid THEN [name |-> e.name, mode |-> e.mode] ELSE v[a]
          /\ x = [a \in DOMAIN x |-> x[a]]
        BY <1>2 DEF ViewAfter
    <2> HIDE DEF x
    <2>2. e.uid \in Blocks /\ [name |-> e.name, mode |-> e.mode] \in [name : Nicks, mode : AnyMode]
        BY DEF Legal, Event
    <2>3. x \in [DOMAIN x -> [name : Nicks, mode : AnyMode]] /\ DOMAIN x \subseteq Blocks
        BY <2>1, <2>2 DEF IsView
    <2>4. e.ev \in {"NEW", "MODE", "RENAME"}
        BY <1>2 DEF Legal, Event
    <2>5. \A a \in DOMAIN v : v[a].name = e.name => a = e.uid
        BY <2>4 DEF Legal
    <2>6. \A a, b \in DOMAIN x : x[a].name = x[b].name => a = b
        <3>1. \A a \in DOMAIN x : x[a].name = IF a = e.uid THEN e.name ELSE v[a].name
            BY <2>1
        <3>2. QED
            BY <2>1, <2>5, <3>1 DEF IsView
    <2>7. IsView(x)
        BY <2>3, <2>6 DEF IsView
    <2>8. QED
        BY <2>7 DEF x
<1>3. QED
    BY <1>1, <1>2

\* Events that lead the others from v to w
Tells(v, evs, w) ==
    /\ evs \in Seq(Event)
    /\ \E h : /\ h[0] = v /\ h[Len(evs)] = w
              /\ \A i \in 1 .. Len(evs) : Legal(h[i - 1], evs[i]) /\ h[i] = ViewAfter(h[i - 1], evs[i])

\* No events tell nothing.
LEMMA TellsNothing == ASSUME NEW v PROVE Tells(v, <<>>, v)
<1> DEFINE h == [i \in {0} |-> v]
<1>1. h[0] = v
    OBVIOUS
<1> HIDE DEF h
<1>2. <<>> \in Seq(Event) /\ Len(<<>>) = 0
    OBVIOUS
<1>3. QED
    BY <1>1, <1>2 DEF Tells

\* One event tells what it says.
LEMMA TellsOne ==
    ASSUME NEW v, NEW e, Legal(v, e)
    PROVE  Tells(v, <<e>>, ViewAfter(v, e))
<1> DEFINE h == [i \in {0, 1} |-> IF i = 0 THEN v ELSE ViewAfter(v, e)]
           s == <<e>>
<1>1. h[0] = v /\ h[1] = ViewAfter(v, e)
    OBVIOUS
<1>2. s \in Seq(Event) /\ Len(s) = 1 /\ s[1] = e
    BY DEF Legal
<1> HIDE DEF h, s
<1>3. Tells(v, s, ViewAfter(v, e))
    <2>1. ASSUME NEW i \in 1 .. Len(s) PROVE Legal(h[i - 1], s[i]) /\ h[i] = ViewAfter(h[i - 1], s[i])
        <3>1. i = 1 /\ i - 1 = 0
            BY <1>2
        <3>2. QED
            BY <3>1, <1>1, <1>2
    <2>2. QED
        BY <1>1, <1>2, <2>1 DEF Tells
<1>4. QED
    BY <1>3 DEF s

\* Events may be told in parts.
LEMMA TellsMore ==
    ASSUME NEW u, NEW v, NEW w, NEW s, NEW t, Tells(u, s, v), Tells(v, t, w)
    PROVE  Tells(u, s \o t, w)
<1>1. PICK g : /\ g[0] = u /\ g[Len(s)] = v
               /\ \A i \in 1 .. Len(s) : Legal(g[i - 1], s[i]) /\ g[i] = ViewAfter(g[i - 1], s[i])
    BY DEF Tells
<1>2. PICK h : /\ h[0] = v /\ h[Len(t)] = w
               /\ \A i \in 1 .. Len(t) : Legal(h[i - 1], t[i]) /\ h[i] = ViewAfter(h[i - 1], t[i])
    BY DEF Tells
<1> DEFINE n == Len(s)
           m == Len(t)
           k == [i \in 0 .. n + m |-> IF i <= n THEN g[i] ELSE h[i - n]]
           st == s \o t
<1>3. s \in Seq(Event) /\ t \in Seq(Event)
    BY DEF Tells
<1>4. n \in Nat /\ m \in Nat
    BY <1>3
<1>5. st \in Seq(Event) /\ Len(st) = n + m
    BY <1>3, ConcatProperties
<1>6. /\ \A i \in 1 .. n : st[i] = s[i]
      /\ \A i \in n + 1 .. n + m : st[i] = t[i - n]
    BY <1>3, <1>4, ConcatProperties
<1>7. /\ \A i \in 0 .. n : k[i] = g[i]
      /\ \A i \in n .. n + m : k[i] = h[i - n]
    <2>1. \A i \in 0 .. n : k[i] = g[i]
        BY <1>4
    <2>2. \A i \in n + 1 .. n + m : k[i] = h[i - n]
        BY <1>4
    <2>3. k[n] = h[n - n]
        BY <2>1, <1>1, <1>2, <1>4
    <2>4. QED
        BY <2>1, <2>2, <2>3, <1>4
<1> HIDE DEF k, st
<1>8. k[0] = u /\ k[n + m] = w
    <2>1. k[0] = g[0]
        BY <1>4, <1>7
    <2>2. k[n + m] = h[(n + m) - n]
        BY <1>4, <1>7
    <2>3. (n + m) - n = m
        BY <1>4
    <2>4. QED
        BY <2>1, <2>2, <2>3, <1>1, <1>2
<1>9. ASSUME NEW i \in 1 .. n + m
      PROVE  Legal(k[i - 1], st[i]) /\ k[i] = ViewAfter(k[i - 1], st[i])
    <2>1. CASE i <= n
        <3>1. i \in 1 .. n /\ i \in 0 .. n /\ i - 1 \in 0 .. n
            BY <1>4, <2>1
        <3>2. QED
            BY <3>1, <1>1, <1>6, <1>7
    <2>2. CASE i > n
        <3>1. /\ i \in n + 1 .. n + m /\ i \in n .. n + m /\ i - 1 \in n .. n + m
              /\ i - n \in 1 .. m /\ (i - 1) - n = (i - n) - 1
            BY <1>4, <2>2
        <3>2. k[i - 1] = h[(i - n) - 1] /\ k[i] = h[i - n] /\ st[i] = t[i - n]
            BY <3>1, <1>6, <1>7
        <3>3. QED
            BY <3>1, <3>2, <1>2
    <2>3. QED
        BY <2>1, <2>2, <1>4
<1> HIDE DEF n, m
<1>10. QED
    BY <1>5, <1>8, <1>9 DEF Tells, st

-----------------------------------------------------------------------------
(***************************************************************************)
(* What user.c tells them                                                  *)
(***************************************************************************)

\* The events of an operation on tab lead those who knew tab to what it yields.
Report(tab, r) == IsTab(r.tab) /\ Tells(View(tab), r.evs, View(r.tab))

\* Another answers, or not: nobody is told.
LEMMA SameView ==
    ASSUME NEW t, IsTab(t), NEW x,
           x \in [Users(t) -> [name : Nicks, mode : AnyMode, replied : BOOLEAN]],
           \A u \in Users(t) : x[u].name = t[u].name /\ x[u].mode = t[u].mode
    PROVE  IsTab(x) /\ View(x) = View(t) /\ Users(x) = Users(t)
<1>1. Users(x) = Users(t)
    BY DEF Users
<1>2. View(x) = View(t)
    BY <1>1 DEF View
<1>3. QED
    BY <1>1, <1>2 DEF IsTab

\* Event and table of set_user_mode
LEMMA ModeSetReports ==
    ASSUME NEW t, IsTab(t), NEW u \in Users(t), NEW m \in AnyMode
    PROVE  /\ Report(t, ModeSet(t, u, m))
           /\ Users(ModeSet(t, u, m).tab) = Users(t)
           /\ ModeSet(t, u, m).evs \in Seq(Event)
<1> DEFINE x == [t EXCEPT ![u].mode = m]
           e == [ev |-> "MODE", uid |-> u, name |-> t[u].name, mode |-> m, prev |-> t[u].mode]
           r == ModeSet(t, u, m)
<1>1. r.tab = x /\ r.evs = IF t[u].mode = m THEN <<>> ELSE <<e>>
    BY DEF ModeSet, Raise
<1>2. /\ x \in [Users(t) -> [name : Nicks, mode : AnyMode, replied : BOOLEAN]]
      /\ Users(x) = Users(t)
      /\ \A a \in Users(t) : x[a].name = t[a].name /\ x[a].mode = IF a = u THEN m ELSE t[a].mode
    BY DEF IsTab, Users
<1>3. /\ DOMAIN View(t) = Users(t)
      /\ \A a \in Users(t) : View(t)[a] = [name |-> t[a].name, mode |-> t[a].mode]
    BY DEF View
<1> HIDE DEF x, r
<1>4. /\ DOMAIN View(x) = Users(t)
      /\ \A a \in Users(t) : View(x)[a] = [name |-> t[a].name, mode |-> IF a = u THEN m ELSE t[a].mode]
    BY <1>2 DEF View
<1>5. CASE t[u].mode = m
    <2>1. IsTab(x) /\ View(x) = View(t)
        BY <1>2, <1>5, SameView
    <2>2. QED
        BY <2>1, <1>1, <1>2, <1>5, TellsNothing DEF Report, r
<1>6. CASE t[u].mode # m
    <2>1. e \in Event
        BY <1>3 DEF IsTab, IsView, Event
    <2>2. Legal(View(t), e)
        BY <2>1, <1>3 DEF Legal, IsTab, IsView
    <2>3. View(x) = ViewAfter(View(t), e)
        <3>1. ViewAfter(View(t), e) = [a \in Users(t) |-> [name |-> t[a].name, mode |-> IF a = u THEN m ELSE t[a].mode]]
            BY <1>3 DEF ViewAfter
        <3>2. View(x) = [a \in Users(t) |-> View(x)[a]]
            BY <1>4 DEF View
        <3>3. QED
            BY <3>1, <3>2, <1>4
    <2> HIDE DEF e
    <2>4. IsView(View(x)) /\ Tells(View(t), <<e>>, View(x))
        BY <2>2, <2>3, ViewStep, TellsOne DEF IsTab
    <2>5. IsTab(x)
        BY <2>4, <1>2 DEF IsTab
    <2>6. <<e>> \in Seq(Event)
        BY <2>1
    <2>7. QED
        BY <2>4, <2>5, <2>6, <1>1, <1>2, <1>6 DEF Report, r
<1>7. QED
    BY <1>5, <1>6

\* The removal event, once or twice, and who is left
LEMMA RemovalTells ==
    ASSUME NEW t, IsTab(t), NEW u \in Users(t)
    PROVE  LET e == [ev |-> "REMOVED", uid |-> u, name |-> t[u].name, mode |-> DEAD, prev |-> DEAD]
           IN  /\ e \in Event
               /\ IsTab(Without(t, u)) /\ Users(Without(t, u)) = Users(t) \ {u}
               /\ Tells(View(t), <<e>>, View(Without(t, u)))
               /\ Tells(View(t), <<e>> \o <<e>>, View(Without(t, u)))
<1> DEFINE e == [ev |-> "REMOVED", uid |-> u, name |-> t[u].name, mode |-> DEAD, prev |-> DEAD]
           x == Without(t, u)
<1>1. /\ Users(x) = Users(t) \ {u} /\ \A a \in Users(x) : x[a] = t[a]
      /\ x = [a \in Users(x) |-> x[a]]
    BY DEF Without, Users
<1>2. /\ DOMAIN View(t) = Users(t)
      /\ \A a \in Users(t) : View(t)[a] = [name |-> t[a].name, mode |-> t[a].mode]
    BY DEF View
<1> HIDE DEF x
<1>3. /\ DOMAIN View(x) = Users(t) \ {u}
      /\ \A a \in Users(x) : View(x)[a] = View(t)[a]
      /\ View(x) = [a \in DOMAIN View(x) |-> View(x)[a]]
    BY <1>1, <1>2 DEF View
<1>4. e \in Event
    BY <1>2 DEF IsTab, IsView, Event, AnyMode
<1>5. Legal(View(t), e)
    BY <1>2, <1>4 DEF Legal, IsTab, IsView
<1>6. ViewAfter(View(t), e) = View(x)
    BY <1>1, <1>2, <1>3 DEF ViewAfter
<1>7. Legal(View(x), e)
    BY <1>1, <1>2, <1>3, <1>4 DEF Legal, IsTab, IsView
<1>8. ViewAfter(View(x), e) = View(x)
    BY <1>3 DEF ViewAfter
<1>9. IsView(View(x))
    BY <1>5, <1>6, ViewStep DEF IsTab
<1>10. IsTab(x)
    BY <1>1, <1>9 DEF IsTab
<1> HIDE DEF e
<1>11. Tells(View(t), <<e>>, View(x)) /\ Tells(View(x), <<e>>, View(x))
    BY <1>5, <1>6, <1>7, <1>8, TellsOne
<1>12. Tells(View(t), <<e>> \o <<e>>, View(x))
    BY <1>11, TellsMore
<1>13. QED
    BY <1>1, <1>4, <1>10, <1>11, <1>12 DEF e, x

\* The turn of one user: others stay as they are on the list.
Turn(tab, u, r) ==
    Report(tab, r) /\ Users(tab) \ {u} \subseteq Users(r.tab) /\ Users(r.tab) \subseteq Users(tab)

\* remove_user_hash_func
LEMMA RemovedReports ==
    ASSUME NEW t, IsTab(t), NEW u \in Users(t)
    PROVE  Turn(t, u, Removed(t, u))
<1> DEFINE d == ModeSet(t, u, DEAD)
           e == [ev |-> "REMOVED", uid |-> u, name |-> t[u].name, mode |-> DEAD, prev |-> DEAD]
           r == Removed(t, u)
<1>1. Report(t, d) /\ Users(d.tab) = Users(t) /\ d.evs \in Seq(Event)
    BY ModeSetReports DEF AnyMode
<1>2. d.tab[u].name = t[u].name
    BY DEF ModeSet, IsTab
<1>3. d = [tab |-> d.tab, evs |-> d.evs]
    BY DEF ModeSet
<1> HIDE DEF d
<1>4. r = [tab |-> Without(d.tab, u), evs |-> (d.evs \o <<e>>) \o <<e>>]
    BY <1>2, <1>3 DEF Removed, Destroyed, Raise, d
<1>5. /\ e \in Event
      /\ IsTab(Without(d.tab, u)) /\ Users(Without(d.tab, u)) = Users(t) \ {u}
      /\ Tells(View(d.tab), <<e>> \o <<e>>, View(Without(d.tab, u)))
    BY <1>1, <1>2, RemovalTells DEF Report
<1> HIDE DEF e, r
<1>6. (d.evs \o <<e>>) \o <<e>> = d.evs \o (<<e>> \o <<e>>)
    <2>1. <<e>> \in Seq(Event)
        BY <1>5
    <2>2. QED
        BY <2>1, <1>1, ConcatAssociative
<1>7. Tells(View(t), d.evs, View(d.tab))
    BY <1>1 DEF Report
<1>8. Tells(View(t), d.evs \o (<<e>> \o <<e>>), View(Without(d.tab, u)))
    BY <1>5, <1>7, TellsMore
<1>9. r.tab = Without(d.tab, u) /\ r.evs = d.evs \o (<<e>> \o <<e>>)
    BY <1>4, <1>6
<1>10. QED
    BY <1>5, <1>8, <1>9 DEF Turn, Report, r

\* remove_dead_cb
LEMMA UnrepliedReports ==
    ASSUME NEW t, IsTab(t), NEW u \in Users(t), NEW keep
    PROVE  Turn(t, u, Unreplied(t, u, keep))
<1> DEFINE d == ModeSet(t, u, DEAD)
           e == [ev |-> "REMOVED", uid |-> u, name |-> t[u].name, mode |-> DEAD, prev |-> DEAD]
           x == [t EXCEPT ![u].replied = FALSE]
<1>1. Report(t, d) /\ Users(d.tab) = Users(t) /\ d.evs \in Seq(Event)
    BY ModeSetReports DEF AnyMode
<1>2. d.tab[u].name = t[u].name
    BY DEF ModeSet, IsTab
<1>3. d = [tab |-> d.tab, evs |-> d.evs]
    BY DEF ModeSet
<1> HIDE DEF d
<1>4. CASE t[u].replied
    <2>1. Unreplied(t, u, keep) = [tab |-> x, evs |-> <<>>]
        BY <1>4 DEF Unreplied
    <2>2. /\ x \in [Users(t) -> [name : Nicks, mode : AnyMode, replied : BOOLEAN]]
          /\ \A a \in Users(t) : x[a].name = t[a].name /\ x[a].mode = t[a].mode
        BY DEF IsTab, Users
    <2> HIDE DEF x
    <2>3. IsTab(x) /\ View(x) = View(t) /\ Users(x) = Users(t)
        BY <2>2, SameView
    <2>4. QED
        BY <2>1, <2>3, TellsNothing DEF Turn, Report
<1>5. CASE ~t[u].replied /\ keep
    BY <1>1, <1>5 DEF Unreplied, Turn, d
<1>6. CASE ~t[u].replied /\ ~keep
    <2>1. Unreplied(t, u, keep) = [tab |-> Without(d.tab, u), evs |-> d.evs \o <<e>>]
        BY <1>2, <1>3, <1>6 DEF Unreplied, Destroyed, Raise, d
    <2>2. /\ IsTab(Without(d.tab, u)) /\ Users(Without(d.tab, u)) = Users(t) \ {u}
          /\ Tells(View(d.tab), <<e>>, View(Without(d.tab, u)))
        BY <1>1, <1>2, RemovalTells DEF Report
    <2> HIDE DEF e
    <2>3. Tells(View(t), d.evs \o <<e>>, View(Without(d.tab, u)))
        BY <2>2, <1>1, TellsMore DEF Report
    <2>4. QED
        BY <2>1, <2>2, <2>3 DEF Turn, Report
<1>7. QED
    BY <1>4, <1>5, <1>6

-----------------------------------------------------------------------------
(***************************************************************************)
(* Walks over the list, one user after another                             *)
(***************************************************************************)

\* The walks of user.c: remove_all_users, the end of a round, mark_all_users_dead
VisitRemoved(p, r, u) ==
    LET next == Removed(r.tab, u) IN [tab |-> next.tab, evs |-> r.evs \o next.evs]

VisitUnreplied(keep, r, u) ==
    LET next == Unreplied(r.tab, u, keep) IN [tab |-> next.tab, evs |-> r.evs \o next.evs]

VisitDead(p, r, u) ==
    LET next == ModeSet(r.tab, u, DEAD) IN [tab |-> next.tab, evs |-> r.evs \o next.evs]

VR == INSTANCE FoldFacts WITH Op <- VisitRemoved
VU == INSTANCE FoldFacts WITH Op <- VisitUnreplied
VD == INSTANCE FoldFacts WITH Op <- VisitDead

\* A walk meets every user once.
LEMMA Order ==
    ASSUME NEW S, IsFiniteSet(S)
    PROVE  /\ SetToSeq(S) \in Seq(S)
           /\ \A i, j \in 1 .. Len(SetToSeq(S)) : SetToSeq(S)[i] = SetToSeq(S)[j] => i = j
           /\ \A u \in S : \E i \in 1 .. Len(SetToSeq(S)) : SetToSeq(S)[i] = u
<1> DEFINE n == Cardinality(S)
           s == SetToSeq(S)
<1>1. n \in Nat /\ ExistsBijection(1 .. n, S)
    BY FS_CardinalityType
<1>2. \E f \in [1 .. n -> S] : IsInjective(f)
    <2>1. PICK f : f \in Bijection(1 .. n, S)
        BY <1>1 DEF ExistsBijection
    <2>2. f \in [1 .. n -> S] /\ \A a, b \in 1 .. n : f[a] = f[b] => a = b
        BY <2>1 DEF Bijection, Injection, IsInjective
    <2>3. QED
        BY <2>2 DEF IsInjective
<1>3. s \in [1 .. n -> S] /\ IsInjective(s)
    BY <1>2 DEF SetToSeq
<1> HIDE DEF n, s
<1>4. s \in Seq(S) /\ Len(s) = n /\ DOMAIN s = 1 .. n
    BY <1>1, <1>3
<1>5. \A u \in S : \E i \in 1 .. n : s[i] = u
    <2>1. s \in Injection(1 .. n, S)
        BY <1>3 DEF Injection
    <2>2. Cardinality(1 .. n) = n
        <3>1. Cardinality(1 .. n) = IF 1 > n THEN 0 ELSE n - 1 + 1
            BY <1>1, FS_Interval
        <3>2. QED
            BY <1>1, <3>1
    <2>3. s \in Surjection(1 .. n, S)
        BY <2>1, <2>2, FS_Injection DEF n
    <2>4. QED
        BY <2>3 DEF Surjection
<1>6. QED
    BY <1>3, <1>4, <1>5 DEF IsInjective, s

\* A list of users is as finite as memory.
LEMMA UsersFinite == ASSUME NEW t, IsTab(t) PROVE IsFiniteSet(Users(t))
<1>1. Users(t) \subseteq Blocks
    BY DEF IsTab, IsView, View
<1>2. QED
    BY <1>1, BlocksAssumption, FS_Subset

\* What a walk tells, if each turn tells what it does
LEMMA Walks ==
    ASSUME NEW t, IsTab(t), NEW h, h[0] = [tab |-> t, evs |-> <<>>],
           \A i \in 1 .. Len(SetToSeq(Users(t))) :
               IsTab(h[i - 1].tab) /\ SetToSeq(Users(t))[i] \in Users(h[i - 1].tab) =>
               \E r : /\ Turn(h[i - 1].tab, SetToSeq(Users(t))[i], r)
                      /\ h[i] = [tab |-> r.tab, evs |-> h[i - 1].evs \o r.evs]
    PROVE  Report(t, h[Len(SetToSeq(Users(t)))])
<1> DEFINE s == SetToSeq(Users(t))
           n == Len(s)
<1>1. s \in Seq(Users(t)) /\ \A i, j \in 1 .. n : s[i] = s[j] => i = j
    BY UsersFinite, Order
<1> HIDE DEF s
<1>2. n \in Nat /\ \A i \in 1 .. n : s[i] \in Users(t)
    BY <1>1
<1> DEFINE P == {k \in Nat : k <= n => /\ Report(t, h[k])
                                       /\ \A i \in k + 1 .. n : s[i] \in Users(h[k].tab)}
<1>3. 0 \in P
    BY <1>2, TellsNothing DEF Report
<1>4. ASSUME NEW k \in Nat, k \in P PROVE k + 1 \in P
    <2> SUFFICES ASSUME k + 1 <= n
                 PROVE  /\ Report(t, h[k + 1])
                        /\ \A i \in (k + 1) + 1 .. n : s[i] \in Users(h[k + 1].tab)
        OBVIOUS
    <2>1. /\ Report(t, h[k]) /\ \A i \in k + 1 .. n : s[i] \in Users(h[k].tab)
          /\ k + 1 \in 1 .. n /\ (k + 1) - 1 = k
        BY <1>2, <1>4
    <2>2. IsTab(h[k].tab) /\ s[k + 1] \in Users(h[k].tab)
        BY <1>2, <2>1 DEF Report
    <2>3. PICK r : /\ Turn(h[k].tab, s[k + 1], r)
                   /\ h[k + 1] = [tab |-> r.tab, evs |-> h[k].evs \o r.evs]
        BY <2>1, <2>2 DEF s
    <2>4. Report(t, h[k + 1])
        BY <2>1, <2>3, TellsMore DEF Report, Turn
    <2>5. ASSUME NEW i \in (k + 1) + 1 .. n PROVE s[i] \in Users(h[k + 1].tab)
        <3>1. i \in k + 1 .. n /\ i \in 1 .. n /\ i # k + 1
            BY <1>2
        <3>2. s[i] \in Users(h[k].tab) /\ s[i] # s[k + 1]
            BY <1>1, <2>1, <3>1
        <3>3. QED
            BY <2>3, <3>2 DEF Turn
    <2>6. QED
        BY <2>4, <2>5
<1> HIDE DEF P
<1>5. n \in P
    BY <1>2, <1>3, <1>4, VR!NatSetInduction
<1>6. Report(t, h[n])
    BY <1>2, <1>5 DEF P
<1>7. QED
    BY <1>6 DEF s

\* The turn of u takes him from an entry to another that R pairs with it, or off the
\* list if his entry is in G; nobody else is touched.
TurnOf(y, u, x, R, G) ==
    /\ Users(y) \ {u} \subseteq Users(x) /\ Users(x) \subseteq Users(y)
    /\ \A a \in Users(x) \ {u} : x[a] = y[a]
    /\ u \in Users(x) => <<y[u], x[u]>> \in R
    /\ u \notin Users(x) => y[u] \in G

\* And so for everyone
Walked(t, x, R, G) ==
    /\ Users(x) \subseteq Users(t)
    /\ \A u \in Users(x) : <<t[u], x[u]>> \in R
    /\ \A u \in Users(t) \ Users(x) : t[u] \in G

\* A walk does to everyone what a turn does to one.
LEMMA WalkedAll ==
    ASSUME NEW t, IsTab(t), NEW R, NEW G, NEW h, h[0] = [tab |-> t, evs |-> <<>>],
           \A i \in 1 .. Len(SetToSeq(Users(t))) :
               IsTab(h[i - 1].tab) /\ SetToSeq(Users(t))[i] \in Users(h[i - 1].tab) =>
               IsTab(h[i].tab) /\ TurnOf(h[i - 1].tab, SetToSeq(Users(t))[i], h[i].tab, R, G)
    PROVE  Walked(t, h[Len(SetToSeq(Users(t)))].tab, R, G)
<1> DEFINE s == SetToSeq(Users(t))
           n == Len(s)
<1>1. /\ s \in Seq(Users(t)) /\ \A i, j \in 1 .. n : s[i] = s[j] => i = j
      /\ \A u \in Users(t) : \E i \in 1 .. n : s[i] = u
    BY UsersFinite, Order
<1> HIDE DEF s
<1>2. n \in Nat /\ \A i \in 1 .. n : s[i] \in Users(t)
    BY <1>1
<1> DEFINE Done(x, k) == \A i \in 1 .. k : /\ s[i] \in Users(x) => <<t[s[i]], x[s[i]]>> \in R
                                           /\ s[i] \notin Users(x) => t[s[i]] \in G
           Left(x, k) == \A i \in k + 1 .. n : s[i] \in Users(x) /\ x[s[i]] = t[s[i]]
           P == {k \in Nat : k <= n => /\ IsTab(h[k].tab) /\ Users(h[k].tab) \subseteq Users(t)
                                       /\ Done(h[k].tab, k) /\ Left(h[k].tab, k)}
<1>3. 0 \in P
    <2>1. Done(t, 0) /\ Left(t, 0)
        BY <1>2
    <2> HIDE DEF Done, Left
    <2>2. QED
        BY <2>1
<1>4. ASSUME NEW k \in Nat, k \in P PROVE k + 1 \in P
    <2> SUFFICES ASSUME k + 1 <= n
                 PROVE  /\ IsTab(h[k + 1].tab) /\ Users(h[k + 1].tab) \subseteq Users(t)
                        /\ Done(h[k + 1].tab, k + 1) /\ Left(h[k + 1].tab, k + 1)
        OBVIOUS
    <2> DEFINE y == h[k].tab
               x == h[k + 1].tab
               u == s[k + 1]
    <2>1. /\ IsTab(y) /\ Users(y) \subseteq Users(t) /\ Done(y, k) /\ Left(y, k)
          /\ k + 1 \in 1 .. n /\ (k + 1) - 1 = k /\ k + 1 \in k + 1 .. n
        BY <1>2, <1>4
    <2>2. u \in Users(y) /\ y[u] = t[u]
        BY <2>1
    <2>3. IsTab(x) /\ TurnOf(y, u, x, R, G)
        BY <2>1, <2>2 DEF s
    <2>4. /\ \A i \in 1 .. k : i \in 1 .. n /\ i # k + 1
          /\ \A i \in (k + 1) + 1 .. n : i \in 1 .. n /\ i # k + 1 /\ i \in k + 1 .. n
          /\ \A i \in 1 .. k + 1 : i \in 1 .. k \/ i = k + 1
        BY <1>2, <2>1
    <2> HIDE DEF n, P, x, y
    <2>5. Users(x) \subseteq Users(t)
        BY <2>1, <2>3 DEF TurnOf
    <2>6. Done(x, k + 1)
        <3>1. ASSUME NEW i \in 1 .. k + 1, i \in 1 .. k
              PROVE  /\ s[i] \in Users(x) => <<t[s[i]], x[s[i]]>> \in R
                     /\ s[i] \notin Users(x) => t[s[i]] \in G
            <4>1. s[i] # u
                BY <1>1, <2>1, <2>4, <3>1
            <4>2. /\ s[i] \in Users(x) <=> s[i] \in Users(y)
                  /\ s[i] \in Users(x) => x[s[i]] = y[s[i]]
                BY <4>1, <2>3 DEF TurnOf
            <4>3. QED
                BY <4>2, <2>1, <3>1
        <3>2. /\ u \in Users(x) => <<t[u], x[u]>> \in R
              /\ u \notin Users(x) => t[u] \in G
            BY <2>2, <2>3 DEF TurnOf
        <3>3. QED
            BY <2>4, <3>1, <3>2
    <2>7. Left(x, k + 1)
        <3>1. ASSUME NEW i \in (k + 1) + 1 .. n
              PROVE  s[i] \in Users(x) /\ x[s[i]] = t[s[i]]
            <4>1. s[i] # u
                BY <1>1, <2>1, <2>4
            <4>2. s[i] \in Users(y) /\ y[s[i]] = t[s[i]]
                BY <2>1, <2>4
            <4>3. QED
                BY <4>1, <4>2, <2>3 DEF TurnOf
        <3>2. QED
            BY <3>1
    <2>8. QED
        BY <2>3, <2>5, <2>6, <2>7 DEF x
<1> HIDE DEF P
<1>5. n \in P
    BY <1>2, <1>3, <1>4, VR!NatSetInduction
<1> DEFINE z == h[n].tab
<1>6. Users(z) \subseteq Users(t) /\ Done(z, n)
    BY <1>2, <1>5 DEF P
<1> HIDE DEF z, n
<1>7. Walked(t, z, R, G)
    <2>1. ASSUME NEW u \in Users(t)
          PROVE  /\ u \in Users(z) => <<t[u], z[u]>> \in R
                 /\ u \notin Users(z) => t[u] \in G
        <3>1. PICK i \in 1 .. n : s[i] = u
            BY <1>1 DEF n
        <3>2. QED
            BY <3>1, <1>6
    <2>2. QED
        BY <2>1, <1>6 DEF Walked
<1>8. QED
    BY <1>7 DEF z, n, s

\* remove_all_users
LEMMA RemovedAllReports == ASSUME NEW t, IsTab(t) PROVE Report(t, RemovedAll(t))
<1> DEFINE s == SetToSeq(Users(t))
           b == [tab |-> t, evs |-> <<>>]
<1>1. RemovedAll(t) = VR!Fold(<<>>, b, s)
    BY DEF RemovedAll, ForEachUser, VR!Fold, VisitRemoved, FoldLeft, VR!FoldLeft, MapThenFoldSet, VR!MapThenFoldSet, Max, VR!Max
<1>2. s \in Seq(Users(t))
    BY UsersFinite, Order
<1> HIDE DEF s, b
<1>3. PICK h : /\ h[0] = b
               /\ \A i \in 1 .. Len(s) : h[i] = VisitRemoved(<<>>, h[i - 1], s[i])
               /\ VR!Fold(<<>>, b, s) = h[Len(s)]
    BY <1>2, VR!FoldTrace
<1>4. ASSUME NEW i \in 1 .. Len(s), IsTab(h[i - 1].tab), s[i] \in Users(h[i - 1].tab)
      PROVE  \E r : /\ Turn(h[i - 1].tab, s[i], r)
                    /\ h[i] = [tab |-> r.tab, evs |-> h[i - 1].evs \o r.evs]
    BY <1>3, <1>4, RemovedReports DEF VisitRemoved
<1>5. Report(t, h[Len(s)])
    BY <1>3, <1>4, Walks DEF s, b
<1>6. QED
    BY <1>1, <1>3, <1>5

\* The turn of one user who is marked, of none, and of one whom the menu removes
LEMMA OtherTurns ==
    ASSUME NEW t, IsTab(t), NEW u \in Users(t)
    PROVE  /\ Turn(t, u, ModeSet(t, u, DEAD))
           /\ Turn(t, u, IF t[u].mode = DEAD THEN Removed(t, u) ELSE [tab |-> t, evs |-> <<>>])
<1>1. Turn(t, u, ModeSet(t, u, DEAD))
    BY ModeSetReports DEF Turn, AnyMode
<1>2. Turn(t, u, [tab |-> t, evs |-> <<>>])
    BY TellsNothing DEF Turn, Report
<1>3. QED
    BY <1>1, <1>2, RemovedReports

\* refresh_timeout_handler
LEMMA RoundEndedReports == ASSUME NEW t, IsTab(t), NEW keep PROVE Report(t, RoundEnded(t, keep))
<1> DEFINE s == SetToSeq(Users(t))
           b == [tab |-> t, evs |-> <<>>]
<1>1. RoundEnded(t, keep) = VU!Fold(keep, b, s)
    BY DEF RoundEnded, ForEachUser, VU!Fold, VisitUnreplied, FoldLeft, VU!FoldLeft,
           MapThenFoldSet, VU!MapThenFoldSet, Max, VU!Max
<1>2. s \in Seq(Users(t))
    BY UsersFinite, Order
<1> HIDE DEF s, b
<1>3. PICK h : /\ h[0] = b
               /\ \A i \in 1 .. Len(s) : h[i] = VisitUnreplied(keep, h[i - 1], s[i])
               /\ VU!Fold(keep, b, s) = h[Len(s)]
    BY <1>2, VU!FoldTrace
<1>4. ASSUME NEW i \in 1 .. Len(s), IsTab(h[i - 1].tab), s[i] \in Users(h[i - 1].tab)
      PROVE  \E r : /\ Turn(h[i - 1].tab, s[i], r)
                    /\ h[i] = [tab |-> r.tab, evs |-> h[i - 1].evs \o r.evs]
    BY <1>3, <1>4, UnrepliedReports DEF VisitUnreplied
<1>5. Report(t, h[Len(s)])
    BY <1>3, <1>4, Walks DEF s, b
<1>6. QED
    BY <1>1, <1>3, <1>5

\* mark_all_users_dead, if they are to be kept
LEMMA MarkedDeadReports ==
    ASSUME NEW t, IsTab(t)
    PROVE  Report(t, AllMarkedDead(t, TRUE))
<1> DEFINE s == SetToSeq(Users(t))
           b == [tab |-> t, evs |-> <<>>]
<1>1. AllMarkedDead(t, TRUE) = VD!Fold(<<>>, b, s)
    BY DEF AllMarkedDead, ForEachUser, VD!Fold, VisitDead, FoldLeft, VD!FoldLeft,
           MapThenFoldSet, VD!MapThenFoldSet, Max, VD!Max
<1>2. s \in Seq(Users(t))
    BY UsersFinite, Order
<1> HIDE DEF s, b
<1>3. PICK h : /\ h[0] = b
               /\ \A i \in 1 .. Len(s) : h[i] = VisitDead(<<>>, h[i - 1], s[i])
               /\ VD!Fold(<<>>, b, s) = h[Len(s)]
    BY <1>2, VD!FoldTrace
<1>4. ASSUME NEW i \in 1 .. Len(s), IsTab(h[i - 1].tab), s[i] \in Users(h[i - 1].tab)
      PROVE  \E r : /\ Turn(h[i - 1].tab, s[i], r)
                    /\ h[i] = [tab |-> r.tab, evs |-> h[i - 1].evs \o r.evs]
    BY <1>3, <1>4, OtherTurns DEF VisitDead
<1>5. Report(t, h[Len(s)])
    BY <1>3, <1>4, Walks DEF s, b
<1>6. QED
    BY <1>1, <1>3, <1>5

\* Someone new: his block was free, and so was his name.
LEMMA AddedReports ==
    ASSUME NEW t, IsTab(t), NEW u \in Blocks \ Users(t), NEW n \in Nicks \ Names(t), NEW m \in AnyMode
    PROVE  Report(t, Added(t, u, n, m))
<1> DEFINE x == [v \in Users(t) \cup {u} |->
                    IF v = u THEN [name |-> n, mode |-> m, replied |-> TRUE] ELSE t[v]]
           e == [ev |-> "NEW", uid |-> u, name |-> n, mode |-> m, prev |-> m]
<1>1. Added(t, u, n, m).tab = x /\ Added(t, u, n, m).evs = <<e>>
    BY DEF Added, Raise
<1>2. /\ x \in [Users(x) -> [name : Nicks, mode : AnyMode, replied : BOOLEAN]]
      /\ Users(x) = Users(t) \cup {u}
      /\ \A a \in Users(x) : x[a] = IF a = u THEN [name |-> n, mode |-> m, replied |-> TRUE] ELSE t[a]
    BY DEF IsTab, Users
<1>3. /\ DOMAIN View(t) = Users(t)
      /\ \A a \in Users(t) : View(t)[a] = [name |-> t[a].name, mode |-> t[a].mode]
    BY DEF View
<1> HIDE DEF x
<1>4. View(x) = [a \in Users(t) \cup {u} |->
                    IF a = u THEN [name |-> n, mode |-> m] ELSE [name |-> t[a].name, mode |-> t[a].mode]]
    BY <1>2 DEF View
<1>5. e \in Event
    BY DEF Event
<1>6. Legal(View(t), e)
    BY <1>3, <1>5 DEF Legal, Names
<1>7. ViewAfter(View(t), e) = View(x)
    <2>1. ViewAfter(View(t), e) = [a \in Users(t) \cup {u} |->
              IF a = u THEN [name |-> n, mode |-> m] ELSE View(t)[a]]
        BY <1>3 DEF ViewAfter
    <2>2. QED
        BY <1>3, <1>4, <2>1
<1> HIDE DEF e
<1>8. IsTab(x) /\ Tells(View(t), <<e>>, View(x))
    BY <1>2, <1>6, <1>7, ViewStep, TellsOne DEF IsTab
<1>9. QED
    BY <1>1, <1>8 DEF Report

\* set_user_name
LEMMA RenamedReports ==
    ASSUME NEW t, IsTab(t), NEW u \in Users(t), NEW n \in Nicks
    PROVE  Report(t, Renamed(t, u, n))
<1> DEFINE x == [t EXCEPT ![u].name = n]
           e == [ev |-> "RENAME", uid |-> u, name |-> n, mode |-> t[u].mode, prev |-> t[u].mode]
<1>1. CASE t[u].name = n
    BY <1>1, TellsNothing DEF Renamed, Report
<1>2. CASE t[u].name # n /\ n \in Names(t)
    BY <1>2, RemovedReports DEF Renamed, Turn
<1>3. CASE n \notin Names(t)
    <2>0. t[u].name # n
        BY <1>3 DEF Names
    <2>1. Renamed(t, u, n).tab = x /\ Renamed(t, u, n).evs = <<e>>
        BY <1>3, <2>0 DEF Renamed, Raise
    <2>2. /\ x \in [Users(t) -> [name : Nicks, mode : AnyMode, replied : BOOLEAN]]
          /\ Users(x) = Users(t)
          /\ \A a \in Users(t) : x[a].name = (IF a = u THEN n ELSE t[a].name) /\ x[a].mode = t[a].mode
        BY DEF IsTab, Users
    <2>3. /\ DOMAIN View(t) = Users(t)
          /\ \A a \in Users(t) : View(t)[a] = [name |-> t[a].name, mode |-> t[a].mode]
        BY DEF View
    <2> HIDE DEF x
    <2>4. View(x) = [a \in Users(t) |-> [name |-> IF a = u THEN n ELSE t[a].name, mode |-> t[a].mode]]
        BY <2>2 DEF View
    <2>5. e \in Event
        BY <2>3 DEF Event, IsTab, IsView
    <2>6. Legal(View(t), e)
        BY <2>3, <2>5, <1>3 DEF Legal, Names
    <2>7. ViewAfter(View(t), e) = View(x)
        <3>1. ViewAfter(View(t), e) = [a \in Users(t) |->
                  IF a = u THEN [name |-> n, mode |-> t[u].mode] ELSE View(t)[a]]
            BY <2>3 DEF ViewAfter
        <3>2. QED
            BY <2>3, <2>4, <3>1
    <2> HIDE DEF e
    <2>8. IsTab(x) /\ Tells(View(t), <<e>>, View(x))
        BY <2>2, <2>6, <2>7, ViewStep, TellsOne DEF IsTab
    <2>9. QED
        BY <2>1, <2>8 DEF Report
<1>4. QED
    BY <1>1, <1>2, <1>3

\* An answer
LEMMA AnsweredReports ==
    ASSUME NEW t, IsTab(t), NEW u \in Users(t), NEW m \in AnyMode
    PROVE  Report(t, Answered(t, u, m))
<1> DEFINE x == [t EXCEPT ![u].replied = TRUE]
<1>1. /\ x \in [Users(t) -> [name : Nicks, mode : AnyMode, replied : BOOLEAN]]
      /\ \A a \in Users(t) : x[a].name = t[a].name /\ x[a].mode = t[a].mode
    BY DEF IsTab, Users
<1>2. Answered(t, u, m) = ModeSet(x, u, m)
    BY DEF Answered
<1> HIDE DEF x
<1>3. IsTab(x) /\ View(x) = View(t) /\ Users(x) = Users(t)
    BY <1>1, SameView
<1>4. QED
    BY <1>2, <1>3, ModeSetReports DEF Report

\* While there is a name nobody has there is a block nobody has.
LEMMA BlockLeft ==
    ASSUME NEW t, IsTab(t), NEW n \in Nicks \ Names(t)
    PROVE  \E b \in Blocks : b \notin Users(t)
<1> SUFFICES ASSUME Blocks \subseteq Users(t) PROVE FALSE
    OBVIOUS
<1> DEFINE f == [u \in Users(t) |-> t[u].name]
           T == Nicks \ {n}
<1>1. DOMAIN View(t) = Users(t) /\ \A u \in Users(t) : View(t)[u].name = t[u].name
    BY DEF View
<1>2. f \in Injection(Users(t), T)
    BY <1>1 DEF Injection, IsInjective, IsTab, IsView, Names
<1>3. Users(t) = Blocks
    BY <1>1 DEF IsTab, IsView
<1>4. IsFiniteSet(T) /\ Cardinality(T) = Cardinality(Nicks) - 1
    BY BlocksAssumption, FS_RemoveElement
<1> HIDE DEF f, T
<1>5. Cardinality(Blocks) <= Cardinality(T)
    BY <1>2, <1>3, <1>4, FS_Injection
<1>6. Cardinality(Nicks) \in Nat /\ Cardinality(Blocks) \in Nat
    BY BlocksAssumption, FS_CardinalityType
<1>7. QED
    BY <1>4, <1>5, <1>6, BlocksAssumption

\* Memory for someone new is nobody's.
LEMMA FreeBlockIsFree ==
    ASSUME NEW t, IsTab(t), NEW n \in Nicks \ Names(t)
    PROVE  FreeBlock(t) \in Blocks \ Users(t)
BY BlockLeft DEF FreeBlock

-----------------------------------------------------------------------------
(***************************************************************************)
(* What becomes of each user                                               *)
(***************************************************************************)

Entry == [name : Nicks, mode : AnyMode, replied : BOOLEAN]

\* What a round makes of an entry ...
Rounded == {p \in Entry \X Entry : /\ p[2].name = p[1].name /\ ~p[2].replied
                                   /\ p[1].replied => p[2].mode = p[1].mode
                                   /\ ~p[1].replied => p[2].mode = DEAD}

\* ... if it does not delete it
Unheard == {e \in Entry : ~e.replied}

\* What mark_all_users_dead makes of it
Marked == {p \in Entry \X Entry : /\ p[2].name = p[1].name /\ p[2].mode = DEAD
                                  /\ p[2].replied = p[1].replied}

\* set_user_mode changes the mode of one user.
LEMMA ModeSetTab ==
    ASSUME NEW t, IsTab(t), NEW u \in Users(t), NEW m \in AnyMode, NEW x, x = ModeSet(t, u, m).tab
    PROVE  /\ Users(x) = Users(t) /\ \A a \in Users(t) \ {u} : x[a] = t[a]
           /\ x[u].name = t[u].name /\ x[u].replied = t[u].replied /\ x[u].mode = m
           /\ x[u] \in Entry /\ t[u] \in Entry
BY DEF ModeSet, IsTab, Users, Entry

\* remove_user_hash_func takes one user off the list.
LEMMA RemovedTab ==
    ASSUME NEW t, IsTab(t), NEW u \in Users(t), NEW x, x = Removed(t, u).tab
    PROVE  Users(x) = Users(t) \ {u} /\ \A a \in Users(x) : x[a] = t[a]
<1> DEFINE d == ModeSet(t, u, DEAD).tab
<1>1. Users(d) = Users(t) /\ \A a \in Users(t) \ {u} : d[a] = t[a]
    BY ModeSetTab DEF AnyMode
<1>2. x = Without(d, u)
    BY DEF Removed, Destroyed, ModeSet
<1> HIDE DEF d
<1>3. QED
    BY <1>1, <1>2 DEF Without, Users

\* An answer is noted.
LEMMA AnsweredTab ==
    ASSUME NEW t, IsTab(t), NEW u \in Users(t), NEW m \in AnyMode, NEW x, x = Answered(t, u, m).tab
    PROVE  /\ Users(x) = Users(t) /\ \A a \in Users(t) \ {u} : x[a] = t[a]
           /\ x[u].name = t[u].name /\ x[u].replied = TRUE
<1> DEFINE y == [t EXCEPT ![u].replied = TRUE]
<1>1. /\ y \in [Users(t) -> [name : Nicks, mode : AnyMode, replied : BOOLEAN]]
      /\ \A a \in Users(t) : y[a].name = t[a].name /\ y[a].mode = t[a].mode
      /\ \A a \in Users(t) \ {u} : y[a] = t[a]
      /\ y[u].replied = TRUE
    BY DEF IsTab, Users
<1>2. x = ModeSet(y, u, m).tab
    BY DEF Answered
<1> HIDE DEF y
<1>3. IsTab(y) /\ Users(y) = Users(t)
    BY <1>1, SameView
<1>4. /\ Users(x) = Users(y) /\ \A a \in Users(y) \ {u} : x[a] = y[a]
      /\ x[u].name = y[u].name /\ x[u].replied = y[u].replied
    BY <1>2, <1>3, ModeSetTab
<1>5. QED
    BY <1>1, <1>3, <1>4

\* A new name is his who has it from now on, or he is gone.
LEMMA RenamedTab ==
    ASSUME NEW t, IsTab(t), NEW u \in Users(t), NEW n \in Nicks, n # t[u].name,
           NEW x, x = Renamed(t, u, n).tab
    PROVE  /\ n \in Names(t) => Users(x) = Users(t) \ {u} /\ \A a \in Users(x) : x[a] = t[a]
           /\ n \notin Names(t) => /\ Users(x) = Users(t) /\ \A a \in Users(t) \ {u} : x[a] = t[a]
                                   /\ x[u].name = n /\ x[u].replied = t[u].replied
<1>1. CASE n \in Names(t)
    <2>1. x = Removed(t, u).tab
        BY <1>1 DEF Renamed
    <2>2. QED
        BY <2>1, <1>1, RemovedTab
<1>2. CASE n \notin Names(t)
    <2>1. x = [t EXCEPT ![u].name = n]
        BY <1>2 DEF Renamed
    <2>2. QED
        BY <2>1, <1>2 DEF IsTab, Users
<1>3. QED
    BY <1>1, <1>2

\* The turns of remove_dead_cb, of mark_all_users_dead and of remove_all_users
LEMMA TurnsOf ==
    ASSUME NEW t, IsTab(t), NEW u \in Users(t), NEW keep
    PROVE  /\ TurnOf(t, u, Unreplied(t, u, keep).tab, Rounded, Unheard)
           /\ TurnOf(t, u, ModeSet(t, u, DEAD).tab, Marked, {})
           /\ TurnOf(t, u, Removed(t, u).tab, {}, Entry)
<1> DEFINE d == ModeSet(t, u, DEAD).tab
           x == [t EXCEPT ![u].replied = FALSE]
           r == Unreplied(t, u, keep).tab
<1>1. /\ Users(d) = Users(t) /\ \A a \in Users(t) \ {u} : d[a] = t[a]
      /\ d[u].name = t[u].name /\ d[u].replied = t[u].replied /\ d[u].mode = DEAD
      /\ d[u] \in Entry /\ t[u] \in Entry
    BY ModeSetTab DEF AnyMode
<1>2. TurnOf(t, u, d, Marked, {})
    BY <1>1 DEF TurnOf, Marked
<1>3. TurnOf(t, u, Removed(t, u).tab, {}, Entry)
    BY <1>1, RemovedTab DEF TurnOf
<1>4. r = IF t[u].replied THEN x ELSE IF keep THEN d ELSE Without(d, u)
    BY DEF Unreplied, Destroyed
<1>5. /\ Users(x) = Users(t) /\ \A a \in Users(t) \ {u} : x[a] = t[a]
      /\ x[u].name = t[u].name /\ x[u].mode = t[u].mode /\ x[u].replied = FALSE /\ x[u] \in Entry
    BY DEF IsTab, Users, Entry
<1> HIDE DEF d, x, r
<1>6. CASE t[u].replied
    BY <1>1, <1>2, <1>3, <1>4, <1>5, <1>6 DEF TurnOf, Rounded, d, r
<1>7. CASE ~t[u].replied /\ keep
    BY <1>1, <1>2, <1>3, <1>4, <1>7 DEF TurnOf, Rounded, d, r
<1>8. CASE ~t[u].replied /\ ~keep
    <2>1. r = Without(d, u)
        BY <1>4, <1>8
    <2>2. Users(r) = Users(t) \ {u} /\ \A a \in Users(r) : r[a] = t[a]
        BY <2>1, <1>1 DEF Without, Users
    <2>3. TurnOf(t, u, r, Rounded, Unheard)
        BY <2>2, <1>1, <1>8 DEF TurnOf, Unheard
    <2>4. QED
        BY <2>3, <1>2, <1>3 DEF d, r
<1>9. QED
    BY <1>6, <1>7, <1>8

\* refresh_timeout_handler: who has replied stays as he is, who has not is dead or gone.
LEMMA RoundEndedTab ==
    ASSUME NEW t, IsTab(t), NEW keep
    PROVE  Walked(t, RoundEnded(t, keep).tab, Rounded, Unheard)
<1> DEFINE s == SetToSeq(Users(t))
           b == [tab |-> t, evs |-> <<>>]
<1>1. RoundEnded(t, keep) = VU!Fold(keep, b, s)
    BY DEF RoundEnded, ForEachUser, VU!Fold, VisitUnreplied, FoldLeft, VU!FoldLeft,
           MapThenFoldSet, VU!MapThenFoldSet, Max, VU!Max
<1>2. s \in Seq(Users(t))
    BY UsersFinite, Order
<1> HIDE DEF s, b
<1>3. PICK h : /\ h[0] = b
               /\ \A i \in 1 .. Len(s) : h[i] = VisitUnreplied(keep, h[i - 1], s[i])
               /\ VU!Fold(keep, b, s) = h[Len(s)]
    BY <1>2, VU!FoldTrace
<1>4. ASSUME NEW i \in 1 .. Len(s), IsTab(h[i - 1].tab), s[i] \in Users(h[i - 1].tab)
      PROVE  IsTab(h[i].tab) /\ TurnOf(h[i - 1].tab, s[i], h[i].tab, Rounded, Unheard)
    <2>1. h[i].tab = Unreplied(h[i - 1].tab, s[i], keep).tab
        <3>1. h[i] = VisitUnreplied(keep, h[i - 1], s[i])
            BY <1>3
        <3>2. VisitUnreplied(keep, h[i - 1], s[i]).tab = Unreplied(h[i - 1].tab, s[i], keep).tab
            BY DEF VisitUnreplied
        <3>3. QED
            BY <3>1, <3>2
    <2>2. IsTab(h[i].tab)
        BY <2>1, <1>4, UnrepliedReports DEF Turn, Report
    <2>3. QED
        BY <2>1, <2>2, <1>4, TurnsOf
<1>5. Walked(t, h[Len(s)].tab, Rounded, Unheard)
    BY <1>3, <1>4, WalkedAll DEF s, b
<1>6. QED
    BY <1>1, <1>3, <1>5

\* remove_all_users leaves nobody.
LEMMA RemovedAllTab ==
    ASSUME NEW t, IsTab(t)
    PROVE  Users(RemovedAll(t).tab) = {}
<1> DEFINE s == SetToSeq(Users(t))
           b == [tab |-> t, evs |-> <<>>]
<1>1. RemovedAll(t) = VR!Fold(<<>>, b, s)
    BY DEF RemovedAll, ForEachUser, VR!Fold, VisitRemoved, FoldLeft, VR!FoldLeft, MapThenFoldSet, VR!MapThenFoldSet, Max, VR!Max
<1>2. s \in Seq(Users(t))
    BY UsersFinite, Order
<1> HIDE DEF s, b
<1>3. PICK h : /\ h[0] = b
               /\ \A i \in 1 .. Len(s) : h[i] = VisitRemoved(<<>>, h[i - 1], s[i])
               /\ VR!Fold(<<>>, b, s) = h[Len(s)]
    BY <1>2, VR!FoldTrace
<1>4. ASSUME NEW i \in 1 .. Len(s), IsTab(h[i - 1].tab), s[i] \in Users(h[i - 1].tab)
      PROVE  IsTab(h[i].tab) /\ TurnOf(h[i - 1].tab, s[i], h[i].tab, {}, Entry)
    <2>1. h[i].tab = Removed(h[i - 1].tab, s[i]).tab
        <3>1. h[i] = VisitRemoved(<<>>, h[i - 1], s[i])
            BY <1>3
        <3>2. VisitRemoved(<<>>, h[i - 1], s[i]).tab = Removed(h[i - 1].tab, s[i]).tab
            BY DEF VisitRemoved
        <3>3. QED
            BY <3>1, <3>2
    <2>2. IsTab(h[i].tab)
        BY <2>1, <1>4, RemovedReports DEF Turn, Report
    <2>3. QED
        BY <2>1, <2>2, <1>4, TurnsOf
<1>5. Walked(t, h[Len(s)].tab, {}, Entry)
    BY <1>3, <1>4, WalkedAll DEF s, b
<1>6. QED
    BY <1>1, <1>3, <1>5 DEF Walked

\* mark_all_users_dead takes nobody's name or answer.
LEMMA MarkedDeadTab ==
    ASSUME NEW t, IsTab(t)
    PROVE  Walked(t, AllMarkedDead(t, TRUE).tab, Marked, {})
<1> DEFINE s == SetToSeq(Users(t))
           b == [tab |-> t, evs |-> <<>>]
<1>1. AllMarkedDead(t, TRUE) = VD!Fold(<<>>, b, s)
    BY DEF AllMarkedDead, ForEachUser, VD!Fold, VisitDead, FoldLeft, VD!FoldLeft,
           MapThenFoldSet, VD!MapThenFoldSet, Max, VD!Max
<1>2. s \in Seq(Users(t))
    BY UsersFinite, Order
<1> HIDE DEF s, b
<1>3. PICK h : /\ h[0] = b
               /\ \A i \in 1 .. Len(s) : h[i] = VisitDead(<<>>, h[i - 1], s[i])
               /\ VD!Fold(<<>>, b, s) = h[Len(s)]
    BY <1>2, VD!FoldTrace
<1>4. ASSUME NEW i \in 1 .. Len(s), IsTab(h[i - 1].tab), s[i] \in Users(h[i - 1].tab)
      PROVE  IsTab(h[i].tab) /\ TurnOf(h[i - 1].tab, s[i], h[i].tab, Marked, {})
    <2>1. h[i].tab = ModeSet(h[i - 1].tab, s[i], DEAD).tab
        <3>1. h[i] = VisitDead(<<>>, h[i - 1], s[i])
            BY <1>3
        <3>2. VisitDead(<<>>, h[i - 1], s[i]).tab = ModeSet(h[i - 1].tab, s[i], DEAD).tab
            BY DEF VisitDead
        <3>3. QED
            BY <3>1, <3>2
    <2>2. IsTab(h[i].tab)
        BY <2>1, <1>4, OtherTurns DEF Turn, Report
    <2>3. QED
        BY <2>1, <2>2, <1>4, TurnsOf
<1>5. Walked(t, h[Len(s)].tab, Marked, {})
    BY <1>3, <1>4, WalkedAll DEF s, b
<1>6. QED
    BY <1>1, <1>3, <1>5

-----------------------------------------------------------------------------
(***************************************************************************)
(* Lists that follow the list of users                                     *)
(***************************************************************************)

\* A sequence with one element taken out
LEMMA TakenOut ==
    ASSUME NEW S, NEW s \in Seq(S), NEW i \in 1 .. Len(s)
    PROVE  /\ RemoveAt(s, i) \in Seq(S) /\ Len(RemoveAt(s, i)) = Len(s) - 1
           /\ \A j \in 1 .. Len(s) - 1 : RemoveAt(s, i)[j] = IF j < i THEN s[j] ELSE s[j + 1]
<1> DEFINE n == Len(s)
           a == SubSeq(s, 1, i - 1)
           c == SubSeq(s, i + 1, n)
<1>1. n \in Nat /\ i \in Int /\ n \in Int /\ i - 1 \in Int /\ i + 1 \in Int
    OBVIOUS
<1>2. a \in Seq(S) /\ Len(a) = i - 1 /\ \A j \in 1 .. i - 1 : a[j] = s[j]
    BY <1>1, SubSeqProperties
<1>3. c \in Seq(S) /\ Len(c) = n - i /\ \A j \in 1 .. n - i : c[j] = s[i + j]
    <2>1. \A j \in i + 1 .. n : s[j] \in S
        OBVIOUS
    <2>2. c \in Seq(S) /\ Len(c) = (IF i + 1 <= n THEN n - (i + 1) + 1 ELSE 0)
          /\ \A j \in 1 .. n - (i + 1) + 1 : c[j] = s[(i + 1) + j - 1]
        BY <1>1, <2>1, SubSeqProperties
    <2>3. \A j \in 1 .. n - i : (i + 1) + j - 1 = i + j /\ j \in 1 .. n - (i + 1) + 1
        BY <1>1
    <2> HIDE DEF c
    <2>4. QED
        BY <1>1, <2>2, <2>3
<1>4. RemoveAt(s, i) = a \o c
    BY DEF RemoveAt
<1> HIDE DEF a, c
<1>5. /\ a \o c \in Seq(S) /\ Len(a \o c) = n - 1
      /\ \A j \in 1 .. n - 1 : (a \o c)[j] = IF j <= i - 1 THEN a[j] ELSE c[j - (i - 1)]
    <2>1. Len(a) + Len(c) = n - 1
        BY <1>1, <1>2, <1>3
    <2> DEFINE ac == a \o c
    <2>2. /\ ac \in Seq(S) /\ Len(ac) = Len(a) + Len(c)
          /\ \A j \in 1 .. Len(a) + Len(c) : ac[j] = IF j <= Len(a) THEN a[j] ELSE c[j - Len(a)]
        BY <1>2, <1>3, ConcatProperties
    <2> HIDE DEF ac
    <2>3. /\ ac \in Seq(S) /\ Len(ac) = n - 1
          /\ \A j \in 1 .. n - 1 : ac[j] = IF j <= i - 1 THEN a[j] ELSE c[j - (i - 1)]
        BY <1>2, <2>1, <2>2
    <2>4. QED
        BY <2>3 DEF ac
<1>6. ASSUME NEW j \in 1 .. n - 1 PROVE (a \o c)[j] = IF j < i THEN s[j] ELSE s[j + 1]
    <2>1. CASE j < i
        BY <2>1, <1>2, <1>5
    <2>2. CASE j >= i
        <3>1. j - (i - 1) \in 1 .. n - i /\ i + (j - (i - 1)) = j + 1 /\ ~(j <= i - 1)
            BY <2>2, <1>1
        <3>2. QED
            BY <2>2, <3>1, <1>3, <1>5
    <2>3. j < i \/ j >= i
        OBVIOUS
    <2>4. QED
        BY <2>1, <2>2, <2>3, Zenon
<1>7. QED
    BY <1>4, <1>5, <1>6
=============================================================================
