---------------------------- MODULE ClientProofs ----------------------------
(***************************************************************************)
(* Proofs about Client.  UserListProofs says what a handler of users.c     *)
(* leaves of the list and which events it raises on the way; here each     *)
(* event is followed into the sessions, as sess.c and gui_page.c do it.    *)
(*                                                                         *)
(* IInv is inductive by itself: the list has one user of a name, a session *)
(* one page with true flags, the others were told of open pages only, and  *)
(* replies and silences are in step with the flags of the list.  With it,  *)
(* PagesOwned is inductive as long as each chats with those he has a page  *)
(* of and no nickname is the label of a channel or of the status page.     *)
(***************************************************************************)
EXTENDS Client, UserListProofs

Channels == {Main} \cup Chans \cup {Persistent[i] : i \in DOMAIN Persistent}

Session == {Status} \cup {Channel(c) : c \in Channels} \cup {Private(n) : n \in Nicks}

Page == [id : Session, owner : Blocks \cup {NoUser}, user : Blocks \cup {NoUser},
         label : {k.name : k \in Session}, hilited : BOOLEAN, flick : BOOLEAN, closeable : BOOLEAN]

State == [list : Seq(Page), shown : Session, up : BOOLEAN, told : SUBSET Session]

\* A session has one page, and its tab flickers exactly while it has unread words,
\* which the page shown never has.
Sound(s) ==
    /\ s \in State
    /\ \A i, j \in Indices(s) : s.list[i].id = s.list[j].id => i = j
    /\ \A i \in Indices(s) : /\ s.list[i].flick = s.list[i].hilited
                             /\ s.list[i].hilited => s.list[i].id # s.shown

\* The same sessions are open, and the others know as much.
Kept(s, t) ==
    /\ Indices(t) = Indices(s) /\ t.up = s.up /\ t.told = s.told
    /\ \A i \in Indices(s) : /\ t.list[i].id = s.list[i].id
                             /\ t.list[i].closeable = s.list[i].closeable

\* And their pages belong to the same users.
Lit(s, t) ==
    /\ Kept(s, t)
    /\ \A i \in Indices(s) : /\ t.list[i].user = s.list[i].user
                             /\ t.list[i].label = s.list[i].label

-----------------------------------------------------------------------------
(***************************************************************************)
(* What is written and shown                                               *)
(***************************************************************************)

\* The page of a session that is open
LEMMA IndexFacts ==
    ASSUME NEW s, NEW k, IsOpen(s, k)
    PROVE  IndexOf(s, k) \in Indices(s) /\ s.list[IndexOf(s, k)].id = k
BY DEF IsOpen, IndexOf

\* What was open is open.
LEMMA KeptOpen ==
    ASSUME NEW s, NEW t, Kept(s, t)
    PROVE  Ids(t) = Ids(s) /\ \A k : IsOpen(s, k) <=> IsOpen(t, k)
BY DEF Kept, Ids, IsOpen

\* Nothing is lost by what loses nothing twice.
LEMMA KeptTwice ==
    ASSUME NEW s, NEW t, NEW x, Kept(s, t), Kept(t, x)
    PROVE  Kept(s, x)
BY DEF Kept

\* Nor do pages change hands.
LEMMA LitTwice ==
    ASSUME NEW s, NEW t, NEW x, Lit(s, t), Lit(t, x)
    PROVE  Lit(s, x)
<1>1. Kept(s, x)
    BY KeptTwice DEF Lit
<1>2. QED
    BY <1>1 DEF Lit, Kept

\* Nothing at all
LEMMA LitSame == ASSUME NEW s PROVE Lit(s, s)
BY DEF Lit, Kept

\* The list with another page in one place
LEMMA PageSet ==
    ASSUME NEW l \in Seq(Page), NEW i \in DOMAIN l, NEW p \in Page
    PROVE  /\ [l EXCEPT ![i] = p] \in Seq(Page)
           /\ DOMAIN [l EXCEPT ![i] = p] = DOMAIN l
           /\ \A j \in DOMAIN l : [l EXCEPT ![i] = p][j] = IF j = i THEN p ELSE l[j]
<1>1. DOMAIN l = 1 .. Len(l) /\ Len(l) \in Nat /\ l \in [1 .. Len(l) -> Page]
    OBVIOUS
<1>2. [l EXCEPT ![i] = p] \in [1 .. Len(l) -> Page]
    BY <1>1
<1>3. [l EXCEPT ![i] = p] \in Seq(Page)
    BY <1>1, <1>2
<1>4. QED
    BY <1>1, <1>2, <1>3

\* gui_page_hilite sets both flags of one page.
LEMMA HiliteFacts ==
    ASSUME NEW s \in State, NEW k, IsOpen(s, k), NEW on \in BOOLEAN, NEW t, t = Hilite(s, k, on)
    PROVE  /\ t \in State /\ Lit(s, t) /\ t.shown = s.shown
           /\ \A j \in Indices(s) :
                /\ j = IndexOf(s, k) => t.list[j].flick = on /\ t.list[j].hilited = on
                /\ j # IndexOf(s, k) => /\ t.list[j].flick = s.list[j].flick
                                       /\ t.list[j].hilited = s.list[j].hilited
<1> DEFINE i == IndexOf(s, k)
           p == [s.list[i] EXCEPT !.flick = on, !.hilited = on]
<1>1. i \in DOMAIN s.list /\ s.list \in Seq(Page)
    BY IndexFacts DEF Indices, State
<1>2. s.list[i] \in Page
    BY <1>1
<1>3. /\ p \in Page /\ p.flick = on /\ p.hilited = on /\ p.id = s.list[i].id
      /\ p.user = s.list[i].user /\ p.label = s.list[i].label /\ p.closeable = s.list[i].closeable
    BY <1>2 DEF Page
<1>4. t = [s EXCEPT !.list = [s.list EXCEPT ![i] = p]]
    BY <1>1 DEF Hilite
<1> HIDE DEF p, i
<1>5. /\ [s.list EXCEPT ![i] = p] \in Seq(Page)
      /\ DOMAIN [s.list EXCEPT ![i] = p] = DOMAIN s.list
      /\ \A j \in DOMAIN s.list : [s.list EXCEPT ![i] = p][j] = IF j = i THEN p ELSE s.list[j]
    BY <1>1, <1>3, PageSet
<1>6. /\ t.list = [s.list EXCEPT ![i] = p] /\ t.shown = s.shown /\ t.up = s.up /\ t.told = s.told
      /\ t \in State
    BY <1>4, <1>5 DEF State
<1>7. Indices(t) = Indices(s) /\ \A j \in Indices(s) : t.list[j] = IF j = i THEN p ELSE s.list[j]
    BY <1>5, <1>6 DEF Indices
<1>8. Lit(s, t)
    BY <1>3, <1>6, <1>7 DEF Lit, Kept
<1>9. QED
    BY <1>3, <1>6, <1>7, <1>8 DEF i

\* notebook_switch_page_cb: who looks at a page has read it.
LEMMA ShownFacts ==
    ASSUME NEW s, Sound(s), NEW k \in Session, IsOpen(s, k), NEW t, t = Shown(s, k)
    PROVE  Sound(t) /\ Lit(s, t) /\ t.shown = k
<1> DEFINE x == [s EXCEPT !.shown = k]
           i == IndexOf(x, k)
<1>1. x \in State /\ x.shown = k /\ x.list = s.list /\ x.up = s.up /\ x.told = s.told
    BY DEF Sound, State
<1>2. t = IF x.list[i].hilited THEN Hilite(x, k, FALSE) ELSE x
    BY DEF Shown
<1> HIDE DEF x
<1>3. Lit(s, x) /\ IsOpen(x, k) /\ Indices(x) = Indices(s)
    BY <1>1 DEF Lit, Kept, Indices, IsOpen
<1>4. i \in Indices(x) /\ x.list[i].id = k
    BY <1>3, IndexFacts
<1>5. \A j \in Indices(x) : x.list[j].id = k => j = i
    BY <1>1, <1>3, <1>4 DEF Sound
<1> HIDE DEF i
<1>6. CASE x.list[i].hilited
    <2>0. PICK on \in BOOLEAN : on = FALSE
        OBVIOUS
    <2>1. t = Hilite(x, k, on)
        BY <2>0, <1>2, <1>6
    <2>2. /\ t \in State /\ Lit(x, t) /\ t.shown = x.shown
          /\ \A j \in Indices(x) :
               /\ j = i => t.list[j].flick = on /\ t.list[j].hilited = on
               /\ j # i => /\ t.list[j].flick = x.list[j].flick
                          /\ t.list[j].hilited = x.list[j].hilited
        BY <2>1, <1>1, <1>3, HiliteFacts DEF i
    <2>3. /\ Indices(t) = Indices(s)
          /\ \A j \in Indices(s) : t.list[j].id = s.list[j].id
        BY <2>2, <1>1, <1>3 DEF Lit, Kept
    <2>4. Sound(t)
        BY <2>0, <2>2, <2>3, <1>1, <1>3, <1>5 DEF Sound
    <2>5. QED
        BY <2>2, <2>4, <1>1, <1>3, LitTwice
<1>7. CASE ~x.list[i].hilited
    <2>1. t = x
        BY <1>2, <1>7
    <2>2. Sound(t)
        BY <2>1, <1>1, <1>3, <1>5, <1>7 DEF Sound
    <2>3. QED
        BY <2>1, <2>2, <1>1, <1>3
<1>8. QED
    BY <1>6, <1>7

\* gui_page_switch
LEMMA SwitchToFacts ==
    ASSUME NEW s, Sound(s), NEW k \in Session, IsOpen(s, k), NEW t, t = SwitchTo(s, k)
    PROVE  Sound(t) /\ Lit(s, t)
BY ShownFacts, LitSame DEF SwitchTo

\* sess_write: no page that is shown flickers for it.
LEMMA WrittenFacts ==
    ASSUME NEW s, Sound(s), NEW k \in Session, IsOpen(s, k), NEW imp, NEW t, t = Written(s, k, imp)
    PROVE  Sound(t) /\ Lit(s, t)
<1>1. CASE k.type = "CHANNEL" /\ k.name \in imp
    <2>1. t = SwitchTo(s, k)
        BY <1>1 DEF Written
    <2>2. QED
        BY <2>1, SwitchToFacts
<1>2. CASE /\ ~(k.type = "CHANNEL" /\ k.name \in imp)
           /\ s.shown # k /\ ~s.list[IndexOf(s, k)].hilited
    <2> DEFINE i == IndexOf(s, k)
    <2>0. PICK on \in BOOLEAN : on = TRUE
        OBVIOUS
    <2>1. t = Hilite(s, k, on)
        BY <2>0, <1>2 DEF Written
    <2>2. s \in State /\ i \in Indices(s) /\ s.list[i].id = k
        BY IndexFacts DEF Sound
    <2> HIDE DEF i
    <2>3. /\ t \in State /\ Lit(s, t) /\ t.shown = s.shown
          /\ \A j \in Indices(s) :
               /\ j = i => t.list[j].flick = on /\ t.list[j].hilited = on
               /\ j # i => /\ t.list[j].flick = s.list[j].flick
                          /\ t.list[j].hilited = s.list[j].hilited
        BY <2>1, <2>2, HiliteFacts DEF i
    <2>4. /\ Indices(t) = Indices(s)
          /\ \A j \in Indices(s) : t.list[j].id = s.list[j].id
        BY <2>3 DEF Lit, Kept
    <2>5. Sound(t)
        <3>1. \A j \in Indices(s) : j = i => t.list[j].id # t.shown
            BY <2>2, <2>3, <2>4, <1>2
        <3>2. QED
            BY <3>1, <2>2, <2>3, <2>4 DEF Sound
    <2>6. QED
        BY <2>3, <2>5
<1>3. CASE /\ ~(k.type = "CHANNEL" /\ k.name \in imp)
           /\ ~(s.shown # k /\ ~s.list[IndexOf(s, k)].hilited)
    <2>1. t = s
        BY <1>3 DEF Written
    <2>2. QED
        BY <2>1, LitSame
<1>4. QED
    BY <1>1, <1>2, <1>3

\* One step of WrittenToAll
WriteStep(imp, t, k) == Written(t, k, imp)

WW == INSTANCE FoldFacts WITH Op <- WriteStep

\* What is written to several sessions
LEMMA WrittenToAllFacts ==
    ASSUME NEW s, Sound(s), NEW q \in Seq(Session), \A i \in 1 .. Len(q) : IsOpen(s, q[i]),
           NEW imp, NEW t, t = WrittenToAll(s, q, imp)
    PROVE  Sound(t) /\ Lit(s, t)
<1> DEFINE J == {x \in State : Sound(x) /\ Lit(s, x)}
<1>1. t = WW!Fold(imp, s, q)
    BY DEF WrittenToAll, WW!Fold, WriteStep, FoldLeft, WW!FoldLeft, MapThenFoldSet, WW!MapThenFoldSet, Max, WW!Max
<1>2. s \in J
    BY LitSame DEF Sound
<1>3. ASSUME NEW i \in 1 .. Len(q), NEW x \in J PROVE WriteStep(imp, x, q[i]) \in J
    <2>1. q[i] \in Session /\ IsOpen(x, q[i]) /\ Sound(x) /\ Lit(s, x)
        BY KeptOpen DEF Lit
    <2>2. Sound(Written(x, q[i], imp)) /\ Lit(x, Written(x, q[i], imp))
        BY <2>1, WrittenFacts
    <2>3. QED
        BY <2>1, <2>2, LitTwice DEF WriteStep, Sound
<1> HIDE DEF J
<1>4. WW!Fold(imp, s, q) \in J
    BY <1>2, <1>3, WW!FoldInvariant
<1>5. QED
    BY <1>1, <1>4 DEF J

\* q goes through S, once each.
Lists(q, S) ==
    /\ q \in Seq(Session)
    /\ \A a \in 1 .. Len(q) : q[a] \in S
    /\ \A k \in S : \E a \in 1 .. Len(q) : q[a] = k
    /\ \A a, b \in 1 .. Len(q) : q[a] = q[b] => a = b

\* One more
LEMMA ListsMore ==
    ASSUME NEW q, NEW S, Lists(q, S), NEW k \in Session \ S
    PROVE  Lists(Append(q, k), S \cup {k})
<1> DEFINE r == Append(q, k)
<1>1. q \in Seq(Session) /\ Len(q) \in Nat
    BY DEF Lists
<1>2. /\ r \in Seq(Session) /\ Len(r) = Len(q) + 1 /\ r[Len(q) + 1] = k
      /\ \A a \in 1 .. Len(q) : r[a] = q[a]
    BY <1>1
<1> HIDE DEF r
<1>3. \A a \in 1 .. Len(r) : a \in 1 .. Len(q) \/ a = Len(q) + 1
    BY <1>1, <1>2
<1>4. \A a \in 1 .. Len(r) : r[a] \in S \cup {k}
    BY <1>2, <1>3 DEF Lists
<1>5. ASSUME NEW x \in S \cup {k} PROVE \E a \in 1 .. Len(r) : r[a] = x
    <2>1. CASE x = k
        <3>1. Len(q) + 1 \in 1 .. Len(r)
            BY <1>1, <1>2
        <3>2. QED
            BY <2>1, <3>1, <1>2
    <2>2. CASE x \in S
        <3>1. PICK a \in 1 .. Len(q) : q[a] = x
            BY <2>2 DEF Lists
        <3>2. a \in 1 .. Len(r)
            BY <1>1, <1>2
        <3>3. QED
            BY <3>1, <3>2, <1>2
    <2>3. QED
        BY <2>1, <2>2
<1>6. \A a, b \in 1 .. Len(r) : r[a] = r[b] => a = b
    BY <1>2, <1>3 DEF Lists
<1>7. Lists(r, S \cup {k})
    BY <1>2, <1>4, <1>5, <1>6 DEF Lists
<1>8. QED
    BY <1>7 DEF r

\* One step of InOrder
Pick(ks, some, s) == IF s.id \in ks THEN Append(some, s.id) ELSE some

PP == INSTANCE FoldFacts WITH Op <- Pick

\* sess_enumerate meets every session of its kind once.
LEMMA InOrderFacts ==
    ASSUME NEW s, Sound(s), NEW ks
    PROVE  Lists(InOrder(s, ks), Ids(s) \cap ks)
<1> DEFINE n == Len(s.list)
           S(i) == {s.list[b].id : b \in 1 .. i} \cap ks
           J == [i \in 0 .. n |-> {q \in Seq(Session) : Lists(q, S(i))}]
<1>1. s.list \in Seq(Page) /\ n \in Nat /\ Indices(s) = 1 .. n
    BY DEF Sound, State, Indices
<1>2. InOrder(s, ks) = PP!Fold(ks, <<>>, s.list)
    BY DEF InOrder, PP!Fold, Pick, FoldLeft, PP!FoldLeft, MapThenFoldSet, PP!MapThenFoldSet, Max, PP!Max
<1>3. <<>> \in J[0]
    <2>1. S(0) = {} /\ 0 \in 0 .. n
        BY <1>1
    <2>2. Lists(<<>>, {})
        BY DEF Lists
    <2>3. Lists(<<>>, S(0))
        BY <2>1, <2>2
    <2>4. <<>> \in Seq(Session)
        OBVIOUS
    <2> HIDE DEF S, n
    <2>5. QED
        BY <2>1, <2>3, <2>4
<1>4. ASSUME NEW i \in 1 .. n, NEW x \in J[i - 1] PROVE Pick(ks, x, s.list[i]) \in J[i]
    <2> DEFINE k == s.list[i].id
    <2>1. i - 1 \in 0 .. n /\ i \in 0 .. n /\ \A b \in 1 .. i : b \in 1 .. i - 1 \/ b = i
        BY <1>1
    <2>2. x \in Seq(Session) /\ Lists(x, S(i - 1))
        BY <2>1
    <2>3. k \in Session
        <3>1. s.list[i] \in Page
            BY <1>1
        <3>2. QED
            BY <3>1 DEF Page
    <2>4. k \notin S(i - 1)
        <3>1. \A b \in 1 .. i - 1 : b \in Indices(s) /\ i \in Indices(s) /\ b # i
            BY <1>1
        <3>2. QED
            BY <3>1 DEF Sound
    <2>5. S(i) = IF k \in ks THEN S(i - 1) \cup {k} ELSE S(i - 1)
        <3>1. {s.list[b].id : b \in 1 .. i} = {s.list[b].id : b \in 1 .. i - 1} \cup {k}
            <4>1. i \in 1 .. i /\ \A b \in 1 .. i - 1 : b \in 1 .. i
                BY <1>1
            <4>2. QED
                BY <2>1, <4>1
        <3>2. QED
            BY <3>1
    <2> HIDE DEF S, k, n
    <2>6. Lists(Pick(ks, x, s.list[i]), S(i))
        BY <2>2, <2>3, <2>4, <2>5, ListsMore DEF Pick, k
    <2>7. QED
        BY <2>1, <2>6 DEF Lists
<1> HIDE DEF J
<1>5. PP!Fold(ks, <<>>, s.list) \in J[n]
    BY <1>1, <1>3, <1>4, PP!FoldChain
<1>6. Lists(InOrder(s, ks), S(n))
    BY <1>1, <1>2, <1>5 DEF J
<1>7. S(n) = Ids(s) \cap ks
    BY <1>1 DEF Ids
<1>8. QED
    BY <1>6, <1>7

-----------------------------------------------------------------------------
(***************************************************************************)
(* Sessions that are opened and closed                                     *)
(***************************************************************************)

\* The page of k, which is new, belongs to u; the others stay as they are.
Grown(s, t, k, u, c) ==
    /\ Indices(s) \subseteq Indices(t) /\ Ids(t) = Ids(s) \cup {k}
    /\ \A i \in Indices(s) : /\ t.list[i].id = s.list[i].id
                             /\ t.list[i].closeable = s.list[i].closeable
                             /\ t.list[i].user = s.list[i].user
                             /\ t.list[i].label = s.list[i].label
    /\ \A i \in Indices(t) \ Indices(s) : /\ t.list[i].id = k /\ t.list[i].closeable = c
                                          /\ t.list[i].user = u /\ t.list[i].label = k.name
                                          /\ ~IsOpen(s, k)

\* Words on the new page
LEMMA GrownLit ==
    ASSUME NEW s, NEW x, NEW t, NEW k, NEW u, NEW c, Grown(s, x, k, u, c), Lit(x, t)
    PROVE  Grown(s, t, k, u, c)
<1>1. Ids(t) = Ids(x)
    BY KeptOpen DEF Lit
<1>2. QED
    BY <1>1 DEF Grown, Lit, Kept

\* gui_page_new appends a page that is not hilited.
LEMMA PageMadeFacts ==
    ASSUME NEW s, Sound(s), NEW k \in Session, ~IsOpen(s, k), NEW u \in Blocks \cup {NoUser},
           NEW c \in BOOLEAN, NEW t, t = PageMade(s, k, u, c)
    PROVE  Sound(t) /\ Grown(s, t, k, u, c) /\ t.up = s.up /\ t.told = s.told
<1> DEFINE p == [id |-> k, owner |-> u, user |-> u, label |-> k.name,
                 hilited |-> FALSE, flick |-> FALSE, closeable |-> c]
           n == Len(s.list)
           x == [s EXCEPT !.list = Append(@, p)]
<1>1. s \in State /\ s.list \in Seq(Page) /\ n \in Nat /\ Indices(s) = 1 .. n
    BY DEF Sound, State, Indices
<1>2. /\ p \in Page /\ p.id = k /\ p.user = u /\ p.label = k.name /\ p.closeable = c
      /\ p.flick = FALSE /\ p.hilited = FALSE
    BY DEF Page
<1> HIDE DEF p
<1>3. /\ Append(s.list, p) \in Seq(Page) /\ Len(Append(s.list, p)) = n + 1
      /\ Append(s.list, p)[n + 1] = p
      /\ \A i \in 1 .. n : Append(s.list, p)[i] = s.list[i]
    BY <1>1, <1>2
<1>4. /\ x.list = Append(s.list, p) /\ x.shown = s.shown /\ x.up = s.up /\ x.told = s.told
      /\ x \in State
    BY <1>1, <1>3 DEF State
<1>5. /\ Indices(x) = 1 .. n + 1 /\ x.list[n + 1] = p
      /\ \A i \in Indices(s) : x.list[i] = s.list[i]
    BY <1>1, <1>3, <1>4 DEF Indices
<1>6. t = IF s.list = <<>> THEN Shown(x, k) ELSE x
    BY DEF PageMade, p
<1> HIDE DEF x
<1>7. Indices(x) = Indices(s) \cup {n + 1} /\ n + 1 \notin Indices(s)
    BY <1>1, <1>5
<1>8. \A i \in Indices(s) : s.list[i].id # k
    BY DEF IsOpen
<1>9. Sound(x)
    <2>1. \A i, j \in Indices(x) : x.list[i].id = x.list[j].id => i = j
        <3>1. \A i \in Indices(x) : x.list[i].id = IF i = n + 1 THEN k ELSE s.list[i].id
            BY <1>2, <1>5, <1>7
        <3>2. QED
            BY <3>1, <1>7, <1>8 DEF Sound
    <2>2. \A i \in Indices(x) : /\ x.list[i].flick = x.list[i].hilited
                                /\ x.list[i].hilited => x.list[i].id # x.shown
        <3>1. \A i \in Indices(x) : i \in Indices(s) \/ i = n + 1
            BY <1>7
        <3>2. QED
            BY <3>1, <1>2, <1>4, <1>5 DEF Sound
    <2>3. QED
        BY <2>1, <2>2, <1>4 DEF Sound
<1>10. Ids(x) = Ids(s) \cup {k}
    BY <1>2, <1>5, <1>7 DEF Ids
<1>11. Grown(s, x, k, u, c)
    <2>1. \A i \in Indices(x) \ Indices(s) : x.list[i] = p
        BY <1>5, <1>7
    <2>2. QED
        BY <2>1, <1>2, <1>5, <1>7, <1>10 DEF Grown
<1>12. IsOpen(x, k)
    BY <1>2, <1>5, <1>7 DEF IsOpen
<1>13. CASE s.list = <<>>
    <2>1. t = Shown(x, k)
        BY <1>6, <1>13
    <2>2. Sound(t) /\ Lit(x, t)
        BY <2>1, <1>9, <1>12, ShownFacts
    <2>3. QED
        BY <2>2, <1>4, <1>11, GrownLit DEF Lit, Kept
<1>14. CASE s.list # <<>>
    BY <1>4, <1>6, <1>9, <1>11, <1>14
<1>15. QED
    BY <1>13, <1>14

\* What others have been told
ToldIs(s, ks) == s.told = ks

\* Others are told something else.
LEMMA ToldFacts ==
    ASSUME NEW s, Sound(s), NEW new \in SUBSET Session, NEW t, t = [s EXCEPT !.told = new]
    PROVE  Sound(t) /\ t.list = s.list /\ t.up = s.up /\ t.shown = s.shown /\ ToldIs(t, new)
<1>1. t \in State /\ t.list = s.list /\ t.up = s.up /\ t.shown = s.shown /\ t.told = new
    BY DEF Sound, State
<1>2. QED
    BY <1>1 DEF Sound, Indices, ToldIs

\* It is told whether k is open.
Heeded(s, k) == k.type # "STATUS" /\ s.up

\* What the others are told of k when it opens ...
LEMMA OpenAnnounced ==
    ASSUME NEW s, Sound(s), NEW k \in Session, NEW t, t = Announced(s, k, TRUE)
    PROVE  /\ Sound(t) /\ t.list = s.list /\ t.up = s.up /\ t.shown = s.shown
           /\ ~Heeded(s, k) => ToldIs(t, s.told)
           /\ Heeded(s, k) => ToldIs(t, s.told \cup {k})
<1>1. s.told \cup {k} \in SUBSET Session
    BY DEF Sound, State
<1>2. t = IF k.type = "STATUS" \/ ~s.up THEN s ELSE [s EXCEPT !.told = s.told \cup {k}]
    BY DEF Announced
<1>3. CASE ~Heeded(s, k)
    <2>1. t = s
        BY <1>2, <1>3 DEF Heeded
    <2>2. QED
        BY <2>1, <1>3 DEF ToldIs
<1>4. CASE Heeded(s, k)
    <2> DEFINE new == s.told \cup {k}
    <2>1. t = [s EXCEPT !.told = new]
        BY <1>2, <1>4 DEF Heeded
    <2>2. new \in SUBSET Session
        BY <1>1
    <2> HIDE DEF new
    <2>3. /\ Sound(t) /\ t.list = s.list /\ t.up = s.up /\ t.shown = s.shown
          /\ ToldIs(t, new)
        BY <2>1, <2>2, ToldFacts
    <2>4. QED
        BY <2>3, <1>4 DEF new
<1>5. QED
    BY <1>3, <1>4

\* ... and when it closes
LEMMA CloseAnnounced ==
    ASSUME NEW s, Sound(s), NEW k \in Session, NEW t, t = Announced(s, k, FALSE)
    PROVE  /\ Sound(t) /\ t.list = s.list /\ t.up = s.up /\ t.shown = s.shown
           /\ ~Heeded(s, k) => ToldIs(t, s.told)
           /\ Heeded(s, k) => ToldIs(t, s.told \ {k})
<1>1. s.told \ {k} \in SUBSET Session
    BY DEF Sound, State
<1>2. t = IF k.type = "STATUS" \/ ~s.up THEN s ELSE [s EXCEPT !.told = s.told \ {k}]
    BY DEF Announced
<1>3. CASE ~Heeded(s, k)
    <2>1. t = s
        BY <1>2, <1>3 DEF Heeded
    <2>2. QED
        BY <2>1, <1>3 DEF ToldIs
<1>4. CASE Heeded(s, k)
    <2> DEFINE new == s.told \ {k}
    <2>1. t = [s EXCEPT !.told = new]
        BY <1>2, <1>4 DEF Heeded
    <2>2. new \in SUBSET Session
        BY <1>1
    <2> HIDE DEF new
    <2>3. /\ Sound(t) /\ t.list = s.list /\ t.up = s.up /\ t.shown = s.shown
          /\ ToldIs(t, new)
        BY <2>1, <2>2, ToldFacts
    <2>4. QED
        BY <2>3, <1>4 DEF new
<1>5. QED
    BY <1>3, <1>4

\* The others believe the client to be only where it is, and nowhere without a net.
Honest(s) ==
    /\ s.told \subseteq Ids(s) /\ (~s.up => s.told = {})
    /\ \A k \in s.told : k.type # "STATUS"

\* Who has the same sessions open and has told the same is as honest.
LEMMA KeptHonest ==
    ASSUME NEW s, NEW t, Kept(s, t), Honest(s)
    PROVE  Honest(t)
<1>1. Ids(t) = Ids(s)
    BY KeptOpen
<1>2. QED
    BY <1>1 DEF Honest, Kept

\* sess_new, which opens what is not open
LEMMA OpenedFacts ==
    ASSUME NEW s, Sound(s), NEW k \in Session, NEW u \in Blocks \cup {NoUser},
           NEW c \in BOOLEAN, NEW imp, NEW t, t = Opened(s, k, u, c, imp)
    PROVE  /\ Sound(t) /\ Grown(s, t, k, u, c) /\ t.up = s.up
           /\ Honest(s) => Honest(t)
<1>1. CASE IsOpen(s, k)
    <2>1. t = s
        BY <1>1 DEF Opened
    <2>2. Ids(s) = Ids(s) \cup {k}
        BY <1>1 DEF Ids, IsOpen
    <2>3. QED
        BY <2>1, <2>2 DEF Grown
<1>2. CASE ~IsOpen(s, k)
    <2> DEFINE x == PageMade(s, k, u, c)
               y == IF k.type = "STATUS" THEN x ELSE Written(x, k, imp)
    <2>1. t = Announced(y, k, TRUE)
        BY <1>2 DEF Opened, OpenedAnyway
    <2>2. Sound(x) /\ Grown(s, x, k, u, c) /\ x.up = s.up /\ x.told = s.told
        BY <1>2, PageMadeFacts
    <2> HIDE DEF x
    <2>3. IsOpen(x, k)
        BY <2>2 DEF Grown, Ids, IsOpen
    <2>4. Sound(y) /\ Lit(x, y)
        BY <2>2, <2>3, WrittenFacts, LitSame
    <2>5. Grown(s, y, k, u, c) /\ y.up = s.up /\ y.told = s.told
        BY <2>2, <2>4, GrownLit DEF Lit, Kept
    <2> HIDE DEF y
    <2>6. Sound(t) /\ t.list = y.list /\ t.up = y.up
        BY <2>1, <2>4, OpenAnnounced
    <2>7. /\ Heeded(y, k) => ToldIs(t, y.told \cup {k})
          /\ ~Heeded(y, k) => ToldIs(t, y.told)
        BY <2>1, <2>4, OpenAnnounced
    <2>8. /\ Heeded(y, k) => t.told = y.told \cup {k}
          /\ ~Heeded(y, k) => t.told = y.told
        BY <2>7 DEF ToldIs
    <2>9. Grown(s, t, k, u, c)
        BY <2>5, <2>6 DEF Grown, Indices, Ids
    <2>10. ASSUME Honest(s) PROVE Honest(t)
        <3>1. Ids(t) = Ids(s) \cup {k}
            BY <2>9 DEF Grown
        <3>2. t.told \subseteq s.told \cup {k} /\ (k.type = "STATUS" \/ ~s.up => t.told = s.told)
            BY <2>5, <2>8 DEF Heeded
        <3>3. t.up = s.up
            BY <2>5, <2>6
        <3>4. QED
            BY <2>10, <3>1, <3>2, <3>3 DEF Honest
    <2>11. QED
        BY <2>5, <2>6, <2>9, <2>10
<1>3. QED
    BY <1>1, <1>2

\* The pages that are left are as they were.
Shrunk(s, t) ==
    \A i \in Indices(t) : \E j \in Indices(s) : /\ t.list[i].id = s.list[j].id
                                               /\ t.list[i].closeable = s.list[j].closeable
                                               /\ t.list[i].user = s.list[j].user
                                               /\ t.list[i].label = s.list[j].label

\* Fewer and fewer pages
LEMMA ShrunkTwice ==
    ASSUME NEW s, NEW t, NEW x, Shrunk(s, t), Shrunk(t, x)
    PROVE  Shrunk(s, x)
<1>1. ASSUME NEW i \in Indices(x)
      PROVE  \E j \in Indices(s) : /\ x.list[i].id = s.list[j].id
                                   /\ x.list[i].closeable = s.list[j].closeable
                                   /\ x.list[i].user = s.list[j].user
                                   /\ x.list[i].label = s.list[j].label
    <2>1. PICK m \in Indices(t) : /\ x.list[i].id = t.list[m].id
                                  /\ x.list[i].closeable = t.list[m].closeable
                                  /\ x.list[i].user = t.list[m].user
                                  /\ x.list[i].label = t.list[m].label
        BY DEF Shrunk
    <2>2. PICK j \in Indices(s) : /\ t.list[m].id = s.list[j].id
                                  /\ t.list[m].closeable = s.list[j].closeable
                                  /\ t.list[m].user = s.list[j].user
                                  /\ t.list[m].label = s.list[j].label
        BY DEF Shrunk
    <2>3. QED
        BY <2>1, <2>2
<1>2. QED
    BY <1>1 DEF Shrunk

\* The sessions ks, and none but them, are closed.
Shut(s, t, ks) == Shrunk(s, t) /\ Ids(t) = Ids(s) \ ks /\ t.up = s.up

\* sess_delete: the others are told before the page goes, and another page is shown.
LEMMA ClosedFacts ==
    ASSUME NEW s, Sound(s), NEW k \in Session, IsOpen(s, k), NEW t, t = Closed(s, k)
    PROVE  Sound(t) /\ Shut(s, t, {k}) /\ (Honest(s) => Honest(t))
<1> DEFINE x == Announced(s, k, FALSE)
           y == IF s.shown = k /\ Len(s.list) > 1 THEN Shown(x, NextShown(s, k)) ELSE x
           i == IndexOf(s, k)
           n == Len(s.list)
<1>1. t = [y EXCEPT !.list = RemoveAt(y.list, IndexOf(s, k))]
    BY DEF Closed
<1>3. Sound(x) /\ x.list = s.list /\ x.up = s.up /\ x.shown = s.shown
    BY CloseAnnounced
<1>2. /\ Heeded(s, k) => ToldIs(x, s.told \ {k})
      /\ ~Heeded(s, k) => ToldIs(x, s.told)
    BY CloseAnnounced
<1>4. /\ Heeded(s, k) => x.told = s.told \ {k}
      /\ ~Heeded(s, k) => x.told = s.told
    BY <1>2 DEF ToldIs
<1> HIDE DEF x
<1>5. s.list \in Seq(Page) /\ n \in Nat /\ Indices(s) = 1 .. n /\ Indices(x) = 1 .. n
    BY <1>3 DEF Sound, State, Indices
<1>6. i \in 1 .. n /\ s.list[i].id = k
    BY <1>5, IndexFacts
<1> HIDE DEF i
<1>7. \A j \in 1 .. n : s.list[j].id = k => j = i
    BY <1>5, <1>6 DEF Sound
<1>8. /\ Sound(y) /\ Lit(x, y)
      /\ n > 1 => y.shown # k
    <2>1. CASE s.shown = k /\ n > 1
        <3> DEFINE m == IF i > 1 THEN i - 1 ELSE i + 1
                   q == NextShown(s, k)
        <3>1. m \in 1 .. n /\ m # i
            BY <1>5, <1>6, <2>1
        <3>2. q = s.list[m].id
            BY DEF NextShown, i
        <3> HIDE DEF m, q
        <3>3. q \in Session /\ q # k
            <4>1. s.list[m] \in Page
                BY <1>5, <3>1
            <4>2. QED
                BY <4>1, <1>7, <3>1, <3>2 DEF Page
        <3>4. IsOpen(x, q)
            BY <1>3, <1>5, <3>1, <3>2 DEF IsOpen
        <3>5. y = Shown(x, q)
            BY <2>1 DEF q
        <3> HIDE DEF y
        <3>6. Sound(y) /\ Lit(x, y) /\ y.shown = q
            BY <1>3, <3>3, <3>4, <3>5, ShownFacts
        <3>7. QED
            BY <3>3, <3>6
    <2>2. CASE ~(s.shown = k /\ n > 1)
        <3>1. y = x
            BY <2>2
        <3>2. QED
            BY <3>1, <2>2, <1>3, LitSame
    <2>3. QED
        BY <2>1, <2>2
<1> HIDE DEF y
<1>9. /\ y.list \in Seq(Page) /\ Len(y.list) = n /\ Indices(y) = 1 .. n /\ y.up = s.up /\ y.told = x.told
      /\ y \in State
    <2>1. Indices(y) = Indices(x) /\ y.up = x.up /\ y.told = x.told
        BY <1>8 DEF Lit, Kept
    <2>2. y \in State /\ y.list \in Seq(Page) /\ DOMAIN y.list = 1 .. Len(y.list) /\ Len(y.list) \in Nat
        BY <1>8 DEF Sound, State
    <2>3. 1 .. Len(y.list) = 1 .. n
        BY <2>1, <2>2, <1>5 DEF Indices
    <2>4. Len(y.list) = n
        BY <2>2, <2>3, <1>5
    <2>5. QED
        BY <2>1, <2>2, <2>4, <1>3, <1>5
<1> DEFINE At(j) == IF j < i THEN j ELSE j + 1
<1>10. /\ RemoveAt(y.list, i) \in Seq(Page) /\ Len(RemoveAt(y.list, i)) = n - 1
       /\ \A j \in 1 .. n - 1 : RemoveAt(y.list, i)[j] = IF j < i THEN y.list[j] ELSE y.list[j + 1]
    <2>1. i \in 1 .. Len(y.list) /\ Len(y.list) = n /\ y.list \in Seq(Page)
        BY <1>6, <1>9
    <2> HIDE DEF n, At
    <2>2. QED
        BY <2>1, TakenOut
<1>11. /\ t.list = RemoveAt(y.list, i) /\ t.up = s.up /\ t.told = x.told /\ t.shown = y.shown
       /\ t \in State
    BY <1>1, <1>9, <1>10 DEF State, i
<1>12. Indices(t) = 1 .. n - 1 /\ \A j \in 1 .. n - 1 : t.list[j] = y.list[At(j)]
    BY <1>5, <1>10, <1>11 DEF Indices
<1>13. \A j \in 1 .. n - 1 : At(j) \in 1 .. n /\ At(j) # i
    BY <1>5, <1>6
<1>14. \A j, m \in 1 .. n - 1 : At(j) = At(m) => j = m
    BY <1>5, <1>6
<1>15. \A m \in 1 .. n : m # i => \E j \in 1 .. n - 1 : At(j) = m
    <2>1. ASSUME NEW m \in 1 .. n, m # i PROVE \E j \in 1 .. n - 1 : At(j) = m
        <3>1. CASE m < i
            <4>1. m \in 1 .. n - 1 /\ At(m) = m
                BY <3>1, <1>5, <1>6
            <4>2. QED
                BY <4>1
        <3>2. CASE m > i
            <4>1. m - 1 \in 1 .. n - 1 /\ At(m - 1) = m
                BY <3>2, <1>5, <1>6
            <4>2. QED
                BY <4>1
        <3>3. QED
            BY <2>1, <3>1, <3>2, <1>5, <1>6
    <2>2. QED
        BY <2>1
<1> HIDE DEF At
<1>16. \A j \in 1 .. n : /\ y.list[j].id = s.list[j].id /\ y.list[j].closeable = s.list[j].closeable
                         /\ y.list[j].user = s.list[j].user /\ y.list[j].label = s.list[j].label
    BY <1>3, <1>5, <1>8 DEF Lit, Kept
<1>17. \A j \in 1 .. n - 1 : /\ t.list[j].id = s.list[At(j)].id
                             /\ t.list[j].closeable = s.list[At(j)].closeable
                             /\ t.list[j].user = s.list[At(j)].user
                             /\ t.list[j].label = s.list[At(j)].label
    BY <1>12, <1>13, <1>16
<1> HIDE DEF n
<1>22. Shrunk(s, t)
    <2>1. ASSUME NEW j \in Indices(t)
          PROVE  \E m \in Indices(s) : /\ t.list[j].id = s.list[m].id
                                       /\ t.list[j].closeable = s.list[m].closeable
                                       /\ t.list[j].user = s.list[m].user
                                       /\ t.list[j].label = s.list[m].label
        BY <1>5, <1>12, <1>13, <1>17
    <2>2. QED
        BY <2>1 DEF Shrunk
<1>18. Sound(t)
    <2>1. \A j, m \in Indices(t) : t.list[j].id = t.list[m].id => j = m
        <3>1. ASSUME NEW j \in Indices(t), NEW m \in Indices(t), t.list[j].id = t.list[m].id
              PROVE  j = m
            <4>1. s.list[At(j)].id = s.list[At(m)].id /\ At(j) \in Indices(s) /\ At(m) \in Indices(s)
                BY <3>1, <1>5, <1>12, <1>13, <1>17
            <4>2. At(j) = At(m)
                BY <4>1 DEF Sound
            <4>3. QED
                BY <4>2, <1>12, <1>14
        <3>2. QED
            BY <3>1
    <2>2. \A j \in Indices(t) : /\ t.list[j].flick = t.list[j].hilited
                                /\ t.list[j].hilited => t.list[j].id # t.shown
        BY <1>8, <1>9, <1>11, <1>12, <1>13 DEF Sound
    <2>3. QED
        BY <2>1, <2>2, <1>11 DEF Sound
<1>19. Ids(t) = Ids(s) \ {k}
    <2>1. \A j \in 1 .. n - 1 : t.list[j].id = s.list[At(j)].id
        BY <1>17
    <2>2. Ids(t) \subseteq Ids(s) \ {k}
        BY <2>1, <1>5, <1>7, <1>12, <1>13 DEF Ids
    <2>3. ASSUME NEW m \in 1 .. n, s.list[m].id # k PROVE s.list[m].id \in Ids(t)
        <3>1. PICK j \in 1 .. n - 1 : At(j) = m
            BY <2>3, <1>6, <1>15
        <3>2. QED
            BY <3>1, <2>1, <1>12 DEF Ids
    <2>4. QED
        BY <2>2, <2>3, <1>5 DEF Ids
<1>20. ASSUME Honest(s) PROVE Honest(t)
    <2>1. k.type = "STATUS" => k \notin s.told
        BY <1>20 DEF Honest
    <2>2. t.told = s.told \ {k}
        BY <2>1, <1>4, <1>11, <1>20 DEF Honest, Heeded
    <2>3. QED
        BY <2>2, <1>11, <1>19, <1>20 DEF Honest
<1>21. QED
    BY <1>11, <1>18, <1>19, <1>20, <1>22 DEF Shut

\* Closing a part after another
LEMMA ShutMore ==
    ASSUME NEW s, NEW t, NEW x, NEW ks, NEW js, Shut(s, t, ks), Shut(t, x, js)
    PROVE  Shut(s, x, ks \cup js)
<1>1. Shrunk(s, x)
    BY ShrunkTwice DEF Shut
<1>2. QED
    BY <1>1 DEF Shut

\* Nothing is closed.
LEMMA ShutNone == ASSUME NEW s PROVE Shut(s, s, {})
BY DEF Shut, Shrunk

\* One step of closing several sessions
CloseStep(p, t, k) == Closed(t, k)

CC == INSTANCE FoldFacts WITH Op <- CloseStep

\* Several sessions are closed, each of which there is.
LEMMA ClosedEach ==
    ASSUME NEW s, Sound(s), NEW ks, ks \subseteq Ids(s), NEW q, Lists(q, ks),
           NEW t, t = FoldLeft(Closed, s, q)
    PROVE  Sound(t) /\ Shut(s, t, ks) /\ (Honest(s) => Honest(t))
<1> DEFINE n == Len(q)
           Done(i) == {q[b] : b \in 1 .. i}
           J == [i \in 0 .. n |-> {x \in State : /\ Sound(x) /\ Shut(s, x, Done(i))
                                                 /\ Honest(s) => Honest(x)}]
<1>1. q \in Seq(Session) /\ n \in Nat
    BY DEF Lists
<1>2. t = CC!Fold(<<>>, s, q)
    BY DEF CC!Fold, CloseStep, FoldLeft, CC!FoldLeft, MapThenFoldSet, CC!MapThenFoldSet, Max, CC!Max
<1>3. s \in J[0]
    <2>1. Done(0) = {} /\ 0 \in 0 .. n
        BY <1>1
    <2>2. Shut(s, s, Done(0))
        BY <2>1, ShutNone
    <2> HIDE DEF Done, n
    <2>3. QED
        BY <2>1, <2>2 DEF Sound
<1>4. ASSUME NEW i \in 1 .. n, NEW x \in J[i - 1] PROVE CloseStep(<<>>, x, q[i]) \in J[i]
    <2> DEFINE y == Closed(x, q[i])
    <2>1. i - 1 \in 0 .. n /\ i \in 0 .. n
        BY <1>1
    <2>2. Sound(x) /\ Shut(s, x, Done(i - 1)) /\ (Honest(s) => Honest(x))
        BY <2>1
    <2>3. Done(i) = Done(i - 1) \cup {q[i]}
        <3>1. \A b \in 1 .. i : b \in 1 .. i - 1 \/ b = i
            BY <1>1
        <3>2. i \in 1 .. i /\ \A b \in 1 .. i - 1 : b \in 1 .. i
            BY <1>1
        <3>3. QED
            BY <3>1, <3>2
    <2>4. q[i] \in Session /\ q[i] \in Ids(s)
        BY <1>1 DEF Lists
    <2>5. q[i] \notin Done(i - 1)
        <3>1. \A b \in 1 .. i - 1 : b \in 1 .. n /\ b # i
            BY <1>1
        <3>2. QED
            BY <3>1 DEF Lists
    <2> HIDE DEF Done, n, J
    <2>6. IsOpen(x, q[i])
        BY <2>2, <2>4, <2>5 DEF Shut, Ids, IsOpen
    <2>7. Sound(y) /\ Shut(x, y, {q[i]}) /\ (Honest(x) => Honest(y))
        BY <2>2, <2>4, <2>6, ClosedFacts
    <2>8. Shut(s, y, Done(i))
        BY <2>2, <2>3, <2>7, ShutMore
    <2>9. y \in J[i]
        BY <2>1, <2>2, <2>7, <2>8 DEF J, Sound
    <2>10. QED
        BY <2>9 DEF CloseStep
<1> HIDE DEF J
<1>5. CC!Fold(<<>>, s, q) \in J[n]
    BY <1>1, <1>3, <1>4, CC!FoldChain
<1>6. Sound(t) /\ Shut(s, t, Done(n)) /\ (Honest(s) => Honest(t))
    BY <1>1, <1>2, <1>5 DEF J
<1>7. Done(n) = ks
    BY DEF Lists
<1>8. QED
    BY <1>6, <1>7

\* delete_all_sessions_of_type leaves none of the type.
LEMMA ClosedAllFacts ==
    ASSUME NEW s, Sound(s), NEW type, NEW t, t = ClosedAll(s, type)
    PROVE  Sound(t) /\ Shut(s, t, {k \in Ids(s) : k.type = type}) /\ (Honest(s) => Honest(t))
<1> DEFINE ks == {k \in Ids(s) : k.type = type}
           q == Enumerated(s, type)
<1>1. Lists(q, Ids(s) \cap ks)
    BY InOrderFacts DEF Enumerated
<1>2. Ids(s) \cap ks = ks /\ ks \subseteq Ids(s)
    OBVIOUS
<1>3. Lists(q, ks)
    BY <1>1, <1>2
<1>4. t = FoldLeft(Closed, s, q)
    BY DEF ClosedAll
<1> HIDE DEF ks, q
<1>5. Sound(t) /\ Shut(s, t, ks) /\ (Honest(s) => Honest(t))
    BY <1>2, <1>3, <1>4, ClosedEach
<1>6. QED
    BY <1>5 DEF ks

\* The new pages are those of channels.
Wider(s, t) ==
    /\ Indices(s) \subseteq Indices(t) /\ Ids(s) \subseteq Ids(t) /\ t.up = s.up
    /\ \A i \in Indices(s) : /\ t.list[i].id = s.list[i].id
                             /\ t.list[i].closeable = s.list[i].closeable
                             /\ t.list[i].user = s.list[i].user
                             /\ t.list[i].label = s.list[i].label
    /\ \A i \in Indices(t) \ Indices(s) : /\ t.list[i].id.type = "CHANNEL"
                                          /\ t.list[i].user = NoUser
                                          /\ t.list[i].label = t.list[i].id.name

\* More and more channels
LEMMA WiderTwice ==
    ASSUME NEW s, NEW t, NEW x, Wider(s, t), Wider(t, x)
    PROVE  Wider(s, x)
<1>1. Indices(s) \subseteq Indices(t) /\ Indices(t) \subseteq Indices(x)
    BY DEF Wider
<1>2. \A i \in Indices(x) \ Indices(s) : i \in Indices(t) \ Indices(s) \/ i \in Indices(x) \ Indices(t)
    OBVIOUS
<1>3. ASSUME NEW i \in Indices(x) \ Indices(s)
      PROVE  /\ x.list[i].id.type = "CHANNEL" /\ x.list[i].user = NoUser
             /\ x.list[i].label = x.list[i].id.name
    BY <1>2 DEF Wider
<1>4. \A i \in Indices(s) : /\ x.list[i].id = s.list[i].id
                            /\ x.list[i].closeable = s.list[i].closeable
                            /\ x.list[i].user = s.list[i].user
                            /\ x.list[i].label = s.list[i].label
    BY <1>1 DEF Wider
<1>5. QED
    BY <1>1, <1>3, <1>4 DEF Wider

\* Whatever is written and shown
LEMMA LitWider == ASSUME NEW s, NEW t, Lit(s, t) PROVE Wider(s, t)
<1>1. Ids(t) = Ids(s)
    BY KeptOpen DEF Lit
<1>2. QED
    BY <1>1 DEF Lit, Kept, Wider

\* A channel is opened, unless it is.
LEMMA ChannelOpened ==
    ASSUME NEW s, Sound(s), NEW ch \in Channels, NEW c \in BOOLEAN, NEW imp,
           NEW t, t = Opened(s, Channel(ch), NoUser, c, imp)
    PROVE  /\ Sound(t) /\ Wider(s, t) /\ IsOpen(t, Channel(ch))
           /\ Honest(s) => Honest(t)
<1> DEFINE k == Channel(ch)
<1>1. k \in Session /\ k.type = "CHANNEL"
    BY DEF Session, Channel
<1> HIDE DEF k
<1>2. t = Opened(s, k, NoUser, c, imp) /\ NoUser \in Blocks \cup {NoUser}
    BY DEF k
<1>3. Sound(t) /\ Grown(s, t, k, NoUser, c) /\ t.up = s.up /\ (Honest(s) => Honest(t))
    BY <1>1, <1>2, OpenedFacts
<1>4. Wider(s, t) /\ IsOpen(t, k)
    BY <1>1, <1>3 DEF Grown, Wider, Ids, IsOpen
<1>5. QED
    BY <1>3, <1>4 DEF k

\* A session is open that has a page.
LEMMA OpenIds == ASSUME NEW s, NEW k PROVE IsOpen(s, k) <=> k \in Ids(s)
BY DEF IsOpen, Ids

\* One step of opening the channels to be in
OpenStep(imp, t, k) == Opened(t, k, NoUser, TRUE, imp)

OO == INSTANCE FoldFacts WITH Op <- OpenStep

\* connected_to_network opens channels, and none but channels.
LEMMA MainOpenedFacts ==
    ASSUME NEW s, Sound(s), NEW imp, NEW t, t = MainOpened(s, imp)
    PROVE  Sound(t) /\ Wider(s, t) /\ (Honest(s) => Honest(t))
<1> DEFINE k == Channel(Main)
           m == Opened(s, k, NoUser, FALSE, imp)
           q == [i \in DOMAIN Persistent |-> Channel(Persistent[i])]
           J == {x \in State : /\ Sound(x) /\ Wider(s, x) /\ IsOpen(x, k)
                               /\ Honest(s) => Honest(x)}
           x == OO!Fold(imp, m, q)
<1>1. t = SwitchTo(x, k)
    BY DEF MainOpened, OO!Fold, OpenStep, FoldLeft, OO!FoldLeft, MapThenFoldSet, OO!MapThenFoldSet, Max, OO!Max
<1>2. q \in Seq(Session) /\ \A i \in 1 .. Len(q) : q[i] = Channel(Persistent[i]) /\ Persistent[i] \in Channels
    <2>1. DOMAIN Persistent = 1 .. Len(Persistent) /\ Len(Persistent) \in Nat
        BY PersistentAssumption
    <2>2. \A i \in DOMAIN Persistent : Persistent[i] \in Channels /\ Channel(Persistent[i]) \in Session
        BY DEF Channels, Session
    <2>3. q \in [1 .. Len(Persistent) -> Session]
        BY <2>1, <2>2
    <2>4. q \in Seq(Session) /\ Len(q) = Len(Persistent)
        BY <2>1, <2>3
    <2>5. QED
        BY <2>1, <2>2, <2>4
<1> HIDE DEF q
<1>3. m \in J
    <2>0. PICK c \in BOOLEAN : c = FALSE
        OBVIOUS
    <2>1. Main \in Channels /\ m = Opened(s, Channel(Main), NoUser, c, imp)
        BY <2>0 DEF Channels
    <2> HIDE DEF m
    <2>2. Sound(m) /\ Wider(s, m) /\ IsOpen(m, Channel(Main)) /\ (Honest(s) => Honest(m))
        BY <2>1, ChannelOpened
    <2>3. QED
        BY <2>2 DEF Sound
<1>4. ASSUME NEW i \in 1 .. Len(q), NEW y \in J PROVE OpenStep(imp, y, q[i]) \in J
    <2> DEFINE z == OpenStep(imp, y, q[i])
    <2>0. PICK c \in BOOLEAN : c = TRUE
        OBVIOUS
    <2>1. z = Opened(y, Channel(Persistent[i]), NoUser, c, imp) /\ Persistent[i] \in Channels
        BY <2>0, <1>2 DEF OpenStep
    <2> HIDE DEF z
    <2>2. Sound(y) /\ Wider(s, y) /\ IsOpen(y, k) /\ (Honest(s) => Honest(y))
        OBVIOUS
    <2>3. Sound(z) /\ Wider(y, z) /\ (Honest(y) => Honest(z))
        BY <2>1, <2>2, ChannelOpened
    <2>4. IsOpen(z, k)
        BY <2>2, <2>3, OpenIds DEF Wider
    <2>5. Wider(s, z)
        BY <2>2, <2>3, WiderTwice
    <2>6. z \in J
        BY <2>2, <2>3, <2>4, <2>5 DEF Sound
    <2>7. QED
        BY <2>6 DEF z
<1> HIDE DEF J, m
<1>5. x \in J
    BY <1>2, <1>3, <1>4, OO!FoldInvariant
<1> HIDE DEF x
<1>6. Sound(x) /\ Wider(s, x) /\ IsOpen(x, k) /\ (Honest(s) => Honest(x))
    BY <1>5 DEF J
<1>7. k \in Session
    BY DEF Session, Channels
<1> HIDE DEF k
<1>8. Sound(t) /\ Lit(x, t)
    BY <1>1, <1>6, <1>7, SwitchToFacts
<1>9. Wider(s, t)
    BY <1>6, <1>8, LitWider, WiderTwice
<1>10. Honest(s) => Honest(t)
    BY <1>6, <1>8, KeptHonest DEF Lit
<1>11. QED
    BY <1>8, <1>9, <1>10

\* The status page is there, and the user cannot close it.
HasStatus(s) ==
    IsOpen(s, Status) /\ \A i \in Indices(s) : s.list[i].id = Status => ~s.list[i].closeable

\* Nothing that keeps what is open closes it, ...
LEMMA KeptStatus == ASSUME NEW s, NEW t, Kept(s, t), HasStatus(s) PROVE HasStatus(t)
BY KeptOpen DEF HasStatus, Kept

\* ... nor more channels, ...
LEMMA WiderStatus == ASSUME NEW s, NEW t, Wider(s, t), HasStatus(s) PROVE HasStatus(t)
<1>1. IsOpen(t, Status)
    BY OpenIds DEF Wider, HasStatus
<1>2. ASSUME NEW i \in Indices(t), t.list[i].id = Status PROVE ~t.list[i].closeable
    <2>1. i \in Indices(s)
        BY <1>2 DEF Wider, Status
    <2>2. QED
        BY <2>1, <1>2 DEF Wider, HasStatus
<1>3. QED
    BY <1>1, <1>2 DEF HasStatus

\* ... nor another session that is opened, ...
LEMMA GrownStatus ==
    ASSUME NEW s, NEW t, NEW k, NEW u, NEW c, Grown(s, t, k, u, c), HasStatus(s)
    PROVE  HasStatus(t)
<1>1. IsOpen(t, Status)
    BY OpenIds DEF Grown, HasStatus
<1>2. ASSUME NEW i \in Indices(t), t.list[i].id = Status PROVE ~t.list[i].closeable
    <2>1. i \in Indices(s)
        BY <1>2 DEF Grown, HasStatus
    <2>2. QED
        BY <2>1, <1>2 DEF Grown, HasStatus
<1>3. QED
    BY <1>1, <1>2 DEF HasStatus

\* ... nor the end of others.
LEMMA ShutStatus ==
    ASSUME NEW s, NEW t, NEW ks, Shut(s, t, ks), Status \notin ks, HasStatus(s)
    PROVE  HasStatus(t)
<1>1. IsOpen(t, Status)
    BY OpenIds DEF Shut, HasStatus
<1>2. ASSUME NEW i \in Indices(t), t.list[i].id = Status PROVE ~t.list[i].closeable
    BY <1>2 DEF Shut, Shrunk, HasStatus
<1>3. QED
    BY <1>1, <1>2 DEF HasStatus

\* net_connect, whether it gets through or not
LEMMA ConnectedFacts ==
    ASSUME NEW s, Sound(s), HasStatus(s), NEW ok \in BOOLEAN, NEW imp, ~s.up, Honest(s),
           NEW t, t = Connected(s, ok, imp)
    PROVE  Sound(t) /\ HasStatus(t) /\ Honest(t) /\ Wider([s EXCEPT !.up = ok], t)
<1> DEFINE x == [s EXCEPT !.up = ok]
           y == Written(x, Status, imp)
<1>1. t = IF ok THEN MainOpened(y, imp) ELSE y
    BY DEF Connected
<1>2. x \in State /\ x.list = s.list /\ x.shown = s.shown /\ x.told = s.told /\ x.up = ok
    BY DEF Sound, State
<1> HIDE DEF x, y
<1>3. Sound(x) /\ HasStatus(x) /\ Honest(x)
    BY <1>2 DEF Sound, HasStatus, Honest, Indices, IsOpen, Ids
<1>4. Status \in Session /\ IsOpen(x, Status)
    BY <1>3 DEF Session, HasStatus
<1>5. Sound(y) /\ Lit(x, y)
    BY <1>3, <1>4, WrittenFacts DEF y
<1>6. Honest(y) /\ HasStatus(y) /\ Wider(x, y)
    BY <1>3, <1>5, KeptHonest, KeptStatus, LitWider DEF Lit
<1>7. CASE ok
    <2>1. Sound(t) /\ Wider(y, t) /\ Honest(t)
        BY <1>1, <1>5, <1>6, <1>7, MainOpenedFacts
    <2>2. QED
        BY <2>1, <1>6, WiderStatus, WiderTwice DEF x
<1>8. CASE ~ok
    BY <1>1, <1>5, <1>6, <1>8 DEF x
<1>9. QED
    BY <1>7, <1>8

-----------------------------------------------------------------------------
(***************************************************************************)
(* What the pages hear of the list of users                                *)
(***************************************************************************)

\* No nickname is that of a channel, nor of the status page: a page is found by what
\* its label says, and the labels of all three look alike.
NamesApart == \A n \in Nicks : n \notin Channels /\ n # Status.name

\* The pages of those who know v: they belong to users who are known, under their names.
Follows(s, v) ==
    /\ \A i \in Indices(s) : \/ s.list[i].user = NoUser
                             \/ /\ s.list[i].user \in DOMAIN v
                                /\ s.list[i].label = v[s.list[i].user].name
    /\ \A i, j \in Indices(s) : s.list[i].user = s.list[j].user /\ s.list[i].user # NoUser => i = j
    /\ \A i \in Indices(s) : s.list[i].id.type # "PRIVATE" =>
                                 s.list[i].user = NoUser /\ s.list[i].label = s.list[i].id.name

\* Words do not change whose pages there are.
LEMMA LitFollows ==
    ASSUME NEW s, NEW t, NEW v, Lit(s, t), Follows(s, v)
    PROVE  Follows(t, v)
BY DEF Lit, Kept, Follows

\* Nor do channels.
LEMMA WiderFollows ==
    ASSUME NEW s, NEW t, NEW v, Wider(s, t), Follows(s, v)
    PROVE  Follows(t, v)
<1>1. \A i \in Indices(t) : i \in Indices(s) \/ i \in Indices(t) \ Indices(s)
    OBVIOUS
<1>2. \A i \in Indices(t) \ Indices(s) : t.list[i].user = NoUser /\ t.list[i].label = t.list[i].id.name
    BY DEF Wider
<1>3. \A i \in Indices(s) : /\ t.list[i].id = s.list[i].id /\ t.list[i].user = s.list[i].user
                            /\ t.list[i].label = s.list[i].label
    BY DEF Wider
<1>4. ASSUME NEW i \in Indices(t), NEW j \in Indices(t), t.list[i].user = t.list[j].user, t.list[i].user # NoUser
      PROVE  i = j
    <2>1. i \in Indices(s) /\ j \in Indices(s)
        BY <1>1, <1>2, <1>4
    <2>2. QED
        BY <2>1, <1>3, <1>4 DEF Follows
<1>5. ASSUME NEW i \in Indices(t)
      PROVE  t.list[i].user = NoUser \/ (t.list[i].user \in DOMAIN v /\ t.list[i].label = v[t.list[i].user].name)
    BY <1>1, <1>2, <1>3 DEF Follows
<1>6. ASSUME NEW i \in Indices(t), t.list[i].id.type # "PRIVATE"
      PROVE  t.list[i].user = NoUser /\ t.list[i].label = t.list[i].id.name
    BY <1>1, <1>2, <1>3, <1>6 DEF Follows
<1>7. QED
    BY <1>4, <1>5, <1>6 DEF Follows

\* Nor does the end of some.
LEMMA ShutFollows ==
    ASSUME NEW s, NEW t, NEW v, NEW ks, Shut(s, t, ks), Sound(s), Sound(t), Follows(s, v)
    PROVE  Follows(t, v)
<1> DEFINE Same(i, j) == /\ t.list[i].id = s.list[j].id /\ t.list[i].user = s.list[j].user
                         /\ t.list[i].label = s.list[j].label
<1>1. \A i \in Indices(t) : \E j \in Indices(s) : Same(i, j)
    BY DEF Shut, Shrunk
<1>2. ASSUME NEW i \in Indices(t), NEW j \in Indices(t), t.list[i].user = t.list[j].user, t.list[i].user # NoUser
      PROVE  i = j
    <2>1. PICK a \in Indices(s) : Same(i, a)
        BY <1>1
    <2>2. PICK b \in Indices(s) : Same(j, b)
        BY <1>1
    <2>3. s.list[a].user = s.list[b].user /\ s.list[a].user # NoUser
        BY <2>1, <2>2, <1>2
    <2>4. a = b
        BY <2>3 DEF Follows
    <2>5. t.list[i].id = t.list[j].id
        BY <2>1, <2>2, <2>4
    <2>6. QED
        BY <2>5 DEF Sound
<1>3. ASSUME NEW i \in Indices(t)
      PROVE  t.list[i].user = NoUser \/ (t.list[i].user \in DOMAIN v /\ t.list[i].label = v[t.list[i].user].name)
    <2>1. PICK a \in Indices(s) : Same(i, a)
        BY <1>1
    <2>2. QED
        BY <2>1 DEF Follows
<1>4. ASSUME NEW i \in Indices(t), t.list[i].id.type # "PRIVATE"
      PROVE  t.list[i].user = NoUser /\ t.list[i].label = t.list[i].id.name
    <2>1. PICK a \in Indices(s) : Same(i, a)
        BY <1>1
    <2>2. QED
        BY <2>1, <1>4 DEF Follows
<1>5. QED
    BY <1>2, <1>3, <1>4 DEF Follows

\* The first of some pages
LEMMA FirstOf ==
    ASSUME NEW s, Sound(s), NEW is, is \subseteq Indices(s), is # {}
    PROVE  First(is) \in is
<1>1. is \in SUBSET Nat
    <2>1. s.list \in Seq(Page)
        BY DEF Sound, State
    <2>2. Indices(s) \subseteq Nat
        BY <2>1 DEF Indices
    <2>3. QED
        BY <2>2
<1>2. \E i \in is : \A j \in is : i <= j
    BY <1>1, PP!Least
<1>3. QED
    BY <1>2 DEF First

\* The i-th page is p now, and of the same session.
Replaced(s, t, i, p) ==
    /\ Sound(t) /\ Kept(s, t)
    /\ \A j \in Indices(s) : t.list[j] = IF j = i THEN p ELSE s.list[j]

\* The list with another page in one place is a list of pages of the same sessions.
LEMMA PageGiven ==
    ASSUME NEW s, Sound(s), NEW i \in Indices(s), NEW p \in Page, p.id = s.list[i].id,
           p.hilited = s.list[i].hilited, p.flick = s.list[i].flick, p.closeable = s.list[i].closeable,
           NEW t, t = [s EXCEPT !.list = [s.list EXCEPT ![i] = p]]
    PROVE  Replaced(s, t, i, p)
<1>1. s \in State /\ s.list \in Seq(Page) /\ i \in DOMAIN s.list
    BY DEF Sound, State, Indices
<1>2. /\ [s.list EXCEPT ![i] = p] \in Seq(Page)
      /\ DOMAIN [s.list EXCEPT ![i] = p] = DOMAIN s.list
      /\ \A j \in DOMAIN s.list : [s.list EXCEPT ![i] = p][j] = IF j = i THEN p ELSE s.list[j]
    BY <1>1, PageSet
<1>3. /\ t.list = [s.list EXCEPT ![i] = p] /\ t.shown = s.shown /\ t.up = s.up /\ t.told = s.told
      /\ t \in State
    BY <1>1, <1>2 DEF State
<1>4. Indices(t) = Indices(s) /\ \A j \in Indices(s) : t.list[j] = IF j = i THEN p ELSE s.list[j]
    BY <1>2, <1>3 DEF Indices
<1>5. \A j \in Indices(s) : /\ t.list[j].id = s.list[j].id /\ t.list[j].closeable = s.list[j].closeable
                            /\ t.list[j].hilited = s.list[j].hilited /\ t.list[j].flick = s.list[j].flick
    BY <1>4
<1>6. Kept(s, t)
    BY <1>3, <1>4, <1>5 DEF Kept
<1>7. Sound(t)
    BY <1>3, <1>4, <1>5 DEF Sound
<1>8. QED
    BY <1>4, <1>6, <1>7 DEF Replaced

\* The page i has the user u and the label n now; nothing else has changed.
Given(s, t, i, u, n) ==
    /\ Kept(s, t)
    /\ \A j \in Indices(s) : /\ j = i => t.list[j].user = u /\ t.list[j].label = n
                             /\ j # i => /\ t.list[j].user = s.list[j].user
                                         /\ t.list[j].label = s.list[j].label

\* page_update_for_user
LEMMA RelabelledFacts ==
    ASSUME NEW s, Sound(s), NEW u, NEW n \in Nicks, NEW t, t = Relabelled(s, u, n)
    PROVE  /\ Sound(t)
           /\ PagesOf(s, u) = {} => t = s
           /\ PagesOf(s, u) # {} => \E i \in PagesOf(s, u) : Given(s, t, i, u, n)
<1>1. CASE PagesOf(s, u) = {}
    BY <1>1 DEF Relabelled
<1>2. CASE PagesOf(s, u) # {}
    <2> DEFINE i == First(PagesOf(s, u))
               p == [s.list[i] EXCEPT !.label = n]
    <2>1. i \in PagesOf(s, u)
        BY <1>2, FirstOf DEF PagesOf
    <2>2. i \in Indices(s) /\ s.list[i].user = u /\ s.list \in Seq(Page) /\ s.list[i] \in Page
        BY <2>1 DEF PagesOf, Sound, State, Indices
    <2>3. t = [s EXCEPT !.list = [s.list EXCEPT ![i] = p]]
        BY <1>2 DEF Relabelled
    <2>4. n \in {k.name : k \in Session}
        <3>1. Private(n) \in Session /\ Private(n).name = n
            BY DEF Session, Private
        <3>2. QED
            BY <3>1
    <2>5. /\ p \in Page /\ p.id = s.list[i].id /\ p.hilited = s.list[i].hilited /\ p.flick = s.list[i].flick
          /\ p.closeable = s.list[i].closeable /\ p.user = u /\ p.label = n
        BY <2>2, <2>4 DEF Page
    <2> HIDE DEF i, p
    <2>6. /\ Sound(t) /\ Kept(s, t)
          /\ \A j \in Indices(s) : t.list[j] = IF j = i THEN p ELSE s.list[j]
        <3>1. Replaced(s, t, i, p)
            BY <2>2, <2>3, <2>5, PageGiven
        <3>2. QED
            BY <3>1 DEF Replaced
    <2>7. Given(s, t, i, u, n)
        BY <2>5, <2>6 DEF Given
    <2>8. QED
        BY <2>1, <2>6, <2>7, <1>2
<1>3. QED
    BY <1>1, <1>2

\* page_user_removed
LEMMA DesertedFacts ==
    ASSUME NEW s, Sound(s), NEW u, NEW t, t = Deserted(s, u)
    PROVE  /\ Sound(t)
           /\ PagesOf(s, u) = {} => t = s
           /\ PagesOf(s, u) # {} => \E i \in PagesOf(s, u) : Given(s, t, i, NoUser, s.list[i].label)
<1>1. CASE PagesOf(s, u) = {}
    BY <1>1 DEF Deserted
<1>2. CASE PagesOf(s, u) # {}
    <2> DEFINE i == First(PagesOf(s, u))
               p == [s.list[i] EXCEPT !.user = NoUser]
    <2>1. i \in PagesOf(s, u)
        BY <1>2, FirstOf DEF PagesOf
    <2>2. i \in Indices(s) /\ s.list \in Seq(Page) /\ s.list[i] \in Page
        BY <2>1 DEF PagesOf, Sound, State, Indices
    <2>3. t = [s EXCEPT !.list = [s.list EXCEPT ![i] = p]]
        BY <1>2 DEF Deserted
    <2>4. /\ p \in Page /\ p.id = s.list[i].id /\ p.hilited = s.list[i].hilited /\ p.flick = s.list[i].flick
          /\ p.closeable = s.list[i].closeable /\ p.user = NoUser /\ p.label = s.list[i].label
        BY <2>2 DEF Page
    <2> HIDE DEF i, p
    <2>5. /\ Sound(t) /\ Kept(s, t)
          /\ \A j \in Indices(s) : t.list[j] = IF j = i THEN p ELSE s.list[j]
        <3>1. Replaced(s, t, i, p)
            BY <2>2, <2>3, <2>4, PageGiven
        <3>2. QED
            BY <3>1 DEF Replaced
    <2>6. Given(s, t, i, NoUser, s.list[i].label)
        BY <2>4, <2>5 DEF Given
    <2>7. QED
        BY <2>1, <2>5, <2>6, <1>2
<1>3. QED
    BY <1>1, <1>2

\* page_set_user_for_dead_name
LEMMA RevivedFacts ==
    ASSUME NEW s, Sound(s), NEW u \in Blocks, NEW n \in Nicks, NEW t, t = Revived(s, u, n)
    PROVE  /\ Sound(t) /\ Kept(s, t)
           /\ PagesOf(s, u) = {} =>
                \/ t = s
                \/ \E i \in PagesOf(s, NoUser) : s.list[i].label = n /\ Given(s, t, i, u, n)
<1> DEFINE dead == {i \in PagesOf(s, NoUser) : s.list[i].label = n}
<1>1. CASE dead = {}
    <2>1. t = s
        BY <1>1 DEF Revived
    <2>2. QED
        BY <2>1, LitSame DEF Lit
<1>2. CASE dead # {}
    <2> DEFINE i == First(dead)
               p == [s.list[i] EXCEPT !.user = u]
               x == [s EXCEPT !.list = [s.list EXCEPT ![i] = p]]
    <2>1. i \in dead
        BY <1>2, FirstOf DEF PagesOf
    <2>2. i \in PagesOf(s, NoUser) /\ s.list[i].label = n
        BY <2>1
    <2>3. i \in Indices(s) /\ s.list \in Seq(Page) /\ s.list[i] \in Page
        BY <2>2 DEF PagesOf, Sound, State, Indices
    <2>4. t = Relabelled(x, u, n)
        BY <1>2 DEF Revived
    <2>5. /\ p \in Page /\ p.id = s.list[i].id /\ p.hilited = s.list[i].hilited /\ p.flick = s.list[i].flick
          /\ p.closeable = s.list[i].closeable /\ p.user = u /\ p.label = n
        BY <2>2, <2>3 DEF Page
    <2> HIDE DEF i, p, dead
    <2>6. x = [s EXCEPT !.list = [s.list EXCEPT ![i] = p]]
        OBVIOUS
    <2> HIDE DEF x
    <2>7. /\ Sound(x) /\ Kept(s, x)
          /\ \A j \in Indices(s) : x.list[j] = IF j = i THEN p ELSE s.list[j]
        <3>1. Replaced(s, x, i, p)
            BY <2>3, <2>5, <2>6, PageGiven
        <3>2. QED
            BY <3>1 DEF Replaced
    <2>8. i \in PagesOf(x, u)
        BY <2>3, <2>5, <2>7 DEF PagesOf, Kept
    <2>9. Sound(t) /\ \E m \in PagesOf(x, u) : Given(x, t, m, u, n)
        BY <2>4, <2>7, <2>8, RelabelledFacts
    <2>10. PICK m \in PagesOf(x, u) : Given(x, t, m, u, n)
        BY <2>9
    <2>11. Kept(s, t)
        BY <2>7, <2>10, KeptTwice DEF Given
    <2>12. ASSUME PagesOf(s, u) = {} PROVE Given(s, t, i, u, n)
        <3>1. m = i
            BY <2>7, <2>10, <2>12 DEF PagesOf, Kept
        <3>2. \A j \in Indices(s) : j # i => /\ x.list[j].user = s.list[j].user
                                             /\ x.list[j].label = s.list[j].label
            BY <2>7
        <3>3. Indices(x) = Indices(s)
            BY <2>7 DEF Kept
        <3>4. QED
            BY <3>1, <3>2, <3>3, <2>10, <2>11 DEF Given
    <2>13. QED
        BY <2>2, <2>9, <2>11, <2>12
<1>3. QED
    BY <1>1, <1>2

\* What is told of a user's mode, or of his new name, is words in sessions there are.
LEMMA ToldToSessions ==
    ASSUME NEW s, Sound(s), NEW u, NEW imp
    PROVE  /\ Sound(ModeTold(s, u, imp)) /\ Lit(s, ModeTold(s, u, imp))
           /\ Sound(RenameTold(s, imp)) /\ Lit(s, RenameTold(s, imp))
<1>1. ASSUME NEW ks, NEW t, t = WrittenToAll(s, InOrder(s, ks), imp)
      PROVE  Sound(t) /\ Lit(s, t)
    <2> DEFINE q == InOrder(s, ks)
    <2>1. Lists(q, Ids(s) \cap ks)
        BY InOrderFacts
    <2>2. t = WrittenToAll(s, q, imp)
        BY <1>1
    <2> HIDE DEF q
    <2>3. q \in Seq(Session) /\ \A i \in 1 .. Len(q) : IsOpen(s, q[i])
        BY <2>1, OpenIds DEF Lists
    <2>4. QED
        BY <2>2, <2>3, WrittenToAllFacts
<1>2. \E ks : ModeTold(s, u, imp) = WrittenToAll(s, InOrder(s, ks), imp)
    BY DEF ModeTold
<1>3. \E ks : RenameTold(s, imp) = WrittenToAll(s, InOrder(s, ks), imp)
    BY DEF RenameTold, Enumerated
<1>4. QED
    BY <1>1, <1>2, <1>3

\* Whatever happens to a user, what is open stays so.
LEMMA EventKeeps ==
    ASSUME NEW s, Sound(s), NEW e \in Event, NEW imp, NEW t, t = OnUserEvent(s, e, imp)
    PROVE  Sound(t) /\ Kept(s, t)
<1> DEFINE x == Relabelled(s, e.uid, e.name)
<1>1. e.name \in Nicks /\ e.uid \in Blocks /\ e.ev \in {"NEW", "MODE", "RENAME", "REMOVED"}
    BY DEF Event
<1>2. Sound(x) /\ Kept(s, x)
    <2>1. Sound(x) /\ (x = s \/ \E i : Given(s, x, i, e.uid, e.name))
        BY <1>1, RelabelledFacts
    <2>2. QED
        BY <2>1, LitSame DEF Given, Lit
<1> HIDE DEF x
<1>3. CASE e.ev = "NEW"
    <2>1. t = Revived(s, e.uid, e.name)
        BY <1>3 DEF OnUserEvent
    <2>2. QED
        BY <1>1, <2>1, RevivedFacts
<1>4. CASE e.ev = "REMOVED"
    <2>1. t = Deserted(s, e.uid)
        BY <1>4 DEF OnUserEvent
    <2>2. Sound(t) /\ (t = s \/ \E i : Given(s, t, i, NoUser, s.list[i].label))
        BY <2>1, DesertedFacts
    <2>3. QED
        BY <2>2, LitSame DEF Given, Lit
<1>5. CASE e.ev = "RENAME"
    <2>1. t = RenameTold(x, imp)
        BY <1>5 DEF OnUserEvent, x
    <2>2. Sound(t) /\ Lit(x, t)
        BY <1>2, <2>1, ToldToSessions
    <2>3. QED
        BY <1>2, <2>2, KeptTwice DEF Lit
<1>6. CASE e.ev = "MODE"
    <2>1. t = x \/ t = ModeTold(x, e.uid, imp)
        BY <1>6 DEF OnUserEvent, x
    <2>2. Sound(t) /\ Lit(x, t)
        BY <1>2, <2>1, ToldToSessions, LitSame
    <2>3. QED
        BY <1>2, <2>2, KeptTwice DEF Lit
<1>7. QED
    BY <1>1, <1>3, <1>4, <1>5, <1>6

\* A page given to a user nobody had a page of
LEMMA GivenAnew ==
    ASSUME NEW s, NEW t, NEW v, NEW w, NEW i \in PagesOf(s, NoUser), NEW u, NEW n, Given(s, t, i, u, n),
           Follows(s, v), u \notin DOMAIN v, u # NoUser, s.list[i].id.type = "PRIVATE",
           u \in DOMAIN w, w[u].name = n, \A a \in DOMAIN v : a \in DOMAIN w /\ w[a].name = v[a].name
    PROVE  Follows(t, w)
<1>1. Indices(t) = Indices(s) /\ \A j \in Indices(s) : t.list[j].id = s.list[j].id
    BY DEF Given, Kept
<1>2. \A j \in Indices(s) : s.list[j].user # u
    BY DEF Follows
<1>3. \A j \in Indices(s) : /\ j = i => t.list[j].user = u /\ t.list[j].label = n
                            /\ j # i => /\ t.list[j].user = s.list[j].user
                                        /\ t.list[j].label = s.list[j].label
    BY DEF Given
<1>4. ASSUME NEW j \in Indices(t), NEW m \in Indices(t), t.list[j].user = t.list[m].user, t.list[j].user # NoUser
      PROVE  j = m
    BY <1>1, <1>2, <1>3, <1>4 DEF Follows
<1>5. ASSUME NEW j \in Indices(t)
      PROVE  t.list[j].user = NoUser \/ (t.list[j].user \in DOMAIN w /\ t.list[j].label = w[t.list[j].user].name)
    BY <1>1, <1>3 DEF Follows
<1>6. ASSUME NEW j \in Indices(t), t.list[j].id.type # "PRIVATE"
      PROVE  t.list[j].user = NoUser /\ t.list[j].label = t.list[j].id.name
    BY <1>1, <1>3, <1>6 DEF Follows
<1>7. QED
    BY <1>4, <1>5, <1>6 DEF Follows

\* The label of a user's page when he is called something, or nobody has a page of his
LEMMA GivenAgain ==
    ASSUME NEW s, NEW t, NEW v, NEW w, NEW u, NEW n, u # NoUser, Follows(s, v),
           (PagesOf(s, u) = {} /\ t = s) \/ \E i \in PagesOf(s, u) : Given(s, t, i, u, n),
           u \in DOMAIN w, w[u].name = n, \A a \in DOMAIN v \ {u} : a \in DOMAIN w /\ w[a].name = v[a].name
    PROVE  Follows(t, w)
<1>1. CASE PagesOf(s, u) = {} /\ t = s
    <2>1. \A j \in Indices(s) : s.list[j].user # u
        BY <1>1 DEF PagesOf
    <2>2. QED
        BY <1>1, <2>1 DEF Follows
<1>2. ASSUME NEW i \in PagesOf(s, u), Given(s, t, i, u, n)
      PROVE  Follows(t, w)
    <2>1. Indices(t) = Indices(s) /\ \A j \in Indices(s) : t.list[j].id = s.list[j].id
        BY <1>2 DEF Given, Kept
    <2>2. i \in Indices(s) /\ s.list[i].user = u
        BY DEF PagesOf
    <2>3. \A j \in Indices(s) : j # i => s.list[j].user # u
        BY <2>2 DEF Follows
    <2>4. \A j \in Indices(s) : t.list[j].user = s.list[j].user
        BY <1>2, <2>2 DEF Given
    <2>5. \A j \in Indices(s) : /\ j = i => t.list[j].label = n
                                /\ j # i => t.list[j].label = s.list[j].label
        BY <1>2 DEF Given
    <2>6. s.list[i].id.type = "PRIVATE"
        BY <2>2 DEF Follows
    <2>7. ASSUME NEW j \in Indices(t)
          PROVE  t.list[j].user = NoUser \/ (t.list[j].user \in DOMAIN w /\ t.list[j].label = w[t.list[j].user].name)
        BY <2>1, <2>2, <2>3, <2>4, <2>5 DEF Follows
    <2>8. ASSUME NEW j \in Indices(t), t.list[j].id.type # "PRIVATE"
          PROVE  t.list[j].user = NoUser /\ t.list[j].label = t.list[j].id.name
        BY <2>1, <2>4, <2>5, <2>6, <2>8 DEF Follows
    <2>9. QED
        BY <2>1, <2>4, <2>7, <2>8 DEF Follows
<1>3. QED
    BY <1>1, <1>2

\* A user is forgotten, and with him whose page it was.
LEMMA GivenUp ==
    ASSUME NEW s, NEW t, NEW v, NEW w, NEW u, u # NoUser, Follows(s, v),
           (PagesOf(s, u) = {} /\ t = s) \/ \E i \in PagesOf(s, u) : Given(s, t, i, NoUser, s.list[i].label),
           \A a \in DOMAIN v \ {u} : a \in DOMAIN w /\ w[a].name = v[a].name
    PROVE  Follows(t, w)
<1>1. CASE PagesOf(s, u) = {} /\ t = s
    <2>1. \A j \in Indices(s) : s.list[j].user # u
        BY <1>1 DEF PagesOf
    <2>2. QED
        BY <1>1, <2>1 DEF Follows
<1>2. ASSUME NEW i \in PagesOf(s, u), Given(s, t, i, NoUser, s.list[i].label)
      PROVE  Follows(t, w)
    <2>1. Indices(t) = Indices(s) /\ \A j \in Indices(s) : t.list[j].id = s.list[j].id
        BY <1>2 DEF Given, Kept
    <2>2. i \in Indices(s) /\ s.list[i].user = u
        BY DEF PagesOf
    <2>3. \A j \in Indices(s) : j # i => s.list[j].user # u
        BY <2>2 DEF Follows
    <2>4. \A j \in Indices(s) : /\ j = i => t.list[j].user = NoUser
                                /\ j # i => t.list[j].user = s.list[j].user
        BY <1>2 DEF Given
    <2>5. \A j \in Indices(s) : t.list[j].label = s.list[j].label
        BY <1>2 DEF Given
    <2>6. ASSUME NEW j \in Indices(t)
          PROVE  t.list[j].user = NoUser \/ (t.list[j].user \in DOMAIN w /\ t.list[j].label = w[t.list[j].user].name)
        BY <2>1, <2>3, <2>4, <2>5 DEF Follows
    <2>7. ASSUME NEW j \in Indices(t), NEW m \in Indices(t), t.list[j].user = t.list[m].user, t.list[j].user # NoUser
          PROVE  j = m
        BY <2>1, <2>4, <2>7 DEF Follows
    <2>8. ASSUME NEW j \in Indices(t), t.list[j].id.type # "PRIVATE"
          PROVE  t.list[j].user = NoUser /\ t.list[j].label = t.list[j].id.name
        <3>1. s.list[j].user = NoUser /\ s.list[j].label = s.list[j].id.name
            BY <2>1, <2>8 DEF Follows
        <3>2. j # i
            BY <2>2, <3>1
        <3>3. QED
            BY <2>1, <2>4, <2>5, <2>8, <3>1, <3>2
    <2>9. QED
        BY <2>6, <2>7, <2>8 DEF Follows
<1>3. QED
    BY <1>1, <1>2

\* Who knew whose the pages were still does when a user is new.  The labels stay.
LEMMA NewFollows ==
    ASSUME NamesApart, NEW s, Sound(s), NEW v, Follows(s, v), NEW e, Legal(v, e), e.ev = "NEW",
           NEW t, t = Revived(s, e.uid, e.name)
    PROVE  /\ Follows(t, ViewAfter(v, e))
           /\ \A i \in Indices(s) : t.list[i].label = s.list[i].label
<1> DEFINE w == ViewAfter(v, e)
<1>1. e.uid \in Blocks /\ e.name \in Nicks /\ e.uid \notin DOMAIN v /\ e.uid # NoUser
    BY NoUserAssumption DEF Legal, Event
<1>2. /\ e.uid \in DOMAIN w /\ w[e.uid].name = e.name
      /\ \A a \in DOMAIN v : a \in DOMAIN w /\ w[a].name = v[a].name
    BY <1>1 DEF ViewAfter, Legal
<1> HIDE DEF w
<1>3. PagesOf(s, e.uid) = {}
    BY <1>1 DEF Follows, PagesOf
<1>4. t = s \/ \E i \in PagesOf(s, NoUser) : s.list[i].label = e.name /\ Given(s, t, i, e.uid, e.name)
    BY <1>1, <1>3, RevivedFacts
<1>5. CASE t = s
    <2>1. Follows(s, w)
        BY <1>2 DEF Follows
    <2>2. QED
        BY <1>5, <2>1 DEF w
<1>6. ASSUME NEW i \in PagesOf(s, NoUser), s.list[i].label = e.name, Given(s, t, i, e.uid, e.name)
      PROVE  /\ Follows(t, w)
             /\ \A j \in Indices(s) : t.list[j].label = s.list[j].label
    <2>1. i \in Indices(s) /\ s.list[i] \in Page
        BY DEF PagesOf, Sound, State, Indices
    <2>2. s.list[i].id \in Session
        BY <2>1 DEF Page
    <2>3. s.list[i].id.type = "PRIVATE"
        <3>1. ASSUME s.list[i].id.type # "PRIVATE" PROVE FALSE
            <4>1. s.list[i].id.name = e.name
                BY <2>1, <3>1, <1>6 DEF Follows
            <4>2. s.list[i].id = Status \/ \E c \in Channels : s.list[i].id = Channel(c)
                BY <2>2, <3>1 DEF Session, Private
            <4>3. e.name = Status.name \/ e.name \in Channels
                <5>1. \A c \in Channels : Channel(c).name = c
                    BY DEF Channel
                <5>2. QED
                    BY <4>1, <4>2, <5>1
            <4>4. QED
                BY <4>3, <1>1 DEF NamesApart
        <3>2. QED
            BY <3>1
    <2>4. Follows(t, w)
        BY <1>1, <1>2, <1>6, <2>3, GivenAnew
    <2>5. QED
        BY <2>4, <1>6 DEF Given
<1>7. QED
    BY <1>4, <1>5, <1>6 DEF w

\* Who knew whose the pages were still does after what has happened.
LEMMA EventFollows ==
    ASSUME NamesApart, NEW s, Sound(s), NEW v, Follows(s, v), NEW e, Legal(v, e), NEW imp,
           NEW t, t = OnUserEvent(s, e, imp)
    PROVE  Follows(t, ViewAfter(v, e))
<1> DEFINE x == Relabelled(s, e.uid, e.name)
           w == ViewAfter(v, e)
<1>1. e.name \in Nicks /\ e.uid \in Blocks /\ e.ev \in {"NEW", "MODE", "RENAME", "REMOVED"} /\ e.uid # NoUser
    BY NoUserAssumption DEF Legal, Event
<1>2. Sound(x) /\ ((PagesOf(s, e.uid) = {} /\ x = s) \/ \E i \in PagesOf(s, e.uid) : Given(s, x, i, e.uid, e.name))
    BY <1>1, RelabelledFacts
<1> HIDE DEF x
<1>3. CASE e.ev = "NEW"
    <2>1. t = Revived(s, e.uid, e.name)
        BY <1>3 DEF OnUserEvent
    <2>2. QED
        BY <2>1, <1>3, NewFollows
<1>4. CASE e.ev = "REMOVED"
    <2>1. t = Deserted(s, e.uid)
        BY <1>4 DEF OnUserEvent
    <2>2. (PagesOf(s, e.uid) = {} /\ t = s)
          \/ \E i \in PagesOf(s, e.uid) : Given(s, t, i, NoUser, s.list[i].label)
        BY <2>1, DesertedFacts
    <2>3. \A a \in DOMAIN v \ {e.uid} : a \in DOMAIN w /\ w[a].name = v[a].name
        BY <1>4 DEF ViewAfter
    <2> HIDE DEF w
    <2>4. Follows(t, w)
        BY <1>1, <2>2, <2>3, GivenUp
    <2>5. QED
        BY <2>4 DEF w
<1>5. CASE e.ev \in {"RENAME", "MODE"}
    <2>1. /\ e.uid \in DOMAIN w /\ w[e.uid].name = e.name
          /\ \A a \in DOMAIN v \ {e.uid} : a \in DOMAIN w /\ w[a].name = v[a].name
        BY <1>5 DEF ViewAfter
    <2> HIDE DEF w
    <2>2. Follows(x, w)
        BY <1>1, <1>2, <2>1, GivenAgain
    <2>3. t \in {x, RenameTold(x, imp), ModeTold(x, e.uid, imp)}
        BY <1>5 DEF OnUserEvent, x
    <2>4. Lit(x, t)
        BY <1>2, <2>3, ToldToSessions, LitSame
    <2>5. QED
        BY <2>2, <2>4, LitFollows DEF w
<1>6. QED
    BY <1>1, <1>3, <1>4, <1>5

\* One step of Handled
EventStep(imp, t, e) == OnUserEvent(t, e, imp)

EE == INSTANCE FoldFacts WITH Op <- EventStep

\* All that an operation of user.c tells
LEMMA HandledFacts ==
    ASSUME NEW s, Sound(s), NEW v, NEW w, NEW evs, Tells(v, evs, w), NEW imp,
           NEW t, t = Handled(s, evs, imp)
    PROVE  /\ Sound(t) /\ Kept(s, t)
           /\ NamesApart /\ Follows(s, v) => Follows(t, w)
<1> DEFINE n == Len(evs)
<1>1. t = EE!Fold(imp, s, evs)
    BY DEF Handled, EE!Fold, EventStep, FoldLeft, EE!FoldLeft, MapThenFoldSet, EE!MapThenFoldSet, Max, EE!Max
<1>2. PICK h : /\ h[0] = v /\ h[n] = w
               /\ \A i \in 1 .. n : Legal(h[i - 1], evs[i]) /\ h[i] = ViewAfter(h[i - 1], evs[i])
    BY DEF Tells
<1>3. evs \in Seq(Event) /\ n \in Nat
    BY DEF Tells
<1> DEFINE J == [i \in 0 .. n |-> {x \in State : /\ Sound(x) /\ Kept(s, x)
                                                 /\ NamesApart /\ Follows(s, v) => Follows(x, h[i])}]
<1>4. s \in J[0]
    <2>1. Sound(s) /\ Kept(s, s) /\ (NamesApart /\ Follows(s, v) => Follows(s, h[0]))
        BY <1>2, LitSame DEF Lit
    <2>2. 0 \in 0 .. n
        BY <1>3
    <2> HIDE DEF n
    <2>3. QED
        BY <2>1, <2>2 DEF Sound
<1>5. ASSUME NEW i \in 1 .. n, NEW x \in J[i - 1] PROVE EventStep(imp, x, evs[i]) \in J[i]
    <2> DEFINE y == OnUserEvent(x, evs[i], imp)
    <2>1. i - 1 \in 0 .. n /\ i \in 0 .. n /\ evs[i] \in Event
        BY <1>3
    <2>2. /\ Sound(x) /\ Kept(s, x) /\ (NamesApart /\ Follows(s, v) => Follows(x, h[i - 1]))
        BY <2>1
    <2> HIDE DEF J, n
    <2>3. Sound(y) /\ Kept(x, y)
        BY <2>1, <2>2, EventKeeps
    <2>4. Kept(s, y)
        BY <2>2, <2>3, KeptTwice
    <2>5. ASSUME NamesApart, Follows(s, v) PROVE Follows(y, h[i])
        <3>1. Follows(y, ViewAfter(h[i - 1], evs[i]))
            BY <2>2, <2>5, <1>2, EventFollows
        <3>2. QED
            BY <3>1, <1>2
    <2>6. y \in J[i]
        <3>1. y \in State
            BY <2>3 DEF Sound
        <3> HIDE DEF y
        <3>2. QED
            BY <3>1, <2>1, <2>3, <2>4, <2>5 DEF J
    <2>7. QED
        BY <2>6 DEF EventStep
<1> HIDE DEF J, n
<1>6. EE!Fold(imp, s, evs) \in J[n]
    BY <1>3, <1>4, <1>5, EE!FoldChain DEF n
<1>7. n \in 0 .. n
    BY <1>3
<1>8. QED
    BY <1>1, <1>2, <1>6, <1>7 DEF J

-----------------------------------------------------------------------------
(***************************************************************************)
(* What an event of the main loop leaves behind                            *)
(***************************************************************************)

\* What an event works on is as it should be.
Fine(c) ==
    /\ c = [users |-> c.users, st |-> c.st]
    /\ IsTab(c.users) /\ Sound(c.st) /\ HasStatus(c.st) /\ Honest(c.st)

\* The pages are those of the users there are.
Owned(c) == Follows(c.st, View(c.users))

\* Nobody has a page under another name than n who is to have one under it.
OwnPage(s, n) == \A i \in Indices(s) : s.list[i].label = n => s.list[i].id.name = n

\* The pages change, the list does not.
LEMMA WithStFacts ==
    ASSUME NEW c, Fine(c), NEW s, Sound(s), HasStatus(s), Honest(s), NEW d, d = WithSt(c, s)
    PROVE  Fine(d) /\ d.users = c.users /\ d.st = s
<1>1. d = [users |-> c.users, st |-> s]
    BY DEF WithSt, Fine
<1>2. QED
    BY <1>1 DEF Fine

\* Words and turns of pages, for those on the list
LEMMA LitFine ==
    ASSUME NEW c, Fine(c), NEW s, Sound(s), Lit(c.st, s), NEW d, d = WithSt(c, s)
    PROVE  Fine(d) /\ d.users = c.users /\ d.st = s /\ (Owned(c) => Owned(d))
<1>1. d = [users |-> c.users, st |-> s]
    BY DEF WithSt, Fine
<1>2. HasStatus(s) /\ Honest(s)
    BY KeptStatus, KeptHonest DEF Fine, Lit
<1>3. Owned(c) => Owned(d)
    BY <1>1, LitFollows DEF Owned
<1>4. QED
    BY <1>1, <1>2, <1>3 DEF Fine

\* What user.c does to the list, the pages learn.
LEMMA RaisedFacts ==
    ASSUME NEW c, Fine(c), NEW r, Report(c.users, r), NEW d, d = Raised(c, r)
    PROVE  Fine(d) /\ d.users = r.tab /\ Kept(c.st, d.st) /\ (NamesApart /\ Owned(c) => Owned(d))
<1> DEFINE t == Handled(c.st, r.evs, important)
<1>1. d = [users |-> r.tab, st |-> t]
    BY DEF Raised
<1>2. IsTab(r.tab) /\ Tells(View(c.users), r.evs, View(r.tab)) /\ Sound(c.st)
    BY DEF Report, Fine
<1>3. /\ Sound(t) /\ Kept(c.st, t)
      /\ NamesApart /\ Follows(c.st, View(c.users)) => Follows(t, View(r.tab))
    BY <1>2, HandledFacts
<1> HIDE DEF t
<1>4. HasStatus(t) /\ Honest(t)
    BY <1>3, KeptStatus, KeptHonest DEF Fine
<1>5. QED
    BY <1>1, <1>2, <1>3, <1>4 DEF Fine, Owned

\* Whoever is known has an address.
LEMMA ByNameFacts ==
    ASSUME NEW tab, IsTab(tab), NEW n \in Names(tab)
    PROVE  ByName(tab, n) \in Users(tab) /\ ByName(tab, n) \in Blocks /\ tab[ByName(tab, n)].name = n
<1>1. ByName(tab, n) \in Users(tab) /\ tab[ByName(tab, n)].name = n
    BY DEF ByName, Names
<1>2. QED
    BY <1>1 DEF IsTab, IsView, View

\* sess_write, if there is such a session
LEMMA SaidFacts ==
    ASSUME NEW c, Fine(c), NEW k \in Session, NEW d, d = Said(c, k)
    PROVE  Fine(d) /\ d.users = c.users /\ (Owned(c) => Owned(d))
<1>1. CASE IsOpen(c.st, k)
    <2> DEFINE s == Written(c.st, k, important)
    <2>1. d = WithSt(c, s)
        BY <1>1 DEF Said
    <2>2. Sound(s) /\ Lit(c.st, s)
        BY <1>1, WrittenFacts DEF Fine
    <2> HIDE DEF s
    <2>3. QED
        BY <2>1, <2>2, LitFine
<1>2. CASE ~IsOpen(c.st, k)
    <2>1. d = c
        BY <1>2 DEF Said
    <2>2. QED
        BY <2>1
<1>3. QED
    BY <1>1, <1>2

\* The chat with a user who has no other page is his page.
LEMMA ChatFollows ==
    ASSUME NEW s, Sound(s), NEW t, Sound(t), NEW n \in Nicks, NEW u, NEW c, Grown(s, t, Private(n), u, c),
           NEW v, Follows(s, v), OwnPage(s, n), u \in DOMAIN v, v[u].name = n, u # NoUser
    PROVE  Follows(t, v)
<1> DEFINE k == Private(n)
<1>1. k.type = "PRIVATE" /\ k.name = n
    BY DEF Private
<1>2. \A i \in Indices(t) \ Indices(s) : /\ t.list[i].id = k /\ t.list[i].user = u
                                         /\ t.list[i].label = n /\ ~IsOpen(s, k)
    BY <1>1 DEF Grown
<1>3. \A i \in Indices(s) : /\ i \in Indices(t) /\ t.list[i].id = s.list[i].id
                            /\ t.list[i].user = s.list[i].user /\ t.list[i].label = s.list[i].label
    BY DEF Grown
<1>4. ASSUME NEW i \in Indices(s), s.list[i].user = u, ~IsOpen(s, k) PROVE FALSE
    <2>1. s.list[i].label = n /\ s.list[i].id.type = "PRIVATE"
        BY <1>4 DEF Follows
    <2>2. s.list[i].id.name = n
        BY <2>1 DEF OwnPage
    <2>3. s.list[i].id \in Session
        <3>1. s.list \in Seq(Page)
            BY DEF Sound, State
        <3>2. s.list[i] \in Page
            BY <3>1 DEF Indices
        <3>3. QED
            BY <3>2 DEF Page
    <2>4. s.list[i].id = k
        <3>1. PICK m \in Nicks : s.list[i].id = Private(m)
            BY <2>1, <2>3 DEF Session, Status, Channel
        <3>2. m = n
            BY <2>2, <3>1 DEF Private
        <3>3. QED
            BY <3>1, <3>2
    <2>5. QED
        BY <2>4, <1>4 DEF IsOpen
<1> HIDE DEF k
<1>5. ASSUME NEW i \in Indices(t), NEW j \in Indices(t), t.list[i].user = t.list[j].user, t.list[i].user # NoUser
      PROVE  i = j
    <2>1. CASE i \in Indices(s) /\ j \in Indices(s)
        BY <2>1, <1>3, <1>5 DEF Follows
    <2>2. CASE i \notin Indices(s) /\ j \notin Indices(s)
        <3>1. t.list[i].id = t.list[j].id
            BY <2>2, <1>2
        <3>2. QED
            BY <3>1 DEF Sound
    <2>3. CASE i \in Indices(s) /\ j \notin Indices(s)
        BY <2>3, <1>2, <1>3, <1>4, <1>5
    <2>4. CASE i \notin Indices(s) /\ j \in Indices(s)
        BY <2>4, <1>2, <1>3, <1>4, <1>5
    <2>5. QED
        BY <2>1, <2>2, <2>3, <2>4
<1>6. ASSUME NEW i \in Indices(t)
      PROVE  t.list[i].user = NoUser \/ (t.list[i].user \in DOMAIN v /\ t.list[i].label = v[t.list[i].user].name)
    BY <1>2, <1>3 DEF Follows
<1>7. ASSUME NEW i \in Indices(t), t.list[i].id.type # "PRIVATE"
      PROVE  t.list[i].user = NoUser /\ t.list[i].label = t.list[i].id.name
    BY <1>1, <1>2, <1>3, <1>7 DEF Follows
<1>8. QED
    BY <1>5, <1>6, <1>7 DEF Follows

\* A chat is opened, unless it is.
LEMMA ChatFine ==
    ASSUME NEW c, Fine(c), NEW u \in Users(c.users), NEW n, n = c.users[u].name,
           NEW on \in BOOLEAN, NEW t, t = Opened(c.st, Private(n), u, on, important),
           NEW d, d = WithSt(c, t)
    PROVE  /\ Fine(d) /\ d.users = c.users /\ Private(n) \in Session /\ IsOpen(d.st, Private(n))
           /\ OwnPage(c.st, n) /\ Owned(c) => Owned(d)
<1> DEFINE k == Private(n)
<1>1. /\ u \in Blocks /\ n \in Nicks /\ u # NoUser
      /\ u \in DOMAIN View(c.users) /\ View(c.users)[u].name = n
    BY NoUserAssumption DEF Fine, IsTab, IsView, View
<1>2. k \in Session
    BY <1>1 DEF Session
<1>4. t = Opened(c.st, k, u, on, important)
    OBVIOUS
<1>6. Sound(c.st) /\ HasStatus(c.st) /\ Honest(c.st) /\ u \in Blocks \cup {NoUser}
    BY <1>1 DEF Fine
<1> HIDE DEF k
<1>7. Sound(t) /\ Grown(c.st, t, k, u, on) /\ Honest(t)
    BY <1>2, <1>4, <1>6, OpenedFacts
<1>8. HasStatus(t) /\ IsOpen(t, k)
    <2>1. HasStatus(t)
        BY <1>6, <1>7, GrownStatus
    <2>2. k \in Ids(t)
        BY <1>7 DEF Grown
    <2>3. QED
        BY <2>1, <2>2, OpenIds
<1>9. Fine(d) /\ d.users = c.users /\ d.st = t
    BY <1>7, <1>8, WithStFacts
<1>10. ASSUME OwnPage(c.st, n), Owned(c) PROVE Owned(d)
    <2>1. Follows(t, View(c.users))
        BY <1>1, <1>6, <1>7, <1>10, ChatFollows DEF Owned, k
    <2>2. QED
        BY <2>1, <1>9 DEF Owned
<1>11. QED
    BY <1>2, <1>8, <1>9, <1>10 DEF k

\* net_disconnect: without a network there are no channels, no chats and nobody.
LEMMA DisconnectedFacts ==
    ASSUME NEW c, Fine(c), NEW d, d = Disconnected(c)
    PROVE  /\ Fine(d) /\ ~d.st.up /\ (d.users = c.users \/ Users(d.users) = {})
           /\ NamesApart /\ Owned(c) => Owned(d)
<1>1. CASE ~c.st.up
    <2>1. d = c
        BY <1>1 DEF Disconnected
    <2>2. QED
        BY <2>1, <1>1
<1>2. CASE c.st.up
    <2> DEFINE s == c.st
               a == ClosedAll(s, "CHANNEL")
               b == ClosedAll(a, "PRIVATE")
               x == [b EXCEPT !.up = FALSE]
               y == WithSt(c, x)
    <2>1. d = Raised(y, RemovedAll(c.users))
        BY <1>2 DEF Disconnected
    <2>2. Sound(s) /\ HasStatus(s) /\ Honest(s)
        BY DEF Fine
    <2> DEFINE ka == {k \in Ids(s) : k.type = "CHANNEL"}
               kb == {k \in Ids(a) : k.type = "PRIVATE"}
    <2>3. Sound(a) /\ Shut(s, a, ka) /\ Honest(a)
        BY <2>2, ClosedAllFacts
    <2>4. Status \notin ka /\ Status \notin kb
        BY DEF Status
    <2> HIDE DEF a
    <2>5. Sound(b) /\ Shut(a, b, kb) /\ Honest(b)
        BY <2>3, ClosedAllFacts
    <2> HIDE DEF b, s
    <2>6. HasStatus(b)
        <3> HIDE DEF ka, kb
        <3>1. HasStatus(a)
            BY <2>2, <2>3, <2>4, ShutStatus
        <3>2. QED
            BY <3>1, <2>4, <2>5, ShutStatus
    <2>7. b.told = {}
        <3>1. Ids(b) = (Ids(s) \ ka) \ kb /\ Ids(a) = Ids(s) \ ka
            BY <2>3, <2>5 DEF Shut
        <3>2. \A k \in b.told : k \in Session /\ k.type # "STATUS" /\ k \in Ids(b)
            BY <2>5 DEF Honest, Sound, State
        <3>3. \A k \in Session : k.type \in {"STATUS", "CHANNEL", "PRIVATE"}
            BY DEF Session, Status, Channel, Private
        <3>4. \A k \in Ids(b) : k.type # "CHANNEL" /\ k.type # "PRIVATE"
            BY <3>1
        <3>5. QED
            BY <3>2, <3>3, <3>4
    <2>8. x \in State /\ x.list = b.list /\ x.shown = b.shown /\ x.told = b.told /\ x.up = FALSE
        BY <2>5 DEF Sound, State
    <2> HIDE DEF x
    <2>9. Sound(x) /\ HasStatus(x) /\ Honest(x)
        BY <2>5, <2>6, <2>7, <2>8 DEF Sound, HasStatus, Honest, Indices, IsOpen, Ids
    <2>10. y = WithSt(c, x)
        OBVIOUS
    <2>11. Fine(y) /\ y.users = c.users /\ y.st = x
        BY <2>9, <2>10, WithStFacts
    <2> HIDE DEF y
    <2>12. Report(y.users, RemovedAll(c.users)) /\ Users(RemovedAll(c.users).tab) = {}
        BY <2>11, RemovedAllReports, RemovedAllTab DEF Fine
    <2>13. Fine(d) /\ d.users = RemovedAll(c.users).tab /\ Kept(x, d.st) /\ (NamesApart /\ Owned(y) => Owned(d))
        BY <2>1, <2>11, <2>12, RaisedFacts
    <2>14. ASSUME Owned(c) PROVE Owned(y)
        <3>1. Follows(s, View(c.users))
            BY <2>14 DEF Owned, s
        <3>2. Follows(a, View(c.users))
            BY <3>1, <2>2, <2>3, ShutFollows
        <3>3. Follows(b, View(c.users))
            BY <3>2, <2>3, <2>5, ShutFollows
        <3>4. Follows(x, View(c.users))
            BY <3>3, <2>8 DEF Follows, Indices
        <3>5. QED
            BY <3>4, <2>11 DEF Owned
    <2>15. ~d.st.up
        BY <2>8, <2>13 DEF Kept
    <2>16. QED
        BY <2>12, <2>13, <2>14, <2>15
<1>3. QED
    BY <1>1, <1>2

-----------------------------------------------------------------------------
(***************************************************************************)
(* What a packet changes                                                   *)
(***************************************************************************)

\* What a packet may be
LEMMA PacketKinds ==
    ASSUME NEW p \in Packets
    PROVE  /\ p.src \in Nicks
           /\ p.type \in {"REFRESH_ACK", "MODE_CHANGE", "CHANNEL_JOIN", "CHANNEL_LEAVE", "CHANNEL_TEXT",
                          "RENAME", "PRIVATE_TEXT", "PRIVATE_CLOSE"}
           /\ p.type \in {"REFRESH_ACK", "MODE_CHANGE", "CHANNEL_JOIN"} => p.mode \in Modes
           /\ p.type \in {"CHANNEL_JOIN", "CHANNEL_LEAVE", "CHANNEL_TEXT"} => p.chan \in Chans
           /\ p.type = "RENAME" => p.text \in Nicks /\ p.text # p.src
BY DEF Packets

\* The user at a stays, and only what is said of who speaks may change.
StaysAs(tab, x, p, a) ==
    /\ a \in Users(tab) /\ x[a].name = tab[a].name /\ (tab[a].replied => x[a].replied)
    /\ x[a].name # p.src => x[a] = tab[a]
    /\ p.type = "REFRESH_ACK" /\ x[a].name = p.src => x[a].replied

\* He is new, and speaks.
Joins(tab, x, p, a) == x[a].name = p.src /\ x[a].replied /\ p.src \notin Names(tab)

\* He is called something else, which nobody was.
IsRenamed(tab, x, p, a) ==
    /\ p.type = "RENAME" /\ a \in Users(tab) /\ tab[a].name = p.src
    /\ x[a].name = p.text /\ x[a].replied = tab[a].replied /\ p.text \notin Names(tab)

\* What the list is after a packet
AfterPacket(tab, x, p) ==
    \A a \in Users(x) : StaysAs(tab, x, p, a) \/ Joins(tab, x, p, a) \/ IsRenamed(tab, x, p, a)

\* The list did not change, but for who is new.
Welcomed(tab, x, p) ==
    \A a \in Users(x) : \/ a \in Users(tab) /\ x[a] = tab[a]
                        \/ Joins(tab, x, p, a)

\* EVENT_NET_NEW_USER: the labels of pages stay as they are, whoever is new.
LEMMA NoticedFacts ==
    ASSUME NEW c, Fine(c), NEW p \in Packets, NEW d, d = Noticed(c, p)
    PROVE  /\ Fine(d) /\ Kept(c.st, d.st)
           /\ Welcomed(c.users, d.users, p) /\ Names(c.users) \subseteq Names(d.users)
           /\ p.type = "RENAME" => d = c
           /\ NamesApart /\ Owned(c) => Owned(d) /\ (OwnPage(c.st, p.src) => OwnPage(d.st, p.src))
<1>1. CASE p.src \in Names(c.users) \/ p.type \in QuietTypes
    <2>1. d = c
        BY <1>1 DEF Noticed
    <2>2. QED
        BY <2>1, LitSame DEF Lit, Welcomed
<1>2. CASE p.src \notin Names(c.users) /\ p.type \notin QuietTypes
    <2> DEFINE u == FreeBlock(c.users)
               m == ModeOfNew(p)
               r == Added(c.users, u, p.src, m)
    <2>1. d = Raised(c, r)
        BY <1>2 DEF Noticed
    <2>2. p.src \in Nicks \ Names(c.users) /\ p.type # "RENAME" /\ IsTab(c.users) /\ Sound(c.st)
        BY <1>2, PacketKinds DEF QuietTypes, Fine
    <2>3. u \in Blocks \ Users(c.users)
        BY <2>2, FreeBlockIsFree
    <2>4. m \in AnyMode
        BY PacketKinds, ModesAssumption DEF ModeOfNew, AnyMode
    <2>5. /\ Users(r.tab) = Users(c.users) \cup {u}
          /\ \A a \in Users(c.users) : r.tab[a] = c.users[a]
          /\ r.tab[u].name = p.src /\ r.tab[u].replied = TRUE
        BY <2>3 DEF Added, Users
    <2>6. \E e : r.evs = <<e>> /\ e.ev = "NEW" /\ e.uid = u /\ e.name = p.src
        BY DEF Added, Raise
    <2> HIDE DEF m, u
    <2>7. Report(c.users, r)
        BY <2>2, <2>3, <2>4, AddedReports
    <2> HIDE DEF r
    <2>8. Fine(d) /\ d.users = r.tab /\ Kept(c.st, d.st) /\ (NamesApart /\ Owned(c) => Owned(d))
        BY <2>1, <2>7, RaisedFacts
    <2>9. Welcomed(c.users, d.users, p)
        BY <2>2, <2>5, <2>8 DEF Welcomed, Joins
    <2>10. Names(c.users) \subseteq Names(d.users)
        BY <2>5, <2>8 DEF Names
    <2>11. ASSUME NamesApart, Owned(c), OwnPage(c.st, p.src) PROVE OwnPage(d.st, p.src)
        <3>1. PICK e : r.evs = <<e>> /\ e.ev = "NEW" /\ e.uid = u /\ e.name = p.src
            BY <2>6
        <3>2. Tells(View(c.users), <<e>>, View(r.tab))
            BY <2>7, <3>1 DEF Report
        <3>3. Legal(View(c.users), e)
            <4> DEFINE q == <<e>>
            <4>1. Len(q) = 1 /\ q[1] = e /\ 1 \in 1 .. Len(q)
                OBVIOUS
            <4>2. Tells(View(c.users), q, View(r.tab))
                BY <3>2
            <4> HIDE DEF q
            <4>3. PICK h : /\ h[0] = View(c.users)
                           /\ \A i \in 1 .. Len(q) : Legal(h[i - 1], q[i])
                BY <4>2 DEF Tells
            <4>4. Legal(h[1 - 1], q[1])
                BY <4>1, <4>3
            <4>5. QED
                BY <4>1, <4>3, <4>4
        <3>4. d.st = Revived(c.st, e.uid, e.name)
            <4> DEFINE q == <<e>>
            <4>1. d.st = Handled(c.st, q, important)
                BY <2>1, <3>1 DEF Raised
            <4>2. d.st = EE!Fold(important, c.st, q)
                BY <4>1 DEF Handled, EE!Fold, EventStep, FoldLeft, EE!FoldLeft, MapThenFoldSet,
                            EE!MapThenFoldSet, Max, EE!Max
            <4>3. q \in Seq(Event) /\ Len(q) = 1 /\ q[1] = e
                BY <3>3 DEF Legal
            <4> DEFINE s == c.st
            <4> HIDE DEF q, s
            <4>4. PICK h : /\ h[0] = s
                           /\ \A i \in 1 .. Len(q) : h[i] = EventStep(important, h[i - 1], q[i])
                           /\ EE!Fold(important, s, q) = h[Len(q)]
                BY <4>3, EE!FoldTrace
            <4>5. h[1] = EventStep(important, h[1 - 1], q[1])
                BY <4>3, <4>4
            <4>6. d.st = OnUserEvent(c.st, e, important)
                BY <4>2, <4>3, <4>4, <4>5 DEF EventStep, s
            <4>7. QED
                BY <4>6, <3>1 DEF OnUserEvent
        <3>5. \A i \in Indices(c.st) : d.st.list[i].label = c.st.list[i].label
            BY <2>2, <2>11, <3>1, <3>3, <3>4, NewFollows DEF Owned
        <3>6. QED
            BY <2>8, <2>11, <3>5 DEF OwnPage, Kept
    <2>12. QED
        BY <2>2, <2>8, <2>9, <2>10, <2>11
<1>3. QED
    BY <1>1, <1>2

\* Nobody but the user who speaks is touched; he may be gone.
LEMMA OthersStay ==
    ASSUME NEW tab, IsTab(tab), NEW p, NEW u \in Users(tab), tab[u].name = p.src, NEW x,
           Users(x) \subseteq Users(tab), \A a \in Users(x) \ {u} : x[a] = tab[a],
           u \in Users(x) => /\ x[u].name = p.src /\ (tab[u].replied => x[u].replied)
                             /\ p.type = "REFRESH_ACK" => x[u].replied
    PROVE  AfterPacket(tab, x, p)
<1>1. \A a, b \in Users(tab) : tab[a].name = tab[b].name => a = b
    BY DEF IsTab, IsView, View
<1>2. ASSUME NEW a \in Users(x) PROVE StaysAs(tab, x, p, a)
    <2>1. CASE a = u
        BY <2>1 DEF StaysAs
    <2>2. CASE a # u
        <3>1. x[a] = tab[a] /\ a \in Users(tab)
            BY <2>2
        <3>2. x[a].name # p.src
            BY <3>1, <2>2, <1>1
        <3>3. QED
            BY <3>1, <3>2 DEF StaysAs
    <2>3. QED
        BY <2>1, <2>2
<1>3. QED
    BY <1>2 DEF AfterPacket

\* What comes from someone on the list
LEMMA ParsedFacts ==
    ASSUME NEW c, Fine(c), NEW p \in Packets, p.src \in Names(c.users), NEW d, d = Parsed(c, p)
    PROVE  /\ Fine(d) /\ AfterPacket(c.users, d.users, p)
           /\ NamesApart /\ Owned(c) /\ (p.type = "PRIVATE_TEXT" => OwnPage(c.st, p.src)) => Owned(d)
<1> DEFINE tab == c.users
           u == ByName(tab, p.src)
<1>1. IsTab(tab)
    BY DEF Fine
<1>2. u \in Users(tab) /\ tab[u].name = p.src
    BY <1>1, ByNameFacts
<1>3. \A r : Report(tab, r) /\ d = Raised(c, r) =>
             Fine(d) /\ d.users = r.tab /\ (NamesApart /\ Owned(c) => Owned(d))
    BY RaisedFacts
<1> HIDE DEF u
<1>4. CASE p.type = "REFRESH_ACK"
    <2> DEFINE r == Answered(tab, u, p.mode)
    <2>1. d = Raised(c, r)
        BY <1>4 DEF Parsed, u
    <2>2. p.mode \in AnyMode
        BY <1>4, PacketKinds DEF AnyMode
    <2>3. Report(tab, r)
        BY <1>1, <1>2, <2>2, AnsweredReports
    <2>4. /\ Users(r.tab) = Users(tab) /\ \A a \in Users(tab) \ {u} : r.tab[a] = tab[a]
          /\ r.tab[u].name = tab[u].name /\ r.tab[u].replied = TRUE
        BY <1>1, <1>2, <2>2, AnsweredTab
    <2> HIDE DEF r, tab
    <2>5. AfterPacket(tab, r.tab, p)
        BY <2>4, <1>1, <1>2, OthersStay
    <2>6. QED
        BY <2>1, <2>3, <2>5, <1>3, <1>4 DEF tab
<1>5. CASE p.type = "MODE_CHANGE"
    <2> DEFINE r == ModeSet(tab, u, p.mode)
    <2>1. d = Raised(c, r)
        BY <1>5 DEF Parsed, u
    <2>2. p.mode \in AnyMode
        BY <1>5, PacketKinds DEF AnyMode
    <2>3. Report(tab, r)
        BY <1>1, <1>2, <2>2, ModeSetReports
    <2>4. /\ Users(r.tab) = Users(tab) /\ \A a \in Users(tab) \ {u} : r.tab[a] = tab[a]
          /\ r.tab[u].name = tab[u].name /\ r.tab[u].replied = tab[u].replied
        BY <1>1, <1>2, <2>2, ModeSetTab
    <2> HIDE DEF r, tab
    <2>5. AfterPacket(tab, r.tab, p)
        BY <2>4, <1>1, <1>2, <1>5, OthersStay
    <2>6. QED
        BY <2>1, <2>3, <2>5, <1>3, <1>5 DEF tab
<1>6. ASSUME NEW k \in Session, d = Said(c, k), p.type # "REFRESH_ACK"
      PROVE  Fine(d) /\ d.users = tab /\ AfterPacket(tab, d.users, p) /\ (Owned(c) => Owned(d))
    <2>1. Fine(d) /\ d.users = tab /\ (Owned(c) => Owned(d))
        BY <1>6, SaidFacts
    <2> HIDE DEF tab
    <2>2. AfterPacket(tab, tab, p)
        BY <1>1, <1>2, <1>6, OthersStay
    <2>3. QED
        BY <2>1, <2>2
<1>7. \A ch \in Chans : Channel(ch) \in Session
    BY DEF Session, Channels
<1>8. CASE p.type \in {"CHANNEL_JOIN", "CHANNEL_TEXT"}
    <2>1. d = Said(c, Channel(p.chan)) /\ Channel(p.chan) \in Session
        BY <1>7, <1>8, PacketKinds DEF Parsed
    <2>2. QED
        BY <2>1, <1>6, <1>8
<1>9. CASE p.type = "CHANNEL_LEAVE"
    <2> DEFINE l == Said(c, Channel(p.chan))
               r == Removed(tab, u)
    <2>1. d = IF p.chan = Main THEN Raised(l, r) ELSE l
        BY <1>9 DEF Parsed, u
    <2>2. Channel(p.chan) \in Session
        BY <1>7, <1>9, PacketKinds
    <2>3. Fine(l) /\ l.users = tab /\ (Owned(c) => Owned(l))
        BY <2>2, SaidFacts
    <2>4. CASE p.chan = Main
        <3>1. Report(tab, r)
            BY <1>1, <1>2, RemovedReports DEF Turn
        <3>2. Users(r.tab) = Users(tab) \ {u} /\ \A a \in Users(r.tab) : r.tab[a] = tab[a]
            BY <1>1, <1>2, RemovedTab
        <3> HIDE DEF l, r, tab
        <3>3. Fine(d) /\ d.users = r.tab /\ (NamesApart /\ Owned(l) => Owned(d))
            BY <2>1, <2>3, <2>4, <3>1, RaisedFacts
        <3>4. AfterPacket(tab, r.tab, p)
            BY <3>2, <1>1, <1>2, OthersStay
        <3>5. QED
            BY <2>3, <3>3, <3>4 DEF tab
    <2>5. CASE p.chan # Main
        <3>1. d = Said(c, Channel(p.chan))
            BY <2>1, <2>5
        <3>2. QED
            BY <2>2, <3>1, <1>6, <1>9
    <2>6. QED
        BY <2>4, <2>5
<1>10. CASE p.type = "RENAME"
    <2> DEFINE r == Renamed(tab, u, p.text)
    <2>1. d = Raised(c, r)
        BY <1>10 DEF Parsed, u
    <2>2. p.text \in Nicks /\ p.text # tab[u].name
        BY <1>2, <1>10, PacketKinds
    <2>3. Report(tab, r)
        BY <1>1, <1>2, <2>2, RenamedReports
    <2>4. /\ p.text \in Names(tab) => Users(r.tab) = Users(tab) \ {u} /\ \A a \in Users(r.tab) : r.tab[a] = tab[a]
          /\ p.text \notin Names(tab) => /\ Users(r.tab) = Users(tab)
                                         /\ \A a \in Users(tab) \ {u} : r.tab[a] = tab[a]
                                         /\ r.tab[u].name = p.text /\ r.tab[u].replied = tab[u].replied
        BY <1>1, <1>2, <2>2, RenamedTab
    <2> HIDE DEF r, tab
    <2>5. CASE p.text \in Names(tab)
        <3>1. AfterPacket(tab, r.tab, p)
            BY <2>4, <2>5, <1>1, <1>2, OthersStay
        <3>2. QED
            BY <2>1, <2>3, <3>1, <1>3, <1>10 DEF tab
    <2>6. CASE p.text \notin Names(tab)
        <3>1. IsRenamed(tab, r.tab, p, u)
            BY <2>4, <2>6, <1>2, <1>10 DEF IsRenamed
        <3>2. ASSUME NEW a \in Users(tab) \ {u} PROVE StaysAs(tab, r.tab, p, a)
            BY <2>4, <2>6, <1>10 DEF StaysAs
        <3>3. AfterPacket(tab, r.tab, p)
            BY <2>4, <2>6, <3>1, <3>2 DEF AfterPacket
        <3>4. QED
            BY <2>1, <2>3, <3>3, <1>3, <1>10 DEF tab
    <2>7. QED
        BY <2>5, <2>6
<1>11. CASE p.type = "PRIVATE_TEXT"
    <2> DEFINE k == Private(p.src)
    <2>0. PICK on \in BOOLEAN : on = TRUE
        OBVIOUS
    <2> DEFINE t == Opened(c.st, k, u, on, important)
               l == WithSt(c, t)
    <2>1. d = Said(l, k)
        BY <2>0, <1>11 DEF Parsed, SaidPrivately, u
    <2>2. t = Opened(c.st, Private(p.src), u, on, important) /\ l = WithSt(c, t)
        OBVIOUS
    <2> HIDE DEF l, t
    <2>3. /\ Fine(l) /\ l.users = tab /\ k \in Session
          /\ OwnPage(c.st, p.src) /\ Owned(c) => Owned(l)
        BY <2>2, <1>2, ChatFine
    <2> HIDE DEF k
    <2>4. Fine(d) /\ d.users = l.users /\ (Owned(l) => Owned(d))
        BY <2>1, <2>3, SaidFacts
    <2>5. AfterPacket(tab, tab, p)
        <3> HIDE DEF tab
        <3>1. QED
            BY <1>1, <1>2, <1>11, OthersStay
    <2>6. QED
        BY <2>3, <2>4, <2>5, <1>11
<1>12. CASE p.type = "PRIVATE_CLOSE"
    <2>1. d = Said(c, Private(p.src)) /\ Private(p.src) \in Session
        BY <1>12, PacketKinds DEF Parsed, Session
    <2>2. QED
        BY <2>1, <1>6, <1>12
<1>13. QED
    BY <1>4, <1>5, <1>8, <1>9, <1>10, <1>11, <1>12, PacketKinds

\* net_handle_netmsg
LEMMA ReceivedFacts ==
    ASSUME NEW c, Fine(c), NEW p \in Packets, NEW d, d = Received(c, p)
    PROVE  /\ Fine(d) /\ AfterPacket(c.users, d.users, p)
           /\ NamesApart /\ Owned(c) /\ (p.type = "PRIVATE_TEXT" => OwnPage(c.st, p.src)) => Owned(d)
<1> DEFINE x == Noticed(c, p)
<1>1. d = IF p.src \in Names(x.users) THEN Parsed(x, p) ELSE x
    BY DEF Received
<1>2. /\ Fine(x) /\ Welcomed(c.users, x.users, p)
      /\ p.type = "RENAME" => x = c
      /\ NamesApart /\ Owned(c) => Owned(x) /\ (OwnPage(c.st, p.src) => OwnPage(x.st, p.src))
    BY NoticedFacts
<1> HIDE DEF x
<1>3. CASE p.src \in Names(x.users)
    <2>1. d = Parsed(x, p)
        BY <1>1, <1>3
    <2>2. /\ Fine(d) /\ AfterPacket(x.users, d.users, p)
          /\ NamesApart /\ Owned(x) /\ (p.type = "PRIVATE_TEXT" => OwnPage(x.st, p.src)) => Owned(d)
        BY <2>1, <1>2, <1>3, ParsedFacts
    <2>3. ASSUME NEW a \in Users(d.users)
          PROVE  \/ StaysAs(c.users, d.users, p, a) \/ Joins(c.users, d.users, p, a)
                 \/ IsRenamed(c.users, d.users, p, a)
        <3>1. CASE StaysAs(x.users, d.users, p, a)
            <4>1. a \in Users(x.users)
                BY <3>1 DEF StaysAs
            <4>2. (a \in Users(c.users) /\ x.users[a] = c.users[a]) \/ Joins(c.users, x.users, p, a)
                BY <4>1, <1>2 DEF Welcomed
            <4>3. QED
                BY <3>1, <4>2 DEF StaysAs, Joins
        <3>2. CASE Joins(x.users, d.users, p, a)
            BY <3>2, <1>3 DEF Joins
        <3>3. CASE IsRenamed(x.users, d.users, p, a)
            BY <3>3, <1>2 DEF IsRenamed
        <3>4. QED
            BY <2>2, <3>1, <3>2, <3>3 DEF AfterPacket
    <2>4. AfterPacket(c.users, d.users, p)
        BY <2>3 DEF AfterPacket
    <2>5. QED
        BY <2>2, <2>4, <1>2
<1>4. CASE p.src \notin Names(x.users)
    <2>1. d = x
        BY <1>1, <1>4
    <2>2. ASSUME NEW a \in Users(x.users)
          PROVE  StaysAs(c.users, x.users, p, a) \/ Joins(c.users, x.users, p, a)
        <3>1. x.users[a].name # p.src
            BY <1>4 DEF Names
        <3>2. QED
            BY <3>1, <1>2 DEF Welcomed, StaysAs
    <2>3. AfterPacket(c.users, x.users, p)
        BY <2>2 DEF AfterPacket
    <2>4. QED
        BY <2>1, <2>3, <1>2
<1>5. QED
    BY <1>3, <1>4

-----------------------------------------------------------------------------
(***************************************************************************)
(* The inductive invariant                                                 *)
(***************************************************************************)

\* Those heard of are on the list, and have replied as far as the list knows.
HeardIn(tab, h) ==
    h \subseteq Names(tab) /\ \A u \in Users(tab) : tab[u].name \in h => tab[u].replied

\* Who has been silent for a round has not replied, and who has been for two is dead.
SilentIn(tab, sl) ==
    /\ sl \in [Frail -> 0 .. 3]
    /\ \A n \in Frail : \A u \in Users(tab) : tab[u].name = n =>
           /\ sl[n] \in {2, 3} => ~tab[u].replied
           /\ sl[n] = 3 => tab[u].mode = DEAD

\* The list is one, the pages are sound and the others know of them, and neither those
\* heard of nor those who vanished are forgotten too early or too late.
IInv ==
    /\ IsTab(users) /\ Sound(st) /\ Honest(st) /\ (~over => HasStatus(st))
    /\ HeardIn(users, heard) /\ SilentIn(users, silent)

\* The pages are those of the users there are.
PagesOwned == Follows(st, View(users))

\* Users are gone, or dead, and else as they were.
Fewer(tab, x) ==
    \A a \in Users(x) : /\ a \in Users(tab) /\ x[a].name = tab[a].name /\ x[a].replied = tab[a].replied
                        /\ x[a].mode \in {tab[a].mode, DEAD}

\* What an event works on
LEMMA NowFine ==
    ASSUME IInv, ~over
    PROVE  Fine(Now) /\ Now.users = users /\ Now.st = st /\ (PagesOwned <=> Owned(Now))
BY DEF IInv, Fine, Now, PagesOwned, Owned

\* The event is over, and nobody has spoken.
LEMMA FewerInv ==
    ASSUME IInv, NEW d, Fine(d), Fewer(users, d.users), Become(d, heard), UNCHANGED silent
    PROVE  IInv' /\ (Owned(d) => PagesOwned')
<1>1. users' = d.users /\ st' = d.st /\ heard' = heard \cap Names(d.users) /\ silent' = silent
    BY DEF Become
<1>2. IsTab(d.users) /\ Sound(d.st) /\ Honest(d.st) /\ HasStatus(d.st)
    BY DEF Fine
<1>3. HeardIn(d.users, heard')
    <2>1. \A a \in Users(d.users) : d.users[a].name \in heard => d.users[a].replied
        BY DEF IInv, HeardIn, Fewer
    <2>2. QED
        BY <1>1, <2>1 DEF HeardIn
<1>4. SilentIn(d.users, silent)
    BY DEF IInv, SilentIn, Fewer
<1>5. IInv'
    BY <1>1, <1>2, <1>3, <1>4 DEF IInv
<1>6. Owned(d) => PagesOwned'
    BY <1>1 DEF Owned, PagesOwned
<1>7. QED
    BY <1>5, <1>6

\* A packet: who speaks has not vanished.
LEMMA RecvInv ==
    ASSUME IInv, NEW p \in Packets, Recv(p)
    PROVE  IInv' /\ (Patient /\ NamesApart /\ PagesOwned => PagesOwned')
<1> DEFINE d == Received(Now, p)
<1>1. /\ ~over /\ p.src \notin Gone /\ (p.type = "RENAME" => p.text \notin Gone)
      /\ Patient /\ p.type = "PRIVATE_TEXT" => OnOwnPage(p.src)
      /\ Become(d, HeardAfter(p)) /\ over' = over /\ silent' = silent
    BY DEF Recv
<1>2. Fine(Now) /\ Now.users = users /\ Now.st = st /\ (PagesOwned <=> Owned(Now))
    BY <1>1, NowFine
<1>3. /\ Fine(d) /\ AfterPacket(users, d.users, p)
      /\ NamesApart /\ Owned(Now) /\ (p.type = "PRIVATE_TEXT" => OwnPage(st, p.src)) => Owned(d)
    BY <1>2, ReceivedFacts
<1> HIDE DEF d
<1>4. users' = d.users /\ st' = d.st /\ heard' = HeardAfter(p) \cap Names(d.users)
    BY <1>1 DEF Become
<1>5. IsTab(d.users) /\ Sound(d.st) /\ Honest(d.st) /\ HasStatus(d.st)
    BY <1>3 DEF Fine
<1>6. HeardIn(users, heard) /\ SilentIn(users, silent)
    BY DEF IInv
<1>7. HeardIn(d.users, heard')
    <2>1. ASSUME NEW a \in Users(d.users), d.users[a].name \in HeardAfter(p) PROVE d.users[a].replied
        <3> DEFINE m == d.users[a].name
        <3>1. CASE StaysAs(users, d.users, p, a)
            <4>1. a \in Users(users) /\ users[a].name = m /\ m \in Names(users)
                BY <3>1 DEF StaysAs, Names
            <4>2. CASE m \in heard
                BY <4>1, <4>2, <3>1, <1>6 DEF StaysAs, HeardIn
            <4>3. CASE m \notin heard
                <5>1. p.type = "REFRESH_ACK" /\ m = p.src
                    BY <2>1, <4>1, <4>3 DEF HeardAfter
                <5>2. QED
                    BY <5>1, <3>1 DEF StaysAs
            <4>4. QED
                BY <4>2, <4>3
        <3>2. CASE Joins(users, d.users, p, a)
            BY <3>2 DEF Joins
        <3>3. CASE IsRenamed(users, d.users, p, a)
            <4>1. /\ p.type = "RENAME" /\ a \in Users(users) /\ users[a].name = p.src /\ m = p.text
                  /\ d.users[a].replied = users[a].replied /\ m \notin Names(users)
                BY <3>3 DEF IsRenamed
            <4>2. m \notin heard
                BY <4>1, <1>6 DEF HeardIn
            <4>3. p.src \in heard
                BY <2>1, <4>1, <4>2 DEF HeardAfter
            <4>4. QED
                BY <4>1, <4>3, <1>6 DEF HeardIn
        <3>4. QED
            BY <1>3, <3>1, <3>2, <3>3 DEF AfterPacket
    <2>2. QED
        BY <1>4, <2>1 DEF HeardIn
<1>8. SilentIn(d.users, silent)
    <2>1. ASSUME NEW n \in Frail, NEW a \in Users(d.users), d.users[a].name = n, silent[n] \in {2, 3}
          PROVE  a \in Users(users) /\ d.users[a] = users[a]
        <3>1. n \in Gone
            BY <2>1 DEF Gone
        <3>2. n # p.src /\ (p.type = "RENAME" => n # p.text)
            BY <3>1, <1>1
        <3>3. StaysAs(users, d.users, p, a)
            BY <2>1, <3>2, <1>3 DEF AfterPacket, Joins, IsRenamed
        <3>4. QED
            BY <2>1, <3>2, <3>3 DEF StaysAs
    <2>2. QED
        BY <2>1, <1>6 DEF SilentIn
<1>9. IInv'
    BY <1>1, <1>4, <1>5, <1>7, <1>8 DEF IInv
<1>10. ASSUME Patient, NamesApart, PagesOwned PROVE PagesOwned'
    <2>1. p.type = "PRIVATE_TEXT" => OwnPage(st, p.src)
        BY <1>1, <1>10 DEF OnOwnPage, OwnPage
    <2>2. Owned(d)
        BY <2>1, <1>2, <1>3, <1>10
    <2>3. QED
        BY <2>2, <1>4 DEF Owned, PagesOwned
<1>11. QED
    BY <1>9, <1>10

\* The end of a round
LEMMA RoundInv ==
    ASSUME IInv, RefreshRound
    PROVE  IInv' /\ (NamesApart /\ PagesOwned => PagesOwned') /\ Walked(users, users', Rounded, Unheard)
<1> DEFINE r == RoundEnded(users, keep)
           d == Raised(Now, r)
<1>1. /\ ~over /\ Become(d, {}) /\ over' = over
      /\ silent' = [n \in Frail |-> IF silent[n] \in {1, 2} THEN silent[n] + 1 ELSE silent[n]]
    BY DEF RefreshRound
<1>2. Fine(Now) /\ Now.users = users /\ (PagesOwned <=> Owned(Now)) /\ IsTab(users)
    BY <1>1, NowFine DEF IInv
<1>3. Report(users, r) /\ Walked(users, r.tab, Rounded, Unheard)
    BY <1>2, RoundEndedReports, RoundEndedTab
<1>4. d = Raised(Now, r)
    OBVIOUS
<1> HIDE DEF d, r
<1>5. Fine(d) /\ d.users = r.tab /\ (NamesApart /\ Owned(Now) => Owned(d))
    BY <1>2, <1>3, <1>4, RaisedFacts
<1>6. users' = d.users /\ st' = d.st /\ heard' = {}
    BY <1>1 DEF Become
<1>7. SilentIn(users, silent)
    BY DEF IInv
<1>8. SilentIn(users', silent')
    <2>1. silent' \in [Frail -> 0 .. 3]
        BY <1>1, <1>7 DEF SilentIn
    <2>2. ASSUME NEW n \in Frail, NEW u \in Users(users'), users'[u].name = n
          PROVE  ~users'[u].replied /\ (silent'[n] = 3 => users'[u].mode = DEAD)
        <3>1. <<users[u], users'[u]>> \in Rounded /\ u \in Users(users)
            BY <1>3, <1>5, <1>6 DEF Walked
        <3>2. /\ users'[u].name = users[u].name /\ ~users'[u].replied
              /\ ~users[u].replied => users'[u].mode = DEAD
            BY <3>1 DEF Rounded
        <3>3. silent'[n] = 3 => silent[n] \in {2, 3}
            BY <1>1, <1>7 DEF SilentIn
        <3>4. silent[n] \in {2, 3} => ~users[u].replied
            BY <2>2, <3>1, <3>2, <1>7 DEF SilentIn
        <3>5. QED
            BY <3>2, <3>3, <3>4
    <2>3. QED
        BY <2>1, <2>2 DEF SilentIn
<1>9. HeardIn(users', heard')
    BY <1>6 DEF HeardIn
<1>10. IInv'
    BY <1>5, <1>6, <1>8, <1>9 DEF IInv, Fine
<1>11. NamesApart /\ PagesOwned => PagesOwned'
    BY <1>2, <1>5, <1>6 DEF Owned, PagesOwned
<1>12. QED
    BY <1>3, <1>5, <1>6, <1>10, <1>11

\* EVENT_IFACE_USER_LIST_REFRESH_REQ
LEMMA RefreshListInv ==
    ASSUME IInv, RefreshList
    PROVE  IInv' /\ (NamesApart /\ PagesOwned => PagesOwned')
<1> DEFINE r == AllMarkedDead(users, keep)
           d == Raised(Now, r)
<1>1. ~over /\ Become(d, heard) /\ over' = over /\ UNCHANGED silent
    BY DEF RefreshList
<1>2. Fine(Now) /\ Now.users = users /\ (PagesOwned <=> Owned(Now)) /\ IsTab(users)
    BY <1>1, NowFine DEF IInv
<1>3. Report(users, r) /\ Fewer(users, r.tab)
    <2>1. CASE keep
        <3>1. r = AllMarkedDead(users, TRUE)
            BY <2>1 DEF AllMarkedDead
        <3>2. Report(users, r) /\ Walked(users, r.tab, Marked, {})
            BY <3>1, <1>2, MarkedDeadReports, MarkedDeadTab
        <3>3. QED
            BY <3>2 DEF Walked, Marked, Fewer
    <2>2. CASE ~keep
        <3>1. r = RemovedAll(users)
            BY <2>2 DEF AllMarkedDead
        <3>2. Report(users, r) /\ Users(r.tab) = {}
            BY <3>1, <1>2, RemovedAllReports, RemovedAllTab
        <3>3. QED
            BY <3>2 DEF Fewer
    <2>3. QED
        BY <2>1, <2>2
<1>4. d = Raised(Now, r)
    OBVIOUS
<1> HIDE DEF d, r
<1>5. Fine(d) /\ d.users = r.tab /\ (NamesApart /\ Owned(Now) => Owned(d))
    BY <1>2, <1>3, <1>4, RaisedFacts
<1>6. IInv' /\ (Owned(d) => PagesOwned')
    BY <1>1, <1>3, <1>5, FewerInv
<1>7. QED
    BY <1>2, <1>5, <1>6

\* EVENT_IFACE_USER_REMOVE_REQ
LEMMA RemoveUserInv ==
    ASSUME IInv, NEW u \in Users(users), RemoveUser(u)
    PROVE  IInv' /\ (NamesApart /\ PagesOwned => PagesOwned')
<1> DEFINE r == Removed(users, u)
           d == Raised(Now, r)
<1>1. ~over /\ Become(d, heard) /\ over' = over /\ UNCHANGED silent
    BY DEF RemoveUser
<1>2. Fine(Now) /\ Now.users = users /\ (PagesOwned <=> Owned(Now)) /\ IsTab(users)
    BY <1>1, NowFine DEF IInv
<1>3. Report(users, r) /\ Fewer(users, r.tab)
    <2>1. Report(users, r)
        BY <1>2, RemovedReports DEF Turn
    <2>2. Users(r.tab) = Users(users) \ {u} /\ \A a \in Users(r.tab) : r.tab[a] = users[a]
        BY <1>2, RemovedTab
    <2>3. QED
        BY <2>1, <2>2 DEF Fewer
<1>4. d = Raised(Now, r)
    OBVIOUS
<1> HIDE DEF d, r
<1>5. Fine(d) /\ d.users = r.tab /\ (NamesApart /\ Owned(Now) => Owned(d))
    BY <1>2, <1>3, <1>4, RaisedFacts
<1>6. IInv' /\ (Owned(d) => PagesOwned')
    BY <1>1, <1>3, <1>5, FewerInv
<1>7. QED
    BY <1>2, <1>5, <1>6

\* An event of which the list of users learns nothing
LEMMA PagesInv ==
    ASSUME IInv, ~over, NEW s, Sound(s), HasStatus(s), Honest(s),
           Become(WithSt(Now, s), heard), UNCHANGED silent
    PROVE  IInv' /\ (Follows(s, View(users)) => PagesOwned')
<1> DEFINE d == WithSt(Now, s)
<1>1. Fine(Now) /\ Now.users = users
    BY NowFine
<1>2. Fine(d) /\ d.users = users /\ d.st = s
    BY <1>1, WithStFacts
<1>3. Fewer(users, users)
    BY DEF Fewer
<1> HIDE DEF d
<1>4. Become(d, heard)
    BY DEF d
<1>5. IInv' /\ (Owned(d) => PagesOwned')
    BY <1>2, <1>3, <1>4, FewerInv
<1>6. QED
    BY <1>2, <1>5 DEF Owned

\* sess_private_open_req
LEMMA OpenPrivateInv ==
    ASSUME IInv, NEW u \in Users(users), OpenPrivate(u)
    PROVE  IInv' /\ (Patient /\ PagesOwned => PagesOwned')
<1> DEFINE n == users[u].name
           k == Private(n)
<1>0. PICK on \in BOOLEAN : on = TRUE
    OBVIOUS
<1> DEFINE t == Opened(st, k, u, on, important)
           s == SwitchTo(t, k)
           d == WithSt(Now, t)
<1>1. /\ ~over /\ (Patient => OnOwnPage(n)) /\ Become(WithSt(Now, s), heard) /\ UNCHANGED silent
    BY <1>0 DEF OpenPrivate
<1>2. Fine(Now) /\ Now.users = users /\ Now.st = st /\ (PagesOwned <=> Owned(Now))
    BY <1>1, NowFine
<1>3. t = Opened(Now.st, Private(n), u, on, important) /\ d = WithSt(Now, t)
    BY <1>2
<1> HIDE DEF t, d
<1>4. /\ Fine(d) /\ d.users = users /\ k \in Session /\ IsOpen(d.st, k)
      /\ OwnPage(st, n) /\ Owned(Now) => Owned(d)
    BY <1>2, <1>3, ChatFine
<1>5. d.st = t
    BY <1>3 DEF WithSt, Now
<1>6. Sound(t) /\ HasStatus(t) /\ Honest(t) /\ IsOpen(t, k)
    BY <1>4, <1>5 DEF Fine
<1> HIDE DEF n, k
<1>7. Sound(s) /\ Lit(t, s)
    BY <1>4, <1>6, SwitchToFacts
<1> HIDE DEF s
<1>8. HasStatus(s) /\ Honest(s)
    BY <1>6, <1>7, KeptStatus, KeptHonest DEF Lit
<1>9. IInv' /\ (Follows(s, View(users)) => PagesOwned')
    BY <1>1, <1>7, <1>8, PagesInv
<1>10. ASSUME Patient, PagesOwned PROVE Follows(s, View(users))
    <2>1. OwnPage(st, n)
        BY <1>1, <1>10 DEF OnOwnPage, OwnPage
    <2>2. Follows(t, View(users))
        BY <2>1, <1>2, <1>4, <1>5, <1>10 DEF Owned
    <2>3. QED
        BY <2>2, <1>7, LitFollows
<1>11. QED
    BY <1>9, <1>10

\* EVENT_IFACE_JOIN_CHANNEL
LEMMA JoinChannelInv ==
    ASSUME IInv, NEW ch \in Chans, JoinChannel(ch)
    PROVE  IInv' /\ (PagesOwned => PagesOwned')
<1> DEFINE k == Channel(ch)
<1>0. PICK on \in BOOLEAN : on = TRUE
    OBVIOUS
<1> DEFINE t == Opened(st, k, NoUser, on, important)
           s == SwitchTo(t, k)
<1>1. ~over /\ Become(WithSt(Now, s), heard) /\ UNCHANGED silent
    BY <1>0 DEF JoinChannel
<1>2. Sound(st) /\ Honest(st) /\ HasStatus(st)
    BY <1>1 DEF IInv
<1>3. ch \in Channels /\ k \in Session
    BY DEF Channels, Session
<1>4. t = Opened(st, Channel(ch), NoUser, on, important)
    OBVIOUS
<1> HIDE DEF t
<1>5. Sound(t) /\ Wider(st, t) /\ IsOpen(t, k) /\ Honest(t)
    BY <1>2, <1>3, <1>4, ChannelOpened
<1> HIDE DEF k
<1>6. Sound(s) /\ Lit(t, s)
    BY <1>3, <1>5, SwitchToFacts
<1> HIDE DEF s
<1>7. HasStatus(s) /\ Honest(s)
    BY <1>2, <1>5, <1>6, WiderStatus, KeptStatus, KeptHonest DEF Lit
<1>8. IInv' /\ (Follows(s, View(users)) => PagesOwned')
    BY <1>1, <1>6, <1>7, PagesInv
<1>9. ASSUME PagesOwned PROVE Follows(s, View(users))
    BY <1>5, <1>6, <1>9, WiderFollows, LitFollows DEF PagesOwned
<1>10. QED
    BY <1>8, <1>9

\* EVENT_IFACE_PAGE_CLOSE
LEMMA ClosePageInv ==
    ASSUME IInv, NEW k \in Pages, ClosePage(k)
    PROVE  IInv' /\ (PagesOwned => PagesOwned')
<1> DEFINE s == ClosedByUser(st, k)
<1>1. ~over /\ Become(WithSt(Now, s), heard) /\ UNCHANGED silent
    BY DEF ClosePage
<1>2. Sound(st) /\ Honest(st) /\ HasStatus(st)
    BY <1>1 DEF IInv
<1>3. IsOpen(st, k) /\ k \in Session
    <2>1. IsOpen(st, k)
        BY OpenIds DEF Pages
    <2>2. IndexOf(st, k) \in Indices(st) /\ st.list[IndexOf(st, k)].id = k
        BY <2>1, IndexFacts
    <2>3. st.list[IndexOf(st, k)] \in Page
        BY <2>2, <1>2 DEF Sound, State, Indices
    <2>4. QED
        BY <2>1, <2>2, <2>3 DEF Page
<1>4. Sound(s) /\ Honest(s) /\ HasStatus(s) /\ (PagesOwned => Follows(s, View(users)))
    <2>1. CASE st.list[IndexOf(st, k)].closeable
        <3>1. s = Closed(st, k)
            BY <2>1 DEF ClosedByUser
        <3> HIDE DEF s
        <3>2. Sound(s) /\ Shut(st, s, {k}) /\ Honest(s)
            BY <1>2, <1>3, <3>1, ClosedFacts
        <3>3. Status \notin {k}
            BY <2>1, <1>2, <1>3, IndexFacts DEF HasStatus
        <3>4. HasStatus(s)
            BY <1>2, <3>2, <3>3, ShutStatus
        <3>5. QED
            BY <1>2, <3>2, <3>4, ShutFollows DEF PagesOwned
    <2>2. CASE ~st.list[IndexOf(st, k)].closeable
        <3>1. s = st
            BY <2>2 DEF ClosedByUser
        <3>2. QED
            BY <3>1, <1>2 DEF PagesOwned
    <2>3. QED
        BY <2>1, <2>2
<1> HIDE DEF s
<1>5. IInv' /\ (Follows(s, View(users)) => PagesOwned')
    BY <1>1, <1>4, PagesInv
<1>6. QED
    BY <1>4, <1>5

\* The user turns to another page.
LEMMA SwitchPageInv ==
    ASSUME IInv, NEW k \in Pages, SwitchPage(k)
    PROVE  IInv' /\ (PagesOwned => PagesOwned')
<1> DEFINE s == Shown(st, k)
<1>1. ~over /\ Become(WithSt(Now, s), heard) /\ UNCHANGED silent
    BY DEF SwitchPage
<1>2. Sound(st) /\ Honest(st) /\ HasStatus(st)
    BY <1>1 DEF IInv
<1>3. IsOpen(st, k) /\ k \in Session
    <2>1. IsOpen(st, k)
        BY OpenIds DEF Pages
    <2>2. IndexOf(st, k) \in Indices(st) /\ st.list[IndexOf(st, k)].id = k
        BY <2>1, IndexFacts
    <2>3. st.list[IndexOf(st, k)] \in Page
        BY <2>2, <1>2 DEF Sound, State, Indices
    <2>4. QED
        BY <2>1, <2>2, <2>3 DEF Page
<1>4. Sound(s) /\ Lit(st, s)
    BY <1>2, <1>3, ShownFacts
<1> HIDE DEF s
<1>5. Honest(s) /\ HasStatus(s)
    BY <1>2, <1>4, KeptStatus, KeptHonest DEF Lit
<1>6. IInv' /\ (Follows(s, View(users)) => PagesOwned')
    BY <1>1, <1>4, <1>5, PagesInv
<1>7. PagesOwned => Follows(s, View(users))
    BY <1>4, LitFollows DEF PagesOwned
<1>8. QED
    BY <1>6, <1>7

\* A network setting is changed: the client leaves the network and comes back, or not.
LEMMA ChangeSettingsInv ==
    ASSUME IInv, NEW ok \in BOOLEAN, ChangeSettings(ok)
    PROVE  IInv' /\ (NamesApart /\ PagesOwned => PagesOwned')
<1> DEFINE c == Disconnected(Now)
           s == Connected(c.st, ok, important)
           d == WithSt(c, s)
<1>1. ~over /\ Become(d, heard) /\ UNCHANGED silent
    BY DEF ChangeSettings
<1>2. Fine(Now) /\ Now.users = users /\ (PagesOwned <=> Owned(Now))
    BY <1>1, NowFine
<1>3. /\ Fine(c) /\ ~c.st.up /\ (c.users = users \/ Users(c.users) = {})
      /\ NamesApart /\ Owned(Now) => Owned(c)
    BY <1>2, DisconnectedFacts
<1> HIDE DEF c
<1>4. Sound(c.st) /\ HasStatus(c.st) /\ Honest(c.st)
    BY <1>3 DEF Fine
<1>5. Sound(s) /\ HasStatus(s) /\ Honest(s) /\ Wider([c.st EXCEPT !.up = ok], s)
    BY <1>3, <1>4, ConnectedFacts
<1>6. d = WithSt(c, s)
    OBVIOUS
<1> HIDE DEF s, d
<1>7. Fine(d) /\ d.users = c.users /\ d.st = s
    BY <1>3, <1>5, <1>6, WithStFacts
<1>8. Fewer(users, d.users)
    BY <1>3, <1>7 DEF Fewer
<1>9. IInv' /\ (Owned(d) => PagesOwned')
    BY <1>1, <1>7, <1>8, FewerInv
<1>10. ASSUME Owned(c) PROVE Owned(d)
    <2> DEFINE x == [c.st EXCEPT !.up = ok]
    <2>1. x.list = c.st.list
        BY <1>4 DEF Sound, State
    <2> HIDE DEF x
    <2>2. Follows(x, View(c.users))
        BY <2>1, <1>10 DEF Owned, Follows, Indices
    <2>3. Follows(s, View(c.users))
        BY <2>2, <1>5, WiderFollows DEF x
    <2>4. QED
        BY <2>3, <1>7 DEF Owned
<1>11. QED
    BY <1>2, <1>3, <1>9, <1>10

\* The end of the main loop: every page goes.
LEMMA QuitInv ==
    ASSUME IInv, Quit
    PROVE  IInv' /\ (NamesApart /\ PagesOwned => PagesOwned')
<1> DEFINE c == Disconnected(Now)
           q == [i \in DOMAIN c.st.list |-> c.st.list[i].id]
           s == FoldLeft(Closed, c.st, q)
           d == WithSt(c, s)
<1>1. ~over /\ Become(d, heard) /\ over' = TRUE /\ UNCHANGED silent
    BY DEF Quit
<1>2. Fine(Now) /\ Now.users = users /\ (PagesOwned <=> Owned(Now))
    BY <1>1, NowFine
<1>3. /\ Fine(c) /\ (c.users = users \/ Users(c.users) = {})
      /\ NamesApart /\ Owned(Now) => Owned(c)
    BY <1>2, DisconnectedFacts
<1> HIDE DEF c
<1>4. c = [users |-> c.users, st |-> c.st] /\ IsTab(c.users) /\ Sound(c.st) /\ Honest(c.st)
    BY <1>3 DEF Fine
<1>5. Lists(q, Ids(c.st))
    <2>1. c.st.list \in Seq(Page) /\ Indices(c.st) = DOMAIN c.st.list
        BY <1>4 DEF Sound, State, Indices
    <2>2. DOMAIN c.st.list = 1 .. Len(c.st.list) /\ Len(c.st.list) \in Nat
        BY <2>1
    <2>3. ASSUME NEW i \in 1 .. Len(c.st.list) PROVE c.st.list[i].id \in Session
        <3>1. c.st.list[i] \in Page
            BY <2>1
        <3>2. QED
            BY <3>1 DEF Page
    <2>4. q \in [1 .. Len(c.st.list) -> Session]
        BY <2>2, <2>3
    <2>5. q \in Seq(Session) /\ Len(q) = Len(c.st.list)
        BY <2>2, <2>4
    <2>6. \A i \in 1 .. Len(q) : i \in Indices(c.st) /\ q[i] = c.st.list[i].id
        BY <2>1, <2>2, <2>5
    <2>7. Indices(c.st) = 1 .. Len(q)
        BY <2>1, <2>2, <2>5
    <2> HIDE DEF q
    <2>8. QED
        BY <2>5, <2>6, <2>7, <1>4 DEF Lists, Ids, Sound
<1>6. s = FoldLeft(Closed, c.st, q) /\ d = WithSt(c, s)
    OBVIOUS
<1> HIDE DEF q, s, d
<1>7. Sound(s) /\ Shut(c.st, s, Ids(c.st)) /\ Honest(s)
    BY <1>4, <1>5, <1>6, ClosedEach
<1>8. d = [users |-> c.users, st |-> s]
    BY <1>4, <1>6 DEF WithSt
<1>9. d.users = c.users /\ d.st = s
    BY <1>8
<1>10. users' = c.users /\ st' = s /\ heard' = heard \cap Names(c.users) /\ silent' = silent
    BY <1>1, <1>9 DEF Become
<1>11. Fewer(users, c.users)
    BY <1>3 DEF Fewer
<1>12. HeardIn(users', heard')
    BY <1>10, <1>11 DEF IInv, HeardIn, Fewer
<1>13. SilentIn(users', silent')
    BY <1>10, <1>11 DEF IInv, SilentIn, Fewer
<1>14. IInv'
    BY <1>1, <1>4, <1>7, <1>10, <1>12, <1>13 DEF IInv
<1>15. ASSUME Owned(c) PROVE PagesOwned'
    BY <1>4, <1>7, <1>10, <1>15, ShutFollows DEF Owned, PagesOwned
<1>16. QED
    BY <1>2, <1>3, <1>14, <1>15

\* Somebody goes without a word.
LEMMA VanishInv ==
    ASSUME IInv, NEW n \in Frail, Vanish(n)
    PROVE  IInv' /\ (PagesOwned => PagesOwned')
<1>1. users' = users /\ st' = st /\ over' = over /\ heard' = heard
    BY DEF Vanish
<1>2. SilentIn(users, silent) /\ silent' = [silent EXCEPT ![n] = 1]
    BY DEF IInv, Vanish
<1>3. silent' \in [Frail -> 0 .. 3]
    BY <1>2 DEF SilentIn
<1>4. \A m \in Frail : silent'[m] \in {2, 3} => silent'[m] = silent[m]
    BY <1>2 DEF SilentIn
<1>5. SilentIn(users, silent')
    BY <1>2, <1>3, <1>4 DEF SilentIn
<1>6. QED
    BY <1>1, <1>5 DEF IInv, PagesOwned

\* The program starts with a status page, or with the channels to be in as well.
LEMMA InitInv == Init => IInv /\ PagesOwned
<1> SUFFICES ASSUME Init PROVE IInv /\ PagesOwned
    OBVIOUS
<1> DEFINE none == [list |-> <<>>, shown |-> Status, up |-> FALSE, told |-> {}]
<1>0. PICK on \in BOOLEAN : on = FALSE
    OBVIOUS
<1> DEFINE a == Opened(none, Status, NoUser, on, important)
           b == Written(a, Status, important)
<1>1. /\ users = <<>> /\ silent = [n \in Frail |-> 0] /\ heard = {} /\ over = FALSE
      /\ st = b \/ \E ok \in BOOLEAN : st = Connected(b, ok, important)
    BY <1>0 DEF Init
<1>2. none \in State /\ none.list = <<>> /\ none.up = FALSE /\ none.told = {}
    <2>1. Status \in Session
        BY DEF Session
    <2>2. <<>> \in Seq(Page)
        OBVIOUS
    <2>3. QED
        BY <2>1, <2>2 DEF State
<1> HIDE DEF none
<1>3. Sound(none) /\ Indices(none) = {} /\ Honest(none) /\ ~IsOpen(none, Status)
    <2>1. Indices(none) = {}
        BY <1>2 DEF Indices
    <2>2. QED
        BY <2>1, <1>2 DEF Sound, Honest, IsOpen
<1>4. Status \in Session /\ NoUser \in Blocks \cup {NoUser} /\ Status.type = "STATUS"
    BY DEF Session, Status
<1>5. Sound(a) /\ Grown(none, a, Status, NoUser, on) /\ a.up = FALSE /\ Honest(a)
    BY <1>2, <1>3, <1>4, OpenedFacts
<1> HIDE DEF a
<1>6. IsOpen(a, Status) /\ \A i \in Indices(a) : /\ a.list[i].id = Status /\ a.list[i].closeable = on
                                                 /\ a.list[i].user = NoUser /\ a.list[i].label = Status.name
    BY <1>3, <1>5, OpenIds DEF Grown
<1>7. HasStatus(a)
    BY <1>0, <1>6 DEF HasStatus
<1>8. Sound(b) /\ Lit(a, b)
    BY <1>4, <1>5, <1>6, WrittenFacts
<1> HIDE DEF b
<1>9. HasStatus(b) /\ Honest(b) /\ ~b.up
    BY <1>5, <1>7, <1>8, KeptStatus, KeptHonest DEF Lit, Kept
<1>10. View(users) = <<>> /\ Users(users) = {} /\ IsTab(users)
    <2>1. DOMAIN users = {}
        BY <1>1
    <2>2. Users(users) = {}
        BY <2>1 DEF Users
    <2>3. DOMAIN View(users) = {} /\ View(users) = <<>>
        BY <2>2 DEF View
    <2>4. IsView(View(users))
        BY <2>3 DEF IsView
    <2>5. users \in [Users(users) -> [name : Nicks, mode : AnyMode, replied : BOOLEAN]]
        BY <1>1, <2>2
    <2>6. QED
        BY <2>2, <2>3, <2>4, <2>5 DEF IsTab
<1>11. \A v : Follows(b, v)
    <2>1. \A v : Follows(a, v)
        <3>1. \A i, j \in Indices(a) : i = j
            BY <1>5, <1>6 DEF Sound
        <3>2. QED
            BY <3>1, <1>6 DEF Follows
    <2>2. QED
        BY <2>1, <1>8, LitFollows
<1>12. Sound(st) /\ HasStatus(st) /\ Honest(st) /\ Follows(st, View(users))
    <2>1. CASE st = b
        BY <2>1, <1>8, <1>9, <1>11
    <2>2. ASSUME NEW ok \in BOOLEAN, st = Connected(b, ok, important)
          PROVE  Sound(st) /\ HasStatus(st) /\ Honest(st) /\ Follows(st, View(users))
        <3> DEFINE x == [b EXCEPT !.up = ok]
        <3>1. Sound(st) /\ HasStatus(st) /\ Honest(st) /\ Wider(x, st)
            BY <2>2, <1>8, <1>9, ConnectedFacts
        <3>2. x.list = b.list
            BY <1>8 DEF Sound, State
        <3> HIDE DEF x
        <3>3. Follows(x, View(users))
            BY <3>2, <1>11 DEF Follows, Indices
        <3>4. QED
            BY <3>1, <3>3, WiderFollows
    <2>3. QED
        BY <2>1, <2>2, <1>1
<1>13. HeardIn(users, heard) /\ SilentIn(users, silent)
    BY <1>1, <1>10 DEF HeardIn, SilentIn
<1>14. QED
    BY <1>1, <1>10, <1>12, <1>13 DEF IInv, PagesOwned

\* Every step keeps the invariant, and the pages with their users if each chats with
\* those he has a page of.
LEMMA NextInv ==
    ASSUME IInv, [Next]_vars
    PROVE  IInv' /\ (Patient /\ NamesApart /\ PagesOwned => PagesOwned')
<1>1. CASE UNCHANGED vars
    BY <1>1 DEF vars, IInv, PagesOwned
<1>2. CASE \E p \in Packets : Recv(p)
    BY <1>2, RecvInv
<1>3. CASE \E n \in Frail : Vanish(n)
    BY <1>3, VanishInv
<1>4. CASE RefreshRound
    BY <1>4, RoundInv
<1>5. CASE \E ok \in BOOLEAN : ChangeSettings(ok)
    BY <1>5, ChangeSettingsInv
<1>6. CASE RefreshList
    BY <1>6, RefreshListInv
<1>7. CASE \E u \in Users(users) : RemoveUser(u) \/ OpenPrivate(u)
    BY <1>7, RemoveUserInv, OpenPrivateInv
<1>8. CASE \E ch \in Chans : JoinChannel(ch)
    BY <1>8, JoinChannelInv
<1>9. CASE \E k \in Pages : ClosePage(k) \/ SwitchPage(k)
    BY <1>9, ClosePageInv, SwitchPageInv
<1>10. CASE Quit
    BY <1>10, QuitInv
<1>11. QED
    BY <1>1, <1>2, <1>3, <1>4, <1>5, <1>6, <1>7, <1>8, <1>9, <1>10 DEF Next

-----------------------------------------------------------------------------
(***************************************************************************)
(* Theorems                                                                *)
(***************************************************************************)
\* Whatever comes and whatever the user does, the list of users is one, the tabs and
\* what the others were told of the pages are true, and no one is forgotten too early
\* or too late.
THEOREM Invariant == Spec => []IInv
<1>1. Init => IInv
    BY InitInv
<1>2. IInv /\ [Next]_vars => IInv'
    BY NextInv
<1>3. QED
    BY <1>1, <1>2, PTL DEF Spec

\* The hash table of users.c never holds two users of one name.
THEOREM NamesAreUnique == Spec => []NamesUnique
<1>1. IInv => NamesUnique
    <2> SUFFICES ASSUME IInv, NEW u \in Users(users), NEW v \in Users(users),
                        users[u].name = users[v].name
                 PROVE  u = v
        BY DEF NamesUnique
    <2>1. IsView(View(users))
        BY DEF IInv, IsTab
    <2>2. DOMAIN View(users) = Users(users) /\ View(users)[u].name = users[u].name
          /\ View(users)[v].name = users[v].name
        BY DEF View
    <2> QED
        BY <2>1, <2>2 DEF IsView
<1>2. QED
    BY <1>1, Invariant, PTL

\* The tab flickers if and only if sess.c holds unread words of its session, which is
\* then not the one shown.
THEOREM TabsFlickerTruly == Spec => []HilitesTrue
<1>1. IInv => HilitesTrue
    BY DEF IInv, Sound, HilitesTrue
<1>2. QED
    BY <1>1, Invariant, PTL

\* The others believe the client to be only in channels and chats it has open: none is
\* closed, by whatever way, before they were told so.
THEOREM OthersAreToldTruly == Spec => []ToldIsOpen
<1>1. IInv => ToldIsOpen
    BY DEF IInv, Honest, ToldIsOpen, Pages
<1>2. QED
    BY <1>1, Invariant, PTL

\* Who vanished two rounds ago is removed or dead.
THEOREM TheVanishedGo == Spec => []VanishedForgotten
<1>1. IInv => VanishedForgotten
    BY DEF IInv, SilentIn, VanishedForgotten
<1>2. QED
    BY <1>1, Invariant, PTL

\* The user of a name is who has it.
LEMMA TheOneNamed ==
    ASSUME NEW t, IsTab(t), NEW u \in Users(t)
    PROVE  ByName(t, t[u].name) = u
<1>1. \A a, b \in Users(t) : t[a].name = t[b].name => a = b
    <2>1. IsView(View(t)) /\ DOMAIN View(t) = Users(t)
          /\ \A a \in Users(t) : View(t)[a].name = t[a].name
        BY DEF IsTab, View
    <2>2. QED
        BY <2>1 DEF IsView
<1>2. QED
    BY <1>1 DEF ByName

\* The end of a round keeps all who were heard of in it, and their modes.
THEOREM TheHeardStay == Spec => HeardAreKept
<1>1. ASSUME IInv, RefreshRound, NEW n \in heard
      PROVE  n \in Names(users') /\ users'[ByName(users', n)].mode = users[ByName(users, n)].mode
    <2>1. IsTab(users) /\ IsTab(users') /\ Walked(users, users', Rounded, Unheard)
        BY <1>1, RoundInv DEF IInv
    <2>2. HeardIn(users, heard)
        BY <1>1 DEF IInv
    <2>3. PICK u \in Users(users) : users[u].name = n
        BY <2>2 DEF HeardIn, Names
    <2>4. users[u].replied
        BY <2>2, <2>3 DEF HeardIn
    <2>5. u \in Users(users')
        BY <2>1, <2>4 DEF Walked, Unheard
    <2>6. <<users[u], users'[u]>> \in Rounded
        BY <2>1, <2>5 DEF Walked
    <2>7. users'[u].name = n /\ users'[u].mode = users[u].mode
        BY <2>3, <2>4, <2>6 DEF Rounded
    <2>8. ByName(users, n) = u /\ ByName(users', n) = u
        BY <2>1, <2>3, <2>5, <2>7, TheOneNamed
    <2>9. QED
        BY <2>5, <2>7, <2>8 DEF Names
<1>2. IInv /\ [Next]_vars =>
          [heard # {} /\ heard' = {} /\ RefreshRound =>
             \A n \in heard : /\ n \in Names(users')
                             /\ users'[ByName(users', n)].mode = users[ByName(users, n)].mode]_vars
    BY <1>1
<1>3. QED
    BY <1>2, Invariant, PTL DEF Spec, HeardAreKept

\* While nobody chats on a page opened under another name, and nobody is called what a
\* channel or the status page is, a page belongs to a user on the list under his name:
\* no page keeps the address of a user_info_t that was freed.
THEOREM PagesAreOwned ==
    ASSUME Patient, NamesApart
    PROVE  Spec => []PagesFollowUsers
<1>1. Init => IInv /\ PagesOwned
    BY InitInv
<1>2. (IInv /\ PagesOwned) /\ [Next]_vars => (IInv /\ PagesOwned)'
    BY NextInv, Patient, NamesApart
<1>3. PagesOwned => PagesFollowUsers
    BY DEF PagesOwned, Follows, View, PagesFollowUsers
<1>4. QED
    BY <1>1, <1>2, <1>3, PTL DEF Spec
=============================================================================
