----------------------------- MODULE FoldFacts -----------------------------
(***************************************************************************)
(* Folds over sequences, by induction: what the lists of the code, walked  *)
(* from the first element on, preserve.                                    *)
(*                                                                         *)
(* The step is the constant Op: a module that folds instantiates this one  *)
(* for its own step, and cites the theorems of the instance.  p is what    *)
(* the step takes beside the accumulator and the element.                  *)
(***************************************************************************)
EXTENDS SequencesExt, FiniteSetTheorems, SequenceTheorems, WellFoundedInduction, TLAPS

CONSTANT Op(_, _, _)  \* the step: of p, the accumulator, and the element

\* FoldLeft of SequencesExt, with the step of this module
Fold(p, base, s) == FoldLeft(LAMBDA x, y : Op(p, x, y), base, s)

\* Induction over the natural numbers, on a set in the place of a predicate
LEMMA NatSetInduction ==
    ASSUME NEW P, 0 \in P, \A n \in Nat : n \in P => n + 1 \in P
    PROVE  \A n \in Nat : n \in P
<1> DEFINE T == Nat \ P
           R == OpToRel(<, Nat)
<1>1. \A x, y \in Nat : <<y, x>> \in R <=> y < x
    BY DEF OpToRel
<1>2. IsWellFoundedOn(R, Nat)
    BY NatLessThanWellFounded
<1> HIDE DEF R
<1>3. ASSUME T # {} PROVE FALSE
    <2>1. PICK x \in T : \A y \in T : ~(<<y, x>> \in R)
        BY <1>2, <1>3, WFMin
    <2>2. x \in Nat /\ x # 0 /\ x - 1 \in Nat
        OBVIOUS
    <2>3. <<x - 1, x>> \in R
        BY <1>1, <2>2
    <2>4. x - 1 \notin T
        BY <2>1, <2>3
    <2>5. QED
        BY <2>2, <2>4
<1>4. QED
    BY <1>3

\* Numbers have a least one.
LEMMA Least ==
    ASSUME NEW A \in SUBSET Nat, A # {}
    PROVE  \E x \in A : \A y \in A : x <= y
<1> DEFINE R == OpToRel(<, Nat)
<1>1. \A x, y \in Nat : <<y, x>> \in R <=> y < x
    BY DEF OpToRel
<1>2. IsWellFoundedOn(R, Nat)
    BY NatLessThanWellFounded
<1> HIDE DEF R
<1>3. PICK x \in A : \A y \in A : ~(<<y, x>> \in R)
    BY <1>2, WFMin
<1>4. \A y \in A : x <= y
    <2>1. \A y \in A : y \in Nat /\ x \in Nat
        OBVIOUS
    <2>2. \A y \in A : ~(y < x)
        BY <1>1, <1>3, <2>1
    <2>3. QED
        BY <2>1, <2>2
<1>5. QED
    BY <1>4

\* The greatest element of an interval
LEMMA Greatest ==
    ASSUME NEW n \in Nat, n # 0
    PROVE  Max(1 .. n) = n
BY DEF Max

\* A set of numbers up to n that has elements has a greatest one.
LEMMA GreatestOfAny ==
    ASSUME NEW n \in Nat, NEW A \in SUBSET (1 .. n), A # {}
    PROVE  Max(A) \in A
<1> DEFINE P == {m \in Nat : \A B \in SUBSET (1 .. m) : B # {} => \E x \in B : \A y \in B : x >= y}
<1>1. 0 \in P
    <2>1. 1 .. 0 = {}
        OBVIOUS
    <2>2. QED
        BY <2>1
<1>2. ASSUME NEW m \in Nat, m \in P PROVE m + 1 \in P
    <2> SUFFICES ASSUME NEW B \in SUBSET (1 .. m + 1), B # {}
                 PROVE  \E x \in B : \A y \in B : x >= y
        OBVIOUS
    <2>1. CASE m + 1 \in B
        BY <2>1
    <2>2. CASE m + 1 \notin B
        BY <2>2, <1>2
    <2>3. QED
        BY <2>1, <2>2
<1> HIDE DEF P
<1>3. n \in P
    BY <1>1, <1>2, NatSetInduction
<1>4. \E x \in A : \A y \in A : x >= y
    BY <1>3 DEF P
<1>5. QED
    BY <1>4 DEF Max

\* The function by which a fold over the first n elements of s is defined
Iter(p, base, s, n) ==
    CHOOSE g : g = [A \in SUBSET (1 .. n) |->
                        IF A = {} THEN base ELSE Op(p, g[A \ {Max(A)}], s[Max(A)])]

\* That function exists, and takes one step per element.
LEMMA IterSteps ==
    ASSUME NEW p, NEW base, NEW s, NEW n \in Nat
    PROVE  /\ Iter(p, base, s, n)[1 .. 0] = base
           /\ \A i \in 1 .. n : Iter(p, base, s, n)[1 .. i] = Op(p, Iter(p, base, s, n)[1 .. i - 1], s[i])
<1> DEFINE U == SUBSET (1 .. n)
           D(k) == {A \in U : Cardinality(A) <= k}
           P == {k \in Nat : \E g : g = [A \in D(k) |->
                        IF A = {} THEN base ELSE Op(p, g[A \ {Max(A)}], s[Max(A)])]}
<1>0. \A A \in U : IsFiniteSet(A) /\ Cardinality(A) \in Nat /\ (Cardinality(A) = 0 <=> A = {})
    <2>1. IsFiniteSet(1 .. n)
        BY FS_Interval
    <2>2. ASSUME NEW A \in U
          PROVE  IsFiniteSet(A) /\ Cardinality(A) \in Nat /\ (Cardinality(A) = 0 <=> A = {})
        BY <2>1, FS_Subset, FS_CardinalityType, FS_EmptySet
    <2>3. QED
        BY <2>2
<1>1. 0 \in P
    <2>1. \A A \in D(0) : A = {}
        BY <1>0
    <2>2. [A \in D(0) |-> base] = [A \in D(0) |->
               IF A = {} THEN base ELSE Op(p, [B \in D(0) |-> base][A \ {Max(A)}], s[Max(A)])]
        BY <2>1
    <2> HIDE DEF D
    <2>3. QED
        BY <2>2
<1>2. ASSUME NEW k \in Nat, k \in P PROVE k + 1 \in P
    <2>1. PICK g : g = [A \in D(k) |->
                        IF A = {} THEN base ELSE Op(p, g[A \ {Max(A)}], s[Max(A)])]
        BY <1>2
    <2> DEFINE h == [A \in D(k + 1) |-> IF A = {} THEN base ELSE Op(p, g[A \ {Max(A)}], s[Max(A)])]
    <2>2. ASSUME NEW A \in D(k + 1), A # {}
          PROVE  A \ {Max(A)} \in D(k)
        <3>1. Max(A) \in A
            BY <2>2, GreatestOfAny
        <3>2. IsFiniteSet(A)
            BY <1>0
        <3>3. Cardinality(A \ {Max(A)}) = Cardinality(A) - 1
            BY <3>1, <3>2, FS_RemoveElement
        <3>4. /\ A \in U /\ Cardinality(A) <= k + 1
              /\ A \ {Max(A)} \in U
            BY <2>2
        <3>5. Cardinality(A) \in Nat /\ Cardinality(A \ {Max(A)}) \in Nat
            BY <3>4, <1>0
        <3> HIDE DEF P, U
        <3>6. QED
            BY <3>3, <3>4, <3>5
    <2>3. D(k) \subseteq D(k + 1)
        BY <1>0
    <2> HIDE DEF D
    <2>4. \A A \in D(k) : h[A] = g[A]
        BY <2>1, <2>3
    <2>5. h = [A \in D(k + 1) |-> IF A = {} THEN base ELSE Op(p, h[A \ {Max(A)}], s[Max(A)])]
        BY <2>2, <2>4
    <2> HIDE DEF h
    <2>6. QED
        BY <2>5
<1> HIDE DEF P
<1>3. n \in P
    BY <1>1, <1>2, NatSetInduction
<1>4. D(n) = U
    <2>1. IsFiniteSet(1 .. n) /\ Cardinality(1 .. n) = n
        BY FS_Interval
    <2>2. \A A \in U : Cardinality(A) <= n
        BY <2>1, FS_Subset
    <2>3. QED
        BY <2>2
<1> HIDE DEF D
<1>5. \E g : g = [A \in U |-> IF A = {} THEN base ELSE Op(p, g[A \ {Max(A)}], s[Max(A)])]
    BY <1>3, <1>4 DEF P
<1> DEFINE it == Iter(p, base, s, n)
<1>6. it = [A \in U |-> IF A = {} THEN base ELSE Op(p, it[A \ {Max(A)}], s[Max(A)])]
    BY <1>5 DEF Iter
<1> HIDE DEF it
<1>7. it[1 .. 0] = base
    BY <1>6
<1>8. ASSUME NEW i \in 1 .. n PROVE it[1 .. i] = Op(p, it[1 .. i - 1], s[i])
    <2>1. i \in Nat /\ i # 0
        OBVIOUS
    <2>2. Max(1 .. i) = i
        BY <2>1, Greatest
    <2>3. 1 .. i # {} /\ 1 .. i \in U /\ (1 .. i) \ {i} = 1 .. i - 1
        OBVIOUS
    <2>4. QED
        BY <1>6, <2>2, <2>3
<1>9. QED
    BY <1>7, <1>8 DEF it

\* The values a fold goes through
THEOREM FoldTrace ==
    ASSUME NEW p, NEW base, NEW S, NEW s \in Seq(S)
    PROVE  \E h : /\ h[0] = base
                  /\ \A i \in 1 .. Len(s) : h[i] = Op(p, h[i - 1], s[i])
                  /\ Fold(p, base, s) = h[Len(s)]
<1> DEFINE n == Len(s)
           h == [i \in 0 .. n |-> Iter(p, base, s, n)[1 .. i]]
<1>1. n \in Nat /\ DOMAIN s = 1 .. n
    OBVIOUS
<1>2. Fold(p, base, s) = Iter(p, base, s, n)[1 .. n]
    BY <1>1 DEF Fold, FoldLeft, MapThenFoldSet, Iter
<1> HIDE DEF n
<1>3. /\ Iter(p, base, s, n)[1 .. 0] = base
      /\ \A i \in 1 .. n : Iter(p, base, s, n)[1 .. i] = Op(p, Iter(p, base, s, n)[1 .. i - 1], s[i])
    BY <1>1, IterSteps
<1>4. /\ h[0] = base
      /\ \A i \in 1 .. n : h[i] = Op(p, h[i - 1], s[i])
      /\ Fold(p, base, s) = h[n]
    BY <1>1, <1>2, <1>3
<1> HIDE DEF h
<1>5. QED
    BY <1>4 DEF n

\* What holds at the start of a fold and is kept by every step of it holds at its end.
THEOREM FoldChain ==
    ASSUME NEW p, NEW base, NEW S, NEW s \in Seq(S), NEW J, base \in J[0],
           \A i \in 1 .. Len(s) : \A x \in J[i - 1] : Op(p, x, s[i]) \in J[i]
    PROVE  Fold(p, base, s) \in J[Len(s)]
<1>1. PICK h : /\ h[0] = base
               /\ \A i \in 1 .. Len(s) : h[i] = Op(p, h[i - 1], s[i])
               /\ Fold(p, base, s) = h[Len(s)]
    BY FoldTrace
<1> DEFINE P == {k \in Nat : k <= Len(s) => h[k] \in J[k]}
<1>2. 0 \in P
    BY <1>1
<1>3. ASSUME NEW k \in Nat, k \in P PROVE k + 1 \in P
    <2>1. CASE k + 1 <= Len(s)
        <3>1. k + 1 \in 1 .. Len(s) /\ (k + 1) - 1 = k /\ k <= Len(s)
            BY <2>1
        <3>2. h[k + 1] = Op(p, h[k], s[k + 1]) /\ h[k] \in J[k]
            BY <1>1, <1>3, <3>1
        <3>3. QED
            BY <3>1, <3>2
    <2>2. QED
        BY <2>1
<1> HIDE DEF P
<1>4. Len(s) \in P
    BY <1>2, <1>3, NatSetInduction
<1>5. QED
    BY <1>1, <1>4 DEF P

\* FoldChain for one set that does not depend on how far the fold is
THEOREM FoldInvariant ==
    ASSUME NEW p, NEW base, NEW S, NEW s \in Seq(S), NEW J, base \in J,
           \A i \in 1 .. Len(s) : \A x \in J : Op(p, x, s[i]) \in J
    PROVE  Fold(p, base, s) \in J
<1> DEFINE K == [i \in 0 .. Len(s) |-> J]
<1>1. /\ base \in K[0] /\ K[Len(s)] = J
      /\ \A i \in 1 .. Len(s) : \A x \in K[i - 1] : Op(p, x, s[i]) \in K[i]
    OBVIOUS
<1> HIDE DEF K
<1>2. Fold(p, base, s) \in K[Len(s)]
    BY <1>1, FoldChain
<1>3. QED
    BY <1>1, <1>2

\* A fold over nothing
THEOREM FoldEmpty ==
    ASSUME NEW p, NEW base
    PROVE  Fold(p, base, <<>>) = base
<1> DEFINE t == <<>>
<1>1. t \in Seq({}) /\ Len(t) = 0
    OBVIOUS
<1> HIDE DEF t
<1>2. \E h : h[0] = base /\ Fold(p, base, t) = h[Len(t)]
    <2>1. t \in Seq({})
        BY <1>1
    <2>2. QED
        BY <2>1, FoldTrace
<1>3. QED
    BY <1>1, <1>2 DEF t

\* A fold over a longer sequence takes one step more.
THEOREM FoldAppend ==
    ASSUME NEW p, NEW base, NEW S, NEW s \in Seq(S), NEW e \in S
    PROVE  Fold(p, base, Append(s, e)) = Op(p, Fold(p, base, s), e)
<1> DEFINE t == Append(s, e)
<1>1. /\ t \in Seq(S) /\ Len(t) = Len(s) + 1 /\ t[Len(s) + 1] = e
      /\ \A i \in 1 .. Len(s) : t[i] = s[i]
      /\ Len(s) \in Nat
    OBVIOUS
<1> HIDE DEF t
<1>2. PICK h : /\ h[0] = base
               /\ \A i \in 1 .. Len(s) : h[i] = Op(p, h[i - 1], s[i])
               /\ Fold(p, base, s) = h[Len(s)]
    BY FoldTrace
<1>3. PICK g : /\ g[0] = base
               /\ \A i \in 1 .. Len(t) : g[i] = Op(p, g[i - 1], t[i])
               /\ Fold(p, base, t) = g[Len(t)]
    <2>1. t \in Seq(S)
        BY <1>1
    <2>2. QED
        BY <2>1, FoldTrace
<1> DEFINE P == {k \in Nat : k <= Len(s) => g[k] = h[k]}
<1>4. 0 \in P
    BY <1>2, <1>3
<1>5. ASSUME NEW k \in Nat, k \in P PROVE k + 1 \in P
    <2>1. CASE k + 1 <= Len(s)
        <3>1. /\ k + 1 \in 1 .. Len(s) /\ k + 1 \in 1 .. Len(t)
              /\ (k + 1) - 1 = k /\ k <= Len(s)
            BY <2>1, <1>1
        <3>2. h[k + 1] = Op(p, h[k], s[k + 1]) /\ g[k + 1] = Op(p, g[k], t[k + 1])
            BY <1>2, <1>3, <3>1
        <3>3. QED
            BY <3>1, <3>2, <1>1, <1>5
    <2>2. QED
        BY <2>1
<1> HIDE DEF P
<1>6. g[Len(s)] = h[Len(s)]
    <2>1. Len(s) \in P
        BY <1>1, <1>4, <1>5, NatSetInduction
    <2>2. QED
        BY <1>1, <2>1 DEF P
<1>7. g[Len(t)] = Op(p, g[Len(s)], e)
    <2>1. Len(t) \in 1 .. Len(t) /\ Len(t) - 1 = Len(s) /\ t[Len(t)] = e
        BY <1>1
    <2>2. QED
        BY <1>3, <2>1
<1>8. QED
    BY <1>2, <1>3, <1>6, <1>7 DEF t
==============================================================================
