--------------------------- MODULE CustomerProofs ---------------------------
(***************************************************************************)
(* What customers are promised of the assistant and of group orders: the   *)
(* proofs.  The assistant shows only what was offered, and the best of it; *)
(* whoever is in a group got in while it was open.                         *)
(***************************************************************************)
EXTENDS Assistant, GroupOrder, FiniteSetTheorems, SequenceTheorems, WellFoundedInduction, TLAPS

-----------------------------------------------------------------------------
(* Sequences                                                                *)

\* A set of naturals that has 0, and with every number the next one, has all.
LEMMA CountingUp ==
    ASSUME NEW T \in SUBSET Nat, 0 \in T, \A n \in T : n + 1 \in T
    PROVE  T = Nat
<1>1. SUFFICES ASSUME Nat \ T # {} PROVE FALSE
  OBVIOUS
<1>2. PICK m \in Nat \ T : \A k \in Nat \ T : <<k, m>> \notin OpToRel(<, Nat)
  BY <1>1, WFMin, NatLessThanWellFounded, Zenon
<1>3. \A k \in Nat \ T : ~(k < m)
  BY <1>2, Zenon DEF OpToRel
<1>4. QED
  BY ONLY <1>3, m \in Nat \ T, 0 \in T, \A n \in T : n + 1 \in T, T \subseteq Nat

\* f goes from first to its N-th value by step.
GoesBy(f, V, N, first, step) ==
    f \in [0..N -> V] /\ f[0] = first /\ \A m \in 1..N : f[m] = step[m][f[m - 1]]

\* A recursive function on 0..N: each step takes the value before to the next.
LEMMA RowOfSteps ==
    ASSUME NEW V, NEW first \in V, NEW N \in Nat, NEW step \in [1..N -> [V -> V]]
    PROVE  \E f : GoesBy(f, V, N, first, step)
<1> DEFINE Row(f, n) == f[0] = first /\ \A m \in 1..n : f[m] = step[m][f[m - 1]]
           T == {n \in Nat : n <= N => \E f \in [0..n -> V] : Row(f, n)}
<1>1. 0 \in T
  <2>1. [m \in 0..0 |-> first] \in [0..0 -> V] /\ Row([m \in 0..0 |-> first], 0)
    OBVIOUS
  <2>2. QED
    BY <2>1
<1>2. ASSUME NEW n \in T
      PROVE  n + 1 \in T
  <2> SUFFICES ASSUME n + 1 <= N
               PROVE  \E f \in [0..(n + 1) -> V] : Row(f, n + 1)
    OBVIOUS
  <2>1. PICK f \in [0..n -> V] : Row(f, n)
    OBVIOUS
  <2> DEFINE last == step[n + 1][f[n]]
             h == [m \in 0..(n + 1) |-> IF m = n + 1 THEN last ELSE f[m]]
  <2>2. n \in Nat /\ f[n] \in V /\ n + 1 \in 1..N
    OBVIOUS
  <2>3. last \in V
    BY <2>2
  <2> HIDE DEF last
  <2>4. h \in [0..(n + 1) -> V]
    BY <2>2, <2>3
  <2>5. h[n + 1] = last /\ \A m \in 0..n : h[m] = f[m]
    BY <2>2
  <2> HIDE DEF h
  <2>6. h[0] = first
    BY <2>1, <2>2, <2>5
  <2>7. ASSUME NEW m \in 1..(n + 1)
        PROVE  h[m] = step[m][h[m - 1]]
    <3>1. CASE m = n + 1
      <4>1. m - 1 = n /\ n \in 0..n
        BY <2>2, <3>1
      <4>2. h[m - 1] = f[n]
        BY <2>5, <4>1
      <4>3. QED
        BY <2>5, <3>1, <4>2 DEF last
    <3>2. CASE m # n + 1
      <4>1. m \in 1..n /\ m \in 0..n /\ m - 1 \in 0..n
        BY <2>2, <3>2
      <4>2. h[m] = f[m] /\ h[m - 1] = f[m - 1]
        BY <2>5, <4>1
      <4>3. f[m] = step[m][f[m - 1]]
        BY <2>1, <4>1
      <4>4. QED
        BY <4>2, <4>3
    <3>3. QED
      BY <3>1, <3>2
  <2>8. QED
    BY <2>4, <2>6, <2>7
<1> HIDE DEF T
<1>3. T = Nat
  BY <1>1, <1>2, CountingUp DEF T
<1>4. N \in T /\ N <= N
  BY <1>3
<1>5. PICK f \in [0..N -> V] : Row(f, N)
  BY <1>4 DEF T
<1>6. GoesBy(f, V, N, first, step)
  BY <1>5 DEF GoesBy
<1>7. QED
  BY <1>6

\* Append adds one element.
LEMMA Appended ==
    ASSUME NEW S, NEW t \in Seq(S), NEW x \in S
    PROVE  Append(t, x) \in Seq(S) /\ ToSet(Append(t, x)) = ToSet(t) \cup {x}
  BY AppendProperties, LenProperties DEF ToSet

\* Two sequences in one have the elements of both.
LEMMA Joined ==
    ASSUME NEW S, NEW s \in Seq(S), NEW t \in Seq(S)
    PROVE  s \o t \in Seq(S) /\ ToSet(s \o t) = ToSet(s) \cup ToSet(t)
<1>1. /\ s \o t \in Seq(S) /\ Len(s \o t) = Len(s) + Len(t)
      /\ \A i \in 1..(Len(s) + Len(t)) : (s \o t)[i] = IF i <= Len(s) THEN s[i] ELSE t[i - Len(s)]
  BY ConcatProperties
<1>2. /\ Len(s) \in Nat /\ DOMAIN s = 1..Len(s) /\ Len(t) \in Nat /\ DOMAIN t = 1..Len(t)
      /\ DOMAIN (s \o t) = 1..(Len(s) + Len(t))
  BY <1>1, LenProperties
<1>3. ASSUME NEW n \in 1..Len(s) PROVE s[n] \in ToSet(s \o t)
  BY <1>1, <1>2 DEF ToSet
<1>4. ASSUME NEW n \in 1..Len(t) PROVE t[n] \in ToSet(s \o t)
  <2>1. n + Len(s) \in DOMAIN (s \o t) /\ (s \o t)[n + Len(s)] = t[n]
    BY <1>1, <1>2
  <2>2. QED
    BY <2>1 DEF ToSet
<1>5. ASSUME NEW n \in DOMAIN (s \o t) PROVE (s \o t)[n] \in ToSet(s) \cup ToSet(t)
  BY <1>1, <1>2 DEF ToSet
<1>6. QED
  BY <1>1, <1>2, <1>3, <1>4, <1>5 DEF ToSet

\* Kept is a sequence of what s and keep have in common.
LEMMA KeptElements ==
    ASSUME NEW S, NEW s \in Seq(S), NEW keep
    PROVE  Kept(s, keep) \in Seq(S) /\ ToSet(Kept(s, keep)) = ToSet(s) \cap keep
<1> DEFINE step == [m \in 1..Len(s) |-> [t \in Seq(S) |->
                      IF s[m] \in keep THEN Append(t, s[m]) ELSE t]]
           kept == CHOOSE g : g = [n \in 0..Len(s) |->
                      IF n = 0 THEN <<>>
                      ELSE IF s[n] \in keep THEN Append(g[n - 1], s[n]) ELSE g[n - 1]]
           upTo(n) == {s[m] : m \in 1..n} \cap keep
           T == {n \in Nat : n <= Len(s) => kept[n] \in Seq(S) /\ ToSet(kept[n]) = upTo(n)}
<1>1. Len(s) \in Nat /\ DOMAIN s = 1..Len(s) /\ \A m \in 1..Len(s) : s[m] \in S
  BY LenProperties, ElementOfSeq
<1>2. \E g : g = [n \in 0..Len(s) |->
                      IF n = 0 THEN <<>>
                      ELSE IF s[n] \in keep THEN Append(g[n - 1], s[n]) ELSE g[n - 1]]
  <2>1. step \in [1..Len(s) -> [Seq(S) -> Seq(S)]]
    BY <1>1, AppendProperties
  <2>2. <<>> \in Seq(S)
    OBVIOUS
  <2>3. \A m \in 1..Len(s), t \in Seq(S) :
          step[m][t] = IF s[m] \in keep THEN Append(t, s[m]) ELSE t
    OBVIOUS
  <2> HIDE DEF step
  <2>4. PICK g : GoesBy(g, Seq(S), Len(s), <<>>, step)
    BY <1>1, <2>1, <2>2, RowOfSteps
  <2>5. ASSUME NEW n \in 0..Len(s)
        PROVE  g[n] = IF n = 0 THEN <<>>
                      ELSE IF s[n] \in keep THEN Append(g[n - 1], s[n]) ELSE g[n - 1]
    <3>1. n # 0 => n \in 1..Len(s) /\ g[n - 1] \in Seq(S)
      BY <1>1, <2>4 DEF GoesBy
    <3>2. QED
      BY <2>3, <2>4, <3>1 DEF GoesBy
  <2>6. QED
    BY <2>4, <2>5 DEF GoesBy
<1>3. kept = [n \in 0..Len(s) |->
                IF n = 0 THEN <<>>
                ELSE IF s[n] \in keep THEN Append(kept[n - 1], s[n]) ELSE kept[n - 1]]
  BY <1>2
<1>4. Kept(s, keep) = kept[Len(s)]
  BY DEF Kept
<1> HIDE DEF kept
<1>5. 0 \in T
  <2>1. kept[0] = <<>>
    BY <1>1, <1>3
  <2>2. upTo(0) = {} /\ ToSet(<<>>) = {} /\ <<>> \in Seq(S)
    BY DEF ToSet
  <2> HIDE DEF upTo
  <2>3. QED
    BY <2>1, <2>2
<1>6. ASSUME NEW n \in T
      PROVE  n + 1 \in T
  <2> SUFFICES ASSUME n + 1 <= Len(s)
               PROVE  kept[n + 1] \in Seq(S) /\ ToSet(kept[n + 1]) = upTo(n + 1)
    BY SMTT(30)
  <2>1. kept[n + 1] = IF s[n + 1] \in keep THEN Append(kept[n], s[n + 1]) ELSE kept[n]
    <3>1. n \in Nat /\ n + 1 \in 0..Len(s) /\ n + 1 # 0 /\ n + 1 - 1 = n
      BY <1>1
    <3>2. \A m \in 0..Len(s) : kept[m] =
                IF m = 0 THEN <<>>
                ELSE IF s[m] \in keep THEN Append(kept[m - 1], s[m]) ELSE kept[m - 1]
      BY <1>3
    <3>3. kept[n + 1] =
                IF n + 1 = 0 THEN <<>>
                ELSE IF s[n + 1] \in keep THEN Append(kept[n + 1 - 1], s[n + 1])
                ELSE kept[n + 1 - 1]
      BY <3>1, <3>2
    <3>4. QED
      BY ONLY <3>1, <3>3
  <2>2. kept[n] \in Seq(S) /\ ToSet(kept[n]) = upTo(n) /\ s[n + 1] \in S
    BY <1>1
  <2>3. upTo(n + 1) = upTo(n) \cup ({s[n + 1]} \cap keep)
    OBVIOUS
  <2>4. /\ Append(kept[n], s[n + 1]) \in Seq(S)
        /\ ToSet(Append(kept[n], s[n + 1])) = ToSet(kept[n]) \cup {s[n + 1]}
    BY <2>2, Appended
  <2> HIDE DEF upTo, T
  <2>5. CASE s[n + 1] \in keep
    BY <2>1, <2>2, <2>3, <2>4, <2>5
  <2>6. CASE s[n + 1] \notin keep
    BY <2>1, <2>2, <2>3, <2>6
  <2>7. QED
    BY <2>5, <2>6
<1>7. upTo(Len(s)) = ToSet(s) \cap keep
  BY <1>1 DEF ToSet
<1> HIDE DEF T
<1>8. T = Nat
  BY <1>5, <1>6, CountingUp DEF T
<1>9. Len(s) \in T
  BY <1>1, <1>8
<1>10. Len(s) <= Len(s)
  BY <1>1
<1> HIDE DEF upTo
<1>11. QED
  BY <1>4, <1>7, <1>9, <1>10 DEF T

\* FlattenSeq has the elements of each sequence.
LEMMA FlattenedElements ==
    ASSUME NEW S, NEW ss \in Seq(Seq(S))
    PROVE  /\ FlattenSeq(ss) \in Seq(S)
           /\ ToSet(FlattenSeq(ss)) = UNION {ToSet(ss[n]) : n \in DOMAIN ss}
<1> DEFINE N == Len(ss)
           step == [m \in 1..N |-> [t \in Seq(S) |-> t \o ss[m]]]
           flat == CHOOSE g : g = [i \in 1..N |-> IF i = 1 THEN ss[i] ELSE g[i - 1] \o ss[i]]
           upTo(n) == UNION {ToSet(ss[m]) : m \in 1..n}
           T == {n \in Nat : n <= N /\ n # 0 => flat[n] \in Seq(S) /\ ToSet(flat[n]) = upTo(n)}
<1>1. N \in Nat /\ DOMAIN ss = 1..N /\ \A m \in 1..N : ss[m] \in Seq(S)
  BY LenProperties, ElementOfSeq
<1> HIDE DEF N
<1>2. \E g : g = [i \in 1..N |-> IF i = 1 THEN ss[i] ELSE g[i - 1] \o ss[i]]
  <2>1. step \in [1..N -> [Seq(S) -> Seq(S)]]
    BY <1>1, ConcatProperties
  <2>2. \A m \in 1..N, t \in Seq(S) : step[m][t] = t \o ss[m]
    OBVIOUS
  <2> HIDE DEF step
  <2>3. PICK f : GoesBy(f, Seq(S), N, <<>>, step)
    BY <1>1, <2>1, <<>> \in Seq(S), RowOfSteps
  <2> DEFINE g == [i \in 1..N |-> f[i]]
  <2>4. ASSUME NEW i \in 1..N PROVE g[i] = IF i = 1 THEN ss[i] ELSE g[i - 1] \o ss[i]
    <3>1. i - 1 \in 0..N /\ f[i - 1] \in Seq(S) /\ ss[i] \in Seq(S)
      BY <1>1, <2>3 DEF GoesBy
    <3>2. f[i] = f[i - 1] \o ss[i]
      BY <2>2, <2>3, <3>1 DEF GoesBy
    <3>3. CASE i = 1
      <4>1. f[i - 1] = <<>>
        BY <2>3, <3>3 DEF GoesBy
      <4>2. f[i] = ss[i]
        BY <3>1, <3>2, <4>1, ConcatEmptySeq
      <4>3. QED
        BY <3>3, <4>2
    <3>4. CASE i # 1
      BY <1>1, <3>2, <3>4
    <3>5. QED
      BY <3>3, <3>4
  <2> HIDE DEF g
  <2>5. g = [i \in 1..N |-> g[i]]
    BY DEF g
  <2>6. QED
    BY <2>4, <2>5
<1>3. flat = [i \in 1..N |-> IF i = 1 THEN ss[i] ELSE flat[i - 1] \o ss[i]]
  BY <1>2
<1>4. N # 0 => FlattenSeq(ss) = flat[N]
  BY DEF FlattenSeq, N
<1> HIDE DEF flat, upTo
<1>5. 0 \in T
  OBVIOUS
<1>6. ASSUME NEW n \in T
      PROVE  n + 1 \in T
  <2> SUFFICES ASSUME n + 1 <= N
               PROVE  flat[n + 1] \in Seq(S) /\ ToSet(flat[n + 1]) = upTo(n + 1)
    OBVIOUS
  <2>1. n \in Nat /\ n + 1 \in 1..N /\ ss[n + 1] \in Seq(S) /\ n + 1 - 1 = n
    BY <1>1
  <2>2. flat[n + 1] = IF n + 1 = 1 THEN ss[n + 1] ELSE flat[n] \o ss[n + 1]
    <3>1. \A i \in 1..N : flat[i] = IF i = 1 THEN ss[i] ELSE flat[i - 1] \o ss[i]
      BY <1>3
    <3>2. flat[n + 1] = IF n + 1 = 1 THEN ss[n + 1] ELSE flat[n + 1 - 1] \o ss[n + 1]
      BY <2>1, <3>1
    <3>3. QED
      BY ONLY <2>1, <3>2
  <2>3. CASE n = 0
    <3>1. flat[n + 1] = ss[n + 1]
      BY <2>2, <2>3
    <3>2. \A m \in Nat : m \in 1..(n + 1) <=> m = n + 1
      BY <2>1, <2>3
    <3>3. upTo(n + 1) = ToSet(ss[n + 1])
      BY <2>1, <3>2 DEF upTo
    <3>4. QED
      BY <2>1, <3>1, <3>3
  <2>4. CASE n # 0
    <3>1. flat[n + 1] = flat[n] \o ss[n + 1]
      <4>1. n + 1 # 1
        BY <2>1, <2>4
      <4>2. QED
        BY <2>2, <4>1, Zenon
    <3>2. flat[n] \in Seq(S) /\ ToSet(flat[n]) = upTo(n)
      BY <1>1, <2>1, <2>4
    <3>3. upTo(n + 1) = upTo(n) \cup ToSet(ss[n + 1])
      <4>1. \A m \in Nat : m \in 1..(n + 1) <=> m \in 1..n \/ m = n + 1
        BY <2>1
      <4>2. QED
        BY <2>1, <4>1 DEF upTo
    <3>4. /\ flat[n] \o ss[n + 1] \in Seq(S)
          /\ ToSet(flat[n] \o ss[n + 1]) = ToSet(flat[n]) \cup ToSet(ss[n + 1])
      BY <2>1, <3>2, Joined
    <3>5. QED
      BY ONLY <3>1, <3>2, <3>3, <3>4
  <2>5. QED
    BY <2>3, <2>4
<1>7. upTo(N) = UNION {ToSet(ss[n]) : n \in DOMAIN ss}
  BY <1>1 DEF upTo
<1> HIDE DEF T
<1>8. T = Nat
  BY <1>5, <1>6, CountingUp DEF T
<1>9. N \in T /\ N <= N
  BY <1>1, <1>8
<1>10. CASE N = 0
  <2>1. FlattenSeq(ss) = ss /\ ss = <<>>
    BY <1>10, EmptySeq DEF FlattenSeq, N
  <2>2. QED
    BY <2>1 DEF ToSet
<1>11. CASE N # 0
  BY <1>4, <1>7, <1>9, <1>11 DEF T
<1>12. QED
  BY <1>10, <1>11

-----------------------------------------------------------------------------
(* Sorting                                                                  *)

\* What is ordered strictly and completely can be put in a row.
LEMMA Sortable ==
    ASSUME NEW L \in Nat, NEW less \in [1..L -> SUBSET (1..L)],
           \A m \in 1..L : m \notin less[m],
           \A m, n \in 1..L : m \in less[n] => less[m] \subseteq less[n],
           \A m, n \in 1..L : m # n => m \in less[n] \/ n \in less[m]
    PROVE  \E p \in [1..L -> 1..L] :
             /\ \A m, n \in 1..L : m # n => p[m] # p[n]
             /\ \A m, n \in 1..L : m < n => p[m] \in less[p[n]]
<1> DEFINE D == 1..L
           rank == [m \in D |-> Cardinality(less[m]) + 1]
<1>1. IsFiniteSet(D) /\ Cardinality(D) = L
  BY FS_Interval
<1>2. \A m \in D : IsFiniteSet(less[m]) /\ Cardinality(less[m]) \in Nat /\ Cardinality(less[m]) <= L
  BY <1>1, FS_Subset, FS_CardinalityType
<1>3. \A m \in D : Cardinality(less[m]) # L
  BY <1>1, FS_Subset
<1>4. rank \in [D -> D]
  BY <1>2, <1>3
<1>5. \A m, n \in D : m \in less[n] => rank[m] < rank[n]
  <2> SUFFICES ASSUME NEW m \in D, NEW n \in D, m \in less[n]
               PROVE  rank[m] < rank[n]
    OBVIOUS
  <2>1. less[m] \subseteq less[n] /\ less[m] # less[n]
    OBVIOUS
  <2>2. Cardinality(less[m]) <= Cardinality(less[n]) /\ Cardinality(less[n]) # Cardinality(less[m])
    BY <1>2, <2>1, FS_Subset
  <2>3. QED
    BY <1>2, <2>2
<1> HIDE DEF rank
<1>6. \A m, n \in D : m # n => rank[m] # rank[n]
  BY <1>4, <1>5
<1>7. rank \in Injection(D, D)
  BY <1>4, <1>6 DEF Injection, IsInjective
<1>8. \A r \in D : \E m \in D : rank[m] = r
  <2>1. rank \in Surjection(D, D)
    BY <1>1, <1>7, FS_Injection
  <2>2. QED
    BY <2>1 DEF Surjection
<1> DEFINE p == [r \in D |-> CHOOSE m \in D : rank[m] = r]
<1>9. \A r \in D : p[r] \in D /\ rank[p[r]] = r
  BY <1>8
<1>10. p \in [D -> D]
  BY <1>9
<1> HIDE DEF p
<1>11. \A m, n \in D : m # n => p[m] # p[n]
  BY <1>9
<1>12. \A m, n \in D : m < n => p[m] \in less[p[n]]
  BY <1>5, <1>9, <1>11
<1>13. QED
  BY <1>10, <1>11, <1>12

\* 1..n has n elements.
LEMMA Counted ==
    ASSUME NEW n \in Nat
    PROVE  IsFiniteSet(1..n) /\ Cardinality(1..n) = n
<1>1. IsFiniteSet(1..n) /\ Cardinality(1..n) = IF 1 > n THEN 0 ELSE n - 1 + 1
  BY FS_Interval
<1>2. QED
  BY <1>1

Rows == [item : Item, match : Int]

\* Min of two numbers.
LEMMA LesserOfTwo ==
    ASSUME NEW a \in Int, NEW b \in Int
    PROVE  Min({a, b}) = IF a <= b THEN a ELSE b
<1> DEFINE least == IF a <= b THEN a ELSE b
<1>1. least \in {a, b} /\ \A y \in {a, b} : least <= y
  OBVIOUS
<1>2. \A x \in {a, b} : (\A y \in {a, b} : x <= y) => x = least
  OBVIOUS
<1>3. Min({a, b}) \in {a, b} /\ \A y \in {a, b} : Min({a, b}) <= y
  BY <1>1 DEF Min
<1>4. QED
  BY <1>2, <1>3

\* Max of two numbers.
LEMMA GreaterOfTwo ==
    ASSUME NEW a \in Int, NEW b \in Int
    PROVE  Max({a, b}) = IF a >= b THEN a ELSE b
<1> DEFINE most == IF a >= b THEN a ELSE b
<1>1. most \in {a, b} /\ \A y \in {a, b} : most >= y
  OBVIOUS
<1>2. \A x \in {a, b} : (\A y \in {a, b} : x >= y) => x = most
  OBVIOUS
<1>3. Max({a, b}) \in {a, b} /\ \A y \in {a, b} : Max({a, b}) >= y
  BY <1>1 DEF Max
<1>4. QED
  BY <1>2, <1>3

\* Cut is the head of a sequence.
LEMMA CutElements ==
    ASSUME NEW S, NEW s \in Seq(S), NEW n \in Nat
    PROVE  /\ Cut(s, n) \in Seq(S)
           /\ Len(Cut(s, n)) = IF n <= Len(s) THEN n ELSE Len(s)
           /\ DOMAIN Cut(s, n) = 1..Len(Cut(s, n)) /\ DOMAIN Cut(s, n) \subseteq DOMAIN s
           /\ \A i \in DOMAIN Cut(s, n) : Cut(s, n)[i] = s[i]
<1> DEFINE m == IF n <= Len(s) THEN n ELSE Len(s)
<1>1. Len(s) \in Nat /\ DOMAIN s = 1..Len(s) /\ \A i \in 1..Len(s) : s[i] \in S
  BY LenProperties, ElementOfSeq
<1>2. m \in Nat /\ m <= Len(s) /\ Min({n, Len(s)}) = m
  BY <1>1, LesserOfTwo
<1>3. Cut(s, n) = SubSeq(s, 1, m)
  BY <1>2 DEF Cut
<1> HIDE DEF m
<1>4. \A i \in 1..m : s[i] \in S
  BY <1>1, <1>2
<1>5. /\ SubSeq(s, 1, m) \in Seq(S)
      /\ Len(SubSeq(s, 1, m)) = IF 1 <= m THEN m - 1 + 1 ELSE 0
      /\ \A i \in 1..(m - 1 + 1) : SubSeq(s, 1, m)[i] = s[1 + i - 1]
  BY <1>2, <1>4, SubSeqProperties
<1>6. Len(SubSeq(s, 1, m)) = m
  BY <1>2, <1>5
<1>7. DOMAIN SubSeq(s, 1, m) = 1..m
  BY <1>5, <1>6, LenProperties
<1>8. \A i \in 1..m : SubSeq(s, 1, m)[i] = s[i]
  BY <1>2, <1>5
<1>9. QED
  BY <1>1, <1>2, <1>3, <1>5, <1>6, <1>7, <1>8 DEF m

\* The dishes of a ranking are those of the menus, and no match is below a later one.
LEMMA RankedElements ==
    ASSUME NEW dishes \in Seq(Rows)
    PROVE  /\ Ranked(dishes) \in Seq(Rows) /\ Len(Ranked(dishes)) = Len(dishes)
           /\ ToSet(Ranked(dishes)) = ToSet(dishes)
           /\ \A m, n \in 1..Len(dishes) :
                m < n => Ranked(dishes)[m].match >= Ranked(dishes)[n].match
<1> DEFINE L == Len(dishes)
           before(m, n) == \/ dishes[m].match > dishes[n].match
                           \/ dishes[m].match = dishes[n].match /\ m < n
           less == [n \in 1..L |-> {m \in 1..L : before(m, n)}]
           sorted(p) == \A m, n \in DOMAIN dishes : m < n => before(p[m], p[n])
           order == CHOOSE p \in SetToSeqs(DOMAIN dishes) : sorted(p)
<1>1. L \in Nat /\ DOMAIN dishes = 1..L /\ \A m \in 1..L : dishes[m] \in Rows
  BY LenProperties, ElementOfSeq
<1>2. \A m \in 1..L : dishes[m].match \in Int
  BY <1>1 DEF Rows
<1>3. Cardinality(1..L) = L /\ IsFiniteSet(1..L)
  BY <1>1, Counted
<1>4. PICK p \in [1..L -> 1..L] :
             /\ \A m, n \in 1..L : m # n => p[m] # p[n]
             /\ \A m, n \in 1..L : m < n => p[m] \in less[p[n]]
  <2>1. less \in [1..L -> SUBSET (1..L)]
    OBVIOUS
  <2>2. \A m \in 1..L : m \notin less[m]
    BY <1>1, <1>2
  <2>3. \A m, n \in 1..L : m \in less[n] <=> before(m, n)
    OBVIOUS
  <2>4. \A l, m, n \in 1..L : before(l, m) /\ before(m, n) => before(l, n)
    BY <1>1, <1>2
  <2>5. \A m, n \in 1..L : m # n => before(m, n) \/ before(n, m)
    BY <1>1, <1>2
  <2> HIDE DEF less, before
  <2>6. \A m, n \in 1..L : m \in less[n] => less[m] \subseteq less[n]
    BY <2>1, <2>3, <2>4
  <2>7. \A m, n \in 1..L : m # n => m \in less[n] \/ n \in less[m]
    BY <2>3, <2>5
  <2> HIDE DEF L
  <2>8. QED
    BY <1>1, <2>1, <2>2, <2>6, <2>7, Sortable
<1>5. sorted(p)
  BY <1>1, <1>4
<1>6. p \in SetToSeqs(DOMAIN dishes)
  BY <1>1, <1>3, <1>4 DEF SetToSeqs
<1>7. order \in SetToSeqs(DOMAIN dishes) /\ sorted(order)
  <2> HIDE DEF sorted
  <2>1. QED
    BY <1>5, <1>6
<1>8. Ranked(dishes) = [n \in DOMAIN dishes |-> dishes[order[n]]]
  BY DEF Ranked
<1> HIDE DEF order
<1>9. order \in [1..L -> 1..L] /\ \A i, j \in 1..L : i # j => order[i] # order[j]
  BY <1>1, <1>3, <1>7 DEF SetToSeqs
<1>10. \A n \in 1..L : \E m \in 1..L : order[m] = n
  <2>1. order \in Injection(1..L, 1..L)
    BY <1>9 DEF Injection, IsInjective
  <2>2. order \in Surjection(1..L, 1..L)
    BY <1>3, <2>1, FS_Injection
  <2>3. QED
    BY <2>2 DEF Surjection
<1> DEFINE r == Ranked(dishes)
<1>11. DOMAIN r = 1..L /\ \A n \in 1..L : r[n] = dishes[order[n]]
  BY <1>1, <1>8
<1>12. r \in Seq(Rows) /\ Len(r) = L
  <2>1. r \in [1..L -> Rows]
    BY <1>1, <1>8, <1>9
  <2> HIDE DEF r
  <2>2. r \in Seq(Rows)
    BY <1>1, <2>1, SeqDef
  <2>3. QED
    BY <1>1, <1>11, <2>2, LenProperties
<1>13. ToSet(r) = ToSet(dishes)
  <2> HIDE DEF r
  <2>1. ASSUME NEW n \in 1..L PROVE r[n] \in ToSet(dishes)
    BY <1>1, <1>9, <1>11 DEF ToSet
  <2>2. ASSUME NEW n \in 1..L PROVE dishes[n] \in ToSet(r)
    <3>1. PICK m \in 1..L : order[m] = n
      BY <1>10
    <3>2. r[m] = dishes[n]
      BY <1>11, <3>1
    <3>3. QED
      BY <1>11, <3>2 DEF ToSet
  <2>3. QED
    BY <1>1, <1>11, <2>1, <2>2 DEF ToSet
<1>14. ASSUME NEW m \in 1..L, NEW n \in 1..L, m < n PROVE r[m].match >= r[n].match
  <2>1. before(order[m], order[n])
    BY <1>1, <1>7, <1>14
  <2>2. dishes[order[m]].match \in Int /\ dishes[order[n]].match \in Int
    BY <1>2, <1>9
  <2>3. dishes[order[m]].match >= dishes[order[n]].match
    BY <2>1, <2>2
  <2>4. QED
    BY <1>11, <2>3
<1>15. QED
  BY <1>12, <1>13, <1>14

\* The dishes shown are of the menus, and those left out match no better.
LEMMA TopDishesElements ==
    ASSUME NEW dishes \in Seq(Rows), NEW many \in Nat
    PROVE  /\ TopDishes(dishes, many) \in Seq(Rows)
           /\ ToSet(TopDishes(dishes, many)) \subseteq ToSet(dishes)
           /\ \A row \in ToSet(dishes) \ ToSet(TopDishes(dishes, many)) :
                /\ Len(TopDishes(dishes, many)) = many
                /\ \A n \in 1..many : TopDishes(dishes, many)[n].match >= row.match
<1> DEFINE r == Ranked(dishes)
           top == TopDishes(dishes, many)
<1>1. /\ r \in Seq(Rows) /\ Len(r) = Len(dishes) /\ ToSet(r) = ToSet(dishes)
      /\ \A m, n \in 1..Len(dishes) : m < n => r[m].match >= r[n].match
  BY RankedElements
<1>2. top = Cut(r, many)
  BY DEF TopDishes
<1> HIDE DEF r, top
<1>3. Len(r) \in Nat /\ DOMAIN r = 1..Len(r) /\ \A m \in 1..Len(r) : r[m] \in Rows
  BY <1>1, LenProperties, ElementOfSeq
<1>4. /\ top \in Seq(Rows) /\ Len(top) = IF many <= Len(r) THEN many ELSE Len(r)
      /\ DOMAIN top = 1..Len(top) /\ DOMAIN top \subseteq DOMAIN r
      /\ \A i \in DOMAIN top : top[i] = r[i]
  BY <1>1, <1>2, CutElements
<1>5. ToSet(top) \subseteq ToSet(dishes)
  BY <1>1, <1>4 DEF ToSet
<1>6. ASSUME NEW row \in ToSet(dishes) \ ToSet(top)
      PROVE  Len(top) = many /\ \A n \in 1..many : top[n].match >= row.match
  <2>1. PICK m \in 1..Len(r) : row = r[m]
    BY <1>1, <1>3 DEF ToSet
  <2>2. m \notin 1..Len(top)
    BY <1>4, <1>6, <2>1 DEF ToSet
  <2>3. many <= Len(r) /\ Len(top) = many /\ many < m
    <3>1. Len(r) \in Nat /\ Len(top) \in Nat /\ m > Len(top)
      BY <1>3, <1>4, <2>2
    <3>2. CASE many <= Len(r)
      <4>1. Len(top) = many
        BY <1>4, <3>2
      <4>2. QED
        BY <3>1, <3>2, <4>1
    <3>3. CASE ~(many <= Len(r))
      <4>1. Len(top) = Len(r)
        BY <1>4, <3>3
      <4>2. QED
        BY ONLY <3>1, <4>1, m \in 1..Len(r)
    <3>4. QED
      BY <3>2, <3>3
  <2>4. ASSUME NEW n \in 1..many PROVE top[n].match >= row.match
    <3>1. n \in DOMAIN top /\ n < m /\ n \in 1..Len(r)
      BY <1>3, <1>4, <2>3
    <3>2. r[n].match >= r[m].match
      BY <1>1, <3>1
    <3>3. QED
      BY <1>4, <2>1, <3>1, <3>2
  <2>5. QED
    BY <2>3, <2>4
<1>7. QED
  BY <1>4, <1>5, <1>6 DEF top

\* The match of a dish is a number (ai/service/dish.go, scoreDish).
LEMMA ScoreType ==
    ASSUME NEW i, NEW words, IsFiniteSet(DOMAIN words), NEW taste,
           taste = None \/ {taste.spice, taste.richness, taste.acidity} \subseteq Int
    PROVE  Score(i, words, taste) \in Int
<1> DEFINE fit == IF taste = None THEN 0
               ELSE 24 - Abs(taste.spice - Flavor(i).spicy) - Abs(taste.richness - Flavor(i).rich)
                       - Abs(taste.acidity - Flavor(i).sour)
           raw == 60 + 6 * Hits(i, words) + fit
<1>1. Hits(i, words) \in Nat
  <2>1. {n \in DOMAIN words : words[n] \in Dish[i].words \cup Dish[i].tags} \in SUBSET DOMAIN words
    OBVIOUS
  <2>2. QED
    BY <2>1, FS_Subset, FS_CardinalityType DEF Hits
<1>2. Flavor(i).spicy \in Int /\ Flavor(i).rich \in Int /\ Flavor(i).sour \in Int
  BY DEF Flavor
<1>3. \A n \in Int : Abs(n) \in Int
  BY DEF Abs
<1>4. fit \in Int
  <2>1. CASE taste = None
    BY <2>1
  <2>2. CASE taste # None
    <3>1. taste.spice \in Int /\ taste.richness \in Int /\ taste.acidity \in Int
      BY <2>2
    <3>2. Abs(taste.spice - Flavor(i).spicy) \in Int /\ Abs(taste.richness - Flavor(i).rich) \in Int
          /\ Abs(taste.acidity - Flavor(i).sour) \in Int
      BY <1>2, <1>3, <3>1
    <3>3. QED
      BY <2>2, <3>2
  <2>3. QED
    BY <2>1, <2>2
<1> HIDE DEF fit
<1>5. raw \in Int
  BY <1>1, <1>4
<1>6. Score(i, words, taste) = Max({50, Min({99, raw})})
  BY DEF Score, fit
<1> HIDE DEF raw
<1>7. Min({99, raw}) \in Int
  BY <1>5, LesserOfTwo
<1>8. QED
  BY <1>6, <1>7, GreaterOfTwo

-----------------------------------------------------------------------------
(* The inductive invariant.  W is what a call has seen: the worlds since it   *)
(* began.  All that is said of W stays true when it grows.                    *)

Worlds ==
    {w \in [up : SUBSET (Restaurant \cup Category \cup Item), items : SUBSET Item] :
       w.up \cap Item \subseteq w.items}

SeenIn(W, x) == \E world \in W : x \in world.up
AlwaysIn(W, things) == \A world \in W : things \subseteq world.up

Fields == {"stage", "req", "since", "words", "taste", "intent", "found", "left", "opened",
           "dishes", "sent", "answer", "reply", "whole"}

Typed(row) ==
    /\ DOMAIN row = Fields /\ row.req \in Requests
    /\ IsFiniteSet(DOMAIN row.words)
    /\ row.taste = None \/ {row.taste.spice, row.taste.richness, row.taste.acidity} \subseteq Int
    /\ DOMAIN row.intent = {"cuisine", "minutes"} /\ row.intent.minutes \in Int \cup {None}
    /\ row.dishes \in Seq(Rows)

\* The dishes of a listing, and what it has yet to read.
Offers(W, row, i) ==
    /\ SeenIn(W, i) /\ SeenIn(W, CategoryOf(i)) /\ SeenIn(W, RestaurantOf(i))
    /\ KeepsDish(row.req.filter, i) /\ KeepsRestaurant(row.req.filter, RestaurantOf(i))

ListingHonest(W, row) ==
    /\ row.stage \in {"taste", "search", "list", "categories", "items", "compose", "record",
                      "ended", "died"}
    /\ row.stage = "taste" => row.req.kind = "stream"
    /\ row.found \in Seq(Restaurant) /\ row.left \in Seq(Restaurant) /\ row.opened \in Seq(Category)
    /\ \A r \in ToSet(row.found) : SeenIn(W, r) /\ KeepsRestaurant(row.req.filter, r)
    /\ ToSet(row.left) \subseteq ToSet(row.found)
    /\ row.stage = "items" =>
         /\ row.left # <<>>
         /\ \A c \in ToSet(row.opened) : c \in ToSet(CategoriesOf[Head(row.left)]) /\ SeenIn(W, c)
    /\ row.stage \in {"taste", "search", "list"} => row.dishes = <<>>
    /\ \A d \in ToSet(row.dishes) :
         Offers(W, row, d.item) /\ d.match = Score(d.item, row.words, row.taste)

\* i has to be shown unless better dishes are.
Due(W, row, i) ==
    /\ RestaurantOf(i) \in ToSet(row.found)
    /\ AlwaysIn(W, {i, CategoryOf(i), RestaurantOf(i)}) /\ KeepsDish(row.req.filter, i)

Carries(row, i) == \E d \in ToSet(row.dishes) : d.item = i
Space(row) == IF row.req.kind = "dishes" THEN Many ELSE Few

ListingBest(W, row) ==
    /\ row.stage \in {"categories", "items"} =>
         \A i \in Item : Due(W, row, i) => Carries(row, i) \/ RestaurantOf(i) \in ToSet(row.left)
    /\ row.stage = "items" =>
         \A c \in ToSet(CategoriesOf[Head(row.left)]) : AlwaysIn(W, {c}) => c \in ToSet(row.opened)
    /\ row.stage \in {"compose", "record", "ended"} =>
         \A i \in Item : Due(W, row, i) =>
            \/ Carries(row, i)
            \/ /\ Len(row.dishes) = Space(row)
               /\ \A n \in 1..Space(row) : row.dishes[n].match >= Score(i, row.words, row.taste)

SearchHonest(W, row) ==
    /\ row.stage \in {"chat", "refine", "find", "ended", "died"}
    /\ row.found \in Seq(Restaurant)
    /\ row.stage \in {"chat", "refine", "find"} => row.found = <<>>
    /\ \A r \in ToSet(row.found) :
         /\ SeenIn(W, r)
         /\ row.intent.cuisine \in Facts[r].cuisines \cup {None}
         /\ row.intent.minutes # None =>
              Facts[r].prep = 0 \/ Facts[r].prep <= row.intent.minutes

ThereHonest(W, row) ==
    /\ row.stage \in IF row.req.kind = "dish" THEN {"dish", "ended", "died"}
                     ELSE {"saved", "hydrate", "ended", "died"}
    /\ \A d \in ToSet(row.dishes) : \E world \in W : d.item \in world.items

FavoritesBest(W, row) ==
    LET gone(i) == \E world \in W : i \notin world.items
    IN /\ row.left \in Seq(Item) /\ row.found \in Seq(Item)
       /\ row.stage # "ended" => row.reply # "favorites"
       /\ row.whole /\ row.stage = "hydrate" =>
            \A i \in ToSet(row.found) : Carries(row, i) \/ i \in ToSet(row.left) \/ gone(i)
       /\ row.whole /\ row.reply = "favorites" =>
            \A i \in ToSet(row.found) : Carries(row, i) \/ gone(i)

Good(W, row) ==
    \/ row.stage = "idle"
    \/ /\ Typed(row)
       /\ row.req.kind \in Listings => ListingHonest(W, row) /\ (row.whole => ListingBest(W, row))
       /\ row.req.kind \in {"search", "chat"} => SearchHonest(W, row)
       /\ row.req.kind \in {"dish", "favorites"} => ThereHonest(W, row)
       /\ row.req.kind = "favorites" => FavoritesBest(W, row)

Seen(row) == {worlds[n] : n \in row.since..Len(worlds)}

AssistInv ==
    /\ worlds \in Seq(Worlds) /\ worlds # <<>>
    /\ tastes \in [User -> Spices \cup {None}]
    /\ saved \in [User -> SUBSET Item] /\ \A u \in User : IsFiniteSet(saved[u])
    /\ DOMAIN calls = Call
    /\ \A k \in Call : \/ At(k, "idle")
                       \/ calls[k].since \in 1..Len(worlds) /\ Good(Seen(calls[k]), calls[k])

-----------------------------------------------------------------------------
(* What holds of every row                                                   *)

\* What the assumption says of a request.
LEMMA RequestFacts ==
    ASSUME NEW q \in Requests
    PROVE  /\ q.kind \in Kinds /\ IsFiniteSet(DOMAIN q.words)
           /\ q.taste = None \/ {q.taste.spice, q.taste.richness, q.taste.acidity} \subseteq Int
           /\ q.kind \in {"stream", "favorites"} => q.user \in User
  BY AssistantAssumption

\* What the assumption says of menus and limits.
LEMMA MenuFacts ==
    /\ CategoriesOf \in [Restaurant -> Seq(Category)] /\ ItemsOf \in [Category -> Seq(Item)]
    /\ \A r \in Restaurant : Facts[r].prep \in Int
    /\ IsFiniteSet(Restaurant) /\ {Answered, Few, Many, MaxRestaurants, MaxFound} \subseteq Nat
    /\ None # "favorites" /\ Item \cap (Category \cup Restaurant) = {}
  BY AssistantAssumption

\* A dish has its category and its restaurant.
LEMMA PlaceOfItem ==
    /\ \A i \in Item : /\ CategoryOf(i) \in Category /\ i \in ToSet(ItemsOf[CategoryOf(i)])
                       /\ RestaurantOf(i) \in Restaurant
                       /\ CategoryOf(i) \in ToSet(CategoriesOf[RestaurantOf(i)])
    /\ \A i \in Item, c \in Category : i \in ToSet(ItemsOf[c]) => c = CategoryOf(i)
    /\ \A i \in Item, r \in Restaurant :
         CategoryOf(i) \in ToSet(CategoriesOf[r]) => r = RestaurantOf(i)
<1>1. /\ \A i \in Item : \E c \in Category : i \in ToSet(ItemsOf[c])
      /\ \A i \in Item : \E r \in Restaurant : CategoryOf(i) \in ToSet(CategoriesOf[r])
      /\ \A c, d \in Category : ToSet(ItemsOf[c]) \cap ToSet(ItemsOf[d]) # {} => c = d
      /\ \A r, q \in Restaurant : ToSet(CategoriesOf[r]) \cap ToSet(CategoriesOf[q]) # {} => r = q
  BY AssistantAssumption
<1>2. \A i \in Item : CategoryOf(i) \in Category /\ i \in ToSet(ItemsOf[CategoryOf(i)])
  BY <1>1 DEF CategoryOf
<1>3. \A i \in Item : /\ RestaurantOf(i) \in Restaurant
                      /\ CategoryOf(i) \in ToSet(CategoriesOf[RestaurantOf(i)])
  BY <1>1 DEF RestaurantOf
<1>4. ASSUME NEW i \in Item, NEW c \in Category, i \in ToSet(ItemsOf[c])
      PROVE  c = CategoryOf(i)
  <2>1. i \in ToSet(ItemsOf[c]) \cap ToSet(ItemsOf[CategoryOf(i)])
    BY <1>2, <1>4
  <2>2. QED
    BY <1>1, <1>2, <2>1
<1>5. ASSUME NEW i \in Item, NEW r \in Restaurant, CategoryOf(i) \in ToSet(CategoriesOf[r])
      PROVE  r = RestaurantOf(i)
  <2>1. CategoryOf(i) \in ToSet(CategoriesOf[r]) \cap ToSet(CategoriesOf[RestaurantOf(i)])
    BY <1>3, <1>5
  <2>2. QED
    BY <1>1, <1>3, <2>1
<1>6. QED
  BY <1>2, <1>3, <1>4, <1>5

\* What is said of a row stays true when more is seen.
LEMMA GoodGrows ==
    ASSUME NEW V, NEW W, W \subseteq V, NEW row, Good(W, row)
    PROVE  Good(V, row)
<1>1. \A x : SeenIn(W, x) => SeenIn(V, x)
  BY DEF SeenIn
<1>2. \A things : AlwaysIn(V, things) => AlwaysIn(W, things)
  BY DEF AlwaysIn
<1>3. \A i : Offers(W, row, i) => Offers(V, row, i)
  BY <1>1 DEF Offers
<1>4. \A i : Due(V, row, i) => Due(W, row, i)
  BY <1>2 DEF Due
<1>5. ListingHonest(W, row) => ListingHonest(V, row)
  BY <1>1, <1>3 DEF ListingHonest
<1>6. ListingBest(W, row) => ListingBest(V, row)
  BY <1>2, <1>4 DEF ListingBest
<1>7. SearchHonest(W, row) => SearchHonest(V, row)
  BY <1>1 DEF SearchHonest
<1>8. ThereHonest(W, row) => ThereHonest(V, row)
  BY DEF ThereHonest
<1>9. FavoritesBest(W, row) => FavoritesBest(V, row)
  BY DEF FavoritesBest
<1>10. QED
  BY <1>5, <1>6, <1>7, <1>8, <1>9 DEF Good

\* The stage says what kind of call it is.
LEMMA KindOfStage ==
    ASSUME NEW W, NEW row, Good(W, row), row.stage # "idle"
    PROVE  /\ Typed(row) /\ row.req \in Requests /\ row.req.kind \in Kinds
           /\ row.stage \in {"taste", "search", "list", "categories", "items", "compose",
                             "record"} =>
                /\ row.req.kind \in Listings /\ ListingHonest(W, row)
                /\ row.whole => ListingBest(W, row)
           /\ row.stage \in {"chat", "refine", "find"} =>
                row.req.kind \in {"search", "chat"} /\ SearchHonest(W, row)
           /\ row.stage = "dish" => row.req.kind = "dish" /\ ThereHonest(W, row)
           /\ row.stage \in {"saved", "hydrate"} =>
                row.req.kind = "favorites" /\ ThereHonest(W, row) /\ FavoritesBest(W, row)
<1>1. Typed(row) /\ row.req \in Requests /\ row.req.kind \in Kinds
  BY RequestFacts DEF Good, Typed
<1>2. /\ row.req.kind \in Listings => ListingHonest(W, row) /\ (row.whole => ListingBest(W, row))
      /\ row.req.kind \in {"search", "chat"} => SearchHonest(W, row)
      /\ row.req.kind \in {"dish", "favorites"} => ThereHonest(W, row)
      /\ row.req.kind = "favorites" => FavoritesBest(W, row)
  BY DEF Good
<1>3. row.req.kind \in Listings =>
        row.stage \in {"taste", "search", "list", "categories", "items", "compose", "record",
                       "ended", "died"}
  BY <1>2 DEF ListingHonest
<1>4. row.req.kind \in {"search", "chat"} =>
        row.stage \in {"chat", "refine", "find", "ended", "died"}
  BY <1>2 DEF SearchHonest
<1>5. /\ row.req.kind = "dish" => row.stage \in {"dish", "ended", "died"}
      /\ row.req.kind = "favorites" => row.stage \in {"saved", "hydrate", "ended", "died"}
  BY <1>2 DEF ThereHonest
<1>6. \/ row.req.kind \in Listings \/ row.req.kind \in {"search", "chat"}
      \/ row.req.kind = "dish" \/ row.req.kind = "favorites"
  BY <1>1 DEF Kinds, Listings
<1>7. CASE row.req.kind \in Listings
  BY <1>1, <1>2, <1>3, <1>7
<1>8. CASE row.req.kind \in {"search", "chat"}
  BY <1>1, <1>2, <1>4, <1>8
<1>9. CASE row.req.kind = "dish"
  BY <1>1, <1>2, <1>5, <1>9
<1>10. CASE row.req.kind = "favorites"
  BY <1>1, <1>2, <1>5, <1>10
<1>11. QED
  BY <1>6, <1>7, <1>8, <1>9, <1>10

-----------------------------------------------------------------------------
(* What a call finds                                                         *)

\* A call that has begun sees the present, and its row is good.
LEMMA CallFacts ==
    ASSUME AssistInv, NEW k \in Call, ~At(k, "idle")
    PROVE  /\ calls[k].since \in 1..Len(worlds) /\ Good(Seen(calls[k]), calls[k])
           /\ Now \in Seen(calls[k]) /\ Now \in Worlds
<1>1. calls[k].since \in 1..Len(worlds) /\ Good(Seen(calls[k]), calls[k])
  BY DEF AssistInv
<1>2. Len(worlds) \in Nat \ {0} /\ Len(worlds) \in 1..Len(worlds)
  BY EmptySeq, LenProperties DEF AssistInv
<1>3. Len(worlds) \in calls[k].since..Len(worlds)
  BY <1>1, <1>2
<1>4. QED
  BY <1>1, <1>2, <1>3, ElementOfSeq DEF AssistInv, Now, Seen

\* A step of a call that leaves its row good keeps the invariant.
LEMMA StepKeeps ==
    ASSUME AssistInv, NEW k \in Call, NEW row, calls' = [calls EXCEPT ![k] = row], UNCHANGED env,
           row.since \in 1..Len(worlds), Good(Seen(row), row)
    PROVE  AssistInv'
<1>1. /\ calls' = [calls EXCEPT ![k] = row] /\ worlds' = worlds /\ tastes' = tastes
      /\ saved' = saved
  BY DEF env
<1>2. DOMAIN calls' = Call /\ calls'[k] = row /\ \A j \in Call : j # k => calls'[j] = calls[j]
  BY <1>1 DEF AssistInv
<1>3. ASSUME NEW j \in Call
      PROVE  (At(j, "idle") \/
              (calls[j].since \in 1..Len(worlds) /\ Good(Seen(calls[j]), calls[j])))'
  <2>1. CASE j = k
    BY <1>1, <1>2, <2>1 DEF Seen
  <2>2. CASE j # k
    BY <1>1, <1>2, <2>2 DEF AssistInv, At, Seen
  <2>3. QED
    BY <2>1, <2>2
<1>4. QED
  BY <1>1, <1>2, <1>3 DEF AssistInv

-----------------------------------------------------------------------------
(* A call begins                                                             *)

\* What a message is parsed to.
LEMMA ParseType ==
    ASSUME NEW words
    PROVE  /\ DOMAIN Parse(words) = {"cuisine", "minutes"}
           /\ Parse(words).minutes \in Int \cup {None}
<1> DEFINE timed == {w \in DOMAIN MinutesOf : Has(words, w) /\ MinutesOf[w] > 0}
<1>1. timed # {} => MinutesOf[CHOOSE w \in timed : TRUE] \in Int
  <2>1. \A w \in DOMAIN MinutesOf : MinutesOf[w] \in Int
    BY AssistantAssumption
  <2>2. QED
    BY <2>1
<1>2. Parse(words).minutes = IF timed = {} THEN None ELSE MinutesOf[CHOOSE w \in timed : TRUE]
  BY DEF Parse
<1> HIDE DEF timed
<1>3. DOMAIN Parse(words) = {"cuisine", "minutes"}
  BY DEF Parse
<1>4. QED
  BY <1>1, <1>2, <1>3

\* A row that has nothing yet is good at the stage where its kind begins.
LEMMA StartGood ==
    ASSUME NEW W, NEW q \in Requests, NEW row, DOMAIN row = Fields, row.req = q,
           IsFiniteSet(DOMAIN row.words),
           \/ row.taste = None
           \/ {row.taste.spice, row.taste.richness, row.taste.acidity} \subseteq Int,
           row.intent = Parse(q.words), row.found = <<>>, row.left = <<>>, row.opened = <<>>,
           row.dishes = <<>>, row.reply # "favorites",
           q.kind \in Listings => row.stage \in {"taste", "search", "ended"},
           row.stage = "taste" => q.kind = "stream",
           q.kind \in {"search", "chat"} => row.stage \in {"chat", "refine", "find", "ended"},
           q.kind = "dish" => row.stage = "dish", q.kind = "favorites" => row.stage = "saved"
    PROVE  Good(W, row)
<1>1. ToSet(row.found) = {} /\ ToSet(row.dishes) = {} /\ ToSet(row.left) = {}
  BY DEF ToSet
<1>2. Typed(row)
  BY ParseType DEF Typed
<1>3. q.kind \in Listings => ListingHonest(W, row)
  BY <1>1 DEF ListingHonest
<1>4. q.kind \in Listings => ListingBest(W, row)
  BY <1>1 DEF ListingBest, Due
<1>5. q.kind \in {"search", "chat"} => SearchHonest(W, row)
  BY <1>1 DEF SearchHonest
<1>6. q.kind \in {"dish", "favorites"} => ThereHonest(W, row)
  BY <1>1 DEF ThereHonest
<1>7. q.kind = "favorites" => FavoritesBest(W, row)
  BY <1>1 DEF FavoritesBest
<1>8. QED
  BY <1>2, <1>3, <1>4, <1>5, <1>6, <1>7 DEF Good

\* A message of one word.
LEMMA Single ==
    ASSUME NEW S, NEW x \in S
    PROVE  <<x>> \in Seq(S) /\ ToSet(<<x>>) = {x}
  BY DEF ToSet

\* What a recommendation searches for is a sequence of words.
LEMMA TasteWordsFinite ==
    ASSUME NEW taste
    PROVE  IsFiniteSet(DOMAIN TasteWords(taste))
<1> DEFINE Words == {"spicy", "citrus", "rich"}
           first == IF taste.spice >= 7 THEN <<"spicy">> ELSE <<>>
           second == IF taste.citrus >= 6 THEN <<"citrus">> ELSE <<>>
           third == IF taste.richness >= 7 THEN <<"rich">> ELSE <<>>
<1>1. <<>> \in Seq(Words) /\ <<"spicy">> \in Seq(Words) /\ <<"citrus">> \in Seq(Words)
      /\ <<"rich">> \in Seq(Words)
  <2>1. \A x \in Words : <<x>> \in Seq(Words)
    BY Single, Zenon
  <2>2. "spicy" \in Words /\ "citrus" \in Words /\ "rich" \in Words
    OBVIOUS
  <2>3. <<>> \in Seq(Words)
    BY EmptySeq
  <2> HIDE DEF Words
  <2>4. QED
    BY <2>1, <2>2, <2>3, Zenon
<1>2. first \in Seq(Words) /\ second \in Seq(Words) /\ third \in Seq(Words)
  <2>1. /\ first \in {<<>>, <<"spicy">>} /\ second \in {<<>>, <<"citrus">>}
        /\ third \in {<<>>, <<"rich">>}
    BY Zenon
  <2> HIDE DEF first, second, third
  <2>2. QED
    BY <1>1, <2>1, Zenon
<1>3. TasteWords(taste) = IF taste = None THEN <<>> ELSE first \o second \o third
  BY DEF TasteWords
<1> HIDE DEF first, second, third, Words
<1>4. first \o second \in Seq(Words)
  BY <1>2, ConcatProperties
<1>5. (first \o second) \o third \in Seq(Words)
  BY <1>2, <1>4, ConcatProperties
<1>6. TasteWords(taste) \in Seq(Words)
  BY <1>1, <1>3, <1>5
<1>7. QED
  BY <1>6, LenProperties, Counted

\* Every kind of request begins with a good row.
LEMMA StartKeeps ==
    ASSUME AssistInv, NEW k \in Call, StartCall(k)
    PROVE  AssistInv'
<1>1. PICK q \in Requests : \/ StreamChat(k, q) \/ SearchDishes(k, q) \/ Recommend(k, q)
                            \/ Search(k, q) \/ Chat(k, q) \/ DishByID(k, q) \/ ListFavorites(k, q)
  BY DEF StartCall
<1>2. Len(worlds) \in 1..Len(worlds)
  BY EmptySeq, LenProperties DEF AssistInv
<1>3. /\ IsFiniteSet(DOMAIN q.words)
      /\ q.taste = None \/ {q.taste.spice, q.taste.richness, q.taste.acidity} \subseteq Int
      /\ None # "favorites"
  BY RequestFacts, MenuFacts
<1> DEFINE Begins(row) == row.since = Len(worlds) /\ Good(Seen(row), row)
<1>4. ASSUME NEW row, Begin(k, row), Begins(row) PROVE AssistInv'
  BY <1>2, <1>4, StepKeeps DEF Begin, Step
<1>5. ASSUME NEW stage,
             q.kind \in Listings => stage \in {"taste", "search", "ended"},
             stage = "taste" => q.kind = "stream",
             q.kind \in {"search", "chat"} => stage \in {"chat", "refine", "find", "ended"},
             q.kind = "dish" => stage = "dish", q.kind = "favorites" => stage = "saved"
      PROVE  Begins(Fresh(q, stage))
  <2> DEFINE row == Fresh(q, stage)
  <2>1. /\ DOMAIN row = Fields /\ row.stage = stage /\ row.req = q /\ row.since = Len(worlds)
        /\ row.words = q.words /\ row.taste = None
        /\ row.intent = Parse(q.words) /\ row.found = <<>> /\ row.left = <<>> /\ row.opened = <<>>
        /\ row.dishes = <<>> /\ row.reply = None
    BY DEF Fresh, Fields
  <2> HIDE DEF row
  <2>2. QED
    BY <1>3, <1>5, <2>1, StartGood DEF row
<1>6. ASSUME NEW reply, reply # "favorites", q.kind \in {"search", "chat"}
      PROVE  Begins(Refused(q, reply))
  <2> DEFINE row == Refused(q, reply)
  <2>1. /\ DOMAIN row = Fields /\ row.stage = "ended" /\ row.req = q /\ row.since = Len(worlds)
        /\ row.words = q.words /\ row.taste = None
        /\ row.intent = Parse(q.words) /\ row.found = <<>> /\ row.left = <<>> /\ row.opened = <<>>
        /\ row.dishes = <<>> /\ row.reply = reply
    BY DEF Refused, Fresh, Fields
  <2> HIDE DEF row
  <2>2. q.kind \notin Listings /\ q.kind # "dish" /\ q.kind # "favorites"
    BY <1>6 DEF Listings
  <2>3. QED
    BY <1>3, <1>6, <2>1, <2>2, StartGood DEF row
<1>7. CASE StreamChat(k, q)
  <2> DEFINE row == [Fresh(q, "ended") EXCEPT !.sent = <<"answer", "followups">>]
  <2>1. /\ DOMAIN row = Fields /\ row.stage = "ended" /\ row.req = q /\ row.since = Len(worlds)
        /\ row.words = q.words /\ row.taste = None
        /\ row.intent = Parse(q.words) /\ row.found = <<>> /\ row.left = <<>> /\ row.opened = <<>>
        /\ row.dishes = <<>> /\ row.reply = None
    BY DEF Fresh, Fields
  <2>2. q.kind = "stream" /\ (Begin(k, row) \/ Begin(k, Fresh(q, "taste")))
    BY <1>7 DEF StreamChat
  <2> HIDE DEF row
  <2>3. Begins(row)
    BY <1>3, <2>1, <2>2, StartGood
  <2>4. Begins(Fresh(q, "taste"))
    BY <1>5, <2>2
  <2> HIDE DEF Begins
  <2>5. QED
    BY <1>4, <2>2, <2>3, <2>4
<1>8. CASE SearchDishes(k, q)
  <2>1. q.kind = "dishes" /\ Begin(k, Fresh(q, "search"))
    BY <1>8 DEF SearchDishes
  <2>2. Begins(Fresh(q, "search"))
    BY <1>5, <2>1
  <2> HIDE DEF Begins
  <2>3. QED
    BY <1>4, <2>1, <2>2
<1>9. CASE Recommend(k, q)
  <2> DEFINE row == [Fresh(q, "search") EXCEPT !.words = TasteWords(q.taste), !.taste = q.taste]
  <2>1. /\ DOMAIN row = Fields /\ row.stage = "search" /\ row.req = q /\ row.since = Len(worlds)
        /\ row.words = TasteWords(q.taste) /\ row.taste = q.taste
        /\ row.intent = Parse(q.words) /\ row.found = <<>> /\ row.left = <<>> /\ row.opened = <<>>
        /\ row.dishes = <<>> /\ row.reply = None
    BY DEF Fresh, Fields
  <2>2. q.kind = "recommend" /\ Begin(k, row)
    BY <1>9 DEF Recommend
  <2> HIDE DEF row
  <2>3. Begins(row)
    BY <1>3, <2>1, <2>2, TasteWordsFinite, StartGood
  <2> HIDE DEF Begins
  <2>4. QED
    BY <1>4, <2>2, <2>3
<1>10. CASE Search(k, q)
  <2>1. /\ q.kind = "search"
        /\ \/ Begin(k, Refused(q, "query is required"))
           \/ Begin(k, Fresh(q, "refine")) \/ Begin(k, Fresh(q, "find"))
    BY <1>10 DEF Search
  <2> HIDE DEF Begins
  <2>2. Begins(Refused(q, "query is required"))
    BY <1>6, <2>1
  <2>3. Begins(Fresh(q, "refine")) /\ Begins(Fresh(q, "find"))
    <3>1. q.kind \notin Listings /\ q.kind # "dish" /\ q.kind # "favorites" /\ q.kind # "stream"
      BY <2>1 DEF Listings
    <3>2. QED
      BY <1>5, <2>1, <3>1
  <2>4. QED
    BY <1>4, <2>1, <2>2, <2>3
<1>11. CASE Chat(k, q)
  <2>1. /\ q.kind = "chat"
        /\ \/ Begin(k, Refused(q, "unavailable"))
           \/ Begin(k, Refused(q, "message is required")) \/ Begin(k, Fresh(q, "chat"))
    BY <1>11 DEF Chat
  <2> HIDE DEF Begins
  <2>2. Begins(Refused(q, "unavailable")) /\ Begins(Refused(q, "message is required"))
    BY <1>6, <2>1
  <2>3. Begins(Fresh(q, "chat"))
    <3>1. q.kind \notin Listings /\ q.kind # "dish" /\ q.kind # "favorites"
      BY <2>1 DEF Listings
    <3>2. QED
      BY <1>5, <2>1, <3>1
  <2>4. QED
    BY <1>4, <2>1, <2>2, <2>3
<1>12. CASE DishByID(k, q) \/ ListFavorites(k, q)
  <2>1. \/ q.kind = "dish" /\ Begin(k, Fresh(q, "dish"))
        \/ q.kind = "favorites" /\ Begin(k, Fresh(q, "saved"))
    BY <1>12 DEF DishByID, ListFavorites
  <2>2. q.kind = "dish" => Begins(Fresh(q, "dish"))
    BY <1>5 DEF Listings
  <2>3. q.kind = "favorites" => Begins(Fresh(q, "saved"))
    BY <1>5 DEF Listings
  <2> HIDE DEF Begins
  <2>4. QED
    BY <1>4, <2>1, <2>2, <2>3
<1>13. QED
  BY <1>1, <1>7, <1>8, <1>9, <1>10, <1>11, <1>12

-----------------------------------------------------------------------------
(* A call goes on                                                            *)

\* A call that goes on sees what it saw; its new row has to be good.
LEMMA WorkKeeps ==
    ASSUME AssistInv, NEW k \in Call, ~At(k, "idle"), NEW row,
           calls' = [calls EXCEPT ![k] = row], UNCHANGED env,
           row.since = calls[k].since, Good(Seen(calls[k]), row)
    PROVE  AssistInv'
<1>1. row.since \in 1..Len(worlds)
  BY CallFacts
<1>2. Seen(row) = Seen(calls[k])
  BY DEF Seen
<1>3. QED
  BY <1>1, <1>2, StepKeeps

\* What a row of a listing has to fulfil ...
LEMMA ListingGood ==
    ASSUME NEW W, NEW row, Typed(row), row.req.kind \in Listings, ListingHonest(W, row),
           row.whole => ListingBest(W, row)
    PROVE  Good(W, row)
<1>1. row.req.kind \notin {"search", "chat"} /\ row.req.kind \notin {"dish", "favorites"}
  BY DEF Listings
<1>2. QED
  BY <1>1 DEF Good

\* ... of a search or a chat ...
LEMMA SearchGood ==
    ASSUME NEW W, NEW row, Typed(row), row.req.kind \in {"search", "chat"}, SearchHonest(W, row)
    PROVE  Good(W, row)
<1>1. row.req.kind \notin Listings /\ row.req.kind \notin {"dish", "favorites"}
  BY DEF Listings
<1>2. QED
  BY <1>1 DEF Good

\* ... of a dish or of favorites.
LEMMA DishGood ==
    ASSUME NEW W, NEW row, Typed(row), row.req.kind \in {"dish", "favorites"}, ThereHonest(W, row),
           row.req.kind = "favorites" => FavoritesBest(W, row)
    PROVE  Good(W, row)
<1>1. row.req.kind \notin Listings /\ row.req.kind \notin {"search", "chat"}
  BY DEF Listings
<1>2. QED
  BY <1>1 DEF Good

\* Rows of restaurants that are open and fit.
LEMMA RestaurantsRead ==
    ASSUME NEW some \in SUBSET Restaurant, NEW p \in SetToSeqs(some), NEW most \in Nat
    PROVE  /\ Cut(p, most) \in Seq(Restaurant)
           /\ ToSet(Cut(p, most)) \subseteq some
<1>1. IsFiniteSet(some) /\ Cardinality(some) \in Nat
  BY MenuFacts, FS_Subset, FS_CardinalityType
<1>2. p \in [1..Cardinality(some) -> some]
  BY DEF SetToSeqs
<1>3. p \in Seq(some)
  BY <1>1, <1>2, SeqDef
<1>4. Cut(p, most) \in Seq(some)
  BY <1>1, <1>3, CutElements
<1> DEFINE c == Cut(p, most)
<1> HIDE DEF c
<1>5. c \in Seq(some)
  BY <1>4 DEF c
<1>6. ToSet(c) \subseteq some
  BY <1>5, LenProperties, ElementOfSeq DEF ToSet
<1>7. c \in Seq(Restaurant)
  BY <1>5, SeqMonotonic
<1>8. QED
  BY <1>6, <1>7 DEF c

\* Discovery lists restaurants that are open now.
LEMMA ListingRead ==
    ASSUME AssistInv, NEW s \in Listing
    PROVE  s \in Seq(Restaurant) /\ \A r \in ToSet(s) : r \in Restaurant /\ r \in Now.up
<1>1. Open \in SUBSET Restaurant /\ \A r \in Open : r \in Now.up
  BY DEF Open
<1>2. PICK p \in SetToSeqs(Open) : s = Cut(p, MaxRestaurants)
  BY DEF Listing
<1>3. s \in Seq(Restaurant) /\ ToSet(s) \subseteq Open
  BY <1>1, <1>2, MenuFacts, RestaurantsRead
<1>4. QED
  BY <1>1, <1>3

\* A search finds restaurants that are open now and have its cuisine.
LEMMA MatchingRead ==
    ASSUME NEW cuisine, NEW most \in Nat, NEW s \in Matching(cuisine, most)
    PROVE  /\ s \in Seq(Restaurant)
           /\ \A r \in ToSet(s) : r \in Restaurant /\ r \in Now.up
                                  /\ cuisine \in Facts[r].cuisines \cup {None}
<1> DEFINE fit == {r \in Open : cuisine = None \/ cuisine \in Facts[r].cuisines}
<1>1. fit \in SUBSET Restaurant
      /\ \A r \in fit : r \in Now.up /\ cuisine \in Facts[r].cuisines \cup {None}
  BY DEF Open
<1>2. PICK some \in SUBSET fit : \E p \in SetToSeqs(some) : s = Cut(p, most)
  BY DEF Matching
<1> HIDE DEF fit
<1>3. s \in Seq(Restaurant) /\ ToSet(s) \subseteq some
  BY <1>1, <1>2, RestaurantsRead
<1>4. QED
  BY <1>1, <1>3

\* The restaurants found are listed from the first.
LEMMA MenusKeep ==
    ASSUME AssistInv, NEW k \in Call, At(k, "search") \/ At(k, "list"),
           NEW s \in Seq(Restaurant), \A r \in ToSet(s) : r \in Now.up, NEW whole,
           ToMenus(k, s, whole)
    PROVE  AssistInv'
<1> DEFINE old == calls[k]
           W == Seen(old)
           keep == {r \in Restaurant : KeepsRestaurant(old.req.filter, r)}
           kept == Kept(s, keep)
           new == [old EXCEPT !.stage = "categories", !.found = kept, !.left = kept,
                              !.whole = whole]
<1>1. ~At(k, "idle") /\ old.stage \in {"search", "list"}
  BY DEF At
<1>2. Good(W, old) /\ Now \in W
  BY <1>1, CallFacts
<1>3. /\ Typed(old) /\ old.req.kind \in Listings /\ ListingHonest(W, old)
      /\ old.stage # "idle"
  BY <1>1, <1>2, KindOfStage
<1>4. kept \in Seq(Restaurant) /\ ToSet(kept) = ToSet(s) \cap keep
  BY KeptElements
<1>5. calls' = [calls EXCEPT ![k] = new] /\ UNCHANGED env
  BY DEF ToMenus, Step
<1> HIDE DEF kept
<1>6. /\ DOMAIN new = Fields /\ new.stage = "categories" /\ new.found = kept /\ new.left = kept
      /\ new.req = old.req /\ new.since = old.since
      /\ new.words = old.words /\ new.taste = old.taste
      /\ new.intent = old.intent /\ new.opened = old.opened /\ new.dishes = old.dishes
  BY <1>3 DEF Typed, Fields
<1> HIDE DEF new, W, old
<1>7. Typed(new)
  BY <1>3, <1>6 DEF Typed
<1>8. old.dishes = <<>> /\ ToSet(new.dishes) = {}
  BY <1>1, <1>3, <1>6 DEF ListingHonest, ToSet
<1>9. \A r \in ToSet(kept) : SeenIn(W, r) /\ KeepsRestaurant(old.req.filter, r)
  BY <1>2, <1>4 DEF SeenIn
<1>10. ListingHonest(W, new)
  BY <1>3, <1>4, <1>6, <1>8, <1>9 DEF ListingHonest
<1>11. ListingBest(W, new)
  BY <1>6 DEF ListingBest, Due
<1>12. Good(W, new)
  BY <1>3, <1>6, <1>7, <1>10, <1>11, ListingGood
<1>13. QED
  BY <1>1, <1>5, <1>6, <1>12, WorkKeeps DEF W, old

\* What is typed of the taste profile.
LEMMA ReadTasteKeeps ==
    ASSUME AssistInv, NEW k \in Call, ReadTaste(k)
    PROVE  AssistInv'
<1> DEFINE old == calls[k]
           W == Seen(old)
<1>1. ~At(k, "idle") /\ old.stage = "taste"
  BY DEF At, ReadTaste
<1>2. Good(W, old)
  BY <1>1, CallFacts
<1>3. /\ Typed(old) /\ old.req \in Requests /\ old.req.kind \in Listings /\ ListingHonest(W, old)
  BY <1>1, <1>2, KindOfStage
<1>4. old.req.kind = "stream" /\ old.dishes = <<>>
  BY <1>1, <1>3 DEF ListingHonest
<1> DEFINE row == tastes[old.req.user]
           fingerprint == [spice |-> IF row = None THEN 5 ELSE row, richness |-> 5, acidity |-> 3]
<1>5. {fingerprint.spice, fingerprint.richness, fingerprint.acidity} \subseteq Int
  <2>1. old.req.user \in User
    BY <1>3, <1>4, RequestFacts
  <2>2. row \in Spices \cup {None} /\ Spices \subseteq Int
    BY <2>1, AssistantAssumption DEF AssistInv
  <2> HIDE DEF row
  <2>3. (IF row = None THEN 5 ELSE row) \in Int
    BY <2>2
  <2>4. QED
    BY <2>3
<1>6. PICK taste \in {fingerprint, None} : \E sent :
        calls' = [calls EXCEPT ![k] = [old EXCEPT !.stage = "search", !.taste = taste,
                                                  !.sent = sent]]
        /\ UNCHANGED env
  BY DEF ReadTaste, Step
<1>7. PICK sent :
        calls' = [calls EXCEPT ![k] = [old EXCEPT !.stage = "search", !.taste = taste,
                                                  !.sent = sent]]
        /\ UNCHANGED env
  BY <1>6
<1> DEFINE new == [old EXCEPT !.stage = "search", !.taste = taste, !.sent = sent]
<1>8. /\ DOMAIN new = Fields /\ new.stage = "search" /\ new.taste = taste
      /\ new.found = old.found /\ new.left = old.left /\ new.opened = old.opened
      /\ new.req = old.req /\ new.since = old.since /\ new.words = old.words
      /\ new.intent = old.intent /\ new.dishes = old.dishes /\ new.whole = old.whole
  BY <1>3 DEF Typed, Fields
<1>9. calls' = [calls EXCEPT ![k] = new] /\ UNCHANGED env
  BY <1>7
<1>10. taste = None \/ {taste.spice, taste.richness, taste.acidity} \subseteq Int
  BY <1>5
<1> HIDE DEF new, fingerprint, W, old
<1>11. Typed(new)
  BY <1>3, <1>8, <1>10 DEF Typed
<1>12. ToSet(new.dishes) = {}
  BY <1>4, <1>8 DEF ToSet
<1>13. ListingHonest(W, new)
  BY <1>1, <1>3, <1>4, <1>8, <1>12 DEF ListingHonest
<1>14. ListingBest(W, new)
  BY <1>8 DEF ListingBest
<1>15. Good(W, new)
  BY <1>3, <1>8, <1>11, <1>13, <1>14, ListingGood
<1>16. QED
  BY <1>1, <1>8, <1>9, <1>15, WorkKeeps DEF W, old

\* The text search; when it finds nothing, or fails, the list is read next.
LEMMA DiscoverySearchKeeps ==
    ASSUME AssistInv, NEW k \in Call, DiscoverySearch(k)
    PROVE  AssistInv'
<1> DEFINE old == calls[k]
           W == Seen(old)
           new == [old EXCEPT !.stage = "list"]
<1>1. ~At(k, "idle") /\ old.stage = "search" /\ At(k, "search")
  BY DEF At, DiscoverySearch
<1>2. CASE \E s \in (IF calls[k].words = <<>> THEN Listing
                                              ELSE Matching(None, MaxRestaurants)) \ {<<>>} :
             ToMenus(k, s, TRUE)
  <2>1. PICK s \in Listing \cup Matching(None, MaxRestaurants) : ToMenus(k, s, TRUE)
    BY <1>2
  <2>2. s \in Seq(Restaurant) /\ \A r \in ToSet(s) : r \in Now.up
    BY MenuFacts, ListingRead, MatchingRead
  <2>3. QED
    BY <1>1, <2>1, <2>2, MenusKeep
<1>3. CASE Step(k, new)
  <2>1. Good(W, old)
    BY <1>1, CallFacts
  <2>2. /\ Typed(old) /\ old.req \in Requests /\ old.req.kind \in Listings /\ ListingHonest(W, old)
        /\ old.whole => ListingBest(W, old)
    BY <1>1, <2>1, KindOfStage
  <2>3. /\ DOMAIN new = Fields /\ new.stage = "list" /\ new.taste = old.taste
        /\ new.found = old.found /\ new.left = old.left /\ new.opened = old.opened
        /\ new.req = old.req /\ new.since = old.since /\ new.words = old.words
        /\ new.intent = old.intent /\ new.dishes = old.dishes /\ new.whole = old.whole
    BY <2>2 DEF Typed, Fields
  <2>4. calls' = [calls EXCEPT ![k] = new] /\ UNCHANGED env
    BY <1>3 DEF Step
  <2> HIDE DEF new, W, old
  <2>5. Typed(new)
    BY <2>2, <2>3 DEF Typed
  <2>6. ListingHonest(W, new)
    BY <1>1, <2>2, <2>3 DEF ListingHonest, Offers
  <2>7. ListingBest(W, new)
    BY <2>3 DEF ListingBest
  <2>8. Good(W, new)
    BY <2>2, <2>3, <2>5, <2>6, <2>7, ListingGood
  <2>9. QED
    BY <1>1, <2>3, <2>4, <2>8, WorkKeeps DEF W, old
<1>4. QED
  BY <1>2, <1>3 DEF DiscoverySearch

\* The list of restaurants.
LEMMA DiscoveryListKeeps ==
    ASSUME AssistInv, NEW k \in Call, DiscoveryList(k)
    PROVE  AssistInv'
<1>1. At(k, "list")
  BY DEF DiscoveryList
<1>2. CASE \E s \in Listing : ToMenus(k, s, TRUE)
  BY <1>1, <1>2, ListingRead, MenusKeep
<1>3. CASE ToMenus(k, <<>>, FALSE)
  <2>1. <<>> \in Seq(Restaurant) /\ ToSet(<<>>) = {}
    BY DEF ToSet
  <2>2. QED
    BY <1>1, <1>3, <2>1, MenusKeep
<1>4. QED
  BY <1>2, <1>3 DEF DiscoveryList

\* The first of a row and the rest.
LEMMA HeadAndRest ==
    ASSUME NEW S, NEW s \in Seq(S), s # <<>>
    PROVE  /\ Head(s) \in S /\ Tail(s) \in Seq(S) /\ ToSet(s) = {Head(s)} \cup ToSet(Tail(s))
<1>1. /\ Head(s) \in S /\ Tail(s) \in Seq(S) /\ Len(Tail(s)) = Len(s) - 1 /\ Head(s) = s[1]
      /\ \A i \in 1..Len(Tail(s)) : Tail(s)[i] = s[i + 1]
  BY HeadTailProperties
<1>2. /\ Len(s) \in Nat \ {0} /\ DOMAIN s = 1..Len(s) /\ DOMAIN Tail(s) = 1..(Len(s) - 1)
      /\ \A i \in 1..(Len(s) - 1) : Tail(s)[i] = s[i + 1]
  BY <1>1, EmptySeq, LenProperties
<1> DEFINE t == Tail(s)
           h == Head(s)
<1> HIDE DEF t, h
<1>3. /\ DOMAIN t = 1..(Len(s) - 1) /\ h = s[1] /\ \A i \in 1..(Len(s) - 1) : t[i] = s[i + 1]
  BY <1>1, <1>2 DEF t, h
<1>4. ASSUME NEW i \in DOMAIN s PROVE s[i] \in {h} \cup ToSet(t)
  <2>1. CASE i = 1
    BY <1>3, <2>1
  <2>2. CASE i # 1
    <3>1. i - 1 \in DOMAIN t /\ t[i - 1] = s[i]
      BY <1>2, <1>3, <2>2
    <3>2. QED
      BY <3>1 DEF ToSet
  <2>3. QED
    BY <2>1, <2>2
<1>5. ASSUME NEW i \in DOMAIN t PROVE t[i] \in ToSet(s)
  <2>1. i + 1 \in DOMAIN s /\ t[i] = s[i + 1]
    BY <1>2, <1>3
  <2>2. QED
    BY <2>1 DEF ToSet
<1>6. h \in ToSet(s)
  BY <1>2, <1>3 DEF ToSet
<1>7. ToSet(s) = {h} \cup ToSet(t)
  BY <1>4, <1>5, <1>6 DEF ToSet
<1>8. QED
  BY <1>1, <1>7 DEF t, h

\* A menu that cannot be read leaves the answer without its dishes: it is not whole.
LEMMA SkipMenuKeeps ==
    ASSUME AssistInv, NEW k \in Call, SkipMenu(k)
    PROVE  AssistInv'
<1> DEFINE old == calls[k]
           W == Seen(old)
           new == [old EXCEPT !.stage = "categories", !.left = Tail(@), !.whole = FALSE]
<1>1. ~At(k, "idle") /\ old.stage \in {"items", "categories"}
  BY DEF At, SkipMenu
<1>2. Good(W, old)
  BY <1>1, CallFacts
<1>3. Typed(old) /\ old.req.kind \in Listings /\ ListingHonest(W, old)
  BY <1>1, <1>2, KindOfStage
<1>4. old.left # <<>> /\ old.left \in Seq(Restaurant)
  BY <1>3 DEF ListingHonest, SkipMenu, At
<1>5. Tail(old.left) \in Seq(Restaurant) /\ ToSet(Tail(old.left)) \subseteq ToSet(old.left)
  BY <1>4, HeadAndRest
<1>6. /\ DOMAIN new = Fields /\ new.stage = "categories" /\ new.taste = old.taste
      /\ new.found = old.found /\ new.left = Tail(old.left) /\ new.opened = old.opened
      /\ new.req = old.req /\ new.since = old.since /\ new.words = old.words
      /\ new.intent = old.intent /\ new.dishes = old.dishes /\ new.whole = FALSE
  BY <1>3 DEF Typed, Fields
<1>7. calls' = [calls EXCEPT ![k] = new] /\ UNCHANGED env
  BY DEF SkipMenu, Step
<1> HIDE DEF new, W, old
<1>8. Typed(new)
  BY <1>3, <1>6 DEF Typed
<1>9. ListingHonest(W, new)
  BY <1>3, <1>5, <1>6 DEF ListingHonest, Offers
<1>10. Good(W, new)
  BY <1>3, <1>6, <1>8, <1>9, ListingGood
<1>11. QED
  BY <1>1, <1>6, <1>7, <1>10, WorkKeeps DEF W, old

\* The first read of a menu: the categories that are active now.
LEMMA ReadCategoriesKeeps ==
    ASSUME AssistInv, NEW k \in Call, ReadCategories(k)
    PROVE  AssistInv'
<1> DEFINE old == calls[k]
           W == Seen(old)
           all == CategoriesOf[Head(old.left)]
           opened == Kept(all, Now.up)
           new == [old EXCEPT !.stage = "items", !.opened = opened]
<1>1. ~At(k, "idle") /\ old.stage = "categories" /\ old.left # <<>>
  BY DEF At, ReadCategories
<1>2. Good(W, old) /\ Now \in W
  BY <1>1, CallFacts
<1>3. /\ Typed(old) /\ old.req.kind \in Listings /\ ListingHonest(W, old)
      /\ old.whole => ListingBest(W, old)
  BY <1>1, <1>2, KindOfStage
<1>4. Head(old.left) \in Restaurant
  BY <1>1, <1>3, HeadAndRest DEF ListingHonest
<1>5. opened \in Seq(Category) /\ ToSet(opened) = ToSet(all) \cap Now.up
  <2>1. all \in Seq(Category)
    BY <1>4, MenuFacts
  <2> HIDE DEF all
  <2>2. QED
    BY <2>1, KeptElements
<1>6. calls' = [calls EXCEPT ![k] = new] /\ UNCHANGED env
  BY DEF ReadCategories, Step
<1> HIDE DEF opened
<1>7. /\ DOMAIN new = Fields /\ new.stage = "items" /\ new.taste = old.taste
      /\ new.found = old.found /\ new.left = old.left /\ new.opened = opened
      /\ new.req = old.req /\ new.since = old.since /\ new.words = old.words
      /\ new.intent = old.intent /\ new.dishes = old.dishes /\ new.whole = old.whole
  BY <1>3 DEF Typed, Fields
<1> HIDE DEF new, W, old
<1>8. Typed(new)
  BY <1>3, <1>7 DEF Typed
<1>9. \A c \in ToSet(opened) : c \in ToSet(all) /\ SeenIn(W, c)
  BY <1>2, <1>5 DEF SeenIn
<1>10. ListingHonest(W, new)
  BY <1>1, <1>3, <1>5, <1>7, <1>9 DEF ListingHonest, Offers
<1>11. \A c \in ToSet(all) : AlwaysIn(W, {c}) => c \in ToSet(opened)
  BY <1>2, <1>5 DEF AlwaysIn
<1>12. new.whole => ListingBest(W, new)
  BY <1>1, <1>3, <1>7, <1>11 DEF ListingBest, Due, Carries
<1>13. Good(W, new)
  BY <1>3, <1>7, <1>8, <1>10, <1>12, ListingGood
<1>14. QED
  BY <1>1, <1>6, <1>7, <1>13, WorkKeeps DEF W, old

\* Scored has each item once, with its match.
LEMMA ScoredElements ==
    ASSUME NEW k, NEW items \in Seq(Item), Typed(calls[k])
    PROVE  /\ Scored(k, items) \in Seq(Rows)
           /\ \A d \in ToSet(Scored(k, items)) :
                d.item \in ToSet(items) /\ d.match = Score(d.item, calls[k].words, calls[k].taste)
           /\ \A i \in ToSet(items) : \E d \in ToSet(Scored(k, items)) : d.item = i
<1> DEFINE score(n) == Score(items[n], calls[k].words, calls[k].taste)
           t == Scored(k, items)
<1>1. /\ Len(items) \in Nat /\ DOMAIN items = 1..Len(items)
      /\ \A n \in DOMAIN items : items[n] \in Item
  BY LenProperties, ElementOfSeq
<1>2. \A n \in DOMAIN items : score(n) \in Int
  BY ScoreType DEF Typed
<1>3. t = [n \in 1..Len(items) |-> [item |-> items[n], match |-> score(n)]]
  BY <1>1 DEF Scored
<1> HIDE DEF score, t
<1>4. \A n \in 1..Len(items) : t[n].item = items[n] /\ t[n].match = score(n) /\ t[n] \in Rows
  BY <1>1, <1>2, <1>3 DEF Rows
<1>5. DOMAIN t = 1..Len(items)
  BY <1>3
<1>6. t \in Seq(Rows)
  <2>1. t \in [1..Len(items) -> Rows]
    BY <1>3, <1>4
  <2>2. QED
    BY <1>1, <2>1, SeqDef
<1>7. ASSUME NEW d \in ToSet(t)
      PROVE  d.item \in ToSet(items) /\ d.match = Score(d.item, calls[k].words, calls[k].taste)
  <2>1. PICK n \in 1..Len(items) : d = t[n]
    BY <1>5 DEF ToSet
  <2>2. d.item = items[n] /\ d.match = score(n)
    BY <1>4, <2>1
  <2>3. QED
    BY <1>1, <2>2 DEF ToSet, score
<1>8. ASSUME NEW i \in ToSet(items) PROVE \E d \in ToSet(t) : d.item = i
  <2>1. PICK n \in 1..Len(items) : i = items[n]
    BY <1>1 DEF ToSet
  <2>2. t[n] \in ToSet(t) /\ t[n].item = i
    BY <1>4, <1>5, <2>1 DEF ToSet
  <2>3. QED
    BY <2>2
<1>9. QED
  BY <1>6, <1>7, <1>8 DEF t

\* Offered are the items of a category that are available now and pass the filter.
LEMMA OfferedElements ==
    ASSUME NEW filter, NEW c \in Category
    PROVE  /\ Offered(filter, c) \in Seq(Item)
           /\ ToSet(Offered(filter, c)) =
                ToSet(ItemsOf[c]) \cap {i \in Now.items \cap Now.up : KeepsDish(filter, i)}
<1> DEFINE all == ItemsOf[c]
<1>1. all \in Seq(Item)
  BY MenuFacts
<1> HIDE DEF all
<1>2. QED
  BY <1>1, KeptElements DEF Offered, all

\* The dishes that the open categories offer.
LEMMA MenuElements ==
    ASSUME NEW opened \in Seq(Category), NEW filter
    PROVE  LET items == FlattenSeq([n \in DOMAIN opened |-> Offered(filter, opened[n])])
           IN /\ items \in Seq(Item)
              /\ \A i \in ToSet(items) :
                   /\ i \in Item /\ i \in Now.items /\ i \in Now.up /\ KeepsDish(filter, i)
                   /\ CategoryOf(i) \in ToSet(opened)
              /\ \A i \in Item : /\ CategoryOf(i) \in ToSet(opened) /\ i \in Now.items
                                 /\ i \in Now.up /\ KeepsDish(filter, i)
                                 => i \in ToSet(items)
<1> DEFINE ss == [n \in DOMAIN opened |-> Offered(filter, opened[n])]
           items == FlattenSeq(ss)
<1>1. /\ Len(opened) \in Nat /\ DOMAIN opened = 1..Len(opened)
      /\ \A n \in DOMAIN opened : opened[n] \in Category
  BY LenProperties, ElementOfSeq
<1>2. \A n \in DOMAIN opened :
        /\ Offered(filter, opened[n]) \in Seq(Item)
        /\ ToSet(Offered(filter, opened[n])) =
             ToSet(ItemsOf[opened[n]]) \cap {i \in Now.items \cap Now.up : KeepsDish(filter, i)}
  BY <1>1, OfferedElements
<1>3. DOMAIN ss = DOMAIN opened /\ \A n \in DOMAIN opened : ss[n] = Offered(filter, opened[n])
  OBVIOUS
<1>4. ss \in Seq(Seq(Item))
  <2>1. ss \in [1..Len(opened) -> Seq(Item)]
    BY <1>1, <1>2
  <2> HIDE DEF ss
  <2>2. QED
    BY <1>1, <2>1, SeqDef
<1> HIDE DEF ss
<1>5. items \in Seq(Item) /\ ToSet(items) = UNION {ToSet(ss[n]) : n \in DOMAIN ss}
  BY <1>4, FlattenedElements
<1> HIDE DEF items
<1>6. ASSUME NEW i \in ToSet(items)
      PROVE  /\ i \in Item /\ i \in Now.items /\ i \in Now.up /\ KeepsDish(filter, i)
             /\ CategoryOf(i) \in ToSet(opened)
  <2>1. PICK n \in DOMAIN opened : i \in ToSet(Offered(filter, opened[n]))
    BY <1>3, <1>5
  <2>2. i \in ToSet(ItemsOf[opened[n]]) /\ i \in Now.items /\ i \in Now.up /\ KeepsDish(filter, i)
    BY <1>2, <2>1
  <2>3. i \in Item
    BY <1>5, LenProperties, ElementOfSeq DEF ToSet
  <2>4. opened[n] = CategoryOf(i)
    BY <1>1, <2>2, <2>3, PlaceOfItem
  <2>5. QED
    BY <2>2, <2>3, <2>4 DEF ToSet
<1>7. ASSUME NEW i \in Item, CategoryOf(i) \in ToSet(opened), i \in Now.items, i \in Now.up,
             KeepsDish(filter, i)
      PROVE  i \in ToSet(items)
  <2>1. PICK n \in DOMAIN opened : CategoryOf(i) = opened[n]
    BY <1>7 DEF ToSet
  <2>2. i \in ToSet(ItemsOf[opened[n]])
    BY <2>1, PlaceOfItem
  <2>3. i \in ToSet(Offered(filter, opened[n]))
    BY <1>2, <1>7, <2>2
  <2>4. QED
    BY <1>3, <1>5, <2>3
<1>8. QED
  BY <1>5, <1>6, <1>7 DEF items, ss

\* The second read of a menu: what was due of this restaurant is now listed.
LEMMA ReadItemsKeeps ==
    ASSUME AssistInv, NEW k \in Call, ReadItems(k)
    PROVE  AssistInv'
<1> DEFINE old == calls[k]
           W == Seen(old)
           items == FlattenSeq([n \in DOMAIN old.opened |-> Offered(old.req.filter, old.opened[n])])
           more == Scored(k, items)
           new == [old EXCEPT !.stage = "categories", !.left = Tail(@), !.dishes = @ \o more]
<1>1. ~At(k, "idle") /\ old.stage = "items"
  BY DEF At, ReadItems
<1>2. Good(W, old) /\ Now \in W /\ Now \in Worlds
  BY <1>1, CallFacts
<1>3. /\ Typed(old) /\ old.req.kind \in Listings /\ ListingHonest(W, old)
      /\ old.whole => ListingBest(W, old)
  BY <1>1, <1>2, KindOfStage
<1>4. /\ old.left # <<>> /\ old.left \in Seq(Restaurant) /\ old.opened \in Seq(Category)
      /\ old.dishes \in Seq(Rows)
      /\ \A c \in ToSet(old.opened) : c \in ToSet(CategoriesOf[Head(old.left)]) /\ SeenIn(W, c)
      /\ \A r \in ToSet(old.found) : SeenIn(W, r) /\ KeepsRestaurant(old.req.filter, r)
      /\ ToSet(old.left) \subseteq ToSet(old.found)
  BY <1>1, <1>3 DEF ListingHonest, Typed
<1>5. /\ Head(old.left) \in Restaurant /\ Tail(old.left) \in Seq(Restaurant)
      /\ ToSet(old.left) = {Head(old.left)} \cup ToSet(Tail(old.left))
  BY <1>4, HeadAndRest
<1>6. /\ items \in Seq(Item)
      /\ \A i \in ToSet(items) :
           /\ i \in Item /\ i \in Now.items /\ i \in Now.up /\ KeepsDish(old.req.filter, i)
           /\ CategoryOf(i) \in ToSet(old.opened)
      /\ \A i \in Item : /\ CategoryOf(i) \in ToSet(old.opened) /\ i \in Now.items
                         /\ i \in Now.up /\ KeepsDish(old.req.filter, i)
                         => i \in ToSet(items)
  BY <1>4, MenuElements
<1>7. calls' = [calls EXCEPT ![k] = new] /\ UNCHANGED env
  BY DEF ReadItems, Step
<1> HIDE DEF items
<1>8. /\ more \in Seq(Rows)
      /\ \A d \in ToSet(more) :
           d.item \in ToSet(items) /\ d.match = Score(d.item, old.words, old.taste)
      /\ \A i \in ToSet(items) : \E d \in ToSet(more) : d.item = i
  BY <1>3, <1>6, ScoredElements
<1> HIDE DEF more
<1>9. /\ DOMAIN new = Fields /\ new.stage = "categories" /\ new.taste = old.taste
      /\ new.found = old.found /\ new.left = Tail(old.left) /\ new.opened = old.opened
      /\ new.req = old.req /\ new.since = old.since /\ new.words = old.words
      /\ new.intent = old.intent /\ new.dishes = old.dishes \o more /\ new.whole = old.whole
  BY <1>3 DEF Typed, Fields
<1> HIDE DEF new, W, old
<1>10. new.dishes \in Seq(Rows) /\ ToSet(new.dishes) = ToSet(old.dishes) \cup ToSet(more)
  BY <1>4, <1>8, <1>9, Joined
<1>11. Typed(new)
  BY <1>3, <1>9, <1>10 DEF Typed
<1>12. ASSUME NEW d \in ToSet(more)
       PROVE  Offers(W, new, d.item) /\ d.match = Score(d.item, new.words, new.taste)
  <2> DEFINE i == d.item
  <2>1. /\ i \in Item /\ i \in Now.up /\ KeepsDish(old.req.filter, i)
        /\ CategoryOf(i) \in ToSet(old.opened)
    BY <1>6, <1>8
  <2> HIDE DEF i
  <2>2. SeenIn(W, i) /\ SeenIn(W, CategoryOf(i))
    BY <1>2, <1>4, <2>1 DEF SeenIn
  <2>3. RestaurantOf(i) = Head(old.left)
    BY <1>4, <1>5, <2>1, PlaceOfItem
  <2>4. SeenIn(W, RestaurantOf(i)) /\ KeepsRestaurant(old.req.filter, RestaurantOf(i))
    BY <1>4, <1>5, <2>3
  <2>5. QED
    BY <1>8, <1>9, <2>1, <2>2, <2>4 DEF Offers, i
<1>13. ListingHonest(W, new)
  <2>1. \A d \in ToSet(old.dishes) :
          Offers(W, new, d.item) /\ d.match = Score(d.item, new.words, new.taste)
    BY <1>3, <1>9 DEF ListingHonest, Offers
  <2>2. \A d \in ToSet(new.dishes) :
          Offers(W, new, d.item) /\ d.match = Score(d.item, new.words, new.taste)
    BY <1>10, <1>12, <2>1
  <2>3. ToSet(new.left) \subseteq ToSet(new.found)
    BY <1>4, <1>5, <1>9
  <2>4. QED
    BY <1>3, <1>5, <1>9, <2>2, <2>3 DEF ListingHonest
<1>14. ASSUME new.whole, NEW i \in Item, Due(W, new, i)
       PROVE  Carries(new, i) \/ RestaurantOf(i) \in ToSet(new.left)
  <2>1. Due(W, old, i)
    BY <1>9, <1>14 DEF Due
  <2>2. Carries(old, i) \/ RestaurantOf(i) \in ToSet(old.left)
    BY <1>1, <1>3, <1>9, <1>14, <2>1 DEF ListingBest
  <2>3. CASE Carries(old, i)
    BY <1>10, <2>3 DEF Carries
  <2>4. CASE RestaurantOf(i) \in ToSet(Tail(old.left))
    BY <1>9, <2>4
  <2>5. CASE RestaurantOf(i) = Head(old.left)
    <3>1. i \in Now.up /\ AlwaysIn(W, {CategoryOf(i)}) /\ KeepsDish(old.req.filter, i)
      BY <1>2, <2>1 DEF Due, AlwaysIn
    <3>2. i \in Now.items
      BY <1>2, <3>1 DEF Worlds
    <3>3. CategoryOf(i) \in ToSet(CategoriesOf[Head(old.left)])
      BY <2>5, PlaceOfItem
    <3>4. CategoryOf(i) \in ToSet(old.opened)
      BY <1>1, <1>3, <1>9, <1>14, <3>1, <3>3 DEF ListingBest
    <3>5. i \in ToSet(items)
      BY <1>6, <3>1, <3>2, <3>4
    <3>6. QED
      BY <1>8, <1>10, <3>5 DEF Carries
  <2>6. QED
    BY <1>5, <2>2, <2>3, <2>4, <2>5
<1>15. new.whole => ListingBest(W, new)
  BY <1>9, <1>14 DEF ListingBest
<1>16. Good(W, new)
  BY <1>3, <1>9, <1>11, <1>13, <1>15, ListingGood
<1>17. QED
  BY <1>1, <1>7, <1>9, <1>16, WorkKeeps DEF W, old

\* The cut keeps the best: what it drops is no better than any dish it leaves.
LEMMA RankDishesKeeps ==
    ASSUME AssistInv, NEW k \in Call, RankDishes(k)
    PROVE  AssistInv'
<1> DEFINE old == calls[k]
           W == Seen(old)
           many == Shown(k)
           top == TopDishes(old.dishes, many)
<1>1. ~At(k, "idle") /\ old.stage = "categories" /\ old.left = <<>>
  BY DEF At, RankDishes
<1>2. Good(W, old)
  BY <1>1, CallFacts
<1>3. /\ Typed(old) /\ old.req.kind \in Listings /\ ListingHonest(W, old)
      /\ old.whole => ListingBest(W, old)
  BY <1>1, <1>2, KindOfStage
<1>4. many = Space(old) /\ many \in Nat
  BY MenuFacts DEF Shown, Space
<1>5. old.dishes \in Seq(Rows)
  BY <1>3 DEF Typed
<1>5a. PICK stage \in {"compose", "ended"} : \E sent, reply :
        /\ calls' = [calls EXCEPT ![k] = [old EXCEPT !.stage = stage, !.dishes = top,
                                                     !.sent = sent, !.reply = reply]]
        /\ UNCHANGED env
  <2>1. CASE old.req.kind = "stream"
    <3> DEFINE sent == old.sent \o <<"filter", "search", "rerank", "done">>
    <3>1. /\ calls' = [calls EXCEPT ![k] = [old EXCEPT !.stage = "compose", !.dishes = top,
                                                       !.sent = sent]]
          /\ UNCHANGED env
      BY <2>1 DEF RankDishes, Step
    <3> HIDE DEF sent, top
    <3>2. [old EXCEPT !.stage = "compose", !.dishes = top, !.sent = sent, !.reply = old.reply]
            = [old EXCEPT !.stage = "compose", !.dishes = top, !.sent = sent]
      BY <1>3 DEF Typed, Fields
    <3>3. QED
      BY <3>1, <3>2
  <2>2. CASE old.req.kind # "stream"
    <3>1. /\ calls' = [calls EXCEPT ![k] = [old EXCEPT !.stage = "ended", !.dishes = top,
                                                       !.reply = "dishes"]]
          /\ UNCHANGED env
      BY <2>2 DEF RankDishes, Step
    <3> HIDE DEF top
    <3>2. [old EXCEPT !.stage = "ended", !.dishes = top, !.sent = old.sent, !.reply = "dishes"]
            = [old EXCEPT !.stage = "ended", !.dishes = top, !.reply = "dishes"]
      BY <1>3 DEF Typed, Fields
    <3>3. QED
      BY <3>1, <3>2
  <2>3. QED
    BY <2>1, <2>2
<1>6. PICK sent, reply :
        /\ calls' = [calls EXCEPT ![k] = [old EXCEPT !.stage = stage, !.dishes = top,
                                                     !.sent = sent, !.reply = reply]]
        /\ UNCHANGED env
  BY <1>5a
<1> HIDE DEF many
<1>7. /\ top \in Seq(Rows) /\ ToSet(top) \subseteq ToSet(old.dishes)
      /\ \A d \in ToSet(old.dishes) \ ToSet(top) :
           Len(top) = many /\ \A n \in 1..many : top[n].match >= d.match
  BY <1>4, <1>5, TopDishesElements
<1> HIDE DEF top
<1> DEFINE new == [old EXCEPT !.stage = stage, !.dishes = top, !.sent = sent, !.reply = reply]
<1>8. /\ DOMAIN new = Fields /\ new.stage = stage /\ new.taste = old.taste
      /\ new.found = old.found /\ new.left = old.left /\ new.opened = old.opened
      /\ new.req = old.req /\ new.since = old.since /\ new.words = old.words
      /\ new.intent = old.intent /\ new.dishes = top /\ new.whole = old.whole
  BY <1>3 DEF Typed, Fields
<1>9. calls' = [calls EXCEPT ![k] = new] /\ UNCHANGED env
  BY <1>6
<1> HIDE DEF new, W, old
<1>10. Typed(new)
  BY <1>3, <1>7, <1>8 DEF Typed
<1>11. \A d \in ToSet(old.dishes) :
         Offers(W, new, d.item) /\ d.match = Score(d.item, new.words, new.taste)
  BY <1>3, <1>8 DEF ListingHonest, Offers
<1>12. ListingHonest(W, new)
  BY <1>3, <1>7, <1>8, <1>11 DEF ListingHonest
<1>13. ASSUME new.whole, NEW i \in Item, Due(W, new, i)
       PROVE  \/ Carries(new, i)
              \/ /\ Len(new.dishes) = Space(new)
                 /\ \A n \in 1..Space(new) : new.dishes[n].match >= Score(i, new.words, new.taste)
  <2>1. Due(W, old, i) /\ Space(new) = many
    BY <1>4, <1>8, <1>13 DEF Due, Space
  <2>2. RestaurantOf(i) \notin ToSet(old.left)
    BY <1>1 DEF ToSet
  <2>3. Carries(old, i)
    BY <1>1, <1>3, <1>8, <1>13, <2>1, <2>2 DEF ListingBest
  <2>4. PICK d \in ToSet(old.dishes) : d.item = i
    BY <2>3 DEF Carries
  <2>5. d.match = Score(i, new.words, new.taste)
    BY <1>11, <2>4
  <2>6. CASE d \in ToSet(top)
    BY <1>8, <2>4, <2>6 DEF Carries
  <2>7. CASE d \notin ToSet(top)
    BY <1>7, <1>8, <2>1, <2>5, <2>7
  <2>8. QED
    BY <2>6, <2>7
<1>14. new.whole => ListingBest(W, new)
  BY <1>8, <1>13 DEF ListingBest
<1>15. Good(W, new)
  BY <1>3, <1>8, <1>10, <1>12, <1>14, ListingGood
<1>16. QED
  BY <1>1, <1>8, <1>9, <1>15, WorkKeeps DEF W, old

\* From the ranking on nothing that was listed changes.
LEMMA ListedStays ==
    ASSUME NEW W, NEW old, NEW new, Good(W, old), old.stage \in {"compose", "record"},
           DOMAIN new = Fields, new.stage \in {"record", "ended"}, new.taste = old.taste,
           new.found = old.found, new.left = old.left, new.opened = old.opened,
           new.req = old.req, new.words = old.words, new.intent = old.intent,
           new.dishes = old.dishes, new.whole = old.whole
    PROVE  Good(W, new)
<1>1. /\ Typed(old) /\ old.req.kind \in Listings /\ ListingHonest(W, old)
      /\ old.whole => ListingBest(W, old)
  BY KindOfStage
<1>2. Typed(new)
  BY <1>1 DEF Typed
<1>3. ListingHonest(W, new)
  BY <1>1 DEF ListingHonest, Offers
<1>4. old.whole => ListingBest(W, new)
  BY <1>1 DEF ListingBest, Due, Carries, Space
<1>5. QED
  BY <1>1, <1>2, <1>3, <1>4, ListingGood

\* Texts change no dish.
LEMMA ComposeAnswerKeeps ==
    ASSUME AssistInv, NEW k \in Call, ComposeAnswer(k)
    PROVE  AssistInv'
<1> DEFINE old == calls[k]
           W == Seen(old)
<1>1. ~At(k, "idle") /\ old.stage = "compose"
  BY DEF At, ComposeAnswer
<1>2. Good(W, old)
  BY <1>1, CallFacts
<1>3. Typed(old)
  BY <1>1, <1>2, KindOfStage
<1>4. PICK sent, answer :
        calls' = [calls EXCEPT ![k] = [old EXCEPT !.stage = "record", !.sent = sent,
                                                  !.answer = answer]]
        /\ UNCHANGED env
  BY DEF ComposeAnswer, Step
<1> DEFINE new == [old EXCEPT !.stage = "record", !.sent = sent, !.answer = answer]
<1>5. /\ DOMAIN new = Fields /\ new.stage = "record" /\ new.taste = old.taste
      /\ new.found = old.found /\ new.left = old.left /\ new.opened = old.opened
      /\ new.req = old.req /\ new.since = old.since /\ new.words = old.words
      /\ new.intent = old.intent /\ new.dishes = old.dishes /\ new.whole = old.whole
  BY <1>3 DEF Typed, Fields
<1>6. calls' = [calls EXCEPT ![k] = new]
  BY <1>4
<1> HIDE DEF new, W, old
<1>7. Good(W, new)
  BY <1>1, <1>2, <1>5, ListedStays
<1>8. QED
  BY <1>1, <1>4, <1>5, <1>6, <1>7, WorkKeeps DEF W, old

\* Nor does the goroutine that records the craving.
LEMMA RecordCravingKeeps ==
    ASSUME AssistInv, NEW k \in Call, RecordCraving(k)
    PROVE  AssistInv'
<1> DEFINE old == calls[k]
           W == Seen(old)
           new == [old EXCEPT !.stage = "ended"]
<1>1. ~At(k, "idle") /\ old.stage = "record"
  BY DEF At, RecordCraving
<1>2. Good(W, old)
  BY <1>1, CallFacts
<1>3. Typed(old)
  BY <1>1, <1>2, KindOfStage
<1>4. calls' = [calls EXCEPT ![k] = new] /\ UNCHANGED env
  BY DEF RecordCraving
<1>5. /\ DOMAIN new = Fields /\ new.stage = "ended" /\ new.taste = old.taste
      /\ new.found = old.found /\ new.left = old.left /\ new.opened = old.opened
      /\ new.req = old.req /\ new.since = old.since /\ new.words = old.words
      /\ new.intent = old.intent /\ new.dishes = old.dishes /\ new.whole = old.whole
  BY <1>3 DEF Typed, Fields
<1> HIDE DEF new, W, old
<1>6. Good(W, new)
  BY <1>1, <1>2, <1>5, ListedStays
<1>7. QED
  BY <1>1, <1>4, <1>5, <1>6, WorkKeeps DEF W, old

-----------------------------------------------------------------------------
(* Restaurants                                                               *)

\* Before the answer nothing is found; a stage or an intent may change.
LEMMA SearchGoesOn ==
    ASSUME NEW W, NEW old, NEW new, Good(W, old), old.stage \in {"chat", "refine"},
           DOMAIN new = Fields, new.stage \in {"refine", "find", "ended"}, new.taste = old.taste,
           new.found = old.found, new.req = old.req, new.words = old.words,
           DOMAIN new.intent = {"cuisine", "minutes"}, new.intent.minutes \in Int \cup {None},
           new.dishes = old.dishes
    PROVE  Good(W, new)
<1>1. Typed(old) /\ old.req.kind \in {"search", "chat"} /\ SearchHonest(W, old)
  BY KindOfStage
<1>2. Typed(new)
  BY <1>1 DEF Typed
<1>3. new.found = <<>>
  BY <1>1 DEF SearchHonest
<1>4. SearchHonest(W, new)
  BY <1>1, <1>3 DEF SearchHonest, ToSet
<1>5. QED
  BY <1>1, <1>2, <1>4, SearchGood

\* What the language model makes of a message is an intent still.
LEMMA MergedType ==
    ASSUME NEW intent, NEW refined \in Refinements, DOMAIN intent = {"cuisine", "minutes"},
           intent.minutes \in Int \cup {None}
    PROVE  /\ DOMAIN Merged(intent, refined) = {"cuisine", "minutes"}
           /\ Merged(intent, refined).minutes \in Int \cup {None}
<1>1. refined.minutes \in Int \cup {None}
  BY AssistantAssumption
<1>2. QED
  BY <1>1 DEF Merged

\* A search asks the language model first ...
LEMMA RefineIntentKeeps ==
    ASSUME AssistInv, NEW k \in Call, RefineIntent(k)
    PROVE  AssistInv'
<1> DEFINE old == calls[k]
           W == Seen(old)
<1>1. ~At(k, "idle") /\ old.stage = "refine"
  BY DEF At, RefineIntent
<1>2. Good(W, old)
  BY <1>1, CallFacts
<1>3. Typed(old)
  BY <1>1, <1>2, KindOfStage
<1>4. CASE Step(k, [old EXCEPT !.stage = "find"])
  <2> DEFINE new == [old EXCEPT !.stage = "find"]
  <2>1. /\ DOMAIN new = Fields /\ new.stage = "find" /\ new.taste = old.taste
        /\ new.found = old.found /\ new.req = old.req /\ new.since = old.since
        /\ new.words = old.words /\ new.intent = old.intent /\ new.dishes = old.dishes
    BY <1>3 DEF Typed, Fields
  <2>2. calls' = [calls EXCEPT ![k] = new] /\ UNCHANGED env
    BY <1>4 DEF Step
  <2> HIDE DEF new, W, old
  <2>3. Good(W, new)
    BY <1>1, <1>2, <1>3, <2>1, SearchGoesOn DEF Typed
  <2>4. QED
    BY <1>1, <2>1, <2>2, <2>3, WorkKeeps DEF W, old
<1>5. ASSUME NEW refined \in Refinements,
             Step(k, [old EXCEPT !.stage = "find", !.intent = Merged(@, refined)])
      PROVE  AssistInv'
  <2> DEFINE merged == Merged(old.intent, refined)
             new == [old EXCEPT !.stage = "find", !.intent = merged]
  <2>1. DOMAIN merged = {"cuisine", "minutes"} /\ merged.minutes \in Int \cup {None}
    BY <1>3, MergedType DEF Typed
  <2>2. calls' = [calls EXCEPT ![k] = new] /\ UNCHANGED env
    BY <1>5 DEF Step
  <2> HIDE DEF merged
  <2>3. /\ DOMAIN new = Fields /\ new.stage = "find" /\ new.taste = old.taste
        /\ new.found = old.found /\ new.req = old.req /\ new.since = old.since
        /\ new.words = old.words /\ new.intent = merged /\ new.dishes = old.dishes
    BY <1>3 DEF Typed, Fields
  <2> HIDE DEF new, W, old
  <2>4. Good(W, new)
    BY <1>1, <1>2, <2>1, <2>3, SearchGoesOn
  <2>5. QED
    BY <1>1, <2>2, <2>3, <2>4, WorkKeeps DEF W, old
<1>6. QED
  BY <1>4, <1>5 DEF RefineIntent

\* ... a chat may end with what it says ...
LEMMA CompleteChatKeeps ==
    ASSUME AssistInv, NEW k \in Call, CompleteChat(k)
    PROVE  AssistInv'
<1> DEFINE old == calls[k]
           W == Seen(old)
<1>1. ~At(k, "idle") /\ old.stage = "chat"
  BY DEF At, CompleteChat
<1>2. Good(W, old)
  BY <1>1, CallFacts
<1>3. Typed(old)
  BY <1>1, <1>2, KindOfStage
<1>4. CASE Step(k, [old EXCEPT !.stage = "refine"])
  <2> DEFINE new == [old EXCEPT !.stage = "refine"]
  <2>1. /\ DOMAIN new = Fields /\ new.stage = "refine" /\ new.taste = old.taste
        /\ new.found = old.found /\ new.req = old.req /\ new.since = old.since
        /\ new.words = old.words /\ new.intent = old.intent /\ new.dishes = old.dishes
    BY <1>3 DEF Typed, Fields
  <2>2. calls' = [calls EXCEPT ![k] = new] /\ UNCHANGED env
    BY <1>4 DEF Step
  <2> HIDE DEF new, W, old
  <2>3. Good(W, new)
    BY <1>1, <1>2, <1>3, <2>1, SearchGoesOn DEF Typed
  <2>4. QED
    BY <1>1, <2>1, <2>2, <2>3, WorkKeeps DEF W, old
<1>5. ASSUME NEW reply, Reply(k, reply)
      PROVE  AssistInv'
  <2> DEFINE new == [old EXCEPT !.stage = "ended", !.reply = reply]
  <2>1. /\ DOMAIN new = Fields /\ new.stage = "ended" /\ new.taste = old.taste
        /\ new.found = old.found /\ new.req = old.req /\ new.since = old.since
        /\ new.words = old.words /\ new.intent = old.intent /\ new.dishes = old.dishes
    BY <1>3 DEF Typed, Fields
  <2>2. calls' = [calls EXCEPT ![k] = new] /\ UNCHANGED env
    BY <1>5 DEF Step, Reply
  <2> HIDE DEF new, W, old
  <2>3. Good(W, new)
    BY <1>1, <1>2, <1>3, <2>1, SearchGoesOn DEF Typed
  <2>4. QED
    BY <1>1, <2>1, <2>2, <2>3, WorkKeeps DEF W, old
<1>6. QED
  BY <1>4, <1>5 DEF CompleteChat

\* ... and both end with restaurants that have the cuisine and are fast enough.
LEMMA FindRestaurantsKeeps ==
    ASSUME AssistInv, NEW k \in Call, FindRestaurants(k)
    PROVE  AssistInv'
<1> DEFINE old == calls[k]
           W == Seen(old)
           quick == {r \in Restaurant : ~TooSlow(k, r)}
<1>1. ~At(k, "idle") /\ old.stage = "find"
  BY DEF At, FindRestaurants
<1>2. Good(W, old) /\ Now \in W
  BY <1>1, CallFacts
<1>3. Typed(old) /\ old.req.kind \in {"search", "chat"} /\ SearchHonest(W, old)
  BY <1>1, <1>2, KindOfStage
<1>4. PICK s \in Matching(old.intent.cuisine, MaxFound) :
         Step(k, [old EXCEPT !.stage = "ended", !.reply = "restaurants", !.found = Kept(s, quick)])
  BY DEF FindRestaurants
<1>5. /\ s \in Seq(Restaurant)
      /\ \A r \in ToSet(s) : r \in Restaurant /\ r \in Now.up
                             /\ old.intent.cuisine \in Facts[r].cuisines \cup {None}
  BY MenuFacts, MatchingRead
<1> DEFINE kept == Kept(s, quick)
           new == [old EXCEPT !.stage = "ended", !.reply = "restaurants", !.found = kept]
<1>6. kept \in Seq(Restaurant) /\ ToSet(kept) = ToSet(s) \cap quick
  BY <1>5, KeptElements
<1>7. calls' = [calls EXCEPT ![k] = new] /\ UNCHANGED env
  BY <1>4 DEF Step
<1> HIDE DEF kept
<1>8. /\ DOMAIN new = Fields /\ new.stage = "ended" /\ new.taste = old.taste
      /\ new.found = kept /\ new.req = old.req /\ new.since = old.since
      /\ new.words = old.words /\ new.intent = old.intent /\ new.dishes = old.dishes
  BY <1>3 DEF Typed, Fields
<1>9. ASSUME NEW r \in quick, old.intent.minutes # None
      PROVE  Facts[r].prep = 0 \/ Facts[r].prep <= old.intent.minutes
  <2>1. Facts[r].prep \in Int /\ old.intent.minutes \in Int
    BY <1>3, <1>9, MenuFacts DEF Typed
  <2>2. ~(Facts[r].prep # 0 /\ Facts[r].prep > old.intent.minutes)
    BY <1>9 DEF TooSlow
  <2>3. QED
    BY <2>1, <2>2
<1> HIDE DEF new, W, old, quick
<1>10. Typed(new)
  BY <1>3, <1>8 DEF Typed
<1>11. \A r \in ToSet(kept) :
         /\ SeenIn(W, r)
         /\ old.intent.cuisine \in Facts[r].cuisines \cup {None}
         /\ old.intent.minutes # None =>
              Facts[r].prep = 0 \/ Facts[r].prep <= old.intent.minutes
  BY <1>2, <1>5, <1>6, <1>9 DEF SeenIn
<1>12. SearchHonest(W, new)
  BY <1>6, <1>8, <1>11 DEF SearchHonest
<1>13. Good(W, new)
  BY <1>3, <1>8, <1>10, <1>12, SearchGood
<1>14. QED
  BY <1>1, <1>7, <1>8, <1>13, WorkKeeps DEF W, old

-----------------------------------------------------------------------------
(* A dish by its id, and favourites                                          *)

\* A dish by its id: it is there when it is read.
LEMMA ReadDishKeeps ==
    ASSUME AssistInv, NEW k \in Call, ReadDish(k)
    PROVE  AssistInv'
<1> DEFINE old == calls[k]
           W == Seen(old)
           i == old.req.dish
<1>1. ~At(k, "idle") /\ old.stage = "dish"
  BY DEF At, ReadDish
<1>2. Good(W, old) /\ Now \in W /\ Now \in Worlds
  BY <1>1, CallFacts
<1>3. Typed(old) /\ old.req.kind = "dish" /\ ThereHonest(W, old)
  BY <1>1, <1>2, KindOfStage
<1>4. ASSUME NEW reply, Reply(k, reply)
      PROVE  AssistInv'
  <2> DEFINE new == [old EXCEPT !.stage = "ended", !.reply = reply]
  <2>1. /\ DOMAIN new = Fields /\ new.stage = "ended" /\ new.taste = old.taste
        /\ new.req = old.req /\ new.since = old.since
        /\ new.words = old.words /\ new.intent = old.intent /\ new.dishes = old.dishes
    BY <1>3 DEF Typed, Fields
  <2>2. calls' = [calls EXCEPT ![k] = new] /\ UNCHANGED env
    BY <1>4 DEF Step, Reply
  <2> HIDE DEF new, W, old
  <2>3. Typed(new)
    BY <1>3, <2>1 DEF Typed
  <2>4. ThereHonest(W, new)
    BY <1>3, <2>1 DEF ThereHonest
  <2>5. Good(W, new)
    BY <1>3, <2>1, <2>3, <2>4, DishGood
  <2>6. QED
    BY <1>1, <2>1, <2>2, <2>5, WorkKeeps DEF W, old
<1>5. CASE /\ i \in Now.items
           /\ Step(k, [old EXCEPT !.stage = "ended", !.reply = "dish", !.dishes = Scored(k, <<i>>)])
  <2> DEFINE dishes == Scored(k, <<i>>)
             new == [old EXCEPT !.stage = "ended", !.reply = "dish", !.dishes = dishes]
  <2>1. i \in Item
    BY <1>2, <1>5 DEF Worlds
  <2>2. <<i>> \in Seq(Item) /\ ToSet(<<i>>) = {i}
    BY <2>1, Single
  <2>3. dishes \in Seq(Rows) /\ \A d \in ToSet(dishes) : d.item = i
    BY <1>3, <2>2, ScoredElements
  <2>4. calls' = [calls EXCEPT ![k] = new] /\ UNCHANGED env
    BY <1>5 DEF Step
  <2> HIDE DEF dishes
  <2>5. /\ DOMAIN new = Fields /\ new.stage = "ended" /\ new.taste = old.taste
        /\ new.req = old.req /\ new.since = old.since
        /\ new.words = old.words /\ new.intent = old.intent /\ new.dishes = dishes
    BY <1>3 DEF Typed, Fields
  <2> HIDE DEF new, W, old, i
  <2>6. Typed(new)
    BY <1>3, <2>3, <2>5 DEF Typed
  <2>7. ThereHonest(W, new)
    BY <1>2, <1>3, <1>5, <2>3, <2>5 DEF ThereHonest
  <2>8. Good(W, new)
    BY <1>3, <2>5, <2>6, <2>7, DishGood
  <2>9. QED
    BY <1>1, <2>4, <2>5, <2>8, WorkKeeps DEF W, old
<1>6. QED
  BY <1>4, <1>5 DEF ReadDish

\* A finite set can be put in a row.
LEMMA RowOfSet ==
    ASSUME NEW S, NEW T \in SUBSET S, IsFiniteSet(T)
    PROVE  SetToSeq(T) \in Seq(S)
<1> DEFINE n == Cardinality(T)
<1>1. n \in Nat
  BY FS_CardinalityType
<1>2. \E f \in [1..n -> T] : IsInjective(f)
  <2>1. PICK f : f \in Bijection(1..n, T)
    BY FS_CountingElements, FS_NatBijection, FS_CardinalityType DEF ExistsBijection
  <2>2. QED
    BY <2>1 DEF Bijection, Injection
<1>3. SetToSeq(T) \in [1..n -> T]
  BY <1>2 DEF SetToSeq
<1> HIDE DEF n
<1>4. SetToSeq(T) \in Seq(T)
  BY <1>1, <1>3, SeqDef
<1>5. QED
  BY <1>4, SeqMonotonic

\* What holds of a call that reads favorites.
LEMMA FavoritesFacts ==
    ASSUME AssistInv, NEW k \in Call, At(k, "saved") \/ At(k, "hydrate")
    PROVE  /\ ~At(k, "idle") /\ Now \in Seen(calls[k]) /\ Now \in Worlds
           /\ Typed(calls[k]) /\ calls[k].req \in Requests /\ calls[k].req.kind = "favorites"
           /\ ThereHonest(Seen(calls[k]), calls[k]) /\ FavoritesBest(Seen(calls[k]), calls[k])
<1>1. ~At(k, "idle") /\ calls[k].stage \in {"saved", "hydrate"}
  BY DEF At
<1>2. Good(Seen(calls[k]), calls[k]) /\ Now \in Seen(calls[k]) /\ Now \in Worlds
  BY <1>1, CallFacts
<1>3. QED
  BY <1>1, <1>2, KindOfStage

\* Favorites are all to be read.
LEMMA ReadSavedKeeps ==
    ASSUME AssistInv, NEW k \in Call, ReadSaved(k)
    PROVE  AssistInv'
<1> DEFINE old == calls[k]
           W == Seen(old)
<1>1. At(k, "saved") /\ old.stage = "saved"
  BY DEF At, ReadSaved
<1>2. /\ ~At(k, "idle") /\ Typed(old) /\ old.req \in Requests /\ old.req.kind = "favorites"
      /\ ThereHonest(W, old) /\ FavoritesBest(W, old)
  BY <1>1, FavoritesFacts
<1>3. old.reply # "favorites" /\ old.left \in Seq(Item) /\ old.found \in Seq(Item)
  BY <1>1, <1>2 DEF FavoritesBest
<1> DEFINE ids == SetToSeq(saved[old.req.user])
<1>4. ids \in Seq(Item)
  <2>1. old.req.user \in User
    BY <1>2, RequestFacts
  <2>2. saved[old.req.user] \in SUBSET Item /\ IsFiniteSet(saved[old.req.user])
    BY <2>1 DEF AssistInv
  <2>3. QED
    BY <2>2, RowOfSet
<1>5. CASE Step(k, [old EXCEPT !.stage = "hydrate", !.found = ids, !.left = ids])
  <2> HIDE DEF ids
  <2> DEFINE new == [old EXCEPT !.stage = "hydrate", !.found = ids, !.left = ids]
  <2>1. calls' = [calls EXCEPT ![k] = new] /\ UNCHANGED env
    BY <1>5 DEF Step
  <2>2. /\ DOMAIN new = Fields /\ new.stage = "hydrate" /\ new.taste = old.taste
        /\ new.req = old.req /\ new.since = old.since /\ new.found = ids /\ new.left = ids
        /\ new.words = old.words /\ new.intent = old.intent /\ new.dishes = old.dishes
        /\ new.reply = old.reply
    BY <1>2 DEF Typed, Fields
  <2> HIDE DEF new, W, old
  <2>3. Typed(new)
    BY <1>2, <2>2 DEF Typed
  <2>4. ThereHonest(W, new)
    BY <1>2, <2>2 DEF ThereHonest
  <2>5. FavoritesBest(W, new)
    BY <1>3, <1>4, <2>2 DEF FavoritesBest
  <2>6. Good(W, new)
    BY <1>2, <2>2, <2>3, <2>4, <2>5, DishGood
  <2>7. QED
    BY <1>2, <2>1, <2>2, <2>6, WorkKeeps DEF W, old
<1>6. CASE Step(k, [old EXCEPT !.stage = "hydrate", !.whole = FALSE])
  <2> DEFINE new == [old EXCEPT !.stage = "hydrate", !.whole = FALSE]
  <2>1. calls' = [calls EXCEPT ![k] = new] /\ UNCHANGED env
    BY <1>6 DEF Step
  <2>2. /\ DOMAIN new = Fields /\ new.stage = "hydrate" /\ new.taste = old.taste
        /\ new.req = old.req /\ new.since = old.since
        /\ new.found = old.found /\ new.left = old.left
        /\ new.words = old.words /\ new.intent = old.intent /\ new.dishes = old.dishes
        /\ new.reply = old.reply /\ new.whole = FALSE
    BY <1>2 DEF Typed, Fields
  <2> HIDE DEF new, W, old
  <2>3. Typed(new)
    BY <1>2, <2>2 DEF Typed
  <2>4. ThereHonest(W, new)
    BY <1>2, <2>2 DEF ThereHonest
  <2>5. FavoritesBest(W, new)
    BY <1>3, <2>2 DEF FavoritesBest
  <2>6. Good(W, new)
    BY <1>2, <2>2, <2>3, <2>4, <2>5, DishGood
  <2>7. QED
    BY <1>2, <2>1, <2>2, <2>6, WorkKeeps DEF W, old
<1>7. CASE Reply(k, "error")
  <2> DEFINE new == [old EXCEPT !.stage = "ended", !.reply = "error"]
  <2>1. calls' = [calls EXCEPT ![k] = new] /\ UNCHANGED env
    BY <1>7 DEF Step, Reply
  <2>2. /\ DOMAIN new = Fields /\ new.stage = "ended" /\ new.taste = old.taste
        /\ new.req = old.req /\ new.since = old.since
        /\ new.found = old.found /\ new.left = old.left
        /\ new.words = old.words /\ new.intent = old.intent /\ new.dishes = old.dishes
        /\ new.reply = "error"
    BY <1>2 DEF Typed, Fields
  <2> HIDE DEF new, W, old
  <2>3. Typed(new)
    BY <1>2, <2>2 DEF Typed
  <2>4. ThereHonest(W, new)
    BY <1>2, <2>2 DEF ThereHonest
  <2>5. FavoritesBest(W, new)
    BY <1>3, <2>2 DEF FavoritesBest
  <2>6. Good(W, new)
    BY <1>2, <2>2, <2>3, <2>4, <2>5, DishGood
  <2>7. QED
    BY <1>2, <2>1, <2>2, <2>6, WorkKeeps DEF W, old
<1>8. QED
  BY <1>5, <1>6, <1>7 DEF ReadSaved

\* Each that is read is listed, or was deleted, or failed: then the answer is not whole.
LEMMA HydrateDishKeeps ==
    ASSUME AssistInv, NEW k \in Call, HydrateDish(k)
    PROVE  AssistInv'
<1> DEFINE old == calls[k]
           W == Seen(old)
           i == Head(old.left)
           found == [item |-> i, match |-> 0]
           more == IF i \in Now.items THEN <<found>> ELSE <<>>
<1>1. At(k, "hydrate") /\ old.stage = "hydrate" /\ old.left # <<>>
  BY DEF At, HydrateDish
<1>2. /\ ~At(k, "idle") /\ Now \in W /\ Typed(old) /\ old.req.kind = "favorites"
      /\ ThereHonest(W, old) /\ FavoritesBest(W, old)
  BY <1>1, FavoritesFacts
<1>3. old.reply # "favorites" /\ old.left \in Seq(Item) /\ old.found \in Seq(Item)
      /\ old.dishes \in Seq(Rows)
  BY <1>1, <1>2 DEF FavoritesBest, Typed
<1>4. i \in Item /\ Tail(old.left) \in Seq(Item) /\ ToSet(old.left) = {i} \cup ToSet(Tail(old.left))
  BY <1>1, <1>3, HeadAndRest
<1> HIDE DEF i
<1>5. /\ more \in Seq(Rows)
      /\ i \in Now.items => ToSet(more) = {found} /\ found.item = i
      /\ i \notin Now.items => ToSet(more) = {}
  <2>1. found \in Rows /\ found.item = i
    BY <1>4 DEF Rows
  <2> HIDE DEF found
  <2>2. <<found>> \in Seq(Rows) /\ ToSet(<<found>>) = {found}
    BY <2>1, Single
  <2>3. <<>> \in Seq(Rows) /\ ToSet(<<>>) = {}
    BY DEF ToSet
  <2>4. CASE i \in Now.items
    BY <2>1, <2>2, <2>4
  <2>5. CASE i \notin Now.items
    BY <2>3, <2>5
  <2>6. QED
    BY <2>4, <2>5
<1>6. CASE Step(k, [old EXCEPT !.left = Tail(@), !.dishes = @ \o more])
  <2> DEFINE new == [old EXCEPT !.left = Tail(@), !.dishes = @ \o more]
  <2>1. calls' = [calls EXCEPT ![k] = new] /\ UNCHANGED env
    BY <1>6 DEF Step
  <2> HIDE DEF more, found
  <2>2. /\ DOMAIN new = Fields /\ new.stage = "hydrate" /\ new.taste = old.taste
        /\ new.req = old.req /\ new.since = old.since /\ new.found = old.found
        /\ new.left = Tail(old.left)
        /\ new.words = old.words /\ new.intent = old.intent /\ new.dishes = old.dishes \o more
        /\ new.reply = old.reply /\ new.whole = old.whole
    BY <1>1, <1>2 DEF Typed, Fields
  <2> HIDE DEF new, W, old
  <2>3. new.dishes \in Seq(Rows) /\ ToSet(new.dishes) = ToSet(old.dishes) \cup ToSet(more)
    BY <1>3, <1>5, <2>2, Joined
  <2>4. Typed(new)
    BY <1>2, <2>2, <2>3 DEF Typed
  <2>5. ThereHonest(W, new)
    BY <1>2, <1>5, <2>2, <2>3 DEF ThereHonest
  <2>6. FavoritesBest(W, new)
    <3>1. ASSUME new.whole, NEW j \in ToSet(new.found)
          PROVE  Carries(new, j) \/ j \in ToSet(new.left) \/ \E world \in W : j \notin world.items
      <4>1. Carries(old, j) \/ j \in ToSet(old.left) \/ \E world \in W : j \notin world.items
        BY <1>1, <1>2, <2>2, <3>1 DEF FavoritesBest
      <4>2. Carries(old, j) => Carries(new, j)
        BY <2>3 DEF Carries
      <4>3. i \in Now.items => Carries(new, i)
        BY <1>5, <2>3 DEF Carries
      <4>4. QED
        BY <1>2, <1>4, <2>2, <4>1, <4>2, <4>3
    <3>2. QED
      BY <1>3, <1>4, <2>2, <3>1 DEF FavoritesBest
  <2>7. Good(W, new)
    BY <1>2, <2>2, <2>4, <2>5, <2>6, DishGood
  <2>8. QED
    BY <1>2, <2>1, <2>2, <2>7, WorkKeeps DEF W, old
<1>7. CASE Step(k, [old EXCEPT !.left = Tail(@), !.whole = FALSE])
  <2> DEFINE new == [old EXCEPT !.left = Tail(@), !.whole = FALSE]
  <2>1. calls' = [calls EXCEPT ![k] = new] /\ UNCHANGED env
    BY <1>7 DEF Step
  <2>2. /\ DOMAIN new = Fields /\ new.stage = "hydrate" /\ new.taste = old.taste
        /\ new.req = old.req /\ new.since = old.since /\ new.found = old.found
        /\ new.left = Tail(old.left)
        /\ new.words = old.words /\ new.intent = old.intent /\ new.dishes = old.dishes
        /\ new.reply = old.reply /\ new.whole = FALSE
    BY <1>1, <1>2 DEF Typed, Fields
  <2> HIDE DEF new, W, old
  <2>3. Typed(new)
    BY <1>2, <2>2 DEF Typed
  <2>4. ThereHonest(W, new)
    BY <1>2, <2>2 DEF ThereHonest
  <2>5. FavoritesBest(W, new)
    BY <1>3, <1>4, <2>2 DEF FavoritesBest
  <2>6. Good(W, new)
    BY <1>2, <2>2, <2>3, <2>4, <2>5, DishGood
  <2>7. QED
    BY <1>2, <2>1, <2>2, <2>6, WorkKeeps DEF W, old
<1>8. QED
  BY <1>6, <1>7 DEF HydrateDish, i

\* So when none is left, all are listed or were deleted.
LEMMA SendFavoritesKeeps ==
    ASSUME AssistInv, NEW k \in Call, SendFavorites(k)
    PROVE  AssistInv'
<1> DEFINE old == calls[k]
           W == Seen(old)
           new == [old EXCEPT !.stage = "ended", !.reply = "favorites"]
<1>1. At(k, "hydrate") /\ old.stage = "hydrate" /\ old.left = <<>>
  BY DEF At, SendFavorites
<1>2. /\ ~At(k, "idle") /\ Typed(old) /\ old.req.kind = "favorites"
      /\ ThereHonest(W, old) /\ FavoritesBest(W, old)
  BY <1>1, FavoritesFacts
<1>3. calls' = [calls EXCEPT ![k] = new] /\ UNCHANGED env
  BY DEF SendFavorites, Reply, Step
<1>4. /\ DOMAIN new = Fields /\ new.stage = "ended" /\ new.taste = old.taste
      /\ new.req = old.req /\ new.since = old.since /\ new.found = old.found /\ new.left = old.left
      /\ new.words = old.words /\ new.intent = old.intent /\ new.dishes = old.dishes
      /\ new.reply = "favorites" /\ new.whole = old.whole
  BY <1>2 DEF Typed, Fields
<1> HIDE DEF new, W, old
<1>5. Typed(new)
  BY <1>2, <1>4 DEF Typed
<1>6. ThereHonest(W, new)
  BY <1>2, <1>4 DEF ThereHonest
<1>7. ToSet(old.left) = {}
  BY <1>1 DEF ToSet
<1>8. FavoritesBest(W, new)
  BY <1>1, <1>2, <1>4, <1>7 DEF FavoritesBest, Carries
<1>9. Good(W, new)
  BY <1>2, <1>4, <1>5, <1>6, <1>8, DishGood
<1>10. QED
  BY <1>2, <1>3, <1>4, <1>9, WorkKeeps DEF W, old

-----------------------------------------------------------------------------
(* Staff, users and a crash                                                  *)

\* Calls go on seeing what they saw when the world changes.
LEMMA WorldKeeps ==
    ASSUME AssistInv, NEW world \in Worlds, worlds' = Append(worlds, world),
           UNCHANGED <<tastes, saved, calls>>
    PROVE  AssistInv'
<1>1. /\ worlds' \in Seq(Worlds) /\ worlds' # <<>> /\ Len(worlds') = Len(worlds) + 1
      /\ \A n \in 1..Len(worlds) : worlds'[n] = worlds[n]
  BY AppendProperties DEF AssistInv
<1>2. Len(worlds) \in Nat
  BY LenProperties DEF AssistInv
<1>3. ASSUME NEW k \in Call
      PROVE  (At(k, "idle") \/
              (calls[k].since \in 1..Len(worlds) /\ Good(Seen(calls[k]), calls[k])))'
  <2> DEFINE row == calls[k]
             V == {worlds'[n] : n \in row.since..Len(worlds')}
  <2>1. CASE At(k, "idle")
    BY <2>1 DEF At
  <2>2. CASE ~At(k, "idle")
    <3>1. row.since \in 1..Len(worlds) /\ Good(Seen(row), row)
      BY <2>2 DEF AssistInv
    <3>2. row.since \in 1..Len(worlds')
      BY <1>1, <1>2, <3>1
    <3>3. Seen(row) \subseteq V
      <4>1. \A n \in row.since..Len(worlds) : n \in 1..Len(worlds) /\ n \in row.since..Len(worlds')
        BY <1>1, <1>2, <3>1
      <4>2. QED
        BY <1>1, <4>1 DEF Seen
    <3> HIDE DEF V
    <3>4. Good(V, row)
      BY <3>1, <3>3, GoodGrows
    <3>5. calls' = calls
      OBVIOUS
    <3>6. QED
      BY <3>2, <3>4, <3>5 DEF Seen, V
  <2>3. QED
    BY <2>1, <2>2
<1>4. QED
  BY <1>1, <1>3 DEF AssistInv

\* A user changes what is saved of the user, and nothing that a call has read.
LEMMA UserKeeps ==
    ASSUME AssistInv, UNCHANGED <<worlds, calls>>, tastes' \in [User -> Spices \cup {None}],
           saved' \in [User -> SUBSET Item], \A u \in User : IsFiniteSet(saved'[u])
    PROVE  AssistInv'
<1>1. ASSUME NEW k \in Call
      PROVE  (At(k, "idle") \/
              (calls[k].since \in 1..Len(worlds) /\ Good(Seen(calls[k]), calls[k])))'
  BY DEF AssistInv, At, Seen
<1>2. QED
  BY <1>1 DEF AssistInv

\* What there is now.
LEMMA NowType ==
    ASSUME AssistInv
    PROVE  /\ Now \in Worlds /\ DOMAIN Now = {"up", "items"}
           /\ Now.up \subseteq Restaurant \cup Category \cup Item /\ Now.items \subseteq Item
           /\ Now.up \cap Item \subseteq Now.items
<1>1. Len(worlds) \in 1..Len(worlds)
  BY EmptySeq, LenProperties DEF AssistInv
<1>2. Now \in Worlds
  BY <1>1, ElementOfSeq DEF AssistInv, Now
<1>3. QED
  BY <1>2 DEF Worlds

\* Staff add a world.
LEMMA StaffKeeps ==
    ASSUME AssistInv,
           \/ \E r \in Restaurant : ToggleManualClosed(r)
           \/ \E c \in Category : UpdateCategory(c)
           \/ \E i \in Item : UpdateItem(i) \/ DeleteItem(i)
    PROVE  AssistInv'
<1>1. ASSUME NEW x, x \in Restaurant \cup Category \/ x \in Now.items, Change, Becomes(Flip(x))
      PROVE  AssistInv'
  <2> DEFINE up == SymDiff(Now.up, {x})
             items == Now.items
  <2>1. Flip(x) = [up |-> up, items |-> items]
    BY NowType DEF Flip
  <2>2. x \in Restaurant \cup Category => x \notin Item
    BY MenuFacts
  <2>3. x \in Restaurant \cup Category \cup Item /\ (x \in Item => x \in Now.items)
    BY <1>1, <2>2, NowType
  <2>4. up \subseteq Restaurant \cup Category \cup Item /\ up \cap Item \subseteq items
    BY <2>3, NowType DEF SymDiff
  <2>5. items \subseteq Item
    BY NowType
  <2> HIDE DEF up, items
  <2>6. Flip(x) \in Worlds
    BY <2>1, <2>4, <2>5 DEF Worlds
  <2>7. QED
    BY <1>1, <2>6, WorldKeeps DEF Becomes, Change
<1>2. ASSUME NEW i \in Item, DeleteItem(i)
      PROVE  AssistInv'
  <2> DEFINE up == Now.up \ {i}
             items == Now.items \ {i}
             world == [up |-> up, items |-> items]
  <2>1. up \subseteq Restaurant \cup Category \cup Item /\ up \cap Item \subseteq items
        /\ items \subseteq Item
    BY NowType
  <2>2. Becomes(world) /\ Change
    BY <1>2 DEF DeleteItem
  <2> HIDE DEF up, items
  <2>3. world \in Worlds
    BY <2>1 DEF Worlds
  <2> HIDE DEF world
  <2>4. QED
    BY <2>2, <2>3, WorldKeeps DEF Becomes, Change
<1>3. QED
  BY <1>1, <1>2 DEF ToggleManualClosed, UpdateCategory, UpdateItem

\* Users change no world.
LEMMA UsersKeep ==
    ASSUME AssistInv, NEW u \in User,
           \/ \E spice \in Spices : UpdateTaste(u, spice)
           \/ \E i \in Savable : AddDish(u, i) \/ RemoveDish(u, i)
           \/ \E k \in Call : \/ DeleteCraving(u, k)
                             \/ \E pinned \in BOOLEAN : PinCraving(u, k, pinned)
    PROVE  AssistInv'
<1>1. /\ tastes \in [User -> Spices \cup {None}] /\ saved \in [User -> SUBSET Item]
      /\ \A v \in User : IsFiniteSet(saved[v])
  BY DEF AssistInv
<1>2. ASSUME NEW spice \in Spices, UpdateTaste(u, spice) PROVE AssistInv'
  BY <1>1, <1>2, UserKeeps DEF UpdateTaste, Change
<1>3. ASSUME NEW s \in SUBSET Item, IsFiniteSet(s), saved' = [saved EXCEPT ![u] = s],
             UNCHANGED <<worlds, tastes, calls>>
      PROVE  AssistInv'
  BY <1>1, <1>3, UserKeeps
<1>4. ASSUME NEW i \in Savable, AddDish(u, i) PROVE AssistInv'
  <2>1. saved[u] \cup {i} \in SUBSET Item
    BY <1>1, AssistantAssumption
  <2>2. IsFiniteSet(saved[u] \cup {i})
    BY <1>1, FS_AddElement
  <2>3. QED
    BY <1>3, <1>4, <2>1, <2>2 DEF AddDish, Change
<1>5. ASSUME NEW i \in Savable, RemoveDish(u, i) PROVE AssistInv'
  <2>1. saved[u] \ {i} \in SUBSET Item
    BY <1>1
  <2>2. IsFiniteSet(saved[u] \ {i})
    BY <1>1, FS_RemoveElement
  <2>3. QED
    BY <1>3, <1>5, <2>1, <2>2 DEF RemoveDish, Change
<1>6. ASSUME NEW k \in Call, DeleteCraving(u, k) \/ \E pinned \in BOOLEAN : PinCraving(u, k, pinned)
      PROVE  AssistInv'
  <2>1. UNCHANGED <<worlds, tastes, saved, calls>>
    BY <1>6 DEF DeleteCraving, PinCraving, Change
  <2>2. QED
    BY <1>1, <2>1, UserKeeps
<1>7. QED
  BY <1>2, <1>4, <1>5, <1>6

\* What a call has is no less true when its process dies.
LEMMA DiedGood ==
    ASSUME NEW W, NEW old, NEW new, Good(W, old), old.stage \notin {"idle", "ended", "died"},
           new = [old EXCEPT !.stage = "died"]
    PROVE  Good(W, new)
<1>1. Typed(old) /\ old.req.kind \in Kinds
  BY KindOfStage
<1>2. /\ DOMAIN new = Fields /\ new.stage = "died" /\ new.taste = old.taste
      /\ new.found = old.found /\ new.left = old.left /\ new.opened = old.opened
      /\ new.req = old.req /\ new.words = old.words
      /\ new.intent = old.intent /\ new.dishes = old.dishes /\ new.whole = old.whole
      /\ new.reply = old.reply
  BY <1>1 DEF Typed, Fields
<1>3. Typed(new)
  BY <1>1, <1>2 DEF Typed
<1>4. CASE old.req.kind \in Listings
  <2>1. ListingHonest(W, old)
    BY <1>4 DEF Good
  <2>2. ListingHonest(W, new)
    BY <1>2, <2>1 DEF ListingHonest, Offers
  <2>3. ListingBest(W, new)
    BY <1>2 DEF ListingBest
  <2>4. QED
    BY <1>2, <1>3, <1>4, <2>2, <2>3, ListingGood
<1>5. CASE old.req.kind \in {"search", "chat"}
  <2>1. SearchHonest(W, old)
    BY <1>5 DEF Good
  <2>2. SearchHonest(W, new)
    BY <1>2, <2>1 DEF SearchHonest
  <2>3. QED
    BY <1>2, <1>3, <1>5, <2>2, SearchGood
<1>6. CASE old.req.kind \in {"dish", "favorites"}
  <2>1. ThereHonest(W, old) /\ (old.req.kind = "favorites" => FavoritesBest(W, old))
    BY <1>6 DEF Good
  <2>2. ThereHonest(W, new)
    BY <1>2, <2>1 DEF ThereHonest
  <2>3. old.req.kind = "favorites" => FavoritesBest(W, new)
    BY <1>2, <2>1 DEF FavoritesBest
  <2>4. QED
    BY <1>2, <1>3, <1>6, <2>2, <2>3, DishGood
<1>7. QED
  BY <1>1, <1>4, <1>5, <1>6 DEF Kinds, Listings

\* Calls that die keep what they have.
LEMMA CrashKeeps ==
    ASSUME AssistInv, Crash
    PROVE  AssistInv'
<1>1. /\ calls' = [k \in Call |->
                     IF Underway(k) THEN [calls[k] EXCEPT !.stage = "died"] ELSE calls[k]]
      /\ worlds' = worlds /\ tastes' = tastes /\ saved' = saved
  BY DEF Crash, env
<1>2. ASSUME NEW k \in Call
      PROVE  (At(k, "idle") \/
              (calls[k].since \in 1..Len(worlds) /\ Good(Seen(calls[k]), calls[k])))'
  <2>1. CASE Underway(k)
    <3> DEFINE old == calls[k]
               new == [old EXCEPT !.stage = "died"]
    <3>1. old.stage \notin {"idle", "ended", "died"} /\ ~At(k, "idle")
      BY <2>1 DEF Underway, At
    <3>2. old.since \in 1..Len(worlds) /\ Good(Seen(old), old)
      BY <3>1, CallFacts
    <3>3. DOMAIN old = Fields
      BY <3>1, <3>2 DEF Good, Typed
    <3>4. calls'[k] = new /\ new.since = old.since
      BY <1>1, <2>1, <3>3 DEF Fields
    <3> HIDE DEF old
    <3>5. Good(Seen(old), new)
      BY <3>1, <3>2, DiedGood
    <3> HIDE DEF new
    <3>6. QED
      BY <1>1, <3>2, <3>4, <3>5 DEF Seen
  <2>2. CASE ~Underway(k)
    BY <1>1, <2>2 DEF AssistInv, At, Seen
  <2>3. QED
    BY <2>1, <2>2
<1>3. QED
  BY <1>1, <1>2 DEF AssistInv

-----------------------------------------------------------------------------
(* The theorems                                                              *)

\* No call has begun.
LEMMA AssistInvInit ==
    ASSUME Init
    PROVE  AssistInv
<1> DEFINE world == [up |-> Restaurant \cup Category \cup Item, items |-> Item]
<1>1. world \in Worlds
  BY DEF Worlds
<1>2. worlds = <<world>>
  BY DEF Init
<1> HIDE DEF world
<1>3. worlds \in Seq(Worlds) /\ worlds # <<>>
  BY <1>1, <1>2
<1>4. /\ tastes \in [User -> Spices \cup {None}] /\ saved \in [User -> SUBSET Item]
      /\ \A u \in User : IsFiniteSet(saved[u])
  BY FS_EmptySet DEF Init
<1>5. DOMAIN calls = Call /\ \A k \in Call : At(k, "idle")
  BY DEF Init, At
<1>6. QED
  BY <1>3, <1>4, <1>5 DEF AssistInv

\* Every step keeps the invariant.
LEMMA AssistInvStep ==
    ASSUME AssistInv, [Next]_vars
    PROVE  AssistInv'
<1>1. CASE \/ \E r \in Restaurant : ToggleManualClosed(r)
           \/ \E c \in Category : UpdateCategory(c)
           \/ \E i \in Item : UpdateItem(i) \/ DeleteItem(i)
  BY <1>1, StaffKeeps
<1>2. ASSUME NEW u \in User,
             \/ \E spice \in Spices : UpdateTaste(u, spice)
             \/ \E i \in Savable : AddDish(u, i) \/ RemoveDish(u, i)
             \/ \E k \in Call : \/ DeleteCraving(u, k)
                               \/ \E pinned \in BOOLEAN : PinCraving(u, k, pinned)
      PROVE  AssistInv'
  BY <1>2, UsersKeep
<1>3. ASSUME NEW k \in Call, StartCall(k) PROVE AssistInv'
  BY <1>3, StartKeeps
<1>4. ASSUME NEW k \in Call, CallStep(k) PROVE AssistInv'
  BY <1>4, ReadTasteKeeps, DiscoverySearchKeeps, DiscoveryListKeeps, SkipMenuKeeps,
     ReadCategoriesKeeps, ReadItemsKeeps, RankDishesKeeps, ComposeAnswerKeeps, RecordCravingKeeps,
     RefineIntentKeeps, FindRestaurantsKeeps, CompleteChatKeeps, ReadDishKeeps, ReadSavedKeeps,
     HydrateDishKeeps, SendFavoritesKeeps
     DEF CallStep
<1>5. CASE Crash
  BY <1>5, CrashKeeps
<1>6. CASE UNCHANGED vars
  BY <1>6, UserKeeps DEF vars, env, AssistInv
<1>7. QED
  BY <1>1, <1>2, <1>3, <1>4, <1>5, <1>6 DEF Next

\* So it is an invariant: for any restaurants, menus, users and requests.
LEMMA AssistInvHolds == Spec => []AssistInv
<1>1. Init => AssistInv
  BY AssistInvInit
<1>2. AssistInv /\ [Next]_vars => AssistInv'
  BY AssistInvStep
<1>3. QED
  BY <1>1, <1>2, PTL DEF Spec

\* What the properties say of a call that has begun, in terms of its row.
LEMMA RowsShown ==
    ASSUME AssistInv, NEW k \in Begun
    PROVE  /\ k \in Call /\ calls[k].stage # "idle" /\ Seen(calls[k]) = Since(k)
           /\ Good(Seen(calls[k]), calls[k]) /\ Typed(calls[k])
           /\ ItemsShown(k) = {d.item : d \in ToSet(calls[k].dishes)}
<1>1. k \in Call /\ ~At(k, "idle") /\ calls[k].stage # "idle"
  BY DEF Begun, At
<1>2. Good(Seen(calls[k]), calls[k]) /\ Typed(calls[k])
  BY <1>1, CallFacts DEF Good
<1>3. QED
  BY <1>1, <1>2 DEF Seen, Since, ItemsShown, ToSet

\* What is shown was offered while the call ran, fits the filters, and restaurants
\* fit the intent that is returned with them.
THEOREM AnswerHonestHolds == Spec => []AnswerHonest
<1>1. AssistInv => AnswerHonest
  <2> SUFFICES ASSUME AssistInv PROVE AnswerHonest
    OBVIOUS
  <2>1. ASSUME NEW k \in OfKind(Listings), NEW i \in ItemsShown(k)
        PROVE  /\ SeenUp(k, {i, CategoryOf(i), RestaurantOf(i)})
               /\ KeepsDish(calls[k].req.filter, i)
               /\ KeepsRestaurant(calls[k].req.filter, RestaurantOf(i))
    <3>1. k \in Begun /\ calls[k].req.kind \in Listings
      BY DEF OfKind
    <3>2. ListingHonest(Since(k), calls[k])
      BY <3>1, RowsShown DEF Good
    <3>3. PICK d \in ToSet(calls[k].dishes) : d.item = i
      BY <3>1, RowsShown
    <3>4. Offers(Since(k), calls[k], i)
      BY <3>2, <3>3 DEF ListingHonest
    <3>5. QED
      BY <3>4 DEF Offers, SeenUp, SeenIn
  <2>2. ASSUME NEW k \in OfKind({"dish", "favorites"}), NEW i \in ItemsShown(k)
        PROVE  \E world \in Since(k) : i \in world.items
    <3>1. k \in Begun /\ calls[k].req.kind \in {"dish", "favorites"}
      BY DEF OfKind
    <3>2. ThereHonest(Since(k), calls[k])
      BY <3>1, RowsShown DEF Good
    <3>3. QED
      BY <3>1, <3>2, RowsShown DEF ThereHonest
  <2>3. ASSUME NEW k \in OfKind({"search", "chat"}), NEW r \in ToSet(calls[k].found)
        PROVE  /\ SeenUp(k, {r})
               /\ calls[k].intent.cuisine \in Facts[r].cuisines \cup {None}
               /\ calls[k].intent.minutes # None =>
                    Facts[r].prep = 0 \/ Facts[r].prep <= calls[k].intent.minutes
    <3>1. k \in Begun /\ calls[k].req.kind \in {"search", "chat"}
      BY DEF OfKind
    <3>2. SearchHonest(Since(k), calls[k])
      BY <3>1, RowsShown DEF Good
    <3>3. QED
      BY <3>2 DEF SearchHonest, SeenUp, SeenIn
  <2>4. QED
    BY <2>1, <2>2, <2>3 DEF AnswerHonest
<1>2. QED
  BY <1>1, AssistInvHolds, PTL

\* When no read failed, what was offered all the time is shown unless what is shown
\* matches at least as well, and no favourite that was there is missing.
THEOREM BestShownHolds == Spec => []BestShown
<1>1. AssistInv => BestShown
  <2> SUFFICES ASSUME AssistInv PROVE BestShown
    OBVIOUS
  <2>1. ASSUME NEW k \in OfKind(Listings), calls[k].whole,
               calls[k].stage \in {"compose", "record", "ended"}, NEW i \in Item \ ItemsShown(k)
        PROVE  \/ RestaurantOf(i) \notin ToSet(calls[k].found)
               \/ ~AlwaysUp(k, {i, CategoryOf(i), RestaurantOf(i)})
               \/ ~KeepsDish(calls[k].req.filter, i)
               \/ /\ Len(calls[k].dishes) = Shown(k)
                  /\ \A n \in 1..Shown(k) :
                       calls[k].dishes[n].match >= Score(i, calls[k].words, calls[k].taste)
    <3>1. k \in Begun /\ calls[k].req.kind \in Listings
      BY DEF OfKind
    <3>2. ListingBest(Since(k), calls[k])
      BY <2>1, <3>1, RowsShown DEF Good
    <3>3. ~Carries(calls[k], i)
      BY <3>1, RowsShown DEF Carries
    <3>4. Space(calls[k]) = Shown(k)
      BY DEF Space, Shown
    <3>5. AlwaysUp(k, {i, CategoryOf(i), RestaurantOf(i)})
            <=> AlwaysIn(Since(k), {i, CategoryOf(i), RestaurantOf(i)})
      BY DEF AlwaysUp, AlwaysIn
    <3>6. QED
      BY <2>1, <3>2, <3>3, <3>4, <3>5 DEF ListingBest, Due
  <2>2. ASSUME NEW k \in OfKind({"favorites"}), calls[k].whole, calls[k].reply = "favorites",
               NEW i \in ToSet(calls[k].found) \ ItemsShown(k)
        PROVE  \E world \in Since(k) : i \notin world.items
    <3>1. k \in Begun /\ calls[k].req.kind = "favorites"
      BY DEF OfKind
    <3>2. FavoritesBest(Since(k), calls[k])
      BY <3>1, RowsShown DEF Good
    <3>3. ~Carries(calls[k], i)
      BY <3>1, RowsShown DEF Carries
    <3>4. QED
      BY <2>2, <3>2, <3>3 DEF FavoritesBest
  <2>3. QED
    BY <2>1, <2>2 DEF BestShown
<1>2. QED
  BY <1>1, AssistInvHolds, PTL

-----------------------------------------------------------------------------
(* Group orders: the inductive invariant                                    *)

GroupRows == [code : Code, host : User, lock : Int]

GroupsTyped ==
    /\ clock \in Int
    /\ groups \in [Call -> GroupRows \cup {None}]
    /\ members \subseteq [group : Call, user : User, by : Call]
    /\ DOMAIN calls = Call
    /\ open \in [Call -> SUBSET Call]

\* A group belongs to whoever made the call that created it.
OwnHost == \A g \in Call : groups[g] # None => groups[g].host = CallerOf[g]

\* What a call relies on that it read, or did, in an earlier step: a join, that
\* every group that is not locked now has been unlocked since the call began.
\* Nobody is a member by a call that has not begun.
Sound(k) ==
    /\ At(k, "idle") => \A m \in members : m.by # k
    /\ At(k, "insert") => calls[k].code \in Code
    /\ At(k, "host") => groups[k] # None
    /\ At(k, "join") => Unlocked \subseteq open[k]
    /\ At(k, "add") =>
         calls[k].group \in open[k] /\ groups[calls[k].group] # None
    /\ At(k, "set") =>
         /\ calls[k].group \in Call /\ groups[calls[k].group] # None
         /\ calls[k].until \in Int

GroupInv == GroupsTyped /\ OwnHost /\ (\A k \in Call : Sound(k)) /\ JoinedWhileOpen

-----------------------------------------------------------------------------
(* Steps of a call                                                          *)

\* With sets the fields of change and keeps the others.
LEMMA WithFields ==
    ASSUME NEW row, NEW change
    PROVE  /\ \A f \in DOMAIN change : With(row, change)[f] = change[f]
           /\ \A f \in DOMAIN row \ DOMAIN change : With(row, change)[f] = row[f]
  BY DEF With

\* Goes and Ends change the state of one call and leave it at the stage they name.
LEMMA CallSteps ==
    ASSUME GroupsTyped, NEW k \in Call
    PROVE  /\ \A change : Goes(k, change) =>
                /\ DOMAIN calls' = Call
                /\ calls'[k] = With(calls[k], change)
                /\ \A j \in Call \ {k} : calls'[j] = calls[j]
           /\ \A reply : Ends(k, reply) =>
                /\ DOMAIN calls' = Call
                /\ calls'[k].stage = "ended"
                /\ \A j \in Call \ {k} : calls'[j] = calls[j]
  BY DEF GroupsTyped, Goes, Ends

\* A step that writes no group and no member, and notes nothing, keeps all but
\* what the call that took it relies on.
LEMMA QuietStep ==
    ASSUME GroupInv, NEW k \in Call, UNCHANGED <<clock, groups, members, open>>,
           DOMAIN calls' = Call,
           \A j \in Call \ {k} : calls'[j] = calls[j], Sound(k)'
    PROVE  GroupInv'
<1>1. GroupsTyped' BY DEF GroupInv, GroupsTyped
<1>2. OwnHost' BY DEF GroupInv, OwnHost
<1>3. JoinedWhileOpen' BY DEF GroupInv, JoinedWhileOpen
<1>4. Unlocked' = Unlocked BY DEF Unlocked, Locked
<1>5. \A j \in Call \ {k} : Sound(j)' BY <1>4 DEF GroupInv, Sound, At
<1> QED BY <1>1, <1>2, <1>3, <1>5 DEF GroupInv

\* A call that has ended relies on nothing.
LEMMA EndedSound == ASSUME NEW k, calls[k].stage = "ended" PROVE Sound(k)
  BY DEF Sound, At

\* So a call may end at any time, when it writes nothing.
LEMMA QuietEnd ==
    ASSUME GroupInv, NEW k \in Call, UNCHANGED <<clock, groups, members, open>>,
           NEW reply, Ends(k, reply)
    PROVE  GroupInv'
<1>1. /\ DOMAIN calls' = Call /\ calls'[k].stage = "ended"
      /\ \A j \in Call \ {k} : calls'[j] = calls[j]
  BY CallSteps DEF GroupInv
<1>2. Sound(k)' BY <1>1 DEF Sound, At
<1> QED BY <1>1, <1>2, QuietStep

\* And go on to a stage whose conditions hold.
LEMMA QuietGoes ==
    ASSUME GroupInv, NEW k \in Call, UNCHANGED <<clock, groups, members, open>>,
           NEW change, Goes(k, change),
           \A row : LET next == With(row, change) IN
              /\ next.stage = "insert" => next.code \in Code
              /\ next.stage \notin {"idle", "host", "join"}
              /\ next.stage = "add" => next.group \in open[k] /\ groups[next.group] # None
              /\ next.stage = "set" =>
                   next.group \in Call /\ groups[next.group] # None /\ next.until \in Int
    PROVE  GroupInv'
<1>1. /\ DOMAIN calls' = Call /\ calls'[k] = With(calls[k], change)
      /\ \A j \in Call \ {k} : calls'[j] = calls[j]
  BY CallSteps DEF GroupInv
<1>2. Sound(k)' BY <1>1 DEF Sound, At
<1> QED BY <1>1, <1>2, QuietStep

-----------------------------------------------------------------------------
(* The invariant is inductive                                               *)

LEMMA GroupInvInit == GroupInit => GroupInv
  BY GroupAssumption
     DEF GroupInit, GroupInv, GroupsTyped, GroupRows, OwnHost, Sound, At, JoinedWhileOpen

\* Inserting the row of a member who is the host, or of a group that was open
\* during the call, keeps the members what they should be.
LEMMA AddMemberKeeps ==
    ASSUME GroupInv, NEW k \in Call, NEW g \in Call, AddMember(g, k),
           UNCHANGED <<groups, open>>,
           groups[g] # None, CallerOf[k] = groups[g].host \/ g \in open[k]
    PROVE  /\ members' \subseteq [group : Call, user : User, by : Call]
           /\ JoinedWhileOpen'
<1>1. CallerOf[k] \in User BY GroupAssumption
<1>2. \A m \in members' : m \in members \/ m = [group |-> g, user |-> CallerOf[k], by |-> k]
  BY DEF AddMember
<1>3. members' \subseteq [group : Call, user : User, by : Call]
  BY <1>1, <1>2 DEF GroupInv, GroupsTyped
<1>4. \A m \in members' :
         groups[m.group] # None /\ (m.user = groups[m.group].host \/ m.group \in open[m.by])
  BY <1>2 DEF GroupInv, JoinedWhileOpen
<1> QED BY <1>3, <1>4 DEF GroupInv, JoinedWhileOpen

\* What a step that adds a member and ends its call keeps.
LEMMA MemberStep ==
    ASSUME GroupInv, NEW k \in Call, NEW g \in Call, AddMember(g, k),
           UNCHANGED <<clock, groups, open>>, NEW reply, Ends(k, reply),
           groups[g] # None, CallerOf[k] = groups[g].host \/ g \in open[k]
    PROVE  GroupInv'
<1>1. /\ DOMAIN calls' = Call /\ calls'[k].stage = "ended"
      /\ \A j \in Call \ {k} : calls'[j] = calls[j]
  BY CallSteps DEF GroupInv
<1>2. members' \subseteq [group : Call, user : User, by : Call] /\ JoinedWhileOpen'
  BY AddMemberKeeps
<1>3. GroupsTyped' BY <1>1, <1>2 DEF GroupInv, GroupsTyped
<1>4. OwnHost' BY DEF GroupInv, OwnHost
<1>5. Unlocked' = Unlocked BY DEF Unlocked, Locked
<1>6. \A m \in members' : m.by = k \/ m \in members BY DEF AddMember
<1>7. \A j \in Call : Sound(j)' BY <1>1, <1>5, <1>6 DEF GroupInv, Sound, At
<1> QED BY <1>2, <1>3, <1>4, <1>7 DEF GroupInv

\* When rows of groups change, or time passes, what is unlocked then is noted,
\* and open groups stay noted.
LEMMA NotedKeeps ==
    ASSUME GroupInv, UNCHANGED members, Noted, clock' \in Int,
           groups' \in [Call -> GroupRows \cup {None}],
           \A g \in Call : groups[g] # None => groups'[g] # None,
           \A g \in Call : groups'[g] # None => groups'[g].host = CallerOf[g],
           \A g, h \in Call : groups'[g] # None /\ groups'[h] # None /\ g # h =>
               groups'[g].code # groups'[h].code,
           DOMAIN calls' = Call,
           \A j \in Call : calls'[j] = calls[j] \/ Sound(j)'
    PROVE  GroupInv'
<1>1. Unlocked' \in SUBSET Call BY DEF Unlocked
<1>2. open' = [k \in Call |-> open[k] \cup Unlocked'] BY DEF Noted
<1>3. open' \in [Call -> SUBSET Call] BY <1>1, <1>2 DEF GroupInv, GroupsTyped
<1>4. GroupsTyped' BY <1>3 DEF GroupInv, GroupsTyped
<1>5. OwnHost' BY DEF OwnHost
<1>6. \A k \in Call : open[k] \subseteq open'[k] /\ Unlocked' \subseteq open'[k] BY <1>2
<1>7. ASSUME NEW m \in members
      PROVE  groups'[m.group] # None
             /\ (m.user = groups'[m.group].host \/ m.group \in open'[m.by])
  <2>1. m.group \in Call /\ m.by \in Call BY DEF GroupInv, GroupsTyped
  <2>2. groups[m.group] # None /\ (m.user = groups[m.group].host \/ m.group \in open[m.by])
    BY DEF GroupInv, JoinedWhileOpen
  <2>3. groups[m.group].host = CallerOf[m.group] BY <2>1, <2>2 DEF GroupInv, OwnHost
  <2> QED BY <1>6, <2>1, <2>2, <2>3
<1>8. JoinedWhileOpen' BY <1>7 DEF JoinedWhileOpen
<1>9. ASSUME NEW j \in Call, calls'[j] = calls[j] PROVE Sound(j)'
  BY <1>6, <1>9 DEF GroupInv, GroupsTyped, Sound, At
<1> QED BY <1>4, <1>5, <1>8, <1>9 DEF GroupInv

\* Creating a group: the code is one that no stored group has, at the insert.
LEMMA CreateSteps ==
    ASSUME GroupInv, NEW k \in Call,
           Create(k) \/ GenerateShareCode(k) \/ InsertGroup(k) \/ JoinHost(k)
    PROVE  GroupInv'
<1>1. CASE Create(k)
  <2>1. CASE Ends(k, "restaurant not found") BY <1>1, <2>1, QuietEnd DEF Create
  <2>2. CASE Goes(k, [stage |-> "pick", tries |-> 0])
    <3>1. \A row : With(row, [stage |-> "pick", tries |-> 0]).stage = "pick" BY DEF With
    <3> QED BY <1>1, <2>2, <3>1, QuietGoes DEF Create
  <2> QED BY <1>1, <2>1, <2>2 DEF Create
<1>2. CASE GenerateShareCode(k)
  <2>1. CASE Ends(k, "error") BY <1>2, <2>1, QuietEnd DEF GenerateShareCode
  <2>2. CASE \E code \in Code :
                IF FindByShareCode(code) = {} THEN Goes(k, [stage |-> "insert", code |-> code])
                ELSE IF calls[k].tries + 1 = MaxTries THEN Ends(k, "no code")
                ELSE Goes(k, [stage |-> "pick", tries |-> calls[k].tries + 1])
    <3> PICK code \in Code :
                IF FindByShareCode(code) = {} THEN Goes(k, [stage |-> "insert", code |-> code])
                ELSE IF calls[k].tries + 1 = MaxTries THEN Ends(k, "no code")
                ELSE Goes(k, [stage |-> "pick", tries |-> calls[k].tries + 1])
      BY <2>2
    <3>1. CASE Goes(k, [stage |-> "insert", code |-> code])
      <4>1. \A row : LET next == With(row, [stage |-> "insert", code |-> code])
                     IN next.stage = "insert" /\ next.code = code
        BY DEF With
      <4> QED BY <1>2, <3>1, <4>1, QuietGoes DEF GenerateShareCode
    <3>2. CASE Ends(k, "no code") BY <1>2, <3>2, QuietEnd DEF GenerateShareCode
    <3>3. CASE Goes(k, [stage |-> "pick", tries |-> calls[k].tries + 1])
      <4>1. \A row, n : With(row, [stage |-> "pick", tries |-> n]).stage = "pick" BY DEF With
      <4> QED BY <1>2, <3>3, <4>1, QuietGoes DEF GenerateShareCode
    <3> QED BY <3>1, <3>2, <3>3
  <2> QED BY <1>2, <2>1, <2>2 DEF GenerateShareCode
<1>3. CASE InsertGroup(k)
  <2> DEFINE row == [code |-> calls[k].code, host |-> CallerOf[k], lock |-> 0]
  <2>1. row \in GroupRows BY <1>3, GroupAssumption DEF InsertGroup, GroupInv, Sound, GroupRows
  <2>2. row # None BY <2>1, GroupAssumption DEF GroupRows
  <2>3. UNCHANGED <<clock, members>> /\ Noted BY <1>3 DEF InsertGroup
  <2>4. \/ /\ FindByShareCode(row.code) = {} /\ groups' = [groups EXCEPT ![k] = row]
           /\ Goes(k, [stage |-> "host"]) \/ Ends(k, "error")
        \/ UNCHANGED groups /\ Ends(k, "error")
    BY <1>3 DEF InsertGroup
  <2>5. /\ DOMAIN calls' = Call
        /\ calls'[k].stage = "ended" \/ (calls'[k].stage = "host" /\ groups'[k] # None)
        /\ \A j \in Call \ {k} : calls'[j] = calls[j]
    <3>1. CASE Goes(k, [stage |-> "host"])
      BY <2>2, <2>4, <3>1, CallSteps, WithFields DEF GroupInv, GroupsTyped
    <3>2. CASE Ends(k, "error") BY <3>2, CallSteps DEF GroupInv
    <3> QED BY <2>4, <3>1, <3>2
  <2>6. Sound(k)' BY <2>5 DEF Sound, At
  <2>7. CASE UNCHANGED groups
    BY <2>3, <2>5, <2>6, <2>7, NotedKeeps DEF GroupInv, GroupsTyped, OwnHost, JoinedWhileOpen
  <2>8. CASE FindByShareCode(row.code) = {} /\ groups' = [groups EXCEPT ![k] = row]
    <3>1. groups' \in [Call -> GroupRows \cup {None}]
      BY <2>1, <2>8 DEF GroupInv, GroupsTyped
    <3>2. groups'[k] = row /\ \A g \in Call \ {k} : groups'[g] = groups[g]
      BY <2>8 DEF GroupInv, GroupsTyped
    <3>3. \A g \in Call \ {k} : groups[g] # None => groups[g].code # row.code
      BY <2>8 DEF FindByShareCode
    <3>4. \A g \in Call : groups[g] # None => groups'[g] # None BY <2>2, <3>2
    <3>5. \A g \in Call : groups'[g] # None => groups'[g].host = CallerOf[g]
      BY <3>2 DEF GroupInv, OwnHost
    <3>6. \A g, h \in Call : groups'[g] # None /\ groups'[h] # None /\ g # h =>
             groups'[g].code # groups'[h].code
      BY <3>2, <3>3 DEF GroupInv, JoinedWhileOpen
    <3> HIDE DEF row
    <3> QED BY <2>3, <2>5, <2>6, <3>1, <3>4, <3>5, <3>6, NotedKeeps DEF GroupInv, GroupsTyped
  <2> QED BY <2>4, <2>7, <2>8
<1>4. CASE JoinHost(k)
  <2>1. CASE UNCHANGED members BY <1>4, <2>1, QuietEnd DEF JoinHost
  <2>2. groups[k] # None /\ CallerOf[k] = groups[k].host
    BY <1>4 DEF JoinHost, GroupInv, Sound, OwnHost
  <2>3. CASE AddMember(k, k) BY <1>4, <2>2, <2>3, MemberStep DEF JoinHost
  <2> QED BY <1>4, <2>1, <2>3 DEF JoinHost
<1> QED BY <1>1, <1>2, <1>3, <1>4

\* A call that arrives has seen nothing yet, and all that is open is noted.
LEMMA ArriveStep ==
    ASSUME GroupInv, NEW k \in Call, NEW stage \in {"join", "lock", "checkout"},
           Arrive(k, stage)
    PROVE  GroupInv'
<1> PICK code \in Code : Goes(k, [stage |-> stage, code |-> code]) BY DEF Arrive
<1>1. /\ DOMAIN calls' = Call /\ calls'[k].stage = stage
      /\ \A j \in Call \ {k} : calls'[j] = calls[j]
  BY CallSteps, WithFields DEF GroupInv
<1>2. /\ UNCHANGED <<clock, groups, members>>
      /\ open' = [open EXCEPT ![k] = Unlocked]
  BY DEF Arrive
<1>3. Unlocked' = Unlocked BY <1>2 DEF Unlocked, Locked
<1>4. Unlocked \in SUBSET Call BY DEF Unlocked
<1>5. GroupsTyped' BY <1>1, <1>2, <1>4 DEF GroupInv, GroupsTyped
<1>6. OwnHost' BY <1>2 DEF GroupInv, OwnHost
<1>7. open'[k] = Unlocked /\ \A j \in Call \ {k} : open'[j] = open[j]
  BY <1>2 DEF GroupInv, GroupsTyped
<1>8. \A m \in members : m.by # k BY DEF Arrive, GroupInv, Sound
<1>9. \A m \in members : m.by \in Call BY DEF GroupInv, GroupsTyped
<1>10. JoinedWhileOpen' BY <1>2, <1>7, <1>8, <1>9 DEF GroupInv, JoinedWhileOpen
<1>11. \A j \in Call : Sound(j)' BY <1>1, <1>2, <1>3, <1>7 DEF GroupInv, Sound, At
<1> QED BY <1>5, <1>6, <1>10, <1>11 DEF GroupInv

\* A join is let in, and added, by a group it read while the group was open.
LEMMA JoinSteps ==
    ASSUME GroupInv, NEW k \in Call, Join(k) \/ JoinMember(k)
    PROVE  GroupInv'
<1>1. CASE Join(k)
  <2>1. /\ At(k, "join") /\ UNCHANGED <<clock, groups, members, open>>
        /\ \/ \E reply : Ends(k, reply)
           \/ \E g \in FindByShareCode(calls[k].code) :
                IF RefusesJoin(groups[g]) THEN Ends(k, "group is locked")
                ELSE Goes(k, [stage |-> "add", group |-> g])
    BY <1>1 DEF Join, Reads
  <2>2. CASE \E reply : Ends(k, reply) BY <2>1, <2>2, QuietEnd
  <2>3. ASSUME NEW g \in FindByShareCode(calls[k].code),
               ~RefusesJoin(groups[g]), Goes(k, [stage |-> "add", group |-> g])
        PROVE  GroupInv'
    <3>1. g \in Call /\ groups[g] # None BY <2>3 DEF FindByShareCode
    <3>2. g \in Unlocked BY <2>3, <3>1 DEF RefusesJoin, Unlocked
    <3>3. Unlocked \subseteq open[k] BY <2>1 DEF GroupInv, Sound
    <3>4. \A row : LET next == With(row, [stage |-> "add", group |-> g])
                   IN next.stage = "add" /\ next.group = g
      BY DEF With
    <3> QED BY <2>1, <2>3, <3>1, <3>2, <3>3, <3>4, QuietGoes
  <2>4. CASE Ends(k, "group is locked") BY <2>1, <2>4, QuietEnd
  <2> QED BY <2>1, <2>2, <2>3, <2>4
<1>2. CASE JoinMember(k)
  <2> DEFINE g == calls[k].group
  <2>1. g \in Call /\ g \in open[k] /\ groups[g] # None
    BY <1>2 DEF JoinMember, GroupInv, GroupsTyped, Sound
  <2>2. /\ UNCHANGED <<clock, groups, open>>
        /\ \E reply : Ends(k, reply)
        /\ AddMember(g, k) \/ UNCHANGED members
    BY <1>2 DEF JoinMember
  <2> HIDE DEF g
  <2>3. CASE UNCHANGED members BY <2>2, <2>3, QuietEnd
  <2>4. CASE AddMember(g, k) BY <2>1, <2>2, <2>4, MemberStep
  <2> QED BY <2>2, <2>3, <2>4
<1> QED BY <1>1, <1>2

\* A lock keeps the group, its code and its host.
LEMMA LockSteps ==
    ASSUME GroupInv, NEW k \in Call, Lock(k) \/ SetLockExpiry(k)
    PROVE  GroupInv'
<1>1. CASE Lock(k)
  <2>1. /\ At(k, "lock") /\ UNCHANGED <<clock, groups, members, open>>
        /\ \/ \E reply : Ends(k, reply)
           \/ \E g \in FindByShareCode(calls[k].code), minutes \in LockMinutes :
                Goes(k, [stage |-> "set", group |-> g,
                         until |-> clock + (IF minutes \in 1..60 THEN minutes ELSE 5)])
    BY <1>1 DEF Lock, Reads
  <2>2. CASE \E reply : Ends(k, reply) BY <2>1, <2>2, QuietEnd
  <2>3. ASSUME NEW g \in FindByShareCode(calls[k].code), NEW minutes \in LockMinutes,
               Goes(k, [stage |-> "set", group |-> g,
                        until |-> clock + (IF minutes \in 1..60 THEN minutes ELSE 5)])
        PROVE  GroupInv'
    <3> DEFINE u == clock + (IF minutes \in 1..60 THEN minutes ELSE 5)
    <3>1. g \in Call /\ groups[g] # None BY <2>3 DEF FindByShareCode
    <3>2. u \in Int BY GroupAssumption DEF GroupInv, GroupsTyped
    <3> HIDE DEF u
    <3>4. \A row : LET next == With(row, [stage |-> "set", group |-> g, until |-> u])
                   IN next.stage = "set" /\ next.group = g /\ next.until = u
      BY DEF With
    <3>5. Goes(k, [stage |-> "set", group |-> g, until |-> u]) BY <2>3 DEF u
    <3> QED BY <2>1, <3>1, <3>2, <3>4, <3>5, QuietGoes
  <2> QED BY <2>1, <2>2, <2>3
<1>2. CASE SetLockExpiry(k)
  <2> DEFINE g == calls[k].group
             u == calls[k].until
  <2>1. g \in Call /\ groups[g] # None /\ u \in Int
    BY <1>2 DEF SetLockExpiry, GroupInv, Sound
  <2>2. /\ UNCHANGED <<clock, members>> /\ Noted
        /\ \E reply : Ends(k, reply)
        /\ groups' = [groups EXCEPT ![g].lock = u] \/ UNCHANGED groups
    BY <1>2 DEF SetLockExpiry
  <2> HIDE DEF g, u
  <2>3. /\ DOMAIN calls' = Call /\ calls'[k].stage = "ended"
        /\ \A j \in Call \ {k} : calls'[j] = calls[j]
    BY <2>2, CallSteps DEF GroupInv
  <2>4. Sound(k)' BY <2>3 DEF Sound, At
  <2>5. CASE UNCHANGED groups
    BY <2>2, <2>3, <2>4, <2>5, NotedKeeps DEF GroupInv, GroupsTyped, OwnHost, JoinedWhileOpen
  <2>6. CASE groups' = [groups EXCEPT ![g].lock = u]
    <3>1. groups[g] \in GroupRows BY <2>1 DEF GroupInv, GroupsTyped
    <3>2. [groups[g] EXCEPT !.lock = u] \in GroupRows BY <2>1, <3>1 DEF GroupRows
    <3>3. groups' = [groups EXCEPT ![g] = [groups[g] EXCEPT !.lock = u]] BY <2>6
    <3>4. groups' \in [Call -> GroupRows \cup {None}]
      BY <3>2, <3>3 DEF GroupInv, GroupsTyped
    <3>5. /\ groups'[g].code = groups[g].code /\ groups'[g].host = groups[g].host
          /\ groups'[g] \in GroupRows /\ groups'[g] # None
      BY <2>1, <3>1, <3>2, <3>3, GroupAssumption DEF GroupInv, GroupsTyped, GroupRows
    <3>6. \A h \in Call \ {g} : groups'[h] = groups[h] BY <2>6 DEF GroupInv, GroupsTyped
    <3>7. \A h \in Call : groups'[h] # None <=> groups[h] # None BY <2>1, <3>5, <3>6
    <3>8. \A h \in Call : groups'[h] # None => groups'[h].host = CallerOf[h]
      BY <2>1, <3>5, <3>6 DEF GroupInv, OwnHost
    <3>9. \A h, i \in Call : groups'[h] # None /\ groups'[i] # None /\ h # i =>
             groups'[h].code # groups'[i].code
      BY <2>1, <3>5, <3>6 DEF GroupInv, JoinedWhileOpen
    <3> QED BY <2>2, <2>3, <2>4, <3>4, <3>7, <3>8, <3>9, NotedKeeps DEF GroupInv, GroupsTyped
  <2> QED BY <2>2, <2>5, <2>6
<1> QED BY <1>1, <1>2

\* A checkout writes nothing.
LEMMA CheckoutSteps ==
    ASSUME GroupInv, NEW k \in Call, Checkout(k) \/ FlattenMembers(k)
    PROVE  GroupInv'
<1>1. /\ UNCHANGED <<clock, groups, members, open>>
      /\ \/ \E reply : Ends(k, reply)
         \/ \E g \in Call : Goes(k, [stage |-> "members", group |-> g])
  BY DEF Checkout, Reads, FlattenMembers, FindByShareCode
<1>2. \A row, g : With(row, [stage |-> "members", group |-> g]).stage = "members"
  BY DEF With
<1> QED BY <1>1, <1>2, QuietEnd, QuietGoes

\* Time unlocks groups, and what it unlocks is noted.
LEMMA TickStep == ASSUME GroupInv, Tick PROVE GroupInv'
<1>1. clock' \in Int BY DEF Tick, GroupInv, GroupsTyped
<1> QED BY <1>1, NotedKeeps DEF Tick, GroupInv, GroupsTyped, OwnHost, JoinedWhileOpen

\* A crash ends calls and begins none.
LEMMA CrashStep == ASSUME GroupInv, GroupCrash PROVE GroupInv'
<1>1. /\ UNCHANGED <<clock, groups, members, open>> /\ DOMAIN calls' = Call
      /\ \A j \in Call : calls'[j] = calls[j] \/ calls'[j].stage = "ended"
  BY DEF GroupCrash
<1>2. Unlocked' = Unlocked BY <1>1 DEF Unlocked, Locked
<1>3. \A j \in Call : Sound(j)' BY <1>1, <1>2 DEF GroupInv, Sound, At
<1> QED BY <1>1, <1>3 DEF GroupInv, GroupsTyped, OwnHost, JoinedWhileOpen

-----------------------------------------------------------------------------
(* The theorem                                                              *)

LEMMA GroupInvStep == ASSUME GroupInv, [GroupNext]_groupVars PROVE GroupInv'
<1>1. CASE UNCHANGED groupVars
  BY <1>1 DEF groupVars, GroupInv, GroupsTyped, OwnHost, Sound, At, Unlocked, Locked,
              JoinedWhileOpen
<1>2. CASE GroupNext
  BY <1>2, CreateSteps, ArriveStep, JoinSteps, LockSteps, CheckoutSteps, TickStep, CrashStep
     DEF GroupNext
<1> QED BY <1>1, <1>2

\* Whoever is in a group without being its host got in by a call during which the
\* group was not locked, and no two groups share a code: for any number of
\* groups, users, codes and calls, any lock times and any crash
\* (groups/service/service.go, Join, Lock and generateShareCode).
THEOREM JoinedWhileOpenHolds == GroupSpec => []JoinedWhileOpen
<1>1. GroupInit => GroupInv BY GroupInvInit
<1>2. GroupInv /\ [GroupNext]_groupVars => GroupInv' BY GroupInvStep
<1>3. GroupInv => JoinedWhileOpen BY DEF GroupInv
<1> QED BY <1>1, <1>2, <1>3, PTL DEF GroupSpec
=============================================================================
