--------------------------- MODULE ManifestProofs ---------------------------
(***************************************************************************)
(* The text of a manifest is accepted exactly if it is the canonical one   *)
(* of what it says, for records of any number and in any order.  First the *)
(* two operators the serialization is built from: a sorting, which exists  *)
(* for every order, and the flattening of a sequence of sequences.         *)
(***************************************************************************)
EXTENDS ManifestText, SequenceTheorems, FiniteSetTheorems,
        WellFoundedInduction, TLAPS

\* A set of naturals has a least member.
LEMMA LeastNumber ==
    ASSUME NEW S \in SUBSET Nat, S # {}
    PROVE  \E k \in S : \A j \in S : k <= j
<1> DEFINE less == OpToRel(<, Nat)
<1>1. PICK k \in S : \A j \in S : <<j, k>> \notin less
    <2>1. IsWellFoundedOn(less, Nat)
        BY NatLessThanWellFounded
    <2> HIDE DEF less
    <2> QED
        BY <2>1, WFMin, Zenon
<1>2. less = {ss \in Nat \X Nat : ss[1] < ss[2]}
    BY Zenon DEF OpToRel
<1> HIDE DEF less
<1>3. ASSUME NEW j \in S
      PROVE  k <= j
    <2>1. <<j, k>> \in Nat \X Nat /\ <<j, k>> \notin less
        BY <1>1
    <2> QED
        BY <1>2, <2>1
<1> QED
    BY <1>3

\* What rises from each place to the next rises from any place to a later.
LEMMA RisesThroughout ==
    ASSUME NEW n \in Nat, NEW f \in [1..n -> Nat],
           \A i \in 1..n : i < n => f[i] < f[i + 1]
    PROVE  \A i, j \in 1..n : i < j => f[i] < f[j]
<1> SUFFICES ASSUME NEW i \in 1..n, NEW low \in 1..n, i < low,
                    ~(f[i] < f[low])
             PROVE  FALSE
    OBVIOUS
<1> DEFINE S == {j \in 1..n : i < j /\ ~(f[i] < f[j])}
<1>1. PICK j \in S : \A h \in S : j <= h
    <2>1. S \in SUBSET Nat
        OBVIOUS
    <2>2. low \in S
        OBVIOUS
    <2> HIDE DEF S
    <2> QED
        BY <2>1, <2>2, LeastNumber
<1>2. PICK h \in 1..n : h + 1 = j /\ i <= h /\ h \notin S
    <2>1. j - 1 \in 1..n /\ (j - 1) + 1 = j /\ i <= j - 1
        BY <1>1
    <2>2. j - 1 \notin S
        BY <1>1, <2>1
    <2> QED
        BY <2>1, <2>2
<1>3. /\ f[i] \in Nat /\ f[h] \in Nat /\ f[j] \in Nat
      /\ ~(f[i] < f[j])
    BY <1>1, <1>2
<1>6. f[h] < f[j]
    <2>1. h \in 1..n /\ h < n
        BY <1>1, <1>2
    <2> QED
        BY <1>2, <2>1
<1>4. i # h => f[i] < f[h]
    BY <1>1, <1>2
<1>5. f[i] <= f[h]
    BY <1>3, <1>4
<1> QED
    BY <1>3, <1>5, <1>6

SortsBy(below, n, sort) ==
    /\ sort \in Bijection(1..n, 1..n)
    /\ \A i, j \in 1..n : i < j => <<sort[j], sort[i]>> \notin below

IsOrder(below) ==
    /\ \A i \in Nat : <<i, i>> \notin below
    /\ \A i, j, k \in Nat :
          <<i, j>> \in below /\ <<j, k>> \in below => <<i, k>> \in below

\* A map that meets every place, and none twice.
LEMMA IsBijection ==
    ASSUME NEW S, NEW f
    PROVE  f \in Bijection(S, S) <=>
               /\ f \in [S -> S]
               /\ \A i, j \in S : f[i] = f[j] => i = j
               /\ \A j \in S : \E i \in S : f[i] = j
BY DEF Bijection, Injection, Surjection, IsInjective

\* One more is put before the first it is below.
LEMMA SortsOneMore ==
    ASSUME NEW below, IsOrder(below), NEW m \in Nat, NEW old,
           SortsBy(below, m, old)
    PROVE  \E sort : SortsBy(below, m + 1, sort)
<1> DEFINE S == {k \in 1..(m + 1) : k = m + 1 \/ <<m + 1, old[k]>> \in below}
<1>1. PICK k \in S : \A h \in S : k <= h
    <2>1. S \in SUBSET Nat /\ S # {}
        <3>1. m + 1 \in S
            OBVIOUS
        <3> QED
            BY <3>1
    <2> HIDE DEF S
    <2> QED
        BY <2>1, LeastNumber
<1>2. old \in [1..m -> 1..m]
    BY IsBijection, Zenon DEF SortsBy
<1>10. /\ \A i, j \in 1..m : old[i] = old[j] => i = j
      /\ \A j \in 1..m : \E i \in 1..m : old[i] = j
    BY IsBijection, Zenon DEF SortsBy
<1>11. \A i, j \in 1..m : i < j => <<old[j], old[i]>> \notin below
    BY DEF SortsBy
<1>3. PICK sort :
          sort = [i \in 1..(m + 1) |->
                     IF i < k THEN old[i] ELSE IF i = k THEN m + 1
                     ELSE old[i - 1]]
    OBVIOUS
<1>4. /\ \A i \in 1..(m + 1) : i < k => i \in 1..m /\ sort[i] = old[i]
      /\ \A i \in 1..(m + 1) : k < i => i - 1 \in 1..m /\ sort[i] = old[i - 1]
      /\ k \in 1..(m + 1) /\ sort[k] = m + 1
    BY <1>1, <1>3
<1>5. sort \in [1..(m + 1) -> 1..(m + 1)]
    <2>1. \A i \in 1..(m + 1) : sort[i] \in 1..(m + 1)
        <3> SUFFICES ASSUME NEW i \in 1..(m + 1)
                     PROVE  sort[i] \in 1..(m + 1)
            OBVIOUS
        <3>1. ASSUME NEW h \in 1..m
              PROVE  old[h] \in 1..(m + 1)
            BY <1>2
        <3>2. CASE i < k
            BY <1>4, <3>1, <3>2
        <3>4. CASE k < i
            BY <1>4, <3>1, <3>4
        <3>3. CASE i = k
            BY <1>4, <3>3
        <3> QED
            BY <1>1, <3>2, <3>3, <3>4
    <2> QED
        BY <1>3, <2>1
<1>6. \A i, j \in 1..(m + 1) : i < j => sort[i] # sort[j]
    <2> SUFFICES ASSUME NEW i \in 1..(m + 1), NEW j \in 1..(m + 1), i < j
                 PROVE  sort[i] # sort[j]
        OBVIOUS
    <2>1. CASE j < k
        BY <1>2, <1>10, <1>4, <2>1
    <2>2. CASE j = k
        BY <1>2, <1>10, <1>4, <2>2
    <2>3. CASE i < k /\ k < j
        BY <1>2, <1>10, <1>4, <2>3
    <2>4. CASE i = k
        BY <1>2, <1>10, <1>4, <2>4
    <2>5. CASE k < i
        BY <1>2, <1>10, <1>4, <2>5
    <2> QED
        BY <1>1, <2>1, <2>2, <2>3, <2>4, <2>5
<1>7. \A j \in 1..(m + 1) : \E i \in 1..(m + 1) : sort[i] = j
    <2> SUFFICES ASSUME NEW j \in 1..(m + 1), j # m + 1
                 PROVE  \E i \in 1..(m + 1) : sort[i] = j
        BY <1>4
    <2>1. PICK i \in 1..m : old[i] = j
        BY <1>10
    <2>2. CASE i < k
        BY <1>4, <2>1, <2>2
    <2>3. CASE k <= i
        <3>1. i + 1 \in 1..(m + 1) /\ k < i + 1 /\ (i + 1) - 1 = i
            BY <1>1, <2>3
        <3> QED
            BY <1>4, <2>1, <3>1
    <2> QED
        BY <1>1, <2>2, <2>3
<1>8. \A i, j \in 1..(m + 1) : i < j => <<sort[j], sort[i]>> \notin below
    <2> SUFFICES ASSUME NEW i \in 1..(m + 1), NEW j \in 1..(m + 1), i < j
                 PROVE  <<sort[j], sort[i]>> \notin below
        OBVIOUS
    <2>1. CASE j < k
        <3>1. i \in 1..m /\ j \in 1..m /\ sort[i] = old[i] /\ sort[j] = old[j]
            BY <1>4, <2>1
        <3> QED
            BY <1>11, <3>1
    <2>2. CASE j = k
        <3>1. i \in 1..m /\ sort[i] = old[i] /\ i \notin S
            BY <1>1, <1>4, <2>2
        <3> QED
            BY <1>4, <2>2, <3>1
    <2>3. CASE i < k /\ k < j
        <3>1. i \in 1..m /\ j - 1 \in 1..m /\ i < j - 1
            BY <1>4, <2>3
        <3> QED
            BY <1>11, <1>4, <2>3, <3>1
    <2>4. CASE i = k
        <3>1. j - 1 \in 1..m /\ k <= j - 1 /\ sort[j] = old[j - 1]
              /\ sort[i] = m + 1 /\ k \in 1..m
            BY <1>4, <2>4
        <3>2. <<m + 1, old[k]>> \in below
            BY <1>1, <3>1
        <3>3. old[j - 1] \in Nat /\ old[k] \in Nat /\ m + 1 \in Nat
            BY <1>2, <3>1
        <3>4. SUFFICES ASSUME <<old[j - 1], m + 1>> \in below
                       PROVE  FALSE
            BY <3>1
        <3>5. <<old[j - 1], old[k]>> \in below
            BY <3>2, <3>3, <3>4 DEF IsOrder
        <3>6. CASE k = j - 1
            BY <3>3, <3>5, <3>6 DEF IsOrder
        <3>7. CASE k < j - 1
            BY <1>11, <3>1, <3>5, <3>7
        <3> QED
            BY <1>1, <3>1, <3>6, <3>7
    <2>5. CASE k < i
        <3>1. i - 1 \in 1..m /\ j - 1 \in 1..m /\ i - 1 < j - 1
            BY <1>4, <2>5
        <3> QED
            BY <1>11, <1>4, <2>5, <3>1
    <2> QED
        BY <1>1, <2>1, <2>2, <2>3, <2>4, <2>5
<1>9. \A i, j \in 1..(m + 1) : sort[i] = sort[j] => i = j
    BY <1>6
<1> QED
    <2>1. sort \in Bijection(1..(m + 1), 1..(m + 1))
        <3> DEFINE N == 1..(m + 1)
        <3>1. /\ sort \in [N -> N]
              /\ \A i, j \in N : sort[i] = sort[j] => i = j
              /\ \A j \in N : \E i \in N : sort[i] = j
            BY <1>5, <1>7, <1>9
        <3> HIDE DEF N
        <3>2. sort \in Bijection(N, N)
            BY <3>1, IsBijection
        <3> QED
            BY <3>2 DEF N
    <2> QED
        BY <1>8, <2>1, Zenon DEF SortsBy

\* Any order of what is below what has its sorting.
LEMMA SortingSorts ==
    ASSUME NEW below, IsOrder(below), NEW n \in Nat
    PROVE  SortsBy(below, n, Sorting(below, n))
<1> DEFINE S == {m \in Nat : ~\E sort : SortsBy(below, m, sort)}
<1>1. S = {}
    <2> SUFFICES ASSUME S # {} PROVE FALSE
        OBVIOUS
    <2>1. PICK m \in S : \A h \in S : m <= h
        <3>1. S \in SUBSET Nat
            OBVIOUS
        <3> HIDE DEF S
        <3> QED
            BY <3>1, LeastNumber
    <2>2. m # 0
        <3>1. SortsBy(below, 0, [i \in 1..0 |-> i])
            <4>1. 1..0 = {}
                OBVIOUS
            <4> QED
                BY <4>1, IsBijection DEF SortsBy
        <3> QED
            BY <2>1, <3>1
    <2>3. PICK h \in Nat : h + 1 = m
        BY <2>1, <2>2
    <2>4. PICK old : SortsBy(below, h, old)
        BY <2>1, <2>3
    <2> QED
        BY <2>1, <2>3, <2>4, SortsOneMore
<1>2. PICK sort : SortsBy(below, n, sort)
    BY <1>1
<1> HIDE DEF S
<1>3. /\ Sorting(below, n) \in Bijection(1..n, 1..n)
      /\ \A i, j \in 1..n :
            i < j =>
                <<Sorting(below, n)[j], Sorting(below, n)[i]>> \notin below
    BY <1>2 DEF Sorting, SortsBy
<1> QED
    BY <1>3 DEF SortsBy

InOrder(below, n) == \A i, j \in 1..n : i < j => <<i, j>> \in below

MovesNothing(sort, n) == \A i \in 1..n : sort[i] = i

\* What is in order already stays as it is.
LEMMA SortsNothing ==
    ASSUME NEW below, NEW n \in Nat, NEW sort, SortsBy(below, n, sort),
           InOrder(below, n)
    PROVE  MovesNothing(sort, n)
<1> SUFFICES ASSUME NEW low \in 1..n, sort[low] # low
             PROVE  FALSE
    BY DEF MovesNothing
<1>0. \A h, j \in 1..n : h < j => <<h, j>> \in below
    BY DEF InOrder
<1> DEFINE S == {i \in 1..n : sort[i] # i}
<1>1. PICK i \in S : \A h \in S : i <= h
    <2>1. S \in SUBSET Nat /\ S # {}
        OBVIOUS
    <2> HIDE DEF S
    <2> QED
        BY <2>1, LeastNumber
<1>2. sort \in [1..n -> 1..n]
    BY IsBijection, Zenon DEF SortsBy
<1>10. /\ \A h, j \in 1..n : sort[h] = sort[j] => h = j
       /\ \A j \in 1..n : \E h \in 1..n : sort[h] = j
    <2> DEFINE N == 1..n
    <2>1. sort \in Bijection(N, N)
        BY DEF SortsBy
    <2> HIDE DEF N
    <2>2. /\ \A h, j \in N : sort[h] = sort[j] => h = j
          /\ \A j \in N : \E h \in N : sort[h] = j
        BY <2>1, IsBijection
    <2> QED
        BY <2>2 DEF N
<1>11. \A h, j \in 1..n : h < j => <<sort[j], sort[h]>> \notin below
    BY DEF SortsBy
<1>3. PICK k \in 1..n : sort[k] = i
    BY <1>1, <1>10
<1>4. i < k
    BY <1>1, <1>3
<1>5. ~(sort[k] < sort[i])
    <2>1. <<sort[k], sort[i]>> \notin below
        BY <1>1, <1>4, <1>11
    <2>2. sort[k] \in 1..n /\ sort[i] \in 1..n
        BY <1>1, <1>2
    <2> QED
        BY <1>0, <2>1, <2>2
<1>6. ~(i < sort[i])
    BY <1>3, <1>5
<1>7. sort[i] \in 1..n /\ sort[i] < i
    BY <1>1, <1>2, <1>6
<1>8. sort[i] \notin S
    BY <1>1, <1>7
<1>9. sort[sort[i]] = sort[i]
    BY <1>7, <1>8
<1> QED
    BY <1>1, <1>7, <1>9, <1>10

\* The sequences of parts one after the other: f[k] is the first k of them.
Flattens(parts, k, f) ==
    f = [i \in 1..k |-> IF i = 1 THEN parts[i] ELSE f[i - 1] \o parts[i]]

\* The parts so far, one after the other.
LEMMA FlattensOneMore ==
    ASSUME NEW parts, NEW k \in Nat, NEW old, Flattens(parts, k, old)
    PROVE  \E f : Flattens(parts, k + 1, f)
<1>1. PICK f :
          f = [i \in 1..(k + 1) |->
                  IF i = k + 1 /\ i # 1 THEN old[k] \o parts[i]
                  ELSE IF i = 1 THEN parts[i] ELSE old[i]]
    OBVIOUS
<1>2. \A i \in 1..k : old[i] = IF i = 1 THEN parts[i]
                               ELSE old[i - 1] \o parts[i]
    <2>1. PICK g : g = old
        OBVIOUS
    <2>2. g = [i \in 1..k |-> IF i = 1 THEN parts[i]
                              ELSE old[i - 1] \o parts[i]]
        BY <2>1 DEF Flattens
    <2>3. \A i \in 1..k : g[i] = IF i = 1 THEN parts[i]
                                 ELSE old[i - 1] \o parts[i]
        BY <2>2
    <2> QED
        BY <2>1, <2>3
<1>3. \A i \in 1..k : f[i] = old[i]
    BY <1>1, <1>2
<1>4. \A i \in 1..(k + 1) : f[i] = IF i = 1 THEN parts[i]
                                   ELSE f[i - 1] \o parts[i]
    <2> SUFFICES ASSUME NEW i \in 1..(k + 1), i # 1
                 PROVE  f[i] = f[i - 1] \o parts[i]
        BY <1>1
    <2>1. i - 1 \in 1..k
        OBVIOUS
    <2>2. CASE i = k + 1
        <3>1. f[i] = old[k] \o parts[i]
            BY <1>1, <2>2, Zenon
        <3>3. i - 1 = k
            BY <2>2
        <3>2. k \in 1..k
            BY <2>1, <2>2
        <3> QED
            BY <1>3, <3>1, <3>2, <3>3
    <2>3. CASE i # k + 1
        <3>1. i \in 1..k
            BY <2>3
        <3> QED
            BY <1>2, <1>3, <2>1, <3>1
    <2> QED
        BY <2>2, <2>3
<1>5. f = [i \in 1..(k + 1) |-> f[i]]
    BY <1>1
<1>6. f = [i \in 1..(k + 1) |-> IF i = 1 THEN parts[i]
                                ELSE f[i - 1] \o parts[i]]
    BY <1>4, <1>5
<1> QED
    BY <1>6 DEF Flattens

\* Every number of parts is flattened, from the first on.
LEMMA FlattensAll ==
    ASSUME NEW parts, NEW n \in Nat
    PROVE  \E f : Flattens(parts, n, f)
<1> DEFINE S == {m \in Nat : ~\E f : Flattens(parts, m, f)}
<1> SUFFICES ASSUME S # {} PROVE FALSE
    OBVIOUS
<1>1. PICK m \in S : \A h \in S : m <= h
    <2>1. S \in SUBSET Nat
        OBVIOUS
    <2> HIDE DEF S
    <2> QED
        BY <2>1, LeastNumber
<1>2. m # 0
    <2>1. Flattens(parts, 0, [i \in 1..0 |-> i])
        <3>1. 1..0 = {}
            OBVIOUS
        <3> QED
            BY <3>1 DEF Flattens
    <2> QED
        BY <1>1, <2>1
<1>3. PICK h \in Nat : h + 1 = m
    BY <1>1, <1>2
<1>4. PICK old : Flattens(parts, h, old)
    BY <1>1, <1>3
<1> QED
    BY <1>1, <1>3, <1>4, FlattensOneMore

\* What FlattenSeq gives for parts of any number and length.
LEMMA FlattenSeqIs ==
    ASSUME NEW parts, NEW n \in Nat \ {0}, Len(parts) = n
    PROVE  \E f : Flattens(parts, n, f) /\ FlattenSeq(parts) = f[n]
<1> DEFINE flatten == CHOOSE f :
        f = [i \in 1..n |-> IF i = 1 THEN parts[i] ELSE f[i - 1] \o parts[i]]
<1>1. FlattenSeq(parts) = flatten[n]
    BY DEF FlattenSeq
<1>2. flatten = CHOOSE f : Flattens(parts, n, f)
    BY DEF Flattens
<1> HIDE DEF flatten
<1>3. Flattens(parts, n, flatten)
    BY <1>2, FlattensAll
<1> QED
    BY <1>1, <1>3

\* Where each part starts, and what is there.
Offsets(parts, n, from) ==
    /\ from[1] = 0
    /\ \A k \in 1..n : from[k + 1] = from[k] + Len(parts[k])

PartsStand(parts, from, k, s) ==
    /\ Len(s) = from[k + 1]
    /\ \A j \in 1..k : from[j + 1] <= from[k + 1]
    /\ \A j \in 1..k : \A i \in 1..Len(parts[j]) :
          s[from[j] + i] = parts[j][i]

\* A part appended stands behind the others, which stay.
LEMMA OneMoreStands ==
    ASSUME NEW X, NEW n \in Nat, NEW parts \in [1..n -> Seq(X)],
           NEW from \in [1..(n + 1) -> Nat],
           Offsets(parts, n, from), NEW k \in 1..n, k < n,
           NEW s \in Seq(X), PartsStand(parts, from, k, s)
    PROVE  PartsStand(parts, from, k + 1, s \o parts[k + 1])
<1>1. PICK t : t = parts[k + 1] /\ t \in Seq(X) /\ k + 1 \in 1..n
    OBVIOUS
<1>3. /\ from[k + 2] = from[k + 1] + Len(t)
      /\ Len(t) \in Nat
    <2>1. (k + 1) + 1 = k + 2
        OBVIOUS
    <2>2. from[(k + 1) + 1] = from[k + 1] + Len(t)
        BY <1>1 DEF Offsets
    <2>3. Len(t) \in Nat
        BY <1>1, LenProperties
    <2> QED
        BY <2>1, <2>2, <2>3
<1>4. PICK r : r = s \o t
    OBVIOUS
<1>5. /\ r \in Seq(X) /\ Len(r) = Len(s) + Len(t)
      /\ \A i \in 1..Len(s) : r[i] = s[i]
      /\ \A i \in 1..Len(t) : r[Len(s) + i] = t[i]
    BY <1>1, <1>4, ConcatProperties
<1>6. Len(s) = from[k + 1] /\ from[k + 1] \in Nat /\ from[k + 2] \in Nat
      /\ from[k + 1] <= from[k + 2]
    <2>1. k + 1 \in 1..(n + 1) /\ k + 2 \in 1..(n + 1)
        OBVIOUS
    <2>2. Len(s) = from[k + 1]
        BY DEF PartsStand
    <2>3. from[k + 1] \in Nat /\ from[k + 2] \in Nat
        BY <2>1
    <2> QED
        BY <1>3, <2>2, <2>3
<1>7. \A j \in 1..(k + 1) : from[j + 1] <= from[k + 2]
    <2> SUFFICES ASSUME NEW j \in 1..(k + 1)
                 PROVE  from[j + 1] <= from[k + 2]
        OBVIOUS
    <2>1. CASE j = k + 1
        BY <1>6, <2>1
    <2>2. CASE j \in 1..k
        <3>1. from[j + 1] <= from[k + 1]
            BY <2>2 DEF PartsStand
        <3>2. j + 1 \in 1..(n + 1)
            BY <2>2
        <3>3. PICK low, mid, high \in Nat :
                  low = from[j + 1] /\ mid = from[k + 1] /\ high = from[k + 2]
            <4>1. from[j + 1] \in Nat /\ from[k + 1] \in Nat
                  /\ from[k + 2] \in Nat
                BY <1>6, <3>2
            <4> QED
                BY <4>1
        <3>4. low <= mid /\ mid <= high
            BY <1>6, <3>1, <3>3
        <3>5. low <= high
            BY <3>4
        <3> QED
            BY <3>3, <3>5
    <2> QED
        BY <2>1, <2>2
<1>8. \A j \in 1..(k + 1) : \A i \in 1..Len(parts[j]) :
          r[from[j] + i] = parts[j][i]
    <2> SUFFICES ASSUME NEW j \in 1..(k + 1), NEW i \in 1..Len(parts[j])
                 PROVE  r[from[j] + i] = parts[j][i]
        OBVIOUS
    <2>1. CASE j = k + 1
        BY <1>1, <1>5, <1>6, <2>1
    <2>2. CASE j \in 1..k
        <3>1. s[from[j] + i] = parts[j][i]
            BY <2>2 DEF PartsStand
        <3>6. j \in 1..n /\ j \in 1..(n + 1) /\ j + 1 \in 1..(n + 1)
            BY <2>2
        <3>7. parts[j] \in Seq(X)
            BY <3>6
        <3>8. Len(parts[j]) \in Nat
            BY <3>7, LenProperties
        <3>2. from[j] \in Nat /\ from[j + 1] \in Nat
            BY <3>6
        <3>3. from[j + 1] = from[j] + Len(parts[j])
            BY <3>6 DEF Offsets
        <3>4. from[j + 1] <= from[k + 1]
            BY <2>2 DEF PartsStand
        <3>5. from[j] + i \in 1..Len(s)
            <4>1. PICK length \in Nat : length = Len(parts[j])
                BY <3>8
            <4>2. PICK first \in Nat : first = from[j]
                BY <3>2
            <4>3. i \in 1..length
                BY <4>1
            <4>4. from[j + 1] = first + length
                BY <3>3, <4>1, <4>2
            <4>5. first + i \in 1..from[k + 1]
                BY <1>6, <3>4, <4>3, <4>4
            <4> QED
                BY <1>6, <4>2, <4>5
        <3> QED
            BY <1>5, <3>1, <3>5
    <2> QED
        BY <2>1, <2>2
<1>9. (k + 1) + 1 = k + 2
    OBVIOUS
<1> QED
    BY <1>1, <1>3, <1>4, <1>5, <1>6, <1>7, <1>8, <1>9 DEF PartsStand

\* In what is flattened each part stands at its offset.
LEMMA FlattenStands ==
    ASSUME NEW X, NEW n \in Nat, NEW parts \in [1..n -> Seq(X)],
           NEW from \in [1..(n + 1) -> Nat],
           Offsets(parts, n, from)
    PROVE  /\ FlattenSeq(parts) \in Seq(X)
           /\ PartsStand(parts, from, n, FlattenSeq(parts))
<1>1. Len(parts) = n /\ from[1] = 0
    <2>1. Len(parts) = n
        OBVIOUS
    <2> QED
        BY <2>1 DEF Offsets
<1>2. CASE n = 0
    <2>1. FlattenSeq(parts) = parts /\ parts \in Seq(X)
        BY <1>1, <1>2 DEF FlattenSeq
    <2> QED
        BY <1>1, <1>2, <2>1 DEF PartsStand
<1>3. CASE n # 0
    <2>1. PICK f : Flattens(parts, n, f) /\ FlattenSeq(parts) = f[n]
        BY <1>1, <1>3, FlattenSeqIs
    <2>2. \A i \in 1..n : f[i] = IF i = 1 THEN parts[i]
                                 ELSE f[i - 1] \o parts[i]
        <3>1. PICK g : g = f
            OBVIOUS
        <3>2. g = [i \in 1..n |-> IF i = 1 THEN parts[i]
                                  ELSE f[i - 1] \o parts[i]]
            BY <2>1, <3>1 DEF Flattens
        <3>3. \A i \in 1..n : g[i] = IF i = 1 THEN parts[i]
                                     ELSE f[i - 1] \o parts[i]
            BY <3>2
        <3> QED
            BY <3>1, <3>3
    <2> DEFINE S == {k \in 1..n :
                        ~(f[k] \in Seq(X) /\ PartsStand(parts, from, k, f[k]))}
    <2>3. S = {}
        <3> SUFFICES ASSUME S # {} PROVE FALSE
            OBVIOUS
        <3>1. PICK k \in S : \A h \in S : k <= h
            <4>1. S \in SUBSET Nat
                OBVIOUS
            <4> HIDE DEF S
            <4> QED
                BY <4>1, LeastNumber
        <3>2. k # 1
            <4>1. f[1] = parts[1] /\ parts[1] \in Seq(X) /\ 1 \in 1..n
                BY <1>3, <2>2
            <4>2. from[1 + 1] = from[1] + Len(parts[1])
                BY <1>1, <4>1 DEF Offsets
            <4>3. Len(parts[1]) \in Nat /\ from[1 + 1] = Len(parts[1])
                BY <1>1, <4>1, <4>2
            <4>4. \A i \in 1..Len(parts[1]) :
                      f[1][from[1] + i] = parts[1][i]
                BY <1>1, <4>1, <4>3
            <4>5. Len(f[1]) = from[1 + 1] /\ from[1 + 1] <= from[1 + 1]
                BY <4>1, <4>3
            <4>6. 1..1 = {1}
                OBVIOUS
            <4>7. PartsStand(parts, from, 1, f[1])
                BY <4>4, <4>5, <4>6 DEF PartsStand
            <4> QED
                BY <3>1, <4>1, <4>7
        <3>3. PICK h \in 1..n : h + 1 = k /\ h < n
            <4>1. k - 1 \in 1..n /\ (k - 1) + 1 = k /\ k - 1 < n
                BY <3>1, <3>2
            <4> QED
                BY <4>1
        <3>4. f[h] \in Seq(X) /\ PartsStand(parts, from, h, f[h])
            BY <3>1, <3>3
        <3>5. f[k] = f[h] \o parts[h + 1] /\ parts[h + 1] \in Seq(X)
            <4>1. k - 1 = h /\ k \in 1..n
                BY <3>1, <3>3
            <4> QED
                BY <2>2, <3>2, <3>3, <4>1
        <3>6. PartsStand(parts, from, k, f[k])
            <4>1. PartsStand(parts, from, h + 1, f[h] \o parts[h + 1])
                BY <3>3, <3>4, OneMoreStands
            <4> QED
                BY <3>3, <3>5, <4>1
        <3>7. f[k] \in Seq(X)
            BY <3>4, <3>5
        <3> QED
            BY <3>1, <3>6, <3>7
    <2> QED
        <3>2. n \in 1..n
            BY <1>3
        <3>1. f[n] \in Seq(X) /\ PartsStand(parts, from, n, f[n])
            BY <2>3, <3>2
        <3> QED
            BY <2>1, <3>1
<1> QED
    BY <1>2, <1>3

\* What there is to read: the values of the fields of a record line.
TokenSaid ==
    {[site |-> line.site, hash |-> line.hash] :
        line \in {l \in RecordLine : l.kind = "past-token" /\ l.valid}}

GroupSaid ==
    [commit : {line.commit : line \in RecordLine},
     hash : {line.hash : line \in RecordLine},
     tokens : Seq(TokenSaid),
     origin : {Absent} \cup {line.origin : line \in RecordLine}]

EntrySaid ==
    {[path |-> line.path, content |-> line.content] :
        line \in {l \in RecordLine : l.kind = "entry" /\ l.valid}}

TextTypeOK ==
    /\ lines \in Seq(RecordLine)
    /\ groups \in Seq(GroupSaid)
    /\ listed \in Seq(EntrySaid)

\* What its kind says of the fields of a line with all of them.
LEMMA LineHasItsFields ==
    ASSUME NEW line \in RecordLine
    PROVE  /\ ~Known(line) => ~line.valid
           /\ line.kind = "parents" /\ line.valid =>
                 line = ParentsLine(line.hashes) /\ line.hashes # <<>>
           /\ line.kind = "predecessor" /\ line.valid =>
                 /\ line = PredecessorLine(line.commit, line.origin,
                                           line.canonical)
                 /\ line.origin # Absent /\ line.canonical \in BOOLEAN
           /\ line.kind = "past-manifest" /\ line.valid =>
                 line = PastManifestLine(line.commit, line.hash)
           /\ line.kind = "past-token" /\ line.valid =>
                 /\ line = PastTokenLine(line.commit, line.site, line.hash)
                 /\ line.site \in Nat
           /\ line.kind = "entry" /\ line.valid =>
                 /\ line = EntryLine(line.path, line.content, line.canonical)
                 /\ line.path \in Nat /\ line.content \in Nat
                 /\ line.canonical \in BOOLEAN
<1>1. IsRecordLine(line)
    BY ManifestAssumption
<1>2. CASE line = BadLine(line.kind)
    <2>1. line.valid = FALSE
        <3>1. PICK kind : kind = line.kind
            OBVIOUS
        <3>2. line = BadLine(kind)
            BY <1>2, <3>1
        <3> QED
            BY <3>2 DEF BadLine
    <2> QED
        BY <2>1
<1>3. CASE line # BadLine(line.kind)
    <2>1. Known(line)
        BY <1>1, <1>3 DEF IsRecordLine, Known
    <2> QED
        BY <1>1, <1>3, <2>1 DEF IsRecordLine
<1> QED
    BY <1>2, <1>3

\* A token that is read has the site of a line.
LEMMA TokenTyping ==
    ASSUME NEW token \in TokenSaid
    PROVE  token = [site |-> token.site, hash |-> token.hash]
           /\ token.site \in Nat
<1>1. PICK line \in RecordLine :
          /\ line.kind = "past-token" /\ line.valid
          /\ token = [site |-> line.site, hash |-> line.hash]
    BY DEF TokenSaid
<1>2. line.site \in Nat
    BY <1>1, LineHasItsFields
<1> QED
    BY <1>1, <1>2

\* An entry that is read has the path and the content of a line.
LEMMA EntryTyping ==
    ASSUME NEW entry \in EntrySaid
    PROVE  entry = [path |-> entry.path, content |-> entry.content]
           /\ entry.path \in Nat /\ entry.content \in Nat
<1>1. PICK line \in RecordLine :
          /\ line.kind = "entry" /\ line.valid
          /\ entry = [path |-> line.path, content |-> line.content]
    BY DEF EntrySaid
<1>2. line.path \in Nat /\ line.content \in Nat
    BY <1>1, LineHasItsFields
<1> QED
    BY <1>1, <1>2

(***************************************************************************)
(* Where what is read stands in the text.  A group takes its line, the     *)
(* line of its predecessor if it has one, and those of its tokens.         *)
(***************************************************************************)
Lead(group) == IF group.origin = Absent THEN 1 ELSE 2

Extent(group) == Lead(group) + Len(group.tokens)

IsPredecessor(line, commit, origin) ==
    \E canonical \in BOOLEAN :
        line = PredecessorLine(commit, origin, canonical)

IsEntry(line, entry) ==
    \E canonical \in BOOLEAN :
        line = EntryLine(entry.path, entry.content, canonical)

IsTokenOf(line, commit, token) ==
    line = PastTokenLine(commit, token.site, token.hash)

GroupStands(page, group, start) ==
    /\ group.origin # Absent =>
          IsPredecessor(page[start + 1], group.commit, group.origin)
    /\ page[start + Lead(group)] = PastManifestLine(group.commit, group.hash)
    /\ \A m \in 1..Len(group.tokens) :
          IsTokenOf(page[start + Lead(group) + m], group.commit,
                    group.tokens[m])

ParentsFirst == IF parents = <<>> THEN 0 ELSE 1

Ahead == IF announced = Absent THEN 0 ELSE 1

\* Group n stands below line from[n], the entries below the last group.
Layout(from) ==
    /\ from[1] = ParentsFirst
    /\ \A n \in 1..Len(groups) : from[n + 1] = from[n] + Extent(groups[n])
    /\ \A n \in 1..Len(groups) : GroupStands(lines, groups[n], from[n])
    /\ Len(lines) = from[Len(groups) + 1] + Ahead + Len(listed)
    /\ parents # <<>> => lines[1] = ParentsLine(parents)
    /\ announced # Absent =>
          /\ IsPredecessor(lines[Len(lines)], announced.commit,
                           announced.origin)
          /\ announced.origin \in {line.origin : line \in RecordLine}
          /\ announced.origin # Absent
          /\ listed = <<>>
    /\ \A m \in 1..Len(listed) :
          IsEntry(lines[from[Len(groups) + 1] + m], listed[m])

Sections ==
    /\ section \in {"start", "parents", "announced", "group", "entries"}
    /\ section = "start" => lines = <<>> /\ parents = <<>> /\ groups = <<>>
    /\ section = "parents" => parents # <<>> /\ groups = <<>>
    /\ section = "announced" <=> announced # Absent
    /\ section = "group" => groups # <<>>
    /\ section = "entries" <=> listed # <<>>

\* What the readers of the fields look for, of everything read.
NoneTwice ==
    /\ \A m, n \in 1..Len(groups) :
          groups[m].hash.sha256 = groups[n].hash.sha256 => m = n
    /\ \A n \in 1..Len(groups) : \A k, m \in 1..Len(groups[n].tokens) :
          groups[n].tokens[k].site = groups[n].tokens[m].site => k = m
    /\ \A m \in 1..Len(listed) :
          m < Len(listed) => listed[m].path # listed[m + 1].path

LaidOut == \E from \in [1..(Len(groups) + 1) -> Nat] : Layout(from)

(***************************************************************************)
(* The inductive invariant: while a text is read, everything that was read *)
(* stands in its lines, in the order it was read and nothing between; the  *)
(* section is that of the last line; and nothing was read twice.           *)
(***************************************************************************)
TextInv == TextTypeOK /\ LaidOut /\ Sections /\ NoneTwice

-----------------------------------------------------------------------------
\* The lines a group takes: one or two, then one per token.
LEMMA GroupTyping ==
    ASSUME NEW group \in GroupSaid
    PROVE  /\ Lead(group) \in {1, 2}
           /\ group.tokens \in Seq(TokenSaid)
           /\ Len(group.tokens) \in Nat
           /\ Extent(group) \in Nat
           /\ Lead(group) <= Extent(group)
           /\ \A m \in 1..Len(group.tokens) :
                 /\ group.tokens[m] \in TokenSaid
                 /\ Lead(group) + m <= Extent(group)
<1>1. group.tokens \in Seq(TokenSaid)
    BY DEF GroupSaid
<1>2. Len(group.tokens) \in Nat
    BY <1>1, LenProperties
<1>3. Lead(group) \in {1, 2}
    BY DEF Lead
<1>4. \A m \in 1..Len(group.tokens) : group.tokens[m] \in TokenSaid
    BY <1>1, ElementOfSeq
<1> QED
    BY <1>1, <1>2, <1>3, <1>4 DEF Extent

\* A group still stands where it stood in a text that goes on.
LEMMA GroupStandsOn ==
    ASSUME NEW group \in GroupSaid, NEW start \in Nat, NEW old, NEW new,
           NEW size \in Nat, start + Extent(group) <= size,
           \A i \in 1..size : new[i] = old[i],
           GroupStands(old, group, start)
    PROVE  GroupStands(new, group, start)
<1>1. PICK lead \in {1, 2} : lead = Lead(group)
    BY GroupTyping
<1>2. PICK length \in Nat : length = Len(group.tokens)
    BY GroupTyping
<1>3. start + lead + length <= size
    <2>1. Extent(group) = lead + length
        BY <1>1, <1>2 DEF Extent
    <2> QED
        BY <1>1, <1>2, <2>1
<1>4. new[start + lead] = old[start + lead]
    BY <1>1, <1>2, <1>3
<1>5. \A m \in 1..length : new[start + lead + m] = old[start + lead + m]
    <2> SUFFICES ASSUME NEW m \in 1..length
                 PROVE  new[start + lead + m] = old[start + lead + m]
        OBVIOUS
    <2>1. start + lead + m \in 1..size
        BY <1>1, <1>2, <1>3
    <2> QED
        BY <2>1
<1>6. new[start + 1] = old[start + 1]
    BY <1>1, <1>2, <1>3
<1>7. \A m \in 1..length :
          IsTokenOf(old[start + lead + m], group.commit, group.tokens[m])
    BY <1>1, <1>2 DEF GroupStands
<1>8. \A m \in 1..length :
          IsTokenOf(new[start + lead + m], group.commit, group.tokens[m])
    BY <1>5, <1>7
<1> QED
    BY <1>1, <1>2, <1>4, <1>6, <1>8 DEF GroupStands

\* Offsets rise, by at least the line of the group.
LEMMA OffsetsRise ==
    ASSUME TextTypeOK, NEW from \in [1..(Len(groups) + 1) -> Nat],
           Layout(from)
    PROVE  /\ \A m, n \in 1..(Len(groups) + 1) : m < n => from[m] < from[n]
           /\ \A m, n \in 1..(Len(groups) + 1) : m <= n => from[m] <= from[n]
<1>1. PICK length \in Nat : length = Len(groups)
    BY LenProperties DEF TextTypeOK
<1>2. \A i \in 1..(length + 1) : i < length + 1 => from[i] < from[i + 1]
    <2> SUFFICES ASSUME NEW i \in 1..(length + 1), i < length + 1
                 PROVE  from[i] < from[i + 1]
        OBVIOUS
    <2>1. i \in 1..Len(groups)
        BY <1>1
    <2>2. groups[i] \in GroupSaid
        BY <2>1, ElementOfSeq DEF TextTypeOK
    <2>3. Extent(groups[i]) \in Nat /\ 1 <= Extent(groups[i])
        BY <2>2, GroupTyping
    <2>4. from[i] \in Nat
        BY <1>1
    <2>5. from[i + 1] = from[i] + Extent(groups[i])
        BY <2>1 DEF Layout
    <2> QED
        BY <2>3, <2>4, <2>5
<1>3. from \in [1..(length + 1) -> Nat] /\ length + 1 \in Nat
    BY <1>1
<1>4. \A m, n \in 1..(length + 1) : m < n => from[m] < from[n]
    BY <1>2, <1>3, RisesThroughout
<1>5. ASSUME NEW m \in 1..(length + 1), NEW n \in 1..(length + 1), m <= n
      PROVE  from[m] <= from[n]
    <2>1. from[m] \in Nat /\ from[n] \in Nat
        BY <1>3
    <2> QED
        BY <1>4, <1>5, <2>1
<1> QED
    BY <1>1, <1>4, <1>5

\* What stands in line i.
OfPredecessor(from, n, i) ==
    groups[n].origin # Absent /\ i = from[n] + 1

OfGroup(from, n, i) == i = from[n] + Lead(groups[n])

OfToken(from, n, m, i) == i = from[n] + Lead(groups[n]) + m

OfEntry(from, m, i) == i = from[Len(groups) + 1] + m

\* How many lines there are, and how many of them are of the groups.
LEMMA Counts ==
    ASSUME TextTypeOK, NEW from \in [1..(Len(groups) + 1) -> Nat],
           Layout(from)
    PROVE  /\ Len(groups) \in Nat /\ Len(listed) \in Nat /\ Len(lines) \in Nat
           /\ Ahead \in {0, 1} /\ ParentsFirst \in {0, 1}
           /\ announced # Absent => Ahead = 1 /\ Len(listed) = 0
           /\ announced = Absent => Ahead = 0
           /\ from[Len(groups) + 1] \in Nat
           /\ Len(lines) = from[Len(groups) + 1] + Ahead + Len(listed)
           /\ \A n \in 1..Len(groups) :
                 /\ groups[n] \in GroupSaid
                 /\ from[n] \in Nat /\ from[n + 1] \in Nat
                 /\ from[n + 1] = from[n] + Extent(groups[n])
                 /\ from[n + 1] <= from[Len(groups) + 1]
                 /\ Extent(groups[n]) \in Nat
           /\ ParentsFirst <= from[Len(groups) + 1]
<1>1. Len(groups) \in Nat /\ Len(listed) \in Nat /\ Len(lines) \in Nat
    BY LenProperties DEF TextTypeOK
<1>2. Ahead \in {0, 1} /\ ParentsFirst \in {0, 1}
    BY DEF Ahead, ParentsFirst
<1>3. announced # Absent => Ahead = 1 /\ Len(listed) = 0
    <2>1. Len(<<>>) = 0
        OBVIOUS
    <2> QED
        BY <2>1 DEF Ahead, Layout
<1>4. announced = Absent => Ahead = 0
    BY DEF Ahead
<1>5. from[Len(groups) + 1] \in Nat
    BY <1>1
<1>6. Len(lines) = from[Len(groups) + 1] + Ahead + Len(listed)
    BY DEF Layout
<1>7. ASSUME NEW n \in 1..Len(groups)
      PROVE  /\ groups[n] \in GroupSaid
             /\ from[n] \in Nat /\ from[n + 1] \in Nat
             /\ from[n + 1] = from[n] + Extent(groups[n])
             /\ from[n + 1] <= from[Len(groups) + 1]
             /\ Extent(groups[n]) \in Nat
    <2>1. groups[n] \in GroupSaid
        BY ElementOfSeq DEF TextTypeOK
    <2>2. n \in 1..(Len(groups) + 1) /\ n + 1 \in 1..(Len(groups) + 1)
          /\ Len(groups) + 1 \in 1..(Len(groups) + 1)
          /\ n + 1 <= Len(groups) + 1
        BY <1>1
    <2>3. from[n + 1] <= from[Len(groups) + 1]
        BY <2>2, OffsetsRise
    <2>4. from[n + 1] = from[n] + Extent(groups[n])
        BY DEF Layout
    <2> QED
        BY <2>1, <2>2, <2>3, <2>4, GroupTyping
<1>8. ParentsFirst <= from[Len(groups) + 1]
    <2>1. 1 \in 1..(Len(groups) + 1) /\ 1 <= Len(groups) + 1
          /\ Len(groups) + 1 \in 1..(Len(groups) + 1)
        BY <1>1
    <2>2. from[1] <= from[Len(groups) + 1]
        BY <2>1, OffsetsRise
    <2> QED
        BY <2>2 DEF Layout
<1> QED
    BY <1>1, <1>2, <1>3, <1>4, <1>5, <1>6, <1>7, <1>8

\* Each thing read stands at its place.
LEMMA ThingsStand ==
    ASSUME TextTypeOK, NEW from \in [1..(Len(groups) + 1) -> Nat],
           Layout(from)
    PROVE  /\ parents # <<>> =>
                 1 \in 1..Len(lines) /\ lines[1] = ParentsLine(parents)
           /\ \A n \in 1..Len(groups), i \in Nat :
                 OfPredecessor(from, n, i) =>
                     /\ i \in 1..Len(lines) /\ OfGroup(from, n, i + 1)
                     /\ IsPredecessor(lines[i], groups[n].commit,
                                      groups[n].origin)
           /\ \A n \in 1..Len(groups), i \in Nat :
                 OfGroup(from, n, i) =>
                     /\ i \in 1..Len(lines)
                     /\ lines[i] = PastManifestLine(groups[n].commit,
                                                    groups[n].hash)
           /\ \A n \in 1..Len(groups), i \in Nat :
                 \A m \in 1..Len(groups[n].tokens) :
                     OfToken(from, n, m, i) =>
                         /\ i \in 1..Len(lines)
                         /\ IsTokenOf(lines[i], groups[n].commit,
                                      groups[n].tokens[m])
           /\ \A m \in 1..Len(listed), i \in Nat :
                 OfEntry(from, m, i) =>
                     i \in 1..Len(lines) /\ IsEntry(lines[i], listed[m])
           /\ announced # Absent =>
                 /\ Len(lines) = from[Len(groups) + 1] + 1
                 /\ IsPredecessor(lines[Len(lines)], announced.commit,
                                  announced.origin)
<1>1. PICK size \in Nat : size = Len(lines)
    BY Counts
<1>2. PICK last \in Nat : last = from[Len(groups) + 1]
    BY Counts
<1>3. last <= size /\ ParentsFirst <= last /\ size = last + Ahead + Len(listed)
      /\ Len(listed) \in Nat
    BY <1>1, <1>2, Counts
<1>4. parents # <<>> =>
          1 \in 1..Len(lines) /\ lines[1] = ParentsLine(parents)
    <2>1. parents # <<>> => ParentsFirst = 1
        BY DEF ParentsFirst
    <2> QED
        BY <1>1, <1>3, <2>1 DEF Layout
<1>5. ASSUME NEW n \in 1..Len(groups), NEW i \in Nat
      PROVE  /\ OfPredecessor(from, n, i) =>
                   /\ i \in 1..Len(lines) /\ OfGroup(from, n, i + 1)
                   /\ IsPredecessor(lines[i], groups[n].commit,
                                    groups[n].origin)
             /\ OfGroup(from, n, i) =>
                   /\ i \in 1..Len(lines)
                   /\ lines[i] = PastManifestLine(groups[n].commit,
                                                  groups[n].hash)
             /\ \A m \in 1..Len(groups[n].tokens) :
                   OfToken(from, n, m, i) =>
                       /\ i \in 1..Len(lines)
                       /\ IsTokenOf(lines[i], groups[n].commit,
                                    groups[n].tokens[m])
    <2>1. PICK start \in Nat : start = from[n]
        BY Counts
    <2>2. PICK lead \in {1, 2} : lead = Lead(groups[n])
        BY DEF Lead
    <2>3. groups[n].origin # Absent => lead = 2
        BY <2>2 DEF Lead
    <2>4. PICK extent \in Nat : extent = Extent(groups[n])
        BY Counts
    <2>5. start + extent <= size /\ lead <= extent
        <3>1. groups[n] \in GroupSaid /\ from[n + 1] = start + extent
              /\ from[n + 1] <= last
            BY <1>2, <2>1, <2>4, Counts
        <3>2. lead <= extent
            BY <2>2, <2>4, <3>1, GroupTyping
        <3> QED
            BY <1>3, <3>1, <3>2
    <2>6. GroupStands(lines, groups[n], start)
        BY <2>1 DEF Layout
    <2>7. OfPredecessor(from, n, i) =>
              /\ i \in 1..Len(lines) /\ OfGroup(from, n, i + 1)
              /\ IsPredecessor(lines[i], groups[n].commit, groups[n].origin)
        <3> SUFFICES ASSUME groups[n].origin # Absent, i = start + 1
                     PROVE  /\ i \in 1..Len(lines) /\ OfGroup(from, n, i + 1)
                            /\ IsPredecessor(lines[i], groups[n].commit,
                                             groups[n].origin)
            BY <2>1 DEF OfPredecessor
        <3>1. IsPredecessor(lines[i], groups[n].commit, groups[n].origin)
            BY <2>6 DEF GroupStands
        <3>2. i + 1 = start + lead /\ i \in 1..size
            BY <2>3, <2>5
        <3> QED
            BY <1>1, <2>1, <2>2, <3>1, <3>2 DEF OfGroup
    <2>8. OfGroup(from, n, i) =>
              /\ i \in 1..Len(lines)
              /\ lines[i] = PastManifestLine(groups[n].commit, groups[n].hash)
        <3> SUFFICES ASSUME i = start + lead
                     PROVE  /\ i \in 1..Len(lines)
                            /\ lines[i] = PastManifestLine(groups[n].commit,
                                                           groups[n].hash)
            BY <2>1, <2>2 DEF OfGroup
        <3>1. lines[i] = PastManifestLine(groups[n].commit, groups[n].hash)
            BY <2>2, <2>6 DEF GroupStands
        <3>2. i \in 1..size
            BY <2>5
        <3> QED
            BY <1>1, <3>1, <3>2
    <2>9. ASSUME NEW m \in 1..Len(groups[n].tokens), OfToken(from, n, m, i)
          PROVE  /\ i \in 1..Len(lines)
                 /\ IsTokenOf(lines[i], groups[n].commit, groups[n].tokens[m])
        <3>1. i = start + lead + m
            BY <2>1, <2>2, <2>9 DEF OfToken
        <3>2. IsTokenOf(lines[i], groups[n].commit, groups[n].tokens[m])
            BY <2>2, <2>6, <3>1 DEF GroupStands
        <3>3. groups[n] \in GroupSaid
            BY Counts
        <3>4. lead + m <= extent /\ m \in Nat
            BY <2>2, <2>4, <3>3, GroupTyping
        <3>5. i \in 1..size
            BY <2>5, <3>1, <3>4
        <3> QED
            BY <1>1, <3>2, <3>5
    <2> QED
        BY <2>7, <2>8, <2>9
<1>6. ASSUME NEW m \in 1..Len(listed), NEW i \in Nat, OfEntry(from, m, i)
      PROVE  i \in 1..Len(lines) /\ IsEntry(lines[i], listed[m])
    <2>4. i = last + m
        BY <1>2, <1>6 DEF OfEntry
    <2>5. Ahead \in {0, 1}
        BY Counts
    <2>1. i = last + m /\ m \in Nat /\ m <= Len(listed) /\ Ahead \in Nat
        BY <1>3, <2>4, <2>5
    <2>2. IsEntry(lines[i], listed[m])
        BY <1>2, <2>1 DEF Layout
    <2>3. i \in 1..size
        BY <1>3, <2>1
    <2> QED
        BY <1>1, <2>2, <2>3
<1>7. announced # Absent =>
          /\ Len(lines) = from[Len(groups) + 1] + 1
          /\ IsPredecessor(lines[Len(lines)], announced.commit,
                           announced.origin)
    <2>1. announced # Absent => size = last + 1
        BY <1>3, Counts
    <2> QED
        BY <1>1, <1>2, <2>1 DEF Layout
<1> QED
    BY <1>4, <1>5, <1>6, <1>7

\* Every line is one of these.
LEMMA LinesAreThings ==
    ASSUME TextTypeOK, NEW from \in [1..(Len(groups) + 1) -> Nat],
           Layout(from), NEW i \in 1..Len(lines)
    PROVE  \/ i = 1 /\ parents # <<>>
           \/ \E n \in 1..Len(groups) : OfPredecessor(from, n, i)
           \/ \E n \in 1..Len(groups) : OfGroup(from, n, i)
           \/ \E n \in 1..Len(groups) :
                 \E m \in 1..Len(groups[n].tokens) : OfToken(from, n, m, i)
           \/ announced # Absent /\ i = Len(lines)
           \/ \E m \in 1..Len(listed) : OfEntry(from, m, i)
<1>1. PICK count \in Nat : count = Len(groups)
    BY Counts
<1>2. PICK last \in Nat : last = from[count + 1]
    BY <1>1, Counts
<1>3. Len(lines) = last + Ahead + Len(listed) /\ Len(listed) \in Nat
      /\ Ahead \in {0, 1} /\ (announced # Absent => Len(listed) = 0)
      /\ (announced = Absent => Ahead = 0)
    BY <1>1, <1>2, Counts
<1>4. CASE i <= ParentsFirst
    BY <1>4 DEF ParentsFirst
<1>5. CASE last < i /\ announced # Absent
    <2>1. i = Len(lines)
        BY <1>3, <1>5
    <2> QED
        BY <1>5, <2>1
<1>6. CASE last < i /\ announced = Absent
    <2>1. i - last \in 1..Len(listed) /\ i = last + (i - last)
        BY <1>3, <1>6
    <2>2. OfEntry(from, i - last, i)
        BY <1>1, <1>2, <2>1 DEF OfEntry
    <2> QED
        BY <2>1, <2>2
<1>7. CASE ParentsFirst < i /\ i <= last
    <2> DEFINE S == {n \in 1..(count + 1) : i <= from[n]}
    <2>1. PICK n \in S : \A h \in S : n <= h
        <3>1. S \in SUBSET Nat
            OBVIOUS
        <3>2. count + 1 \in S
            BY <1>2, <1>7
        <3> HIDE DEF S
        <3> QED
            BY <3>1, <3>2, LeastNumber
    <2>2. from[1] = ParentsFirst /\ ParentsFirst \in {0, 1}
        BY Counts DEF Layout
    <2>3. n # 1
        BY <1>7, <2>1, <2>2
    <2>4. PICK h \in 1..count : h + 1 = n
        <3>1. n - 1 \in 1..count /\ (n - 1) + 1 = n
            BY <2>1, <2>3
        <3> QED
            BY <3>1
    <2>5. h \in 1..(count + 1) /\ h \notin S
        BY <2>1, <2>4
    <2>6. PICK start \in Nat : start = from[h] /\ start < i
        <3>1. from[h] \in Nat
            BY <1>1, <2>4, Counts
        <3>2. ~(i <= from[h])
            BY <2>5
        <3> QED
            BY <3>1, <3>2
    <2>7. PICK group \in GroupSaid : group = groups[h]
        BY <1>1, <2>4, Counts
    <2>8. i <= start + Extent(group)
        <3>1. from[h + 1] = start + Extent(group)
            BY <1>1, <2>4, <2>6, <2>7, Counts
        <3> QED
            BY <2>1, <2>4, <3>1
    <2>9. PICK length \in Nat : length = Len(group.tokens)
        BY <2>7, GroupTyping
    <2>10. PICK lead \in {1, 2} : lead = Lead(group)
        BY DEF Lead
    <2>11. i <= start + lead + length
        <3>1. Extent(group) = lead + length
            BY <2>9, <2>10 DEF Extent
        <3> QED
            BY <2>8, <2>9, <2>10, <3>1
    <2>12. CASE i = start + lead
        <3>1. OfGroup(from, h, i)
            BY <2>6, <2>7, <2>10, <2>12 DEF OfGroup
        <3> QED
            BY <1>1, <2>4, <3>1
    <2>13. CASE i < start + lead
        <3>1. i = start + 1 /\ lead = 2
            BY <2>6, <2>13
        <3>2. group.origin # Absent
            BY <2>10, <3>1 DEF Lead
        <3>3. OfPredecessor(from, h, i)
            BY <2>6, <2>7, <3>1, <3>2 DEF OfPredecessor
        <3> QED
            BY <1>1, <2>4, <3>3
    <2>14. CASE start + lead < i
        <3>1. PICK m \in 1..length : i = start + lead + m
            <4>1. i - start - lead \in 1..length
                  /\ i = start + lead + (i - start - lead)
                BY <2>11, <2>14
            <4> QED
                BY <4>1
        <3>2. OfToken(from, h, m, i) /\ m \in 1..Len(groups[h].tokens)
            BY <2>6, <2>7, <2>9, <2>10, <3>1 DEF OfToken
        <3> QED
            BY <1>1, <2>4, <3>2
    <2> QED
        BY <2>6, <2>12, <2>13, <2>14
<1>8. ParentsFirst \in {0, 1} /\ i \in Nat
    BY DEF ParentsFirst
<1> QED
    BY <1>4, <1>5, <1>6, <1>7, <1>8

\* A line's kind tells which of the things read it is.
LEMMA KindsTell ==
    ASSUME TextTypeOK, NEW from \in [1..(Len(groups) + 1) -> Nat],
           Layout(from), NEW i \in 1..Len(lines)
    PROVE  /\ lines[i].valid /\ Known(lines[i])
           /\ lines[i].kind = "parents" => i = 1 /\ parents # <<>>
           /\ lines[i].kind = "predecessor" =>
                 \/ \E n \in 1..Len(groups) : OfPredecessor(from, n, i)
                 \/ announced # Absent /\ i = Len(lines)
           /\ lines[i].kind = "past-manifest" =>
                 \E n \in 1..Len(groups) : OfGroup(from, n, i)
           /\ lines[i].kind = "past-token" =>
                 \E n \in 1..Len(groups) :
                     \E m \in 1..Len(groups[n].tokens) :
                         OfToken(from, n, m, i)
           /\ lines[i].kind = "entry" =>
                 \E m \in 1..Len(listed) : OfEntry(from, m, i)
<1>0. i \in Nat
    BY Counts
<1>1. CASE i = 1 /\ parents # <<>>
    <2>1. lines[i].kind = "parents" /\ lines[i].valid
        BY <1>1, ThingsStand DEF ParentsLine
    <2> QED
        BY <1>1, <2>1 DEF Known
<1>2. CASE \E n \in 1..Len(groups) : OfPredecessor(from, n, i)
    <2>1. PICK n \in 1..Len(groups) : OfPredecessor(from, n, i)
        BY <1>2
    <2>2. IsPredecessor(lines[i], groups[n].commit, groups[n].origin)
        BY <1>0, <2>1, ThingsStand
    <2>3. lines[i].kind = "predecessor" /\ lines[i].valid
        BY <2>2 DEF IsPredecessor, PredecessorLine
    <2> QED
        BY <1>2, <2>3 DEF Known
<1>3. CASE \E n \in 1..Len(groups) : OfGroup(from, n, i)
    <2>1. PICK n \in 1..Len(groups) : OfGroup(from, n, i)
        BY <1>3
    <2>2. lines[i] = PastManifestLine(groups[n].commit, groups[n].hash)
        BY <1>0, <2>1, ThingsStand
    <2>3. lines[i].kind = "past-manifest" /\ lines[i].valid
        BY <2>2 DEF PastManifestLine
    <2> QED
        BY <1>3, <2>3 DEF Known
<1>4. CASE \E n \in 1..Len(groups) :
              \E m \in 1..Len(groups[n].tokens) : OfToken(from, n, m, i)
    <2>4. PICK n \in 1..Len(groups) :
              \E m \in 1..Len(groups[n].tokens) : OfToken(from, n, m, i)
        BY <1>4
    <2>1. PICK m \in 1..Len(groups[n].tokens) : OfToken(from, n, m, i)
        BY <2>4
    <2>2. IsTokenOf(lines[i], groups[n].commit, groups[n].tokens[m])
        BY <1>0, <2>1, ThingsStand
    <2>3. lines[i].kind = "past-token" /\ lines[i].valid
        BY <2>2 DEF IsTokenOf, PastTokenLine
    <2> QED
        BY <1>4, <2>3 DEF Known
<1>5. CASE announced # Absent /\ i = Len(lines)
    <2>1. IsPredecessor(lines[i], announced.commit, announced.origin)
        BY <1>5, ThingsStand
    <2>2. lines[i].kind = "predecessor" /\ lines[i].valid
        BY <2>1 DEF IsPredecessor, PredecessorLine
    <2> QED
        BY <1>5, <2>2 DEF Known
<1>6. CASE \E m \in 1..Len(listed) : OfEntry(from, m, i)
    <2>1. PICK m \in 1..Len(listed) : OfEntry(from, m, i)
        BY <1>6
    <2>2. IsEntry(lines[i], listed[m])
        BY <1>0, <2>1, ThingsStand
    <2>3. lines[i].kind = "entry" /\ lines[i].valid
        BY <2>2 DEF IsEntry, EntryLine
    <2> QED
        BY <1>6, <2>3 DEF Known
<1> QED
    BY <1>1, <1>2, <1>3, <1>4, <1>5, <1>6, LinesAreThings

\* A token stands within its group, and a group's lines before the next's.
LEMMA WithinTheGroup ==
    ASSUME TextTypeOK, NEW from \in [1..(Len(groups) + 1) -> Nat],
           Layout(from), NEW n \in 1..Len(groups), NEW i \in Nat
    PROVE  /\ OfGroup(from, n, i) => from[n] < i /\ i <= from[n + 1]
           /\ \A m \in 1..Len(groups[n].tokens) :
                 OfToken(from, n, m, i) =>
                     /\ from[n] + 1 < i /\ i <= from[n + 1]
                     /\ m < Len(groups[n].tokens) =>
                           OfToken(from, n, m + 1, i + 1)
                     /\ m = Len(groups[n].tokens) => i = from[n + 1]
           /\ groups[n].tokens = <<>> /\ OfGroup(from, n, i) =>
                 i = from[n + 1]
<1>1. PICK group \in GroupSaid : group = groups[n]
    BY Counts
<1>2. PICK lead \in {1, 2} : lead = Lead(group)
    BY DEF Lead
<1>3. PICK length \in Nat : length = Len(group.tokens)
    BY <1>1, GroupTyping
<1>4. PICK start \in Nat : start = from[n]
    BY Counts
<1>5. from[n + 1] = start + lead + length
    <2>1. from[n + 1] = start + Extent(group)
        BY <1>1, <1>4, Counts
    <2>2. Extent(group) = lead + length
        BY <1>2, <1>3 DEF Extent
    <2> QED
        BY <1>2, <1>3, <1>4, <2>1, <2>2
<1>6. OfGroup(from, n, i) <=> i = start + lead
    BY <1>1, <1>2, <1>4 DEF OfGroup
<1>7. ASSUME NEW m \in 1..length
      PROVE  /\ OfToken(from, n, m, i) <=> i = start + lead + m
             /\ OfToken(from, n, m + 1, i + 1) <=>
                    i + 1 = start + lead + (m + 1)
    BY <1>1, <1>2, <1>4 DEF OfToken
<1>8. OfGroup(from, n, i) => from[n] < i /\ i <= from[n + 1]
    <2> SUFFICES ASSUME OfGroup(from, n, i)
                 PROVE  start < i /\ i <= start + lead + length
        BY <1>4, <1>5
    <2>1. i = start + lead
        BY <1>6
    <2> QED
        BY <2>1
<1>9. ASSUME NEW m \in 1..length, OfToken(from, n, m, i)
      PROVE  /\ from[n] + 1 < i /\ i <= from[n + 1]
             /\ OfToken(from, n, m + 1, i + 1)
             /\ m = length => i = from[n + 1]
    <2>1. i = start + lead + m
        BY <1>7, <1>9
    <2>2. OfToken(from, n, m + 1, i + 1)
        BY <1>2, <1>4, <1>7, <2>1
    <2>3. /\ start + 1 < i /\ i <= start + lead + length
          /\ m = length => i = start + lead + length
        BY <2>1
    <2> QED
        BY <1>4, <1>5, <2>2, <2>3
<1>10. group.tokens = <<>> /\ OfGroup(from, n, i) => i = from[n + 1]
    <2>1. group.tokens = <<>> => length = 0
        <3>1. Len(<<>>) = 0
            OBVIOUS
        <3> QED
            BY <1>3, <3>1
    <2> QED
        BY <1>2, <1>4, <1>5, <1>6, <2>1
<1> QED
    BY <1>1, <1>3, <1>8, <1>9, <1>10

\* The line below a group is of no token, and a group without a predecessor
\* has none above.
LEMMA AroundAGroup ==
    ASSUME TextTypeOK, NEW from \in [1..(Len(groups) + 1) -> Nat],
           Layout(from), NEW n \in 1..Len(groups)
    PROVE  /\ ~At(from[n + 1] + 1, "past-token")
           /\ \A i \in Nat :
                 OfGroup(from, n, i) => Origin(i) = groups[n].origin
<1>1. DOMAIN lines = 1..Len(lines) /\ Len(lines) \in Nat
    BY Counts DEF TextTypeOK
<1>2. PICK start \in Nat : start = from[n]
    BY Counts
<1>3. PICK end \in Nat : end = from[n + 1]
    BY Counts
<1>4. ASSUME NEW k \in 1..Len(groups), k < n
      PROVE  from[k + 1] <= start
    <2>1. k + 1 \in 1..(Len(groups) + 1) /\ n \in 1..(Len(groups) + 1)
          /\ k + 1 <= n
        BY <1>4, Counts
    <2> QED
        BY <1>2, <2>1, OffsetsRise
<1>5. ASSUME NEW k \in 1..Len(groups), n < k
      PROVE  end <= from[k]
    <2>1. n + 1 \in 1..(Len(groups) + 1) /\ k \in 1..(Len(groups) + 1)
          /\ n + 1 <= k
        BY <1>5, Counts
    <2> QED
        BY <1>3, <2>1, OffsetsRise
<1>6. start < end
    <2>1. n \in 1..(Len(groups) + 1) /\ n + 1 \in 1..(Len(groups) + 1)
        BY Counts
    <2> QED
        BY <1>2, <1>3, <2>1, OffsetsRise
<1>7. ASSUME At(end + 1, "past-token")
      PROVE  FALSE
    <2>1. end + 1 \in 1..Len(lines) /\ lines[end + 1].kind = "past-token"
        BY <1>1, <1>7 DEF At
    <2>8. PICK k \in 1..Len(groups) :
              \E m \in 1..Len(groups[k].tokens) : OfToken(from, k, m, end + 1)
        BY <2>1, KindsTell
    <2>2. PICK m \in 1..Len(groups[k].tokens) : OfToken(from, k, m, end + 1)
        BY <2>8
    <2>3. from[k] + 1 < end + 1 /\ end + 1 <= from[k + 1]
        BY <2>2, WithinTheGroup
    <2>4. from[k] \in Nat /\ from[k + 1] \in Nat
        BY <2>2, Counts
    <2>5. k < n => from[k + 1] <= start
        BY <1>4
    <2>6. n < k => end <= from[k]
        BY <1>5
    <2>7. k = n => from[k + 1] = end
        BY <1>3
    <2> QED
        BY <1>6, <2>3, <2>4, <2>5, <2>6, <2>7
<1>8. ASSUME NEW i \in Nat, OfGroup(from, n, i)
      PROVE  Origin(i) = groups[n].origin
    <2>1. CASE groups[n].origin # Absent
        <3>1. i = start + 2
            BY <1>2, <1>8, <2>1 DEF OfGroup, Lead
        <3>2. OfPredecessor(from, n, i - 1) /\ i - 1 \in Nat
            BY <1>2, <2>1, <3>1 DEF OfPredecessor
        <3>3. i - 1 \in 1..Len(lines)
              /\ IsPredecessor(lines[i - 1], groups[n].commit,
                               groups[n].origin)
            BY <3>2, ThingsStand
        <3>4. lines[i - 1].kind = "predecessor"
              /\ lines[i - 1].origin = groups[n].origin
            BY <3>3 DEF IsPredecessor, PredecessorLine
        <3> QED
            BY <1>1, <3>3, <3>4 DEF Origin, At
    <2>2. CASE groups[n].origin = Absent
        <3>1. i = start + 1 /\ i - 1 = start
            BY <1>2, <1>8, <2>2 DEF OfGroup, Lead
        <3>2. SUFFICES ASSUME At(start, "predecessor")
                       PROVE  FALSE
            BY <2>2, <3>1 DEF Origin
        <3>3. start \in 1..Len(lines) /\ lines[start].kind = "predecessor"
            BY <1>1, <3>2 DEF At
        <3>4. CASE announced # Absent /\ start = Len(lines)
            <4>1. Len(lines) = from[Len(groups) + 1] + 1
                  /\ end <= from[Len(groups) + 1]
                  /\ from[Len(groups) + 1] \in Nat
                BY <1>3, <3>4, Counts, ThingsStand
            <4> QED
                BY <1>6, <3>4, <4>1
        <3>5. ASSUME NEW k \in 1..Len(groups), OfPredecessor(from, k, start)
              PROVE  FALSE
            <4>1. from[k] \in Nat /\ start = from[k] + 1
                  /\ groups[k].origin # Absent
                BY <3>5, Counts DEF OfPredecessor
            <4>2. OfGroup(from, k, start + 1)
                BY <3>5, ThingsStand
            <4>3. start + 1 <= from[k + 1] /\ from[k + 1] \in Nat
                <5>1. start + 1 \in Nat
                    OBVIOUS
                <5> QED
                    BY <4>2, <5>1, Counts, WithinTheGroup
            <4>4. k < n => from[k + 1] <= start
                BY <1>4
            <4>5. n < k => end <= from[k]
                BY <1>5
            <4>6. k = n => from[k] = start
                BY <1>2
            <4> QED
                BY <1>6, <4>1, <4>3, <4>4, <4>5, <4>6
        <3> QED
            BY <3>3, <3>4, <3>5, KindsTell
    <2> QED
        BY <2>1, <2>2
<1> QED
    BY <1>3, <1>7, <1>8

-----------------------------------------------------------------------------
\* What is left of IsCanonical for a text whose records were all accepted.
Spelled == \A i \in DOMAIN lines : IsSpelledCanonically(lines[i])

TokensRise ==
    \A n \in 1..Len(groups) : \A m \in 1..Len(groups[n].tokens) :
        m < Len(groups[n].tokens) =>
            groups[n].tokens[m].site < groups[n].tokens[m + 1].site

EntriesRise ==
    \A m \in 1..Len(listed) :
        m < Len(listed) => listed[m].path < listed[m + 1].path

\* What was read from a canonical text is in its order.
LEMMA CanonicalRises ==
    ASSUME TextTypeOK, NEW from \in [1..(Len(groups) + 1) -> Nat],
           Layout(from), IsCanonical
    PROVE  Spelled /\ TokensRise /\ EntriesRise
<1>1. DOMAIN lines = 1..Len(lines)
    BY DEF TextTypeOK
<1>2. Spelled
    BY DEF IsCanonical, Spelled
<1>3. ASSUME NEW n \in 1..Len(groups), NEW m \in 1..Len(groups[n].tokens),
             m < Len(groups[n].tokens)
      PROVE  groups[n].tokens[m].site < groups[n].tokens[m + 1].site
    <2>1. PICK i \in Nat : OfToken(from, n, m, i)
        <3>1. from[n] \in Nat /\ Lead(groups[n]) \in Nat
            BY Counts DEF Lead
        <3>2. from[n] + Lead(groups[n]) + m \in Nat
            BY <3>1
        <3> QED
            BY <3>2 DEF OfToken
    <2>2. OfToken(from, n, m + 1, i + 1)
        BY <1>3, <2>1, WithinTheGroup
    <2>3. m + 1 \in 1..Len(groups[n].tokens) /\ i + 1 \in Nat
        BY <1>3
    <2>4. /\ i \in 1..Len(lines)
          /\ IsTokenOf(lines[i], groups[n].commit, groups[n].tokens[m])
        BY <2>1, ThingsStand
    <2>5. /\ i + 1 \in 1..Len(lines)
          /\ IsTokenOf(lines[i + 1], groups[n].commit,
                       groups[n].tokens[m + 1])
        BY <2>2, <2>3, ThingsStand
    <2>6. /\ lines[i].kind = "past-token" /\ lines[i + 1].kind = "past-token"
          /\ lines[i].site = groups[n].tokens[m].site
          /\ lines[i + 1].site = groups[n].tokens[m + 1].site
        BY <2>4, <2>5 DEF IsTokenOf, PastTokenLine
    <2>7. i \in Positions("past-token") /\ At(i + 1, "past-token")
        BY <1>1, <2>4, <2>5, <2>6 DEF Positions, At
    <2>8. lines[i].site < lines[i + 1].site
        BY <2>7 DEF IsCanonical
    <2> QED
        BY <2>6, <2>8
<1>4. ASSUME NEW m \in 1..Len(listed), m < Len(listed)
      PROVE  listed[m].path < listed[m + 1].path
    <2>1. PICK i \in Nat : OfEntry(from, m, i) /\ OfEntry(from, m + 1, i + 1)
        <3>1. from[Len(groups) + 1] + m \in Nat
              /\ (from[Len(groups) + 1] + m) + 1
                    = from[Len(groups) + 1] + (m + 1)
            BY Counts
        <3> QED
            BY <3>1 DEF OfEntry
    <2>2. m + 1 \in 1..Len(listed) /\ i + 1 \in Nat
        BY <1>4
    <2>3. i \in 1..Len(lines) /\ IsEntry(lines[i], listed[m])
        BY <2>1, ThingsStand
    <2>4. i + 1 \in 1..Len(lines) /\ IsEntry(lines[i + 1], listed[m + 1])
        BY <2>1, <2>2, ThingsStand
    <2>5. /\ lines[i].kind = "entry"
          /\ lines[i].path = listed[m].path
          /\ lines[i + 1].path = listed[m + 1].path
        BY <2>3, <2>4 DEF IsEntry, EntryLine
    <2>6. i \in Positions("entry")
        BY <1>1, <2>3, <2>5 DEF Positions
    <2>7. i < Len(lines)
        BY <2>3, <2>4, Counts
    <2>8. lines[i].path < lines[i + 1].path
        BY <2>6, <2>7 DEF IsCanonical
    <2> QED
        BY <2>5, <2>8
<1> QED
    BY <1>2, <1>3, <1>4 DEF TokensRise, EntriesRise

\* What was read in order and spelled as written was canonical.
LEMMA RisingIsCanonical ==
    ASSUME TextTypeOK, NEW from \in [1..(Len(groups) + 1) -> Nat],
           Layout(from), NoneTwice, announced = Absent,
           Spelled, TokensRise, EntriesRise
    PROVE  IsCanonical
<1>1. DOMAIN lines = 1..Len(lines) /\ Len(lines) \in Nat
    BY Counts DEF TextTypeOK
<1>2. ASSUME NEW i \in Positions("parents")
      PROVE  i = 1
    BY <1>1, <1>2, KindsTell DEF Positions
<1>3. ASSUME NEW i \in Positions("predecessor")
      PROVE  /\ At(i + 1, "past-manifest")
             /\ lines[i + 1].commit = lines[i].commit
    <2>1. i \in 1..Len(lines) /\ lines[i].kind = "predecessor"
        BY <1>1, <1>3 DEF Positions
    <2>2. PICK n \in 1..Len(groups) : OfPredecessor(from, n, i)
        BY <2>1, KindsTell
    <2>3. /\ OfGroup(from, n, i + 1)
          /\ IsPredecessor(lines[i], groups[n].commit, groups[n].origin)
        BY <1>1, <2>1, <2>2, ThingsStand
    <2>4. /\ i + 1 \in 1..Len(lines)
          /\ lines[i + 1] = PastManifestLine(groups[n].commit, groups[n].hash)
        <3>1. i + 1 \in Nat
            BY <2>1
        <3> QED
            BY <2>3, <3>1, ThingsStand
    <2>5. lines[i].commit = groups[n].commit
        BY <2>3 DEF IsPredecessor, PredecessorLine
    <2> QED
        BY <1>1, <2>4, <2>5 DEF At, PastManifestLine
<1>4. ASSUME NEW i \in Positions("past-manifest"),
             NEW j \in Positions("past-manifest"),
             lines[i].hash.sha256 = lines[j].hash.sha256
      PROVE  i = j
    <2>1. i \in 1..Len(lines) /\ lines[i].kind = "past-manifest"
          /\ j \in 1..Len(lines) /\ lines[j].kind = "past-manifest"
          /\ i \in Nat /\ j \in Nat
        BY <1>1, <1>4 DEF Positions
    <2>2. PICK n \in 1..Len(groups) : OfGroup(from, n, i)
        BY <2>1, KindsTell
    <2>3. PICK k \in 1..Len(groups) : OfGroup(from, k, j)
        BY <2>1, KindsTell
    <2>4. lines[i] = PastManifestLine(groups[n].commit, groups[n].hash)
        BY <2>1, <2>2, ThingsStand
    <2>5. lines[j] = PastManifestLine(groups[k].commit, groups[k].hash)
        BY <2>1, <2>3, ThingsStand
    <2>6. groups[n].hash.sha256 = groups[k].hash.sha256
        BY <1>4, <2>4, <2>5 DEF PastManifestLine
    <2>7. n = k
        BY <2>6 DEF NoneTwice
    <2> QED
        BY <2>2, <2>3, <2>7 DEF OfGroup
<1>5. ASSUME NEW i \in Positions("past-token")
      PROVE  /\ \E j \in DOMAIN lines :
                   StandsUnder(i, j) /\ lines[i].commit = lines[j].commit
             /\ At(i + 1, "past-token") => lines[i].site < lines[i + 1].site
    <2>1. i \in 1..Len(lines) /\ lines[i].kind = "past-token" /\ i \in Nat
        BY <1>1, <1>5 DEF Positions
    <2>2. PICK n \in 1..Len(groups) :
              \E m \in 1..Len(groups[n].tokens) : OfToken(from, n, m, i)
        BY <2>1, KindsTell
    <2>3. PICK m \in 1..Len(groups[n].tokens) : OfToken(from, n, m, i)
        BY <2>2
    <2>4. IsTokenOf(lines[i], groups[n].commit, groups[n].tokens[m])
        BY <2>1, <2>3, ThingsStand
    <2>5. PICK j \in Nat : OfGroup(from, n, j) /\ i = j + m
        <3>1. from[n] \in Nat /\ Lead(groups[n]) \in Nat
            BY Counts DEF Lead
        <3>2. from[n] + Lead(groups[n]) \in Nat
            BY <3>1
        <3> QED
            BY <2>3, <3>2 DEF OfGroup, OfToken
    <2>6. /\ j \in 1..Len(lines)
          /\ lines[j] = PastManifestLine(groups[n].commit, groups[n].hash)
        BY <2>5, ThingsStand
    <2>7. At(j, "past-manifest") /\ lines[j].commit = groups[n].commit
        BY <1>1, <2>6 DEF At, PastManifestLine
    <2>8. ASSUME NEW k \in (j + 1)..i
          PROVE  At(k, "past-token")
        <3>1. PICK h \in 1..m : k = j + h
            <4>1. k - j \in 1..m /\ k = j + (k - j)
                BY <2>5
            <4> QED
                BY <4>1
        <3>4. Len(groups[n].tokens) \in Nat
            <4>1. groups[n] \in GroupSaid
                BY Counts
            <4> QED
                BY <4>1, GroupTyping
        <3>5. h \in 1..Len(groups[n].tokens) /\ k \in Nat
            BY <2>5, <3>1, <3>4
        <3>6. OfToken(from, n, h, k)
            BY <2>5, <3>1 DEF OfGroup, OfToken
        <3>2. h \in 1..Len(groups[n].tokens) /\ k \in Nat
              /\ OfToken(from, n, h, k)
            BY <3>5, <3>6
        <3>3. /\ k \in 1..Len(lines)
              /\ IsTokenOf(lines[k], groups[n].commit, groups[n].tokens[h])
            BY <3>2, ThingsStand
        <3> QED
            BY <1>1, <3>3 DEF At, IsTokenOf, PastTokenLine
    <2>9. StandsUnder(i, j)
        BY <2>5, <2>7, <2>8 DEF StandsUnder
    <2>10. lines[i].commit = lines[j].commit
        BY <2>4, <2>7 DEF IsTokenOf, PastTokenLine
    <2>11. ASSUME At(i + 1, "past-token")
           PROVE  lines[i].site < lines[i + 1].site
        <3>1. Len(groups[n].tokens) \in Nat /\ m \in Nat
            <4>1. groups[n] \in GroupSaid
                BY Counts
            <4> QED
                BY <4>1, GroupTyping
        <3>2. m # Len(groups[n].tokens)
            <4>1. m = Len(groups[n].tokens) => i = from[n + 1]
                BY <2>1, <2>3, WithinTheGroup
            <4> QED
                BY <2>11, <4>1, AroundAGroup
        <3>3. m < Len(groups[n].tokens) /\ m + 1 \in 1..Len(groups[n].tokens)
            BY <3>1, <3>2
        <3>4. OfToken(from, n, m + 1, i + 1) /\ i + 1 \in Nat
            BY <2>1, <2>3, <3>3, WithinTheGroup
        <3>5. IsTokenOf(lines[i + 1], groups[n].commit,
                        groups[n].tokens[m + 1])
            BY <3>3, <3>4, ThingsStand
        <3>6. groups[n].tokens[m].site < groups[n].tokens[m + 1].site
            BY <3>3 DEF TokensRise
        <3> QED
            BY <2>4, <3>5, <3>6 DEF IsTokenOf, PastTokenLine
    <2> QED
        BY <1>1, <2>6, <2>9, <2>10, <2>11
<1>6. ASSUME NEW i \in Positions("entry"), i < Len(lines)
      PROVE  At(i + 1, "entry") /\ lines[i].path < lines[i + 1].path
    <2>1. i \in 1..Len(lines) /\ lines[i].kind = "entry" /\ i \in Nat
        BY <1>1, <1>6 DEF Positions
    <2>2. PICK m \in 1..Len(listed) : OfEntry(from, m, i)
        BY <2>1, KindsTell
    <2>3. Len(lines) = from[Len(groups) + 1] + Len(listed)
          /\ from[Len(groups) + 1] \in Nat /\ Len(listed) \in Nat
        <3>1. Ahead = 0
            BY Counts
        <3> QED
            BY <3>1, Counts
    <2>4. m < Len(listed) /\ m + 1 \in 1..Len(listed)
          /\ OfEntry(from, m + 1, i + 1) /\ i + 1 \in Nat
        BY <1>6, <2>2, <2>3 DEF OfEntry
    <2>5. IsEntry(lines[i], listed[m])
        BY <2>1, <2>2, ThingsStand
    <2>6. i + 1 \in 1..Len(lines) /\ IsEntry(lines[i + 1], listed[m + 1])
        BY <2>4, ThingsStand
    <2>7. listed[m].path < listed[m + 1].path
        BY <2>4 DEF EntriesRise
    <2> QED
        BY <1>1, <2>5, <2>6, <2>7 DEF At, IsEntry, EntryLine
<1>7. Positions("parents") \subseteq {1}
    BY <1>2
<1>8. \A i \in DOMAIN lines : IsSpelledCanonically(lines[i])
    BY DEF Spelled
<1> QED
    BY <1>3, <1>4, <1>5, <1>6, <1>7, <1>8 DEF IsCanonical

-----------------------------------------------------------------------------
SortOfTokens(tokens) ==
    Sorting({p \in Pairs(tokens) : tokens[p[1]].site < tokens[p[2]].site},
            Len(tokens))

SortOfEntries ==
    Sorting({p \in Pairs(listed) : EntryBelow(listed[p[1]], listed[p[2]])},
            Len(listed))

\* The sorting of the tokens of a group: none if they rise.
LEMMA TokensAreSorted ==
    ASSUME NEW tokens \in Seq(TokenSaid)
    PROVE  /\ SortOfTokens(tokens) \in [1..Len(tokens) -> 1..Len(tokens)]
           /\ \A i, j \in 1..Len(tokens) :
                 i < j => ~(tokens[SortOfTokens(tokens)[j]].site
                                < tokens[SortOfTokens(tokens)[i]].site)
           /\ (\A m \in 1..Len(tokens) :
                  m < Len(tokens) => tokens[m].site < tokens[m + 1].site)
              => \A i \in 1..Len(tokens) : SortOfTokens(tokens)[i] = i
<1> DEFINE below == {p \in Pairs(tokens) :
                        tokens[p[1]].site < tokens[p[2]].site}
<1>1. PICK length \in Nat : length = Len(tokens)
    BY LenProperties
<1>2. PICK site : site = [i \in 1..length |-> tokens[i].site]
    OBVIOUS
<1>3. site \in [1..length -> Nat]
    <2>1. ASSUME NEW i \in 1..length
          PROVE  tokens[i].site \in Nat
        BY <1>1, ElementOfSeq, TokenTyping
    <2> QED
        BY <1>2, <2>1
<1>4. \A i, j : <<i, j>> \in below <=>
          i \in 1..length /\ j \in 1..length /\ site[i] < site[j]
    <2>1. \A i, j : <<i, j>> \in below <=>
              /\ i \in 1..length /\ j \in 1..length
              /\ tokens[i].site < tokens[j].site
        BY <1>1 DEF Pairs
    <2>2. \A i \in 1..length : site[i] = tokens[i].site
        BY <1>2
    <2> QED
        BY <2>1, <2>2
<1> HIDE DEF below
<1>5. IsOrder(below)
    <2>1. ASSUME NEW i \in Nat
          PROVE  <<i, i>> \notin below
        BY <1>3, <1>4
    <2>2. ASSUME NEW i \in Nat, NEW j \in Nat, NEW k \in Nat,
                 <<i, j>> \in below, <<j, k>> \in below
          PROVE  <<i, k>> \in below
        <3>1. /\ i \in 1..length /\ j \in 1..length /\ k \in 1..length
              /\ site[i] < site[j] /\ site[j] < site[k]
            BY <1>4, <2>2
        <3>2. site[i] \in Nat /\ site[j] \in Nat /\ site[k] \in Nat
            BY <1>3, <3>1
        <3> QED
            BY <1>4, <3>1, <3>2
    <2> QED
        BY <2>1, <2>2 DEF IsOrder
<1>6. PICK sort : sort = SortOfTokens(tokens)
    OBVIOUS
<1>7. SortsBy(below, length, sort)
    <2>1. sort = Sorting(below, length)
        BY <1>1, <1>6 DEF SortOfTokens, below
    <2> QED
        BY <1>5, <2>1, SortingSorts
<1>8. sort \in [1..length -> 1..length]
    <2>1. sort \in Bijection(1..length, 1..length)
        BY <1>7 DEF SortsBy
    <2> QED
        BY <2>1, IsBijection, Zenon
<1>9. \A i \in 1..length : site[i] = tokens[i].site
    BY <1>2
<1>10. ASSUME NEW i \in 1..length, NEW j \in 1..length, i < j
       PROVE  ~(tokens[sort[j]].site < tokens[sort[i]].site)
    <2>1. <<sort[j], sort[i]>> \notin below
        BY <1>7, <1>10 DEF SortsBy
    <2>2. sort[i] \in 1..length /\ sort[j] \in 1..length
        BY <1>8
    <2> QED
        BY <1>4, <1>9, <2>1, <2>2
<1>11. ASSUME \A m \in 1..length :
                  m < length => tokens[m].site < tokens[m + 1].site
       PROVE  \A i \in 1..length : sort[i] = i
    <2>1. \A m \in 1..length : m < length => site[m] < site[m + 1]
        <3> SUFFICES ASSUME NEW m \in 1..length, m < length
                     PROVE  site[m] < site[m + 1]
            OBVIOUS
        <3>1. m + 1 \in 1..length
            OBVIOUS
        <3> QED
            BY <1>9, <1>11, <3>1
    <2>2. \A i, j \in 1..length : i < j => site[i] < site[j]
        BY <1>3, <2>1, RisesThroughout
    <2>3. \A i, j \in 1..length : i < j => <<i, j>> \in below
        BY <1>4, <2>2
    <2>4. PICK less : less = below
        OBVIOUS
    <2>5. SortsBy(less, length, sort)
        BY <1>7, <2>4, Zenon
    <2>6. InOrder(less, length)
        BY <2>3, <2>4 DEF InOrder
    <2>7. MovesNothing(sort, length)
        BY <2>5, <2>6, SortsNothing
    <2> QED
        BY <2>7 DEF MovesNothing
<1> QED
    BY <1>1, <1>6, <1>8, <1>10, <1>11

\* The sorting of the entries: none if they rise.
LEMMA EntriesAreSorted ==
    ASSUME TextTypeOK
    PROVE  /\ SortOfEntries \in [1..Len(listed) -> 1..Len(listed)]
           /\ \A i, j \in 1..Len(listed) :
                 i < j => ~EntryBelow(listed[SortOfEntries[j]],
                                      listed[SortOfEntries[i]])
           /\ EntriesRise => \A i \in 1..Len(listed) : SortOfEntries[i] = i
<1> DEFINE below == {p \in Pairs(listed) :
                        EntryBelow(listed[p[1]], listed[p[2]])}
<1>1. PICK length \in Nat : length = Len(listed)
    BY LenProperties DEF TextTypeOK
<1>2. PICK paths, contents :
          /\ paths = [i \in 1..length |-> listed[i].path]
          /\ contents = [i \in 1..length |-> listed[i].content]
    OBVIOUS
<1>3. paths \in [1..length -> Nat] /\ contents \in [1..length -> Nat]
    <2>1. ASSUME NEW i \in 1..length
          PROVE  listed[i].path \in Nat /\ listed[i].content \in Nat
        BY <1>1, ElementOfSeq, EntryTyping DEF TextTypeOK
    <2> QED
        BY <1>2, <2>1
<1>4. \A i, j : <<i, j>> \in below <=>
          /\ i \in 1..length /\ j \in 1..length
          /\ paths[i] < paths[j]
             \/ (paths[i] = paths[j] /\ contents[i] < contents[j])
    <2>1. \A i, j : <<i, j>> \in below <=>
              /\ i \in 1..length /\ j \in 1..length
              /\ EntryBelow(listed[i], listed[j])
        BY <1>1 DEF Pairs, TextTypeOK
    <2>2. ASSUME NEW i \in 1..length, NEW j \in 1..length
          PROVE  EntryBelow(listed[i], listed[j]) <=>
                     paths[i] < paths[j]
                     \/ (paths[i] = paths[j] /\ contents[i] < contents[j])
        BY <1>2 DEF EntryBelow
    <2> HIDE DEF below
    <2> QED
        BY <2>1, <2>2, Zenon
<1> HIDE DEF below
<1>5. IsOrder(below)
    <2>1. ASSUME NEW i \in Nat
          PROVE  <<i, i>> \notin below
        <3>1. i \in 1..length =>
                  ~(paths[i] < paths[i]) /\ ~(contents[i] < contents[i])
            BY <1>3
        <3> QED
            BY <1>4, <3>1
    <2>2. ASSUME NEW i \in Nat, NEW j \in Nat, NEW k \in Nat,
                 <<i, j>> \in below, <<j, k>> \in below
          PROVE  <<i, k>> \in below
        <3>1. /\ i \in 1..length /\ j \in 1..length /\ k \in 1..length
              /\ paths[i] < paths[j]
                 \/ (paths[i] = paths[j] /\ contents[i] < contents[j])
              /\ paths[j] < paths[k]
                 \/ (paths[j] = paths[k] /\ contents[j] < contents[k])
            BY <1>4, <2>2
        <3>2. /\ paths[i] \in Nat /\ paths[j] \in Nat /\ paths[k] \in Nat
              /\ contents[i] \in Nat /\ contents[j] \in Nat
              /\ contents[k] \in Nat
            BY <1>3, <3>1
        <3>3. paths[i] < paths[k]
              \/ (paths[i] = paths[k] /\ contents[i] < contents[k])
            BY <3>1, <3>2
        <3> QED
            BY <1>4, <3>1, <3>3
    <2> QED
        BY <2>1, <2>2 DEF IsOrder
<1>6. PICK sort : sort = SortOfEntries
    OBVIOUS
<1>7. SortsBy(below, length, sort)
    <2>1. sort = Sorting(below, length)
        BY <1>1, <1>6 DEF SortOfEntries, below
    <2> QED
        BY <1>5, <2>1, SortingSorts
<1>8. sort \in [1..length -> 1..length]
    <2>1. sort \in Bijection(1..length, 1..length)
        BY <1>7 DEF SortsBy
    <2> QED
        BY <2>1, IsBijection, Zenon
<1>9. \A i \in 1..length :
          paths[i] = listed[i].path /\ contents[i] = listed[i].content
    BY <1>2
<1>10. ASSUME NEW i \in 1..length, NEW j \in 1..length, i < j
       PROVE  ~EntryBelow(listed[sort[j]], listed[sort[i]])
    <2>1. <<sort[j], sort[i]>> \notin below
        BY <1>7, <1>10 DEF SortsBy
    <2>2. sort[i] \in 1..length /\ sort[j] \in 1..length
        BY <1>8
    <2> QED
        BY <1>4, <1>9, <2>1, <2>2 DEF EntryBelow
<1>11. ASSUME EntriesRise
       PROVE  \A i \in 1..length : sort[i] = i
    <2>1. \A m \in 1..length : m < length => paths[m] < paths[m + 1]
        <3> SUFFICES ASSUME NEW m \in 1..length, m < length
                     PROVE  paths[m] < paths[m + 1]
            OBVIOUS
        <3>1. m + 1 \in 1..length
            OBVIOUS
        <3> QED
            BY <1>1, <1>9, <1>11, <3>1 DEF EntriesRise
    <2>2. \A i, j \in 1..length : i < j => paths[i] < paths[j]
        BY <1>3, <2>1, RisesThroughout
    <2>3. \A i, j \in 1..length : i < j => <<i, j>> \in below
        BY <1>4, <2>2
    <2>4. PICK less : less = below
        OBVIOUS
    <2>5. SortsBy(less, length, sort)
        BY <1>7, <2>4
    <2>6. InOrder(less, length)
        BY <2>3, <2>4 DEF InOrder
    <2>7. MovesNothing(sort, length)
        BY <2>5, <2>6, SortsNothing
    <2> QED
        BY <2>7 DEF MovesNothing
<1> QED
    BY <1>1, <1>6, <1>8, <1>10, <1>11

\* The lines that what is read may be written as.
WrittenAbove ==
    {PredecessorLine(group.commit, group.origin, TRUE) : group \in GroupSaid}

WrittenOwn ==
    {PastManifestLine(group.commit, group.hash) : group \in GroupSaid}

WrittenToken ==
    {PastTokenLine(group.commit, token.site, token.hash) :
        group \in GroupSaid, token \in TokenSaid}

WrittenEntry ==
    {EntryLine(entry.path, entry.content, TRUE) : entry \in EntrySaid}

WrittenLine ==
    {ParentsLine(parents)} \cup WrittenAbove \cup WrittenOwn
        \cup WrittenToken \cup WrittenEntry

\* What is written of the tokens of a group.
LEMMA TokenLinesAre ==
    ASSUME NEW group \in GroupSaid
    PROVE  /\ TokenLines(group) \in Seq(WrittenLine)
           /\ Len(TokenLines(group)) = Len(group.tokens)
           /\ \A m \in 1..Len(group.tokens) :
                 IsTokenOf(TokenLines(group)[m], group.commit,
                           group.tokens[SortOfTokens(group.tokens)[m]])
<1>1. PICK tokens \in Seq(TokenSaid) : tokens = group.tokens
    BY GroupTyping
<1>2. PICK length \in Nat : length = Len(tokens)
    BY LenProperties
<1>3. PICK sort \in [1..length -> 1..length] : sort = SortOfTokens(tokens)
    BY <1>2, TokensAreSorted
<1>4. DOMAIN tokens = 1..length
    BY <1>2
<1>5. PICK written : written = TokenLines(group)
    OBVIOUS
<1>6. written = [i \in 1..length |->
                    PastTokenLine(group.commit, tokens[sort[i]].site,
                                  tokens[sort[i]].hash)]
    BY <1>1, <1>2, <1>3, <1>4, <1>5 DEF TokenLines, SortOfTokens
<1>7. ASSUME NEW i \in 1..length
      PROVE  /\ written[i] \in WrittenLine
             /\ IsTokenOf(written[i], group.commit, tokens[sort[i]])
    <2>1. tokens[sort[i]] \in TokenSaid
        BY <1>2, <1>3, ElementOfSeq
    <2>2. written[i] = PastTokenLine(group.commit, tokens[sort[i]].site,
                                     tokens[sort[i]].hash)
        BY <1>6
    <2> QED
        <3>1. written[i] \in WrittenToken
            BY <2>1, <2>2 DEF WrittenToken
        <3>2. written[i] \in WrittenLine
            BY <3>1 DEF WrittenLine
        <3> QED
            BY <2>2, <3>2 DEF IsTokenOf
<1>8. written \in [1..length -> WrittenLine]
    BY <1>6, <1>7
<1>9. written \in Seq(WrittenLine) /\ Len(written) = length
    BY <1>8
<1> QED
    BY <1>1, <1>2, <1>3, <1>5, <1>7, <1>9

\* What is written of a group, as long as what it was read from.
LEMMA GroupLinesAre ==
    ASSUME NEW group \in GroupSaid
    PROVE  /\ GroupLines(group) \in Seq(WrittenLine)
           /\ Len(GroupLines(group)) = Extent(group)
           /\ group.origin # Absent =>
                 GroupLines(group)[1]
                     = PredecessorLine(group.commit, group.origin, TRUE)
           /\ GroupLines(group)[Lead(group)]
                 = PastManifestLine(group.commit, group.hash)
           /\ \A m \in 1..Len(group.tokens) :
                 GroupLines(group)[Lead(group) + m] = TokenLines(group)[m]
<1>1. PICK written \in Seq(WrittenLine) : written = TokenLines(group)
    BY TokenLinesAre
<1>2. PICK length \in Nat : length = Len(group.tokens) /\ length = Len(written)
    BY <1>1, GroupTyping, TokenLinesAre
<1>3. PICK own : own = PastManifestLine(group.commit, group.hash)
    OBVIOUS
<1>4. PICK above :
          above = PredecessorLine(group.commit, group.origin, TRUE)
    OBVIOUS
<1>5. own \in WrittenLine /\ above \in WrittenLine
    <2>1. own \in WrittenOwn
        BY <1>3 DEF WrittenOwn
    <2>2. above \in WrittenAbove
        BY <1>4 DEF WrittenAbove
    <2> QED
        BY <2>1, <2>2 DEF WrittenLine
<1>6. CASE group.origin = Absent
    <2>1. Lead(group) = 1
        BY <1>6 DEF Lead
    <2>2. PICK all : all = GroupLines(group)
        OBVIOUS
    <2>3. all = (<<>> \o <<own>>) \o written
        BY <1>1, <1>3, <1>6, <2>2 DEF GroupLines
    <2>4. <<>> \o <<own>> = <<own>>
        OBVIOUS
    <2>5. <<own>> \in Seq(WrittenLine) /\ Len(<<own>>) = 1 /\ <<own>>[1] = own
        BY <1>5
    <2>6. /\ all \in Seq(WrittenLine) /\ Len(all) = 1 + length
          /\ all[1] = own
          /\ \A m \in 1..length : all[1 + m] = written[m]
        BY <1>2, <2>3, <2>4, <2>5, ConcatProperties
    <2> QED
        BY <1>1, <1>2, <1>3, <1>6, <2>1, <2>2, <2>6 DEF Extent
<1>7. CASE group.origin # Absent
    <2>1. Lead(group) = 2
        BY <1>7 DEF Lead
    <2>2. PICK all : all = GroupLines(group)
        OBVIOUS
    <2>3. all = (<<above>> \o <<own>>) \o written
        BY <1>1, <1>3, <1>4, <1>7, <2>2 DEF GroupLines
    <2>4. /\ <<above>> \in Seq(WrittenLine) /\ <<own>> \in Seq(WrittenLine)
          /\ Len(<<above>>) = 1 /\ Len(<<own>>) = 1
          /\ <<above>>[1] = above /\ <<own>>[1] = own
        BY <1>5
    <2>7. PICK head : head = <<above>> \o <<own>>
        OBVIOUS
    <2>5. /\ head \in Seq(WrittenLine) /\ Len(head) = 2
          /\ head[1] = above /\ head[2] = own
        BY <2>4, <2>7, ConcatProperties
    <2>6. /\ all \in Seq(WrittenLine) /\ Len(all) = 2 + length
          /\ all[1] = above /\ all[2] = own
          /\ \A m \in 1..length : all[2 + m] = written[m]
        BY <1>2, <2>3, <2>5, <2>7, ConcatProperties
    <2> QED
        BY <1>1, <1>2, <1>3, <1>4, <2>1, <2>2, <2>6 DEF Extent
<1> QED
    BY <1>6, <1>7

\* What is written of the entries.
LEMMA EntryLinesAre ==
    ASSUME TextTypeOK
    PROVE  /\ EntryLines \in Seq(WrittenLine)
           /\ Len(EntryLines) = Len(listed)
           /\ \A m \in 1..Len(listed) :
                 EntryLines[m] = EntryLine(listed[SortOfEntries[m]].path,
                                           listed[SortOfEntries[m]].content,
                                           TRUE)
<1>1. PICK length \in Nat : length = Len(listed)
    BY LenProperties DEF TextTypeOK
<1>2. PICK sort \in [1..length -> 1..length] : sort = SortOfEntries
    BY <1>1, EntriesAreSorted
<1>3. DOMAIN listed = 1..length
    BY <1>1 DEF TextTypeOK
<1>4. PICK written : written = EntryLines
    OBVIOUS
<1>5. written = [i \in 1..length |->
                    EntryLine(listed[sort[i]].path, listed[sort[i]].content,
                              TRUE)]
    BY <1>1, <1>2, <1>3, <1>4 DEF EntryLines, SortOfEntries
<1>6. ASSUME NEW i \in 1..length
      PROVE  written[i] \in WrittenLine
    <2>1. listed[sort[i]] \in EntrySaid
        BY <1>1, <1>2, ElementOfSeq DEF TextTypeOK
    <2>2. written[i] = EntryLine(listed[sort[i]].path,
                                 listed[sort[i]].content, TRUE)
        BY <1>5
    <2> QED
        <3>1. written[i] \in WrittenEntry
            BY <2>1, <2>2 DEF WrittenEntry
        <3> QED
            BY <3>1 DEF WrittenLine
<1>7. written \in [1..length -> WrittenLine]
    BY <1>5, <1>6
<1>8. written \in Seq(WrittenLine) /\ Len(written) = length
    BY <1>7
<1> QED
    BY <1>1, <1>2, <1>4, <1>5, <1>8

\* Serialize writes each thing that was read where it was read.
LEMMA SerializedStands ==
    ASSUME TextTypeOK, NEW from \in [1..(Len(groups) + 1) -> Nat],
           Layout(from), announced = Absent
    PROVE  /\ Serialized \in Seq(WrittenLine)
           /\ Len(Serialized) = Len(lines)
           /\ parents # <<>> => Serialized[1] = ParentsLine(parents)
           /\ \A n \in 1..Len(groups), i \in Nat :
                 /\ OfPredecessor(from, n, i) =>
                       Serialized[i] = PredecessorLine(groups[n].commit,
                                                       groups[n].origin, TRUE)
                 /\ OfGroup(from, n, i) =>
                       Serialized[i] = PastManifestLine(groups[n].commit,
                                                        groups[n].hash)
                 /\ \A m \in 1..Len(groups[n].tokens) :
                       OfToken(from, n, m, i) =>
                           Serialized[i] = TokenLines(groups[n])[m]
           /\ \A m \in 1..Len(listed), i \in Nat :
                 OfEntry(from, m, i) => Serialized[i] = EntryLines[m]
<1>1. PICK count \in Nat : count = Len(groups)
    BY Counts
<1>2. PICK last \in Nat : last = from[count + 1]
    BY <1>1, Counts
<1>3. PICK skip \in {0, 1} : skip = ParentsFirst
    BY DEF ParentsFirst
<1>4. PICK head \in Seq(WrittenLine) :
          /\ head = IF parents = <<>> THEN <<>> ELSE <<ParentsLine(parents)>>
          /\ Len(head) = skip
          /\ parents # <<>> => skip = 1 /\ head[1] = ParentsLine(parents)
    <2>1. CASE parents = <<>>
        <3>1. <<>> \in Seq(WrittenLine) /\ Len(<<>>) = 0
            OBVIOUS
        <3> QED
            BY <1>3, <2>1, <3>1 DEF ParentsFirst
    <2>2. CASE parents # <<>>
        <3>1. PICK first : first = ParentsLine(parents)
            OBVIOUS
        <3>2. first \in WrittenLine
            BY <3>1 DEF WrittenLine
        <3>3. <<first>> \in Seq(WrittenLine) /\ Len(<<first>>) = 1
              /\ <<first>>[1] = first
            BY <3>2
        <3> QED
            BY <1>3, <2>2, <3>1, <3>3 DEF ParentsFirst
    <2> QED
        BY <2>1, <2>2
<1>5. PICK parts : parts = [n \in 1..count |-> GroupLines(groups[n])]
    OBVIOUS
<1>6. ASSUME NEW n \in 1..count
      PROVE  /\ groups[n] \in GroupSaid
             /\ parts[n] = GroupLines(groups[n])
             /\ parts[n] \in Seq(WrittenLine)
             /\ Len(parts[n]) = Extent(groups[n])
             /\ from[n] \in Nat /\ from[n + 1] \in Nat /\ skip <= from[n]
             /\ from[n + 1] = from[n] + Extent(groups[n])
             /\ Extent(groups[n]) \in Nat
    <2>1. /\ groups[n] \in GroupSaid /\ from[n] \in Nat /\ from[n + 1] \in Nat
          /\ from[n + 1] = from[n] + Extent(groups[n])
          /\ Extent(groups[n]) \in Nat
        BY <1>1, Counts
    <2>2. parts[n] = GroupLines(groups[n])
        BY <1>5
    <2>3. from[1] <= from[n]
        <3>1. 1 \in 1..(Len(groups) + 1) /\ n \in 1..(Len(groups) + 1)
              /\ 1 <= n
            BY <1>1
        <3> QED
            BY <3>1, OffsetsRise
    <2>4. from[1] = skip
        BY <1>3 DEF Layout
    <2> QED
        BY <2>1, <2>2, <2>3, <2>4, GroupLinesAre
<1>7. parts \in [1..count -> Seq(WrittenLine)]
    BY <1>5, <1>6
<1>8. \A n \in 1..(count + 1) : from[n] \in Nat /\ skip <= from[n]
    <2> SUFFICES ASSUME NEW n \in 1..(count + 1)
                 PROVE  from[n] \in Nat /\ skip <= from[n]
        OBVIOUS
    <2>1. CASE n \in 1..count
        BY <1>6, <2>1
    <2>2. CASE n = count + 1
        BY <1>1, <1>2, <1>3, <2>2, Counts
    <2> QED
        BY <2>1, <2>2
<1>9. PICK offset : offset = [n \in 1..(count + 1) |-> from[n] - skip]
    OBVIOUS
<1>10. offset \in [1..(count + 1) -> Nat]
    <2>1. ASSUME NEW n \in 1..(count + 1)
          PROVE  offset[n] \in Nat
        BY <1>8, <1>9
    <2> QED
        BY <1>9, <2>1
<1>11. \A n \in 1..(count + 1) : skip + offset[n] = from[n]
    BY <1>8, <1>9
<1>12. Offsets(parts, count, offset)
    <2>1. offset[1] = 0
        <3>1. from[1] = skip /\ 1 \in 1..(count + 1)
            BY <1>3 DEF Layout
        <3> QED
            BY <1>9, <3>1
    <2>2. ASSUME NEW n \in 1..count
          PROVE  offset[n + 1] = offset[n] + Len(parts[n])
        <3>1. n \in 1..(count + 1) /\ n + 1 \in 1..(count + 1)
            OBVIOUS
        <3>2. offset[n] = from[n] - skip /\ offset[n + 1] = from[n + 1] - skip
            BY <1>9, <3>1
        <3>3. PICK low, high, part \in Nat :
                  low = from[n] /\ high = from[n + 1] /\ part = Len(parts[n])
            BY <1>6
        <3>4. high = low + part
            BY <1>6, <3>3
        <3>5. high - skip = (low - skip) + part
            BY <3>4
        <3> QED
            BY <3>2, <3>3, <3>5
    <2> QED
        BY <2>1, <2>2 DEF Offsets
<1>13. PICK body : body = FlattenSeq(parts)
    OBVIOUS
<1>14. body \in Seq(WrittenLine) /\ PartsStand(parts, offset, count, body)
    BY <1>7, <1>10, <1>12, <1>13, FlattenStands
<1>15. PICK tail \in Seq(WrittenLine) : tail = EntryLines
    BY EntryLinesAre
<1>16. PICK front : front = head \o body
    OBVIOUS
<1>17. PICK all : all = front \o tail
    OBVIOUS
<1>18. all = Serialized
    <2>1. DOMAIN groups = 1..count
        BY <1>1 DEF TextTypeOK
    <2>2. parts = [n \in DOMAIN groups |-> GroupLines(groups[n])]
        BY <1>5, <2>1
    <2> QED
        BY <1>4, <1>13, <1>15, <1>16, <1>17, <2>2 DEF Serialized
<1>19. Len(body) = last - skip
    <2>1. Len(body) = offset[count + 1]
        BY <1>14 DEF PartsStand
    <2> QED
        BY <1>2, <1>9, <2>1
<1>20. skip <= last
    BY <1>2, <1>8
<1>21. /\ front \in Seq(WrittenLine)
       /\ Len(front) = Len(head) + Len(body)
       /\ \A i \in 1..Len(head) : front[i] = head[i]
       /\ \A i \in 1..Len(body) : front[Len(head) + i] = body[i]
    BY <1>14, <1>16, ConcatProperties
<1>22. /\ Len(front) = last
       /\ \A i \in 1..skip : front[i] = head[i]
       /\ \A i \in 1..(last - skip) : front[skip + i] = body[i]
    BY <1>4, <1>19, <1>20, <1>21
<1>23. /\ all \in Seq(WrittenLine)
       /\ Len(all) = Len(front) + Len(tail)
       /\ \A i \in 1..Len(front) : all[i] = front[i]
       /\ \A i \in 1..Len(tail) : all[Len(front) + i] = tail[i]
    <2>1. front \in Seq(WrittenLine)
        BY <1>21
    <2> QED
        BY <1>17, <2>1, ConcatProperties
<1>24. /\ \A i \in 1..skip : all[i] = head[i]
       /\ \A i \in 1..(last - skip) : all[skip + i] = body[i]
       /\ \A i \in 1..Len(tail) : all[last + i] = tail[i]
    <2>1. \A i \in 1..last : all[i] = front[i]
        BY <1>22, <1>23
    <2>2. ASSUME NEW i \in 1..skip
          PROVE  all[i] = head[i]
        <3>1. i \in 1..last
            BY <1>20
        <3> QED
            BY <1>22, <2>1, <3>1
    <2>3. ASSUME NEW i \in 1..(last - skip)
          PROVE  all[skip + i] = body[i]
        <3>1. skip + i \in 1..last
            BY <1>20
        <3> QED
            BY <1>22, <2>1, <3>1
    <2> QED
        BY <1>22, <1>23, <2>2, <2>3
<1>25. Len(all) = Len(lines)
    <2>1. Ahead = 0 /\ Len(lines) = last + Ahead + Len(listed)
        BY <1>1, <1>2, Counts
    <2>2. Len(tail) = Len(listed) /\ Len(listed) \in Nat
        BY <1>15, Counts, EntryLinesAre
    <2> QED
        BY <1>22, <1>23, <2>1, <2>2
<1>26. parents # <<>> => all[1] = ParentsLine(parents)
    BY <1>4, <1>24
<1>27. ASSUME NEW n \in 1..count, NEW j \in 1..Extent(groups[n])
       PROVE  all[from[n] + j] = GroupLines(groups[n])[j]
    <2>1. PICK extent \in Nat : extent = Extent(groups[n])
        BY <1>6
    <2>2. PICK start \in Nat : start = offset[n]
        BY <1>10
    <2>3. body[start + j] = GroupLines(groups[n])[j]
        <3>1. parts[n] = GroupLines(groups[n]) /\ Len(parts[n]) = extent
            BY <1>6, <2>1
        <3>2. j \in 1..Len(parts[n])
            BY <2>1, <3>1
        <3>3. body[offset[n] + j] = parts[n][j]
            BY <1>14, <3>2 DEF PartsStand
        <3> QED
            BY <2>2, <3>1, <3>3
    <2>4. from[n] = skip + start
        BY <1>11, <2>2
    <2>5. start + j \in 1..(last - skip)
        <3>1. from[n + 1] <= last /\ from[n + 1] = skip + start + extent
            BY <1>1, <1>2, <1>6, <2>1, <2>4, Counts
        <3>2. j \in 1..extent
            BY <2>1
        <3> QED
            BY <3>1, <3>2
    <2>6. all[skip + (start + j)] = body[start + j]
        BY <1>24, <2>5
    <2>7. skip + (start + j) = from[n] + j
        BY <2>1, <2>4
    <2> QED
        BY <2>3, <2>6, <2>7
<1>28. ASSUME NEW n \in 1..count, NEW i \in Nat
       PROVE  /\ OfPredecessor(from, n, i) =>
                    all[i] = PredecessorLine(groups[n].commit,
                                             groups[n].origin, TRUE)
              /\ OfGroup(from, n, i) =>
                    all[i] = PastManifestLine(groups[n].commit,
                                              groups[n].hash)
              /\ \A m \in 1..Len(groups[n].tokens) :
                    OfToken(from, n, m, i) =>
                        all[i] = TokenLines(groups[n])[m]
    <2>1. PICK group \in GroupSaid : group = groups[n]
        BY <1>6
    <2>2. PICK lead \in {1, 2} : lead = Lead(group)
        BY DEF Lead
    <2>3. PICK extent \in Nat : extent = Extent(group)
        BY <2>1, GroupTyping
    <2>4. lead <= extent /\ \A m \in 1..Len(group.tokens) : lead + m <= extent
        BY <2>1, <2>2, <2>3, GroupTyping
    <2>5. PICK start \in Nat : start = from[n]
        BY <1>6
    <2>6. \A j \in 1..extent : all[start + j] = GroupLines(group)[j]
        BY <1>27, <2>1, <2>3, <2>5
    <2>7. ASSUME OfPredecessor(from, n, i)
          PROVE  all[i] = PredecessorLine(groups[n].commit,
                                          groups[n].origin, TRUE)
        <3>1. group.origin # Absent /\ i = start + 1 /\ 1 \in 1..extent
            BY <2>1, <2>2, <2>4, <2>5, <2>7 DEF OfPredecessor
        <3>2. all[i] = GroupLines(group)[1]
            BY <2>6, <3>1
        <3> QED
            BY <2>1, <3>1, <3>2, GroupLinesAre
    <2>8. ASSUME OfGroup(from, n, i)
          PROVE  all[i] = PastManifestLine(groups[n].commit, groups[n].hash)
        <3>1. i = start + lead /\ lead \in 1..extent
            BY <2>1, <2>2, <2>4, <2>5, <2>8 DEF OfGroup
        <3>2. all[i] = GroupLines(group)[lead]
            BY <2>6, <3>1
        <3> QED
            BY <2>1, <2>2, <3>2, GroupLinesAre
    <2>9. ASSUME NEW m \in 1..Len(groups[n].tokens), OfToken(from, n, m, i)
          PROVE  all[i] = TokenLines(groups[n])[m]
        <3>1. PICK j : j = lead + m
            OBVIOUS
        <3>2. m \in 1..Len(group.tokens) /\ m \in Nat
            <4>1. Len(group.tokens) \in Nat
                BY <2>1, GroupTyping
            <4> QED
                BY <2>1, <4>1
        <3>3. i = start + lead + m
            BY <2>1, <2>2, <2>5, <2>9 DEF OfToken
        <3>4. j \in 1..extent /\ i = start + j
            BY <2>4, <3>1, <3>2, <3>3
        <3>5. all[i] = GroupLines(group)[j]
            BY <2>6, <3>4
        <3> QED
            BY <2>1, <2>2, <3>1, <3>2, <3>5, GroupLinesAre
    <2> QED
        BY <2>7, <2>8, <2>9
<1>29. ASSUME NEW m \in 1..Len(listed), NEW i \in Nat, OfEntry(from, m, i)
       PROVE  all[i] = EntryLines[m]
    <2>1. i = last + m
        BY <1>1, <1>2, <1>29 DEF OfEntry
    <2>2. m \in 1..Len(tail)
        BY <1>15, EntryLinesAre
    <2> QED
        BY <1>15, <1>24, <2>1, <2>2
<1> QED
    BY <1>1, <1>18, <1>23, <1>25, <1>26, <1>28, <1>29

\* What is written is the text exactly if the text is in order.
LEMMA ComparisonDecides ==
    ASSUME TextTypeOK, NEW from \in [1..(Len(groups) + 1) -> Nat],
           Layout(from), NoneTwice, announced = Absent
    PROVE  Serialized = lines <=> Spelled /\ TokensRise /\ EntriesRise
<1>1. DOMAIN lines = 1..Len(lines) /\ lines \in Seq(RecordLine)
      /\ Len(lines) \in Nat
    BY Counts DEF TextTypeOK
<1>2. Serialized \in Seq(WrittenLine) /\ Len(Serialized) = Len(lines)
    BY SerializedStands
<1>3. ASSUME NEW n \in 1..Len(groups)
      PROVE  /\ groups[n] \in GroupSaid
             /\ groups[n].tokens \in Seq(TokenSaid)
             /\ Len(groups[n].tokens) \in Nat
             /\ \A m \in 1..Len(groups[n].tokens) :
                   groups[n].tokens[m].site \in Nat
    <2>1. groups[n] \in GroupSaid
        BY Counts
    <2> QED
        BY <2>1, GroupTyping, TokenTyping
<1>4. ASSUME NEW m \in 1..Len(listed)
      PROVE  listed[m].path \in Nat /\ listed[m].content \in Nat
    BY ElementOfSeq, EntryTyping DEF TextTypeOK
<1>5. ASSUME NEW n \in 1..Len(groups), NEW m \in 1..Len(groups[n].tokens)
      PROVE  \E i \in Nat : OfToken(from, n, m, i)
    <2>1. from[n] \in Nat /\ Lead(groups[n]) \in Nat
        BY Counts DEF Lead
    <2>2. from[n] + Lead(groups[n]) + m \in Nat
        BY <2>1
    <2> QED
        BY <2>2 DEF OfToken
<1>6. ASSUME NEW m \in 1..Len(listed)
      PROVE  \E i \in Nat : OfEntry(from, m, i)
    <2>1. from[Len(groups) + 1] + m \in Nat
        BY Counts
    <2> QED
        BY <2>1 DEF OfEntry
<1>7. ASSUME Serialized = lines
      PROVE  Spelled /\ TokensRise /\ EntriesRise
    <2>1. ASSUME NEW i \in 1..Len(lines)
          PROVE  IsSpelledCanonically(lines[i])
        <3>1. lines[i].valid /\ i \in Nat
            BY <1>1, KindsTell
        <3>2. CASE lines[i].kind = "predecessor"
            <4>1. PICK n \in 1..Len(groups) : OfPredecessor(from, n, i)
                BY <3>2, KindsTell
            <4>2. Serialized[i] = PredecessorLine(groups[n].commit,
                                                  groups[n].origin, TRUE)
                <5>1. i \in Nat
                    BY <3>1
                <5> QED
                    BY <4>1, <5>1, SerializedStands
            <4>3. lines[i].canonical
                BY <1>7, <4>2 DEF PredecessorLine
            <4> QED
                BY <3>1, <4>3 DEF IsSpelledCanonically
        <3>3. CASE lines[i].kind = "entry"
            <4>1. PICK m \in 1..Len(listed) : OfEntry(from, m, i)
                BY <3>3, KindsTell
            <4>2. Serialized[i] = EntryLines[m]
                BY <3>1, <4>1, SerializedStands
            <4>5. EntryLines[m] = EntryLine(listed[SortOfEntries[m]].path,
                                            listed[SortOfEntries[m]].content,
                                            TRUE)
                BY EntryLinesAre
            <4>3. lines[i].canonical
                BY <1>7, <4>2, <4>5 DEF EntryLine
            <4> QED
                BY <3>1, <4>3 DEF IsSpelledCanonically
        <3> QED
            BY <3>1, <3>2, <3>3 DEF IsSpelledCanonically
    <2>2. ASSUME NEW n \in 1..Len(groups)
          PROVE  \A m \in 1..Len(groups[n].tokens) :
                     groups[n].tokens[SortOfTokens(groups[n].tokens)[m]].site
                         = groups[n].tokens[m].site
        <3> SUFFICES ASSUME NEW m \in 1..Len(groups[n].tokens)
                     PROVE  groups[n].tokens[SortOfTokens(
                                groups[n].tokens)[m]].site
                                = groups[n].tokens[m].site
            OBVIOUS
        <3>1. PICK i \in Nat : OfToken(from, n, m, i)
            BY <1>5
        <3>2. Serialized[i] = TokenLines(groups[n])[m]
            BY <3>1, SerializedStands
        <3>3. IsTokenOf(lines[i], groups[n].commit, groups[n].tokens[m])
            BY <3>1, ThingsStand
        <3>4. PICK k : k = SortOfTokens(groups[n].tokens)[m]
            OBVIOUS
        <3>5. IsTokenOf(TokenLines(groups[n])[m], groups[n].commit,
                        groups[n].tokens[k])
            BY <1>3, <3>4, TokenLinesAre
        <3>6. IsTokenOf(lines[i], groups[n].commit, groups[n].tokens[k])
            BY <1>7, <3>2, <3>5
        <3>7. groups[n].tokens[k].site = groups[n].tokens[m].site
            BY <3>3, <3>6 DEF IsTokenOf, PastTokenLine
        <3> QED
            BY <3>4, <3>7
    <2>3. ASSUME NEW n \in 1..Len(groups),
                 NEW m \in 1..Len(groups[n].tokens),
                 m < Len(groups[n].tokens)
          PROVE  groups[n].tokens[m].site < groups[n].tokens[m + 1].site
        <3>1. m + 1 \in 1..Len(groups[n].tokens) /\ m < m + 1 /\ m # m + 1
            BY <1>3, <2>3
        <3>2. PICK sort : sort = SortOfTokens(groups[n].tokens)
            OBVIOUS
        <3>3. ~(groups[n].tokens[sort[m + 1]].site
                    < groups[n].tokens[sort[m]].site)
            BY <1>3, <3>1, <3>2, TokensAreSorted
        <3>4. ~(groups[n].tokens[m + 1].site < groups[n].tokens[m].site)
            BY <2>2, <3>1, <3>2, <3>3
        <3>5. groups[n].tokens[m].site # groups[n].tokens[m + 1].site
            BY <3>1 DEF NoneTwice
        <3>6. /\ groups[n].tokens[m].site \in Nat
              /\ groups[n].tokens[m + 1].site \in Nat
            BY <1>3, <3>1
        <3> QED
            BY <3>4, <3>5, <3>6
    <2>4. ASSUME NEW m \in 1..Len(listed)
          PROVE  listed[SortOfEntries[m]].path = listed[m].path
                 /\ listed[SortOfEntries[m]].content = listed[m].content
        <3>1. PICK i \in Nat : OfEntry(from, m, i)
            BY <1>6
        <3>2. Serialized[i] = EntryLines[m]
            BY <3>1, SerializedStands
        <3>3. IsEntry(lines[i], listed[m])
            BY <3>1, ThingsStand
        <3>4. lines[i] = EntryLine(listed[SortOfEntries[m]].path,
                                   listed[SortOfEntries[m]].content, TRUE)
            BY <1>7, <3>2, EntryLinesAre
        <3> QED
            BY <3>3, <3>4 DEF IsEntry, EntryLine
    <2>5. ASSUME NEW m \in 1..Len(listed), m < Len(listed)
          PROVE  listed[m].path < listed[m + 1].path
        <3>1. m + 1 \in 1..Len(listed) /\ m < m + 1
            BY <2>5, Counts
        <3>2. ~EntryBelow(listed[SortOfEntries[m + 1]],
                          listed[SortOfEntries[m]])
            BY <3>1, EntriesAreSorted
        <3>3. ~(listed[m + 1].path < listed[m].path)
            BY <2>4, <3>1, <3>2 DEF EntryBelow
        <3>4. listed[m].path # listed[m + 1].path
            BY <2>5 DEF NoneTwice
        <3> QED
            BY <1>4, <3>1, <3>3, <3>4
    <2> QED
        BY <1>1, <2>1, <2>3, <2>5 DEF Spelled, TokensRise, EntriesRise
<1>8. ASSUME Spelled, TokensRise, EntriesRise
      PROVE  Serialized = lines
    <2>1. ASSUME NEW i \in 1..Len(lines)
          PROVE  Serialized[i] = lines[i]
        <3>0. i \in Nat /\ IsSpelledCanonically(lines[i])
            BY <1>1, <1>8 DEF Spelled
        <3>1. CASE i = 1 /\ parents # <<>>
            BY <3>1, SerializedStands, ThingsStand
        <3>2. ASSUME NEW n \in 1..Len(groups), OfPredecessor(from, n, i)
              PROVE  Serialized[i] = lines[i]
            <4>1. IsPredecessor(lines[i], groups[n].commit, groups[n].origin)
                BY <3>0, <3>2, ThingsStand
            <4>2. PICK canonical \in BOOLEAN :
                      lines[i] = PredecessorLine(groups[n].commit,
                                                 groups[n].origin, canonical)
                BY <4>1 DEF IsPredecessor
            <4>3. canonical = TRUE
                BY <3>0, <4>2 DEF IsSpelledCanonically, PredecessorLine
            <4> QED
                BY <3>0, <3>2, <4>2, <4>3, SerializedStands
        <3>3. ASSUME NEW n \in 1..Len(groups), OfGroup(from, n, i)
              PROVE  Serialized[i] = lines[i]
            <4>1. lines[i] = PastManifestLine(groups[n].commit,
                                              groups[n].hash)
                BY <3>0, <3>3, ThingsStand
            <4> QED
                BY <3>0, <3>3, <4>1, SerializedStands
        <3>4. ASSUME NEW n \in 1..Len(groups),
                     NEW m \in 1..Len(groups[n].tokens),
                     OfToken(from, n, m, i)
              PROVE  Serialized[i] = lines[i]
            <4>1. IsTokenOf(lines[i], groups[n].commit, groups[n].tokens[m])
                BY <3>0, <3>4, ThingsStand
            <4>2. SortOfTokens(groups[n].tokens)[m] = m
                <5>1. \A k \in 1..Len(groups[n].tokens) :
                          k < Len(groups[n].tokens) =>
                              groups[n].tokens[k].site
                                  < groups[n].tokens[k + 1].site
                    BY <1>8 DEF TokensRise
                <5> QED
                    BY <1>3, <5>1, TokensAreSorted
            <4>3. IsTokenOf(TokenLines(groups[n])[m], groups[n].commit,
                            groups[n].tokens[m])
                BY <1>3, <4>2, TokenLinesAre
            <4>4. Serialized[i] = TokenLines(groups[n])[m]
                BY <3>0, <3>4, SerializedStands
            <4> QED
                BY <4>1, <4>3, <4>4 DEF IsTokenOf
        <3>5. ASSUME NEW m \in 1..Len(listed), OfEntry(from, m, i)
              PROVE  Serialized[i] = lines[i]
            <4>1. IsEntry(lines[i], listed[m])
                BY <3>0, <3>5, ThingsStand
            <4>2. PICK canonical \in BOOLEAN :
                      lines[i] = EntryLine(listed[m].path, listed[m].content,
                                           canonical)
                BY <4>1 DEF IsEntry
            <4>3. canonical = TRUE
                BY <3>0, <4>2 DEF IsSpelledCanonically, EntryLine
            <4>4. SortOfEntries[m] = m
                BY <1>8, EntriesAreSorted
            <4>5. EntryLines[m] = EntryLine(listed[m].path,
                                            listed[m].content, TRUE)
                BY <4>4, EntryLinesAre
            <4> QED
                BY <3>0, <3>5, <4>2, <4>3, <4>5, SerializedStands
        <3> QED
            BY <3>1, <3>2, <3>3, <3>4, <3>5, LinesAreThings
    <2>2. PICK all \in Seq(WrittenLine) : all = Serialized
        BY <1>2
    <2>3. Len(all) = Len(lines) /\ \A i \in 1..Len(lines) : all[i] = lines[i]
        BY <1>2, <2>1, <2>2
    <2>4. all = lines
        BY <1>1, <2>3, SeqEqual
    <2> QED
        BY <2>2, <2>4
<1> QED
    BY <1>7, <1>8

SaysWhatIsRead ==
    /\ parents = IF At(1, "parents") THEN lines[1].hashes ELSE <<>>
    /\ \E at \in Places(groups, "past-manifest") :
          \A n \in DOMAIN groups : SaysGroup(at[n], groups[n])
    /\ \E at \in Places(listed, "entry") :
          \A n \in DOMAIN listed : SaysEntry(at[n], listed[n])

\* What was read is what the lines say, where they stand.
LEMMA LayoutSaysWhatIsRead ==
    ASSUME TextTypeOK, NEW from \in [1..(Len(groups) + 1) -> Nat],
           Layout(from)
    PROVE  SaysWhatIsRead
<1>1. DOMAIN lines = 1..Len(lines) /\ Len(lines) \in Nat
    BY Counts DEF TextTypeOK
<1>2. PICK count \in Nat : count = Len(groups)
    BY Counts
<1>3. DOMAIN groups = 1..count
    BY <1>2 DEF TextTypeOK
<1>4. parents = IF At(1, "parents") THEN lines[1].hashes ELSE <<>>
    <2>1. CASE parents # <<>>
        <3>1. 1 \in 1..Len(lines) /\ lines[1] = ParentsLine(parents)
            BY <2>1, ThingsStand
        <3> QED
            BY <1>1, <3>1 DEF At, ParentsLine
    <2>2. CASE parents = <<>>
        <3>1. ~At(1, "parents")
            BY <1>1, <2>2, KindsTell DEF At
        <3> QED
            BY <2>2, <3>1
    <2> QED
        BY <2>1, <2>2
<1>5. \E at \in Places(groups, "past-manifest") :
          \A n \in DOMAIN groups : SaysGroup(at[n], groups[n])
    <2>1. PICK at : at = [n \in 1..count |-> from[n] + Lead(groups[n])]
        OBVIOUS
    <2>2. ASSUME NEW n \in 1..count
          PROVE  at[n] \in Nat /\ OfGroup(from, n, at[n])
        <3>1. from[n] \in Nat /\ Lead(groups[n]) \in Nat
            BY <1>2, Counts DEF Lead
        <3>2. at[n] = from[n] + Lead(groups[n])
            BY <2>1
        <3> QED
            BY <3>1, <3>2 DEF OfGroup
    <2>3. ASSUME NEW n \in 1..count
          PROVE  /\ at[n] \in 1..Len(lines)
                 /\ lines[at[n]] = PastManifestLine(groups[n].commit,
                                                    groups[n].hash)
        BY <1>2, <2>2, ThingsStand
    <2>4. ASSUME NEW n \in 1..count
          PROVE  at[n] \in Positions("past-manifest")
        <3>1. lines[at[n]].kind = "past-manifest"
            <4>1. PICK line : line = lines[at[n]]
                OBVIOUS
            <4>2. line = PastManifestLine(groups[n].commit, groups[n].hash)
                BY <2>3, <4>1
            <4> QED
                BY <4>1, <4>2 DEF PastManifestLine
        <3> QED
            BY <1>1, <2>3, <3>1 DEF Positions
    <2>5. at \in [DOMAIN groups -> Positions("past-manifest")]
        BY <1>3, <2>1, <2>4
    <2>6. Range(at) = Positions("past-manifest")
        <3>1. ASSUME NEW i \in Positions("past-manifest")
              PROVE  \E n \in 1..count : i = at[n]
            <4>1. i \in 1..Len(lines) /\ lines[i].kind = "past-manifest"
                BY <1>1 DEF Positions
            <4>2. PICK n \in 1..count : OfGroup(from, n, i)
                BY <1>2, <4>1, KindsTell
            <4>3. i = at[n]
                BY <2>1, <4>2 DEF OfGroup
            <4> QED
                BY <4>3
        <3>2. Range(at) = {at[n] : n \in 1..count}
            BY <2>1 DEF Range
        <3> QED
            BY <2>4, <3>1, <3>2
    <2>7. ASSUME NEW m \in DOMAIN groups, NEW n \in DOMAIN groups, m < n
          PROVE  at[m] < at[n]
        <3>1. m \in 1..count /\ n \in 1..count
            BY <1>3
        <3>2. at[m] <= from[m + 1] /\ from[n] < at[n]
            BY <1>2, <2>2, <3>1, WithinTheGroup
        <3>3. from[m + 1] <= from[n]
            <4>1. /\ m + 1 \in 1..(Len(groups) + 1)
                  /\ n \in 1..(Len(groups) + 1) /\ m + 1 <= n
                BY <1>2, <2>7, <3>1
            <4> QED
                BY <4>1, OffsetsRise
        <3>4. from[m + 1] \in Nat /\ from[n] \in Nat
              /\ at[m] \in Nat /\ at[n] \in Nat
            BY <1>2, <2>2, <3>1, Counts
        <3> QED
            BY <3>2, <3>3, <3>4
    <2>8. at \in Places(groups, "past-manifest")
        BY <2>5, <2>6, <2>7 DEF Places
    <2>9. ASSUME NEW n \in DOMAIN groups
          PROVE  SaysGroup(at[n], groups[n])
        <3>1. n \in 1..count /\ n \in 1..Len(groups)
            BY <1>2, <1>3
        <3>2. PICK group \in GroupSaid : group = groups[n]
            BY <3>1, Counts
        <3>3. PICK i \in Nat : i = at[n]
            BY <2>2, <3>1
        <3>4. OfGroup(from, n, i)
            BY <2>2, <3>1, <3>3
        <3>5. /\ lines[i].commit = group.commit /\ lines[i].hash = group.hash
              /\ Origin(i) = group.origin
            <4>1. lines[i] = PastManifestLine(group.commit, group.hash)
                BY <2>3, <3>1, <3>2, <3>3
            <4> QED
                BY <3>1, <3>2, <3>4, <4>1, AroundAGroup DEF PastManifestLine
        <3>6. group = [commit |-> lines[i].commit, hash |-> lines[i].hash,
                       tokens |-> group.tokens, origin |-> Origin(i)]
            BY <3>5 DEF GroupSaid
        <3>7. PICK length \in Nat : length = Len(group.tokens)
            BY GroupTyping
        <3>8. DOMAIN group.tokens = 1..length
            BY <3>7, GroupTyping
        <3>9. ASSUME NEW m \in 1..length
              PROVE  /\ At(i + m, "past-token")
                     /\ group.tokens[m] = [site |-> lines[i + m].site,
                                           hash |-> lines[i + m].hash]
            <4>1. OfToken(from, n, m, i + m) /\ i + m \in Nat
                  /\ m \in 1..Len(groups[n].tokens)
                BY <3>2, <3>4, <3>7 DEF OfGroup, OfToken
            <4>2. /\ i + m \in 1..Len(lines)
                  /\ IsTokenOf(lines[i + m], group.commit, group.tokens[m])
                BY <3>1, <3>2, <4>1, ThingsStand
            <4>3. group.tokens[m] = [site |-> group.tokens[m].site,
                                     hash |-> group.tokens[m].hash]
                <5>1. group.tokens[m] \in TokenSaid
                    BY <3>7, GroupTyping
                <5> QED
                    BY <5>1, TokenTyping
            <4> QED
                BY <1>1, <4>2, <4>3 DEF At, IsTokenOf, PastTokenLine
        <3>10. i + length = from[n + 1]
            <4>1. from[n + 1] = from[n] + Extent(group) /\ from[n] \in Nat
                BY <3>1, <3>2, Counts
            <4>2. Extent(group) = Lead(group) + length
                  /\ Lead(group) \in {1, 2}
                BY <3>7 DEF Extent, Lead
            <4>3. i = from[n] + Lead(group)
                BY <3>2, <3>4 DEF OfGroup
            <4> QED
                BY <3>7, <4>1, <4>2, <4>3
        <3>11. ~At(i + length + 1, "past-token")
            <4>1. i + length + 1 = from[n + 1] + 1
                BY <3>10
            <4> QED
                BY <3>1, <4>1, AroundAGroup
        <3> QED
            BY <3>2, <3>3, <3>6, <3>7, <3>8, <3>9, <3>11 DEF SaysGroup
    <2> QED
        BY <2>8, <2>9
<1>6. \E at \in Places(listed, "entry") :
          \A n \in DOMAIN listed : SaysEntry(at[n], listed[n])
    <2>1. PICK size \in Nat : size = Len(listed)
        BY Counts
    <2>2. PICK last \in Nat : last = from[Len(groups) + 1]
        BY Counts
    <2>3. DOMAIN listed = 1..size
        BY <2>1 DEF TextTypeOK
    <2>4. PICK at : at = [m \in 1..size |-> last + m]
        OBVIOUS
    <2>5. ASSUME NEW m \in 1..size
          PROVE  /\ at[m] \in Nat /\ OfEntry(from, m, at[m])
                 /\ at[m] \in 1..Len(lines) /\ IsEntry(lines[at[m]], listed[m])
        <3>1. at[m] = last + m /\ at[m] \in Nat
            BY <2>4
        <3>2. OfEntry(from, m, at[m])
            BY <2>2, <3>1 DEF OfEntry
        <3> QED
            BY <2>1, <3>1, <3>2, ThingsStand
    <2>6. ASSUME NEW m \in 1..size
          PROVE  at[m] \in Positions("entry")
        <3>1. lines[at[m]].kind = "entry"
            <4>1. PICK line : line = lines[at[m]]
                OBVIOUS
            <4>2. IsEntry(line, listed[m])
                BY <2>5, <4>1
            <4> QED
                BY <4>1, <4>2 DEF IsEntry, EntryLine
        <3> QED
            BY <1>1, <2>5, <3>1 DEF Positions
    <2>7. at \in [DOMAIN listed -> Positions("entry")]
        BY <2>3, <2>4, <2>6
    <2>8. Range(at) = Positions("entry")
        <3>1. ASSUME NEW i \in Positions("entry")
              PROVE  \E m \in 1..size : i = at[m]
            <4>1. i \in 1..Len(lines) /\ lines[i].kind = "entry"
                BY <1>1 DEF Positions
            <4>2. PICK m \in 1..size : OfEntry(from, m, i)
                BY <2>1, <4>1, KindsTell
            <4>3. i = at[m]
                BY <2>2, <2>4, <4>2 DEF OfEntry
            <4> QED
                BY <4>3
        <3>2. Range(at) = {at[m] : m \in 1..size}
            BY <2>4 DEF Range
        <3> QED
            BY <2>6, <3>1, <3>2
    <2>9. ASSUME NEW m \in DOMAIN listed, NEW n \in DOMAIN listed, m < n
          PROVE  at[m] < at[n]
        BY <2>3, <2>4, <2>9
    <2>10. at \in Places(listed, "entry")
        BY <2>7, <2>8, <2>9 DEF Places
    <2>11. ASSUME NEW m \in DOMAIN listed
           PROVE  SaysEntry(at[m], listed[m])
        <3>1. m \in 1..size /\ m \in 1..Len(listed)
            BY <2>1, <2>3
        <3>2. listed[m] = [path |-> listed[m].path,
                           content |-> listed[m].content]
            BY <3>1, ElementOfSeq, EntryTyping DEF TextTypeOK
        <3>3. IsEntry(lines[at[m]], listed[m])
            BY <2>5, <3>1
        <3> QED
            BY <3>2, <3>3 DEF IsEntry, EntryLine, SaysEntry
    <2> QED
        BY <2>10, <2>11
<1> QED
    BY <1>4, <1>5, <1>6 DEF SaysWhatIsRead

-----------------------------------------------------------------------------
\* What a line has that is read without a fault.
LEMMA NoFault ==
    ASSUME NEW line \in RecordLine, RecordFault(line) = "none"
    PROVE  /\ section \in FollowsOn(line.kind) /\ line.valid
           /\ line.kind = "past-manifest" =>
                 ~RepeatsBinding(line) /\ ~NotAsAnnounced(line)
           /\ line.kind = "past-token" =>
                 ~OfAnotherGroup(line) /\ ~RepeatsToken(line)
           /\ line.kind = "entry" => ~RepeatsPath(line)
<1>1. section \in FollowsOn(line.kind) /\ line.valid
      /\ FieldFault(line) = "none"
    BY DEF RecordFault
<1> QED
    BY <1>1 DEF FieldFault

\* A line is read below the others, which stay.
LEMMA ReadsOneMore ==
    ASSUME TextTypeOK, NEW line \in RecordLine, ReadsRecord(line)
    PROVE  /\ lines' \in Seq(RecordLine)
           /\ Len(lines) \in Nat /\ Len(lines') = Len(lines) + 1
           /\ \A i \in 1..Len(lines) : lines'[i] = lines[i]
           /\ lines'[Len(lines) + 1] = line
<1>1. lines' = Append(lines, line)
    BY DEF ReadsRecord
<1> QED
    BY <1>1 DEF TextTypeOK

\* The groups still stand where they stood in a text that goes on.
LEMMA GroupsStandOn ==
    ASSUME TextTypeOK, NEW from \in [1..(Len(groups) + 1) -> Nat],
           Layout(from), NEW page, \A i \in 1..Len(lines) : page[i] = lines[i]
    PROVE  \A n \in 1..Len(groups) : GroupStands(page, groups[n], from[n])
<1> SUFFICES ASSUME NEW n \in 1..Len(groups)
             PROVE  GroupStands(page, groups[n], from[n])
    OBVIOUS
<1>1. PICK size \in Nat : size = Len(lines)
    BY Counts
<1>2. from[n] + Extent(groups[n]) <= size
    <2>1. /\ from[n + 1] = from[n] + Extent(groups[n])
          /\ from[n + 1] <= from[Len(groups) + 1]
          /\ from[n] \in Nat /\ Extent(groups[n]) \in Nat
          /\ from[Len(groups) + 1] \in Nat
        BY Counts
    <2>2. from[Len(groups) + 1] <= size
        BY <1>1, Counts
    <2> QED
        BY <1>1, <2>1, <2>2
<1>3. GroupStands(lines, groups[n], from[n])
    BY DEF Layout
<1>4. groups[n] \in GroupSaid /\ from[n] \in Nat
    BY Counts
<1> QED
    BY <1>1, <1>2, <1>3, <1>4, GroupStandsOn

\* A line that is no group and no token leaves the groups where they stand.
LEMMA LaidOutStill ==
    ASSUME TextTypeOK, NEW from \in [1..(Len(groups) + 1) -> Nat],
           Layout(from), NEW line \in RecordLine, ReadsRecord(line),
           groups' = groups
    PROVE  /\ \A n \in 1..Len(groups') :
                 from[n + 1] = from[n] + Extent(groups'[n])
           /\ \A n \in 1..Len(groups') :
                 GroupStands(lines', groups'[n], from[n])
           /\ from \in [1..(Len(groups') + 1) -> Nat]
<1>1. PICK page : page = lines'
    OBVIOUS
<1>2. \A i \in 1..Len(lines) : page[i] = lines[i]
    BY <1>1, ReadsOneMore
<1>3. \A n \in 1..Len(groups) : GroupStands(page, groups[n], from[n])
    BY <1>2, GroupsStandOn
<1>4. \A n \in 1..Len(groups) : from[n + 1] = from[n] + Extent(groups[n])
    BY DEF Layout
<1> QED
    BY <1>1, <1>3, <1>4

\* The parents are read into the first line.
LEMMA ReadParentsStep ==
    ASSUME TextInv, NEW line \in RecordLine, ReadParents(line)
    PROVE  TextInv'
<1>1. /\ ReadsRecord(line) /\ line.kind = "parents"
      /\ RecordFault(line) = "none" /\ section' = "parents"
      /\ parents' = line.hashes
      /\ announced' = announced /\ groups' = groups /\ listed' = listed
    BY DEF ReadParents, TakesRecord, SectionOf
<1>2. TextTypeOK /\ Sections /\ NoneTwice
    BY DEF TextInv
<1>3. section = "start"
    BY <1>1, NoFault DEF FollowsOn
<1>4. /\ lines = <<>> /\ parents = <<>> /\ groups = <<>>
      /\ listed = <<>> /\ announced = Absent
    BY <1>2, <1>3 DEF Sections
<1>5. line = ParentsLine(line.hashes) /\ line.hashes # <<>>
    BY <1>1, LineHasItsFields, NoFault
<1>6. Len(lines) = 0 /\ Len(groups) = 0 /\ Len(listed) = 0
    BY <1>4
<1>7. Len(lines') = 1 /\ lines'[1] = line /\ lines' \in Seq(RecordLine)
    BY <1>1, <1>2, <1>6, ReadsOneMore
<1>8. TextTypeOK'
    BY <1>1, <1>2, <1>7 DEF TextTypeOK
<1>9. LaidOut'
    <2>1. PICK from : from = [n \in 1..1 |-> 1]
        OBVIOUS
    <2>2. from \in [1..(Len(groups') + 1) -> Nat] /\ from[1] = 1
        BY <1>1, <1>6, <2>1
    <2>3. ParentsFirst' = 1 /\ Ahead' = 0
        BY <1>1, <1>4, <1>5 DEF ParentsFirst, Ahead
    <2>4. Layout(from)'
        <3>1. 1..Len(groups') = {} /\ 1..Len(listed') = {}
              /\ Len(groups') + 1 = 1
            BY <1>1, <1>6
        <3>2. (from[1] = ParentsFirst)'
            BY <2>2, <2>3
        <3>3. (Len(lines) = from[Len(groups) + 1] + Ahead + Len(listed))'
            BY <1>1, <1>6, <1>7, <2>2, <2>3, <3>1
        <3>4. (lines[1] = ParentsLine(parents))'
            BY <1>1, <1>5, <1>7
        <3>5. announced' = Absent
            BY <1>1, <1>4
        <3> QED
            BY <3>1, <3>2, <3>3, <3>4, <3>5 DEF Layout
    <2> QED
        BY <2>2, <2>4 DEF LaidOut
<1>10. Sections'
    BY <1>1, <1>4, <1>5 DEF Sections
<1>11. NoneTwice'
    BY <1>1, <1>2 DEF NoneTwice
<1> QED
    BY <1>8, <1>9, <1>10, <1>11 DEF TextInv

\* A predecessor is read, and its group is pending.
LEMMA ReadPredecessorStep ==
    ASSUME TextInv, NEW line \in RecordLine, ReadPredecessor(line)
    PROVE  TextInv'
<1>1. /\ ReadsRecord(line) /\ line.kind = "predecessor"
      /\ RecordFault(line) = "none" /\ section' = "announced"
      /\ announced' = [commit |-> line.commit, origin |-> line.origin,
                       at |-> Len(lines) + 2]
      /\ parents' = parents /\ groups' = groups /\ listed' = listed
    BY DEF ReadPredecessor, TakesRecord, SectionOf
<1>2. TextTypeOK /\ Sections /\ NoneTwice
    BY DEF TextInv
<1>3. section \in {"start", "parents", "group"}
    BY <1>1, NoFault DEF FollowsOn
<1>4. listed = <<>> /\ announced = Absent
    BY <1>2, <1>3 DEF Sections
<1>5. IsPredecessor(line, line.commit, line.origin) /\ line.origin # Absent
    BY <1>1, LineHasItsFields, NoFault DEF IsPredecessor
<1>6. PICK from \in [1..(Len(groups) + 1) -> Nat] : Layout(from)
    BY DEF TextInv, LaidOut
<1>7. PICK size \in Nat : size = Len(lines)
    BY <1>2, <1>6, Counts
<1>8. Len(listed) = 0 /\ size = from[Len(groups) + 1]
    <2>1. Len(listed) = 0
        BY <1>4
    <2>2. Ahead = 0 /\ size = from[Len(groups) + 1] + Ahead + Len(listed)
          /\ from[Len(groups) + 1] \in Nat
        BY <1>2, <1>4, <1>6, <1>7, Counts
    <2> QED
        BY <2>1, <2>2
<1>9. /\ Len(lines') = size + 1 /\ lines'[size + 1] = line
      /\ lines' \in Seq(RecordLine)
      /\ \A i \in 1..size : lines'[i] = lines[i]
    BY <1>1, <1>2, <1>7, ReadsOneMore
<1>10. announced' # Absent
    <2>1. /\ announced'.commit = line.commit /\ announced'.origin = line.origin
          /\ announced' \in [commit : {line.commit}, origin : {line.origin},
                             at : Nat]
        <3>1. Len(lines) + 2 \in Nat
            BY <1>7
        <3> QED
            BY <1>1, <3>1
    <2>2. line.valid
        BY <1>1, NoFault
    <2> QED
        BY <1>1, <2>1, <2>2, ManifestAssumption
<1>11. TextTypeOK'
    BY <1>1, <1>2, <1>9 DEF TextTypeOK
<1>12. Layout(from)'
    <2>1. /\ \A n \in 1..Len(groups') :
                from[n + 1] = from[n] + Extent(groups'[n])
          /\ \A n \in 1..Len(groups') :
                GroupStands(lines', groups'[n], from[n])
        BY <1>1, <1>2, <1>6, LaidOutStill
    <2>2. from[1] = ParentsFirst'
        BY <1>1, <1>6 DEF Layout, ParentsFirst
    <2>3. Len(lines') = from[Len(groups') + 1] + Ahead' + Len(listed')
        <3>1. Ahead' = 1
            BY <1>10 DEF Ahead
        <3>2. Len(listed') = 0 /\ from[Len(groups') + 1] = size
            BY <1>1, <1>8
        <3> QED
            BY <1>9, <3>1, <3>2
    <2>4. parents' # <<>> => lines'[1] = ParentsLine(parents')
        <3> SUFFICES ASSUME parents # <<>>
                     PROVE  lines'[1] = ParentsLine(parents)
            BY <1>1
        <3>1. 1 \in 1..size /\ lines[1] = ParentsLine(parents)
            BY <1>2, <1>6, <1>7, ThingsStand
        <3> QED
            BY <1>9, <3>1
    <2>5. /\ IsPredecessor(lines'[Len(lines')], announced'.commit,
                           announced'.origin)
          /\ announced'.origin \in {l.origin : l \in RecordLine}
          /\ announced'.origin # Absent
          /\ listed' = <<>>
        BY <1>1, <1>4, <1>5, <1>9
    <2>6. \A m \in 1..Len(listed') :
              IsEntry(lines'[from[Len(groups') + 1] + m], listed'[m])
        BY <1>1, <1>8
    <2> QED
        BY <2>1, <2>2, <2>3, <2>4, <2>5, <2>6 DEF Layout
<1>13. LaidOut'
    <2>1. from \in [1..(Len(groups') + 1) -> Nat]
        BY <1>1
    <2> QED
        BY <1>12, <2>1 DEF LaidOut
<1>14. Sections'
    BY <1>1, <1>4, <1>10 DEF Sections
<1>15. NoneTwice'
    BY <1>1, <1>2 DEF NoneTwice
<1> QED
    BY <1>11, <1>13, <1>14, <1>15 DEF TextInv

\* An entry is read below the entry whose path it does not repeat.
LEMMA ReadEntryStep ==
    ASSUME TextInv, NEW line \in RecordLine, ReadEntry(line)
    PROVE  TextInv'
<1>1. /\ ReadsRecord(line) /\ line.kind = "entry"
      /\ RecordFault(line) = "none" /\ section' = "entries"
      /\ listed' = Append(listed, [path |-> line.path,
                                   content |-> line.content])
      /\ announced' = announced /\ parents' = parents /\ groups' = groups
    BY DEF ReadEntry, TakesRecord, SectionOf
<1>2. TextTypeOK /\ Sections /\ NoneTwice
    BY DEF TextInv
<1>3. section \in {"start", "parents", "group", "entries"}
    BY <1>1, NoFault DEF FollowsOn
<1>4. announced = Absent
    BY <1>2, <1>3 DEF Sections
<1>5. PICK entry \in EntrySaid :
          entry = [path |-> line.path, content |-> line.content]
    <2>1. line.valid
        BY <1>1, NoFault
    <2> QED
        BY <1>1, <2>1 DEF EntrySaid
<1>6. IsEntry(line, entry)
    BY <1>1, <1>5, LineHasItsFields, NoFault DEF IsEntry
<1>7. PICK from \in [1..(Len(groups) + 1) -> Nat] : Layout(from)
    BY DEF TextInv, LaidOut
<1>8. PICK size \in Nat : size = Len(lines)
    BY <1>2, <1>7, Counts
<1>9. PICK many \in Nat : many = Len(listed)
    BY <1>2, <1>7, Counts
<1>10. PICK last \in Nat : last = from[Len(groups) + 1]
    BY <1>2, <1>7, Counts
<1>11. size = last + many /\ Ahead = 0
    <2>1. Ahead = 0 /\ size = last + Ahead + many
        BY <1>2, <1>4, <1>7, <1>8, <1>9, <1>10, Counts
    <2> QED
        BY <2>1
<1>12. /\ Len(lines') = size + 1 /\ lines'[size + 1] = line
       /\ lines' \in Seq(RecordLine)
       /\ \A i \in 1..size : lines'[i] = lines[i]
    BY <1>1, <1>2, <1>8, ReadsOneMore
<1>13. /\ listed' \in Seq(EntrySaid) /\ Len(listed') = many + 1
       /\ listed'[many + 1] = entry
       /\ \A m \in 1..many : listed'[m] = listed[m]
    BY <1>1, <1>2, <1>5, <1>9 DEF TextTypeOK
<1>14. TextTypeOK'
    BY <1>1, <1>2, <1>12, <1>13 DEF TextTypeOK
<1>15. Layout(from)'
    <2>1. /\ \A n \in 1..Len(groups') :
                from[n + 1] = from[n] + Extent(groups'[n])
          /\ \A n \in 1..Len(groups') :
                GroupStands(lines', groups'[n], from[n])
        BY <1>1, <1>2, <1>7, LaidOutStill
    <2>2. from[1] = ParentsFirst'
        BY <1>1, <1>7 DEF Layout, ParentsFirst
    <2>3. Len(lines') = from[Len(groups') + 1] + Ahead' + Len(listed')
        <3>1. Ahead' = 0 /\ from[Len(groups') + 1] = last
            BY <1>1, <1>4, <1>10 DEF Ahead
        <3> QED
            BY <1>11, <1>12, <1>13, <3>1
    <2>4. parents' # <<>> => lines'[1] = ParentsLine(parents')
        <3> SUFFICES ASSUME parents # <<>>
                     PROVE  lines'[1] = ParentsLine(parents)
            BY <1>1
        <3>1. 1 \in 1..size /\ lines[1] = ParentsLine(parents)
            BY <1>2, <1>7, <1>8, ThingsStand
        <3> QED
            BY <1>12, <3>1
    <2>5. announced' = Absent
        BY <1>1, <1>4
    <2>6. ASSUME NEW m \in 1..Len(listed')
          PROVE  IsEntry(lines'[from[Len(groups') + 1] + m], listed'[m])
        <3>1. CASE m = many + 1
            <4>1. last + m = size + 1
                BY <1>11, <3>1
            <4> QED
                BY <1>1, <1>6, <1>10, <1>12, <1>13, <3>1, <4>1
        <3>2. CASE m # many + 1
            <4>1. m \in 1..many /\ last + m \in 1..size
                BY <1>11, <1>13, <3>2
            <4>2. IsEntry(lines[last + m], listed[m])
                BY <1>7, <1>9, <1>10, <4>1 DEF Layout
            <4> QED
                BY <1>1, <1>10, <1>12, <1>13, <4>1, <4>2
        <3> QED
            BY <3>1, <3>2
    <2> QED
        BY <2>1, <2>2, <2>3, <2>4, <2>5, <2>6 DEF Layout
<1>16. LaidOut'
    <2>1. from \in [1..(Len(groups') + 1) -> Nat]
        BY <1>1
    <2> QED
        BY <1>15, <2>1 DEF LaidOut
<1>17. Sections'
    <2>1. listed' # <<>>
        <3>1. Len(<<>>) = 0
            OBVIOUS
        <3> QED
            BY <1>13, <3>1
    <2> QED
        BY <1>1, <1>4, <2>1 DEF Sections
<1>18. NoneTwice'
    <2>1. ASSUME NEW m \in 1..Len(listed'), m < Len(listed')
          PROVE  listed'[m].path # listed'[m + 1].path
        <3>1. m \in 1..many
            BY <1>13, <2>1
        <3>2. CASE m = many
            <4>1. listed # <<>>
                BY <1>9, <3>1, <3>2
            <4>2. Last(listed) = listed[m]
                BY <1>9, <3>2 DEF Last
            <4>3. ~RepeatsPath(line)
                BY <1>1, NoFault
            <4>4. listed[m].path # line.path
                BY <4>1, <4>2, <4>3 DEF RepeatsPath
            <4> QED
                BY <1>5, <1>13, <3>1, <3>2, <4>4
        <3>3. CASE m # many
            <4>1. m + 1 \in 1..many /\ m < Len(listed)
                BY <1>9, <3>1, <3>3
            <4>2. listed[m].path # listed[m + 1].path
                BY <1>2, <1>9, <3>1, <4>1 DEF NoneTwice
            <4> QED
                BY <1>13, <3>1, <4>1, <4>2
        <3> QED
            BY <3>2, <3>3
    <2> QED
        BY <1>1, <1>2, <2>1 DEF NoneTwice
<1> QED
    BY <1>14, <1>16, <1>17, <1>18 DEF TextInv

\* A group opens, below its predecessor if one is pending.
LEMMA ReadPastManifestStep ==
    ASSUME TextInv, NEW line \in RecordLine, ReadPastManifest(line)
    PROVE  TextInv'
<1>1. /\ ReadsRecord(line) /\ line.kind = "past-manifest"
      /\ RecordFault(line) = "none" /\ section' = "group"
      /\ groups' = Append(groups,
             [commit |-> line.commit, hash |-> line.hash, tokens |-> <<>>,
              origin |-> IF announced = Absent THEN Absent
                         ELSE announced.origin])
      /\ announced' = Absent /\ parents' = parents /\ listed' = listed
    BY DEF ReadPastManifest, TakesRecord, SectionOf
<1>2. TextTypeOK /\ Sections /\ NoneTwice
    BY DEF TextInv
<1>3. section \in {"start", "parents", "announced", "group"}
    BY <1>1, NoFault DEF FollowsOn
<1>4. listed = <<>>
    BY <1>2, <1>3 DEF Sections
<1>5. PICK from \in [1..(Len(groups) + 1) -> Nat] : Layout(from)
    BY DEF TextInv, LaidOut
<1>6. PICK group :
          group = [commit |-> line.commit, hash |-> line.hash,
                   tokens |-> <<>>,
                   origin |-> IF announced = Absent THEN Absent
                              ELSE announced.origin]
    OBVIOUS
<1>7. group \in GroupSaid
    <2>1. announced # Absent =>
              announced.origin \in {l.origin : l \in RecordLine}
        BY <1>5 DEF Layout
    <2>2. line.commit \in {l.commit : l \in RecordLine}
          /\ line.hash \in {l.hash : l \in RecordLine}
        OBVIOUS
    <2>3. <<>> \in Seq(TokenSaid)
        OBVIOUS
    <2> QED
        BY <1>6, <2>1, <2>2, <2>3 DEF GroupSaid
<1>8. PICK count \in Nat : count = Len(groups)
    BY <1>2, <1>5, Counts
<1>9. PICK size \in Nat : size = Len(lines)
    BY <1>2, <1>5, Counts
<1>10. PICK last \in Nat : last = from[count + 1]
    BY <1>2, <1>5, <1>8, Counts
<1>11. Len(listed) = 0 /\ size = last + Ahead /\ Ahead \in {0, 1}
    <2>1. Len(listed) = 0
        BY <1>4
    <2>2. Ahead \in {0, 1} /\ size = last + Ahead + Len(listed)
        BY <1>2, <1>5, <1>8, <1>9, <1>10, Counts
    <2> QED
        BY <2>1, <2>2
<1>12. Lead(group) = 1 + Ahead
    <2>1. announced # Absent => announced.origin # Absent
        BY <1>5 DEF Layout
    <2> QED
        BY <1>6, <2>1 DEF Lead, Ahead
<1>13. Len(group.tokens) = 0 /\ Extent(group) = 1 + Ahead
    <2>1. Len(group.tokens) = 0
        BY <1>6
    <2> QED
        BY <1>11, <1>12, <2>1 DEF Extent
<1>14. /\ Len(lines') = size + 1 /\ lines'[size + 1] = line
       /\ lines' \in Seq(RecordLine)
       /\ \A i \in 1..size : lines'[i] = lines[i]
    BY <1>1, <1>2, <1>9, ReadsOneMore
<1>15. /\ groups' \in Seq(GroupSaid) /\ Len(groups') = count + 1
       /\ groups'[count + 1] = group
       /\ \A n \in 1..count : groups'[n] = groups[n]
    BY <1>1, <1>2, <1>6, <1>7, <1>8 DEF TextTypeOK
<1>16. TextTypeOK'
    BY <1>1, <1>2, <1>14, <1>15 DEF TextTypeOK
<1>17. line = PastManifestLine(line.commit, line.hash)
    BY <1>1, LineHasItsFields, NoFault
<1>18. GroupStands(lines', group, last)
    <2>1. last + Lead(group) = size + 1
        BY <1>11, <1>12
    <2>2. lines'[last + Lead(group)]
              = PastManifestLine(group.commit, group.hash)
        BY <1>6, <1>14, <1>17, <2>1
    <2>3. ASSUME group.origin # Absent
          PROVE  IsPredecessor(lines'[last + 1], group.commit, group.origin)
        <3>1. announced # Absent /\ group.origin = announced.origin
            BY <1>6, <2>3
        <3>2. Ahead = 1 /\ last + 1 = size /\ last + 1 \in 1..size
            BY <1>11, <3>1 DEF Ahead
        <3>3. IsPredecessor(lines[size], announced.commit, announced.origin)
            BY <1>5, <1>9, <3>1 DEF Layout
        <3>4. announced.commit = group.commit
            <4>1. ~NotAsAnnounced(line)
                BY <1>1, NoFault
            <4> QED
                BY <1>6, <3>1, <4>1 DEF NotAsAnnounced
        <3> QED
            BY <1>14, <3>1, <3>2, <3>3, <3>4
    <2>4. 1..Len(group.tokens) = {}
        BY <1>13
    <2> QED
        BY <2>2, <2>3, <2>4 DEF GroupStands
<1>19. PICK next : next = [n \in 1..(count + 2) |->
                              IF n = count + 2 THEN size + 1 ELSE from[n]]
    OBVIOUS
<1>20. /\ \A n \in 1..(count + 1) : next[n] = from[n] /\ from[n] \in Nat
       /\ next[count + 2] = size + 1
    BY <1>8, <1>19
<1>21. next \in [1..(Len(groups') + 1) -> Nat]
    <2>1. ASSUME NEW n \in 1..(count + 2)
          PROVE  next[n] \in Nat
        <3>1. CASE n = count + 2
            BY <1>20, <3>1
        <3>2. CASE n # count + 2
            <4>1. n \in 1..(count + 1)
                BY <3>2
            <4> QED
                BY <1>20, <4>1
        <3> QED
            BY <3>1, <3>2
    <2>2. Len(groups') + 1 = count + 2
        BY <1>15
    <2> QED
        BY <1>19, <2>1, <2>2
<1>22. Layout(next)'
    <2>1. next[1] = ParentsFirst'
        <3>1. next[1] = from[1]
            BY <1>20
        <3> QED
            BY <1>1, <1>5, <3>1 DEF Layout, ParentsFirst
    <2>2. ASSUME NEW n \in 1..Len(groups')
          PROVE  /\ next[n + 1] = next[n] + Extent(groups'[n])
                 /\ GroupStands(lines', groups'[n], next[n])
        <3>1. CASE n = count + 1
            <4>1. next[n] = last /\ next[n + 1] = size + 1
                <5>1. n + 1 = count + 2 /\ n \in 1..(count + 1)
                    BY <3>1
                <5> QED
                    BY <1>10, <1>20, <3>1, <5>1
            <4> QED
                BY <1>11, <1>13, <1>15, <1>18, <3>1, <4>1
        <3>2. CASE n # count + 1
            <4>1. n \in 1..count /\ n \in 1..(count + 1)
                  /\ n + 1 \in 1..(count + 1)
                BY <1>15, <3>2
            <4>2. groups'[n] = groups[n] /\ next[n] = from[n]
                  /\ next[n + 1] = from[n + 1]
                BY <1>15, <1>20, <4>1
            <4>3. from[n + 1] = from[n] + Extent(groups[n])
                BY <1>5, <1>8, <4>1 DEF Layout
            <4>4. PICK page : page = lines'
                OBVIOUS
            <4>5. \A i \in 1..Len(lines) : page[i] = lines[i]
                BY <1>9, <1>14, <4>4
            <4>6. GroupStands(page, groups[n], from[n])
                BY <1>2, <1>5, <1>8, <4>1, <4>5, GroupsStandOn
            <4> QED
                BY <4>2, <4>3, <4>4, <4>6
        <3> QED
            BY <3>1, <3>2
    <2>3. Len(lines') = next[Len(groups') + 1] + Ahead' + Len(listed')
        <3>1. Ahead' = 0
            BY <1>1 DEF Ahead
        <3>2. Len(listed') = 0 /\ next[Len(groups') + 1] = size + 1
            <4>1. Len(groups') + 1 = count + 2
                BY <1>15
            <4> QED
                BY <1>1, <1>11, <1>20, <4>1
        <3> QED
            BY <1>14, <3>1, <3>2
    <2>4. parents' # <<>> => lines'[1] = ParentsLine(parents')
        <3> SUFFICES ASSUME parents # <<>>
                     PROVE  lines'[1] = ParentsLine(parents)
            BY <1>1
        <3>1. 1 \in 1..size /\ lines[1] = ParentsLine(parents)
            BY <1>2, <1>5, <1>9, ThingsStand
        <3> QED
            BY <1>14, <3>1
    <2>5. 1..Len(listed') = {}
        BY <1>1, <1>11
    <2> QED
        BY <1>1, <2>1, <2>2, <2>3, <2>4, <2>5 DEF Layout
<1>23. LaidOut'
    BY <1>21, <1>22 DEF LaidOut
<1>24. Sections'
    <2>1. groups' # <<>>
        <3>1. Len(<<>>) = 0
            OBVIOUS
        <3> QED
            BY <1>15, <3>1
    <2> QED
        BY <1>1, <1>4, <2>1 DEF Sections
<1>25. NoneTwice'
    <2>1. ASSUME NEW n \in 1..count
          PROVE  groups[n].hash.sha256 # group.hash.sha256
        <3>1. ~RepeatsBinding(line)
            BY <1>1, NoFault
        <3>2. n \in DOMAIN groups
            BY <1>2, <1>8 DEF TextTypeOK
        <3> QED
            BY <1>6, <3>1, <3>2 DEF RepeatsBinding
    <2>2. ASSUME NEW m \in 1..Len(groups'), NEW n \in 1..Len(groups'),
                 groups'[m].hash.sha256 = groups'[n].hash.sha256
          PROVE  m = n
        <3>1. m \in 1..count \/ m = count + 1
            BY <1>15
        <3>2. n \in 1..count \/ n = count + 1
            BY <1>15
        <3>3. ASSUME m \in 1..count, n \in 1..count
              PROVE  m = n
            BY <1>2, <1>8, <1>15, <2>2, <3>3 DEF NoneTwice
        <3>4. ~(m \in 1..count /\ n = count + 1)
            BY <1>15, <2>1, <2>2
        <3>5. ~(n \in 1..count /\ m = count + 1)
            BY <1>15, <2>1, <2>2
        <3> QED
            BY <3>1, <3>2, <3>3, <3>4, <3>5
    <2>3. ASSUME NEW n \in 1..Len(groups'),
                 NEW k \in 1..Len(groups'[n].tokens),
                 NEW m \in 1..Len(groups'[n].tokens),
                 groups'[n].tokens[k].site = groups'[n].tokens[m].site
          PROVE  k = m
        <3>1. CASE n = count + 1
            <4>1. k \in 1..0
                BY <1>13, <1>15, <3>1
            <4> QED
                BY <4>1
        <3>2. CASE n # count + 1
            <4>1. n \in 1..count
                BY <1>15, <3>2
            <4>2. groups'[n] = groups[n]
                BY <1>15, <4>1
            <4> QED
                BY <1>2, <1>8, <2>3, <4>1, <4>2 DEF NoneTwice
        <3> QED
            BY <3>1, <3>2
    <2>4. \A m \in 1..Len(listed') :
              m < Len(listed') => listed'[m].path # listed'[m + 1].path
        BY <1>1, <1>2 DEF NoneTwice
    <2> QED
        BY <2>2, <2>3, <2>4 DEF NoneTwice
<1> QED
    BY <1>16, <1>23, <1>24, <1>25 DEF TextInv

\* The last group has one more token, of a site of its own.
LEMMA ReadPastTokenStep ==
    ASSUME TextInv, NEW line \in RecordLine, ReadPastToken(line)
    PROVE  TextInv'
<1>1. /\ ReadsRecord(line) /\ line.kind = "past-token"
      /\ RecordFault(line) = "none" /\ section' = "group"
      /\ groups' = [groups EXCEPT ![Len(groups)].tokens =
                       Append(@, [site |-> line.site, hash |-> line.hash])]
      /\ announced' = announced /\ parents' = parents /\ listed' = listed
    BY DEF ReadPastToken, TakesRecord, SectionOf
<1>2. TextTypeOK /\ Sections /\ NoneTwice
    BY DEF TextInv
<1>3. section = "group"
    BY <1>1, NoFault DEF FollowsOn
<1>4. listed = <<>> /\ announced = Absent /\ groups # <<>>
    BY <1>2, <1>3 DEF Sections
<1>5. PICK from \in [1..(Len(groups) + 1) -> Nat] : Layout(from)
    BY DEF TextInv, LaidOut
<1>6. PICK count \in Nat : count = Len(groups)
    BY <1>2, <1>5, Counts
<1>7. count \in 1..count
    <2>1. count # 0
        BY <1>2, <1>4, <1>6, EmptySeq DEF TextTypeOK
    <2> QED
        BY <2>1
<1>8. PICK size \in Nat : size = Len(lines)
    BY <1>2, <1>5, Counts
<1>9. PICK old \in GroupSaid : old = groups[count]
    BY <1>2, <1>5, <1>6, <1>7, Counts
<1>10. PICK token \in TokenSaid :
           token = [site |-> line.site, hash |-> line.hash]
    <2>1. line.valid
        BY <1>1, NoFault
    <2> QED
        BY <1>1, <2>1 DEF TokenSaid
<1>11. PICK many \in Nat : many = Len(old.tokens)
    BY GroupTyping
<1>12. PICK tokens \in Seq(TokenSaid) :
           /\ tokens = Append(old.tokens, token)
           /\ Len(tokens) = many + 1 /\ tokens[many + 1] = token
           /\ \A m \in 1..many : tokens[m] = old.tokens[m]
    <2>1. PICK said \in Seq(TokenSaid) : said = old.tokens
        BY GroupTyping
    <2>2. Len(said) = many
        BY <1>11, <2>1
    <2>3. PICK longer : longer = Append(said, token)
        OBVIOUS
    <2>4. longer \in Seq(TokenSaid) /\ Len(longer) = many + 1
        BY <2>2, <2>3
    <2>5. longer[many + 1] = token /\ \A m \in 1..many : longer[m] = said[m]
        BY <2>2, <2>3
    <2> QED
        BY <2>1, <2>3, <2>4, <2>5
<1>13. PICK group : group = [old EXCEPT !.tokens = tokens]
    OBVIOUS
<1>14. /\ group \in GroupSaid /\ group.tokens = tokens
       /\ group.commit = old.commit /\ group.hash = old.hash
       /\ group.origin = old.origin
    BY <1>13 DEF GroupSaid
<1>15. groups' = [groups EXCEPT ![count] = group]
    BY <1>1, <1>6, <1>9, <1>10, <1>12, <1>13
<1>16. /\ groups' \in Seq(GroupSaid) /\ Len(groups') = count
       /\ groups'[count] = group
       /\ \A n \in 1..count : n # count => groups'[n] = groups[n]
    BY <1>2, <1>6, <1>7, <1>14, <1>15 DEF TextTypeOK
<1>17. PICK lead \in {1, 2} : lead = Lead(old) /\ lead = Lead(group)
    BY <1>14 DEF Lead
<1>18. Extent(old) = lead + many /\ Extent(group) = lead + many + 1
    BY <1>11, <1>12, <1>14, <1>17 DEF Extent
<1>19. PICK start \in Nat : start = from[count]
    BY <1>2, <1>5, <1>6, <1>7, Counts
<1>20. size = start + lead + many /\ Len(listed) = 0
    <2>1. Len(listed) = 0
        BY <1>4
    <2>2. Ahead = 0 /\ size = from[count + 1] + Ahead + Len(listed)
          /\ from[count + 1] = start + Extent(old)
        BY <1>2, <1>4, <1>5, <1>6, <1>7, <1>8, <1>9, <1>19, Counts
    <2> QED
        BY <1>18, <2>1, <2>2
<1>21. /\ Len(lines') = size + 1 /\ lines'[size + 1] = line
       /\ lines' \in Seq(RecordLine)
       /\ \A i \in 1..size : lines'[i] = lines[i]
    BY <1>1, <1>2, <1>8, ReadsOneMore
<1>22. TextTypeOK'
    BY <1>1, <1>2, <1>16, <1>21 DEF TextTypeOK
<1>23. PICK page : page = lines'
    OBVIOUS
<1>24. \A n \in 1..count : GroupStands(page, groups[n], from[n])
    <2>1. \A i \in 1..Len(lines) : page[i] = lines[i]
        BY <1>8, <1>21, <1>23
    <2> QED
        BY <1>2, <1>5, <1>6, <2>1, GroupsStandOn
<1>25. GroupStands(page, group, start)
    <2>1. GroupStands(page, old, start)
        BY <1>7, <1>9, <1>19, <1>24
    <2>2. ASSUME NEW m \in 1..(many + 1)
          PROVE  IsTokenOf(page[start + lead + m], group.commit, tokens[m])
        <3>1. CASE m = many + 1
            <4>1. start + lead + m = size + 1
                BY <1>20, <3>1
            <4>2. page[start + lead + m] = line
                BY <1>21, <1>23, <4>1
            <4>3. line = PastTokenLine(line.commit, line.site, line.hash)
                BY <1>1, LineHasItsFields, NoFault
            <4>4. line.commit = group.commit
                <5>1. ~OfAnotherGroup(line)
                    BY <1>1, NoFault
                <5>2. Last(groups) = old
                    BY <1>6, <1>9 DEF Last
                <5> QED
                    BY <1>14, <5>1, <5>2 DEF OfAnotherGroup
            <4>5. token.site = line.site /\ token.hash = line.hash
                BY <1>10
            <4> QED
                BY <1>12, <3>1, <4>2, <4>3, <4>4, <4>5 DEF IsTokenOf
        <3>2. CASE m # many + 1
            <4>1. m \in 1..many
                BY <3>2
            <4>2. IsTokenOf(page[start + lead + m], old.commit,
                            old.tokens[m])
                BY <1>11, <1>17, <2>1, <4>1 DEF GroupStands
            <4> QED
                BY <1>12, <1>14, <4>1, <4>2
        <3> QED
            BY <3>1, <3>2
    <2>3. /\ group.origin # Absent =>
                IsPredecessor(page[start + 1], group.commit, group.origin)
          /\ page[start + lead] = PastManifestLine(group.commit, group.hash)
        BY <1>14, <1>17, <2>1 DEF GroupStands
    <2> QED
        BY <1>12, <1>14, <1>17, <2>2, <2>3 DEF GroupStands
<1>26. PICK next : next = [n \in 1..(count + 1) |->
                              IF n = count + 1 THEN size + 1 ELSE from[n]]
    OBVIOUS
<1>27. /\ \A n \in 1..count : next[n] = from[n] /\ from[n] \in Nat
       /\ next[count + 1] = size + 1
    BY <1>6, <1>26
<1>28. next \in [1..(Len(groups') + 1) -> Nat]
    <2>1. ASSUME NEW n \in 1..(count + 1)
          PROVE  next[n] \in Nat
        <3>1. CASE n = count + 1
            BY <1>27, <3>1
        <3>2. CASE n # count + 1
            <4>1. n \in 1..count
                BY <3>2
            <4> QED
                BY <1>27, <4>1
        <3> QED
            BY <3>1, <3>2
    <2>2. Len(groups') + 1 = count + 1
        BY <1>16
    <2> QED
        BY <1>26, <2>1, <2>2
<1>29. Layout(next)'
    <2>1. next[1] = ParentsFirst'
        <3>1. next[1] = from[1]
            BY <1>7, <1>27
        <3> QED
            BY <1>1, <1>5, <3>1 DEF Layout, ParentsFirst
    <2>2. ASSUME NEW n \in 1..Len(groups')
          PROVE  /\ next[n + 1] = next[n] + Extent(groups'[n])
                 /\ GroupStands(lines', groups'[n], next[n])
        <3>1. CASE n = count
            <4>1. next[n] = start /\ next[n + 1] = size + 1
                BY <1>7, <1>19, <1>27, <3>1
            <4> QED
                BY <1>16, <1>18, <1>20, <1>23, <1>25, <3>1, <4>1
        <3>2. CASE n # count
            <4>1. n \in 1..count /\ n + 1 \in 1..count
                BY <1>16, <3>2
            <4>2. groups'[n] = groups[n] /\ next[n] = from[n]
                  /\ next[n + 1] = from[n + 1]
                BY <1>16, <1>27, <3>2, <4>1
            <4>3. from[n + 1] = from[n] + Extent(groups[n])
                BY <1>5, <1>6, <4>1 DEF Layout
            <4> QED
                BY <1>23, <1>24, <4>1, <4>2, <4>3
        <3> QED
            BY <3>1, <3>2
    <2>3. Len(lines') = next[Len(groups') + 1] + Ahead' + Len(listed')
        <3>1. Ahead' = 0
            BY <1>1, <1>4 DEF Ahead
        <3>2. Len(listed') = 0 /\ next[Len(groups') + 1] = size + 1
            BY <1>1, <1>16, <1>20, <1>27
        <3> QED
            BY <1>21, <3>1, <3>2
    <2>4. parents' # <<>> => lines'[1] = ParentsLine(parents')
        <3> SUFFICES ASSUME parents # <<>>
                     PROVE  lines'[1] = ParentsLine(parents)
            BY <1>1
        <3>1. 1 \in 1..size /\ lines[1] = ParentsLine(parents)
            BY <1>2, <1>5, <1>8, ThingsStand
        <3> QED
            BY <1>21, <3>1
    <2>5. 1..Len(listed') = {} /\ announced' = Absent
        BY <1>1, <1>4, <1>20
    <2> QED
        BY <2>1, <2>2, <2>3, <2>4, <2>5 DEF Layout
<1>30. LaidOut'
    BY <1>28, <1>29 DEF LaidOut
<1>31. Sections'
    <2>1. groups' # <<>>
        <3>1. Len(<<>>) = 0 /\ count # 0
            BY <1>7
        <3> QED
            BY <1>16, <3>1
    <2> QED
        BY <1>1, <1>4, <2>1 DEF Sections
<1>32. NoneTwice'
    <2>1. ASSUME NEW m \in 1..count
          PROVE  groups'[m].hash = groups[m].hash
        BY <1>9, <1>14, <1>16
    <2>2. ASSUME NEW m \in 1..Len(groups'), NEW n \in 1..Len(groups'),
                 groups'[m].hash.sha256 = groups'[n].hash.sha256
          PROVE  m = n
        <3>1. m \in 1..Len(groups) /\ n \in 1..Len(groups)
            BY <1>6, <1>16
        <3>2. groups[m].hash.sha256 = groups[n].hash.sha256
            BY <1>6, <2>1, <2>2, <3>1
        <3> QED
            BY <1>2, <3>1, <3>2 DEF NoneTwice
    <2>3. ASSUME NEW m \in 1..many
          PROVE  old.tokens[m].site # token.site
        <3>1. ~RepeatsToken(line)
            BY <1>1, NoFault
        <3>2. Last(groups) = old
            BY <1>6, <1>9 DEF Last
        <3>3. m \in DOMAIN old.tokens
            BY <1>11, GroupTyping
        <3> QED
            BY <1>10, <3>1, <3>2, <3>3 DEF RepeatsToken
    <2>4. ASSUME NEW k \in 1..(many + 1), NEW m \in 1..(many + 1),
                 tokens[k].site = tokens[m].site
          PROVE  k = m
        <3>1. k \in 1..many \/ k = many + 1
            OBVIOUS
        <3>2. m \in 1..many \/ m = many + 1
            OBVIOUS
        <3>3. ASSUME k \in 1..many, m \in 1..many
              PROVE  k = m
            <4>1. old.tokens[k].site = old.tokens[m].site
                BY <1>12, <2>4, <3>3
            <4>2. /\ k \in 1..Len(groups[count].tokens)
                  /\ m \in 1..Len(groups[count].tokens)
                  /\ count \in 1..Len(groups)
                BY <1>6, <1>7, <1>9, <1>11, <3>3
            <4> QED
                BY <1>2, <1>9, <4>1, <4>2 DEF NoneTwice
        <3>4. ~(k \in 1..many /\ m = many + 1)
            BY <1>12, <2>3, <2>4
        <3>5. ~(m \in 1..many /\ k = many + 1)
            BY <1>12, <2>3, <2>4
        <3> QED
            BY <3>1, <3>2, <3>3, <3>4, <3>5
    <2>5. ASSUME NEW n \in 1..Len(groups'),
                 NEW k \in 1..Len(groups'[n].tokens),
                 NEW m \in 1..Len(groups'[n].tokens),
                 groups'[n].tokens[k].site = groups'[n].tokens[m].site
          PROVE  k = m
        <3>1. CASE n = count
            <4>1. groups'[n].tokens = tokens
                BY <1>14, <1>16, <3>1
            <4>2. k \in 1..(many + 1) /\ m \in 1..(many + 1)
                BY <1>12, <4>1
            <4> QED
                BY <2>4, <2>5, <4>1, <4>2
        <3>2. CASE n # count
            <4>1. n \in 1..Len(groups) /\ groups'[n] = groups[n]
                BY <1>6, <1>16, <3>2
            <4> QED
                BY <1>2, <2>5, <4>1 DEF NoneTwice
        <3> QED
            BY <3>1, <3>2
    <2>6. \A m \in 1..Len(listed') :
              m < Len(listed') => listed'[m].path # listed'[m + 1].path
        BY <1>1, <1>2 DEF NoneTwice
    <2> QED
        BY <2>2, <2>5, <2>6 DEF NoneTwice
<1> QED
    BY <1>22, <1>30, <1>31, <1>32 DEF TextInv

-----------------------------------------------------------------------------
\* What a line below the others has if the text they make is canonical.
LEMMA CanonicalGoesOn ==
    ASSUME TextTypeOK, NEW line \in RecordLine, ReadsRecord(line),
           IsCanonical'
    PROVE  /\ line.valid
           /\ line.kind = "parents" => Len(lines) = 0
           /\ Len(lines) # 0 /\ lines[Len(lines)].kind = "predecessor" =>
                 /\ line.kind = "past-manifest"
                 /\ line.commit = lines[Len(lines)].commit
           /\ Len(lines) # 0 /\ lines[Len(lines)].kind = "entry" =>
                 /\ line.kind = "entry"
                 /\ lines[Len(lines)].path < line.path
           /\ line.kind = "past-manifest" =>
                 \A i \in 1..Len(lines) :
                     lines[i].kind = "past-manifest" =>
                         lines[i].hash.sha256 # line.hash.sha256
           /\ line.kind = "past-token" =>
                 \E j \in 1..Len(lines) :
                     /\ lines[j].kind = "past-manifest"
                     /\ lines[j].commit = line.commit
                     /\ \A k \in (j + 1)..Len(lines) :
                           lines[k].kind = "past-token"
           /\ \A i \in 1..Len(lines) :
                 i < Len(lines) /\ lines[i].kind = "past-token"
                     /\ lines[i + 1].kind = "past-token" =>
                         lines[i].site < lines[i + 1].site
           /\ Len(lines) # 0 /\ lines[Len(lines)].kind = "past-token"
                 /\ line.kind = "past-token" =>
                     lines[Len(lines)].site < line.site
<1>1. PICK size \in Nat : size = Len(lines)
    BY LenProperties DEF TextTypeOK
<1>2. PICK page : page = lines'
    OBVIOUS
<1>3. /\ page \in Seq(RecordLine) /\ Len(page) = size + 1
      /\ DOMAIN page = 1..(size + 1)
      /\ page[size + 1] = line /\ \A i \in 1..size : page[i] = lines[i]
    BY <1>1, <1>2, ReadsOneMore, LenProperties
<1>4. size + 1 \in 1..(size + 1) /\ 1..size \subseteq 1..(size + 1)
    OBVIOUS
<1>5. /\ \A i \in 1..(size + 1) : page[i].valid
      /\ \A i \in 1..(size + 1) : page[i].kind = "parents" => i = 1
      /\ \A i \in 1..(size + 1) : page[i].kind = "predecessor" =>
            /\ i + 1 \in 1..(size + 1) /\ page[i + 1].kind = "past-manifest"
            /\ page[i + 1].commit = page[i].commit
      /\ \A i, j \in 1..(size + 1) :
            page[i].kind = "past-manifest" /\ page[j].kind = "past-manifest"
                /\ page[i].hash.sha256 = page[j].hash.sha256 => i = j
    <2>1. \A i \in 1..(size + 1) : page[i].valid
        BY <1>2, <1>3 DEF IsCanonical, IsSpelledCanonically
    <2>2. \A i \in 1..(size + 1) : page[i].kind = "parents" => i = 1
        BY <1>2, <1>3 DEF IsCanonical, Positions
    <2>3. ASSUME NEW i \in 1..(size + 1), page[i].kind = "predecessor"
          PROVE  /\ i + 1 \in 1..(size + 1)
                 /\ page[i + 1].kind = "past-manifest"
                 /\ page[i + 1].commit = page[i].commit
        BY <1>2, <1>3, <2>3 DEF IsCanonical, Positions, At
    <2>4. ASSUME NEW i \in 1..(size + 1), NEW j \in 1..(size + 1),
                 page[i].kind = "past-manifest",
                 page[j].kind = "past-manifest",
                 page[i].hash.sha256 = page[j].hash.sha256
          PROVE  i = j
        BY <1>2, <1>3, <2>4 DEF IsCanonical, Positions
    <2> QED
        BY <2>1, <2>2, <2>3, <2>4
<1>6. ASSUME NEW i \in 1..(size + 1), page[i].kind = "past-token"
      PROVE  /\ \E j \in 1..(size + 1) :
                   /\ page[j].kind = "past-manifest" /\ j < i
                   /\ page[i].commit = page[j].commit
                   /\ \A k \in (j + 1)..i : page[k].kind = "past-token"
             /\ i + 1 \in 1..(size + 1) /\ page[i + 1].kind = "past-token" =>
                   page[i].site < page[i + 1].site
    <2>1. i \in Positions("past-token")'
        BY <1>2, <1>3, <1>6 DEF Positions
    <2>2. /\ \E j \in (DOMAIN lines)' :
                StandsUnder(i, j)' /\ (lines[i].commit = lines[j].commit)'
          /\ At(i + 1, "past-token")' =>
                (lines[i].site < lines[i + 1].site)'
        BY <2>1 DEF IsCanonical
    <2>3. PICK j \in 1..(size + 1) :
              StandsUnder(i, j)' /\ page[i].commit = page[j].commit
        BY <1>2, <1>3, <2>2
    <2>4. /\ page[j].kind = "past-manifest" /\ j < i
          /\ \A k \in (j + 1)..i : page[k].kind = "past-token"
        BY <1>2, <2>3 DEF StandsUnder, At
    <2>5. i + 1 \in 1..(size + 1) /\ page[i + 1].kind = "past-token" =>
              page[i].site < page[i + 1].site
        BY <1>2, <1>3, <2>2 DEF At
    <2> QED
        BY <2>3, <2>4, <2>5
<1>7. \A i \in 1..(size + 1) : page[i].kind = "entry" =>
          (i < size + 1 => /\ page[i + 1].kind = "entry"
                           /\ page[i].path < page[i + 1].path)
    BY <1>2, <1>3 DEF IsCanonical, Positions, At
<1>8. line.valid /\ (line.kind = "parents" => size = 0)
    BY <1>3, <1>4, <1>5
<1>9. ASSUME size # 0
      PROVE  /\ size \in 1..(size + 1) /\ size < size + 1
             /\ page[size] = lines[size]
    BY <1>3, <1>9
<1>10. /\ size # 0 /\ lines[size].kind = "predecessor" =>
              line.kind = "past-manifest" /\ line.commit = lines[size].commit
       /\ size # 0 /\ lines[size].kind = "entry" =>
              line.kind = "entry" /\ lines[size].path < line.path
       /\ size # 0 /\ lines[size].kind = "past-token"
              /\ line.kind = "past-token" => lines[size].site < line.site
    <2>1. size # 0 /\ lines[size].kind = "predecessor" =>
              line.kind = "past-manifest" /\ line.commit = lines[size].commit
        BY <1>3, <1>5, <1>9
    <2>2. size # 0 /\ lines[size].kind = "entry" =>
              line.kind = "entry" /\ lines[size].path < line.path
        BY <1>3, <1>7, <1>9
    <2>3. size # 0 /\ lines[size].kind = "past-token"
              /\ line.kind = "past-token" => lines[size].site < line.site
        BY <1>3, <1>4, <1>6, <1>9
    <2> QED
        BY <2>1, <2>2, <2>3
<1>11. ASSUME line.kind = "past-manifest", NEW i \in 1..size,
              lines[i].kind = "past-manifest"
       PROVE  lines[i].hash.sha256 # line.hash.sha256
    <2>1. i # size + 1 /\ i \in 1..(size + 1)
        OBVIOUS
    <2> QED
        BY <1>3, <1>4, <1>5, <1>11, <2>1
<1>12. ASSUME line.kind = "past-token"
       PROVE  \E j \in 1..size :
                 /\ lines[j].kind = "past-manifest"
                 /\ lines[j].commit = line.commit
                 /\ \A k \in (j + 1)..size : lines[k].kind = "past-token"
    <2>1. PICK j \in 1..(size + 1) :
              /\ page[j].kind = "past-manifest" /\ j < size + 1
              /\ page[size + 1].commit = page[j].commit
              /\ \A k \in (j + 1)..(size + 1) : page[k].kind = "past-token"
        BY <1>3, <1>4, <1>6, <1>12
    <2>2. j \in 1..size /\ page[j] = lines[j]
        BY <1>3, <2>1
    <2>3. ASSUME NEW k \in (j + 1)..size
          PROVE  lines[k].kind = "past-token"
        <3>1. k \in 1..size /\ k \in (j + 1)..(size + 1)
            OBVIOUS
        <3> QED
            BY <1>3, <2>1, <3>1
    <2> QED
        BY <1>3, <2>1, <2>2, <2>3
<1>13. ASSUME NEW i \in 1..size, i < size, lines[i].kind = "past-token",
              lines[i + 1].kind = "past-token"
       PROVE  lines[i].site < lines[i + 1].site
    <2>1. i + 1 \in 1..size /\ i \in 1..(size + 1)
          /\ i + 1 \in 1..(size + 1)
        BY <1>13
    <2> QED
        BY <1>3, <1>6, <1>13, <2>1
<1>14. \A i \in 1..size :
           i < size /\ lines[i].kind = "past-token"
               /\ lines[i + 1].kind = "past-token" =>
                   lines[i].site < lines[i + 1].site
    BY <1>13
<1>15. line.kind = "past-manifest" =>
           \A i \in 1..size : lines[i].kind = "past-manifest" =>
               lines[i].hash.sha256 # line.hash.sha256
    BY <1>11
<1> QED
    BY <1>1, <1>8, <1>10, <1>12, <1>14, <1>15

\* The last line of the text tells what was read last.
LEMMA LastLine ==
    ASSUME TextTypeOK, Sections,
           NEW from \in [1..(Len(groups) + 1) -> Nat], Layout(from)
    PROVE  /\ section = "start" => Len(lines) = 0
           /\ section = "parents" =>
                 Len(lines) = 1 /\ lines[1].kind = "parents"
           /\ section = "announced" =>
                 /\ Len(lines) # 0 /\ lines[Len(lines)].kind = "predecessor"
                 /\ lines[Len(lines)].commit = announced.commit
           /\ section = "group" =>
                 /\ Len(groups) # 0
                 /\ Len(lines) = from[Len(groups) + 1] /\ Len(lines) # 0
           /\ section = "entries" =>
                 /\ Len(lines) # 0 /\ listed # <<>>
                 /\ lines[Len(lines)].kind = "entry"
                 /\ lines[Len(lines)].path = Last(listed).path
                 /\ Last(listed).path \in Nat
<1>1. /\ Len(groups) \in Nat /\ Len(listed) \in Nat /\ Len(lines) \in Nat
      /\ Ahead \in {0, 1} /\ from[Len(groups) + 1] \in Nat
      /\ Len(lines) = from[Len(groups) + 1] + Ahead + Len(listed)
    BY Counts
<1>2. section = "start" => Len(lines) = 0
    BY DEF Sections
<1>3. ASSUME section = "parents"
      PROVE  Len(lines) = 1 /\ lines[1].kind = "parents"
    <2>1. parents # <<>> /\ Len(groups) = 0 /\ Len(listed) = 0
          /\ announced = Absent
        BY <1>3 DEF Sections
    <2>2. from[1] = 1 /\ Ahead = 0
        BY <2>1 DEF Layout, ParentsFirst, Ahead
    <2>3. lines[1] = ParentsLine(parents)
        BY <2>1, ThingsStand
    <2> QED
        BY <1>1, <2>1, <2>2, <2>3 DEF ParentsLine
<1>4. ASSUME section = "announced"
      PROVE  /\ Len(lines) # 0 /\ lines[Len(lines)].kind = "predecessor"
             /\ lines[Len(lines)].commit = announced.commit
    <2>1. announced # Absent
        BY <1>4 DEF Sections
    <2>2. IsPredecessor(lines[Len(lines)], announced.commit,
                        announced.origin)
        BY <2>1 DEF Layout
    <2>3. Ahead = 1
        BY <2>1 DEF Ahead
    <2> QED
        BY <1>1, <2>2, <2>3 DEF IsPredecessor, PredecessorLine
<1>5. ASSUME section = "group"
      PROVE  /\ Len(groups) # 0
             /\ Len(lines) = from[Len(groups) + 1] /\ Len(lines) # 0
    <2>1. listed = <<>> /\ announced = Absent /\ groups # <<>>
        BY <1>5 DEF Sections
    <2>2. Len(listed) = 0 /\ Ahead = 0
        BY <2>1 DEF Ahead
    <2>3. Len(groups) # 0
        BY <2>1, EmptySeq DEF TextTypeOK
    <2>4. PICK n \in 1..Len(groups) : n = Len(groups)
        BY <1>1, <2>3
    <2>5. /\ from[n + 1] = from[n] + Extent(groups[n]) /\ from[n] \in Nat
          /\ Extent(groups[n]) \in Nat /\ groups[n] \in GroupSaid
        BY Counts
    <2>6. 1 <= Extent(groups[n])
        BY <2>5, GroupTyping
    <2> QED
        BY <1>1, <2>2, <2>3, <2>4, <2>5, <2>6
<1>6. ASSUME section = "entries"
      PROVE  /\ Len(lines) # 0 /\ listed # <<>>
             /\ lines[Len(lines)].kind = "entry"
             /\ lines[Len(lines)].path = Last(listed).path
             /\ Last(listed).path \in Nat
    <2>1. listed # <<>> /\ announced = Absent
        BY <1>6 DEF Sections
    <2>2. PICK m \in 1..Len(listed) : m = Len(listed)
        <3>1. Len(listed) # 0
            BY <2>1, EmptySeq DEF TextTypeOK
        <3> QED
            BY <1>1, <3>1
    <2>3. from[Len(groups) + 1] + m = Len(lines) /\ Len(lines) # 0
        <3>1. Ahead = 0
            BY <2>1 DEF Ahead
        <3> QED
            BY <1>1, <2>2, <3>1
    <2>4. IsEntry(lines[Len(lines)], listed[m])
        BY <2>3 DEF Layout
    <2>5. listed[m] \in EntrySaid /\ Last(listed) = listed[m]
        BY <2>2, ElementOfSeq DEF TextTypeOK, Last
    <2>6. listed[m].path \in Nat
        BY <2>5, EntryTyping
    <2> QED
        BY <2>1, <2>3, <2>4, <2>5, <2>6 DEF IsEntry, EntryLine
<1> QED
    BY <1>2, <1>3, <1>4, <1>5, <1>6

-----------------------------------------------------------------------------
\* The last group stands at the end of the text, its tokens last.
LEMMA LastGroup ==
    ASSUME TextTypeOK, Sections, section = "group",
           NEW from \in [1..(Len(groups) + 1) -> Nat], Layout(from)
    PROVE  /\ Last(groups) \in GroupSaid
           /\ \E g \in 1..Len(lines) :
                 /\ Len(lines) = g + Len(Last(groups).tokens)
                 /\ lines[g].kind = "past-manifest"
                 /\ lines[g].commit = Last(groups).commit
                 /\ \A m \in 1..Len(Last(groups).tokens) :
                       /\ lines[g + m].kind = "past-token"
                       /\ lines[g + m].site = Last(groups).tokens[m].site
<1>1. Len(groups) # 0 /\ Len(groups) \in Nat
      /\ Len(lines) = from[Len(groups) + 1]
    BY LastLine, Counts
<1>2. PICK n \in 1..Len(groups) : n = Len(groups)
    BY <1>1
<1>3. PICK group \in GroupSaid : group = groups[n]
    BY Counts
<1>4. Last(groups) = group
    BY <1>2, <1>3 DEF Last
<1>5. PICK many \in Nat : many = Len(group.tokens)
    BY GroupTyping
<1>6. PICK g \in Nat : OfGroup(from, n, g)
    <2>1. from[n] \in Nat /\ Lead(groups[n]) \in Nat
        BY Counts DEF Lead
    <2>2. from[n] + Lead(groups[n]) \in Nat
        BY <2>1
    <2> QED
        BY <2>2 DEF OfGroup
<1>7. g \in 1..Len(lines) /\ lines[g] = PastManifestLine(group.commit,
                                                         group.hash)
    BY <1>3, <1>6, ThingsStand
<1>8. Len(lines) = g + many
    <2>1. from[n + 1] = from[n] + Extent(groups[n]) /\ from[n] \in Nat
        BY Counts
    <2>2. Extent(groups[n]) = Lead(groups[n]) + many
        BY <1>3, <1>5 DEF Extent
    <2>3. Lead(groups[n]) \in {1, 2}
        BY DEF Lead
    <2> QED
        BY <1>1, <1>2, <1>6, <2>1, <2>2, <2>3 DEF OfGroup
<1>9. ASSUME NEW m \in 1..many
      PROVE  /\ lines[g + m].kind = "past-token"
             /\ lines[g + m].site = group.tokens[m].site
    <2>1. OfToken(from, n, m, g + m) /\ g + m \in Nat
        BY <1>6 DEF OfGroup, OfToken
    <2>2. m \in 1..Len(groups[n].tokens)
        BY <1>3, <1>5
    <2>3. IsTokenOf(lines[g + m], groups[n].commit, groups[n].tokens[m])
        BY <2>1, <2>2, ThingsStand
    <2> QED
        BY <1>3, <2>3 DEF IsTokenOf, PastTokenLine
<1> QED
    BY <1>4, <1>5, <1>7, <1>8, <1>9 DEF PastManifestLine

\* A record where its kind may not stand.
LEMMA MisplacedIsNotCanonical ==
    ASSUME TextInv, NEW line \in RecordLine, ReadsRecord(line),
           Known(line), section \notin FollowsOn(line.kind)
    PROVE  ~IsCanonical'
<1> SUFFICES ASSUME IsCanonical'
             PROVE  FALSE
    OBVIOUS
<1>1. TextTypeOK /\ Sections
    BY DEF TextInv
<1>2. PICK from \in [1..(Len(groups) + 1) -> Nat] : Layout(from)
    BY DEF TextInv, LaidOut
<1>3. PICK size \in Nat : size = Len(lines)
    BY <1>1, <1>2, Counts
<1>4. section \in {"start", "parents", "announced", "group", "entries"}
    BY <1>1 DEF Sections
<1>5. /\ section = "start" => size = 0
      /\ section = "parents" => size = 1 /\ lines[1].kind = "parents"
      /\ section = "announced" =>
            size # 0 /\ lines[size].kind = "predecessor"
      /\ section = "group" => size # 0
      /\ section = "entries" => size # 0 /\ lines[size].kind = "entry"
    BY <1>1, <1>2, <1>3, LastLine
<1>6. /\ line.kind = "parents" => size = 0
      /\ size # 0 /\ lines[size].kind = "predecessor" =>
            line.kind = "past-manifest"
      /\ size # 0 /\ lines[size].kind = "entry" => line.kind = "entry"
      /\ line.kind = "past-token" =>
            \E j \in 1..size :
                /\ lines[j].kind = "past-manifest"
                /\ \A k \in (j + 1)..size : lines[k].kind = "past-token"
    BY <1>1, <1>3, CanonicalGoesOn
<1>7. CASE line.kind = "parents"
    <2>1. section # "start"
        BY <1>7 DEF FollowsOn
    <2> QED
        BY <1>4, <1>5, <1>6, <1>7, <2>1
<1>8. CASE line.kind = "predecessor"
    <2>1. section \notin {"start", "parents", "group"}
        BY <1>8 DEF FollowsOn
    <2> QED
        BY <1>4, <1>5, <1>6, <1>8, <2>1
<1>9. CASE line.kind = "past-manifest"
    <2>1. section \notin {"start", "parents", "announced", "group"}
        BY <1>9 DEF FollowsOn
    <2> QED
        BY <1>4, <1>5, <1>6, <1>9, <2>1
<1>10. CASE line.kind = "past-token"
    <2>1. section # "group"
        BY <1>10 DEF FollowsOn
    <2>2. section \notin {"announced", "entries"}
        BY <1>5, <1>6, <1>10
    <2>3. PICK j \in 1..size :
              /\ lines[j].kind = "past-manifest"
              /\ \A k \in (j + 1)..size : lines[k].kind = "past-token"
        BY <1>6, <1>10
    <2>4. section = "parents"
        BY <1>4, <1>5, <2>1, <2>2, <2>3
    <2>5. j = 1
        BY <1>5, <2>3, <2>4
    <2> QED
        BY <1>5, <2>3, <2>4, <2>5
<1>11. CASE line.kind = "entry"
    <2>1. section \notin {"start", "parents", "group", "entries"}
        BY <1>11 DEF FollowsOn
    <2> QED
        BY <1>4, <1>5, <1>6, <1>11, <2>1
<1> QED
    BY <1>7, <1>8, <1>9, <1>10, <1>11 DEF Known

\* A token whose group is not the last one, or has one of its site.
LEMMA BadTokenIsNotCanonical ==
    ASSUME TextInv, NEW line \in RecordLine, ReadsRecord(line),
           line.kind = "past-token", section = "group",
           OfAnotherGroup(line) \/ RepeatsToken(line)
    PROVE  ~IsCanonical'
<1> SUFFICES ASSUME IsCanonical'
             PROVE  FALSE
    OBVIOUS
<1>1. TextTypeOK /\ Sections
    BY DEF TextInv
<1>2. PICK from \in [1..(Len(groups) + 1) -> Nat] : Layout(from)
    BY DEF TextInv, LaidOut
<1>3. PICK size \in Nat : size = Len(lines)
    BY <1>1, <1>2, Counts
<1>4. PICK group \in GroupSaid : group = Last(groups)
    BY <1>1, <1>2, LastGroup
<1>5. PICK many \in Nat : many = Len(group.tokens)
    BY GroupTyping
<1>6. PICK g \in 1..size :
          /\ size = g + many
          /\ lines[g].kind = "past-manifest"
          /\ lines[g].commit = group.commit
          /\ \A m \in 1..many :
                /\ lines[g + m].kind = "past-token"
                /\ lines[g + m].site = group.tokens[m].site
    BY <1>1, <1>2, <1>3, <1>4, <1>5, LastGroup
<1>7. PICK j \in 1..size :
          /\ lines[j].kind = "past-manifest"
          /\ lines[j].commit = line.commit
          /\ \A k \in (j + 1)..size : lines[k].kind = "past-token"
    BY <1>1, <1>3, CanonicalGoesOn
<1>8. j = g
    <2>1. ~(j < g)
        <3>1. j < g => g \in (j + 1)..size
            OBVIOUS
        <3> QED
            BY <1>6, <1>7, <3>1
    <2>2. ~(g < j)
        <3> SUFFICES ASSUME g < j
                     PROVE  FALSE
            OBVIOUS
        <3>1. j - g \in 1..many /\ g + (j - g) = j
            BY <1>6
        <3>2. lines[j].kind = "past-token"
            BY <1>6, <3>1
        <3> QED
            BY <1>7, <3>2
    <2> QED
        BY <2>1, <2>2
<1>9. ~OfAnotherGroup(line)
    BY <1>4, <1>6, <1>7, <1>8 DEF OfAnotherGroup
<1>10. PICK m \in 1..many : group.tokens[m].site = line.site
    <2>1. group.tokens \in Seq(TokenSaid)
        BY GroupTyping
    <2>2. DOMAIN group.tokens = 1..many
        BY <1>5, <2>1, LenProperties
    <2> QED
        BY <1>4, <1>9, <2>2 DEF RepeatsToken
<1>11. PICK ranks : ranks = [k \in 1..many |-> group.tokens[k].site]
    OBVIOUS
<1>12. ranks \in [1..many -> Nat]
    <2>1. ASSUME NEW k \in 1..many
          PROVE  ranks[k] \in Nat
        <3>1. group.tokens[k] \in TokenSaid
            BY <1>5, GroupTyping
        <3>2. group.tokens[k].site \in Nat
            BY <3>1, TokenTyping
        <3> QED
            BY <1>11, <3>2
    <2>2. \A k \in 1..many : ranks[k] \in Nat
        BY <2>1
    <2>3. ranks = [k \in 1..many |-> ranks[k]]
        BY <1>11
    <2> QED
        BY <2>2, <2>3
<1>13. ASSUME NEW k \in 1..many, k < many
       PROVE  ranks[k] < ranks[k + 1]
    <2>1. g + k \in 1..size /\ g + k < size /\ (g + k) + 1 = g + (k + 1)
          /\ k + 1 \in 1..many
        <3>1. g \in 1..size /\ size = g + many
            BY <1>6
        <3> QED
            BY <1>13, <3>1
    <2>2. lines[g + k].kind = "past-token"
          /\ lines[g + (k + 1)].kind = "past-token"
        BY <1>6, <2>1
    <2>3. lines[g + k].site < lines[(g + k) + 1].site
        <3>1. \A i \in 1..size :
                  i < size /\ lines[i].kind = "past-token"
                      /\ lines[i + 1].kind = "past-token" =>
                          lines[i].site < lines[i + 1].site
            BY <1>1, <1>3, CanonicalGoesOn
        <3> QED
            BY <2>1, <2>2, <3>1
    <2>4. lines[g + k].site = group.tokens[k].site
          /\ lines[g + (k + 1)].site = group.tokens[k + 1].site
        BY <1>6, <2>1
    <2> QED
        BY <1>11, <2>1, <2>3, <2>4
<1>14. \A k, l \in 1..many : k < l => ranks[k] < ranks[l]
    BY <1>12, <1>13, RisesThroughout
<1>15. ranks[many] < line.site
    <2>1. many \in 1..many /\ g + many = size /\ size # 0
        BY <1>6, <1>10
    <2>2. lines[size].kind = "past-token"
          /\ lines[size].site = group.tokens[many].site
        BY <1>6, <2>1
    <2>3. lines[size].site < line.site
        BY <1>1, <1>3, <2>1, <2>2, CanonicalGoesOn
    <2> QED
        BY <1>11, <2>1, <2>2, <2>3
<1>16. ranks[m] = line.site /\ ranks[m] \in Nat /\ ranks[many] \in Nat
    BY <1>10, <1>11, <1>12
<1>17. m = many \/ m < many
    OBVIOUS
<1>18. many \in 1..many
    BY <1>10
<1> QED
    BY <1>14, <1>15, <1>16, <1>17, <1>18

\* A line is refused for one of these reasons.
LEMMA FaultsOfALine ==
    ASSUME NEW line \in RecordLine, RecordFault(line) # "none"
    PROVE  /\ RecordFault(line) \notin {"accepted", "reading"}
           /\ \/ ~line.valid
              \/ Known(line) /\ section \notin FollowsOn(line.kind)
              \/ /\ line.kind = "past-manifest"
                 /\ RepeatsBinding(line) \/ NotAsAnnounced(line)
              \/ /\ line.kind = "past-token"
                 /\ section \in FollowsOn("past-token")
                 /\ OfAnotherGroup(line) \/ RepeatsToken(line)
              \/ line.kind = "entry" /\ RepeatsPath(line)
                 /\ section \in FollowsOn("entry")
<1>1. FieldFault(line) \in {"DuplicateRecord", "MisplacedRecord", "none"}
    BY DEF FieldFault
<1>2. FieldFault(line) # "none" =>
          \/ /\ line.kind = "past-manifest"
             /\ RepeatsBinding(line) \/ NotAsAnnounced(line)
          \/ /\ line.kind = "past-token"
             /\ OfAnotherGroup(line) \/ RepeatsToken(line)
          \/ line.kind = "entry" /\ RepeatsPath(line)
    BY DEF FieldFault
<1>3. ~Known(line) => ~line.valid
    BY LineHasItsFields
<1>4. RecordFault(line) \in {"UnknownRecord", "MisplacedRecord",
                             "MalformedRecord", "DuplicateRecord", "none"}
    BY <1>1 DEF RecordFault
<1>5. ASSUME Known(line), section \in FollowsOn(line.kind), line.valid
      PROVE  FieldFault(line) # "none"
    BY <1>5 DEF RecordFault
<1> QED
    BY <1>2, <1>3, <1>4, <1>5

\* What is refused is not canonical, whatever would still have followed.
LEMMA RefusedIsNotCanonical ==
    ASSUME TextInv, NEW line \in RecordLine, RefuseRecord(line)
    PROVE  /\ ~IsCanonical'
           /\ reading'.says \notin {"accepted", "reading"}
           /\ framing' = framing
<1>1. /\ ReadsRecord(line) /\ RecordFault(line) # "none"
      /\ reading' = Outcome(RecordFault(line), Len(lines) + 2)
      /\ framing' = framing
    BY DEF RefuseRecord, ReadsRecord
<1>2. reading'.says \notin {"accepted", "reading"}
    BY <1>1, FaultsOfALine DEF Outcome
<1>3. TextTypeOK /\ Sections
    BY DEF TextInv
<1>4. PICK from \in [1..(Len(groups) + 1) -> Nat] : Layout(from)
    BY DEF TextInv, LaidOut
<1>5. PICK size \in Nat : size = Len(lines)
    BY <1>3, <1>4, Counts
<1>6. CASE ~line.valid
    <2>1. ~IsCanonical'
        BY <1>1, <1>3, <1>6, CanonicalGoesOn
    <2> QED
        BY <1>1, <1>2, <2>1
<1>7. CASE Known(line) /\ section \notin FollowsOn(line.kind)
    <2>1. ~IsCanonical'
        BY <1>1, <1>7, MisplacedIsNotCanonical
    <2> QED
        BY <1>1, <1>2, <2>1
<1>8. CASE line.kind = "past-manifest" /\ RepeatsBinding(line)
    <2>1. PICK n \in 1..Len(groups) :
              groups[n].hash.sha256 = line.hash.sha256
        BY <1>3, <1>8 DEF RepeatsBinding, TextTypeOK
    <2>2. PICK i \in Nat : OfGroup(from, n, i)
        <3>1. from[n] \in Nat /\ Lead(groups[n]) \in Nat
            BY <1>3, <1>4, Counts DEF Lead
        <3>2. from[n] + Lead(groups[n]) \in Nat
            BY <3>1
        <3> QED
            BY <3>2 DEF OfGroup
    <2>3. i \in 1..size
          /\ lines[i] = PastManifestLine(groups[n].commit, groups[n].hash)
        BY <1>3, <1>4, <1>5, <2>2, ThingsStand
    <2>4. lines[i].kind = "past-manifest" /\ lines[i].hash = groups[n].hash
        BY <2>3 DEF PastManifestLine
    <2>5. IsCanonical' =>
              \A k \in 1..size : lines[k].kind = "past-manifest" =>
                  lines[k].hash.sha256 # line.hash.sha256
        BY <1>1, <1>3, <1>5, <1>8, CanonicalGoesOn
    <2>6. ~IsCanonical'
        BY <2>1, <2>3, <2>4, <2>5
    <2> QED
        BY <1>1, <1>2, <2>6
<1>9. CASE line.kind = "past-manifest" /\ NotAsAnnounced(line)
    <2>1. announced # Absent /\ announced.commit # line.commit
        BY <1>9 DEF NotAsAnnounced
    <2>2. section = "announced"
        BY <1>3, <2>1 DEF Sections
    <2>3. size # 0 /\ lines[size].kind = "predecessor"
          /\ lines[size].commit = announced.commit
        BY <1>3, <1>4, <1>5, <2>2, LastLine
    <2>4. IsCanonical' => line.commit = lines[size].commit
        BY <1>1, <1>3, <1>5, <2>3, CanonicalGoesOn
    <2>5. ~IsCanonical'
        BY <2>1, <2>3, <2>4
    <2> QED
        BY <1>1, <1>2, <2>5
<1>10. CASE /\ line.kind = "past-token"
            /\ section \in FollowsOn("past-token")
            /\ OfAnotherGroup(line) \/ RepeatsToken(line)
    <2>1. section = "group"
        BY <1>10 DEF FollowsOn
    <2>2. ~IsCanonical'
        BY <1>1, <1>10, <2>1, BadTokenIsNotCanonical
    <2> QED
        BY <1>1, <1>2, <2>2
<1>11. CASE line.kind = "entry" /\ RepeatsPath(line)
    <2>1. listed # <<>> /\ Last(listed).path = line.path
        BY <1>11 DEF RepeatsPath
    <2>2. section = "entries"
        BY <1>3, <2>1 DEF Sections
    <2>3. size # 0 /\ lines[size].kind = "entry"
          /\ lines[size].path = Last(listed).path /\ Last(listed).path \in Nat
        BY <1>3, <1>4, <1>5, <2>2, LastLine
    <2>4. IsCanonical' => lines[size].path < line.path
        BY <1>1, <1>3, <1>5, <2>3, CanonicalGoesOn
    <2>5. ~IsCanonical'
        BY <2>1, <2>3, <2>4
    <2> QED
        BY <1>1, <1>2, <2>5
<1> QED
    BY <1>1, <1>6, <1>7, <1>8, <1>9, <1>10, <1>11, FaultsOfALine

\* The text ends: canonical if nothing is left over and the comparison holds.
LEMMA EndDecides ==
    ASSUME TextInv
    PROVE  /\ announced # Absent => ~IsCanonical
           /\ announced = Absent => (Serialized = lines <=> IsCanonical)
           /\ SaysWhatIsRead
<1>1. TextTypeOK /\ Sections /\ NoneTwice
    BY DEF TextInv
<1>2. PICK from \in [1..(Len(groups) + 1) -> Nat] : Layout(from)
    BY DEF TextInv, LaidOut
<1>3. ASSUME announced # Absent
      PROVE  ~IsCanonical
    <2>1. section = "announced"
        BY <1>1, <1>3 DEF Sections
    <2>2. Len(lines) # 0 /\ lines[Len(lines)].kind = "predecessor"
        BY <1>1, <1>2, <2>1, LastLine
    <2>3. DOMAIN lines = 1..Len(lines) /\ Len(lines) \in Nat
        BY <1>1, LenProperties DEF TextTypeOK
    <2>4. Len(lines) \in Positions("predecessor")
        BY <2>2, <2>3 DEF Positions
    <2>5. ~At(Len(lines) + 1, "past-manifest")
        BY <2>3 DEF At
    <2> QED
        BY <2>4, <2>5 DEF IsCanonical
<1>4. ASSUME announced = Absent
      PROVE  Serialized = lines <=> IsCanonical
    <2>1. Serialized = lines <=> Spelled /\ TokensRise /\ EntriesRise
        BY <1>1, <1>2, <1>4, ComparisonDecides
    <2>2. IsCanonical => Spelled /\ TokensRise /\ EntriesRise
        BY <1>1, <1>2, CanonicalRises
    <2>3. Spelled /\ TokensRise /\ EntriesRise => IsCanonical
        BY <1>1, <1>2, <1>4, RisingIsCanonical
    <2> QED
        BY <2>1, <2>2, <2>3
<1>5. SaysWhatIsRead
    BY <1>1, <1>2, LayoutSaysWhatIsRead
<1> QED
    BY <1>3, <1>4, <1>5

\* The verdict at the end of a text without a fault.
LEMMA FinishManifestReads ==
    ASSUME TextInv, FinishManifest
    PROVE  /\ reading'.says # "reading" /\ framing' = framing
           /\ framing = "whole"
           /\ IsCanonical' => reading'.says = "accepted" /\ SaysWhatIsRead'
           /\ ~IsCanonical' => reading'.says # "accepted"
<1>1. /\ framing = "whole" /\ framing' = framing /\ lines' = lines
      /\ parents' = parents /\ groups' = groups /\ listed' = listed
      /\ reading' =
             IF announced # Absent
             THEN Outcome("MisplacedRecord", announced.at)
             ELSE IF Serialized = lines THEN Outcome("accepted", 0)
             ELSE Outcome("NonCanonicalSerialization", 0)
    BY DEF FinishManifest
<1>2. IsCanonical' <=> IsCanonical
    BY <1>1 DEF IsCanonical, IsSpelledCanonically, Positions, At, StandsUnder
<1>3. SaysWhatIsRead' <=> SaysWhatIsRead
    BY <1>1 DEF SaysWhatIsRead, At, Places, Positions, SaysGroup, SaysEntry,
                Origin
<1>4. \A says, at : Outcome(says, at).says = says
    BY DEF Outcome
<1>5. CASE announced # Absent
    BY <1>1, <1>2, <1>4, <1>5, EndDecides
<1>6. CASE announced = Absent /\ Serialized = lines
    <2>1. reading' = Outcome("accepted", 0)
        BY <1>1, <1>6
    <2>2. reading'.says = "accepted"
        BY <1>4, <2>1
    <2>3. IsCanonical /\ SaysWhatIsRead
        BY <1>6, EndDecides
    <2> QED
        BY <1>1, <1>2, <1>3, <2>2, <2>3
<1>7. CASE announced = Absent /\ Serialized # lines
    <2>1. reading' = Outcome("NonCanonicalSerialization", 0)
        BY <1>1, <1>7
    <2>2. reading'.says = "NonCanonicalSerialization"
        BY <1>4, <2>1
    <2>3. ~IsCanonical
        BY <1>7, EndDecides
    <2> QED
        BY <1>1, <1>2, <2>2, <2>3
<1> QED
    BY <1>5, <1>6, <1>7

(***************************************************************************)
(* The invariant of the reading, with its verdict once there is one.       *)
(***************************************************************************)
ReadInv ==
    /\ framing \in Framing
    /\ reading.says = "reading" => TextInv
    /\ ReadsTheCanonicalText

\* Nothing is read yet.
LEMMA ReadingStarts ==
    ASSUME ManifestStart, framing \in Framing
    PROVE  ReadInv
<1>1. /\ lines = <<>> /\ section = "start" /\ announced = Absent
      /\ parents = <<>> /\ groups = <<>> /\ listed = <<>>
      /\ reading.says = "reading"
    BY DEF ManifestStart, Outcome
<1>2. TextTypeOK /\ Len(lines) = 0 /\ Len(groups) = 0 /\ Len(listed) = 0
    BY <1>1 DEF TextTypeOK
<1>3. PICK from : from = [n \in 1..1 |-> 0]
    OBVIOUS
<1>4. from \in [1..(Len(groups) + 1) -> Nat] /\ from[1] = 0
      /\ from[Len(groups) + 1] = 0
    BY <1>2, <1>3
<1>5. ParentsFirst = 0 /\ Ahead = 0
    BY <1>1 DEF ParentsFirst, Ahead
<1>6. Layout(from)
    BY <1>1, <1>2, <1>4, <1>5 DEF Layout
<1>7. Sections /\ NoneTwice
    BY <1>1, <1>2 DEF Sections, NoneTwice
<1>8. TextInv
    BY <1>2, <1>4, <1>6, <1>7 DEF TextInv, LaidOut
<1> QED
    BY <1>1, <1>8 DEF ReadInv, ReadsTheCanonicalText

\* Each action: the reading goes on, or the verdict is right.
LEMMA ReadingGoesOn ==
    ASSUME ReadInv, [ManifestNext]_manifestVars
    PROVE  ReadInv'
<1>1. CASE RefuseFraming
    <2>1. framing' = framing /\ framing # "whole"
          /\ reading'.says = framing
        BY <1>1 DEF RefuseFraming, Outcome
    <2>2. framing \notin {"reading", "accepted"} /\ framing \in Framing
        BY DEF ReadInv, Framing
    <2> QED
        BY <2>1, <2>2 DEF ReadInv, ReadsTheCanonicalText
<1>2. ASSUME NEW line \in RecordLine,
             \/ ReadParents(line) \/ ReadPredecessor(line)
             \/ ReadPastManifest(line) \/ ReadPastToken(line)
             \/ ReadEntry(line)
      PROVE  ReadInv'
    <2>1. reading.says = "reading" /\ reading' = reading
          /\ framing' = framing
        BY <1>2 DEF ReadParents, ReadPredecessor, ReadPastManifest,
                    ReadPastToken, ReadEntry, TakesRecord, ReadsRecord
    <2>2. TextInv
        BY <2>1 DEF ReadInv
    <2>3. TextInv'
        BY <1>2, <2>2, ReadParentsStep, ReadPredecessorStep,
           ReadPastManifestStep, ReadPastTokenStep, ReadEntryStep
    <2> QED
        BY <2>1, <2>3 DEF ReadInv, ReadsTheCanonicalText
<1>3. ASSUME NEW line \in RecordLine, RefuseRecord(line)
      PROVE  ReadInv'
    <2>1. TextInv
        BY <1>3 DEF ReadInv, RefuseRecord, ReadsRecord
    <2>2. ~IsCanonical' /\ reading'.says \notin {"accepted", "reading"}
          /\ framing' = framing
        BY <1>3, <2>1, RefusedIsNotCanonical
    <2> QED
        BY <2>2 DEF ReadInv, ReadsTheCanonicalText
<1>4. CASE FinishManifest
    <2>1. TextInv
        BY <1>4 DEF ReadInv, FinishManifest
    <2>2. /\ reading'.says # "reading" /\ framing' = framing
          /\ framing = "whole"
          /\ IsCanonical' => reading'.says = "accepted" /\ SaysWhatIsRead'
          /\ ~IsCanonical' => reading'.says # "accepted"
        BY <1>4, <2>1, FinishManifestReads
    <2> QED
        BY <2>2 DEF ReadInv, ReadsTheCanonicalText, SaysWhatIsRead
<1>5. CASE UNCHANGED manifestVars
    <2>1. /\ framing' = framing /\ lines' = lines /\ section' = section
          /\ announced' = announced /\ parents' = parents
          /\ groups' = groups /\ listed' = listed /\ reading' = reading
        BY <1>5 DEF manifestVars
    <2>2. TextInv => TextInv'
        <3>1. TextTypeOK => TextTypeOK'
            BY <2>1 DEF TextTypeOK
        <3>2. LaidOut => LaidOut'
            BY <2>1 DEF LaidOut, Layout, Ahead, ParentsFirst
        <3>3. Sections => Sections'
            BY <2>1 DEF Sections
        <3>4. NoneTwice => NoneTwice'
            BY <2>1 DEF NoneTwice
        <3> QED
            BY <3>1, <3>2, <3>3, <3>4 DEF TextInv
    <2>3. ReadsTheCanonicalText => ReadsTheCanonicalText'
        BY <2>1 DEF ReadsTheCanonicalText, IsCanonical,
                    IsSpelledCanonically, Positions, At, StandsUnder, Places,
                    SaysGroup, SaysEntry, Origin
    <2> QED
        BY <2>1, <2>2, <2>3 DEF ReadInv
<1> QED
    BY <1>1, <1>2, <1>3, <1>4, <1>5 DEF ManifestNext

(***************************************************************************)
(* For every set of record lines, and texts of any length: a text is       *)
(* accepted exactly if it is canonical, and is read as what its lines say. *)
(* Manifest::parse may compare what it would write with what it read and   *)
(* look for duplicates among neighbours only: no text that is not          *)
(* canonical passes, and no canonical one is refused on the way.           *)
(***************************************************************************)
THEOREM ParsesTheCanonicalText == ManifestSpec => []ReadsTheCanonicalText
<1>1. ManifestStart /\ framing \in Framing => ReadInv
    BY ReadingStarts
<1>2. ReadInv /\ [ManifestNext]_manifestVars => ReadInv'
    BY ReadingGoesOn
<1>3. ReadInv => ReadsTheCanonicalText
    BY DEF ReadInv
<1> QED
    BY <1>1, <1>2, <1>3, PTL DEF ManifestSpec

=============================================================================
