---------------------------- MODULE FoldTheorems ----------------------------
(***************************************************************************)
(* Induction over the natural numbers, with a set in the place of a        *)
(* predicate, and what the folds over sequences that the models are built  *)
(* from come to: a fold is the last of its intermediate values, and what   *)
(* holds of those is shown by counting up.                                 *)
(***************************************************************************)
EXTENDS FiniteSetsExt, SequencesExt, FiniteSetTheorems, TLAPS

Less == {ss \in Nat \X Nat : ss[1] < ss[2]}

(* The order of the natural numbers, as a relation.                       *)
LEMMA LessIsWellFounded == IsWellFoundedOn(Less, Nat)
BY NatLessThanWellFounded DEF OpToRel, Less

(* Some numbers, if any, have a least among them.                          *)
LEMMA LeastOfSome ==
    ASSUME NEW T, T \subseteq Nat, T # {}
    PROVE  \E n \in T : \A m \in T : n <= m
<1>1. PICK n \in T : \A m \in T : ~(<<m, n>> \in Less)
  BY LessIsWellFounded, WFMin
<1>2. \A m \in T : m \in Nat /\ n \in Nat /\ ~(m < n)
  BY <1>1 DEF Less
<1>3. QED
  BY <1>2

(* Induction up to N, over a set instead of a predicate.                   *)
LEMMA CountingTo ==
    ASSUME NEW N \in Nat, NEW S, 0 \in S, \A n \in 0..(N - 1) : n \in S => n + 1 \in S
    PROVE  0..N \subseteq S
<1> DEFINE T == {n \in 0..N : n \notin S}
<1>1. SUFFICES ASSUME T # {}
               PROVE  FALSE
  OBVIOUS
<1>2. T \subseteq Nat
  OBVIOUS
<1>3. PICK n \in T : \A m \in T : n <= m
  <2> HIDE DEF T
  <2>1. QED
    BY <1>1, <1>2, LeastOfSome
<1>4. n \in 0..N /\ n \notin S /\ n # 0
  OBVIOUS
<1>5. n - 1 \in 0..(N - 1) /\ n - 1 \in S /\ (n - 1) + 1 = n
  BY <1>3, <1>4
<1>6. QED
  BY <1>4, <1>5

(* Max of a set with a bound is its greatest member.                       *)
LEMMA MaxOfSome ==
    ASSUME NEW N \in Nat, NEW S, S \subseteq 0..N, S # {}
    PROVE  Max(S) \in S /\ \A m \in S : m <= Max(S)
<1> DEFINE T == {n \in 0..N : N - n \in S}
<1>1. T \subseteq Nat
  OBVIOUS
<1>2. T # {}
  <2>1. PICK m \in S : TRUE
    OBVIOUS
  <2>2. N - m \in 0..N /\ N - (N - m) = m
    OBVIOUS
  <2>3. QED
    BY <2>1, <2>2
<1>3. PICK n \in T : \A m \in T : n <= m
  <2> HIDE DEF T
  <2>1. QED
    BY <1>1, <1>2, LeastOfSome
<1>4. ASSUME NEW m \in S
      PROVE  N - n >= m
  <2>1. N - m \in T
    <3>1. N - m \in 0..N /\ N - (N - m) = m
      OBVIOUS
    <3>2. QED
      BY <3>1
  <2>2. n <= N - m /\ n \in 0..N
    BY <1>3, <2>1
  <2>3. QED
    BY <2>2
<1>5. \E x \in S : \A y \in S : x >= y
  BY <1>3, <1>4
<1>6. Max(S) \in S /\ \A y \in S : Max(S) >= y
  BY <1>5 DEF Max
<1>7. QED
  BY <1>6

(* Min of some numbers is their least.                                     *)
LEMMA MinOfSome ==
    ASSUME NEW S, S \subseteq Nat, S # {}
    PROVE  Min(S) \in S /\ \A m \in S : Min(S) <= m
<1>1. \E n \in S : \A m \in S : n <= m
  BY LeastOfSome
<1>2. QED
  BY <1>1 DEF Min

(* Max of some integers with a bound is the greatest of them.              *)
LEMMA MaxOfBounded ==
    ASSUME NEW S, S \subseteq Int, S # {}, NEW b \in Int, \A m \in S : m <= b
    PROVE  Max(S) \in S /\ \A m \in S : m <= Max(S)
<1> DEFINE T == {n \in Nat : b - n \in S}
<1>1. T # {}
  <2>1. PICK m \in S : TRUE
    OBVIOUS
  <2>2. b - m \in Nat /\ b - (b - m) = m
    BY <2>1
  <2>3. QED
    BY <2>1, <2>2
<1>2. PICK n \in T : \A m \in T : n <= m
  <2>1. T \subseteq Nat
    OBVIOUS
  <2> HIDE DEF T
  <2>2. QED
    BY <1>1, <2>1, LeastOfSome
<1>3. ASSUME NEW m \in S
      PROVE  m <= b - n
  <2>1. b - m \in Nat /\ b - (b - m) = m
    BY <1>3
  <2>2. b - m \in T
    BY <2>1
  <2>3. n <= b - m /\ n \in Nat
    BY <1>2, <2>2
  <2>4. QED
    BY <2>3
<1>4. \E x \in S : \A y \in S : x >= y
  BY <1>2, <1>3
<1>5. Max(S) \in S /\ \A y \in S : Max(S) >= y
  BY <1>4 DEF Max
<1>6. QED
  BY <1>5

(* Finitely many integers have a bound.                                    *)
LEMMA FiniteIsBounded ==
    ASSUME NEW I, IsFiniteSet(I), NEW f \in [I -> Int]
    PROVE  \E b \in Nat : \A i \in I : f[i] <= b
<1> DEFINE N == Cardinality(I)
<1>1. N \in Nat /\ ExistsBijection(1..N, I)
  BY FS_CardinalityType
<1>2. PICK place \in Bijection(1..N, I) : TRUE
  BY <1>1 DEF ExistsBijection
<1>3. place \in [1..N -> I] /\ \A i \in I : \E k \in 1..N : place[k] = i
  BY <1>2 DEF Bijection, Injection, Surjection
<1> HIDE DEF N
<1> DEFINE S == {n \in 0..N : \E b \in Nat : \A k \in 1..n : f[place[k]] <= b}
<1>4. 0 \in S
  BY <1>1
<1>5. ASSUME NEW n \in 0..(N - 1), n \in S
      PROVE  n + 1 \in S
  <2>1. PICK b \in Nat : \A k \in 1..n : f[place[k]] <= b
    BY <1>5
  <2>2. /\ n + 1 \in 1..N /\ n + 1 \in 0..N
        /\ \A k \in 1..(n + 1) : k \in 1..n \/ k = n + 1
        /\ \A k \in 1..n : k \in 1..N
    BY <1>1
  <2>3. f[place[n + 1]] \in Int
    BY <1>3, <2>2
  <2>4. PICK c \in Nat : c >= b /\ c >= f[place[n + 1]]
    <3>1. CASE f[place[n + 1]] >= b
      BY <2>3, <3>1
    <3>2. CASE ~(f[place[n + 1]] >= b)
      BY <2>3, <3>2
    <3>3. QED
      BY <3>1, <3>2
  <2>5. \A k \in 1..(n + 1) : f[place[k]] <= c
    <3>1. \A k \in 1..n : f[place[k]] \in Int
      BY <1>3, <2>2
    <3>2. QED
      BY <2>1, <2>2, <2>3, <2>4, <3>1
  <2>6. QED
    BY <2>2, <2>5
<1>6. N \in S
  <2> HIDE DEF S
  <2>1. 0..N \subseteq S
    BY <1>1, <1>4, <1>5, CountingTo
  <2>2. N \in 0..N
    BY <1>1
  <2>3. QED
    BY <2>1, <2>2
<1>7. QED
  BY <1>3, <1>6

(* What the CHOOSE of MapThenFoldSet asks of its function of index sets.   *)
IsFold(iter, n, base, step) ==
    iter = [s \in SUBSET (1..n) |->
              IF s = {} THEN base ELSE step[<<iter[s \ {Max(s)}], Max(s)>>]]

(* There is such a function.                                               *)
LEMMA FoldExists ==
    ASSUME NEW N \in Nat, NEW D, NEW base \in D, NEW step \in [D \X (1..N) -> D]
    PROVE  \E iter \in [SUBSET (1..N) -> D] : IsFold(iter, N, base, step)
<1> DEFINE S == {n \in 0..N : \E iter \in [SUBSET (1..n) -> D] : IsFold(iter, n, base, step)}
<1>1. 0 \in S
  <2> DEFINE it == [s \in SUBSET (1..0) |-> base]
  <2>1. it \in [SUBSET (1..0) -> D] /\ \A s \in SUBSET (1..0) : s = {}
    OBVIOUS
  <2>2. IsFold(it, 0, base, step)
    BY <2>1 DEF IsFold
  <2>3. QED
    BY <2>1, <2>2
<1>2. ASSUME NEW n \in 0..(N - 1), n \in S
      PROVE  n + 1 \in S
  <2>1. PICK it \in [SUBSET (1..n) -> D] : IsFold(it, n, base, step)
    BY <1>2
  <2> DEFINE next == [s \in SUBSET (1..(n + 1)) |->
                        IF n + 1 \in s THEN step[<<it[s \ {n + 1}], n + 1>>] ELSE it[s]]
  <2>2. ASSUME NEW s \in SUBSET (1..(n + 1)), n + 1 \in s
        PROVE  s \ {n + 1} \in SUBSET (1..n) /\ Max(s) = n + 1 /\ s # {}
    <3>1. \A x \in 1..(n + 1) : x \in 0..(n + 1) /\ (x # n + 1 => x \in 1..n)
      OBVIOUS
    <3>0. s \subseteq 0..(n + 1) /\ s # {} /\ n + 1 \in Nat
      BY <3>1, <2>2
    <3>2. Max(s) \in s /\ \A m \in s : m <= Max(s)
      BY <3>0, MaxOfSome
    <3>3. Max(s) = n + 1
      <4>1. Max(s) \in 1..(n + 1) /\ n + 1 <= Max(s)
        BY <2>2, <3>2
      <4>2. QED
        BY <4>1
    <3>4. QED
      BY <2>2, <3>1, <3>3
  <2>3. ASSUME NEW s \in SUBSET (1..(n + 1)), n + 1 \notin s
        PROVE  s \in SUBSET (1..n) /\ (s # {} => Max(s) \in s /\ s \ {Max(s)} \in SUBSET (1..n))
    <3>1. \A x \in 1..(n + 1) : x \in 0..(n + 1) /\ (x # n + 1 => x \in 1..n)
      OBVIOUS
    <3>0. s \subseteq 0..(n + 1) /\ n + 1 \in Nat
      BY <3>1
    <3>2. s # {} => Max(s) \in s
      BY <3>0, MaxOfSome
    <3>3. QED
      BY <2>3, <3>1, <3>2
  <2>4. next \in [SUBSET (1..(n + 1)) -> D]
    <3>1. n + 1 \in 1..N
      OBVIOUS
    <3>2. QED
      BY <2>2, <2>3, <3>1
  <2>5. ASSUME NEW s \in SUBSET (1..(n + 1))
        PROVE  next[s] = IF s = {} THEN base ELSE step[<<next[s \ {Max(s)}], Max(s)>>]
    <3>1. CASE n + 1 \in s
      <4>1. s \ {n + 1} \in SUBSET (1..(n + 1)) /\ n + 1 \notin s \ {n + 1}
        OBVIOUS
      <4>2. next[s \ {n + 1}] = it[s \ {n + 1}]
        BY <4>1
      <4>3. next[s] = step[<<it[s \ {n + 1}], n + 1>>]
        BY <3>1
      <4>4. QED
        BY <2>2, <3>1, <4>2, <4>3
    <3>2. CASE n + 1 \notin s
      <4>1. next[s] = it[s]
        BY <3>2
      <4>2. it[s] = IF s = {} THEN base ELSE step[<<it[s \ {Max(s)}], Max(s)>>]
        BY <2>1, <2>3, <3>2 DEF IsFold
      <4>3. s # {} => next[s \ {Max(s)}] = it[s \ {Max(s)}]
        BY <2>3, <3>2
      <4>4. QED
        BY <4>1, <4>2, <4>3
    <3>3. QED
      BY <3>1, <3>2
  <2> HIDE DEF next
  <2>6. IsFold(next, n + 1, base, step)
    BY <2>4, <2>5 DEF IsFold
  <2>7. QED
    BY <2>4, <2>6
<1> HIDE DEF S
<1>3. 0..N \subseteq S
  BY <1>1, <1>2, CountingTo
<1>4. N \in 0..N
  OBVIOUS
<1>5. N \in S
  BY <1>3, <1>4
<1>6. QED
  BY <1>5 DEF S

(* The index sets a fold over a sequence comes through.                    *)
LEMMA IndexSets ==
    ASSUME NEW N \in Nat
    PROVE  /\ 1..0 = {}
           /\ \A k \in 0..N : 1..k \in SUBSET (1..N)
           /\ \A k \in 0..(N - 1) :
                 /\ k + 1 \in 1..N /\ k + 1 \in 0..N /\ k \in 0..N
                 /\ 1..(k + 1) # {} /\ Max(1..(k + 1)) = k + 1
                 /\ (1..(k + 1)) \ {k + 1} = 1..k
<1>1. 1..0 = {} /\ \A k \in 0..N : 1..k \in SUBSET (1..N)
  OBVIOUS
<1>2. ASSUME NEW k \in 0..(N - 1)
      PROVE  Max(1..(k + 1)) = k + 1
  <2>1. k + 1 \in Nat /\ 1..(k + 1) \subseteq 0..(k + 1) /\ k + 1 \in 1..(k + 1)
    OBVIOUS
  <2>2. Max(1..(k + 1)) \in 1..(k + 1) /\ k + 1 <= Max(1..(k + 1))
    BY <2>1, MaxOfSome
  <2>3. QED
    BY <2>1, <2>2
<1>3. ASSUME NEW k \in 0..(N - 1)
      PROVE  /\ k + 1 \in 1..N /\ k + 1 \in 0..N /\ k \in 0..N
             /\ 1..(k + 1) # {}
             /\ (1..(k + 1)) \ {k + 1} = 1..k
  <2>1. k + 1 \in 1..N /\ k + 1 \in 0..N /\ k \in 0..N /\ k + 1 \in 1..(k + 1)
    OBVIOUS
  <2>2. \A x : x \in (1..(k + 1)) \ {k + 1} <=> x \in 1..k
    OBVIOUS
  <2>3. QED
    BY <2>1, <2>2
<1>4. QED
  BY <1>1, <1>2, <1>3

-----------------------------------------------------------------------------
(* Sequences                                                               *)

LEMMA SequenceOfOne ==
    ASSUME NEW S, NEW x \in S
    PROVE  <<x>> \in Seq(S) /\ Len(<<x>>) = 1 /\ <<x>>[1] = x
OBVIOUS

LEMMA Joined ==
    ASSUME NEW S, NEW a \in Seq(S), NEW b \in Seq(S)
    PROVE  /\ a \o b \in Seq(S)
           /\ Len(a \o b) = Len(a) + Len(b)
           /\ \A k \in 1..(Len(a) + Len(b)) :
                 (a \o b)[k] = IF k <= Len(a) THEN a[k] ELSE b[k - Len(a)]
OBVIOUS

LEMMA Inserted ==
    ASSUME NEW S, NEW s \in Seq(S), NEW i \in 1..(Len(s) + 1), NEW e \in S
    PROVE  /\ InsertAt(s, i, e) \in Seq(S)
           /\ Len(InsertAt(s, i, e)) = Len(s) + 1
           /\ \A k \in 1..(Len(s) + 1) : InsertAt(s, i, e)[k] =
                 IF k < i THEN s[k] ELSE IF k = i THEN e ELSE s[k - 1]
<1> DEFINE a == SubSeq(s, 1, i - 1)
           b == SubSeq(s, i, Len(s))
           ae == a \o <<e>>
<1>1. /\ a \in Seq(S) /\ Len(a) = i - 1
      /\ \A k \in 1..(i - 1) : a[k] = s[k]
  OBVIOUS
<1>2. /\ b \in Seq(S) /\ Len(b) = Len(s) - i + 1
      /\ \A k \in 1..(Len(s) - i + 1) : b[k] = s[i + k - 1]
  OBVIOUS
<1>3. InsertAt(s, i, e) = ae \o b
  BY DEF InsertAt
<1>4. i \in Nat /\ Len(s) \in Nat /\ 1 <= i
  OBVIOUS
<1> HIDE DEF a, b
<1>5. /\ ae \in Seq(S) /\ Len(ae) = i
      /\ \A k \in 1..i : ae[k] = IF k < i THEN s[k] ELSE e
  BY <1>1, <1>4
<1> HIDE DEF ae
<1>6. /\ ae \o b \in Seq(S) /\ Len(ae \o b) = Len(s) + 1
      /\ \A k \in 1..(Len(s) + 1) : (ae \o b)[k] = IF k <= i THEN ae[k] ELSE b[k - i]
  <2>1. /\ ae \o b \in Seq(S) /\ Len(ae \o b) = Len(ae) + Len(b)
        /\ \A k \in 1..(Len(ae) + Len(b)) :
              (ae \o b)[k] = IF k <= Len(ae) THEN ae[k] ELSE b[k - Len(ae)]
    BY <1>2, <1>5, Joined
  <2>2. Len(ae) = i /\ Len(ae) + Len(b) = Len(s) + 1
    BY <1>2, <1>4, <1>5
  <2>3. QED
    BY <2>1, <2>2
<1>7. ASSUME NEW k \in 1..(Len(s) + 1)
      PROVE  (ae \o b)[k] = IF k < i THEN s[k] ELSE IF k = i THEN e ELSE s[k - 1]
  <2>1. CASE k <= i
    BY <1>4, <1>5, <1>6, <2>1
  <2>2. CASE ~(k <= i)
    <3>1. k - i \in 1..(Len(s) - i + 1) /\ i + (k - i) - 1 = k - 1 /\ ~(k < i) /\ k # i
      BY <1>4, <2>2
    <3>2. b[k - i] = s[k - 1]
      BY <1>2, <3>1
    <3>3. QED
      BY <1>6, <2>2, <3>1, <3>2
  <2>3. QED
    BY <2>1, <2>2
<1>8. QED
  BY <1>3, <1>6, <1>7

=============================================================================
