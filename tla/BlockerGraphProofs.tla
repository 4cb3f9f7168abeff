------------------------- MODULE BlockerGraphProofs -------------------------
(***************************************************************************)
(* Proofs about BlockerGraph, for any number of sessions, objects, edges   *)
(* and numbered sessions.  Three of its operators are folds: what a fold   *)
(* computes is given by its intermediate values, and what holds of them is *)
(* shown by counting up.                                                   *)
(***************************************************************************)
EXTENDS BlockerGraph, FoldTheorems

-----------------------------------------------------------------------------
(* The closure                                                             *)

Pairs == Backends \X Backends

Transitive(T) == \A x, y, z \in Backends : <<x, y>> \in T /\ <<y, z>> \in T => <<x, z>> \in T

(* The pivots, one after the other: every session is one.                  *)
LEMMA ClosureSteps ==
    ASSUME NEW edges \in SUBSET Pairs
    PROVE  LET N == Cardinality(Backends) IN
           /\ N \in Nat
           /\ \E pivots \in [1..N -> Backends], adj \in [0..N -> SUBSET Pairs] :
                /\ \A b \in Backends : \E i \in 1..N : pivots[i] = b
                /\ adj[0] = edges
                /\ \A k \in 0..(N - 1) : adj[k + 1] = Pivot(adj[k], pivots[k + 1])
                /\ Closure(edges) = adj[N]
<1> DEFINE N == Cardinality(Backends)
           pivots == SetToSeq(Backends)
<1>1. N \in Nat /\ ExistsBijection(1..N, Backends)
  BY BackendsAssumption, FS_CardinalityType
<1>2. /\ pivots \in [1..N -> Backends]
      /\ \A b \in Backends : \E i \in 1..N : pivots[i] = b
  <2>1. \E f \in [1..N -> Backends] : IsInjective(f)
    <3>1. PICK f \in Bijection(1..N, Backends) : TRUE
      BY <1>1 DEF ExistsBijection
    <3>2. f \in [1..N -> Backends] /\ \A i, j \in 1..N : f[i] = f[j] => i = j
      BY <3>1 DEF Bijection, Injection, IsInjective
    <3>3. IsInjective(f)
      BY <3>2 DEF IsInjective
    <3>4. QED
      BY <3>2, <3>3
  <2>2. pivots \in [1..N -> Backends] /\ IsInjective(pivots)
    <3> HIDE DEF N
    <3>1. pivots = CHOOSE f \in [1..N -> Backends] : IsInjective(f)
      BY DEF SetToSeq, N
    <3>2. QED
      BY <2>1, <3>1
  <2>3. pivots \in Injection(1..N, Backends)
    BY <2>2 DEF Injection
  <2>4. IsFiniteSet(1..N) /\ Cardinality(1..N) = N
    BY <1>1, FS_Interval
  <2>5. pivots \in Surjection(1..N, Backends)
    <3> HIDE DEF pivots
    <3>1. QED
      BY <2>3, <2>4, BackendsAssumption, FS_Injection
  <2>6. QED
    BY <2>2, <2>5 DEF Surjection
<1> HIDE DEF pivots
<1> DEFINE step == [p \in (SUBSET Pairs) \X (1..N) |-> Pivot(p[1], pivots[p[2]])]
           IsIter(iter) == iter = [s \in SUBSET (1..N) |->
                             IF s = {} THEN edges
                             ELSE Pivot(iter[s \ {Max(s)}], pivots[Max(s)])]
           final == CHOOSE iter : IsIter(iter)
           adj == [k \in 0..N |-> final[1..k]]
<1> HIDE DEF N
<1>3. step \in [(SUBSET Pairs) \X (1..N) -> SUBSET Pairs]
  BY DEF Pivot, Pairs
<1>4. \E iter : IsIter(iter)
  <2>1. PICK iter \in [SUBSET (1..N) -> SUBSET Pairs] : IsFold(iter, N, edges, step)
    <3> HIDE DEF step
    <3>1. QED
      BY <1>1, <1>3, FoldExists
  <2>2. ASSUME NEW s \in SUBSET (1..N), s # {}
        PROVE  step[<<iter[s \ {Max(s)}], Max(s)>>] = Pivot(iter[s \ {Max(s)}], pivots[Max(s)])
    <3>1. s \subseteq 0..N
      BY <1>1
    <3>2. Max(s) \in s
      BY <1>1, <2>2, <3>1, MaxOfSome
    <3>3. QED
      BY <3>2
  <2>3. IsIter(iter)
    <3> HIDE DEF step
    <3>1. QED
      BY <2>1, <2>2 DEF IsFold
  <2>4. QED
    BY <2>3
<1>5. IsIter(final)
  BY <1>4
<1>6. Closure(edges) = final[1..N]
  BY <1>2, Zenon DEF Closure, FoldLeft, MapThenFoldSet, pivots
<1> HIDE DEF final
<1>7. /\ adj[0] = edges
      /\ \A k \in 0..(N - 1) : adj[k + 1] = Pivot(adj[k], pivots[k + 1])
      /\ adj[N] = Closure(edges)
  <2>1. adj[0] = edges
    BY <1>1, <1>5, IndexSets
  <2>2. ASSUME NEW k \in 0..(N - 1)
        PROVE  adj[k + 1] = Pivot(adj[k], pivots[k + 1])
    <3>1. /\ 1..(k + 1) \in SUBSET (1..N) /\ 1..(k + 1) # {}
          /\ Max(1..(k + 1)) = k + 1 /\ (1..(k + 1)) \ {k + 1} = 1..k
          /\ k \in 0..N /\ k + 1 \in 0..N
      BY <1>1, IndexSets
    <3>2. final[1..(k + 1)] = Pivot(final[1..k], pivots[k + 1])
      BY <1>5, <3>1
    <3>3. QED
      BY <3>1, <3>2
  <2>3. adj[N] = Closure(edges)
    <3>1. N \in 0..N
      BY <1>1
    <3>2. QED
      BY <1>6, <3>1
  <2> HIDE DEF adj
  <2>4. QED
    BY <2>1, <2>2, <2>3
<1>8. adj \in [0..N -> SUBSET Pairs]
  <2> DEFINE S == {k \in 0..N : adj[k] \in SUBSET Pairs}
  <2> HIDE DEF adj
  <2>1. 0 \in S
    BY <1>1, <1>7
  <2>2. ASSUME NEW k \in 0..(N - 1), k \in S
        PROVE  k + 1 \in S
    <3>1. k + 1 \in 0..N
      BY <1>1, IndexSets
    <3>2. adj[k + 1] = Pivot(adj[k], pivots[k + 1])
      BY <1>7
    <3>3. adj[k + 1] \in SUBSET Pairs
      BY <2>2, <3>2 DEF Pivot, Pairs
    <3>4. QED
      BY <3>1, <3>3
  <2> HIDE DEF S
  <2>3. 0..N \subseteq S
    BY <1>1, <2>1, <2>2, CountingTo
  <2>4. \A k \in 0..N : adj[k] \in SUBSET Pairs
    BY <2>3 DEF S
  <2>5. adj = [k \in 0..N |-> adj[k]]
    BY DEF adj
  <2>6. QED
    BY <2>4, <2>5
<1> HIDE DEF adj
<1>9. QED
  BY <1>1, <1>2, <1>7, <1>8 DEF N

(* Warshall's invariant: what can be joined at a pivot that was taken, is. *)
JoinedAt(adj, v) ==
    \A x, y \in Backends : <<x, v>> \in adj /\ <<v, y>> \in adj => <<x, y>> \in adj

LEMMA PivotJoins ==
    ASSUME NEW adj \in SUBSET Pairs, NEW v \in Backends
    PROVE  /\ adj \subseteq Pivot(adj, v) /\ JoinedAt(Pivot(adj, v), v)
           /\ \A u \in Backends : JoinedAt(adj, u) => JoinedAt(Pivot(adj, v), u)
<1>1. \A x, y \in Backends :
         <<x, y>> \in Pivot(adj, v) <=> <<x, y>> \in adj \/ (<<x, v>> \in adj /\ <<v, y>> \in adj)
  BY DEF Pivot
<1>2. adj \subseteq Pivot(adj, v)
  BY DEF Pivot
<1> HIDE DEF Pivot
<1>3. JoinedAt(Pivot(adj, v), v)
  BY <1>1 DEF JoinedAt
<1>4. ASSUME NEW u \in Backends, JoinedAt(adj, u)
      PROVE  JoinedAt(Pivot(adj, v), u)
  BY <1>1, <1>4 DEF JoinedAt
<1>5. QED
  BY <1>2, <1>3, <1>4

(* The closure is transitive and contains the edges.                       *)
LEMMA ClosureIsTransitive ==
    ASSUME NEW edges \in SUBSET Pairs
    PROVE  /\ Closure(edges) \in SUBSET Pairs
           /\ edges \subseteq Closure(edges)
           /\ Transitive(Closure(edges))
<1> DEFINE N == Cardinality(Backends)
<1>1. PICK pivots \in [1..N -> Backends], adj \in [0..N -> SUBSET Pairs] :
         /\ \A b \in Backends : \E i \in 1..N : pivots[i] = b
         /\ adj[0] = edges
         /\ \A k \in 0..(N - 1) : adj[k + 1] = Pivot(adj[k], pivots[k + 1])
         /\ Closure(edges) = adj[N]
  BY ClosureSteps
<1>2. N \in Nat
  BY ClosureSteps
<1> DEFINE S == {k \in 0..N : edges \subseteq adj[k] /\ \A i \in 1..k : JoinedAt(adj[k], pivots[i])}
<1> HIDE DEF N
<1>3. 0 \in S
  BY <1>1, <1>2
<1>4. ASSUME NEW k \in 0..(N - 1), k \in S
      PROVE  k + 1 \in S
  <2>1. k \in 0..N /\ k + 1 \in 1..N /\ k + 1 \in 0..N
    BY <1>2
  <2>2. adj[k] \in SUBSET Pairs /\ pivots[k + 1] \in Backends
    BY <1>1, <2>1
  <2>3. adj[k + 1] = Pivot(adj[k], pivots[k + 1])
    BY <1>1
  <2>4. edges \subseteq adj[k + 1] /\ JoinedAt(adj[k + 1], pivots[k + 1])
    BY <1>4, <2>2, <2>3, PivotJoins
  <2>5. ASSUME NEW i \in 1..k
        PROVE  JoinedAt(adj[k + 1], pivots[i])
    <3>1. JoinedAt(adj[k], pivots[i]) /\ i \in 1..N
      BY <1>2, <1>4
    <3>2. pivots[i] \in Backends
      BY <1>1, <3>1
    <3>3. QED
      BY <2>2, <2>3, <3>1, <3>2, PivotJoins
  <2>6. \A i \in 1..(k + 1) : i = k + 1 \/ i \in 1..k
    BY <2>1
  <2>7. \A i \in 1..(k + 1) : JoinedAt(adj[k + 1], pivots[i])
    BY <2>4, <2>5, <2>6
  <2>8. QED
    BY <2>1, <2>4, <2>7
<1>5. N \in S
  <2> HIDE DEF S
  <2>1. 0..N \subseteq S
    BY <1>2, <1>3, <1>4, CountingTo
  <2>2. N \in 0..N
    BY <1>2
  <2>3. QED
    BY <2>1, <2>2
<1>6. edges \subseteq adj[N] /\ \A i \in 1..N : JoinedAt(adj[N], pivots[i])
  BY <1>5
<1>7. Transitive(adj[N])
  BY <1>1, <1>6 DEF Transitive, JoinedAt
<1>8. adj[N] \in SUBSET Pairs
  BY <1>1, <1>2
<1>9. QED
  BY <1>1, <1>6, <1>7, <1>8

(* It is the least such relation.                                          *)
LEMMA ClosureIsLeast ==
    ASSUME NEW edges \in SUBSET Pairs, NEW T, edges \subseteq T, Transitive(T)
    PROVE  Closure(edges) \subseteq T
<1> DEFINE N == Cardinality(Backends)
<1>1. PICK pivots \in [1..N -> Backends], adj \in [0..N -> SUBSET Pairs] :
         /\ adj[0] = edges
         /\ \A k \in 0..(N - 1) : adj[k + 1] = Pivot(adj[k], pivots[k + 1])
         /\ Closure(edges) = adj[N]
  BY ClosureSteps
<1>2. N \in Nat
  BY ClosureSteps
<1> DEFINE S == {k \in 0..N : adj[k] \subseteq T}
<1> HIDE DEF N
<1>3. 0 \in S
  BY <1>1, <1>2
<1>4. ASSUME NEW k \in 0..(N - 1), k \in S
      PROVE  k + 1 \in S
  <2>1. k + 1 \in 1..N /\ k + 1 \in 0..N
    BY <1>2
  <2>2. pivots[k + 1] \in Backends
    BY <1>1, <2>1
  <2>3. adj[k + 1] = Pivot(adj[k], pivots[k + 1]) /\ adj[k] \subseteq T
    BY <1>1, <1>4
  <2>4. ASSUME NEW e \in Pivot(adj[k], pivots[k + 1])
        PROVE  e \in T
    <3>1. CASE e \in adj[k]
      BY <2>3, <3>1
    <3>2. CASE e \notin adj[k]
      <4>1. e \in Pairs /\ <<e[1], pivots[k + 1]>> \in T /\ <<pivots[k + 1], e[2]>> \in T
        BY <2>3, <3>2 DEF Pivot, Pairs
      <4>2. e[1] \in Backends /\ e[2] \in Backends /\ e = <<e[1], e[2]>>
        BY <4>1 DEF Pairs
      <4>3. <<e[1], e[2]>> \in T
        BY <2>2, <4>1, <4>2 DEF Transitive
      <4>4. QED
        BY <4>2, <4>3
    <3>3. QED
      BY <3>1, <3>2
  <2>5. QED
    BY <2>1, <2>3, <2>4
<1>5. N \in S
  <2> HIDE DEF S
  <2>1. 0..N \subseteq S
    BY <1>2, <1>3, <1>4, CountingTo
  <2>2. N \in 0..N
    BY <1>2
  <2>3. QED
    BY <2>1, <2>2
<1>6. QED
  BY <1>1, <1>5

(* More edges, more cycles.                                                *)
LEMMA CycleOfMore ==
    ASSUME NEW few \in SUBSET Pairs, NEW many \in SUBSET Pairs, few \subseteq many, HasCycle(few)
    PROVE  HasCycle(many)
<1>1. Closure(few) \subseteq Closure(many)
  <2>1. few \subseteq Closure(many) /\ Transitive(Closure(many))
    BY ClosureIsTransitive
  <2>2. QED
    BY <2>1, ClosureIsLeast
<1>2. QED
  BY <1>1 DEF HasCycle

(* The way from x to y begins with an edge.                                *)
LEMMA FirstEdge ==
    ASSUME NEW edges \in SUBSET Pairs, NEW x \in Backends, NEW y \in Backends,
           <<x, y>> \in Closure(edges)
    PROVE  \E c \in Backends : <<x, c>> \in edges /\ (c = y \/ <<c, y>> \in Closure(edges))
<1> DEFINE C == Closure(edges)
           T == {e \in Pairs : \E c \in Backends :
                    <<e[1], c>> \in edges /\ (c = e[2] \/ <<c, e[2]>> \in C)}
<1>1. C \in SUBSET Pairs /\ edges \subseteq C /\ Transitive(C)
  BY ClosureIsTransitive
<1> HIDE DEF C
<1>2. \A u, v \in Backends : <<u, v>> \in T <=>
         \E c \in Backends : <<u, c>> \in edges /\ (c = v \/ <<c, v>> \in C)
  BY DEF Pairs
<1>3. edges \subseteq T
  <2>1. ASSUME NEW e \in edges
        PROVE  e \in T
    <3>1. e \in Pairs /\ e = <<e[1], e[2]>> /\ e[2] \in Backends
      BY DEF Pairs
    <3>2. QED
      BY <3>1
  <2>2. QED
    BY <2>1
<1> HIDE DEF T
<1>4. Transitive(T)
  <2> SUFFICES ASSUME NEW u \in Backends, NEW v \in Backends, NEW w \in Backends,
                      <<u, v>> \in T, <<v, w>> \in T
               PROVE  <<u, w>> \in T
    BY DEF Transitive
  <2>1. PICK c \in Backends : <<u, c>> \in edges /\ (c = v \/ <<c, v>> \in C)
    BY <1>2
  <2>2. <<v, w>> \in C
    <3>1. PICK d \in Backends : <<v, d>> \in edges /\ (d = w \/ <<d, w>> \in C)
      BY <1>2
    <3>2. <<v, d>> \in C
      BY <1>1, <3>1
    <3>3. QED
      BY <1>1, <3>1, <3>2 DEF Transitive
  <2>3. <<c, w>> \in C
    BY <1>1, <2>1, <2>2 DEF Transitive
  <2>4. QED
    BY <1>2, <2>1, <2>3
<1>5. C \subseteq T
  BY <1>3, <1>4, ClosureIsLeast DEF C
<1>6. <<x, y>> \in T
  BY <1>5 DEF C
<1>7. QED
  BY <1>2, <1>6 DEF C

(* A cycle is a set of sessions that wait for each other.                  *)
LEMMA CycleIffDeadlocked ==
    ASSUME NEW edges \in SUBSET Pairs
    PROVE  HasCycle(edges) <=> \E S \in SUBSET Backends : Deadlocked(edges, S)
<1> DEFINE C == Closure(edges)
<1>1. C \in SUBSET Pairs /\ edges \subseteq C /\ Transitive(C)
  BY ClosureIsTransitive
<1>2. ASSUME HasCycle(edges)
      PROVE  \E S \in SUBSET Backends : Deadlocked(edges, S)
  <2>1. PICK b \in Backends : <<b, b>> \in C
    BY <1>2 DEF HasCycle
  <2> DEFINE S == {x \in Backends : <<b, x>> \in C /\ <<x, b>> \in C}
  <2>2. ASSUME NEW x \in S
        PROVE  \E c \in S : <<x, c>> \in edges
    <3>1. PICK c \in Backends : <<x, c>> \in edges /\ (c = b \/ <<c, b>> \in C)
      BY FirstEdge
    <3>2. <<x, c>> \in C /\ <<b, x>> \in C
      BY <1>1, <3>1
    <3> HIDE DEF C
    <3>3. <<b, c>> \in C /\ <<c, b>> \in C
      BY <1>1, <2>1, <3>1, <3>2 DEF Transitive
    <3>4. QED
      BY <3>1, <3>3
  <2>3. S \in SUBSET Backends /\ b \in S
    BY <2>1
  <2>4. Deadlocked(edges, S)
    BY <2>2, <2>3 DEF Deadlocked
  <2>5. QED
    BY <2>3, <2>4
<1>3. ASSUME NEW S \in SUBSET Backends, Deadlocked(edges, S), ~HasCycle(edges)
      PROVE  FALSE
  <2> DEFINE After(x) == {y \in S : <<x, y>> \in C}
             Sizes == {n \in Nat : \E x \in S : n = Cardinality(After(x))}
  <2>1. \A x \in Backends : <<x, x>> \notin C
    BY <1>3 DEF HasCycle
  <2> HIDE DEF C
  <2>2. \A x \in S : IsFiniteSet(After(x)) /\ Cardinality(After(x)) \in Nat
    <3> TAKE x \in S
    <3>1. After(x) \in SUBSET Backends
      OBVIOUS
    <3> HIDE DEF After
    <3>2. IsFiniteSet(After(x))
      BY <3>1, BackendsAssumption, FS_Subset
    <3>3. QED
      BY <3>2, FS_CardinalityType
  <2>3. Sizes \subseteq Nat /\ Sizes # {}
    BY <1>3, <2>2 DEF Deadlocked
  <2>4. PICK n \in Sizes : \A m \in Sizes : n <= m
    <3> HIDE DEF Sizes
    <3>1. QED
      BY <2>3, LeastOfSome
  <2>5. PICK x \in S : n = Cardinality(After(x))
    OBVIOUS
  <2>6. PICK y \in S : <<x, y>> \in edges
    BY <1>3 DEF Deadlocked
  <2>7. <<x, y>> \in C /\ x \in Backends /\ y \in Backends
    BY <1>1, <2>6
  <2>8. After(y) \subseteq After(x)
    BY <1>1, <2>7 DEF Transitive
  <2>9. y \in After(x) /\ y \notin After(y)
    BY <2>1, <2>7
  <2>10. Cardinality(After(y)) \in Sizes
    BY <2>2
  <2> HIDE DEF After
  <2>11. n <= Cardinality(After(y))
    <3> HIDE DEF Sizes
    <3>1. QED
      BY <2>4, <2>10
  <2>12. /\ Cardinality(After(y)) <= Cardinality(After(x))
         /\ Cardinality(After(x)) = Cardinality(After(y)) => After(x) = After(y)
    <3>1. IsFiniteSet(After(x)) /\ After(y) \in SUBSET After(x)
      BY <2>2, <2>8
    <3>2. QED
      BY <3>1, FS_Subset
  <2>13. Cardinality(After(x)) = Cardinality(After(y))
    BY <2>2, <2>5, <2>11, <2>12
  <2>14. QED
    BY <2>9, <2>12, <2>13
<1>4. QED
  BY <1>2, <1>3


-----------------------------------------------------------------------------
(* Scans and the parts of them that get numbers                            *)

LEMMA PairsAreFinite ==
    ASSUME NEW edges \in SUBSET Pairs
    PROVE  IsFiniteSet(edges) /\ Cardinality(edges) \in Nat
<1>1. IsFiniteSet(Pairs)
  BY BackendsAssumption, FS_Product DEF Pairs
<1>2. QED
  BY <1>1, FS_Subset, FS_CardinalityType

(* A scan finds edges of the lock table, one at least if there is one.     *)
LEMMA ScanFindsEdges ==
    ASSUME NEW edges \in Scans
    PROVE  /\ AllEdges \in SUBSET Pairs
           /\ edges \in SUBSET AllEdges
           /\ AllEdges # {} => edges # {}
<1>1. AllEdges \in SUBSET Pairs
  BY DEF AllEdges, Pairs
<1>2. CASE Cardinality(AllEdges) <= MaxEdges
  BY <1>1, <1>2 DEF Scans
<1>3. CASE ~(Cardinality(AllEdges) <= MaxEdges)
  <2>1. edges \in SUBSET AllEdges /\ Cardinality(edges) = MaxEdges
    BY <1>3 DEF Scans, kSubset
  <2>2. edges # {}
    BY <2>1, LimitsAssumption, FS_EmptySet
  <2>3. QED
    BY <1>1, <2>1, <2>2
<1>4. QED
  BY <1>2, <1>3

Numberings == [pids : SUBSET Backends, edges : SUBSET Pairs]

NoTable == [pids |-> {}, edges |-> {}]

LEMMA NumberEdgeType ==
    ASSUME NEW table \in Numberings, NEW e \in Pairs
    PROVE  /\ NumberEdge(table, e) \in Numberings
           /\ table.edges \subseteq NumberEdge(table, e).edges
           /\ NumberEdge(table, e).edges \subseteq table.edges \cup {e}
<1>1. table.pids \in SUBSET Backends /\ table.edges \in SUBSET Pairs
  BY DEF Numberings
<1>2. e[1] \in Backends /\ e[2] \in Backends
  BY DEF Pairs
<1>3. \A pids \in SUBSET Backends, b \in Backends : Number(pids, b) \in SUBSET Backends
  BY DEF Number
<1> DEFINE blocked == Number(table.pids, e[1])
           both == IF e[1] \in blocked THEN Number(blocked, e[2]) ELSE blocked
           more == IF {e[1], e[2]} \subseteq both THEN table.edges \cup {e} ELSE table.edges
<1>4. both \in SUBSET Backends
  BY <1>1, <1>2, <1>3
<1>5. NumberEdge(table, e) = [pids |-> both, edges |-> more]
  BY DEF NumberEdge
<1> HIDE DEF both
<1>6. more \in SUBSET Pairs /\ table.edges \subseteq more /\ more \subseteq table.edges \cup {e}
  BY <1>1
<1> HIDE DEF more
<1>7. QED
  BY <1>4, <1>5, <1>6 DEF Numberings

(* The table of numbers after each edge of the list.                       *)
LEMMA NumberedSteps ==
    ASSUME NEW N \in Nat, NEW list \in [1..N -> Pairs]
    PROVE  \E tables \in [0..N -> Numberings] :
              /\ tables[0] = NoTable
              /\ \A k \in 0..(N - 1) : tables[k + 1] = NumberEdge(tables[k], list[k + 1])
              /\ Numbered(list) = tables[N].edges
<1> DEFINE step == [p \in Numberings \X (1..N) |-> NumberEdge(p[1], list[p[2]])]
           IsIter(iter) == iter = [s \in SUBSET (1..N) |->
                             IF s = {} THEN NoTable
                             ELSE NumberEdge(iter[s \ {Max(s)}], list[Max(s)])]
           final == CHOOSE iter : IsIter(iter)
           tables == [k \in 0..N |-> final[1..k]]
<1>1. NoTable \in Numberings
  BY DEF NoTable, Numberings
<1>2. step \in [Numberings \X (1..N) -> Numberings]
  BY NumberEdgeType
<1>3. \E iter : IsIter(iter)
  <2>1. PICK iter \in [SUBSET (1..N) -> Numberings] : IsFold(iter, N, NoTable, step)
    <3> HIDE DEF step
    <3>1. QED
      BY <1>1, <1>2, FoldExists
  <2>2. ASSUME NEW s \in SUBSET (1..N), s # {}
        PROVE  step[<<iter[s \ {Max(s)}], Max(s)>>] = NumberEdge(iter[s \ {Max(s)}], list[Max(s)])
    <3>1. s \subseteq 0..N
      OBVIOUS
    <3>2. Max(s) \in s
      BY <2>2, <3>1, MaxOfSome
    <3>3. QED
      BY <3>2
  <2>3. IsIter(iter)
    <3> HIDE DEF step
    <3>1. QED
      BY <2>1, <2>2 DEF IsFold
  <2>4. QED
    BY <2>3
<1>4. IsIter(final)
  BY <1>3
<1>5. Numbered(list) = final[1..N].edges
  <2>1. DOMAIN list = 1..N
    OBVIOUS
  <2>2. QED
    BY <2>1, Zenon DEF Numbered, FoldLeft, MapThenFoldSet, NoTable
<1> HIDE DEF final
<1>6. tables[0] = NoTable
  BY <1>4, IndexSets
<1>7. ASSUME NEW k \in 0..(N - 1)
      PROVE  tables[k + 1] = NumberEdge(tables[k], list[k + 1])
  <2>1. /\ 1..(k + 1) \in SUBSET (1..N) /\ 1..(k + 1) # {}
        /\ Max(1..(k + 1)) = k + 1 /\ (1..(k + 1)) \ {k + 1} = 1..k
        /\ k \in 0..N /\ k + 1 \in 0..N
    BY IndexSets
  <2>2. final[1..(k + 1)] = NumberEdge(final[1..k], list[k + 1])
    BY <1>4, <2>1
  <2>3. QED
    BY <2>1, <2>2
<1>8. Numbered(list) = tables[N].edges
  <2>1. N \in 0..N
    OBVIOUS
  <2>2. QED
    BY <1>5, <2>1
<1>9. tables \in [0..N -> Numberings]
  <2> DEFINE S == {k \in 0..N : tables[k] \in Numberings}
  <2> HIDE DEF tables
  <2>1. 0 \in S
    BY <1>1, <1>6
  <2>2. ASSUME NEW k \in 0..(N - 1), k \in S
        PROVE  k + 1 \in S
    <3>1. k + 1 \in 0..N /\ list[k + 1] \in Pairs
      BY IndexSets
    <3>2. tables[k + 1] \in Numberings
      BY <1>7, <2>2, <3>1, NumberEdgeType
    <3>3. QED
      BY <3>1, <3>2
  <2> HIDE DEF S
  <2>3. 0..N \subseteq S
    BY <2>1, <2>2, CountingTo
  <2>4. \A k \in 0..N : tables[k] \in Numberings
    BY <2>3 DEF S
  <2>5. tables = [k \in 0..N |-> tables[k]]
    BY DEF tables
  <2>6. QED
    BY <2>4, <2>5
<1> HIDE DEF tables
<1>10. QED
  BY <1>6, <1>7, <1>8, <1>9

(* The first edge of a list gets its two numbers.                          *)
LEMMA FirstIsNumbered ==
    ASSUME NEW e \in Pairs
    PROVE  e \in NumberEdge(NoTable, e).edges
<1>1. Cardinality({}) = 0 /\ Cardinality({e[1]}) = 1
  BY FS_EmptySet, FS_Singleton
<1>2. MaxPids \in Nat /\ 0 < MaxPids /\ 1 < MaxPids
  BY LimitsAssumption
<1>3. Number({}, e[1]) = {e[1]}
  BY <1>1, <1>2 DEF Number
<1>4. Number({e[1]}, e[2]) = {e[1], e[2]}
  BY <1>1, <1>2 DEF Number
<1>5. QED
  BY <1>3, <1>4 DEF NumberEdge, NoTable

(* What is numbered is part of the scan, and not empty unless that is.     *)
LEMMA PartOfScan ==
    ASSUME NEW edges \in SUBSET Pairs, NEW part \in Parts(edges)
    PROVE  part \in SUBSET edges /\ (edges # {} => part # {})
<1> DEFINE N == Cardinality(edges)
<1>1. N \in Nat
  BY PairsAreFinite
<1>2. PICK list \in EdgeLists(edges) : part = Numbered(list)
  BY DEF Parts
<1>3. list \in [1..N -> edges]
  BY DEF EdgeLists, SetToSeqs
<1>4. edges # {} => N # 0
  BY PairsAreFinite, FS_EmptySet
<1> HIDE DEF N
<1>5. list \in [1..N -> Pairs]
  BY <1>3
<1>6. PICK tables \in [0..N -> Numberings] :
         /\ tables[0] = NoTable
         /\ \A k \in 0..(N - 1) : tables[k + 1] = NumberEdge(tables[k], list[k + 1])
         /\ Numbered(list) = tables[N].edges
  BY <1>1, <1>5, NumberedSteps
<1> DEFINE S == {k \in 0..N : tables[k].edges \subseteq edges /\ (k > 0 => tables[k].edges # {})}
<1>7. 0 \in S
  BY <1>1, <1>6 DEF NoTable
<1>8. ASSUME NEW k \in 0..(N - 1), k \in S
      PROVE  k + 1 \in S
  <2>1. k \in 0..N /\ k + 1 \in 0..N /\ k + 1 \in 1..N
    BY <1>1
  <2>2. list[k + 1] \in edges /\ list[k + 1] \in Pairs /\ tables[k] \in Numberings
    BY <1>3, <1>5, <1>6, <2>1
  <2>3. tables[k + 1] = NumberEdge(tables[k], list[k + 1])
    BY <1>6
  <2>4. /\ tables[k].edges \subseteq tables[k + 1].edges
        /\ tables[k + 1].edges \subseteq tables[k].edges \cup {list[k + 1]}
    BY <2>2, <2>3, NumberEdgeType
  <2>5. tables[k + 1].edges # {}
    <3>1. CASE k = 0
      BY <1>6, <2>2, <2>3, <3>1, FirstIsNumbered
    <3>2. CASE k # 0
      BY <1>8, <2>1, <2>4, <3>2
    <3>3. QED
      BY <3>1, <3>2
  <2>6. QED
    BY <1>8, <2>1, <2>2, <2>4, <2>5
<1>9. N \in S
  <2> HIDE DEF S
  <2>1. 0..N \subseteq S
    BY <1>1, <1>7, <1>8, CountingTo
  <2>2. N \in 0..N
    BY <1>1
  <2>3. QED
    BY <2>1, <2>2
<1>10. QED
  BY <1>1, <1>2, <1>4, <1>6, <1>9

(* has_cycle is reported exactly when sessions of the numbered part wait   *)
(* for each other in a set, and only when the lock table has such a set,   *)
(* for any order of the scan and wherever it was cut short                 *)
(* (blocker_graph.c:108-161).                                              *)
THEOREM ReportedCyclesAreDeadlocks == LockSpec => []CycleIsDeadlock
<1>1. CycleIsDeadlock
  <2> SUFFICES ASSUME NEW edges \in Scans, NEW part \in Parts(edges)
               PROVE  /\ HasCycle(part) <=> \E S \in SUBSET Backends : Deadlocked(part, S)
                      /\ HasCycle(part) => HasCycle(AllEdges)
    BY DEF CycleIsDeadlock
  <2>1. AllEdges \in SUBSET Pairs /\ edges \in SUBSET AllEdges
    BY ScanFindsEdges
  <2>2. edges \in SUBSET Pairs /\ part \in SUBSET Pairs /\ part \subseteq AllEdges
    BY <2>1, PartOfScan
  <2>3. QED
    BY <2>1, <2>2, CycleIffDeadlocked, CycleOfMore
<1>2. QED
  BY <1>1, PTL


-----------------------------------------------------------------------------
(* Levels, depth and descendants                                           *)

LEMMA SessionsAreFinite ==
    /\ Cardinality(Backends) \in Nat
    /\ \A S \in SUBSET Backends :
          IsFiniteSet(S) /\ Cardinality(S) \in Nat /\ Cardinality(S) <= Cardinality(Backends)
BY BackendsAssumption, FS_Subset, FS_CardinalityType

(* The sessions at distance n from the root, given those that are nearer.  *)
AtDistance(level, edges, root, n) ==
    IF n = 0 THEN {root}
    ELSE {b \in Backends : \E c \in level[n - 1] : <<b, c>> \in edges}
            \ UNION {level[k] : k \in 0..n - 1}

IsLevel(level, edges, root, N) ==
    level = [n \in 0..N |-> AtDistance(level, edges, root, n)]

LEMMA AtDistanceMembers ==
    ASSUME NEW level, NEW edges, NEW root, NEW n \in Nat \ {0}, NEW b
    PROVE  b \in AtDistance(level, edges, root, n) <=>
              /\ b \in Backends
              /\ \E c \in level[n - 1] : <<b, c>> \in edges
              /\ \A k \in 0..(n - 1) : b \notin level[k]
BY DEF AtDistance

LEMMA LevelExists ==
    ASSUME NEW N \in Nat, NEW edges, NEW root
    PROVE  \E level : IsLevel(level, edges, root, N)
<1> DEFINE S == {m \in 0..N : \E level : IsLevel(level, edges, root, m)}
<1>1. 0 \in S
  <2> DEFINE level == [n \in 0..0 |-> {root}]
  <2>1. IsLevel(level, edges, root, 0)
    BY DEF IsLevel, AtDistance
  <2>2. QED
    BY <2>1
<1>2. ASSUME NEW m \in 0..(N - 1), m \in S
      PROVE  m + 1 \in S
  <2>1. PICK level : IsLevel(level, edges, root, m)
    BY <1>2
  <2> DEFINE next == [n \in 0..(m + 1) |->
                        IF n = m + 1 THEN AtDistance(level, edges, root, m + 1) ELSE level[n]]
  <2>2. \A k \in 0..m : k # m + 1 /\ next[k] = level[k]
    OBVIOUS
  <2>3. ASSUME NEW n \in 0..(m + 1)
        PROVE  next[n] = AtDistance(next, edges, root, n)
    <3>1. next[n] = AtDistance(level, edges, root, n)
      BY <2>1 DEF IsLevel
    <3>2. AtDistance(level, edges, root, n) = AtDistance(next, edges, root, n)
      <4>1. CASE n = 0
        BY <4>1 DEF AtDistance
      <4>2. CASE n # 0
        <5>1. n \in Nat \ {0} /\ n - 1 \in 0..m /\ \A k \in 0..(n - 1) : k \in 0..m
          BY <4>2
        <5>2. next[n - 1] = level[n - 1] /\ \A k \in 0..(n - 1) : next[k] = level[k]
          BY <2>2, <5>1
        <5> HIDE DEF next
        <5>3. \A b : b \in AtDistance(level, edges, root, n) <=> b \in AtDistance(next, edges, root, n)
          BY <5>1, <5>2, AtDistanceMembers
        <5>4. QED
          BY <5>3
      <4>3. QED
        BY <4>1, <4>2
    <3>3. QED
      BY <3>1, <3>2
  <2>4. next = [n \in 0..(m + 1) |-> next[n]]
    OBVIOUS
  <2> HIDE DEF next
  <2>5. IsLevel(next, edges, root, m + 1)
    BY <2>3, <2>4 DEF IsLevel
  <2>6. QED
    BY <2>5
<1>3. N \in S
  <2> HIDE DEF S
  <2>1. 0..N \subseteq S
    BY <1>1, <1>2, CountingTo
  <2>2. QED
    BY <2>1
<1>4. QED
  BY <1>3

(* Breadth first, each session on one level.                               *)
LEMMA LevelMembers ==
    ASSUME NEW edges \in SUBSET Pairs, NEW root \in Backends
    PROVE  /\ Level(edges, root)[0] = {root}
           /\ \A n \in Distances : Level(edges, root)[n] \in SUBSET Backends
           /\ \A n \in Distances : n # 0 => \A b :
                b \in Level(edges, root)[n] <=>
                  /\ b \in Backends
                  /\ \E c \in Level(edges, root)[n - 1] : <<b, c>> \in edges
                  /\ \A k \in 0..(n - 1) : b \notin Level(edges, root)[k]
<1> DEFINE N == Cardinality(Backends)
           level == Level(edges, root)
<1>1. N \in Nat
  BY SessionsAreFinite
<1>2. level = CHOOSE f : IsLevel(f, edges, root, N)
  BY Zenon DEF Level, IsLevel, AtDistance, Distances
<1> HIDE DEF level
<1>3. IsLevel(level, edges, root, N)
  BY <1>1, <1>2, LevelExists
<1>4. \A n \in 0..N : level[n] = AtDistance(level, edges, root, n)
  BY <1>3 DEF IsLevel
<1>5. level[0] = {root}
  <2>1. 0 \in 0..N
    BY <1>1
  <2>2. QED
    BY <1>4, <2>1 DEF AtDistance
<1>6. ASSUME NEW n \in 0..N, n # 0, NEW b
      PROVE  b \in level[n] <=>
               /\ b \in Backends
               /\ \E c \in level[n - 1] : <<b, c>> \in edges
               /\ \A k \in 0..(n - 1) : b \notin level[k]
  <2>1. n \in Nat \ {0}
    BY <1>1, <1>6
  <2>2. QED
    BY <1>4, <2>1, AtDistanceMembers
<1>7. \A n \in 0..N : level[n] \in SUBSET Backends
  BY <1>5, <1>6
<1>8. QED
  BY <1>5, <1>6, <1>7 DEF level, Distances

(* No session is on two levels, and no level is left out.                  *)
LEMMA LevelsApart ==
    ASSUME NEW edges \in SUBSET Pairs, NEW root \in Backends, NEW n \in Distances,
           Level(edges, root)[n] # {}
    PROVE  /\ \A j, k \in 0..n : j # k => Level(edges, root)[j] \cap Level(edges, root)[k] = {}
           /\ \A k \in 0..n : Level(edges, root)[k] # {}
<1> DEFINE level == Level(edges, root)
<1>1. Cardinality(Backends) \in Nat
  BY SessionsAreFinite
<1>2. n \in Nat /\ \A k \in 0..n : k \in Distances
  BY <1>1 DEF Distances
<1> HIDE DEF level
<1>3. ASSUME NEW j \in 0..n, NEW k \in 0..n, j < k
      PROVE  level[j] \cap level[k] = {}
  <2>1. k \in Distances /\ k # 0 /\ j \in 0..(k - 1)
    BY <1>2, <1>3
  <2>2. \A b : b \in level[k] => b \notin level[j]
    BY <2>1, LevelMembers DEF level
  <2>3. QED
    BY <2>2
<1>4. ASSUME NEW j \in 0..n, NEW k \in 0..n, j # k
      PROVE  level[j] \cap level[k] = {}
  <2>1. j < k \/ k < j
    BY <1>2, <1>4
  <2>2. QED
    BY <1>3, <2>1
<1>5. ASSUME NEW j \in 0..n, level[j] = {}
      PROVE  FALSE
  <2> DEFINE S == {i \in 0..(n - j) : level[j + i] = {}}
  <2>0. n - j \in Nat /\ j + 0 = j
    BY <1>2
  <2>1. 0 \in S
    BY <1>5, <2>0
  <2>2. ASSUME NEW i \in 0..((n - j) - 1), i \in S
        PROVE  i + 1 \in S
    <3> DEFINE m == j + (i + 1)
    <3>1. i + 1 \in 0..(n - j) /\ m \in Distances /\ m # 0 /\ m - 1 = j + i
      BY <1>2
    <3>2. level[j + i] = {}
      BY <2>2
    <3> HIDE DEF m
    <3>3. \A b : b \notin level[m]
      BY <3>1, <3>2, LevelMembers DEF level
    <3>4. level[m] = {}
      BY <3>3
    <3>5. QED
      BY <3>1, <3>4 DEF m
  <2>3. n - j \in S
    <3> HIDE DEF S
    <3>1. 0..(n - j) \subseteq S
      BY <2>0, <2>1, <2>2, CountingTo
    <3>2. n - j \in 0..(n - j)
      BY <2>0
    <3>3. QED
      BY <3>1, <3>2
  <2>4. j + (n - j) = n
    BY <1>2
  <2>5. level[n] = {}
    BY <2>3, <2>4
  <2>6. QED
    BY <2>5 DEF level
<1>6. QED
  BY <1>4, <1>5 DEF level

(* One session of each level makes as many sessions as there are levels.   *)
LEMMA OnePerLevel ==
    ASSUME NEW lo \in Nat, NEW hi \in Nat, NEW level, NEW T,
           IsFiniteSet(T),
           \A k \in lo..hi : level[k] \cap T # {},
           \A j, k \in lo..hi : j # k => level[j] \cap level[k] = {}
    PROVE  hi - lo + 1 <= Cardinality(T)
<1> DEFINE one == [k \in lo..hi |-> CHOOSE b : b \in level[k] \cap T]
<1>1. \A k \in lo..hi : one[k] \in level[k] /\ one[k] \in T
  OBVIOUS
<1>2. one \in [lo..hi -> T]
  BY <1>1
<1>3. DOMAIN one = lo..hi
  OBVIOUS
<1> HIDE DEF one
<1>4. \A j, k \in lo..hi : one[j] = one[k] => j = k
  BY <1>1
<1>5. one \in Injection(lo..hi, T)
  BY <1>2, <1>3, <1>4 DEF Injection, IsInjective
<1>6. Cardinality(lo..hi) <= Cardinality(T)
  BY <1>5, FS_Injection
<1>7. Cardinality(lo..hi) = IF lo > hi THEN 0 ELSE hi - lo + 1
  BY FS_Interval
<1>8. Cardinality(T) \in Nat
  BY FS_CardinalityType
<1>9. QED
  BY <1>6, <1>7, <1>8

(* There are fewer levels than sessions, so that the search sees them all. *)
LEMMA LevelsEnd ==
    ASSUME NEW edges \in SUBSET Pairs, NEW root \in Backends, NEW n \in Distances,
           Level(edges, root)[n] # {}
    PROVE  n < Cardinality(Backends)
<1>1. Cardinality(Backends) \in Nat /\ n \in Nat /\ \A k \in 0..n : k \in Distances
  BY SessionsAreFinite DEF Distances
<1>2. ASSUME NEW k \in 0..n
      PROVE  Level(edges, root)[k] \cap Backends # {}
  <2>1. Level(edges, root)[k] # {}
    BY LevelsApart
  <2>2. Level(edges, root)[k] \in SUBSET Backends
    BY <1>1, LevelMembers
  <2>3. QED
    BY <2>1, <2>2
<1>3. n - 0 + 1 <= Cardinality(Backends)
  BY <1>1, <1>2, LevelsApart, BackendsAssumption, OnePerLevel
<1>4. QED
  BY <1>1, <1>3


(* The sessions the search from a root meets, the root left out.           *)
Met(edges, root) == (UNION {Level(edges, root)[n] : n \in Distances}) \ {root}

LEMMA MetMembers ==
    ASSUME NEW edges \in SUBSET Pairs, NEW root \in Backends
    PROVE  /\ Met(edges, root) \in SUBSET Backends
           /\ \A b : b \in Met(edges, root) <=>
                 \E n \in Distances : n # 0 /\ b \in Level(edges, root)[n]
           /\ Descendants(edges, root) = Cardinality(Met(edges, root))
<1> DEFINE level == Level(edges, root)
           all == UNION {level[n] : n \in Distances}
<1>1. Cardinality(Backends) \in Nat /\ 0 \in Distances
  BY SessionsAreFinite DEF Distances
<1>2. /\ level[0] = {root}
      /\ \A n \in Distances : level[n] \in SUBSET Backends
  BY LevelMembers
<1>3. ASSUME NEW n \in Distances, n # 0
      PROVE  root \notin level[n]
  <2>1. 0 \in 0..(n - 1)
    BY <1>1, <1>3 DEF Distances
  <2>2. QED
    BY <1>2, <1>3, <2>1, LevelMembers
<1> HIDE DEF level
<1>4. all \in SUBSET Backends /\ root \in all
  BY <1>1, <1>2
<1>5. IsFiniteSet(all)
  BY <1>4, SessionsAreFinite
<1>6. Cardinality(all \ {root}) = Cardinality(all) - 1
  BY <1>4, <1>5, FS_RemoveElement
<1>7. Descendants(edges, root) = Cardinality(Met(edges, root))
  BY <1>6 DEF Descendants, Met, level
<1>8. \A b : b \in Met(edges, root) <=> \E n \in Distances : n # 0 /\ b \in level[n]
  BY <1>1, <1>2, <1>3 DEF Met, level
<1>9. QED
  BY <1>4, <1>7, <1>8 DEF Met, level

(* They are those that wait for the root, over any number of others.       *)
LEMMA MetIsDownstream ==
    ASSUME NEW edges \in SUBSET Pairs, NEW root \in Roots(edges)
    PROVE  root \in Backends /\ Downstream(edges, root) = Met(edges, root)
<1> DEFINE level == Level(edges, root)
<1>1. root \in Backends /\ \A e \in edges : e[1] # root /\ e[1] \in Backends /\ e[2] \in Backends
  BY DEF Roots, Pairs
<1>2. Cardinality(Backends) \in Nat
  BY SessionsAreFinite
<1>3. /\ level[0] = {root}
      /\ \A n \in Distances : level[n] \in SUBSET Backends
      /\ \A n \in Distances : n # 0 => \A b :
                b \in level[n] <=>
                  /\ b \in Backends
                  /\ \E c \in level[n - 1] : <<b, c>> \in edges
                  /\ \A k \in 0..(n - 1) : b \notin level[k]
  BY <1>1, LevelMembers
<1>4. /\ Met(edges, root) \in SUBSET Backends
      /\ \A b : b \in Met(edges, root) <=> \E n \in Distances : n # 0 /\ b \in level[n]
  BY <1>1, MetMembers
<1>5. \A n \in Distances : level[n] # {} => n < Cardinality(Backends)
  BY <1>1, LevelsEnd
<1> HIDE DEF level
<1>6. ASSUME NEW e \in edges, e[2] \in Met(edges, root) \cup {root}
      PROVE  e[1] \in Met(edges, root)
  <2>1. PICK n \in Distances : e[2] \in level[n]
    <3>1. 0 \in Distances
      BY <1>2 DEF Distances
    <3>2. QED
      BY <1>3, <1>4, <1>6, <3>1
  <2>2. n < Cardinality(Backends)
    BY <1>5, <2>1
  <2> DEFINE m == n + 1
  <2>3. m \in Distances /\ m # 0 /\ m - 1 = n /\ \A k \in 0..(m - 1) : k \in Distances
    BY <1>2, <2>2 DEF Distances
  <2> HIDE DEF m
  <2>4. e = <<e[1], e[2]>> /\ e[1] \in Backends
    BY DEF Pairs
  <2>5. CASE \E k \in 0..(m - 1) : e[1] \in level[k]
    <3>1. PICK k \in 0..(m - 1) : e[1] \in level[k]
      BY <2>5
    <3>2. k # 0
      BY <1>1, <1>3, <3>1
    <3>3. QED
      BY <1>4, <2>3, <3>1, <3>2
  <2>6. CASE ~\E k \in 0..(m - 1) : e[1] \in level[k]
    <3>1. e[1] \in level[m]
      BY <1>3, <2>1, <2>3, <2>4, <2>6
    <3>2. QED
      BY <1>4, <2>3, <3>1
  <2>7. QED
    BY <2>5, <2>6
<1>7. Downstream(edges, root) \subseteq Met(edges, root)
  BY <1>4, <1>6 DEF Downstream
<1>8. ASSUME NEW S \in SUBSET Backends, \A e \in edges : e[2] \in S \cup {root} => e[1] \in S
      PROVE  Met(edges, root) \subseteq S
  <2> DEFINE N == Cardinality(Backends)
             I == {n \in 0..N : level[n] \subseteq S \cup {root}}
  <2>1. 0 \in I
    BY <1>2, <1>3
  <2>2. ASSUME NEW n \in 0..(N - 1), n \in I
        PROVE  n + 1 \in I
    <3> DEFINE m == n + 1
    <3>1. m \in Distances /\ m # 0 /\ m - 1 = n /\ m \in 0..N
      BY <1>2 DEF Distances
    <3> HIDE DEF m
    <3>2. ASSUME NEW b \in level[m]
          PROVE  b \in S
      <4>1. PICK c \in level[n] : <<b, c>> \in edges
        BY <1>3, <3>1
      <4>2. c \in S \cup {root}
        BY <2>2, <4>1
      <4>3. QED
        BY <1>8, <4>1, <4>2
    <3>3. QED
      BY <3>1, <3>2 DEF m
  <2>3. 0..N \subseteq I
    <3> HIDE DEF I
    <3>1. QED
      BY <1>2, <2>1, <2>2, CountingTo
  <2>4. ASSUME NEW b \in Met(edges, root)
        PROVE  b \in S
    <3>1. PICK n \in Distances : n # 0 /\ b \in level[n]
      BY <1>4
    <3>2. b \in S \cup {root}
      BY <2>3, <3>1 DEF Distances
    <3>3. b # root
      BY <2>4 DEF Met
    <3>4. QED
      BY <3>2, <3>3
  <2>5. QED
    BY <2>4
<1>9. Met(edges, root) \subseteq Downstream(edges, root)
  BY <1>4, <1>8 DEF Downstream
<1>10. QED
  BY <1>1, <1>7, <1>9

LEMMA DepthIsLast ==
    ASSUME NEW edges \in SUBSET Pairs, NEW root \in Backends
    PROVE  /\ Depth(edges, root) \in Distances
           /\ Level(edges, root)[Depth(edges, root)] # {}
           /\ \A n \in Distances : Level(edges, root)[n] # {} => n <= Depth(edges, root)
<1> DEFINE T == {n \in Distances : Level(edges, root)[n] # {}}
<1>1. Cardinality(Backends) \in Nat /\ T \subseteq 0..Cardinality(Backends)
  BY SessionsAreFinite DEF Distances
<1>2. 0 \in T
  <2>1. 0 \in Distances
    BY <1>1 DEF Distances
  <2>2. Level(edges, root)[0] = {root}
    BY LevelMembers
  <2>3. QED
    BY <2>1, <2>2
<1>3. Depth(edges, root) = Max(T)
  BY DEF Depth
<1>4. Max(T) \in T /\ \A n \in T : n <= Max(T)
  <2> HIDE DEF T
  <2>1. QED
    BY <1>1, <1>2, MaxOfSome
<1>5. QED
  BY <1>3, <1>4

(* A chain is as deep as it has levels, each with a session that is met,   *)
(* under a session that blocks.                                            *)
LEMMA DepthIsBounded ==
    ASSUME NEW edges \in SUBSET Pairs, NEW part \in SUBSET edges, NEW root \in Roots(part)
    PROVE  /\ Depth(part, root) \in Nat
           /\ Descendants(part, root) \in Nat
           /\ Descendants(part, root) <= Cardinality(Backends)
           /\ Depth(part, root) <= Descendants(part, root)
           /\ Depth(part, root) <= BlockingSessions(edges)
           /\ Descendants(part, root) <= BlockedSessions(edges)
<1> DEFINE level == Level(part, root)
           d == Depth(part, root)
<1>1. root \in Backends /\ part \in SUBSET Pairs
  BY MetIsDownstream
<1>2. /\ Met(part, root) \in SUBSET Backends
      /\ \A b : b \in Met(part, root) <=> \E n \in Distances : n # 0 /\ b \in level[n]
      /\ Descendants(part, root) = Cardinality(Met(part, root))
  BY <1>1, MetMembers
<1>3. IsFiniteSet(Met(part, root)) /\ Cardinality(Met(part, root)) \in Nat
      /\ Cardinality(Met(part, root)) <= Cardinality(Backends)
  BY <1>2, SessionsAreFinite
<1>4. d \in Distances /\ level[d] # {}
  BY <1>1, DepthIsLast
<1>5. Cardinality(Backends) \in Nat /\ d \in Nat /\ \A k \in 0..d : k \in Distances
  BY <1>4, SessionsAreFinite DEF Distances
<1>6. /\ \A j, k \in 0..d : j # k => level[j] \cap level[k] = {}
      /\ \A k \in 0..d : level[k] # {}
  BY <1>1, <1>4, LevelsApart
<1>7. \A n \in Distances : n # 0 => \A b \in level[n] : \E c \in level[n - 1] : <<b, c>> \in part
  BY <1>1, LevelMembers
<1> DEFINE blocked == {e[1] : e \in edges}
           blocking == {e[2] : e \in edges}
<1>8. /\ blocked \in SUBSET Backends /\ blocking \in SUBSET Backends
      /\ \A b, c : <<b, c>> \in part => b \in blocked /\ c \in blocking
  <2>1. \A e \in edges : e[1] \in Backends /\ e[2] \in Backends
    BY DEF Pairs
  <2>2. ASSUME NEW b, NEW c, <<b, c>> \in part
        PROVE  b \in blocked /\ c \in blocking
    <3>1. <<b, c>> \in edges /\ <<b, c>>[1] = b /\ <<b, c>>[2] = c
      BY <2>2
    <3>2. QED
      BY <3>1
  <2>3. QED
    BY <2>1, <2>2
<1>9. /\ IsFiniteSet(blocked) /\ IsFiniteSet(blocking)
      /\ BlockedSessions(edges) = Cardinality(blocked)
      /\ BlockingSessions(edges) = Cardinality(blocking)
      /\ Cardinality(blocking) \in Nat
  BY <1>8, SessionsAreFinite DEF BlockedSessions, BlockingSessions
<1> HIDE DEF level, d, blocked, blocking
<1>10. d <= Cardinality(Met(part, root))
  <2>1. \A k \in 1..d : level[k] \cap Met(part, root) # {}
    BY <1>2, <1>5, <1>6
  <2>2. \A j, k \in 1..d : j # k => level[j] \cap level[k] = {}
    BY <1>5, <1>6
  <2>3. d - 1 + 1 <= Cardinality(Met(part, root))
    BY <1>3, <1>5, <2>1, <2>2, OnePerLevel
  <2>4. QED
    BY <1>3, <1>5, <2>3
<1>11. d <= Cardinality(blocking)
  <2> DEFINE above == [k \in 1..d |-> level[k - 1]]
  <2>1. ASSUME NEW k \in 1..d
        PROVE  above[k] \cap blocking # {}
    <3>1. k \in Distances /\ k # 0 /\ k \in 0..d
      BY <1>5
    <3>2. PICK b \in level[k] : TRUE
      BY <1>6, <3>1
    <3>3. PICK c \in level[k - 1] : <<b, c>> \in part
      BY <1>7, <3>1
    <3>4. QED
      BY <1>8, <3>3
  <2>2. ASSUME NEW j \in 1..d, NEW k \in 1..d, j # k
        PROVE  above[j] \cap above[k] = {}
    <3>1. j - 1 \in 0..d /\ k - 1 \in 0..d /\ j - 1 # k - 1
      BY <1>5, <2>2
    <3>2. QED
      BY <1>6, <3>1
  <2> HIDE DEF above
  <2>3. d - 1 + 1 <= Cardinality(blocking)
    BY <1>5, <1>9, <2>1, <2>2, OnePerLevel
  <2>4. QED
    BY <1>5, <1>9, <2>3
<1>12. Cardinality(Met(part, root)) <= Cardinality(blocked)
  <2>1. Met(part, root) \in SUBSET blocked
    BY <1>2, <1>7, <1>8
  <2>2. QED
    BY <1>9, <2>1, FS_Subset
<1>13. QED
  BY <1>2, <1>3, <1>5, <1>9, <1>10, <1>11, <1>12 DEF d

(* The greatest of a bounded measure over the roots.                       *)
LEMMA MaxOverRoots ==
    ASSUME NEW R, NEW f, NEW N \in Nat, \A r \in R : f[r] \in 0..N,
           NEW T, 0 \in T, \A r \in R : f[r] \in T,
           \A k \in T : k = 0 \/ \E r \in R : k = f[r]
    PROVE  /\ Max(T) \in Nat
           /\ Max(T) = 0 \/ \E r \in R : Max(T) = f[r]
           /\ \A r \in R : f[r] <= Max(T)
<1>1. T \subseteq 0..N /\ T # {}
  OBVIOUS
<1>2. Max(T) \in T /\ \A k \in T : k <= Max(T)
  BY <1>1, MaxOfSome
<1>3. \A k \in 0..N : k \in Nat
  OBVIOUS
<1>4. QED
  BY <1>1, <1>2, <1>3

LEMMA SeverityIsBounded ==
    ASSUME NEW edges \in SUBSET Pairs, NEW part \in SUBSET edges
    PROVE  /\ MaxDescendantCount(part) =
                 Max({0} \cup {Cardinality(Downstream(part, r)) : r \in Roots(part)})
           /\ MaxChainDepth(part) <= MaxDescendantCount(part)
           /\ MaxChainDepth(part) <= BlockingSessions(edges)
           /\ MaxDescendantCount(part) <= BlockedSessions(edges)
           /\ MaxChainDepth(part) \in Nat
           /\ \A r \in Roots(part) : Depth(part, r) <= MaxChainDepth(part)
<1> DEFINE R == Roots(part)
           N == Cardinality(Backends)
           depth == [r \in R |-> Depth(part, r)]
           count == [r \in R |-> Descendants(part, r)]
<1>1. N \in Nat
  BY SessionsAreFinite
<1>2. \A r \in R : /\ depth[r] \in 0..N /\ count[r] \in 0..N /\ depth[r] <= count[r]
                   /\ depth[r] <= BlockingSessions(edges)
                   /\ count[r] <= BlockedSessions(edges)
  BY <1>1, DepthIsBounded
<1>3. /\ MaxChainDepth(part) = Max({0} \cup {depth[r] : r \in R})
      /\ MaxDescendantCount(part) = Max({0} \cup {count[r] : r \in R})
  <2>1. {Depth(part, r) : r \in R} = {depth[r] : r \in R}
    OBVIOUS
  <2>2. {Descendants(part, r) : r \in R} = {count[r] : r \in R}
    OBVIOUS
  <2> HIDE DEF depth, count
  <2>3. QED
    BY <2>1, <2>2 DEF MaxChainDepth, MaxDescendantCount
<1>4. {Descendants(part, r) : r \in R} = {Cardinality(Downstream(part, r)) : r \in R}
  <2>1. part \in SUBSET Pairs
    OBVIOUS
  <2>2. \A r \in R : Descendants(part, r) = Cardinality(Downstream(part, r))
    BY <2>1, MetIsDownstream, MetMembers
  <2>3. QED
    BY <2>2
<1>5. /\ BlockedSessions(edges) \in Nat /\ BlockingSessions(edges) \in Nat
  <2>1. {e[1] : e \in edges} \in SUBSET Backends /\ {e[2] : e \in edges} \in SUBSET Backends
    BY DEF Pairs
  <2>2. QED
    BY <2>1, SessionsAreFinite DEF BlockedSessions, BlockingSessions
<1>6. \A r \in R : Depth(part, r) = depth[r]
  OBVIOUS
<1> HIDE DEF depth, count, R
<1>7. /\ MaxChainDepth(part) \in Nat
      /\ MaxChainDepth(part) = 0 \/ \E r \in R : MaxChainDepth(part) = depth[r]
      /\ \A r \in R : depth[r] <= MaxChainDepth(part)
  <2> DEFINE T == {0} \cup {depth[r] : r \in R}
  <2>1. \A r \in R : depth[r] \in 0..N
    BY <1>2
  <2>2. MaxChainDepth(part) = Max(T)
    BY <1>3
  <2>3. /\ 0 \in T /\ \A r \in R : depth[r] \in T
        /\ \A k \in T : k = 0 \/ \E r \in R : k = depth[r]
    OBVIOUS
  <2> HIDE DEF N, T
  <2>4. /\ Max(T) \in Nat
        /\ Max(T) = 0 \/ \E r \in R : Max(T) = depth[r]
        /\ \A r \in R : depth[r] <= Max(T)
    BY <1>1, <2>1, <2>3, MaxOverRoots
  <2>5. QED
    BY <2>2, <2>4
<1>8. /\ MaxDescendantCount(part) \in Nat
      /\ MaxDescendantCount(part) = 0 \/ \E r \in R : MaxDescendantCount(part) = count[r]
      /\ \A r \in R : count[r] <= MaxDescendantCount(part)
  <2> DEFINE T == {0} \cup {count[r] : r \in R}
  <2>1. \A r \in R : count[r] \in 0..N
    BY <1>2
  <2>2. MaxDescendantCount(part) = Max(T)
    BY <1>3
  <2>3. /\ 0 \in T /\ \A r \in R : count[r] \in T
        /\ \A k \in T : k = 0 \/ \E r \in R : k = count[r]
    OBVIOUS
  <2> HIDE DEF N, T
  <2>4. /\ Max(T) \in Nat
        /\ Max(T) = 0 \/ \E r \in R : Max(T) = count[r]
        /\ \A r \in R : count[r] <= Max(T)
    BY <1>1, <2>1, <2>3, MaxOverRoots
  <2>5. QED
    BY <2>2, <2>4
<1>9. MaxChainDepth(part) <= MaxDescendantCount(part)
  BY <1>1, <1>2, <1>7, <1>8
<1>10. /\ MaxChainDepth(part) <= BlockingSessions(edges)
       /\ MaxDescendantCount(part) <= BlockedSessions(edges)
  BY <1>2, <1>5, <1>7, <1>8
<1>11. MaxDescendantCount(part) =
         Max({0} \cup {Cardinality(Downstream(part, r)) : r \in Roots(part)})
  BY <1>4 DEF MaxDescendantCount, R
<1>12. QED
  BY <1>6, <1>7, <1>9, <1>10, <1>11 DEF R

(* The severity counts sessions: those that wait for a root over any       *)
(* number of others, each once, and no level without a session that blocks *)
(* (blocker_graph.c:287-378).                                              *)
THEOREM SeverityIsOfSessions == LockSpec => []SeverityCountsSessions
<1>1. SeverityCountsSessions
  <2> SUFFICES ASSUME NEW edges \in Scans, NEW part \in Parts(edges)
               PROVE  /\ MaxDescendantCount(part) =
                            Max({0} \cup {Cardinality(Downstream(part, r)) : r \in Roots(part)})
                      /\ MaxChainDepth(part) <= MaxDescendantCount(part)
                      /\ MaxChainDepth(part) <= BlockingSessions(edges)
                      /\ MaxDescendantCount(part) <= BlockedSessions(edges)
    BY DEF SeverityCountsSessions
  <2>1. edges \in SUBSET Pairs
    BY ScanFindsEdges
  <2>2. part \in SUBSET edges
    BY <2>1, PartOfScan
  <2>3. QED
    BY <2>1, <2>2, SeverityIsBounded
<1>2. QED
  BY <1>1, PTL


-----------------------------------------------------------------------------
(* The lock table: what a wake-up does                                     *)

Requests == [who : Backends, mode : LockModes]
Holds == [Backends -> SUBSET LockModes]
Queues == [holds : Holds, left : Seq(Requests)]

Stays(table, req) == Opposed(table.holds, req) \/ Preceded(table.left, req)

(* A request is passed over or granted.                                    *)
LEMMA WakeOneType ==
    ASSUME NEW table \in Queues, NEW req \in Requests
    PROVE  /\ WakeOne(table, req) \in Queues
           /\ Stays(table, req) =>
                /\ WakeOne(table, req).holds = table.holds
                /\ WakeOne(table, req).left = Append(table.left, req)
           /\ ~Stays(table, req) =>
                /\ WakeOne(table, req).holds =
                      [table.holds EXCEPT ![req.who] = @ \cup {req.mode}]
                /\ WakeOne(table, req).left = table.left
<1>1. /\ table.holds \in Holds /\ table.left \in Seq(Requests)
      /\ table = [holds |-> table.holds, left |-> table.left]
  BY DEF Queues
<1>2. req.who \in Backends /\ req.mode \in LockModes
  BY DEF Requests
<1>3. CASE Stays(table, req)
  <2>1. WakeOne(table, req) = [table EXCEPT !.left = Append(@, req)]
    BY <1>3 DEF WakeOne, Stays
  <2>2. WakeOne(table, req) = [holds |-> table.holds, left |-> Append(table.left, req)]
    BY <1>1, <2>1
  <2>3. QED
    BY <1>1, <1>3, <2>2 DEF Queues
<1>4. CASE ~Stays(table, req)
  <2> DEFINE more == [table.holds EXCEPT ![req.who] = @ \cup {req.mode}]
  <2>1. WakeOne(table, req) = [table EXCEPT !.holds[req.who] = @ \cup {req.mode}]
    BY <1>4 DEF WakeOne, Stays
  <2>2. WakeOne(table, req) = [holds |-> more, left |-> table.left]
    BY <1>1, <2>1
  <2>3. more \in Holds
    BY <1>1, <1>2 DEF Holds
  <2> HIDE DEF more
  <2>4. WakeOne(table, req).holds = more /\ WakeOne(table, req).left = table.left
    BY <2>2
  <2>5. WakeOne(table, req) \in Queues
    BY <1>1, <2>2, <2>3 DEF Queues
  <2>6. QED
    BY <1>4, <2>4, <2>5 DEF more
<1>5. QED
  BY <1>3, <1>4

(* The lock table after each request of the queue.                         *)
LEMMA WakeUpSteps ==
    ASSUME NEW holds \in Holds, NEW reqs \in Seq(Requests)
    PROVE  /\ Len(reqs) \in Nat /\ DOMAIN reqs = 1..Len(reqs)
           /\ \E tables \in [0..Len(reqs) -> Queues] :
              /\ tables[0] = [holds |-> holds, left |-> <<>>]
              /\ \A k \in 0..(Len(reqs) - 1) : tables[k + 1] = WakeOne(tables[k], reqs[k + 1])
              /\ WakeUp(holds, reqs) = tables[Len(reqs)]
<1> DEFINE N == Len(reqs)
           start == [holds |-> holds, left |-> <<>>]
           step == [p \in Queues \X (1..N) |-> WakeOne(p[1], reqs[p[2]])]
           IsIter(iter) == iter = [s \in SUBSET (1..N) |->
                             IF s = {} THEN start
                             ELSE WakeOne(iter[s \ {Max(s)}], reqs[Max(s)])]
           final == CHOOSE iter : IsIter(iter)
           tables == [k \in 0..N |-> final[1..k]]
<1>0. N \in Nat /\ DOMAIN reqs = 1..N /\ \A i \in 1..N : reqs[i] \in Requests
  OBVIOUS
<1>1. start \in Queues
  BY DEF Queues
<1>5. WakeUp(holds, reqs) = final[1..N]
  BY <1>0, Zenon DEF WakeUp, FoldLeft, MapThenFoldSet
<1> HIDE DEF N, start
<1>2. step \in [Queues \X (1..N) -> Queues]
  BY <1>0, WakeOneType
<1>3. \E iter : IsIter(iter)
  <2>1. PICK iter \in [SUBSET (1..N) -> Queues] : IsFold(iter, N, start, step)
    <3> HIDE DEF step
    <3>1. QED
      BY <1>0, <1>1, <1>2, FoldExists
  <2>2. ASSUME NEW s \in SUBSET (1..N), s # {}
        PROVE  step[<<iter[s \ {Max(s)}], Max(s)>>] = WakeOne(iter[s \ {Max(s)}], reqs[Max(s)])
    <3>1. s \subseteq 0..N
      BY <1>0
    <3>2. Max(s) \in s
      BY <1>0, <2>2, <3>1, MaxOfSome
    <3>3. QED
      BY <3>2
  <2>3. IsIter(iter)
    <3> HIDE DEF step
    <3>1. QED
      BY <2>1, <2>2 DEF IsFold
  <2>4. QED
    BY <2>3
<1>4. IsIter(final)
  BY <1>3
<1> HIDE DEF final
<1>6. tables[0] = start
  BY <1>0, <1>4, IndexSets
<1>7. ASSUME NEW k \in 0..(N - 1)
      PROVE  tables[k + 1] = WakeOne(tables[k], reqs[k + 1])
  <2>1. /\ 1..(k + 1) \in SUBSET (1..N) /\ 1..(k + 1) # {}
        /\ Max(1..(k + 1)) = k + 1 /\ (1..(k + 1)) \ {k + 1} = 1..k
        /\ k \in 0..N /\ k + 1 \in 0..N
    BY <1>0, IndexSets
  <2>2. final[1..(k + 1)] = WakeOne(final[1..k], reqs[k + 1])
    BY <1>4, <2>1
  <2>3. QED
    BY <2>1, <2>2
<1>8. WakeUp(holds, reqs) = tables[N]
  <2>1. N \in 0..N
    BY <1>0
  <2>2. QED
    BY <1>5, <2>1
<1>9. tables \in [0..N -> Queues]
  <2> DEFINE S == {k \in 0..N : tables[k] \in Queues}
  <2> HIDE DEF tables
  <2>1. 0 \in S
    BY <1>0, <1>1, <1>6
  <2>2. ASSUME NEW k \in 0..(N - 1), k \in S
        PROVE  k + 1 \in S
    <3>1. k + 1 \in 0..N /\ reqs[k + 1] \in Requests
      BY <1>0, IndexSets
    <3>2. tables[k + 1] \in Queues
      BY <1>7, <2>2, <3>1, WakeOneType
    <3>3. QED
      BY <3>1, <3>2
  <2> HIDE DEF S
  <2>3. 0..N \subseteq S
    BY <1>0, <2>1, <2>2, CountingTo
  <2>4. \A k \in 0..N : tables[k] \in Queues
    BY <2>3 DEF S
  <2>5. tables = [k \in 0..N |-> tables[k]]
    BY DEF tables
  <2>6. QED
    BY <2>4, <2>5
<1> HIDE DEF tables
<1>10. QED
  BY <1>0, <1>6, <1>7, <1>8, <1>9 DEF N, start

(* Whom fewer locks stand in the way of, more do.                          *)
LEMMA OpposedByMore ==
    ASSUME NEW few \in Holds, NEW more \in Holds, NEW req,
           \A b \in Backends : few[b] \subseteq more[b], Opposed(few, req)
    PROVE  Opposed(more, req)
BY DEF Opposed, Holds

(* What is so after k requests: nobody loses a lock, nobody is let through *)
(* against a lock, and whoever is first in the queue is there for a lock   *)
(* and not for another request.                                            *)
Woken(holds, reqs, k, table) ==
    /\ \A b \in Backends : holds[b] \subseteq table.holds[b]
    /\ \A j \in 1..k : Opposed(holds, reqs[j]) =>
          \E i \in DOMAIN table.left : table.left[i] = reqs[j]
    /\ table.left # <<>> => Opposed(table.holds, table.left[1])

LEMMA WokenStep ==
    ASSUME NEW holds \in Holds, NEW reqs \in Seq(Requests), NEW table \in Queues,
           NEW k \in Nat, k + 1 \in 1..Len(reqs), Woken(holds, reqs, k, table)
    PROVE  Woken(holds, reqs, k + 1, WakeOne(table, reqs[k + 1]))
<1> DEFINE req == reqs[k + 1]
           after == WakeOne(table, req)
<1>1. req \in Requests /\ table.holds \in Holds /\ table.left \in Seq(Requests)
  BY DEF Queues
<1>2. /\ after.holds \in Holds /\ after.left \in Seq(Requests)
      /\ Stays(table, req) => after.holds = table.holds /\ after.left = Append(table.left, req)
      /\ ~Stays(table, req) => /\ after.holds = [table.holds EXCEPT ![req.who] = @ \cup {req.mode}]
                               /\ after.left = table.left
  BY <1>1, WakeOneType DEF Queues
<1>3. \A j \in 1..(k + 1) : j = k + 1 \/ j \in 1..k
  OBVIOUS
<1> HIDE DEF after, req
<1>4. \A b \in Backends : table.holds[b] \subseteq after.holds[b]
  BY <1>1, <1>2 DEF Holds
<1>5. \A b \in Backends : holds[b] \subseteq after.holds[b]
  BY <1>4 DEF Woken
<1>6. ASSUME NEW i \in DOMAIN table.left
      PROVE  i \in DOMAIN after.left /\ after.left[i] = table.left[i]
  <2>1. CASE after.left = table.left
    BY <2>1
  <2>2. CASE after.left = Append(table.left, req)
    BY <1>1, <2>2
  <2>3. QED
    BY <1>2, <2>1, <2>2
<1>7. ASSUME Opposed(holds, req)
      PROVE  \E i \in DOMAIN after.left : after.left[i] = req
  <2>1. Stays(table, req)
    BY <1>1, <1>7, OpposedByMore DEF Woken, Stays
  <2>2. after.left = Append(table.left, req)
    BY <1>2, <2>1
  <2>3. Len(table.left) + 1 \in DOMAIN after.left /\ after.left[Len(table.left) + 1] = req
    BY <1>1, <2>2
  <2>4. QED
    BY <2>3
<1>8. ASSUME NEW j \in 1..(k + 1), Opposed(holds, reqs[j])
      PROVE  \E i \in DOMAIN after.left : after.left[i] = reqs[j]
  <2>1. CASE j = k + 1
    BY <1>7, <1>8, <2>1 DEF req
  <2>2. CASE j \in 1..k
    <3>1. PICK i \in DOMAIN table.left : table.left[i] = reqs[j]
      BY <1>8, <2>2 DEF Woken
    <3>2. QED
      BY <1>6, <3>1
  <2>3. QED
    BY <1>3, <2>1, <2>2
<1>9. ASSUME after.left # <<>>
      PROVE  Opposed(after.holds, after.left[1])
  <2>1. CASE table.left = <<>>
    <3>1. ~Preceded(table.left, req)
      BY <2>1 DEF Preceded
    <3>2. Stays(table, req)
      BY <1>2, <1>9, <2>1
    <3>3. Opposed(table.holds, req) /\ after.holds = table.holds /\ after.left = Append(<<>>, req)
      BY <1>2, <2>1, <3>1, <3>2 DEF Stays
    <3>4. QED
      BY <1>1, <3>3
  <2>2. CASE table.left # <<>>
    <3>1. 1 \in DOMAIN table.left
      BY <1>1, <2>2
    <3>2. after.left[1] = table.left[1] /\ Opposed(table.holds, table.left[1])
      BY <1>6, <2>2, <3>1 DEF Woken
    <3>3. QED
      BY <1>1, <1>2, <1>4, <3>2, OpposedByMore
  <2>3. QED
    BY <2>1, <2>2
<1>10. QED
  BY <1>5, <1>8, <1>9 DEF Woken, after, req

LEMMA WakeUpKeeps ==
    ASSUME NEW holds \in Holds, NEW reqs \in Seq(Requests)
    PROVE  /\ WakeUp(holds, reqs) \in Queues
           /\ Woken(holds, reqs, Len(reqs), WakeUp(holds, reqs))
<1> DEFINE N == Len(reqs)
<1>1. PICK tables \in [0..N -> Queues] :
         /\ tables[0] = [holds |-> holds, left |-> <<>>]
         /\ \A k \in 0..(N - 1) : tables[k + 1] = WakeOne(tables[k], reqs[k + 1])
         /\ WakeUp(holds, reqs) = tables[N]
  BY WakeUpSteps
<1>2. N \in Nat /\ N \in 0..N
  OBVIOUS
<1> DEFINE S == {k \in 0..N : Woken(holds, reqs, k, tables[k])}
<1>3. 0 \in S
  BY <1>1, <1>2 DEF Woken
<1>4. ASSUME NEW k \in 0..(N - 1), k \in S
      PROVE  k + 1 \in S
  <2>1. k \in Nat /\ k \in 0..N /\ k + 1 \in 0..N /\ k + 1 \in 1..Len(reqs)
    BY <1>2
  <2>2. Woken(holds, reqs, k + 1, WakeOne(tables[k], reqs[k + 1]))
    BY <1>1, <1>4, <2>1, WokenStep
  <2>3. QED
    BY <1>1, <2>1, <2>2
<1> HIDE DEF S, N
<1>5. 0..N \subseteq S
  BY <1>2, <1>3, <1>4, CountingTo
<1>6. Woken(holds, reqs, N, tables[N])
  BY <1>2, <1>5 DEF S
<1>7. QED
  BY <1>1, <1>2, <1>6 DEF N

LEMMA ConflictsAreMutual ==
    ASSUME NEW m \in LockModes, NEW n \in LockModes, DoLockModesConflict(m, n)
    PROVE  DoLockModesConflict(n, m)
BY LockModesAssumption DEF DoLockModesConflict, ModeConflicts

(* Different sessions hold no conflicting locks of an object.              *)
Compatible(holds) ==
    \A b, c \in Backends : b # c =>
        \A m \in holds[b], n \in holds[c] : ~DoLockModesConflict(m, n)

(* A session has one request in a queue at most.                           *)
OneEach(reqs) ==
    \A i, j \in DOMAIN reqs : reqs[i].who = reqs[j].who => i = j

(* A grant to a session nobody opposes leaves the locks compatible.        *)
LEMMA GrantIsCompatible ==
    ASSUME NEW holds \in Holds, NEW req \in Requests, Compatible(holds), ~Opposed(holds, req)
    PROVE  /\ [holds EXCEPT ![req.who] = @ \cup {req.mode}] \in Holds
           /\ Compatible([holds EXCEPT ![req.who] = @ \cup {req.mode}])
<1> DEFINE more == [holds EXCEPT ![req.who] = @ \cup {req.mode}]
<1>1. req.who \in Backends /\ req.mode \in LockModes
  BY DEF Requests
<1>2. /\ more \in Holds
      /\ more[req.who] = holds[req.who] \cup {req.mode}
      /\ \A b \in Backends : b # req.who => more[b] = holds[b]
  BY <1>1 DEF Holds
<1> HIDE DEF more
<1>3. ASSUME NEW b \in Backends, b # req.who, NEW m \in holds[b]
      PROVE  ~DoLockModesConflict(m, req.mode) /\ ~DoLockModesConflict(req.mode, m)
  <2>1. ~DoLockModesConflict(m, req.mode) /\ m \in LockModes
    BY <1>3 DEF Opposed, Holds
  <2>2. QED
    BY <1>1, <2>1, ConflictsAreMutual
<1>4. ASSUME NEW b \in Backends, NEW c \in Backends, b # c, NEW m \in more[b], NEW n \in more[c]
      PROVE  ~DoLockModesConflict(m, n)
  <2>1. CASE b = req.who
    BY <1>2, <1>3, <1>4, <2>1 DEF Compatible
  <2>2. CASE c = req.who
    BY <1>2, <1>3, <1>4, <2>2 DEF Compatible
  <2>3. CASE b # req.who /\ c # req.who
    BY <1>2, <1>4, <2>3 DEF Compatible
  <2>4. QED
    BY <2>1, <2>2, <2>3
<1>5. Compatible(more)
  BY <1>4 DEF Compatible
<1>6. QED
  BY <1>2, <1>5 DEF more

(* Where each session has one request at most: after k of them, one whose  *)
(* turn has come waits on with what it held or holds the lock in addition, *)
(* and no other holds more than before.                                    *)
Served(holds, reqs, k, table) ==
    /\ Compatible(table.holds)
    /\ OneEach(table.left)
    /\ \A i \in DOMAIN table.left : \E j \in 1..k : reqs[j] = table.left[i]
    /\ \A c \in Backends : (\A j \in 1..k : reqs[j].who # c) => table.holds[c] = holds[c]
    /\ \A j \in 1..k :
          \/ /\ table.holds[reqs[j].who] = holds[reqs[j].who]
             /\ \E i \in DOMAIN table.left : table.left[i] = reqs[j]
          \/ /\ table.holds[reqs[j].who] = holds[reqs[j].who] \cup {reqs[j].mode}
             /\ \A i \in DOMAIN table.left : table.left[i].who # reqs[j].who

LEMMA ServedStep ==
    ASSUME NEW holds \in Holds, NEW reqs \in Seq(Requests), OneEach(reqs), NEW table \in Queues,
           NEW k \in Nat, k + 1 \in 1..Len(reqs), Served(holds, reqs, k, table)
    PROVE  Served(holds, reqs, k + 1, WakeOne(table, reqs[k + 1]))
<1> DEFINE req == reqs[k + 1]
           after == WakeOne(table, req)
<1>1. /\ req \in Requests /\ table.holds \in Holds /\ table.left \in Seq(Requests)
      /\ req.who \in Backends /\ req.mode \in LockModes
      /\ \A j \in 1..k : reqs[j] \in Requests
  <2>1. \A j \in 1..Len(reqs) : reqs[j] \in Requests
    OBVIOUS
  <2>2. req \in Requests
    BY <2>1
  <2>3. \A j \in 1..k : j \in 1..Len(reqs)
    OBVIOUS
  <2> HIDE DEF req
  <2>4. req.who \in Backends /\ req.mode \in LockModes
    BY <2>2 DEF Requests
  <2>5. QED
    BY <2>1, <2>2, <2>3, <2>4 DEF Queues
<1>2. /\ after.holds \in Holds /\ after.left \in Seq(Requests)
      /\ Stays(table, req) => after.holds = table.holds /\ after.left = Append(table.left, req)
      /\ ~Stays(table, req) => /\ after.holds = [table.holds EXCEPT ![req.who] = @ \cup {req.mode}]
                               /\ after.left = table.left
  BY <1>1, WakeOneType DEF Queues
<1>3. \A j \in 1..(k + 1) : j = k + 1 \/ j \in 1..k
  OBVIOUS
<1>4. \A j \in 1..k : reqs[j].who # req.who
  <2>1. \A j \in 1..k : j \in DOMAIN reqs /\ k + 1 \in DOMAIN reqs /\ j # k + 1
    OBVIOUS
  <2>2. QED
    BY <2>1 DEF OneEach
<1>5. k + 1 \in 1..(k + 1) /\ \A j \in 1..k : j \in 1..(k + 1)
  OBVIOUS
<1>6. reqs[k + 1] = req
  OBVIOUS
<1> HIDE DEF after, req
<1>7. /\ table.holds[req.who] = holds[req.who]
      /\ \A i \in DOMAIN table.left : table.left[i].who # req.who
  BY <1>1, <1>4 DEF Served
<1>8. CASE Stays(table, req)
  <2> DEFINE last == Len(table.left) + 1
  <2>1. /\ after.holds = table.holds
        /\ DOMAIN after.left = 1..last
        /\ last \in DOMAIN after.left /\ after.left[last] = req
        /\ \A i \in DOMAIN table.left : i \in DOMAIN after.left /\ after.left[i] = table.left[i]
        /\ \A i \in DOMAIN after.left : i = last \/ i \in DOMAIN table.left
    <3>1. after.left = Append(table.left, req) /\ after.holds = table.holds
      BY <1>2, <1>8
    <3>2. QED
      BY <1>1, <3>1
  <2> HIDE DEF last
  <2>2. Compatible(after.holds)
    BY <2>1 DEF Served
  <2>3. OneEach(after.left)
    BY <1>7, <2>1 DEF Served, OneEach
  <2>4. \A i \in DOMAIN after.left : \E j \in 1..(k + 1) : reqs[j] = after.left[i]
    BY <1>5, <1>6, <2>1 DEF Served
  <2>5. \A c \in Backends : (\A j \in 1..(k + 1) : reqs[j].who # c) => after.holds[c] = holds[c]
    BY <1>5, <2>1 DEF Served
  <2>6. ASSUME NEW j \in 1..(k + 1)
        PROVE  \/ /\ after.holds[reqs[j].who] = holds[reqs[j].who]
                  /\ \E i \in DOMAIN after.left : after.left[i] = reqs[j]
               \/ /\ after.holds[reqs[j].who] = holds[reqs[j].who] \cup {reqs[j].mode}
                  /\ \A i \in DOMAIN after.left : after.left[i].who # reqs[j].who
    <3>1. CASE j = k + 1
      BY <1>6, <1>7, <2>1, <3>1
    <3>2. CASE j \in 1..k
      BY <1>4, <2>1, <3>2 DEF Served
    <3>3. QED
      BY <1>3, <3>1, <3>2
  <2>7. QED
    BY <1>6, <2>2, <2>3, <2>4, <2>5, <2>6 DEF Served, after
<1>9. CASE ~Stays(table, req)
  <2>1. /\ after.left = table.left
        /\ after.holds[req.who] = holds[req.who] \cup {req.mode}
        /\ \A c \in Backends : c # req.who => after.holds[c] = table.holds[c]
    BY <1>1, <1>2, <1>7, <1>9 DEF Holds
  <2>2. Compatible(after.holds)
    <3>1. ~Opposed(table.holds, req) /\ Compatible(table.holds)
      BY <1>9 DEF Stays, Served
    <3>2. QED
      BY <1>1, <1>2, <1>9, <3>1, GrantIsCompatible
  <2>3. OneEach(after.left)
    BY <2>1 DEF Served
  <2>4. \A i \in DOMAIN after.left : \E j \in 1..(k + 1) : reqs[j] = after.left[i]
    BY <1>5, <2>1 DEF Served
  <2>5. \A c \in Backends : (\A j \in 1..(k + 1) : reqs[j].who # c) => after.holds[c] = holds[c]
    BY <1>5, <1>6, <2>1 DEF Served
  <2>6. ASSUME NEW j \in 1..(k + 1)
        PROVE  \/ /\ after.holds[reqs[j].who] = holds[reqs[j].who]
                  /\ \E i \in DOMAIN after.left : after.left[i] = reqs[j]
               \/ /\ after.holds[reqs[j].who] = holds[reqs[j].who] \cup {reqs[j].mode}
                  /\ \A i \in DOMAIN after.left : after.left[i].who # reqs[j].who
    <3>1. CASE j = k + 1
      BY <1>6, <1>7, <2>1, <3>1
    <3>2. CASE j \in 1..k
      <4>1. reqs[j].who \in Backends /\ reqs[j].who # req.who
        BY <1>1, <1>4, <3>2 DEF Requests
      <4>2. QED
        BY <2>1, <3>2, <4>1 DEF Served
    <3>3. QED
      BY <1>3, <3>1, <3>2
  <2>7. QED
    BY <1>6, <2>2, <2>3, <2>4, <2>5, <2>6 DEF Served, after
<1>10. QED
  BY <1>8, <1>9

LEMMA WakeUpServes ==
    ASSUME NEW holds \in Holds, NEW reqs \in Seq(Requests), Compatible(holds), OneEach(reqs)
    PROVE  Served(holds, reqs, Len(reqs), WakeUp(holds, reqs))
<1> DEFINE N == Len(reqs)
<1>1. PICK tables \in [0..N -> Queues] :
         /\ tables[0] = [holds |-> holds, left |-> <<>>]
         /\ \A k \in 0..(N - 1) : tables[k + 1] = WakeOne(tables[k], reqs[k + 1])
         /\ WakeUp(holds, reqs) = tables[N]
  BY WakeUpSteps
<1>2. N \in Nat /\ N \in 0..N
  OBVIOUS
<1> DEFINE S == {k \in 0..N : Served(holds, reqs, k, tables[k])}
<1>3. 0 \in S
  BY <1>1, <1>2 DEF Served, OneEach
<1>4. ASSUME NEW k \in 0..(N - 1), k \in S
      PROVE  k + 1 \in S
  <2>1. k \in Nat /\ k \in 0..N /\ k + 1 \in 0..N /\ k + 1 \in 1..Len(reqs)
    BY <1>2
  <2>2. Served(holds, reqs, k + 1, WakeOne(tables[k], reqs[k + 1]))
    BY <1>1, <1>4, <2>1, ServedStep
  <2>3. QED
    BY <1>1, <2>1, <2>2
<1> HIDE DEF S, N
<1>5. 0..N \subseteq S
  BY <1>2, <1>3, <1>4, CountingTo
<1>6. Served(holds, reqs, N, tables[N])
  BY <1>2, <1>5 DEF S
<1>7. QED
  BY <1>1, <1>2, <1>6 DEF N

-----------------------------------------------------------------------------
(* The lock table: queues that a request joins or leaves                   *)

In(reqs, req) == \E i \in DOMAIN reqs : reqs[i] = req

LEMMA Removed ==
    ASSUME NEW S, NEW s \in Seq(S), NEW i \in 1..Len(s)
    PROVE  /\ RemoveAt(s, i) \in Seq(S)
           /\ Len(RemoveAt(s, i)) = Len(s) - 1
           /\ \A k \in 1..(Len(s) - 1) : RemoveAt(s, i)[k] = IF k < i THEN s[k] ELSE s[k + 1]
<1> DEFINE a == SubSeq(s, 1, i - 1)
           b == SubSeq(s, i + 1, Len(s))
<1>1. /\ a \in Seq(S) /\ Len(a) = i - 1
      /\ \A k \in 1..(i - 1) : a[k] = s[k]
  OBVIOUS
<1>2. /\ b \in Seq(S) /\ Len(b) = Len(s) - i
      /\ \A k \in 1..(Len(s) - i) : b[k] = s[i + k]
  OBVIOUS
<1>3. RemoveAt(s, i) = a \o b
  BY DEF RemoveAt
<1>4. i \in Nat /\ Len(s) \in Nat /\ 1 <= i
  OBVIOUS
<1> HIDE DEF a, b
<1>5. /\ a \o b \in Seq(S) /\ Len(a \o b) = Len(s) - 1
      /\ \A k \in 1..(Len(s) - 1) : (a \o b)[k] = IF k <= i - 1 THEN a[k] ELSE b[k - (i - 1)]
  <2>1. /\ a \o b \in Seq(S) /\ Len(a \o b) = Len(a) + Len(b)
        /\ \A k \in 1..(Len(a) + Len(b)) :
              (a \o b)[k] = IF k <= Len(a) THEN a[k] ELSE b[k - Len(a)]
    BY <1>1, <1>2, Joined
  <2>2. Len(a) = i - 1 /\ Len(a) + Len(b) = Len(s) - 1
    BY <1>1, <1>2, <1>4
  <2>3. QED
    BY <2>1, <2>2
<1>6. ASSUME NEW k \in 1..(Len(s) - 1)
      PROVE  (a \o b)[k] = IF k < i THEN s[k] ELSE s[k + 1]
  <2>1. CASE k <= i - 1
    BY <1>1, <1>4, <1>5, <2>1
  <2>2. CASE ~(k <= i - 1)
    <3>1. k - (i - 1) \in 1..(Len(s) - i) /\ i + (k - (i - 1)) = k + 1 /\ ~(k < i)
      BY <1>4, <2>2
    <3>2. b[k - (i - 1)] = s[k + 1]
      BY <1>2, <3>1
    <3>3. QED
      BY <1>5, <2>2, <3>1, <3>2
  <2>3. QED
    BY <2>1, <2>2
<1>7. QED
  BY <1>3, <1>5, <1>6

(* A request that joins a queue its session has none in.                   *)
LEMMA JoinedQueue ==
    ASSUME NEW reqs \in Seq(Requests), OneEach(reqs), NEW req \in Requests,
           \A i \in DOMAIN reqs : reqs[i].who # req.who,
           NEW place \in 1..(Len(reqs) + 1)
    PROVE  LET after == InsertAt(reqs, place, req) IN
           /\ after \in Seq(Requests) /\ OneEach(after) /\ after # <<>>
           /\ \A other : In(after, other) <=> In(reqs, other) \/ other = req
           /\ after[1] = IF place = 1 THEN req ELSE reqs[1]
<1> DEFINE after == InsertAt(reqs, place, req)
<1>1. /\ after \in Seq(Requests) /\ Len(after) = Len(reqs) + 1
      /\ \A k \in 1..(Len(reqs) + 1) : after[k] =
            IF k < place THEN reqs[k] ELSE IF k = place THEN req ELSE reqs[k - 1]
  BY Inserted
<1>2. Len(reqs) \in Nat /\ DOMAIN reqs = 1..Len(reqs) /\ place \in Nat /\ 1 <= place
      /\ place <= Len(reqs) + 1
  OBVIOUS
<1> HIDE DEF after
<1>3. DOMAIN after = 1..(Len(reqs) + 1) /\ after # <<>>
  BY <1>1, <1>2
<1>4. OneEach(after)
  <2> SUFFICES ASSUME NEW j \in 1..(Len(reqs) + 1), NEW k \in 1..(Len(reqs) + 1), j < k
               PROVE  after[j].who # after[k].who
    BY <1>2, <1>3 DEF OneEach
  <2>1. CASE k < place
    <3>1. j \in DOMAIN reqs /\ k \in DOMAIN reqs /\ after[j] = reqs[j] /\ after[k] = reqs[k] /\ j # k
      BY <1>1, <1>2, <2>1
    <3>2. QED
      BY <3>1 DEF OneEach
  <2>2. CASE k = place
    <3>1. j \in DOMAIN reqs /\ after[j] = reqs[j] /\ after[k] = req
      BY <1>1, <1>2, <2>2
    <3>2. QED
      BY <3>1
  <2>3. CASE k > place
    <3>1. k - 1 \in DOMAIN reqs /\ after[k] = reqs[k - 1]
      BY <1>1, <1>2, <2>3
    <3>2. CASE j < place
      <4>1. j \in DOMAIN reqs /\ after[j] = reqs[j] /\ j # k - 1
        BY <1>1, <1>2, <2>3, <3>2
      <4>2. QED
        BY <3>1, <4>1 DEF OneEach
    <3>3. CASE j = place
      <4>1. after[j] = req
        BY <1>1, <3>3
      <4>2. QED
        BY <3>1, <4>1
    <3>4. CASE j > place
      <4>1. j - 1 \in DOMAIN reqs /\ after[j] = reqs[j - 1] /\ j - 1 # k - 1
        BY <1>1, <1>2, <3>4
      <4>2. QED
        BY <3>1, <4>1 DEF OneEach
    <3>5. QED
      BY <1>2, <3>2, <3>3, <3>4
  <2>4. QED
    BY <1>2, <2>1, <2>2, <2>3
<1>5. ASSUME NEW other, In(after, other)
      PROVE  In(reqs, other) \/ other = req
  <2>1. PICK k \in 1..(Len(reqs) + 1) : after[k] = other
    BY <1>3, <1>5 DEF In
  <2>2. CASE k < place
    <3>1. k \in DOMAIN reqs /\ reqs[k] = other
      BY <1>1, <1>2, <2>1, <2>2
    <3>2. QED
      BY <3>1 DEF In
  <2>3. CASE k > place
    <3>1. k - 1 \in DOMAIN reqs /\ reqs[k - 1] = other
      BY <1>1, <1>2, <2>1, <2>3
    <3>2. QED
      BY <3>1 DEF In
  <2>4. CASE k = place
    BY <1>1, <2>1, <2>4
  <2>5. QED
    BY <1>2, <2>2, <2>3, <2>4
<1>6. In(after, req)
  <2>1. place \in DOMAIN after /\ after[place] = req
    BY <1>1, <1>2, <1>3
  <2>2. QED
    BY <2>1 DEF In
<1>7. ASSUME NEW other, In(reqs, other)
      PROVE  In(after, other)
  <2>1. PICK k \in 1..Len(reqs) : reqs[k] = other
    BY <1>2, <1>7 DEF In
  <2>2. CASE k < place
    <3>1. k \in DOMAIN after /\ after[k] = other
      BY <1>1, <1>2, <1>3, <2>1, <2>2
    <3>2. QED
      BY <3>1 DEF In
  <2>3. CASE k >= place
    <3> DEFINE n == k + 1
    <3>1. n \in 1..(Len(reqs) + 1) /\ ~(n < place) /\ n # place /\ n - 1 = k
      BY <1>2, <2>3
    <3> HIDE DEF n
    <3>2. n \in DOMAIN after /\ after[n] = other
      BY <1>1, <1>3, <2>1, <3>1
    <3>3. QED
      BY <3>2 DEF In
  <2>4. QED
    BY <1>2, <2>2, <2>3
<1>8. after[1] = IF place = 1 THEN req ELSE reqs[1]
  <2>1. 1 \in 1..(Len(reqs) + 1)
    BY <1>2
  <2>2. QED
    BY <1>1, <1>2, <2>1
<1>9. QED
  BY <1>1, <1>3, <1>4, <1>5, <1>6, <1>7, <1>8 DEF after

(* A queue that a session leaves.                                          *)
LEMMA LeftQueue ==
    ASSUME NEW reqs \in Seq(Requests), OneEach(reqs), NEW b
    PROVE  LET after == Leave(reqs, b) IN
           /\ after \in Seq(Requests) /\ OneEach(after)
           /\ \A other : In(after, other) <=> In(reqs, other) /\ other.who # b
<1> DEFINE own == {i \in DOMAIN reqs : reqs[i].who = b}
           after == Leave(reqs, b)
<1>1. CASE own = {}
  <2>1. after = reqs /\ \A i \in DOMAIN reqs : reqs[i].who # b
    BY <1>1 DEF Leave
  <2>2. QED
    BY <2>1 DEF In
<1>2. CASE own # {}
  <2> DEFINE i == Min(own)
  <2>1. own \subseteq Nat
    OBVIOUS
  <2>2. i \in own
    <3> HIDE DEF own
    <3>1. PICK n \in own : \A m \in own : n <= m
      BY <1>2, <2>1, LeastOfSome
    <3>2. QED
      BY <3>1 DEF Min
  <2>3. after = RemoveAt(reqs, i)
    BY <1>2 DEF Leave
  <2>4. Len(reqs) \in Nat /\ DOMAIN reqs = 1..Len(reqs) /\ i \in 1..Len(reqs) /\ reqs[i].who = b
    BY <2>2
  <2> HIDE DEF after, i, own
  <2>5. /\ after \in Seq(Requests) /\ Len(after) = Len(reqs) - 1
        /\ \A k \in 1..(Len(reqs) - 1) : after[k] = IF k < i THEN reqs[k] ELSE reqs[k + 1]
    BY <2>3, <2>4, Removed
  <2> DEFINE Old(k) == IF k < i THEN k ELSE k + 1
  <2>6. /\ DOMAIN after = 1..(Len(reqs) - 1)
        /\ \A k \in DOMAIN after : Old(k) \in DOMAIN reqs /\ Old(k) # i /\ after[k] = reqs[Old(k)]
        /\ \A j, k \in DOMAIN after : Old(j) = Old(k) => j = k
    BY <2>4, <2>5
  <2>7. \A j \in DOMAIN reqs : j # i => \E k \in DOMAIN after : Old(k) = j
    <3> TAKE j \in DOMAIN reqs
    <3> HAVE j # i
    <3>1. CASE j < i
      <4>1. j \in DOMAIN after /\ Old(j) = j
        BY <2>4, <2>6, <3>1
      <4>2. QED
        BY <4>1
    <3>2. CASE j > i
      <4>1. j - 1 \in DOMAIN after /\ Old(j - 1) = j
        BY <2>4, <2>6, <3>2
      <4>2. QED
        BY <4>1
    <3>3. QED
      BY <2>4, <3>1, <3>2
  <2> HIDE DEF Old
  <2>8. OneEach(after)
    BY <2>6 DEF OneEach
  <2>9. \A k \in DOMAIN after : reqs[Old(k)].who # b
    BY <2>4, <2>6 DEF OneEach
  <2>10. \A other : In(after, other) => In(reqs, other) /\ other.who # b
    BY <2>6, <2>9 DEF In
  <2>11. \A other : In(reqs, other) /\ other.who # b => In(after, other)
    BY <2>4, <2>6, <2>7 DEF In
  <2>12. QED
    BY <2>5, <2>8, <2>10, <2>11 DEF after
<1>3. QED
  BY <1>1, <1>2

(* A wake-up as one session sees it: nothing changes for it, or the lock   *)
(* it waited for is granted.                                               *)
Moved(few, before, more, after, c) ==
    \/ /\ more[c] = few[c]
       /\ \A m : In(after, [who |-> c, mode |-> m]) <=> In(before, [who |-> c, mode |-> m])
    \/ \E m \in LockModes :
          /\ In(before, [who |-> c, mode |-> m])
          /\ more[c] = few[c] \cup {m}
          /\ \A n : ~In(after, [who |-> c, mode |-> n])

LEMMA AfterWakeUp ==
    ASSUME NEW holds \in Holds, NEW reqs \in Seq(Requests), Compatible(holds), OneEach(reqs)
    PROVE  LET table == WakeUp(holds, reqs) IN
           /\ table.holds \in Holds /\ table.left \in Seq(Requests)
           /\ Compatible(table.holds) /\ OneEach(table.left)
           /\ table.left # <<>> => Opposed(table.holds, table.left[1])
           /\ \A c \in Backends : Moved(holds, reqs, table.holds, table.left, c)
<1> DEFINE table == WakeUp(holds, reqs)
<1>1. /\ table.holds \in Holds /\ table.left \in Seq(Requests)
      /\ table.left # <<>> => Opposed(table.holds, table.left[1])
  BY WakeUpKeeps DEF Queues, Woken
<1>2. Served(holds, reqs, Len(reqs), table)
  BY WakeUpServes
<1>3. DOMAIN reqs = 1..Len(reqs) /\ \A i \in DOMAIN reqs : reqs[i] \in Requests
  OBVIOUS
<1> HIDE DEF table
<1>4. ASSUME NEW c \in Backends
      PROVE  Moved(holds, reqs, table.holds, table.left, c)
  <2>1. \A req : In(table.left, req) => In(reqs, req)
    BY <1>2, <1>3 DEF Served, In
  <2>2. CASE \A j \in DOMAIN reqs : reqs[j].who # c
    <3>1. \A m : ~In(reqs, [who |-> c, mode |-> m])
      BY <2>2 DEF In
    <3>2. table.holds[c] = holds[c]
      BY <1>2, <1>3, <2>2 DEF Served
    <3>3. QED
      BY <2>1, <3>1, <3>2 DEF Moved
  <2>3. ASSUME NEW j \in DOMAIN reqs, reqs[j].who = c
        PROVE  Moved(holds, reqs, table.holds, table.left, c)
    <3> DEFINE m == reqs[j].mode
    <3>1. m \in LockModes /\ reqs[j] = [who |-> c, mode |-> m]
      BY <1>3, <2>3 DEF Requests
    <3> HIDE DEF m
    <3>2. In(reqs, [who |-> c, mode |-> m])
      BY <3>1 DEF In
    <3>3. \A n : In(reqs, [who |-> c, mode |-> n]) => n = m
      <4>1. ASSUME NEW n, NEW i \in DOMAIN reqs, reqs[i] = [who |-> c, mode |-> n]
            PROVE  n = m
        <5>1. i = j
          BY <2>3, <4>1 DEF OneEach
        <5>2. [who |-> c, mode |-> n].mode = [who |-> c, mode |-> m].mode
          BY <3>1, <4>1, <5>1
        <5>3. QED
          BY <5>2
      <4>2. QED
        BY <4>1 DEF In
    <3>4. \/ /\ table.holds[c] = holds[c]
             /\ In(table.left, [who |-> c, mode |-> m])
          \/ /\ table.holds[c] = holds[c] \cup {m}
             /\ \A i \in DOMAIN table.left : table.left[i].who # c
      BY <1>2, <1>3, <2>3, <3>1 DEF Served, In, m
    <3>5. CASE table.holds[c] = holds[c] /\ In(table.left, [who |-> c, mode |-> m])
      BY <2>1, <3>2, <3>3, <3>5 DEF Moved
    <3>6. CASE /\ table.holds[c] = holds[c] \cup {m}
               /\ \A i \in DOMAIN table.left : table.left[i].who # c
      <4>1. \A n : ~In(table.left, [who |-> c, mode |-> n])
        BY <3>6 DEF In
      <4>2. QED
        BY <3>1, <3>2, <3>6, <4>1 DEF Moved
    <3>7. QED
      BY <3>4, <3>5, <3>6
  <2>4. QED
    BY <2>2, <2>3
<1>5. QED
  BY <1>1, <1>2, <1>4 DEF Served, table

-----------------------------------------------------------------------------
(* The lock table: its invariant and its steps                             *)

(* Whoever is first in a queue waits for a lock: what the others in it     *)
(* wait for is in the end a lock, and so an edge of the graph.             *)
TableInv ==
    /\ held \in [Tags -> Holds]
    /\ queue \in [Tags -> Seq(Requests)]
    /\ \A t \in Tags :
          /\ Compatible(held[t])
          /\ OneEach(queue[t])
          /\ queue[t] # <<>> => Opposed(held[t], queue[t][1])

LEMMA InitTable == LockInit => TableInv
<1> SUFFICES ASSUME LockInit
             PROVE  TableInv
  OBVIOUS
<1>1. held \in [Tags -> Holds] /\ queue \in [Tags -> Seq(Requests)]
  BY DEF LockInit, Holds
<1>2. \A t \in Tags : queue[t] = <<>> /\ \A b \in Backends : held[t][b] = {}
  BY DEF LockInit
<1>3. QED
  BY <1>1, <1>2 DEF TableInv, Compatible, OneEach

LEMMA PlaceIsInQueue ==
    ASSUME TableInv, NEW t \in Tags, NEW req
    PROVE  Place(t, req) \in 1..(Len(queue[t]) + 1)
<1> DEFINE ahead == {i \in DOMAIN queue[t] :
                \E m \in held[t][req.who] : DoLockModesConflict(m, queue[t][i].mode)}
<1>1. Len(queue[t]) \in Nat /\ DOMAIN queue[t] = 1..Len(queue[t])
  BY DEF TableInv
<1>2. ahead \subseteq 1..Len(queue[t])
  BY <1>1
<1>3. ahead # {} => Min(ahead) \in ahead
  <2> HIDE DEF ahead
  <2>1. SUFFICES ASSUME ahead # {}
                 PROVE  Min(ahead) \in ahead
    OBVIOUS
  <2>2. ahead \subseteq Nat
    BY <1>2
  <2>3. PICK n \in ahead : \A m \in ahead : n <= m
    BY <2>1, <2>2, LeastOfSome
  <2>4. QED
    BY <2>3 DEF Min
<1>4. Place(t, req) = IF ahead = {} THEN Len(queue[t]) + 1 ELSE Min(ahead)
  BY DEF Place
<1> HIDE DEF ahead
<1>5. CASE ahead = {}
  BY <1>1, <1>4, <1>5
<1>6. CASE ahead # {}
  <2>1. Min(ahead) \in 1..Len(queue[t]) /\ Place(t, req) = Min(ahead)
    BY <1>2, <1>3, <1>4, <1>6
  <2> HIDE DEF Min
  <2>2. QED
    BY <1>1, <2>1
<1>7. QED
  BY <1>5, <1>6

(* A session that asks for a lock joins a queue or is granted it.          *)
LEMMA LockSteps ==
    ASSUME TableInv, NEW b \in Backends, NEW t \in Tags, NEW m \in LockModes, Lock(b, t, m)
    PROVE  /\ TableInv'
           /\ \A u \in Tags : u # t => held'[u] = held[u] /\ queue'[u] = queue[u]
           /\ \A c \in Backends \ {b} : held'[t][c] = held[t][c]
           /\ \/ /\ held'[t][b] = held[t][b]
                 /\ \A req : In(queue'[t], req) <=>
                       In(queue[t], req) \/ req = [who |-> b, mode |-> m]
              \/ /\ held'[t][b] = held[t][b] \cup {m}
                 /\ queue'[t] = queue[t]
<1> DEFINE req == [who |-> b, mode |-> m]
           place == Place(t, req)
<1>1. /\ held \in [Tags -> Holds] /\ queue \in [Tags -> Seq(Requests)]
      /\ \A u \in Tags : /\ Compatible(held[u]) /\ OneEach(queue[u])
                         /\ queue[u] # <<>> => Opposed(held[u], queue[u][1])
  BY DEF TableInv
<1>2. req \in Requests /\ req.who = b /\ req.mode = m
  BY DEF Requests
<1>3. place \in 1..(Len(queue[t]) + 1)
  BY PlaceIsInQueue
<1>4. \A i \in DOMAIN queue[t] : queue[t][i].who # b
  BY DEF Lock, Waiting, WaitsFor
<1> DEFINE waits == Opposed(held[t], req) \/ Preceded(SubSeq(queue[t], 1, place - 1), req)
<1>5. /\ waits => queue' = [queue EXCEPT ![t] = InsertAt(@, place, req)] /\ held' = held
      /\ ~waits => held' = [held EXCEPT ![t][b] = @ \cup {m}] /\ queue' = queue
  BY DEF Lock
<1>6. place = 1 => ~Preceded(SubSeq(queue[t], 1, place - 1), req)
  BY <1>1 DEF Preceded
<1> HIDE DEF place
<1>7. CASE waits
  <2> DEFINE after == InsertAt(queue[t], place, req)
  <2>1. /\ held' = held /\ queue'[t] = after /\ queue' \in [Tags -> Seq(Requests)]
        /\ \A u \in Tags : u # t => queue'[u] = queue[u]
        /\ OneEach(after)
        /\ \A other : In(after, other) <=> In(queue[t], other) \/ other = req
        /\ after[1] = IF place = 1 THEN req ELSE queue[t][1]
    <3>1. /\ after \in Seq(Requests) /\ OneEach(after)
          /\ \A other : In(after, other) <=> In(queue[t], other) \/ other = req
          /\ after[1] = IF place = 1 THEN req ELSE queue[t][1]
      <4>1. queue[t] \in Seq(Requests) /\ OneEach(queue[t])
        BY <1>1
      <4> HIDE DEF req
      <4>2. QED
        BY <1>2, <1>3, <1>4, <4>1, JoinedQueue
    <3> HIDE DEF after
    <3>2. queue' = [queue EXCEPT ![t] = after] /\ held' = held
      BY <1>5, <1>7 DEF after
    <3>3. QED
      BY <1>1, <3>1, <3>2
  <2> HIDE DEF after
  <2>2. Opposed(held[t], after[1])
    <3>1. CASE place = 1
      BY <1>6, <1>7, <2>1, <3>1
    <3>2. CASE place # 1
      <4>1. queue[t] # <<>>
        <5>1. Len(queue[t]) # 0
          BY <1>1, <1>3, <3>2
        <5>2. QED
          BY <1>1, <5>1
      <4>2. QED
        BY <1>1, <2>1, <3>2, <4>1
    <3>3. QED
      BY <3>1, <3>2
  <2>3. TableInv'
    BY <1>1, <2>1, <2>2 DEF TableInv
  <2>4. QED
    BY <2>1, <2>3
<1>8. CASE ~waits
  <2> DEFINE more == [held[t] EXCEPT ![b] = @ \cup {m}]
  <2>1. more \in Holds /\ Compatible(more)
    <3>1. held[t] \in Holds /\ Compatible(held[t]) /\ ~Opposed(held[t], req)
      BY <1>1, <1>8
    <3> HIDE DEF req
    <3>2. QED
      BY <1>2, <3>1, GrantIsCompatible
  <2>2. more[b] = held[t][b] \cup {m} /\ \A c \in Backends \ {b} : more[c] = held[t][c]
    BY <1>1 DEF Holds
  <2>3. queue' = queue /\ held' = [held EXCEPT ![t] = more]
    BY <1>1, <1>5, <1>8
  <2> HIDE DEF more
  <2>4. /\ held' \in [Tags -> Holds] /\ held'[t] = more
        /\ \A u \in Tags : u # t => held'[u] = held[u]
    BY <1>1, <2>1, <2>3
  <2>5. ASSUME NEW u \in Tags, queue[u] # <<>>
        PROVE  Opposed(held'[u], queue[u][1])
    <3>1. CASE u # t
      BY <1>1, <2>4, <2>5, <3>1
    <3>2. CASE u = t
      <4>1. held[t] \in Holds /\ Opposed(held[t], queue[t][1])
        BY <1>1, <2>5, <3>2
      <4>2. \A c \in Backends : held[t][c] \subseteq more[c]
        BY <2>2
      <4>3. QED
        BY <2>1, <2>4, <3>2, <4>1, <4>2, OpposedByMore
    <3>3. QED
      BY <3>1, <3>2
  <2>6. TableInv'
    BY <1>1, <2>1, <2>3, <2>4, <2>5 DEF TableInv
  <2>7. QED
    BY <2>2, <2>3, <2>4, <2>6
<1>9. QED
  BY <1>7, <1>8

(* A session with fewer locks leaves the others compatible.                *)
LEMMA FewerIsCompatible ==
    ASSUME NEW holds \in Holds, NEW b \in Backends, NEW few \in SUBSET holds[b],
           Compatible(holds)
    PROVE  /\ [holds EXCEPT ![b] = few] \in Holds
           /\ Compatible([holds EXCEPT ![b] = few])
<1> DEFINE less == [holds EXCEPT ![b] = few]
<1>1. /\ less \in Holds
      /\ \A c \in Backends : less[c] \subseteq holds[c]
  BY DEF Holds
<1> HIDE DEF less
<1>2. Compatible(less)
  BY <1>1 DEF Compatible
<1>3. QED
  BY <1>1, <1>2 DEF less

(* A session that ends leaves every queue and holds nothing, and the       *)
(* others wait on or get what they waited for.                             *)
LEMMA ReleaseSteps ==
    ASSUME TableInv, NEW b \in Backends, Release(b)
    PROVE  /\ TableInv'
           /\ \A t \in Tags :
                 /\ held'[t][b] = {}
                 /\ \A m : ~In(queue'[t], [who |-> b, mode |-> m])
                 /\ \A c \in Backends \ {b} : Moved(held[t], queue[t], held'[t], queue'[t], c)
<1>1. /\ held \in [Tags -> Holds] /\ queue \in [Tags -> Seq(Requests)]
      /\ \A u \in Tags : Compatible(held[u]) /\ OneEach(queue[u])
  BY DEF TableInv
<1>2. /\ held' = [t \in Tags |-> Without(b, t).holds]
      /\ queue' = [t \in Tags |-> Without(b, t).left]
  BY DEF Release
<1>3. ASSUME NEW t \in Tags
      PROVE  /\ held'[t] \in Holds /\ queue'[t] \in Seq(Requests)
             /\ Compatible(held'[t]) /\ OneEach(queue'[t])
             /\ queue'[t] # <<>> => Opposed(held'[t], queue'[t][1])
             /\ held'[t][b] = {}
             /\ \A m : ~In(queue'[t], [who |-> b, mode |-> m])
             /\ \A c \in Backends \ {b} : Moved(held[t], queue[t], held'[t], queue'[t], c)
  <2> DEFINE less == [held[t] EXCEPT ![b] = {}]
             fewer == Leave(queue[t], b)
             more == Without(b, t).holds
             left == Without(b, t).left
  <2>1. less \in Holds /\ Compatible(less)
    BY <1>1, FewerIsCompatible
  <2>2. less[b] = {} /\ \A c \in Backends \ {b} : less[c] = held[t][c]
    BY <1>1 DEF Holds
  <2>3. /\ fewer \in Seq(Requests) /\ OneEach(fewer)
        /\ \A other : In(fewer, other) <=> In(queue[t], other) /\ other.who # b
    BY <1>1, LeftQueue
  <2>4. more = WakeUp(less, fewer).holds /\ left = WakeUp(less, fewer).left
    BY DEF Without
  <2>5. held'[t] = more /\ queue'[t] = left
    BY <1>2
  <2> HIDE DEF less, fewer, more, left
  <2>6. /\ more \in Holds /\ left \in Seq(Requests)
        /\ Compatible(more) /\ OneEach(left)
        /\ left # <<>> => Opposed(more, left[1])
        /\ \A c \in Backends : Moved(less, fewer, more, left, c)
    BY <2>1, <2>3, <2>4, AfterWakeUp
  <2>7. \A c, m : [who |-> c, mode |-> m].who = c
    OBVIOUS
  <2>8. more[b] = {} /\ \A m : ~In(left, [who |-> b, mode |-> m])
    BY <2>2, <2>3, <2>6, <2>7 DEF Moved
  <2>9. ASSUME NEW c \in Backends \ {b}
        PROVE  Moved(held[t], queue[t], more, left, c)
    <3>1. less[c] = held[t][c] /\ Moved(less, fewer, more, left, c)
      BY <2>2, <2>6
    <3>2. \A m : In(fewer, [who |-> c, mode |-> m]) <=> In(queue[t], [who |-> c, mode |-> m])
      BY <2>3, <2>7
    <3>3. QED
      BY <3>1, <3>2 DEF Moved
  <2>10. QED
    BY <2>5, <2>6, <2>8, <2>9
<1>4. held' = [t \in Tags |-> held'[t]] /\ queue' = [t \in Tags |-> queue'[t]]
  BY <1>2
<1>5. TableInv'
  <2>1. held' \in [Tags -> Holds] /\ queue' \in [Tags -> Seq(Requests)]
    BY <1>3, <1>4
  <2>2. QED
    BY <1>3, <2>1 DEF TableInv
<1>6. QED
  BY <1>3, <1>5

(* A lock given back by a session that waits for nothing.                  *)
LEMMA UnlockSteps ==
    ASSUME TableInv, NEW b \in Backends, NEW t \in Tags, NEW m, Unlock(b, t, m),
           \A i \in DOMAIN queue[t] : queue[t][i].who # b
    PROVE  /\ TableInv'
           /\ \A u \in Tags : u # t => held'[u] = held[u] /\ queue'[u] = queue[u]
           /\ held'[t][b] = held[t][b] \ {m}
           /\ \A n : ~In(queue'[t], [who |-> b, mode |-> n])
           /\ \A c \in Backends \ {b} : Moved(held[t], queue[t], held'[t], queue'[t], c)
<1>1. /\ held \in [Tags -> Holds] /\ queue \in [Tags -> Seq(Requests)]
      /\ \A u \in Tags : /\ Compatible(held[u]) /\ OneEach(queue[u])
                         /\ queue[u] # <<>> => Opposed(held[u], queue[u][1])
  BY DEF TableInv
<1> DEFINE less == [held[t] EXCEPT ![b] = @ \ {m}]
           more == WakeUp(less, queue[t]).holds
           left == WakeUp(less, queue[t]).left
<1>2. less \in Holds /\ Compatible(less)
  <2>1. held[t] \in Holds /\ Compatible(held[t]) /\ held[t][b] \ {m} \in SUBSET held[t][b]
    BY <1>1
  <2>2. QED
    BY <2>1, FewerIsCompatible
<1>3. less[b] = held[t][b] \ {m} /\ \A c \in Backends \ {b} : less[c] = held[t][c]
  BY <1>1 DEF Holds
<1>4. held' = [held EXCEPT ![t] = more] /\ queue' = [queue EXCEPT ![t] = left]
  BY DEF Unlock
<1> HIDE DEF less
<1>5. /\ more \in Holds /\ left \in Seq(Requests)
      /\ Compatible(more) /\ OneEach(left)
      /\ left # <<>> => Opposed(more, left[1])
      /\ \A c \in Backends : Moved(less, queue[t], more, left, c)
  BY <1>1, <1>2, AfterWakeUp
<1> HIDE DEF more, left
<1>6. /\ held' \in [Tags -> Holds] /\ queue' \in [Tags -> Seq(Requests)]
      /\ held'[t] = more /\ queue'[t] = left
      /\ \A u \in Tags : u # t => held'[u] = held[u] /\ queue'[u] = queue[u]
  BY <1>1, <1>4, <1>5
<1>7. TableInv'
  <2>1. ASSUME NEW u \in Tags
        PROVE  /\ Compatible(held'[u]) /\ OneEach(queue'[u])
               /\ queue'[u] # <<>> => Opposed(held'[u], queue'[u][1])
    <3>1. CASE u = t
      BY <1>5, <1>6, <3>1
    <3>2. CASE u # t
      BY <1>1, <1>6, <3>2
    <3>3. QED
      BY <3>1, <3>2
  <2>2. QED
    BY <1>6, <2>1 DEF TableInv
<1>8. \A n : ~In(queue[t], [who |-> b, mode |-> n])
  BY DEF In
<1>9. more[b] = held[t][b] \ {m} /\ \A n : ~In(left, [who |-> b, mode |-> n])
  BY <1>3, <1>5, <1>8 DEF Moved
<1>10. ASSUME NEW c \in Backends \ {b}
       PROVE  Moved(held[t], queue[t], more, left, c)
  BY <1>3, <1>5 DEF Moved
<1>11. QED
  BY <1>6, <1>7, <1>9, <1>10

LEMMA NextTable == TableInv /\ [LockNext]_locks => TableInv'
<1> SUFFICES ASSUME TableInv, [LockNext]_locks
             PROVE  TableInv'
  OBVIOUS
<1>1. CASE UNCHANGED locks
  BY <1>1 DEF TableInv, locks
<1>2. ASSUME NEW b \in Backends, NEW t \in Tags, NEW m \in LockModes, Lock(b, t, m)
      PROVE  TableInv'
  BY <1>2, LockSteps
<1>3. ASSUME NEW b \in Backends, Release(b)
      PROVE  TableInv'
  BY <1>3, ReleaseSteps
<1>4. QED
  BY <1>1, <1>2, <1>3 DEF LockNext

(* The lock table is compatible, each session waits once in a queue, and   *)
(* the first of a queue waits for a lock.                                  *)
THEOREM TableInvariant == LockSpec => []TableInv
BY InitTable, NextTable, PTL DEF LockSpec

-----------------------------------------------------------------------------
(* Waits have a cause                                                      *)

(* Where a session waits there is an edge.                                 *)
LEMMA WaitsMakeEdges ==
    ASSUME TableInv, NEW b \in Backends, Waiting(b)
    PROVE  AllEdges # {}
<1>1. PICK t \in Tags : \E i \in DOMAIN queue[t] : queue[t][i].who = b
  BY DEF Waiting, WaitsFor
<1>2. queue[t] \in Seq(Requests) /\ held[t] \in Holds
  BY DEF TableInv
<1>3. 1 \in DOMAIN queue[t] /\ queue[t] # <<>> /\ queue[t][1] \in Requests
  BY <1>1, <1>2
<1> DEFINE req == queue[t][1]
<1>4. Opposed(held[t], req) /\ req.who \in Backends
  BY <1>3 DEF TableInv, Requests
<1>5. PICK c \in Backends \ {req.who} :
         \E m \in held[t][c] : DoLockModesConflict(m, req.mode)
  BY <1>2, <1>4 DEF Opposed, Holds
<1>6. Blocks(c, req.who)
  BY <1>3, <1>5 DEF Blocks
<1> HIDE DEF req
<1>7. <<req.who, c>> \in AllEdges
  BY <1>4, <1>5, <1>6 DEF AllEdges
<1>8. QED
  BY <1>7

(* Where there is an edge there is a cycle, or a root with a session below.*)
LEMMA EdgesHaveACause ==
    ASSUME NEW part \in SUBSET Pairs, part # {}
    PROVE  HasCycle(part) \/ MaxChainDepth(part) >= 1
<1>1. \A e \in part : e[1] \in Backends /\ e[2] \in Backends /\ e = <<e[1], e[2]>>
  BY DEF Pairs
<1>2. CASE Roots(part) = {}
  <2> DEFINE S == {e[1] : e \in part}
  <2>1. S \in SUBSET Backends /\ S # {}
    BY <1>1
  <2>2. ASSUME NEW e \in part
        PROVE  e[2] \in S /\ <<e[1], e[2]>> \in part
    BY <1>1, <1>2 DEF Roots
  <2>3. Deadlocked(part, S)
    BY <2>1, <2>2 DEF Deadlocked
  <2>4. QED
    BY <2>1, <2>3, CycleIffDeadlocked
<1>3. CASE Roots(part) # {}
  <2>1. PICK r \in Roots(part) : TRUE
    BY <1>3
  <2>2. PICK e \in part : e[2] = r
    BY DEF Roots
  <2>3. e[1] \in Backends /\ r \in Backends /\ e[1] # r /\ <<e[1], r>> \in part
    BY <1>1, <2>2 DEF Roots
  <2>4. Cardinality(Backends) \in Nat /\ 1 \in Distances
    <3>1. Cardinality(Backends) \in Nat /\ Cardinality({r}) <= Cardinality(Backends)
      BY <2>3, SessionsAreFinite
    <3>2. QED
      BY <3>1, FS_Singleton DEF Distances
  <2>5. e[1] \in Level(part, r)[1]
    <3> DEFINE level == Level(part, r)
    <3>1. /\ level[0] = {r}
          /\ \A n \in Distances : n # 0 => \A b :
                b \in level[n] <=>
                  /\ b \in Backends
                  /\ \E c \in level[n - 1] : <<b, c>> \in part
                  /\ \A k \in 0..(n - 1) : b \notin level[k]
      BY <2>3, LevelMembers
    <3> HIDE DEF level
    <3>2. ASSUME NEW n, n = 1
          PROVE  e[1] \in level[n]
      <4>1. n \in Distances /\ n # 0 /\ n - 1 = 0 /\ \A k \in 0..(n - 1) : k = 0
        BY <2>4, <3>2
      <4>2. QED
        BY <2>3, <3>1, <4>1
    <3>3. QED
      BY <3>2 DEF level
  <2>6. Depth(part, r) \in Nat /\ 1 <= Depth(part, r)
    BY <2>3, <2>4, <2>5, DepthIsLast DEF Distances
  <2>7. Depth(part, r) <= MaxChainDepth(part) /\ MaxChainDepth(part) \in Nat
    BY SeverityIsBounded
  <2>8. QED
    BY <2>6, <2>7
<1>4. QED
  BY <1>2, <1>3

(* Whoever waits, for a lock or behind another request, the graph shows a  *)
(* cycle or a root with a session below it, also where the scan was cut    *)
(* short or sessions got no number (blocker_graph.c:104-161, 276-378).     *)
THEOREM WaitsAreExplained == LockSpec => []WaitsHaveACause
<1>1. TableInv => WaitsHaveACause
  <2> SUFFICES ASSUME TableInv, NEW b \in Backends, Waiting(b),
                      NEW edges \in Scans, NEW part \in Parts(edges)
               PROVE  HasCycle(part) \/ MaxChainDepth(part) >= 1
    BY DEF WaitsHaveACause
  <2>1. AllEdges \in SUBSET Pairs /\ edges \in SUBSET AllEdges /\ edges # {}
    BY WaitsMakeEdges, ScanFindsEdges
  <2>2. edges \in SUBSET Pairs /\ part \in SUBSET edges /\ part # {}
    BY <2>1, PartOfScan
  <2>3. QED
    BY <2>2, EdgesHaveACause
<1>2. QED
  BY <1>1, TableInvariant, PTL

-----------------------------------------------------------------------------
(* Cycles last                                                             *)

(* An edge whose request waits on and whose lock is still held.            *)
LEMMA EdgeLasts ==
    ASSUME NEW b \in Backends, NEW c \in Backends, b # c, NEW t \in Tags, NEW req,
           req.who = b, In(queue'[t], req),
           NEW m \in held'[t][c], DoLockModesConflict(m, req.mode)
    PROVE  <<b, c>> \in AllEdges'
<1>1. PICK i \in DOMAIN queue'[t] : queue'[t][i] = req
  BY DEF In
<1>2. Blocks(c, b)'
  BY <1>1 DEF Blocks, DoLockModesConflict
<1>3. QED
  BY <1>2 DEF AllEdges

LEMMA EdgesOfLock ==
    ASSUME TableInv, NEW b \in Backends, NEW t \in Tags, NEW m \in LockModes, Lock(b, t, m)
    PROVE  AllEdges \subseteq AllEdges'
<1>1. /\ held \in [Tags -> Holds]
      /\ \A u \in Tags : u # t => held'[u] = held[u] /\ queue'[u] = queue[u]
      /\ \A c \in Backends \ {b} : held'[t][c] = held[t][c]
      /\ \/ /\ held'[t][b] = held[t][b]
            /\ \A req : In(queue'[t], req) <=>
                  In(queue[t], req) \/ req = [who |-> b, mode |-> m]
         \/ /\ held'[t][b] = held[t][b] \cup {m}
            /\ queue'[t] = queue[t]
  BY LockSteps DEF TableInv
<1>2. \A u \in Tags, c \in Backends : held[u][c] \subseteq held'[u][c]
  BY <1>1
<1>3. \A u \in Tags : \A req : In(queue[u], req) => In(queue'[u], req)
  BY <1>1
<1>4. ASSUME NEW e \in AllEdges
      PROVE  e \in AllEdges'
  <2>1. e[1] \in Backends /\ e[2] \in Backends /\ e = <<e[1], e[2]>> /\ Blocks(e[2], e[1])
    BY DEF AllEdges
  <2>0. PICK u \in Tags : \E i \in DOMAIN queue[u] :
           /\ queue[u][i].who = e[1]
           /\ \E n \in held[u][e[2]] : DoLockModesConflict(n, queue[u][i].mode)
    BY <2>1 DEF Blocks
  <2>2. PICK i \in DOMAIN queue[u] :
           /\ queue[u][i].who = e[1]
           /\ \E n \in held[u][e[2]] : DoLockModesConflict(n, queue[u][i].mode)
    BY <2>0
  <2>3. PICK n \in held[u][e[2]] : DoLockModesConflict(n, queue[u][i].mode)
    BY <2>2
  <2>4. n \in held'[u][e[2]] /\ In(queue'[u], queue[u][i]) /\ e[1] # e[2]
    BY <1>2, <1>3, <2>1, <2>3 DEF In, Blocks
  <2>5. <<e[1], e[2]>> \in AllEdges'
    BY <2>1, <2>2, <2>3, <2>4, EdgeLasts
  <2>6. QED
    BY <2>1, <2>5
<1>5. QED
  BY <1>4

(* The end of a session that does not wait breaks no cycle: what the       *)
(* sessions of the cycle wait for is not among the locks it held.          *)
LEMMA CycleOutlastsOthers ==
    ASSUME TableInv, NEW b \in Backends, Release(b), ~Waiting(b),
           NEW S \in SUBSET Backends, Deadlocked(AllEdges, S)
    PROVE  Deadlocked(AllEdges', S)
<1>1. /\ held \in [Tags -> Holds] /\ queue \in [Tags -> Seq(Requests)]
      /\ held' = [t \in Tags |-> Without(b, t).holds]
      /\ queue' = [t \in Tags |-> Without(b, t).left]
  BY DEF TableInv, Release
<1>2. ASSUME NEW x \in S
      PROVE  /\ x # b /\ x \in Backends
             /\ \E y \in S : <<x, y>> \in AllEdges
  <2>1. PICK y \in S : <<x, y>> \in AllEdges
    BY DEF Deadlocked
  <2>2. Waiting(x)
    BY <2>1 DEF AllEdges, Blocks, Waiting, WaitsFor
  <2>3. QED
    BY <2>1, <2>2
<1>3. ASSUME NEW x \in S, NEW y \in S, <<x, y>> \in AllEdges
      PROVE  <<x, y>> \in AllEdges'
  <2>1. x \in Backends /\ y \in Backends /\ x # b /\ y # b /\ Blocks(y, x)
    BY <1>2, <1>3 DEF AllEdges
  <2>0. PICK t \in Tags : \E i \in DOMAIN queue[t] :
           /\ queue[t][i].who = x
           /\ \E n \in held[t][y] : DoLockModesConflict(n, queue[t][i].mode)
    BY <2>1 DEF Blocks
  <2>2. PICK i \in DOMAIN queue[t] :
           /\ queue[t][i].who = x
           /\ \E n \in held[t][y] : DoLockModesConflict(n, queue[t][i].mode)
    BY <2>0
  <2>3. PICK n \in held[t][y] : DoLockModesConflict(n, queue[t][i].mode)
    BY <2>2
  <2> DEFINE less == [held[t] EXCEPT ![b] = {}]
             req == queue[t][i]
             table == WakeUp(less, queue[t])
  <2>4. Leave(queue[t], b) = queue[t]
    BY DEF Leave, Waiting, WaitsFor
  <2>5. held'[t] = table.holds /\ queue'[t] = table.left
    BY <1>1, <2>4 DEF Without
  <2>6. less \in Holds /\ less[y] = held[t][y] /\ DOMAIN less = Backends
    BY <1>1, <2>1 DEF Holds
  <2>7. queue[t] \in Seq(Requests) /\ i \in 1..Len(queue[t]) /\ req \in Requests
    BY <1>1
  <2> HIDE DEF less, table
  <2>8. Woken(less, queue[t], Len(queue[t]), table)
    BY <2>6, <2>7, WakeUpKeeps DEF table
  <2>9. Opposed(less, req)
    BY <2>1, <2>2, <2>3, <2>6 DEF Opposed, Blocks
  <2>10. In(queue'[t], req)
    BY <2>5, <2>7, <2>8, <2>9 DEF Woken, In
  <2>11. n \in held'[t][y]
    BY <2>1, <2>3, <2>5, <2>6, <2>8 DEF Woken
  <2>12. x # y
    BY <2>1 DEF Blocks
  <2> HIDE DEF req
  <2>13. req.who = x /\ DoLockModesConflict(n, req.mode)
    BY <2>2, <2>3 DEF req
  <2>14. QED
    BY <2>1, <2>10, <2>11, <2>12, <2>13, EdgeLasts
<1>4. QED
  BY <1>2, <1>3 DEF Deadlocked

LEMMA EdgesArePairs == AllEdges \in SUBSET Pairs /\ AllEdges' \in SUBSET Pairs
BY DEF AllEdges, Pairs

(* A cycle of the lock table is no passing wait: it goes away only when a  *)
(* session that waits gives up (blocker_graph.c:108-161).                  *)
THEOREM CyclesOutlastOthers == LockSpec => CycleStaysUntilAborted
<1>1. ASSUME TableInv, LockNext, HasCycle(AllEdges), ~HasCycle(AllEdges')
      PROVE  \E b \in Backends : Waiting(b) /\ Release(b)
  <2>1. ASSUME NEW b \in Backends, NEW t \in Tags, NEW m \in LockModes, Lock(b, t, m)
        PROVE  FALSE
    BY <1>1, <2>1, EdgesOfLock, EdgesArePairs, CycleOfMore
  <2>2. ASSUME NEW b \in Backends, Release(b), ~Waiting(b)
        PROVE  FALSE
    <3>1. PICK S \in SUBSET Backends : Deadlocked(AllEdges, S)
      BY <1>1, EdgesArePairs, CycleIffDeadlocked
    <3>2. Deadlocked(AllEdges', S)
      BY <1>1, <2>2, <3>1, CycleOutlastsOthers
    <3>3. QED
      BY <1>1, <3>1, <3>2, EdgesArePairs, CycleIffDeadlocked
  <2>3. QED
    BY <1>1, <2>1, <2>2 DEF LockNext
<1>2. HasCycle(AllEdges)' <=> HasCycle(AllEdges')
  OBVIOUS
<1>3. TableInv /\ [LockNext]_locks =>
        [HasCycle(AllEdges) /\ ~HasCycle(AllEdges)'
            => \E b \in Backends : Waiting(b) /\ Release(b)]_locks
  BY <1>1, <1>2
<1>4. QED
  BY <1>3, TableInvariant, PTL DEF LockSpec, CycleStaysUntilAborted

=============================================================================
