---------------------------- MODULE BlockerGraph ----------------------------
(***************************************************************************)
(* The blocker graph of src/src/blocker_graph.c, built from a snapshot of  *)
(* the lock table while sessions lock, wait and end.  An edge goes from    *)
(* the session that waits to a session that holds a conflicting lock.      *)
(***************************************************************************)
EXTENDS LockTable, FiniteSetsExt

CONSTANTS
    MaxEdges,      \* PGC_MAX_BLOCKER_EDGES, 256 in the code
    MaxPids        \* PGC_MAX_BLOCKER_PIDS, 64 in the code

ASSUME LimitsAssumption == MaxEdges \in Nat \ {0} /\ MaxPids \in Nat \ {0, 1}

LockSpec == LockInit /\ [][LockNext]_locks

-----------------------------------------------------------------------------
(* pg_circuit_build_blocker_graph                                          *)

(* Mutant of Blocks: modes that are equal conflict.                        *)
BlocksEqualMode(holder, waiter) ==
    /\ holder # waiter
    /\ \E t \in Tags : \E i \in DOMAIN queue[t] :
          /\ queue[t][i].who = waiter
          /\ queue[t][i].mode \in held[t][holder]

(* A waiter and a holder of the same locktag whose modes conflict.  The    *)
(* session that asks is not one of Backends: it runs, so it does not wait. *)
Blocks(holder, waiter) ==
    /\ holder # waiter
    /\ \E t \in Tags : \E i \in DOMAIN queue[t] :
          /\ queue[t][i].who = waiter
          /\ \E m \in held[t][holder] : DoLockModesConflict(m, queue[t][i].mode)

AllEdges == {e \in Backends \X Backends : Blocks(e[2], e[1])}

(* The scan goes from waiter to waiter, each time over all holders, in the *)
(* arbitrary order of the lock table, and stops at the limit: it breaks    *)
(* off within one waiter at most.                                          *)
Halved(edges) == {e[1] : e \in edges} \cap {e[1] : e \in AllEdges \ edges}

Scans ==
    IF Cardinality(AllEdges) <= MaxEdges THEN {AllEdges}
    ELSE {edges \in kSubset(MaxEdges, AllEdges) : Cardinality(Halved(edges)) <= 1}

BlockedSessions(edges) == Cardinality({e[1] : e \in edges})
BlockingSessions(edges) == Cardinality({e[2] : e \in edges})

(* The list of edges the scan makes: those of a waiter stand together.     *)
EdgeLists(edges) ==
    {list \in SetToSeqs(edges) :
        \A i, j, k \in DOMAIN list :
            i < j /\ j < k /\ list[i][1] = list[k][1] => list[j][1] = list[i][1]}

(* graph_has_cycle and compute_chain_severity number the sessions as they  *)
(* meet them, and pass over an edge to one they have no number left for.   *)
Number(pids, b) == IF Cardinality(pids) < MaxPids THEN pids \cup {b} ELSE pids

NumberEdge(table, e) ==
    LET blocked == Number(table.pids, e[1])
        both == IF e[1] \in blocked THEN Number(blocked, e[2]) ELSE blocked
    IN  [pids |-> both,
         edges |-> IF {e[1], e[2]} \subseteq both THEN table.edges \cup {e} ELSE table.edges]

Numbered(list) == FoldLeft(NumberEdge, [pids |-> {}, edges |-> {}], list).edges

(* What of a scan the cycle and the severity are found in.                 *)
Parts(edges) == {Numbered(list) : list \in EdgeLists(edges)}

(* Warshall's closure, one pivot after the other.                          *)
Pivot(adj, k) ==
    adj \cup {e \in Backends \X Backends : <<e[1], k>> \in adj /\ <<k, e[2]>> \in adj}

Closure(edges) == FoldLeft(Pivot, edges, SetToSeq(Backends))

(* Mutant: the direction of an edge is lost.                               *)
HasCycleUndirected(edges) ==
    LET closure == Closure(edges \cup {<<e[2], e[1]>> : e \in edges})
    IN  \E b \in Backends : <<b, b>> \in closure

HasCycle(edges) ==
    LET closure == Closure(edges) IN \E b \in Backends : <<b, b>> \in closure

(* compute_chain_severity: breadth first from each root, along the edges   *)
(* backwards.                                                              *)
Roots(edges) == {e[2] : e \in edges} \ {e[1] : e \in edges}

Distances == 0..Cardinality(Backends)

Level(edges, root) ==
    LET level[n \in Distances] ==
          IF n = 0 THEN {root}
          ELSE {b \in Backends : \E c \in level[n - 1] : <<b, c>> \in edges}
                  \ UNION {level[k] : k \in 0..n - 1}
    IN  level

(* Mutant: a depth that counts sessions, the root included.                *)
DepthFromOne(edges, root) ==
    Max({n \in Distances : Level(edges, root)[n] # {}}) + 1

Depth(edges, root) == Max({n \in Distances : Level(edges, root)[n] # {}})

Descendants(edges, root) ==
    Cardinality(UNION {Level(edges, root)[n] : n \in Distances}) - 1

MaxChainDepth(edges) == Max({0} \cup {Depth(edges, r) : r \in Roots(edges)})
MaxDescendantCount(edges) == Max({0} \cup {Descendants(edges, r) : r \in Roots(edges)})

-----------------------------------------------------------------------------
(* Properties                                                              *)

(* has_cycle is reported exactly for a set of sessions each of which waits *)
(* for another of the set, and never for a graph cut short unless the      *)
(* whole has one (blocker_graph.c:108-161).                                *)
Deadlocked(edges, S) ==
    S # {} /\ \A b \in S : \E c \in S : <<b, c>> \in edges

CycleIsDeadlock ==
    \A edges \in Scans : \A part \in Parts(edges) :
        /\ HasCycle(part) <=> \E S \in SUBSET Backends : Deadlocked(part, S)
        /\ HasCycle(part) => HasCycle(AllEdges)

(* A reported cycle is no passing wait: it goes away only when a session   *)
(* that waits is made to give up.                                          *)
CycleStaysUntilAborted ==
    [][HasCycle(AllEdges) /\ ~HasCycle(AllEdges)'
          => \E b \in Backends : Waiting(b) /\ Release(b)]_locks

(* Whoever waits, the graph has a cause to show: a cycle, or a root with   *)
(* its descendants, even where a scan was cut short or sessions were left  *)
(* out, and even for sessions that wait behind a request and not behind a  *)
(* lock (blocker_graph.c:104-161, 276-378).                                *)
WaitsHaveACause ==
    (\E b \in Backends : Waiting(b)) =>
        \A edges \in Scans : \A part \in Parts(edges) :
            \/ HasCycle(part)
            \/ MaxChainDepth(part) >= 1

(* The severity of the graph counts sessions: those that wait for the root *)
(* over any number of others, each once; the deepest is at most that far   *)
(* down, with a blocking session at every level above it                   *)
(* (blocker_graph.c:255-273, 287-378).                                     *)
Downstream(edges, root) ==
    {b \in Backends : \A S \in SUBSET Backends :
        (\A e \in edges : e[2] \in S \cup {root} => e[1] \in S) => b \in S}

SeverityCountsSessions ==
    \A edges \in Scans : \A part \in Parts(edges) :
        /\ MaxDescendantCount(part) =
              Max({0} \cup {Cardinality(Downstream(part, r)) : r \in Roots(part)})
        /\ MaxChainDepth(part) <= MaxDescendantCount(part)
        /\ MaxChainDepth(part) <= BlockingSessions(edges)
        /\ MaxDescendantCount(part) <= BlockedSessions(edges)

=============================================================================
