---------------------------- MODULE RuntimeState ----------------------------
(***************************************************************************)
(* The runtime state (src/src/runtime_state.c): what the collectors of     *)
(* transactions.c, locks.c, replication.c and wal.c make of the server,    *)
(* the pressure score and the contributors it is reported with.  The       *)
(* server changes, one part of it at a time.                               *)
(***************************************************************************)
EXTENDS WalRate, FiniteSets, Sequences, SequencesExt

CONSTANTS
    Clients,         \* client backends looked at one by one
    Standbys,        \* WAL sender slots
    LongSeconds,     \* pg_circuit.long_transaction_seconds
    LagLimits,       \* .warn and .critical: replication_lag_*_seconds
    WalLimits,       \* .elevated and .high: wal_pressure_*_bps
    Activities,      \* what a client may be doing
    Pools,           \* sizes of the server, and its other clients, all idle
    Graphs,          \* what the blocker graph may report
    Lags,            \* what a WAL sender slot may show
    WalRates         \* what the WAL sample may show

BackendStates == {"gone", "undefined", "idle", "running", "idle_in_xact"}

ASSUME SlotsAssumption == IsFiniteSet(Clients) /\ IsFiniteSet(Standbys)
(* age: of the transaction, -1 without one.                                *)
ASSUME ActivitiesAssumption ==
    Activities \subseteq [state: BackendStates, age: Nat \cup {-1}]
ASSUME PoolsAssumption == Pools \subseteq [max: Nat, reserved: Nat, others: Nat]
ASSUME GraphsAssumption ==
    Graphs \subseteq [blocked: Nat, blocking: Nat, depth: Nat, descendants: Nat, wait: Nat]
(* A lag of -1 is unknown; reply is the age of the last reply, -1 before   *)
(* the first.                                                              *)
ASSUME LagsAssumption ==
    Lags \subseteq [pid: BOOLEAN, write: Int, flush: Int, apply: Int, reply: Int]
ASSUME SettingsAssumption ==
    /\ LongSeconds \in Nat
    /\ WalLimits \in WalThresholds
    /\ LagLimits \in [warn: Nat, critical: Nat]
    /\ WalRates \subseteq Rates

VARIABLE server

Servers == [clients: [Clients -> Activities], pool: Pools, graph: Graphs,
            senders: [Standbys -> Lags], wal: WalRates]

RuntimeInit == server \in Servers

(* External: one part of the server changes.                               *)
RuntimeNext ==
    \/ \E c \in Clients, a \in Activities : server' = [server EXCEPT !.clients[c] = a]
    \/ \E p \in Pools : server' = [server EXCEPT !.pool = p]
    \/ \E g \in Graphs : server' = [server EXCEPT !.graph = g]
    \/ \E s \in Standbys, l \in Lags : server' = [server EXCEPT !.senders[s] = l]
    \/ \E r \in WalRates : server' = [server EXCEPT !.wal = r]

RuntimeSpec == RuntimeInit /\ [][RuntimeNext]_server

-----------------------------------------------------------------------------
(* The collectors                                                          *)

Greatest(S, least) == Max(S \cup {least})

(* Mutant: a session idle in its transaction is not taken for a long one.  *)
LongRunning(clients, xacts) ==
    {c \in xacts : clients[c].age >= LongSeconds /\ clients[c].state = "running"}

Long(clients, xacts) == {c \in xacts : clients[c].age >= LongSeconds}

(* pg_circuit_collect_transaction_signals.                                 *)
Transactions(v) ==
    LET clients == v.clients
        connected == {c \in Clients : clients[c].state # "gone"}
        xacts == {c \in connected : clients[c].state \notin {"undefined", "idle"}
                                       /\ clients[c].age >= 0}
    IN  [connections |-> Cardinality(connected) + v.pool.others,
         running |-> Cardinality({c \in connected : clients[c].state = "running"}),
         long |-> Cardinality(Long(clients, xacts)),
         idle |-> Cardinality({c \in xacts : clients[c].state = "idle_in_xact"}),
         oldest |-> Greatest({clients[c].age : c \in xacts}, 0)]

Replicas(v) == {s \in Standbys : v.senders[s].pid}

(* The greatest lag a sender knows of, or the age of its last reply.       *)
EffectiveLag(v) ==
    Greatest(UNION {{v.senders[s].write, v.senders[s].flush, v.senders[s].apply,
                     v.senders[s].reply} : s \in Replicas(v)}, 0)

Passes(lag, limit) == limit > 0 /\ lag >= limit

Health(v) ==
    CASE Replicas(v) = {} -> "none"
      [] Replicas(v) # {} /\ Passes(EffectiveLag(v), LagLimits.critical) -> "severely_lagging"
      [] Replicas(v) # {} /\ ~Passes(EffectiveLag(v), LagLimits.critical)
            /\ Passes(EffectiveLag(v), LagLimits.warn) -> "lagging"
      [] OTHER -> "healthy"

-----------------------------------------------------------------------------
(* The scores                                                              *)

(* The points of the first step, from the highest down, that n reaches.    *)
Steps(n, steps) ==
    LET reached == {i \in DOMAIN steps : n >= steps[i][1]}
    IN  IF reached = {} THEN 0 ELSE steps[Min(reached)][2]

ScoreTransactions(tx) ==
    tx.long * 12 + tx.idle * 6
        + (IF LongSeconds = 0 THEN 0
           ELSE Steps(tx.oldest, <<<<2 * LongSeconds, 15>>, <<LongSeconds, 5>>>>))

ScoreLocks(g) ==
    Steps(g.blocked, <<<<20, 48>>, <<5, 23>>, <<1, 8>>>>)
        + 4 * Min({g.blocking, 5})
        + Steps(g.descendants, <<<<50, 25>>, <<20, 15>>, <<5, 8>>, <<2, 4>>>>)
        + Steps(g.depth, <<<<5, 12>>, <<3, 8>>, <<2, 3>>>>)
        + Steps(g.wait, <<<<30, 8>>, <<5, 4>>>>)

ScoreReplication(lag) ==
    CASE lag <= 0 -> 0
      [] lag > 0 /\ Passes(lag, LagLimits.critical) -> 35
      [] lag > 0 /\ ~Passes(lag, LagLimits.critical) /\ Passes(lag, LagLimits.warn) -> 18
      [] OTHER -> 0

ScoreConnections(tx, pool) ==
    LET usable == Greatest({pool.max - pool.reserved}, 1)
    IN  IF pool.max = 0 THEN 0
        ELSE Steps(tx.connections * 100,
                   <<<<95 * usable, 25>>, <<85 * usable, 15>>, <<70 * usable, 8>>>>)
                + 2 * Min({tx.idle, 8})
                + (IF tx.running > 0 /\ tx.running >= usable \div 2 THEN 5 ELSE 0)

(* The five scores of pg_circuit_compute_pressure_and_mode, in the order   *)
(* the contributors are listed in before they are sorted.                  *)
Parts(v) ==
    LET tx == Transactions(v)
    IN  <<[name |-> "transactions", contrib |-> ScoreTransactions(tx)],
          [name |-> "locks", contrib |-> ScoreLocks(v.graph)],
          [name |-> "replication_lag", contrib |-> ScoreReplication(EffectiveLag(v))],
          [name |-> "wal", contrib |-> ScoreWal(v.wal, WalLimits)],
          [name |-> "connection_pressure", contrib |-> ScoreConnections(tx, v.pool)]>>

Sum(parts) == FoldLeft(LAMBDA sum, part : sum + part.contrib, 0, parts)

(* Mutant: combine where combine5 is meant, without the connections.       *)
Pressure4(v) == Min({Sum(SubSeq(Parts(v), 1, 4)), 100})

Pressure(v) == Min({Sum(Parts(v)), 100})

(* pg_circuit_format_pressure_contributors: insertion sort, and what of it *)
(* is shown.                                                               *)
Insert(sorted, part) ==
    LET before == {i \in DOMAIN sorted : sorted[i].contrib >= part.contrib}
    IN  InsertAt(sorted, Cardinality(before) + 1, part)

Sorted(parts) == FoldLeft(Insert, <<>>, parts)

Show(shown, part) == IF part.contrib > 0 THEN Append(shown, part) ELSE shown

Contributors(v) == FoldLeft(Show, <<>>, Sorted(Parts(v)))

-----------------------------------------------------------------------------
(* Properties                                                              *)

(* An aborted transaction has ended for the others, and has no age.        *)
Rank(client) ==
    CASE client.state = "gone" -> 0
      [] client.state = "running" -> 2
      [] client.state = "idle_in_xact" /\ client.age >= 0 -> 3
      [] OTHER -> 1

Worse(v, w) ==
    /\ \A c \in Clients :
        /\ Rank(v.clients[c]) <= Rank(w.clients[c])
        /\ v.clients[c].age <= w.clients[c].age
    /\ v.pool.max = w.pool.max /\ v.pool.reserved = w.pool.reserved
    /\ v.pool.others <= w.pool.others
    /\ \A f \in DOMAIN v.graph : v.graph[f] <= w.graph[f]
    /\ \A s \in Standbys :
        \/ ~v.senders[s].pid
        \/ /\ w.senders[s].pid
           /\ \A f \in {"write", "flush", "apply", "reply"} :
                 v.senders[s][f] <= w.senders[s][f]
    /\ v.wal.bytes * w.wal.secs <= w.wal.bytes * v.wal.secs

(* The pressure score never falls as the server gets worse: sessions that  *)
(* connect, start, leave a transaction open or let it age, waits, lags and *)
(* WAL - although a session that goes idle in its transaction is no longer *)
(* one that runs, and a lag becomes known that was not                     *)
(* (runtime_state.c:28-236, transactions.c:43-108, replication.c:98-152).  *)
PressureNeverFallsAsSignalsWorsen ==
    [][Worse(server, server') => Pressure(server) <= Pressure(server')]_server

(* The report says why the score is what it is: the contributors it lists, *)
(* the heaviest first, add up to the score or to more than its limit, and  *)
(* the replication health shown says the same as its points, although the  *)
(* two are found in different files (runtime_state.c:309-355,              *)
(* replication.c:138-152).                                                 *)
ReportExplainsScore ==
    LET shown == Contributors(server)
        Shows(name, points) ==
            \E i \in DOMAIN shown : shown[i] = [name |-> name, contrib |-> points]
    IN  /\ \A i, j \in DOMAIN shown : i < j => shown[i].contrib >= shown[j].contrib
        /\ Sum(shown) = Pressure(server) \/ (Pressure(server) = 100 /\ Sum(shown) > 100)
        /\ Health(server) = "severely_lagging" <=> Shows("replication_lag", 35)
        /\ Health(server) = "lagging" <=> Shows("replication_lag", 18)

=============================================================================
