# PG Circuit in TLA+

PG Circuit is a PostgreSQL extension (C, under `src/src` and `src/include`)
with a command line (Go, under `src/internal/cli`). Its hooks look at every
statement before it runs, score the dangerous ones against a fixed rule table,
and, depending on the mode, stay quiet, warn, or stop the statement. What it
decided is kept in a ring of events in shared memory, which the command line
reads, prints, exports and posts to a webhook.

This directory models that system, checks the models with TLC on small
instances, and proves the theorems that matter most with TLAPS for every value
of the constants. Paths like `shmem.c:160` are under `src/src`, header files
under `src/include`, Go files under `src/internal/cli`.

## 1. Inventory

### The parts, their state and their operations

| Part | Code | State it keeps | Operations |
|------|------|----------------|------------|
| Shared event ring | `shmem.c`, `event.c` | one segment: LWLock, head, count, two counters, `capacity` slots | create or attach at start, `event_record`, `event_snapshot` |
| WAL sample cache | `shmem.c`, `wal.c` | one sample, its rate and its level, under the same LWLock | sample, from what the session read before the lock |
| Statement guard | `hooks.c`, `circuit_breaker.c`, `policy_stub.c` | none of its own; the settings of the session and PostgreSQL's error stack | three hooks, `evaluate_and_apply`, the failure handler |
| Classifier | `utility_analysis.c`, `query_analysis.c` | none, but a table lock it keeps to the end of the transaction | parse tree or plan to operation record |
| Rule table | `risk_engine.c`, `reporting.c` | none | operation record and settings to score and decision |
| Settings | `config.c` | GUCs, per session or per server | `SET`, server start |
| Runtime state | `runtime_state.c`, `replication.c`, `transactions.c`, `locks.c` | a record built anew for each check | collect, pressure score, contributors |
| Blocker graph | `blocker_graph.c` | a graph built anew from one snapshot of the lock table | build, cycle, severity |
| Relation helpers | `relations.c` | none, but table locks while they look | size, name, row estimate |
| SQL functions | `pg_circuit.c` | none | status, runtime state, explain_risk, events, blockers, lock summary |
| `notify` | `notify.go`, `commands.go`, `config.go` | set of event numbers seen, one connection | seed, poll, deliver, stop |
| `metrics` | `metrics.go` | one connection, shared by a goroutine for each request | four queries, one after the other |
| `check-sql` | `check.go` | none | scan SQL files line by line |
| `doctor`, `status`, `runtime`, `blockers`, `events` | `commands.go` | none | one query each |
| `break-glass`, egress check | `breakglass.go`, `egress.go` | none | print a transaction, judge a URL |

### How they interact

A session's statement reaches a hook. The hook asks the classifier (which
takes locks and reads catalogs), and for anything of interest collects the
runtime state (which snapshots the lock table), asks the rule table, records an
event in the shared ring, and then warns, stops the statement or lets it run.
The statement, once it runs, may start statements of its own, each of which
meets the hooks again. All sessions share the ring, the WAL sample and their
one lock; `notify`, `events` and `metrics` read the ring over ordinary connections.
The lock the classifier takes stays with the client's transaction and so meets
the locks of every other session's statements. `check-sql` meets the guard
only in what the two say of the same statement.

### What is hard, and what makes each part correct

* **Ring.** Writers number, clear, fill and advance in separate stores while
  readers copy; the head wraps; a crash resets the segment and may change its
  size. Correct when every reader sees exactly the newest events, each whole and
  in order, and never an older state than before.
* **Guard.** Seven calls inside `PG_TRY`, any of which may fail after the
  earlier ones took effect; nested statements; exception handlers that swallow a
  block; settings changed in between. Correct when only `enforce` stops
  anything, a dangerous statement passes `enforce` only as fail-open allows, and
  the record agrees with what was told and done.
* **Classifier and rules.** Two switch statements kept in step by hand; lock
  classes accumulated over subcommands; independent thresholds; a plan's shape
  that stands for "no WHERE"; `explain_risk` filling the record by itself.
  Correct when nothing known is filtered out, decisions are monotone in mode and
  thresholds, and what is flagged is what the rule says.
* **notify.** Polls a ring that overwrites, over a connection that a restart
  closes, into a webhook that fails. Correct when an event is posted at most
  once, none is posted from before the watch, and none is left out of a poll.
* **Blocker graph.** A snapshot of a moving lock table, cut off at a limit of
  edges and again at a limit of sessions. Correct when a reported cycle is a deadlock,
  a wait has a cause in the graph, and severity counts sessions.
* **The hook's lock.** The table is looked up twice, by the hook and by the
  statement; between the two it may be dropped and created again. Correct when
  a statement runs on the table it was judged by, and when the lock deadlocks
  nothing but the statements that upgrade it.
* **WAL sample.** Statistics and clock are read before the lock, the statistics
  are frozen for the transaction, the clock may be set back, the server may restart.
  Correct when no WAL is counted twice, and the level and the points agree.
* **Runtime state.** Five scores found in as many files and cut at 100, two
  of them from counts a session moves between. Correct when the score never
  falls while the server gets worse, and the report adds up to it.
* **metrics.** Requests overlap on one connection that can run one query.
  Correct when every scrape is answered, and none fails without a reason.
* **check-sql.** The scanner cuts statements out of lines. Correct when it finds
  what the guard would stop.

`PROJECT.json` lists every hazard found in the code at its line, with the
properties that would catch it going wrong, or the reason there is none.

## 2. Modules

```
EventHistory  <--- refines ---  EventRing  <-- EventRingProofs
     |  \                          ^
     |   \                      MCEventRing
     |    +--- Notify <-- CommandProofs, MCNotify
     |         Exporter <-- CommandProofs
     +-------- StatementGuard <-- StatementGuardProofs, MCStatementGuard
                   |
RiskRules ---------+
     \--- Classify ---+--- Judgement <-- JudgementProofs
          CheckSql ----+        \
                                 +-- MCJudgement
WalRate ------ RuntimeState -----/ <-- SignalProofs
     \-------- WalSample <-- SignalProofs, MCWalSample

LockTable (external) --- BlockerGraph <-- BlockerGraphProofs, MCBlockerGraph
                              \--- HookLocks <-- HookLocksProofs, MCHookLocks

FoldTheorems <-- BlockerGraphProofs, HookLocksProofs, JudgementProofs, SignalProofs
```

Names of modules that are proved about in one module differ (`WalSpec`,
`ScrapeSpec`, `LockSpec`, `RuntimeSpec` next to `Spec`).

### EventHistory: what the ring promises

Three operations, each one step: `Record` puts an event in front and drops
what exceeds the capacity, `Snapshot` hands a reader the newest events, `Restart`
empties the history and starts the numbering again. `StatementGuard` and
`Notify` are composed with this module and not with the ring; `EventRing`
is checked and proved to implement it.

### EventRing: `shmem.c`, `event.c`, `pg_circuit_events`

State: the fields of `PgCircuitSharedState` (`capacity`, `head`, `count`,
`next_event_id`, `next_decision_id`, `events`), the LWLock (`exclusive`,
`sharers`), and of each backend its place in the function (`pc`) and its locals
(`arg`, `want`, `copied`); `views` is what a session was last shown. Each store of a
critical section is a step: `NumberEvent` (160-161), `ClearSlot` (the
`MemSet`), `FillSlot`, `AdvanceHead`, `ReleaseExclusive`; a reader takes one
slot per step. That is finer than the lock allows anyone to see, which is the
point: the properties hold because of the lock, and a mutant that drops it
breaks them. `Restart` may hit any of these steps, as the postmaster's reset
after a crash does. Times and texts of an event are one value, `body`.

### RiskRules, Classify, Judgement: `risk_engine.c`, `utility_analysis.c`, `query_analysis.c`

`RiskRules` is the rule table: `Contribution` (the finding `assess_query`
adds), `Score`, `Decide`, and the synthetic operation of `explain_risk`.
`Classify` is the path from statement to operation record: the filter of
`hooks.c` (`MayBeRisky`), the switch of `pg_circuit_analyze_utility`
(`AnalyzeUtility`), and for DELETE and UPDATE the shape of the plan
(`AnalyzePlan`) together with `Planner`, an external definition that says which
plan PostgreSQL makes of which statement. `Judgement` submits one statement
after the other and states what the verdicts have in common. A relation is what
its name resolves to: found or not, and its size in MiB.

### StatementGuard: `hooks.c`, `circuit_breaker.c`, `event.c`

Every session has a stack of statements; the innermost is at a stage: `hook`
(not looked at yet), `collect`, `persist`, `apply` (the stages inside `PG_TRY`),
`catch` (inside `PG_CATCH`), `run` (past the hook). Actions are the code's
steps: `Skip` (`should_skip_check`), `Analyze` and `AnalyzeError` (before
`PG_TRY`), `Assess`, `Persist`, `Apply`, `Raise` (an internal error in any
stage inside the block), `Rethrow` and `HandleFailure` (the two arms of the
`PG_CATCH` block). `Abort` is PostgreSQL's part: an error ends the innermost
statement and those around it up to one whose exception handler takes it.
`Begin` starts a statement of the client or of a running statement, and
`Configure` is a `SET` by either. A frame keeps three things the code forgets, for the
properties: the settings its check read, the number of its event, and the error
`PG_CATCH` saw.

### Notify: `notify.go`, `fetchEvents`, `Connect`

`proc` is the place in `CmdNotify`; `seen` the Go map; `batch` the rows of
the last fetch not looked at yet; `connected` whether the one connection is
open. `SeedRow` and `PollRow` are one turn of the two loops: a row is marked before it is
delivered, a webhook error ends the command while seeding and goes on while
polling. A restart closes the connection and numbers events anew. `first`,
`latest` and `posts` are history variables.

### LockTable (external) and BlockerGraph: `blocker_graph.c`

`LockTable` is PostgreSQL's lock manager as far as the code sees it: grants,
queues, the place in the queue, wake-ups, a lock given back, and the end of a
transaction. `BlockerGraph` builds the code's graph from it: `AllEdges` the edges
a complete scan finds, `Scans` the sets an interrupted scan may stop with (it goes
waiter by waiter, so at most one waiter is half done), `EdgeLists` the orders
the scan may list them in, and `Parts` what of such a list the cycle and the
severity are found in, once no number is left for a session (`Numbered`).
`HasCycle` is Warshall's closure; `Level`, `Depth` and `Descendants` are the
breadth-first search of `compute_chain_severity`. Two things the model makes
plain: the depth is the breadth-first distance, which is shorter than the
longest path `blocker_graph.h:35` speaks of where a session waits for two others
in a chain; and a cycle has no root, so a deadlock nobody outside holds up has
severity zero. The session that asks is running, does not wait, and is
excluded by the code, so it is not among `Backends`.

### HookLocks: `hooks.c`, `utility_analysis.c` and the lock table

An extension of `BlockerGraph` and so of `LockTable`: sessions submit
statements about one name. With the guard on, `Resolve`, `ResolveAgain` and
`JudgeFound` or `JudgeMissing` are `fill_relation_from_rangevar` and the
verdict; `Run`, `RunAgain`, `Execute` and `Commit` are PostgreSQL's own look-up, its
lock and the statement. `Create` gives the name to a new table; `Abort` is an
error, a cancelled wait or a lost connection at any point. What the run
shows is a cost of the design and not only a comfort: the hook's
AccessShareLock is upgraded by the statement, so two TRUNCATEs of one table can deadlock, in
`observe` too; `CyclesAreUpgrades` says that nothing else does.

### WalRate, WalSample: `shmem.c`, `wal.c`

`WalRate` is the level (`shmem.c`) and the points (`wal.c`) of a rate, a rate
being a pair of bytes and seconds. In `WalSample` a session reads the statistics
(`FetchStats`; the first answer holds for its transaction), then the clock
(`ReadClock`), then, under the lock, is the first (`FirstSample`), replaces the
sample (`Refresh`), or keeps it (`UseCached`). Around them WAL is written,
statistics are reset, the clock moves or is set back, the server restarts.
`counted` adds up the deltas of the rates, `rewound` remembers that an older
position was put back; both are history variables.

### RuntimeState: `runtime_state.c`, `transactions.c`, `locks.c`, `replication.c`

The server is a record of clients, pool, lock graph, WAL senders and WAL rate; a
step changes one part. The collectors (`Transactions`, `EffectiveLag`, `Health`),
the five scores, `Pressure` and `Contributors` are operators over it; `Insert` is one
turn of the code's insertion sort, `Show` one turn of the loop that prints. What
"worse" means of a session is its `Rank`; a session idle in an aborted transaction has no
transaction start, is not counted as idle in one, and ranks like one without a
transaction. One thing
the model makes plain: the effective lag is the largest of the write, flush
and apply lag and of the age of the last reply, where `README.md:322` speaks of
the reply time alone.

### Exporter: `metrics.go`

A request (`Scrapes`) goes through four queries. A query is sent on an idle
connection (`Send`), refused where pgx finds it busy or closed or the context
done (`Refused`), answered, fails, or is interrupted by its client going away,
which closes the connection. Nothing synchronises the check, so two requests that
find the connection idle at the same moment may garble it (`Collide`). An error
of `SHOW server_version` alone does not end the scrape.

### CheckSql: `check.go`

A file is a sequence of lines, a line its words and what its comment is.
`ScanLine` is one turn of the loop of `scanSQLFile`, `Findings` the switch of
`flush` with its regular expressions as patterns over words (`;` is the word "semicolon"). `Judgement`
compares it with `Classify` on every way to break a statement into lines.

## 3. What each run checks

Every run finishes in about two minutes or less with two workers. Distinct states in
brackets.

| Run | Instance | What it shows |
|-----|----------|---------------|
| `event_ring` (63,264) | two writers, one reader, one reader without the segment; rings of 1 to 3 slots; 4 recordings in a server life; one restart | `TypeOK`; `RetainsNewest`: at every step the ring holds the newest events, whole, save the slot being replaced; `SnapshotsWhole`: no reader sees a torn, missing, repeated or disordered event; `ViewsAdvance`: views never go back; `ImplementsHistory`: every behaviour is one of `EventHistory`; `RecordsReturn`, `SnapshotsReturn`: no path keeps the lock |
| `judgement` (37,139) | every utility tree and query shape that `Classify` tells apart, ALTER lists up to three subcommands, sizes on both sides of 64 MiB, every file of a statement; three modes and four values of each threshold; and servers of two clients and two WAL senders, at rest or on either side of every step of the scores | `FilterHidesNothing`, `AlterCountsWorst`, `StricterNeverSofter`, `DefaultsStopDestruction`, `FlaggedMeansEveryRow`, `ExplainNeverUnderstates`; `GateSeesWhatGuardStops`: check-sql finds what the guard stops; `PressureNeverFallsAsSignalsWorsen`; `ReportExplainsScore`: the contributors add up to the score and agree with the health shown |
| `statement_guard` (332,244) | two sessions, nesting depth 2, three statements (none, WARN and BLOCK scores), four kinds of settings, histories of 1 and 2 events, one restart | `TypeOK`; `HarmNeedsFailOpen`: a blockable statement runs under enforce only after an internal error with `fail_closed` off; `OnlyEnforceStops`; `ToldIsOnRecord`: a verdict told is on record under its number until overwritten; `RecordedBlockStops`: a recorded BLOCK stops, or an internal error came after it; `HooksReturn` |
| `notify` (197,154) | rings of 1 and 2, four events in a server life, one restart, both `--catch-up`, two `--decisions` | `AtMostOncePerEvent`, `OnlyNewEvents`, `PollsAreExhausted`; `NewEventsArePosted`: a new event is posted unless the ring, the connection or a signal loses it first |
| `blocker_graph` (3,867 up to symmetry) | four sessions, two objects, a shared and an exclusive mode, limits of 4 edges and 3 sessions that cut scans short | `CycleIsDeadlock`, `WaitsHaveACause`, `SeverityCountsSessions`, `CycleStaysUntilAborted` |
| `hook_locks` (142,134) | three sessions with the guard off, watching or enforcing in three mixes, a name that two tables have in turn, four statements | `TypeOK`; `JudgedIsWhatRuns`: nobody replaces the table between the verdict and the statement; `OnlyUnseenTableIsDropped`: enforce lets only a DROP TABLE IF EXISTS of a table not there yet take effect; `CyclesAreUpgrades`; `StatementsEnd` |
| `wal_sample` (1,438,743) | two samplers with the same or with swapped thresholds, three moments, two units of WAL, resets, restarts, a clock set back | `WalTypeOK`; `WalIsCountedOnce`: no WAL is counted twice until a late sampler puts an older position back; `LevelAgreesWithScore` |
| `metrics` (113,058) | three scrapes on one connection | `ScrapeFailsForAReason`: a scrape on its own, whose client stayed and whose queries were answered, succeeds; `ScrapesAreAnswered` |

Four runs state a sentence of the repository and find it violated by what the
code does; `PROJECT.json` quotes the sentence under `findings`.

| Run | Sentence | What the counterexample shows |
|-----|----------|-------------------------------|
| `statement_guard_errors` | `docs/hardening.md:7`: internal errors fail open in `observe` | the classifier runs outside `PG_TRY`; its error is the statement's |
| `judgement_drop_table` | `README.md:213`: DROP TABLE is PGC004 | `DROP TABLE IF EXISTS missing, existing` is judged by its first name |
| `judgement_no_where` | `README.md:210`: DELETE without WHERE is PGC001 | an unfiltered DELETE of a table with several partitions has an Append in its plan |
| `notify_restart` | `README.md:281`: POST on new BLOCK | after a server restart the one connection stays closed; every poll fails for ever |

Every property of a passing run has a mutant in `PROJECT.json`: a plausible
bug in one definition under which TLC finds the property violated.

### Bounds, and why they are enough

* Ring sizes 1 to 3 with four events: the ring of one slot (head always 0), exactly
  full, and wrapped; a fourth event overwrites in all of them. The
  proofs of section 5 hold for every size and number of sessions.
* Two writers meet on the lock in every order; a third adds no new pair. Two
  readers do not affect one another, but a shared lock of one must keep a
  writer out: one suffices.
* One restart separates two server lives; nothing in the code remembers more than
  the life before (only `notify` remembers any).
* Nesting of two: an inner statement, an outer one, and the handler between
  them. Each frame reads nothing of the frames below it but whether an error
  gets through.
* ALTER lists of three: the loop keeps one number, so first, middle and last
  position are all there is.
* Thresholds 0, 50, 60, 80: below, at and above every score the order of the
  two settings can matter for; the block threshold may be below the warn one.
* Sessions of the lock graph, four: a cycle of two with a waiter and a holder outside it, and chains of three
  waits; two objects: the smallest number that makes both an upgrade deadlock and one across
  objects. Symmetry of sessions and of objects is sound: no definition names
  one, and no liveness is checked there. Chains of three waits reach past three
  sessions, so the limit on sessions bites, and five edges past four, so that on edges does.
* Three sessions in `HookLocks`: two that upgrade and a third that drops, creates or
  waits in between; two tables in turn, because the code remembers one name's table at a time.
* Three moments and two units of WAL: a sample, a newer one, and a third session's clock
  between them; rates below, at and above each threshold.
* Server values in `judgement` lie on both sides of each step of each score; two clients
  and two senders show that sums and maxima are taken over more than one.
* Three scrapes: one that has the connection, one that is refused, one that comes later.
* Files: every set of line breaks of a statement, with and without comments, after
  nothing, a comment with a semicolon, a blank line and another statement.

`MaxEvents`, `MaxRestarts`, `MaxDepth`, `MaxTables`, `MaxTime` and `MaxWal` are the
bounds on counters; each is a CONSTANT and only a guard. `MaxEdges` and `MaxPids` are
the code's own `PGC_MAX_BLOCKER_EDGES` and `PGC_MAX_BLOCKER_PIDS`, made small. `CHECK_DEADLOCK FALSE` stands only in
the runs of `Notify`, where the command really ends.

## 4. Fairness, and why the code justifies it

* `EventRing`: weak fairness of every step inside `event_record` and
  `event_snapshot`, which wait for nothing but the LWLock; strong fairness of the
  two acquisitions, because each release of an LWLock wakes its queue. There is
  no fairness of `Call`, `CallSnapshot` or `Restart`. With one attached
  reader: LWLocks let a reader pass a waiting writer, so with several it is
  PostgreSQL's policy, outside this code, that lets a writer in.
* `StatementGuard`: weak fairness of the disjunction of the hook's steps, for
  each session: a backend inside a hook keeps running. Which of the steps is taken, an
  error included, stays open.
* `Notify`: weak fairness of the turns of the loops, of the tick (a
  `time.Ticker`), and of taking the signal at the `select`; a delivery
  returns within the ten seconds of its HTTP client, whichever way. None of
  connecting, of recording or of a signal.
* `HookLocks`: weak fairness of each session's steps, which a wait for a lock
  disables, and of the abort of one session of a cycle: PostgreSQL's
  `deadlock_timeout`. None of submitting, of creating a table or of other aborts.
* `Exporter`: weak fairness of each goroutine's steps; the server answers a query, which
  waits for nothing but lightweight locks. None of requests or of clients going away.

## 5. What is proved

`tlapm` checks every proof; nothing is assumed but the named ASSUMEs on the
constants in the modules (readers and writers are different sessions, ring sizes are in
1..4096 as `config.c` demands, events have a decision, settings, statements and parse
trees are of their types, an ALTER TABLE has a subcommand, thresholds are positive,
sessions, clients and WAL senders are finitely many, all lock modes are in use where the hook
takes locks, bounds are natural numbers). TLC evaluates each of them in a run.

**EventRingProofs**, for any number of writers and readers, any ring size and
any number of restarts. `TypeOK` and the two safety invariants are not
inductive: a reader's copy is right only because no writer is inside, an entry
only because its writer holds the lock and the number has not moved since.
`RingInv` adds the missing parts: `LockHeld` (who is inside holds
the lock, and excludes the others), the two counters agree, `EventInHand`
(what a writer carries at each step), `HeadFollowsCount` (before the first
wrap the head is the count), `CopyInBounds`, `ViewsBehind`. The lemmas at the
top are about `SlotOf`, the index arithmetic modulo the capacity: distinct places are
distinct slots, the head's slot is the oldest of a full ring, advancing the head
shifts every place by one. One lemma per action shows that it keeps `RingInv`. Results:
`TypeCorrect`, `RingInvariant`, `NewestRetained`, `SnapshotsAreWhole`, and the
action property `ViewsNeverGoBack`.

The same module proves, as general, `Spec => ImplementsHistory`. `RingInv` says that a slot is
whole but not whose event it holds, so `RefInv` adds that the slot filled last is the
entry of the lock's holder, and that a copy in progress is what the ring still holds
in the places it was copied from. `NumberEvent` is then the recording, `ReleaseShared` (or
`SnapshotDetached`) the snapshot, `Restart` the restart; clearing, filling and advancing leave
the history as it is, because the head's slot is the one place that does not stay.
Result: `RingRefinesHistory`.

**StatementGuardProofs**, for any number of sessions, any nesting depth, any
settings and statements. `GuardInv` says what a frame at each stage knows (past
`persist` the decision is the one its settings give; in `catch` which error;
in `run` how it got there) and what a message says of its frame. Lemmas show that
pushing, replacing the top and cutting the stack keep properties of all frames.
`RecordInv` adds that the history fits its numbering (the i-th newest entry has number
`issued + 1 - i`, and as many entries as were issued, up to the capacity) and
that every numbered frame and message is on record until overwritten; a
recording by any session keeps that, because it shifts every entry by one
place. Results: `GuardInvariant`, `TypeCorrect`, `HarmOnlyFailOpen`, `StopsOnlyUnderEnforce`,
`RecordedBlocksStop`, `ToldIsRecorded`.

**BlockerGraphProofs**, for any number of sessions and objects, any lock modes of the
table, and any limits on edges and on sessions.

* `ReportedCyclesAreDeadlocks`. Warshall's closure is a fold over the sessions: after each
  pivot the relation is still within what is reachable, and closed under the pivots so far;
  after all it is the transitive closure (`ClosureIsTransitive`, `ClosureIsLeast`). A session
  that reaches itself starts a set whose members wait for each other, and in a
  finite such set somebody reaches himself (`CycleIffDeadlocked`). The numbered part of a
  scan holds edges of the table only (`PartOfScan`).
* `SeverityIsOfSessions`. Levels of the search are disjoint (`LevelsApart`), each next one has a
  member only if the one before has (`LevelsEnd`), and what the levels add up to is what
  the roots reach; so the depth is bounded by the sessions met.
* `TableInvariant`: the lock table itself. Waking a queue up is a fold over its requests,
  which carries the locks granted so far and the requests left; `WakeUpServes` shows that it
  grants no two locks that conflict and leaves nobody first in a queue whom no lock
  holds up. That invariant is what the code relies on PostgreSQL for, and the theorems
  about waits and the hook rest on it.
* `WaitsAreExplained`: somebody who waits has, through the queue, an edge to a holder; edges
  that end in no root come back, for there are finitely many sessions.
* `CyclesOutlastOthers`, an action property: an edge inside a cycle goes only with the
  request of the session that waits, or with the lock of the one waited for, and that one waits too.

**HookLocksProofs**, for any number of sessions, tables, settings and statements. `HookInv` is
`TableInv` and, for every session, what it holds and asks for at its place (`LocksOf`: nothing,
the classifier's lock, that and the request of the statement, or that and its lock) and
what it knows (`StateOf`: the table judged has the name for as long as the session is past
the hook). A wake-up by another session moves a request to the locks held and changes
nothing else (`StillLocks`); a table is dropped only by a session that holds it exclusively, and then
nobody else holds the classifier's lock on it. `JudgedTableStays`,
`EnforceStopsSeenTables` and `TypeCorrect` follow. `CyclesNeedTwoUpgrades`: whoever is
waited for and waits holds the classifier's lock and asks for the exclusive
one, because nothing else conflicts with that lock; so every member of a cycle upgrades.

**SignalProofs**, about WalSample, for any sessions, thresholds, time and amount of WAL.
`WalIsCountedOnce` needs to know where every position stands that is still in use (`Live`:
the sample's, those frozen in a transaction, those in a session's hand): each lies on
the line of all WAL ever written, and one from before a reset of the statistics ends where
the later ones begin (`LiveInOrder`); what was counted is then no more than the
sample's position reaches (`CountedUpToSample`). `LevelAgreesWithScore` follows from an
invariant of its own: the level of the sample and of each report is that of its rate under
the thresholds it carries. Results: `WalInvariant`, `WalTypeCorrect`, `WalCountedOnce`,
`LevelAndScoreAgree`. And about RuntimeState, for any clients, WAL senders and settings:

* `ReportAlwaysExplains`. The sum, the insertion sort and the listing are folds. One turn
  of the sort puts a part behind the front of those that weigh no less, so the list stays
  descending and the sum grows by the part (`InsertKeepsOrder`, `SumOfInserted`); the
  listing leaves out parts without points (`ShownIs`); no score is negative
  (`PointsAreNumbers`). The health and the points of the lag pass the same limits (`HealthIsPoints`).
* `PressureOnlyRises`, an action property. Each count of a worse server is over a larger set of
  sessions, but for the running ones: one that no longer runs has gone idle in its transaction
  (`WorseSessions`), and the six points it brings there are more than the five it may take
  from the connections (`WorseTransactionsAndConnections`). Lags are maxima over more senders
  and greater fields (`WorseLag`); a rate compares by cross-multiplication (`HigherRate`).

**CommandProofs**, about Exporter, for any number of requests at a time. A failure has a reason because the
connection only ever works for a request in flight, two requests in flight know of each
other, and a request on a broken connection knows that (`Reasons`). Result: `FailuresHaveReasons`.
About Notify, for any ring size, set of decisions, and number of events and restarts. An
event number means nothing across a restart; the argument is that the connection
does not survive one, so that the numbers seen are all of one life (`SeenOfOneLife`), and
that the seed saw every row of the ring that a later poll may still find (`SeedCovers`).
`BatchInOrder` and `RecentAreNewest` say what the rows in hand and in the ring are. Results:
`NotifyInvariant`, `PostedAtMostOnce`, `PostedOnlyIfNew`. For `PollsLeaveNothingOut`, `DeliveryInv` adds that
what a fetch returned is a front of what the ring held then, that the batch is the rest of the fetch,
and that every wanted row that was seen and is not in the batch was posted once.

**JudgementProofs**, for any statements and any thresholds in 0..100. The only state is the
statement, so each is a fact about every state and lifted to the specification:
`StricterIsNeverSofter`, `ExplainIsNeverShort`, `FilterIsComplete`,
`FlaggedReachesEveryRow`, `DefaultsStopWhatDestroys`, `AlterCountsAsItsWorst`,
`GateFindsWhatGuardStops`. `AlterCountsAsItsWorst` is about
lists of subcommands of any length: the loop of `utility_analysis.c` keeps the greatest
class met so far (`AlterLockIsWorst`).

`GateFindsWhatGuardStops` is about every set of line breaks in a statement. `BrokenSteps`
and `ScanSteps` count up the words put on lines and the lines read. When k words have been
broken into lines, the scan of the lines before the last holds, as the open statement, the
words before the last cut, and the last line holds the others: so what the scanner matches in
the end is the whole statement, however it was broken (`ScanIsFindings`,
`FilesAreMatchedWhole`). No word but the last is a semicolon, so nothing is flushed
before. What the patterns of `flush` make of the words is then a matter of the shapes
of statement alone (`FindingsByShape`). A SELECT before the statement leaves nothing in
the scan, nor do comments and blank lines (`PreamblesLeaveNothing`).

**FoldTheorems** holds what these have in common. The library's induction theorems take a
predicate as a parameter, which the provers cannot instantiate; a set can stand for it.
`CountingTo` is induction up to a number over a set, from the well-foundedness of the
naturals; `FoldExists` shows by it that the function the folds of the community modules choose
exists, so that a fold is the last of its intermediate values; each fold of a model then has a
lemma (`ClosureSteps`, `WakeUpSteps`, `AlterLockSteps`, `SumSteps`, `SortSteps`, ...) that names
those values, and what holds of them is shown by counting up.

### Only model-checked

Every invariant of a passing run, and every property of steps, is a theorem. What is left to TLC:

* All liveness properties (`RecordsReturn`, `SnapshotsReturn`, `HooksReturn`, `NewEventsArePosted`,
  `StatementsEnd`, `ScrapesAreAnswered`): fairness and ENABLED are beyond the prover.
* The four sentences of the repository that the code does not keep.

## 6. Not modelled, and why

* The durations of waits in `blocker_graph.c`: free in `RuntimeState`, absent in `BlockerGraph`.
* A session queued behind a conflicting request and behind no conflicting lock
  has no edge in the code's graph and is not counted as blocked;
  the model has such sessions, and `WaitsHaveACause` says what the graph
  still shows for them.
* `explain_risk_ex`, `status` and `blockers` copy fields out; `pg_circuit_wal_cache_read` is
  called nowhere.
* Texts, names, wording of messages, risk levels, JSON: no property is about them.
* Timestamps: events are ordered by number; `event_time` is taken before the lock
  and may be in another order.
* The chain of hooks of other modules: the previous hook is the standard
  routine. Parallel workers: never run a DELETE or an UPDATE.
* `break-glass` prints a transaction, or sends one query; the `SET LOCAL` it is about
  is `Configure` of `StatementGuard`.
* Of `check-sql`: `check.go:13` calls it heuristics only, and the model's files hold each
  statement alone on its lines. Two statements on one line, a semicolon or `--`
  inside a literal, `DELETE FROM ONLY` and an UPDATE without a semicolon are beyond the
  scanner, and no property is about them.
* `doctor`, `status`, `runtime`, `blockers`, `events`: one query each and formatting.
* The webhook's URL check and payload, mock servers, scripts, containers.

## 7. Plan

Done in this order: EventHistory and EventRing; RiskRules, Classify, Judgement;
StatementGuard; Notify; LockTable and BlockerGraph; the proofs of EventRing and
StatementGuard; HookLocks; WalRate, WalSample and RuntimeState; Exporter; CheckSql; the
limit on sessions in BlockerGraph; the proofs of WalSample, Exporter, Notify and
Judgement; the refinement of EventHistory; the proofs of BlockerGraph and HookLocks, of the lock table
they share, and of RuntimeState.

Next, the most important first:

1. `GateSeesWhatGuardStops` for files with any number of statements: `Files` has one, and
   at most a SELECT before it; what the loop keeps at the end of each is what it started with.
2. **EventHistory in Exporter**: what a scrape counts of events while the ring overwrites.
3. **explain_risk_ex** next to `Explain`, once a property tells the two apart.
