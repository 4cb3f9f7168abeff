----------------------------- MODULE HookLocks -----------------------------
(***************************************************************************)
(* The lock the guard takes for itself.  To classify a utility statement   *)
(* the hook of src/src/hooks.c resolves the table's name under an          *)
(* AccessShareLock (src/src/utility_analysis.c), which the transaction     *)
(* keeps; PostgreSQL then resolves the name again and takes the lock the   *)
(* statement needs.  Sessions run statements about one table name, each in *)
(* a transaction of its own, while the table is dropped and created again. *)
(***************************************************************************)
EXTENDS BlockerGraph

CONSTANTS
    MaxTables,     \* bound: tables that get the name, one after the other
    Guards,        \* the settings the sessions may have, a set of functions
    Ops            \* statements sessions submit

(* External: the lock PostgreSQL takes on the table.                       *)
LockOf ==
    [insert |-> "RowExclusiveLock",
     create_index |-> "ShareLock",
     truncate |-> "AccessExclusiveLock",
     drop |-> "AccessExclusiveLock",
     drop_if_exists |-> "AccessExclusiveLock"]

ASSUME OpsAssumption == Ops \subseteq DOMAIN LockOf
ASSUME GuardsAssumption == Guards \subseteq [Backends -> {"off", "observe", "enforce"}]
ASSUME MaxTablesAssumption == MaxTables \in Nat \ {0} /\ Tags = 1..MaxTables
ASSUME AllModesAssumption == LockModes = DOMAIN ModeConflicts

VARIABLES
    table,         \* the table that has the name, 0 when there is none
    made,          \* tables created so far
    guard,         \* pg_circuit.enabled and pg_circuit.mode of each session
    at,            \* where each session is
    op,            \* its statement
    target,        \* the table whose lock it asked for last, 0 for none
    judged         \* the table the classifier found, 0 for none

name == <<table, made>>
session == <<at, op, target, judged>>
vars == <<locks, name, guard, session>>

Places == {"idle", "analyze", "analyze_lock", "run", "run_lock", "done"}

TypeOK ==
    /\ table \in 0..MaxTables /\ made \in 0..MaxTables
    /\ guard \in Guards
    /\ at \in [Backends -> Places]
    /\ op \in [Backends -> Ops \cup {"none"}]
    /\ target \in [Backends -> 0..MaxTables]
    /\ judged \in [Backends -> 0..MaxTables]
    /\ \A b \in Backends : at[b] = "idle" => \A t \in Tags : held[t][b] = {}

-----------------------------------------------------------------------------

Init ==
    /\ LockInit
    /\ table = 1
    /\ made = 1
    /\ guard \in Guards
    /\ at = [b \in Backends |-> "idle"]
    /\ op = [b \in Backends |-> "none"]
    /\ target = [b \in Backends |-> 0]
    /\ judged = [b \in Backends |-> 0]

Move(b, place) == at' = [at EXCEPT ![b] = place]

(* Mutant: the classifier runs before should_skip_check.                   *)
AnalyzedAlways(b, o) == o # "insert"

(* should_skip_check and utility_may_be_risky: INSERT never meets the      *)
(* classifier.                                                             *)
Analyzed(b, o) == guard[b] # "off" /\ o # "insert"

Submit(b, o) ==
    /\ at[b] = "idle"
    /\ Move(b, IF Analyzed(b, o) THEN "analyze" ELSE "run")
    /\ op' = [op EXCEPT ![b] = o]
    /\ UNCHANGED <<locks, name, guard, target, judged>>

(* External: CREATE TABLE of another client, committed.                    *)
Create ==
    /\ table = 0
    /\ made < MaxTables
    /\ made' = made + 1
    /\ table' = made + 1
    /\ UNCHANGED <<locks, guard, session>>

(* Mutant: a lock that outlives its transaction.                           *)
EndKeepsLocks(b) ==
    /\ IF at[b] # "done" /\ \E t \in Tags : WaitsFor(b, t) \/ held[t][b] # {}
       THEN Release(b)
       ELSE UNCHANGED locks
    /\ Move(b, "idle")
    /\ op' = [op EXCEPT ![b] = "none"]
    /\ target' = [target EXCEPT ![b] = 0]
    /\ judged' = [judged EXCEPT ![b] = 0]

(* The transaction ends, and its locks with it.                            *)
End(b) ==
    /\ IF \E t \in Tags : WaitsFor(b, t) \/ held[t][b] # {}
       THEN Release(b)
       ELSE UNCHANGED locks
    /\ Move(b, "idle")
    /\ op' = [op EXCEPT ![b] = "none"]
    /\ target' = [target EXCEPT ![b] = 0]
    /\ judged' = [judged EXCEPT ![b] = 0]

(* An error, a cancelled wait or a lost connection, at any point.          *)
Abort(b) ==
    /\ at[b] # "idle"
    /\ End(b)
    /\ UNCHANGED <<name, guard>>

-----------------------------------------------------------------------------
(* fill_relation_from_rangevar, and what evaluate_and_apply makes of it    *)

(* RangeVarGetRelid, first half: the name is looked up, the lock asked for.*)
Ask(b, mode, place) ==
    /\ table # 0
    /\ Lock(b, table, mode)
    /\ target' = [target EXCEPT ![b] = table]
    /\ Move(b, place)
    /\ UNCHANGED <<name, guard, op, judged>>

(* The lock was granted after the table was dropped: it is given back, and *)
(* the name is looked up again.                                            *)
Retry(b, mode, place) ==
    /\ ~Waiting(b)
    /\ target[b] # table
    /\ Unlock(b, target[b], mode)
    /\ Move(b, place)
    /\ UNCHANGED <<name, guard, op, target, judged>>

Resolve(b) == at[b] = "analyze" /\ Ask(b, "AccessShareLock", "analyze_lock")

ResolveAgain(b) == at[b] = "analyze_lock" /\ Retry(b, "AccessShareLock", "analyze")

Destructive == {"truncate", "drop", "drop_if_exists"}

(* Mutant of Stops: a statement about a table that is gone is let through. *)
StopsFoundOnly(b, found) ==
    /\ guard[b] = "enforce"
    /\ op[b] \in Destructive
    /\ found # 0

(* DROP TABLE IF EXISTS of a missing table is PGC_QKIND_OTHER; the rules   *)
(* block the other destructive statements under enforce.                   *)
Stops(b, found) ==
    /\ guard[b] = "enforce"
    /\ op[b] \in Destructive
    /\ ~(op[b] = "drop_if_exists" /\ found = 0)

(* Mutant of Judge: the classifier gives its lock back.                    *)
JudgeUnlocks(b, found) ==
    IF Stops(b, found)
    THEN End(b)
    ELSE /\ judged' = [judged EXCEPT ![b] = found]
         /\ Move(b, "run")
         /\ UNCHANGED <<op, target>>
         /\ IF found = 0 THEN UNCHANGED locks ELSE Unlock(b, found, "AccessShareLock")

Judge(b, found) ==
    IF Stops(b, found)
    THEN End(b)
    ELSE /\ judged' = [judged EXCEPT ![b] = found]
         /\ Move(b, "run")
         /\ UNCHANGED <<locks, op, target>>

JudgeFound(b) ==
    /\ at[b] = "analyze_lock"
    /\ ~Waiting(b)
    /\ target[b] = table
    /\ Judge(b, table)
    /\ UNCHANGED <<name, guard>>

JudgeMissing(b) ==
    /\ at[b] = "analyze"
    /\ table = 0
    /\ Judge(b, 0)
    /\ UNCHANGED <<name, guard>>

-----------------------------------------------------------------------------
(* External: the statement itself                                          *)

Run(b) == at[b] = "run" /\ Ask(b, LockOf[op[b]], "run_lock")

RunAgain(b) == at[b] = "run_lock" /\ Retry(b, LockOf[op[b]], "run")

(* No table has the name: an error, or a notice for IF EXISTS.             *)
RunMissing(b) ==
    /\ at[b] = "run"
    /\ table = 0
    /\ End(b)
    /\ UNCHANGED <<name, guard>>

Execute(b) ==
    /\ at[b] = "run_lock"
    /\ ~Waiting(b)
    /\ target[b] = table
    /\ Move(b, "done")
    /\ UNCHANGED <<locks, name, guard, op, target, judged>>

Commit(b) ==
    /\ at[b] = "done"
    /\ End(b)
    /\ table' = IF op[b] \in {"drop", "drop_if_exists"} THEN 0 ELSE table
    /\ UNCHANGED <<made, guard>>

Step(b) ==
    \/ Resolve(b)
    \/ ResolveAgain(b)
    \/ JudgeFound(b)
    \/ JudgeMissing(b)
    \/ Run(b)
    \/ RunAgain(b)
    \/ RunMissing(b)
    \/ Execute(b)
    \/ Commit(b)

Next ==
    \/ \E b \in Backends :
        \/ \E o \in Ops : Submit(b, o)
        \/ Step(b)
        \/ Abort(b)
    \/ Create

Spec == Init /\ [][Next]_vars

(* A session in a statement keeps running, and one that waits for itself   *)
(* is made to give up (PostgreSQL's deadlock_timeout).                     *)
OnCycle(b) ==
    /\ Waiting(b)
    /\ \E t \in Tags : held[t][b] # {}
    /\ LET edges == AllEdges IN <<b, b>> \in Closure(edges)

BreakDeadlock == \E b \in Backends : OnCycle(b) /\ Abort(b)

Fairness == WF_vars(BreakDeadlock) /\ \A b \in Backends : WF_vars(Step(b))

FairSpec == Spec /\ Fairness

-----------------------------------------------------------------------------
(* Properties                                                              *)

(* A statement runs on the table it was judged by: once the classifier has *)
(* found it, no other session can drop it or put another in its place, nor *)
(* run a statement that needs it to itself (utility_analysis.c:46-64).     *)
JudgedIsWhatRuns ==
    \A b \in Backends :
        at[b] \in {"run", "run_lock", "done"} /\ judged[b] # 0 =>
            /\ table = judged[b]
            /\ \A c \in Backends \ {b} :
                  at[c] = "done" => LockOf[op[c]] # "AccessExclusiveLock"

(* Under enforce a destructive statement takes effect only as a DROP TABLE *)
(* IF EXISTS of a table that was not there yet when it was classified      *)
(* (utility_analysis.c:181-203, hooks.c:218-222).                          *)
OnlyUnseenTableIsDropped ==
    \A b \in Backends :
        at[b] = "done" /\ guard[b] = "enforce" /\ op[b] \in Destructive =>
            op[b] = "drop_if_exists" /\ judged[b] = 0

(* The lock of the hook deadlocks no other statements than those that      *)
(* upgrade it: a cycle of waits has two of them in it, each past the hook  *)
(* with AccessShareLock held and a request for AccessExclusiveLock; one    *)
(* that is still in the hook, one with the guard off, or a weak statement  *)
(* may wait for a cycle but makes none (utility_analysis.c:55,             *)
(* hooks.c:218-222).                                                       *)
Upgrading(b) ==
    /\ guard[b] # "off"
    /\ at[b] = "run_lock"
    /\ LockOf[op[b]] = "AccessExclusiveLock"

CyclesAreUpgrades ==
    LET edges == AllEdges
    IN  \A S \in SUBSET Backends :
            Deadlocked(edges, S) => Cardinality({b \in S : Upgrading(b)}) >= 2

(* Every statement ends, in the hook or after it, although the hook may    *)
(* wait for a lock outside evaluate_and_apply and look a name up again     *)
(* and again.                                                              *)
StatementsEnd == \A b \in Backends : at[b] # "idle" ~> at[b] = "idle"

=============================================================================
