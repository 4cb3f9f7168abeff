----------------------------- MODULE RiskRules -----------------------------
(***************************************************************************)
(* The rule table of PG Circuit: what src/src/risk_engine.c scores, and    *)
(* what it decides for a score under a session's settings.  Pure           *)
(* operators on the classifier's result, a record with the fields          *)
(*   kind        PgCircuitQueryKind                                        *)
(*   lock_class  PgCircuitLockClass, ordered as the enum is                *)
(*   mb          relation_size in MiB, -1 when unavailable                 *)
(*   concurrent  the CONCURRENTLY form                                     *)
(***************************************************************************)
EXTENDS Integers

Kinds == {"other", "delete_no_where", "update_no_where", "truncate", "drop_table",
          "drop_database", "alter_table", "create_index", "create_index_concurrently",
          "reindex", "vacuum_full", "cluster"}

LockClasses == 0..3
NoLock == 0
LowLock == 1
MediumLock == 2
HighLock == 3

Modes == {"observe", "warn", "enforce"}
Decisions == {"ALLOW", "WARN", "BLOCK"}

Infos == [kind: Kinds, lock_class: LockClasses, mb: Int, concurrent: BOOLEAN]

(* init_qinfo: an operation no rule is about.                              *)
OtherInfo == [kind |-> "other", lock_class |-> NoLock, mb |-> -1, concurrent |-> FALSE]

Rule(kind) ==
    CASE kind = "delete_no_where" -> "PGC001"
      [] kind = "update_no_where" -> "PGC002"
      [] kind = "truncate" -> "PGC003"
      [] kind = "drop_table" -> "PGC004"
      [] kind = "drop_database" -> "PGC005"
      [] kind = "alter_table" -> "PGC012"
      [] kind \in {"create_index", "create_index_concurrently"} -> "PGC013"
      [] kind = "reindex" -> "PGC014"
      [] kind = "vacuum_full" -> "PGC015"
      [] kind = "cluster" -> "PGC016"
      [] OTHER -> ""

SmallIndexMb == 64

(* The one finding assess_query adds, as its score contribution.           *)
Contribution(info) ==
    CASE info.kind \in {"delete_no_where", "update_no_where", "drop_table"} -> 95
      [] info.kind = "truncate" -> 90
      [] info.kind = "drop_database" -> 100
      [] info.kind = "alter_table" /\ info.lock_class >= HighLock -> 60
      [] info.kind = "alter_table" /\ info.lock_class = MediumLock -> 45
      [] info.kind = "alter_table" /\ info.lock_class < MediumLock -> 35
      [] info.kind = "create_index" /\ info.mb >= 0 /\ info.mb < SmallIndexMb -> 25
      [] info.kind = "create_index" /\ (info.mb < 0 \/ info.mb >= SmallIndexMb) -> 50
      [] info.kind = "create_index_concurrently" -> 15
      [] info.kind = "reindex" /\ info.concurrent -> 20
      [] info.kind = "reindex" /\ ~info.concurrent -> 55
      [] info.kind \in {"vacuum_full", "cluster"} -> 70
      [] OTHER -> 0

Clamp(score) == IF score < 0 THEN 0 ELSE IF score > 100 THEN 100 ELSE score

Score(info) == Clamp(Contribution(info))

(* Mutants of Decide: the decision left unset where no mode sets it;       *)
(* enforce blocks or stays silent; the thresholds in the wrong order.      *)
DecideUnset(conf, score) ==
    IF conf.mode = "enforce" /\ score >= conf.block_at THEN "BLOCK"
    ELSE IF conf.mode # "observe" /\ score >= conf.warn_at THEN "WARN"
    ELSE "UNSET"

DecideBlockOnly(conf, score) ==
    IF conf.mode = "enforce" THEN IF score >= conf.block_at THEN "BLOCK" ELSE "ALLOW"
    ELSE IF conf.mode = "warn" /\ score >= conf.warn_at THEN "WARN"
    ELSE "ALLOW"

DecideSwapped(conf, score) ==
    IF conf.mode = "enforce" /\ score >= conf.warn_at THEN "BLOCK"
    ELSE IF conf.mode # "observe" /\ score >= conf.block_at THEN "WARN"
    ELSE "ALLOW"

(* finalize_assessment; the effective thresholds are the two GUCs.         *)
Decide(conf, score) ==
    IF conf.mode = "enforce" /\ score >= conf.block_at THEN "BLOCK"
    ELSE IF conf.mode # "observe" /\ score >= conf.warn_at THEN "WARN"
    ELSE "ALLOW"

Decision(conf, info) == Decide(conf, Score(info))

(* Mutant: explain leaves the lock class at zero, as MemSet does.          *)
ExplainedUnlocked(kind, mb) ==
    [kind |-> kind, mb |-> mb, lock_class |-> NoLock,
     concurrent |-> kind = "create_index_concurrently"]

(* The synthetic operation pg_circuit_explain_risk() assesses.             *)
Explained(kind, mb) ==
    [kind |-> kind,
     mb |-> mb,
     concurrent |-> kind = "create_index_concurrently",
     lock_class |->
         CASE kind \in {"alter_table", "reindex", "vacuum_full", "cluster"} -> HighLock
           [] kind = "create_index" -> MediumLock
           [] kind = "create_index_concurrently" -> LowLock
           [] OTHER -> NoLock]

Explain(conf, kind, mb) ==
    [score |-> Score(Explained(kind, mb)),
     decision |-> Decision(conf, Explained(kind, mb)),
     rule |-> Rule(kind)]

(* config.c: the settings a server starts with.                            *)
DefaultConf ==
    [enabled |-> TRUE, mode |-> "warn", fail_closed |-> FALSE,
     warn_at |-> 50, block_at |-> 80]

=============================================================================
