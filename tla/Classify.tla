------------------------------ MODULE Classify ------------------------------
(***************************************************************************)
(* The classifier: which statements the hooks of src/src/hooks.c look at,  *)
(* and what src/src/utility_analysis.c and src/src/query_analysis.c make   *)
(* of a parse tree or of a plan.  Trees are records named by their node    *)
(* tag.  A relation is what its RangeVar resolves to: found or not, with   *)
(* the size of its own main fork.                                          *)
(***************************************************************************)
EXTENDS RiskRules, Sequences, SequencesExt

Relations == [found: BOOLEAN, mb: Nat]

(* A statement that names no relation: stmt->relation == NULL.             *)
Unnamed == [found |-> FALSE, mb |-> 0]

(* fill_relation_from_rangevar: -1 when the name resolves to nothing.      *)
SizeOf(rel) == IF rel.found THEN rel.mb ELSE -1

FirstOf(rels) == IF rels = <<>> THEN Unnamed ELSE Head(rels)

Classified(kind, lock, rel, concurrent) ==
    [kind |-> kind, lock_class |-> lock, mb |-> SizeOf(rel), concurrent |-> concurrent]

-----------------------------------------------------------------------------
(* ProcessUtility: hooks.c's filter, then the classification               *)

(* Mutant: the filter forgets RENAME COLUMN.                               *)
MayBeRiskyNoColumns(t) ==
    \/ t.tag \in {"TruncateStmt", "DropdbStmt", "AlterTableStmt", "IndexStmt",
                  "ReindexStmt", "ClusterStmt"}
    \/ t.tag = "RenameStmt" /\ t.renameType = "OBJECT_TABLE"
    \/ t.tag = "DropStmt" /\ t.removeType = "OBJECT_TABLE"
    \/ t.tag = "VacuumStmt" /\ t.is_vacuumcmd /\ t.full # <<>>

MayBeRisky(t) ==
    \/ t.tag \in {"TruncateStmt", "DropdbStmt", "AlterTableStmt", "IndexStmt",
                  "ReindexStmt", "ClusterStmt"}
    \/ t.tag = "RenameStmt" /\ t.renameType \in {"OBJECT_TABLE", "OBJECT_COLUMN"}
    \/ t.tag = "DropStmt" /\ t.removeType = "OBJECT_TABLE"
    \/ t.tag = "VacuumStmt" /\ t.is_vacuumcmd /\ t.full # <<>>

(* def_list_has_bool: the value of the first option of the name.           *)
OptionOn(values) == values # <<>> /\ Head(values)

(* Mutants of Worsen: the last subcommand wins; the classes add up.        *)
WorsenLast(cmd, worst) ==
    CASE cmd \in {"AddColumn", "DropNotNull"} -> MediumLock
      [] cmd \in {"DropColumn", "AlterColumnType", "SetNotNull", "AddConstraint",
                  "DropConstraint", "SetTableSpace", "SetLogged", "SetUnLogged"} -> HighLock
      [] OTHER -> worst

(* One turn of the loop of classify_alter_table.                           *)
Worsen(cmd, worst) ==
    CASE cmd \in {"AddColumn", "DropNotNull"} ->
            IF worst < MediumLock THEN MediumLock ELSE worst
      [] cmd \in {"DropColumn", "AlterColumnType", "SetNotNull", "AddConstraint",
                  "DropConstraint", "SetTableSpace", "SetLogged", "SetUnLogged"} -> HighLock
      [] OTHER -> IF worst < LowLock THEN LowLock ELSE worst

AlterLock(cmds) == FoldLeft(LAMBDA worst, cmd : Worsen(cmd, worst), LowLock, cmds)

DropInfo(t) ==
    IF t.objects # <<>> /\ t.missing_ok /\ ~Head(t.objects).found
    THEN OtherInfo
    ELSE Classified("drop_table", HighLock, FirstOf(t.objects), FALSE)

AnalyzeUtility(t) ==
    CASE t.tag = "TruncateStmt" ->
            Classified("truncate", HighLock, FirstOf(t.relations), FALSE)
      [] t.tag = "DropStmt" /\ t.removeType = "OBJECT_TABLE" -> DropInfo(t)
      [] t.tag = "DropdbStmt" -> Classified("drop_database", HighLock, Unnamed, FALSE)
      [] t.tag = "AlterTableStmt" ->
            Classified("alter_table", AlterLock(t.cmds), t.relation, FALSE)
      [] t.tag = "RenameStmt" /\ t.renameType \in {"OBJECT_TABLE", "OBJECT_COLUMN"} ->
            Classified("alter_table", HighLock, t.relation, FALSE)
      [] t.tag = "IndexStmt" /\ t.concurrent ->
            Classified("create_index_concurrently", LowLock, t.relation, TRUE)
      [] t.tag = "IndexStmt" /\ ~t.concurrent ->
            Classified("create_index", MediumLock, t.relation, FALSE)
      [] t.tag = "ReindexStmt" /\ OptionOn(t.concurrently) ->
            Classified("reindex", LowLock, t.relation, TRUE)
      [] t.tag = "ReindexStmt" /\ ~OptionOn(t.concurrently) ->
            Classified("reindex", HighLock, t.relation, FALSE)
      [] t.tag = "VacuumStmt" /\ t.is_vacuumcmd /\ OptionOn(t.full) ->
            Classified("vacuum_full", HighLock, FirstOf(t.rels), FALSE)
      [] t.tag = "ClusterStmt" -> Classified("cluster", HighLock, t.relation, FALSE)
      [] OTHER -> OtherInfo

-----------------------------------------------------------------------------
(* ExecutorStart: the planner's result, then the classification            *)

(* External: the plan PostgreSQL makes of a DELETE or UPDATE whose WHERE   *)
(* is absent ("none"), folds to a constant, or filters.  A table with      *)
(* several surviving partitions is read under an Append, a USING or FROM   *)
(* list under a join, a false WHERE under a childless Result; a row-level  *)
(* security policy filters like a WHERE.  A statement in a WITH list is    *)
(* part of a plan whose command is SELECT.                                 *)
Planner(q) ==
    [command |-> IF q.in_with THEN "CMD_SELECT" ELSE q.command,
     relation |-> q.relation,
     below |-> CASE q.where = "false" -> "Result"
                 [] q.where # "false" /\ q.joined -> "Join"
                 [] q.where # "false" /\ ~q.joined /\ q.partitions > 1 -> "Append"
                 [] OTHER -> "SeqScan",
     qual |-> q.where = "filter" \/ q.rls]

(* executor_start's guard; plain EXPLAIN never executes.                   *)
Checked(plan, explain_only) ==
    plan.command \in {"CMD_DELETE", "CMD_UPDATE"} /\ ~explain_only

(* Mutant: any sequential scan counts as unfiltered.                       *)
HasWhereScanOnly(plan) == plan.below # "SeqScan"

HasWhere(plan) == ~(plan.below = "SeqScan" /\ ~plan.qual)

AnalyzePlan(plan) ==
    [kind |-> CASE HasWhere(plan) -> "other"
                [] ~HasWhere(plan) /\ plan.command = "CMD_DELETE" -> "delete_no_where"
                [] OTHER -> "update_no_where",
     lock_class |-> NoLock,
     mb |-> SizeOf(plan.relation),
     concurrent |-> FALSE]

-----------------------------------------------------------------------------

IsQuery(t) == t.tag = "Query"

(* What the hooks make of a statement; autovacuum's own maintenance is     *)
(* left alone.                                                             *)
Analyze(t, autovacuum) ==
    CASE IsQuery(t) /\ Checked(Planner(t), t.explain_only) -> AnalyzePlan(Planner(t))
      [] ~IsQuery(t) /\ MayBeRisky(t) /\ ~autovacuum -> AnalyzeUtility(t)
      [] OTHER -> OtherInfo

=============================================================================
