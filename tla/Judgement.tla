----------------------------- MODULE Judgement -----------------------------
(***************************************************************************)
(* Statements reach the classifier and the rule table one after another;   *)
(* what PG Circuit makes of each, under every setting, is compared with    *)
(* what the statement does.                                                *)
(***************************************************************************)
EXTENDS Classify, CheckSql

CONSTANTS
    Trees,       \* statements: utility parse trees and queries
    Thresholds   \* values of the two risk thresholds

(* The grammar leaves no ALTER TABLE without a subcommand.                 *)
ASSUME TreesAssumption ==
    \A t \in Trees :
        /\ IsQuery(t) => t.where \in {"none", "true", "false", "filter"}
        /\ t.tag = "AlterTableStmt" => t.cmds \in Seq(STRING) \ {<<>>}
ASSUME ThresholdsAssumption == Thresholds \subseteq 0..100

VARIABLE statement

Init == statement \in Trees

Submit(t) == statement' = t

Next == \E t \in Trees : Submit(t)

Spec == Init /\ [][Next]_statement

-----------------------------------------------------------------------------

Confs == [mode: Modes, warn_at: Thresholds, block_at: Thresholds]

Info == Analyze(statement, FALSE)

(* The cheap filter of hooks.c never hides a statement the classifier has  *)
(* a rule for: the two switch statements are kept in step by hand          *)
(* (hooks.c:168-203, utility_analysis.c:160-328).                          *)
FilterHidesNothing ==
    ~IsQuery(statement) /\ AnalyzeUtility(statement).kind # "other"
        => MayBeRisky(statement)

(* An ALTER TABLE counts as its worst subcommand alone, wherever in the    *)
(* list that stands (utility_analysis.c:88-158).                           *)
AlterCountsWorst ==
    statement.tag = "AlterTableStmt" =>
        Info.lock_class = Max({AlterLock(<<cmd>>) : cmd \in ToSet(statement.cmds)})

Strictness == [observe |-> 0, warn |-> 1, enforce |-> 2]
Severity == [ALLOW |-> 0, WARN |-> 1, BLOCK |-> 2]

(* A stricter mode or a lower threshold never softens the decision on the  *)
(* same statement, the thresholds being set independently, in any order    *)
(* (risk_engine.c:148-180).                                                *)
StricterNeverSofter ==
    \A c, d \in Confs :
        /\ Strictness[c.mode] <= Strictness[d.mode]
        /\ c.warn_at >= d.warn_at
        /\ c.block_at >= d.block_at
        => Severity[Decision(c, Info)] <= Severity[Decision(d, Info)]

(* With the thresholds of config.c, enforce stops exactly the destructive  *)
(* statements, and speaks up about every form that takes a strong lock or  *)
(* rewrites but about no CONCURRENTLY form (README.md:208-221).            *)
Destructive == {"delete_no_where", "update_no_where", "truncate", "drop_table",
                "drop_database"}

DefaultsStopDestruction ==
    LET decision == Decision([DefaultConf EXCEPT !.mode = "enforce"], Info)
    IN  /\ decision = "BLOCK" <=> Info.kind \in Destructive
        /\ Info.kind # "create_index" /\ Info.lock_class = HighLock => decision # "ALLOW"
        /\ Info.concurrent => decision = "ALLOW"

(* A DELETE or UPDATE is flagged only when it reaches every row: never for *)
(* a filtering WHERE, a join, a policy, or an EXPLAIN (hooks.c:237-242,    *)
(* query_analysis.c:183-190).                                              *)
FlaggedMeansEveryRow ==
    IsQuery(statement) /\ Info.kind # "other" =>
        /\ statement.where \in {"none", "true"}
        /\ ~statement.rls
        /\ ~statement.explain_only

(* pg_circuit_explain_risk() asked about the operation and the size of a   *)
(* live statement never promises less than that statement then gets        *)
(* (pg_circuit.c:147-238).                                                 *)
ExplainNeverUnderstates ==
    \A c \in Confs :
        LET told == Explain(c, Info.kind, Info.mb)
        IN  /\ told.score >= Score(Info)
            /\ Severity[told.decision] >= Severity[Decision(c, Info)]

(* The words of a statement, where check-sql knows them.                   *)
Words(t) ==
    CASE t.tag = "TruncateStmt" -> <<"TRUNCATE", "t", "semicolon">>
      [] t.tag = "DropStmt" /\ t.removeType = "OBJECT_TABLE" -> <<"DROP", "TABLE", "t", "semicolon">>
      [] t.tag = "DropdbStmt" -> <<"DROP", "DATABASE", "d", "semicolon">>
      [] t.tag = "Query" ->
            (IF t.in_with THEN <<"WITH", "w">> ELSE <<>>)
                \o (IF t.command = "CMD_DELETE" THEN <<"DELETE", "FROM", "t">>
                    ELSE <<"UPDATE", "t", "SET", "a">>)
                \o (IF t.joined THEN <<"USING">> ELSE <<>>)
                \o (IF t.where = "none" THEN <<>> ELSE <<"WHERE", "b">>) \o <<"semicolon">>
      [] OTHER -> <<"SELECT", "1", "semicolon">>

(* Every destructive statement the guard stops in production is found      *)
(* under the same rule by check-sql in a migration file, however it is     *)
(* broken into lines, commented, and preceded, unless its WHERE is a       *)
(* constant, which only the planner sees to be none; and a statement with  *)
(* a WHERE is not flagged, whatever line that stands on (check.go:119-206, *)
(* utility_analysis.c:160-230, query_analysis.c:183-190).                  *)
GateSeesWhatGuardStops ==
    \A file \in Files(Words(statement)) :
        LET has_where == IsQuery(statement) /\ statement.where # "none"
        IN  /\ Info.kind \in Destructive /\ ~has_where => Scan(file) = <<Rule(Info.kind)>>
            /\ has_where => Scan(file) = <<>>

-----------------------------------------------------------------------------
(* What the documentation says of the classifier                           *)

(* README.md:213 "PGC004 | DROP TABLE | 95".                               *)
DropTableIsPGC004 ==
    statement.tag = "DropStmt" /\ statement.removeType = "OBJECT_TABLE" =>
        \A i \in DOMAIN statement.objects :
            statement.objects[i].found => Rule(Info.kind) = "PGC004"

(* README.md:210-211 "PGC001 | DELETE without WHERE | 95", taken at its    *)
(* narrowest: DELETE FROM t, UPDATE t SET ..., without anything else.      *)
NoWhereIsFlagged ==
    /\ IsQuery(statement)
    /\ statement.where = "none"
    /\ ~(statement.joined \/ statement.rls \/ statement.in_with \/ statement.explain_only)
    => Rule(Info.kind) \in {"PGC001", "PGC002"}

=============================================================================
