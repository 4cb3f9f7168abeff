-------------------------- MODULE JudgementProofs --------------------------
(***************************************************************************)
(* Proofs about Judgement, for every parse tree, whatever it holds, and    *)
(* every pair of thresholds.                                               *)
(***************************************************************************)
EXTENDS Judgement, FoldTheorems, SequenceTheorems

(* The score of a kind of statement is a number that no field of a parse   *)
(* tree can push out of range.                                             *)
LEMMA ScoreInRange ==
    ASSUME NEW info
    PROVE  Score(info) \in 0..100 /\ Score(info) = Contribution(info)
<1>1. Contribution(info) \in 0..100
  BY DEF Contribution, HighLock, MediumLock, SmallIndexMb
<1>2. QED
  BY <1>1 DEF Score, Clamp

LEMMA ConfsTyped ==
    ASSUME NEW c \in Confs
    PROVE  c.mode \in Modes /\ c.warn_at \in Int /\ c.block_at \in Int
<1>1. \A n \in Thresholds : n \in Int
  BY ThresholdsAssumption
<1>2. QED
  BY <1>1 DEF Confs

LEMMA DecideMonotone ==
    ASSUME NEW c \in Confs, NEW d \in Confs,
           Strictness[c.mode] <= Strictness[d.mode],
           c.warn_at >= d.warn_at, c.block_at >= d.block_at,
           NEW m \in 0..100, NEW n \in 0..100, m <= n
    PROVE  Severity[Decide(c, m)] <= Severity[Decide(d, n)]
<1>1. /\ c.mode \in Modes /\ c.warn_at \in Int /\ c.block_at \in Int
      /\ d.mode \in Modes /\ d.warn_at \in Int /\ d.block_at \in Int
  BY ConfsTyped
<1>2. c.mode = "enforce" => d.mode = "enforce"
  BY <1>1 DEF Modes, Strictness
<1>3. c.mode # "observe" => d.mode # "observe"
  BY <1>1 DEF Modes, Strictness
<1>4. QED
  BY <1>1, <1>2, <1>3 DEF Decide, Severity

(* A stricter mode or a lower threshold never softens a decision.          *)
THEOREM StricterIsNeverSofter == Spec => []StricterNeverSofter
<1>1. ASSUME NEW c \in Confs, NEW d \in Confs,
             Strictness[c.mode] <= Strictness[d.mode],
             c.warn_at >= d.warn_at, c.block_at >= d.block_at
      PROVE  Severity[Decision(c, Info)] <= Severity[Decision(d, Info)]
  <2>1. Score(Info) \in 0..100 /\ Score(Info) <= Score(Info)
    BY ScoreInRange
  <2>2. QED
    BY <1>1, <2>1, DecideMonotone DEF Decision
<1>2. StricterNeverSofter
  BY <1>1 DEF StricterNeverSofter
<1>3. QED
  BY <1>2, PTL

LEMMA ExplainedScoresHigher ==
    ASSUME NEW info
    PROVE  Contribution(Explained(info.kind, info.mb)) >= Contribution(info)
<1> DEFINE asked == Explained(info.kind, info.mb)
<1>1. asked.kind = info.kind /\ asked.mb = info.mb
  BY DEF Explained
<1>2. CASE info.kind = "alter_table"
  <2>1. asked.lock_class = 3
    BY <1>2 DEF Explained, HighLock
  <2>2. Contribution(asked) = 60
    BY <1>1, <1>2, <2>1 DEF Contribution, HighLock, MediumLock
  <2>3. Contribution(info) \in {60, 45, 35, 0}
    BY <1>2 DEF Contribution
  <2>4. QED
    BY <2>2, <2>3
<1>3. CASE info.kind = "reindex"
  <2>1. asked.concurrent = FALSE
    BY <1>3 DEF Explained
  <2>2. Contribution(asked) = 55
    BY <1>1, <1>3, <2>1 DEF Contribution
  <2>3. Contribution(info) \in {55, 20, 0}
    BY <1>3 DEF Contribution
  <2>4. QED
    BY <2>2, <2>3
<1>4. CASE info.kind \notin {"alter_table", "reindex"}
  <2>1. Contribution(asked) = Contribution(info)
    BY <1>1, <1>4 DEF Contribution
  <2>2. QED
    BY <2>1, ScoreInRange
<1>5. QED
  BY <1>2, <1>3, <1>4

(* What pg_circuit_explain_risk() promises is never less than what the     *)
(* statement gets.                                                         *)
THEOREM ExplainIsNeverShort == Spec => []ExplainNeverUnderstates
<1>1. ASSUME NEW c \in Confs
      PROVE  LET told == Explain(c, Info.kind, Info.mb)
             IN  /\ told.score >= Score(Info)
                 /\ Severity[told.decision] >= Severity[Decision(c, Info)]
  <2> DEFINE asked == Explained(Info.kind, Info.mb)
  <2>1. /\ Score(asked) \in 0..100 /\ Score(Info) \in 0..100
        /\ Score(asked) >= Score(Info)
    BY ScoreInRange, ExplainedScoresHigher
  <2>2. /\ c.warn_at >= c.warn_at /\ c.block_at >= c.block_at
        /\ Strictness[c.mode] <= Strictness[c.mode]
    BY ConfsTyped DEF Modes, Strictness
  <2>3. Severity[Decide(c, Score(Info))] <= Severity[Decide(c, Score(asked))]
    BY <1>1, <2>1, <2>2, DecideMonotone
  <2>4. Severity[Decide(c, Score(Info))] \in Int /\ Severity[Decide(c, Score(asked))] \in Int
    BY DEF Decide, Severity
  <2>5. QED
    BY <2>1, <2>3, <2>4 DEF Explain, Decision
<1>2. ExplainNeverUnderstates
  BY <1>1 DEF ExplainNeverUnderstates
<1>3. QED
  BY <1>2, PTL

(* The filter of hooks.c lets every statement through that the classifier  *)
(* has a rule for.                                                         *)
THEOREM FilterIsComplete == Spec => []FilterHidesNothing
<1>1. FilterHidesNothing
  <2>1. SUFFICES ASSUME ~MayBeRisky(statement)
                 PROVE  AnalyzeUtility(statement).kind = "other"
    BY DEF FilterHidesNothing
  <2>2. /\ statement.tag \notin {"TruncateStmt", "DropdbStmt", "AlterTableStmt", "IndexStmt",
                                 "ReindexStmt", "ClusterStmt"}
        /\ ~(statement.tag = "RenameStmt"
                /\ statement.renameType \in {"OBJECT_TABLE", "OBJECT_COLUMN"})
        /\ ~(statement.tag = "DropStmt" /\ statement.removeType = "OBJECT_TABLE")
        /\ ~(statement.tag = "VacuumStmt" /\ statement.is_vacuumcmd
                /\ OptionOn(statement.full))
    BY <2>1 DEF MayBeRisky, OptionOn
  <2>3. AnalyzeUtility(statement) = OtherInfo
    BY <2>2 DEF AnalyzeUtility
  <2>4. QED
    BY <2>3 DEF OtherInfo
<1>2. QED
  BY <1>1, PTL

(* A DELETE or UPDATE is flagged only when it reaches every row.           *)
THEOREM FlaggedReachesEveryRow == Spec => []FlaggedMeansEveryRow
<1>1. ASSUME statement \in Trees
      PROVE  FlaggedMeansEveryRow
  <2> DEFINE plan == Planner(statement)
  <2>1. SUFFICES ASSUME IsQuery(statement), Info.kind # "other"
                 PROVE  /\ statement.where \in {"none", "true"}
                        /\ ~statement.rls
                        /\ ~statement.explain_only
    BY DEF FlaggedMeansEveryRow
  <2>2. Checked(plan, statement.explain_only) /\ Info = AnalyzePlan(plan)
    BY <2>1 DEF Info, Analyze, OtherInfo
  <2>3. ~HasWhere(plan)
    BY <2>1, <2>2 DEF AnalyzePlan
  <2>4. plan.below = "SeqScan" /\ ~plan.qual
    BY <2>3 DEF HasWhere
  <2>5. statement.where \notin {"false", "filter"} /\ ~statement.rls
    BY <2>4 DEF Planner
  <2>6. QED
    BY <1>1, <2>1, <2>2, <2>5, TreesAssumption DEF Checked
<1>2. Init => statement \in Trees
  BY DEF Init
<1>3. statement \in Trees /\ [Next]_statement => (statement \in Trees)'
  BY DEF Next, Submit
<1>4. QED
  BY <1>1, <1>2, <1>3, PTL DEF Spec

(* What the classifier can make of any statement.                          *)
LEMMA Shapes ==
    \/ Info = OtherInfo
    \/ Info.lock_class = NoLock /\ ~Info.concurrent
          /\ Info.kind \in {"other", "delete_no_where", "update_no_where"}
    \/ Info.kind \in {"truncate", "drop_table", "drop_database", "vacuum_full", "cluster",
                      "alter_table"} /\ ~Info.concurrent
    \/ Info.kind = "create_index" /\ Info.lock_class = MediumLock /\ ~Info.concurrent
    \/ Info.kind = "create_index_concurrently" /\ Info.lock_class = LowLock
    \/ Info.kind = "reindex" /\ Info.lock_class = LowLock /\ Info.concurrent
    \/ Info.kind = "reindex" /\ ~Info.concurrent
<1>1. CASE Info = AnalyzePlan(Planner(statement))
  BY <1>1 DEF AnalyzePlan
<1>2. CASE Info = AnalyzeUtility(statement)
  BY <1>2 DEF AnalyzeUtility, DropInfo, Classified
<1>3. QED
  BY <1>1, <1>2 DEF Info, Analyze

(* The thresholds of config.c stop what destroys, and nothing else.        *)
THEOREM DefaultsStopWhatDestroys == Spec => []DefaultsStopDestruction
<1> DEFINE conf == [DefaultConf EXCEPT !.mode = "enforce"]
<1>1. /\ Decision(conf, Info) = "BLOCK" <=> Contribution(Info) >= 80
      /\ Decision(conf, Info) = "ALLOW" <=> Contribution(Info) < 50
  <2>1. conf.mode = "enforce" /\ conf.warn_at = 50 /\ conf.block_at = 80
    BY DEF DefaultConf
  <2> HIDE DEF conf
  <2>2. QED
    BY <2>1, ScoreInRange DEF Decision, Decide
<1>2. Contribution(Info) >= 80 <=> Info.kind \in Destructive
  BY DEF Contribution, Destructive
<1>3. Info.kind # "create_index" /\ Info.lock_class = HighLock => Contribution(Info) >= 50
  BY Shapes DEF Contribution, OtherInfo, HighLock, MediumLock, LowLock, NoLock
<1>4. Info.concurrent => Contribution(Info) < 50
  BY Shapes DEF Contribution, OtherInfo
<1>5. DefaultsStopDestruction
  BY <1>1, <1>2, <1>3, <1>4, ScoreInRange DEF DefaultsStopDestruction
<1>6. QED
  BY <1>5, PTL

-----------------------------------------------------------------------------
(* ALTER TABLE                                                             *)

(* One turn of the loop takes the greater of two lock classes.             *)
LEMMA WorsenIsGreater ==
    ASSUME NEW cmd, NEW worst \in LowLock..HighLock
    PROVE  /\ Worsen(cmd, LowLock) \in LowLock..HighLock
           /\ Worsen(cmd, worst) =
                 IF worst < Worsen(cmd, LowLock) THEN Worsen(cmd, LowLock) ELSE worst
BY DEF Worsen, LowLock, MediumLock, HighLock

(* The loop of classify_alter_table, turn by turn.                         *)
LEMMA AlterLockSteps ==
    ASSUME NEW cmds \in Seq(STRING)
    PROVE  /\ Len(cmds) \in Nat /\ DOMAIN cmds = 1..Len(cmds)
           /\ \E classes \in [0..Len(cmds) -> LowLock..HighLock] :
              /\ classes[0] = LowLock
              /\ \A k \in 0..(Len(cmds) - 1) : classes[k + 1] = Worsen(cmds[k + 1], classes[k])
              /\ AlterLock(cmds) = classes[Len(cmds)]
<1> DEFINE N == Len(cmds)
           D == LowLock..HighLock
           step == [p \in D \X (1..N) |-> Worsen(cmds[p[2]], p[1])]
           IsIter(iter) == iter = [s \in SUBSET (1..N) |->
                             IF s = {} THEN LowLock
                             ELSE Worsen(cmds[Max(s)], iter[s \ {Max(s)}])]
           final == CHOOSE iter : IsIter(iter)
           classes == [k \in 0..N |-> final[1..k]]
<1>0. N \in Nat /\ DOMAIN cmds = 1..N
  OBVIOUS
<1>1. LowLock \in D /\ \A cmd : \A worst \in D : Worsen(cmd, worst) \in D
  BY WorsenIsGreater DEF LowLock, HighLock
<1>5. AlterLock(cmds) = final[1..N]
  BY <1>0, Zenon DEF AlterLock, FoldLeft, MapThenFoldSet
<1> HIDE DEF N, D
<1>2. step \in [D \X (1..N) -> D]
  BY <1>1
<1>3. \E iter : IsIter(iter)
  <2>1. PICK iter \in [SUBSET (1..N) -> D] : IsFold(iter, N, LowLock, step)
    <3> HIDE DEF step
    <3>1. QED
      BY <1>0, <1>1, <1>2, FoldExists
  <2>2. ASSUME NEW s \in SUBSET (1..N), s # {}
        PROVE  step[<<iter[s \ {Max(s)}], Max(s)>>] = Worsen(cmds[Max(s)], iter[s \ {Max(s)}])
    <3>1. s \subseteq 0..N
      BY <1>0
    <3>2. Max(s) \in s
      BY <1>0, <2>2, <3>1, MaxOfSome
    <3>3. QED
      BY <3>2
  <2>3. IsIter(iter)
    <3> HIDE DEF step
    <3>1. QED
      BY <2>1, <2>2 DEF IsFold
  <2>4. QED
    BY <2>3
<1>4. IsIter(final)
  BY <1>3
<1> HIDE DEF final
<1>6. classes[0] = LowLock
  BY <1>0, <1>4, IndexSets
<1>7. ASSUME NEW k \in 0..(N - 1)
      PROVE  classes[k + 1] = Worsen(cmds[k + 1], classes[k])
  <2>1. /\ 1..(k + 1) \in SUBSET (1..N) /\ 1..(k + 1) # {}
        /\ Max(1..(k + 1)) = k + 1 /\ (1..(k + 1)) \ {k + 1} = 1..k
        /\ k \in 0..N /\ k + 1 \in 0..N
    BY <1>0, IndexSets
  <2>2. final[1..(k + 1)] = Worsen(cmds[k + 1], final[1..k])
    BY <1>4, <2>1
  <2>3. QED
    BY <2>1, <2>2
<1>8. AlterLock(cmds) = classes[N]
  <2>1. N \in 0..N
    BY <1>0
  <2>2. QED
    BY <1>5, <2>1
<1>9. classes \in [0..N -> D]
  <2> DEFINE S == {k \in 0..N : classes[k] \in D}
  <2> HIDE DEF classes
  <2>1. 0 \in S
    BY <1>0, <1>1, <1>6
  <2>2. ASSUME NEW k \in 0..(N - 1), k \in S
        PROVE  k + 1 \in S
    <3>1. k + 1 \in 0..N
      BY <1>0, IndexSets
    <3>2. QED
      BY <1>1, <1>7, <2>2, <3>1
  <2> HIDE DEF S
  <2>3. 0..N \subseteq S
    BY <1>0, <2>1, <2>2, CountingTo
  <2>4. \A k \in 0..N : classes[k] \in D
    BY <2>3 DEF S
  <2>5. classes = [k \in 0..N |-> classes[k]]
    BY DEF classes
  <2>6. QED
    BY <2>4, <2>5
<1> HIDE DEF classes
<1>10. QED
  BY <1>0, <1>6, <1>7, <1>8, <1>9 DEF N, D

(* A list of one subcommand.                                               *)
LEMMA AlterLockOfOne ==
    ASSUME NEW cmd \in STRING
    PROVE  AlterLock(<<cmd>>) = Worsen(cmd, LowLock)
<1>1. /\ <<cmd>> \in Seq(STRING) /\ Len(<<cmd>>) = 1 /\ <<cmd>>[1] = cmd
  BY SequenceOfOne
<1>2. ASSUME NEW n, n = 1
      PROVE  AlterLock(<<cmd>>) = Worsen(cmd, LowLock)
  <2>1. PICK classes \in [0..n -> LowLock..HighLock] :
           /\ classes[0] = LowLock
           /\ \A k \in 0..(n - 1) : classes[k + 1] = Worsen(<<cmd>>[k + 1], classes[k])
           /\ AlterLock(<<cmd>>) = classes[n]
    BY <1>1, <1>2, AlterLockSteps
  <2>2. 0 \in 0..(n - 1) /\ 0 + 1 = n /\ <<cmd>>[n] = cmd
    BY <1>1, <1>2
  <2>3. classes[n] = Worsen(cmd, classes[0])
    BY <2>1, <2>2
  <2>4. QED
    BY <2>1, <2>3
<1>3. QED
  BY <1>2

(* The class of a list is the greatest of its members', in any order.      *)
LEMMA AlterLockIsWorst ==
    ASSUME NEW cmds \in Seq(STRING), cmds # <<>>
    PROVE  AlterLock(cmds) = Max({AlterLock(<<cmd>>) : cmd \in ToSet(cmds)})
<1> DEFINE N == Len(cmds)
           Class(i) == Worsen(cmds[i], LowLock)
<1>1. N \in Nat /\ N # 0 /\ DOMAIN cmds = 1..N /\ \A i \in 1..N : cmds[i] \in STRING
  OBVIOUS
<1>2. PICK classes \in [0..N -> LowLock..HighLock] :
         /\ classes[0] = LowLock
         /\ \A k \in 0..(N - 1) : classes[k + 1] = Worsen(cmds[k + 1], classes[k])
         /\ AlterLock(cmds) = classes[N]
  BY AlterLockSteps
<1>3. \A i \in 1..N : Class(i) \in LowLock..HighLock
  BY WorsenIsGreater DEF LowLock, HighLock
<1> HIDE DEF N, Class
<1> DEFINE S == {k \in 0..N :
                   /\ \A i \in 1..k : Class(i) <= classes[k]
                   /\ classes[k] = LowLock \/ \E i \in 1..k : classes[k] = Class(i)}
<1>4. 0 \in S
  BY <1>1, <1>2
<1>5. ASSUME NEW k \in 0..(N - 1), k \in S
      PROVE  k + 1 \in S
  <2>1. /\ k \in 0..N /\ k + 1 \in 0..N /\ k + 1 \in 1..N
        /\ \A i \in 1..(k + 1) : i \in 1..k \/ i = k + 1
        /\ \A i \in 1..k : i \in 1..(k + 1) /\ i \in 1..N
        /\ k + 1 \in 1..(k + 1)
    BY <1>1
  <2>2. classes[k + 1] = IF classes[k] < Class(k + 1) THEN Class(k + 1) ELSE classes[k]
    BY <1>2, <2>1, WorsenIsGreater DEF Class
  <2>3. /\ classes[k] \in LowLock..HighLock /\ Class(k + 1) \in LowLock..HighLock
        /\ \A i \in 1..k : Class(i) \in LowLock..HighLock
    BY <1>2, <1>3, <2>1
  <2>4. \A i \in 1..(k + 1) : Class(i) <= classes[k + 1]
    BY <1>5, <2>1, <2>2, <2>3 DEF LowLock, HighLock
  <2>5. classes[k + 1] = LowLock \/ \E i \in 1..(k + 1) : classes[k + 1] = Class(i)
    BY <1>5, <2>1, <2>2
  <2>6. QED
    BY <2>1, <2>4, <2>5
<1>6. N \in S
  <2> HIDE DEF S
  <2>1. 0..N \subseteq S
    BY <1>1, <1>4, <1>5, CountingTo
  <2>2. QED
    BY <1>1, <2>1
<1>7. \E i \in 1..N : classes[N] = Class(i)
  <2>1. CASE classes[N] = LowLock
    <3>1. 1 \in 1..N
      BY <1>1
    <3>2. Class(1) \in LowLock..HighLock /\ Class(1) <= classes[N]
      BY <1>3, <1>6, <3>1
    <3>3. Class(1) = classes[N]
      BY <2>1, <3>2 DEF LowLock, HighLock
    <3>4. QED
      BY <3>1, <3>3
  <2>2. QED
    BY <1>6, <2>1
<1>8. {AlterLock(<<cmd>>) : cmd \in ToSet(cmds)} = {Class(i) : i \in 1..N}
  <2>1. ToSet(cmds) = {cmds[i] : i \in 1..N}
    BY <1>1 DEF ToSet
  <2>2. \A i \in 1..N : AlterLock(<<cmds[i]>>) = Class(i)
    BY <1>1, AlterLockOfOne DEF Class
  <2>3. QED
    BY <2>1, <2>2
<1> DEFINE T == {Class(i) : i \in 1..N}
<1>9. T \subseteq 0..3 /\ T # {} /\ classes[N] \in T /\ \A x \in T : x <= classes[N]
  BY <1>3, <1>6, <1>7 DEF LowLock, HighLock
<1> HIDE DEF T
<1>10. Max(T) \in T /\ \A x \in T : x <= Max(T)
  <2>1. 3 \in Nat
    OBVIOUS
  <2>2. QED
    BY <1>9, <2>1, MaxOfSome
<1>11. Max(T) = classes[N]
  <2>1. Max(T) \in 0..3 /\ classes[N] \in 0..3 /\ classes[N] <= Max(T) /\ Max(T) <= classes[N]
    BY <1>9, <1>10
  <2>2. QED
    BY <2>1
<1>12. QED
  BY <1>2, <1>8, <1>11 DEF T

(* An ALTER TABLE counts as its worst subcommand, wherever in the list     *)
(* that stands and however long the list is (utility_analysis.c:88-158).   *)
THEOREM AlterCountsAsItsWorst == Spec => []AlterCountsWorst
<1>1. ASSUME statement \in Trees
      PROVE  AlterCountsWorst
  <2> SUFFICES ASSUME statement.tag = "AlterTableStmt"
               PROVE  Info.lock_class =
                         Max({AlterLock(<<cmd>>) : cmd \in ToSet(statement.cmds)})
    BY DEF AlterCountsWorst
  <2>1. Info = Classified("alter_table", AlterLock(statement.cmds), statement.relation, FALSE)
    BY DEF Info, Analyze, AnalyzeUtility, IsQuery, MayBeRisky
  <2>2. Info.lock_class = AlterLock(statement.cmds)
    BY <2>1 DEF Classified
  <2>3. statement.cmds \in Seq(STRING) /\ statement.cmds # <<>>
    BY <1>1, TreesAssumption
  <2>4. QED
    BY <2>2, <2>3, AlterLockIsWorst
<1>2. Init => statement \in Trees
  BY DEF Init
<1>3. statement \in Trees /\ [Next]_statement => (statement \in Trees)'
  BY DEF Next, Submit
<1>4. QED
  BY <1>1, <1>2, <1>3, PTL DEF Spec

-----------------------------------------------------------------------------
(* check-sql                                                               *)

(* The words of the files, the rules, and what a comment may be.           *)
Vocabulary == {"SELECT", "1", "TRUNCATE", "DROP", "TABLE", "DATABASE", "DELETE", "FROM",
               "UPDATE", "SET", "WITH", "USING", "WHERE", "t", "d", "w", "a", "b", "semicolon"}
RuleNames == {"PGC001", "PGC002", "PGC003", "PGC004", "PGC005", "PGC012"}
Comments == {"none", "plain", "semicolon"}

(* The lines of a file, and the states of a scan of it.                    *)
LineRecords == [words: Seq(Vocabulary), comment: Comments]
ScanStates == [open: BOOLEAN, stmt: Seq(Vocabulary), found: Seq(RuleNames)]
Fresh == [open |-> FALSE, stmt |-> <<>>, found |-> <<>>]

(* Where scanSQLFile stands after some lines.                              *)
After(lines) == FoldLeft(ScanLine, Fresh, lines)

(* A flush finds at most one rule.                                         *)
LEMMA FindingsTyped ==
    ASSUME NEW s
    PROVE  Findings(s) \in Seq(RuleNames)
<1>1. \A rule \in RuleNames : <<rule>> \in Seq(RuleNames)
  OBVIOUS
<1>2. <<>> \in Seq(RuleNames)
  OBVIOUS
<1>3. \/ Findings(s) = <<>>
      \/ \E rule \in RuleNames : Findings(s) = <<rule>>
  BY DEF Findings, RuleNames
<1>4. QED
  BY <1>1, <1>2, <1>3

(* A turn of the loop leads from one state of the scan to another.         *)
LEMMA ScanLineTyped ==
    ASSUME NEW scan \in ScanStates, NEW line \in LineRecords
    PROVE  ScanLine(scan, line) \in ScanStates
<1>1. /\ scan.stmt \in Seq(Vocabulary) /\ scan.found \in Seq(RuleNames) /\ line.words \in Seq(Vocabulary)
      /\ scan.open \in BOOLEAN
  BY DEF ScanStates, LineRecords
<1>2. scan.stmt \o line.words \in Seq(Vocabulary)
  BY <1>1
<1>3. Findings(scan.stmt \o line.words) \in Seq(RuleNames)
  BY FindingsTyped
<1>4. scan.found \o Findings(scan.stmt \o line.words) \in Seq(RuleNames) /\ <<>> \in Seq(Vocabulary)
  BY <1>1, <1>3
<1>5. QED
  BY <1>1, <1>2, <1>4 DEF ScanLine, ScanStates

(* The loop of scanSQLFile, line by line.                                  *)
LEMMA ScanSteps ==
    ASSUME NEW lines \in Seq(LineRecords)
    PROVE  \E states \in [0..Len(lines) -> ScanStates] :
              /\ states[0] = Fresh
              /\ \A k \in 0..(Len(lines) - 1) : states[k + 1] = ScanLine(states[k], lines[k + 1])
              /\ After(lines) = states[Len(lines)]
<1> DEFINE N == Len(lines)
           D == ScanStates
           step == [p \in D \X (1..N) |-> ScanLine(p[1], lines[p[2]])]
           IsIter(iter) == iter = [s \in SUBSET (1..N) |->
                             IF s = {} THEN Fresh
                             ELSE ScanLine(iter[s \ {Max(s)}], lines[Max(s)])]
           final == CHOOSE iter : IsIter(iter)
           states == [k \in 0..N |-> final[1..k]]
<1>0. N \in Nat /\ DOMAIN lines = 1..N
  OBVIOUS
<1>1. Fresh \in D /\ \A d \in D : \A i \in 1..N : ScanLine(d, lines[i]) \in D
  <2>1. Fresh \in D
    BY DEF Fresh, ScanStates
  <2>2. \A i \in 1..N : lines[i] \in LineRecords
    OBVIOUS
  <2>3. QED
    BY <2>1, <2>2, ScanLineTyped
<1>5. After(lines) = final[1..N]
  BY <1>0, Zenon DEF After, FoldLeft, MapThenFoldSet
<1> HIDE DEF N, D
<1>2. step \in [D \X (1..N) -> D]
  BY <1>1
<1>3. \E iter : IsIter(iter)
  <2>1. PICK iter \in [SUBSET (1..N) -> D] : IsFold(iter, N, Fresh, step)
    <3> HIDE DEF step
    <3>1. QED
      BY <1>0, <1>1, <1>2, FoldExists
  <2>2. ASSUME NEW s \in SUBSET (1..N), s # {}
        PROVE  step[<<iter[s \ {Max(s)}], Max(s)>>] = ScanLine(iter[s \ {Max(s)}], lines[Max(s)])
    <3>1. s \subseteq 0..N
      BY <1>0
    <3>2. Max(s) \in s
      BY <1>0, <2>2, <3>1, MaxOfSome
    <3>3. QED
      BY <3>2
  <2>3. IsIter(iter)
    <3> HIDE DEF step
    <3>1. QED
      BY <2>1, <2>2 DEF IsFold
  <2>4. QED
    BY <2>3
<1>4. IsIter(final)
  BY <1>3
<1> HIDE DEF final
<1>6. states[0] = Fresh
  BY <1>0, <1>4, IndexSets
<1>7. ASSUME NEW k \in 0..(N - 1)
      PROVE  states[k + 1] = ScanLine(states[k], lines[k + 1])
  <2>1. /\ 1..(k + 1) \in SUBSET (1..N) /\ 1..(k + 1) # {}
        /\ Max(1..(k + 1)) = k + 1 /\ (1..(k + 1)) \ {k + 1} = 1..k
        /\ k \in 0..N /\ k + 1 \in 0..N
    BY <1>0, IndexSets
  <2>2. final[1..(k + 1)] = ScanLine(final[1..k], lines[k + 1])
    BY <1>4, <2>1
  <2>3. QED
    BY <2>1, <2>2
<1>8. After(lines) = states[N]
  <2>1. N \in 0..N
    BY <1>0
  <2>2. QED
    BY <1>5, <2>1
<1>9. states \in [0..N -> D]
  <2> DEFINE S == {k \in 0..N : states[k] \in D}
  <2> HIDE DEF states
  <2>1. 0 \in S
    BY <1>0, <1>1, <1>6
  <2>2. ASSUME NEW k \in 0..(N - 1), k \in S
        PROVE  k + 1 \in S
    <3>1. k + 1 \in 0..N /\ k + 1 \in 1..N
      BY <1>0, IndexSets
    <3>2. QED
      BY <1>1, <1>7, <2>2, <3>1
  <2> HIDE DEF S
  <2>3. 0..N \subseteq S
    BY <1>0, <2>1, <2>2, CountingTo
  <2>4. \A k \in 0..N : states[k] \in D
    BY <2>3 DEF S
  <2>5. states = [k \in 0..N |-> states[k]]
    BY DEF states
  <2>6. QED
    BY <2>4, <2>5
<1> HIDE DEF states
<1>10. QED
  BY <1>6, <1>7, <1>8, <1>9 DEF N, D

(* No lines, no turn.                                                      *)
LEMMA AfterNothing == After(<<>>) = Fresh
<1>1. <<>> \in Seq(LineRecords) /\ Len(<<>>) = 0
  OBVIOUS
<1>2. ASSUME NEW n, n = 0, Len(<<>>) = n
      PROVE  After(<<>>) = Fresh
  BY <1>1, <1>2, ScanSteps
<1>3. QED
  BY <1>1, <1>2

(* A further line is one more turn of the loop.                            *)
LEMMA AfterAppend ==
    ASSUME NEW lines \in Seq(LineRecords), NEW line \in LineRecords
    PROVE  /\ After(lines) \in ScanStates
           /\ After(Append(lines, line)) = ScanLine(After(lines), line)
<1> DEFINE N == Len(lines)
           more == Append(lines, line)
<1>1. /\ N \in Nat /\ more \in Seq(LineRecords) /\ Len(more) = N + 1
      /\ \A k \in 1..N : more[k] = lines[k]
      /\ more[N + 1] = line
  BY AppendProperties
<1>2. PICK s \in [0..N -> ScanStates] :
         /\ s[0] = Fresh
         /\ \A k \in 0..(N - 1) : s[k + 1] = ScanLine(s[k], lines[k + 1])
         /\ After(lines) = s[N]
  BY ScanSteps
<1> HIDE DEF more
<1>3. PICK t \in [0..(N + 1) -> ScanStates] :
         /\ t[0] = Fresh
         /\ \A k \in 0..N : t[k + 1] = ScanLine(t[k], more[k + 1])
         /\ After(more) = t[N + 1]
  <2>1. N + 1 - 1 = N
    BY <1>1
  <2>2. QED
    BY <1>1, <2>1, ScanSteps
<1> HIDE DEF N
<1> DEFINE S == {k \in 0..N : s[k] = t[k]}
<1>4. 0 \in S
  BY <1>1, <1>2, <1>3
<1>5. ASSUME NEW k \in 0..(N - 1), k \in S
      PROVE  k + 1 \in S
  <2>1. k \in 0..N /\ k + 1 \in 0..N /\ k + 1 \in 1..N
    BY <1>1
  <2>2. QED
    BY <1>1, <1>2, <1>3, <1>5, <2>1
<1> HIDE DEF S
<1>6. 0..N \subseteq S
  BY <1>1, <1>4, <1>5, CountingTo
<1>7. N \in 0..N /\ N \in S
  BY <1>1, <1>6
<1>8. s[N] = t[N]
  BY <1>7 DEF S
<1>9. After(lines) \in ScanStates
  BY <1>2, <1>7
<1>10. After(more) = ScanLine(After(lines), line)
  BY <1>1, <1>2, <1>3, <1>7, <1>8
<1>11. QED
  BY <1>9, <1>10 DEF more

-----------------------------------------------------------------------------
(* Breaking a statement into lines                                         *)

(* A word put on the last line.                                            *)
PutLast(lines, word) == [lines EXCEPT ![Len(lines)].words = Append(@, word)]

(* A turn of the fold of Broken: a word starts a line or goes on the last. *)
PutWord(words, cuts, comment, lines, k) ==
    IF k - 1 \in cuts
    THEN Append(lines, Line(<<words[k]>>, comment))
    ELSE PutLast(lines, words[k])

(* To put another element in the last place is to append it instead.       *)
LEMMA LastPut ==
    ASSUME NEW S, NEW f \in Seq(S), NEW b \in S, NEW g \in Seq(S),
           Len(g) = Len(f) + 1, \A i \in 1..Len(f) : g[i] = f[i]
    PROVE  [g EXCEPT ![Len(g)] = b] = Append(f, b)
<1> DEFINE n == Len(g)
<1>1. n \in 1..n /\ n \in Nat \ {0} /\ \A i \in 1..n : i # n => i \in 1..Len(f)
  OBVIOUS
<1>2. /\ Append(f, b) \in Seq(S) /\ Len(Append(f, b)) = Len(f) + 1
      /\ \A i \in 1..Len(f) : Append(f, b)[i] = f[i]
      /\ Append(f, b)[Len(f) + 1] = b
  BY AppendProperties
<1>3. /\ [g EXCEPT ![n] = b] \in Seq(S) /\ Len([g EXCEPT ![n] = b]) = n
      /\ \A i \in 1..n : [g EXCEPT ![n] = b][i] = IF i = n THEN b ELSE g[i]
  BY <1>1, ExceptSeq
<1> DEFINE h == [g EXCEPT ![n] = b]
<1> HIDE DEF h
<1>4. \A i \in 1..n : h[i] = Append(f, b)[i]
  BY <1>1, <1>2, <1>3 DEF h
<1>5. h = Append(f, b)
  BY <1>1, <1>2, <1>3, <1>4, SeqEqual DEF h
<1>6. QED
  BY <1>5 DEF h

(* A word put at the end of a line.                                        *)
PutOn(line, word) == [line EXCEPT !.words = Append(@, word)]

(* A word put at the end of a line's words.                                *)
LEMMA PutOnLine ==
    ASSUME NEW ws, NEW comment, NEW word
    PROVE  PutOn(Line(ws, comment), word) = Line(Append(ws, word), comment)
BY DEF Line, PutOn

(* The line stays one of the file's.                                       *)
LEMMA PutOnTyped ==
    ASSUME NEW line \in LineRecords, NEW word \in Vocabulary
    PROVE  PutOn(line, word) \in LineRecords
<1>1. line.words \in Seq(Vocabulary)
  BY DEF LineRecords
<1>2. Append(line.words, word) \in Seq(Vocabulary)
  BY <1>1, AppendProperties
<1>3. QED
  BY <1>2 DEF LineRecords, PutOn

(* A word put at the end of the last line.                                 *)
LEMMA LastReplaced ==
    ASSUME NEW f \in Seq(LineRecords), NEW last \in LineRecords, NEW word \in Vocabulary,
           NEW lines \in Seq(LineRecords), lines = Append(f, last)
    PROVE  PutLast(lines, word) = Append(f, PutOn(last, word))
<1> DEFINE new == PutOn(last, word)
<1>1. new \in LineRecords
  BY PutOnTyped
<1> HIDE DEF new
<1>2. /\ Len(lines) = Len(f) + 1 /\ lines[Len(lines)] = last
      /\ \A i \in 1..Len(f) : lines[i] = f[i]
  BY AppendProperties
<1>3. [lines EXCEPT ![Len(lines)] = new] = Append(f, new)
  BY <1>1, <1>2, LastPut
<1>4. PutLast(lines, word) = [lines EXCEPT ![Len(lines)] = new]
  BY <1>2 DEF new, PutLast, PutOn
<1>5. QED
  BY <1>3, <1>4 DEF new

(* What Put makes of some lines is some lines.                             *)
LEMMA PutTyped ==
    ASSUME NEW words \in Seq(Vocabulary), NEW cuts, NEW comment \in Comments,
           NEW lines \in Seq(LineRecords) \ {<<>>}, NEW k \in 1..Len(words)
    PROVE  PutWord(words, cuts, comment, lines, k) \in Seq(LineRecords) \ {<<>>}
<1>1. words[k] \in Vocabulary
  BY ElementOfSeq
<1>2. PICK f \in Seq(LineRecords), last \in LineRecords : lines = Append(f, last)
  BY SequenceEmptyOrAppend
<1>3. PutLast(lines, words[k]) = Append(f, PutOn(last, words[k]))
  BY <1>1, <1>2, LastReplaced
<1>4. PutOn(last, words[k]) \in LineRecords
  BY <1>1, PutOnTyped
<1>5. Line(<<words[k]>>, comment) \in LineRecords
  BY <1>1 DEF LineRecords, Line
<1>6. \A l \in LineRecords : /\ Append(f, l) \in Seq(LineRecords) \ {<<>>}
                            /\ Append(lines, l) \in Seq(LineRecords) \ {<<>>}
  BY AppendProperties
<1>7. QED
  BY <1>3, <1>4, <1>5, <1>6 DEF PutWord

(* Breaking a statement into lines, word by word.                          *)
LEMMA BrokenSteps ==
    ASSUME NEW words \in Seq(Vocabulary), NEW cuts, NEW comment \in Comments
    PROVE  \E parts \in [0..Len(words) -> Seq(LineRecords) \ {<<>>}] :
              /\ parts[0] = <<Line(<<>>, comment)>>
              /\ \A k \in 0..(Len(words) - 1) :
                    parts[k + 1] = PutWord(words, cuts, comment, parts[k], k + 1)
              /\ Broken(words, cuts, comment) = parts[Len(words)]
<1> DEFINE N == Len(words)
           D == Seq(LineRecords) \ {<<>>}
           base == <<Line(<<>>, comment)>>
           index == [k \in DOMAIN words |-> k]
           Put(lines, k) == PutWord(words, cuts, comment, lines, k)
           step == [p \in D \X (1..N) |-> Put(p[1], p[2])]
           IsIndexed(iter) == iter = [s \in SUBSET (DOMAIN index) |->
                                IF s = {} THEN base
                                ELSE Put(iter[s \ {Max(s)}], index[Max(s)])]
           final == CHOOSE iter : IsIndexed(iter)
           parts == [k \in 0..N |-> final[1..k]]
<1>0. N \in Nat /\ DOMAIN words = 1..N /\ DOMAIN index = 1..N /\ \A i \in 1..N : index[i] = i
  OBVIOUS
<1>1. base \in D /\ \A d \in D : \A i \in 1..N : Put(d, i) \in D
  <2>1. Line(<<>>, comment) \in LineRecords
    BY DEF Line, LineRecords
  <2>2. base \in D
    BY <2>1
  <2>3. QED
    BY <2>2, PutTyped
<1>5. Broken(words, cuts, comment) = final[1..N]
  <2>1. Broken(words, cuts, comment) = final[DOMAIN index]
    BY Zenon DEF Broken, PutWord, PutLast, FoldLeft, MapThenFoldSet
  <2> HIDE DEF final
  <2>2. QED
    BY <1>0, <2>1
<1> HIDE DEF N, D, base, index, Put
<1>2. step \in [D \X (1..N) -> D]
  BY <1>1
<1>3. \E iter : IsIndexed(iter)
  <2>1. PICK iter \in [SUBSET (1..N) -> D] : IsFold(iter, N, base, step)
    <3> HIDE DEF step
    <3>1. QED
      BY <1>0, <1>1, <1>2, FoldExists
  <2>2. ASSUME NEW s \in SUBSET (1..N), s # {}
        PROVE  step[<<iter[s \ {Max(s)}], Max(s)>>] = Put(iter[s \ {Max(s)}], index[Max(s)])
    <3>1. s \subseteq 0..N
      BY <1>0
    <3>2. Max(s) \in s
      BY <1>0, <2>2, <3>1, MaxOfSome
    <3>3. QED
      BY <1>0, <3>2
  <2>3. IsIndexed(iter)
    <3> HIDE DEF step
    <3>1. QED
      BY <1>0, <2>1, <2>2 DEF IsFold
  <2>4. QED
    BY <2>3
<1>4. IsIndexed(final)
  BY <1>3
<1> HIDE DEF final
<1>6. parts[0] = base
  BY <1>0, <1>4, IndexSets
<1>7. ASSUME NEW k \in 0..(N - 1)
      PROVE  parts[k + 1] = Put(parts[k], k + 1)
  <2>1. /\ 1..(k + 1) \in SUBSET (1..N) /\ 1..(k + 1) # {}
        /\ Max(1..(k + 1)) = k + 1 /\ (1..(k + 1)) \ {k + 1} = 1..k
        /\ k \in 0..N /\ k + 1 \in 0..N /\ k + 1 \in 1..N
    BY <1>0, IndexSets
  <2>2. final[1..(k + 1)] = Put(final[1..k], k + 1)
    BY <1>0, <1>4, <2>1
  <2>3. QED
    BY <2>1, <2>2
<1>8. Broken(words, cuts, comment) = parts[N]
  <2>1. N \in 0..N
    BY <1>0
  <2>2. QED
    BY <1>5, <2>1
<1>9. parts \in [0..N -> D]
  <2> DEFINE S == {k \in 0..N : parts[k] \in D}
  <2> HIDE DEF parts
  <2>1. 0 \in S
    BY <1>0, <1>1, <1>6
  <2>2. ASSUME NEW k \in 0..(N - 1), k \in S
        PROVE  k + 1 \in S
    <3>1. k + 1 \in 0..N /\ k + 1 \in 1..N
      BY <1>0, IndexSets
    <3>2. QED
      BY <1>1, <1>7, <2>2, <3>1
  <2> HIDE DEF S
  <2>3. 0..N \subseteq S
    BY <1>0, <2>1, <2>2, CountingTo
  <2>4. \A k \in 0..N : parts[k] \in D
    BY <2>3 DEF S
  <2>5. parts = [k \in 0..N |-> parts[k]]
    BY DEF parts
  <2>6. QED
    BY <2>4, <2>5
<1> HIDE DEF parts
<1>10. QED
  BY <1>6, <1>7, <1>8, <1>9 DEF N, D, base, Put

(* A line without a semicolon adds its words to the statement.             *)
LEMMA LineGoesOn ==
    ASSUME NEW scan \in ScanStates, NEW line \in LineRecords, line.words # <<>>,
           line.comment # "semicolon", \A i \in 1..Len(line.words) : line.words[i] # "semicolon"
    PROVE  ScanLine(scan, line) =
              [open |-> TRUE, stmt |-> scan.stmt \o line.words, found |-> scan.found]
<1>1. DOMAIN line.words = 1..Len(line.words)
  <2>1. line.words \in Seq(Vocabulary)
    BY DEF LineRecords
  <2>2. QED
    BY <2>1, LenProperties
<1>2. ~EndsStatement(line)
  BY <1>1 DEF EndsStatement
<1>3. ScanLine(scan, line) = [scan EXCEPT !.open = TRUE, !.stmt = scan.stmt \o line.words]
  BY <1>2 DEF ScanLine
<1>4. QED
  BY <1>3 DEF ScanStates

(* The line that ends with the semicolon ends the statement.               *)
LEMMA LineEnds ==
    ASSUME NEW scan \in ScanStates, NEW line \in LineRecords,
           NEW i \in 1..Len(line.words), line.words[i] = "semicolon"
    PROVE  ScanLine(scan, line) =
              [open |-> FALSE, stmt |-> <<>>,
               found |-> scan.found \o Findings(scan.stmt \o line.words)]
<1>1. i \in DOMAIN line.words /\ line.words # <<>>
  <2>1. line.words \in Seq(Vocabulary)
    BY DEF LineRecords
  <2>2. DOMAIN line.words = 1..Len(line.words)
    BY <2>1, LenProperties
  <2>3. i \in DOMAIN line.words
    BY <2>2
  <2>4. ASSUME line.words = <<>>
        PROVE  FALSE
    <3>1. Len(line.words) = 0 /\ i \in 1..Len(line.words)
      BY <2>4
    <3>2. QED
      BY <3>1
  <2>5. QED
    BY <2>3, <2>4
<1>2. EndsStatement(line)
  BY <1>1 DEF EndsStatement
<1>3. QED
  BY <1>1, <1>2 DEF ScanLine

(* The words of a statement between two cuts.                              *)
LEMMA Pieces ==
    ASSUME NEW words \in Seq(Vocabulary), NEW k \in 0..Len(words), NEW j \in 0..k
    PROVE  /\ SubSeq(words, j + 1, k) \in Seq(Vocabulary)
           /\ Len(SubSeq(words, j + 1, k)) = k - j
           /\ \A i \in 1..(k - j) : SubSeq(words, j + 1, k)[i] = words[j + i]
           /\ SubSeq(words, 1, j) \o SubSeq(words, j + 1, k) = SubSeq(words, 1, k)
           /\ k < Len(words) =>
                 /\ Append(SubSeq(words, j + 1, k), words[k + 1]) = SubSeq(words, j + 1, k + 1)
                 /\ SubSeq(words, k + 1, k + 1) = <<words[k + 1]>>
<1>1. \A i \in (j + 1)..k : words[i] \in Vocabulary
  BY ElementOfSeq
<1>2. /\ SubSeq(words, j + 1, k) \in Seq(Vocabulary)
      /\ Len(SubSeq(words, j + 1, k)) = k - j
      /\ \A i \in 1..(k - j) : SubSeq(words, j + 1, k)[i] = words[j + i]
  <2>1. /\ SubSeq(words, j + 1, k) \in Seq(Vocabulary)
        /\ Len(SubSeq(words, j + 1, k)) = IF j + 1 <= k THEN k - (j + 1) + 1 ELSE 0
        /\ \A i \in 1..(k - (j + 1) + 1) : SubSeq(words, j + 1, k)[i] = words[j + 1 + i - 1]
    BY <1>1, SubSeqProperties
  <2>2. QED
    BY <2>1
<1>3. SubSeq(words, 1, j) \o SubSeq(words, j + 1, k) = SubSeq(words, 1, k)
  <2>1. 1 \in 1..(Len(words) + 1) /\ j \in (1 - 1)..Len(words) /\ k \in j..Len(words)
    OBVIOUS
  <2>2. QED
    BY <2>1, ConcatAdjacentSubSeq
<1>4. ASSUME k < Len(words)
      PROVE  /\ Append(SubSeq(words, j + 1, k), words[k + 1]) = SubSeq(words, j + 1, k + 1)
             /\ SubSeq(words, k + 1, k + 1) = <<words[k + 1]>>
  <2>1. k + 1 \in 1..Len(words) /\ words[k + 1] \in Vocabulary
    BY <1>4, ElementOfSeq
  <2>2. SubSeq(words, j + 1, k + 1) = SubSeq(words, j + 1, k) \o <<words[k + 1]>>
    <3>1. j + 1 \in 1..Len(words) /\ k + 1 \in (j + 1)..Len(words) /\ k + 1 - 1 = k
      BY <1>4
    <3>2. QED
      BY <3>1, SubSeqRecursiveSecond
  <2>3. Append(SubSeq(words, j + 1, k), words[k + 1]) = SubSeq(words, j + 1, k) \o <<words[k + 1]>>
    BY <1>2, <2>1, AppendIsConcat
  <2>4. SubSeq(words, k + 1, k + 1) = <<words[k + 1]>>
    <3>1. k + 1 \in (k + 1)..Len(words) /\ SubSeq(words, k + 1, k + 1 - 1) = <<>>
      BY <2>1, SubSeqEmpty
    <3>2. SubSeq(words, k + 1, k + 1) = SubSeq(words, k + 1, k + 1 - 1) \o <<words[k + 1]>>
      BY <2>1, <3>1, SubSeqRecursiveSecond
    <3>3. <<>> \o <<words[k + 1]>> = <<words[k + 1]>>
      BY <2>1, ConcatEmptySeq
    <3>4. QED
      BY <3>1, <3>2, <3>3
  <2>5. QED
    BY <2>2, <2>3, <2>4
<1>5. QED
  BY <1>2, <1>3, <1>4

(* What is appended to the second of two sequences ends both.              *)
LEMMA AppendIsInTheEnd ==
    ASSUME NEW S, NEW s \in Seq(S), NEW t \in Seq(S), NEW e \in S
    PROVE  s \o Append(t, e) = Append(s \o t, e)
<1>1. s \o t \in Seq(S) /\ <<e>> \in Seq(S)
  BY ConcatProperties
<1>2. Append(t, e) = t \o <<e>> /\ Append(s \o t, e) = (s \o t) \o <<e>>
  BY <1>1, AppendIsConcat
<1>3. (s \o t) \o <<e>> = s \o (t \o <<e>>)
  BY <1>1, ConcatAssociative
<1>4. QED
  BY <1>2, <1>3

(* Nothing is found where no statement is.                                 *)
LEMMA FindingsOfNothing == Findings(<<>>) = <<>>
<1>1. Len(<<>>) = 0
  OBVIOUS
<1>2. QED
  BY <1>1 DEF Findings, Starts, DeleteNoWhere, UpdateNoWhere

(* A statement that ends with its only semicolon is matched whole and      *)
(* alone, however it is broken into lines, and whatever stands above it,   *)
(* as long as that leaves nothing behind.                                  *)
LEMMA ScanIsFindings ==
    ASSUME NEW words \in Seq(Vocabulary), Len(words) > 0, words[Len(words)] = "semicolon",
           \A i \in 1..(Len(words) - 1) : words[i] # "semicolon",
           NEW cuts \in SUBSET (1..Len(words) - 1), NEW comment \in {"none", "plain"},
           NEW above \in Seq(LineRecords), After(above) = Fresh
    PROVE  Scan(above \o Broken(words, cuts, comment)) = Findings(words)
<1> DEFINE N == Len(words)
           Cut(j, k) == Line(SubSeq(words, j + 1, k), comment)
           Read(j) == IF j = 0 THEN Fresh
                      ELSE [open |-> TRUE, stmt |-> SubSeq(words, 1, j), found |-> <<>>]
           Split(lines, k) ==
              \E j \in 0..k, f \in Seq(LineRecords) :
                 /\ k > 0 => j < k
                 /\ lines = Append(f, Cut(j, k))
                 /\ After(above \o f) = Read(j)
<1>0. comment \in Comments /\ comment # "semicolon"
  BY DEF Comments
<1>1. PICK parts \in [0..N -> Seq(LineRecords) \ {<<>>}] :
         /\ parts[0] = <<Line(<<>>, comment)>>
         /\ \A k \in 0..(N - 1) :
               parts[k + 1] = PutWord(words, cuts, comment, parts[k], k + 1)
         /\ Broken(words, cuts, comment) = parts[N]
  BY <1>0, BrokenSteps
<1>2. \A k \in 0..N : \A j \in 0..k :
         /\ Cut(j, k) \in LineRecords
         /\ Cut(j, k).words = SubSeq(words, j + 1, k)
         /\ Cut(j, k).comment # "semicolon"
  BY <1>0, Pieces DEF Line, LineRecords
<1>3. N \in Nat /\ N > 0 /\ N \in 0..N /\ 0 \in 0..N
  OBVIOUS
<1>4. \A j \in 0..N : Read(j).stmt = SubSeq(words, 1, j) /\ Read(j).found = <<>>
  <2>1. SubSeq(words, 1, 0) = <<>>
    BY SubSeqEmpty
  <2>2. QED
    BY <2>1 DEF Fresh
<1> DEFINE S == {k \in 0..N : Split(parts[k], k)}
<1>5. 0 \in S
  <2>1. SubSeq(words, 1, 0) = <<>> /\ 0 + 1 = 1
    BY SubSeqEmpty
  <2>2. above \o <<>> = above /\ <<>> \in Seq(LineRecords)
    BY ConcatEmptySeq
  <2>3. After(above \o <<>>) = Read(0)
    BY <2>2
  <2>4. parts[0] = Append(<<>>, Cut(0, 0))
    <3>1. Append(<<>>, Cut(0, 0)) = <<>> \o <<Cut(0, 0)>>
      BY <1>2, <1>3, <2>2, AppendIsConcat
    <3>2. <<>> \o <<Cut(0, 0)>> = <<Cut(0, 0)>>
      BY <1>2, <1>3, ConcatEmptySeq
    <3>3. Cut(0, 0) = Line(<<>>, comment)
      BY <2>1
    <3> HIDE DEF Cut
    <3>4. QED
      BY <1>1, <3>1, <3>2, <3>3
  <2> HIDE DEF Cut, Read
  <2>5. 0 \in 0..0 /\ ~(0 > 0)
    OBVIOUS
  <2>6. Split(parts[0], 0)
    BY <2>2, <2>3, <2>4, <2>5
  <2>7. QED
    BY <1>3, <2>6
<1>6. ASSUME NEW k \in 0..(N - 1), k \in S
      PROVE  k + 1 \in S
  <2>1. /\ k \in 0..N /\ k + 1 \in 0..N /\ k \in Nat /\ k < N /\ k + 1 > 0
        /\ words[k + 1] \in Vocabulary
    BY ElementOfSeq
  <2>2. PICK j \in 0..k, f \in Seq(LineRecords) :
           /\ k > 0 => j < k
           /\ parts[k] = Append(f, Cut(j, k))
           /\ After(above \o f) = Read(j)
    BY <1>6
  <2>3. parts[k + 1] = PutWord(words, cuts, comment, parts[k], k + 1)
    BY <1>1
  <2>4. k + 1 - 1 = k /\ parts[k] \in Seq(LineRecords)
    <3>1. k + 1 - 1 = k
      BY <2>1
    <3>2. parts[k] \in Seq(LineRecords)
      BY <1>1, <2>1
    <3>3. QED
      BY <3>1, <3>2
  <2>5. Cut(j, k) \in LineRecords /\ j \in 0..N
    BY <1>2, <2>1
  <2>6. CASE k \in cuts
    <3>1. k > 0 /\ j < k
      BY <2>1, <2>2, <2>6
    <3>2. parts[k + 1] = Append(parts[k], Cut(k, k + 1))
      <4>1. SubSeq(words, k + 1, k + 1) = <<words[k + 1]>>
        BY <2>1, <2>2, Pieces
      <4>2. PutWord(words, cuts, comment, parts[k], k + 1)
               = Append(parts[k], Line(<<words[k + 1]>>, comment))
        BY <2>4, <2>6 DEF PutWord
      <4>3. Cut(k, k + 1) = Line(<<words[k + 1]>>, comment)
        BY <4>1
      <4>4. QED
        BY <2>3, <4>2, <4>3
    <3>3. After(above \o parts[k]) = ScanLine(After(above \o f), Cut(j, k))
      <4>1. above \o f \in Seq(LineRecords)
        BY ConcatProperties
      <4> HIDE DEF Cut
      <4>2. above \o Append(f, Cut(j, k)) = Append(above \o f, Cut(j, k))
        BY <2>5, AppendIsInTheEnd
      <4>3. QED
        BY <2>2, <2>5, <4>1, <4>2, AfterAppend
    <3>4. After(above \o f) \in ScanStates
      <4>1. above \o f \in Seq(LineRecords)
        BY ConcatProperties
      <4>2. QED
        BY <2>5, <4>1, AfterAppend
    <3>5. ScanLine(Read(j), Cut(j, k)) = Read(k)
      <4>1. /\ Cut(j, k).words = SubSeq(words, j + 1, k)
            /\ Cut(j, k).comment # "semicolon"
        BY <1>2, <2>1, <2>2
      <4>2. /\ SubSeq(words, j + 1, k) \in Seq(Vocabulary)
            /\ Len(SubSeq(words, j + 1, k)) = k - j
            /\ \A i \in 1..(k - j) : SubSeq(words, j + 1, k)[i] = words[j + i]
            /\ SubSeq(words, 1, j) \o SubSeq(words, j + 1, k) = SubSeq(words, 1, k)
        BY <2>1, Pieces
      <4>3. \A i \in 1..(k - j) : j + i \in 1..(N - 1)
        BY <2>1, <3>1
      <4>4. SubSeq(words, j + 1, k) # <<>>
        <5>1. Len(<<>>) = 0 /\ k - j # 0
          BY <2>1, <3>1
        <5>2. QED
          BY <4>2, <5>1
      <4>5. Read(j) \in ScanStates
        BY <2>2, <3>4
      <4> HIDE DEF Cut, Read
      <4>6. \A i \in 1..Len(Cut(j, k).words) : Cut(j, k).words[i] # "semicolon"
        BY <4>1, <4>2, <4>3
      <4>7. ScanLine(Read(j), Cut(j, k)) =
               [open |-> TRUE, stmt |-> Read(j).stmt \o Cut(j, k).words, found |-> Read(j).found]
        BY <2>5, <4>1, <4>4, <4>5, <4>6, LineGoesOn
      <4>8. [open |-> TRUE, stmt |-> SubSeq(words, 1, k), found |-> <<>>] = Read(k)
        BY <3>1 DEF Read
      <4>9. QED
        BY <1>4, <2>5, <4>1, <4>2, <4>7, <4>8
    <3>6. k \in 0..(k + 1) /\ k < k + 1
      BY <2>1
    <3> HIDE DEF Cut, Read
    <3>7. After(above \o parts[k]) = Read(k)
      BY <2>2, <3>3, <3>5
    <3>8. Split(parts[k + 1], k + 1)
      BY <2>4, <3>2, <3>6, <3>7
    <3>9. QED
      BY <2>1, <3>8
  <2>7. CASE k \notin cuts
    <3>1. PutWord(words, cuts, comment, parts[k], k + 1) = PutLast(parts[k], words[k + 1])
      BY <2>4, <2>7 DEF PutWord
    <3>2. PutLast(parts[k], words[k + 1]) = Append(f, PutOn(Cut(j, k), words[k + 1]))
      <4> HIDE DEF Cut
      <4>1. QED
        BY <2>1, <2>2, <2>4, <2>5, LastReplaced
    <3>3. PutOn(Cut(j, k), words[k + 1]) = Cut(j, k + 1)
      <4>1. Append(SubSeq(words, j + 1, k), words[k + 1]) = SubSeq(words, j + 1, k + 1)
        BY <2>1, Pieces
      <4>2. PutOn(Line(SubSeq(words, j + 1, k), comment), words[k + 1])
               = Line(Append(SubSeq(words, j + 1, k), words[k + 1]), comment)
        BY PutOnLine, Zenon
      <4>3. QED
        BY <4>1, <4>2, Zenon
    <3>4. j \in 0..(k + 1) /\ j < k + 1
      BY <2>1
    <3> HIDE DEF Cut, Read
    <3>5. Split(parts[k + 1], k + 1)
      BY <2>2, <2>3, <3>1, <3>2, <3>3, <3>4
    <3>6. QED
      BY <2>1, <3>5
  <2>8. QED
    BY <2>6, <2>7
<1> HIDE DEF S
<1>7. 0..N \subseteq S
  BY <1>3, <1>5, <1>6, CountingTo
<1>8. Split(parts[N], N)
  BY <1>3, <1>7 DEF S
<1>9. PICK j \in 0..N, f \in Seq(LineRecords) :
           /\ j < N
           /\ parts[N] = Append(f, Cut(j, N))
           /\ After(above \o f) = Read(j)
  <2> HIDE DEF Cut, Read, N
  <2>1. QED
    BY <1>3, <1>8
<1>10. After(above \o parts[N]) = [open |-> FALSE, stmt |-> <<>>, found |-> Findings(words)]
  <2>1. above \o f \in Seq(LineRecords)
    BY ConcatProperties
  <2>2. After(above \o f) \in ScanStates /\ Cut(j, N) \in LineRecords
    BY <1>2, <1>3, <2>1, AfterAppend
  <2>3. After(above \o parts[N]) = ScanLine(After(above \o f), Cut(j, N))
    <3> HIDE DEF Cut
    <3>1. above \o Append(f, Cut(j, N)) = Append(above \o f, Cut(j, N))
      BY <2>2, AppendIsInTheEnd
    <3>2. QED
      BY <1>9, <2>1, <2>2, <3>1, AfterAppend
  <2>4. /\ Len(SubSeq(words, j + 1, N)) = N - j
        /\ \A i \in 1..(N - j) : SubSeq(words, j + 1, N)[i] = words[j + i]
        /\ SubSeq(words, 1, j) \o SubSeq(words, j + 1, N) = words
    <3>1. /\ Len(SubSeq(words, j + 1, N)) = N - j
          /\ \A i \in 1..(N - j) : SubSeq(words, j + 1, N)[i] = words[j + i]
          /\ SubSeq(words, 1, j) \o SubSeq(words, j + 1, N) = SubSeq(words, 1, N)
      <4>1. N \in 0..Len(words) /\ j \in 0..N
        BY <1>3, <1>9
      <4> HIDE DEF N, Cut, Read
      <4>2. QED
        BY <4>1, Pieces
    <3>2. SubSeq(words, 1, N) = words
      BY SubSeqFull
    <3>3. QED
      BY <3>1, <3>2
  <2>5. N - j \in 1..(N - j) /\ j + (N - j) = N
    BY <1>3, <1>9
  <2>6. /\ Cut(j, N).words = SubSeq(words, j + 1, N)
        /\ N - j \in 1..Len(Cut(j, N).words) /\ Cut(j, N).words[N - j] = "semicolon"
    BY <1>2, <1>3, <2>4, <2>5
  <2> HIDE DEF Cut, Read
  <2>7. ScanLine(Read(j), Cut(j, N)) =
           [open |-> FALSE, stmt |-> <<>>,
            found |-> Read(j).found \o Findings(Read(j).stmt \o Cut(j, N).words)]
    BY <1>9, <2>2, <2>6, LineEnds
  <2>8. <<>> \o Findings(words) = Findings(words)
    BY FindingsTyped, ConcatEmptySeq
  <2>9. QED
    BY <1>4, <1>9, <2>3, <2>4, <2>6, <2>7, <2>8
<1>11. Findings(<<>>) = <<>>
  BY FindingsOfNothing
<1>12. Findings(words) \o <<>> = Findings(words)
  BY FindingsTyped, ConcatEmptySeq
<1>13. \A lines : Scan(lines) = After(lines).found \o Findings(After(lines).stmt)
  BY DEF Scan, After, Fresh
<1>14. /\ After(above \o parts[N]).found = Findings(words)
       /\ After(above \o parts[N]).stmt = <<>>
  BY <1>10
<1>15. QED
  BY <1>1, <1>11, <1>12, <1>13, <1>14

(* A statement starts with a word exactly if that is its first.            *)
LEMMA StartsOne ==
    ASSUME NEW s \in Seq(Vocabulary)
    PROVE  \A a : Starts(<<a>>, s) <=> Len(s) >= 1 /\ s[1] = a
<1> TAKE a
<1>1. Len(<<a>>) = 1 /\ <<a>>[1] = a
  OBVIOUS
<1>2. ASSUME Len(s) >= 1
      PROVE  SubSeq(s, 1, 1) = <<s[1]>>
  <2>1. 1 \in 1..Len(s) /\ s[1] \in Vocabulary
    BY <1>2, ElementOfSeq
  <2>2. /\ SubSeq(s, 1, 1) \in Seq(Vocabulary) /\ Len(SubSeq(s, 1, 1)) = 1
        /\ SubSeq(s, 1, 1)[1] = s[1]
    BY <1>2, <2>1
  <2>3. <<s[1]>> \in Seq(Vocabulary) /\ Len(<<s[1]>>) = 1 /\ <<s[1]>>[1] = s[1]
    BY <2>1
  <2>4. \A i \in 1..1 : SubSeq(s, 1, 1)[i] = <<s[1]>>[i]
    BY <2>2, <2>3
  <2>5. QED
    BY <2>2, <2>3, <2>4, SeqEqual
<1>3. \A x : <<x>> = <<a>> <=> x = a
  OBVIOUS
<1>4. QED
  BY <1>1, <1>2, <1>3 DEF Starts

(* The same of two words.                                                  *)
LEMMA StartsTwo ==
    ASSUME NEW s \in Seq(Vocabulary)
    PROVE  \A a, b : Starts(<<a, b>>, s) <=> Len(s) >= 2 /\ s[1] = a /\ s[2] = b
<1> TAKE a, b
<1>1. Len(<<a, b>>) = 2
  OBVIOUS
<1>2. ASSUME Len(s) >= 2
      PROVE  SubSeq(s, 1, 2) = <<s[1], s[2]>>
  <2>1. 1 \in 1..Len(s) /\ 2 \in 1..Len(s) /\ s[1] \in Vocabulary /\ s[2] \in Vocabulary
    BY <1>2, ElementOfSeq
  <2>2. /\ SubSeq(s, 1, 2) \in Seq(Vocabulary) /\ Len(SubSeq(s, 1, 2)) = 2
        /\ SubSeq(s, 1, 2)[1] = s[1] /\ SubSeq(s, 1, 2)[2] = s[2]
    BY <1>2, <2>1
  <2>3. /\ <<s[1], s[2]>> \in Seq(Vocabulary) /\ Len(<<s[1], s[2]>>) = 2
        /\ <<s[1], s[2]>>[1] = s[1] /\ <<s[1], s[2]>>[2] = s[2]
    BY <2>1
  <2>4. \A i \in 1..2 : SubSeq(s, 1, 2)[i] = <<s[1], s[2]>>[i]
    BY <2>2, <2>3
  <2>5. QED
    BY <2>2, <2>3, <2>4, SeqEqual
<1>3. \A x, y : <<x, y>> = <<a, b>> <=> x = a /\ y = b
  OBVIOUS
<1>4. QED
  BY <1>1, <1>2, <1>3 DEF Starts

(* What is left from the last word on, the semicolon.                      *)
LEMMA EndOfOne ==
    ASSUME NEW s \in Seq(Vocabulary), NEW n \in 1..Len(s), Len(s) = n, s[n] = "semicolon"
    PROVE  SubSeq(s, n, Len(s)) = <<"semicolon">>
<1>1. \A i \in n..n : s[i] \in Vocabulary
  BY ElementOfSeq
<1>2. /\ SubSeq(s, n, n) \in Seq(Vocabulary) /\ Len(SubSeq(s, n, n)) = 1
      /\ SubSeq(s, n, n)[1] = s[n]
  BY <1>1, SubSeqProperties
<1>3. /\ <<"semicolon">> \in Seq(Vocabulary) /\ Len(<<"semicolon">>) = 1
      /\ <<"semicolon">>[1] = "semicolon"
  BY DEF Vocabulary
<1>4. \A i \in 1..1 : SubSeq(s, n, n)[i] = <<"semicolon">>[i]
  BY <1>2, <1>3
<1>5. QED
  BY <1>2, <1>3, <1>4, SeqEqual

(* What flush finds in a statement of a shape it knows.                    *)
LEMMA FindingsByShape ==
    ASSUME NEW s \in Seq(Vocabulary), Len(s) >= 3
    PROVE  /\ s[1] = "TRUNCATE" => Findings(s) = <<"PGC003">>
           /\ s[1] = "DROP" /\ s[2] = "TABLE" => Findings(s) = <<"PGC004">>
           /\ s[1] = "DROP" /\ s[2] = "DATABASE" => Findings(s) = <<"PGC005">>
           /\ s[1] \in {"SELECT", "WITH"} => Findings(s) = <<>>
           /\ s[1] \in {"DELETE", "UPDATE", "WITH"} /\ HasWhereWord(s) => Findings(s) = <<>>
<1>0. Len(s) >= 1 /\ Len(s) >= 2
  OBVIOUS
<1>1. \A a : Starts(<<a>>, s) <=> s[1] = a
  BY <1>0, StartsOne, Zenon
<1>2. \A a, b : Starts(<<a, b>>, s) <=> s[1] = a /\ s[2] = b
  BY <1>0, StartsTwo, Zenon
<1>3. DeleteNoWhere(s) => s[1] = "DELETE"
  BY <1>2 DEF DeleteNoWhere
<1>4. UpdateNoWhere(s) => s[1] = "UPDATE"
  BY <1>1 DEF UpdateNoWhere
<1>5. QED
  BY <1>1, <1>2, <1>3, <1>4 DEF Findings

(* The DELETE that reaches every row.                                      *)
LEMMA FindingsOfDelete ==
    ASSUME NEW s \in Seq(Vocabulary), Len(s) = 4, s[1] = "DELETE", s[2] = "FROM", s[3] = "t",
           s[4] = "semicolon"
    PROVE  Findings(s) = <<"PGC001">>
<1>0. Len(s) >= 1 /\ Len(s) >= 2
  OBVIOUS
<1>1. \A a : Starts(<<a>>, s) <=> s[1] = a
  BY <1>0, StartsOne, Zenon
<1>2. \A a, b : Starts(<<a, b>>, s) <=> s[1] = a /\ s[2] = b
  BY <1>0, StartsTwo, Zenon
<1>3. SubSeq(s, 4, Len(s)) = <<"semicolon">>
  BY EndOfOne
<1>4. ~Starts(<<"AS">>, <<"semicolon">>)
  <2>1. <<"semicolon">> \in Seq(Vocabulary) /\ <<"semicolon">>[1] = "semicolon"
    BY DEF Vocabulary
  <2>2. Starts(<<"AS">>, <<"semicolon">>) => <<"semicolon">>[1] = "AS"
    BY <2>1, StartsOne, Zenon
  <2>3. QED
    BY <2>1, <2>2
<1>5. DeleteNoWhere(s)
  BY <1>2, <1>3, <1>4 DEF DeleteNoWhere, Unaliased
<1>6. ~HasWhereWord(s)
  <2>1. \A i \in DOMAIN s : i \in 1..4
    BY LenProperties
  <2>2. \A i \in 1..4 : i = 1 \/ i = 2 \/ i = 3 \/ i = 4
    OBVIOUS
  <2>3. QED
    BY <2>1, <2>2 DEF HasWhereWord
<1>7. /\ ~Starts(<<"DROP", "DATABASE">>, s) /\ ~Starts(<<"DROP", "SCHEMA">>, s)
      /\ ~Starts(<<"DROP", "TABLE">>, s) /\ ~Starts(<<"TRUNCATE">>, s)
  BY <1>1, <1>2
<1>8. ~UpdateNoWhere(s)
  BY <1>1 DEF UpdateNoWhere
<1>9. QED
  BY <1>5, <1>6, <1>7, <1>8 DEF Findings

(* The UPDATE that reaches every row.                                      *)
LEMMA FindingsOfUpdate ==
    ASSUME NEW s \in Seq(Vocabulary), Len(s) = 5, s[1] = "UPDATE", s[2] = "t", s[3] = "SET",
           s[4] = "a", s[5] = "semicolon"
    PROVE  Findings(s) = <<"PGC002">>
<1>0. Len(s) >= 1 /\ Len(s) >= 2
  OBVIOUS
<1>1. \A a : Starts(<<a>>, s) <=> s[1] = a
  BY <1>0, StartsOne, Zenon
<1>2. \A a, b : Starts(<<a, b>>, s) <=> s[1] = a /\ s[2] = b
  BY <1>0, StartsTwo, Zenon
<1>3. Starts(<<"SET">>, Unaliased(SubSeq(s, 3, Len(s))))
  <2> DEFINE r == SubSeq(s, 3, Len(s))
  <2>1. \A i \in 3..5 : s[i] \in Vocabulary
    <3>1. \A i \in 3..5 : i \in 1..Len(s)
      OBVIOUS
    <3>2. QED
      BY <3>1, ElementOfSeq
  <2>2. r \in Seq(Vocabulary) /\ Len(r) = 3 /\ r[1] = "SET"
    <3>1. /\ SubSeq(s, 3, 5) \in Seq(Vocabulary)
          /\ Len(SubSeq(s, 3, 5)) = IF 3 <= 5 THEN 5 - 3 + 1 ELSE 0
          /\ \A i \in 1..(5 - 3 + 1) : SubSeq(s, 3, 5)[i] = s[3 + i - 1]
      BY <2>1, SubSeqProperties
    <3>2. 1 \in 1..(5 - 3 + 1) /\ 3 + 1 - 1 = 3
      OBVIOUS
    <3>3. SubSeq(s, 3, 5)[1] = s[3]
      BY <3>1, <3>2
    <3>4. QED
      BY <3>1, <3>3
  <2> HIDE DEF r
  <2>3. Starts(<<"SET">>, r) /\ ~Starts(<<"AS">>, r)
    BY <2>2, StartsOne
  <2>4. QED
    BY <2>3 DEF Unaliased, r
<1>4. \A i \in 1..5 : i = 1 \/ i = 2 \/ i = 3 \/ i = 4 \/ i = 5
  OBVIOUS
<1>5. UpdateNoWhere(s)
  <2>1. \A i \in 1..(Len(s) - 1) : s[i] # "semicolon"
    BY <1>4
  <2>2. Last(s) = "semicolon"
    BY DEF Last
  <2>3. QED
    BY <1>1, <1>3, <2>1, <2>2 DEF UpdateNoWhere
<1>6. ~HasWhereWord(s)
  <2>1. \A i \in DOMAIN s : i \in 1..5
    BY LenProperties
  <2>2. QED
    BY <1>4, <2>1 DEF HasWhereWord
<1>7. ~DeleteNoWhere(s)
  BY <1>2 DEF DeleteNoWhere
<1>8. QED
  BY <1>1, <1>2, <1>5, <1>6, <1>7 DEF Findings

(* What may stand above a statement leaves nothing behind.                 *)
LEMMA PreamblesLeaveNothing ==
    ASSUME NEW above \in Preambles
    PROVE  above \in Seq(LineRecords) /\ After(above) = Fresh
<1> DEFINE select == <<"SELECT", "1", "semicolon">>
<1>1. /\ <<>> \in Seq(Vocabulary) /\ <<>> \in Seq(LineRecords)
      /\ select \in Seq(Vocabulary) /\ Len(select) = 3
      /\ select[1] = "SELECT" /\ select[3] = "semicolon"
  BY DEF Vocabulary
<1>2. Fresh \in ScanStates /\ Fresh.stmt = <<>> /\ Fresh.found = <<>> /\ ~Fresh.open
  BY DEF Fresh, ScanStates
<1>3. ASSUME NEW line \in LineRecords
      PROVE  <<line>> \in Seq(LineRecords) /\ After(<<line>>) = ScanLine(Fresh, line)
  <2>1. <<line>> = Append(<<>>, line)
    <3>1. Append(<<>>, line) = <<>> \o <<line>>
      BY <1>1, AppendIsConcat
    <3>2. <<line>> \in Seq(LineRecords)
      OBVIOUS
    <3>3. <<>> \o <<line>> = <<line>>
      BY <3>2, ConcatEmptySeq
    <3>4. QED
      BY <3>1, <3>3
  <2>2. After(Append(<<>>, line)) = ScanLine(After(<<>>), line)
    BY <1>1, AfterAppend
  <2>3. <<line>> \in Seq(LineRecords)
    OBVIOUS
  <2>4. QED
    BY <2>1, <2>2, <2>3, AfterNothing
<1>4. CASE above = <<>>
  BY <1>1, <1>4, AfterNothing
<1>5. ASSUME NEW comment \in Comments, above = <<Line(<<>>, comment)>>
      PROVE  above \in Seq(LineRecords) /\ After(above) = Fresh
  <2>1. Line(<<>>, comment) \in LineRecords /\ Line(<<>>, comment).words = <<>>
    BY <1>1 DEF LineRecords, Line
  <2>2. ScanLine(Fresh, Line(<<>>, comment)) = Fresh
    BY <1>2, <2>1 DEF ScanLine
  <2>3. QED
    BY <1>3, <1>5, <2>1, <2>2
<1>6. CASE above = <<Line(select, "plain")>>
  <2> DEFINE line == Line(select, "plain")
  <2>1. line \in LineRecords /\ line.words = select
    BY <1>1 DEF LineRecords, Line, Comments
  <2> HIDE DEF line, select
  <2>2. <<>> \o select = select /\ <<>> \o <<>> = <<>>
    BY <1>1, ConcatEmptySeq
  <2>3. Findings(select) = <<>>
    <3>1. Len(select) >= 3
      BY <1>1
    <3>2. select[1] \in {"SELECT", "WITH"}
      BY <1>1
    <3>3. QED
      BY <1>1, <3>1, <3>2, FindingsByShape
  <2>4. 3 \in 1..Len(line.words) /\ line.words[3] = "semicolon"
    <3>1. 3 \in 1..Len(select) /\ select[3] = "semicolon"
      BY <1>1
    <3>2. QED
      BY <2>1, <3>1
  <2>5. ScanLine(Fresh, line) =
           [open |-> FALSE, stmt |-> <<>>, found |-> Fresh.found \o Findings(Fresh.stmt \o line.words)]
    BY <1>2, <2>1, <2>4, LineEnds
  <2>6. ScanLine(Fresh, line) = [open |-> FALSE, stmt |-> <<>>, found |-> <<>>]
    BY <1>2, <2>1, <2>2, <2>3, <2>5
  <2>7. After(<<line>>) = Fresh /\ <<line>> \in Seq(LineRecords)
    BY <1>3, <2>1, <2>6 DEF Fresh
  <2>8. QED
    BY <1>6, <2>7 DEF line
<1>7. QED
  BY <1>4, <1>5, <1>6 DEF Preambles, Comments

(* A file that holds one statement is judged by that statement.            *)
LEMMA FilesAreMatchedWhole ==
    ASSUME NEW words \in Seq(Vocabulary), Len(words) > 0, words[Len(words)] = "semicolon",
           \A i \in 1..(Len(words) - 1) : words[i] # "semicolon",
           NEW file \in Files(words)
    PROVE  Scan(file) = Findings(words)
<1>1. PICK above \in Preambles, cuts \in SUBSET (1..Len(words) - 1),
           comment \in {"none", "plain"} :
              file = above \o Broken(words, cuts, comment)
  BY DEF Files
<1>2. above \in Seq(LineRecords) /\ After(above) = Fresh
  BY <1>1, PreamblesLeaveNothing
<1>3. QED
  BY <1>1, <1>2, ScanIsFindings

(* The words of a statement before its semicolon.                          *)
Body(t) ==
    (IF t.in_with THEN <<"WITH", "w">> ELSE <<>>)
        \o (IF t.command = "CMD_DELETE" THEN <<"DELETE", "FROM", "t">>
            ELSE <<"UPDATE", "t", "SET", "a">>)
        \o (IF t.joined THEN <<"USING">> ELSE <<>>)
        \o (IF t.where = "none" THEN <<>> ELSE <<"WHERE", "b">>)

(* The words that end no statement.                                        *)
Plain == Vocabulary \ {"semicolon"}

(* A semicolon after words that are none ends them, and only there.        *)
LEMMA Ended ==
    ASSUME NEW body \in Seq(Plain), Len(body) > 0,
           NEW words, words = body \o <<"semicolon">>
    PROVE  /\ words \in Seq(Vocabulary) /\ Len(words) = Len(body) + 1
           /\ words[Len(words)] = "semicolon"
           /\ \A i \in 1..(Len(words) - 1) : words[i] # "semicolon"
           /\ \A i \in 1..Len(body) : words[i] = body[i]
<1>1. /\ body \in Seq(Vocabulary) /\ <<"semicolon">> \in Seq(Vocabulary)
      /\ Len(<<"semicolon">>) = 1 /\ <<"semicolon">>[1] = "semicolon"
  <2>1. Plain \subseteq Vocabulary /\ "semicolon" \in Vocabulary
    BY DEF Plain, Vocabulary
  <2>2. QED
    BY <2>1, SeqMonotonic
<1>2. \A i \in 1..Len(body) : body[i] \in Plain
  BY ElementOfSeq
<1>3. /\ words \in Seq(Vocabulary) /\ Len(words) = Len(body) + 1
      /\ \A i \in 1..(Len(body) + 1) :
            words[i] = IF i <= Len(body) THEN body[i] ELSE <<"semicolon">>[i - Len(body)]
  BY <1>1, ConcatProperties
<1>4. Len(body) \in Nat
  OBVIOUS
<1>5. QED
  BY <1>1, <1>2, <1>3, <1>4 DEF Plain

(* The clauses a query is put together from.                               *)
LEMMA Clauses ==
    /\ <<>> \in Seq(Plain) /\ Len(<<>>) = 0
    /\ <<"WITH", "w">> \in Seq(Plain) /\ Len(<<"WITH", "w">>) = 2 /\ <<"WITH", "w">>[1] = "WITH"
    /\ <<"USING">> \in Seq(Plain) /\ Len(<<"USING">>) = 1
    /\ <<"WHERE", "b">> \in Seq(Plain) /\ Len(<<"WHERE", "b">>) = 2
    /\ <<"WHERE", "b">>[1] = "WHERE"
    /\ <<"DELETE", "FROM", "t">> \in Seq(Plain) /\ Len(<<"DELETE", "FROM", "t">>) = 3
    /\ <<"DELETE", "FROM", "t">>[1] = "DELETE"
    /\ <<"UPDATE", "t", "SET", "a">> \in Seq(Plain) /\ Len(<<"UPDATE", "t", "SET", "a">>) = 4
    /\ <<"UPDATE", "t", "SET", "a">>[1] = "UPDATE"
<1>1. <<>> \in Seq(Plain) /\ Len(<<>>) = 0
  OBVIOUS
<1>2. /\ <<"WITH", "w">> \in Seq(Plain) /\ Len(<<"WITH", "w">>) = 2
      /\ <<"WITH", "w">>[1] = "WITH"
  BY DEF Plain, Vocabulary
<1>3. <<"USING">> \in Seq(Plain) /\ Len(<<"USING">>) = 1
  BY DEF Plain, Vocabulary
<1>4. /\ <<"WHERE", "b">> \in Seq(Plain) /\ Len(<<"WHERE", "b">>) = 2
      /\ <<"WHERE", "b">>[1] = "WHERE"
  BY DEF Plain, Vocabulary
<1>5. /\ <<"DELETE", "FROM", "t">> \in Seq(Plain) /\ Len(<<"DELETE", "FROM", "t">>) = 3
      /\ <<"DELETE", "FROM", "t">>[1] = "DELETE"
  BY DEF Plain, Vocabulary
<1>6. /\ <<"UPDATE", "t", "SET", "a">> \in Seq(Plain) /\ Len(<<"UPDATE", "t", "SET", "a">>) = 4
      /\ <<"UPDATE", "t", "SET", "a">>[1] = "UPDATE"
  BY DEF Plain, Vocabulary
<1>7. QED
  BY <1>1, <1>2, <1>3, <1>4, <1>5, <1>6

(* A query starts with its verb or its WITH, and holds WHERE if it has one.*)
LEMMA QueryWords ==
    ASSUME NEW t, t.tag = "Query"
    PROVE  /\ Words(t) = Body(t) \o <<"semicolon">>
           /\ Body(t) \in Seq(Plain) /\ Len(Body(t)) >= 2
           /\ Body(t)[1] \in {"WITH", "DELETE", "UPDATE"}
           /\ t.where # "none" => \E i \in 1..Len(Body(t)) : Body(t)[i] = "WHERE"
<1> DEFINE with == IF t.in_with THEN <<"WITH", "w">> ELSE <<>>
           verb == IF t.command = "CMD_DELETE" THEN <<"DELETE", "FROM", "t">>
                   ELSE <<"UPDATE", "t", "SET", "a">>
           using == IF t.joined THEN <<"USING">> ELSE <<>>
           where == IF t.where = "none" THEN <<>> ELSE <<"WHERE", "b">>
           start == with \o verb
           rest == start \o using
<1>1. /\ with \in Seq(Plain) /\ Len(with) >= 0
      /\ with = <<>> \/ (Len(with) >= 1 /\ with[1] = "WITH")
  <2>1. CASE with = <<>>
    BY <2>1, Clauses
  <2>2. CASE with = <<"WITH", "w">>
    BY <2>2, Clauses
  <2>3. QED
    BY <2>1, <2>2
<1>2. verb \in Seq(Plain) /\ Len(verb) >= 3 /\ verb[1] \in {"DELETE", "UPDATE"}
  <2>1. CASE verb = <<"DELETE", "FROM", "t">>
    BY <2>1, Clauses
  <2>2. CASE verb = <<"UPDATE", "t", "SET", "a">>
    BY <2>2, Clauses
  <2>3. QED
    BY <2>1, <2>2
<1>3. using \in Seq(Plain) /\ Len(using) >= 0
  <2>1. CASE using = <<>>
    BY <2>1, Clauses
  <2>2. CASE using = <<"USING">>
    BY <2>2, Clauses
  <2>3. QED
    BY <2>1, <2>2
<1>4. /\ where \in Seq(Plain) /\ Len(where) >= 0
      /\ t.where # "none" => Len(where) >= 1 /\ where[1] = "WHERE"
  <2>1. CASE t.where = "none"
    BY <2>1, Clauses
  <2>2. CASE t.where # "none"
    BY <2>2, Clauses
  <2>3. QED
    BY <2>1, <2>2
<1>5. Body(t) = rest \o where /\ Words(t) = Body(t) \o <<"semicolon">>
  BY DEF Body, Words
<1> HIDE DEF with, verb, using, where
<1>6. start \in Seq(Plain) /\ Len(start) >= 3 /\ start[1] \in {"WITH", "DELETE", "UPDATE"}
  <2>1. /\ start \in Seq(Plain) /\ Len(start) = Len(with) + Len(verb)
        /\ \A i \in 1..(Len(with) + Len(verb)) :
              start[i] = IF i <= Len(with) THEN with[i] ELSE verb[i - Len(with)]
    BY <1>1, <1>2, ConcatProperties
  <2>2. Len(with) \in Nat /\ Len(verb) \in Nat
    BY <1>1, <1>2
  <2>3. CASE with = <<>>
    <3>1. start = verb
      BY <1>2, <2>3, ConcatEmptySeq
    <3>2. QED
      BY <1>2, <3>1
  <2>4. CASE Len(with) >= 1 /\ with[1] = "WITH"
    <3> HIDE DEF start
    <3>1. start[1] = "WITH"
      BY <1>2, <2>1, <2>2, <2>4
    <3>2. QED
      BY <1>2, <2>1, <2>2, <3>1
  <2>5. QED
    BY <1>1, <2>3, <2>4
<1> HIDE DEF start
<1>7. rest \in Seq(Plain) /\ Len(rest) >= 3 /\ rest[1] = start[1]
  <2>1. /\ rest \in Seq(Plain) /\ Len(rest) = Len(start) + Len(using)
        /\ \A i \in 1..(Len(start) + Len(using)) :
              rest[i] = IF i <= Len(start) THEN start[i] ELSE using[i - Len(start)]
    BY <1>3, <1>6, ConcatProperties
  <2>2. Len(start) \in Nat /\ Len(using) \in Nat
    BY <1>3, <1>6
  <2> HIDE DEF rest
  <2>3. QED
    BY <1>6, <2>1, <2>2
<1> HIDE DEF rest
<1>8. /\ Body(t) \in Seq(Plain) /\ Len(Body(t)) = Len(rest) + Len(where)
      /\ \A i \in 1..(Len(rest) + Len(where)) :
            Body(t)[i] = IF i <= Len(rest) THEN rest[i] ELSE where[i - Len(rest)]
  BY <1>4, <1>5, <1>7, ConcatProperties
<1>9. Len(rest) \in Nat /\ Len(where) \in Nat
  BY <1>4, <1>7
<1>10. Len(Body(t)) >= 2 /\ Body(t)[1] = rest[1]
  BY <1>7, <1>8, <1>9
<1>11. ASSUME t.where # "none"
       PROVE  \E i \in 1..Len(Body(t)) : Body(t)[i] = "WHERE"
  <2> DEFINE i == Len(rest) + 1
  <2>1. i \in 1..(Len(rest) + Len(where)) /\ ~(i <= Len(rest)) /\ i - Len(rest) = 1
    BY <1>4, <1>9, <1>11
  <2>2. Body(t)[i] = where[1]
    BY <1>8, <2>1
  <2>3. QED
    BY <1>4, <1>8, <1>11, <2>1, <2>2
<1>12. QED
  BY <1>5, <1>6, <1>7, <1>8, <1>10, <1>11

(* Nothing stands before, between or behind the words of a query that is   *)
(* only a DELETE or an UPDATE of every row.                                *)
LEMMA BareWords ==
    ASSUME NEW t, t.tag = "Query", ~t.in_with, ~t.joined, t.where = "none"
    PROVE  /\ t.command = "CMD_DELETE" => Body(t) = <<"DELETE", "FROM", "t">>
           /\ t.command # "CMD_DELETE" => Body(t) = <<"UPDATE", "t", "SET", "a">>
<1>1. /\ <<"DELETE", "FROM", "t">> \in Seq(Plain)
      /\ <<"UPDATE", "t", "SET", "a">> \in Seq(Plain)
  BY DEF Plain, Vocabulary
<1>2. \A s \in Seq(Plain) : <<>> \o s = s /\ s \o <<>> = s
  BY ConcatEmptySeq
<1>3. CASE t.command = "CMD_DELETE"
  <2>1. Body(t) = <<>> \o <<"DELETE", "FROM", "t">> \o <<>> \o <<>>
    BY <1>3 DEF Body
  <2>2. QED
    BY <1>1, <1>2, <1>3, <2>1, Zenon
<1>4. CASE t.command # "CMD_DELETE"
  <2>1. Body(t) = <<>> \o <<"UPDATE", "t", "SET", "a">> \o <<>> \o <<>>
    BY <1>4 DEF Body
  <2>2. QED
    BY <1>1, <1>2, <1>4, <2>1, Zenon
<1>5. QED
  BY <1>3, <1>4

(* The words of the utility statements check-sql knows.                    *)
LEMMA UtilityWords ==
    /\ LET s == <<"TRUNCATE", "t", "semicolon">>
       IN  /\ s \in Seq(Vocabulary) /\ Len(s) = 3
           /\ s[1] = "TRUNCATE" /\ s[2] = "t" /\ s[3] = "semicolon"
    /\ LET s == <<"DROP", "TABLE", "t", "semicolon">>
       IN  /\ s \in Seq(Vocabulary) /\ Len(s) = 4 /\ s[1] = "DROP" /\ s[2] = "TABLE"
           /\ s[3] \in {"t", "d"} /\ s[4] = "semicolon"
    /\ LET s == <<"DROP", "DATABASE", "d", "semicolon">>
       IN  /\ s \in Seq(Vocabulary) /\ Len(s) = 4 /\ s[1] = "DROP" /\ s[2] = "DATABASE"
           /\ s[3] \in {"t", "d"} /\ s[4] = "semicolon"
BY DEF Vocabulary

(* The gate finds what the guard stops, under the same rule, wherever a    *)
(* file holds it and however it is written there, and nothing where a      *)
(* WHERE stands (check.go:119-206, utility_analysis.c:160-230,             *)
(* query_analysis.c:183-190).                                              *)
THEOREM GateFindsWhatGuardStops == Spec => []GateSeesWhatGuardStops
<1>1. GateSeesWhatGuardStops
  <2> DEFINE t == statement
             words == Words(t)
             has_where == IsQuery(t) /\ t.where # "none"
  <2> SUFFICES ASSUME NEW file \in Files(words)
               PROVE  /\ Info.kind \in Destructive /\ ~has_where => Scan(file) = <<Rule(Info.kind)>>
                      /\ has_where => Scan(file) = <<>>
    BY DEF GateSeesWhatGuardStops
  <2>1. ASSUME t.tag = "Query"
        PROVE  /\ words \in Seq(Vocabulary) /\ Len(words) = Len(Body(t)) + 1
               /\ Len(words) >= 3
               /\ \A i \in 1..Len(Body(t)) : words[i] = Body(t)[i]
               /\ words[Len(words)] = "semicolon"
               /\ words[1] \in {"WITH", "DELETE", "UPDATE"}
               /\ Scan(file) = Findings(words)
    <3>1. /\ words = Body(t) \o <<"semicolon">>
          /\ Body(t) \in Seq(Plain) /\ Len(Body(t)) >= 2
          /\ Body(t)[1] \in {"WITH", "DELETE", "UPDATE"}
      BY <2>1, QueryWords
    <3> HIDE DEF words
    <3>2. Len(Body(t)) \in Nat /\ Len(Body(t)) > 0
      BY <3>1
    <3>3. /\ words \in Seq(Vocabulary) /\ Len(words) = Len(Body(t)) + 1
          /\ words[Len(words)] = "semicolon"
          /\ \A i \in 1..(Len(words) - 1) : words[i] # "semicolon"
          /\ \A i \in 1..Len(Body(t)) : words[i] = Body(t)[i]
      BY <3>1, <3>2, Ended
    <3>4. Scan(file) = Findings(words)
      BY <3>2, <3>3, FilesAreMatchedWhole
    <3>5. QED
      BY <3>1, <3>2, <3>3, <3>4
  <2>2. ASSUME has_where
        PROVE  Scan(file) = <<>>
    <3>1. t.tag = "Query" /\ t.where # "none"
      BY <2>2 DEF IsQuery
    <3>2. PICK i \in 1..Len(Body(t)) : Body(t)[i] = "WHERE"
      BY <3>1, QueryWords
    <3> HIDE DEF words
    <3>3. i \in DOMAIN words /\ words[i] = "WHERE"
      <4>1. i \in 1..Len(words) /\ DOMAIN words = 1..Len(words)
        BY <2>1, <3>1, LenProperties
      <4>2. QED
        BY <2>1, <3>1, <3>2, <4>1
    <3>4. HasWhereWord(words)
      BY <3>3 DEF HasWhereWord
    <3>5. QED
      BY <2>1, <3>1, <3>4, FindingsByShape
  <2>3. ASSUME Info.kind \in Destructive, ~has_where
        PROVE  Scan(file) = <<Rule(Info.kind)>>
    <3>1. CASE t.tag = "Query"
      <4>1. t.where = "none"
        BY <2>3, <3>1 DEF IsQuery
      <4>2. Checked(Planner(t), t.explain_only) /\ Info = AnalyzePlan(Planner(t))
        BY <2>3, <3>1 DEF Info, Analyze, IsQuery, OtherInfo, Destructive
      <4>3. Planner(t).below = "SeqScan" /\ Info.kind =
               IF Planner(t).command = "CMD_DELETE" THEN "delete_no_where" ELSE "update_no_where"
        BY <2>3, <4>2 DEF AnalyzePlan, HasWhere, Destructive
      <4>4. ~t.joined
        BY <4>1, <4>3 DEF Planner
      <4>5. ~t.in_with /\ Planner(t).command = t.command
        BY <4>2 DEF Checked, Planner
      <4>6. CASE t.command = "CMD_DELETE"
        <5>1. Body(t) = <<"DELETE", "FROM", "t">>
          BY <3>1, <4>1, <4>4, <4>5, <4>6, BareWords
        <5>2. /\ Len(Body(t)) = 3 /\ Body(t)[1] = "DELETE" /\ Body(t)[2] = "FROM"
              /\ Body(t)[3] = "t"
          BY <5>1
        <5> HIDE DEF words
        <5>3. Len(words) = 4
          BY <2>1, <3>1, <5>2
        <5>4. words[4] = "semicolon"
          BY <2>1, <3>1, <5>3
        <5>5. \A i \in 1..3 : words[i] = Body(t)[i]
          BY <2>1, <3>1, <5>2
        <5>6. 1 \in 1..3 /\ 2 \in 1..3 /\ 3 \in 1..3
          OBVIOUS
        <5>7. /\ Len(words) = 4 /\ words[1] = "DELETE" /\ words[2] = "FROM" /\ words[3] = "t"
              /\ words[4] = "semicolon"
          BY <5>2, <5>3, <5>4, <5>5, <5>6
        <5>8. Scan(file) = <<"PGC001">>
          BY <2>1, <3>1, <5>7, FindingsOfDelete
        <5>9. Rule(Info.kind) = "PGC001"
          BY <4>3, <4>5, <4>6 DEF Rule
        <5>10. QED
          BY <5>8, <5>9
      <4>7. CASE t.command # "CMD_DELETE"
        <5>1. Body(t) = <<"UPDATE", "t", "SET", "a">>
          BY <3>1, <4>1, <4>4, <4>5, <4>7, BareWords
        <5>2. /\ Len(Body(t)) = 4 /\ Body(t)[1] = "UPDATE" /\ Body(t)[2] = "t"
              /\ Body(t)[3] = "SET" /\ Body(t)[4] = "a"
          BY <5>1
        <5> HIDE DEF words
        <5>3. Len(words) = 5
          BY <2>1, <3>1, <5>2
        <5>4. words[5] = "semicolon"
          BY <2>1, <3>1, <5>3
        <5>5. \A i \in 1..4 : words[i] = Body(t)[i]
          BY <2>1, <3>1, <5>2
        <5>6. 1 \in 1..4 /\ 2 \in 1..4 /\ 3 \in 1..4 /\ 4 \in 1..4
          OBVIOUS
        <5>7. /\ Len(words) = 5 /\ words[1] = "UPDATE" /\ words[2] = "t" /\ words[3] = "SET"
              /\ words[4] = "a" /\ words[5] = "semicolon"
          BY <5>2, <5>3, <5>4, <5>5, <5>6
        <5>8. Scan(file) = <<"PGC002">>
          BY <2>1, <3>1, <5>7, FindingsOfUpdate
        <5>9. Rule(Info.kind) = "PGC002"
          BY <4>3, <4>5, <4>7 DEF Rule
        <5>10. QED
          BY <5>8, <5>9
      <4>8. QED
        BY <4>6, <4>7
    <3>2. CASE t.tag # "Query"
      <4>1. Info = AnalyzeUtility(t)
        BY <2>3, <3>2 DEF Info, Analyze, IsQuery, OtherInfo, Destructive
      <4>2. \/ t.tag = "TruncateStmt" /\ Info.kind = "truncate"
            \/ t.tag = "DropStmt" /\ t.removeType = "OBJECT_TABLE" /\ Info.kind = "drop_table"
            \/ t.tag = "DropdbStmt" /\ Info.kind = "drop_database"
        BY <2>3, <4>1 DEF AnalyzeUtility, DropInfo, Classified, OtherInfo, Destructive
      <4>3. CASE t.tag = "TruncateStmt" /\ Info.kind = "truncate"
        <5>1. words = <<"TRUNCATE", "t", "semicolon">>
          BY <4>3 DEF Words
        <5>2. /\ words \in Seq(Vocabulary) /\ Len(words) = 3
              /\ words[1] = "TRUNCATE" /\ words[2] = "t"
              /\ words[3] = "semicolon"
          BY <5>1, UtilityWords, Zenon
        <5> HIDE DEF words
        <5>3. Len(words) >= 3 /\ Len(words) > 0 /\ words[Len(words)] = "semicolon"
          BY <5>2
        <5>4. \A i \in 1..(Len(words) - 1) : words[i] # "semicolon"
          BY <5>2
        <5>5. Scan(file) = Findings(words)
          BY <5>2, <5>3, <5>4, FilesAreMatchedWhole
        <5>6. Findings(words) = <<"PGC003">>
          BY <5>2, <5>3, FindingsByShape
        <5>7. Rule(Info.kind) = "PGC003"
          BY <4>3 DEF Rule
        <5>8. QED
          BY <5>5, <5>6, <5>7
      <4>4. CASE t.tag = "DropStmt" /\ t.removeType = "OBJECT_TABLE" /\ Info.kind = "drop_table"
        <5>1. words = <<"DROP", "TABLE", "t", "semicolon">>
          BY <4>4 DEF Words
        <5>2. /\ words \in Seq(Vocabulary) /\ Len(words) = 4
              /\ words[1] = "DROP" /\ words[2] = "TABLE" /\ words[3] \in {"t", "d"}
              /\ words[4] = "semicolon"
          BY <5>1, UtilityWords, Zenon
        <5> HIDE DEF words
        <5>3. Len(words) >= 3 /\ Len(words) > 0 /\ words[Len(words)] = "semicolon"
          BY <5>2
        <5>4. \A i \in 1..(Len(words) - 1) : words[i] # "semicolon"
          BY <5>2
        <5>5. Scan(file) = Findings(words)
          BY <5>2, <5>3, <5>4, FilesAreMatchedWhole
        <5>6. Findings(words) = <<"PGC004">>
          BY <5>2, <5>3, FindingsByShape
        <5>7. Rule(Info.kind) = "PGC004"
          BY <4>4 DEF Rule
        <5>8. QED
          BY <5>5, <5>6, <5>7
      <4>5. CASE t.tag = "DropdbStmt" /\ Info.kind = "drop_database"
        <5>1. words = <<"DROP", "DATABASE", "d", "semicolon">>
          BY <4>5 DEF Words
        <5>2. /\ words \in Seq(Vocabulary) /\ Len(words) = 4
              /\ words[1] = "DROP" /\ words[2] = "DATABASE" /\ words[3] \in {"t", "d"}
              /\ words[4] = "semicolon"
          BY <5>1, UtilityWords, Zenon
        <5> HIDE DEF words
        <5>3. Len(words) >= 3 /\ Len(words) > 0 /\ words[Len(words)] = "semicolon"
          BY <5>2
        <5>4. \A i \in 1..(Len(words) - 1) : words[i] # "semicolon"
          BY <5>2
        <5>5. Scan(file) = Findings(words)
          BY <5>2, <5>3, <5>4, FilesAreMatchedWhole
        <5>6. Findings(words) = <<"PGC005">>
          BY <5>2, <5>3, FindingsByShape
        <5>7. Rule(Info.kind) = "PGC005"
          BY <4>5 DEF Rule
        <5>8. QED
          BY <5>5, <5>6, <5>7
      <4>6. QED
        BY <4>2, <4>3, <4>4, <4>5
    <3>3. QED
      BY <3>1, <3>2
  <2>4. QED
    BY <2>2, <2>3
<1>2. QED
  BY <1>1, PTL

=============================================================================
