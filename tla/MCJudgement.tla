---------------------------- MODULE MCJudgement ----------------------------
(* The statements Judgement and the servers RuntimeState is checked on.    *)
EXTENDS Judgement, RuntimeState

(* Statements                                                              *)

Tables == {[found |-> FALSE, mb |-> 0], [found |-> TRUE, mb |-> 0],
           [found |-> TRUE, mb |-> 63], [found |-> TRUE, mb |-> 64]}

Pairs == {<<r>> : r \in Tables} \cup (Tables \X Tables)

(* One subcommand of each arm of classify_alter_table.                     *)
Subcommands == {"AddColumn", "DropColumn", "SetNotNull", "DropNotNull", "SetStatistics"}

MCTrees ==
    [tag: {"TruncateStmt"}, relations: Pairs]
    \cup [tag: {"DropStmt"}, removeType: {"OBJECT_TABLE", "OBJECT_INDEX"},
          objects: Pairs, missing_ok: BOOLEAN]
    \cup [tag: {"DropdbStmt"}]
    \cup [tag: {"AlterTableStmt"}, relation: Tables,
          cmds: UNION {[1..n -> Subcommands] : n \in 1..3}]
    \cup [tag: {"RenameStmt"}, relation: Tables,
          renameType: {"OBJECT_TABLE", "OBJECT_COLUMN", "OBJECT_INDEX"}]
    \cup [tag: {"IndexStmt"}, relation: Tables, concurrent: BOOLEAN]
    \cup [tag: {"ReindexStmt"}, relation: Tables,
          concurrently: {<<>>, <<FALSE>>, <<TRUE>>}]
    \cup [tag: {"VacuumStmt"}, is_vacuumcmd: BOOLEAN,
          full: {<<>>, <<FALSE>>, <<TRUE>>}, rels: {<<>>} \cup Pairs]
    \cup [tag: {"ClusterStmt"}, relation: Tables \cup {Unnamed}]
    \cup [tag: {"CreateStmt"}]
    \cup [tag: {"Query"}, command: {"CMD_DELETE", "CMD_UPDATE"},
          where: {"none", "true", "false", "filter"}, joined: BOOLEAN,
          partitions: 1..2, rls: BOOLEAN, in_with: BOOLEAN, explain_only: BOOLEAN,
          relation: {[found |-> TRUE, mb |-> 64]}]

(* Servers, with LongSeconds = 2 and the lag limits 2 and 4.               *)
MCActivities ==
    [state: {"gone", "idle", "undefined"}, age: {-1}]
    \cup [state: {"running"}, age: {0, 2, 4}]
    \cup [state: {"idle_in_xact"}, age: {-1, 0, 2, 4}]

Pool(max, reserved, others) == [max |-> max, reserved |-> reserved, others |-> others]

(* 14, 17 and 19 of 19 usable connections pass a step; 3 usable ones let   *)
(* the clients be half of them.                                            *)
MCPools == {Pool(20, 1, 13), Pool(20, 1, 15), Pool(20, 1, 17), Pool(4, 1, 0)}

Graph(blocked, blocking, depth, descendants, wait) ==
    [blocked |-> blocked, blocking |-> blocking, depth |-> depth,
     descendants |-> descendants, wait |-> wait]

MCGraphs ==
    {Graph(0, 0, 0, 0, 0), Graph(2, 1, 1, 2, 5),
     Graph(5, 4, 2, 4, 5), Graph(5, 5, 3, 5, 30), Graph(50, 6, 5, 50, 30)}

Sender(write, apply, reply) ==
    [pid |-> TRUE, write |-> write, flush |-> write, apply |-> apply, reply |-> reply]

MCLags ==
    {[Sender(-1, -1, -1) EXCEPT !.pid = FALSE], Sender(-1, -1, 2), Sender(1, 4, 2)}

MCWalRates == [bytes: {1, 4}, secs: {2}]
MCWalLimits == [elevated |-> 1, high |-> 2]
MCLagLimits == [warn |-> 2, critical |-> 4]

Calm == [clients |-> [c \in Clients |-> [state |-> "gone", age |-> -1]],
         pool |-> Pool(4, 1, 0), graph |-> Graph(0, 0, 0, 0, 0),
         senders |-> [s \in Standbys |-> [Sender(-1, -1, -1) EXCEPT !.pid = FALSE]],
         wal |-> [bytes |-> 1, secs |-> 2]]

Truncate == [tag |-> "TruncateStmt", relations |-> <<[found |-> TRUE, mb |-> 0]>>]

(* The two have nothing to do with each other: one rests while the other   *)
(* moves.                                                                  *)
MCInit == statement = Truncate /\ server = Calm /\ RuntimeInit

MCNext ==
    \/ server = Calm /\ Next /\ UNCHANGED server
    \/ statement = Truncate /\ RuntimeNext /\ UNCHANGED statement

MCSpec == MCInit /\ [][MCNext]_<<statement, server>>

=============================================================================
