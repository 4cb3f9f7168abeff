--------------------------- MODULE StatementGuard ---------------------------
(***************************************************************************)
(* The guard of src/src/hooks.c: what happens to a statement between its   *)
(* hook and its execution.  Sessions run concurrently; a statement that    *)
(* runs may start statements of its own (a function, a procedure, the      *)
(* subcommands of a utility), each of which meets the hook again; any      *)
(* stage may raise an error; the server may restart at any point.          *)
(*                                                                         *)
(* The event history is the abstract one, EventHistory, which the ring of  *)
(* src/src/shmem.c implements.  Parallel workers do not appear: their      *)
(* plans are never a DELETE or an UPDATE.                                  *)
(***************************************************************************)
EXTENDS RiskRules, Sequences

CONSTANTS
    Sessions,      \* client backends
    Detached,      \* sessions without the shared segment
    Statements,    \* what the classifier makes of the statements they submit
    Confs,         \* settings a session may have
    Sizes,         \* values of pg_circuit.event_history_size
    MaxDepth,      \* bound: statements inside one another
    MaxEvents,     \* bound: statements begun in one server life
    MaxRestarts    \* bound: server restarts

Faults == {"", "runtime", "event_full"}

Settings == [enabled: BOOLEAN, mode: Modes, fail_closed: BOOLEAN,
             warn_at: 0..100, block_at: 0..100, fault: Faults]

ASSUME StatementsAssumption == Statements \subseteq Infos
ASSUME ConfsAssumption == Confs \subseteq Settings
ASSUME SizesAssumption == Sizes \subseteq 1..4096
ASSUME BoundsAssumption == MaxDepth \in Nat /\ MaxEvents \in Nat /\ MaxRestarts \in Nat

VARIABLES
    conf,          \* the settings of each session
    stack,         \* the statements each session is in, the innermost last
    told,          \* the last message the hooks sent each session
    capacity, issued, recent, views,    \* the event history
    begun,         \* statements begun in this server life
    restarts

history == <<capacity, issued, recent, views>>
vars == <<conf, stack, told, history, begun, restarts>>

RiskEvents == [by: Sessions, kind: Kinds, decision: Decisions]

History == INSTANCE EventHistory WITH Readers <- {}

(* Where a statement is: before its hook, inside the PG_TRY block of       *)
(* evaluate_and_apply, in its PG_CATCH block, or past the hook.  A frame   *)
(* also keeps the settings its check read, the number its event was given  *)
(* (the code forgets it) and the error PG_CATCH looks at.                  *)
Stages == {"hook", "collect", "persist", "apply", "catch", "run"}

Frames == [info: Statements, under: Confs, at: Stages, decision: Decisions,
           event_id: Nat, error: {"none", "internal", "insufficient_privilege"}]

Messages == {"warned", "blocked", "failed_open", "failed_closed", "not_analyzed"}

Nothing == [why |-> "nothing"]

TypeOK ==
    /\ conf \in [Sessions -> Confs]
    /\ stack \in [Sessions -> Seq(Frames)]
    /\ told \in [Sessions -> {Nothing} \cup [why: Messages, frame: Frames]]
    /\ capacity \in Sizes
    /\ issued \in Nat
    /\ begun \in Nat
    /\ restarts \in Nat

-----------------------------------------------------------------------------

Init ==
    /\ conf \in [Sessions -> Confs]
    /\ stack = [s \in Sessions |-> <<>>]
    /\ told = [s \in Sessions |-> Nothing]
    /\ History!Init
    /\ begun = 0
    /\ restarts = 0

Busy(s) == stack[s] # <<>>
Top(s) == stack[s][Len(stack[s])]
At(s, stage) == Busy(s) /\ Top(s).at = stage

SetTop(s, frame) == stack' = [stack EXCEPT ![s][Len(stack[s])] = frame]
Move(s, stage) == SetTop(s, [Top(s) EXCEPT !.at = stage])

Tell(s, why, frame) == told' = [told EXCEPT ![s] = [why |-> why, frame |-> frame]]

(* An error ends the innermost statement and every one around it, up to    *)
(* one whose exception handler takes it; without any it reaches the client.*)
Abort(s) ==
    \E n \in 0..Len(stack[s]) - 1 :
        stack' = [stack EXCEPT ![s] = SubSeq(stack[s], 1, n)]

(* SET, by the client or by a function that runs.                          *)
Configure(s, c) ==
    /\ ~Busy(s) \/ At(s, "run")
    /\ conf' = [conf EXCEPT ![s] = c]
    /\ UNCHANGED <<stack, told, history, begun, restarts>>

Begin(s, info) ==
    /\ ~Busy(s) \/ At(s, "run")
    /\ Len(stack[s]) < MaxDepth
    /\ begun < MaxEvents
    /\ begun' = begun + 1
    /\ stack' = [stack EXCEPT ![s] = Append(@,
          [info |-> info, under |-> conf[s], at |-> "hook", decision |-> "ALLOW",
           event_id |-> 0, error |-> "none"])]
    /\ UNCHANGED <<conf, told, history, restarts>>

-----------------------------------------------------------------------------
(* The hooks                                                               *)

(* should_skip_check.                                                      *)
Skip(s) ==
    /\ At(s, "hook")
    /\ ~Top(s).under.enabled
    /\ Move(s, "run")
    /\ UNCHANGED <<conf, told, history, begun, restarts>>

(* Classification, and the fast path of evaluate_and_apply.                *)
Analyze(s) ==
    /\ At(s, "hook")
    /\ Top(s).under.enabled
    /\ Move(s, IF Top(s).info.kind = "other" THEN "run" ELSE "collect")
    /\ UNCHANGED <<conf, told, history, begun, restarts>>

(* The classifier reads catalogs and the relation's file before the PG_TRY *)
(* block: what fails there is the statement's own error.                   *)
AnalyzeError(s) ==
    /\ At(s, "hook")
    /\ Top(s).under.enabled
    /\ Tell(s, "not_analyzed", Top(s))
    /\ Abort(s)
    /\ UNCHANGED <<conf, history, begun, restarts>>

(* Runtime state, assessment and the policy stub, which keeps the decision *)
(* as it is.                                                               *)
Assess(s) ==
    /\ At(s, "collect")
    /\ Top(s).under.fault # "runtime"
    /\ SetTop(s, [Top(s) EXCEPT !.at = "persist",
                                !.decision = Decision(Top(s).under, Top(s).info)])
    /\ UNCHANGED <<conf, told, history, begun, restarts>>

Event(s) == [by |-> s, kind |-> Top(s).info.kind, decision |-> Top(s).decision]

(* Mutant: the ring is told of blocked statements only.                    *)
RecordedBlocksOnly(s) ==
    /\ s \notin Detached
    /\ Top(s).under.fault # "event_full"
    /\ Top(s).decision = "BLOCK"

(* The early returns of pg_circuit_event_record.                           *)
Recorded(s) ==
    /\ s \notin Detached
    /\ Top(s).under.fault # "event_full"
    /\ Top(s).decision # "ALLOW"

Persist(s) ==
    /\ At(s, "persist")
    /\ IF Recorded(s)
       THEN /\ History!Record(Event(s))
            /\ SetTop(s, [Top(s) EXCEPT !.at = "apply", !.event_id = issued + 1])
       ELSE /\ Move(s, "apply")
            /\ UNCHANGED history
    /\ UNCHANGED <<conf, told, begun, restarts>>

(* Mutant: BLOCK is reported like WARN.                                    *)
ApplyOnlyWarns(s) ==
    /\ At(s, "apply")
    /\ Move(s, "run")
    /\ IF Top(s).decision # "ALLOW" THEN Tell(s, "warned", Top(s)) ELSE UNCHANGED told
    /\ UNCHANGED <<conf, history, begun, restarts>>

(* apply_decision_ex: BLOCK raises the error that PG_CATCH rethrows.       *)
Apply(s) ==
    /\ At(s, "apply")
    /\ IF Top(s).decision = "BLOCK"
       THEN /\ SetTop(s, [Top(s) EXCEPT !.at = "catch",
                                        !.error = "insufficient_privilege"])
            /\ UNCHANGED told
       ELSE /\ Move(s, "run")
            /\ IF Top(s).decision = "WARN"
               THEN Tell(s, "warned", Top(s))
               ELSE UNCHANGED told
    /\ UNCHANGED <<conf, history, begun, restarts>>

(* Any stage inside the PG_TRY block may fail, a cancelled query included. *)
Raise(s) ==
    /\ \E stage \in {"collect", "persist", "apply"} : At(s, stage)
    /\ SetTop(s, [Top(s) EXCEPT !.at = "catch", !.error = "internal"])
    /\ UNCHANGED <<conf, told, history, begun, restarts>>

(* Mutant: fail_closed without a look at the mode.                         *)
FailsClosedAlways(c) == c.fail_closed

FailsClosed(c) == c.mode = "enforce" /\ c.fail_closed

Rethrow(s) ==
    /\ At(s, "catch")
    /\ Top(s).error = "insufficient_privilege"
    /\ Tell(s, "blocked", Top(s))
    /\ Abort(s)
    /\ UNCHANGED <<conf, history, begun, restarts>>

(* Mutants of HandleFailure: PG_CATCH without the look at sqlerrcode; a    *)
(* check that is tried again after it failed.                              *)
HandleFailureAll(s) ==
    /\ At(s, "catch")
    /\ IF FailsClosed(Top(s).under)
       THEN Tell(s, "failed_closed", Top(s)) /\ Abort(s)
       ELSE Tell(s, "failed_open", Top(s)) /\ Move(s, "run")
    /\ UNCHANGED <<conf, history, begun, restarts>>

HandleFailureRetry(s) ==
    /\ At(s, "catch")
    /\ Top(s).error # "insufficient_privilege"
    /\ IF FailsClosed(Top(s).under)
       THEN Tell(s, "failed_closed", Top(s)) /\ Abort(s)
       ELSE Tell(s, "failed_open", Top(s)) /\ Move(s, "collect")
    /\ UNCHANGED <<conf, history, begun, restarts>>

(* handle_internal_failure.                                                *)
HandleFailure(s) ==
    /\ At(s, "catch")
    /\ Top(s).error # "insufficient_privilege"
    /\ IF FailsClosed(Top(s).under)
       THEN Tell(s, "failed_closed", Top(s)) /\ Abort(s)
       ELSE Tell(s, "failed_open", Top(s)) /\ Move(s, "run")
    /\ UNCHANGED <<conf, history, begun, restarts>>

-----------------------------------------------------------------------------
(* Past the hook: the previous hook or the standard routine                *)

Finish(s) ==
    /\ At(s, "run")
    /\ stack' = [stack EXCEPT ![s] = SubSeq(stack[s], 1, Len(stack[s]) - 1)]
    /\ UNCHANGED <<conf, told, history, begun, restarts>>

RunError(s) ==
    /\ At(s, "run")
    /\ Abort(s)
    /\ UNCHANGED <<conf, told, history, begun, restarts>>

Restart ==
    /\ restarts < MaxRestarts
    /\ restarts' = restarts + 1
    /\ conf' \in [Sessions -> Confs]
    /\ stack' = [s \in Sessions |-> <<>>]
    /\ told' = [s \in Sessions |-> Nothing]
    /\ History!Restart
    /\ begun' = 0

Hook(s) ==
    \/ Skip(s)
    \/ Analyze(s)
    \/ AnalyzeError(s)
    \/ Assess(s)
    \/ Persist(s)
    \/ Apply(s)
    \/ Raise(s)
    \/ Rethrow(s)
    \/ HandleFailure(s)

Next ==
    \/ \E s \in Sessions :
        \/ \E c \in Confs : Configure(s, c)
        \/ \E info \in Statements : Begin(s, info)
        \/ Hook(s)
        \/ Finish(s)
        \/ RunError(s)
    \/ Restart

Spec == Init /\ [][Next]_vars

(* A backend inside a hook keeps running.                                  *)
Fairness == \A s \in Sessions : WF_vars(Hook(s))

FairSpec == Spec /\ Fairness

-----------------------------------------------------------------------------
(* Properties                                                              *)

FramesOf(s) == {stack[s][i] : i \in 1..Len(stack[s])}

MustBlock(frame) ==
    /\ frame.under.enabled
    /\ frame.under.mode = "enforce"
    /\ frame.info.kind # "other"
    /\ Score(frame.info) >= frame.under.block_at

(* Under enforce a statement at or above the block threshold executes only *)
(* where an internal error struck its check and fail_closed is off:        *)
(* whatever else went wrong, was nested, or was reconfigured meanwhile     *)
(* (hooks.c:78-140, hardening.md:5-9).                                     *)
HarmNeedsFailOpen ==
    \A s \in Sessions : \A frame \in FramesOf(s) :
        frame.at = "run" /\ MustBlock(frame) =>
            frame.error = "internal" /\ ~frame.under.fail_closed

(* PG Circuit stops a statement of its own accord only under enforce; its  *)
(* internal errors stop one only under fail_closed too (README.md:184-188, *)
(* config.c:171-174).                                                      *)
OnlyEnforceStops ==
    \A s \in Sessions :
        /\ told[s].why = "blocked" =>
              MustBlock(told[s].frame) /\ told[s].frame.error # "internal"
        /\ told[s].why = "failed_closed" =>
              told[s].frame.under.mode = "enforce" /\ told[s].frame.under.fail_closed

(* What a session was told of a decision is on record under the number it  *)
(* was given, until capacity newer events replace it, whichever sessions   *)
(* recorded in between (hooks.c:112-117, event.c:102-138).                 *)
OnRecord(s, frame) ==
    \/ frame.event_id + capacity <= issued
    \/ \E i \in 1..Len(recent) :
          /\ recent[i].event_id = frame.event_id
          /\ recent[i].body = [by |-> s, kind |-> frame.info.kind,
                               decision |-> frame.decision]

ToldIsOnRecord ==
    \A s \in Sessions :
        told[s].why \in {"warned", "blocked"} =>
            \/ s \in Detached \/ told[s].frame.under.fault = "event_full"
            \/ told[s].frame.event_id > 0 /\ OnRecord(s, told[s].frame)

(* The converse, for BLOCK: a statement that executes although the history *)
(* says it was blocked had an internal error after the recording.          *)
RecordedBlockStops ==
    \A s \in Sessions : \A frame \in FramesOf(s) :
        frame.at = "run" /\ frame.event_id > 0 /\ frame.decision = "BLOCK" =>
            frame.error = "internal"

(* A statement that enters a hook gets past it: it goes on to run, or is   *)
(* stopped, whatever fails in between.                                     *)
InHook(s) == Busy(s) /\ Top(s).at # "run"

HooksReturn == \A s \in Sessions : InHook(s) ~> ~InHook(s)

(* hardening.md:7 "observe | Fail open - WARNING, allow statement": an     *)
(* error inside PG Circuit never stops a statement outside enforce.        *)
ErrorsFailOpen ==
    \A s \in Sessions :
        told[s].why \in {"failed_closed", "not_analyzed"} =>
            told[s].frame.under.mode = "enforce"

=============================================================================
