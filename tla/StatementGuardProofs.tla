------------------------ MODULE StatementGuardProofs ------------------------
(***************************************************************************)
(* What holds of the guard for every number of sessions, every depth of    *)
(* nesting, all settings, all statements and every history size.           *)
(*                                                                         *)
(* The argument: a frame of the stack is good when what it remembers fits  *)
(* the stage it is in.  Every step replaces a good frame by a good one, or *)
(* drops frames, and a message is made from a good frame.                  *)
(***************************************************************************)
EXTENDS StatementGuard, TLAPS

(* What a frame remembers, by the stage it is in.                          *)
FrameFits(f) ==
    /\ f.at \in {"hook", "collect", "persist"} => f.event_id = 0
    /\ f.at \in {"hook", "collect", "persist", "apply"} => f.error = "none"
    /\ f.at \in {"collect", "persist", "apply", "catch"} =>
          f.under.enabled /\ f.info.kind # "other"
    /\ f.at \in {"persist", "apply"} => f.decision = Decision(f.under, f.info)
    /\ f.at = "catch" =>
          /\ f.error \in {"internal", "insufficient_privilege"}
          /\ f.error = "insufficient_privilege" =>
                f.decision = "BLOCK" /\ f.decision = Decision(f.under, f.info)
    /\ f.at = "run" =>
          /\ MustBlock(f) => f.error = "internal" /\ ~f.under.fail_closed
          /\ f.event_id > 0 /\ f.decision = "BLOCK" => f.error = "internal"

GoodFrames == {f \in Frames : FrameFits(f)}

(* What a message says of the frame it was made from.                      *)
MessageFits(m) ==
    /\ m.why = "blocked" => MustBlock(m.frame) /\ m.frame.error # "internal"
    /\ m.why = "failed_closed" => m.frame.under.mode = "enforce" /\ m.frame.under.fail_closed

GoodMessages == {m \in [why: Messages, frame: Frames] : MessageFits(m)}

GuardInv ==
    /\ conf \in [Sessions -> Confs]
    /\ stack \in [Sessions -> Seq(GoodFrames)]
    /\ told \in [Sessions -> {Nothing} \cup GoodMessages]
    /\ capacity \in Sizes
    /\ issued \in Nat
    /\ begun \in Nat
    /\ restarts \in Nat

-----------------------------------------------------------------------------
(* The rule table                                                          *)

(* A decision is one of the three, whatever the score.                     *)
LEMMA DecisionType == ASSUME NEW c, NEW info PROVE Decision(c, info) \in Decisions
  BY DEF Decision, Decide, Decisions

(* The statements enforce must block are those the rules say BLOCK for.    *)
LEMMA MustBlockDecision ==
    ASSUME NEW f
    PROVE  MustBlock(f) <=> /\ f.under.enabled
                            /\ f.info.kind # "other"
                            /\ Decision(f.under, f.info) = "BLOCK"
  BY DEF MustBlock, Decision, Decide

-----------------------------------------------------------------------------
(* The stack                                                               *)

(* The innermost frame of a busy session is a good frame.                  *)
LEMMA TopGood ==
    ASSUME GuardInv, NEW s \in Sessions, Busy(s)
    PROVE  /\ Top(s) \in GoodFrames
           /\ Len(stack[s]) \in Nat
           /\ Len(stack[s]) > 0
  <1>1. stack[s] \in Seq(GoodFrames) /\ stack[s] # <<>>
    BY DEF GuardInv, Busy
  <1>2. QED
    BY <1>1 DEF Top

(* Replacing the innermost frame by a good one keeps a stack of good ones. *)
LEMMA SetTopGood ==
    ASSUME GuardInv, NEW s \in Sessions, Busy(s), NEW f \in GoodFrames, SetTop(s, f)
    PROVE  stack' \in [Sessions -> Seq(GoodFrames)]
  <1>1. stack[s] \in Seq(GoodFrames) /\ stack \in [Sessions -> Seq(GoodFrames)]
    BY DEF GuardInv
  <1>2. Len(stack[s]) \in 1..Len(stack[s])
    BY <1>1, TopGood
  <1>3. [stack[s] EXCEPT ![Len(stack[s])] = f] \in Seq(GoodFrames)
    BY <1>1, <1>2
  <1>4. stack' = [stack EXCEPT ![s] = [stack[s] EXCEPT ![Len(stack[s])] = f]]
    BY DEF SetTop
  <1>5. QED
    BY <1>1, <1>3, <1>4

(* Dropping frames from the top keeps a stack of good ones.                *)
LEMMA DropGood ==
    ASSUME GuardInv, NEW s \in Sessions, NEW n \in 0..Len(stack[s]) - 1
    PROVE  SubSeq(stack[s], 1, n) \in Seq(GoodFrames)
  <1>1. stack[s] \in Seq(GoodFrames)
    BY DEF GuardInv
  <1>2. \A i \in 1..n : stack[s][i] \in GoodFrames
    BY <1>1
  <1>3. QED
    BY <1>1, <1>2

(* An error that ends statements keeps a stack of good frames.             *)
LEMMA AbortGood ==
    ASSUME GuardInv, NEW s \in Sessions, Abort(s)
    PROVE  stack' \in [Sessions -> Seq(GoodFrames)]
  BY DropGood DEF Abort, GuardInv

(* A message that fits its frame keeps the messages good.                  *)
LEMMA TellGood ==
    ASSUME GuardInv, NEW s \in Sessions, NEW why \in Messages, NEW f \in Frames,
           MessageFits([why |-> why, frame |-> f]), Tell(s, why, f)
    PROVE  told' \in [Sessions -> {Nothing} \cup GoodMessages]
  <1>1. [why |-> why, frame |-> f] \in GoodMessages
    BY DEF GoodMessages
  <1>2. QED
    BY <1>1 DEF Tell, GuardInv

-----------------------------------------------------------------------------

(* A started server satisfies the invariant.                               *)
LEMMA InitGuardInv == Init => GuardInv
  <1>1. <<>> \in Seq(GoodFrames)
    OBVIOUS
  <1>2. QED
    BY <1>1 DEF Init, GuardInv, History!Init

(* A statement begins with a good frame (hooks.c:142-150, 205-217).        *)
LEMMA BeginGuardInv ==
    ASSUME GuardInv, NEW s \in Sessions, NEW info \in Statements, Begin(s, info)
    PROVE  GuardInv'
  <1> DEFINE f == [info |-> info, under |-> conf[s], at |-> "hook", decision |-> "ALLOW",
                   event_id |-> 0, error |-> "none"]
  <1>1. f \in GoodFrames
    BY DEF GuardInv, GoodFrames, Frames, FrameFits, Stages, Decisions
  <1>2. Append(stack[s], f) \in Seq(GoodFrames)
    BY <1>1 DEF GuardInv
  <1>3. stack' \in [Sessions -> Seq(GoodFrames)]
    BY <1>2 DEF Begin, GuardInv
  <1>4. QED
    BY <1>3 DEF Begin, GuardInv, history

(* Every step of the hooks keeps the invariant (hooks.c:43-140).           *)
LEMMA HookGuardInv ==
    ASSUME GuardInv, NEW s \in Sessions, Hook(s)
    PROVE  GuardInv'
<1>bus. Busy(s)
  BY DEF Hook, Skip, Analyze, AnalyzeError, Assess, Persist, Apply, Raise, Rethrow,
         HandleFailure, At
<1>top. Top(s) \in GoodFrames /\ Top(s) \in Frames /\ FrameFits(Top(s))
  BY <1>bus, TopGood DEF GoodFrames
<1>hyp. ASSUME NEW g \in GoodFrames, SetTop(s, g) PROVE stack' \in [Sessions -> Seq(GoodFrames)]
  BY <1>bus, <1>hyp, SetTopGood
<1>1. CASE Skip(s)
  <2>1. [Top(s) EXCEPT !.at = "run"] \in GoodFrames
    BY <1>1, <1>top DEF Skip, At, GoodFrames, Frames, FrameFits, Stages, MustBlock
  <2>2. QED
    BY <1>1, <1>hyp, <2>1 DEF Skip, Move, GuardInv, history
<1>2. CASE Analyze(s)
  <2>1. CASE Top(s).info.kind = "other"
    <3>1. [Top(s) EXCEPT !.at = "run"] \in GoodFrames
      BY <1>2, <2>1, <1>top DEF Analyze, At, GoodFrames, Frames, FrameFits, Stages, MustBlock
    <3>2. QED
      BY <1>2, <2>1, <1>hyp, <3>1 DEF Analyze, Move, GuardInv, history
  <2>2. CASE Top(s).info.kind # "other"
    <3>1. [Top(s) EXCEPT !.at = "collect"] \in GoodFrames
      BY <1>2, <2>2, <1>top DEF Analyze, At, GoodFrames, Frames, FrameFits, Stages
    <3>2. QED
      BY <1>2, <2>2, <1>hyp, <3>1 DEF Analyze, Move, GuardInv, history
  <2>3. QED
    BY <2>1, <2>2
<1>3. CASE AnalyzeError(s)
  <2>1. MessageFits([why |-> "not_analyzed", frame |-> Top(s)])
    BY DEF MessageFits
  <2>2. QED
    BY <1>3, <1>top, <2>1, TellGood, AbortGood DEF AnalyzeError, Messages, GuardInv, history
<1>4. CASE Assess(s)
  <2>1. [Top(s) EXCEPT !.at = "persist", !.decision = Decision(Top(s).under, Top(s).info)]
           \in GoodFrames
    BY <1>4, <1>top, DecisionType DEF Assess, At, GoodFrames, Frames, FrameFits, Stages
  <2>2. QED
    BY <1>4, <1>hyp, <2>1 DEF Assess, GuardInv, history
<1>5. CASE Persist(s)
  <2>1. CASE Recorded(s)
    <3>1. Top(s).at = "persist" /\ issued + 1 \in Nat
      BY <1>5 DEF Persist, At, GuardInv
    <3>2. [Top(s) EXCEPT !.at = "apply", !.event_id = issued + 1] \in GoodFrames
      BY <1>top, <3>1 DEF GoodFrames, Frames, FrameFits, Stages
    <3>3. QED
      BY <1>5, <2>1, <1>hyp, <3>2 DEF Persist, GuardInv, History!Record
  <2>2. CASE ~Recorded(s)
    <3>1. [Top(s) EXCEPT !.at = "apply"] \in GoodFrames
      BY <1>5, <1>top DEF Persist, At, GoodFrames, Frames, FrameFits, Stages
    <3>2. QED
      BY <1>5, <2>2, <1>hyp, <3>1 DEF Persist, Move, GuardInv, history
  <2>3. QED
    BY <2>1, <2>2
<1>6. CASE Apply(s)
  <2>1. CASE Top(s).decision = "BLOCK"
    <3>1. [Top(s) EXCEPT !.at = "catch", !.error = "insufficient_privilege"] \in GoodFrames
      BY <1>6, <2>1, <1>top DEF Apply, At, GoodFrames, Frames, FrameFits, Stages
    <3>2. QED
      BY <1>6, <2>1, <1>hyp, <3>1 DEF Apply, GuardInv, history
  <2>2. CASE Top(s).decision # "BLOCK"
    <3> DEFINE f == [Top(s) EXCEPT !.at = "run"]
    <3>1. f \in Frames
      BY <1>top DEF Frames, Stages
    <3>2. ~MustBlock(f) /\ f.decision # "BLOCK"
      BY <1>6, <2>2, <1>top, MustBlockDecision DEF Apply, At, Frames, FrameFits, MustBlock
    <3>3. f \in GoodFrames
      BY <3>1, <3>2, <1>top DEF GoodFrames, FrameFits, Frames
    <3>4. told' \in [Sessions -> {Nothing} \cup GoodMessages]
      <4>1. CASE Top(s).decision = "WARN"
        <5>1. MessageFits([why |-> "warned", frame |-> Top(s)])
          BY DEF MessageFits
        <5>2. Tell(s, "warned", Top(s))
          BY <1>6, <2>2, <4>1 DEF Apply
        <5>3. QED
          BY <1>top, <5>1, <5>2, TellGood DEF Messages
      <4>2. CASE Top(s).decision # "WARN"
        BY <1>6, <2>2, <4>2 DEF Apply, GuardInv
      <4>3. QED
        BY <4>1, <4>2
    <3>5. QED
      BY <1>6, <2>2, <1>hyp, <3>3, <3>4 DEF Apply, Move, GuardInv, history
  <2>3. QED
    BY <2>1, <2>2
<1>7. CASE Raise(s)
  <2>1. [Top(s) EXCEPT !.at = "catch", !.error = "internal"] \in GoodFrames
    BY <1>7, <1>top DEF Raise, At, GoodFrames, Frames, FrameFits, Stages
  <2>2. QED
    BY <1>7, <1>hyp, <2>1 DEF Raise, GuardInv, history
<1>8. CASE Rethrow(s)
  <2>1. MessageFits([why |-> "blocked", frame |-> Top(s)])
    BY <1>8, <1>top, MustBlockDecision DEF Rethrow, At, MessageFits, FrameFits
  <2>2. QED
    BY <1>8, <1>top, <2>1, TellGood, AbortGood DEF Rethrow, Messages, GuardInv, history
<1>9. CASE HandleFailure(s)
  <2>1. CASE FailsClosed(Top(s).under)
    <3>1. MessageFits([why |-> "failed_closed", frame |-> Top(s)])
      BY <2>1 DEF MessageFits, FailsClosed
    <3>2. QED
      BY <1>9, <1>top, <2>1, <3>1, TellGood, AbortGood
         DEF HandleFailure, Messages, GuardInv, history
  <2>2. CASE ~FailsClosed(Top(s).under)
    <3>1. MessageFits([why |-> "failed_open", frame |-> Top(s)])
      BY DEF MessageFits
    <3>2. [Top(s) EXCEPT !.at = "run"] \in GoodFrames
      BY <1>9, <2>2, <1>top
         DEF HandleFailure, FailsClosed, At, GoodFrames, Frames, FrameFits, Stages, MustBlock
    <3>3. QED
      BY <1>9, <1>top, <2>2, <1>hyp, <3>1, <3>2, TellGood
         DEF HandleFailure, Move, Messages, GuardInv, history
  <2>3. QED
    BY <2>1, <2>2
<1>10. QED
  BY <1>1, <1>2, <1>3, <1>4, <1>5, <1>6, <1>7, <1>8, <1>9 DEF Hook

(* The invariant is inductive.                                             *)
LEMMA NextGuardInv == GuardInv /\ [Next]_vars => GuardInv'
<1> SUFFICES ASSUME GuardInv, [Next]_vars
             PROVE  GuardInv'
  OBVIOUS
<1>1. ASSUME NEW s \in Sessions, NEW c \in Confs, Configure(s, c)
      PROVE  GuardInv'
  BY <1>1 DEF Configure, GuardInv, history
<1>2. ASSUME NEW s \in Sessions, Finish(s)
      PROVE  GuardInv'
  <2>1. Busy(s) /\ Len(stack[s]) - 1 \in 0..Len(stack[s]) - 1
    BY <1>2, TopGood DEF Finish, At
  <2>2. SubSeq(stack[s], 1, Len(stack[s]) - 1) \in Seq(GoodFrames)
    BY <2>1, DropGood
  <2>3. QED
    BY <1>2, <2>2 DEF Finish, GuardInv, history
<1>3. ASSUME NEW s \in Sessions, RunError(s)
      PROVE  GuardInv'
  BY <1>3, AbortGood DEF RunError, GuardInv, history
<1>4. CASE Restart
  <2>1. <<>> \in Seq(GoodFrames)
    OBVIOUS
  <2>2. restarts' \in Nat /\ begun' \in Nat /\ issued' \in Nat /\ capacity' \in Sizes
    BY <1>4 DEF Restart, GuardInv, History!Restart
  <2>3. QED
    BY <1>4, <2>1, <2>2 DEF Restart, GuardInv
<1>5. CASE UNCHANGED vars
  BY <1>5 DEF GuardInv, vars, history
<1>6. QED
  BY <1>1, <1>2, <1>3, <1>4, <1>5, BeginGuardInv, HookGuardInv DEF Next

(* In every state every frame and every message fits its stage.            *)
THEOREM GuardInvariant == Spec => []GuardInv
<1>1. QED
  BY InitGuardInv, NextGuardInv, PTL DEF Spec

-----------------------------------------------------------------------------

(* A frame of a stack is a good frame.                                     *)
LEMMA FramesGood ==
    ASSUME GuardInv, NEW s \in Sessions
    PROVE  FramesOf(s) \subseteq GoodFrames
  BY DEF GuardInv, FramesOf

(* Types: the stack of a session holds whole frames, and a message names   *)
(* the frame it was made from.                                             *)
THEOREM TypeCorrect == Spec => []TypeOK
<1>1. GuardInv => TypeOK
  <2> SUFFICES ASSUME GuardInv
               PROVE  TypeOK
    OBVIOUS
  <2>1. \A q \in Seq(GoodFrames) : q \in Seq(Frames)
    <3>1. GoodFrames \subseteq Frames
      BY DEF GoodFrames
    <3>2. QED
      BY <3>1
  <2>2. GoodMessages \subseteq [why: Messages, frame: Frames]
    BY DEF GoodMessages
  <2>3. stack \in [Sessions -> Seq(Frames)]
    BY <2>1 DEF GuardInv
  <2>4. told \in [Sessions -> {Nothing} \cup [why: Messages, frame: Frames]]
    BY <2>2 DEF GuardInv
  <2>5. QED
    BY <2>3, <2>4 DEF GuardInv, TypeOK
<1>2. QED
  BY <1>1, GuardInvariant, PTL

(* Under enforce a statement that must be blocked executes only after an   *)
(* internal error of its check with fail_closed off, in every nesting      *)
(* (hooks.c:78-140).                                                       *)
THEOREM HarmOnlyFailOpen == Spec => []HarmNeedsFailOpen
<1>1. GuardInv => HarmNeedsFailOpen
  BY FramesGood DEF HarmNeedsFailOpen, GoodFrames, FrameFits
<1>2. QED
  BY <1>1, GuardInvariant, PTL

(* Outside enforce the guard stops no statement of its own accord          *)
(* (hooks.c:78-94, risk_engine.c:148-180).                                 *)
THEOREM StopsOnlyUnderEnforce == Spec => []OnlyEnforceStops
<1>1. GuardInv => OnlyEnforceStops
  <2> SUFFICES ASSUME GuardInv, NEW s \in Sessions
               PROVE  /\ told[s].why = "blocked" =>
                           MustBlock(told[s].frame) /\ told[s].frame.error # "internal"
                      /\ told[s].why = "failed_closed" =>
                           /\ told[s].frame.under.mode = "enforce"
                           /\ told[s].frame.under.fail_closed
    BY DEF OnlyEnforceStops
  <2>1. CASE told[s] = Nothing
    BY <2>1 DEF Nothing
  <2>2. CASE told[s] \in GoodMessages
    BY <2>2 DEF GoodMessages, MessageFits
  <2>3. QED
    BY <2>1, <2>2 DEF GuardInv
<1>2. QED
  BY <1>1, GuardInvariant, PTL

(* A statement that executes although the history says it was blocked had  *)
(* an internal error after the recording (hooks.c:112-125).                *)
THEOREM RecordedBlocksStop == Spec => []RecordedBlockStops
<1>1. GuardInv => RecordedBlockStops
  BY FramesGood DEF RecordedBlockStops, GoodFrames, FrameFits
<1>2. QED
  BY <1>1, GuardInvariant, PTL

-----------------------------------------------------------------------------
(* What a session was told is on record                                    *)

(* The retained events carry consecutive numbers, the newest one first, as *)
(* many as the history holds.                                              *)
HistoryFits ==
    /\ recent \in Seq([event_id: Nat, decision_id: Nat, body: RiskEvents])
    /\ Len(recent) = IF issued < capacity THEN issued ELSE capacity
    /\ \A i \in 1..Len(recent) : recent[i].event_id = issued + 1 - i

Exempt(s, f) == s \in Detached \/ f.under.fault = "event_full"

(* A frame past its recording was recorded, and under its number.          *)
FrameRecorded(s, f) ==
    /\ f.event_id > 0 => OnRecord(s, f)
    /\ f.at = "apply" \/ (f.at = "catch" /\ f.error = "insufficient_privilege") =>
          Exempt(s, f) \/ f.decision = "ALLOW" \/ f.event_id > 0

MessageRecorded(s, m) ==
    m.why \in {"warned", "blocked"} =>
        Exempt(s, m.frame) \/ (m.frame.event_id > 0 /\ OnRecord(s, m.frame))

RecordInv ==
    /\ GuardInv
    /\ HistoryFits
    /\ \A s \in Sessions : \A f \in FramesOf(s) : FrameRecorded(s, f)
    /\ \A s \in Sessions : MessageRecorded(s, told[s])

(* A recording moves the retained events one place down.                   *)
LEMMA RecentAfterRecord ==
    ASSUME HistoryFits, issued \in Nat, capacity \in Nat \ {0},
           NEW e \in RiskEvents, History!Record(e)
    PROVE  /\ HistoryFits'
           /\ Len(recent') >= 1
           /\ recent'[1] = [event_id |-> issued + 1, decision_id |-> issued + 1, body |-> e]
           /\ \A i \in 1..Len(recent) : i + 1 <= capacity =>
                 i + 1 \in 1..Len(recent') /\ recent'[i + 1] = recent[i]
  <1> DEFINE entry == [event_id |-> issued + 1, decision_id |-> issued + 1, body |-> e]
             all == <<entry>> \o recent
             Entries == [event_id: Nat, decision_id: Nat, body: RiskEvents]
  <1>1. recent \in Seq(Entries) /\ entry \in Entries
    BY DEF HistoryFits
  <1>2. all \in Seq(Entries) /\ Len(all) = Len(recent) + 1
    BY <1>1
  <1>3. all[1] = entry /\ \A i \in 1..Len(recent) : all[i + 1] = recent[i]
    BY <1>1
  <1>4. /\ issued' = issued + 1
        /\ capacity' = capacity
        /\ recent' = IF Len(all) > capacity THEN SubSeq(all, 1, capacity) ELSE all
    BY DEF History!Record, History!AtMost, History!Numbered
  <1> HIDE DEF all, entry, Entries
  <1>5. /\ recent' \in Seq(Entries)
        /\ Len(recent') = IF Len(recent) + 1 > capacity THEN capacity ELSE Len(recent) + 1
        /\ \A i \in 1..Len(recent') : recent'[i] = all[i]
    <2>1. CASE Len(all) > capacity
      <3>1. \A i \in 1..capacity : all[i] \in Entries
        BY <1>2, <2>1
      <3>2. QED
        BY <1>1, <1>2, <1>4, <2>1, <3>1
    <2>2. CASE ~(Len(all) > capacity)
      BY <1>1, <1>2, <1>4, <2>2
    <2>3. QED
      BY <2>1, <2>2
  <1>6. Len(recent) \in Nat /\ Len(recent) = IF issued < capacity THEN issued ELSE capacity
    BY <1>1 DEF HistoryFits
  <1>7. Len(recent') = IF issued' < capacity' THEN issued' ELSE capacity'
    BY <1>4, <1>5, <1>6
  <1>8. \A i \in 1..Len(recent') : recent'[i].event_id = issued' + 1 - i
    <2> SUFFICES ASSUME NEW i \in 1..Len(recent')
                 PROVE  recent'[i].event_id = issued' + 1 - i
      OBVIOUS
    <2>1. CASE i = 1
      BY <1>3, <1>4, <1>5, <2>1 DEF entry
    <2>2. CASE i # 1
      <3>1. i - 1 \in 1..Len(recent)
        BY <1>5, <1>6, <2>2
      <3>2. recent'[i] = recent[i - 1]
        BY <1>3, <1>5, <3>1
      <3>3. recent[i - 1].event_id = issued + 1 - (i - 1)
        BY <3>1 DEF HistoryFits
      <3>4. QED
        BY <1>4, <3>1, <3>2, <3>3
    <2>3. QED
      BY <2>1, <2>2
  <1>9. HistoryFits'
    BY <1>5, <1>7, <1>8 DEF HistoryFits, Entries
  <1>10. Len(recent') >= 1 /\ recent'[1] = entry
    BY <1>3, <1>5, <1>6
  <1>11. \A i \in 1..Len(recent) : i + 1 <= capacity =>
            i + 1 \in 1..Len(recent') /\ recent'[i + 1] = recent[i]
    BY <1>3, <1>5, <1>6
  <1>12. QED
    BY <1>9, <1>10, <1>11 DEF entry

(* What is on record stays there until capacity newer events replace it.   *)
LEMMA StaysOnRecord ==
    ASSUME HistoryFits, issued \in Nat, capacity \in Nat \ {0},
           NEW e \in RiskEvents, History!Record(e),
           NEW s \in Sessions, NEW f \in Frames, OnRecord(s, f)
    PROVE  OnRecord(s, f)'
  <1>1. issued' = issued + 1 /\ capacity' = capacity /\ f.event_id \in Nat
    BY DEF History!Record, Frames
  <1>2. CASE f.event_id + capacity <= issued
    BY <1>1, <1>2 DEF OnRecord
  <1>3. CASE ~(f.event_id + capacity <= issued)
    <2>1. PICK i \in 1..Len(recent) :
             /\ recent[i].event_id = f.event_id
             /\ recent[i].body = [by |-> s, kind |-> f.info.kind, decision |-> f.decision]
      BY <1>3 DEF OnRecord
    <2>2. Len(recent) \in Nat /\ Len(recent) <= capacity
      BY DEF HistoryFits
    <2>3. CASE i + 1 <= capacity
      <3>1. i + 1 \in 1..Len(recent') /\ recent'[i + 1] = recent[i]
        BY <2>3, RecentAfterRecord
      <3>2. QED
        BY <2>1, <3>1 DEF OnRecord
    <2>4. CASE ~(i + 1 <= capacity)
      <3>1. f.event_id = issued + 1 - i /\ i = capacity
        BY <2>1, <2>2, <2>4 DEF HistoryFits
      <3>2. QED
        BY <1>1, <3>1 DEF OnRecord
    <2>5. QED
      BY <2>3, <2>4
  <1>4. QED
    BY <1>2, <1>3

(* The frames of a stack after its innermost one was replaced, and after   *)
(* some were dropped.                                                      *)
LEMMA FramesAfterSetTop ==
    ASSUME GuardInv, NEW s \in Sessions, Busy(s), NEW g, SetTop(s, g),
           NEW v \in Sessions, NEW f \in FramesOf(v)'
    PROVE  f \in FramesOf(v) \/ (v = s /\ f = g)
  <1>1. stack \in [Sessions -> Seq(GoodFrames)] /\ stack[s] \in Seq(GoodFrames)
    BY DEF GuardInv
  <1>2. stack' = [stack EXCEPT ![s] = [stack[s] EXCEPT ![Len(stack[s])] = g]]
    BY DEF SetTop
  <1>3. PICK i \in 1..Len(stack'[v]) : f = stack'[v][i]
    BY DEF FramesOf
  <1>4. CASE v # s
    BY <1>1, <1>2, <1>3, <1>4 DEF FramesOf
  <1>5. CASE v = s
    <2>1. stack'[s] = [stack[s] EXCEPT ![Len(stack[s])] = g]
      BY <1>1, <1>2
    <2>2. Len(stack'[s]) = Len(stack[s])
      BY <1>1, <2>1
    <2>3. i \in 1..Len(stack[s]) /\ (f = g \/ f = stack[s][i])
      BY <1>1, <1>3, <1>5, <2>1, <2>2
    <2>4. QED
      BY <1>5, <2>3 DEF FramesOf
  <1>6. QED
    BY <1>4, <1>5

(* No frame appears where only frames are dropped.                         *)
LEMMA FramesAfterDrop ==
    ASSUME GuardInv, NEW s \in Sessions, NEW n \in 0..Len(stack[s]) - 1,
           stack' = [stack EXCEPT ![s] = SubSeq(stack[s], 1, n)],
           NEW v \in Sessions, NEW f \in FramesOf(v)'
    PROVE  f \in FramesOf(v)
  <1>1. stack \in [Sessions -> Seq(GoodFrames)] /\ stack[s] \in Seq(GoodFrames)
    BY DEF GuardInv
  <1>2. PICK i \in 1..Len(stack'[v]) : f = stack'[v][i]
    BY DEF FramesOf
  <1>3. CASE v # s
    BY <1>1, <1>2, <1>3 DEF FramesOf
  <1>4. CASE v = s
    <2>1. stack'[s] = SubSeq(stack[s], 1, n) /\ Len(stack'[s]) = n
      BY <1>1
    <2>2. i \in 1..n /\ i \in 1..Len(stack[s]) /\ f = stack[s][i]
      BY <1>1, <1>2, <1>4, <2>1
    <2>3. QED
      BY <1>4, <2>2 DEF FramesOf
  <1>5. QED
    BY <1>3, <1>4

(* A step keeps the record invariant when what was on record stays there   *)
(* and every new frame and message is on record.                           *)
LEMMA RecordStep ==
    ASSUME RecordInv, GuardInv', HistoryFits',
           \A v \in Sessions : \A f \in Frames : OnRecord(v, f) => OnRecord(v, f)',
           \A v \in Sessions : \A f \in FramesOf(v)' : f \in FramesOf(v) \/ FrameRecorded(v, f)',
           \A v \in Sessions : \/ told'[v] = told[v]
                               \/ MessageRecorded(v, told[v])'
    PROVE  RecordInv'
  <1>1. ASSUME NEW v \in Sessions, NEW f \in FramesOf(v)'
        PROVE  FrameRecorded(v, f)'
    <2>1. CASE f \in FramesOf(v)
      <3>1. f \in Frames /\ FrameRecorded(v, f)
        BY <2>1, FramesGood DEF RecordInv, GoodFrames
      <3>2. QED
        BY <3>1 DEF FrameRecorded, Exempt
    <2>2. QED
      BY <2>1
  <1>2. ASSUME NEW v \in Sessions
        PROVE  MessageRecorded(v, told[v])'
    <2>1. CASE told'[v] = told[v]
      <3>1. MessageRecorded(v, told[v]) /\ told[v] \in {Nothing} \cup GoodMessages
        BY DEF RecordInv, GuardInv
      <3>2. CASE told[v] = Nothing
        BY <2>1, <3>2 DEF Nothing, MessageRecorded
      <3>3. CASE told[v] \in GoodMessages
        <4>1. told[v].frame \in Frames
          BY <3>3 DEF GoodMessages
        <4>2. QED
          BY <2>1, <3>1, <4>1 DEF MessageRecorded, Exempt
      <3>4. QED
        BY <3>1, <3>2, <3>3
    <2>2. QED
      BY <2>1
  <1>3. QED
    BY <1>1, <1>2 DEF RecordInv

(* A step that leaves the history alone keeps the record invariant when    *)
(* its new frames and messages are on record already.                      *)
LEMMA QuietStep ==
    ASSUME RecordInv, GuardInv', UNCHANGED history,
           \A v \in Sessions : \A f \in FramesOf(v)' : f \in FramesOf(v) \/ FrameRecorded(v, f),
           \A v \in Sessions : \/ told'[v] = told[v]
                               \/ MessageRecorded(v, told'[v])
    PROVE  RecordInv'
  <1>1. HistoryFits'
    BY DEF RecordInv, HistoryFits, history
  <1>2. \A v \in Sessions : \A f \in Frames : OnRecord(v, f) => OnRecord(v, f)'
    BY DEF OnRecord, history
  <1>3. \A v \in Sessions : \A f \in FramesOf(v)' : f \in FramesOf(v) \/ FrameRecorded(v, f)'
    BY DEF FrameRecorded, Exempt, OnRecord, history
  <1>4. \A v \in Sessions : told'[v] = told[v] \/ MessageRecorded(v, told[v])'
    BY DEF MessageRecorded, Exempt, OnRecord, history
  <1>5. QED
    BY <1>1, <1>2, <1>3, <1>4, RecordStep

(* The same for a step that replaces the innermost frame.                  *)
LEMMA QuietSetTop ==
    ASSUME RecordInv, GuardInv', UNCHANGED history,
           NEW s \in Sessions, Busy(s), NEW g, SetTop(s, g), FrameRecorded(s, g),
           \A v \in Sessions : told'[v] = told[v] \/ MessageRecorded(v, told'[v])
    PROVE  RecordInv'
  BY FramesAfterSetTop, QuietStep DEF RecordInv

(* The same for an error that ends statements.                             *)
LEMMA QuietAbort ==
    ASSUME RecordInv, GuardInv', UNCHANGED history, NEW s \in Sessions, Abort(s),
           \A v \in Sessions : told'[v] = told[v] \/ MessageRecorded(v, told'[v])
    PROVE  RecordInv'
  <1>1. PICK n \in 0..Len(stack[s]) - 1 :
           stack' = [stack EXCEPT ![s] = SubSeq(stack[s], 1, n)]
    BY DEF Abort
  <1>2. \A v \in Sessions : \A f \in FramesOf(v)' : f \in FramesOf(v)
    BY <1>1, FramesAfterDrop DEF RecordInv
  <1>3. QED
    BY <1>2, QuietStep

(* A message leaves what the other sessions were told alone.               *)
LEMMA TellRecorded ==
    ASSUME GuardInv, NEW s \in Sessions, NEW why, NEW f, Tell(s, why, f),
           MessageRecorded(s, [why |-> why, frame |-> f])
    PROVE  \A v \in Sessions : told'[v] = told[v] \/ MessageRecorded(v, told'[v])
  BY DEF GuardInv, Tell

-----------------------------------------------------------------------------

(* A started server satisfies the record invariant.                        *)
LEMMA InitRecordInv == Init => RecordInv
  <1> SUFFICES ASSUME Init
               PROVE  RecordInv
    OBVIOUS
  <1>1. HistoryFits
    BY SizesAssumption DEF Init, History!Init, HistoryFits
  <1>2. \A s \in Sessions : FramesOf(s) = {} /\ MessageRecorded(s, told[s])
    BY DEF Init, FramesOf, MessageRecorded, Nothing
  <1>3. QED
    BY <1>1, <1>2, InitGuardInv DEF RecordInv

(* Every step of the hooks keeps the record invariant (hooks.c:43-140,     *)
(* event.c:102-138).                                                       *)
LEMMA HookRecordInv ==
    ASSUME RecordInv, NEW s \in Sessions, Hook(s)
    PROVE  RecordInv'
<1>inv. GuardInv /\ GuardInv'
  BY HookGuardInv DEF RecordInv
<1>bus. Busy(s)
  BY DEF Hook, Skip, Analyze, AnalyzeError, Assess, Persist, Apply, Raise, Rethrow,
         HandleFailure, At
<1>top. Top(s) \in Frames /\ FrameFits(Top(s)) /\ Top(s) \in FramesOf(s)
  BY <1>bus, <1>inv, TopGood DEF GoodFrames, FramesOf, Top
<1>rec. FrameRecorded(s, Top(s))
  BY <1>top DEF RecordInv
<1>1. CASE Skip(s)
  <2>1. FrameRecorded(s, [Top(s) EXCEPT !.at = "run"])
    BY <1>1, <1>top DEF Skip, At, Frames, FrameFits, FrameRecorded
  <2>2. QED
    BY <1>1, <1>inv, <1>bus, <2>1, QuietSetTop DEF Skip, Move
<1>2. CASE Analyze(s)
  <2>1. \A stage \in {"run", "collect"} : FrameRecorded(s, [Top(s) EXCEPT !.at = stage])
    BY <1>2, <1>top DEF Analyze, At, Frames, FrameFits, FrameRecorded
  <2>2. QED
    BY <1>2, <1>inv, <1>bus, <2>1, QuietSetTop DEF Analyze, Move
<1>3. CASE AnalyzeError(s)
  <2>1. MessageRecorded(s, [why |-> "not_analyzed", frame |-> Top(s)])
    BY DEF MessageRecorded
  <2>2. QED
    BY <1>3, <1>inv, <2>1, TellRecorded, QuietAbort DEF AnalyzeError
<1>4. CASE Assess(s)
  <2>1. FrameRecorded(s, [Top(s) EXCEPT !.at = "persist",
                                        !.decision = Decision(Top(s).under, Top(s).info)])
    BY <1>4, <1>top DEF Assess, At, Frames, FrameFits, FrameRecorded
  <2>2. QED
    BY <1>4, <1>inv, <1>bus, <2>1, QuietSetTop DEF Assess
<1>5. CASE Persist(s)
  <2>0. /\ Top(s).at = "persist"
        /\ issued \in Nat
        /\ capacity \in Nat \ {0}
        /\ UNCHANGED told
    <3>1. Top(s).at = "persist" /\ UNCHANGED told
      BY <1>5 DEF Persist, At
    <3>2. issued \in Nat /\ capacity \in Nat \ {0}
      BY <1>inv, SizesAssumption DEF GuardInv
    <3>3. QED
      BY <3>1, <3>2
  <2>1. CASE Recorded(s)
    <3> DEFINE e == Event(s)
    <3>1. History!Record(e) /\ SetTop(s, [Top(s) EXCEPT !.at = "apply", !.event_id = issued + 1])
      BY <1>5, <2>1 DEF Persist
    <3>2. /\ e \in RiskEvents
          /\ e = [by |-> s, kind |-> Top(s).info.kind, decision |-> Top(s).decision]
      BY <1>top, StatementsAssumption DEF Event, Frames, RiskEvents, Infos
    <3> HIDE DEF e
    <3>3. /\ HistoryFits'
          /\ Len(recent') >= 1
          /\ recent'[1] = [event_id |-> issued + 1, decision_id |-> issued + 1, body |-> e]
      BY <2>0, <3>1, <3>2, RecentAfterRecord DEF RecordInv
    <3>4. \A v \in Sessions : \A f \in Frames : OnRecord(v, f) => OnRecord(v, f)'
      BY <2>0, <3>1, <3>2, StaysOnRecord DEF RecordInv
    <3>5. ASSUME NEW f, f = [Top(s) EXCEPT !.at = "apply", !.event_id = issued + 1]
          PROVE  FrameRecorded(s, f)'
      <4>1. /\ f.event_id = issued + 1 /\ f.at = "apply"
            /\ f.info = Top(s).info /\ f.decision = Top(s).decision
        BY <3>5, <1>top DEF Frames
      <4>2. 1 \in 1..Len(recent')
        BY <3>3 DEF HistoryFits
      <4>3. recent'[1].event_id = f.event_id /\ recent'[1].body
               = [by |-> s, kind |-> f.info.kind, decision |-> f.decision]
        BY <3>2, <3>3, <4>1
      <4>4. OnRecord(s, f)'
        BY <4>2, <4>3 DEF OnRecord
      <4>5. QED
        BY <2>0, <4>1, <4>4 DEF FrameRecorded
    <3>6. \A v \in Sessions : \A f \in FramesOf(v)' :
             f \in FramesOf(v) \/ FrameRecorded(v, f)'
      BY <1>inv, <1>bus, <3>1, <3>5, FramesAfterSetTop
    <3>7. QED
      BY <1>inv, <2>0, <3>3, <3>4, <3>6, RecordStep
  <2>2. CASE ~Recorded(s)
    <3>1. Exempt(s, Top(s)) \/ Top(s).decision = "ALLOW"
      BY <2>2 DEF Recorded, Exempt
    <3>2. FrameRecorded(s, [Top(s) EXCEPT !.at = "apply"])
      BY <2>0, <3>1, <1>top DEF Frames, FrameFits, FrameRecorded, Exempt
    <3>3. QED
      BY <1>5, <2>0, <2>2, <1>inv, <1>bus, <3>2, QuietSetTop DEF Persist, Move
  <2>3. QED
    BY <2>1, <2>2
<1>6. CASE Apply(s)
  <2>0. Top(s).at = "apply" /\ UNCHANGED history
    BY <1>6 DEF Apply, At
  <2>1. CASE Top(s).decision = "BLOCK"
    <3> DEFINE g == [Top(s) EXCEPT !.at = "catch", !.error = "insufficient_privilege"]
    <3>1. /\ g.event_id = Top(s).event_id /\ g.info = Top(s).info
          /\ g.decision = Top(s).decision /\ g.under = Top(s).under
      BY <1>top DEF Frames
    <3>2. FrameRecorded(s, g)
      BY <1>rec, <2>0, <3>1 DEF FrameRecorded, OnRecord, Exempt
    <3>3. QED
      BY <1>6, <2>0, <2>1, <1>inv, <1>bus, <3>2, QuietSetTop DEF Apply
  <2>2. CASE Top(s).decision # "BLOCK"
    <3> DEFINE g == [Top(s) EXCEPT !.at = "run"]
    <3>1. /\ g.event_id = Top(s).event_id /\ g.info = Top(s).info /\ g.at = "run"
          /\ g.decision = Top(s).decision /\ g.under = Top(s).under
      BY <1>top DEF Frames
    <3>2. FrameRecorded(s, g)
      BY <1>rec, <3>1 DEF FrameRecorded, OnRecord
    <3>3. \A v \in Sessions : told'[v] = told[v] \/ MessageRecorded(v, told'[v])
      <4>1. CASE Top(s).decision = "WARN"
        <5>1. MessageRecorded(s, [why |-> "warned", frame |-> Top(s)])
          BY <1>rec, <2>0, <4>1 DEF FrameRecorded, MessageRecorded
        <5>2. Tell(s, "warned", Top(s))
          BY <1>6, <2>2, <4>1 DEF Apply
        <5>3. QED
          BY <1>inv, <5>1, <5>2, TellRecorded
      <4>2. CASE Top(s).decision # "WARN"
        BY <1>6, <2>2, <4>2 DEF Apply
      <4>3. QED
        BY <4>1, <4>2
    <3>4. QED
      BY <1>6, <2>0, <2>2, <1>inv, <1>bus, <3>2, <3>3, QuietSetTop DEF Apply, Move
  <2>3. QED
    BY <2>1, <2>2
<1>7. CASE Raise(s)
  <2> DEFINE g == [Top(s) EXCEPT !.at = "catch", !.error = "internal"]
  <2>1. /\ g.event_id = Top(s).event_id /\ g.info = Top(s).info /\ g.error = "internal"
        /\ g.decision = Top(s).decision /\ g.at = "catch"
    BY <1>top DEF Frames
  <2>2. FrameRecorded(s, g)
    BY <1>rec, <2>1 DEF FrameRecorded, OnRecord
  <2>3. QED
    BY <1>7, <1>inv, <1>bus, <2>2, QuietSetTop DEF Raise
<1>8. CASE Rethrow(s)
  <2>1. MessageRecorded(s, [why |-> "blocked", frame |-> Top(s)])
    BY <1>8, <1>top, <1>rec DEF Rethrow, At, FrameFits, FrameRecorded, MessageRecorded
  <2>2. QED
    BY <1>8, <1>inv, <2>1, TellRecorded, QuietAbort DEF Rethrow
<1>9. CASE HandleFailure(s)
  <2>1. CASE FailsClosed(Top(s).under)
    <3>1. MessageRecorded(s, [why |-> "failed_closed", frame |-> Top(s)])
      BY DEF MessageRecorded
    <3>2. QED
      BY <1>9, <2>1, <1>inv, <3>1, TellRecorded, QuietAbort DEF HandleFailure
  <2>2. CASE ~FailsClosed(Top(s).under)
    <3> DEFINE g == [Top(s) EXCEPT !.at = "run"]
    <3>1. MessageRecorded(s, [why |-> "failed_open", frame |-> Top(s)])
      BY DEF MessageRecorded
    <3>2. /\ g.event_id = Top(s).event_id /\ g.info = Top(s).info /\ g.at = "run"
          /\ g.decision = Top(s).decision
      BY <1>top DEF Frames
    <3>3. FrameRecorded(s, g)
      BY <1>rec, <3>2 DEF FrameRecorded, OnRecord
    <3>4. QED
      BY <1>9, <2>2, <1>inv, <1>bus, <3>1, <3>3, TellRecorded, QuietSetTop
         DEF HandleFailure, Move
  <2>3. QED
    BY <2>1, <2>2
<1>10. QED
  BY <1>1, <1>2, <1>3, <1>4, <1>5, <1>6, <1>7, <1>8, <1>9 DEF Hook

(* The record invariant is inductive.                                      *)
LEMMA NextRecordInv == RecordInv /\ [Next]_vars => RecordInv'
<1> SUFFICES ASSUME RecordInv, [Next]_vars
             PROVE  RecordInv'
  OBVIOUS
<1>inv. GuardInv /\ GuardInv'
  BY NextGuardInv DEF RecordInv
<1>1. ASSUME NEW s \in Sessions, NEW c \in Confs, Configure(s, c)
      PROVE  RecordInv'
  BY <1>inv, <1>1, QuietStep DEF Configure, FramesOf
<1>2. ASSUME NEW s \in Sessions, NEW info \in Statements, Begin(s, info)
      PROVE  RecordInv'
  <2> DEFINE g == [info |-> info, under |-> conf[s], at |-> "hook", decision |-> "ALLOW",
                   event_id |-> 0, error |-> "none"]
  <2>1. stack[s] \in Seq(GoodFrames) /\ stack' = [stack EXCEPT ![s] = Append(stack[s], g)]
    BY <1>inv, <1>2 DEF Begin, GuardInv
  <2>2. FrameRecorded(s, g)
    BY DEF FrameRecorded
  <2> HIDE DEF g
  <2>3. ASSUME NEW v \in Sessions, NEW f \in FramesOf(v)'
        PROVE  f \in FramesOf(v) \/ FrameRecorded(v, f)
    <3>1. PICK i \in 1..Len(stack'[v]) : f = stack'[v][i]
      BY DEF FramesOf
    <3>2. CASE v # s
      BY <1>inv, <2>1, <3>1, <3>2 DEF FramesOf, GuardInv
    <3>3. CASE v = s
      <4>1. stack'[s] = Append(stack[s], g) /\ Len(stack'[s]) = Len(stack[s]) + 1
        BY <1>inv, <2>1 DEF GuardInv
      <4>2. f = g \/ (i \in 1..Len(stack[s]) /\ f = stack[s][i])
        BY <2>1, <3>1, <3>3, <4>1
      <4>3. QED
        BY <2>2, <3>3, <4>2 DEF FramesOf
    <3>4. QED
      BY <3>2, <3>3
  <2>4. QED
    BY <1>inv, <1>2, <2>3, QuietStep DEF Begin
<1>3. ASSUME NEW s \in Sessions, Finish(s)
      PROVE  RecordInv'
  <2>1. Busy(s) /\ Len(stack[s]) - 1 \in 0..Len(stack[s]) - 1
    BY <1>inv, <1>3, TopGood DEF Finish, At
  <2>2. \A v \in Sessions : \A f \in FramesOf(v)' : f \in FramesOf(v)
    BY <1>inv, <1>3, <2>1, FramesAfterDrop DEF Finish
  <2>3. QED
    BY <1>inv, <1>3, <2>2, QuietStep DEF Finish
<1>4. ASSUME NEW s \in Sessions, RunError(s)
      PROVE  RecordInv'
  BY <1>inv, <1>4, QuietAbort DEF RunError
<1>5. CASE Restart
  <2>1. HistoryFits'
    BY <1>5, SizesAssumption DEF Restart, History!Restart, HistoryFits
  <2>2. \A s \in Sessions : FramesOf(s)' = {} /\ MessageRecorded(s, told[s])'
    BY <1>5 DEF Restart, FramesOf, MessageRecorded, Nothing
  <2>3. QED
    BY <1>inv, <2>1, <2>2 DEF RecordInv
<1>6. CASE UNCHANGED vars
  BY <1>inv, <1>6, QuietStep DEF vars, FramesOf
<1>7. QED
  BY <1>1, <1>2, <1>3, <1>4, <1>5, <1>6, HookRecordInv DEF Next

(* Whatever a session was told of a decision is on record under the number *)
(* the decision was given, until capacity newer events replaced it         *)
(* (hooks.c:112-117, event.c:102-138, shmem.c:124-196).                    *)
THEOREM ToldIsRecorded == Spec => []ToldIsOnRecord
<1>1. RecordInv => ToldIsOnRecord
  BY DEF RecordInv, ToldIsOnRecord, MessageRecorded, Exempt
<1>2. QED
  BY <1>1, InitRecordInv, NextRecordInv, PTL DEF Spec

=============================================================================
