---------------------------- MODULE SignalProofs ----------------------------
(***************************************************************************)
(* Proofs about the signals of the runtime state.  About WalSample, for    *)
(* every number of sessions, every setting of the thresholds and every     *)
(* bound: the types, and that no WAL is counted twice.  What makes the     *)
(* latter inductive: the positions that sessions still have in hand lie on *)
(* the line of all WAL ever written, and those from before a reset of the  *)
(* statistics end where the later ones begin.  About RuntimeState, for any *)
(* server and any settings: that the report explains the score, and that   *)
(* the score does not fall as the server gets worse.                       *)
(***************************************************************************)
EXTENDS WalSample, RuntimeState, FoldTheorems

InHand(s) == sampling[s].at \in {"fetched", "timed"}

(* The positions that are still in use.                                    *)
Live ==
    {fetched[s].pos : s \in {r \in Samplers : fetched[r] # Nothing}}
        \cup {sampling[s].pos : s \in {r \in Samplers : InHand(r)}}
        \cup (IF sample = Nothing THEN {} ELSE {sample.pos})

(* A position was shown by the statistics once.                            *)
WellPlaced(p) ==
    /\ p.since <= resets
    /\ UpTo(p) <= written
    /\ p.since < resets => UpTo(p) <= resets

InOrder(p, q) == p.since < q.since => UpTo(p) <= q.since

LiveInOrder ==
    /\ \A p \in Live : WellPlaced(p)
    /\ \A p, q \in Live : InOrder(p, q)

CountedUpToSample ==
    IF sample = Nothing THEN counted = 0 ELSE rewound \/ counted <= UpTo(sample.pos)

WalInv ==
    /\ WalTypeOK
    /\ LiveInOrder
    /\ CountedUpToSample

-----------------------------------------------------------------------------
(* Positions                                                               *)

LEMMA LivePositions == WalTypeOK => Live \subseteq Positions
<1> SUFFICES ASSUME WalTypeOK, NEW p \in Live
             PROVE  p \in Positions
  OBVIOUS
<1>1. CASE \E s \in Samplers : fetched[s] # Nothing /\ p = fetched[s].pos
  BY <1>1 DEF WalTypeOK
<1>2. CASE \E s \in Samplers : InHand(s) /\ p = sampling[s].pos
  BY <1>2 DEF WalTypeOK, InHand, Nothing
<1>3. CASE sample # Nothing /\ p = sample.pos
  BY <1>3 DEF WalTypeOK
<1>4. QED
  BY <1>1, <1>2, <1>3 DEF Live

(* What the statistics show comes after every position they have shown.    *)
LEMMA CurrentIsLatest ==
    ASSUME WalTypeOK, LiveInOrder
    PROVE  /\ Current \in Positions
           /\ WellPlaced(Current)
           /\ \A p \in Live : InOrder(p, Current) /\ InOrder(Current, p)
           /\ InOrder(Current, Current)
<1>1. resets \in Nat /\ written \in Nat /\ resets <= written
  BY DEF WalTypeOK
<1>2. Current \in Positions /\ Current.since = resets /\ UpTo(Current) = written
  BY <1>1 DEF Current, Positions, UpTo
<1>3. Live \subseteq Positions
  BY LivePositions
<1>4. QED
  BY <1>1, <1>2, <1>3 DEF LiveInOrder, WellPlaced, InOrder, UpTo, Positions

(* The order is kept where the statistics grow or are reset ...            *)
LEMMA ServerKeepsOrder ==
    ASSUME WalTypeOK, LiveInOrder, Live' = Live,
           written' \in Nat, written <= written',
           resets' = resets \/ resets' = written
    PROVE  LiveInOrder'
<1>1. resets \in Nat /\ written \in Nat /\ resets <= written
  BY DEF WalTypeOK
<1>2. ASSUME NEW p \in Live
      PROVE  WellPlaced(p)'
  <2>1. p \in Positions /\ WellPlaced(p)
    BY LivePositions DEF LiveInOrder
  <2>2. QED
    BY <1>1, <2>1 DEF WellPlaced, UpTo, Positions
<1>3. QED
  BY <1>2 DEF LiveInOrder, InOrder, UpTo

(* ... and where sessions pass positions on, and read a new one.           *)
LEMMA SessionsKeepOrder ==
    ASSUME WalTypeOK, LiveInOrder, Live' \subseteq Live \cup {Current}, UNCHANGED walServer
    PROVE  LiveInOrder'
<1>1. \A p \in Live \cup {Current} : WellPlaced(p)'
  BY CurrentIsLatest DEF LiveInOrder, WellPlaced, UpTo, walServer
<1>2. \A p, q \in Live \cup {Current} : InOrder(p, q)
  BY CurrentIsLatest DEF LiveInOrder
<1>3. QED
  BY <1>1, <1>2 DEF LiveInOrder, InOrder, UpTo

(* WAL between two positions is counted up to the later one.               *)
LEMMA DeltaReachesPosition ==
    ASSUME NEW p \in Positions, NEW q \in Positions, NEW n \in Nat,
           n <= UpTo(p), InOrder(p, q), ~Older(q, p)
    PROVE  n + Delta(p, q) <= UpTo(q)
BY DEF Positions, UpTo, InOrder, Older, Delta

LEMMA DeltaIsNat ==
    ASSUME NEW p \in Positions, NEW q \in Positions
    PROVE  Delta(p, q) \in Nat
BY DEF Positions, Delta

LEMMA LevelIsLevel ==
    ASSUME NEW rate, NEW limit
    PROVE  Level(rate, limit) \in 0..3
BY DEF Level

-----------------------------------------------------------------------------
(* Types                                                                   *)

LEMMA FreshTypes ==
    ASSUME NEW chosen \in Limits
    PROVE  [s \in Samplers |-> [rate |-> NoRate, level |-> 0, by |-> chosen[s]]]
              \in [Samplers -> Reports]
<1> SUFFICES ASSUME NEW s \in Samplers
             PROVE  [rate |-> NoRate, level |-> 0, by |-> chosen[s]] \in Reports
  OBVIOUS
<1>1. NoRate \in Rates
  BY DEF NoRate, Rates
<1>2. chosen[s] \in WalThresholds
  BY LimitsAssumption
<1>3. QED
  BY <1>1, <1>2 DEF Reports

LEMMA InitTypes == WalInit => WalTypeOK
<1> SUFFICES ASSUME WalInit
             PROVE  WalTypeOK
  OBVIOUS
<1>1. report \in [Samplers -> Reports]
  BY FreshTypes DEF WalInit
<1>2. limits \in Limits /\ now \in Nat /\ written \in Nat /\ resets \in 0..written
  BY DEF WalInit
<1>3. sample = Nothing /\ counted \in Nat /\ rewound \in BOOLEAN
  BY DEF WalInit
<1>4. fetched = [s \in Samplers |-> Nothing] /\ sampling = [s \in Samplers |-> Nothing]
  BY DEF WalInit
<1>5. QED
  BY <1>1, <1>2, <1>3, <1>4 DEF WalTypeOK

LEMMA ServerTypes ==
    ASSUME WalTypeOK, Write \/ ResetStats \/ Tick \/ WalRestart
    PROVE  WalTypeOK'
<1>1. CASE Write
  BY <1>1 DEF Write, WalTypeOK, tally
<1>2. CASE ResetStats
  BY <1>2 DEF ResetStats, WalTypeOK, tally
<1>3. CASE Tick
  BY <1>3 DEF Tick, WalTypeOK, tally
<1>4. CASE WalRestart
  <2>1. report' \in [Samplers -> Reports]
    BY <1>4, FreshTypes DEF WalRestart
  <2>2. limits' \in Limits /\ now' \in Nat /\ written' \in Nat /\ resets' \in 0..written'
    BY <1>4 DEF WalRestart, WalTypeOK
  <2>3. sample' = Nothing /\ counted' \in Nat /\ rewound' \in BOOLEAN
    BY <1>4 DEF WalRestart
  <2>4. /\ fetched' = [s \in Samplers |-> Nothing]
        /\ sampling' = [s \in Samplers |-> Nothing]
    BY <1>4 DEF WalRestart
  <2>5. QED
    BY <2>1, <2>2, <2>3, <2>4 DEF WalTypeOK
<1>5. QED
  BY <1>1, <1>2, <1>3, <1>4

(* What a session has in hand while it samples.                            *)
LEMMA SessionTypes ==
    ASSUME WalTypeOK, NEW s \in Samplers
    PROVE  /\ sampling[s].at = "fetched" => sampling[s].pos \in Positions
           /\ sampling[s].at = "timed" =>
                 sampling[s].pos \in Positions /\ sampling[s].time \in Nat
           /\ fetched[s] # Nothing => fetched[s].pos \in Positions
           /\ limits[s] \in WalThresholds
           /\ sample # Nothing =>
                 /\ sample.pos \in Positions
                 /\ sample.time \in Nat
                 /\ sample.rate \in Rates
                 /\ sample.level \in 0..3
                 /\ sample.by \in WalThresholds
BY LimitsAssumption DEF WalTypeOK, Nothing

(* The rate a session finds is a rate, its level a level.                  *)
LEMMA SampleTypes ==
    ASSUME WalTypeOK, NEW s \in Samplers, FirstSample(s) \/ Refresh(s) \/ UseCached(s)
    PROVE  /\ sample' \in [at: {"valid"}, pos: Positions, time: Nat, rate: Rates,
                           level: 0..3, by: WalThresholds]
           /\ counted' \in Nat
           /\ rewound' \in BOOLEAN
<1>1. CASE FirstSample(s)
  BY <1>1, SessionTypes DEF FirstSample, Sampled, WalTypeOK, Rates, NoRate, tally
<1>2. CASE Refresh(s)
  <2> DEFINE p == sampling[s]
             rate == [bytes |-> Delta(sample.pos, p.pos), secs |-> p.time - sample.time]
  <2>1. Delta(sample.pos, p.pos) \in Nat
    BY <1>2, SessionTypes, DeltaIsNat DEF Refresh
  <2>2. rate \in Rates /\ rate.bytes = Delta(sample.pos, p.pos)
    BY <1>2, <2>1, SessionTypes DEF Refresh, Rates
  <2>3. sample' = Sampled(p.pos, p.time, rate, Level(rate, limits[s]), limits[s])
    BY <1>2 DEF Refresh
  <2>4. p.pos \in Positions /\ p.time \in Nat /\ limits[s] \in WalThresholds
    BY <1>2, SessionTypes DEF Refresh
  <2>5. Level(rate, limits[s]) \in 0..3
    BY LevelIsLevel
  <2>6. counted' \in Nat /\ rewound' \in BOOLEAN
    BY <1>2, <2>1 DEF Refresh, WalTypeOK, Older
  <2> HIDE DEF p, rate
  <2>7. QED
    BY <2>2, <2>3, <2>4, <2>5, <2>6 DEF Sampled
<1>3. CASE UseCached(s)
  BY <1>3 DEF UseCached, WalTypeOK, tally
<1>4. QED
  BY <1>1, <1>2, <1>3

LEMMA SessionKeepsTypes ==
    ASSUME WalTypeOK, NEW s \in Samplers, Sample(s) \/ EndStatement(s) \/ EndXact(s)
    PROVE  WalTypeOK'
<1>1. CASE FetchStats(s)
  <2>1. Current \in Positions
    BY DEF WalTypeOK, Current, Positions
  <2>2. QED
    BY <1>1, <2>1, SessionTypes DEF FetchStats, WalTypeOK, walServer, tally
<1>2. CASE ReadClock(s)
  BY <1>2, SessionTypes DEF ReadClock, WalTypeOK, walServer, tally
<1>3. CASE FirstSample(s) \/ Refresh(s) \/ UseCached(s)
  <2>1. Return(s) /\ UNCHANGED <<limits, walServer, fetched>>
    BY <1>3 DEF FirstSample, Refresh, UseCached
  <2>2. sampling' \in [Samplers -> {Nothing} \cup [at: {"fetched"}, pos: Positions]
                         \cup [at: {"timed"}, pos: Positions, time: Nat]
                         \cup [at: {"done"}]]
    BY <2>1 DEF Return, WalTypeOK
  <2>3. report' \in [Samplers -> Reports]
    <3>1. [rate |-> sample'.rate, level |-> sample'.level, by |-> sample'.by] \in Reports
      BY <1>3, SampleTypes DEF Reports
    <3>2. QED
      BY <2>1, <3>1 DEF Return, WalTypeOK
  <2>4. QED
    BY <1>3, <2>1, <2>2, <2>3, SampleTypes DEF WalTypeOK, walServer
<1>4. CASE EndStatement(s)
  BY <1>4 DEF EndStatement, WalTypeOK, walServer, tally
<1>5. CASE EndXact(s)
  BY <1>5 DEF EndXact, WalTypeOK, walServer, tally
<1>6. QED
  BY <1>1, <1>2, <1>3, <1>4, <1>5 DEF Sample

-----------------------------------------------------------------------------
(* The positions in use                                                    *)

(* A step of a session puts no position in use but those that are and the  *)
(* one the statistics show.                                                *)
LEMMA SessionPositions ==
    ASSUME WalTypeOK, NEW s \in Samplers, Sample(s) \/ EndStatement(s) \/ EndXact(s)
    PROVE  Live' \subseteq Live \cup {Current}
<1>0. /\ \A r \in Samplers : fetched[r] # Nothing => fetched[r].pos \in Live
      /\ \A r \in Samplers : InHand(r) => sampling[r].pos \in Live
      /\ sample # Nothing => sample.pos \in Live
  BY DEF Live
<1>1. ASSUME NEW r \in Samplers, fetched'[r] # Nothing
      PROVE  fetched'[r].pos \in Live \cup {Current}
  <2>1. fetched'[r] = fetched[r] \/ (FetchStats(s) /\ r = s)
    BY <1>1 DEF Sample, FetchStats, ReadClock, FirstSample, Refresh, UseCached,
                EndStatement, EndXact, WalTypeOK
  <2>2. CASE fetched'[r] = fetched[r]
    BY <1>0, <1>1, <2>2
  <2>3. CASE FetchStats(s) /\ r = s
    BY <1>0, <2>3 DEF FetchStats, WalTypeOK
  <2>4. QED
    BY <2>1, <2>2, <2>3
<1>2. ASSUME NEW r \in Samplers, InHand(r)'
      PROVE  sampling'[r].pos \in Live \cup {Current}
  <2>1. \/ sampling'[r] = sampling[r]
        \/ r = s /\ (FetchStats(s) \/ ReadClock(s))
    BY <1>2 DEF Sample, FetchStats, ReadClock, FirstSample, Refresh, UseCached, Return,
                EndStatement, EndXact, WalTypeOK, InHand, Nothing
  <2>2. CASE sampling'[r] = sampling[r]
    BY <1>0, <1>2, <2>2 DEF InHand
  <2>3. CASE r = s /\ FetchStats(s)
    BY <1>0, <2>3 DEF FetchStats, WalTypeOK
  <2>4. CASE r = s /\ ReadClock(s)
    BY <1>0, <2>4 DEF ReadClock, WalTypeOK, InHand
  <2>5. QED
    BY <2>1, <2>2, <2>3, <2>4
<1>3. ASSUME sample' # Nothing
      PROVE  sample'.pos \in Live
  <2>1. \/ sample' = sample
        \/ InHand(s) /\ sample'.pos = sampling[s].pos
    BY DEF Sample, FetchStats, ReadClock, FirstSample, Refresh, UseCached,
           EndStatement, EndXact, Sampled, InHand
  <2>2. QED
    BY <1>0, <1>3, <2>1
<1>4. QED
  BY <1>1, <1>2, <1>3 DEF Live

-----------------------------------------------------------------------------
(* The inductive invariant                                                 *)

LEMMA InitWalInv == WalInit => WalInv
<1> SUFFICES ASSUME WalInit
             PROVE  WalInv
  OBVIOUS
<1>1. Live = {}
  BY DEF WalInit, Live, InHand, Nothing
<1>2. QED
  BY <1>1, InitTypes DEF WalInit, WalInv, LiveInOrder, CountedUpToSample

LEMMA ServerWalInv ==
    ASSUME WalInv, Write \/ ResetStats \/ Tick \/ WalRestart
    PROVE  WalInv'
<1>1. WalTypeOK'
  BY ServerTypes DEF WalInv
<1>2. CASE Write \/ ResetStats \/ Tick
  <2>1. UNCHANGED <<sample, fetched, sampling, tally>>
    BY <1>2 DEF Write, ResetStats, Tick
  <2>2. Live' = Live
    BY <2>1 DEF Live, InHand
  <2>3. /\ written' \in Nat /\ written <= written'
        /\ resets' = resets \/ resets' = written
    BY <1>2 DEF Write, ResetStats, Tick, WalInv, WalTypeOK
  <2>4. LiveInOrder'
    BY <2>2, <2>3, ServerKeepsOrder DEF WalInv
  <2>5. CountedUpToSample'
    BY <2>1 DEF CountedUpToSample, UpTo, WalInv, tally
  <2>6. QED
    BY <1>1, <2>4, <2>5 DEF WalInv
<1>3. CASE WalRestart
  <2>1. Live' = {}
    BY <1>3 DEF WalRestart, Live, InHand, Nothing
  <2>2. QED
    BY <1>1, <1>3, <2>1 DEF WalRestart, WalInv, LiveInOrder, CountedUpToSample
<1>4. QED
  BY <1>2, <1>3

LEMMA SessionWalInv ==
    ASSUME WalInv, NEW s \in Samplers, Sample(s) \/ EndStatement(s) \/ EndXact(s)
    PROVE  WalInv'
<1>1. WalTypeOK'
  BY SessionKeepsTypes DEF WalInv
<1>2. LiveInOrder'
  <2>1. UNCHANGED walServer
    BY DEF Sample, FetchStats, ReadClock, FirstSample, Refresh, UseCached,
           EndStatement, EndXact
  <2>2. QED
    BY <2>1, SessionPositions, SessionsKeepOrder DEF WalInv
<1>3. CountedUpToSample'
  <2>1. CASE UNCHANGED <<sample, tally>>
    BY <2>1 DEF CountedUpToSample, UpTo, WalInv, tally
  <2>2. CASE FirstSample(s)
    <3>1. counted' = 0 /\ sample' # Nothing /\ sample'.pos \in Positions
      BY <2>2, SessionTypes
         DEF FirstSample, Sampled, Nothing, CountedUpToSample, WalInv, tally
    <3>2. QED
      BY <3>1 DEF CountedUpToSample, UpTo, Positions
  <2>3. CASE Refresh(s)
    <3> DEFINE p == sample.pos
               q == sampling[s].pos
    <3>1. /\ sample # Nothing /\ InHand(s)
          /\ sample' # Nothing /\ sample'.pos = q
          /\ counted' = counted + Delta(p, q)
          /\ rewound' = (rewound \/ Older(q, p))
      BY <2>3 DEF Refresh, Sampled, Nothing, InHand
    <3>2. p \in Live /\ q \in Live
      BY <3>1 DEF Live
    <3>3. p \in Positions /\ q \in Positions /\ InOrder(p, q)
      BY <3>2, LivePositions DEF WalInv, LiveInOrder
    <3>4. ~rewound' => counted \in Nat /\ counted <= UpTo(p) /\ ~Older(q, p)
      BY <3>1 DEF WalInv, WalTypeOK, CountedUpToSample
    <3> HIDE DEF p, q
    <3>5. ~rewound' => counted + Delta(p, q) <= UpTo(q)
      BY <3>3, <3>4, DeltaReachesPosition
    <3>6. QED
      BY <3>1, <3>5 DEF CountedUpToSample, UpTo
  <2>4. QED
    BY <2>1, <2>2, <2>3
       DEF Sample, FetchStats, ReadClock, UseCached, EndStatement, EndXact
<1>4. QED
  BY <1>1, <1>2, <1>3 DEF WalInv

LEMMA NextWalInv == WalInv /\ [WalNext]_walVars => WalInv'
<1> SUFFICES ASSUME WalInv, [WalNext]_walVars
             PROVE  WalInv'
  OBVIOUS
<1>1. CASE UNCHANGED walVars
  BY <1>1 DEF walVars, walServer, tally, WalInv, WalTypeOK, LiveInOrder, Live, InHand,
              WellPlaced, InOrder, UpTo, CountedUpToSample
<1>2. QED
  BY <1>1, ServerWalInv, SessionWalInv DEF WalNext

(* The positions sessions have in hand lie in order, and what was counted  *)
(* does not reach past the sample (shmem.c:223-286, wal.c:55-74).          *)
THEOREM WalInvariant == WalSpec => []WalInv
<1>1. QED
  BY InitWalInv, NextWalInv, PTL DEF WalSpec

(* Every sample is whole: a rate over a second or more, a level and the    *)
(* thresholds it was found with, for any thresholds in any session.        *)
THEOREM WalTypeCorrect == WalSpec => []WalTypeOK
<1>1. WalInv => WalTypeOK
  BY DEF WalInv
<1>2. QED
  BY <1>1, WalInvariant, PTL

(* No WAL is counted twice, for any number of sessions that come late.     *)
THEOREM WalCountedOnce == WalSpec => []WalIsCountedOnce
<1>1. ASSUME WalInv
      PROVE  WalIsCountedOnce
  <2>1. CASE sample = Nothing
    BY <1>1, <2>1 DEF WalInv, CountedUpToSample, WalIsCountedOnce, WalTypeOK
  <2>2. CASE sample # Nothing
    <3>1. sample.pos \in Live /\ sample.pos \in Positions
      BY <1>1, <2>2, LivePositions DEF Live, WalInv
    <3>2. UpTo(sample.pos) <= written /\ UpTo(sample.pos) \in Nat
      BY <1>1, <3>1 DEF WalInv, LiveInOrder, WellPlaced, UpTo, Positions
    <3>3. QED
      BY <1>1, <2>2, <3>2 DEF WalInv, WalTypeOK, CountedUpToSample, WalIsCountedOnce
  <2>3. QED
    BY <2>1, <2>2
<1>2. QED
  BY <1>1, WalInvariant, PTL

-----------------------------------------------------------------------------
(* Levels and scores                                                       *)

(* Every level on show was found from the rate next to it.                 *)
LevelsFound ==
    /\ sample # Nothing => sample.level = Level(sample.rate, sample.by)
    /\ \A s \in Samplers : report[s].level = Level(report[s].rate, report[s].by)

LEMMA NoRateHasNoLevel ==
    ASSUME NEW limit \in WalThresholds
    PROVE  Level(NoRate, limit) = 0
BY DEF Level, AtLeast, NoRate, WalThresholds

LEMMA LevelIsScore ==
    ASSUME NEW rate, NEW limit
    PROVE  /\ Level(rate, limit) = 3 <=> ScoreWal(rate, limit) = 30
           /\ Level(rate, limit) = 2 <=> ScoreWal(rate, limit) = 15
BY DEF Level, ScoreWal

LEMMA InitLevelsFound == WalInit => LevelsFound
<1> SUFFICES ASSUME WalInit
             PROVE  LevelsFound
  OBVIOUS
<1>1. \A s \in Samplers : limits[s] \in WalThresholds
  BY LimitsAssumption DEF WalInit
<1>2. QED
  BY <1>1, NoRateHasNoLevel DEF WalInit, LevelsFound

LEMMA NextLevelsFound ==
    WalTypeOK /\ LevelsFound /\ [WalNext]_walVars => LevelsFound'
<1> SUFFICES ASSUME WalTypeOK, LevelsFound, [WalNext]_walVars
             PROVE  LevelsFound'
  OBVIOUS
<1>1. CASE UNCHANGED <<sample, report>>
  BY <1>1 DEF LevelsFound
<1>2. CASE WalRestart
  <2>1. \A s \in Samplers : limits'[s] \in WalThresholds
    BY <1>2, LimitsAssumption DEF WalRestart
  <2>2. QED
    BY <1>2, <2>1, NoRateHasNoLevel DEF WalRestart, LevelsFound
<1>3. ASSUME NEW s \in Samplers, FirstSample(s) \/ Refresh(s) \/ UseCached(s)
      PROVE  LevelsFound'
  <2>1. sample'.level = Level(sample'.rate, sample'.by)
    <3>1. CASE FirstSample(s)
      BY <3>1, NoRateHasNoLevel, SessionTypes DEF FirstSample, Sampled
    <3>2. CASE Refresh(s)
      BY <3>2 DEF Refresh, Sampled
    <3>3. CASE UseCached(s)
      BY <3>3 DEF UseCached, LevelsFound
    <3>4. QED
      BY <1>3, <3>1, <3>2, <3>3
  <2>2. report' = [report EXCEPT ![s] = [rate |-> sample'.rate, level |-> sample'.level,
                                         by |-> sample'.by]]
    BY <1>3 DEF FirstSample, Refresh, UseCached, Return
  <2>3. \A r \in Samplers : report'[r].level = Level(report'[r].rate, report'[r].by)
    BY <2>1, <2>2 DEF LevelsFound, WalTypeOK
  <2>4. QED
    BY <2>1, <2>3 DEF LevelsFound
<1>4. QED
  BY <1>1, <1>2, <1>3
     DEF WalNext, walVars, Write, ResetStats, Tick, Sample, FetchStats, ReadClock,
         EndStatement, EndXact

(* The level a session shows and the points it scores say the same, for    *)
(* any thresholds, in any order, that the session that found the level and *)
(* the one that asks agree on (shmem.c:258-265, wal.c:45-53).              *)
THEOREM LevelAndScoreAgree == WalSpec => []LevelAgreesWithScore
<1>1. LevelsFound => LevelAgreesWithScore
  BY LevelIsScore DEF LevelsFound, LevelAgreesWithScore
<1>2. WalSpec => []LevelsFound
  BY InitLevelsFound, NextLevelsFound, WalTypeCorrect, PTL DEF WalSpec
<1>3. QED
  BY <1>1, <1>2, PTL

-----------------------------------------------------------------------------
(* RuntimeState                                                            *)

(* The step that a number reaches first.                                   *)
LEMMA StepsReached ==
    ASSUME NEW n, NEW steps, NEW i \in DOMAIN steps, DOMAIN steps \subseteq Nat,
           n >= steps[i][1], \A j \in DOMAIN steps : n >= steps[j][1] => i <= j
    PROVE  Steps(n, steps) = steps[i][2]
<1> DEFINE reached == {j \in DOMAIN steps : n >= steps[j][1]}
<1>1. reached \subseteq Nat /\ i \in reached
  OBVIOUS
<1>2. \A j \in reached : i <= j
  OBVIOUS
<1>3. Steps(n, steps) = IF reached = {} THEN 0 ELSE steps[Min(reached)][2]
  BY DEF Steps
<1> HIDE DEF reached
<1>4. Min(reached) \in reached /\ \A m \in reached : Min(reached) <= m
  BY <1>1, MinOfSome
<1>5. Min(reached) \in Nat /\ i \in Nat /\ Min(reached) <= i /\ i <= Min(reached)
  BY <1>1, <1>2, <1>4
<1>6. Min(reached) = i
  BY <1>5
<1>7. QED
  BY <1>1, <1>3, <1>6

LEMMA StepsUnreached ==
    ASSUME NEW n, NEW steps, \A i \in DOMAIN steps : ~(n >= steps[i][1])
    PROVE  Steps(n, steps) = 0
BY DEF Steps

LEMMA TwoSteps ==
    ASSUME NEW n \in Int, NEW a \in Int, NEW b \in Int, NEW p, NEW q
    PROVE  Steps(n, <<<<a, p>>, <<b, q>>>>)
             = IF n >= a THEN p ELSE IF n >= b THEN q ELSE 0
<1> DEFINE steps == <<<<a, p>>, <<b, q>>>>
<1>1. DOMAIN steps = 1..2 /\ 1..2 = {1, 2} /\ {1, 2} \subseteq Nat
  OBVIOUS
<1>2. steps[1][1] = a /\ steps[1][2] = p /\ steps[2][1] = b /\ steps[2][2] = q
  OBVIOUS
<1> HIDE DEF steps
<1>3. CASE n >= a
  <2>1. /\ 1 \in DOMAIN steps /\ DOMAIN steps \subseteq Nat /\ n >= steps[1][1]
        /\ \A j \in DOMAIN steps : n >= steps[j][1] => 1 <= j
    BY <1>1, <1>2, <1>3
  <2>2. Steps(n, steps) = steps[1][2]
    BY <2>1, StepsReached
  <2>3. QED
    BY <1>2, <1>3, <2>2 DEF steps
<1>4. CASE ~(n >= a) /\ n >= b
  <2>1. /\ 2 \in DOMAIN steps /\ DOMAIN steps \subseteq Nat /\ n >= steps[2][1]
        /\ \A j \in DOMAIN steps : n >= steps[j][1] => 2 <= j
    BY <1>1, <1>2, <1>4
  <2>2. Steps(n, steps) = steps[2][2]
    BY <2>1, StepsReached
  <2>3. QED
    BY <1>2, <1>4, <2>2 DEF steps
<1>5. CASE ~(n >= a) /\ ~(n >= b)
  <2>1. Steps(n, steps) = 0
    BY <1>1, <1>2, <1>5, StepsUnreached
  <2>2. QED
    BY <1>5, <2>1 DEF steps
<1>6. QED
  BY <1>3, <1>4, <1>5

LEMMA ThreeSteps ==
    ASSUME NEW n \in Int, NEW a \in Int, NEW b \in Int, NEW c \in Int, NEW p, NEW q, NEW r
    PROVE  Steps(n, <<<<a, p>>, <<b, q>>, <<c, r>>>>)
             = IF n >= a THEN p ELSE IF n >= b THEN q ELSE IF n >= c THEN r ELSE 0
<1> DEFINE steps == <<<<a, p>>, <<b, q>>, <<c, r>>>>
<1>1. DOMAIN steps = 1..3 /\ 1..3 = {1, 2, 3} /\ {1, 2, 3} \subseteq Nat
  OBVIOUS
<1>2. /\ steps[1][1] = a /\ steps[1][2] = p
      /\ steps[2][1] = b /\ steps[2][2] = q
      /\ steps[3][1] = c /\ steps[3][2] = r
  OBVIOUS
<1> HIDE DEF steps
<1>3. CASE n >= a
  <2>1. /\ 1 \in DOMAIN steps /\ DOMAIN steps \subseteq Nat /\ n >= steps[1][1]
        /\ \A j \in DOMAIN steps : n >= steps[j][1] => 1 <= j
    BY <1>1, <1>2, <1>3
  <2>2. Steps(n, steps) = steps[1][2]
    BY <2>1, StepsReached
  <2>3. QED
    BY <1>2, <1>3, <2>2 DEF steps
<1>4. CASE ~(n >= a) /\ n >= b
  <2>1. /\ 2 \in DOMAIN steps /\ DOMAIN steps \subseteq Nat /\ n >= steps[2][1]
        /\ \A j \in DOMAIN steps : n >= steps[j][1] => 2 <= j
    BY <1>1, <1>2, <1>4
  <2>2. Steps(n, steps) = steps[2][2]
    BY <2>1, StepsReached
  <2>3. QED
    BY <1>2, <1>4, <2>2 DEF steps
<1>5. CASE ~(n >= a) /\ ~(n >= b) /\ n >= c
  <2>1. /\ 3 \in DOMAIN steps /\ DOMAIN steps \subseteq Nat /\ n >= steps[3][1]
        /\ \A j \in DOMAIN steps : n >= steps[j][1] => 3 <= j
    BY <1>1, <1>2, <1>5
  <2>2. Steps(n, steps) = steps[3][2]
    BY <2>1, StepsReached
  <2>3. QED
    BY <1>2, <1>5, <2>2 DEF steps
<1>6. CASE ~(n >= a) /\ ~(n >= b) /\ ~(n >= c)
  <2>1. Steps(n, steps) = 0
    BY <1>1, <1>2, <1>6, StepsUnreached
  <2>2. QED
    BY <1>6, <2>1 DEF steps
<1>7. QED
  BY <1>3, <1>4, <1>5, <1>6

LEMMA FourSteps ==
    ASSUME NEW n \in Int, NEW a \in Int, NEW b \in Int, NEW c \in Int, NEW d \in Int,
           NEW p, NEW q, NEW r, NEW s
    PROVE  Steps(n, <<<<a, p>>, <<b, q>>, <<c, r>>, <<d, s>>>>)
             = IF n >= a THEN p ELSE IF n >= b THEN q ELSE IF n >= c THEN r
               ELSE IF n >= d THEN s ELSE 0
<1> DEFINE steps == <<<<a, p>>, <<b, q>>, <<c, r>>, <<d, s>>>>
<1>1. DOMAIN steps = 1..4 /\ 1..4 = {1, 2, 3, 4} /\ {1, 2, 3, 4} \subseteq Nat
  OBVIOUS
<1>2. /\ steps[1][1] = a /\ steps[1][2] = p
      /\ steps[2][1] = b /\ steps[2][2] = q
      /\ steps[3][1] = c /\ steps[3][2] = r
      /\ steps[4][1] = d /\ steps[4][2] = s
  OBVIOUS
<1> HIDE DEF steps
<1>3. CASE n >= a
  <2>1. /\ 1 \in DOMAIN steps /\ DOMAIN steps \subseteq Nat /\ n >= steps[1][1]
        /\ \A j \in DOMAIN steps : n >= steps[j][1] => 1 <= j
    BY <1>1, <1>2, <1>3
  <2>2. Steps(n, steps) = steps[1][2]
    BY <2>1, StepsReached
  <2>3. QED
    BY <1>2, <1>3, <2>2 DEF steps
<1>4. CASE ~(n >= a) /\ n >= b
  <2>1. /\ 2 \in DOMAIN steps /\ DOMAIN steps \subseteq Nat /\ n >= steps[2][1]
        /\ \A j \in DOMAIN steps : n >= steps[j][1] => 2 <= j
    BY <1>1, <1>2, <1>4
  <2>2. Steps(n, steps) = steps[2][2]
    BY <2>1, StepsReached
  <2>3. QED
    BY <1>2, <1>4, <2>2 DEF steps
<1>5. CASE ~(n >= a) /\ ~(n >= b) /\ n >= c
  <2>1. /\ 3 \in DOMAIN steps /\ DOMAIN steps \subseteq Nat /\ n >= steps[3][1]
        /\ \A j \in DOMAIN steps : n >= steps[j][1] => 3 <= j
    BY <1>1, <1>2, <1>5
  <2>2. Steps(n, steps) = steps[3][2]
    BY <2>1, StepsReached
  <2>3. QED
    BY <1>2, <1>5, <2>2 DEF steps
<1>6. CASE ~(n >= a) /\ ~(n >= b) /\ ~(n >= c) /\ n >= d
  <2>1. /\ 4 \in DOMAIN steps /\ DOMAIN steps \subseteq Nat /\ n >= steps[4][1]
        /\ \A j \in DOMAIN steps : n >= steps[j][1] => 4 <= j
    BY <1>1, <1>2, <1>6
  <2>2. Steps(n, steps) = steps[4][2]
    BY <2>1, StepsReached
  <2>3. QED
    BY <1>2, <1>6, <2>2 DEF steps
<1>7. CASE ~(n >= a) /\ ~(n >= b) /\ ~(n >= c) /\ ~(n >= d)
  <2>1. Steps(n, steps) = 0
    BY <1>1, <1>2, <1>7, StepsUnreached
  <2>2. QED
    BY <1>7, <2>1 DEF steps
<1>8. QED
  BY <1>3, <1>4, <1>5, <1>6, <1>7

LEMMA GreatestOf ==
    ASSUME NEW S, S \subseteq Int, NEW least \in Int, NEW b \in Nat, \A m \in S : m <= b
    PROVE  /\ Greatest(S, least) \in S \cup {least}
           /\ Greatest(S, least) \in Int
           /\ least <= Greatest(S, least)
           /\ \A m \in S : m <= Greatest(S, least)
<1> DEFINE T == S \cup {least}
<1>1. PICK c \in Int : b <= c /\ least <= c
  <2>1. CASE least <= b
    BY <2>1
  <2>2. CASE ~(least <= b)
    BY <2>2
  <2>3. QED
    BY <2>1, <2>2
<1>2. T \subseteq Int /\ T # {} /\ \A m \in T : m <= c
  BY <1>1
<1>3. Greatest(S, least) = Max(T)
  BY DEF Greatest
<1>4. least \in T /\ \A m \in S : m \in T
  OBVIOUS
<1>5. Max(T) \in T /\ \A m \in T : m <= Max(T)
  <2> HIDE DEF T
  <2>1. QED
    BY <1>2, MaxOfBounded
<1>6. QED
  BY <1>2, <1>3, <1>4, <1>5

Connected(v) == {c \in Clients : v.clients[c].state # "gone"}

Running(v) == {c \in Connected(v) : v.clients[c].state = "running"}

Xacts(v) == {c \in Connected(v) : v.clients[c].state \notin {"undefined", "idle"}
                                     /\ v.clients[c].age >= 0}

Idle(v) == {c \in Xacts(v) : v.clients[c].state = "idle_in_xact"}

(* What the collectors give for any server.                                *)
LEMMA ServerParts ==
    ASSUME NEW v \in Servers
    PROVE  /\ \A c \in Clients : v.clients[c].state \in BackendStates
                                    /\ v.clients[c].age \in Nat \cup {-1}
           /\ v.pool.max \in Nat /\ v.pool.reserved \in Nat /\ v.pool.others \in Nat
           /\ DOMAIN v.graph = {"blocked", "blocking", "depth", "descendants", "wait"}
           /\ v.graph.blocked \in Nat /\ v.graph.blocking \in Nat /\ v.graph.depth \in Nat
           /\ v.graph.descendants \in Nat /\ v.graph.wait \in Nat
           /\ \A s \in Standbys :
                 /\ v.senders[s].pid \in BOOLEAN
                 /\ v.senders[s].write \in Int /\ v.senders[s].flush \in Int
                 /\ v.senders[s].apply \in Int /\ v.senders[s].reply \in Int
           /\ v.wal.bytes \in Nat /\ v.wal.secs \in Nat \ {0}
<1>1. /\ v.clients \in [Clients -> Activities] /\ v.pool \in Pools /\ v.graph \in Graphs
      /\ v.senders \in [Standbys -> Lags] /\ v.wal \in WalRates
  BY DEF Servers
<1>2. \A c \in Clients : v.clients[c] \in [state: BackendStates, age: Nat \cup {-1}]
  BY <1>1, ActivitiesAssumption
<1>3. v.pool \in [max: Nat, reserved: Nat, others: Nat]
  BY <1>1, PoolsAssumption
<1>4. v.graph \in [blocked: Nat, blocking: Nat, depth: Nat, descendants: Nat, wait: Nat]
  BY <1>1, GraphsAssumption
<1>5. \A s \in Standbys :
         v.senders[s] \in [pid: BOOLEAN, write: Int, flush: Int, apply: Int, reply: Int]
  BY <1>1, LagsAssumption
<1>6. v.wal \in [bytes: Nat, secs: Nat \ {0}]
  BY <1>1, SettingsAssumption DEF Rates
<1>7. \A c \in Clients : v.clients[c].state \in BackendStates
                            /\ v.clients[c].age \in Nat \cup {-1}
  BY <1>2
<1>8. v.pool.max \in Nat /\ v.pool.reserved \in Nat /\ v.pool.others \in Nat
  BY <1>3
<1>9. /\ DOMAIN v.graph = {"blocked", "blocking", "depth", "descendants", "wait"}
      /\ v.graph.blocked \in Nat /\ v.graph.blocking \in Nat /\ v.graph.depth \in Nat
      /\ v.graph.descendants \in Nat /\ v.graph.wait \in Nat
  BY <1>4
<1>10. \A s \in Standbys :
                 /\ v.senders[s].pid \in BOOLEAN
                 /\ v.senders[s].write \in Int /\ v.senders[s].flush \in Int
                 /\ v.senders[s].apply \in Int /\ v.senders[s].reply \in Int
  BY <1>5
<1>11. v.wal.bytes \in Nat /\ v.wal.secs \in Nat \ {0}
  BY <1>6
<1>12. QED
  BY <1>7, <1>8, <1>9, <1>10, <1>11

LEMMA ClientCounts ==
    ASSUME NEW T \in SUBSET Clients
    PROVE  IsFiniteSet(T) /\ Cardinality(T) \in Nat
           /\ \A U \in SUBSET T : Cardinality(U) <= Cardinality(T)
<1>1. IsFiniteSet(T)
  BY SlotsAssumption, FS_Subset
<1>2. QED
  BY <1>1, FS_Subset, FS_CardinalityType

LEMMA TransactionCounts ==
    ASSUME NEW v \in Servers
    PROVE  /\ Transactions(v).connections = Cardinality(Connected(v)) + v.pool.others
           /\ Transactions(v).running = Cardinality(Running(v))
           /\ Transactions(v).long = Cardinality(Long(v.clients, Xacts(v)))
           /\ Transactions(v).idle = Cardinality(Idle(v))
           /\ Transactions(v).oldest = Greatest({v.clients[c].age : c \in Xacts(v)}, 0)
           /\ Transactions(v).connections \in Nat /\ Transactions(v).running \in Nat
           /\ Transactions(v).long \in Nat /\ Transactions(v).idle \in Nat
<1>1. /\ Transactions(v).connections = Cardinality(Connected(v)) + v.pool.others
      /\ Transactions(v).running = Cardinality(Running(v))
      /\ Transactions(v).long = Cardinality(Long(v.clients, Xacts(v)))
      /\ Transactions(v).idle = Cardinality(Idle(v))
      /\ Transactions(v).oldest = Greatest({v.clients[c].age : c \in Xacts(v)}, 0)
  BY DEF Transactions, Connected, Running, Xacts, Idle
<1>2. /\ Connected(v) \subseteq Clients /\ Running(v) \subseteq Clients
      /\ Xacts(v) \subseteq Clients /\ Idle(v) \subseteq Clients
  BY DEF Connected, Running, Xacts, Idle
<1>3. Long(v.clients, Xacts(v)) \subseteq Clients
  BY <1>2 DEF Long
<1>4. v.pool.others \in Nat
  BY ServerParts
<1>5. /\ Cardinality(Connected(v)) \in Nat /\ Cardinality(Running(v)) \in Nat
      /\ Cardinality(Idle(v)) \in Nat /\ Cardinality(Long(v.clients, Xacts(v))) \in Nat
  BY <1>2, <1>3, ClientCounts
<1> HIDE DEF Long
<1>6. QED
  BY <1>1, <1>4, <1>5

LEMMA OldestIsGreatest ==
    ASSUME NEW v \in Servers
    PROVE  /\ Transactions(v).oldest \in Nat
           /\ \A c \in Xacts(v) : v.clients[c].age <= Transactions(v).oldest
           /\ \/ Transactions(v).oldest = 0
              \/ \E c \in Xacts(v) : Transactions(v).oldest = v.clients[c].age
<1> DEFINE ages == {v.clients[c].age : c \in Xacts(v)}
           age == [c \in Clients |-> v.clients[c].age]
<1>1. Xacts(v) \subseteq Clients
  BY DEF Connected, Xacts
<1>2. \A c \in Clients : v.clients[c].age \in Int
  <2>1. \A c \in Clients : v.clients[c].age \in Nat \cup {-1}
    BY ServerParts
  <2>2. Nat \cup {-1} \subseteq Int
    OBVIOUS
  <2>3. QED
    BY <2>1, <2>2
<1>3. age \in [Clients -> Int]
  BY <1>2
<1>4. PICK b \in Nat : \A c \in Clients : age[c] <= b
  <2> HIDE DEF age
  <2>1. QED
    BY <1>3, SlotsAssumption, FiniteIsBounded
<1>5. ages \subseteq Int /\ \A m \in ages : m <= b
  BY <1>1, <1>2, <1>4
<1>6. Transactions(v).oldest = Greatest(ages, 0)
  BY TransactionCounts
<1>7. /\ Greatest(ages, 0) \in ages \cup {0} /\ Greatest(ages, 0) \in Int
      /\ 0 <= Greatest(ages, 0) /\ \A m \in ages : m <= Greatest(ages, 0)
  <2> HIDE DEF ages
  <2>1. 0 \in Int
    OBVIOUS
  <2>2. QED
    BY <1>5, <2>1, GreatestOf
<1>8. \A c \in Xacts(v) : v.clients[c].age \in ages
  OBVIOUS
<1>9. \A m \in ages : \E c \in Xacts(v) : m = v.clients[c].age
  OBVIOUS
<1> HIDE DEF ages
<1>10. QED
  BY <1>6, <1>7, <1>8, <1>9

LagFields == {"write", "flush", "apply", "reply"}

LEMMA LagIsGreatest ==
    ASSUME NEW v \in Servers
    PROVE  /\ EffectiveLag(v) \in Nat
           /\ \A s \in Replicas(v), f \in LagFields : v.senders[s][f] <= EffectiveLag(v)
           /\ \/ EffectiveLag(v) = 0
              \/ \E s \in Replicas(v), f \in LagFields : EffectiveLag(v) = v.senders[s][f]
<1> DEFINE lags == UNION {{v.senders[s].write, v.senders[s].flush, v.senders[s].apply,
                           v.senders[s].reply} : s \in Replicas(v)}
           shown(f) == [s \in Standbys |-> v.senders[s][f]]
<1>1. Replicas(v) \subseteq Standbys
  BY DEF Replicas
<1>2. \A s \in Standbys, f \in LagFields : v.senders[s][f] \in Int
  BY ServerParts DEF LagFields
<1>3. ASSUME NEW f \in LagFields
      PROVE  \E b \in Nat : \A s \in Standbys : v.senders[s][f] <= b
  <2>1. shown(f) \in [Standbys -> Int]
    BY <1>2
  <2>2. \A s \in Standbys : shown(f)[s] = v.senders[s][f]
    OBVIOUS
  <2> HIDE DEF shown
  <2>3. \E b \in Nat : \A s \in Standbys : shown(f)[s] <= b
    BY <2>1, SlotsAssumption, FiniteIsBounded
  <2>4. QED
    BY <2>2, <2>3
<1>4. PICK b1 \in Nat : \A s \in Standbys : v.senders[s]["write"] <= b1
  BY <1>3 DEF LagFields
<1>5. PICK b2 \in Nat : \A s \in Standbys : v.senders[s]["flush"] <= b2
  BY <1>3 DEF LagFields
<1>6. PICK b3 \in Nat : \A s \in Standbys : v.senders[s]["apply"] <= b3
  BY <1>3 DEF LagFields
<1>7. PICK b4 \in Nat : \A s \in Standbys : v.senders[s]["reply"] <= b4
  BY <1>3 DEF LagFields
<1>8. \A m : m \in lags <=> \E s \in Replicas(v), f \in LagFields : m = v.senders[s][f]
  BY DEF LagFields
<1> DEFINE b == b1 + b2 + b3 + b4
<1>9. ASSUME NEW m \in lags
      PROVE  m \in Int /\ m <= b
  <2>1. PICK s \in Replicas(v), f \in LagFields : m = v.senders[s][f]
    BY <1>8, <1>9
  <2>2. s \in Standbys /\ m \in Int
    BY <1>1, <1>2, <2>1
  <2>3. f = "write" \/ f = "flush" \/ f = "apply" \/ f = "reply"
    BY DEF LagFields
  <2>4. m <= b1 \/ m <= b2 \/ m <= b3 \/ m <= b4
    BY <1>4, <1>5, <1>6, <1>7, <2>1, <2>2, <2>3
  <2>5. QED
    BY <2>2, <2>4
<1>10. b \in Nat
  OBVIOUS
<1>11. EffectiveLag(v) = Greatest(lags, 0)
  BY DEF EffectiveLag
<1> HIDE DEF lags, b
<1>12. /\ Greatest(lags, 0) \in lags \cup {0} /\ Greatest(lags, 0) \in Int
       /\ 0 <= Greatest(lags, 0) /\ \A m \in lags : m <= Greatest(lags, 0)
  <2>1. lags \subseteq Int /\ 0 \in Int
    BY <1>9
  <2>2. QED
    BY <1>9, <1>10, <2>1, GreatestOf
<1>13. QED
  BY <1>8, <1>11, <1>12

LEMMA MinOfTwo ==
    ASSUME NEW a \in Nat, NEW b \in Nat
    PROVE  Min({a, b}) = IF a <= b THEN a ELSE b
<1>1. Min({a, b}) \in {a, b} /\ Min({a, b}) <= a /\ Min({a, b}) <= b
  <2>1. {a, b} \subseteq Nat /\ {a, b} # {} /\ a \in {a, b} /\ b \in {a, b}
    OBVIOUS
  <2>2. QED
    BY <2>1, MinOfSome
<1>2. QED
  BY <1>1

(* The points of each score, without its tables.                           *)
AgePoints(oldest) ==
    IF LongSeconds = 0 THEN 0
    ELSE IF oldest >= 2 * LongSeconds THEN 15 ELSE IF oldest >= LongSeconds THEN 5 ELSE 0

LEMMA TransactionPoints ==
    ASSUME NEW v \in Servers
    PROVE  ScoreTransactions(Transactions(v))
             = Transactions(v).long * 12 + Transactions(v).idle * 6
                 + AgePoints(Transactions(v).oldest)
<1>1. LongSeconds \in Nat /\ 2 * LongSeconds \in Int /\ Transactions(v).oldest \in Int
  BY SettingsAssumption, OldestIsGreatest
<1> DEFINE oldest == Transactions(v).oldest
<1> HIDE DEF oldest
<1>2. oldest \in Int
  BY <1>1 DEF oldest
<1>3. Steps(oldest, <<<<2 * LongSeconds, 15>>, <<LongSeconds, 5>>>>)
        = IF oldest >= 2 * LongSeconds THEN 15 ELSE IF oldest >= LongSeconds THEN 5 ELSE 0
  BY <1>1, <1>2, TwoSteps
<1>4. QED
  BY <1>3 DEF ScoreTransactions, AgePoints, oldest

BlockedPoints(n) == IF n >= 20 THEN 48 ELSE IF n >= 5 THEN 23 ELSE IF n >= 1 THEN 8 ELSE 0
BlockingPoints(n) == 4 * (IF n <= 5 THEN n ELSE 5)
ReachPoints(n) ==
    IF n >= 50 THEN 25 ELSE IF n >= 20 THEN 15 ELSE IF n >= 5 THEN 8
    ELSE IF n >= 2 THEN 4 ELSE 0
DepthPoints(n) == IF n >= 5 THEN 12 ELSE IF n >= 3 THEN 8 ELSE IF n >= 2 THEN 3 ELSE 0
DurationPoints(n) == IF n >= 30 THEN 8 ELSE IF n >= 5 THEN 4 ELSE 0

WaitPoints(g) ==
    BlockedPoints(g.blocked) + BlockingPoints(g.blocking) + ReachPoints(g.descendants)
        + DepthPoints(g.depth) + DurationPoints(g.wait)

LEMMA LockPoints ==
    ASSUME NEW v \in Servers
    PROVE  ScoreLocks(v.graph) = WaitPoints(v.graph)
<1> DEFINE g == v.graph
<1>1. /\ g.blocked \in Nat /\ g.blocking \in Nat /\ g.depth \in Nat
      /\ g.descendants \in Nat /\ g.wait \in Nat
  BY ServerParts
<1> HIDE DEF g
<1>2. Steps(g.blocked, <<<<20, 48>>, <<5, 23>>, <<1, 8>>>>) = BlockedPoints(g.blocked)
  BY <1>1, ThreeSteps DEF BlockedPoints
<1>3. 4 * Min({g.blocking, 5}) = BlockingPoints(g.blocking)
  BY <1>1, MinOfTwo DEF BlockingPoints
<1>4. Steps(g.descendants, <<<<50, 25>>, <<20, 15>>, <<5, 8>>, <<2, 4>>>>)
        = ReachPoints(g.descendants)
  BY <1>1, FourSteps DEF ReachPoints
<1>5. Steps(g.depth, <<<<5, 12>>, <<3, 8>>, <<2, 3>>>>) = DepthPoints(g.depth)
  BY <1>1, ThreeSteps DEF DepthPoints
<1>6. Steps(g.wait, <<<<30, 8>>, <<5, 4>>>>) = DurationPoints(g.wait)
  BY <1>1, TwoSteps DEF DurationPoints
<1>7. ScoreLocks(g) = WaitPoints(g)
  BY <1>2, <1>3, <1>4, <1>5, <1>6 DEF ScoreLocks, WaitPoints
<1>8. QED
  BY <1>7 DEF g

Usable(pool) == IF pool.max - pool.reserved >= 1 THEN pool.max - pool.reserved ELSE 1

SessionPoints(tx, pool) ==
    IF pool.max = 0 THEN 0
    ELSE (IF tx.connections * 100 >= 95 * Usable(pool) THEN 25
          ELSE IF tx.connections * 100 >= 85 * Usable(pool) THEN 15
          ELSE IF tx.connections * 100 >= 70 * Usable(pool) THEN 8 ELSE 0)
         + 2 * (IF tx.idle <= 8 THEN tx.idle ELSE 8)
         + (IF tx.running > 0 /\ tx.running >= Usable(pool) \div 2 THEN 5 ELSE 0)

LEMMA ConnectionPoints ==
    ASSUME NEW v \in Servers
    PROVE  ScoreConnections(Transactions(v), v.pool) = SessionPoints(Transactions(v), v.pool)
<1> DEFINE tx == Transactions(v)
           pool == v.pool
           usable == Greatest({pool.max - pool.reserved}, 1)
<1>1. pool.max \in Nat /\ pool.reserved \in Nat
  BY ServerParts
<1>2. tx.connections \in Nat /\ tx.idle \in Nat /\ tx.running \in Nat
  BY TransactionCounts
<1> HIDE DEF tx, pool
<1>3. usable = Usable(pool)
  <2> DEFINE left == pool.max - pool.reserved
  <2>1. left \in Int /\ 1 \in Int
    BY <1>1
  <2>2. Usable(pool) = IF left >= 1 THEN left ELSE 1
    BY DEF Usable
  <2> HIDE DEF left
  <2>3. PICK b \in Nat : left <= b
    BY <2>1
  <2>4. {left} \subseteq Int /\ \A m \in {left} : m <= b
    BY <2>1, <2>3
  <2>5. /\ Greatest({left}, 1) \in {left} \cup {1} /\ 1 <= Greatest({left}, 1)
        /\ \A m \in {left} : m <= Greatest({left}, 1)
    BY <2>1, <2>4, GreatestOf
  <2>6. Greatest({left}, 1) = IF left >= 1 THEN left ELSE 1
    BY <2>1, <2>5
  <2>7. QED
    BY <2>2, <2>6 DEF left
<1>4. Usable(pool) \in Nat
  BY <1>1 DEF Usable
<1> DEFINE n == tx.connections * 100
           a == 95 * Usable(pool)
           b == 85 * Usable(pool)
           c == 70 * Usable(pool)
<1>5. n \in Int /\ a \in Int /\ b \in Int /\ c \in Int
  BY <1>2, <1>4
<1>6. Steps(n, <<<<a, 25>>, <<b, 15>>, <<c, 8>>>>)
        = IF n >= a THEN 25 ELSE IF n >= b THEN 15 ELSE IF n >= c THEN 8 ELSE 0
  <2> HIDE DEF n, a, b, c
  <2>1. QED
    BY <1>5, ThreeSteps
<1>7. Min({tx.idle, 8}) = IF tx.idle <= 8 THEN tx.idle ELSE 8
  BY <1>2, MinOfTwo
<1>8. ScoreConnections(tx, pool) = SessionPoints(tx, pool)
  <2> HIDE DEF Usable
  <2>1. QED
    BY <1>3, <1>6, <1>7 DEF ScoreConnections, SessionPoints
<1>9. QED
  BY <1>8 DEF tx, pool

(* The points of all five.                                                 *)
LEMMA PointsAreNumbers ==
    ASSUME NEW v \in Servers
    PROVE  /\ ScoreTransactions(Transactions(v)) \in Nat
           /\ ScoreLocks(v.graph) \in Nat
           /\ ScoreReplication(EffectiveLag(v)) \in Nat
           /\ ScoreWal(v.wal, WalLimits) \in Nat
           /\ ScoreConnections(Transactions(v), v.pool) \in Nat
<1>1. ScoreTransactions(Transactions(v)) \in Nat
  <2>1. Transactions(v).long \in Nat /\ Transactions(v).idle \in Nat
    BY TransactionCounts
  <2>2. AgePoints(Transactions(v).oldest) \in Nat
    BY DEF AgePoints
  <2>3. QED
    BY <2>1, <2>2, TransactionPoints
<1>2. ScoreLocks(v.graph) \in Nat
  <2>1. v.graph.blocking \in Nat
    BY ServerParts
  <2>2. WaitPoints(v.graph) \in Nat
    BY <2>1 DEF WaitPoints, BlockedPoints, BlockingPoints, ReachPoints, DepthPoints,
                DurationPoints
  <2>3. QED
    BY <2>2, LockPoints
<1>3. ScoreReplication(EffectiveLag(v)) \in Nat
  BY DEF ScoreReplication
<1>4. ScoreWal(v.wal, WalLimits) \in Nat
  BY DEF ScoreWal
<1>5. ScoreConnections(Transactions(v), v.pool) \in Nat
  <2>1. Transactions(v).idle \in Nat
    BY TransactionCounts
  <2>2. SessionPoints(Transactions(v), v.pool) \in Nat
    BY <2>1 DEF SessionPoints
  <2>3. QED
    BY <2>2, ConnectionPoints
<1>6. QED
  BY <1>1, <1>2, <1>3, <1>4, <1>5

(* What the report says of one score.                                      *)
PartRecords ==
    [name: {"transactions", "locks", "replication_lag", "wal", "connection_pressure"},
     contrib: Nat]

(* The sums on the way of Sum.                                             *)
IsSumOf(sums, parts) ==
    /\ sums[0] = 0
    /\ \A k \in 0..(Len(parts) - 1) : sums[k + 1] = sums[k] + parts[k + 1].contrib

LEMMA SumSteps ==
    ASSUME NEW parts \in Seq(PartRecords)
    PROVE  /\ Len(parts) \in Nat /\ DOMAIN parts = 1..Len(parts)
           /\ \E sums \in [0..Len(parts) -> Nat] :
              /\ IsSumOf(sums, parts)
              /\ Sum(parts) = sums[Len(parts)]
<1> DEFINE N == Len(parts)
           step == [p \in Nat \X (1..N) |-> p[1] + parts[p[2]].contrib]
           IsIter(iter) == iter = [s \in SUBSET (1..N) |->
                             IF s = {} THEN 0
                             ELSE iter[s \ {Max(s)}] + parts[Max(s)].contrib]
           final == CHOOSE iter : IsIter(iter)
           sums == [k \in 0..N |-> final[1..k]]
<1>0. N \in Nat /\ DOMAIN parts = 1..N
  OBVIOUS
<1>1. \A i \in 1..N : parts[i].contrib \in Nat
  <2>1. \A i \in 1..N : parts[i] \in PartRecords
    OBVIOUS
  <2>2. QED
    BY <2>1 DEF PartRecords
<1>5. Sum(parts) = final[1..N]
  BY <1>0, Zenon DEF Sum, FoldLeft, MapThenFoldSet
<1> HIDE DEF N
<1>2. step \in [Nat \X (1..N) -> Nat]
  BY <1>1
<1>3. \E iter : IsIter(iter)
  <2>1. PICK iter \in [SUBSET (1..N) -> Nat] : IsFold(iter, N, 0, step)
    <3> HIDE DEF step
    <3>0. 0 \in Nat
      OBVIOUS
    <3>1. QED
      BY <1>0, <1>2, <3>0, FoldExists
  <2>2. ASSUME NEW s \in SUBSET (1..N), s # {}
        PROVE  step[<<iter[s \ {Max(s)}], Max(s)>>] = iter[s \ {Max(s)}] + parts[Max(s)].contrib
    <3>1. s \subseteq 0..N
      BY <1>0
    <3>2. Max(s) \in s
      BY <1>0, <2>2, <3>1, MaxOfSome
    <3>3. QED
      BY <3>2
  <2>3. IsIter(iter)
    <3> HIDE DEF step
    <3>1. QED
      BY <2>1, <2>2 DEF IsFold
  <2>4. QED
    BY <2>3
<1>4. IsIter(final)
  BY <1>3
<1> HIDE DEF final
<1>6. sums[0] = 0
  BY <1>0, <1>4, IndexSets
<1>7. ASSUME NEW k \in 0..(N - 1)
      PROVE  sums[k + 1] = sums[k] + parts[k + 1].contrib
  <2>1. /\ 1..(k + 1) \in SUBSET (1..N) /\ 1..(k + 1) # {}
        /\ Max(1..(k + 1)) = k + 1 /\ (1..(k + 1)) \ {k + 1} = 1..k
        /\ k \in 0..N /\ k + 1 \in 0..N
    BY <1>0, IndexSets
  <2>2. final[1..(k + 1)] = final[1..k] + parts[k + 1].contrib
    BY <1>4, <2>1
  <2>3. QED
    BY <2>1, <2>2
<1>8. Sum(parts) = sums[N]
  <2>1. N \in 0..N
    BY <1>0
  <2>2. QED
    BY <1>5, <2>1
<1>9. sums \in [0..N -> Nat]
  <2> DEFINE S == {k \in 0..N : sums[k] \in Nat}
  <2> HIDE DEF sums
  <2>1. 0 \in S
    BY <1>0, <1>6
  <2>2. ASSUME NEW k \in 0..(N - 1), k \in S
        PROVE  k + 1 \in S
    <3>1. k + 1 \in 0..N /\ k + 1 \in 1..N
      BY <1>0, IndexSets
    <3>2. QED
      BY <1>1, <1>7, <2>2, <3>1
  <2> HIDE DEF S
  <2>3. 0..N \subseteq S
    BY <1>0, <2>1, <2>2, CountingTo
  <2>4. \A k \in 0..N : sums[k] \in Nat
    BY <2>3 DEF S
  <2>5. QED
    BY <2>4 DEF sums
<1>10. IsSumOf(sums, parts)
  BY <1>6, <1>7 DEF IsSumOf, N
<1> HIDE DEF sums
<1>11. QED
  BY <1>0, <1>8, <1>9, <1>10 DEF N

(* There is one such sum.                                                  *)
LEMMA SumIs ==
    ASSUME NEW parts \in Seq(PartRecords), NEW sums, IsSumOf(sums, parts)
    PROVE  Sum(parts) = sums[Len(parts)]
<1> DEFINE N == Len(parts)
<1>1. PICK own \in [0..N -> Nat] : IsSumOf(own, parts) /\ Sum(parts) = own[N]
  BY SumSteps
<1> DEFINE S == {k \in 0..N : sums[k] = own[k]}
<1>2. N \in Nat
  OBVIOUS
<1>3. 0 \in S
  BY <1>1, <1>2 DEF IsSumOf
<1>4. ASSUME NEW k \in 0..(N - 1), k \in S
      PROVE  k + 1 \in S
  <2>1. k + 1 \in 0..N
    BY <1>2
  <2>2. sums[k + 1] = sums[k] + parts[k + 1].contrib
    BY DEF IsSumOf
  <2>3. own[k + 1] = own[k] + parts[k + 1].contrib
    BY <1>1 DEF IsSumOf
  <2>4. QED
    BY <1>4, <2>1, <2>2, <2>3
<1>5. N \in S
  <2> HIDE DEF S, N
  <2>1. 0..N \subseteq S
    BY <1>2, <1>3, <1>4, CountingTo
  <2>2. N \in 0..N
    BY <1>2
  <2>3. QED
    BY <2>1, <2>2
<1>6. QED
  BY <1>1, <1>5

LEMMA SumOfNone == Sum(<<>>) = 0
<1>1. <<>> \in Seq(PartRecords) /\ Len(<<>>) = 0
  OBVIOUS
<1>2. IsSumOf([k \in {0} |-> 0], <<>>)
  BY <1>1 DEF IsSumOf
<1>3. QED
  BY <1>1, <1>2, SumIs

LEMMA PartInserted ==
    ASSUME NEW parts \in Seq(PartRecords), NEW i \in 1..(Len(parts) + 1),
           NEW part \in PartRecords
    PROVE  /\ InsertAt(parts, i, part) \in Seq(PartRecords)
           /\ Len(InsertAt(parts, i, part)) = Len(parts) + 1
           /\ \A k \in 1..(Len(parts) + 1) : InsertAt(parts, i, part)[k] =
                 IF k < i THEN parts[k] ELSE IF k = i THEN part ELSE parts[k - 1]
BY Inserted

(* A part adds its points, wherever it is put.                             *)
LEMMA SumOfInserted ==
    ASSUME NEW parts \in Seq(PartRecords), NEW i \in 1..(Len(parts) + 1),
           NEW part \in PartRecords
    PROVE  Sum(InsertAt(parts, i, part)) = Sum(parts) + part.contrib
<1> DEFINE N == Len(parts)
           new == InsertAt(parts, i, part)
<1>1. /\ new \in Seq(PartRecords) /\ Len(new) = N + 1
      /\ \A k \in 1..(N + 1) : new[k] =
                 IF k < i THEN parts[k] ELSE IF k = i THEN part ELSE parts[k - 1]
  BY PartInserted
<1>2. PICK own \in [0..N -> Nat] : IsSumOf(own, parts) /\ Sum(parts) = own[N]
  BY SumSteps
<1> DEFINE sums == [k \in 0..(N + 1) |-> IF k < i THEN own[k] ELSE own[k - 1] + part.contrib]
<1>3. N \in Nat /\ part.contrib \in Nat /\ \A k \in 1..N : parts[k].contrib \in Nat
  <2>1. \A k \in 1..N : parts[k] \in PartRecords
    OBVIOUS
  <2>2. QED
    BY <2>1 DEF PartRecords
<1> HIDE DEF new
<1>4. sums[0] = 0
  BY <1>2, <1>3 DEF IsSumOf
<1>5. ASSUME NEW k \in 0..N
      PROVE  sums[k + 1] = sums[k] + new[k + 1].contrib
  <2>1. k \in 0..(N + 1) /\ k + 1 \in 1..(N + 1) /\ k + 1 \in 0..(N + 1) /\ (k + 1) - 1 = k
    BY <1>3
  <2>2. CASE k + 1 < i
    <3>1. k \in 0..(N - 1) /\ k < i
      BY <1>3, <2>2
    <3>2. own[k + 1] = own[k] + parts[k + 1].contrib
      BY <1>2, <3>1 DEF IsSumOf
    <3>3. QED
      BY <1>1, <2>1, <2>2, <3>1, <3>2
  <2>3. CASE k + 1 = i
    <3>1. k < i /\ ~(k + 1 < i)
      BY <1>3, <2>3
    <3>2. sums[k + 1] = own[k] + part.contrib /\ sums[k] = own[k]
      BY <2>1, <3>1
    <3>3. new[k + 1] = part
      BY <1>1, <2>1, <2>3, <3>1
    <3>4. QED
      BY <3>2, <3>3
  <2>4. CASE k + 1 > i
    <3>1. /\ ~(k < i) /\ ~(k + 1 < i) /\ k + 1 # i
          /\ k - 1 \in 0..(N - 1) /\ (k - 1) + 1 = k /\ k \in 1..N
      BY <1>3, <2>4
    <3>2. own[k] = own[k - 1] + parts[k].contrib
      BY <1>2, <3>1 DEF IsSumOf
    <3>3. sums[k + 1] = own[k] + part.contrib /\ sums[k] = own[k - 1] + part.contrib
      BY <2>1, <3>1
    <3>4. new[k + 1] = parts[k]
      BY <1>1, <2>1, <3>1
    <3>5. own[k - 1] \in Nat /\ parts[k].contrib \in Nat
      <4>1. k - 1 \in 0..N
        BY <1>3, <3>1
      <4>2. QED
        BY <1>2, <1>3, <3>1, <4>1
    <3>6. QED
      BY <1>3, <3>2, <3>3, <3>4, <3>5
  <2>5. QED
    BY <1>3, <2>2, <2>3, <2>4
<1>6. IsSumOf(sums, new)
  <2> HIDE DEF sums
  <2>1. (N + 1) - 1 = N
    BY <1>3
  <2>2. QED
    BY <1>1, <1>4, <1>5, <2>1 DEF IsSumOf
<1>7. Sum(new) = sums[N + 1]
  <2> HIDE DEF sums
  <2>1. QED
    BY <1>1, <1>6, SumIs
<1>8. sums[N + 1] = own[N] + part.contrib
  <2>1. N + 1 \in 0..(N + 1) /\ ~(N + 1 < i) /\ (N + 1) - 1 = N
    BY <1>3
  <2>2. QED
    BY <2>1
<1>9. QED
  BY <1>2, <1>7, <1>8 DEF new

LEMMA SumOfAppended ==
    ASSUME NEW parts \in Seq(PartRecords), NEW part \in PartRecords
    PROVE  Sum(Append(parts, part)) = Sum(parts) + part.contrib
<1> DEFINE N == Len(parts)
           new == Append(parts, part)
<1>1. PICK own \in [0..N -> Nat] : IsSumOf(own, parts) /\ Sum(parts) = own[N]
  BY SumSteps
<1> DEFINE sums == [k \in 0..(N + 1) |-> IF k <= N THEN own[k] ELSE own[N] + part.contrib]
<1>2. /\ new \in Seq(PartRecords) /\ Len(new) = N + 1
      /\ \A k \in 1..N : new[k] = parts[k]
      /\ new[N + 1] = part
  OBVIOUS
<1>3. N \in Nat
  OBVIOUS
<1> HIDE DEF new
<1>4. sums[0] = 0
  BY <1>1, <1>3 DEF IsSumOf
<1>5. ASSUME NEW k \in 0..N
      PROVE  sums[k + 1] = sums[k] + new[k + 1].contrib
  <2>1. k \in 0..(N + 1) /\ k + 1 \in 0..(N + 1)
    BY <1>3
  <2>2. CASE k < N
    <3>1. k \in 0..(N - 1) /\ k + 1 \in 1..N /\ k + 1 <= N /\ k <= N
      BY <1>3, <2>2
    <3>2. own[k + 1] = own[k] + parts[k + 1].contrib
      BY <1>1, <3>1 DEF IsSumOf
    <3>3. QED
      BY <1>2, <2>1, <3>1, <3>2
  <2>3. CASE k = N
    <3>1. k <= N /\ ~(k + 1 <= N)
      BY <1>3, <2>3
    <3>2. sums[k + 1] = own[k] + part.contrib /\ sums[k] = own[k]
      BY <2>1, <2>3, <3>1
    <3>3. QED
      BY <1>2, <2>3, <3>2
  <2>4. QED
    BY <1>3, <2>2, <2>3
<1>6. IsSumOf(sums, new)
  <2> HIDE DEF sums
  <2>1. (N + 1) - 1 = N
    BY <1>3
  <2>2. QED
    BY <1>2, <1>4, <1>5, <2>1 DEF IsSumOf
<1>7. Sum(new) = sums[N + 1]
  <2> HIDE DEF sums
  <2>1. QED
    BY <1>2, <1>6, SumIs
<1>8. sums[N + 1] = own[N] + part.contrib
  <2>1. N + 1 \in 0..(N + 1) /\ ~(N + 1 <= N)
    BY <1>3
  <2>2. QED
    BY <2>1
<1>9. QED
  BY <1>1, <1>7, <1>8 DEF new

Descending(parts) ==
    \A i, j \in 1..Len(parts) : i < j => parts[i].contrib >= parts[j].contrib

Listed(parts, part) == \E i \in 1..Len(parts) : parts[i] = part

LEMMA PartPoints ==
    ASSUME NEW parts \in Seq(PartRecords)
    PROVE  /\ Len(parts) \in Nat /\ DOMAIN parts = 1..Len(parts)
           /\ \A i \in 1..Len(parts) : parts[i] \in PartRecords /\ parts[i].contrib \in Nat
<1>1. \A i \in 1..Len(parts) : parts[i] \in PartRecords
  OBVIOUS
<1>2. QED
  BY <1>1 DEF PartRecords

(* The parts with no fewer points are a front of a descending list.        *)
LEMMA HeavierAreFirst ==
    ASSUME NEW parts \in Seq(PartRecords), Descending(parts), NEW n \in Nat
    PROVE  \E m \in 0..Len(parts) :
              /\ {i \in DOMAIN parts : parts[i].contrib >= n} = 1..m
              /\ Cardinality({i \in DOMAIN parts : parts[i].contrib >= n}) = m
<1> DEFINE before == {i \in DOMAIN parts : parts[i].contrib >= n}
           N == Len(parts)
<1>1. N \in Nat /\ DOMAIN parts = 1..N /\ \A i \in 1..N : parts[i].contrib \in Nat
  BY PartPoints
<1>2. before \subseteq 0..N /\ \A i \in before : i \in 1..N
  BY <1>1
<1>3. \A i \in 1..N, j \in before : i <= j => i \in before
  <2>1. ASSUME NEW i \in 1..N, NEW j \in before, i < j
        PROVE  i \in before
    <3>1. parts[i].contrib >= parts[j].contrib /\ parts[j].contrib >= n
      BY <1>2, <2>1 DEF Descending
    <3>2. QED
      BY <1>1, <1>2, <3>1
  <2>2. QED
    BY <1>1, <1>2, <2>1
<1>4. \E m \in 0..N : before = 1..m
  <2>1. CASE before = {}
    <3>1. 0 \in 0..N /\ 1..0 = {}
      BY <1>1
    <3>2. QED
      BY <2>1, <3>1
  <2>2. CASE before # {}
    <3> DEFINE m == Max(before)
    <3> HIDE DEF before
    <3>1. m \in before /\ \A i \in before : i <= m
      BY <1>1, <1>2, <2>2, MaxOfSome
    <3>2. m \in 1..N /\ m \in 0..N
      BY <1>1, <1>2, <3>1
    <3>3. \A i : i \in before <=> i \in 1..m
      <4>1. ASSUME NEW i \in before
            PROVE  i \in 1..m
        BY <1>2, <3>1, <3>2
      <4>2. ASSUME NEW i \in 1..m
            PROVE  i \in before
        <5>1. i \in 1..N /\ i <= m
          BY <3>2
        <5>2. QED
          BY <1>3, <3>1, <5>1
      <4>3. QED
        BY <4>1, <4>2
    <3>4. before = 1..m
      BY <3>3
    <3>5. QED
      BY <3>2, <3>4
  <2>3. QED
    BY <2>1, <2>2
<1>5. PICK m \in 0..N : before = 1..m
  BY <1>4
<1>6. Cardinality(1..m) = m
  <2>1. m \in Int /\ 1 \in Int /\ m >= 0
    BY <1>1
  <2>2. Cardinality(1..m) = IF 1 > m THEN 0 ELSE m - 1 + 1
    BY <2>1, FS_Interval
  <2>3. QED
    BY <2>1, <2>2
<1>7. QED
  BY <1>5, <1>6

LEMMA InsertKeepsOrder ==
    ASSUME NEW parts \in Seq(PartRecords), Descending(parts), NEW part \in PartRecords
    PROVE  /\ Insert(parts, part) \in Seq(PartRecords)
           /\ Descending(Insert(parts, part))
           /\ Sum(Insert(parts, part)) = Sum(parts) + part.contrib
           /\ \A x : Listed(Insert(parts, part), x) <=> Listed(parts, x) \/ x = part
<1> DEFINE before == {i \in DOMAIN parts : parts[i].contrib >= part.contrib}
           N == Len(parts)
<1>1. N \in Nat /\ \A i \in 1..N : parts[i].contrib \in Nat
  BY PartPoints
<1>2. part.contrib \in Nat
  BY DEF PartRecords
<1>3. DOMAIN parts = 1..N
  BY PartPoints
<1>4. PICK m \in 0..N : before = 1..m /\ Cardinality(before) = m
  BY <1>2, HeavierAreFirst
<1> DEFINE place == m + 1
           after == InsertAt(parts, place, part)
<1>5. Insert(parts, part) = after
  BY <1>4 DEF Insert
<1>6. place \in 1..(N + 1) /\ place - 1 = m /\ m \in Nat /\ m <= N
  BY <1>1
<1>7. \A i \in 1..N : i <= m <=> parts[i].contrib >= part.contrib
  BY <1>1, <1>3, <1>4
<1> HIDE DEF before, place, after
<1>8. /\ after \in Seq(PartRecords) /\ Len(after) = N + 1
      /\ \A k \in 1..(N + 1) : after[k] =
            IF k < place THEN parts[k] ELSE IF k = place THEN part ELSE parts[k - 1]
  BY <1>6, PartInserted DEF after
<1>9. Sum(after) = Sum(parts) + part.contrib
  BY <1>6, SumOfInserted DEF after
<1>10. Descending(after)
  <2>1. SUFFICES ASSUME NEW i \in 1..(N + 1), NEW j \in 1..(N + 1), i < j
                 PROVE  after[i].contrib >= after[j].contrib
    BY <1>8 DEF Descending
  <2> DEFINE Old(k) == IF k < place THEN k ELSE k - 1
  <2>2. \A k \in 1..(N + 1) : k # place =>
           /\ Old(k) \in 1..N /\ after[k] = parts[Old(k)]
           /\ k < place => Old(k) <= m
           /\ k > place => Old(k) > m
    <3>1. ASSUME NEW k \in 1..(N + 1), k # place
          PROVE  /\ Old(k) \in 1..N
                 /\ k < place => Old(k) <= m
                 /\ k > place => Old(k) > m
      BY <1>1, <1>6, <3>1
    <3>2. ASSUME NEW k \in 1..(N + 1), k # place
          PROVE  after[k] = parts[Old(k)]
      BY <1>6, <1>8, <3>2
    <3>3. QED
      BY <3>1, <3>2
  <2>3. after[place] = part
    <3>1. ~(place < place)
      BY <1>6
    <3>2. QED
      BY <1>6, <1>8, <3>1
  <2>4. CASE i = place
    <3>1. j # place /\ j > place /\ i \in Nat
      BY <1>1, <1>6, <2>1, <2>4
    <3>2. Old(j) \in 1..N /\ after[j] = parts[Old(j)] /\ Old(j) > m
      BY <2>2, <3>1
    <3> HIDE DEF Old
    <3>3. ~(parts[Old(j)].contrib >= part.contrib)
      BY <1>1, <1>6, <1>7, <3>2
    <3>4. parts[Old(j)].contrib \in Nat
      BY <1>1, <3>2
    <3>5. QED
      BY <1>2, <2>3, <2>4, <3>2, <3>3, <3>4
  <2>5. CASE j = place
    <3>1. i # place /\ i < place /\ i \in Nat
      BY <1>1, <1>6, <2>1, <2>5
    <3>2. Old(i) \in 1..N /\ after[i] = parts[Old(i)] /\ Old(i) <= m
      BY <2>2, <3>1
    <3> HIDE DEF Old
    <3>3. parts[Old(i)].contrib >= part.contrib
      BY <1>1, <1>6, <1>7, <3>2
    <3>4. QED
      BY <2>3, <2>5, <3>2, <3>3
  <2>6. CASE i # place /\ j # place
    <3>1. /\ Old(i) \in 1..N /\ after[i] = parts[Old(i)]
          /\ Old(j) \in 1..N /\ after[j] = parts[Old(j)]
      BY <2>2, <2>6
    <3>2. Old(i) < Old(j)
      BY <1>1, <1>6, <2>1, <2>6
    <3> HIDE DEF Old
    <3>3. parts[Old(i)].contrib >= parts[Old(j)].contrib
      BY <3>1, <3>2 DEF Descending
    <3>4. QED
      BY <3>1, <3>3
  <2>7. QED
    BY <2>4, <2>5, <2>6
<1>11. ASSUME NEW x
       PROVE  Listed(after, x) <=> Listed(parts, x) \/ x = part
  <2>1. ASSUME Listed(after, x)
        PROVE  Listed(parts, x) \/ x = part
    <3>1. PICK k \in 1..(N + 1) : after[k] = x
      BY <1>8, <2>1 DEF Listed
    <3>2. CASE k = place
      <4>1. ~(k < place)
        BY <1>6, <3>2
      <4>2. QED
        BY <1>8, <3>1, <3>2, <4>1
    <3>3. CASE k < place
      <4>1. k \in 1..N
        BY <1>6, <3>3
      <4>2. parts[k] = x
        BY <1>8, <3>1, <3>3
      <4>3. QED
        BY <4>1, <4>2 DEF Listed
    <3>4. CASE k > place
      <4>1. k - 1 \in 1..N /\ ~(k < place) /\ k # place
        BY <1>6, <3>4
      <4>2. parts[k - 1] = x
        BY <1>8, <3>1, <4>1
      <4>3. QED
        BY <4>1, <4>2 DEF Listed
    <3>5. QED
      BY <1>6, <3>2, <3>3, <3>4
  <2>2. ASSUME Listed(parts, x)
        PROVE  Listed(after, x)
    <3>1. PICK k \in 1..N : parts[k] = x
      BY <2>2 DEF Listed
    <3>2. CASE k < place
      <4>1. k \in 1..(N + 1) /\ after[k] = x
        BY <1>1, <1>8, <3>1, <3>2
      <4>2. QED
        BY <1>8, <4>1 DEF Listed
    <3>3. CASE ~(k < place)
      <4>1. k + 1 \in 1..(N + 1) /\ ~(k + 1 < place) /\ k + 1 # place /\ (k + 1) - 1 = k
        BY <1>1, <1>6, <3>3
      <4>2. after[k + 1] = x
        BY <1>8, <3>1, <4>1
      <4>3. QED
        BY <1>8, <4>1, <4>2 DEF Listed
    <3>4. QED
      BY <3>2, <3>3
  <2>3. Listed(after, part)
    <3>1. ~(place < place)
      BY <1>6
    <3>2. after[place] = part
      BY <1>6, <1>8, <3>1
    <3>3. QED
      BY <1>6, <1>8, <3>2 DEF Listed
  <2>4. QED
    BY <2>1, <2>2, <2>3
<1>12. QED
  BY <1>5, <1>8, <1>9, <1>10, <1>11

Ordered == {s \in Seq(PartRecords) : Descending(s)}

(* The lists on the way of Sorted.                                         *)
LEMMA SortSteps ==
    ASSUME NEW parts \in Seq(PartRecords)
    PROVE  \E lists \in [0..Len(parts) -> Ordered] :
              /\ lists[0] = <<>>
              /\ \A k \in 0..(Len(parts) - 1) : lists[k + 1] = Insert(lists[k], parts[k + 1])
              /\ Sorted(parts) = lists[Len(parts)]
<1> DEFINE N == Len(parts)
           D == Ordered
           step == [p \in D \X (1..N) |-> Insert(p[1], parts[p[2]])]
           IsIter(iter) == iter = [s \in SUBSET (1..N) |->
                             IF s = {} THEN <<>>
                             ELSE Insert(iter[s \ {Max(s)}], parts[Max(s)])]
           final == CHOOSE iter : IsIter(iter)
           lists == [k \in 0..N |-> final[1..k]]
<1>0. N \in Nat /\ DOMAIN parts = 1..N
  OBVIOUS
<1>1. <<>> \in D /\ \A s \in D, part \in PartRecords : Insert(s, part) \in D
  <2>1. <<>> \in Ordered
    <3>1. <<>> \in Seq(PartRecords) /\ Len(<<>>) = 0 /\ 1..0 = {}
      OBVIOUS
    <3>2. QED
      BY <3>1 DEF Ordered, Descending
  <2>2. QED
    BY <2>1, InsertKeepsOrder DEF Ordered
<1>2. \A i \in 1..N : parts[i] \in PartRecords
  OBVIOUS
<1>3. Sorted(parts) = final[1..N]
  BY <1>0, Zenon DEF Sorted, FoldLeft, MapThenFoldSet
<1> HIDE DEF N, D
<1>4. step \in [D \X (1..N) -> D]
  BY <1>1, <1>2
<1>5. \E iter : IsIter(iter)
  <2>1. PICK iter \in [SUBSET (1..N) -> D] : IsFold(iter, N, <<>>, step)
    <3> HIDE DEF step
    <3>1. QED
      BY <1>0, <1>1, <1>4, FoldExists
  <2>2. ASSUME NEW s \in SUBSET (1..N), s # {}
        PROVE  step[<<iter[s \ {Max(s)}], Max(s)>>] = Insert(iter[s \ {Max(s)}], parts[Max(s)])
    <3>1. s \subseteq 0..N
      BY <1>0
    <3>2. Max(s) \in s
      BY <1>0, <2>2, <3>1, MaxOfSome
    <3>3. QED
      BY <3>2
  <2>3. IsIter(iter)
    <3> HIDE DEF step
    <3>1. QED
      BY <2>1, <2>2 DEF IsFold
  <2>4. QED
    BY <2>3
<1>6. IsIter(final)
  BY <1>5
<1> HIDE DEF final
<1>7. lists[0] = <<>>
  BY <1>0, <1>6, IndexSets
<1>8. ASSUME NEW k \in 0..(N - 1)
      PROVE  lists[k + 1] = Insert(lists[k], parts[k + 1])
  <2>1. /\ 1..(k + 1) \in SUBSET (1..N) /\ 1..(k + 1) # {}
        /\ Max(1..(k + 1)) = k + 1 /\ (1..(k + 1)) \ {k + 1} = 1..k
        /\ k \in 0..N /\ k + 1 \in 0..N
    BY <1>0, IndexSets
  <2>2. final[1..(k + 1)] = Insert(final[1..k], parts[k + 1])
    BY <1>6, <2>1
  <2>3. QED
    BY <2>1, <2>2
<1>9. Sorted(parts) = lists[N]
  <2>1. N \in 0..N
    BY <1>0
  <2>2. QED
    BY <1>3, <2>1
<1>10. lists \in [0..N -> D]
  <2> DEFINE S == {k \in 0..N : lists[k] \in D}
  <2> HIDE DEF lists
  <2>1. 0 \in S
    BY <1>0, <1>1, <1>7
  <2>2. ASSUME NEW k \in 0..(N - 1), k \in S
        PROVE  k + 1 \in S
    <3>1. k + 1 \in 0..N /\ k + 1 \in 1..N
      BY <1>0, IndexSets
    <3>2. QED
      BY <1>1, <1>2, <1>8, <2>2, <3>1
  <2> HIDE DEF S
  <2>3. 0..N \subseteq S
    BY <1>0, <2>1, <2>2, CountingTo
  <2>4. \A k \in 0..N : lists[k] \in D
    BY <2>3 DEF S
  <2>5. QED
    BY <2>4 DEF lists
<1> HIDE DEF lists
<1>11. QED
  BY <1>7, <1>8, <1>9, <1>10 DEF N, D

(* The lists on the way of what is shown.                                  *)
LEMMA ShowSteps ==
    ASSUME NEW parts \in Seq(PartRecords)
    PROVE  \E lists \in [0..Len(parts) -> Seq(PartRecords)] :
              /\ lists[0] = <<>>
              /\ \A k \in 0..(Len(parts) - 1) : lists[k + 1] = Show(lists[k], parts[k + 1])
              /\ FoldLeft(Show, <<>>, parts) = lists[Len(parts)]
<1> DEFINE N == Len(parts)
           D == Seq(PartRecords)
           step == [p \in D \X (1..N) |-> Show(p[1], parts[p[2]])]
           IsIter(iter) == iter = [s \in SUBSET (1..N) |->
                             IF s = {} THEN <<>>
                             ELSE Show(iter[s \ {Max(s)}], parts[Max(s)])]
           final == CHOOSE iter : IsIter(iter)
           lists == [k \in 0..N |-> final[1..k]]
<1>0. N \in Nat /\ DOMAIN parts = 1..N
  OBVIOUS
<1>1. <<>> \in D /\ \A s \in D, part \in PartRecords : Show(s, part) \in D
  BY DEF Show
<1>2. \A i \in 1..N : parts[i] \in PartRecords
  OBVIOUS
<1>3. FoldLeft(Show, <<>>, parts) = final[1..N]
  BY <1>0, Zenon DEF FoldLeft, MapThenFoldSet
<1> HIDE DEF N, D
<1>4. step \in [D \X (1..N) -> D]
  BY <1>1, <1>2
<1>5. \E iter : IsIter(iter)
  <2>1. PICK iter \in [SUBSET (1..N) -> D] : IsFold(iter, N, <<>>, step)
    <3> HIDE DEF step
    <3>1. QED
      BY <1>0, <1>1, <1>4, FoldExists
  <2>2. ASSUME NEW s \in SUBSET (1..N), s # {}
        PROVE  step[<<iter[s \ {Max(s)}], Max(s)>>] = Show(iter[s \ {Max(s)}], parts[Max(s)])
    <3>1. s \subseteq 0..N
      BY <1>0
    <3>2. Max(s) \in s
      BY <1>0, <2>2, <3>1, MaxOfSome
    <3>3. QED
      BY <3>2
  <2>3. IsIter(iter)
    <3> HIDE DEF step
    <3>1. QED
      BY <2>1, <2>2 DEF IsFold
  <2>4. QED
    BY <2>3
<1>6. IsIter(final)
  BY <1>5
<1> HIDE DEF final
<1>7. lists[0] = <<>>
  BY <1>0, <1>6, IndexSets
<1>8. ASSUME NEW k \in 0..(N - 1)
      PROVE  lists[k + 1] = Show(lists[k], parts[k + 1])
  <2>1. /\ 1..(k + 1) \in SUBSET (1..N) /\ 1..(k + 1) # {}
        /\ Max(1..(k + 1)) = k + 1 /\ (1..(k + 1)) \ {k + 1} = 1..k
        /\ k \in 0..N /\ k + 1 \in 0..N
    BY <1>0, IndexSets
  <2>2. final[1..(k + 1)] = Show(final[1..k], parts[k + 1])
    BY <1>6, <2>1
  <2>3. QED
    BY <2>1, <2>2
<1>9. FoldLeft(Show, <<>>, parts) = lists[N]
  <2>1. N \in 0..N
    BY <1>0
  <2>2. QED
    BY <1>3, <2>1
<1>10. lists \in [0..N -> D]
  <2> DEFINE S == {k \in 0..N : lists[k] \in D}
  <2> HIDE DEF lists
  <2>1. 0 \in S
    BY <1>0, <1>1, <1>7
  <2>2. ASSUME NEW k \in 0..(N - 1), k \in S
        PROVE  k + 1 \in S
    <3>1. k + 1 \in 0..N /\ k + 1 \in 1..N
      BY <1>0, IndexSets
    <3>2. QED
      BY <1>1, <1>2, <1>8, <2>2, <3>1
  <2> HIDE DEF S
  <2>3. 0..N \subseteq S
    BY <1>0, <2>1, <2>2, CountingTo
  <2>4. \A k \in 0..N : lists[k] \in D
    BY <2>3 DEF S
  <2>5. QED
    BY <2>4 DEF lists
<1> HIDE DEF lists
<1>11. QED
  BY <1>7, <1>8, <1>9, <1>10 DEF N, D

(* Sorting keeps the parts and their sum.                                  *)
LEMMA SortedIs ==
    ASSUME NEW parts \in Seq(PartRecords)
    PROVE  /\ Sorted(parts) \in Seq(PartRecords)
           /\ Descending(Sorted(parts))
           /\ Sum(Sorted(parts)) = Sum(parts)
           /\ \A x : Listed(Sorted(parts), x) <=> Listed(parts, x)
<1> DEFINE N == Len(parts)
<1>0. N \in Nat /\ \A i \in 1..N : parts[i] \in PartRecords
  BY PartPoints
<1>1. PICK lists \in [0..N -> Ordered] :
         /\ lists[0] = <<>>
         /\ \A k \in 0..(N - 1) : lists[k + 1] = Insert(lists[k], parts[k + 1])
         /\ Sorted(parts) = lists[N]
  BY SortSteps
<1>2. PICK sums \in [0..N -> Nat] : IsSumOf(sums, parts) /\ Sum(parts) = sums[N]
  BY SumSteps
<1> DEFINE S == {k \in 0..N :
                   /\ Sum(lists[k]) = sums[k]
                   /\ \A x : Listed(lists[k], x) <=> \E i \in 1..k : parts[i] = x}
<1>3. 0 \in S
  <2>1. sums[0] = 0
    BY <1>2 DEF IsSumOf
  <2>2. \A x : ~Listed(<<>>, x)
    BY DEF Listed
  <2>3. 0 \in 0..N /\ 1..0 = {}
    BY <1>0
  <2>4. QED
    BY <1>1, <2>1, <2>2, <2>3, SumOfNone
<1>4. ASSUME NEW k \in 0..(N - 1), k \in S
      PROVE  k + 1 \in S
  <2>1. k \in 0..N /\ k + 1 \in 0..N /\ k + 1 \in 1..N
    BY <1>0
  <2>2. lists[k] \in Seq(PartRecords) /\ Descending(lists[k]) /\ parts[k + 1] \in PartRecords
    BY <1>0, <1>1, <2>1 DEF Ordered
  <2>3. /\ Sum(lists[k + 1]) = Sum(lists[k]) + parts[k + 1].contrib
        /\ \A x : Listed(lists[k + 1], x) <=> Listed(lists[k], x) \/ x = parts[k + 1]
    <3> HIDE DEF S
    <3>1. /\ Sum(Insert(lists[k], parts[k + 1])) = Sum(lists[k]) + parts[k + 1].contrib
          /\ \A x : Listed(Insert(lists[k], parts[k + 1]), x)
                      <=> Listed(lists[k], x) \/ x = parts[k + 1]
      BY <2>2, InsertKeepsOrder
    <3>2. lists[k + 1] = Insert(lists[k], parts[k + 1])
      BY <1>1
    <3>3. QED
      BY <3>1, <3>2
  <2>4. sums[k + 1] = sums[k] + parts[k + 1].contrib
    BY <1>2 DEF IsSumOf
  <2>5. \A i : i \in 1..(k + 1) <=> i \in 1..k \/ i = k + 1
    BY <1>0
  <2>6. \A x : Listed(lists[k + 1], x) <=> \E i \in 1..(k + 1) : parts[i] = x
    BY <1>4, <2>3, <2>5
  <2>7. QED
    BY <1>4, <2>1, <2>3, <2>4, <2>6
<1>5. N \in S
  <2> HIDE DEF S, N
  <2>1. 0..N \subseteq S
    BY <1>0, <1>3, <1>4, CountingTo
  <2>2. N \in 0..N
    BY <1>0
  <2>3. QED
    BY <2>1, <2>2
<1>6. Sorted(parts) \in Ordered
  <2>1. N \in 0..N
    BY <1>0
  <2>2. QED
    BY <1>1, <2>1
<1>7. \A x : Listed(parts, x) <=> \E i \in 1..N : parts[i] = x
  BY DEF Listed
<1>8. /\ Sum(lists[N]) = sums[N]
      /\ \A x : Listed(lists[N], x) <=> \E i \in 1..N : parts[i] = x
  BY <1>5
<1>9. QED
  BY <1>1, <1>2, <1>6, <1>7, <1>8 DEF Ordered

(* What is shown of a descending list: all that has points, in its order.  *)
LEMMA ShownIs ==
    ASSUME NEW parts \in Seq(PartRecords), Descending(parts)
    PROVE  LET shown == FoldLeft(Show, <<>>, parts) IN
           /\ shown \in Seq(PartRecords)
           /\ Descending(shown)
           /\ Sum(shown) = Sum(parts)
           /\ \A x : Listed(shown, x) <=> Listed(parts, x) /\ x.contrib > 0
<1> DEFINE N == Len(parts)
<1>0. N \in Nat /\ \A i \in 1..N : parts[i] \in PartRecords /\ parts[i].contrib \in Nat
  BY PartPoints
<1>1. PICK lists \in [0..N -> Seq(PartRecords)] :
         /\ lists[0] = <<>>
         /\ \A k \in 0..(N - 1) : lists[k + 1] = Show(lists[k], parts[k + 1])
         /\ FoldLeft(Show, <<>>, parts) = lists[N]
  BY ShowSteps
<1>2. PICK sums \in [0..N -> Nat] : IsSumOf(sums, parts) /\ Sum(parts) = sums[N]
  BY SumSteps
<1> DEFINE S == {k \in 0..N :
                   /\ Descending(lists[k])
                   /\ Sum(lists[k]) = sums[k]
                   /\ \A x : Listed(lists[k], x)
                               <=> (\E i \in 1..k : parts[i] = x) /\ x.contrib > 0}
<1>3. 0 \in S
  <2>1. sums[0] = 0
    BY <1>2 DEF IsSumOf
  <2>2. Len(<<>>) = 0 /\ 1..0 = {} /\ 0 \in 0..N
    BY <1>0
  <2>3. Descending(<<>>) /\ \A x : ~Listed(<<>>, x)
    BY <2>2 DEF Listed, Descending
  <2>4. QED
    BY <1>1, <2>1, <2>2, <2>3, SumOfNone
<1>4. ASSUME NEW k \in 0..(N - 1), k \in S
      PROVE  k + 1 \in S
  <2> DEFINE part == parts[k + 1]
             old == lists[k]
  <2>1. /\ k \in 0..N /\ k + 1 \in 0..N /\ k + 1 \in 1..N
        /\ \A i : i \in 1..(k + 1) <=> i \in 1..k \/ i = k + 1
        /\ \A i \in 1..k : i \in 1..N /\ i < k + 1
    BY <1>0
  <2>2. old \in Seq(PartRecords) /\ part \in PartRecords /\ part.contrib \in Nat
    BY <1>0, <1>1, <2>1
  <2>3. sums[k + 1] = sums[k] + part.contrib /\ sums[k] \in Nat
    BY <1>2, <2>1 DEF IsSumOf
  <2>4. /\ Descending(old) /\ Sum(old) = sums[k]
        /\ \A x : Listed(old, x) <=> (\E i \in 1..k : parts[i] = x) /\ x.contrib > 0
    BY <1>4
  <2>5. lists[k + 1] = IF part.contrib > 0 THEN Append(old, part) ELSE old
    BY <1>1 DEF Show
  <2>6. CASE part.contrib > 0
    <3> DEFINE new == Append(old, part)
    <3> HIDE DEF part, old
    <3>1. /\ Len(new) = Len(old) + 1 /\ Len(old) \in Nat
          /\ \A i \in 1..Len(old) : new[i] = old[i]
          /\ new[Len(old) + 1] = part
          /\ \A i : i \in 1..Len(new) <=> i \in 1..Len(old) \/ i = Len(old) + 1
      BY <2>2
    <3>2. Sum(new) = Sum(old) + part.contrib
      BY <2>2, SumOfAppended
    <3>3. \A x : Listed(new, x) <=> Listed(old, x) \/ x = part
      <4> HIDE DEF new
      <4>1. QED
        BY <3>1 DEF Listed
    <3>4. \A i \in 1..Len(old) : old[i].contrib >= part.contrib
      <4>1. ASSUME NEW i \in 1..Len(old)
            PROVE  old[i].contrib >= part.contrib
        <5>1. Listed(old, old[i])
          BY DEF Listed
        <5>2. PICK j \in 1..k : parts[j] = old[i]
          BY <2>4, <5>1
        <5>3. parts[j].contrib >= parts[k + 1].contrib
          BY <2>1 DEF Descending
        <5>4. QED
          BY <5>2, <5>3 DEF part
      <4>2. QED
        BY <4>1
    <3>5. Descending(new)
      <4> HIDE DEF new
      <4>1. SUFFICES ASSUME NEW i \in 1..Len(new), NEW j \in 1..Len(new), i < j
                     PROVE  new[i].contrib >= new[j].contrib
        BY DEF Descending
      <4>2. i \in 1..Len(old)
        BY <3>1, <4>1
      <4>3. CASE j = Len(old) + 1
        BY <3>1, <3>4, <4>2, <4>3
      <4>4. CASE j \in 1..Len(old)
        <5>1. old[i].contrib >= old[j].contrib
          BY <2>4, <4>1, <4>2, <4>4 DEF Descending
        <5>2. QED
          BY <3>1, <4>2, <4>4, <5>1
      <4>5. QED
        BY <3>1, <4>3, <4>4
    <3> HIDE DEF new
    <3>6. lists[k + 1] = new
      BY <2>5, <2>6 DEF new
    <3>7. \A x : Listed(new, x) <=> (\E i \in 1..(k + 1) : parts[i] = x) /\ x.contrib > 0
      BY <2>1, <2>4, <2>6, <3>3 DEF part
    <3>8. QED
      BY <2>1, <2>3, <2>4, <3>2, <3>5, <3>6, <3>7
  <2>7. CASE ~(part.contrib > 0)
    <3>1. part.contrib = 0 /\ lists[k + 1] = old
      BY <2>2, <2>5, <2>7
    <3>2. \A x : Listed(old, x) <=> (\E i \in 1..(k + 1) : parts[i] = x) /\ x.contrib > 0
      BY <2>1, <2>4, <2>7
    <3> HIDE DEF part, old
    <3>3. sums[k + 1] = sums[k]
      BY <2>3, <3>1
    <3>4. QED
      BY <2>1, <2>4, <3>1, <3>2, <3>3
  <2>8. QED
    BY <2>6, <2>7
<1>5. N \in S
  <2> HIDE DEF S, N
  <2>1. 0..N \subseteq S
    BY <1>0, <1>3, <1>4, CountingTo
  <2>2. N \in 0..N
    BY <1>0
  <2>3. QED
    BY <2>1, <2>2
<1>6. lists[N] \in Seq(PartRecords)
  <2>1. N \in 0..N
    BY <1>0
  <2>2. QED
    BY <1>1, <2>1
<1>7. \A x : Listed(parts, x) <=> \E i \in 1..N : parts[i] = x
  BY DEF Listed
<1>8. /\ Descending(lists[N]) /\ Sum(lists[N]) = sums[N]
      /\ \A x : Listed(lists[N], x) <=> (\E i \in 1..N : parts[i] = x) /\ x.contrib > 0
  BY <1>5
<1>9. QED
  BY <1>1, <1>2, <1>6, <1>7, <1>8

Total(v) ==
    ScoreTransactions(Transactions(v)) + ScoreLocks(v.graph)
        + ScoreReplication(EffectiveLag(v)) + ScoreWal(v.wal, WalLimits)
        + ScoreConnections(Transactions(v), v.pool)

LEMMA FiveParts ==
    ASSUME NEW v \in Servers
    PROVE  /\ Parts(v) \in Seq(PartRecords)
           /\ \A x : Listed(Parts(v), x) /\ x.name = "replication_lag"
                       => x.contrib = ScoreReplication(EffectiveLag(v))
           /\ Listed(Parts(v), [name |-> "replication_lag",
                                contrib |-> ScoreReplication(EffectiveLag(v))])
           /\ Sum(Parts(v)) = Total(v)
           /\ Total(v) \in Nat
<1> DEFINE a == ScoreTransactions(Transactions(v))
           b == ScoreLocks(v.graph)
           c == ScoreReplication(EffectiveLag(v))
           d == ScoreWal(v.wal, WalLimits)
           e == ScoreConnections(Transactions(v), v.pool)
           A == [name |-> "transactions", contrib |-> a]
           B == [name |-> "locks", contrib |-> b]
           C == [name |-> "replication_lag", contrib |-> c]
           D == [name |-> "wal", contrib |-> d]
           E == [name |-> "connection_pressure", contrib |-> e]
           parts == <<A, B, C, D, E>>
<1>1. a \in Nat /\ b \in Nat /\ c \in Nat /\ d \in Nat /\ e \in Nat
  BY PointsAreNumbers
<1>2. Parts(v) = parts
  BY DEF Parts
<1>3. Total(v) = a + b + c + d + e
  BY DEF Total
<1> HIDE DEF a, b, c, d, e
<1>4. /\ A \in PartRecords /\ B \in PartRecords /\ C \in PartRecords
      /\ D \in PartRecords /\ E \in PartRecords
  <2>1. A \in PartRecords
    BY <1>1 DEF PartRecords
  <2>2. B \in PartRecords
    BY <1>1 DEF PartRecords
  <2>3. C \in PartRecords
    BY <1>1 DEF PartRecords
  <2>4. D \in PartRecords
    BY <1>1 DEF PartRecords
  <2>5. E \in PartRecords
    BY <1>1 DEF PartRecords
  <2>6. QED
    BY <2>1, <2>2, <2>3, <2>4, <2>5
<1>5. /\ A.contrib = a /\ B.contrib = b /\ C.contrib = c /\ D.contrib = d /\ E.contrib = e
      /\ A.name # "replication_lag" /\ B.name # "replication_lag"
      /\ D.name # "replication_lag" /\ E.name # "replication_lag"
  OBVIOUS
<1>6. C = [name |-> "replication_lag", contrib |-> c]
  OBVIOUS
<1> HIDE DEF A, B, C, D, E
<1>7. /\ parts \in Seq(PartRecords) /\ Len(parts) = 5
      /\ parts[1] = A /\ parts[2] = B /\ parts[3] = C /\ parts[4] = D /\ parts[5] = E
  BY <1>4
<1> HIDE DEF parts
<1>8. 1..5 = {1, 2, 3, 4, 5}
  OBVIOUS
<1>9. \A x : Listed(parts, x) <=> x = A \/ x = B \/ x = C \/ x = D \/ x = E
  BY <1>7, <1>8 DEF Listed
<1>10. Sum(parts) = a + b + c + d + e
  <2>1. PICK sums \in [0..5 -> Nat] : IsSumOf(sums, parts) /\ Sum(parts) = sums[5]
    BY <1>7, SumSteps
  <2>2. /\ 0 \in 0..(5 - 1) /\ 1 \in 0..(5 - 1) /\ 2 \in 0..(5 - 1) /\ 3 \in 0..(5 - 1)
        /\ 4 \in 0..(5 - 1)
    OBVIOUS
  <2>3. sums[0] = 0 /\ \A k \in 0..(5 - 1) : sums[k + 1] = sums[k] + parts[k + 1].contrib
    BY <1>7, <2>1 DEF IsSumOf
  <2>4. /\ sums[1] = sums[0] + a /\ sums[2] = sums[1] + b /\ sums[3] = sums[2] + c
        /\ sums[4] = sums[3] + d /\ sums[5] = sums[4] + e
    <3>1. /\ sums[0 + 1] = sums[0] + parts[0 + 1].contrib
          /\ sums[1 + 1] = sums[1] + parts[1 + 1].contrib
          /\ sums[2 + 1] = sums[2] + parts[2 + 1].contrib
          /\ sums[3 + 1] = sums[3] + parts[3 + 1].contrib
          /\ sums[4 + 1] = sums[4] + parts[4 + 1].contrib
      BY <2>2, <2>3
    <3>2. 0 + 1 = 1 /\ 1 + 1 = 2 /\ 2 + 1 = 3 /\ 3 + 1 = 4 /\ 4 + 1 = 5
      OBVIOUS
    <3>3. QED
      BY <1>5, <1>7, <3>1, <3>2
  <2>5. QED
    BY <1>1, <2>1, <2>3, <2>4
<1>11. QED
  BY <1>1, <1>2, <1>3, <1>5, <1>6, <1>7, <1>9, <1>10 DEF c

LEMMA PressureIs ==
    ASSUME NEW v \in Servers
    PROVE  Pressure(v) = IF Total(v) <= 100 THEN Total(v) ELSE 100
<1>1. Sum(Parts(v)) = Total(v) /\ Total(v) \in Nat
  BY FiveParts
<1>2. Min({Sum(Parts(v)), 100}) = IF Sum(Parts(v)) <= 100 THEN Sum(Parts(v)) ELSE 100
  BY <1>1, MinOfTwo
<1>3. QED
  BY <1>1, <1>2 DEF Pressure

(* The health and the points of the lag are two readings of one number.    *)
LEMMA HealthIsPoints ==
    ASSUME NEW v \in Servers
    PROVE  /\ Health(v) = "severely_lagging" <=> ScoreReplication(EffectiveLag(v)) = 35
           /\ Health(v) = "lagging" <=> ScoreReplication(EffectiveLag(v)) = 18
<1> DEFINE lag == EffectiveLag(v)
<1>1. lag \in Nat
  BY LagIsGreatest
<1>2. LagLimits.warn \in Nat /\ LagLimits.critical \in Nat
  BY SettingsAssumption
<1>3. Replicas(v) = {} => lag = 0
  BY LagIsGreatest
<1>4. Health(v) = CASE Replicas(v) = {} -> "none"
      [] Replicas(v) # {} /\ Passes(lag, LagLimits.critical) -> "severely_lagging"
      [] Replicas(v) # {} /\ ~Passes(lag, LagLimits.critical)
            /\ Passes(lag, LagLimits.warn) -> "lagging"
      [] OTHER -> "healthy"
  BY DEF Health
<1> HIDE DEF lag
<1>5. \A limit \in Nat : Passes(lag, limit) <=> limit > 0 /\ lag >= limit
  BY DEF Passes
<1>6. Passes(lag, LagLimits.critical) \/ Passes(lag, LagLimits.warn) => lag > 0
  BY <1>1, <1>2, <1>5
<1>7. /\ ScoreReplication(lag) = 35 <=> Passes(lag, LagLimits.critical)
      /\ ScoreReplication(lag) = 18
           <=> ~Passes(lag, LagLimits.critical) /\ Passes(lag, LagLimits.warn)
  <2>1. lag > 0 <=> ~(lag <= 0)
    BY <1>1
  <2>2. CASE Passes(lag, LagLimits.critical)
    BY <1>6, <2>1, <2>2 DEF ScoreReplication
  <2>3. CASE ~Passes(lag, LagLimits.critical) /\ Passes(lag, LagLimits.warn)
    BY <1>6, <2>1, <2>3 DEF ScoreReplication
  <2>4. CASE ~Passes(lag, LagLimits.critical) /\ ~Passes(lag, LagLimits.warn)
    BY <2>1, <2>4 DEF ScoreReplication
  <2>5. QED
    BY <2>2, <2>3, <2>4
<1>8. Passes(lag, LagLimits.critical) \/ Passes(lag, LagLimits.warn) => Replicas(v) # {}
  BY <1>1, <1>3, <1>6
<1>9. /\ Health(v) = "severely_lagging" <=> Passes(lag, LagLimits.critical)
      /\ Health(v) = "lagging"
           <=> ~Passes(lag, LagLimits.critical) /\ Passes(lag, LagLimits.warn)
  BY <1>4, <1>8
<1>10. QED
  BY <1>7, <1>9 DEF lag

ServerTyped == server \in Servers

LEMMA ServersStay == RuntimeSpec => []ServerTyped
<1>1. RuntimeInit => ServerTyped
  BY DEF RuntimeInit, ServerTyped
<1>2. ASSUME ServerTyped, [RuntimeNext]_server
      PROVE  ServerTyped'
  <2>1. /\ server = [clients |-> server.clients, pool |-> server.pool, graph |-> server.graph,
                     senders |-> server.senders, wal |-> server.wal]
        /\ server.clients \in [Clients -> Activities] /\ server.pool \in Pools
        /\ server.graph \in Graphs /\ server.senders \in [Standbys -> Lags]
        /\ server.wal \in WalRates
    BY <1>2 DEF Servers, ServerTyped
  <2>2. ASSUME NEW c \in Clients, NEW a \in Activities,
               server' = [server EXCEPT !.clients[c] = a]
        PROVE  server' \in Servers
    BY <2>1, <2>2 DEF Servers
  <2>3. ASSUME NEW p \in Pools, server' = [server EXCEPT !.pool = p]
        PROVE  server' \in Servers
    BY <2>1, <2>3 DEF Servers
  <2>4. ASSUME NEW g \in Graphs, server' = [server EXCEPT !.graph = g]
        PROVE  server' \in Servers
    BY <2>1, <2>4 DEF Servers
  <2>5. ASSUME NEW s \in Standbys, NEW l \in Lags,
               server' = [server EXCEPT !.senders[s] = l]
        PROVE  server' \in Servers
    BY <2>1, <2>5 DEF Servers
  <2>6. ASSUME NEW r \in WalRates, server' = [server EXCEPT !.wal = r]
        PROVE  server' \in Servers
    BY <2>1, <2>6 DEF Servers
  <2>7. CASE UNCHANGED server
    BY <1>2, <2>7 DEF ServerTyped
  <2>8. QED
    BY <1>2, <2>2, <2>3, <2>4, <2>5, <2>6, <2>7 DEF RuntimeNext, ServerTyped
<1>3. QED
  BY <1>1, <1>2, PTL DEF RuntimeSpec

(* The contributors shown are in descending order and add up to the score, *)
(* or to more where it is cut at 100; the health shown is the points of    *)
(* the lag (ReportExplainsScore), for any server and any settings.         *)
THEOREM ReportAlwaysExplains == RuntimeSpec => []ReportExplainsScore
<1>1. ASSUME ServerTyped
      PROVE  ReportExplainsScore
  <2> DEFINE shown == Contributors(server)
             parts == Parts(server)
             sorted == Sorted(parts)
             points == ScoreReplication(EffectiveLag(server))
  <2>0. server \in Servers
    BY <1>1 DEF ServerTyped
  <2>1. /\ parts \in Seq(PartRecords)
        /\ \A x : Listed(parts, x) /\ x.name = "replication_lag" => x.contrib = points
        /\ Listed(parts, [name |-> "replication_lag", contrib |-> points])
        /\ Sum(parts) = Total(server) /\ Total(server) \in Nat
    BY <2>0, FiveParts
  <2>2. shown = FoldLeft(Show, <<>>, sorted)
    BY DEF Contributors
  <2>3. Pressure(server) = IF Total(server) <= 100 THEN Total(server) ELSE 100
    BY <2>0, PressureIs
  <2>4. /\ Health(server) = "severely_lagging" <=> points = 35
        /\ Health(server) = "lagging" <=> points = 18
    BY <2>0, HealthIsPoints
  <2> HIDE DEF shown, parts, points
  <2>5. /\ sorted \in Seq(PartRecords) /\ Descending(sorted) /\ Sum(sorted) = Sum(parts)
        /\ \A x : Listed(sorted, x) <=> Listed(parts, x)
    BY <2>1, SortedIs
  <2> HIDE DEF sorted
  <2>6. /\ shown \in Seq(PartRecords) /\ Descending(shown) /\ Sum(shown) = Sum(sorted)
        /\ \A x : Listed(shown, x) <=> Listed(sorted, x) /\ x.contrib > 0
    BY <2>2, <2>5, ShownIs
  <2>7. DOMAIN shown = 1..Len(shown)
    BY <2>6
  <2>8. \A i, j \in DOMAIN shown : i < j => shown[i].contrib >= shown[j].contrib
    BY <2>6, <2>7 DEF Descending
  <2>9. Sum(shown) = Pressure(server) \/ (Pressure(server) = 100 /\ Sum(shown) > 100)
    BY <2>1, <2>3, <2>5, <2>6
  <2>10. ASSUME NEW n \in Nat, n > 0
         PROVE  (\E i \in DOMAIN shown :
                    shown[i] = [name |-> "replication_lag", contrib |-> n]) <=> points = n
    <3> DEFINE x == [name |-> "replication_lag", contrib |-> n]
    <3>1. x.name = "replication_lag" /\ x.contrib = n
      OBVIOUS
    <3>2. points = n => x = [name |-> "replication_lag", contrib |-> points]
      OBVIOUS
    <3> HIDE DEF x
    <3>3. Listed(shown, x) <=> Listed(parts, x)
      BY <2>5, <2>6, <2>10, <3>1
    <3>4. Listed(parts, x) <=> points = n
      BY <2>1, <3>1, <3>2
    <3>5. Listed(shown, x) <=> \E i \in DOMAIN shown : shown[i] = x
      BY <2>7 DEF Listed
    <3>6. QED
      BY <3>3, <3>4, <3>5 DEF x
  <2>11. 35 \in Nat /\ 35 > 0 /\ 18 \in Nat /\ 18 > 0
    OBVIOUS
  <2>12. /\ Health(server) = "severely_lagging"
              <=> \E i \in DOMAIN shown :
                     shown[i] = [name |-> "replication_lag", contrib |-> 35]
         /\ Health(server) = "lagging"
              <=> \E i \in DOMAIN shown :
                     shown[i] = [name |-> "replication_lag", contrib |-> 18]
    BY <2>4, <2>10, <2>11
  <2>13. QED
    BY <2>8, <2>9, <2>12 DEF ReportExplainsScore, shown
<1>2. QED
  BY <1>1, ServersStay, PTL

(* Where the sessions of a worse server are.  A session that no longer     *)
(* runs has gone idle in its transaction.                                  *)
LEMMA WorseSessions ==
    ASSUME NEW v \in Servers, NEW w \in Servers, Worse(v, w)
    PROVE  /\ Connected(v) \subseteq Connected(w)
           /\ Xacts(v) \subseteq Xacts(w)
           /\ Long(v.clients, Xacts(v)) \subseteq Long(w.clients, Xacts(w))
           /\ Idle(v) \subseteq Idle(w)
           /\ \A c \in Running(v) : c \in Running(w) \/ c \in Idle(w) \ Idle(v)
<1>1. /\ \A c \in Clients : v.clients[c].state \in BackendStates
                               /\ v.clients[c].age \in Nat \cup {-1}
      /\ \A c \in Clients : w.clients[c].state \in BackendStates
                               /\ w.clients[c].age \in Nat \cup {-1}
  BY ServerParts
<1>2. \A c \in Clients : /\ Rank(v.clients[c]) <= Rank(w.clients[c])
                         /\ v.clients[c].age <= w.clients[c].age
  BY DEF Worse
<1>3. ASSUME NEW client, client.state \in BackendStates
      PROVE  /\ Rank(client) \in 0..3
             /\ Rank(client) = 0 <=> client.state = "gone"
             /\ Rank(client) = 2 <=> client.state = "running"
             /\ Rank(client) = 3 <=> client.state = "idle_in_xact" /\ client.age >= 0
  BY <1>3 DEF Rank, BackendStates
<1>4. ASSUME NEW c \in Clients
      PROVE  /\ v.clients[c].state # "gone" => w.clients[c].state # "gone"
             /\ v.clients[c].state = "running"
                  => \/ w.clients[c].state = "running"
                     \/ w.clients[c].state = "idle_in_xact" /\ w.clients[c].age >= 0
             /\ v.clients[c].state = "idle_in_xact" /\ v.clients[c].age >= 0
                  => w.clients[c].state = "idle_in_xact" /\ w.clients[c].age >= 0
             /\ v.clients[c].age >= 0 => w.clients[c].age >= 0
             /\ v.clients[c].age >= LongSeconds => w.clients[c].age >= LongSeconds
  <2> DEFINE a == v.clients[c]
             b == w.clients[c]
  <2>1. /\ a.state \in BackendStates /\ a.age \in Int
        /\ b.state \in BackendStates /\ b.age \in Int
    BY <1>1
  <2>2. Rank(a) <= Rank(b) /\ a.age <= b.age
    BY <1>2
  <2>3. LongSeconds \in Nat
    BY SettingsAssumption
  <2> HIDE DEF a, b
  <2>4. /\ Rank(a) \in 0..3
        /\ Rank(a) = 0 <=> a.state = "gone"
        /\ Rank(a) = 2 <=> a.state = "running"
        /\ Rank(a) = 3 <=> a.state = "idle_in_xact" /\ a.age >= 0
    BY <1>3, <2>1
  <2>5. /\ Rank(b) \in 0..3
        /\ Rank(b) = 0 <=> b.state = "gone"
        /\ Rank(b) = 2 <=> b.state = "running"
        /\ Rank(b) = 3 <=> b.state = "idle_in_xact" /\ b.age >= 0
    BY <1>3, <2>1
  <2>6. a.state # "gone" => b.state # "gone"
    BY <2>2, <2>4, <2>5
  <2>7. a.state = "running" => b.state = "running" \/ (b.state = "idle_in_xact" /\ b.age >= 0)
    BY <2>2, <2>4, <2>5
  <2>8. a.state = "idle_in_xact" /\ a.age >= 0 => b.state = "idle_in_xact" /\ b.age >= 0
    BY <2>2, <2>4, <2>5
  <2>9. (a.age >= 0 => b.age >= 0) /\ (a.age >= LongSeconds => b.age >= LongSeconds)
    BY <2>1, <2>2, <2>3
  <2>10. QED
    BY <2>6, <2>7, <2>8, <2>9 DEF a, b
<1>5. Connected(v) \subseteq Connected(w)
  BY <1>4 DEF Connected
<1>6. ASSUME NEW c \in Xacts(v)
      PROVE  c \in Xacts(w)
  <2>1. c \in Clients /\ v.clients[c].state \in {"running", "idle_in_xact"}
        /\ v.clients[c].age >= 0
    BY <1>1 DEF Xacts, Connected, BackendStates
  <2>2. w.clients[c].state \in {"running", "idle_in_xact"} /\ w.clients[c].age >= 0
    BY <1>4, <2>1
  <2>3. QED
    BY <2>1, <2>2 DEF Xacts, Connected
<1>7. Long(v.clients, Xacts(v)) \subseteq Long(w.clients, Xacts(w))
  <2>1. Xacts(v) \subseteq Clients
    BY DEF Xacts, Connected
  <2>2. QED
    BY <1>4, <1>6, <2>1 DEF Long
<1>8. Idle(v) \subseteq Idle(w)
  <2>1. \A c \in Idle(v) : c \in Xacts(v) /\ c \in Clients
           /\ v.clients[c].state = "idle_in_xact" /\ v.clients[c].age >= 0
    BY DEF Idle, Xacts, Connected
  <2>2. \A c \in Idle(v) : c \in Xacts(w) /\ w.clients[c].state = "idle_in_xact"
    BY <1>4, <1>6, <2>1
  <2>3. QED
    BY <2>2 DEF Idle
<1>9. ASSUME NEW c \in Running(v)
      PROVE  c \in Running(w) \/ c \in Idle(w) \ Idle(v)
  <2>1. c \in Clients /\ v.clients[c].state = "running" /\ c \notin Idle(v)
    BY DEF Running, Connected, Idle
  <2>2. CASE w.clients[c].state = "running"
    BY <2>1, <2>2 DEF Running, Connected
  <2>3. CASE w.clients[c].state = "idle_in_xact" /\ w.clients[c].age >= 0
    BY <2>1, <2>3 DEF Idle, Xacts, Connected
  <2>4. QED
    BY <1>4, <2>1, <2>2, <2>3
<1>10. QED
  BY <1>5, <1>6, <1>7, <1>8, <1>9

LEMMA WorseCounts ==
    ASSUME NEW v \in Servers, NEW w \in Servers, Worse(v, w)
    PROVE  /\ Transactions(v).connections <= Transactions(w).connections
           /\ Transactions(v).long <= Transactions(w).long
           /\ Transactions(v).idle <= Transactions(w).idle
           /\ Transactions(v).oldest <= Transactions(w).oldest
           /\ \/ Transactions(v).running <= Transactions(w).running
              \/ Transactions(v).idle + 1 <= Transactions(w).idle
<1>1. /\ Connected(v) \subseteq Connected(w)
      /\ Xacts(v) \subseteq Xacts(w)
      /\ Long(v.clients, Xacts(v)) \subseteq Long(w.clients, Xacts(w))
      /\ Idle(v) \subseteq Idle(w)
      /\ \A c \in Running(v) : c \in Running(w) \/ c \in Idle(w) \ Idle(v)
  BY WorseSessions
<1>2. /\ Connected(w) \subseteq Clients /\ Running(w) \subseteq Clients
      /\ Idle(w) \subseteq Clients /\ Long(w.clients, Xacts(w)) \subseteq Clients
      /\ Xacts(w) \subseteq Clients /\ Xacts(v) \subseteq Clients /\ Idle(v) \subseteq Clients
      /\ Connected(v) \subseteq Clients
  BY DEF Connected, Running, Xacts, Idle, Long
<1>3. Cardinality(Connected(v)) <= Cardinality(Connected(w))
  BY <1>1, <1>2, ClientCounts
<1>4. Cardinality(Long(v.clients, Xacts(v))) <= Cardinality(Long(w.clients, Xacts(w)))
  BY <1>1, <1>2, ClientCounts
<1>5. Cardinality(Idle(v)) <= Cardinality(Idle(w))
  BY <1>1, <1>2, ClientCounts
<1>6. Cardinality(Running(v)) <= Cardinality(Running(w))
        \/ Cardinality(Idle(v)) + 1 <= Cardinality(Idle(w))
  <2>1. CASE Running(v) \subseteq Running(w)
    BY <1>2, <2>1, ClientCounts
  <2>2. CASE ~(Running(v) \subseteq Running(w))
    <3>1. Idle(v) # Idle(w)
      BY <1>1, <2>2
    <3>2. IsFiniteSet(Idle(w)) /\ IsFiniteSet(Idle(v))
      BY <1>2, ClientCounts
    <3>3. Cardinality(Idle(v)) # Cardinality(Idle(w))
      BY <1>1, <3>1, <3>2, FS_Subset
    <3>4. Cardinality(Idle(v)) \in Nat /\ Cardinality(Idle(w)) \in Nat
      BY <1>2, ClientCounts
    <3>5. QED
      BY <1>5, <3>3, <3>4
  <2>3. QED
    BY <2>1, <2>2
<1>7. Transactions(v).oldest <= Transactions(w).oldest
  <2>1. Transactions(v).oldest \in Nat /\ Transactions(w).oldest \in Nat
    BY OldestIsGreatest
  <2>2. CASE Transactions(v).oldest = 0
    BY <2>1, <2>2
  <2>3. CASE \E c \in Xacts(v) : Transactions(v).oldest = v.clients[c].age
    <3>1. PICK c \in Xacts(v) : Transactions(v).oldest = v.clients[c].age
      BY <2>3
    <3>2. c \in Clients /\ c \in Xacts(w)
      BY <1>1, <1>2
    <3>3. v.clients[c].age <= w.clients[c].age
      BY <3>2 DEF Worse
    <3>4. w.clients[c].age <= Transactions(w).oldest
      BY <3>2, OldestIsGreatest
    <3>5. w.clients[c].age \in Nat \cup {-1}
      BY <3>2, ServerParts
    <3>6. QED
      BY <2>1, <3>1, <3>3, <3>4, <3>5
  <2>4. QED
    BY <2>2, <2>3, OldestIsGreatest
<1>8. /\ v.pool.others <= w.pool.others /\ v.pool.others \in Nat /\ w.pool.others \in Nat
      /\ Cardinality(Connected(v)) \in Nat /\ Cardinality(Connected(w)) \in Nat
  <2>1. v.pool.others <= w.pool.others
    BY DEF Worse
  <2>2. v.pool.others \in Nat /\ w.pool.others \in Nat
    BY ServerParts
  <2>3. Cardinality(Connected(v)) \in Nat /\ Cardinality(Connected(w)) \in Nat
    BY <1>2, ClientCounts
  <2>4. QED
    BY <2>1, <2>2, <2>3
<1>9. Cardinality(Connected(v)) + v.pool.others <= Cardinality(Connected(w)) + w.pool.others
  BY <1>3, <1>8
<1>10. /\ Transactions(v).connections = Cardinality(Connected(v)) + v.pool.others
       /\ Transactions(v).running = Cardinality(Running(v))
       /\ Transactions(v).long = Cardinality(Long(v.clients, Xacts(v)))
       /\ Transactions(v).idle = Cardinality(Idle(v))
       /\ Transactions(w).connections = Cardinality(Connected(w)) + w.pool.others
       /\ Transactions(w).running = Cardinality(Running(w))
       /\ Transactions(w).long = Cardinality(Long(w.clients, Xacts(w)))
       /\ Transactions(w).idle = Cardinality(Idle(w))
  BY TransactionCounts
<1> HIDE DEF Worse
<1>11. QED
  BY <1>4, <1>5, <1>6, <1>7, <1>9, <1>10

(* What a session that goes idle takes from the points of the connections  *)
(* it adds to those of the transactions.                                   *)
LEMMA WorseTransactionsAndConnections ==
    ASSUME NEW v \in Servers, NEW w \in Servers, Worse(v, w)
    PROVE  ScoreTransactions(Transactions(v)) + ScoreConnections(Transactions(v), v.pool)
             <= ScoreTransactions(Transactions(w)) + ScoreConnections(Transactions(w), w.pool)
<1> DEFINE a == Transactions(v)
           b == Transactions(w)
<1>1. /\ a.connections <= b.connections /\ a.long <= b.long /\ a.idle <= b.idle
      /\ a.oldest <= b.oldest /\ (a.running <= b.running \/ a.idle + 1 <= b.idle)
  BY WorseCounts
<1>2. /\ a.connections \in Nat /\ a.long \in Nat /\ a.idle \in Nat /\ a.running \in Nat
      /\ b.connections \in Nat /\ b.long \in Nat /\ b.idle \in Nat /\ b.running \in Nat
  BY TransactionCounts
<1>3. a.oldest \in Nat /\ b.oldest \in Nat
  BY OldestIsGreatest
<1>4. v.pool.max = w.pool.max /\ v.pool.reserved = w.pool.reserved
  BY DEF Worse
<1>5. v.pool.max \in Nat /\ v.pool.reserved \in Nat
  BY ServerParts
<1>6. /\ ScoreTransactions(a) = a.long * 12 + a.idle * 6 + AgePoints(a.oldest)
      /\ ScoreTransactions(b) = b.long * 12 + b.idle * 6 + AgePoints(b.oldest)
  BY TransactionPoints
<1>7. /\ ScoreConnections(a, v.pool) = SessionPoints(a, v.pool)
      /\ ScoreConnections(b, w.pool) = SessionPoints(b, w.pool)
  BY ConnectionPoints
<1> DEFINE u == Usable(v.pool)
           half == u \div 2
<1>8. Usable(w.pool) = u /\ u \in Nat
  BY <1>4, <1>5 DEF Usable
<1> DEFINE Full(n) == IF n * 100 >= 95 * u THEN 25 ELSE IF n * 100 >= 85 * u THEN 15
                      ELSE IF n * 100 >= 70 * u THEN 8 ELSE 0
           Few(n) == IF n <= 8 THEN n ELSE 8
           Busy(n) == IF n > 0 /\ n >= half THEN 5 ELSE 0
<1>9. /\ SessionPoints(a, v.pool) = IF v.pool.max = 0 THEN 0
            ELSE Full(a.connections) + 2 * Few(a.idle) + Busy(a.running)
      /\ SessionPoints(b, w.pool) = IF v.pool.max = 0 THEN 0
            ELSE Full(b.connections) + 2 * Few(b.idle) + Busy(b.running)
  BY <1>4, <1>8 DEF SessionPoints
<1> HIDE DEF a, b, u
<1>10. Full(a.connections) <= Full(b.connections)
       /\ Full(a.connections) \in Nat /\ Full(b.connections) \in Nat
  BY <1>1, <1>2, <1>8
<1>11. Few(a.idle) <= Few(b.idle) /\ Few(a.idle) \in Nat /\ Few(b.idle) \in Nat
  BY <1>1, <1>2
<1>12. half \in Int
  BY <1>8
<1> HIDE DEF half, Full, Few
<1>13. /\ Busy(a.running) \in Nat /\ Busy(b.running) \in Nat
       /\ Busy(a.running) <= Busy(b.running) \/ a.idle + 1 <= b.idle
       /\ Busy(a.running) <= Busy(b.running) + 5
  BY <1>1, <1>2, <1>12
<1> HIDE DEF Busy
<1>14. AgePoints(a.oldest) <= AgePoints(b.oldest)
       /\ AgePoints(a.oldest) \in Nat /\ AgePoints(b.oldest) \in Nat
  BY <1>1, <1>3, SettingsAssumption DEF AgePoints
<1>15. /\ a.long * 12 <= b.long * 12 /\ a.long * 12 \in Nat /\ b.long * 12 \in Nat
       /\ a.idle * 6 <= b.idle * 6 /\ a.idle * 6 \in Nat /\ b.idle * 6 \in Nat
       /\ a.idle + 1 <= b.idle => a.idle * 6 + 6 <= b.idle * 6
  BY <1>1, <1>2
<1>16. CASE v.pool.max = 0
  BY <1>6, <1>7, <1>9, <1>14, <1>15, <1>16 DEF a, b
<1>17. CASE v.pool.max # 0
  <2>1. ScoreConnections(a, v.pool) = Full(a.connections) + 2 * Few(a.idle) + Busy(a.running)
    BY <1>7, <1>9, <1>17
  <2>2. ScoreConnections(b, w.pool) = Full(b.connections) + 2 * Few(b.idle) + Busy(b.running)
    BY <1>7, <1>9, <1>17
  <2>3. ScoreTransactions(a) + ScoreConnections(a, v.pool)
          <= ScoreTransactions(b) + ScoreConnections(b, w.pool)
    BY <1>6, <1>10, <1>11, <1>13, <1>14, <1>15, <2>1, <2>2
  <2>4. QED
    BY <2>3 DEF a, b
<1>18. QED
  BY <1>16, <1>17

LEMMA WorseLocks ==
    ASSUME NEW v \in Servers, NEW w \in Servers, Worse(v, w)
    PROVE  ScoreLocks(v.graph) <= ScoreLocks(w.graph)
<1> DEFINE g == v.graph
           h == w.graph
<1>1. /\ g.blocked \in Nat /\ g.blocking \in Nat /\ g.depth \in Nat
      /\ g.descendants \in Nat /\ g.wait \in Nat
      /\ h.blocked \in Nat /\ h.blocking \in Nat /\ h.depth \in Nat
      /\ h.descendants \in Nat /\ h.wait \in Nat
  BY ServerParts
<1>2. /\ g.blocked <= h.blocked /\ g.blocking <= h.blocking /\ g.depth <= h.depth
      /\ g.descendants <= h.descendants /\ g.wait <= h.wait
  <2>1. DOMAIN v.graph = {"blocked", "blocking", "depth", "descendants", "wait"}
    BY ServerParts
  <2>2. \A f \in {"blocked", "blocking", "depth", "descendants", "wait"} :
           v.graph[f] <= w.graph[f]
    BY <2>1 DEF Worse
  <2>3. QED
    BY <2>2
<1>3. ScoreLocks(v.graph) = WaitPoints(g) /\ ScoreLocks(w.graph) = WaitPoints(h)
  BY LockPoints
<1> HIDE DEF g, h
<1>4. WaitPoints(g) <= WaitPoints(h)
  <2>1. BlockedPoints(g.blocked) <= BlockedPoints(h.blocked)
        /\ BlockedPoints(g.blocked) \in Nat /\ BlockedPoints(h.blocked) \in Nat
    BY <1>1, <1>2 DEF BlockedPoints
  <2>2. BlockingPoints(g.blocking) <= BlockingPoints(h.blocking)
        /\ BlockingPoints(g.blocking) \in Nat /\ BlockingPoints(h.blocking) \in Nat
    BY <1>1, <1>2 DEF BlockingPoints
  <2>3. ReachPoints(g.descendants) <= ReachPoints(h.descendants)
        /\ ReachPoints(g.descendants) \in Nat /\ ReachPoints(h.descendants) \in Nat
    BY <1>1, <1>2 DEF ReachPoints
  <2>4. DepthPoints(g.depth) <= DepthPoints(h.depth)
        /\ DepthPoints(g.depth) \in Nat /\ DepthPoints(h.depth) \in Nat
    BY <1>1, <1>2 DEF DepthPoints
  <2>5. DurationPoints(g.wait) <= DurationPoints(h.wait)
        /\ DurationPoints(g.wait) \in Nat /\ DurationPoints(h.wait) \in Nat
    BY <1>1, <1>2 DEF DurationPoints
  <2>6. QED
    BY <2>1, <2>2, <2>3, <2>4, <2>5 DEF WaitPoints
<1>5. QED
  BY <1>3, <1>4

LEMMA WorseLag ==
    ASSUME NEW v \in Servers, NEW w \in Servers, Worse(v, w)
    PROVE  ScoreReplication(EffectiveLag(v)) <= ScoreReplication(EffectiveLag(w))
<1> DEFINE a == EffectiveLag(v)
           b == EffectiveLag(w)
<1>1. a \in Nat /\ b \in Nat
  BY LagIsGreatest
<1>2. a <= b
  <2>1. CASE a = 0
    BY <1>1, <2>1
  <2>2. CASE \E s \in Replicas(v), f \in LagFields : a = v.senders[s][f]
    <3>1. PICK s \in Replicas(v), f \in LagFields : a = v.senders[s][f]
      BY <2>2
    <3>2. s \in Standbys /\ v.senders[s].pid
      BY DEF Replicas
    <3>3. w.senders[s].pid /\ v.senders[s][f] <= w.senders[s][f]
      BY <3>2 DEF Worse, LagFields
    <3>4. s \in Replicas(w)
      BY <3>2, <3>3 DEF Replicas
    <3>5. w.senders[s][f] <= b
      BY <3>4, LagIsGreatest
    <3>6. w.senders[s][f] \in Int
      BY <3>2, ServerParts DEF LagFields
    <3>7. QED
      BY <1>1, <3>1, <3>3, <3>5, <3>6
  <2>3. QED
    BY <2>1, <2>2, LagIsGreatest
<1> HIDE DEF a, b
<1>3. LagLimits.warn \in Nat /\ LagLimits.critical \in Nat
  BY SettingsAssumption
<1>4. /\ Passes(a, LagLimits.critical) => Passes(b, LagLimits.critical)
      /\ Passes(a, LagLimits.warn) => Passes(b, LagLimits.warn)
      /\ a <= 0 \/ a > 0
      /\ a > 0 => b > 0
      /\ b > 0 => ~(b <= 0)
  BY <1>1, <1>2, <1>3 DEF Passes
<1>5. ScoreReplication(a) <= ScoreReplication(b)
  <2>1. CASE a <= 0 \/ (~Passes(a, LagLimits.critical) /\ ~Passes(a, LagLimits.warn))
    <3>1. ScoreReplication(a) = 0
      BY <1>1, <2>1 DEF ScoreReplication
    <3>2. ScoreReplication(b) \in Nat
      BY DEF ScoreReplication
    <3>3. QED
      BY <3>1, <3>2
  <2>2. CASE a > 0 /\ Passes(a, LagLimits.critical)
    BY <1>1, <1>4, <2>2 DEF ScoreReplication
  <2>3. CASE a > 0 /\ ~Passes(a, LagLimits.critical) /\ Passes(a, LagLimits.warn)
    BY <1>1, <1>4, <2>3 DEF ScoreReplication
  <2>4. QED
    BY <1>4, <2>1, <2>2, <2>3
<1>6. QED
  BY <1>5 DEF a, b

(* A rate that is no lower reaches every limit the other reaches.          *)
LEMMA HigherRate ==
    ASSUME NEW b1 \in Nat, NEW s1 \in Nat \ {0}, NEW b2 \in Nat, NEW s2 \in Nat \ {0},
           b1 * s2 <= b2 * s1, NEW limit \in Nat, b1 >= limit * s1
    PROVE  b2 >= limit * s2
<1>1. SUFFICES ASSUME b2 < limit * s2
               PROVE  FALSE
  OBVIOUS
<1> DEFINE m == limit * s2
<1>2. m \in Nat /\ m > b2
  BY <1>1
<1>3. m * s1 > b2 * s1
  <2> HIDE DEF m
  <2>1. (m - b2) * s1 > 0
    BY <1>2
  <2>2. (m - b2) * s1 = m * s1 - b2 * s1
    BY <1>2
  <2>3. m * s1 \in Int /\ b2 * s1 \in Int
    BY <1>2
  <2>4. QED
    BY <2>1, <2>2, <2>3
<1>4. (b1 - limit * s1) * s2 >= 0
  OBVIOUS
<1>5. (b1 - limit * s1) * s2 = b1 * s2 - m * s1
  OBVIOUS
<1>6. b1 * s2 \in Int /\ m * s1 \in Int /\ b2 * s1 \in Int
  OBVIOUS
<1>7. QED
  BY <1>3, <1>4, <1>5, <1>6

LEMMA WorseWal ==
    ASSUME NEW v \in Servers, NEW w \in Servers, Worse(v, w)
    PROVE  ScoreWal(v.wal, WalLimits) <= ScoreWal(w.wal, WalLimits)
<1>1. /\ v.wal.bytes \in Nat /\ v.wal.secs \in Nat \ {0}
      /\ w.wal.bytes \in Nat /\ w.wal.secs \in Nat \ {0}
  BY ServerParts
<1>2. v.wal.bytes * w.wal.secs <= w.wal.bytes * v.wal.secs
  BY DEF Worse
<1>3. WalLimits.high \in Nat /\ WalLimits.elevated \in Nat
  BY SettingsAssumption DEF WalThresholds
<1>4. \A limit \in Nat : AtLeast(v.wal, limit) => AtLeast(w.wal, limit)
  BY <1>1, <1>2, HigherRate DEF AtLeast
<1>5. QED
  BY <1>3, <1>4 DEF ScoreWal

(* A server that got worse has no lower score                              *)
(* (PressureNeverFallsAsSignalsWorsen), for any clients, senders,          *)
(* thresholds, waits, lags and rates.                                      *)
THEOREM PressureOnlyRises == RuntimeSpec => PressureNeverFallsAsSignalsWorsen
<1>1. ASSUME NEW v \in Servers, NEW w \in Servers, Worse(v, w)
      PROVE  Pressure(v) <= Pressure(w)
  <2>1. /\ ScoreTransactions(Transactions(v)) \in Nat /\ ScoreLocks(v.graph) \in Nat
        /\ ScoreReplication(EffectiveLag(v)) \in Nat /\ ScoreWal(v.wal, WalLimits) \in Nat
        /\ ScoreConnections(Transactions(v), v.pool) \in Nat
    BY PointsAreNumbers
  <2>2. /\ ScoreTransactions(Transactions(w)) \in Nat /\ ScoreLocks(w.graph) \in Nat
        /\ ScoreReplication(EffectiveLag(w)) \in Nat /\ ScoreWal(w.wal, WalLimits) \in Nat
        /\ ScoreConnections(Transactions(w), w.pool) \in Nat
    BY PointsAreNumbers
  <2>3. ScoreTransactions(Transactions(v)) + ScoreConnections(Transactions(v), v.pool)
          <= ScoreTransactions(Transactions(w)) + ScoreConnections(Transactions(w), w.pool)
    BY <1>1, WorseTransactionsAndConnections
  <2>4. ScoreLocks(v.graph) <= ScoreLocks(w.graph)
    BY <1>1, WorseLocks
  <2>5. ScoreReplication(EffectiveLag(v)) <= ScoreReplication(EffectiveLag(w))
    BY <1>1, WorseLag
  <2>6. ScoreWal(v.wal, WalLimits) <= ScoreWal(w.wal, WalLimits)
    BY <1>1, WorseWal
  <2>7. Total(v) <= Total(w) /\ Total(v) \in Nat /\ Total(w) \in Nat
    BY <2>1, <2>2, <2>3, <2>4, <2>5, <2>6 DEF Total
  <2>8. /\ Pressure(v) = IF Total(v) <= 100 THEN Total(v) ELSE 100
        /\ Pressure(w) = IF Total(w) <= 100 THEN Total(w) ELSE 100
    BY PressureIs
  <2>9. QED
    BY <2>7, <2>8
<1>2. ServerTyped /\ ServerTyped' /\ [RuntimeNext]_server
        => [Worse(server, server') => Pressure(server) <= Pressure(server')]_server
  BY <1>1 DEF ServerTyped
<1>3. QED
  BY <1>2, ServersStay, PTL DEF RuntimeSpec, PressureNeverFallsAsSignalsWorsen

=============================================================================
