----------------------------- MODULE WalSample -----------------------------
(***************************************************************************)
(* The WAL rate of PG Circuit: one sample in shared memory                 *)
(* (src/src/shmem.c), which every session that collects the runtime state  *)
(* reads and refreshes (src/src/wal.c).  A session reads the statistics,   *)
(* then the clock, then takes the lock: others come in between.            *)
(***************************************************************************)
EXTENDS WalRate

CONSTANTS
    Samplers,      \* sessions that collect the runtime state
    Limits,        \* what the two thresholds may be, in each session
    MaxTime,       \* bound: seconds
    MaxWal         \* bound: WAL written

ASSUME LimitsAssumption == Limits \subseteq [Samplers -> WalThresholds]
ASSUME WalBoundsAssumption == MaxTime \in Nat /\ MaxWal \in Nat

VARIABLES
    limits,        \* pg_circuit.wal_pressure_elevated_bps and _high_bps
    now,           \* the clock
    written,       \* WAL the statistics have counted, in all
    resets,        \* what written was when they were last reset
    sample,        \* pg_circuit_shared->wal
    fetched,       \* the statistics each transaction has read
    sampling,      \* where each session is in collect_wal_signals
    report,        \* the rate and the level it got
    counted,       \* WAL the rates of this server life amount to
    rewound        \* a sample of this life was replaced by an older one

walServer == <<now, written, resets>>
tally == <<counted, rewound>>
walVars == <<limits, walServer, sample, fetched, sampling, report, tally>>

(* What the statistics show: bytes since a reset.                          *)
Positions == [since: Nat, bytes: Nat]
Current == [since |-> resets, bytes |-> written - resets]
UpTo(p) == p.since + p.bytes

Older(p, q) == p.since < q.since \/ (p.since = q.since /\ p.bytes < q.bytes)

Nothing == [at |-> "nothing"]

(* by: the thresholds the level was found with.                            *)
Reports == [rate: Rates, level: 0..3, by: WalThresholds]

WalTypeOK ==
    /\ limits \in Limits
    /\ now \in Nat /\ written \in Nat /\ resets \in 0..written
    /\ sample \in {Nothing} \cup
          [at: {"valid"}, pos: Positions, time: Nat, rate: Rates, level: 0..3, by: WalThresholds]
    /\ fetched \in [Samplers -> {Nothing} \cup [at: {"read"}, pos: Positions]]
    /\ sampling \in [Samplers -> {Nothing} \cup [at: {"fetched"}, pos: Positions]
                         \cup [at: {"timed"}, pos: Positions, time: Nat]
                         \cup [at: {"done"}]]
    /\ report \in [Samplers -> Reports]
    /\ counted \in Nat
    /\ rewound \in BOOLEAN

-----------------------------------------------------------------------------
(* External: the server and its statistics                                 *)

WalInit ==
    /\ limits \in Limits
    /\ now = 0
    /\ written = 0
    /\ resets = 0
    /\ sample = Nothing
    /\ fetched = [s \in Samplers |-> Nothing]
    /\ sampling = [s \in Samplers |-> Nothing]
    /\ report = [s \in Samplers |-> [rate |-> NoRate, level |-> 0, by |-> limits[s]]]
    /\ counted = 0
    /\ rewound = FALSE

Write ==
    /\ written < MaxWal
    /\ written' = written + 1
    /\ UNCHANGED <<limits, now, resets, sample, fetched, sampling, report, tally>>

(* pg_stat_reset_shared('wal').                                            *)
ResetStats ==
    /\ resets' = written
    /\ UNCHANGED <<limits, now, written, sample, fetched, sampling, report, tally>>

(* The clock moves on, or is set back.                                     *)
Tick ==
    /\ \/ now < MaxTime /\ now' = now + 1
       \/ now > 0 /\ now' = now - 1
    /\ UNCHANGED <<limits, written, resets, sample, fetched, sampling, report, tally>>

(* A crash discards the statistics; the shared segment starts zeroed, with *)
(* the settings that are in force by then.                                 *)
WalRestart ==
    /\ resets' \in {resets, written}
    /\ limits' \in Limits
    /\ sample' = Nothing
    /\ fetched' = [s \in Samplers |-> Nothing]
    /\ sampling' = [s \in Samplers |-> Nothing]
    /\ report' = [s \in Samplers |-> [rate |-> NoRate, level |-> 0, by |-> limits'[s]]]
    /\ counted' = 0
    /\ rewound' = FALSE
    /\ UNCHANGED <<now, written>>

-----------------------------------------------------------------------------
(* pg_circuit_collect_wal_signals and pg_circuit_wal_sample_update         *)

(* pgstat_fetch_stat_wal: the first answer holds for the transaction.      *)
FetchStats(s) ==
    LET pos == IF fetched[s] = Nothing THEN Current ELSE fetched[s].pos
    IN  /\ sampling[s] = Nothing
        /\ sampling' = [sampling EXCEPT ![s] = [at |-> "fetched", pos |-> pos]]
        /\ fetched' = [fetched EXCEPT ![s] = [at |-> "read", pos |-> pos]]
        /\ UNCHANGED <<limits, walServer, sample, report, tally>>

ReadClock(s) ==
    /\ sampling[s].at = "fetched"
    /\ sampling' = [sampling EXCEPT ![s] = [at |-> "timed", pos |-> sampling[s].pos,
                                            time |-> now]]
    /\ UNCHANGED <<limits, walServer, sample, fetched, report, tally>>

(* Mutant: a counter that went back is not noticed.                        *)
DeltaUnchecked(p, q) == q.bytes - p.bytes

Delta(p, q) == IF q.bytes >= p.bytes THEN q.bytes - p.bytes ELSE 0

Sampled(pos, time, rate, level, by) ==
    [at |-> "valid", pos |-> pos, time |-> time, rate |-> rate, level |-> level, by |-> by]

Return(s) ==
    /\ sampling' = [sampling EXCEPT ![s] = [at |-> "done"]]
    /\ report' = [report EXCEPT ![s] = [rate |-> sample'.rate, level |-> sample'.level,
                                        by |-> sample'.by]]

FirstSample(s) ==
    /\ sampling[s].at = "timed"
    /\ sample = Nothing
    /\ sample' = Sampled(sampling[s].pos, sampling[s].time, NoRate, 0, limits[s])
    /\ Return(s)
    /\ UNCHANGED <<limits, walServer, fetched, tally>>

(* Mutant: the sample keeps the position it had.                           *)
RefreshRateOnly(s) ==
    LET p == sampling[s]
        rate == [bytes |-> Delta(sample.pos, p.pos), secs |-> p.time - sample.time]
    IN  /\ sampling[s].at = "timed"
        /\ sample # Nothing
        /\ p.time - sample.time >= 1
        /\ sample' = Sampled(sample.pos, p.time, rate, Level(rate, limits[s]), limits[s])
        /\ Return(s)
        /\ counted' = counted + rate.bytes
        /\ rewound' = (rewound \/ Older(p.pos, sample.pos))
        /\ UNCHANGED <<limits, walServer, fetched>>

Refresh(s) ==
    LET p == sampling[s]
        rate == [bytes |-> Delta(sample.pos, p.pos), secs |-> p.time - sample.time]
    IN  /\ sampling[s].at = "timed"
        /\ sample # Nothing
        /\ p.time - sample.time >= 1
        /\ sample' = Sampled(p.pos, p.time, rate, Level(rate, limits[s]), limits[s])
        /\ Return(s)
        /\ counted' = counted + rate.bytes
        /\ rewound' = (rewound \/ Older(p.pos, sample.pos))
        /\ UNCHANGED <<limits, walServer, fetched>>

(* Less than a second after the sample, or before it.                      *)
UseCached(s) ==
    /\ sampling[s].at = "timed"
    /\ sample # Nothing
    /\ sampling[s].time - sample.time < 1
    /\ UNCHANGED sample
    /\ Return(s)
    /\ UNCHANGED <<limits, walServer, fetched, tally>>

(* The statement ends, in a transaction that goes on; or the transaction.  *)
EndStatement(s) ==
    /\ sampling[s].at = "done"
    /\ sampling' = [sampling EXCEPT ![s] = Nothing]
    /\ UNCHANGED <<limits, walServer, sample, fetched, report, tally>>

EndXact(s) ==
    /\ sampling[s].at \in {"nothing", "done"}
    /\ fetched[s] # Nothing
    /\ sampling' = [sampling EXCEPT ![s] = Nothing]
    /\ fetched' = [fetched EXCEPT ![s] = Nothing]
    /\ UNCHANGED <<limits, walServer, sample, report, tally>>

Sample(s) ==
    \/ FetchStats(s)
    \/ ReadClock(s)
    \/ FirstSample(s)
    \/ Refresh(s)
    \/ UseCached(s)

WalNext ==
    \/ Write
    \/ ResetStats
    \/ Tick
    \/ WalRestart
    \/ \E s \in Samplers : Sample(s) \/ EndStatement(s) \/ EndXact(s)

WalSpec == WalInit /\ [][WalNext]_walVars

-----------------------------------------------------------------------------
(* Properties                                                              *)

(* No WAL is counted twice: the deltas behind the rates add up to no more  *)
(* than was written, whatever comes between a session's statistics, its    *)
(* clock and the lock, resets of the statistics included - until a session *)
(* that is late, or inside a long transaction, puts an older position back *)
(* (shmem.c:223-286, wal.c:55-72).                                         *)
WalIsCountedOnce == ~rewound => counted <= written

(* The level a session shows and the points it adds to the pressure score  *)
(* say the same although one was found by the session that refreshed the   *)
(* sample and the other by the one that asks, as long as their thresholds  *)
(* agree (shmem.c:258-265, wal.c:45-53).                                   *)
LevelAgreesWithScore ==
    \A s \in Samplers :
        report[s].by = limits[s] =>
            /\ report[s].level = 3 <=> ScoreWal(report[s].rate, limits[s]) = 30
            /\ report[s].level = 2 <=> ScoreWal(report[s].rate, limits[s]) = 15

=============================================================================
