------------------------------ MODULE WalRate ------------------------------
(***************************************************************************)
(* What PG Circuit makes of a WAL rate: a level (src/src/shmem.c) and      *)
(* points of the pressure score (src/src/wal.c), each found on its own     *)
(* under the two thresholds pg_circuit.wal_pressure_elevated_bps and       *)
(* wal_pressure_high_bps, which may be set in either order.                *)
(***************************************************************************)
EXTENDS Integers

WalThresholds == [elevated: Nat \ {0}, high: Nat \ {0}]

(* bytes_per_sec, as a number of bytes over a number of seconds.           *)
Rates == [bytes: Nat, secs: Nat \ {0}]
NoRate == [bytes |-> 0, secs |-> 1]
AtLeast(rate, limit) == rate.bytes >= limit * rate.secs

(* Mutant of Level: the elevated threshold has to be exceeded.             *)
LevelAbove(rate, limit) ==
    CASE AtLeast(rate, limit.high) -> 3
      [] ~AtLeast(rate, limit.high) /\ rate.bytes > limit.elevated * rate.secs -> 2
      [] OTHER -> IF rate.bytes > 0 THEN 1 ELSE 0

Level(rate, limit) ==
    CASE AtLeast(rate, limit.high) -> 3
      [] ~AtLeast(rate, limit.high) /\ AtLeast(rate, limit.elevated) -> 2
      [] OTHER -> IF rate.bytes > 0 THEN 1 ELSE 0

(* pressure_score_wal.                                                     *)
ScoreWal(rate, limit) ==
    IF AtLeast(rate, limit.high) THEN 30 ELSE IF AtLeast(rate, limit.elevated) THEN 15 ELSE 0

=============================================================================
