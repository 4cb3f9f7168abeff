---------------------------- MODULE EventHistory ----------------------------
(***************************************************************************)
(* What the shared event history of PG Circuit promises its users: a       *)
(* recording is one step, a reader receives in one step the newest         *)
(* recordings, newest first, and a server start empties the history and    *)
(* starts the numbering again.  EventRing (src/src/shmem.c) implements it; *)
(* the modules above the ring are composed with this one.                  *)
(***************************************************************************)
EXTENDS Integers, Sequences

CONSTANTS
    Readers,       \* sessions that call pg_circuit_events()
    Detached,      \* sessions whose module found a foreign segment: no ring
    RiskEvents,    \* the events hooks hand over, records with a decision
    Sizes          \* values pg_circuit.event_history_size may have

VARIABLES
    capacity,      \* size chosen at server start
    issued,        \* events numbered since server start
    recent,        \* retained events, newest first
    views          \* what each reader received last

history == <<capacity, issued, recent, views>>

Decisions == {"ALLOW", "WARN", "BLOCK"}

(* Only WARN and BLOCK decisions are stored: policy_stub.c never sets      *)
(* audit_only, the one exception in shmem.c:144.                           *)
Stored(e) == e.decision # "ALLOW"

Numbered(e, n) == [event_id |-> n, decision_id |-> n, body |-> e]

AtMost(n, s) == IF Len(s) > n THEN SubSeq(s, 1, n) ELSE s

TypeOK ==
    /\ capacity \in Sizes
    /\ issued \in Nat
    /\ recent \in Seq([event_id: Nat, decision_id: Nat, body: RiskEvents])
    /\ views \in [Readers -> Seq([event_id: Nat, decision_id: Nat, body: RiskEvents])]

Init ==
    /\ capacity \in Sizes
    /\ issued = 0
    /\ recent = <<>>
    /\ views = [r \in Readers |-> <<>>]

Record(e) ==
    /\ Stored(e)
    /\ issued' = issued + 1
    /\ recent' = AtMost(capacity, <<Numbered(e, issued + 1)>> \o recent)
    /\ UNCHANGED <<capacity, views>>

Snapshot(r) ==
    /\ views' = [views EXCEPT ![r] = IF r \in Detached THEN <<>> ELSE recent]
    /\ UNCHANGED <<capacity, issued, recent>>

Restart ==
    /\ capacity' \in Sizes
    /\ issued' = 0
    /\ recent' = <<>>
    /\ views' = [r \in Readers |-> <<>>]

Next ==
    \/ \E e \in RiskEvents : Record(e)
    \/ \E r \in Readers : Snapshot(r)
    \/ Restart

Spec == Init /\ [][Next]_history

=============================================================================
