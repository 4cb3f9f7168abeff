----------------------------- MODULE EventRing -----------------------------
(***************************************************************************)
(* The shared-memory event ring of src/src/shmem.c.  Backends record risk  *)
(* events under the exclusive mode of one LWLock and copy the ring out     *)
(* under its shared mode.  A critical section is several steps, so that a  *)
(* reader may run between any two of them if the lock lets it, and a       *)
(* server crash may hit any of them.                                       *)
(***************************************************************************)
EXTENDS Integers, Sequences, FiniteSets

CONSTANTS
    Writers,       \* backends whose hooks record events
    Readers,       \* backends that call pg_circuit_events()
    Detached,      \* backends whose segment check failed: pg_circuit_shared = NULL
    FaultWriters,  \* backends with pg_circuit.fault = 'event_full'
    RiskEvents,    \* records with a field "decision"
    Sizes,         \* values of pg_circuit.event_history_size (1..4096)
    MaxEvents,     \* bound: events in one server life
    MaxRestarts,   \* bound: server restarts
    NoBackend,     \* no holder of the exclusive lock
    NoEvent        \* the contents of a zeroed slot

ASSUME WritersAssumption == Writers \cap Readers = {} /\ NoBackend \notin Writers
ASSUME SizesAssumption == Sizes \subseteq 1..4096 /\ Sizes # {}
ASSUME EventsAssumption ==
    /\ \A e \in RiskEvents : e.decision \in {"ALLOW", "WARN", "BLOCK"}
    /\ NoEvent \notin RiskEvents
ASSUME BoundsAssumption == MaxEvents \in Nat /\ MaxRestarts \in Nat

VARIABLES
    capacity, head, count, next_event_id, next_decision_id, events,
    exclusive,     \* the writer holding the lock, or NoBackend
    sharers,       \* the readers holding the lock
    pc,            \* where each backend is in event_record / event_snapshot
    arg,           \* the event each writer was handed
    want,          \* n of event_snapshot
    copied,        \* the out array of event_snapshot, filled so far
    views,         \* the rows pg_circuit_events() returned last
    restarts

shared == <<capacity, head, count, next_event_id, next_decision_id, events>>
lock == <<exclusive, sharers>>
reading == <<want, copied, views>>
vars == <<shared, lock, pc, arg, reading, restarts>>

Backends == Writers \cup Readers

(* A slot after MemSet(slot, 0): no event has the identifier 0.            *)
Blank == [event_id |-> 0, decision_id |-> 0, body |-> NoEvent]

Slots == [event_id: Nat, decision_id: Nat, body: RiskEvents \cup {NoEvent}]

WriterSteps == {"idle", "called", "number", "clear", "fill", "advance", "release"}
ReaderSteps == {"idle", "called", "copy"}

TypeOK ==
    /\ capacity \in Sizes
    /\ head \in 0..capacity - 1
    /\ count \in 0..capacity
    /\ next_event_id \in Nat
    /\ next_decision_id \in Nat
    /\ events \in [0..capacity - 1 -> Slots]
    /\ exclusive \in Writers \cup {NoBackend}
    /\ sharers \in SUBSET Readers
    /\ pc \in [Backends -> WriterSteps \cup ReaderSteps]
    /\ \A w \in Writers : pc[w] \in WriterSteps
    /\ \A r \in Readers : pc[r] \in ReaderSteps
    /\ arg \in [Writers -> RiskEvents \cup {NoEvent}]
    /\ want \in [Readers -> Nat]
    /\ copied \in [Readers -> Seq(Slots)]
    /\ views \in [Readers -> Seq(Slots)]
    /\ restarts \in Nat

-----------------------------------------------------------------------------

(* pg_circuit_shmem_startup with found = false: a zeroed segment of the    *)
(* configured size.                                                        *)
Init ==
    /\ capacity \in Sizes
    /\ head = 0
    /\ count = 0
    /\ next_event_id = 0
    /\ next_decision_id = 0
    /\ events = [i \in 0..capacity - 1 |-> Blank]
    /\ exclusive = NoBackend
    /\ sharers = {}
    /\ pc = [b \in Backends |-> "idle"]
    /\ arg = [w \in Writers |-> NoEvent]
    /\ want = [r \in Readers |-> 0]
    /\ copied = [r \in Readers |-> <<>>]
    /\ views = [r \in Readers |-> <<>>]
    /\ restarts = 0

(* Postmaster restart, or the reset after a backend crash: every backend   *)
(* is gone with its locks, the segment is created anew, and the size is    *)
(* whatever postgresql.conf says now.                                      *)
Restart ==
    /\ restarts < MaxRestarts
    /\ restarts' = restarts + 1
    /\ capacity' \in Sizes
    /\ head' = 0
    /\ count' = 0
    /\ next_event_id' = 0
    /\ next_decision_id' = 0
    /\ events' = [i \in 0..capacity' - 1 |-> Blank]
    /\ exclusive' = NoBackend
    /\ sharers' = {}
    /\ pc' = [b \in Backends |-> "idle"]
    /\ arg' = [w \in Writers |-> NoEvent]
    /\ want' = [r \in Readers |-> 0]
    /\ copied' = [r \in Readers |-> <<>>]
    /\ views' = [r \in Readers |-> <<>>]

Goto(b, from, to) ==
    /\ pc[b] = from
    /\ pc' = [pc EXCEPT ![b] = to]

-----------------------------------------------------------------------------
(* pg_circuit_event_record                                                 *)

Call(w, e) ==
    /\ Goto(w, "idle", "called")
    /\ next_event_id + Cardinality({v \in Writers : pc[v] # "idle"}) < MaxEvents
    /\ arg' = [arg EXCEPT ![w] = e]
    /\ UNCHANGED <<shared, lock, reading, restarts>>

(* The early returns of event_record.                                      *)
Unrecorded(w) ==
    \/ w \in Detached
    \/ w \in FaultWriters
    \/ arg[w].decision = "ALLOW"

ReturnEarly(w) ==
    /\ Goto(w, "called", "idle")
    /\ Unrecorded(w)
    /\ arg' = [arg EXCEPT ![w] = NoEvent]
    /\ UNCHANGED <<shared, lock, reading, restarts>>

AcquireExclusive(w) ==
    /\ Goto(w, "called", "number")
    /\ ~Unrecorded(w)
    /\ exclusive = NoBackend /\ sharers = {}
    /\ exclusive' = w
    /\ UNCHANGED <<shared, sharers, arg, reading, restarts>>

NumberEvent(w) ==
    /\ Goto(w, "number", "clear")
    /\ next_event_id' = next_event_id + 1
    /\ next_decision_id' = next_decision_id + 1
    /\ UNCHANGED <<capacity, head, count, events, lock, arg, reading, restarts>>

ClearSlot(w) ==
    /\ Goto(w, "clear", "fill")
    /\ events' = [events EXCEPT ![head] = Blank]
    /\ UNCHANGED <<capacity, head, count, next_event_id, next_decision_id,
                   lock, arg, reading, restarts>>

Entry(w) ==
    [event_id |-> next_event_id, decision_id |-> next_decision_id, body |-> arg[w]]

(* Mutant: the event is written one slot further.                          *)
FillSlotNext(w) ==
    /\ Goto(w, "fill", "advance")
    /\ events' = [events EXCEPT ![(head + 1) % capacity] = Entry(w)]
    /\ UNCHANGED <<capacity, head, count, next_event_id, next_decision_id,
                   lock, arg, reading, restarts>>

FillSlot(w) ==
    /\ Goto(w, "fill", "advance")
    /\ events' = [events EXCEPT ![head] = Entry(w)]
    /\ UNCHANGED <<capacity, head, count, next_event_id, next_decision_id,
                   lock, arg, reading, restarts>>

(* Mutant: the head is not wrapped around.                                 *)
AdvanceHeadUnwrapped(w) ==
    /\ Goto(w, "advance", "release")
    /\ head' = head + 1
    /\ count' = IF count < capacity THEN count + 1 ELSE count
    /\ UNCHANGED <<capacity, next_event_id, next_decision_id, events,
                   lock, arg, reading, restarts>>

AdvanceHead(w) ==
    /\ Goto(w, "advance", "release")
    /\ head' = (head + 1) % capacity
    /\ count' = IF count < capacity THEN count + 1 ELSE count
    /\ UNCHANGED <<capacity, next_event_id, next_decision_id, events,
                   lock, arg, reading, restarts>>

(* Mutant: event_record returns with the lock held.                        *)
ReleaseExclusiveNot(w) ==
    /\ Goto(w, "release", "idle")
    /\ arg' = [arg EXCEPT ![w] = NoEvent]
    /\ UNCHANGED <<shared, lock, reading, restarts>>

ReleaseExclusive(w) ==
    /\ Goto(w, "release", "idle")
    /\ exclusive' = NoBackend
    /\ arg' = [arg EXCEPT ![w] = NoEvent]
    /\ UNCHANGED <<shared, sharers, reading, restarts>>

-----------------------------------------------------------------------------
(* pg_circuit_events and pg_circuit_event_snapshot.  max_out is the same   *)
(* GUC the segment was sized with, so it is capacity.                      *)

CallSnapshot(r) ==
    /\ Goto(r, "idle", "called")
    /\ UNCHANGED <<shared, lock, arg, reading, restarts>>

SnapshotDetached(r) ==
    /\ Goto(r, "called", "idle")
    /\ r \in Detached
    /\ views' = [views EXCEPT ![r] = <<>>]
    /\ UNCHANGED <<shared, lock, arg, want, copied, restarts>>

(* Mutants of AcquireShared: no lock; nothing of a full ring; one too few. *)
AcquireSharedUnlocked(r) ==
    /\ Goto(r, "called", "copy")
    /\ r \notin Detached
    /\ sharers' = sharers \cup {r}
    /\ want' = [want EXCEPT ![r] = IF count < capacity THEN count ELSE capacity]
    /\ copied' = [copied EXCEPT ![r] = <<>>]
    /\ UNCHANGED <<shared, exclusive, arg, views, restarts>>

AcquireSharedUnlessFull(r) ==
    /\ Goto(r, "called", "copy")
    /\ r \notin Detached
    /\ exclusive = NoBackend
    /\ sharers' = sharers \cup {r}
    /\ want' = [want EXCEPT ![r] = IF count < capacity THEN count ELSE 0]
    /\ copied' = [copied EXCEPT ![r] = <<>>]
    /\ UNCHANGED <<shared, exclusive, arg, views, restarts>>

AcquireSharedOneLess(r) ==
    /\ Goto(r, "called", "copy")
    /\ r \notin Detached
    /\ exclusive = NoBackend
    /\ sharers' = sharers \cup {r}
    /\ want' = [want EXCEPT ![r] = IF count = 0 THEN 0 ELSE count - 1]
    /\ copied' = [copied EXCEPT ![r] = <<>>]
    /\ UNCHANGED <<shared, exclusive, arg, views, restarts>>

AcquireShared(r) ==
    /\ Goto(r, "called", "copy")
    /\ r \notin Detached
    /\ exclusive = NoBackend
    /\ sharers' = sharers \cup {r}
    /\ want' = [want EXCEPT ![r] = IF count < capacity THEN count ELSE capacity]
    /\ copied' = [copied EXCEPT ![r] = <<>>]
    /\ UNCHANGED <<shared, exclusive, arg, views, restarts>>

(* idx = head - 1 - i, plus capacity while it is negative.                 *)
SlotOf(i) == (head - 1 - i) % capacity

CopySlot(r) ==
    /\ pc[r] = "copy"
    /\ Len(copied[r]) < want[r]
    /\ copied' = [copied EXCEPT ![r] = Append(@, events[SlotOf(Len(@))])]
    /\ UNCHANGED <<shared, lock, pc, arg, want, views, restarts>>

(* Mutant: the snapshot returns with the lock held.                        *)
ReleaseSharedNot(r) ==
    /\ Goto(r, "copy", "idle")
    /\ Len(copied[r]) >= want[r]
    /\ views' = [views EXCEPT ![r] = copied[r]]
    /\ want' = [want EXCEPT ![r] = 0]
    /\ copied' = [copied EXCEPT ![r] = <<>>]
    /\ UNCHANGED <<shared, lock, arg, restarts>>

ReleaseShared(r) ==
    /\ Goto(r, "copy", "idle")
    /\ Len(copied[r]) >= want[r]
    /\ sharers' = sharers \ {r}
    /\ views' = [views EXCEPT ![r] = copied[r]]
    /\ want' = [want EXCEPT ![r] = 0]
    /\ copied' = [copied EXCEPT ![r] = <<>>]
    /\ UNCHANGED <<shared, exclusive, arg, restarts>>

-----------------------------------------------------------------------------

WriterNext(w) ==
    \/ \E e \in RiskEvents : Call(w, e)
    \/ ReturnEarly(w)
    \/ AcquireExclusive(w)
    \/ NumberEvent(w)
    \/ ClearSlot(w)
    \/ FillSlot(w)
    \/ AdvanceHead(w)
    \/ ReleaseExclusive(w)

ReaderNext(r) ==
    \/ CallSnapshot(r)
    \/ SnapshotDetached(r)
    \/ AcquireShared(r)
    \/ CopySlot(r)
    \/ ReleaseShared(r)

Next ==
    \/ \E w \in Writers : WriterNext(w)
    \/ \E r \in Readers : ReaderNext(r)
    \/ Restart

Spec == Init /\ [][Next]_vars

(* A backend inside event_record or event_snapshot keeps running: nothing  *)
(* in there waits but the LWLock.  Its queue wakes a waiter each time the  *)
(* lock is freed, so a waiter that finds it free again and again gets it:  *)
(* strong fairness of the two acquisitions, weak of the rest.              *)
Fairness ==
    /\ \A w \in Writers :
        /\ WF_vars(ReturnEarly(w)) /\ SF_vars(AcquireExclusive(w))
        /\ WF_vars(NumberEvent(w)) /\ WF_vars(ClearSlot(w)) /\ WF_vars(FillSlot(w))
        /\ WF_vars(AdvanceHead(w)) /\ WF_vars(ReleaseExclusive(w))
    /\ \A r \in Readers :
        /\ WF_vars(SnapshotDetached(r)) /\ SF_vars(AcquireShared(r))
        /\ WF_vars(CopySlot(r)) /\ WF_vars(ReleaseShared(r))

FairSpec == Spec /\ Fairness

-----------------------------------------------------------------------------
(* Properties                                                              *)

(* The identifier of the i-th newest event, i = 0 the newest.  Between     *)
(* NumberEvent and AdvanceHead the newest number has no slot yet.          *)
Filling == \E w \in Writers : pc[w] \in {"clear", "fill", "advance"}
Settled == IF Filling THEN next_event_id - 1 ELSE next_event_id

(* The slot at head is being replaced: cleared, or filled but not counted. *)
Replacing == \E w \in Writers : pc[w] \in {"fill", "advance"}

Whole(slot, id) ==
    /\ slot.event_id = id
    /\ slot.decision_id = id
    /\ slot.body \in RiskEvents
    /\ slot.body.decision # "ALLOW"

(* The ring retains exactly the newest min(settled, capacity) recorded     *)
(* events, in order, each whole, at every instant a reader could look,     *)
(* whatever writers, crashes and size changes came before (shmem.c:160-193)*)
RetainsNewest ==
    /\ count = IF Settled < capacity THEN Settled ELSE capacity
    /\ \A i \in 0..count - 1 :
          \/ Replacing /\ SlotOf(i) = head
          \/ Whole(events[SlotOf(i)], Settled - i)

(* pg_circuit_events() never returns a torn, zeroed, repeated, skipped or  *)
(* ALLOW event, and what it returns is the newest part of the history at   *)
(* the time of the copy, newest first (shmem.c:208-219).                   *)
SnapshotsWhole ==
    \A r \in Readers :
        /\ pc[r] = "copy" =>
              \A k \in 1..Len(copied[r]) : Whole(copied[r][k], next_event_id + 1 - k)
        /\ \A k \in 1..Len(views[r]) :
              Whole(views[r][k], views[r][1].event_id + 1 - k)

(* In one server life the newest event a session is shown never goes back, *)
(* and a session that was shown events is never shown an empty history:    *)
(* what notify's set of seen identifiers relies on.                        *)
ViewsAdvance ==
    [][\A r \in Readers :
          restarts' = restarts /\ views[r] # <<>> =>
              /\ views'[r] # <<>>
              /\ views'[r][1].event_id >= views[r][1].event_id]_vars

(* The inductive strengthening of the two invariants and of ViewsAdvance.  *)
Inside(w) == pc[w] \in {"number", "clear", "fill", "advance", "release"}

LockHeld ==
    /\ \A w \in Writers : (exclusive = w) <=> Inside(w)
    /\ \A r \in Readers : r \in sharers <=> pc[r] = "copy"
    /\ exclusive # NoBackend => sharers = {}

EventInHand ==
    \A w \in Writers :
        /\ pc[w] # "idle" => arg[w] \in RiskEvents
        /\ Inside(w) => arg[w].decision # "ALLOW"
        /\ pc[w] \in {"clear", "fill", "advance"} => next_event_id > 0
        /\ pc[w] = "advance" => Whole(events[head], next_event_id)

HeadFollowsCount == count < capacity => head = count

CopyInBounds ==
    \A r \in Readers :
        pc[r] = "copy" => /\ want[r] = count
                          /\ Len(copied[r]) <= count
                          /\ r \notin Detached

ViewsBehind ==
    \A r \in Readers :
        views[r] # <<>> => /\ r \notin Detached
                           /\ count > 0
                           /\ views[r][1].event_id <= next_event_id

RingInv ==
    /\ TypeOK
    /\ LockHeld
    /\ next_decision_id = next_event_id
    /\ EventInHand
    /\ HeadFollowsCount
    /\ RetainsNewest
    /\ CopyInBounds
    /\ SnapshotsWhole
    /\ ViewsBehind

(* Every event_record call returns, and every snapshot call too.           *)
RecordsReturn == \A w \in Writers : pc[w] = "called" ~> pc[w] = "idle"
SnapshotsReturn == \A r \in Readers : pc[r] = "called" ~> pc[r] = "idle"

(* The history a ring stands for.  A recording takes effect when it is     *)
(* numbered: from there until the slot is counted, the numbered event      *)
(* stands before the older ones that stay.                                 *)
Older(n) == [i \in 1..n |-> events[SlotOf(i - 1)]]

Recent ==
    IF Filling
    THEN <<Entry(exclusive)>> \o Older(IF count < capacity THEN count ELSE capacity - 1)
    ELSE Older(count)

History == INSTANCE EventHistory WITH issued <- next_event_id, recent <- Recent

(* The ring implements the history: recordings and snapshots look like     *)
(* single steps to every backend.                                          *)
ImplementsHistory == History!Spec

=============================================================================
