-------------------------- MODULE EventRingProofs --------------------------
(***************************************************************************)
(* Proofs about EventRing: the types, and that every snapshot is a whole,  *)
(* gapless, newest-first part of the history, for every number of writers  *)
(* and readers, every ring size, every bound; then that the ring of        *)
(* src/src/shmem.c implements EventHistory.                                *)
(***************************************************************************)
EXTENDS EventRing, TLAPS

(* Arithmetic of the ring indices.                                         *)
LEMMA ModRange ==
    ASSUME NEW c \in Nat \ {0}, NEW k \in Int
    PROVE  k % c \in 0..c - 1
  OBVIOUS

(* Moving an index up by one wraps at the capacity.                        *)
LEMMA ModUp ==
    ASSUME NEW c \in Nat \ {0}, NEW h \in 0..c - 1
    PROVE  (h + 1) % c = IF h + 1 = c THEN 0 ELSE h + 1
  OBVIOUS

(* The index of an entry, counted down from the head, wraps once           *)
(* (shmem.c:213).                                                          *)
LEMMA ModDown ==
    ASSUME NEW c \in Nat \ {0}, NEW k \in -c..c - 1
    PROVE  k % c = IF k < 0 THEN k + c ELSE k
  OBVIOUS

-----------------------------------------------------------------------------

(* A started server has a well-typed segment (shmem.c:62-113).             *)
LEMMA InitTypeOK == Init => TypeOK
  BY SizesAssumption, SMT DEF Init, TypeOK, Slots, Blank, Backends, WriterSteps, ReaderSteps

(* Every step keeps the types.                                             *)
LEMMA NextTypeOK == TypeOK /\ [Next]_vars => TypeOK'
<1> SUFFICES ASSUME TypeOK, [Next]_vars
             PROVE  TypeOK'
  OBVIOUS
<1>cap. /\ capacity \in Nat \ {0}
        /\ head \in 0..capacity - 1
        /\ count \in 0..capacity
        /\ restarts \in Nat
  BY SizesAssumption DEF TypeOK
<1>blank. Blank \in Slots
  BY DEF Blank, Slots
<1>slot. \A k \in Int : SlotOf(k) \in 0..capacity - 1
  BY <1>cap, ModRange DEF SlotOf
<1>1. ASSUME NEW w \in Writers, NEW e \in RiskEvents, Call(w, e)
      PROVE  TypeOK'
  BY <1>1, <1>cap, WritersAssumption
     DEF TypeOK, Call, Goto, shared, lock, reading, Backends, WriterSteps, ReaderSteps
<1>2. ASSUME NEW w \in Writers, ReturnEarly(w)
      PROVE  TypeOK'
  BY <1>2, <1>cap, WritersAssumption
     DEF TypeOK, ReturnEarly, Goto, shared, lock, reading, Backends, WriterSteps, ReaderSteps
<1>3. ASSUME NEW w \in Writers, AcquireExclusive(w)
      PROVE  TypeOK'
  BY <1>3, <1>cap, WritersAssumption
     DEF TypeOK, AcquireExclusive, Goto, shared, reading, Backends, WriterSteps, ReaderSteps
<1>4. ASSUME NEW w \in Writers, NumberEvent(w)
      PROVE  TypeOK'
  BY <1>4, <1>cap, WritersAssumption
     DEF TypeOK, NumberEvent, Goto, lock, reading, Backends, WriterSteps, ReaderSteps
<1>5. ASSUME NEW w \in Writers, ClearSlot(w)
      PROVE  TypeOK'
  BY <1>5, <1>cap, <1>blank, WritersAssumption
     DEF TypeOK, ClearSlot, Goto, lock, reading, Backends, WriterSteps, ReaderSteps
<1>6. ASSUME NEW w \in Writers, FillSlot(w)
      PROVE  TypeOK'
  <2>1. Entry(w) \in Slots
    BY DEF TypeOK, Entry, Slots
  <2>2. QED
    BY <1>6, <1>cap, <2>1, WritersAssumption
       DEF TypeOK, FillSlot, Goto, lock, reading, Backends, WriterSteps, ReaderSteps
<1>7. ASSUME NEW w \in Writers, AdvanceHead(w)
      PROVE  TypeOK'
  <2>1. (head + 1) % capacity \in 0..capacity - 1
    BY <1>cap, ModRange
  <2>2. QED
    BY <1>7, <1>cap, <2>1, WritersAssumption
       DEF TypeOK, AdvanceHead, Goto, lock, reading, Backends, WriterSteps, ReaderSteps
<1>8. ASSUME NEW w \in Writers, ReleaseExclusive(w)
      PROVE  TypeOK'
  BY <1>8, <1>cap, WritersAssumption
     DEF TypeOK, ReleaseExclusive, Goto, shared, reading, Backends, WriterSteps, ReaderSteps
<1>9. ASSUME NEW r \in Readers, CallSnapshot(r)
      PROVE  TypeOK'
  BY <1>9, <1>cap, WritersAssumption
     DEF TypeOK, CallSnapshot, Goto, shared, lock, reading, Backends, WriterSteps, ReaderSteps
<1>10. ASSUME NEW r \in Readers, SnapshotDetached(r)
      PROVE  TypeOK'
  BY <1>10, <1>cap, WritersAssumption
     DEF TypeOK, SnapshotDetached, Goto, shared, lock, Backends, WriterSteps, ReaderSteps
<1>11. ASSUME NEW r \in Readers, AcquireShared(r)
      PROVE  TypeOK'
  BY <1>11, <1>cap, WritersAssumption
     DEF TypeOK, AcquireShared, Goto, shared, Backends, WriterSteps, ReaderSteps
<1>12. ASSUME NEW r \in Readers, CopySlot(r)
      PROVE  TypeOK'
  <2>1. copied[r] \in Seq(Slots) /\ Len(copied[r]) \in Nat
    BY DEF TypeOK
  <2>2. events[SlotOf(Len(copied[r]))] \in Slots
    BY <2>1, <1>slot DEF TypeOK
  <2>3. Append(copied[r], events[SlotOf(Len(copied[r]))]) \in Seq(Slots)
    BY <2>1, <2>2
  <2>4. QED
    BY <1>12, <1>cap, <2>3, WritersAssumption
       DEF TypeOK, CopySlot, Goto, shared, lock, Backends, WriterSteps, ReaderSteps
<1>13. ASSUME NEW r \in Readers, ReleaseShared(r)
      PROVE  TypeOK'
  BY <1>13, <1>cap, WritersAssumption
     DEF TypeOK, ReleaseShared, Goto, shared, Backends, WriterSteps, ReaderSteps
<1>14. CASE Restart
  <2>1. capacity' \in Nat \ {0}
    BY <1>14, SizesAssumption DEF Restart
  <2>2. events' \in [0..capacity' - 1 -> Slots]
    BY <1>14, <1>blank DEF Restart
  <2>3. head' \in 0..capacity' - 1 /\ count' \in 0..capacity' /\ restarts' \in Nat
    BY <1>14, <2>1, <1>cap DEF Restart
  <2>4. <<>> \in Seq(Slots)
    OBVIOUS
  <2>5. /\ want' \in [Readers -> Nat]
        /\ copied' \in [Readers -> Seq(Slots)]
        /\ views' \in [Readers -> Seq(Slots)]
    BY <1>14, <2>4 DEF Restart
  <2>6. QED
    BY <1>14, <2>2, <2>3, <2>5 DEF TypeOK, Restart, Backends, WriterSteps, ReaderSteps
<1>15. CASE UNCHANGED vars
  BY <1>15 DEF TypeOK, vars, shared, lock, reading
<1>16. QED
  BY <1>1, <1>2, <1>3, <1>4, <1>5, <1>6, <1>7, <1>8, <1>9, <1>10, <1>11, <1>12,
     <1>13, <1>14, <1>15 DEF Next, WriterNext, ReaderNext

(* Every variable of the ring keeps its type: in particular head and every *)
(* index a snapshot reads stay inside the allocated slots (shmem.c:163,    *)
(* 213-216), whatever size the server was started with.                    *)
THEOREM TypeCorrect == Spec => []TypeOK
<1>1. QED
  BY InitTypeOK, NextTypeOK, PTL DEF Spec

-----------------------------------------------------------------------------
(* The ring invariant                                                      *)

(* What the proofs of the single steps use of the types.                   *)
Indices ==
    /\ capacity \in Nat \ {0}
    /\ head \in 0..capacity - 1
    /\ count \in 0..capacity
    /\ next_event_id \in Nat

Tables ==
    /\ pc \in [Backends -> WriterSteps \cup ReaderSteps]
    /\ arg \in [Writers -> RiskEvents \cup {NoEvent}]
    /\ want \in [Readers -> Nat]
    /\ copied \in [Readers -> Seq(Slots)]
    /\ views \in [Readers -> Seq(Slots)]

(* The part of the type invariant that speaks of the indices of the ring,  *)
(* and the part that speaks of the backends.                               *)
LEMMA Types == TypeOK => Indices /\ Tables
  BY SizesAssumption DEF TypeOK, Indices, Tables

(* Only the holder of the lock is inside a critical section.               *)
LEMMA OneInside ==
    ASSUME LockHeld, NEW w \in Writers, Inside(w)
    PROVE  /\ exclusive = w
           /\ \A v \in Writers : Inside(v) => v = w
           /\ \A r \in Readers : pc[r] # "copy"
  BY WritersAssumption DEF LockHeld

(* While nobody holds the lock exclusively, no slot is being replaced.     *)
LEMMA NobodyInside ==
    ASSUME LockHeld, exclusive = NoBackend
    PROVE  /\ \A w \in Writers : ~Inside(w)
           /\ ~Filling
           /\ ~Replacing
  BY WritersAssumption DEF LockHeld, Inside, Filling, Replacing

(* Of the retained slots, head is the oldest of a full ring and no other;  *)
(* moving head moves every other slot one place towards the old end.       *)
LEMMA HeadIsOldest ==
    ASSUME Indices, NEW i \in 0..capacity - 1
    PROVE  /\ SlotOf(i) \in 0..capacity - 1
           /\ SlotOf(i) = head => i = capacity - 1
  <1>1. head - 1 - i \in -capacity..capacity - 1
    BY DEF Indices
  <1>2. SlotOf(i) = IF head - 1 - i < 0 THEN head - 1 - i + capacity ELSE head - 1 - i
    BY <1>1, ModDown DEF Indices, SlotOf
  <1>3. QED
    BY <1>2 DEF Indices

(* Where the retained entries are found after the head moved.              *)
LEMMA HeadMoves ==
    ASSUME Indices, NEW i \in 0..capacity - 1,
           capacity' = capacity, head' = (head + 1) % capacity
    PROVE  SlotOf(i)' = IF i = 0 THEN head ELSE SlotOf(i - 1)
  <1>1. head' = IF head + 1 = capacity THEN 0 ELSE head + 1
    BY ModUp DEF Indices
  <1>2. head' - 1 - i \in -capacity..capacity - 1
    BY <1>1 DEF Indices
  <1>3. SlotOf(i)' = IF head' - 1 - i < 0 THEN head' - 1 - i + capacity ELSE head' - 1 - i
    BY <1>2, ModDown DEF Indices, SlotOf
  <1>4. CASE i = 0
    BY <1>1, <1>3, <1>4 DEF Indices
  <1>5. CASE i # 0
    <2>1. head - 1 - (i - 1) \in -capacity..capacity - 1
      BY <1>5 DEF Indices
    <2>2. SlotOf(i - 1) = IF head - 1 - (i - 1) < 0
                          THEN head - 1 - (i - 1) + capacity ELSE head - 1 - (i - 1)
      BY <2>1, ModDown DEF Indices, SlotOf
    <2>3. QED
      BY <1>1, <1>3, <1>5, <2>2 DEF Indices
  <1>6. QED
    BY <1>4, <1>5

(* A step that leaves the segment and the filling alone keeps the ring.    *)
LEMMA SameRing ==
    ASSUME RetainsNewest, HeadFollowsCount, UNCHANGED shared,
           Filling' <=> Filling, Replacing' <=> Replacing
    PROVE  RetainsNewest' /\ HeadFollowsCount'
  BY DEF RetainsNewest, HeadFollowsCount, Settled, SlotOf, Whole, shared

(* A writer's step leaves the readers alone, and inside a critical section *)
(* there are none copying.                                                 *)
LEMMA ReadersUndisturbed ==
    ASSUME RingInv, NEW w \in Writers, UNCHANGED <<sharers, reading>>,
           \A r \in Readers : pc'[r] = pc[r],
           \/ Inside(w)
           \/ UNCHANGED shared,
           next_event_id' \in Nat, next_event_id' >= next_event_id,
           count' \in Nat, count' >= count
    PROVE  CopyInBounds' /\ SnapshotsWhole' /\ ViewsBehind'
  <1>1. ASSUME NEW r \in Readers, views[r] # <<>>
        PROVE  views[r][1].event_id \in Nat
    <2>1. views[r] \in Seq(Slots)
      BY DEF RingInv, TypeOK
    <2>2. views[r][1] \in Slots
      BY <1>1, <2>1
    <2>3. QED
      BY <2>2 DEF Slots
  <1>2. ViewsBehind'
    BY <1>1, Types DEF RingInv, ViewsBehind, reading, Indices
  <1>3. CASE Inside(w)
    <2>1. \A r \in Readers : pc'[r] # "copy"
      BY <1>3, OneInside DEF RingInv
    <2>2. QED
      BY <1>2, <2>1 DEF RingInv, CopyInBounds, SnapshotsWhole, Whole, reading
  <1>4. CASE UNCHANGED shared
    BY <1>2, <1>4 DEF RingInv, CopyInBounds, SnapshotsWhole, Whole, reading, shared
  <1>5. QED
    BY <1>3, <1>4

(* A started server satisfies the ring invariant.                          *)
LEMMA InitRingInv == Init => RingInv
<1> SUFFICES ASSUME Init
             PROVE  RingInv
  OBVIOUS
<1>1. TypeOK
  BY InitTypeOK
<1>2. ~Filling /\ ~Replacing /\ capacity \in Nat \ {0}
  BY SizesAssumption DEF Init, Filling, Replacing, Backends
<1>3. LockHeld
  BY WritersAssumption DEF Init, LockHeld, Inside, Backends
<1>4. EventInHand
  BY DEF Init, EventInHand, Inside, Backends
<1>5. HeadFollowsCount /\ RetainsNewest
  BY <1>2 DEF Init, HeadFollowsCount, RetainsNewest, Settled
<1>6. CopyInBounds /\ SnapshotsWhole /\ ViewsBehind
  BY DEF Init, CopyInBounds, SnapshotsWhole, ViewsBehind, Backends
<1>7. QED
  BY <1>1, <1>3, <1>4, <1>5, <1>6 DEF RingInv, Init

(* A restart reaches an initial segment, whatever its size.                *)
LEMMA RestartRingInv == RingInv /\ Restart => RingInv'
<1> SUFFICES ASSUME RingInv, Restart
             PROVE  RingInv'
  OBVIOUS
<1>1. TypeOK'
  BY NextTypeOK DEF RingInv, Next
<1>2. Filling' = FALSE /\ Replacing' = FALSE /\ capacity' \in Nat \ {0}
  BY SizesAssumption DEF Restart, Filling, Replacing, Backends
<1>3. LockHeld'
  BY WritersAssumption DEF Restart, LockHeld, Inside, Backends
<1>4. EventInHand'
  BY DEF Restart, EventInHand, Inside, Backends
<1>5. HeadFollowsCount' /\ RetainsNewest'
  BY <1>2 DEF Restart, HeadFollowsCount, RetainsNewest, Settled
<1>6. CopyInBounds' /\ SnapshotsWhole' /\ ViewsBehind'
  BY DEF Restart, CopyInBounds, SnapshotsWhole, ViewsBehind, Backends
<1>7. QED
  BY <1>1, <1>3, <1>4, <1>5, <1>6 DEF RingInv, Restart

(* Every step of pg_circuit_event_record keeps the ring invariant          *)
(* (shmem.c:124-196).                                                      *)
LEMMA WriterRingInv ==
    ASSUME RingInv, NEW w \in Writers, WriterNext(w)
    PROVE  RingInv'
<1>typ. TypeOK'
  BY NextTypeOK DEF RingInv, Next
<1>now. /\ Indices /\ Tables /\ LockHeld /\ EventInHand /\ HeadFollowsCount
        /\ RetainsNewest /\ next_decision_id = next_event_id
  BY Types DEF RingInv
<1>oth. \A r \in Readers : r # w
  BY WritersAssumption
<1> USE DEF Goto
<1>1. ASSUME NEW e \in RiskEvents, Call(w, e)
      PROVE  RingInv'
  <2>1. LockHeld'
    BY <1>1, <1>now, <1>oth DEF Call, LockHeld, Inside, lock, Tables, Backends
  <2>2. EventInHand'
    BY <1>1, <1>now DEF Call, EventInHand, Inside, Whole, shared, Tables, Backends
  <2>3. RetainsNewest' /\ HeadFollowsCount'
    <3>1. (Filling' <=> Filling) /\ (Replacing' <=> Replacing)
      BY <1>1, <1>now DEF Call, Filling, Replacing, Tables, Backends
    <3>2. QED
      BY <1>1, <1>now, <3>1, SameRing DEF Call
  <2>4. CopyInBounds' /\ SnapshotsWhole' /\ ViewsBehind'
    BY <1>1, <1>now, <1>oth, ReadersUndisturbed DEF Call, lock, shared, Tables, Backends, Indices
  <2>5. QED
    BY <1>1, <1>typ, <1>now, <2>1, <2>2, <2>3, <2>4 DEF RingInv, Call, shared
<1>2. ASSUME ReturnEarly(w)
      PROVE  RingInv'
  <2>1. LockHeld'
    BY <1>2, <1>now, <1>oth DEF ReturnEarly, LockHeld, Inside, lock, Tables, Backends
  <2>2. EventInHand'
    BY <1>2, <1>now DEF ReturnEarly, EventInHand, Inside, Unrecorded, Whole, shared, Tables, Backends
  <2>3. RetainsNewest' /\ HeadFollowsCount'
    <3>1. (Filling' <=> Filling) /\ (Replacing' <=> Replacing)
      BY <1>2, <1>now DEF ReturnEarly, Filling, Replacing, Tables, Backends
    <3>2. QED
      BY <1>2, <1>now, <3>1, SameRing DEF ReturnEarly
  <2>4. CopyInBounds' /\ SnapshotsWhole' /\ ViewsBehind'
    BY <1>2, <1>now, <1>oth, ReadersUndisturbed
       DEF ReturnEarly, lock, shared, reading, Tables, Backends, Indices
  <2>5. QED
    BY <1>2, <1>typ, <1>now, <2>1, <2>2, <2>3, <2>4 DEF RingInv, ReturnEarly, shared
<1>3. ASSUME AcquireExclusive(w)
      PROVE  RingInv'
  <2>1. LockHeld'
    <3>1. \A v \in Writers : Inside(v)' <=> v = w
      BY <1>3, <1>now, NobodyInside DEF AcquireExclusive, Inside, Tables, Backends
    <3>2. \A r \in Readers : pc'[r] = pc[r]
      BY <1>3, <1>now, <1>oth DEF AcquireExclusive, Tables, Backends
    <3>3. QED
      BY <1>3, <1>now, <3>1, <3>2 DEF AcquireExclusive, LockHeld
  <2>2. EventInHand'
    BY <1>3, <1>now DEF AcquireExclusive, EventInHand, Inside, Unrecorded, Whole, shared, Tables, Backends
  <2>3. RetainsNewest' /\ HeadFollowsCount'
    <3>1. (Filling' <=> Filling) /\ (Replacing' <=> Replacing)
      BY <1>3, <1>now DEF AcquireExclusive, Filling, Replacing, Tables, Backends
    <3>2. QED
      BY <1>3, <1>now, <3>1, SameRing DEF AcquireExclusive
  <2>4. CopyInBounds' /\ SnapshotsWhole' /\ ViewsBehind'
    BY <1>3, <1>now, <1>oth, ReadersUndisturbed
       DEF AcquireExclusive, lock, shared, reading, Tables, Backends, Indices
  <2>5. QED
    BY <1>3, <1>typ, <1>now, <2>1, <2>2, <2>3, <2>4 DEF RingInv, AcquireExclusive, shared
<1>4. ASSUME NumberEvent(w)
      PROVE  RingInv'
  <2>0. Inside(w) /\ exclusive = w /\ \A v \in Writers : Inside(v) => v = w
    BY <1>4, <1>now, OneInside DEF NumberEvent, Inside
  <2>1. LockHeld'
    BY <1>4, <1>now, <1>oth DEF NumberEvent, LockHeld, Inside, lock, Tables, Backends
  <2>2. EventInHand'
    BY <1>4, <1>now, <2>0
       DEF NumberEvent, EventInHand, Inside, Whole, Tables, Backends, Indices
  <2>3. RetainsNewest' /\ HeadFollowsCount'
    <3>1. ~Filling /\ ~Replacing /\ Filling' /\ ~Replacing'
      BY <1>4, <1>now, <2>0 DEF NumberEvent, Filling, Replacing, Inside, Tables, Backends
    <3>2. Settled' = Settled
      BY <1>4, <1>now, <3>1 DEF NumberEvent, Settled, Indices
    <3>3. QED
      BY <1>4, <1>now, <3>1, <3>2
         DEF NumberEvent, RetainsNewest, HeadFollowsCount, SlotOf, Whole
  <2>4. CopyInBounds' /\ SnapshotsWhole' /\ ViewsBehind'
    BY <1>4, <1>now, <1>oth, <2>0, ReadersUndisturbed
       DEF NumberEvent, lock, reading, Tables, Backends, Indices
  <2>5. QED
    BY <1>4, <1>typ, <1>now, <2>1, <2>2, <2>3, <2>4 DEF RingInv, NumberEvent
<1>5. ASSUME ClearSlot(w)
      PROVE  RingInv'
  <2>0. Inside(w) /\ exclusive = w /\ \A v \in Writers : Inside(v) => v = w
    BY <1>5, <1>now, OneInside DEF ClearSlot, Inside
  <2>1. LockHeld'
    BY <1>5, <1>now, <1>oth DEF ClearSlot, LockHeld, Inside, lock, Tables, Backends
  <2>2. EventInHand'
    BY <1>5, <1>now, <2>0 DEF ClearSlot, EventInHand, Inside, Tables, Backends
  <2>3. RetainsNewest' /\ HeadFollowsCount'
    <3>1. Filling /\ Filling' /\ Replacing'
      BY <1>5, <1>now DEF ClearSlot, Filling, Replacing, Tables, Backends
    <3>2. ~Replacing
      BY <1>5, <2>0 DEF ClearSlot, Replacing, Inside
    <3>3. Settled' = Settled
      BY <1>5, <3>1 DEF ClearSlot, Settled
    <3>4. \A i \in 0..count - 1 : SlotOf(i) # head => events'[SlotOf(i)] = events[SlotOf(i)]
      BY <1>5, <1>now, <1>typ, HeadIsOldest DEF ClearSlot, TypeOK, Indices
    <3>5. QED
      BY <1>5, <1>now, <3>1, <3>2, <3>3, <3>4
         DEF ClearSlot, RetainsNewest, HeadFollowsCount, SlotOf, Whole
  <2>4. CopyInBounds' /\ SnapshotsWhole' /\ ViewsBehind'
    BY <1>5, <1>now, <1>oth, <2>0, ReadersUndisturbed
       DEF ClearSlot, lock, reading, Tables, Backends, Indices
  <2>5. QED
    BY <1>5, <1>typ, <1>now, <2>1, <2>2, <2>3, <2>4 DEF RingInv, ClearSlot
<1>6. ASSUME FillSlot(w)
      PROVE  RingInv'
  <2>0. Inside(w) /\ exclusive = w /\ \A v \in Writers : Inside(v) => v = w
    BY <1>6, <1>now, OneInside DEF FillSlot, Inside
  <2>e. events' = [events EXCEPT ![head] = Entry(w)] /\ events \in [0..capacity - 1 -> Slots]
    BY <1>6 DEF FillSlot, RingInv, TypeOK
  <2>1. LockHeld'
    BY <1>6, <1>now, <1>oth DEF FillSlot, LockHeld, Inside, lock, Tables, Backends
  <2>2. EventInHand'
    <3>1. Whole(events'[head], next_event_id)
      BY <1>6, <1>now, <2>0, <2>e DEF FillSlot, EventInHand, Entry, Whole, Indices
    <3>2. QED
      BY <1>6, <1>now, <2>0, <3>1 DEF FillSlot, EventInHand, Inside, Whole, Tables, Backends
  <2>3. RetainsNewest' /\ HeadFollowsCount'
    <3>1. Filling /\ Replacing /\ Filling' /\ Replacing'
      BY <1>6, <1>now DEF FillSlot, Filling, Replacing, Tables, Backends
    <3>2. Settled' = Settled
      BY <1>6, <3>1 DEF FillSlot, Settled
    <3>3. \A i \in 0..count - 1 : SlotOf(i) # head => events'[SlotOf(i)] = events[SlotOf(i)]
      BY <1>now, <2>e, HeadIsOldest DEF Indices
    <3>4. QED
      BY <1>6, <1>now, <3>1, <3>2, <3>3
         DEF FillSlot, RetainsNewest, HeadFollowsCount, SlotOf, Whole
  <2>4. CopyInBounds' /\ SnapshotsWhole' /\ ViewsBehind'
    BY <1>6, <1>now, <1>oth, <2>0, ReadersUndisturbed
       DEF FillSlot, lock, reading, Tables, Backends, Indices
  <2>5. QED
    BY <1>6, <1>typ, <1>now, <2>1, <2>2, <2>3, <2>4 DEF RingInv, FillSlot
<1>7. ASSUME AdvanceHead(w)
      PROVE  RingInv'
  <2>0. Inside(w) /\ exclusive = w /\ \A v \in Writers : Inside(v) => v = w
    BY <1>7, <1>now, OneInside DEF AdvanceHead, Inside
  <2>1. LockHeld'
    BY <1>7, <1>now, <1>oth DEF AdvanceHead, LockHeld, Inside, lock, Tables, Backends
  <2>2. EventInHand'
    BY <1>7, <1>now, <2>0 DEF AdvanceHead, EventInHand, Inside, Tables, Backends
  <2>3. RetainsNewest' /\ HeadFollowsCount'
    <3>1. Filling /\ ~Filling' /\ ~Replacing'
      BY <1>7, <1>now, <2>0 DEF AdvanceHead, Filling, Replacing, Inside, Tables, Backends
    <3>2. next_event_id > 0 /\ Whole(events[head], next_event_id)
      BY <1>7, <1>now DEF AdvanceHead, EventInHand
    <3>3. Settled = next_event_id - 1 /\ Settled' = next_event_id
      BY <1>7, <3>1 DEF AdvanceHead, Settled
    <3>4. count' = IF Settled' < capacity THEN Settled' ELSE capacity
      BY <1>7, <1>now, <3>2, <3>3 DEF AdvanceHead, RetainsNewest, Indices
    <3>5. HeadFollowsCount'
      <4>1. head' = IF head + 1 = capacity THEN 0 ELSE head + 1
        BY <1>7, <1>now, ModUp DEF AdvanceHead, Indices
      <4>2. QED
        BY <1>7, <1>now, <4>1 DEF AdvanceHead, HeadFollowsCount, Indices
    <3>6. ASSUME NEW i \in 0..count' - 1
          PROVE  Whole(events[SlotOf(i)'], next_event_id - i)
      <4>1. i \in 0..capacity - 1
        BY <1>7, <1>now DEF AdvanceHead, Indices
      <4>2. SlotOf(i)' = IF i = 0 THEN head ELSE SlotOf(i - 1)
        BY <1>7, <1>now, <4>1, HeadMoves DEF AdvanceHead
      <4>3. CASE i = 0
        BY <1>now, <3>2, <4>2, <4>3 DEF Indices
      <4>4. CASE i # 0
        <5>1. i - 1 \in 0..count - 1 /\ i - 1 \in 0..capacity - 1 /\ i - 1 # capacity - 1
          BY <1>7, <1>now, <4>1, <4>4 DEF AdvanceHead, Indices
        <5>2. SlotOf(i - 1) # head
          BY <1>now, <5>1, HeadIsOldest
        <5>3. Whole(events[SlotOf(i - 1)], Settled - (i - 1))
          BY <1>now, <5>1, <5>2 DEF RetainsNewest
        <5>4. Settled - (i - 1) = next_event_id - i
          BY <1>now, <3>3, <4>1 DEF Indices
        <5>5. QED
          BY <4>2, <4>4, <5>3, <5>4
      <4>5. QED
        BY <4>3, <4>4
    <3>7. QED
      BY <1>7, <3>3, <3>4, <3>5, <3>6 DEF AdvanceHead, RetainsNewest, Whole
  <2>4. CopyInBounds' /\ SnapshotsWhole' /\ ViewsBehind'
    BY <1>7, <1>now, <1>oth, <2>0, ReadersUndisturbed
       DEF AdvanceHead, lock, reading, Tables, Backends, Indices
  <2>5. QED
    BY <1>7, <1>typ, <1>now, <2>1, <2>2, <2>3, <2>4 DEF RingInv, AdvanceHead
<1>8. ASSUME ReleaseExclusive(w)
      PROVE  RingInv'
  <2>1. LockHeld'
    <3>1. \A v \in Writers : ~Inside(v)'
      BY <1>8, <1>now, OneInside DEF ReleaseExclusive, Inside, Tables, Backends
    <3>2. \A r \in Readers : pc'[r] = pc[r]
      BY <1>8, <1>now, <1>oth DEF ReleaseExclusive, Tables, Backends
    <3>3. QED
      BY <1>8, <1>now, <3>1, <3>2, WritersAssumption DEF ReleaseExclusive, LockHeld
  <2>2. EventInHand'
    BY <1>8, <1>now DEF ReleaseExclusive, EventInHand, Inside, Unrecorded, Whole, shared, Tables, Backends
  <2>3. RetainsNewest' /\ HeadFollowsCount'
    <3>1. (Filling' <=> Filling) /\ (Replacing' <=> Replacing)
      BY <1>8, <1>now DEF ReleaseExclusive, Filling, Replacing, Tables, Backends
    <3>2. QED
      BY <1>8, <1>now, <3>1, SameRing DEF ReleaseExclusive
  <2>4. CopyInBounds' /\ SnapshotsWhole' /\ ViewsBehind'
    BY <1>8, <1>now, <1>oth, ReadersUndisturbed
       DEF ReleaseExclusive, lock, shared, reading, Tables, Backends, Indices
  <2>5. QED
    BY <1>8, <1>typ, <1>now, <2>1, <2>2, <2>3, <2>4 DEF RingInv, ReleaseExclusive, shared
<1>9. QED
  BY <1>1, <1>2, <1>3, <1>4, <1>5, <1>6, <1>7, <1>8 DEF WriterNext

(* Every step of pg_circuit_event_snapshot keeps the ring invariant        *)
(* (shmem.c:198-221).                                                      *)
LEMMA ReaderRingInv ==
    ASSUME RingInv, NEW r \in Readers, ReaderNext(r)
    PROVE  RingInv'
<1>typ. TypeOK'
  BY NextTypeOK DEF RingInv, Next
<1>now. /\ Indices /\ Tables /\ LockHeld /\ EventInHand /\ HeadFollowsCount
        /\ RetainsNewest /\ CopyInBounds /\ SnapshotsWhole /\ ViewsBehind
        /\ next_decision_id = next_event_id
  BY Types DEF RingInv
<1>oth. \A w \in Writers : w # r
  BY WritersAssumption
<1>ring. ASSUME UNCHANGED <<shared, arg>>, \A w \in Writers : pc'[w] = pc[w]
         PROVE  EventInHand' /\ RetainsNewest' /\ HeadFollowsCount'
  <2>1. EventInHand'
    BY <1>ring, <1>now DEF EventInHand, Inside, Whole, shared
  <2>2. (Filling' <=> Filling) /\ (Replacing' <=> Replacing)
    BY <1>ring DEF Filling, Replacing
  <2>3. QED
    BY <1>ring, <1>now, <2>1, <2>2, SameRing
<1> USE DEF Goto
<1>1. CASE CallSnapshot(r)
  <2>1. \A w \in Writers : pc'[w] = pc[w]
    BY <1>1, <1>now, <1>oth DEF CallSnapshot, Tables, Backends
  <2>2. \A q \in Readers : pc'[q] = "copy" <=> pc[q] = "copy"
    BY <1>1, <1>now DEF CallSnapshot, Tables, Backends
  <2>3. LockHeld'
    BY <1>1, <1>now, <2>1, <2>2 DEF CallSnapshot, LockHeld, Inside, lock
  <2>4. CopyInBounds' /\ SnapshotsWhole' /\ ViewsBehind'
    BY <1>1, <1>now, <2>2
       DEF CallSnapshot, CopyInBounds, SnapshotsWhole, ViewsBehind, Whole, reading, shared
  <2>5. QED
    BY <1>1, <1>typ, <1>now, <1>ring, <2>1, <2>3, <2>4 DEF CallSnapshot, RingInv, shared
<1>2. CASE SnapshotDetached(r)
  <2>1. \A w \in Writers : pc'[w] = pc[w]
    BY <1>2, <1>now, <1>oth DEF SnapshotDetached, Tables, Backends
  <2>2. \A q \in Readers : pc'[q] = "copy" <=> pc[q] = "copy"
    BY <1>2, <1>now DEF SnapshotDetached, Tables, Backends
  <2>3. LockHeld'
    BY <1>2, <1>now, <2>1, <2>2 DEF SnapshotDetached, LockHeld, Inside, lock
  <2>4. \A q \in Readers : views'[q] = IF q = r THEN <<>> ELSE views[q]
    BY <1>2, <1>now DEF SnapshotDetached, Tables
  <2>5. CopyInBounds' /\ ViewsBehind'
    BY <1>2, <1>now, <2>2, <2>4 DEF SnapshotDetached, CopyInBounds, ViewsBehind, shared
  <2>6. SnapshotsWhole'
    BY <1>2, <1>now, <2>2, <2>4 DEF SnapshotDetached, SnapshotsWhole, Whole, shared
  <2>7. QED
    BY <1>2, <1>typ, <1>now, <1>ring, <2>1, <2>3, <2>5, <2>6
       DEF SnapshotDetached, RingInv, shared
<1>3. CASE AcquireShared(r)
  <2>1. \A w \in Writers : pc'[w] = pc[w]
    BY <1>3, <1>now, <1>oth DEF AcquireShared, Tables, Backends
  <2>2. \A q \in Readers : pc'[q] = IF q = r THEN "copy" ELSE pc[q]
    BY <1>3, <1>now DEF AcquireShared, Tables, Backends
  <2>3. LockHeld'
    BY <1>3, <1>now, <2>1, <2>2 DEF AcquireShared, LockHeld, Inside
  <2>4. /\ \A q \in Readers : copied'[q] = IF q = r THEN <<>> ELSE copied[q]
        /\ \A q \in Readers : want'[q] = IF q = r THEN count ELSE want[q]
    BY <1>3, <1>now DEF AcquireShared, Tables, Indices
  <2>5. CopyInBounds' /\ ViewsBehind'
    BY <1>3, <1>now, <2>2, <2>4 DEF AcquireShared, CopyInBounds, ViewsBehind, shared, Indices
  <2>6. SnapshotsWhole'
    BY <1>3, <1>now, <2>2, <2>4 DEF AcquireShared, SnapshotsWhole, Whole, shared
  <2>7. QED
    BY <1>3, <1>typ, <1>now, <1>ring, <2>1, <2>3, <2>5, <2>6
       DEF AcquireShared, RingInv, shared
<1>4. CASE CopySlot(r)
  <2> DEFINE n == Len(copied[r])
  <2>0. copied[r] \in Seq(Slots) /\ n \in Nat /\ n < count /\ r \in sharers
    BY <1>4, <1>now DEF CopySlot, CopyInBounds, LockHeld, Tables
  <2>1. Settled = next_event_id /\ ~Replacing
    BY <1>now, <2>0, NobodyInside DEF LockHeld, Settled
  <2>2. Whole(events[SlotOf(n)], next_event_id - n)
    BY <1>now, <2>0, <2>1 DEF RetainsNewest, Indices
  <2>3. \A q \in Readers :
           copied'[q] = IF q = r THEN Append(copied[r], events[SlotOf(n)]) ELSE copied[q]
    BY <1>4, <1>now DEF CopySlot, Tables
  <2>4. /\ Len(copied'[r]) = n + 1
        /\ \A k \in 1..n : copied'[r][k] = copied[r][k]
        /\ copied'[r][n + 1] = events[SlotOf(n)]
    <3>1. events[SlotOf(n)] \in Slots
      <4>1. SlotOf(n) \in 0..capacity - 1
        <5>1. n \in 0..capacity - 1
          BY <1>now, <2>0 DEF Indices
        <5>2. QED
          BY <1>now, <5>1, HeadIsOldest
      <4>2. events \in [0..capacity - 1 -> Slots]
        BY DEF RingInv, TypeOK
      <4>3. QED
        BY <4>1, <4>2
    <3>2. copied'[r] = Append(copied[r], events[SlotOf(n)])
      BY <2>3
    <3> HIDE DEF n
    <3>3. n = Len(copied[r])
      BY DEF n
    <3>4. QED
      BY <2>0, <3>1, <3>2, <3>3
  <2>5. \A k \in 1..Len(copied'[r]) : Whole(copied'[r][k], next_event_id + 1 - k)
    <3>1. ASSUME NEW k \in 1..n
          PROVE  Whole(copied'[r][k], next_event_id + 1 - k)
      BY <1>4, <1>now, <2>4 DEF CopySlot, SnapshotsWhole
    <3>2. Whole(copied'[r][n + 1], next_event_id + 1 - (n + 1))
      <4>1. next_event_id + 1 - (n + 1) = next_event_id - n
        BY <1>now, <2>0 DEF Indices
      <4>2. QED
        BY <2>2, <2>4, <4>1
    <3>3. QED
      BY <2>0, <2>4, <3>1, <3>2
  <2>6. SnapshotsWhole'
    BY <1>4, <1>now, <2>3, <2>5 DEF CopySlot, SnapshotsWhole, Whole, shared
  <2>7. CopyInBounds' /\ ViewsBehind'
    BY <1>4, <1>now, <2>0, <2>3, <2>4 DEF CopySlot, CopyInBounds, ViewsBehind, shared, Indices
  <2>8. LockHeld'
    BY <1>4, <1>now DEF CopySlot, LockHeld, Inside, lock
  <2>9. QED
    BY <1>4, <1>typ, <1>now, <1>ring, <2>6, <2>7, <2>8 DEF CopySlot, RingInv, shared
<1>5. CASE ReleaseShared(r)
  <2>1. \A w \in Writers : pc'[w] = pc[w]
    BY <1>5, <1>now, <1>oth DEF ReleaseShared, Tables, Backends
  <2>2. \A q \in Readers : pc'[q] = IF q = r THEN "idle" ELSE pc[q]
    BY <1>5, <1>now DEF ReleaseShared, Tables, Backends
  <2>3. LockHeld'
    BY <1>5, <1>now, <2>1, <2>2 DEF ReleaseShared, LockHeld, Inside
  <2>4. /\ \A q \in Readers : views'[q] = IF q = r THEN copied[r] ELSE views[q]
        /\ \A q \in Readers : q # r => want'[q] = want[q] /\ copied'[q] = copied[q]
    BY <1>5, <1>now DEF ReleaseShared, Tables
  <2>5. \A k \in 1..Len(copied[r]) :
           Whole(copied[r][k], next_event_id + 1 - k)
    BY <1>5, <1>now DEF ReleaseShared, SnapshotsWhole
  <2>6. copied[r] # <<>> =>
           /\ copied[r][1].event_id = next_event_id
           /\ count > 0
           /\ r \notin Detached
    <3>1. SUFFICES ASSUME copied[r] # <<>>
                   PROVE  /\ copied[r][1].event_id = next_event_id
                          /\ count > 0
                          /\ r \notin Detached
      OBVIOUS
    <3>2. copied[r] \in Seq(Slots) /\ Len(copied[r]) \in Nat \ {0}
      BY <1>now, <3>1 DEF Tables
    <3>3. Whole(copied[r][1], next_event_id + 1 - 1)
      BY <2>5, <3>2
    <3>4. QED
      BY <1>5, <1>now, <3>2, <3>3 DEF ReleaseShared, CopyInBounds, Whole, Indices
  <2>7. \A k \in 1..Len(copied[r]) :
           Whole(copied[r][k], copied[r][1].event_id + 1 - k)
    <3>1. SUFFICES ASSUME NEW k \in 1..Len(copied[r])
                   PROVE  Whole(copied[r][k], copied[r][1].event_id + 1 - k)
      OBVIOUS
    <3>2. copied[r] # <<>>
      BY <1>now DEF Tables
    <3>3. QED
      BY <2>5, <2>6, <3>2
  <2>8. CopyInBounds' /\ ViewsBehind'
    BY <1>5, <1>now, <2>2, <2>4, <2>6
       DEF ReleaseShared, CopyInBounds, ViewsBehind, shared, Indices
  <2>9. SnapshotsWhole'
    BY <1>5, <1>now, <2>2, <2>4, <2>7 DEF ReleaseShared, SnapshotsWhole, Whole, shared
  <2>10. QED
    BY <1>5, <1>typ, <1>now, <1>ring, <2>1, <2>3, <2>8, <2>9
       DEF ReleaseShared, RingInv, shared
<1>6. QED
  BY <1>1, <1>2, <1>3, <1>4, <1>5 DEF ReaderNext

(* The ring invariant is inductive.                                        *)
LEMMA NextRingInv == RingInv /\ [Next]_vars => RingInv'
<1> SUFFICES ASSUME RingInv, [Next]_vars
             PROVE  RingInv'
  OBVIOUS
<1>1. CASE UNCHANGED vars
  BY <1>1 DEF RingInv, TypeOK, LockHeld, EventInHand, Inside, HeadFollowsCount,
              RetainsNewest, Settled, Filling, Replacing, SlotOf, Whole, CopyInBounds,
              SnapshotsWhole, ViewsBehind, vars, shared, lock, reading
<1>2. QED
  BY <1>1, WriterRingInv, ReaderRingInv, RestartRingInv DEF Next

(* The inductive invariant holds in every state: the lock excludes what it *)
(* must, the entry in hand carries its number, and the head follows the    *)
(* count (shmem.c:124-221).                                                *)
THEOREM RingInvariant == Spec => []RingInv
<1>1. QED
  BY InitRingInv, NextRingInv, PTL DEF Spec

(* The ring holds exactly the newest events at every instant.              *)
THEOREM NewestRetained == Spec => []RetainsNewest
<1>1. RingInv => RetainsNewest
  BY DEF RingInv
<1>2. QED
  BY <1>1, RingInvariant, PTL

(* No snapshot is torn, gapped, repeated or out of order.                  *)
THEOREM SnapshotsAreWhole == Spec => []SnapshotsWhole
<1>1. RingInv => SnapshotsWhole
  BY DEF RingInv
<1>2. QED
  BY <1>1, RingInvariant, PTL

(* One step replaces a session's view by one at least as recent.           *)
LEMMA ViewsStep ==
    ASSUME RingInv, [Next]_vars, restarts' = restarts,
           NEW r \in Readers, views[r] # <<>>
    PROVE  /\ views'[r] # <<>>
           /\ views'[r][1].event_id >= views[r][1].event_id
<1>now. /\ Indices /\ Tables /\ CopyInBounds /\ SnapshotsWhole
        /\ views[r] \in Seq(Slots) /\ views[r][1].event_id \in Nat
        /\ r \notin Detached /\ count > 0 /\ views[r][1].event_id <= next_event_id
  <2>1. views[r] \in Seq(Slots) /\ views[r][1] \in Slots
    BY Types DEF RingInv, Tables
  <2>2. QED
    BY <2>1, Types DEF RingInv, ViewsBehind, Slots
<1>1. CASE views'[r] = views[r]
  BY <1>now, <1>1
<1>2. CASE ReleaseShared(r)
  <2>1. views'[r] = copied[r] /\ copied[r] \in Seq(Slots) /\ Len(copied[r]) >= want[r]
        /\ want[r] = count
    BY <1>2, <1>now DEF ReleaseShared, Goto, Tables, CopyInBounds
  <2>2. Len(copied[r]) >= 1 /\ copied[r] # <<>>
    BY <1>now, <2>1 DEF Indices
  <2>3. Whole(copied[r][1], next_event_id + 1 - 1)
    BY <1>2, <1>now, <2>1, <2>2 DEF ReleaseShared, Goto, SnapshotsWhole
  <2>4. QED
    BY <1>now, <2>1, <2>2, <2>3 DEF Whole, Indices
<1>3. \/ views'[r] = views[r]
      \/ ReleaseShared(r)
  <2>1. ASSUME NEW w \in Writers, WriterNext(w)
        PROVE  views' = views
    BY <2>1 DEF WriterNext, Call, ReturnEarly, AcquireExclusive, NumberEvent, ClearSlot,
                FillSlot, AdvanceHead, ReleaseExclusive, reading
  <2>2. ASSUME NEW q \in Readers, ReaderNext(q)
        PROVE  views'[r] = views[r] \/ ReleaseShared(r)
    <3>1. CASE CallSnapshot(q) \/ AcquireShared(q) \/ CopySlot(q)
      BY <3>1 DEF CallSnapshot, AcquireShared, CopySlot, reading
    <3>2. CASE SnapshotDetached(q)
      BY <3>2, <1>now DEF SnapshotDetached, Tables
    <3>3. CASE ReleaseShared(q)
      BY <3>3, <1>now DEF ReleaseShared, Tables
    <3>4. QED
      BY <2>2, <3>1, <3>2, <3>3 DEF ReaderNext
  <2>3. ~Restart
    BY DEF Restart, RingInv, TypeOK
  <2>4. CASE UNCHANGED vars
    BY <2>4 DEF vars, reading
  <2>5. QED
    BY <2>1, <2>2, <2>3, <2>4 DEF Next
<1>4. QED
  BY <1>1, <1>2, <1>3

(* A session's view of the history never goes back within a server life.   *)
THEOREM ViewsNeverGoBack == Spec => ViewsAdvance
<1>1. RingInv /\ [Next]_vars =>
        [\A r \in Readers :
          restarts' = restarts /\ views[r] # <<>> =>
              /\ views'[r] # <<>>
              /\ views'[r][1].event_id >= views[r][1].event_id]_vars
  BY ViewsStep
<1>2. QED
  BY <1>1, RingInvariant, PTL DEF Spec, ViewsAdvance

-----------------------------------------------------------------------------
(* The refinement of EventHistory.  A recording takes effect when it is    *)
(* numbered, a snapshot when it is released; every other step of either    *)
(* leaves the history as it is.                                            *)

(* RingInv says that a slot is whole; the history needs to know which      *)
(* event it holds: the one of the writer that filled it, and in a copy     *)
(* those of the ring, which cannot have moved since the copy began.        *)
FilledByHolder == \A w \in Writers : pc[w] = "advance" => events[head] = Entry(w)

CopiedFromRing ==
    \A r \in Readers : pc[r] = "copy" => copied[r] = Older(Len(copied[r]))

RefInv ==
    /\ RingInv
    /\ FilledByHolder
    /\ CopiedFromRing

-----------------------------------------------------------------------------
(* Sequences                                                               *)

(* A sequence is its elements.                                             *)
LEMMA ByElements ==
    ASSUME NEW S, NEW s \in Seq(S)
    PROVE  s = [i \in 1..Len(s) |-> s[i]]
OBVIOUS

(* An element put in front of a sequence moves the others up by one.       *)
LEMMA PutInFront ==
    ASSUME NEW S, NEW x \in S, NEW m \in Nat, NEW f \in [1..m -> S]
    PROVE  /\ <<x>> \o f = [i \in 1..m + 1 |-> IF i = 1 THEN x ELSE f[i - 1]]
           /\ Len(<<x>> \o f) = m + 1
<1>1. f \in Seq(S) /\ Len(f) = m
  OBVIOUS
<1>2. <<x>> \in Seq(S) /\ Len(<<x>>) = 1 /\ <<x>>[1] = x
  OBVIOUS
<1>3. /\ <<x>> \o f \in Seq(S)
      /\ Len(<<x>> \o f) = m + 1
      /\ \A i \in 1..m + 1 : (<<x>> \o f)[i] = IF i = 1 THEN x ELSE f[i - 1]
  BY <1>1, <1>2
<1>4. <<x>> \o f = [i \in 1..Len(<<x>> \o f) |-> (<<x>> \o f)[i]]
  BY <1>3, ByElements, Zenon
<1>5. QED
  BY <1>3, <1>4

(* An element appended to a sequence leaves the others in place.           *)
LEMMA AppendAtEnd ==
    ASSUME NEW S, NEW x \in S, NEW m \in Nat, NEW f \in [1..m -> S]
    PROVE  Append(f, x) = [i \in 1..m + 1 |-> IF i = m + 1 THEN x ELSE f[i]]
<1>1. f \in Seq(S) /\ Len(f) = m
  OBVIOUS
<1>2. /\ Append(f, x) \in Seq(S)
      /\ Len(Append(f, x)) = m + 1
      /\ \A i \in 1..m + 1 : Append(f, x)[i] = IF i = m + 1 THEN x ELSE f[i]
  BY <1>1
<1>3. Append(f, x) = [i \in 1..Len(Append(f, x)) |-> Append(f, x)[i]]
  BY <1>2, ByElements, Zenon
<1>4. QED
  BY <1>2, <1>3

(* The first n elements of a sequence.                                     *)
LEMMA KeepFirst ==
    ASSUME NEW S, NEW m \in Nat, NEW n \in 0..m, NEW f \in [1..m -> S]
    PROVE  SubSeq(f, 1, n) = [i \in 1..n |-> f[i]]
<1>1. f \in Seq(S) /\ Len(f) = m
  OBVIOUS
<1>2. QED
  BY <1>1

-----------------------------------------------------------------------------
(* The history of a ring                                                   *)

(* The newest entries, as many as the ring retains, are slots of it.       *)
LEMMA OlderTypes ==
    ASSUME TypeOK, NEW n \in 0..capacity
    PROVE  Older(n) \in [1..n -> Slots]
<1>1. ASSUME NEW i \in 1..n
      PROVE  events[SlotOf(i - 1)] \in Slots
  <2>1. i - 1 \in 0..capacity - 1
    BY Types DEF Indices
  <2>2. QED
    BY <2>1, HeadIsOldest, Types DEF TypeOK
<1>2. QED
  BY <1>1 DEF Older

(* How many entries stay behind the one that is being filled in.           *)
Staying == IF count < capacity THEN count ELSE capacity - 1

(* While an entry is being filled in, it stands before those that stay.    *)
LEMMA RecentWhileFilling ==
    ASSUME TypeOK, LockHeld, NEW w \in Writers, pc[w] \in {"clear", "fill", "advance"}
    PROVE  /\ Filling
           /\ Staying \in 0..capacity - 1
           /\ Recent = [i \in 1..Staying + 1 |-> IF i = 1 THEN Entry(w)
                                                ELSE events[SlotOf(i - 2)]]
<1>1. Filling /\ exclusive = w
  BY OneInside DEF Filling, Inside
<1>2. Staying \in 0..capacity - 1 /\ Staying \in 0..capacity /\ Staying \in Nat
  BY Types DEF Indices, Staying
<1>3. Entry(w) \in Slots
  BY DEF Entry, Slots, TypeOK
<1>4. Older(Staying) \in [1..Staying -> Slots]
  BY <1>2, OlderTypes
<1>5. Recent = <<Entry(w)>> \o Older(Staying)
  BY <1>1 DEF Recent, Staying
<1>6. Recent = [i \in 1..Staying + 1 |-> IF i = 1 THEN Entry(w) ELSE Older(Staying)[i - 1]]
  BY <1>2, <1>3, <1>4, <1>5, PutInFront
<1>7. ASSUME NEW i \in 1..Staying + 1, i # 1
      PROVE  Older(Staying)[i - 1] = events[SlotOf(i - 2)]
  <2>1. i - 1 \in 1..Staying /\ (i - 1) - 1 = i - 2
    BY <1>2, <1>7
  <2>2. QED
    BY <2>1 DEF Older
<1>8. QED
  BY <1>1, <1>2, <1>6, <1>7

(* Nothing else moves the history.                                         *)
LEMMA RecentUnmoved ==
    ASSUME UNCHANGED <<shared, exclusive>>, Filling' <=> Filling,
           Filling => arg'[exclusive] = arg[exclusive]
    PROVE  Recent' = Recent
  BY DEF Recent, Older, SlotOf, Entry, shared

-----------------------------------------------------------------------------
(* The steps of a recording                                                *)

(* Numbering is the recording: the event comes to stand in front, and the  *)
(* oldest of a full ring is gone (shmem.c:160-161).                        *)
LEMMA NumberIsRecord ==
    ASSUME RingInv, NEW w \in Writers, NumberEvent(w)
    PROVE  History!Record(arg[w])
<1> DEFINE entry == [event_id |-> next_event_id + 1, decision_id |-> next_event_id + 1,
                     body |-> arg[w]]
<1>1. /\ TypeOK /\ Indices /\ Tables /\ LockHeld /\ EventInHand
      /\ next_decision_id = next_event_id /\ pc[w] = "number" /\ exclusive = w
      /\ arg[w] \in RiskEvents /\ arg[w].decision # "ALLOW" /\ entry \in Slots
  BY Types, OneInside DEF RingInv, NumberEvent, Goto, Inside, EventInHand, Indices, Slots
<1>2. ~Filling /\ Filling'
  BY <1>1, OneInside DEF NumberEvent, Goto, Filling, Inside, Tables, Backends
<1>3. Recent = Older(count) /\ Older(count) \in [1..count -> Slots]
  BY <1>1, <1>2, OlderTypes DEF Recent, Indices
<1>4. Staying \in 0..capacity /\ Older(Staying) \in [1..Staying -> Slots]
  BY <1>1, OlderTypes DEF Indices, Staying
<1>5. Recent' = <<entry>> \o Older(Staying)
  <2>1. Entry(w)' = entry /\ exclusive' = w
    BY <1>1 DEF NumberEvent, Entry, lock
  <2>2. Older(Staying)' = Older(Staying) /\ Staying' = Staying
    BY DEF NumberEvent, Older, SlotOf, Staying
  <2>3. QED
    BY <1>2, <2>1, <2>2 DEF Recent, Staying, NumberEvent
<1>6. Recent' = History!AtMost(capacity, <<entry>> \o Recent)
  <2>1. /\ Len(<<entry>> \o Older(count)) = count + 1
        /\ <<entry>> \o Older(count) =
              [i \in 1..count + 1 |-> IF i = 1 THEN entry ELSE Older(count)[i - 1]]
    BY <1>1, <1>3, PutInFront DEF Indices
  <2>2. CASE count < capacity
    BY <1>1, <1>3, <1>5, <2>1, <2>2 DEF History!AtMost, Staying, Indices
  <2>3. CASE count = capacity
    <3> DEFINE row == [i \in 1..count + 1 |-> IF i = 1 THEN entry ELSE Older(count)[i - 1]]
    <3>1. Staying = capacity - 1 /\ Staying \in Nat /\ Staying + 1 = capacity
      BY <1>1, <2>3 DEF Staying, Indices
    <3>2. Recent' = [i \in 1..capacity |-> IF i = 1 THEN entry ELSE Older(Staying)[i - 1]]
      BY <1>1, <1>4, <1>5, <3>1, PutInFront
    <3>3. \A i \in 1..capacity : i # 1 => Older(Staying)[i - 1] = Older(count)[i - 1]
      BY <1>1, <2>3, <3>1 DEF Older, Indices
    <3>4. row \in [1..count + 1 -> Slots]
      BY <1>1, <1>3 DEF Indices
    <3>5. SubSeq(row, 1, capacity) = [i \in 1..capacity |-> row[i]]
      BY <1>1, <2>3, <3>4, KeepFirst DEF Indices
    <3>6. \A i \in 1..capacity : row[i] = IF i = 1 THEN entry ELSE Older(count)[i - 1]
      BY <1>1, <2>3 DEF Indices
    <3>7. SubSeq(row, 1, capacity) = Recent'
      BY <3>2, <3>3, <3>5, <3>6
    <3>8. Len(<<entry>> \o Recent) > capacity /\ <<entry>> \o Recent = row
      BY <1>1, <1>3, <2>1, <2>3 DEF Indices
    <3>9. QED
      BY <3>7, <3>8 DEF History!AtMost
  <2>4. QED
    BY <1>1, <2>2, <2>3 DEF Indices
<1>7. History!Numbered(arg[w], next_event_id + 1) = entry
  BY DEF History!Numbered
<1>8. UNCHANGED <<capacity, views>> /\ next_event_id' = next_event_id + 1
  BY DEF NumberEvent, reading
<1>9. QED
  BY <1>1, <1>6, <1>7, <1>8 DEF History!Record, History!Stored

(* Clearing and filling the slot at the head disturbs no entry that stays. *)
LEMMA FillingIsHidden ==
    ASSUME RingInv, NEW w \in Writers, ClearSlot(w) \/ FillSlot(w)
    PROVE  Recent' = Recent
<1>1. /\ TypeOK /\ Indices /\ Tables /\ LockHeld /\ exclusive = w
      /\ pc[w] \in {"clear", "fill"} /\ pc'[w] \in {"fill", "advance"}
  BY Types, OneInside DEF RingInv, ClearSlot, FillSlot, Goto, Inside, Tables, Backends
<1>2. Filling /\ Filling'
  BY <1>1 DEF Filling
<1>3. Entry(w)' = Entry(w) /\ exclusive' = w
  BY <1>1 DEF ClearSlot, FillSlot, Entry, lock
<1>4. Staying' = Staying
  BY DEF ClearSlot, FillSlot, Staying
<1>5. ASSUME NEW i \in 1..Staying
      PROVE  events'[SlotOf(i - 1)'] = events[SlotOf(i - 1)]
  <2>1. i - 1 \in 0..capacity - 1 /\ i - 1 # capacity - 1
    BY <1>1 DEF Staying, Indices
  <2>2. SlotOf(i - 1) # head /\ SlotOf(i - 1) \in 0..capacity - 1
    BY <1>1, <2>1, HeadIsOldest
  <2>3. SlotOf(i - 1)' = SlotOf(i - 1)
    BY DEF ClearSlot, FillSlot, SlotOf
  <2>4. QED
    BY <1>1, <2>2, <2>3 DEF ClearSlot, FillSlot, TypeOK
<1>6. Older(Staying)' = Older(Staying)
  BY <1>4, <1>5 DEF Older
<1>7. QED
  BY <1>1, <1>2, <1>3, <1>4, <1>6 DEF Recent, Staying

(* Advancing the head makes a slot of the entry that stood in front.       *)
LEMMA AdvanceIsHidden ==
    ASSUME RefInv, NEW w \in Writers, AdvanceHead(w)
    PROVE  Recent' = Recent
<1>1. /\ TypeOK /\ Indices /\ Tables /\ LockHeld /\ pc[w] = "advance"
      /\ events[head] = Entry(w)
  BY Types DEF RefInv, RingInv, FilledByHolder, AdvanceHead, Goto
<1>2. ~Filling'
  BY <1>1, OneInside DEF AdvanceHead, Goto, Filling, Inside, Tables, Backends
<1>3. /\ Staying \in 0..capacity - 1
      /\ Recent = [i \in 1..Staying + 1 |-> IF i = 1 THEN Entry(w)
                                           ELSE events[SlotOf(i - 2)]]
  BY <1>1, RecentWhileFilling
<1>4. count' = Staying + 1
  BY <1>1 DEF AdvanceHead, Staying, Indices
<1>5. Recent' = [i \in 1..Staying + 1 |-> events[SlotOf(i - 1)']]
  BY <1>2, <1>4 DEF Recent, Older, AdvanceHead
<1>6. ASSUME NEW i \in 1..Staying + 1
      PROVE  events[SlotOf(i - 1)'] = IF i = 1 THEN Entry(w) ELSE events[SlotOf(i - 2)]
  <2>1. i - 1 \in 0..capacity - 1 /\ (i - 1) - 1 = i - 2 /\ (i - 1 = 0 <=> i = 1)
    BY <1>1, <1>3 DEF Indices
  <2>2. SlotOf(i - 1)' = IF i - 1 = 0 THEN head ELSE SlotOf((i - 1) - 1)
    BY <1>1, <2>1, HeadMoves DEF AdvanceHead
  <2>3. QED
    BY <1>1, <2>1, <2>2
<1>7. QED
  BY <1>3, <1>5, <1>6

(* The other steps do not touch the ring.                                  *)
LEMMA WriterRefines ==
    ASSUME RefInv, NEW w \in Writers, WriterNext(w)
    PROVE  History!Next \/ UNCHANGED History!history
<1>1. /\ Tables /\ LockHeld /\ RingInv /\ EventInHand
  BY Types DEF RefInv, RingInv
<1>2. CASE NumberEvent(w)
  <2>1. arg[w] \in RiskEvents
    BY <1>1, <1>2 DEF EventInHand, NumberEvent, Goto
  <2>2. QED
    BY <1>1, <1>2, <2>1, NumberIsRecord DEF History!Next
<1>3. CASE ClearSlot(w) \/ FillSlot(w)
  BY <1>1, <1>3, FillingIsHidden DEF ClearSlot, FillSlot, reading, History!history
<1>4. CASE AdvanceHead(w)
  BY <1>4, AdvanceIsHidden DEF AdvanceHead, reading, History!history
<1>5. CASE (\E e \in RiskEvents : Call(w, e)) \/ ReturnEarly(w)
  <2>1. (Filling' <=> Filling) /\ (Filling => exclusive # w)
    BY <1>1, <1>5, OneInside
       DEF Call, ReturnEarly, Goto, Filling, Inside, Tables, Backends, LockHeld
  <2>2. UNCHANGED <<shared, exclusive, views>>
    BY <1>5 DEF Call, ReturnEarly, lock, reading
  <2>3. Filling => arg'[exclusive] = arg[exclusive]
    BY <1>1, <1>5, <2>1 DEF Call, ReturnEarly, Tables, Filling, LockHeld, Inside
  <2>4. QED
    BY <2>1, <2>2, <2>3, RecentUnmoved DEF shared, History!history
<1>6. CASE AcquireExclusive(w) \/ ReleaseExclusive(w)
  <2>1. ~Filling /\ ~Filling'
    BY <1>1, <1>6, OneInside, NobodyInside
       DEF AcquireExclusive, ReleaseExclusive, Goto, Filling, Inside, Tables, Backends
  <2>2. UNCHANGED <<shared, views>>
    BY <1>6 DEF AcquireExclusive, ReleaseExclusive, reading
  <2>3. QED
    BY <2>1, <2>2 DEF Recent, Older, SlotOf, shared, History!history
<1>7. QED
  BY <1>2, <1>3, <1>4, <1>5, <1>6 DEF WriterNext

-----------------------------------------------------------------------------
(* The steps of a snapshot                                                 *)

(* A reader's steps leave the ring and its writers alone.                  *)
LEMMA ReaderKeepsHistory ==
    ASSUME RefInv, NEW r \in Readers, ReaderNext(r)
    PROVE  /\ UNCHANGED <<shared, exclusive, arg>>
           /\ \A w \in Writers : pc'[w] = pc[w]
           /\ Recent' = Recent
<1>1. UNCHANGED <<shared, exclusive, arg>>
  BY DEF ReaderNext, CallSnapshot, SnapshotDetached, AcquireShared, CopySlot, ReleaseShared,
         lock
<1>2. \A w \in Writers : pc'[w] = pc[w]
  BY Types, WritersAssumption
     DEF RefInv, RingInv, ReaderNext, CallSnapshot, SnapshotDetached, AcquireShared,
         CopySlot, ReleaseShared, Goto, Tables, Backends
<1>3. Filling' <=> Filling
  BY <1>2 DEF Filling
<1>4. QED
  BY <1>1, <1>2, <1>3, RecentUnmoved

(* A snapshot is handed over when the lock is released: what was copied    *)
(* is what the ring still holds (shmem.c:208-221).                         *)
LEMMA ReaderRefines ==
    ASSUME RefInv, NEW r \in Readers, ReaderNext(r)
    PROVE  History!Next \/ UNCHANGED History!history
<1>1. /\ Recent' = Recent /\ UNCHANGED <<capacity, next_event_id>>
  BY ReaderKeepsHistory DEF shared
<1>2. CASE CallSnapshot(r) \/ AcquireShared(r) \/ CopySlot(r)
  BY <1>1, <1>2 DEF CallSnapshot, AcquireShared, CopySlot, reading, History!history
<1>3. CASE SnapshotDetached(r)
  BY <1>1, <1>3 DEF SnapshotDetached, History!Next, History!Snapshot
<1>4. CASE ReleaseShared(r)
  <2>1. r \in sharers /\ pc[r] = "copy" /\ exclusive = NoBackend
    BY <1>4, WritersAssumption
       DEF RefInv, RingInv, TypeOK, LockHeld, ReleaseShared, Goto
  <2>2. Len(copied[r]) = count /\ r \notin Detached
    BY <1>4, <2>1, Types
       DEF RefInv, RingInv, CopyInBounds, ReleaseShared, Indices, Tables
  <2>3. copied[r] = Recent
    BY <2>1, <2>2, NobodyInside DEF RefInv, RingInv, CopiedFromRing, Recent
  <2>4. QED
    BY <1>1, <1>4, <2>2, <2>3 DEF ReleaseShared, History!Next, History!Snapshot
<1>5. QED
  BY <1>2, <1>3, <1>4 DEF ReaderNext

-----------------------------------------------------------------------------
(* The stronger invariant is inductive                                     *)

(* In a started server nothing is being filled in or copied.               *)
LEMMA InitRefInv == Init => RefInv
  BY InitRingInv DEF RefInv, Init, FilledByHolder, CopiedFromRing, Backends

(* Only the holder of the lock changes the ring, and it fills the slot at  *)
(* the head with its own entry; no reader copies meanwhile.                *)
LEMMA WriterRefInv ==
    ASSUME RefInv, NEW w \in Writers, WriterNext(w)
    PROVE  FilledByHolder' /\ CopiedFromRing'
<1>1. /\ TypeOK /\ Indices /\ Tables /\ LockHeld /\ FilledByHolder /\ CopiedFromRing
      /\ \A r \in Readers : r # w
  BY Types, WritersAssumption DEF RefInv, RingInv
<1>2. /\ UNCHANGED copied
      /\ \A r \in Readers : pc'[r] = pc[r]
      /\ \A v \in Writers \ {w} : pc'[v] = pc[v] /\ arg'[v] = arg[v]
  BY <1>1 DEF WriterNext, Call, ReturnEarly, AcquireExclusive, NumberEvent, ClearSlot,
              FillSlot, AdvanceHead, ReleaseExclusive, Goto, reading, Tables, Backends
<1>3. CASE (\E e \in RiskEvents : Call(w, e)) \/ ReturnEarly(w)
              \/ AcquireExclusive(w) \/ ReleaseExclusive(w)
  <2>1. pc'[w] # "advance" /\ UNCHANGED shared
    BY <1>1, <1>3
       DEF Call, ReturnEarly, AcquireExclusive, ReleaseExclusive, Goto, Tables, Backends
  <2>2. FilledByHolder'
    BY <1>1, <1>2, <2>1 DEF FilledByHolder, Entry, shared
  <2>3. CopiedFromRing'
    BY <1>1, <1>2, <2>1 DEF CopiedFromRing, Older, SlotOf, shared
  <2>4. QED
    BY <2>2, <2>3
<1>4. CASE NumberEvent(w) \/ ClearSlot(w) \/ FillSlot(w) \/ AdvanceHead(w)
  <2>1. /\ \A v \in Writers \ {w} : pc'[v] # "advance"
        /\ \A r \in Readers : pc'[r] # "copy"
    BY <1>1, <1>2, <1>4, OneInside
       DEF NumberEvent, ClearSlot, FillSlot, AdvanceHead, Goto, Inside
  <2>2. pc'[w] = "advance" => events'[head'] = Entry(w)'
    BY <1>1, <1>4
       DEF NumberEvent, ClearSlot, FillSlot, AdvanceHead, Goto, Entry, TypeOK, Backends
  <2>3. QED
    BY <2>1, <2>2 DEF FilledByHolder, CopiedFromRing
<1>5. QED
  BY <1>3, <1>4 DEF WriterNext

(* A copy goes down the ring one slot after the other (shmem.c:211-217).   *)
LEMMA ReaderRefInv ==
    ASSUME RefInv, NEW r \in Readers, ReaderNext(r)
    PROVE  FilledByHolder' /\ CopiedFromRing'
<1>1. /\ TypeOK /\ Indices /\ Tables /\ LockHeld /\ FilledByHolder /\ CopiedFromRing
      /\ CopyInBounds
  BY Types DEF RefInv, RingInv
<1>2. UNCHANGED <<shared, arg>> /\ \A w \in Writers : pc'[w] = pc[w]
  BY ReaderKeepsHistory
<1>3. FilledByHolder'
  BY <1>1, <1>2 DEF FilledByHolder, Entry, shared
<1>4. ASSUME \A q \in Readers : pc'[q] = "copy" => copied'[q] = Older(Len(copied'[q]))
      PROVE  CopiedFromRing'
  BY <1>2, <1>4 DEF CopiedFromRing, Older, SlotOf, shared
<1>5. ASSUME NEW q \in Readers, q # r \/ CallSnapshot(r) \/ SnapshotDetached(r),
             pc'[q] = "copy"
      PROVE  copied'[q] = Older(Len(copied'[q]))
  <2>1. pc[q] = "copy" /\ copied'[q] = copied[q]
    BY <1>1, <1>5
       DEF ReaderNext, CallSnapshot, SnapshotDetached, AcquireShared, CopySlot,
           ReleaseShared, Goto, reading, Tables, Backends
  <2>2. QED
    BY <1>1, <2>1 DEF CopiedFromRing
<1>6. CASE AcquireShared(r)
  <2>1. copied'[r] = <<>> /\ Older(Len(copied'[r])) = <<>>
    BY <1>1, <1>6 DEF AcquireShared, Tables, Older
  <2>2. QED
    BY <1>3, <1>4, <1>5, <2>1
<1>7. CASE CopySlot(r)
  <2> DEFINE n == Len(copied[r])
  <2>1. n \in Nat /\ n < count /\ copied[r] = Older(n)
    BY <1>1, <1>7 DEF CopySlot, CopyInBounds, CopiedFromRing, Tables
  <2>2. n \in 0..capacity /\ n \in 0..capacity - 1
    BY <1>1, <2>1 DEF Indices
  <2>3. Older(n) \in [1..n -> Slots] /\ events[SlotOf(n)] \in Slots
    BY <1>1, <2>2, OlderTypes, HeadIsOldest DEF TypeOK
  <2>4. copied'[r] = Append(Older(n), events[SlotOf(n)])
    BY <1>1, <1>7, <2>1 DEF CopySlot, Tables
  <2> HIDE DEF n
  <2>5. copied'[r] = [i \in 1..n + 1 |-> IF i = n + 1 THEN events[SlotOf(n)] ELSE Older(n)[i]]
    BY <2>1, <2>3, <2>4, AppendAtEnd
  <2>6. ASSUME NEW i \in 1..n + 1
        PROVE  (IF i = n + 1 THEN events[SlotOf(n)] ELSE Older(n)[i]) = events[SlotOf(i - 1)]
    BY <2>1 DEF Older
  <2>7. copied'[r] = Older(n + 1)
    BY <2>5, <2>6 DEF Older
  <2>8. Len(copied'[r]) = n + 1
    BY <2>1, <2>5
  <2>9. QED
    BY <1>3, <1>4, <1>5, <2>7, <2>8
<1>8. CASE ReleaseShared(r)
  <2>1. pc'[r] # "copy"
    BY <1>1, <1>8 DEF ReleaseShared, Goto, Tables, Backends
  <2>2. QED
    BY <1>3, <1>4, <1>5, <2>1
<1>9. CASE CallSnapshot(r) \/ SnapshotDetached(r)
  BY <1>3, <1>4, <1>5, <1>9
<1>10. QED
  BY <1>6, <1>7, <1>8, <1>9 DEF ReaderNext

(* Every step keeps the stronger invariant.                                *)
LEMMA NextRefInv == RefInv /\ [Next]_vars => RefInv'
<1> SUFFICES ASSUME RefInv, [Next]_vars
             PROVE  RefInv'
  OBVIOUS
<1>1. RingInv'
  BY NextRingInv DEF RefInv
<1>2. CASE Restart
  <2>1. FilledByHolder' /\ CopiedFromRing'
    BY <1>2, WritersAssumption DEF Restart, FilledByHolder, CopiedFromRing, Backends
  <2>2. QED
    BY <1>1, <2>1 DEF RefInv
<1>3. CASE UNCHANGED vars
  <2>1. FilledByHolder'
    BY <1>3 DEF RefInv, FilledByHolder, Entry, vars, shared
  <2>2. CopiedFromRing'
    BY <1>3 DEF RefInv, CopiedFromRing, Older, SlotOf, vars, shared, reading
  <2>3. QED
    BY <1>1, <2>1, <2>2 DEF RefInv
<1>4. QED
  BY <1>1, <1>2, <1>3, WriterRefInv, ReaderRefInv DEF RefInv, Next

-----------------------------------------------------------------------------
(* The refinement                                                          *)

(* A started server has an empty history.                                  *)
LEMMA InitRefines == Init => History!Init
<1> SUFFICES ASSUME Init
             PROVE  History!Init
  OBVIOUS
<1>1. ~Filling /\ count = 0
  BY DEF Init, Filling, Backends
<1>2. Recent = <<>>
  BY <1>1 DEF Recent, Older
<1>3. QED
  BY <1>2 DEF Init, History!Init

(* A restart empties the history and may change its size (shmem.c:62-113). *)
LEMMA RestartRefines == Restart => History!Restart
<1> SUFFICES ASSUME Restart
             PROVE  History!Restart
  OBVIOUS
<1>1. ~Filling' /\ count' = 0
  BY DEF Restart, Filling, Backends
<1>2. Recent' = <<>>
  BY <1>1 DEF Recent, Older
<1>3. QED
  BY <1>2 DEF Restart, History!Restart

(* Every step of the ring is a step of the history or none.                *)
LEMMA NextRefines == RefInv /\ [Next]_vars => [History!Next]_(History!history)
<1> SUFFICES ASSUME RefInv, [Next]_vars
             PROVE  History!Next \/ UNCHANGED History!history
  OBVIOUS
<1>1. CASE UNCHANGED vars
  <2>1. Filling' <=> Filling
    BY <1>1 DEF Filling, vars
  <2>2. Recent' = Recent
    BY <1>1, <2>1, RecentUnmoved DEF vars, lock, shared
  <2>3. QED
    BY <1>1, <2>2 DEF vars, shared, reading, History!history
<1>2. CASE Restart
  BY <1>2, RestartRefines DEF History!Next
<1>3. QED
  BY <1>1, <1>2, WriterRefines, ReaderRefines DEF Next

(* Slots are cleared, filled and copied one at a time and the head wraps,  *)
(* yet to every backend a recording and a snapshot are single steps of one *)
(* history, also across restarts (shmem.c:62-221).                         *)
THEOREM RingRefinesHistory == Spec => ImplementsHistory
<1>1. Spec => []RefInv
  BY InitRefInv, NextRefInv, PTL DEF Spec
<1>2. QED
  BY <1>1, InitRefines, NextRefines, PTL DEF Spec, ImplementsHistory, History!Spec

=============================================================================
