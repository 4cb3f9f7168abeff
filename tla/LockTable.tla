----------------------------- MODULE LockTable -----------------------------
(***************************************************************************)
(* External: PostgreSQL's heavyweight lock manager, as far as the code     *)
(* under src/ sees it through GetLockStatusData, DoLockModesConflict and   *)
(* the locks it takes itself.  A request is granted unless it conflicts    *)
(* with a lock of another session or with a request ahead of it; locks are *)
(* held to the end of the transaction; one that ends wakes the queues.     *)
(***************************************************************************)
EXTENDS Integers, Sequences, SequencesExt, FiniteSets

CONSTANTS
    Backends,      \* sessions that lock
    Tags,          \* lockable objects
    LockModes      \* lock modes in use

ModeConflicts ==
    [AccessShareLock |-> {"AccessExclusiveLock"},
     RowExclusiveLock |-> {"ShareLock", "AccessExclusiveLock"},
     ShareLock |-> {"RowExclusiveLock", "AccessExclusiveLock"},
     AccessExclusiveLock |-> {"AccessShareLock", "RowExclusiveLock", "ShareLock",
                              "AccessExclusiveLock"}]

ASSUME BackendsAssumption == IsFiniteSet(Backends)
ASSUME LockModesAssumption == LockModes \subseteq DOMAIN ModeConflicts

VARIABLES
    held,          \* the modes each session holds of each object
    queue          \* the requests that wait for each object, in order

locks == <<held, queue>>

LockInit ==
    /\ held = [t \in Tags |-> [b \in Backends |-> {}]]
    /\ queue = [t \in Tags |-> <<>>]

DoLockModesConflict(m, n) == n \in ModeConflicts[m]

WaitsFor(b, t) == \E i \in DOMAIN queue[t] : queue[t][i].who = b
Waiting(b) == \E t \in Tags : WaitsFor(b, t)

(* A holder other than the requester stands in the way of the request.     *)
Opposed(holds, req) ==
    \E b \in DOMAIN holds \ {req.who} :
        \E m \in holds[b] : DoLockModesConflict(m, req.mode)

Preceded(reqs, req) ==
    \E i \in DOMAIN reqs : DoLockModesConflict(reqs[i].mode, req.mode)

(* ProcSleep: a session joins the queue before the first request its own   *)
(* locks stand in the way of.                                              *)
Place(t, req) ==
    LET ahead == {i \in DOMAIN queue[t] :
                    \E m \in held[t][req.who] : DoLockModesConflict(m, queue[t][i].mode)}
    IN  IF ahead = {} THEN Len(queue[t]) + 1 ELSE Min(ahead)

Lock(b, t, m) ==
    /\ ~Waiting(b)
    /\ m \notin held[t][b]
    /\ LET req == [who |-> b, mode |-> m]
           place == Place(t, req)
       IN  IF Opposed(held[t], req) \/ Preceded(SubSeq(queue[t], 1, place - 1), req)
           THEN queue' = [queue EXCEPT ![t] = InsertAt(@, place, req)] /\ UNCHANGED held
           ELSE held' = [held EXCEPT ![t][b] = @ \cup {m}] /\ UNCHANGED queue

(* ProcLockWakeup: down the queue, whoever is opposed by no holder and no  *)
(* request that stays ahead.                                               *)
WakeOne(table, req) ==
    IF Opposed(table.holds, req) \/ Preceded(table.left, req)
    THEN [table EXCEPT !.left = Append(@, req)]
    ELSE [table EXCEPT !.holds[req.who] = @ \cup {req.mode}]

WakeUp(holds, reqs) == FoldLeft(WakeOne, [holds |-> holds, left |-> <<>>], reqs)

(* RemoveFromWaitQueue: the request of a session, if it has one.           *)
Leave(reqs, b) ==
    LET own == {i \in DOMAIN reqs : reqs[i].who = b}
    IN  IF own = {} THEN reqs ELSE RemoveAt(reqs, Min(own))

(* The end of a transaction, by its own doing or by an error, a cancelled  *)
(* wait included.                                                          *)
Without(b, t) == WakeUp([held[t] EXCEPT ![b] = {}], Leave(queue[t], b))

Release(b) ==
    /\ Waiting(b) \/ \E t \in Tags : held[t][b] # {}
    /\ held' = [t \in Tags |-> Without(b, t).holds]
    /\ queue' = [t \in Tags |-> Without(b, t).left]

(* UnlockRelationOid: a lock given back before the transaction ends, which  *)
(* PostgreSQL does when the name it locked turns out to mean another table.*)
Unlock(b, t, m) ==
    LET table == WakeUp([held[t] EXCEPT ![b] = @ \ {m}], queue[t])
    IN  /\ held' = [held EXCEPT ![t] = table.holds]
        /\ queue' = [queue EXCEPT ![t] = table.left]

LockNext == \E b \in Backends : (\E t \in Tags, m \in LockModes : Lock(b, t, m)) \/ Release(b)

=============================================================================
