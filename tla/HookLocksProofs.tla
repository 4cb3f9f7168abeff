-------------------------- MODULE HookLocksProofs --------------------------
(***************************************************************************)
(* Proofs about HookLocks, for any number of sessions, tables and          *)
(* settings: that the lock of the classifier keeps the table it judged in  *)
(* place until the statement is done, and that only statements that        *)
(* upgrade that lock deadlock.                                             *)
(***************************************************************************)
EXTENDS HookLocks, BlockerGraphProofs

Types ==
    /\ table \in 0..MaxTables /\ made \in 0..MaxTables
    /\ guard \in Guards
    /\ at \in [Backends -> Places]
    /\ op \in [Backends -> Ops \cup {"none"}]
    /\ target \in [Backends -> 0..MaxTables]
    /\ judged \in [Backends -> 0..MaxTables]

Past(b) == at[b] \in {"run", "run_lock", "done"}

(* What a session holds besides the lock it asked for last: the lock of    *)
(* the classifier.                                                         *)
Kept(b, t) == IF judged[b] = t THEN {"AccessShareLock"} ELSE {}

Wanted(b) == IF at[b] = "analyze_lock" THEN "AccessShareLock" ELSE LockOf[op[b]]

Asks(b, t, m) == In(queue[t], [who |-> b, mode |-> m])

Quiet(b) == \A t \in Tags : \A m : ~Asks(b, t, m)

Unasked(b) == Quiet(b) /\ \A t \in Tags : held[t][b] = Kept(b, t)

Waits(b) ==
    \A t \in Tags :
        /\ held[t][b] = Kept(b, t)
        /\ \A m : Asks(b, t, m) <=> t = target[b] /\ m = Wanted(b)

Has(b) ==
    /\ Quiet(b)
    /\ \A t \in Tags :
          held[t][b] = Kept(b, t) \cup (IF t = target[b] THEN {Wanted(b)} ELSE {})

(* The locks of a session are those of the place it is at.                 *)
LocksOf(b) ==
    /\ at[b] \in {"idle", "analyze", "run"} => Unasked(b)
    /\ at[b] \in {"analyze_lock", "run_lock"} => Waits(b) \/ Has(b)
    /\ at[b] = "done" => Has(b)

StateOf(b) ==
    /\ at[b] \in {"analyze_lock", "run_lock", "done"} => target[b] \in Tags
    /\ at[b] \in {"analyze", "analyze_lock"} => guard[b] # "off"
    /\ at[b] = "done" => target[b] = table
    /\ at[b] # "idle" => op[b] \in Ops
    /\ judged[b] # 0 => Past(b) /\ judged[b] = table /\ guard[b] # "off"
    /\ Past(b) /\ guard[b] = "enforce" /\ op[b] \in Destructive =>
          op[b] = "drop_if_exists" /\ judged[b] = 0

HookInv ==
    /\ TableInv
    /\ Types
    /\ \A b \in Backends : LocksOf(b) /\ StateOf(b)

-----------------------------------------------------------------------------
(* Constants                                                               *)

LEMMA TablesAreNumbered ==
    /\ MaxTables \in Nat /\ 1 \in 0..MaxTables /\ 1 \in Tags
    /\ 0 \notin Tags
    /\ \A t \in 0..MaxTables : t # 0 <=> t \in Tags
    /\ \A t \in Tags : t \in 0..MaxTables
BY MaxTablesAssumption

(* Every statement needs one of four locks, none of them that of the       *)
(* classifier; the exclusive one conflicts with all.                       *)
LEMMA LocksOfStatements ==
    /\ "AccessShareLock" \in LockModes
    /\ \A o \in Ops :
          /\ LockOf[o] \in LockModes /\ LockOf[o] # "AccessShareLock"
          /\ DoLockModesConflict("AccessExclusiveLock", LockOf[o])
    /\ DoLockModesConflict("AccessExclusiveLock", "AccessShareLock")
    /\ \A m \in LockModes :
          DoLockModesConflict("AccessShareLock", m) <=> m = "AccessExclusiveLock"
<1>1. LockModes = {"AccessShareLock", "RowExclusiveLock", "ShareLock", "AccessExclusiveLock"}
  BY AllModesAssumption DEF ModeConflicts
<1>2. Ops \subseteq {"insert", "create_index", "truncate", "drop", "drop_if_exists"}
  BY OpsAssumption DEF LockOf
<1>3. \A o \in Ops : LockOf[o] \in {"RowExclusiveLock", "ShareLock", "AccessExclusiveLock"}
  BY <1>2 DEF LockOf
<1>4. QED
  BY <1>1, <1>3 DEF DoLockModesConflict, ModeConflicts

-----------------------------------------------------------------------------
(* Sessions that do not step                                               *)

Still(c) ==
    /\ at'[c] = at[c] /\ op'[c] = op[c]
    /\ target'[c] = target[c] /\ judged'[c] = judged[c]
    /\ guard' = guard

LEMMA UnmovedIsMoved ==
    ASSUME NEW few, NEW before, NEW more, NEW after, NEW c,
           more[c] = few[c],
           \A m : In(after, [who |-> c, mode |-> m]) <=> In(before, [who |-> c, mode |-> m])
    PROVE  Moved(few, before, more, after, c)
BY DEF Moved

(* Whatever a wake-up does for a session, its place allows.                *)
LEMMA StillLocks ==
    ASSUME NEW c \in Backends, LocksOf(c), StateOf(c), at[c] \in Places, Still(c),
           \A t \in Tags : Moved(held[t], queue[t], held'[t], queue'[t], c)
    PROVE  LocksOf(c)'
<1>1. at'[c] = at[c] /\ target'[c] = target[c]
  BY DEF Still
<1>2. \A t \in Tags : Kept(c, t)' = Kept(c, t)
  BY DEF Kept, Still
<1>3. Wanted(c)' = Wanted(c)
  BY DEF Wanted, Still
<1>4. \A t \in Tags :
         \/ held'[t][c] = held[t][c] /\ \A m : Asks(c, t, m)' <=> Asks(c, t, m)
         \/ \E m \in LockModes :
               /\ Asks(c, t, m)
               /\ held'[t][c] = held[t][c] \cup {m}
               /\ \A n : ~Asks(c, t, n)'
  BY DEF Moved, Asks, In
<1>5. ASSUME Unasked(c)
      PROVE  Unasked(c)'
  BY <1>2, <1>4, <1>5 DEF Unasked, Quiet
<1>6. ASSUME Has(c)
      PROVE  Has(c)'
  BY <1>1, <1>2, <1>3, <1>4, <1>6 DEF Has, Quiet
<1>7. ASSUME Waits(c), target[c] \in Tags
      PROVE  Waits(c)' \/ Has(c)'
  <2>1. \A t \in Tags : held[t][c] = Kept(c, t)
    BY <1>7 DEF Waits
  <2>2. \A t \in Tags : \A m : Asks(c, t, m) <=> t = target[c] /\ m = Wanted(c)
    BY <1>7 DEF Waits
  <2>3. \A t \in Tags : t # target[c] =>
           held'[t][c] = Kept(c, t) /\ \A m : ~Asks(c, t, m)'
    BY <1>4, <2>1, <2>2
  <2>0. PICK t \in Tags : t = target[c]
    BY <1>7
  <2>4. CASE held'[t][c] = held[t][c] /\ \A m : Asks(c, t, m)' <=> Asks(c, t, m)
    <3>1. \A u \in Tags : held'[u][c] = Kept(c, u)
      BY <2>0, <2>1, <2>3, <2>4
    <3>2. \A u \in Tags : \A m : Asks(c, u, m)' <=> u = target[c] /\ m = Wanted(c)
      BY <2>0, <2>2, <2>3, <2>4
    <3>3. QED
      BY <1>1, <1>2, <1>3, <3>1, <3>2 DEF Waits
  <2>5. CASE \E m \in LockModes :
               /\ Asks(c, t, m)
               /\ held'[t][c] = held[t][c] \cup {m}
               /\ \A n : ~Asks(c, t, n)'
    <3>1. t = target[c] /\ held'[t][c] = Kept(c, t) \cup {Wanted(c)} /\ \A n : ~Asks(c, t, n)'
      BY <1>7, <2>0, <2>1, <2>2, <2>5
    <3>2. \A u \in Tags : held'[u][c] = Kept(c, u) \cup (IF u = target[c] THEN {Wanted(c)} ELSE {})
      BY <2>3, <3>1
    <3>3. \A u \in Tags : \A m : ~Asks(c, u, m)'
      BY <2>3, <3>1
    <3>4. QED
      BY <1>1, <1>2, <1>3, <3>2, <3>3 DEF Has, Quiet
  <2>6. QED
    BY <1>4, <2>0, <2>4, <2>5
<1>8. QED
  BY <1>1, <1>5, <1>6, <1>7 DEF LocksOf, StateOf

LEMMA StillState ==
    ASSUME NEW c \in Backends, StateOf(c), Still(c), table' = table
    PROVE  StateOf(c)'
BY DEF StateOf, Still, Past

(* A step of the locks alone leaves the others at their place.             *)
LEMMA OthersStay ==
    ASSUME HookInv, NEW b,
           \A c \in Backends \ {b} : Still(c),
           \A t \in Tags : \A c \in Backends \ {b} :
              Moved(held[t], queue[t], held'[t], queue'[t], c)
    PROVE  \A c \in Backends \ {b} : LocksOf(c)' /\ (table' = table => StateOf(c)')
<1> TAKE c \in Backends \ {b}
<1>1. LocksOf(c) /\ StateOf(c) /\ at[c] \in Places /\ Still(c)
  BY DEF HookInv, Types
<1>2. LocksOf(c)'
  BY <1>1, StillLocks
<1>3. QED
  BY <1>1, <1>2, StillState

-----------------------------------------------------------------------------
(* Steps of a session                                                      *)

(* What every step of session b comes to: its own locks and place agree    *)
(* again, and what holds of the others still does.                         *)
StepKeeps(b) ==
    /\ TableInv'
    /\ LocksOf(b)' /\ StateOf(b)'
    /\ \A c \in Backends \ {b} : LocksOf(c)' /\ (table' = table => StateOf(c)')

LEMMA EndLocks ==
    ASSUME HookInv, NEW b \in Backends, End(b)
    PROVE  /\ TableInv'
           /\ \A t \in Tags :
                 /\ held'[t][b] = {}
                 /\ \A m : ~In(queue'[t], [who |-> b, mode |-> m])
                 /\ \A c \in Backends \ {b} : Moved(held[t], queue[t], held'[t], queue'[t], c)
<1>1. CASE \E t \in Tags : WaitsFor(b, t) \/ held[t][b] # {}
  <2>1. Release(b) /\ TableInv
    BY <1>1 DEF End, HookInv
  <2>2. QED
    BY <2>1, ReleaseSteps
<1>2. CASE ~\E t \in Tags : WaitsFor(b, t) \/ held[t][b] # {}
  <2>1. held' = held /\ queue' = queue /\ TableInv
    BY <1>2 DEF End, locks, HookInv
  <2>2. TableInv'
    BY <2>1 DEF TableInv
  <2>3. \A t \in Tags : \A m : ~In(queue[t], [who |-> b, mode |-> m])
    BY <1>2 DEF WaitsFor, In
  <2>4. QED
    BY <1>2, <2>1, <2>2, <2>3, UnmovedIsMoved
<1>3. QED
  BY <1>1, <1>2

LEMMA EndStep ==
    ASSUME HookInv, NEW b \in Backends, End(b), guard' = guard
    PROVE  StepKeeps(b)
<1>1. /\ at' = [at EXCEPT ![b] = "idle"] /\ op' = [op EXCEPT ![b] = "none"]
      /\ target' = [target EXCEPT ![b] = 0] /\ judged' = [judged EXCEPT ![b] = 0]
  BY DEF End, Move
<1>2. Types
  BY DEF HookInv
<1>3. at'[b] = "idle" /\ judged'[b] = 0
  BY <1>1, <1>2 DEF Types
<1>4. \A c \in Backends \ {b} : Still(c)
  BY <1>1, <1>2 DEF Types, Still
<1>5. LocksOf(b)'
  <2>1. \A t \in Tags : Kept(b, t)' = {}
    BY <1>3, TablesAreNumbered DEF Kept
  <2>2. \A t \in Tags : held'[t][b] = {} /\ \A m : ~Asks(b, t, m)'
    BY EndLocks DEF Asks, In
  <2>3. QED
    BY <1>3, <2>1, <2>2 DEF LocksOf, Unasked, Quiet
<1>6. StateOf(b)'
  BY <1>3 DEF StateOf, Past
<1>7. QED
  BY <1>4, <1>5, <1>6, EndLocks, OthersStay DEF StepKeeps

LEMMA AskStep ==
    ASSUME HookInv, NEW b \in Backends, NEW mode, NEW place, Ask(b, mode, place),
           \/ at[b] = "analyze" /\ mode = "AccessShareLock" /\ place = "analyze_lock"
           \/ at[b] = "run" /\ mode = LockOf[op[b]] /\ place = "run_lock"
    PROVE  StepKeeps(b)
<1>1. /\ TableInv /\ Types /\ LocksOf(b) /\ StateOf(b)
  BY DEF HookInv
<1>2. /\ at' = [at EXCEPT ![b] = place] /\ target' = [target EXCEPT ![b] = table]
      /\ op' = op /\ judged' = judged /\ guard' = guard /\ table' = table
      /\ table # 0 /\ Lock(b, table, mode)
  BY DEF Ask, Move, name
<1>3. /\ table \in Tags
      /\ at'[b] = place /\ target'[b] = table /\ op'[b] = op[b] /\ judged'[b] = judged[b]
      /\ \A c \in Backends \ {b} : Still(c)
  BY <1>1, <1>2, TablesAreNumbered DEF Types, Still
<1>4. mode \in LockModes /\ op[b] \in Ops
  BY <1>1, LocksOfStatements DEF StateOf
<1>5. Unasked(b)
  BY <1>1 DEF LocksOf
<1>6. PICK u \in Tags : u = table
  BY <1>3
<1>7. /\ TableInv'
      /\ \A t \in Tags : t # u => held'[t] = held[t] /\ queue'[t] = queue[t]
      /\ \A c \in Backends \ {b} : held'[u][c] = held[u][c]
      /\ \/ /\ held'[u][b] = held[u][b]
            /\ \A req : In(queue'[u], req) <=>
                  In(queue[u], req) \/ req = [who |-> b, mode |-> mode]
         \/ /\ held'[u][b] = held[u][b] \cup {mode}
            /\ queue'[u] = queue[u]
  BY <1>1, <1>2, <1>4, <1>6, LockSteps
<1>8. Wanted(b)' = mode
  BY <1>3 DEF Wanted
<1>9. \A t \in Tags : Kept(b, t)' = Kept(b, t)
  BY <1>3 DEF Kept
<1>10. \A t \in Tags : held[t][b] = Kept(b, t) /\ \A m : ~Asks(b, t, m)
  BY <1>5 DEF Unasked, Quiet
<1>11. \A t \in Tags : t # u =>
          held'[t][b] = Kept(b, t) /\ \A m : ~Asks(b, t, m)'
  BY <1>7, <1>10 DEF Asks, In
<1>12. Waits(b)' \/ Has(b)'
  <2>1. CASE /\ held'[u][b] = held[u][b]
             /\ \A req : In(queue'[u], req) <=>
                   In(queue[u], req) \/ req = [who |-> b, mode |-> mode]
    <3>1. \A m : Asks(b, u, m)' <=> m = mode
      <4>1. \A m : [who |-> b, mode |-> m] = [who |-> b, mode |-> mode] <=> m = mode
        <5>1. \A m : [who |-> b, mode |-> m].mode = m
          OBVIOUS
        <5>2. QED
          BY <5>1
      <4>2. \A m : In(queue'[u], [who |-> b, mode |-> m]) <=> m = mode
        BY <1>10, <2>1, <4>1 DEF Asks
      <4>3. QED
        BY <4>2 DEF Asks, In
    <3>2. \A t \in Tags : \A m : Asks(b, t, m)' <=> t = u /\ m = mode
      BY <1>11, <3>1
    <3>3. \A t \in Tags : held'[t][b] = Kept(b, t)
      BY <1>10, <1>11, <2>1
    <3>4. Waits(b)'
      BY <1>3, <1>6, <1>8, <1>9, <3>2, <3>3 DEF Waits
    <3>5. QED
      BY <3>4
  <2>2. CASE held'[u][b] = held[u][b] \cup {mode} /\ queue'[u] = queue[u]
    <3>1. \A m : ~Asks(b, u, m)'
      BY <1>10, <2>2 DEF Asks, In
    <3>2. \A t \in Tags : \A m : ~Asks(b, t, m)'
      BY <1>11, <3>1
    <3>3. \A t \in Tags : held'[t][b] = Kept(b, t) \cup (IF t = u THEN {mode} ELSE {})
      BY <1>10, <1>11, <2>2
    <3>4. Has(b)'
      BY <1>3, <1>6, <1>8, <1>9, <3>2, <3>3 DEF Has, Quiet
    <3>5. QED
      BY <3>4
  <2>3. QED
    BY <1>7, <2>1, <2>2
<1>13. LocksOf(b)'
  BY <1>3, <1>12 DEF LocksOf
<1>14. StateOf(b)'
  BY <1>1, <1>2, <1>3 DEF StateOf, Past
<1>15. \A t \in Tags : \A c \in Backends \ {b} : Moved(held[t], queue[t], held'[t], queue'[t], c)
  <2> TAKE t \in Tags
  <2> TAKE c \in Backends \ {b}
  <2>1. held'[t][c] = held[t][c]
    BY <1>7
  <2>2. \A m : [who |-> c, mode |-> m] # [who |-> b, mode |-> mode]
    <3>1. \A m : [who |-> c, mode |-> m].who = c /\ [who |-> b, mode |-> mode].who = b
      OBVIOUS
    <3>2. QED
      BY <3>1
  <2>3. \A m : In(queue'[t], [who |-> c, mode |-> m]) <=> In(queue[t], [who |-> c, mode |-> m])
    BY <1>7, <2>2
  <2>4. QED
    BY <2>1, <2>3, UnmovedIsMoved
<1>16. QED
  BY <1>3, <1>7, <1>13, <1>14, <1>15, OthersStay DEF StepKeeps

(* A session that has its lock waits for nothing.                          *)
LEMMA WaitersAsk ==
    ASSUME NEW b \in Backends, ~Waiting(b), StateOf(b),
           at[b] \in {"analyze_lock", "run_lock"}, LocksOf(b)
    PROVE  Has(b) /\ \A t \in Tags : \A i \in DOMAIN queue[t] : queue[t][i].who # b
<1>1. \A t \in Tags : \A i \in DOMAIN queue[t] : queue[t][i].who # b
  BY DEF Waiting, WaitsFor
<1>2. ASSUME Waits(b)
      PROVE  FALSE
  <2>1. target[b] \in Tags /\ Asks(b, target[b], Wanted(b))
    BY <1>2 DEF Waits, StateOf
  <2>2. [who |-> b, mode |-> Wanted(b)].who = b
    OBVIOUS
  <2>3. QED
    BY <1>1, <2>1, <2>2 DEF Asks, In
<1>3. QED
  BY <1>1, <1>2 DEF LocksOf

LEMMA RetryStep ==
    ASSUME HookInv, NEW b \in Backends, NEW mode, NEW place, Retry(b, mode, place),
           \/ at[b] = "analyze_lock" /\ mode = "AccessShareLock" /\ place = "analyze"
           \/ at[b] = "run_lock" /\ mode = LockOf[op[b]] /\ place = "run"
    PROVE  StepKeeps(b)
<1>1. /\ TableInv /\ Types /\ LocksOf(b) /\ StateOf(b)
  BY DEF HookInv
<1>2. /\ at' = [at EXCEPT ![b] = place]
      /\ target' = target /\ op' = op /\ judged' = judged /\ guard' = guard /\ table' = table
      /\ ~Waiting(b) /\ Unlock(b, target[b], mode)
  BY DEF Retry, Move, name
<1>3. /\ at'[b] = place /\ target'[b] = target[b] /\ op'[b] = op[b] /\ judged'[b] = judged[b]
      /\ \A c \in Backends \ {b} : Still(c)
  BY <1>1, <1>2 DEF Types, Still
<1>4. Has(b) /\ \A t \in Tags : \A i \in DOMAIN queue[t] : queue[t][i].who # b
  BY <1>1, <1>2, WaitersAsk
<1>5. PICK u \in Tags : u = target[b]
  BY <1>1 DEF StateOf
<1>6. /\ TableInv'
      /\ \A t \in Tags : t # u => held'[t] = held[t] /\ queue'[t] = queue[t]
      /\ held'[u][b] = held[u][b] \ {mode}
      /\ \A n : ~In(queue'[u], [who |-> b, mode |-> n])
      /\ \A c \in Backends \ {b} : Moved(held[u], queue[u], held'[u], queue'[u], c)
  BY <1>1, <1>2, <1>4, <1>5, UnlockSteps
<1>7. Wanted(b) = mode /\ (at[b] = "run_lock" => mode # "AccessShareLock")
  BY <1>1, LocksOfStatements DEF Wanted, StateOf
<1>8. at[b] = "analyze_lock" => judged[b] = 0
  BY <1>1 DEF StateOf, Past
<1>9. \A t \in Tags : Kept(b, t)' = Kept(b, t)
  BY <1>3 DEF Kept
<1>10. mode \notin Kept(b, u)
  BY <1>5, <1>7, <1>8, TablesAreNumbered DEF Kept
<1>11. \A t \in Tags :
          /\ held[t][b] = Kept(b, t) \cup (IF t = u THEN {mode} ELSE {})
          /\ \A m : ~Asks(b, t, m)
  BY <1>4, <1>5, <1>7 DEF Has, Quiet
<1>12. \A t \in Tags : held'[t][b] = Kept(b, t)
  <2> TAKE t \in Tags
  <2>1. CASE t = u
    <3>1. held'[t][b] = (Kept(b, t) \cup {mode}) \ {mode}
      BY <1>6, <1>11, <2>1
    <3>2. QED
      BY <1>10, <2>1, <3>1
  <2>2. CASE t # u
    <3>1. held'[t][b] = Kept(b, t) \cup {}
      BY <1>6, <1>11, <2>2
    <3>2. QED
      BY <3>1
  <2>3. QED
    BY <2>1, <2>2
<1>13. \A t \in Tags : \A m : ~Asks(b, t, m)'
  BY <1>6, <1>11 DEF Asks, In
<1>14. LocksOf(b)'
  BY <1>3, <1>9, <1>12, <1>13 DEF LocksOf, Unasked, Quiet
<1>15. StateOf(b)'
  BY <1>1, <1>2, <1>3, <1>8 DEF StateOf, Past
<1>16. \A t \in Tags : \A c \in Backends \ {b} : Moved(held[t], queue[t], held'[t], queue'[t], c)
  BY <1>6, UnmovedIsMoved
<1>17. QED
  BY <1>3, <1>6, <1>14, <1>15, <1>16, OthersStay DEF StepKeeps

(* Steps that leave the lock table alone.                                  *)
LEMMA UnlockedStep ==
    ASSUME HookInv, NEW b, UNCHANGED locks, \A c \in Backends \ {b} : Still(c)
    PROVE  /\ TableInv'
           /\ \A c \in Backends \ {b} : LocksOf(c)' /\ (table' = table => StateOf(c)')
           /\ \A t \in Tags, c \in Backends : held'[t][c] = held[t][c]
           /\ \A t \in Tags, c \in Backends : \A m : Asks(c, t, m)' <=> Asks(c, t, m)
<1>1. held' = held /\ queue' = queue /\ TableInv
  BY DEF locks, HookInv
<1>2. TableInv'
  BY <1>1 DEF TableInv
<1>3. \A t \in Tags : \A c \in Backends \ {b} : Moved(held[t], queue[t], held'[t], queue'[t], c)
  BY <1>1, UnmovedIsMoved
<1>4. \A t \in Tags, c \in Backends : \A m : Asks(c, t, m)' <=> Asks(c, t, m)
  BY <1>1 DEF Asks, In
<1>5. QED
  BY <1>1, <1>2, <1>3, <1>4, OthersStay

LEMMA SubmitStep ==
    ASSUME HookInv, NEW b \in Backends, NEW o \in Ops, Submit(b, o)
    PROVE  StepKeeps(b)
<1>1. /\ TableInv /\ Types /\ LocksOf(b) /\ StateOf(b)
  BY DEF HookInv
<1>2. /\ at' = [at EXCEPT ![b] = IF Analyzed(b, o) THEN "analyze" ELSE "run"]
      /\ op' = [op EXCEPT ![b] = o]
      /\ UNCHANGED locks /\ target' = target /\ judged' = judged /\ guard' = guard
      /\ table' = table /\ at[b] = "idle"
  BY DEF Submit, Move, name
<1>3. /\ at'[b] = (IF Analyzed(b, o) THEN "analyze" ELSE "run")
      /\ op'[b] = o /\ target'[b] = target[b] /\ judged'[b] = judged[b]
      /\ \A c \in Backends \ {b} : Still(c)
  BY <1>1, <1>2 DEF Types, Still
<1>4. judged[b] = 0
  BY <1>1, <1>2 DEF StateOf, Past
<1>5. \A t \in Tags : Kept(b, t)' = Kept(b, t)
  BY <1>3 DEF Kept
<1>6. Unasked(b)
  BY <1>1, <1>2 DEF LocksOf
<1>7. /\ TableInv'
      /\ \A c \in Backends \ {b} : LocksOf(c)' /\ (table' = table => StateOf(c)')
      /\ \A t \in Tags : held'[t][b] = held[t][b]
      /\ \A t \in Tags : \A m : Asks(b, t, m)' <=> Asks(b, t, m)
  BY <1>2, <1>3, UnlockedStep
<1>8. Unasked(b)'
  BY <1>5, <1>6, <1>7 DEF Unasked, Quiet
<1>9. LocksOf(b)'
  BY <1>3, <1>8 DEF LocksOf
<1>10. Analyzed(b, o) => guard[b] # "off"
  BY DEF Analyzed
<1>11. ~Analyzed(b, o) /\ guard[b] = "enforce" => o \notin Destructive
  BY DEF Analyzed, Destructive
<1>12. StateOf(b)'
  BY <1>2, <1>3, <1>4, <1>10, <1>11 DEF StateOf, Past
<1>13. QED
  BY <1>7, <1>9, <1>12 DEF StepKeeps

(* The classifier lets the statement go on: what it locked is kept.        *)
LEMMA PassStep ==
    ASSUME HookInv, NEW b \in Backends, NEW found, ~Stops(b, found),
           judged' = [judged EXCEPT ![b] = found], Move(b, "run"),
           UNCHANGED <<locks, op, target>>, UNCHANGED <<name, guard>>,
           \/ at[b] = "analyze" /\ table = 0 /\ found = 0
           \/ at[b] = "analyze_lock" /\ ~Waiting(b) /\ target[b] = table /\ found = table
    PROVE  StepKeeps(b)
<1>1. /\ TableInv /\ Types /\ LocksOf(b) /\ StateOf(b)
  BY DEF HookInv
<1>2. /\ at' = [at EXCEPT ![b] = "run"] /\ UNCHANGED locks
      /\ op' = op /\ target' = target /\ guard' = guard /\ table' = table
  BY DEF Move, name
<1>3. /\ at'[b] = "run" /\ judged'[b] = found /\ op'[b] = op[b]
      /\ \A c \in Backends \ {b} : Still(c)
  BY <1>1, <1>2 DEF Types, Still
<1>4. /\ TableInv'
      /\ \A c \in Backends \ {b} : LocksOf(c)' /\ (table' = table => StateOf(c)')
      /\ \A t \in Tags : held'[t][b] = held[t][b]
      /\ \A t \in Tags : \A m : Asks(b, t, m)' <=> Asks(b, t, m)
  BY <1>2, <1>3, UnlockedStep
<1>5. \A t \in Tags : Kept(b, t)' = IF found = t THEN {"AccessShareLock"} ELSE {}
  BY <1>3 DEF Kept
<1>6. judged[b] = 0 /\ guard[b] # "off" /\ op[b] \in Ops
  BY <1>1 DEF StateOf, Past
<1>7. \A t \in Tags : Kept(b, t) = {}
  BY <1>6, TablesAreNumbered DEF Kept
<1>8. \A t \in Tags :
         /\ held[t][b] = IF found = t THEN {"AccessShareLock"} ELSE {}
         /\ \A m : ~Asks(b, t, m)
  <2>1. CASE at[b] = "analyze" /\ found = 0
    BY <1>1, <1>7, <2>1, TablesAreNumbered DEF LocksOf, Unasked, Quiet
  <2>2. CASE at[b] = "analyze_lock" /\ ~Waiting(b) /\ target[b] = table /\ found = table
    <3>1. Has(b) /\ Wanted(b) = "AccessShareLock"
      BY <1>1, <2>2, WaitersAsk DEF Wanted
    <3>2. QED
      BY <1>7, <2>2, <3>1 DEF Has, Quiet
  <2>3. QED
    BY <2>1, <2>2
<1>9. LocksOf(b)'
  BY <1>3, <1>4, <1>5, <1>8 DEF LocksOf, Unasked, Quiet
<1>10. guard[b] = "enforce" /\ op[b] \in Destructive => op[b] = "drop_if_exists" /\ found = 0
  BY DEF Stops
<1>11. found # 0 => found = table
  OBVIOUS
<1>12. StateOf(b)'
  BY <1>2, <1>3, <1>6, <1>10, <1>11 DEF StateOf, Past
<1>13. QED
  BY <1>4, <1>9, <1>12 DEF StepKeeps

LEMMA JudgeStep ==
    ASSUME HookInv, NEW b \in Backends, JudgeFound(b) \/ JudgeMissing(b)
    PROVE  StepKeeps(b)
<1>1. PICK found :
         /\ Judge(b, found) /\ UNCHANGED <<name, guard>>
         /\ \/ at[b] = "analyze" /\ table = 0 /\ found = 0
            \/ at[b] = "analyze_lock" /\ ~Waiting(b) /\ target[b] = table /\ found = table
  BY DEF JudgeFound, JudgeMissing
<1>2. CASE Stops(b, found)
  BY <1>1, <1>2, EndStep DEF Judge
<1>3. CASE ~Stops(b, found)
  BY <1>1, <1>3, PassStep DEF Judge
<1>4. QED
  BY <1>2, <1>3

LEMMA ExecuteStep ==
    ASSUME HookInv, NEW b \in Backends, Execute(b)
    PROVE  StepKeeps(b)
<1>1. /\ TableInv /\ Types /\ LocksOf(b) /\ StateOf(b)
  BY DEF HookInv
<1>2. /\ at' = [at EXCEPT ![b] = "done"] /\ UNCHANGED locks
      /\ op' = op /\ target' = target /\ judged' = judged /\ guard' = guard /\ table' = table
      /\ at[b] = "run_lock" /\ ~Waiting(b) /\ target[b] = table
  BY DEF Execute, Move, name
<1>3. /\ at'[b] = "done" /\ \A c \in Backends \ {b} : Still(c)
  BY <1>1, <1>2 DEF Types, Still
<1>4. /\ TableInv'
      /\ \A c \in Backends \ {b} : LocksOf(c)' /\ (table' = table => StateOf(c)')
      /\ \A t \in Tags : held'[t][b] = held[t][b]
      /\ \A t \in Tags : \A m : Asks(b, t, m)' <=> Asks(b, t, m)
  BY <1>2, <1>3, UnlockedStep
<1>5. Has(b)
  BY <1>1, <1>2, WaitersAsk
<1>6. Wanted(b)' = Wanted(b) /\ \A t \in Tags : Kept(b, t)' = Kept(b, t)
  BY <1>2, <1>3 DEF Wanted, Kept
<1>7. Has(b)'
  BY <1>2, <1>4, <1>5, <1>6 DEF Has, Quiet
<1>8. LocksOf(b)'
  BY <1>3, <1>7 DEF LocksOf
<1>9. StateOf(b)'
  BY <1>1, <1>2, <1>3 DEF StateOf, Past
<1>10. QED
  BY <1>4, <1>8, <1>9 DEF StepKeeps

(* A statement that has the table to itself is the only one that is done,  *)
(* and no other session was judged by the table.                           *)
LEMMA ExclusiveIsAlone ==
    ASSUME HookInv, NEW b \in Backends, at[b] = "done", LockOf[op[b]] = "AccessExclusiveLock",
           NEW c \in Backends, c # b
    PROVE  at[c] # "done" /\ judged[c] = 0
<1>1. /\ TableInv /\ LocksOf(b) /\ StateOf(b) /\ LocksOf(c) /\ StateOf(c)
      /\ at[c] \in Places /\ judged[c] \in 0..MaxTables
  BY DEF HookInv, Types
<1>2. table \in Tags /\ target[b] = table /\ Has(b)
  BY <1>1 DEF StateOf, LocksOf
<1>3. "AccessExclusiveLock" \in held[table][b]
  BY <1>2 DEF Has, Wanted
<1>4. held[table] \in Holds /\ Compatible(held[table])
  BY <1>1, <1>2 DEF TableInv
<1>5. \A m \in held[table][c] : ~DoLockModesConflict("AccessExclusiveLock", m)
  BY <1>3, <1>4 DEF Compatible
<1>6. ASSUME at[c] = "done"
      PROVE  FALSE
  <2>1. target[c] = table /\ Has(c) /\ op[c] \in Ops
    BY <1>1, <1>6 DEF StateOf, LocksOf
  <2>2. LockOf[op[c]] \in held[table][c]
    BY <1>2, <1>6, <2>1 DEF Has, Wanted
  <2>3. QED
    BY <1>5, <2>1, <2>2, LocksOfStatements
<1>7. ASSUME judged[c] # 0
      PROVE  FALSE
  <2>1. judged[c] = table /\ at[c] \in {"run", "run_lock", "done"}
    BY <1>1, <1>7 DEF StateOf, Past
  <2>2. Kept(c, table) \subseteq held[table][c]
    BY <1>1, <1>2, <2>1 DEF LocksOf, Unasked, Waits, Has
  <2>3. "AccessShareLock" \in held[table][c]
    BY <2>1, <2>2 DEF Kept
  <2>4. QED
    BY <1>5, <2>3, LocksOfStatements
<1>8. QED
  BY <1>6, <1>7

(* A table is created only when no session is judged by one or done.       *)
LEMMA CreateStep ==
    ASSUME HookInv, Create
    PROVE  TableInv' /\ \A c \in Backends : LocksOf(c)' /\ StateOf(c)'
<1>1. held' = held /\ queue' = queue /\ TableInv /\ table = 0
      /\ at' = at /\ op' = op /\ target' = target /\ judged' = judged /\ guard' = guard
  BY DEF Create, session, locks, HookInv
<1>2. TableInv'
  BY <1>1 DEF TableInv
<1>3. ASSUME NEW c \in Backends
      PROVE  LocksOf(c)' /\ StateOf(c)'
  <2>1. LocksOf(c) /\ StateOf(c) /\ at[c] \in Places /\ Still(c)
    BY <1>1 DEF HookInv, Types, Still
  <2>2. \A t \in Tags : Moved(held[t], queue[t], held'[t], queue'[t], c)
    BY <1>1, UnmovedIsMoved
  <2>3. LocksOf(c)'
    BY <2>1, <2>2, StillLocks
  <2>4. at[c] # "done" /\ judged[c] = 0
    BY <1>1, <2>1, TablesAreNumbered DEF StateOf
  <2>5. StateOf(c)'
    BY <1>1, <2>1, <2>4 DEF StateOf, Past
  <2>6. QED
    BY <2>3, <2>5
<1>4. QED
  BY <1>2, <1>3

(* The statement that drops the table has it to itself.                    *)
LEMMA CommitStep ==
    ASSUME HookInv, NEW b \in Backends, Commit(b)
    PROVE  TableInv' /\ \A c \in Backends : LocksOf(c)' /\ StateOf(c)'
<1>1. /\ at[b] = "done" /\ End(b) /\ guard' = guard
      /\ table' = IF op[b] \in {"drop", "drop_if_exists"} THEN 0 ELSE table
  BY DEF Commit
<1>2. StepKeeps(b)
  BY <1>1, EndStep
<1>3. CASE op[b] \in {"drop", "drop_if_exists"}
  <2>1. LockOf[op[b]] = "AccessExclusiveLock"
    BY <1>3 DEF LockOf
  <2>2. ASSUME NEW c \in Backends, c # b
        PROVE  StateOf(c)'
    <3>1. at[c] # "done" /\ judged[c] = 0
      BY <1>1, <2>1, <2>2, ExclusiveIsAlone
    <3>2. Types /\ StateOf(c)
      BY DEF HookInv
    <3>3. Still(c)
      BY <1>1, <2>2, <3>2 DEF End, Move, Types, Still
    <3>4. QED
      BY <3>1, <3>2, <3>3 DEF StateOf, Still, Past
  <2>3. QED
    BY <1>2, <2>2 DEF StepKeeps
<1>4. CASE op[b] \notin {"drop", "drop_if_exists"}
  BY <1>1, <1>2, <1>4 DEF StepKeeps
<1>5. QED
  BY <1>3, <1>4

-----------------------------------------------------------------------------
(* The inductive invariant                                                 *)

LEMMA NextTypes ==
    ASSUME Types, [Next]_vars
    PROVE  Types'
<1>1. ASSUME NEW b \in Backends, NEW o \in Ops, Submit(b, o)
      PROVE  Types'
  BY <1>1 DEF Types, Submit, Move, Places, name
<1>2. ASSUME NEW b \in Backends, End(b), guard' = guard, table' \in {0, table}, made' = made
      PROVE  Types'
  BY <1>2, TablesAreNumbered DEF Types, End, Move, Places
<1>3. ASSUME NEW b \in Backends, NEW mode, NEW place \in Places, Ask(b, mode, place)
      PROVE  Types'
  BY <1>3 DEF Types, Ask, Move, name
<1>4. ASSUME NEW b \in Backends, NEW mode, NEW place \in Places, Retry(b, mode, place)
      PROVE  Types'
  BY <1>4 DEF Types, Retry, Move, name
<1>5. ASSUME NEW b \in Backends, NEW found \in 0..MaxTables, Judge(b, found),
             UNCHANGED <<name, guard>>
      PROVE  Types'
  <2>1. CASE Stops(b, found)
    BY <1>2, <1>5, <2>1 DEF Judge, name
  <2>2. CASE ~Stops(b, found)
    BY <1>5, <2>2 DEF Judge, Types, Move, Places, name
  <2>3. QED
    BY <2>1, <2>2
<1>6. ASSUME NEW b \in Backends, Step(b)
      PROVE  Types'
  <2>1. CASE Resolve(b) \/ Run(b)
    BY <1>3, <2>1 DEF Resolve, Run, Places
  <2>2. CASE ResolveAgain(b) \/ RunAgain(b)
    BY <1>4, <2>2 DEF ResolveAgain, RunAgain, Places
  <2>3. CASE JudgeFound(b) \/ JudgeMissing(b)
    BY <1>5, <2>3 DEF JudgeFound, JudgeMissing, Types
  <2>4. CASE RunMissing(b)
    BY <1>2, <2>4 DEF RunMissing, name
  <2>5. CASE Execute(b)
    BY <2>5 DEF Execute, Types, Move, Places, name
  <2>6. CASE Commit(b)
    BY <1>2, <2>6 DEF Commit
  <2>7. QED
    BY <1>6, <2>1, <2>2, <2>3, <2>4, <2>5, <2>6 DEF Step
<1>7. ASSUME NEW b \in Backends, Abort(b)
      PROVE  Types'
  BY <1>2, <1>7 DEF Abort, name
<1>8. CASE Create
  BY <1>8, MaxTablesAssumption DEF Types, Create, session
<1>9. CASE UNCHANGED vars
  BY <1>9 DEF Types, vars, name, session
<1>10. QED
  BY <1>1, <1>6, <1>7, <1>8, <1>9 DEF Next

LEMMA InitHook == Init => HookInv
<1> SUFFICES ASSUME Init
             PROVE  HookInv
  OBVIOUS
<1>1. TableInv
  BY InitTable DEF Init
<1>2. Types
  BY TablesAreNumbered DEF Init, Types, Places
<1>3. ASSUME NEW b \in Backends
      PROVE  LocksOf(b) /\ StateOf(b)
  <2>1. at[b] = "idle" /\ judged[b] = 0
    BY DEF Init
  <2>2. \A t \in Tags : held[t][b] = {} /\ queue[t] = <<>>
    BY DEF Init, LockInit
  <2>3. \A t \in Tags : Kept(b, t) = {}
    BY <2>1, TablesAreNumbered DEF Kept
  <2>4. \A t \in Tags : \A m : ~Asks(b, t, m)
    BY <2>2 DEF Asks, In
  <2>5. QED
    BY <2>1, <2>2, <2>3, <2>4 DEF LocksOf, StateOf, Unasked, Quiet, Past
<1>4. QED
  BY <1>1, <1>2, <1>3 DEF HookInv

LEMMA NextHook ==
    ASSUME HookInv, [Next]_vars
    PROVE  HookInv'
<1>1. Types'
  BY NextTypes DEF HookInv
<1>2. ASSUME NEW b \in Backends, StepKeeps(b), table' = table
      PROVE  HookInv'
  BY <1>1, <1>2 DEF StepKeeps, HookInv
<1>3. ASSUME NEW b \in Backends, Step(b)
      PROVE  HookInv'
  <2>1. CASE Resolve(b)
    BY <1>2, <2>1, AskStep DEF Resolve, Ask, name
  <2>2. CASE Run(b)
    BY <1>2, <2>2, AskStep DEF Run, Ask, name
  <2>3. CASE ResolveAgain(b)
    BY <1>2, <2>3, RetryStep DEF ResolveAgain, Retry, name
  <2>4. CASE RunAgain(b)
    BY <1>2, <2>4, RetryStep DEF RunAgain, Retry, name
  <2>5. CASE JudgeFound(b) \/ JudgeMissing(b)
    BY <1>2, <2>5, JudgeStep DEF JudgeFound, JudgeMissing, name
  <2>6. CASE RunMissing(b)
    BY <1>2, <2>6, EndStep DEF RunMissing, name
  <2>7. CASE Execute(b)
    BY <1>2, <2>7, ExecuteStep DEF Execute, name
  <2>8. CASE Commit(b)
    BY <1>1, <2>8, CommitStep DEF HookInv
  <2>9. QED
    BY <1>3, <2>1, <2>2, <2>3, <2>4, <2>5, <2>6, <2>7, <2>8 DEF Step
<1>4. ASSUME NEW b \in Backends, NEW o \in Ops, Submit(b, o)
      PROVE  HookInv'
  BY <1>2, <1>4, SubmitStep DEF Submit, name
<1>5. ASSUME NEW b \in Backends, Abort(b)
      PROVE  HookInv'
  BY <1>2, <1>5, EndStep DEF Abort, name
<1>6. CASE Create
  BY <1>1, <1>6, CreateStep DEF HookInv
<1>7. CASE UNCHANGED vars
  <2>1. /\ held' = held /\ queue' = queue /\ table' = table
        /\ \A c \in Backends : Still(c)
    BY <1>7 DEF vars, locks, name, session, Still
  <2>2. TableInv'
    BY <2>1 DEF HookInv, TableInv
  <2>3. ASSUME NEW c \in Backends
        PROVE  LocksOf(c)' /\ StateOf(c)'
    <3>1. LocksOf(c) /\ StateOf(c) /\ at[c] \in Places
      BY DEF HookInv, Types
    <3>2. \A t \in Tags : Moved(held[t], queue[t], held'[t], queue'[t], c)
      BY <2>1, UnmovedIsMoved
    <3>3. QED
      BY <2>1, <3>1, <3>2, StillLocks, StillState
  <2>4. QED
    BY <1>1, <2>2, <2>3 DEF HookInv
<1>8. QED
  BY <1>3, <1>4, <1>5, <1>6, <1>7 DEF Next

(* The locks a session holds and asks for are always those of its place in *)
(* the hook or in the statement.                                           *)
THEOREM HookInvariant == Spec => []HookInv
BY InitHook, NextHook, PTL DEF Spec

-----------------------------------------------------------------------------
(* What the hook promises                                                  *)

(* Every variable has its type, and a session between statements holds no  *)
(* lock.                                                                   *)
THEOREM TypeCorrect == Spec => []TypeOK
<1>1. HookInv => TypeOK
  <2> SUFFICES ASSUME HookInv
               PROVE  TypeOK
    OBVIOUS
  <2>1. Types
    BY DEF HookInv
  <2>2. ASSUME NEW b \in Backends, at[b] = "idle", NEW t \in Tags
        PROVE  held[t][b] = {}
    <3>1. Unasked(b) /\ judged[b] = 0
      BY <2>2 DEF HookInv, LocksOf, StateOf, Past
    <3>2. Kept(b, t) = {}
      BY <3>1, TablesAreNumbered DEF Kept
    <3>3. QED
      BY <3>1, <3>2 DEF Unasked
  <2>3. QED
    BY <2>1, <2>2 DEF TypeOK, Types
<1>2. QED
  BY <1>1, HookInvariant, PTL

(* The table a statement was judged by keeps its name until the statement  *)
(* is done, and no other session has it to itself meanwhile                *)
(* (utility_analysis.c:46-64).                                             *)
THEOREM JudgedTableStays == Spec => []JudgedIsWhatRuns
<1>1. HookInv => JudgedIsWhatRuns
  <2> SUFFICES ASSUME HookInv, NEW b \in Backends, Past(b), judged[b] # 0
               PROVE  /\ table = judged[b]
                      /\ \A c \in Backends \ {b} :
                            at[c] = "done" => LockOf[op[c]] # "AccessExclusiveLock"
    BY DEF JudgedIsWhatRuns, Past
  <2>1. table = judged[b]
    BY DEF HookInv, StateOf
  <2>2. ASSUME NEW c \in Backends \ {b}, at[c] = "done",
               LockOf[op[c]] = "AccessExclusiveLock"
        PROVE  FALSE
    BY <2>2, ExclusiveIsAlone
  <2>3. QED
    BY <2>1, <2>2
<1>2. QED
  BY <1>1, HookInvariant, PTL

(* Under enforce the only destructive statement that takes effect is DROP  *)
(* TABLE IF EXISTS of a table that was not there when it was classified    *)
(* (utility_analysis.c:181-203, hooks.c:218-222).                          *)
THEOREM EnforceStopsSeenTables == Spec => []OnlyUnseenTableIsDropped
<1>1. HookInv => OnlyUnseenTableIsDropped
  BY DEF HookInv, StateOf, Past, OnlyUnseenTableIsDropped
<1>2. QED
  BY <1>1, HookInvariant, PTL

(* A session in a queue waits for the lock its place asks for, and holds   *)
(* nothing but the lock of the classifier.                                 *)
LEMMA WaitersHoldWhatTheyKept ==
    ASSUME HookInv, NEW b \in Backends, NEW t \in Tags, NEW i \in DOMAIN queue[t],
           queue[t][i].who = b
    PROVE  /\ at[b] \in {"analyze_lock", "run_lock"}
           /\ queue[t][i].mode = Wanted(b)
           /\ \A u \in Tags : held[u][b] = Kept(b, u)
<1> DEFINE m == queue[t][i].mode
<1>1. queue[t] \in Seq(Requests) /\ LocksOf(b) /\ at[b] \in Places
  BY DEF HookInv, TableInv, Types
<1>2. queue[t][i] \in Requests
  BY <1>1
<1>3. queue[t][i] = [who |-> b, mode |-> m]
  BY <1>2 DEF Requests
<1>4. Asks(b, t, m)
  BY <1>3 DEF Asks, In
<1>5. ~Quiet(b)
  BY <1>4 DEF Quiet
<1>6. at[b] \in {"analyze_lock", "run_lock"} /\ Waits(b)
  BY <1>1, <1>5 DEF LocksOf, Unasked, Has, Places
<1>7. QED
  BY <1>4, <1>6 DEF Waits

(* An edge to a session that waits itself is the lock of the classifier in *)
(* the way of a statement that needs the table to itself.                  *)
LEMMA WaitersStopUpgrades ==
    ASSUME HookInv, NEW b \in Backends, NEW c \in Backends,
           <<b, c>> \in AllEdges, Waiting(c)
    PROVE  /\ b # c /\ guard[c] # "off"
           /\ at[b] = "run_lock" /\ LockOf[op[b]] = "AccessExclusiveLock"
<1>1. Blocks(c, b)
  BY DEF AllEdges
<1>2. PICK t \in Tags : \E i \in DOMAIN queue[t] :
         /\ queue[t][i].who = b
         /\ \E m \in held[t][c] : DoLockModesConflict(m, queue[t][i].mode)
  BY <1>1 DEF Blocks
<1>3. PICK i \in DOMAIN queue[t] :
         /\ queue[t][i].who = b
         /\ \E m \in held[t][c] : DoLockModesConflict(m, queue[t][i].mode)
  BY <1>2
<1>4. PICK m \in held[t][c] : DoLockModesConflict(m, queue[t][i].mode)
  BY <1>3
<1>5. /\ at[b] \in {"analyze_lock", "run_lock"} /\ queue[t][i].mode = Wanted(b)
  BY <1>3, WaitersHoldWhatTheyKept
<1>6. held[t][c] = Kept(c, t)
  BY WaitersHoldWhatTheyKept DEF Waiting, WaitsFor
<1>7. m = "AccessShareLock" /\ judged[c] = t
  BY <1>4, <1>6 DEF Kept
<1>8. StateOf(b) /\ StateOf(c)
  BY DEF HookInv
<1>9. guard[c] # "off"
  BY <1>7, <1>8, TablesAreNumbered DEF StateOf
<1>10. DoLockModesConflict("AccessShareLock", Wanted(b))
  BY <1>4, <1>5, <1>7
<1>11. Wanted(b) \in LockModes
  BY <1>5, <1>8, LocksOfStatements DEF Wanted, StateOf
<1>12. Wanted(b) = "AccessExclusiveLock"
  BY <1>10, <1>11, LocksOfStatements
<1>13. QED
  BY <1>1, <1>5, <1>9, <1>12 DEF Blocks, Wanted

LEMMA TwoSessions ==
    ASSUME NEW c, NEW d, c # d
    PROVE  Cardinality({c, d}) = 2
<1>1. IsFiniteSet({c}) /\ Cardinality({c}) = 1
  BY FS_Singleton
<1>2. Cardinality({c} \cup {d}) = Cardinality({c}) + 1
  BY <1>1, FS_AddElement
<1>3. {c} \cup {d} = {c, d}
  OBVIOUS
<1>4. QED
  BY <1>1, <1>2, <1>3

(* A cycle of waits has two sessions in it that upgrade the lock of the    *)
(* classifier: the guard's own lock deadlocks no other statements          *)
(* (utility_analysis.c:55, hooks.c:218-222).                               *)
THEOREM CyclesNeedTwoUpgrades == Spec => []CyclesAreUpgrades
<1>1. HookInv => CyclesAreUpgrades
  <2> SUFFICES ASSUME HookInv, NEW S \in SUBSET Backends, Deadlocked(AllEdges, S)
               PROVE  Cardinality({b \in S : Upgrading(b)}) >= 2
    BY DEF CyclesAreUpgrades
  <2>1. ASSUME NEW b \in S
        PROVE  Waiting(b) /\ \E c \in S : <<b, c>> \in AllEdges
    <3>1. PICK c \in S : <<b, c>> \in AllEdges
      BY DEF Deadlocked
    <3>2. Blocks(c, b)
      BY <3>1 DEF AllEdges
    <3>3. QED
      BY <3>1, <3>2 DEF Blocks, Waiting, WaitsFor
  <2>2. ASSUME NEW b \in S, NEW c \in S, <<b, c>> \in AllEdges
        PROVE  b # c /\ Upgrading(c)
    <3>1. PICK d \in S : <<c, d>> \in AllEdges
      BY <2>1
    <3>2. at[c] = "run_lock" /\ LockOf[op[c]] = "AccessExclusiveLock"
      BY <2>1, <3>1, WaitersStopUpgrades
    <3>3. b # c /\ guard[c] # "off"
      BY <2>1, <2>2, WaitersStopUpgrades
    <3>4. QED
      BY <3>2, <3>3 DEF Upgrading
  <2>3. PICK b \in S : TRUE
    BY DEF Deadlocked
  <2>4. PICK c \in S : <<b, c>> \in AllEdges
    BY <2>1
  <2>5. PICK d \in S : <<c, d>> \in AllEdges
    BY <2>1
  <2>6. c # d /\ Upgrading(c) /\ Upgrading(d)
    BY <2>2, <2>4, <2>5
  <2> DEFINE U == {x \in S : Upgrading(x)}
  <2>7. U \in SUBSET Backends /\ {c, d} \in SUBSET U
    BY <2>6
  <2>8. Cardinality({c, d}) = 2
    BY <2>6, TwoSessions
  <2> HIDE DEF U
  <2>9. Cardinality({c, d}) <= Cardinality(U)
    <3>1. IsFiniteSet(U)
      BY <2>7, SessionsAreFinite
    <3>2. QED
      BY <2>7, <3>1, FS_Subset
  <2>10. Cardinality(U) \in Nat
    BY <2>7, SessionsAreFinite
  <2>11. QED
    BY <2>8, <2>9, <2>10 DEF U
<1>2. QED
  BY <1>1, HookInvariant, PTL

=============================================================================
