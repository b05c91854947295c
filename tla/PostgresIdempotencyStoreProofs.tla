-------------------- MODULE PostgresIdempotencyStoreProofs --------------------
(* Proofs about PostgresIdempotencyStore, for any callers, slots, size of the    *)
(* pool, time to live, and number of calls and refused queries: clients are lost *)
(* in one way only, and the store keeps the promise of single flight.            *)
EXTENDS PostgresIdempotencyStore, FiniteSetTheorems, TLAPS

\* The callers that have a client of the pool.
Connected == { c \in Callers : pc[c] \notin { "idle", "connect" } }

\* The callers between the lock and the finally block.
Inside(c) == pc[c] \in { "get", "delete", "operation", "put" }

TypeInv == TypeOK /\ NoOtherLeak

\* The callers inside have the lock of their slot; who has one is inside or about to
\* give it back.
Locked ==
  /\ \A c \in Callers : Inside(c) => lock[slot[c]] = c
  /\ \A s \in Slots : lock[s] \notin {Nobody, Gone} =>
       (Inside(lock[s]) \/ pc[lock[s]] = "unlock") /\ slot[lock[s]] = s

\* What a caller found in its row is still so when it acts on it.
Found ==
  \A c \in Callers :
    /\ pc[c] \in { "operation", "put" } => row[slot[c]] = NoRow
    /\ pc[c] = "delete" => row[slot[c]] # NoRow /\ Expired(row[slot[c]])

\* What was stored last is there, or is older than the time to live; no result was
\* made later than now.
Remembered ==
  /\ \A c \in Callers : createdAt[c] <= now
  /\ \A s \in Slots : lastMade[s] # Never =>
       /\ lastMade[s] <= now
       /\ \/ row[s] # NoRow /\ row[s].expiresAt = lastMade[s] + TTL
          \/ now - lastMade[s] >= TTL

IInv == TypeInv /\ Locked /\ Found /\ Remembered

-----------------------------------------------------------------------------
(* The pool *)

\* Clients are counted: as many are taken as callers are connected.
LEMMA ClientCount ==
  ASSUME TypeInv
  PROVE  /\ IsFiniteSet(Connected) /\ Cardinality(Connected) \in Nat
         /\ free + lost + Cardinality(Connected) = PoolSize
         /\ free \in Nat /\ lost \in Nat /\ PoolSize \in Nat
         /\ \A c \in Connected : free + 1 <= PoolSize /\ lost + 1 <= PoolSize
<1>1. IsFiniteSet(Connected) /\ Cardinality(Connected) \in Nat
  <2>1. Connected \in SUBSET Callers
    BY DEF Connected
  <2> QED
    BY <2>1, FS_Subset, FS_CardinalityType, FiniteCallersAssumption
<1>2. /\ free + lost + Cardinality(Connected) = PoolSize
      /\ free \in Nat /\ lost \in Nat /\ PoolSize \in Nat
  BY BoundAssumption DEF TypeInv, TypeOK, NoOtherLeak, Connected
<1>3. \A c \in Connected : Cardinality(Connected) # 0
  BY <1>1, FS_EmptySet
<1> QED
  BY <1>1, <1>2, <1>3

LEMMA InitInv == Init => IInv
<1> SUFFICES ASSUME Init
             PROVE  IInv
  OBVIOUS
<1>1. TypeOK
  BY BoundAssumption DEF Init, TypeOK, Pc, Row, NoRow, Never
<1>2. NoOtherLeak
  <2>1. { c \in Callers : pc[c] \notin { "idle", "connect" } } = {}
    BY DEF Init
  <2> QED
    BY <2>1, FS_EmptySet, BoundAssumption DEF Init, NoOtherLeak
<1>3. Locked /\ Found /\ Remembered
  BY DEF Init, Locked, Inside, Found, Remembered
<1> QED
  BY <1>1, <1>2, <1>3 DEF IInv, TypeInv

\* Steps that take no client and return none.
LEMMA SameClients ==
  ASSUME TypeInv, NEW c \in Callers, NEW to \in Pc, pc' = [pc EXCEPT ![c] = to], UNCHANGED pool,
         to \in { "idle", "connect" } <=> pc[c] \in { "idle", "connect" }
  PROVE  NoOtherLeak'
<1> USE DEF pool
<1>1. { d \in Callers : pc'[d] \notin { "idle", "connect" } }
        = { d \in Callers : pc[d] \notin { "idle", "connect" } }
  BY DEF TypeInv, TypeOK
<1> QED
  BY <1>1 DEF TypeInv, NoOtherLeak

\* Every step of a caller but those that take a client, return one or lose one.
Work(c) ==
  \/ Lock(c) \/ Get(c) \/ Delete(c) \/ Operation(c) \/ Put(c)
  \/ ConnectRefused(c) \/ QueryRefused(c)

LEMMA WorkTypes ==
  ASSUME TypeInv, NEW c \in Callers, Work(c)
  PROVE  TypeInv'
<1>0. /\ slot[c] \in Slots /\ now \in 0..MaxTime /\ row \in [Slots -> Row]
      /\ lastMade \in [Slots -> 0..Never] /\ createdAt \in [Callers -> 0..MaxTime]
      /\ faults \in 0..MaxFaults /\ MaxFaults \in Nat /\ MaxTime \in Nat /\ TTL \in Nat
  BY BoundAssumption DEF TypeInv, TypeOK
<1> USE DEF Work, Lock, Get, Delete, Operation, Put, ConnectRefused, QueryRefused
<1>1. PICK to \in Pc : /\ pc' = [pc EXCEPT ![c] = to]
                       /\ to \in { "idle", "connect" } <=> pc[c] \in { "idle", "connect" }
  BY DEF Goto, Pc, AfterRefusal
<1>2. UNCHANGED <<slot, pool, now, calls>>
  BY DEF bound
<1>3. lock' \in [Slots -> Callers \cup {Nobody, Gone}]
  BY <1>0 DEF TypeInv, TypeOK
<1>4. row' \in [Slots -> Row]
  <2>1. [ by |-> c, expiresAt |-> createdAt[c] + TTL ] \in Row /\ NoRow \in Row
    BY <1>0 DEF Row
  <2> QED
    BY <1>0, <2>1 DEF data
<1>5. lastMade' \in [Slots -> 0..Never]
  <2>1. createdAt[c] \in 0..Never
    BY <1>0 DEF Never
  <2> QED
    BY <1>0, <2>1 DEF data
<1>6. createdAt' \in [Callers -> 0..MaxTime]
  BY <1>0
<1>7. faults' \in 0..MaxFaults
  BY <1>0 DEF Fault, bound
<1>8. NoOtherLeak'
  BY <1>1, <1>2, SameClients
<1>9. pc' \in [Callers -> Pc]
  BY <1>1 DEF TypeInv, TypeOK
<1> QED
  BY <1>2, <1>3, <1>4, <1>5, <1>6, <1>7, <1>8, <1>9 DEF TypeInv, TypeOK, pool

LEMMA StepTypes == TypeInv /\ [Next]_vars => TypeInv'
<1> SUFFICES ASSUME TypeInv, [Next]_vars
             PROVE  TypeInv'
  OBVIOUS
<1> USE DEF pool, data, bound
<1>1. ASSUME NEW c \in Callers, NEW s \in Slots, Call(c, s)
      PROVE  TypeInv'
  <2>1. NoOtherLeak'
    BY <1>1, SameClients DEF Call, Goto, Pc
  <2> QED
    BY <1>1, <2>1, BoundAssumption DEF Call, Goto, Pc, TypeInv, TypeOK
<1>2. ASSUME NEW c \in Callers, Connect(c)
      PROVE  TypeInv'
  <2>1. Connected' = Connected \cup {c} /\ c \notin Connected
    BY <1>2 DEF Connect, Goto, Connected, TypeInv, TypeOK
  <2>2. Cardinality(Connected') = Cardinality(Connected) + 1
    BY <2>1, ClientCount, FS_AddElement
  <2>3. free' = free - 1 /\ free > 0 /\ lost' = lost
    BY <1>2 DEF Connect
  <2>4. NoOtherLeak' /\ free' \in 0..PoolSize
    BY <2>2, <2>3, ClientCount DEF NoOtherLeak, Connected
  <2> QED
    BY <1>2, <2>4 DEF Connect, Goto, Pc, TypeInv, TypeOK
<1>3. ASSUME NEW c \in Callers, Unlock(c) \/ UnlockRefused(c)
      PROVE  TypeInv'
  <2>1. Connected' = Connected \ {c} /\ c \in Connected
    BY <1>3 DEF Unlock, UnlockRefused, Goto, Connected, TypeInv, TypeOK
  <2>2. Cardinality(Connected') = Cardinality(Connected) - 1
    BY <2>1, ClientCount, FS_RemoveElement
  <2>3. (free' = free + 1 /\ lost' = lost) \/ (lost' = lost + 1 /\ free' = free)
    BY <1>3 DEF Unlock, UnlockRefused
  <2>4. NoOtherLeak' /\ free' \in 0..PoolSize /\ lost' \in 0..PoolSize
    BY <2>1, <2>2, <2>3, ClientCount DEF NoOtherLeak, Connected
  <2>5. lock' \in [Slots -> Callers \cup {Nobody, Gone}]
    BY <1>3 DEF Unlock, Unlocked, UnlockRefused, TypeInv, TypeOK
  <2>6. faults' \in 0..MaxFaults
    BY <1>3, BoundAssumption DEF Unlock, UnlockRefused, Fault, TypeInv, TypeOK
  <2> QED
    BY <1>3, <2>4, <2>5, <2>6 DEF Unlock, UnlockRefused, Goto, Pc, TypeInv, TypeOK
<1>4. CASE Tick
  BY <1>4, BoundAssumption DEF Tick, TypeInv, TypeOK, NoOtherLeak
<1>5. CASE UNCHANGED vars
  BY <1>5 DEF vars, TypeInv, TypeOK, NoOtherLeak
<1> QED
  BY <1>1, <1>2, <1>3, <1>4, <1>5, WorkTypes DEF Next, Query, Work

\* Every variable keeps its type.
THEOREM PostgresStoreTypeCorrect == Spec => []TypeOK
<1>1. IInv => TypeInv
  BY DEF IInv
<1>2. TypeInv => TypeOK
  BY DEF TypeInv
<1> QED
  BY <1>1, <1>2, InitInv, StepTypes, PTL DEF Spec

\* However calls interleave, whether operations return or throw and whichever queries
\* are refused: the only clients that do not come back are those whose pg_advisory_unlock
\* was refused (the finally block of withKeyLock).
THEOREM ClientsComeBack == Spec => []NoOtherLeak
<1>1. IInv => TypeInv
  BY DEF IInv
<1>2. TypeInv => NoOtherLeak
  BY DEF TypeInv
<1> QED
  BY <1>1, <1>2, InitInv, StepTypes, PTL DEF Spec

-----------------------------------------------------------------------------
(* The lock and the row *)

\* Only a lock that nobody has is taken, and only its holder gives it back.
LEMMA StepLocked == TypeInv /\ Locked /\ [Next]_vars => Locked'
<1> SUFFICES ASSUME TypeInv, Locked, [Next]_vars
             PROVE  Locked'
  OBVIOUS
<1>0. /\ pc \in [Callers -> Pc] /\ slot \in [Callers -> Slots]
      /\ lock \in [Slots -> Callers \cup {Nobody, Gone}]
  BY DEF TypeInv, TypeOK
<1>1. ASSUME NEW c \in Callers, NEW s \in Slots, Call(c, s)
      PROVE  Locked'
  BY <1>0, <1>1 DEF Call, Goto, Locked, Inside
<1>2. ASSUME NEW c \in Callers, Connect(c) \/ ConnectRefused(c)
      PROVE  Locked'
  BY <1>0, <1>2 DEF Connect, ConnectRefused, Goto, Locked, Inside
<1>3. ASSUME NEW c \in Callers, Lock(c)
      PROVE  Locked'
  BY <1>0, <1>3, NobodyAssumption DEF Lock, Grantable, Goto, Locked, Inside
<1>4. ASSUME NEW c \in Callers, Query(c) \/ QueryRefused(c)
      PROVE  Locked'
  <2>1. /\ UNCHANGED <<slot, lock>>
        /\ \A d \in Callers \ {c} : pc'[d] = pc[d]
        /\ pc'[c] \in { "delete", "operation", "put", "unlock" }
        /\ Inside(c) \/ (pc[c] = "lock" /\ pc'[c] = "unlock")
    BY <1>0, <1>4
    DEF Query, Get, Delete, Operation, Put, QueryRefused, AfterRefusal, Goto, Inside
  <2> QED
    BY <1>0, <2>1 DEF Locked, Inside
<1>5. ASSUME NEW c \in Callers, Unlock(c) \/ UnlockRefused(c)
      PROVE  Locked'
  <2>1. /\ UNCHANGED slot /\ pc[c] = "unlock" /\ pc' = [pc EXCEPT ![c] = "idle"]
        /\ \/ lock[slot[c]] = c /\ lock' = [lock EXCEPT ![slot[c]] = Nobody]
           \/ lock[slot[c]] = c /\ lock' = [lock EXCEPT ![slot[c]] = Gone]
           \/ lock[slot[c]] # c /\ lock' = lock
    BY <1>5 DEF Unlock, UnlockRefused, Unlocked, Goto
  <2> QED
    BY <1>0, <2>1, NobodyAssumption DEF Locked, Inside
<1>6. CASE Tick \/ UNCHANGED vars
  BY <1>6 DEF Tick, vars, Locked, Inside
<1> QED
  BY <1>1, <1>2, <1>3, <1>4, <1>5, <1>6 DEF Next

\* A row changes only in the hands of the one caller inside its slot.
LEMMA StepFound == TypeInv /\ Locked /\ Found /\ [Next]_vars => Found'
<1> SUFFICES ASSUME TypeInv, Locked, Found, [Next]_vars
             PROVE  Found'
  OBVIOUS
<1>0. /\ pc \in [Callers -> Pc] /\ slot \in [Callers -> Slots] /\ row \in [Slots -> Row]
      /\ now \in Nat
  BY DEF TypeInv, TypeOK
<1>1. \A c, d \in Callers : Inside(c) /\ Inside(d) /\ slot[c] = slot[d] => c = d
  BY DEF Locked
<1>2. ASSUME NEW c \in Callers, NEW s \in Slots, Call(c, s)
      PROVE  Found'
  BY <1>0, <1>2 DEF Call, Goto, data, Found, Expired
<1>3. ASSUME NEW c \in Callers,
             \/ Connect(c) \/ Lock(c) \/ Operation(c) \/ Unlock(c)
             \/ ConnectRefused(c) \/ UnlockRefused(c)
      PROVE  Found'
  BY <1>0, <1>3 DEF Connect, Lock, Operation, Unlock, ConnectRefused, UnlockRefused, Goto, data,
                    Found, Expired
<1>4. ASSUME NEW c \in Callers, Get(c)
      PROVE  Found'
  BY <1>0, <1>4 DEF Get, Goto, data, Found, Expired
<1>5. ASSUME NEW c \in Callers, Delete(c) \/ Put(c) \/ QueryRefused(c)
      PROVE  Found'
  <2>1. /\ \A d \in Callers \ {c} : pc'[d] = pc[d]
        /\ \A s \in Slots \ {slot[c]} : row'[s] = row[s]
        /\ Inside(c) \/ row' = row
        /\ UNCHANGED <<slot, now>>
        /\ pc'[c] \in {"operation", "unlock"}
        /\ pc'[c] = "operation" => row'[slot[c]] = NoRow
    BY <1>0, <1>5 DEF Delete, Put, QueryRefused, AfterRefusal, Goto, Inside
  <2>2. \A d \in Callers \ {c} : Inside(d) => row'[slot[d]] = row[slot[d]]
    BY <1>0, <1>1, <2>1
  <2> QED
    BY <1>0, <2>1, <2>2 DEF Found, Expired, Inside
<1>6. CASE Tick
  <2>1. now' = now + 1 /\ UNCHANGED <<pc, slot, row>>
    BY <1>6 DEF Tick, data
  <2>2. \A s \in Slots : row[s].expiresAt \in Nat
    BY <1>0, BoundAssumption DEF Row, NoRow
  <2> QED
    BY <1>0, <2>1, <2>2 DEF Found, Expired
<1>7. CASE UNCHANGED vars
  BY <1>7 DEF vars, data, Found, Expired
<1> QED
  BY <1>2, <1>3, <1>4, <1>5, <1>6, <1>7 DEF Next, Query

LEMMA StepRemembered == TypeInv /\ Found /\ Remembered /\ [Next]_vars => Remembered'
<1> SUFFICES ASSUME TypeInv, Found, Remembered, [Next]_vars
             PROVE  Remembered'
  OBVIOUS
<1>0. /\ slot \in [Callers -> Slots] /\ row \in [Slots -> Row] /\ lastMade \in [Slots -> 0..Never]
      /\ createdAt \in [Callers -> 0..MaxTime]
      /\ now \in 0..MaxTime /\ MaxTime \in Nat /\ TTL \in Nat
  BY BoundAssumption DEF TypeInv, TypeOK
<1>1. CASE UNCHANGED <<data, createdAt>> /\ now' \in {now, now + 1}
  BY <1>0, <1>1 DEF data, Remembered, Never
<1>2. ASSUME NEW c \in Callers, Operation(c)
      PROVE  Remembered'
  <2>1. /\ UNCHANGED <<data, now>>
        /\ createdAt' = createdAt \/ createdAt' = [createdAt EXCEPT ![c] = now]
    BY <1>2 DEF Operation
  <2> QED
    BY <1>0, <2>1 DEF data, Remembered
<1>3. ASSUME NEW c \in Callers, Delete(c) \/ QueryRefused(c)
      PROVE  Remembered'
  <2>1. /\ UNCHANGED <<lastMade, now>>
        /\ createdAt' = createdAt \/ createdAt' = [createdAt EXCEPT ![c] = 0]
        /\ \/ row' = row
           \/ row' = [row EXCEPT ![slot[c]] = NoRow] /\ row[slot[c]].expiresAt <= now
    BY <1>3 DEF Delete, QueryRefused, Found, Expired
  <2>2. \A d \in Callers : createdAt'[d] <= now
    BY <1>0, <2>1 DEF Remembered
  <2> QED
    BY <1>0, <2>1, <2>2 DEF Remembered, Never
<1>4. ASSUME NEW c \in Callers, Put(c)
      PROVE  Remembered'
  <2>1. /\ now' = now /\ lastMade' = [lastMade EXCEPT ![slot[c]] = createdAt[c]]
        /\ row' = [row EXCEPT ![slot[c]] = [ by |-> c, expiresAt |-> createdAt[c] + TTL ]]
        /\ createdAt' = [createdAt EXCEPT ![c] = 0]
    BY <1>4 DEF Put, Found
  <2>2. [ by |-> c, expiresAt |-> createdAt[c] + TTL ] # NoRow
    BY NobodyAssumption DEF NoRow
  <2>3. createdAt[c] <= now
    BY DEF Remembered
  <2>4. \A d \in Callers : createdAt'[d] <= now
    BY <1>0, <2>1 DEF Remembered
  <2> QED
    BY <1>0, <2>1, <2>2, <2>3, <2>4 DEF Remembered
<1>5. \/ UNCHANGED <<data, createdAt>> /\ now' \in {now, now + 1}
      \/ \E c \in Callers : Operation(c) \/ Delete(c) \/ QueryRefused(c) \/ Put(c)
  BY DEF Next, Query, Call, Connect, Lock, Get, Unlock, ConnectRefused, UnlockRefused, Tick,
         vars, data
<1> QED
  BY <1>1, <1>2, <1>3, <1>4, <1>5

LEMMA StepInv == IInv /\ [Next]_vars => IInv'
  BY StepTypes, StepLocked, StepFound, StepRemembered DEF IInv

\* Once a result was stored, its operation does not run again within the time to live,
\* counted from when the result was made: while put waits for a client, time passes.
THEOREM NothingRerun == Spec => NoRerunWithinTTL
<1>1. ASSUME IInv, [Next]_vars, NEW c \in Callers,
             pc[c] \in { "get", "delete" }, pc'[c] = "operation"
      PROVE  lastMade[slot[c]] = Never \/ now - lastMade[slot[c]] >= TTL
  <2>0. /\ slot[c] \in Slots /\ lastMade[slot[c]] \in Nat /\ now \in Nat /\ TTL \in Nat
    BY <1>1, BoundAssumption DEF IInv, TypeInv, TypeOK, Never
  <2>1. Get(c) \/ Delete(c)
    BY <1>1, ZenonT(40) DEF Next, Query, Call, Connect, Lock, Get, Delete, Operation, Put, Unlock,
                            ConnectRefused, QueryRefused, UnlockRefused, AfterRefusal, Tick, vars, Goto, IInv, TypeInv, TypeOK
  <2>2. row[slot[c]] = NoRow \/ row[slot[c]].expiresAt <= now
    BY <1>1, <2>1 DEF Get, Delete, Goto, IInv, TypeInv, TypeOK, Found, Expired
  <2> QED
    BY <1>1, <2>0, <2>2 DEF IInv, Remembered
<1>2. IInv /\ [Next]_vars =>
        [\A c \in Callers : pc[c] \in { "get", "delete" } /\ pc'[c] = "operation"
           => LET last == lastMade[slot[c]] IN last = Never \/ now - last >= TTL]_vars
  BY <1>1
<1> QED
  BY <1>2, InitInv, StepInv, PTL DEF Spec, NoRerunWithinTTL
-----------------------------------------------------------------------------
(* Single flight *)

Holder == [ s \in Slots |-> IF lock[s] = Gone THEN Nobody ELSE lock[s] ]
Result == [ s \in Slots |-> row[s].by ]

\* A step of the code is a step of the promise, or changes nothing of it.
LEMMA StepImplements ==
  ASSUME IInv, [Next]_vars
  PROVE  [Abstract!SNext]_<<[ s \in Slots |-> IF lock[s] = Gone THEN Nobody ELSE lock[s] ],
                            [ s \in Slots |-> row[s].by ]>>
<1>0. /\ pc \in [Callers -> Pc] /\ slot \in [Callers -> Slots]
      /\ lock \in [Slots -> Callers \cup {Nobody, Gone}] /\ row \in [Slots -> Row]
  BY DEF IInv, TypeInv, TypeOK
<1> USE DEF Holder, Result
<1>1. ASSUME NEW c \in Callers, Lock(c)
      PROVE  Abstract!Enter(slot[c], c)
  <2>1. Holder[slot[c]] = Nobody
    BY <1>0, <1>1 DEF Lock, Grantable
  <2>2. Holder' = [Holder EXCEPT ![slot[c]] = c]
    BY <1>0, <1>1, NobodyAssumption DEF Lock
  <2> QED
    BY <1>1, <2>1, <2>2 DEF Lock, data, Abstract!Enter
<1>2. ASSUME NEW c \in Callers, Delete(c) \/ QueryRefused(c)
      PROVE  Abstract!Expire(slot[c]) \/ UNCHANGED <<Holder, Result>>
  <2>1. CASE UNCHANGED row
    BY <1>2, <2>1 DEF Delete, QueryRefused
  <2>2. CASE pc[c] = "delete" /\ row' = [row EXCEPT ![slot[c]] = NoRow]
    <3>1. Holder[slot[c]] # Nobody
      BY <1>0, <2>2, NobodyAssumption DEF Inside, IInv, Locked
    <3>2. Result' = [Result EXCEPT ![slot[c]] = Nobody]
      BY <1>0, <2>2 DEF NoRow
    <3> QED
      BY <1>2, <3>1, <3>2 DEF Delete, QueryRefused, Abstract!Expire
  <2> QED
    BY <1>2, <2>1, <2>2 DEF Delete, QueryRefused
<1>3. ASSUME NEW c \in Callers, Put(c)
      PROVE  Abstract!Store(slot[c], c)
  <2>1. lock[slot[c]] = c /\ row[slot[c]] = NoRow
    BY <1>3 DEF Put, Inside, IInv, Locked, Found
  <2>2. Result[slot[c]] = Nobody /\ Holder[slot[c]] = c
    BY <1>0, <2>1, NobodyAssumption DEF NoRow
  <2>3. Result' = [Result EXCEPT ![slot[c]] = c]
    BY <1>0, <1>3, <2>1 DEF Put
  <2> QED
    BY <1>3, <2>2, <2>3 DEF Put, Abstract!Store
<1>4. ASSUME NEW c \in Callers, Unlock(c) \/ UnlockRefused(c)
      PROVE  Abstract!Leave(slot[c]) \/ UNCHANGED <<Holder, Result>>
  <2>1. Result' = Result
    BY <1>4 DEF Unlock, UnlockRefused, data
  <2>2. CASE lock[slot[c]] # c
    BY <1>4, <2>1, <2>2 DEF Unlock, UnlockRefused, Unlocked
  <2>3. CASE lock[slot[c]] = c
    <3>1. Holder[slot[c]] # Nobody
      BY <1>0, <2>3, NobodyAssumption
    <3>2. Holder' = [Holder EXCEPT ![slot[c]] = Nobody]
      BY <1>0, <1>4, <2>3 DEF Unlock, UnlockRefused, Unlocked
    <3> QED
      BY <2>1, <3>1, <3>2 DEF Abstract!Leave
  <2> QED
    BY <2>2, <2>3
<1>5. ASSUME NEW c \in Callers,
             \/ Lock(c) \/ Delete(c) \/ QueryRefused(c) \/ Put(c) \/ Unlock(c) \/ UnlockRefused(c)
      PROVE  Abstract!SNext \/ UNCHANGED <<Holder, Result>>
  <2>1. slot[c] \in Slots
    BY <1>0
  <2>2. \/ Abstract!Enter(slot[c], c) \/ Abstract!Store(slot[c], c)
        \/ Abstract!Expire(slot[c]) \/ Abstract!Leave(slot[c])
        \/ UNCHANGED <<Holder, Result>>
    BY <1>1, <1>2, <1>3, <1>4, <1>5
  <2> QED
    BY <2>1, <2>2
    DEF Abstract!SNext, Abstract!Enter, Abstract!Store, Abstract!Expire, Abstract!Leave
<1>6. \/ \E c \in Callers :
           Lock(c) \/ Delete(c) \/ QueryRefused(c) \/ Put(c) \/ Unlock(c) \/ UnlockRefused(c)
      \/ UNCHANGED <<lock, row>>
  BY DEF Next, Query, Call, Connect, Get, Operation, ConnectRefused, Tick, vars, data
<1> QED
  BY <1>5, <1>6

\* The store keeps the promise of single flight: results are stored by the holder of
\* the lock alone and never over another one.
THEOREM StoreIsSingleFlight == Spec => ImplementsSingleFlight
<1>1. Init => Abstract!SInit
  BY NobodyAssumption DEF Init, Abstract!SInit, NoRow
<1>2. IInv /\ [Next]_vars =>
        [Abstract!SNext]_<<[ s \in Slots |-> IF lock[s] = Gone THEN Nobody ELSE lock[s] ],
                           [ s \in Slots |-> row[s].by ]>>
  BY StepImplements
<1> QED
  BY <1>1, <1>2, InitInv, StepInv, PTL DEF Spec, ImplementsSingleFlight, Abstract!SSpec
=============================================================================
