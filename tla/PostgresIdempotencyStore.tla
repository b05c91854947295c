----------------------- MODULE PostgresIdempotencyStore -----------------------
(***************************************************************************)
(* The PostgreSQL idempotency store                                        *)
(* (adapters/postgres/idempotency-store.ts) under the calls that           *)
(* executeIdempotent makes: withKeyLock around get, operation and put.     *)
(*                                                                         *)
(* withKeyLock takes a client of the pool and holds it, with an advisory   *)
(* lock of that session, until the operation is over.  get, put and the    *)
(* queries of the operation take clients of the same pool, one at a time   *)
(* and for one query each: they only need a free one.  A query may be      *)
(* refused; when that happens to pg_advisory_unlock, release is skipped,   *)
(* and the pool has lost the client.                                       *)
(*                                                                         *)
(* A connection that breaks while its client is taken raises an event that *)
(* the code does not listen to, and the process stops: that is Fail in     *)
(* PaymentOrchestrator, and not repeated here.                             *)
(***************************************************************************)
EXTENDS Integers, FiniteSets

CONSTANTS
  Callers,    \* concurrent calls of executeIdempotent
  Nobody,     \* "no caller"
  Gone,       \* "a session whose client the pool has lost"
  Slots,      \* pairs of scope and key
  PoolSize,   \* clients of the pool
  TTL,        \* clock ticks a stored result lives
  MaxTime,    \* bound: clock ticks
  MaxCalls,   \* bound: calls
  MaxFaults   \* bound: queries that are refused

ASSUME NobodyAssumption == Nobody \notin Callers /\ Gone \notin Callers /\ Gone # Nobody
ASSUME FiniteCallersAssumption == IsFiniteSet(Callers)
ASSUME BoundAssumption ==
  PoolSize \in Nat /\ TTL \in Nat /\ MaxTime \in Nat /\ MaxCalls \in Nat /\ MaxFaults \in Nat

VARIABLES
  pc,        \* caller: the await it is parked at
  slot,      \* caller: the slot of its call
  createdAt, \* caller: when its result was made, until it is stored
  free,      \* clients of the pool nobody has
  lost,      \* clients of the pool that were never released
  lock,      \* per slot: the caller whose session has the advisory lock
  row,       \* per slot: the row of pmc_idempotency_keys
  lastMade,  \* per slot: when the result stored last was made (history)
  now,       \* the clock
  calls,     \* bound: calls so far
  faults     \* bound: refused queries so far

pool  == <<free, lost>>
data  == <<row, lastMade>>
bound == <<calls, faults>>
vars  == <<pc, slot, createdAt, pool, lock, data, now, bound>>

NoRow == [ by |-> Nobody, expiresAt |-> 0 ]
Row   == [ by : Callers, expiresAt : 0..(MaxTime + TTL) ] \cup { NoRow }
Never == MaxTime + 1
Pc    == { "idle", "connect", "lock", "get", "delete", "operation", "put", "unlock" }

Init ==
  /\ pc        = [ c \in Callers |-> "idle" ]
  /\ slot      \in [ Callers -> Slots ]
  /\ \A c, d \in Callers : slot[c] = slot[d]   \* meaningless before the first call
  /\ createdAt = [ c \in Callers |-> 0 ]
  /\ free      = PoolSize
  /\ lost      = 0
  /\ lock      = [ s \in Slots |-> Nobody ]
  /\ row       = [ s \in Slots |-> NoRow ]
  /\ lastMade  = [ s \in Slots |-> Never ]
  /\ now       = 0
  /\ calls     = 0
  /\ faults    = 0

-----------------------------------------------------------------------------

Goto(c, to) == pc' = [pc EXCEPT ![c] = to]

Call(c, s) ==
  /\ pc[c] = "idle"
  /\ calls < MaxCalls
  /\ calls' = calls + 1
  /\ slot' = [slot EXCEPT ![c] = s]
  /\ Goto(c, "connect")
  /\ UNCHANGED <<createdAt, pool, lock, data, now, faults>>

\* pool.connect()
Connect(c) ==
  /\ pc[c] = "connect"
  /\ free > 0
  /\ free' = free - 1
  /\ Goto(c, "lock")
  /\ UNCHANGED <<slot, createdAt, lost, lock, data, now, bound>>

Grantable_Always(s) == TRUE                                                        \* mutant

Grantable(s) == lock[s] = Nobody

\* SELECT pg_advisory_lock
Lock(c) ==
  /\ pc[c] = "lock"
  /\ Grantable(slot[c])
  /\ lock' = [lock EXCEPT ![slot[c]] = c]
  /\ Goto(c, "get")
  /\ UNCHANGED <<slot, createdAt, pool, data, now, bound>>

\* pool.query takes a client for the time of one query.
CanQuery == free > 0

Expired_TooEarly(r) == r.expiresAt <= now + 1                                      \* mutant

Expired(r) == r.expiresAt <= now

Get(c) ==
  /\ pc[c] = "get"
  /\ CanQuery
  /\ LET r == row[slot[c]]
     IN  \/ r = NoRow /\ Goto(c, "operation")
         \/ r # NoRow /\ Expired(r) /\ Goto(c, "delete")
         \/ r # NoRow /\ ~ Expired(r) /\ Goto(c, "unlock")
  /\ UNCHANGED <<slot, createdAt, pool, lock, data, now, bound>>

Delete(c) ==
  /\ pc[c] = "delete"
  /\ CanQuery
  /\ row' = [row EXCEPT ![slot[c]] = NoRow]
  /\ Goto(c, "operation")
  /\ UNCHANGED <<slot, createdAt, pool, lock, lastMade, now, bound>>

\* The operation queries the database, then returns or throws.  The time of its
\* result is taken before put waits for a client.
Operation(c) ==
  /\ pc[c] = "operation"
  /\ CanQuery
  /\ \/ createdAt' = [createdAt EXCEPT ![c] = now] /\ Goto(c, "put")
     \/ Goto(c, "unlock") /\ UNCHANGED createdAt
  /\ UNCHANGED <<slot, pool, lock, data, now, bound>>

\* INSERT ... ON CONFLICT DO NOTHING: the result lives from when it was made.
Put(c) ==
  /\ pc[c] = "put"
  /\ CanQuery
  /\ LET s == slot[c]
     IN  /\ row' = IF row[s] = NoRow
                     THEN [row EXCEPT ![s] = [ by |-> c, expiresAt |-> createdAt[c] + TTL ]]
                     ELSE row
         /\ lastMade' = [lastMade EXCEPT ![s] = createdAt[c]]
  /\ createdAt' = [createdAt EXCEPT ![c] = 0]
  /\ Goto(c, "unlock")
  /\ UNCHANGED <<slot, pool, lock, now, bound>>

Query(c) == Get(c) \/ Delete(c) \/ Operation(c) \/ Put(c)

Unlocked_Kept(c) == lock                                                           \* mutant

\* pg_advisory_unlock frees a lock of its own session only: a caller whose
\* pg_advisory_lock was refused has none.
Unlocked(c) == IF lock[slot[c]] = c THEN [lock EXCEPT ![slot[c]] = Nobody] ELSE lock

\* The finally block: pg_advisory_unlock, then client.release().
Unlock(c) ==
  /\ pc[c] = "unlock"
  /\ lock' = Unlocked(c)
  /\ free' = free + 1
  /\ Goto(c, "idle")
  /\ UNCHANGED <<slot, createdAt, lost, data, now, bound>>

Fault == faults < MaxFaults /\ faults' = faults + 1

\* pool.connect() rejects: the call ends and has taken nothing.
ConnectRefused(c) ==
  /\ pc[c] = "connect"
  /\ Fault
  /\ Goto(c, "idle")
  /\ UNCHANGED <<slot, createdAt, pool, lock, data, now, calls>>

AfterRefusal_OutsideTry(c) == IF pc[c] = "lock" THEN "idle" ELSE "unlock"          \* mutant

\* The lock query is inside the try block, as all others.
AfterRefusal(c) == "unlock"

\* pg_advisory_lock, or a query under the lock, rejects: the finally block runs.  The
\* DELETE may have run all the same, when the client of its query breaks off; an
\* INSERT that did is Put, which also ends at unlock.
QueryRefused(c) ==
  /\ \/ pc[c] = "lock"
     \/ pc[c] \in { "get", "delete", "operation", "put" } /\ CanQuery
  /\ Fault
  /\ \/ UNCHANGED row
     \/ pc[c] = "delete" /\ row' = [row EXCEPT ![slot[c]] = NoRow]
  /\ createdAt' = [createdAt EXCEPT ![c] = 0]
  /\ Goto(c, AfterRefusal(c))
  /\ UNCHANGED <<slot, pool, lock, lastMade, now, calls>>

\* pg_advisory_unlock rejects: release is skipped, and the lock stays with the session
\* of the lost client.
UnlockRefused(c) ==
  /\ pc[c] = "unlock"
  /\ Fault
  /\ lock' = IF lock[slot[c]] = c THEN [lock EXCEPT ![slot[c]] = Gone] ELSE lock
  /\ lost' = lost + 1
  /\ Goto(c, "idle")
  /\ UNCHANGED <<slot, createdAt, free, data, now, calls>>

Tick ==
  /\ now < MaxTime
  /\ now' = now + 1
  /\ UNCHANGED <<pc, slot, createdAt, pool, lock, data, bound>>

Next ==
  \/ \E c \in Callers :
       \/ \E s \in Slots : Call(c, s)
       \/ Connect(c) \/ Lock(c) \/ Query(c) \/ Unlock(c)
       \/ ConnectRefused(c) \/ QueryRefused(c) \/ UnlockRefused(c)
  \/ Tick

Spec == Init /\ [][Next]_vars

\* The pool hands out its clients, and the server its locks, in the order they
\* were asked for: who waits gets one if one becomes free again and again.
FairSpec ==
  /\ Spec
  /\ \A c \in Callers :
       SF_vars(Connect(c)) /\ SF_vars(Lock(c)) /\ SF_vars(Query(c)) /\ WF_vars(Unlock(c))

-----------------------------------------------------------------------------
(* Properties *)

TypeOK ==
  /\ pc        \in [Callers -> Pc]
  /\ slot      \in [Callers -> Slots]
  /\ createdAt \in [Callers -> 0..MaxTime]
  /\ free      \in 0..PoolSize
  /\ lost      \in 0..PoolSize
  /\ lock      \in [Slots -> Callers \cup {Nobody, Gone}]
  /\ row       \in [Slots -> Row]
  /\ lastMade  \in [Slots -> 0..Never]
  /\ now       \in 0..MaxTime
  /\ calls     \in 0..MaxCalls
  /\ faults    \in 0..MaxFaults

\* However a call ends, by a result, an error of the operation or a refused query, its
\* client goes back to the pool; only a refused pg_advisory_unlock loses one.
NoOtherLeak ==
  free + lost + Cardinality({ c \in Callers : pc[c] \notin { "idle", "connect" } }) = PoolSize

\* Once a result was made and stored for a slot, no operation of that slot starts for
\* as long as the time to live, whoever waited meanwhile.  The time counts from when
\* the result was made: put may have to wait before it is stored.
NoRerunWithinTTL ==
  [][\A c \in Callers : pc[c] \in { "get", "delete" } /\ pc'[c] = "operation"
       => LET last == lastMade[slot[c]] IN last = Never \/ now - last >= TTL]_vars

\* Seen as a store, the callers between lock and unlock are the holders.
Abstract == INSTANCE SingleFlight
              WITH holder <- [ s \in Slots |-> IF lock[s] = Gone THEN Nobody ELSE lock[s] ],
                   result <- [ s \in Slots |-> row[s].by ]

\* The store keeps the promise of single flight: results are stored by the holder
\* of the lock alone and never over another one.
ImplementsSingleFlight == Abstract!SSpec

\* Every call ends.  With a pool as small as the number of callers it does not.
EveryCallEnds == \A c \in Callers : pc[c] # "idle" ~> pc[c] = "idle"

\* All clients that are left are taken, and nobody is about to return one.
Standstill == free = 0 /\ \A c \in Callers : pc[c] # "unlock"

\* A call that does not end is in one of two traps, whatever else goes wrong: every
\* client is held by a call that waits (for the lock, or for one more client), or the
\* lock it waits for stayed behind with a lost client.
OnlyTwoTraps ==
  \A c \in Callers :
    pc[c] # "idle" ~> pc[c] = "idle" \/ Standstill \/ lock[slot[c]] = Gone
=============================================================================
