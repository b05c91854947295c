------------------------ MODULE MemoryIdempotencyStore ------------------------
(***************************************************************************)
(* The in-memory idempotency store                                         *)
(* (adapters/inmemory/idempotency-store.ts) under the calls that           *)
(* executeIdempotent makes: withKeyLock around get, operation and put.     *)
(*                                                                         *)
(* A lock is a chain of promises: each caller waits for the one that was   *)
(* the tail when it came and becomes the tail itself.  behind[c] is the    *)
(* caller c still waits for; a link that was released is Nobody.  The map  *)
(* of locks has an entry for a slot exactly while pending is positive.     *)
(***************************************************************************)
EXTENDS Integers, FiniteSets

CONSTANTS
  Callers,   \* concurrent calls of executeIdempotent
  Nobody,    \* "no caller"
  Slots,     \* pairs of scope and key
  TTL,       \* clock ticks a stored result lives
  MaxTime,   \* bound: clock ticks
  MaxCalls   \* bound: calls

ASSUME NobodyAssumption == Nobody \notin Callers
ASSUME FiniteCallersAssumption == IsFiniteSet(Callers)
ASSUME TimeAssumption == TTL \in Nat /\ MaxTime \in Nat /\ MaxCalls \in Nat

VARIABLES
  pc,        \* caller: the await it is parked at
  slot,      \* caller: the slot of its call
  behind,    \* caller: the caller it waits for
  tail,      \* per slot: the end of the chain of promises
  pending,   \* per slot: callers between entering and leaving withKeyLock
  stored,    \* per slot: the record of the store
  lastPut,   \* per slot: when a result was last stored (history)
  now,       \* the clock
  calls      \* bound: calls so far

callers == <<pc, slot>>
locks   == <<behind, tail, pending>>
data    == <<stored, lastPut>>
vars    == <<callers, locks, data, now, calls>>

\* Who stored a result, and when.  What it holds matters to nobody here.
NoRecord == [ by |-> Nobody, createdAt |-> 0 ]
Record   == [ by : Callers, createdAt : 0..MaxTime ] \cup { NoRecord }

Never == MaxTime + 1

Pc == { "idle", "acquire", "get", "operation", "put", "release" }

Init ==
  /\ pc      = [ c \in Callers |-> "idle" ]
  /\ slot    \in [ Callers -> Slots ]
  /\ \A c, d \in Callers : slot[c] = slot[d]   \* meaningless before the first call
  /\ behind  = [ c \in Callers |-> Nobody ]
  /\ tail    = [ s \in Slots |-> Nobody ]
  /\ pending = [ s \in Slots |-> 0 ]
  /\ stored  = [ s \in Slots |-> NoRecord ]
  /\ lastPut = [ s \in Slots |-> Never ]
  /\ now     = 0
  /\ calls   = 0

-----------------------------------------------------------------------------

Goto(c, to) == pc' = [pc EXCEPT ![c] = to]

HasExpired_TooEarly(record) == now - record.createdAt >= TTL - 1                   \* mutant

HasExpired(record) == now - record.createdAt >= TTL

\* withKeyLock up to its await: the caller joins the end of the chain.
Call(c, s) ==
  /\ pc[c] = "idle"
  /\ calls < MaxCalls
  /\ calls'   = calls + 1
  /\ slot'    = [slot EXCEPT ![c] = s]
  /\ pending' = [pending EXCEPT ![s] = @ + 1]
  /\ behind'  = [behind EXCEPT ![c] = tail[s]]
  /\ tail'    = [tail EXCEPT ![s] = c]
  /\ Goto(c, "acquire")
  /\ UNCHANGED <<data, now>>

Granted_Barging(c) == TRUE                                                         \* mutant

Granted(c) == behind[c] = Nobody

Acquire(c) ==
  /\ pc[c] = "acquire"
  /\ Granted(c)
  /\ Goto(c, "get")
  /\ UNCHANGED <<slot, locks, data, now, calls>>

\* A live record is replayed, or refused when the fingerprint differs.  An
\* expired one is deleted.
Get(c) ==
  /\ pc[c] = "get"
  /\ LET record == stored[slot[c]]
     IN  \/ /\ record # NoRecord /\ ~ HasExpired(record)
            /\ Goto(c, "release")
            /\ UNCHANGED stored
         \/ /\ record # NoRecord => HasExpired(record)
            /\ Goto(c, "operation")
            /\ stored' = [stored EXCEPT ![slot[c]] = NoRecord]
  /\ UNCHANGED <<slot, locks, lastPut, now, calls>>

\* The operation returns, or throws.
Operation(c) ==
  /\ pc[c] = "operation"
  /\ Goto(c, "put") \/ Goto(c, "release")
  /\ UNCHANGED <<slot, locks, data, now, calls>>

Put(c) ==
  /\ pc[c] = "put"
  /\ stored' = [stored EXCEPT ![slot[c]] = [ by |-> c, createdAt |-> now ]]
  /\ lastPut' = [lastPut EXCEPT ![slot[c]] = now]
  /\ Goto(c, "release")
  /\ UNCHANGED <<slot, locks, now, calls>>

Leaving(s) == pending[s] - 1

LastOut_Always(s) == TRUE                                                          \* mutant

LastOut(s) == Leaving(s) = 0

Follows_Never(d, c) == FALSE                                                       \* mutant

Follows(d, c) == behind[d] = c

\* The finally block: whoever waits for this caller may go, and the last one out
\* removes the lock.
Release(c) ==
  /\ pc[c] = "release"
  /\ behind'  = [ d \in Callers |-> IF Follows(d, c) THEN Nobody ELSE behind[d] ]
  /\ tail'    = [ s \in Slots |->
                    IF tail[s] = c \/ (s = slot[c] /\ LastOut(s)) THEN Nobody ELSE tail[s] ]
  /\ pending' = [pending EXCEPT ![slot[c]] = Leaving(slot[c])]
  /\ Goto(c, "idle")
  /\ UNCHANGED <<slot, data, now, calls>>

Step(c) == Acquire(c) \/ Get(c) \/ Operation(c) \/ Put(c) \/ Release(c)

Tick ==
  /\ now < MaxTime
  /\ now' = now + 1
  /\ UNCHANGED <<callers, locks, data, calls>>

Next ==
  \/ \E c \in Callers : Step(c) \/ \E s \in Slots : Call(c, s)
  \/ Tick

Spec == Init /\ [][Next]_vars

\* Every promise a caller awaits is settled once it can be.
FairSpec == Spec /\ \A c \in Callers : WF_vars(Step(c))

-----------------------------------------------------------------------------
(* Properties *)

TypeOK ==
  /\ pc      \in [Callers -> Pc]
  /\ slot    \in [Callers -> Slots]
  /\ behind  \in [Callers -> Callers \cup {Nobody}]
  /\ tail    \in [Slots -> Callers \cup {Nobody}]
  /\ pending \in [Slots -> Nat]
  /\ stored  \in [Slots -> Record]
  /\ lastPut \in [Slots -> 0..Never]
  /\ now     \in 0..MaxTime
  /\ calls   \in 0..MaxCalls

InLock(c) == pc[c] \in { "get", "operation", "put", "release" }

\* The chain of promises is a lock: one caller per slot is past it, though the
\* entry of the map comes and goes.
OneHolder ==
  \A c, d \in Callers : InLock(c) /\ InLock(d) /\ slot[c] = slot[d] => c = d

\* The map of locks keeps no entry for a slot nobody works on, and none is removed
\* while somebody waits for it.
LocksReclaimed ==
  \A s \in Slots : pending[s] = Cardinality({ c \in Callers : pc[c] # "idle" /\ slot[c] = s })

\* Once a result was stored for a slot, no operation of that slot starts for as
\* long as the time to live, whoever waited meanwhile.
NoRerunWithinTTL ==
  [][\A c \in Callers : pc[c] = "get" /\ pc'[c] = "operation"
       => LET last == lastPut[slot[c]] IN last = Never \/ now - last >= TTL]_vars

Holder == [ s \in Slots |->
  IF \E c \in Callers : InLock(c) /\ slot[c] = s
    THEN CHOOSE c \in Callers : InLock(c) /\ slot[c] = s
    ELSE Nobody ]

Abstract == INSTANCE SingleFlight
              WITH holder <- Holder, result <- [ s \in Slots |-> stored[s].by ]

\* The store keeps the promise of single flight: results are stored by the holder
\* alone and never over another one.
ImplementsSingleFlight == Abstract!SSpec

\* Every call ends: the chain passes on whether operations return, throw or replay.
EveryCallEnds == \A c \in Callers : pc[c] # "idle" ~> pc[c] = "idle"

\* First come, first served: a caller is never overtaken by one that joined the
\* chain of its slot later.
NoOvertaking ==
  [][\A c, d \in Callers :
       pc[c] = "acquire" /\ behind[c] # Nobody /\ behind[d] = c => ~ (InLock(d))']_vars
=============================================================================
