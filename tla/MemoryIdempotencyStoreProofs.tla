--------------------- MODULE MemoryIdempotencyStoreProofs ---------------------
(* Proofs about MemoryIdempotencyStore, for any callers, slots, time to live and *)
(* number of calls: the chain of promises is a lock, its entries are reclaimed,  *)
(* and a stored result keeps its operation from running again.                   *)
EXTENDS MemoryIdempotencyStore, FiniteSetTheorems, TLAPS

Active(c)    == pc[c] # "idle"
InSlot(s)    == { c \in Callers : pc[c] # "idle" /\ slot[c] = s }
TypeInv      == TypeOK /\ LocksReclaimed

-----------------------------------------------------------------------------
(* Types and the count of pending callers *)

\* The callers at work in a slot are finitely many, and pending counts them.
LEMMA PendingCounts ==
  ASSUME TypeInv, NEW s \in Slots
  PROVE  /\ IsFiniteSet(InSlot(s)) /\ pending[s] = Cardinality(InSlot(s))
         /\ pending[s] \in Nat
         /\ \A c \in InSlot(s) : /\ pending[s] > 0
                                 /\ pending[s] - 1 = 0 => InSlot(s) = {c}
<1>1. IsFiniteSet(InSlot(s))
  <2>1. InSlot(s) \in SUBSET Callers
    BY DEF InSlot
  <2> QED
    BY <2>1, FS_Subset, FiniteCallersAssumption
<1>2. pending[s] = Cardinality(InSlot(s)) /\ pending[s] \in Nat
  BY DEF InSlot, TypeInv, TypeOK, LocksReclaimed
<1>3. \A c \in InSlot(s) : pending[s] > 0
  BY <1>1, <1>2, FS_EmptySet
<1>4. ASSUME pending[s] - 1 = 0, NEW c \in InSlot(s)
      PROVE  InSlot(s) = {c}
  <2>1. Cardinality(InSlot(s)) = 1
    BY <1>2, <1>4
  <2> QED
    BY <1>1, <2>1, <1>4, FS_Singleton
<1> QED
  BY <1>1, <1>2, <1>3, <1>4

LEMMA InitTypes == Init => TypeInv
<1> SUFFICES ASSUME Init
             PROVE  TypeInv
  OBVIOUS
<1>1. TypeOK
  BY TimeAssumption DEF Init, TypeOK, Pc, Record, NoRecord, Never
<1>2. LocksReclaimed
  <2>1. \A s \in Slots : { c \in Callers : pc[c] # "idle" /\ slot[c] = s } = {}
    BY DEF Init
  <2> QED
    BY <2>1, FS_EmptySet DEF Init, LocksReclaimed
<1> QED
  BY <1>1, <1>2 DEF TypeInv

\* A step within the lock moves one caller on, and none in or out of it.
LEMMA SameCount ==
  ASSUME TypeInv, NEW c \in Callers, NEW to \in Pc \ {"idle"}, pc[c] # "idle",
         pc' = [pc EXCEPT ![c] = to], UNCHANGED <<slot, pending>>
  PROVE  LocksReclaimed'
<1>1. \A d \in Callers : pc'[d] # "idle" <=> pc[d] # "idle"
  BY DEF TypeInv, TypeOK
<1>2. \A s \in Slots : { d \in Callers : pc'[d] # "idle" /\ slot'[d] = s }
                         = { d \in Callers : pc[d] # "idle" /\ slot[d] = s }
  BY <1>1
<1> QED
  BY <1>2 DEF TypeInv, LocksReclaimed

LEMMA CallTypes ==
  ASSUME TypeInv, NEW c \in Callers, NEW s \in Slots, Call(c, s)
  PROVE  TypeInv'
<1>1. /\ pc[c] = "idle" /\ pc' = [pc EXCEPT ![c] = "acquire"]
      /\ slot' = [slot EXCEPT ![c] = s] /\ pending' = [pending EXCEPT ![s] = @ + 1]
  BY DEF Call, Goto
<1>2. TypeOK'
  BY TimeAssumption DEF Call, Goto, data, TypeInv, TypeOK, Pc, Record, NoRecord, Never
<1>3. ASSUME NEW t \in Slots
      PROVE  pending'[t] = Cardinality(InSlot(t)')
  <2>1. IsFiniteSet(InSlot(t)) /\ pending[t] = Cardinality(InSlot(t))
    BY PendingCounts
  <2>2. CASE t = s
    <3>1. InSlot(t)' = InSlot(t) \cup {c} /\ c \notin InSlot(t)
      BY <1>1, <2>2 DEF InSlot, TypeInv, TypeOK
    <3>2. Cardinality(InSlot(t)') = Cardinality(InSlot(t)) + 1
      BY <2>1, <3>1, FS_AddElement
    <3> QED
      BY <1>1, <2>1, <2>2, <3>2 DEF TypeInv, TypeOK
  <2>3. CASE t # s
    <3>1. InSlot(t)' = InSlot(t)
      BY <1>1, <2>3 DEF InSlot, TypeInv, TypeOK
    <3> QED
      BY <1>1, <2>1, <2>3, <3>1 DEF TypeInv, TypeOK
  <2> QED
    BY <2>2, <2>3
<1> QED
  BY <1>2, <1>3 DEF TypeInv, LocksReclaimed, InSlot

LEMMA ReleaseTypes ==
  ASSUME TypeInv, NEW c \in Callers, Release(c)
  PROVE  TypeInv'
<1> DEFINE s == slot[c]
<1>1. /\ pc[c] = "release" /\ pc' = [pc EXCEPT ![c] = "idle"] /\ slot' = slot
      /\ pending' = [pending EXCEPT ![s] = pending[s] - 1]
  BY DEF Release, Goto, Leaving
<1>2. s \in Slots /\ c \in InSlot(s)
  BY <1>1 DEF TypeInv, TypeOK, InSlot
<1>3. pending[s] \in Nat /\ pending[s] > 0
  BY <1>2, PendingCounts
<1> HIDE DEF s
<1>4. TypeOK'
  <2>1. pending' \in [Slots -> Nat]
    BY <1>1, <1>2, <1>3 DEF TypeInv, TypeOK
  <2>2. pc' \in [Callers -> Pc]
    BY <1>1 DEF TypeInv, TypeOK, Pc
  <2>3. behind' \in [Callers -> Callers \cup {Nobody}] /\ tail' \in [Slots -> Callers \cup {Nobody}]
    BY DEF Release, TypeInv, TypeOK
  <2> QED
    BY <2>1, <2>2, <2>3 DEF Release, data, TypeInv, TypeOK, Record, NoRecord, Never
<1>5. ASSUME NEW t \in Slots
      PROVE  pending'[t] = Cardinality(InSlot(t)')
  <2>1. IsFiniteSet(InSlot(t)) /\ pending[t] = Cardinality(InSlot(t))
    BY PendingCounts
  <2>2. CASE t = s
    <3>1. InSlot(t)' = InSlot(t) \ {c}
      BY <1>1, <2>2 DEF InSlot, TypeInv, TypeOK
    <3>2. Cardinality(InSlot(t)') = Cardinality(InSlot(t)) - 1
      BY <1>2, <2>1, <2>2, <3>1, FS_RemoveElement
    <3> QED
      BY <1>1, <2>1, <2>2, <3>2 DEF TypeInv, TypeOK
  <2>3. CASE t # s
    <3>1. InSlot(t)' = InSlot(t)
      BY <1>1, <2>3 DEF InSlot, TypeInv, TypeOK, s
    <3> QED
      BY <1>1, <2>1, <2>3, <3>1 DEF TypeInv, TypeOK
  <2> QED
    BY <2>2, <2>3
<1> QED
  BY <1>4, <1>5 DEF TypeInv, LocksReclaimed, InSlot

LEMMA StepTypes == TypeInv /\ [Next]_vars => TypeInv'
<1> SUFFICES ASSUME TypeInv, [Next]_vars
             PROVE  TypeInv'
  OBVIOUS
<1>1. ASSUME NEW c \in Callers, Acquire(c) \/ Get(c) \/ Operation(c) \/ Put(c)
      PROVE  TypeInv'
  <2>1. PICK to \in Pc \ {"idle"} : pc' = [pc EXCEPT ![c] = to]
    BY <1>1 DEF Acquire, Get, Operation, Put, Goto, Pc
  <2>2. pc[c] # "idle" /\ UNCHANGED <<slot, locks, now, calls>>
    BY <1>1 DEF Acquire, Get, Operation, Put
  <2>3. stored' \in [Slots -> Record]
    <3>1. now \in 0..MaxTime /\ stored \in [Slots -> Record]
      BY DEF TypeInv, TypeOK
    <3>2. [ by |-> c, createdAt |-> now ] \in Record /\ NoRecord \in Record
      BY <3>1 DEF Record
    <3> QED
      BY <1>1, <3>1, <3>2 DEF Acquire, Get, Operation, Put, data
  <2>4. lastPut' \in [Slots -> 0..Never]
    BY <1>1, TimeAssumption DEF Acquire, Get, Operation, Put, data, TypeInv, TypeOK, Never
  <2>5. LocksReclaimed'
    BY <2>1, <2>2, SameCount DEF locks
  <2>6. pc' \in [Callers -> Pc]
    BY <2>1 DEF TypeInv, TypeOK
  <2> QED
    BY <2>2, <2>3, <2>4, <2>5, <2>6 DEF TypeInv, TypeOK, locks
<1>2. CASE Tick
  <2>1. now' \in 0..MaxTime
    BY <1>2, TimeAssumption DEF Tick, TypeInv, TypeOK
  <2> QED
    BY <1>2, <2>1 DEF Tick, callers, locks, data, TypeInv, TypeOK, LocksReclaimed
<1>3. CASE UNCHANGED vars
  BY <1>3 DEF vars, callers, locks, data, TypeInv, TypeOK, LocksReclaimed
<1> QED
  BY <1>1, <1>2, <1>3, CallTypes, ReleaseTypes DEF Next, Step

\* Every variable keeps its type.
THEOREM MemoryStoreTypeCorrect == Spec => []TypeOK
<1>1. TypeInv => TypeOK
  BY DEF TypeInv
<1> QED
  BY <1>1, InitTypes, StepTypes, PTL DEF Spec

\* The map of locks has an entry for a slot exactly while callers are at work on it,
\* and counts them: none is left over, none removed under a caller that waits.
THEOREM LocksAreReclaimed == Spec => []LocksReclaimed
<1>1. TypeInv => LocksReclaimed
  BY DEF TypeInv
<1> QED
  BY <1>1, InitTypes, StepTypes, PTL DEF Spec
-----------------------------------------------------------------------------
(* The chain of promises is a queue *)

\* Two callers at work in one slot.
Together(c, d) == Active(c) /\ Active(d) /\ slot[c] = slot[d]

\* A place for every caller: those of a slot have different ones, one that waits is
\* right behind the caller it waits for, one that does not is the first, and the
\* tail is the last.
Places(place) ==
  /\ \A c, d \in Callers : Together(c, d) =>
       /\ place[c] = place[d] => c = d
       /\ behind[c] = Nobody => place[c] <= place[d]
       /\ behind[c] # Nobody => \/ place[d] <= place[behind[c]]
                               \/ place[c] <= place[d]
  /\ \A c \in Callers : Active(c) /\ behind[c] # Nobody =>
       /\ pc[c] = "acquire"
       /\ Together(c, behind[c]) /\ place[behind[c]] < place[c]
  /\ \A c \in Callers : Active(c) =>
       LET last == tail[slot[c]]
       IN  last # Nobody /\ Together(c, last) /\ place[c] <= place[last]
  /\ \A s \in Slots : tail[s] # Nobody => Active(tail[s]) /\ slot[tail[s]] = s

Queue == \E place \in [Callers -> Nat] : Places(place)

LEMMA InitQueue == Init => Queue
<1> SUFFICES ASSUME Init
             PROVE  Queue
  OBVIOUS
<1> DEFINE place == [c \in Callers |-> 0]
<1>1. place \in [Callers -> Nat] /\ Places(place)
  BY DEF Init, Places, Together, Active
<1> QED
  BY <1>1 DEF Queue

\* A caller that comes takes the place after the last one.
LEMMA CallQueues ==
  ASSUME TypeInv, Queue, NEW c \in Callers, NEW s \in Slots, Call(c, s)
  PROVE  Queue'
<1>1. PICK place \in [Callers -> Nat] : Places(place)
  BY DEF Queue
<1>2. /\ pc[c] = "idle" /\ pc' = [pc EXCEPT ![c] = "acquire"]
      /\ slot' = [slot EXCEPT ![c] = s] /\ behind' = [behind EXCEPT ![c] = tail[s]]
      /\ tail' = [tail EXCEPT ![s] = c]
  BY DEF Call, Goto
<1>3. /\ pc \in [Callers -> Pc] /\ slot \in [Callers -> Slots]
      /\ behind \in [Callers -> Callers \cup {Nobody}] /\ tail \in [Slots -> Callers \cup {Nobody}]
  BY DEF TypeInv, TypeOK
<1>4. PICK end \in Nat : end = IF tail[s] = Nobody THEN 0 ELSE place[tail[s]] + 1
  BY <1>1, <1>3
<1>5. PICK next \in [Callers -> Nat] : next = [place EXCEPT ![c] = end]
  BY <1>1, <1>4
<1>6. next[c] = end /\ \A d \in Callers : d # c => next[d] = place[d]
  BY <1>5
<1>7. \A d \in Callers : Active(d) /\ slot[d] = s => tail[s] # Nobody /\ place[d] < end
  BY <1>1, <1>3, <1>4 DEF Places, Together
<1>8. /\ Active(c)' /\ slot'[c] = s /\ behind'[c] = tail[s]
      /\ \A d \in Callers : d # c => /\ Active(d)' = Active(d) /\ slot'[d] = slot[d]
                                     /\ behind'[d] = behind[d] /\ pc'[d] = pc[d]
      /\ \A t \in Slots : t # s => tail'[t] = tail[t]
      /\ tail'[s] = c /\ pc'[c] = "acquire" /\ ~ Active(c)
  BY <1>2, <1>3 DEF Active
<1>9. Places(next)'
  <2>1. \A d, e \in Callers : Together(d, e)' =>
          /\ next[d] = next[e] => d = e
          /\ behind'[d] = Nobody => next[d] <= next[e]
          /\ behind'[d] # Nobody => \/ next[e] <= next[behind'[d]]
                                   \/ next[d] <= next[e]
    <3> SUFFICES ASSUME NEW d \in Callers, NEW e \in Callers, Together(d, e)'
                 PROVE  /\ next[d] = next[e] => d = e
                        /\ behind'[d] = Nobody => next[d] <= next[e]
                        /\ behind'[d] # Nobody => \/ next[e] <= next[behind'[d]]
                                                 \/ next[d] <= next[e]
      OBVIOUS
    <3>1. CASE d # c /\ e # c
      BY <3>1, <1>1, <1>3, <1>6, <1>8 DEF Places, Together
    <3>2. CASE d = c /\ e # c
      <4>1. Active(e) /\ slot[e] = s
        BY <3>2, <1>8 DEF Together
      <4>2. tail[s] # Nobody /\ tail[s] \in Callers /\ tail[s] # c /\ next[e] < end
            /\ next[e] <= next[tail[s]]
        BY <4>1, <3>2, <1>1, <1>3, <1>6, <1>7, <1>8 DEF Places, Together
      <4> QED
        BY <4>1, <4>2, <3>2, <1>4, <1>6, <1>8
    <3>3. CASE d # c /\ e = c
      <4>1. Active(d) /\ slot[d] = s
        BY <3>3, <1>8 DEF Together
      <4>2. next[d] < end
        BY <4>1, <3>3, <1>6, <1>7
      <4> QED
        BY <4>1, <4>2, <3>3, <1>4, <1>6, <1>8
    <3>4. CASE d = c /\ e = c
      BY <3>4, <1>4
    <3> QED
      BY <3>1, <3>2, <3>3, <3>4
  <2>2. \A d \in Callers : Active(d)' /\ behind'[d] # Nobody =>
          /\ pc'[d] = "acquire"
          /\ Together(d, behind[d])' /\ next[behind'[d]] < next[d]
    <3> SUFFICES ASSUME NEW d \in Callers, Active(d)', behind'[d] # Nobody
                 PROVE  /\ pc'[d] = "acquire"
                        /\ Together(d, behind[d])' /\ next[behind'[d]] < next[d]
      OBVIOUS
    <3>1. CASE d # c
      BY <3>1, <1>1, <1>3, <1>6, <1>8 DEF Places, Together
    <3>2. CASE d = c
      <4>1. tail[s] \in Callers /\ tail[s] # c /\ Active(tail[s]) /\ slot[tail[s]] = s
        BY <3>2, <1>1, <1>3, <1>8 DEF Places
      <4>2. next[tail[s]] < next[c]
        BY <4>1, <1>6, <1>7
      <4> QED
        BY <4>1, <4>2, <3>2, <1>8 DEF Together
    <3> QED
      BY <3>1, <3>2
  <2>3. \A d \in Callers : Active(d)' =>
          /\ tail'[slot'[d]] # Nobody /\ Together(d, tail[slot[d]])'
          /\ next[d] <= next[tail'[slot'[d]]]
    <3> SUFFICES ASSUME NEW d \in Callers, Active(d)'
                 PROVE  /\ tail'[slot'[d]] # Nobody /\ Together(d, tail[slot[d]])'
                        /\ next[d] <= next[tail'[slot'[d]]]
      OBVIOUS
    <3>1. CASE slot'[d] = s
      <4>1. next[d] <= next[c]
        BY <3>1, <1>4, <1>6, <1>7, <1>8
      <4> QED
        BY <4>1, <3>1, <1>8, NobodyAssumption DEF Together
    <3>2. CASE slot'[d] # s
      <4>1. d # c /\ Active(d) /\ slot[d] # s /\ slot[d] \in Slots
        BY <3>2, <1>3, <1>8
      <4>2. /\ tail[slot[d]] # Nobody /\ Together(d, tail[slot[d]])
            /\ place[d] <= place[tail[slot[d]]]
        BY <4>1, <1>1 DEF Places
      <4>3. tail[slot[d]] \in Callers /\ tail[slot[d]] # c
        BY <4>1, <4>2, <1>3, <1>8 DEF Together
      <4> QED
        BY <4>1, <4>2, <4>3, <1>6, <1>8 DEF Together
    <3> QED
      BY <3>1, <3>2
  <2>4. \A t \in Slots : tail'[t] # Nobody => Active(tail[t])' /\ slot'[tail'[t]] = t
    BY <1>1, <1>3, <1>8 DEF Places
  <2> QED
    BY <2>1, <2>2, <2>3, <2>4 DEF Places
<1> QED
  BY <1>9 DEF Queue
\* The first caller leaves, and the one behind it becomes the first.
LEMMA ReleaseQueues ==
  ASSUME TypeInv, Queue, NEW c \in Callers, Release(c)
  PROVE  Queue'
<1>1. PICK place \in [Callers -> Nat] : Places(place)
  BY DEF Queue
<1>2. /\ pc[c] = "release" /\ pc' = [pc EXCEPT ![c] = "idle"] /\ slot' = slot
      /\ behind' = [d \in Callers |-> IF behind[d] = c THEN Nobody ELSE behind[d]]
      /\ tail' = [s \in Slots |-> IF tail[s] = c \/ (s = slot[c] /\ LastOut(s))
                                    THEN Nobody ELSE tail[s]]
  BY DEF Release, Goto, Follows
<1>3. /\ pc \in [Callers -> Pc] /\ slot \in [Callers -> Slots]
      /\ behind \in [Callers -> Callers \cup {Nobody}] /\ tail \in [Slots -> Callers \cup {Nobody}]
  BY DEF TypeInv, TypeOK
<1>4. Active(c) /\ behind[c] = Nobody /\ ~ Active(c)'
  BY <1>1, <1>2, <1>3 DEF Places, Active
<1>5. \A d \in Callers : Together(c, d) => place[c] <= place[d]
  BY <1>1, <1>4 DEF Places
<1>6. \A d \in Callers : Active(d)' <=> Active(d) /\ d # c
  BY <1>2, <1>3 DEF Active
<1>7. \A d \in Callers : Together(c, d) /\ d # c => place[c] < place[d]
  BY <1>1, <1>5 DEF Places
<1>8. \A d, e \in Callers : Together(d, e)' =>
        /\ place[d] = place[e] => d = e
        /\ behind'[d] = Nobody => place[d] <= place[e]
        /\ behind'[d] # Nobody => \/ place[e] <= place[behind'[d]]
                                 \/ place[d] <= place[e]
  <2> SUFFICES ASSUME NEW d \in Callers, NEW e \in Callers, Together(d, e)'
               PROVE  /\ place[d] = place[e] => d = e
                      /\ behind'[d] = Nobody => place[d] <= place[e]
                      /\ behind'[d] # Nobody => \/ place[e] <= place[behind'[d]]
                                               \/ place[d] <= place[e]
    OBVIOUS
  <2>1. Together(d, e) /\ d # c /\ e # c
    BY <1>2, <1>6 DEF Together
  <2>2. CASE behind[d] = c
    <3>1. Together(c, e) /\ behind[d] # Nobody
      BY <1>1, <2>1, <2>2, NobodyAssumption DEF Places, Together
    <3>2. place[c] < place[e]
      BY <3>1, <2>1, <1>7
    <3>3. place[d] <= place[e]
      BY <3>1, <3>2, <2>1, <2>2, <1>1 DEF Places
    <3> QED
      BY <3>3, <2>1, <2>2, <1>1, <1>2 DEF Places
  <2>3. CASE behind[d] # c
    BY <2>1, <2>3, <1>1, <1>2 DEF Places
  <2> QED
    BY <2>2, <2>3
<1>9. \A d \in Callers : Active(d)' /\ behind'[d] # Nobody =>
        /\ pc'[d] = "acquire"
        /\ Together(d, behind[d])' /\ place[behind'[d]] < place[d]
  <2> SUFFICES ASSUME NEW d \in Callers, Active(d)', behind'[d] # Nobody
               PROVE  /\ pc'[d] = "acquire"
                      /\ Together(d, behind[d])' /\ place[behind'[d]] < place[d]
    OBVIOUS
  <2>1. d # c /\ Active(d) /\ behind'[d] = behind[d] /\ behind[d] # c /\ behind[d] \in Callers
    BY <1>2, <1>3, <1>6
  <2>2. pc[d] = "acquire" /\ Together(d, behind[d]) /\ place[behind[d]] < place[d]
    BY <2>1, <1>1 DEF Places
  <2> QED
    BY <2>1, <2>2, <1>2, <1>3, <1>6 DEF Together
<1>10. \A d \in Callers : Active(d)' =>
         /\ tail'[slot'[d]] # Nobody /\ Together(d, tail[slot[d]])'
         /\ place[d] <= place[tail'[slot'[d]]]
  <2> SUFFICES ASSUME NEW d \in Callers, Active(d)'
               PROVE  /\ tail'[slot'[d]] # Nobody /\ Together(d, tail[slot[d]])'
                      /\ place[d] <= place[tail'[slot'[d]]]
    OBVIOUS
  <2>1. d # c /\ Active(d) /\ slot[d] \in Slots
    BY <1>3, <1>6
  <2>2. /\ tail[slot[d]] # Nobody /\ Together(d, tail[slot[d]])
        /\ place[d] <= place[tail[slot[d]]] /\ tail[slot[d]] \in Callers
    BY <2>1, <1>1, <1>3 DEF Places
  <2>3. tail[slot[d]] # c
    <3> SUFFICES ASSUME tail[slot[d]] = c
                 PROVE  FALSE
      OBVIOUS
    <3>1. Together(c, d)
      BY <2>2 DEF Together
    <3> QED
      BY <3>1, <2>1, <2>2, <1>1, <1>7
  <2>4. ~ (slot[d] = slot[c] /\ LastOut(slot[c]))
    <3> SUFFICES ASSUME slot[d] = slot[c], pending[slot[c]] - 1 = 0
                 PROVE  FALSE
      BY DEF LastOut, Leaving
    <3>1. c \in InSlot(slot[c]) /\ d \in InSlot(slot[c])
      BY <2>1, <1>4 DEF Active, InSlot
    <3>2. InSlot(slot[c]) = {c}
      BY <3>1, <2>1, PendingCounts
    <3> QED
      BY <3>1, <3>2, <2>1
  <2>5. tail'[slot'[d]] = tail[slot[d]]
    BY <2>1, <2>3, <2>4, <1>2
  <2> QED
    BY <2>1, <2>2, <2>3, <2>5, <1>2, <1>6 DEF Together
<1>11. \A t \in Slots : tail'[t] # Nobody => Active(tail[t])' /\ slot'[tail'[t]] = t
  BY <1>1, <1>2, <1>3, <1>6 DEF Places
<1>12. Places(place)'
  BY <1>8, <1>9, <1>10, <1>11 DEF Places
<1> QED
  BY <1>12 DEF Queue

\* A step within the lock is not one of a caller that waits.
LEMMA InsideQueues ==
  ASSUME TypeInv, Queue, NEW c \in Callers, NEW to \in Pc \ {"idle"}, pc[c] # "idle",
         pc' = [pc EXCEPT ![c] = to], UNCHANGED <<slot, behind, tail>>,
         behind[c] = Nobody
  PROVE  Queue'
<1>1. PICK place \in [Callers -> Nat] : Places(place)
  BY DEF Queue
<1>2. /\ \A d \in Callers : Active(d)' = Active(d)
      /\ \A d \in Callers : d # c => pc'[d] = pc[d]
  BY DEF Active, TypeInv, TypeOK
<1>3. behind \in [Callers -> Callers \cup {Nobody}] /\ tail \in [Slots -> Callers \cup {Nobody}]
  BY DEF TypeInv, TypeOK
<1>4. \A d, e \in Callers : Together(d, e)' = Together(d, e)
  BY <1>2 DEF Together
<1>5. Places(place)'
  <2>1. \A d \in Callers : Active(d) /\ behind[d] # Nobody => Together(d, behind[d])'
    BY <1>1, <1>3, <1>4 DEF Places
  <2>2. \A d \in Callers : Active(d) => Together(d, tail[slot[d]])'
    BY <1>1, <1>3, <1>4 DEF Places, TypeInv, TypeOK
  <2>3. \A t \in Slots : tail[t] # Nobody => Active(tail[t])' /\ slot[tail[t]] = t
    BY <1>1, <1>2, <1>3 DEF Places
  <2> QED
    BY <1>1, <1>2, <1>4, <2>1, <2>2, <2>3 DEF Places
<1> QED
  BY <1>5 DEF Queue

LEMMA StepQueue == TypeInv /\ Queue /\ [Next]_vars => Queue'
<1> SUFFICES ASSUME TypeInv, Queue, [Next]_vars
             PROVE  Queue'
  OBVIOUS
<1>1. ASSUME NEW c \in Callers, Acquire(c) \/ Get(c) \/ Operation(c) \/ Put(c)
      PROVE  Queue'
  <2>1. PICK to \in Pc \ {"idle"} : pc' = [pc EXCEPT ![c] = to]
    BY <1>1 DEF Acquire, Get, Operation, Put, Goto, Pc
  <2>2. pc[c] # "idle" /\ UNCHANGED <<slot, behind, tail>>
    BY <1>1 DEF Acquire, Get, Operation, Put, locks
  <2>3. behind[c] = Nobody
    BY <1>1, <2>2 DEF Acquire, Granted, Get, Operation, Put, Queue, Places, Active
  <2> QED
    BY <2>1, <2>2, <2>3, InsideQueues
<1>2. CASE Tick \/ UNCHANGED vars
  BY <1>2 DEF Tick, vars, callers, locks, Queue, Places, Together, Active
<1> QED
  BY <1>1, <1>2, CallQueues, ReleaseQueues DEF Next, Step

\* The callers past the chain are the first of their slots, and there is one first.
LEMMA QueueExcludes == TypeInv /\ Queue => OneHolder
<1> SUFFICES ASSUME TypeInv, Queue, NEW c \in Callers, NEW d \in Callers,
                    InLock(c), InLock(d), slot[c] = slot[d]
             PROVE  c = d
  BY DEF OneHolder
<1>1. PICK place \in [Callers -> Nat] : Places(place)
  BY DEF Queue
<1>2. Together(c, d) /\ Together(d, c) /\ behind[c] = Nobody /\ behind[d] = Nobody
  BY <1>1 DEF Places, Together, Active, InLock
<1>3. place[c] <= place[d] /\ place[d] <= place[c]
  BY <1>1, <1>2 DEF Places
<1> QED
  BY <1>1, <1>2, <1>3 DEF Places

\* The chain of promises is a lock: one caller per slot is past it, however many
\* callers come, and though the entry of the map comes and goes.
THEOREM OneHolderAtATime == Spec => []OneHolder
<1> QED
  BY InitTypes, StepTypes, InitQueue, StepQueue, QueueExcludes, PTL DEF Spec
\* A caller that waits is not overtaken by the one behind it.
THEOREM NobodyOvertakes == Spec => NoOvertaking
<1>1. ASSUME TypeInv, Queue, [Next]_vars, NEW c \in Callers, NEW d \in Callers,
             behind[d] = c, InLock(d)'
      PROVE  FALSE
  <2>1. InLock(d) \/ Acquire(d)
    BY <1>1, ZenonT(40) DEF Next, Step, Call, Acquire, Get, Operation, Put, Release, Tick, vars, callers,
                Goto, InLock, TypeInv, TypeOK
  <2>2. behind[d] # Nobody
    BY <1>1, NobodyAssumption
  <2> QED
    BY <1>1, <2>1, <2>2 DEF Acquire, Granted, Queue, Places, Active, InLock
<1>2. TypeInv /\ Queue /\ [Next]_vars =>
        [\A c, d \in Callers :
           pc[c] = "acquire" /\ behind[c] # Nobody /\ behind[d] = c => ~ (InLock(d))']_vars
  BY <1>1
<1> QED
  BY <1>2, InitTypes, StepTypes, InitQueue, StepQueue, PTL DEF Spec, NoOvertaking

-----------------------------------------------------------------------------
(* Results *)

\* What was stored last is there, or is older than the time to live.
Remembered ==
  \A s \in Slots : lastPut[s] # Never =>
    /\ lastPut[s] <= now
    /\ \/ stored[s] # NoRecord /\ stored[s].createdAt = lastPut[s]
       \/ now - lastPut[s] >= TTL

\* A caller that runs the operation found no result, and nobody has stored one since.
RunsAlone == \A c \in Callers : pc[c] \in {"operation", "put"} => stored[slot[c]] = NoRecord

\* All that happens to the results.
LEMMA ResultSteps ==
  ASSUME TypeInv, [Next]_vars
  PROVE  \/ /\ UNCHANGED <<stored, lastPut>> /\ now' \in {now, now + 1}
            /\ \A c \in Callers : pc[c] # "operation" /\ pc'[c] = "operation" =>
                                    stored[slot[c]] = NoRecord
         \/ \E c \in Callers : Get(c) /\ pc'[c] = "operation"
         \/ \E c \in Callers : Put(c)
<1>1. CASE \E c \in Callers : Get(c)
  <2>1. PICK c \in Callers : Get(c)
    BY <1>1
  <2>2. CASE pc'[c] = "operation"
    BY <2>1, <2>2
  <2>3. CASE pc'[c] # "operation"
    BY <2>1, <2>3 DEF Get, Goto, TypeInv, TypeOK
  <2> QED
    BY <2>2, <2>3
<1>2. CASE \E c \in Callers : Acquire(c) \/ Operation(c) \/ Release(c) \/ \E s \in Slots : Call(c, s)
  BY <1>2 DEF Acquire, Operation, Release, Call, Goto, data, TypeInv, TypeOK
<1>3. CASE Tick \/ UNCHANGED vars
  BY <1>3 DEF Tick, vars, data, callers
<1> QED
  BY <1>1, <1>2, <1>3 DEF Next, Step

LEMMA InitResults == Init => Remembered /\ RunsAlone
  BY DEF Init, Remembered, RunsAlone

LEMMA StepRemembered == TypeInv /\ Remembered /\ [Next]_vars => Remembered'
<1> SUFFICES ASSUME TypeInv, Remembered, [Next]_vars
             PROVE  Remembered'
  OBVIOUS
<1>1. /\ now \in 0..MaxTime /\ lastPut \in [Slots -> 0..Never] /\ stored \in [Slots -> Record]
      /\ slot \in [Callers -> Slots] /\ MaxTime \in Nat /\ TTL \in Nat
  BY TimeAssumption DEF TypeInv, TypeOK
<1>2. CASE UNCHANGED <<stored, lastPut>> /\ now' \in {now, now + 1}
  BY <1>1, <1>2 DEF Remembered, Never
<1>3. ASSUME NEW c \in Callers, Get(c), pc'[c] = "operation"
      PROVE  Remembered'
  <2>1. /\ UNCHANGED <<lastPut, now>> /\ stored' = [stored EXCEPT ![slot[c]] = NoRecord]
        /\ stored[slot[c]] # NoRecord => now - stored[slot[c]].createdAt >= TTL
    BY <1>3 DEF Get, HasExpired, Goto, TypeInv, TypeOK
  <2> QED
    BY <1>1, <2>1 DEF Remembered
<1>4. ASSUME NEW c \in Callers, Put(c)
      PROVE  Remembered'
  <2>1. /\ now' = now /\ lastPut' = [lastPut EXCEPT ![slot[c]] = now]
        /\ stored' = [stored EXCEPT ![slot[c]] = [ by |-> c, createdAt |-> now ]]
    BY <1>4 DEF Put
  <2>2. [ by |-> c, createdAt |-> now ] # NoRecord
    BY NobodyAssumption DEF NoRecord
  <2> QED
    BY <1>1, <2>1, <2>2 DEF Remembered
<1> QED
  BY <1>2, <1>3, <1>4, ResultSteps

LEMMA StepRunsAlone == TypeInv /\ OneHolder /\ RunsAlone /\ [Next]_vars => RunsAlone'
<1> SUFFICES ASSUME TypeInv, OneHolder, RunsAlone, [Next]_vars, NEW d \in Callers,
                    pc'[d] \in {"operation", "put"}
             PROVE  stored'[slot'[d]] = NoRecord
  BY DEF RunsAlone
<1>1. /\ slot \in [Callers -> Slots] /\ slot'[d] = slot[d]
      /\ \/ pc[d] \in {"operation", "put"}
         \/ pc[d] = "get" /\ pc'[d] = "operation" /\ Get(d)
  BY ZenonT(40) DEF Next, Step, Call, Acquire, Get, Operation, Put, Release, Tick, vars, callers, Goto,
         TypeInv, TypeOK
<1>2. CASE UNCHANGED stored /\ pc[d] \in {"operation", "put"}
  BY <1>1, <1>2 DEF RunsAlone
<1>3. ASSUME NEW c \in Callers, Get(c), pc'[c] = "operation"
      PROVE  stored'[slot'[d]] = NoRecord
  <2>1. stored' = [stored EXCEPT ![slot[c]] = NoRecord] /\ pc' = [pc EXCEPT ![c] = "operation"]
    BY <1>3 DEF Get, Goto, TypeInv, TypeOK
  <2>2. stored \in [Slots -> Record] /\ slot[d] \in Slots
    BY DEF TypeInv, TypeOK
  <2> QED
    BY <1>1, <2>1, <2>2 DEF RunsAlone, Get
<1>4. ASSUME NEW c \in Callers, Put(c)
      PROVE  stored'[slot'[d]] = NoRecord
  <2>1. /\ pc[c] = "put" /\ pc' = [pc EXCEPT ![c] = "release"]
        /\ stored' = [stored EXCEPT ![slot[c]] = [ by |-> c, createdAt |-> now ]]
    BY <1>4 DEF Put, Goto
  <2>2. d # c /\ pc[d] = pc'[d]
    BY <2>1 DEF TypeInv, TypeOK
  <2>3. slot[d] # slot[c]
    BY <2>1, <2>2 DEF OneHolder, InLock
  <2> QED
    BY <1>1, <2>1, <2>2, <2>3 DEF RunsAlone
<1> QED
  BY <1>1, <1>2, <1>3, <1>4, ResultSteps

\* Once a result was stored, its operation does not run again within the time to live.
THEOREM NothingRerun == Spec => NoRerunWithinTTL
<1>1. ASSUME TypeInv, Remembered, [Next]_vars, NEW c \in Callers,
             pc[c] = "get", pc'[c] = "operation"
      PROVE  lastPut[slot[c]] = Never \/ now - lastPut[slot[c]] >= TTL
  <2>1. Get(c)
    BY <1>1 DEF Next, Step, Call, Acquire, Get, Operation, Put, Release, Tick, vars, callers,
                Goto, TypeInv, TypeOK
  <2>2. stored[slot[c]] # NoRecord => now - stored[slot[c]].createdAt >= TTL
    BY <1>1, <2>1 DEF Get, HasExpired, Goto, TypeInv, TypeOK
  <2>3. slot[c] \in Slots
    BY <1>1 DEF TypeInv, TypeOK
  <2> QED
    BY <1>1, <2>2, <2>3 DEF Remembered
<1>2. TypeInv /\ Remembered /\ [Next]_vars =>
        [\A c \in Callers : pc[c] = "get" /\ pc'[c] = "operation"
           => LET last == lastPut[slot[c]] IN last = Never \/ now - last >= TTL]_vars
  BY <1>1
<1> QED
  BY <1>2, InitTypes, StepTypes, InitResults, StepRemembered, PTL DEF Spec, NoRerunWithinTTL
-----------------------------------------------------------------------------
(* Single flight *)

Result == [ s \in Slots |-> stored[s].by ]

\* The holder of a slot is whoever is past the chain, if anybody is.
HolderIsInLock ==
  \A s \in Slots :
    /\ \A c \in Callers : InLock(c) /\ slot[c] = s => Holder[s] = c
    /\ (\A c \in Callers : ~ (InLock(c) /\ slot[c] = s)) => Holder[s] = Nobody

LEMMA HolderFacts == OneHolder => HolderIsInLock
  BY DEF OneHolder, HolderIsInLock, Holder

\* The holders change as said, if nobody else enters or leaves.
LEMMA HolderChange ==
  ASSUME HolderIsInLock, HolderIsInLock', NEW s \in Slots, NEW to \in Callers \cup {Nobody},
         \A c \in Callers : slot[c] # s \/ slot'[c] # s =>
             (InLock(c)' <=> InLock(c)) /\ (InLock(c) => slot'[c] = slot[c]),
         IF to = Nobody THEN \A c \in Callers : slot'[c] = s => ~ InLock(c)'
                        ELSE slot'[to] = s /\ InLock(to)'
  PROVE  Holder' = [Holder EXCEPT ![s] = to]
<1>1. ASSUME NEW t \in Slots
      PROVE  Holder'[t] = IF t = s THEN to ELSE Holder[t]
  <2>1. CASE t = s
    BY <2>1, NobodyAssumption DEF HolderIsInLock
  <2>2. CASE t # s /\ \E c \in Callers : InLock(c) /\ slot[c] = t
    BY <2>2 DEF HolderIsInLock
  <2>3. CASE t # s /\ \A c \in Callers : ~ (InLock(c) /\ slot[c] = t)
    <3>1. \A c \in Callers : ~ (InLock(c)' /\ slot'[c] = t)
      BY <2>3
    <3> QED
      BY <2>3, <3>1 DEF HolderIsInLock
  <2> QED
    BY <2>1, <2>2, <2>3
<1> QED
  BY <1>1 DEF Holder

\* Nobody enters or leaves.
LEMMA HolderSame ==
  ASSUME HolderIsInLock, HolderIsInLock',
         \A c \in Callers : (InLock(c)' <=> InLock(c)) /\ (InLock(c) => slot'[c] = slot[c])
  PROVE  Holder' = Holder
<1>1. ASSUME NEW t \in Slots
      PROVE  Holder'[t] = Holder[t]
  <2>1. CASE \E c \in Callers : InLock(c) /\ slot[c] = t
    BY <2>1 DEF HolderIsInLock
  <2>2. CASE \A c \in Callers : ~ (InLock(c) /\ slot[c] = t)
    BY <2>2 DEF HolderIsInLock
  <2> QED
    BY <2>1, <2>2
<1> QED
  BY <1>1 DEF Holder

\* A step of the code is a step of the promise, or changes nothing of it.
LEMMA StepImplements ==
  ASSUME TypeInv, OneHolder, OneHolder', RunsAlone, HolderIsInLock, HolderIsInLock', [Next]_vars
  PROVE  [Abstract!SNext]_<<Holder, Result>>
<1>0. /\ slot \in [Callers -> Slots] /\ pc \in [Callers -> Pc] /\ stored \in [Slots -> Record]
  BY DEF TypeInv, TypeOK
<1>1. ASSUME NEW c \in Callers, NEW s \in Slots, Call(c, s)
      PROVE  UNCHANGED <<Holder, Result>>
  <2>1. \A d \in Callers : (InLock(d)' <=> InLock(d)) /\ (InLock(d) => slot'[d] = slot[d])
    BY <1>0, <1>1 DEF Call, Goto, InLock
  <2> QED
    BY <1>1, <2>1, HolderSame DEF Call, data, Result
<1>2. ASSUME NEW c \in Callers, Acquire(c)
      PROVE  Abstract!Enter(slot[c], c)
  <2>1. /\ pc[c] = "acquire" /\ InLock(c)' /\ ~ InLock(c) /\ slot' = slot /\ stored' = stored
        /\ \A d \in Callers : d # c => (InLock(d)' <=> InLock(d))
    BY <1>0, <1>2 DEF Acquire, Goto, InLock, data
  <2>2. \A d \in Callers : ~ (InLock(d) /\ slot[d] = slot[c])
    BY <2>1 DEF OneHolder
  <2>3. Holder[slot[c]] = Nobody
    BY <1>0, <2>2 DEF HolderIsInLock
  <2>4. Holder' = [Holder EXCEPT ![slot[c]] = c]
    BY <1>0, <2>1, NobodyAssumption, HolderChange
  <2> QED
    BY <2>1, <2>3, <2>4 DEF Abstract!Enter, Result
<1>3. ASSUME NEW c \in Callers, Get(c) \/ Operation(c) \/ Put(c)
      PROVE  Holder' = Holder /\ Holder[slot[c]] = c
  <2>1. InLock(c) /\ \A d \in Callers : (InLock(d)' <=> InLock(d)) /\ slot'[d] = slot[d]
    BY <1>0, <1>3 DEF Get, Operation, Put, Goto, InLock
  <2>2. Holder' = Holder
    BY <2>1, HolderSame
  <2> QED
    BY <1>0, <2>1, <2>2 DEF HolderIsInLock
<1>4. ASSUME NEW c \in Callers, Get(c)
      PROVE  Abstract!Expire(slot[c]) \/ UNCHANGED <<Holder, Result>>
  <2>1. CASE stored' = stored
    BY <1>3, <1>4, <2>1 DEF Result
  <2>2. CASE stored' = [stored EXCEPT ![slot[c]] = NoRecord]
    <3>1. Result' = [Result EXCEPT ![slot[c]] = Nobody]
      BY <1>0, <2>2 DEF Result, NoRecord
    <3> QED
      BY <1>3, <1>4, <3>1, NobodyAssumption DEF Abstract!Expire, Result
  <2> QED
    BY <1>4, <2>1, <2>2 DEF Get
<1>5. ASSUME NEW c \in Callers, Put(c)
      PROVE  Abstract!Store(slot[c], c)
  <2>1. Result[slot[c]] = Nobody
    BY <1>0, <1>5 DEF Put, RunsAlone, Result, NoRecord
  <2>2. Result' = [Result EXCEPT ![slot[c]] = c]
    BY <1>0, <1>5 DEF Put, Result
  <2> QED
    BY <1>3, <1>5, <2>1, <2>2 DEF Abstract!Store, Result
<1>6. ASSUME NEW c \in Callers, Operation(c)
      PROVE  UNCHANGED <<Holder, Result>>
  BY <1>3, <1>6 DEF Operation, data, Result
<1>7. ASSUME NEW c \in Callers, Release(c)
      PROVE  Abstract!Leave(slot[c])
  <2>1. /\ InLock(c) /\ ~ InLock(c)' /\ slot' = slot /\ stored' = stored
        /\ \A d \in Callers : d # c => (InLock(d)' <=> InLock(d))
    BY <1>0, <1>7 DEF Release, Goto, InLock, data
  <2>2. Holder[slot[c]] = c
    BY <1>0, <2>1 DEF HolderIsInLock
  <2>3. \A d \in Callers : slot'[d] = slot[c] => ~ InLock(d)'
    BY <2>1 DEF OneHolder
  <2>4. Holder' = [Holder EXCEPT ![slot[c]] = Nobody]
    BY <1>0, <2>1, <2>3, HolderChange
  <2> QED
    BY <2>1, <2>2, <2>4, NobodyAssumption DEF Abstract!Leave, Result
<1>8. CASE Tick \/ UNCHANGED vars
  BY <1>8 DEF Tick, vars, callers, data, Holder, InLock, Result
<1>9. ASSUME NEW c \in Callers, Step(c)
      PROVE  Abstract!SNext \/ UNCHANGED <<Holder, Result>>
  <2>1. slot[c] \in Slots
    BY <1>0
  <2>2. \/ Abstract!Enter(slot[c], c) \/ Abstract!Store(slot[c], c)
        \/ Abstract!Expire(slot[c]) \/ Abstract!Leave(slot[c])
        \/ UNCHANGED <<Holder, Result>>
    BY <1>2, <1>4, <1>5, <1>6, <1>7, <1>9 DEF Step
  <2> QED
    BY <1>9, <2>1, <2>2
    DEF Abstract!SNext, Abstract!Enter, Abstract!Store, Abstract!Expire, Abstract!Leave
<1>10. Abstract!SNext \/ UNCHANGED <<Holder, Result>>
  BY <1>1, <1>8, <1>9 DEF Next
<1> QED
  BY <1>10

\* The store keeps the promise of single flight: results are stored by the holder
\* alone and never over another one.
THEOREM StoreIsSingleFlight == Spec => ImplementsSingleFlight
<1>1. Init => Abstract!SInit
  BY DEF Init, Abstract!SInit, Holder, InLock, NoRecord
<1>2. Spec => [](TypeInv /\ Queue)
  BY InitTypes, StepTypes, InitQueue, StepQueue, PTL DEF Spec
<1>3. Spec => [](TypeInv /\ OneHolder /\ RunsAlone /\ HolderIsInLock)
  BY <1>2, InitResults, StepRunsAlone, QueueExcludes, HolderFacts, PTL DEF Spec
<1>4. /\ TypeInv /\ OneHolder /\ RunsAlone /\ HolderIsInLock
      /\ (TypeInv /\ OneHolder /\ RunsAlone /\ HolderIsInLock)' /\ [Next]_vars
      => [Abstract!SNext]_<<Holder, Result>>
  BY StepImplements
<1>5. [Abstract!SNext]_<<Holder, Result>>
        => [Abstract!SNext]_<<Holder, [ s \in Slots |-> stored[s].by ]>>
  BY DEF Result
<1> QED
  BY <1>1, <1>3, <1>4, <1>5, PTL DEF Spec, ImplementsSingleFlight, Abstract!SSpec
=============================================================================
