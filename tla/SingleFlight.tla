----------------------------- MODULE SingleFlight -----------------------------
(***************************************************************************)
(* What an idempotency store promises for each slot, a pair of scope and   *)
(* key (ports/idempotency-store.ts): one caller at a time works on it, and *)
(* a result, once stored, stays what it is until it expires.               *)
(***************************************************************************)
CONSTANTS Slots, Callers, Nobody

VARIABLES
  holder,   \* per slot: the caller working on it
  result    \* per slot: the caller whose result is stored

SInit ==
  /\ holder = [ s \in Slots |-> Nobody ]
  /\ result = [ s \in Slots |-> Nobody ]

Enter(s, c) ==
  /\ holder[s] = Nobody
  /\ holder' = [holder EXCEPT ![s] = c]
  /\ UNCHANGED result

\* Only the holder stores, and never over a result that is there.
Store(s, c) ==
  /\ holder[s] = c
  /\ result[s] = Nobody
  /\ result' = [result EXCEPT ![s] = c]
  /\ UNCHANGED holder

Expire(s) ==
  /\ holder[s] # Nobody
  /\ result' = [result EXCEPT ![s] = Nobody]
  /\ UNCHANGED holder

Leave(s) ==
  /\ holder[s] # Nobody
  /\ holder' = [holder EXCEPT ![s] = Nobody]
  /\ UNCHANGED result

SNext ==
  \E s \in Slots :
    \/ \E c \in Callers : Enter(s, c) \/ Store(s, c)
    \/ Expire(s) \/ Leave(s)

SSpec == SInit /\ [][SNext]_<<holder, result>>
=============================================================================
