---------------------- MODULE PaymentOrchestratorProofs ----------------------
(***************************************************************************)
(* Proofs about PaymentOrchestrator, for every set of handlers, keys,      *)
(* intents and chargebacks and for every bound.                            *)
(***************************************************************************)
EXTENDS PaymentOrchestrator, FiniteSetTheorems, TLAPS

-----------------------------------------------------------------------------
(* Records *)

LEMMA BlankType ==
  /\ BlankIntent \in IntentRecord
  /\ NoChargebacks \in [Chargebacks -> ChargebackRecord]
  /\ EmptyLedger \in LedgerTotals
  BY DEF BlankIntent, IntentRecord, CaptureMethod, EmptyLedger, LedgerTotals,
     NoChargebacks, BlankChargeback, ChargebackRecord

\* Assigning one field of an intent keeps it an intent.
LEMMA IntentFields ==
  ASSUME NEW r \in IntentRecord
  PROVE  /\ \A s \in PaymentStatus : [r EXCEPT !.status = s] \in IntentRecord
         /\ \A n \in Nat : [r EXCEPT !.authorized = n] \in IntentRecord
         /\ \A n \in Nat : [r EXCEPT !.captured = n] \in IntentRecord
         /\ \A n \in Nat : [r EXCEPT !.refunded = n] \in IntentRecord
         /\ [r EXCEPT !.routed = TRUE] \in IntentRecord
         /\ r.amount \in Nat /\ r.captured \in Nat /\ r.refunded \in Nat /\ r.authorized \in Nat
  BY DEF IntentRecord

\* Which assignments change the status of an intent.
LEMMA StatusFields ==
  ASSUME NEW r \in IntentRecord
  PROVE  /\ \A s : [r EXCEPT !.status = s].status = s
         /\ \A n : [r EXCEPT !.authorized = n].status = r.status
         /\ \A n : [r EXCEPT !.captured = n].status = r.status
         /\ \A n : [r EXCEPT !.refunded = n].status = r.status
         /\ [r EXCEPT !.routed = TRUE].status = r.status
  BY DEF IntentRecord

LEMMA Statuses ==
  /\ "processing" \in PaymentStatus /\ "failed" \in PaymentStatus
  /\ "requires_action" \in PaymentStatus /\ "succeeded" \in PaymentStatus
  /\ "canceled" \in PaymentStatus /\ "requires_confirmation" \in PaymentStatus
  BY DEF PaymentStatus

LEMMA RequestAmount ==
  ASSUME NEW q \in Request, q.op \in { "create", "capture", "refund", "dispute" }
  PROVE  q.amount \in Nat
  BY DEF Request

-----------------------------------------------------------------------------
(* What the helpers preserve *)

\* A handler whose pc, request and intent did not change is still well parked.
LEMMA OtherHandlers ==
  ASSUME NEW g \in Handlers, HandlerOK(g),
         pc'[g] = pc[g], req'[g] = req[g], target'[g] = target[g]
  PROVE  HandlerOK(g)'
  BY DEF HandlerOK

\* Moving to another await of the same operation.
LEMMA MovedOK ==
  ASSUME HandlersOK, NEW h \in Handlers, NEW to \in EarlyPc \cup LatePc,
         pc[h] # "idle", Serves(req[h].op, to),
         to \notin EarlyPc => target[h] \in Intents,
         Goto(h, to), UNCHANGED <<req, target>>
  PROVE  /\ pc' \in [Handlers -> EarlyPc \cup LatePc]
         /\ \A g \in Handlers : HandlerOK(g)'
<1>1. HandlerOK(h)'
  BY DEF HandlersOK, HandlerOK, Goto
<1>2. ASSUME NEW g \in Handlers, g # h PROVE HandlerOK(g)'
  BY <1>2, OtherHandlers DEF HandlersOK, Goto
<1> QED
  BY <1>1, <1>2 DEF HandlersOK, Goto

LEMMA ReleaseOK ==
  ASSUME HandlersOK, NEW h \in Handlers, Release(h)
  PROVE  HandlersOK'
<1> USE DEF HandlersOK, Release, Goto
<1>1. HandlerOK(h)'
  BY DEF HandlerOK
<1>2. ASSUME NEW g \in Handlers, g # h PROVE HandlerOK(g)'
  BY <1>2, OtherHandlers
<1> QED
  BY <1>1, <1>2, BlankType DEF EarlyPc

LEMMA ThrowOK ==
  ASSUME TypeOK, NEW h \in Handlers, Throw(h)
  PROVE  TypeOK'
  BY ReleaseOK DEF TypeOK, WorldOK, Throw, store, outer, bounds

LEMMA SaveOK ==
  ASSUME TypeOK, NEW h \in Handlers, target[h] \in Intents,
         NEW r \in IntentRecord, Save(h, r)
  PROVE  intents' \in [Intents -> IntentRecord] /\ copy' \in [Handlers -> IntentRecord]
  BY DEF Save, TypeOK, WorldOK, HandlersOK

LEMMA AssignOK ==
  ASSUME TypeOK, NEW h \in Handlers, target[h] \in Intents,
         NEW r \in IntentRecord, Assign(h, r)
  PROVE  intents' \in [Intents -> IntentRecord] /\ copy' \in [Handlers -> IntentRecord]
  BY DEF Assign, TypeOK, WorldOK, HandlersOK

LEMMA ViewOK ==
  ASSUME TypeOK, NEW h \in Handlers, target[h] \in Intents
  PROVE  View(h) \in IntentRecord
  BY DEF View, TypeOK, WorldOK, HandlersOK

LEMMA LedgerOK ==
  ASSUME TypeOK, NEW h \in Handlers, target[h] \in Intents, NEW n \in Nat,
         NEW type \in { "authorization", "capture", "refund", "chargeback" },
         AppendLedgerEntry(h, type, n)
  PROVE  ledger' \in [Intents -> LedgerTotals]
  BY SMTT(30) DEF AppendLedgerEntry, TypeOK, WorldOK, LedgerTotals

-----------------------------------------------------------------------------
(* Initialisation *)

LEMMA InitTypeOK == Init => TypeOK
  BY BlankType, NoIntentAssumption, BoundAssumption
  DEF Init, TypeOK, WorldOK, HandlersOK, HandlerOK,  EarlyPc, LatePc,
      NoChargebacks, BlankChargeback


-----------------------------------------------------------------------------
(* One lemma per action: it preserves the type invariant *)

LEMMA ArriveType == ASSUME TypeOK, NEW h \in Handlers, Arrive(h) PROVE TypeOK'
<1> USE DEF TypeOK, HandlersOK
<1>1. pc' = [pc EXCEPT ![h] = "lock"] /\ arrived' \in 0..MaxRequests
  BY BoundAssumption DEF Arrive, Goto, WorldOK
<1>4. PICK q \in Request : req' = [req EXCEPT ![h] = q]
  BY Zenon DEF Arrive
<1>2. HandlerOK(h)'
  BY <1>1, <1>4 DEF HandlerOK, Serves, EarlyPc
<1>3. ASSUME NEW g \in Handlers, g # h PROVE HandlerOK(g)'
  BY <1>1, <1>3, <1>4, OtherHandlers DEF Arrive
<1> QED
  BY <1>1, <1>2, <1>3, <1>4 DEF Arrive, WorldOK, store, outer, EarlyPc

LEMMA LockType == ASSUME TypeOK, NEW h \in Handlers, Lock(h) PROVE TypeOK'
<1>1. /\ pc' \in [Handlers -> EarlyPc \cup LatePc]
      /\ \A g \in Handlers : HandlerOK(g)'
  BY MovedOK DEF TypeOK, Lock, EarlyPc, Serves, locals
<1> QED
  BY <1>1 DEF Lock, TypeOK, WorldOK, HandlersOK, store, outer, locals, bounds

LEMMA LookupType == ASSUME TypeOK, NEW h \in Handlers, Lookup(h) PROVE TypeOK'
<1>1. CASE Throw(h)
  BY <1>1, ThrowOK
<1>2. CASE /\ Goto(h, IF req[h].op = "create" THEN "create" ELSE "read")
           /\ UNCHANGED <<store, records, published, outer, locals, bounds>>
  <2>1. req[h].op \in { "create", "confirm", "cancel", "capture", "refund", "dispute", "resolve" }
    BY DEF Lookup, TypeOK, HandlersOK, HandlerOK, Request
  <2>2. /\ pc' \in [Handlers -> EarlyPc \cup LatePc]
        /\ \A g \in Handlers : HandlerOK(g)'
    <3>1. CASE req[h].op = "create"
      BY <1>2, <3>1, MovedOK DEF TypeOK, Lookup, EarlyPc, Serves, locals
    <3>2. CASE req[h].op # "create"
      BY <1>2, <2>1, <3>2, MovedOK DEF TypeOK, Lookup, EarlyPc, Serves, locals
    <3> QED
      BY <3>1, <3>2
  <2> QED
    BY <1>2, <2>2 DEF TypeOK, WorldOK, HandlersOK, store, outer, locals, bounds
<1> QED
  BY <1>1, <1>2 DEF Lookup

LEMMA PutType == ASSUME TypeOK, NEW h \in Handlers, Put(h) PROVE TypeOK'
<1>1. req[h] \in Request
  BY DEF TypeOK, HandlersOK, HandlerOK, Put
<1> QED
  BY <1>1, ReleaseOK DEF Put, TypeOK, WorldOK, store, outer, bounds

LEMMA AnnouncementOK ==
  ASSUME NEW p \in DOMAIN Announcement, NEW op, Serves(op, p)
  PROVE  /\ Serves(op, Announcement[p].then) /\ Announcement[p].then \in LatePc
         /\ p \notin EarlyPc /\ p # "idle"
         /\ Announcement[p].event \in EventType
  BY DEF Announcement, Serves, LatePc, EarlyPc, EventType

LEMMA AnnounceType == ASSUME TypeOK, NEW h \in Handlers, Announce(h) PROVE TypeOK'
<1>0. pc[h] \in DOMAIN Announcement
  BY DEF Announce
<1>1. pc[h] # "idle" /\ pc[h] \notin EarlyPc
  BY <1>0 DEF Announcement, EarlyPc
<1>2. target[h] \in Intents /\ Serves(req[h].op, pc[h])
  BY <1>1 DEF TypeOK, HandlersOK, HandlerOK
<1>3. /\ Serves(req[h].op, Announcement[pc[h]].then) /\ Announcement[pc[h]].then \in LatePc
      /\ Announcement[pc[h]].event \in EventType
  BY <1>0, <1>2, AnnouncementOK
<1>4. /\ pc' \in [Handlers -> EarlyPc \cup LatePc]
      /\ \A g \in Handlers : HandlerOK(g)'
  BY <1>1, <1>2, <1>3, MovedOK DEF TypeOK, Announce, locals
<1>5. published' \subseteq EventType \X Intents
  BY <1>2, <1>3 DEF Announce, Publish, TypeOK, WorldOK
<1> QED
  BY <1>4, <1>5 DEF Announce, TypeOK, WorldOK, HandlersOK, store, outer, locals, bounds

LEMMA CreateType == ASSUME TypeOK, NEW h \in Handlers, Create(h) PROVE TypeOK'
<1> USE DEF TypeOK, HandlersOK
<1>1. req[h] \in Request /\ req[h].op = "create"
  BY DEF Create, HandlerOK, Serves
<1>2. req[h].method \in CaptureMethod /\ req[h].amount \in Nat
  BY <1>1 DEF Request
<1>3. PICK i \in Intents :
        /\ intents' = [intents EXCEPT ![i] =
             [ BlankIntent EXCEPT !.status = "requires_confirmation",
                                  !.method = req[h].method, !.amount = req[h].amount ]]
        /\ target' = [target EXCEPT ![h] = i]
  BY DEF Create
<1>4. intents' \in [Intents -> IntentRecord]
  BY <1>2, <1>3, BlankType, Statuses DEF WorldOK, IntentRecord
<1>5. HandlerOK(h)'
  BY <1>1, <1>3 DEF Create, Goto, HandlerOK, Serves
<1>6. ASSUME NEW g \in Handlers, g # h PROVE HandlerOK(g)'
  BY <1>3, <1>6, OtherHandlers DEF Create, Goto
<1> QED
  BY <1>3, <1>4, <1>5, <1>6 DEF Create, Goto, WorldOK, outer, bounds, LatePc, Announcement

LEMMA ReadIntentType == ASSUME TypeOK, NEW h \in Handlers, ReadIntent(h) PROVE TypeOK'
<1>1. CASE Throw(h)
  BY <1>1, ThrowOK
<1>2. CASE ~ Throw(h)
  <2> DEFINE i == req[h].intent
  <2>1. /\ target' = [target EXCEPT ![h] = i]
        /\ copy' = IF SharedRecords THEN copy ELSE [copy EXCEPT ![h] = intents[i]]
        /\ Goto(h, IF req[h].op = "dispute" THEN "list" ELSE "decide")
        /\ UNCHANGED <<store, records, published, outer, req, snap, left, granted, bounds>>
        /\ pc[h] = "read" /\ req[h].op # "resolve"
    BY <1>2 DEF ReadIntent
  <2>2. /\ req[h] \in Request
        /\ req[h].op \in { "confirm", "cancel", "capture", "refund", "dispute" }
    BY <2>1 DEF TypeOK, HandlersOK, HandlerOK, Serves
  <2>3. i \in Intents
    BY <2>2 DEF Request
  <2>4. HandlerOK(h)'
    BY <2>1, <2>2, <2>3 DEF Goto, HandlerOK, Serves, TypeOK, HandlersOK
  <2>5. ASSUME NEW g \in Handlers, g # h PROVE HandlerOK(g)'
    BY <2>1, <2>5, OtherHandlers DEF Goto, TypeOK, HandlersOK
  <2> QED
    BY <2>1, <2>3, <2>4, <2>5
    DEF Goto, TypeOK, WorldOK, HandlersOK, store, outer, bounds, LatePc
<1> QED
  BY <1>1, <1>2

LEMMA ConfirmType == ASSUME TypeOK, NEW h \in Handlers, Confirm(h) PROVE TypeOK'
<1>1. target[h] \in Intents /\ pc[h] # "idle" /\ req[h].op = "confirm"
  BY DEF Enter, TypeOK, HandlersOK, Confirm, Deciding, HandlerOK, EarlyPc
<1>2. /\ pc' \in [Handlers -> EarlyPc \cup LatePc]
      /\ \A g \in Handlers : HandlerOK(g)'
  BY <1>1, MovedOK DEF Enter, TypeOK, Confirm, LatePc, Announcement, Serves
<1>3. intents' \in [Intents -> IntentRecord] /\ copy' \in [Handlers -> IntentRecord]
  BY <1>1, ViewOK, SaveOK, IntentFields, Statuses DEF Enter, Confirm, TypeOK, WorldOK, HandlersOK
<1> QED
  BY <1>2, <1>3 DEF Enter, Confirm, TypeOK, WorldOK, HandlersOK, outer, bounds

LEMMA AssessType == ASSUME TypeOK, NEW h \in Handlers, Assess(h) PROVE TypeOK'
<1>1. target[h] \in Intents /\ pc[h] = "assess" /\ req[h].op = "confirm"
  BY DEF TypeOK, HandlersOK, Assess, HandlerOK, EarlyPc, Serves
<1>2. CASE Throw(h)
  BY <1>2, ThrowOK
<1>3. CASE ~ Throw(h)
  <2>1. /\ pc' \in [Handlers -> EarlyPc \cup LatePc]
        /\ \A g \in Handlers : HandlerOK(g)'
    BY <1>1, <1>3, MovedOK DEF TypeOK, Assess, LatePc, Announcement, Serves
  <2>2. intents' \in [Intents -> IntentRecord] /\ copy' \in [Handlers -> IntentRecord]
    BY <1>1, <1>3, ViewOK, SaveOK, IntentFields, Statuses
    DEF Assess, TypeOK, WorldOK, HandlersOK, store
  <2>3. left' \in [Handlers -> Nat]
    BY <1>3, BoundAssumption DEF Assess, TypeOK, HandlersOK
  <2> QED
    BY <1>3, <2>1, <2>2, <2>3 DEF Assess, TypeOK, WorldOK, HandlersOK, store, outer, bounds
<1> QED
  BY <1>2, <1>3

LEMMA AuthorizeType == ASSUME TypeOK, NEW h \in Handlers, Authorize(h) PROVE TypeOK'
<1> DEFINE routed == [View(h) EXCEPT !.routed = TRUE]
<1>1. target[h] \in Intents /\ pc[h] = "authorize" /\ req[h].op = "confirm"
  BY DEF TypeOK, HandlersOK, Authorize, HandlerOK, EarlyPc, Serves
<1>2. /\ routed \in IntentRecord /\ routed.amount \in Nat
      /\ [routed EXCEPT !.authorized = routed.amount] \in IntentRecord
      /\ [routed EXCEPT !.status = "failed"] \in IntentRecord
  BY <1>1, ViewOK, IntentFields, Statuses
<1>3. /\ pc' \in [Handlers -> EarlyPc \cup LatePc]
      /\ \A g \in Handlers : HandlerOK(g)'
  <2>1. CASE UNCHANGED pc
    BY <2>1, OtherHandlers DEF Authorize, TypeOK, HandlersOK
  <2>2. CASE Goto(h, "settle") \/ Goto(h, "announce_failed")
    BY <1>1, <2>2, MovedOK DEF TypeOK, Authorize, LatePc, Announcement, Serves
  <2> QED
    BY <2>1, <2>2 DEF Authorize
<1>4. intents' \in [Intents -> IntentRecord] /\ copy' \in [Handlers -> IntentRecord]
  BY <1>1, <1>2, SaveOK, AssignOK DEF Authorize
<1>5. ledger' \in [Intents -> LedgerTotals]
  BY <1>1, <1>2, LedgerOK DEF Authorize, TypeOK, WorldOK
<1>6. left' \in [Handlers -> Nat]
  BY DEF Authorize, TypeOK, HandlersOK
<1> QED
  BY <1>3, <1>4, <1>5, <1>6 DEF Authorize, TypeOK, WorldOK, HandlersOK, outer, bounds

LEMMA SettleType == ASSUME TypeOK, NEW h \in Handlers, Settle(h) PROVE TypeOK'
<1>1. target[h] \in Intents /\ pc[h] = "settle" /\ req[h].op = "confirm"
  BY DEF TypeOK, HandlersOK, Settle, HandlerOK, EarlyPc, Serves
<1>2. View(h) \in IntentRecord /\ View(h).amount \in Nat
  BY <1>1, ViewOK, IntentFields
<1>3. /\ [View(h) EXCEPT !.status = "requires_action"] \in IntentRecord
      /\ [View(h) EXCEPT !.status = "succeeded", !.captured = View(h).amount] \in IntentRecord
  BY <1>2, Statuses DEF IntentRecord
<1>4. /\ pc' \in [Handlers -> EarlyPc \cup LatePc]
      /\ \A g \in Handlers : HandlerOK(g)'
  BY <1>1, MovedOK DEF TypeOK, Settle, LatePc, Announcement, Serves
<1>5. intents' \in [Intents -> IntentRecord] /\ copy' \in [Handlers -> IntentRecord]
  BY <1>1, <1>3, AssignOK DEF Settle
<1>6. ledger' \in [Intents -> LedgerTotals]
  BY <1>1, <1>2, LedgerOK DEF Settle, TypeOK, WorldOK
<1>7. published' \subseteq EventType \X Intents
  BY <1>1 DEF Settle, Publish, TypeOK, WorldOK, EventType, Announcement
<1> QED
  BY <1>4, <1>5, <1>6, <1>7 DEF Settle, TypeOK, WorldOK, HandlersOK, outer, bounds

LEMMA SaveOutcomeType == ASSUME TypeOK, NEW h \in Handlers, SaveOutcome(h) PROVE TypeOK'
<1>1. target[h] \in Intents /\ pc[h] = "save"
  BY DEF TypeOK, HandlersOK, SaveOutcome, HandlerOK, EarlyPc
<1>2. /\ pc' \in [Handlers -> EarlyPc \cup LatePc]
      /\ \A g \in Handlers : HandlerOK(g)'
  BY <1>1, MovedOK DEF TypeOK, SaveOutcome, LatePc, Serves
<1>3. intents' \in [Intents -> IntentRecord] /\ copy' \in [Handlers -> IntentRecord]
  BY <1>1, ViewOK, SaveOK DEF SaveOutcome
<1> QED
  BY <1>2, <1>3 DEF SaveOutcome, TypeOK, WorldOK, HandlersOK, outer, bounds

LEMMA CaptureType == ASSUME TypeOK, NEW h \in Handlers, Capture(h) PROVE TypeOK'
<1>1. target[h] \in Intents /\ pc[h] # "idle" /\ req[h].op = "capture"
  BY DEF Enter, TypeOK, HandlersOK, Capture, Deciding, HandlerOK, EarlyPc
<1>2. CASE Throw(h)
  BY <1>2, ThrowOK
<1>3. CASE ~ Throw(h)
  <2>1. /\ pc' \in [Handlers -> EarlyPc \cup LatePc]
        /\ \A g \in Handlers : HandlerOK(g)'
    BY <1>1, <1>3, MovedOK DEF Enter, TypeOK, Capture, LatePc, Announcement, Serves
  <2>2. intents' \in [Intents -> IntentRecord] /\ copy' \in [Handlers -> IntentRecord]
    BY <1>1, <1>3, ViewOK, SaveOK, IntentFields, Statuses DEF Enter, Capture
  <2> QED
    BY <1>3, <2>1, <2>2 DEF Enter, Capture, TypeOK, WorldOK, HandlersOK, outer, bounds
<1> QED
  BY <1>2, <1>3

LEMMA CallCaptureType == ASSUME TypeOK, NEW h \in Handlers, CallCapture(h) PROVE TypeOK'
<1>1. /\ target[h] \in Intents /\ pc[h] = "call_capture" /\ req[h].op = "capture"
      /\ req[h].amount \in Nat
  BY RequestAmount DEF TypeOK, HandlersOK, CallCapture, HandlerOK, EarlyPc, Serves
<1>2. /\ pc' \in [Handlers -> EarlyPc \cup LatePc]
      /\ \A g \in Handlers : HandlerOK(g)'
  BY <1>1, MovedOK DEF TypeOK, CallCapture, LatePc, Serves
<1>3. PICK ok \in BOOLEAN :
        /\ granted' = [granted EXCEPT ![h] = ok]
        /\ psp' = IF ok THEN [psp EXCEPT ![target[h]].captured = @ + req[h].amount] ELSE psp
  BY DEF CallCapture
<1>4. psp' \in [Intents -> [captured : Nat, refunded : Nat]]
  BY <1>1, <1>3 DEF TypeOK, WorldOK
<1>5. granted' \in [Handlers -> BOOLEAN]
  BY <1>3 DEF TypeOK, HandlersOK
<1> QED
  BY <1>2, <1>4, <1>5 DEF CallCapture, TypeOK, WorldOK, HandlersOK, store, bounds

LEMMA CaptureResultType == ASSUME TypeOK, NEW h \in Handlers, CaptureResult(h) PROVE TypeOK'
<1>1. /\ target[h] \in Intents /\ pc[h] = "capture_result" /\ req[h].op = "capture"
      /\ req[h].amount \in Nat
  BY RequestAmount DEF TypeOK, HandlersOK, CaptureResult, HandlerOK, EarlyPc, Serves
<1>2. /\ pc' \in [Handlers -> EarlyPc \cup LatePc]
      /\ \A g \in Handlers : HandlerOK(g)'
  BY <1>1, MovedOK DEF TypeOK, CaptureResult, LatePc, Announcement, Serves
<1>3. /\ [View(h) EXCEPT !.status = "failed"] \in IntentRecord
      /\ [View(h) EXCEPT !.captured = View(h).captured + req[h].amount] \in IntentRecord
  <2>1. View(h) \in IntentRecord
    BY <1>1, ViewOK
  <2>2. View(h).captured + req[h].amount \in Nat
    BY <1>1, <2>1 DEF IntentRecord
  <2> QED
    BY <2>1, <2>2, Statuses DEF IntentRecord
<1>4. intents' \in [Intents -> IntentRecord] /\ copy' \in [Handlers -> IntentRecord]
  BY <1>1, <1>3, SaveOK, AssignOK DEF CaptureResult
<1>5. ledger' \in [Intents -> LedgerTotals]
  BY <1>1, LedgerOK DEF CaptureResult, TypeOK, WorldOK
<1> QED
  BY <1>2, <1>4, <1>5 DEF CaptureResult, TypeOK, WorldOK, HandlersOK, outer, bounds

LEMMA SettleCaptureType == ASSUME TypeOK, NEW h \in Handlers, SettleCapture(h) PROVE TypeOK'
<1>1. target[h] \in Intents /\ pc[h] = "settle_capture" /\ req[h].op = "capture"
  BY DEF TypeOK, HandlersOK, SettleCapture, HandlerOK, EarlyPc, Serves
<1>2. /\ pc' \in [Handlers -> EarlyPc \cup LatePc]
      /\ \A g \in Handlers : HandlerOK(g)'
  BY <1>1, MovedOK DEF TypeOK, SettleCapture, LatePc, Serves
<1>3. intents' \in [Intents -> IntentRecord] /\ copy' \in [Handlers -> IntentRecord]
  BY <1>1, ViewOK, SaveOK, AssignOK, IntentFields, Statuses DEF SettleCapture
<1>4. published' \subseteq EventType \X Intents
  BY <1>1 DEF SettleCapture, Publish, TypeOK, WorldOK, EventType, Announcement
<1> QED
  BY <1>2, <1>3, <1>4 DEF SettleCapture, TypeOK, WorldOK, HandlersOK, outer, bounds

LEMMA AbortType == ASSUME TypeOK, NEW h \in Handlers, Abort(h) PROVE TypeOK'
  BY ThrowOK DEF Abort

LEMMA CancelType == ASSUME TypeOK, NEW h \in Handlers, Cancel(h) PROVE TypeOK'
<1>1. target[h] \in Intents /\ pc[h] # "idle" /\ req[h].op = "cancel"
  BY DEF TypeOK, HandlersOK, Cancel, Deciding, HandlerOK, EarlyPc
<1>2. CASE Throw(h)
  BY <1>2, ThrowOK
<1>3. CASE ~ Throw(h)
  <2>1. /\ pc' \in [Handlers -> EarlyPc \cup LatePc]
        /\ \A g \in Handlers : HandlerOK(g)'
    BY <1>1, <1>3, MovedOK DEF TypeOK, Cancel, LatePc, Announcement, Serves
  <2>2. intents' \in [Intents -> IntentRecord] /\ copy' \in [Handlers -> IntentRecord]
    BY <1>1, <1>3, ViewOK, SaveOK, IntentFields, Statuses DEF Cancel, TypeOK, WorldOK, HandlersOK
  <2> QED
    BY <1>3, <2>1, <2>2 DEF Cancel, TypeOK, WorldOK, HandlersOK, outer, bounds
<1> QED
  BY <1>2, <1>3

LEMMA RefundType == ASSUME TypeOK, NEW h \in Handlers, Refund(h) PROVE TypeOK'
<1>1. target[h] \in Intents /\ pc[h] # "idle" /\ req[h].op = "refund"
  BY DEF TypeOK, HandlersOK, Refund, Deciding, HandlerOK, EarlyPc
<1>2. CASE Throw(h)
  BY <1>2, ThrowOK
<1>3. CASE ~ Throw(h)
  <2>1. /\ pc' \in [Handlers -> EarlyPc \cup LatePc]
        /\ \A g \in Handlers : HandlerOK(g)'
    BY <1>1, <1>3, MovedOK DEF TypeOK, Refund, LatePc, Serves, locals
  <2> QED
    BY <1>3, <2>1 DEF Refund, TypeOK, WorldOK, HandlersOK, store, outer, locals, bounds
<1> QED
  BY <1>2, <1>3

LEMMA CallRefundType == ASSUME TypeOK, NEW h \in Handlers, CallRefund(h) PROVE TypeOK'
<1>1. /\ target[h] \in Intents /\ pc[h] = "call_refund" /\ req[h].op = "refund"
      /\ req[h].amount \in Nat
  BY RequestAmount DEF TypeOK, HandlersOK, CallRefund, HandlerOK, EarlyPc, Serves
<1>2. /\ pc' \in [Handlers -> EarlyPc \cup LatePc]
      /\ \A g \in Handlers : HandlerOK(g)'
  BY <1>1, MovedOK DEF TypeOK, CallRefund, LatePc, Serves
<1>3. PICK ok \in BOOLEAN :
        /\ granted' = [granted EXCEPT ![h] = ok]
        /\ psp' = IF ok THEN [psp EXCEPT ![target[h]].refunded = @ + req[h].amount] ELSE psp
        /\ refundCalls' = IF ok THEN [refundCalls EXCEPT ![req[h].key] = @ + 1] ELSE refundCalls
  BY DEF CallRefund
<1>4. psp' \in [Intents -> [captured : Nat, refunded : Nat]]
  BY <1>1, <1>3 DEF TypeOK, WorldOK
<1>6. req[h].key \in Keys
  BY DEF TypeOK, HandlersOK, CallRefund, HandlerOK, Request
<1>5. granted' \in [Handlers -> BOOLEAN] /\ refundCalls' \in [Keys -> Nat]
  BY <1>3, <1>6 DEF TypeOK, WorldOK, HandlersOK
<1> QED
  BY <1>2, <1>4, <1>5 DEF CallRefund, TypeOK, WorldOK, HandlersOK, store, bounds

LEMMA RefundResultType == ASSUME TypeOK, NEW h \in Handlers, RefundResult(h) PROVE TypeOK'
<1>1. /\ target[h] \in Intents /\ pc[h] = "refund_result" /\ req[h].op = "refund"
      /\ req[h].amount \in Nat
  BY RequestAmount DEF TypeOK, HandlersOK, RefundResult, HandlerOK, EarlyPc, Serves
<1>2. /\ pc' \in [Handlers -> EarlyPc \cup LatePc]
      /\ \A g \in Handlers : HandlerOK(g)'
  BY <1>1, MovedOK DEF TypeOK, RefundResult, LatePc, Announcement, Serves, locals
<1>3. refunds' \in [Intents -> Nat]
  BY <1>1 DEF RefundResult, TypeOK, WorldOK
<1> QED
  BY <1>2, <1>3 DEF RefundResult, TypeOK, WorldOK, HandlersOK, outer, locals, bounds

LEMMA ApplyRefundType == ASSUME TypeOK, NEW h \in Handlers, ApplyRefund(h) PROVE TypeOK'
<1>1. /\ target[h] \in Intents /\ pc[h] = "apply_refund" /\ req[h].op = "refund"
      /\ req[h].amount \in Nat
  BY RequestAmount DEF TypeOK, HandlersOK, ApplyRefund, HandlerOK, EarlyPc, Serves
<1>2. /\ pc' \in [Handlers -> EarlyPc \cup LatePc]
      /\ \A g \in Handlers : HandlerOK(g)'
  BY <1>1, MovedOK DEF TypeOK, ApplyRefund, LatePc, Serves
<1>3. [View(h) EXCEPT !.refunded = View(h).refunded + req[h].amount] \in IntentRecord
  <2>1. View(h) \in IntentRecord
    BY <1>1, ViewOK
  <2>2. View(h).refunded + req[h].amount \in Nat
    BY <1>1, <2>1 DEF IntentRecord
  <2> QED
    BY <2>1, <2>2 DEF IntentRecord
<1>4. intents' \in [Intents -> IntentRecord] /\ copy' \in [Handlers -> IntentRecord]
  BY <1>1, <1>3, SaveOK DEF ApplyRefund
<1> QED
  BY <1>2, <1>4 DEF ApplyRefund, TypeOK, WorldOK, HandlersOK, outer, bounds

LEMMA PostRefundType == ASSUME TypeOK, NEW h \in Handlers, PostRefund(h) PROVE TypeOK'
<1>1. /\ target[h] \in Intents /\ pc[h] = "post_refund" /\ req[h].op = "refund"
      /\ req[h].amount \in Nat
  BY RequestAmount DEF TypeOK, HandlersOK, PostRefund, HandlerOK, EarlyPc, Serves
<1>2. /\ pc' \in [Handlers -> EarlyPc \cup LatePc]
      /\ \A g \in Handlers : HandlerOK(g)'
  BY <1>1, MovedOK DEF TypeOK, PostRefund, LatePc, Announcement, Serves, locals
<1>3. ledger' \in [Intents -> LedgerTotals]
  BY <1>1, LedgerOK DEF PostRefund
<1> QED
  BY <1>2, <1>3 DEF PostRefund, TypeOK, WorldOK, HandlersOK, outer, locals, bounds

LEMMA ListChargebacksType ==
  ASSUME TypeOK, NEW h \in Handlers, ListChargebacks(h) PROVE TypeOK'
<1>1. target[h] \in Intents /\ pc[h] = "list" /\ req[h].op = "dispute"
  BY DEF TypeOK, HandlersOK, ListChargebacks, HandlerOK, EarlyPc, Serves
<1>2. /\ pc' \in [Handlers -> EarlyPc \cup LatePc]
      /\ \A g \in Handlers : HandlerOK(g)'
  BY <1>1, MovedOK DEF TypeOK, ListChargebacks, LatePc, Serves
<1>3. snap' \in [Handlers -> [Chargebacks -> ChargebackRecord]]
  BY DEF ListChargebacks, TypeOK, WorldOK, HandlersOK
<1> QED
  BY <1>2, <1>3 DEF ListChargebacks, TypeOK, WorldOK, HandlersOK, store, outer, bounds

LEMMA DisputeType == ASSUME TypeOK, NEW h \in Handlers, Dispute(h) PROVE TypeOK'
<1>1. /\ target[h] \in Intents /\ pc[h] = "dispute" /\ req[h].op = "dispute"
      /\ req[h].amount \in Nat
  BY RequestAmount DEF TypeOK, HandlersOK, Dispute, HandlerOK, EarlyPc, Serves
<1>2. CASE Throw(h)
  BY <1>2, ThrowOK
<1>3. CASE ~ Throw(h)
  <2>1. /\ pc' \in [Handlers -> EarlyPc \cup LatePc]
        /\ \A g \in Handlers : HandlerOK(g)'
    BY <1>1, <1>3, MovedOK DEF TypeOK, Dispute, LatePc, Announcement, Serves, locals
  <2>2. PICK c \in Chargebacks : chargebacks' = [chargebacks EXCEPT ![c] =
          [ intent |-> target[h], amount |-> req[h].amount, status |-> "open" ]]
    BY <1>3 DEF Dispute
  <2>3. [ intent |-> target[h], amount |-> req[h].amount, status |-> "open" ] \in ChargebackRecord
    BY <1>1 DEF ChargebackRecord, ChargebackStatus
  <2>4. chargebacks' \in [Chargebacks -> ChargebackRecord]
    BY <1>1, <2>2, <2>3 DEF TypeOK, WorldOK
  <2> QED
    BY <1>3, <2>1, <2>4 DEF Dispute, TypeOK, WorldOK, HandlersOK, outer, locals, bounds
<1> QED
  BY <1>2, <1>3

LEMMA ReadChargebackType ==
  ASSUME TypeOK, NEW h \in Handlers, ReadChargeback(h) PROVE TypeOK'
<1>1. CASE Throw(h)
  BY <1>1, ThrowOK
<1>2. CASE ~ Throw(h)
  <2> DEFINE c == req[h].chargeback
  <2>1. /\ target' = [target EXCEPT ![h] = chargebacks[c].intent]
        /\ chargebacks[c].status # "absent"
        /\ snap' = IF SharedRecords THEN snap ELSE [snap EXCEPT ![h] = chargebacks]
        /\ Goto(h, "decide")
        /\ UNCHANGED <<store, records, published, outer, req, copy, left, granted, bounds>>
        /\ pc[h] = "read" /\ req[h].op = "resolve"
    BY <1>2 DEF ReadChargeback
  <2>2. req[h] \in Request
    BY <2>1 DEF TypeOK, HandlersOK, HandlerOK
  <2>3. c \in Chargebacks
    BY <2>1, <2>2 DEF Request
  <2>4. chargebacks[c].intent \in Intents
    BY <2>1, <2>3 DEF TypeOK, WorldOK, ChargebackRecord, BlankChargeback
  <2>5. HandlerOK(h)'
    BY <2>1, <2>2, <2>4 DEF Goto, HandlerOK, Serves, TypeOK, HandlersOK
  <2>6. ASSUME NEW g \in Handlers, g # h PROVE HandlerOK(g)'
    BY <2>1, <2>6, OtherHandlers DEF Goto, TypeOK, HandlersOK
  <2> QED
    BY <2>1, <2>4, <2>5, <2>6
    DEF Goto, TypeOK, WorldOK, HandlersOK, store, outer, bounds, LatePc
<1> QED
  BY <1>1, <1>2

LEMMA ResolveType == ASSUME TypeOK, NEW h \in Handlers, Resolve(h) PROVE TypeOK'
<1> DEFINE c == req[h].chargeback
           seen == ViewChargeback(h, c)
<1>1. /\ target[h] \in Intents /\ pc[h] # "idle" /\ req[h].op = "resolve"
      /\ req[h] \in Request
  BY DEF TypeOK, HandlersOK, Resolve, Deciding, HandlerOK, EarlyPc
<1>2. c \in Chargebacks /\ req[h].status \in ChargebackStatus
  BY <1>1 DEF Request, Resolutions
<1>3. CASE Throw(h)
  BY <1>3, ThrowOK
<1>4. CASE ~ Throw(h)
  <2>1. /\ pc' \in [Handlers -> EarlyPc \cup LatePc]
        /\ \A g \in Handlers : HandlerOK(g)'
    BY <1>1, <1>4, MovedOK DEF TypeOK, Resolve, LatePc, Announcement, Serves, locals
  <2>2. CASE UNCHANGED chargebacks
    BY <1>4, <2>1, <2>2
    DEF Resolve, Undecided, TypeOK, WorldOK, HandlersOK, store, outer, locals, bounds
  <2>3. CASE /\ seen.status \in { "open", "under_review" }
             /\ chargebacks' = [chargebacks EXCEPT ![c] = [seen EXCEPT !.status = req[h].status]]
    <3>1. seen \in ChargebackRecord
      BY <1>2 DEF ViewChargeback, TypeOK, WorldOK, HandlersOK
    <3>2. [seen EXCEPT !.status = req[h].status] \in ChargebackRecord
      BY <1>2, <2>3, <3>1 DEF ChargebackRecord, BlankChargeback
    <3>3. chargebacks' \in [Chargebacks -> ChargebackRecord]
      BY <1>2, <2>3, <3>2 DEF TypeOK, WorldOK
    <3> QED
      BY <1>2, <1>4, <2>1, <2>3, <3>3
      DEF Resolve, Undecided, TypeOK, WorldOK, HandlersOK, store, outer, locals, bounds
  <2> QED
    BY <1>4, <2>2, <2>3 DEF Resolve, Undecided, store
<1> QED
  BY <1>3, <1>4

LEMMA PostLossType == ASSUME TypeOK, NEW h \in Handlers, PostLoss(h) PROVE TypeOK'
<1>1. /\ target[h] \in Intents /\ pc[h] = "post_loss" /\ req[h].op = "resolve"
      /\ req[h] \in Request
  BY DEF TypeOK, HandlersOK, PostLoss, HandlerOK, EarlyPc, Serves
<1>2. chargebacks[req[h].chargeback].amount \in Nat
  BY <1>1 DEF Request, TypeOK, WorldOK, ChargebackRecord, BlankChargeback
<1>3. /\ pc' \in [Handlers -> EarlyPc \cup LatePc]
      /\ \A g \in Handlers : HandlerOK(g)'
  BY <1>1, MovedOK DEF TypeOK, PostLoss, LatePc, Announcement, Serves, locals
<1>4. ledger' \in [Intents -> LedgerTotals]
  BY <1>1, <1>2, LedgerOK DEF PostLoss
<1> QED
  BY <1>3, <1>4 DEF PostLoss, TypeOK, WorldOK, HandlersOK, outer, locals, bounds

LEMMA FailType == ASSUME TypeOK, NEW h \in Handlers, Fail(h) PROVE TypeOK'
<1>1. faults' \in 0..MaxFaults
  BY BoundAssumption DEF Fail, TypeOK, WorldOK
<1> QED
  BY <1>1, ReleaseOK DEF Fail, TypeOK, WorldOK, store, outer

LEMMA StepTypeOK == TypeOK /\ [Next]_vars => TypeOK'
<1> SUFFICES ASSUME TypeOK, [Next]_vars PROVE TypeOK'
  OBVIOUS
<1>1. CASE UNCHANGED vars
  BY <1>1 DEF vars, store, outer, locals, bounds, TypeOK, WorldOK, HandlersOK, HandlerOK
<1>2. ASSUME NEW h \in Handlers, Arrive(h) \/ Step(h) \/ Fail(h) PROVE TypeOK'
  BY <1>2, ArriveType, LockType, LookupType, PutType, AnnounceType, CreateType,
     ReadIntentType, AbortType, ConfirmType, AssessType, AuthorizeType, SettleType, SaveOutcomeType,
     CaptureType, CallCaptureType, CaptureResultType, SettleCaptureType, CancelType,
     RefundType, CallRefundType, RefundResultType, ApplyRefundType, PostRefundType,
     ListChargebacksType, DisputeType, ReadChargebackType, ResolveType, PostLossType, FailType
  DEF Abort, Step
<1> QED
  BY <1>1, <1>2 DEF Next

\* Every variable of the orchestrator has its type, and every handler is parked
\* at an await of the operation it serves, over both repositories and whatever
\* fails (payment-orchestrator.ts as a whole).
THEOREM TypeCorrect == Spec => []TypeOK
<1>1. Init => TypeOK
  BY InitTypeOK
<1>2. TypeOK /\ [Next]_vars => TypeOK'
  BY StepTypeOK
<1> QED
  BY <1>1, <1>2, PTL DEF Spec

-----------------------------------------------------------------------------
(* The in-memory repository: "processing" is a lock on the intent *)

\* The step relation of StatusFollowsStateMachine.
StatusMoves ==
  \A i \in Intents :
    \/ intents'[i].status = intents[i].status
    \/ intents[i].status = "absent"
    \/ CanTransition(intents[i].status, intents'[i].status)

\* Only g moved, and it did not enter the section.
OnlyMover(g) ==
  /\ \A h \in Handlers \ {g} : pc'[h] = pc[h] /\ target'[h] = target[h]
  /\ InSection(g)' => InSection(g) /\ target'[g] = target[g]

\* A step that changes no stored status, except of an intent it creates.
LEMMA StatusKept ==
  ASSUME TypeOK, ProcessingIsExclusive, NEW g \in Handlers, OnlyMover(g),
         \A i \in Intents : intents[i].status # "absent"
                              => intents'[i].status = intents[i].status
  PROVE  ProcessingIsExclusive' /\ StatusMoves
<1>1. ASSUME NEW h \in Handlers, InSection(h)'
      PROVE  InSection(h) /\ target'[h] = target[h] /\ target[h] \in Intents
  <2>1. InSection(h) /\ target'[h] = target[h]
    BY <1>1 DEF OnlyMover, InSection
  <2> QED
    BY <2>1 DEF InSection, TypeOK, HandlersOK, HandlerOK, EarlyPc
<1> QED
  BY <1>1 DEF ProcessingIsExclusive, StatusMoves

\* Writing a record with the stored status changes no status.
LEMMA SameStatusWritten ==
  ASSUME TypeOK, NEW t \in Intents, NEW r \in IntentRecord, r.status = intents[t].status,
         intents' = [intents EXCEPT ![t] = r]
  PROVE  \A i \in Intents : intents'[i].status = intents[i].status
  BY DEF TypeOK, WorldOK

\* A step that leaves the section by giving its intent another status.
LEMMA SectionLeft ==
  ASSUME TypeOK, ProcessingIsExclusive, NEW g \in Handlers, OnlyMover(g),
         InSection(g), ~ InSection(g)', NEW r \in IntentRecord,
         r.status \in { "requires_action", "succeeded", "failed" },
         intents' = [intents EXCEPT ![target[g]] = r]
  PROVE  ProcessingIsExclusive' /\ StatusMoves
<1>1. ASSUME NEW h \in Handlers, InSection(h)'
      PROVE  /\ h # g /\ InSection(h) /\ target'[h] = target[h]
             /\ target[h] \in Intents /\ target[h] # target[g]
  <2>1. h # g /\ InSection(h) /\ target'[h] = target[h]
    BY <1>1 DEF OnlyMover, InSection
  <2>2. target[h] \in Intents
    BY <2>1 DEF InSection, TypeOK, HandlersOK, HandlerOK, EarlyPc
  <2> QED
    BY <2>1, <2>2 DEF ProcessingIsExclusive
<1>2. ProcessingIsExclusive'
  BY <1>1 DEF ProcessingIsExclusive, TypeOK, WorldOK
<1>3. StatusMoves
  BY DEF ProcessingIsExclusive, StatusMoves, CanTransition, ALLOWED_TRANSITIONS, TypeOK, WorldOK
<1> QED
  BY <1>2, <1>3

\* A step of a handler that finds its intent waiting for the client, and moves it.
LEMMA WaitingLeft ==
  ASSUME TypeOK, ProcessingIsExclusive, NEW g \in Handlers, target[g] \in Intents,
         \A h \in Handlers \ {g} : pc'[h] = pc[h], target' = target,
         NEW r \in IntentRecord, intents' = [intents EXCEPT ![target[g]] = r],
         intents[target[g]].status # "processing",
         \/ intents[target[g]].status = "absent"
         \/ CanTransition(intents[target[g]].status, r.status),
         InSection(g)' => r.status = "processing"
  PROVE  ProcessingIsExclusive' /\ StatusMoves
<1>1. ASSUME NEW h \in Handlers, InSection(h) PROVE target[h] \in Intents /\ target[h] # target[g]
  BY <1>1 DEF ProcessingIsExclusive, InSection, TypeOK, HandlersOK, HandlerOK, EarlyPc
<1>2. ASSUME NEW h \in Handlers, h # g, InSection(h)' PROVE InSection(h)
  BY <1>2 DEF InSection
<1>3. ProcessingIsExclusive'
  BY <1>1, <1>2 DEF ProcessingIsExclusive, TypeOK, WorldOK
<1>4. StatusMoves
  BY DEF StatusMoves, TypeOK, WorldOK
<1> QED
  BY <1>3, <1>4

\* The actions that write no intent, or only its refunded amount.
LEMMA HarmlessSteps ==
  ASSUME SharedRecords = TRUE, TypeOK, ProcessingIsExclusive, NEW g \in Handlers,
         \/ Arrive(g) \/ Fail(g) \/ Throw(g)
         \/ Lock(g) \/ Lookup(g) \/ Put(g) \/ Announce(g) \/ Create(g) \/ ReadIntent(g)
         \/ SaveOutcome(g) \/ CallCapture(g) \/ Refund(g) \/ CallRefund(g)
         \/ RefundResult(g) \/ ApplyRefund(g) \/ PostRefund(g) \/ ListChargebacks(g)
         \/ Dispute(g) \/ ReadChargeback(g) \/ Resolve(g) \/ PostLoss(g)
  PROVE  ProcessingIsExclusive' /\ StatusMoves
<1> USE DEF TypeOK, HandlersOK
<1>1. CASE Arrive(g) \/ Fail(g) \/ Throw(g) \/ Put(g)
  <2>1. OnlyMover(g) /\ UNCHANGED intents
    BY <1>1 DEF OnlyMover, Arrive, Fail, Throw, Put, Release, Goto, InSection, store
  <2> QED
    BY <2>1, StatusKept
<1>2. CASE Lock(g) \/ Lookup(g) \/ ReadIntent(g) \/ ReadChargeback(g) \/ ListChargebacks(g)
  <2>1. OnlyMover(g) /\ UNCHANGED intents
    BY <1>2 DEF OnlyMover, Lock, Lookup, ReadIntent, ReadChargeback, ListChargebacks,
       Throw, Release, Goto, InSection, store, locals
  <2> QED
    BY <2>1, StatusKept
<1>3. CASE Announce(g)
  <2>1. pc[g] \in DOMAIN Announcement /\ Announcement[pc[g]].then \in { "assess", "call_capture" }
          => InSection(g)
    BY DEF Announcement, InSection
  <2>2. Announcement[pc[g]].then \notin { "assess", "call_capture" } /\ pc[g] \in DOMAIN Announcement
          => Announcement[pc[g]].then \in { "put", "save" }
    BY DEF Announcement
  <2>3. OnlyMover(g) /\ UNCHANGED intents
    BY <1>3, <2>1, <2>2 DEF OnlyMover, Announce, Goto, InSection, store, locals
  <2> QED
    BY <2>3, StatusKept
<1>4. CASE Refund(g) \/ RefundResult(g) \/ PostRefund(g) \/ CallRefund(g)
  <2>1. OnlyMover(g) /\ UNCHANGED intents
    BY <1>4 DEF OnlyMover, Refund, RefundResult, PostRefund, CallRefund, Throw, Release,
       Goto, InSection, store, locals
  <2> QED
    BY <2>1, StatusKept
<1>5. CASE Dispute(g) \/ Resolve(g) \/ PostLoss(g)
  <2>1. OnlyMover(g) /\ UNCHANGED intents
    BY <1>5 DEF OnlyMover, Dispute, Resolve, PostLoss, Throw, Release,
       Goto, InSection, store, locals
  <2> QED
    BY <2>1, StatusKept
<1>6. CASE CallCapture(g)
  <2>1. OnlyMover(g) /\ UNCHANGED intents
    BY <1>6 DEF OnlyMover, CallCapture, Goto, InSection, store
  <2> QED
    BY <2>1, StatusKept
<1>7. CASE Create(g)
  <2>1. OnlyMover(g)
    BY <1>7 DEF OnlyMover, Create, Goto, InSection
  <2>2. \A i \in Intents : intents[i].status # "absent" => intents'[i].status = intents[i].status
    BY <1>7 DEF Create, WorldOK
  <2> QED
    BY <2>1, <2>2, StatusKept
<1>8. CASE SaveOutcome(g) \/ ApplyRefund(g)
  <2>1. OnlyMover(g)
    BY <1>8 DEF OnlyMover, SaveOutcome, ApplyRefund, Goto, InSection
  <2>2. target[g] \in Intents
    BY <1>8 DEF SaveOutcome, ApplyRefund, HandlerOK, EarlyPc
  <2>3. View(g) = intents[target[g]] /\ View(g) \in IntentRecord
    BY <2>2 DEF View, WorldOK
  <2>4. CASE SaveOutcome(g)
    <3>1. intents' = [intents EXCEPT ![target[g]] = View(g)]
      BY <2>4 DEF SaveOutcome, Save
    <3> QED
      BY <2>1, <2>2, <2>3, <3>1, SameStatusWritten, StatusKept
  <2>5. CASE ApplyRefund(g)
    <3> DEFINE r == [View(g) EXCEPT !.refunded = View(g).refunded + req[g].amount]
    <3>1. intents' = [intents EXCEPT ![target[g]] = r]
      BY <2>5 DEF ApplyRefund, Save
    <3>2. req[g].amount \in Nat
      BY <2>5, RequestAmount DEF ApplyRefund, HandlerOK, Serves
    <3>3. View(g).refunded + req[g].amount \in Nat
      BY <2>3, <3>2 DEF IntentRecord
    <3>4. r \in IntentRecord /\ r.status = intents[target[g]].status
      BY <2>3, <3>3, IntentFields, StatusFields, ZenonT(40)
    <3> QED
      BY <2>1, <2>2, <3>1, <3>4, SameStatusWritten, StatusKept
  <2> QED
    BY <1>8, <2>4, <2>5
<1> QED
  BY <1>1, <1>2, <1>3, <1>4, <1>5, <1>6, <1>7, <1>8

\* The actions of the handler that drives the intent.
LEMMA DrivingSteps ==
  ASSUME SharedRecords = TRUE, TypeOK, ProcessingIsExclusive, NEW g \in Handlers,
         \/ Assess(g) \/ Authorize(g) \/ Settle(g) \/ CaptureResult(g) \/ SettleCapture(g)
  PROVE  ProcessingIsExclusive' /\ StatusMoves
<1> USE DEF TypeOK, HandlersOK
<1>1. InSection(g) /\ target[g] \in Intents /\ pc[g] \in LatePc
  BY DEF Assess, Authorize, Settle, CaptureResult, SettleCapture, InSection, HandlerOK, EarlyPc
<1>2. View(g) = intents[target[g]] /\ View(g) \in IntentRecord
  BY <1>1 DEF View, WorldOK
<1>3. CASE Throw(g)
  BY <1>3, HarmlessSteps
<1>4. CASE ~ Throw(g) /\ UNCHANGED intents
  <2>1. OnlyMover(g)
    BY <1>1, <1>4 DEF OnlyMover, Assess, Authorize, Settle, CaptureResult, SettleCapture, Goto
  <2> QED
    BY <1>4, <2>1, StatusKept
<1>5. CASE Assess(g) /\ ~ Throw(g) /\ intents' # intents
  <2>1. PICK s \in { "failed", "requires_action" } :
          /\ intents' = [intents EXCEPT ![target[g]] = [View(g) EXCEPT !.status = s]]
          /\ OnlyMover(g) /\ ~ InSection(g)'
    BY <1>5 DEF Assess, Save, Goto, OnlyMover, InSection, store
  <2> QED
    BY <1>1, <1>2, <2>1, SectionLeft DEF IntentRecord, PaymentStatus
<1>6. CASE Settle(g) \/ SettleCapture(g)
  <2>1. OnlyMover(g) /\ ~ InSection(g)'
    BY <1>6 DEF Settle, SettleCapture, Goto, OnlyMover, InSection
  <2>2. \E r : /\ r \in { [View(g) EXCEPT !.status = "succeeded", !.captured = View(g).amount],
                          [View(g) EXCEPT !.status = "succeeded"],
                          [View(g) EXCEPT !.status = "requires_action"] }
               /\ intents' = [intents EXCEPT ![target[g]] = r]
    BY <1>6 DEF Settle, SettleCapture, Assign, Save
  <2>3. PICK r : /\ r \in { [View(g) EXCEPT !.status = "succeeded", !.captured = View(g).amount],
                            [View(g) EXCEPT !.status = "succeeded"],
                            [View(g) EXCEPT !.status = "requires_action"] }
                 /\ intents' = [intents EXCEPT ![target[g]] = r]
    BY <2>2
  <2>4. r \in IntentRecord /\ r.status \in { "requires_action", "succeeded", "failed" }
    BY <1>2, <2>3 DEF IntentRecord, PaymentStatus
  <2> QED
    BY <1>1, <2>1, <2>3, <2>4, SectionLeft
<1>7. CASE Authorize(g)
  <2> DEFINE routed == [View(g) EXCEPT !.routed = TRUE]
             kept   == [routed EXCEPT !.authorized = routed.amount]
             failed == [routed EXCEPT !.status = "failed"]
  <2>1. /\ routed \in IntentRecord /\ kept \in IntentRecord /\ failed \in IntentRecord
        /\ routed.status = intents[target[g]].status /\ kept.status = routed.status
        /\ failed.status = "failed"
    BY <1>2, IntentFields, StatusFields, Statuses
  <2>2. CASE Goto(g, "announce_failed") /\ Save(g, failed)
    <3>1. OnlyMover(g) /\ ~ InSection(g)'
      BY <1>7, <2>2 DEF Authorize, Goto, OnlyMover, InSection
    <3>2. intents' = [intents EXCEPT ![target[g]] = failed]
      BY <2>2 DEF Save
    <3> QED
      BY <1>1, <2>1, <3>1, <3>2, SectionLeft
  <2>3. CASE (Goto(g, "settle") /\ Assign(g, kept)) \/ (UNCHANGED pc /\ Assign(g, routed))
    <3>1. OnlyMover(g)
      BY <1>1, <1>7, <2>3 DEF Authorize, Goto, OnlyMover, InSection
    <3>2. \/ intents' = [intents EXCEPT ![target[g]] = kept]
          \/ intents' = [intents EXCEPT ![target[g]] = routed]
      BY <2>3 DEF Assign
    <3>3. \A i \in Intents : intents'[i].status = intents[i].status
      BY <1>1, <2>1, <3>2, SameStatusWritten
    <3> QED
      BY <3>1, <3>3, StatusKept
  <2> QED
    BY <1>7, <2>2, <2>3 DEF Authorize
<1>8. CASE CaptureResult(g)
  <2>1. CASE ~ Accepted(g)
    <3>1. OnlyMover(g) /\ ~ InSection(g)'
      BY <1>8, <2>1 DEF CaptureResult, Goto, OnlyMover, InSection
    <3>2. intents' = [intents EXCEPT ![target[g]] = [View(g) EXCEPT !.status = "failed"]]
      BY <1>8, <2>1 DEF CaptureResult, Save
    <3>3. /\ [View(g) EXCEPT !.status = "failed"] \in IntentRecord
          /\ [View(g) EXCEPT !.status = "failed"].status = "failed"
      BY <1>2, IntentFields, StatusFields, Statuses
    <3> QED
      BY <1>1, <3>1, <3>2, <3>3, SectionLeft
  <2>2. CASE Accepted(g)
    <3> DEFINE r == [View(g) EXCEPT !.captured = View(g).captured + req[g].amount]
    <3>1. OnlyMover(g)
      BY <1>1, <1>8, <2>2 DEF CaptureResult, Goto, OnlyMover
    <3>2. intents' = [intents EXCEPT ![target[g]] = r]
      BY <1>8, <2>2 DEF CaptureResult, Assign
    <3>3. req[g].amount \in Nat
      BY <1>8, RequestAmount DEF CaptureResult, HandlerOK, Serves
    <3>4. View(g).captured + req[g].amount \in Nat
      BY <1>2, <3>3 DEF IntentRecord
    <3>5. r \in IntentRecord /\ r.status = intents[target[g]].status
      BY <1>2, <3>4, IntentFields, StatusFields, ZenonT(40)
    <3> QED
      BY <1>1, <3>1, <3>2, <3>5, SameStatusWritten, StatusKept
  <2> QED
    BY <2>1, <2>2
<1> QED
  BY <1>3, <1>4, <1>5, <1>6, <1>7, <1>8

\* The actions that take an intent that waits for its client.
LEMMA TakingSteps ==
  ASSUME SharedRecords = TRUE, TypeOK, ProcessingIsExclusive, NEW g \in Handlers,
         Confirm(g) \/ Capture(g) \/ Cancel(g)
  PROVE  ProcessingIsExclusive' /\ StatusMoves
<1> USE DEF TypeOK, HandlersOK
<1>1. target[g] \in Intents
  BY DEF Enter, Confirm, Capture, Cancel, Deciding, HandlerOK, EarlyPc
<1>2. View(g) = intents[target[g]] /\ View(g) \in IntentRecord
  BY <1>1 DEF View, WorldOK
<1>3. CASE Throw(g)
  BY <1>3, HarmlessSteps
<1>4. CASE Goto(g, "put") /\ UNCHANGED intents
  <2>1. target' = target \/ Throw(g)
    BY <1>4 DEF Enter, Confirm, Cancel, Capture
  <2>2. CASE target' = target
    <3>1. OnlyMover(g)
      BY <1>4, <2>2 DEF Goto, OnlyMover, InSection
    <3> QED
      BY <1>4, <3>1, StatusKept
  <2> QED
    BY <1>3, <2>1, <2>2
<1>5. CASE Confirm(g) /\ ~ (Goto(g, "put") /\ UNCHANGED intents)
  <2>1. /\ intents' = [intents EXCEPT ![target[g]] = [View(g) EXCEPT !.status = "processing"]]
        /\ intents[target[g]].status = "requires_confirmation"
        /\ target' = target /\ \A h \in Handlers \ {g} : pc'[h] = pc[h]
    BY <1>2, <1>5 DEF Enter, Confirm, Save, Goto
  <2>2. CanTransition("requires_confirmation", "processing")
    BY DEF CanTransition, ALLOWED_TRANSITIONS
  <2> QED
    BY <1>1, <1>2, <2>1, <2>2, WaitingLeft DEF IntentRecord, PaymentStatus
<1>6. CASE Capture(g) /\ ~ Throw(g)
  <2>1. /\ intents' = [intents EXCEPT ![target[g]] = [View(g) EXCEPT !.status = "processing"]]
        /\ intents[target[g]].status = "requires_action"
        /\ target' = target /\ \A h \in Handlers \ {g} : pc'[h] = pc[h]
    BY <1>2, <1>6 DEF Enter, Capture, Capturable, Save, Goto
  <2>2. CanTransition("requires_action", "processing")
    BY DEF CanTransition, ALLOWED_TRANSITIONS
  <2> QED
    BY <1>1, <1>2, <2>1, <2>2, WaitingLeft DEF IntentRecord, PaymentStatus
<1>7. CASE Cancel(g) /\ ~ Throw(g) /\ ~ (Goto(g, "put") /\ UNCHANGED intents)
  <2>1. /\ intents' = [intents EXCEPT ![target[g]] = [View(g) EXCEPT !.status = "canceled"]]
        /\ ~ InSection(g)' /\ Cancelable(View(g))
        /\ target' = target /\ \A h \in Handlers \ {g} : pc'[h] = pc[h]
    BY <1>7 DEF Cancel, Save, Goto, InSection
  <2>2. \/ intents[target[g]].status = "absent"
        \/ CanTransition(intents[target[g]].status, "canceled")
    BY <1>2, <2>1
    DEF Cancelable, IsTerminalStatus, CanTransition, ALLOWED_TRANSITIONS, IntentRecord, PaymentStatus
  <2>3. /\ [View(g) EXCEPT !.status = "canceled"] \in IntentRecord
        /\ [View(g) EXCEPT !.status = "canceled"].status = "canceled"
        /\ intents[target[g]].status # "processing"
    BY <1>2, <2>1, IntentFields, StatusFields, Statuses DEF Cancelable
  <2> QED
    BY <1>1, <2>1, <2>2, <2>3, WaitingLeft
<1> QED
  BY <1>3, <1>4, <1>5, <1>6, <1>7

LEMMA ExclusiveStep ==
  ASSUME SharedRecords = TRUE, TypeOK, ProcessingIsExclusive, [Next]_vars
  PROVE  ProcessingIsExclusive' /\ StatusMoves
<1>1. CASE UNCHANGED vars
  BY <1>1 DEF vars, store, locals, ProcessingIsExclusive, InSection, StatusMoves
<1>2. ASSUME NEW h \in Handlers, Arrive(h) \/ Step(h) \/ Fail(h)
      PROVE  ProcessingIsExclusive' /\ StatusMoves
  BY <1>2, HarmlessSteps, DrivingSteps, TakingSteps DEF Abort, Step
<1> QED
  BY <1>1, <1>2 DEF Next

\* Over the in-memory repository, "processing" is a lock: the handler that moved
\* an intent there is the only one between its awaits until it moves it on, with
\* any number of handlers, keys and requests and with calls that reject.
THEOREM Exclusion == SharedRecords = TRUE => (Spec => []ProcessingIsExclusive)
<1> SUFFICES ASSUME SharedRecords = TRUE PROVE Spec => []ProcessingIsExclusive
  OBVIOUS
<1>1. Init => ProcessingIsExclusive
  BY DEF Init, ProcessingIsExclusive, InSection
<1>2. TypeOK /\ ProcessingIsExclusive /\ [Next]_vars => ProcessingIsExclusive'
  BY ExclusiveStep
<1> QED
  BY <1>1, <1>2, TypeCorrect, PTL DEF Spec

\* Over the in-memory repository, the status of an intent moves only along
\* ALLOWED_TRANSITIONS: no interleaving of confirmations, captures and
\* cancellations makes an assertTransition lie.
THEOREM StateMachineRespected == SharedRecords = TRUE => (Spec => StatusFollowsStateMachine)
<1> SUFFICES ASSUME SharedRecords = TRUE PROVE Spec => StatusFollowsStateMachine
  OBVIOUS
<1>1. TypeOK /\ ProcessingIsExclusive /\ [Next]_vars => [StatusMoves]_vars
  BY ExclusiveStep
<1>2. Spec => []ProcessingIsExclusive
  BY Exclusion
<1> QED
  BY <1>1, <1>2, TypeCorrect, PTL DEF Spec, StatusFollowsStateMachine, StatusMoves

-----------------------------------------------------------------------------
(* executeIdempotent: a key's operation completes at most once *)

\* Two handlers never execute for the same scope and key.
KeyIsLocked ==
  \A g, h \in Handlers : Executing(g) /\ Executing(h) /\ SameSlot(req[g], req[h]) => g = h

PastLookup(h) == pc[h] \notin { "idle", "lock", "lookup" }

\* Nothing is stored, nobody else's request changed, and g either released its
\* key or goes on with the request it had.
SlotsKept(g) ==
  /\ records' = records
  /\ \A h \in Handlers \ {g} : pc'[h] = pc[h] /\ req'[h] = req[h]
  /\ \/ ~ Executing(g)'
     \/ req'[g] = req[g] /\ PastLookup(g)

LEMMA SlotsKeptSafe ==
  ASSUME KeyIsLocked, AtMostOnce, NEW g \in Handlers, SlotsKept(g)
  PROVE  KeyIsLocked' /\ AtMostOnce'
  BY DEF KeyIsLocked, AtMostOnce, SlotsKept, Executing, PastLookup, Recorded

LEMMA SlotsStep ==
  ASSUME TypeOK, NEW g \in Handlers, Step(g) \/ Fail(g) \/ Arrive(g),
         ~ Lock(g), ~ Lookup(g), ~ Put(g)
  PROVE  SlotsKept(g)
<1> USE DEF TypeOK, HandlersOK
<1>1. CASE Throw(g) \/ Fail(g) \/ Arrive(g)
  BY <1>1 DEF Throw, Fail, Arrive, Release, Goto, SlotsKept, Executing
<1>2. CASE Announce(g)
  BY <1>2 DEF Announce, Goto, SlotsKept, PastLookup, Announcement, locals
<1>3. CASE Create(g) \/ ReadIntent(g) \/ ReadChargeback(g)
  BY <1>1, <1>3 DEF Create, ReadIntent, ReadChargeback, Goto, SlotsKept, PastLookup
<1>4. CASE Confirm(g) \/ Assess(g) \/ Authorize(g) \/ Settle(g) \/ SaveOutcome(g)
  BY <1>1, <1>4
  DEF Enter, Confirm, Assess, Authorize, Settle, SaveOutcome, Deciding, Goto, SlotsKept, PastLookup
<1>5. CASE Capture(g) \/ CallCapture(g) \/ CaptureResult(g) \/ SettleCapture(g) \/ Cancel(g)
  BY <1>1, <1>5
  DEF Enter, Capture, CallCapture, CaptureResult, SettleCapture, Cancel, Deciding, Goto, SlotsKept, PastLookup
<1>6. CASE Refund(g) \/ CallRefund(g) \/ RefundResult(g) \/ ApplyRefund(g) \/ PostRefund(g)
  BY <1>1, <1>6
  DEF Refund, CallRefund, RefundResult, ApplyRefund, PostRefund, Deciding, Goto, SlotsKept,
      PastLookup, locals
<1>7. CASE ListChargebacks(g) \/ Dispute(g) \/ Resolve(g) \/ PostLoss(g)
  BY <1>1, <1>7
  DEF ListChargebacks, Dispute, Resolve, PostLoss, Deciding, Goto, SlotsKept, PastLookup, locals
<1> QED
  BY <1>1, <1>2, <1>3, <1>4, <1>5, <1>6, <1>7 DEF Abort, Step

LEMMA SameSlotSymmetric == \A q, r : SameSlot(q, r) => SameSlot(r, q)
  BY DEF SameSlot

LEMMA KeyStep ==
  ASSUME TypeOK, KeyIsLocked, AtMostOnce, [Next]_vars
  PROVE  KeyIsLocked' /\ AtMostOnce'
<1> USE DEF TypeOK, HandlersOK
<1>1. CASE UNCHANGED vars
  BY <1>1 DEF vars, locals, KeyIsLocked, AtMostOnce, Executing, Recorded
<1>2. ASSUME NEW g \in Handlers, Lock(g) PROVE KeyIsLocked' /\ AtMostOnce'
  <2>1. /\ pc' = [pc EXCEPT ![g] = "lookup"] /\ UNCHANGED <<req, records>>
        /\ \A h \in Handlers : Executing(h) => ~ SameSlot(req[h], req[g])
    BY <1>2 DEF Lock, LockFree, Goto, locals
  <2> QED
    BY <2>1, SameSlotSymmetric DEF KeyIsLocked, AtMostOnce, Executing, Recorded
<1>3. ASSUME NEW g \in Handlers, Lookup(g) PROVE KeyIsLocked' /\ AtMostOnce'
  <2>1. CASE Throw(g)
    <3>1. SlotsKept(g)
      BY <2>1 DEF Throw, Release, Goto, SlotsKept, Executing
    <3> QED
      BY <3>1, SlotsKeptSafe
  <2>2. CASE ~ Throw(g)
    <3>1. /\ ~ Recorded(req[g]) /\ UNCHANGED <<req, records>> /\ pc[g] = "lookup"
          /\ \A h \in Handlers \ {g} : pc'[h] = pc[h]
      BY <1>3, <2>2 DEF Lookup, Goto, locals
    <3> QED
      BY <3>1 DEF KeyIsLocked, AtMostOnce, Executing, Recorded
  <2> QED
    BY <2>1, <2>2
<1>4. ASSUME NEW g \in Handlers, Put(g) PROVE KeyIsLocked' /\ AtMostOnce'
  <2>1. /\ records' = records \cup { req[g] } /\ Executing(g) /\ ~ Executing(g)'
        /\ \A h \in Handlers \ {g} : pc'[h] = pc[h] /\ req'[h] = req[h]
    BY <1>4 DEF Put, Release, Goto, Executing
  <2>2. KeyIsLocked'
    BY <2>1 DEF KeyIsLocked, Executing
  <2>3. ASSUME NEW h \in Handlers, PastLookup(h)' PROVE ~ Recorded(req[h])'
    <3>1. h # g /\ Executing(h) /\ PastLookup(h) /\ req'[h] = req[h]
      BY <2>1, <2>3 DEF Executing, PastLookup
    <3>2. ~ SameSlot(req[g], req[h]) /\ ~ Recorded(req[h])
      BY <2>1, <3>1 DEF KeyIsLocked, AtMostOnce, PastLookup
    <3> QED
      BY <2>1, <3>1, <3>2 DEF Recorded
  <2> QED
    BY <2>2, <2>3 DEF AtMostOnce, PastLookup
<1>5. ASSUME NEW g \in Handlers, Step(g) \/ Fail(g) \/ Arrive(g), ~ Lock(g), ~ Lookup(g), ~ Put(g)
      PROVE  KeyIsLocked' /\ AtMostOnce'
  BY <1>5, SlotsStep, SlotsKeptSafe
<1> QED
  BY <1>1, <1>2, <1>3, <1>4, <1>5 DEF Next

\* An operation never runs for a key whose result is already stored, over both
\* repositories and whatever fails: two concurrent requests with one key make
\* one stored result (executeIdempotent under withKeyLock).
THEOREM AtMostOnceHolds == Spec => []AtMostOnce
<1>1. Init => KeyIsLocked /\ AtMostOnce
  BY DEF Init, KeyIsLocked, AtMostOnce, Executing
<1>2. TypeOK /\ (KeyIsLocked /\ AtMostOnce) /\ [Next]_vars => (KeyIsLocked /\ AtMostOnce)'
  BY KeyStep
<1> QED
  BY <1>1, <1>2, TypeCorrect, PTL DEF Spec
-----------------------------------------------------------------------------
(* The in-memory repository: a chargeback is decided once *)

\* Over the in-memory repository a chargeback that was won or lost stays so,
\* whichever resolutions race on it: resolveChargeback tests the stored object
\* in the stretch that assigns to it.
THEOREM DecisionsStand == SharedRecords = TRUE => (Spec => ChargebackDecidedOnce)
<1> SUFFICES ASSUME SharedRecords = TRUE PROVE Spec => ChargebackDecidedOnce
  OBVIOUS
<1> DEFINE Stays == \A c \in Chargebacks : chargebacks[c].status \in { "won", "lost" }
                      => chargebacks'[c].status = chargebacks[c].status
<1>1. ASSUME TypeOK, [Next]_vars PROVE [Stays]_vars
  <2>1. CASE UNCHANGED chargebacks
    BY <2>1
  <2>2. ASSUME NEW h \in Handlers, Dispute(h) PROVE Stays
    <3>1. CASE UNCHANGED chargebacks
      BY <3>1
    <3>2. CASE ~ UNCHANGED chargebacks
      <4>1. \E d \in Chargebacks : /\ chargebacks[d].status = "absent"
                                  /\ \E r : chargebacks' = [chargebacks EXCEPT ![d] = r]
        BY <2>2, <3>2 DEF Dispute, Throw, store
      <4> QED
        BY <4>1 DEF TypeOK, WorldOK
    <3> QED
      BY <3>1, <3>2
  <2>3. ASSUME NEW h \in Handlers, Resolve(h) PROVE Stays
    <3>1. CASE UNCHANGED chargebacks
      BY <3>1
    <3>2. CASE ~ UNCHANGED chargebacks
      <4> DEFINE d == req[h].chargeback
      <4>1. /\ Undecided(chargebacks[d].status)
            /\ \E r : chargebacks' = [chargebacks EXCEPT ![d] = r]
        BY <2>3, <3>2 DEF Resolve, ViewChargeback, Throw, store
      <4> QED
        BY <4>1 DEF Undecided, TypeOK, WorldOK
    <3> QED
      BY <3>1, <3>2
  <2>4. ASSUME NEW h \in Handlers, Arrive(h) \/ Step(h) \/ Fail(h), ~ Dispute(h), ~ Resolve(h)
        PROVE  UNCHANGED chargebacks
    BY <2>4
    DEF Enter, Abort, Step, Arrive, Fail, Throw, store, Lock, Lookup, Put, Announce, Create, ReadIntent, Confirm,
        Assess, Authorize, Settle, SaveOutcome, Capture, CallCapture, CaptureResult,
        SettleCapture, Cancel, Refund, CallRefund, RefundResult, ApplyRefund, PostRefund,
        ListChargebacks, ReadChargeback, PostLoss
  <2> QED
    BY <1>1, <2>1, <2>2, <2>3, <2>4 DEF Next, vars, store
<1> QED
  BY <1>1, TypeCorrect, PTL DEF Spec, ChargebackDecidedOnce
-----------------------------------------------------------------------------
(* The in-memory repository: money follows authorize - capture - succeed *)

\* What an intent's amounts and its ledger are between any two steps: money is
\* authorized for the full amount or not at all, and booked as it is assigned.
AccountOK(i) ==
  /\ intents[i].captured <= intents[i].authorized
  /\ intents[i].authorized \in { 0, intents[i].amount }
  /\ intents[i].status \in { "absent", "requires_confirmation" } => intents[i].authorized = 0
  /\ intents[i].status = "absent" => intents[i].amount = 0
  /\ intents[i].status # "absent" => intents[i].amount \in 1..MaxAmount
  /\ ledger[i].authorization = intents[i].authorized
  /\ ledger[i].capture = intents[i].captured

\* What a handler may rely on about its intent at the await it is parked at.
Stands(h, intent) ==
  /\ req[h].op # "resolve" => intent.status # "absent"
  /\ pc[h] \in { "confirm_processing", "assess", "authorize" } => intent.authorized = 0
  /\ pc[h] = "settle" => intent.authorized = intent.amount /\ intent.captured = 0
  /\ pc[h] \in { "capture_processing", "call_capture", "capture_result" }
       => intent.captured + req[h].amount <= intent.authorized
  /\ pc[h] = "settle_capture" => intent.authorized > 0

HandlerStands(h) == pc[h] \notin EarlyPc => Stands(h, intents[target[h]])

MoneyOK ==
  /\ \A i \in Intents : AccountOK(i)
  /\ \A h \in Handlers : HandlerStands(h)

\* The step belongs to g: nobody else moved.
StepOf(g) ==
  \A h \in Handlers \ {g} : pc'[h] = pc[h] /\ req'[h] = req[h] /\ target'[h] = target[h]

LEMMA StepHasOneMover ==
  ASSUME TypeOK, NEW g \in Handlers, Arrive(g) \/ Step(g) \/ Fail(g)
  PROVE  StepOf(g)
<1> USE DEF TypeOK, HandlersOK, StepOf, Goto
<1>1. CASE Arrive(g) \/ Fail(g) \/ Throw(g) \/ Put(g)
  BY <1>1 DEF Arrive, Fail, Throw, Put, Release
<1>2. CASE \/ Lock(g) \/ Lookup(g) \/ Announce(g) \/ Create(g) \/ ReadIntent(g)
           \/ ReadChargeback(g)
  BY <1>1, <1>2 DEF Lock, Lookup, Announce, Create, ReadIntent, ReadChargeback, locals
<1>3. CASE Confirm(g) \/ Assess(g) \/ Authorize(g) \/ Settle(g) \/ SaveOutcome(g)
  BY <1>1, <1>3 DEF Enter, Confirm, Assess, Authorize, Settle, SaveOutcome
<1>4. CASE Capture(g) \/ CallCapture(g) \/ CaptureResult(g) \/ SettleCapture(g) \/ Cancel(g)
  BY <1>1, <1>4 DEF Enter, Capture, CallCapture, CaptureResult, SettleCapture, Cancel
<1>5. CASE Refund(g) \/ CallRefund(g) \/ RefundResult(g) \/ ApplyRefund(g) \/ PostRefund(g)
  BY <1>1, <1>5 DEF Refund, CallRefund, RefundResult, ApplyRefund, PostRefund, locals
<1>6. CASE ListChargebacks(g) \/ Dispute(g) \/ Resolve(g) \/ PostLoss(g)
  BY <1>1, <1>6 DEF ListChargebacks, Dispute, Resolve, PostLoss, locals
<1> QED
  BY <1>1, <1>2, <1>3, <1>4, <1>5, <1>6 DEF Abort, Step

\* Neither an account nor what the ledger holds of it changed.
AccountsKept ==
  \A i \in Intents :
    /\ intents'[i].status = intents[i].status
    /\ intents'[i].amount = intents[i].amount
    /\ intents'[i].authorized = intents[i].authorized
    /\ intents'[i].captured = intents[i].captured
    /\ ledger'[i].authorization = ledger[i].authorization
    /\ ledger'[i].capture = ledger[i].capture

LEMMA MoneyKept ==
  ASSUME TypeOK, MoneyOK, NEW g \in Handlers, StepOf(g), AccountsKept, HandlerStands(g)'
  PROVE  MoneyOK' /\ Accounts' = Accounts
<1>1. ASSUME NEW i \in Intents PROVE AccountOK(i)'
  BY DEF MoneyOK, AccountOK, AccountsKept
<1>2. ASSUME NEW h \in Handlers, h # g PROVE HandlerStands(h)'
  <2>1. pc'[h] = pc[h] /\ req'[h] = req[h] /\ target'[h] = target[h]
    BY <1>2 DEF StepOf
  <2>2. pc[h] \notin EarlyPc => target[h] \in Intents
    BY DEF TypeOK, HandlersOK, HandlerOK, EarlyPc
  <2> QED
    BY <2>1, <2>2 DEF MoneyOK, HandlerStands, Stands, AccountsKept
<1>3. Accounts' = Accounts
  BY DEF Accounts, AccountsKept
<1> QED
  BY <1>1, <1>2, <1>3 DEF MoneyOK

\* g writes record r to intent t, which nobody else drives.
LEMMA MoneyMoved ==
  ASSUME TypeOK, MoneyOK, NEW g \in Handlers, StepOf(g),
         NEW t \in Intents, NEW r \in IntentRecord, r.status # "absent",
         intents' = [intents EXCEPT ![t] = r],
         \A h \in Handlers \ {g} : InSection(h) => target[h] # t,
         \A i \in Intents : i # t => ledger'[i] = ledger[i],
         AccountOK(t)', HandlerStands(g)'
  PROVE  MoneyOK'
<1>1. ASSUME NEW i \in Intents, i # t PROVE AccountOK(i)'
  BY <1>1 DEF MoneyOK, AccountOK, TypeOK, WorldOK
<1>2. ASSUME NEW h \in Handlers, h # g PROVE HandlerStands(h)'
  <2>1. pc'[h] = pc[h] /\ req'[h] = req[h] /\ target'[h] = target[h]
    BY <1>2 DEF StepOf
  <2>2. CASE pc[h] \in EarlyPc
    BY <2>1, <2>2 DEF HandlerStands
  <2>3. CASE pc[h] \notin EarlyPc /\ target[h] # t
    BY <2>1, <2>3 DEF HandlerStands, Stands, MoneyOK, TypeOK, WorldOK, HandlersOK, HandlerOK, EarlyPc
  <2>4. CASE pc[h] \notin EarlyPc /\ target[h] = t
    <3>1. ~ InSection(h)
      BY <1>2, <2>4
    <3>2. intents'[target'[h]] = r
      BY <2>1, <2>4 DEF TypeOK, WorldOK
    <3> QED
      BY <2>1, <2>4, <3>1, <3>2 DEF HandlerStands, Stands, InSection
  <2> QED
    BY <2>2, <2>3, <2>4
<1> QED
  BY <1>1, <1>2 DEF MoneyOK

\* The actions that touch no account: their handler still stands where it may.
LEMMA QuietSteps ==
  ASSUME SharedRecords = TRUE, TypeOK, MoneyOK, NEW g \in Handlers, StepOf(g),
         \/ Arrive(g) \/ Fail(g) \/ Throw(g)
         \/ Lock(g) \/ Lookup(g) \/ Put(g) \/ Announce(g) \/ ReadIntent(g)
         \/ SaveOutcome(g) \/ CallCapture(g) \/ Refund(g) \/ CallRefund(g)
         \/ RefundResult(g) \/ ApplyRefund(g) \/ PostRefund(g) \/ ListChargebacks(g)
         \/ Dispute(g) \/ ReadChargeback(g) \/ Resolve(g) \/ PostLoss(g)
  PROVE  MoneyOK' /\ Accounts' = Accounts
<1> USE DEF TypeOK, HandlersOK
<1> SUFFICES AccountsKept /\ HandlerStands(g)'
  BY MoneyKept
<1>1. CASE Arrive(g) \/ Fail(g) \/ Throw(g) \/ Put(g)
  BY <1>1 DEF AccountsKept, HandlerStands, Arrive, Fail, Throw, Put, Release, Goto, store, EarlyPc
<1>2. CASE Lock(g) \/ Lookup(g)
  BY <1>1, <1>2 DEF AccountsKept, HandlerStands, Lock, Lookup, Goto, store, EarlyPc
<1>3. CASE ReadIntent(g) /\ ~ Throw(g)
  BY <1>3 DEF AccountsKept, HandlerStands, Stands, ReadIntent, Goto, store, EarlyPc
<1>4. CASE ReadChargeback(g) /\ ~ Throw(g)
  BY <1>4 DEF AccountsKept, HandlerStands, Stands, ReadChargeback, Goto, store, EarlyPc
<1>5. CASE Announce(g)
  <2>1. UNCHANGED <<intents, ledger, req, target>> /\ pc' = [pc EXCEPT ![g] = Announcement[pc[g]].then]
    BY <1>5 DEF Announce, Goto, store, locals
  <2>2. pc[g] \in DOMAIN Announcement /\ pc[g] \notin EarlyPc
    BY <1>5 DEF Announce, Announcement, EarlyPc
  <2>3. \/ Announcement[pc[g]].then \in { "put", "save" }
        \/ Announcement[pc[g]].then = "assess" /\ pc[g] = "confirm_processing"
        \/ Announcement[pc[g]].then = "call_capture" /\ pc[g] = "capture_processing"
    BY <2>2 DEF Announcement
  <2> QED
    BY <2>1, <2>2, <2>3 DEF AccountsKept, HandlerStands, Stands, MoneyOK
<1>6. CASE Refund(g) \/ RefundResult(g) \/ CallRefund(g) \/ CallCapture(g)
  <2>1. CASE Throw(g)
    BY <1>1, <2>1
  <2>2. CASE ~ Throw(g)
    <3>1. /\ UNCHANGED <<intents, ledger, req, target>> /\ pc[g] \notin EarlyPc
          /\ \/ pc'[g] \in { "call_refund", "refund_result", "refund_failed", "apply_refund" }
             \/ pc'[g] = "capture_result" /\ pc[g] = "call_capture"
      BY <1>6, <2>2 DEF Refund, RefundResult, CallRefund, CallCapture, Deciding, Goto, store, locals,
         EarlyPc
    <3> QED
      BY <3>1 DEF AccountsKept, HandlerStands, Stands, MoneyOK
  <2> QED
    BY <2>1, <2>2
<1>7. CASE ListChargebacks(g) \/ Dispute(g) \/ Resolve(g)
  <2>1. CASE Throw(g)
    BY <1>1, <2>1
  <2>2. CASE ~ Throw(g)
    <3>1. /\ UNCHANGED <<intents, ledger, req, target>> /\ pc[g] \notin EarlyPc
          /\ pc'[g] \in { "dispute", "chargeback_opened", "put", "post_loss", "chargeback_won" }
      BY <1>7, <2>2 DEF ListChargebacks, Dispute, Resolve, Deciding, Goto, store, locals, EarlyPc
    <3> QED
      BY <3>1 DEF AccountsKept, HandlerStands, Stands, MoneyOK
  <2> QED
    BY <2>1, <2>2
<1>8. CASE PostRefund(g) \/ PostLoss(g)
  <2>1. /\ UNCHANGED <<intents, req, target>> /\ pc[g] \notin EarlyPc
        /\ pc'[g] \in { "refund_succeeded", "chargeback_lost" }
        /\ \E type \in { "refund", "chargeback" } : \E n :
             ledger' = [ledger EXCEPT ![target[g]][type] = @ + n]
    BY <1>8 DEF PostRefund, PostLoss, AppendLedgerEntry, Goto, locals, EarlyPc
  <2>2. \A i \in Intents : /\ ledger'[i].authorization = ledger[i].authorization
                           /\ ledger'[i].capture = ledger[i].capture
    BY <2>1 DEF WorldOK, LedgerTotals
  <2> QED
    BY <2>1, <2>2 DEF AccountsKept, HandlerStands, Stands, MoneyOK
<1>9. CASE SaveOutcome(g) \/ ApplyRefund(g)
  <2>1. target[g] \in Intents /\ pc[g] \notin EarlyPc
    BY <1>9 DEF SaveOutcome, ApplyRefund, HandlerOK, EarlyPc
  <2>2. View(g) = intents[target[g]] /\ View(g) \in IntentRecord
    BY <2>1 DEF View, WorldOK
  <2>3. PICK n : intents' = [intents EXCEPT ![target[g]] = View(g)]
                 \/ intents' = [intents EXCEPT ![target[g]] = [View(g) EXCEPT !.refunded = n]]
    BY <1>9 DEF SaveOutcome, ApplyRefund, Save
  <2>4. \A i \in Intents : /\ intents'[i].status = intents[i].status
                           /\ intents'[i].amount = intents[i].amount
                           /\ intents'[i].authorized = intents[i].authorized
                           /\ intents'[i].captured = intents[i].captured
    <3>1. PICK r : /\ r.status = View(g).status /\ r.amount = View(g).amount
                   /\ r.authorized = View(g).authorized /\ r.captured = View(g).captured
                   /\ intents' = [intents EXCEPT ![target[g]] = r]
      BY <2>2, <2>3 DEF IntentRecord
    <3> QED
      BY <2>1, <2>2, <3>1 DEF WorldOK
  <2>5. UNCHANGED <<ledger, req, target>> /\ pc'[g] \in { "put", "post_refund" }
    BY <1>9 DEF SaveOutcome, ApplyRefund, Goto
  <2>6. AccountsKept
    BY <2>4, <2>5 DEF AccountsKept
  <2>7. HandlerStands(g)'
    BY <2>1, <2>4, <2>5 DEF HandlerStands, Stands, MoneyOK
  <2> QED
    BY <2>6, <2>7
<1> QED
  BY <1>1, <1>2, <1>3, <1>4, <1>5, <1>6, <1>7, <1>8, <1>9

\* The account of an intent record.
AccountOf(r) ==
  [ status |-> r.status, amount |-> r.amount, authorized |-> r.authorized, captured |-> r.captured ]

LEMMA AccountsWritten ==
  ASSUME TypeOK, NEW t \in Intents, NEW r \in IntentRecord, intents' = [intents EXCEPT ![t] = r]
  PROVE  /\ Accounts' = [Accounts EXCEPT ![t] = AccountOf(r)]
         /\ Accounts[t] = AccountOf(intents[t])
<1>1. \A i \in Intents : Accounts[i] = AccountOf(intents[i])
  BY DEF Accounts, AccountOf
<1>2. \A i \in Intents : Accounts'[i] = AccountOf(intents'[i])
  BY DEF Accounts, AccountOf
<1>3. \A i \in Intents : intents'[i] = IF i = t THEN r ELSE intents[i]
  BY DEF TypeOK, WorldOK
<1>4. /\ Accounts = [ i \in Intents |-> Accounts[i] ]
      /\ Accounts' = [ i \in Intents |-> Accounts'[i] ]
  BY DEF Accounts
<1> QED
  BY <1>1, <1>2, <1>3, <1>4

\* A status change that moves no money advances the account.
LEMMA Advances ==
  ASSUME TypeOK, NEW t \in Intents, NEW s \in PaymentStatus \ { "succeeded" },
         intents[t].status # "absent", CanTransition(intents[t].status, s),
         NEW r \in IntentRecord, intents' = [intents EXCEPT ![t] = r],
         r.status = s, r.amount = intents[t].amount,
         r.authorized = intents[t].authorized, r.captured = intents[t].captured
  PROVE  Lifecycle!LNext
<1>1. /\ Accounts' = [Accounts EXCEPT ![t] = AccountOf(r)]
      /\ Accounts[t] = AccountOf(intents[t])
  BY AccountsWritten
<1>2. AccountOf(r) = [Accounts[t] EXCEPT !.status = s]
  BY <1>1 DEF AccountOf
<1>3. Accounts' = [Accounts EXCEPT ![t].status = s]
  BY <1>1, <1>2
<1>4. Accounts[t].status = intents[t].status
  BY <1>1 DEF AccountOf
<1>5. Lifecycle!Advance(t, s)
  BY <1>3, <1>4
  DEF Lifecycle!Advance, Lifecycle!CanTransition, Lifecycle!ALLOWED_TRANSITIONS,
      CanTransition, ALLOWED_TRANSITIONS
<1>6. s \in Lifecycle!PaymentStatus
  BY DEF Lifecycle!PaymentStatus, PaymentStatus
<1> QED
  BY <1>5, <1>6 DEF Lifecycle!LNext

\* The full amount is authorized.
LEMMA Authorizes ==
  ASSUME TypeOK, NEW t \in Intents, intents[t].status = "processing", intents[t].authorized = 0,
         NEW r \in IntentRecord, intents' = [intents EXCEPT ![t] = r],
         AccountOf(r) = [AccountOf(intents[t]) EXCEPT !.authorized = intents[t].amount]
  PROVE  Lifecycle!LNext
<1>1. /\ Accounts' = [Accounts EXCEPT ![t] = AccountOf(r)]
      /\ Accounts[t] = AccountOf(intents[t])
  BY AccountsWritten
<1>2. /\ Accounts[t].status = intents[t].status /\ Accounts[t].amount = intents[t].amount
      /\ Accounts[t].authorized = intents[t].authorized
      /\ Accounts[t].captured = intents[t].captured
  BY <1>1 DEF AccountOf
<1>3. Accounts' = [Accounts EXCEPT ![t].authorized = Accounts[t].amount]
  BY <1>1, <1>2
<1>4. Lifecycle!AuthorizeAccount(t)
  BY <1>2, <1>3 DEF Lifecycle!AuthorizeAccount
<1> QED
  BY <1>4 DEF Lifecycle!LNext

\* Part of what was authorized is captured.
LEMMA Collects ==
  ASSUME TypeOK, NEW t \in Intents, intents[t].status = "processing", NEW n \in 1..MaxAmount,
         intents[t].captured + n <= intents[t].authorized,
         NEW r \in IntentRecord, intents' = [intents EXCEPT ![t] = r],
         AccountOf(r) = [AccountOf(intents[t]) EXCEPT !.captured = intents[t].captured + n]
  PROVE  Lifecycle!LNext
<1>1. /\ Accounts' = [Accounts EXCEPT ![t] = AccountOf(r)]
      /\ Accounts[t] = AccountOf(intents[t])
  BY AccountsWritten
<1>2. /\ Accounts[t].status = intents[t].status /\ Accounts[t].amount = intents[t].amount
      /\ Accounts[t].authorized = intents[t].authorized
      /\ Accounts[t].captured = intents[t].captured
  BY <1>1 DEF AccountOf
<1>3. Accounts' = [Accounts EXCEPT ![t].captured = @ + n]
  BY <1>1, <1>2
<1>4. Lifecycle!Collect(t, n)
  BY <1>2, <1>3 DEF Lifecycle!Collect
<1> QED
  BY <1>4 DEF Lifecycle!LNext

\* The payment succeeds with all that was authorized captured.
LEMMA Succeeds ==
  ASSUME TypeOK, NEW t \in Intents, intents[t].status = "processing", intents[t].authorized > 0,
         NEW r \in IntentRecord, intents' = [intents EXCEPT ![t] = r],
         r.status = "succeeded", r.amount = intents[t].amount,
         r.authorized = intents[t].authorized, r.captured = intents[t].authorized
  PROVE  Lifecycle!LNext
<1>1. /\ Accounts' = [Accounts EXCEPT ![t] = AccountOf(r)]
      /\ Accounts[t] = AccountOf(intents[t])
  BY AccountsWritten
<1>2. /\ Accounts[t].status = intents[t].status /\ Accounts[t].amount = intents[t].amount
      /\ Accounts[t].authorized = intents[t].authorized
      /\ Accounts[t].captured = intents[t].captured
  BY <1>1 DEF AccountOf
<1>3. AccountOf(r) = [Accounts[t] EXCEPT !.status = "succeeded", !.captured = Accounts[t].authorized]
  <2>1. PICK old : old = Accounts[t]
    OBVIOUS
  <2>2. PICK new : new = [old EXCEPT !.status = "succeeded", !.captured = old.authorized]
    OBVIOUS
  <2>3. PICK amount, authorized :
          /\ amount = intents[t].amount /\ authorized = intents[t].authorized
          /\ AccountOf(r) = [ status |-> "succeeded", amount |-> amount,
                              authorized |-> authorized, captured |-> authorized ]
          /\ \E captured : old = [ status |-> "processing", amount |-> amount,
                                   authorized |-> authorized, captured |-> captured ]
    BY <1>1, <2>1 DEF AccountOf
  <2>4. PICK captured : old = [ status |-> "processing", amount |-> amount,
                                authorized |-> authorized, captured |-> captured ]
    BY <2>3
  <2>5. old.status = "processing" /\ new.status = "succeeded" /\ old.authorized = authorized
    BY <2>2, <2>4
  <2>6. new = [ status |-> "succeeded", amount |-> amount,
                authorized |-> authorized, captured |-> authorized ]
    BY <2>2, <2>4, <2>5
  <2> QED
    BY <2>1, <2>2, <2>3, <2>6
<1>4. Accounts' = [Accounts EXCEPT ![t].status = "succeeded", ![t].captured = Accounts[t].authorized]
  <2>1. Accounts' = [Accounts EXCEPT ![t] = [Accounts[t] EXCEPT !.status = "succeeded",
                                                                !.captured = Accounts[t].authorized]]
    BY <1>1, <1>3
  <2> QED
    BY <2>1 DEF Accounts
<1>5. Lifecycle!Succeed(t)
  BY <1>2, <1>4 DEF Lifecycle!Succeed
<1> QED
  BY <1>5 DEF Lifecycle!LNext

\* An intent is opened.
LEMMA Opens ==
  ASSUME TypeOK, NEW t \in Intents, AccountOf(intents[t]) = AccountOf(BlankIntent),
         NEW n \in 1..MaxAmount,
         NEW r \in IntentRecord, intents' = [intents EXCEPT ![t] = r],
         AccountOf(r) = [ status |-> "requires_confirmation", amount |-> n,
                          authorized |-> 0, captured |-> 0 ]
  PROVE  Lifecycle!LNext
<1>1. /\ Accounts' = [Accounts EXCEPT ![t] = AccountOf(r)]
      /\ Accounts[t] = AccountOf(intents[t])
  BY AccountsWritten
<1>2. AccountOf(BlankIntent) = Lifecycle!NoAccount
  BY DEF AccountOf, BlankIntent, Lifecycle!NoAccount
<1>3. AccountOf(r) = [Lifecycle!NoAccount EXCEPT !.status = "requires_confirmation", !.amount = n]
  <2>1. PICK none : none = Lifecycle!NoAccount
    OBVIOUS
  <2>2. PICK opened : opened = [none EXCEPT !.status = "requires_confirmation", !.amount = n]
    OBVIOUS
  <2>3. none = [ status |-> "absent", amount |-> 0, authorized |-> 0, captured |-> 0 ]
    BY <2>1 DEF Lifecycle!NoAccount
  <2>4. none.status = "absent" /\ opened.status = "requires_confirmation"
    BY <2>2, <2>3
  <2>5. opened = [ status |-> "requires_confirmation", amount |-> n, authorized |-> 0, captured |-> 0 ]
    BY <2>2, <2>3, <2>4
  <2> QED
    BY <2>1, <2>2, <2>5
<1>4. Lifecycle!Open(t)
  BY <1>1, <1>2, <1>3 DEF Lifecycle!Open
<1> QED
  BY <1>4 DEF Lifecycle!LNext

\* A driver of an intent is alone in the section.
LEMMA DriverAlone ==
  ASSUME ProcessingIsExclusive, NEW g \in Handlers,
         InSection(g) \/ intents[target[g]].status # "processing"
  PROVE  \A h \in Handlers \ {g} : InSection(h) => target[h] # target[g]
  BY DEF ProcessingIsExclusive

LEMMA CreateMoney ==
  ASSUME SharedRecords = TRUE, TypeOK, ProcessingIsExclusive, MoneyOK,
         NEW g \in Handlers, StepOf(g), Create(g)
  PROVE  MoneyOK' /\ Lifecycle!LNext
<1> USE DEF TypeOK, HandlersOK
<1>1. PICK t \in Intents :
        /\ intents[t].status = "absent"
        /\ intents' = [intents EXCEPT ![t] =
             [ BlankIntent EXCEPT !.status = "requires_confirmation",
                                  !.method = req[g].method, !.amount = req[g].amount ]]
        /\ target' = [target EXCEPT ![g] = t]
  BY DEF Create
<1> DEFINE r == [ BlankIntent EXCEPT !.status = "requires_confirmation",
                                     !.method = req[g].method, !.amount = req[g].amount ]
<1>2. req[g].amount \in 1..MaxAmount /\ req[g].method \in CaptureMethod
  BY DEF Create, HandlerOK, Serves, Request
<1>3. /\ r \in IntentRecord /\ r.status = "requires_confirmation" /\ r.amount = req[g].amount
      /\ r.authorized = 0 /\ r.captured = 0
  <2>1. req[g].amount \in Nat
    BY <1>2, BoundAssumption
  <2>2. r \in IntentRecord
    BY <1>2, <2>1, BlankType, Statuses DEF IntentRecord
  <2> QED
    BY <2>2 DEF BlankIntent
<1>4. intents'[t] = r /\ intents' = [intents EXCEPT ![t] = r]
  BY <1>1 DEF WorldOK
<1> HIDE DEF r
<1>5. /\ intents[t].amount = 0 /\ intents[t].authorized = 0 /\ intents[t].captured = 0
      /\ ledger[t].authorization = 0 /\ ledger[t].capture = 0
  BY <1>1 DEF MoneyOK, AccountOK, WorldOK, IntentRecord
<1>6. AccountOK(t)'
  <2>1. ledger' = ledger
    BY DEF Create
  <2> QED
    BY <1>2, <1>3, <1>4, <1>5, <2>1 DEF AccountOK
<1>7. HandlerStands(g)'
  BY <1>1, <1>3, <1>4 DEF HandlerStands, Stands, Create, Goto
<1>8. \A h \in Handlers \ {g} : InSection(h) => target[h] # t
  BY <1>1 DEF ProcessingIsExclusive
<1>9. MoneyOK'
  BY <1>3, <1>4, <1>6, <1>7, <1>8, MoneyMoved DEF Create
<1>10. /\ AccountOf(intents[t]) = AccountOf(BlankIntent)
       /\ AccountOf(r) = [ status |-> "requires_confirmation", amount |-> req[g].amount,
                           authorized |-> 0, captured |-> 0 ]
  <2>1. /\ BlankIntent.status = "absent" /\ BlankIntent.amount = 0
        /\ BlankIntent.authorized = 0 /\ BlankIntent.captured = 0
    BY DEF BlankIntent
  <2>2. AccountOf(BlankIntent) =
          [ status |-> "absent", amount |-> 0, authorized |-> 0, captured |-> 0 ]
    BY <2>1 DEF AccountOf
  <2>3. AccountOf(r) = [ status |-> "requires_confirmation", amount |-> req[g].amount,
                         authorized |-> 0, captured |-> 0 ]
    BY <1>3 DEF AccountOf
  <2>4. AccountOf(intents[t]) = AccountOf(BlankIntent)
    BY <1>1, <1>5, <2>2 DEF AccountOf
  <2> QED
    BY <2>2, <2>3, <2>4
<1>11. Lifecycle!LNext
  BY <1>2, <1>3, <1>4, <1>10, Opens
<1> QED
  BY <1>9, <1>11

\* Confirm, Capture and Cancel change the status of an intent that waits.
LEMMA TakingMoney ==
  ASSUME SharedRecords = TRUE, TypeOK, ProcessingIsExclusive, MoneyOK,
         NEW g \in Handlers, StepOf(g), Confirm(g) \/ Capture(g) \/ Cancel(g)
  PROVE  MoneyOK' /\ (Lifecycle!LNext \/ Accounts' = Accounts)
<1> USE DEF TypeOK, HandlersOK
<1>1. target[g] \in Intents /\ pc[g] = "decide" /\ pc[g] \notin EarlyPc /\ req[g].op # "resolve"
  BY DEF Enter, Confirm, Capture, Cancel, Deciding, HandlerOK, EarlyPc
<1> DEFINE t == target[g]
<1>2. View(g) = intents[t] /\ intents[t] \in IntentRecord /\ intents[t].status # "absent"
  BY <1>1 DEF View, WorldOK, MoneyOK, HandlerStands, Stands
<1>3. CASE Throw(g)
  BY <1>3, QuietSteps
<1>4. CASE Goto(g, "put") /\ UNCHANGED <<intents, ledger, req, target>>
  <2>1. AccountsKept /\ HandlerStands(g)'
    BY <1>1, <1>2, <1>4 DEF AccountsKept, HandlerStands, Stands, Goto
  <2> QED
    BY <2>1, MoneyKept
<1>5. ASSUME ~ Throw(g), ~ (Goto(g, "put") /\ UNCHANGED <<intents, ledger, req, target>>)
      PROVE  MoneyOK' /\ Lifecycle!LNext
  <2>1. PICK s \in { "processing", "canceled" } :
          /\ intents' = [intents EXCEPT ![t] = [intents[t] EXCEPT !.status = s]]
          /\ intents[t].status # "processing" /\ CanTransition(intents[t].status, s)
          /\ UNCHANGED <<ledger, req, target>>
          /\ \/ pc'[g] = "confirm_processing" /\ intents[t].status = "requires_confirmation"
             \/ /\ pc'[g] = "capture_processing"
                /\ intents[t].captured + req[g].amount <= intents[t].authorized
             \/ pc'[g] = "announce_canceled"
    <3>1. CASE Confirm(g)
      BY <1>2, <1>5, <3>1, <1>1
      DEF Enter, Confirm, Save, Goto, CanTransition, ALLOWED_TRANSITIONS
    <3>2. CASE Capture(g)
      <4>1. req[g].amount \in Nat /\ intents[t].captured \in Nat
        BY <1>1, <1>2, <3>2, RequestAmount
        DEF Enter, Capture, Deciding, HandlerOK, IntentRecord
      <4>2. req[g].amount + intents[t].captured = intents[t].captured + req[g].amount
        BY <4>1
      <4> QED
        BY <1>2, <1>5, <3>2, <1>1, <4>2
        DEF Enter, Capture, Capturable, Save, Goto, CanTransition, ALLOWED_TRANSITIONS
    <3>3. CASE Cancel(g)
      BY <1>2, <1>5, <3>3, <1>1
      DEF Cancel, Cancelable, IsTerminalStatus, Save, Goto, CanTransition, ALLOWED_TRANSITIONS,
          IntentRecord, PaymentStatus
    <3> QED
      BY <3>1, <3>2, <3>3
  <2> DEFINE r == [intents[t] EXCEPT !.status = s]
  <2>2. /\ r \in IntentRecord /\ r.status = s /\ r.amount = intents[t].amount
        /\ r.authorized = intents[t].authorized /\ r.captured = intents[t].captured
        /\ s \in PaymentStatus \ { "succeeded" }
    BY <1>2 DEF IntentRecord, PaymentStatus
  <2>3. intents'[t] = r
    BY <1>1, <2>1 DEF WorldOK
  <2>4. AccountOK(t)'
    BY <1>1, <1>2, <2>1, <2>2, <2>3 DEF AccountOK, MoneyOK
  <2>5. HandlerStands(g)'
    <3>1. intents[t].status = "requires_confirmation" => intents[t].authorized = 0
      BY <1>1 DEF MoneyOK, AccountOK
    <3> QED
      BY <2>1, <2>2, <2>3, <3>1 DEF HandlerStands, Stands
  <2>6. MoneyOK'
    BY <1>1, <2>1, <2>2, <2>4, <2>5, DriverAlone, MoneyMoved
  <2>7. Lifecycle!LNext
    BY <1>1, <1>2, <2>1, <2>2, Advances
  <2> QED
    BY <2>6, <2>7
<1> QED
  BY <1>3, <1>4, <1>5

\* A handler in the section, and what its intent is then.
LEMMA DriverFacts ==
  ASSUME SharedRecords = TRUE, TypeOK, ProcessingIsExclusive, MoneyOK,
         NEW g \in Handlers, InSection(g)
  PROVE  /\ target[g] \in Intents /\ pc[g] \notin EarlyPc
         /\ View(g) = intents[target[g]] /\ intents[target[g]] \in IntentRecord
         /\ intents[target[g]].status = "processing"
         /\ intents[target[g]].amount \in 1..MaxAmount
         /\ AccountOK(target[g]) /\ Stands(g, intents[target[g]])
<1>1. pc[g] \notin EarlyPc
  BY DEF InSection, EarlyPc
<1>2. target[g] \in Intents
  BY <1>1 DEF TypeOK, HandlersOK, HandlerOK, EarlyPc
<1>3. View(g) = intents[target[g]] /\ intents[target[g]] \in IntentRecord
  BY <1>2 DEF View, TypeOK, WorldOK
<1> QED
  BY <1>1, <1>2, <1>3 DEF ProcessingIsExclusive, MoneyOK, AccountOK, HandlerStands

\* Assess and the refusals of Authorize and CaptureResult change the status only.
LEMMA VerdictMoney ==
  ASSUME SharedRecords = TRUE, TypeOK, ProcessingIsExclusive, MoneyOK,
         NEW g \in Handlers, StepOf(g), InSection(g),
         NEW s \in { "failed", "requires_action" }, NEW r \in IntentRecord,
         r.status = s, r.amount = intents[target[g]].amount,
         r.authorized = intents[target[g]].authorized,
         r.captured = intents[target[g]].captured,
         intents' = [intents EXCEPT ![target[g]] = r],
         UNCHANGED <<ledger, req, target>>,
         pc'[g] \notin EarlyPc, ~ InSection(g)'
  PROVE  MoneyOK' /\ Lifecycle!LNext
<1> DEFINE t == target[g]
<1>1. /\ t \in Intents /\ intents[t].status = "processing" /\ AccountOK(t)
      /\ intents[t].amount \in 1..MaxAmount
  BY DriverFacts
<1>2. intents'[t] = r
  BY <1>1 DEF TypeOK, WorldOK
<1>3. AccountOK(t)'
  BY <1>1, <1>2 DEF AccountOK
<1>4. HandlerStands(g)'
  BY <1>2 DEF HandlerStands, Stands, InSection
<1>5. MoneyOK'
  BY <1>1, <1>3, <1>4, DriverAlone, MoneyMoved
<1>6. CanTransition("processing", s) /\ s \in PaymentStatus \ { "succeeded" }
  BY DEF CanTransition, ALLOWED_TRANSITIONS, PaymentStatus
<1>7. Lifecycle!LNext
  BY <1>1, <1>6, Advances
<1> QED
  BY <1>5, <1>7

LEMMA AssessMoney ==
  ASSUME SharedRecords = TRUE, TypeOK, ProcessingIsExclusive, MoneyOK,
         NEW g \in Handlers, StepOf(g), Assess(g)
  PROVE  MoneyOK' /\ (Lifecycle!LNext \/ Accounts' = Accounts)
<1>1. InSection(g)
  BY DEF Assess, InSection
<1>2. /\ target[g] \in Intents /\ pc[g] \notin EarlyPc /\ Stands(g, intents[target[g]])
      /\ View(g) = intents[target[g]] /\ intents[target[g]] \in IntentRecord
  BY <1>1, DriverFacts
<1>3. CASE Throw(g)
  BY <1>3, QuietSteps
<1>4. CASE ~ Throw(g) /\ Goto(g, "authorize")
  <2>1. UNCHANGED <<intents, ledger, req, target>> /\ pc[g] = "assess"
    BY <1>4 DEF Assess, Goto, store, TypeOK, HandlersOK
  <2>2. AccountsKept /\ HandlerStands(g)'
    BY <1>2, <1>4, <2>1
    DEF AccountsKept, HandlerStands, Stands, Goto, TypeOK, HandlersOK, InSection
  <2> QED
    BY <2>2, MoneyKept
<1>5. CASE ~ Throw(g) /\ ~ Goto(g, "authorize")
  <2>1. PICK s \in { "failed", "requires_action" } :
          /\ intents' = [intents EXCEPT ![target[g]] = [intents[target[g]] EXCEPT !.status = s]]
          /\ UNCHANGED <<ledger, req, target>>
          /\ pc'[g] \in { "announce_failed", "announce_review" }
    BY <1>2, <1>5 DEF Assess, Save, Goto, TypeOK, HandlersOK
  <2>2. /\ [intents[target[g]] EXCEPT !.status = s] \in IntentRecord
        /\ [intents[target[g]] EXCEPT !.status = s].status = s
        /\ [intents[target[g]] EXCEPT !.status = s].amount = intents[target[g]].amount
        /\ [intents[target[g]] EXCEPT !.status = s].authorized = intents[target[g]].authorized
        /\ [intents[target[g]] EXCEPT !.status = s].captured = intents[target[g]].captured
    BY <1>2 DEF IntentRecord, PaymentStatus
  <2>3. pc'[g] \notin EarlyPc /\ ~ InSection(g)'
    BY <2>1 DEF EarlyPc, InSection
  <2> QED
    BY <1>1, <2>1, <2>2, <2>3, VerdictMoney
<1> QED
  BY <1>3, <1>4, <1>5

LEMMA AuthorizeMoney ==
  ASSUME SharedRecords = TRUE, TypeOK, ProcessingIsExclusive, MoneyOK,
         NEW g \in Handlers, StepOf(g), Authorize(g)
  PROVE  MoneyOK' /\ (Lifecycle!LNext \/ Accounts' = Accounts)
<1> DEFINE t == target[g]
           routed == [intents[t] EXCEPT !.routed = TRUE]
           kept   == [routed EXCEPT !.authorized = routed.amount]
           failed == [routed EXCEPT !.status = "failed"]
<1>1. InSection(g) /\ pc[g] = "authorize"
  BY DEF Authorize, InSection
<1>2. /\ t \in Intents /\ pc[g] \notin EarlyPc /\ intents[t].status = "processing"
      /\ AccountOK(t) /\ intents[t].authorized = 0 /\ intents[t].amount \in 1..MaxAmount
      /\ View(g) = intents[t] /\ intents[t] \in IntentRecord
  BY <1>1, DriverFacts DEF Stands
<1>3. /\ routed \in IntentRecord /\ routed.status = "processing"
      /\ routed.amount = intents[t].amount /\ routed.authorized = 0
      /\ routed.captured = intents[t].captured
  BY <1>2 DEF IntentRecord
<1> HIDE DEF routed
<1>4. /\ failed \in IntentRecord /\ failed.status = "failed" /\ failed.amount = intents[t].amount
      /\ failed.authorized = 0 /\ failed.captured = intents[t].captured
  BY <1>3 DEF IntentRecord, PaymentStatus
<1>5. /\ kept \in IntentRecord /\ kept.status = "processing" /\ kept.amount = intents[t].amount
      /\ kept.authorized = intents[t].amount /\ kept.captured = intents[t].captured
  BY <1>2, <1>3, IntentFields DEF IntentRecord
<1> HIDE DEF failed, kept
<1>6. /\ UNCHANGED <<req, target>>
      /\ \/ /\ intents' = [intents EXCEPT ![t] = failed] /\ ledger' = ledger
            /\ pc'[g] = "announce_failed"
         \/ /\ intents' = [intents EXCEPT ![t] = routed] /\ ledger' = ledger
            /\ pc'[g] = "authorize"
         \/ /\ intents' = [intents EXCEPT ![t] = kept]
            /\ AppendLedgerEntry(g, "authorization", intents[t].amount)
            /\ pc'[g] = "settle"
  BY <1>1, <1>2, <1>3
  DEF Authorize, Assign, Save, Goto, TypeOK, HandlersOK, routed, failed, kept
<1>7. CASE pc'[g] = "announce_failed"
  <2>1. pc'[g] \notin EarlyPc /\ ~ InSection(g)'
    BY <1>7 DEF EarlyPc, InSection
  <2> QED
    BY <1>1, <1>2, <1>4, <1>6, <1>7, <2>1, VerdictMoney
<1>8. CASE pc'[g] = "authorize"
  <2>1. intents' = [intents EXCEPT ![t] = routed] /\ ledger' = ledger
    BY <1>6, <1>8
  <2>2. AccountsKept
    BY <1>2, <1>3, <2>1 DEF AccountsKept, TypeOK, WorldOK
  <2>3. HandlerStands(g)'
    BY <1>2, <1>3, <1>6, <1>8, <2>1 DEF HandlerStands, Stands, TypeOK, WorldOK
  <2> QED
    BY <2>2, <2>3, MoneyKept
<1>9. CASE pc'[g] = "settle"
  <2>1. /\ intents' = [intents EXCEPT ![t] = kept]
        /\ ledger' = [ledger EXCEPT ![t].authorization = ledger[t].authorization + intents[t].amount]
    BY <1>6, <1>9 DEF AppendLedgerEntry
  <2>2. intents'[t] = kept
    BY <1>2, <2>1 DEF TypeOK, WorldOK
  <2>3. /\ ledger'[t].authorization = intents[t].amount /\ ledger'[t].capture = ledger[t].capture
        /\ \A i \in Intents : i # t => ledger'[i] = ledger[i]
    BY <1>2, <2>1 DEF AccountOK, TypeOK, WorldOK, LedgerTotals, IntentRecord
  <2>4. /\ intents[t].captured = 0 /\ intents[t].amount > 0
    BY <1>2 DEF AccountOK, IntentRecord
  <2>5. AccountOK(t)'
    BY <1>2, <1>5, <1>6, <2>2, <2>3, <2>4, BoundAssumption DEF AccountOK
  <2>6. HandlerStands(g)'
    BY <1>5, <1>6, <1>9, <2>2, <2>4 DEF HandlerStands, Stands
  <2>7. MoneyOK'
    <3>1. \A h \in Handlers \ {g} : InSection(h) => target[h] # t
      BY <1>1, DriverAlone
    <3> QED
      BY <1>2, <1>5, <1>6, <2>1, <2>3, <2>5, <2>6, <3>1, MoneyMoved
  <2>8. AccountOf(kept) = [AccountOf(intents[t]) EXCEPT !.authorized = intents[t].amount]
    BY <1>2, <1>5 DEF AccountOf
  <2>9. Lifecycle!LNext
    BY <1>2, <1>5, <2>1, <2>8, Authorizes
  <2> QED
    BY <2>7, <2>9
<1> QED
  BY <1>6, <1>7, <1>8, <1>9

LEMMA SettleMoney ==
  ASSUME SharedRecords = TRUE, TypeOK, ProcessingIsExclusive, MoneyOK,
         NEW g \in Handlers, StepOf(g), Settle(g)
  PROVE  MoneyOK' /\ Lifecycle!LNext
<1> DEFINE t == target[g]
<1>1. InSection(g) /\ pc[g] = "settle"
  BY DEF Settle, InSection
<1>2. /\ t \in Intents /\ pc[g] \notin EarlyPc /\ intents[t].status = "processing"
      /\ AccountOK(t) /\ intents[t].amount \in 1..MaxAmount
      /\ intents[t].authorized = intents[t].amount /\ intents[t].captured = 0
      /\ View(g) = intents[t] /\ intents[t] \in IntentRecord
  BY <1>1, DriverFacts DEF Stands
<1>3. UNCHANGED <<req, target>>
  BY DEF Settle
<1>4. CASE intents[t].method = "automatic"
  <2> DEFINE r == [intents[t] EXCEPT !.status = "succeeded", !.captured = intents[t].amount]
  <2>1. /\ intents' = [intents EXCEPT ![t] = r]
        /\ ledger' = [ledger EXCEPT ![t].capture = ledger[t].capture + intents[t].amount]
        /\ pc'[g] = "announce_succeeded"
    BY <1>1, <1>2, <1>4 DEF Settle, Assign, AppendLedgerEntry, Goto, TypeOK, HandlersOK
  <2>2. /\ r \in IntentRecord /\ r.status = "succeeded" /\ r.amount = intents[t].amount
        /\ r.authorized = intents[t].amount /\ r.captured = intents[t].amount
    BY <1>2 DEF IntentRecord, PaymentStatus
  <2> HIDE DEF r
  <2>3. intents'[t] = r
    BY <1>2, <2>1 DEF TypeOK, WorldOK
  <2>4. /\ ledger'[t].capture = intents[t].amount
        /\ ledger'[t].authorization = ledger[t].authorization
        /\ \A i \in Intents : i # t => ledger'[i] = ledger[i]
    BY <1>2, <2>1 DEF AccountOK, TypeOK, WorldOK, LedgerTotals, IntentRecord
  <2>5. AccountOK(t)'
    BY <1>2, <1>3, <2>2, <2>3, <2>4, BoundAssumption DEF AccountOK
  <2>6. HandlerStands(g)'
    BY <1>3, <2>1, <2>2, <2>3 DEF HandlerStands, Stands
  <2>7. \A h \in Handlers \ {g} : InSection(h) => target[h] # t
    BY <1>1, DriverAlone
  <2>8. MoneyOK'
    BY <1>2, <1>3, <2>1, <2>2, <2>4, <2>5, <2>6, <2>7, MoneyMoved
  <2>9. intents[t].authorized > 0 /\ r.captured = intents[t].authorized
    BY <1>2, <2>2, BoundAssumption
  <2>10. Lifecycle!LNext
    BY <1>2, <2>1, <2>2, <2>9, Succeeds
  <2> QED
    BY <2>8, <2>10
<1>5. CASE intents[t].method # "automatic"
  <2>1. /\ intents' = [intents EXCEPT ![t] = [intents[t] EXCEPT !.status = "requires_action"]]
        /\ ledger' = ledger /\ pc'[g] = "save"
    BY <1>1, <1>2, <1>5 DEF Settle, Assign, Goto, TypeOK, HandlersOK
  <2> DEFINE r == [intents[t] EXCEPT !.status = "requires_action"]
  <2>2. /\ r \in IntentRecord /\ r.status = "requires_action" /\ r.amount = intents[t].amount
        /\ r.authorized = intents[t].authorized /\ r.captured = intents[t].captured
    BY <1>2 DEF IntentRecord, PaymentStatus
  <2>3. pc'[g] \notin EarlyPc /\ ~ InSection(g)'
    BY <2>1 DEF EarlyPc, InSection
  <2> QED
    BY <1>1, <1>3, <2>1, <2>2, <2>3, VerdictMoney
<1> QED
  BY <1>4, <1>5

LEMMA CaptureResultMoney ==
  ASSUME SharedRecords = TRUE, TypeOK, ProcessingIsExclusive, MoneyOK,
         NEW g \in Handlers, StepOf(g), CaptureResult(g)
  PROVE  MoneyOK' /\ Lifecycle!LNext
<1> DEFINE t == target[g]
           n == req[g].amount
<1>1. InSection(g) /\ pc[g] = "capture_result"
  BY DEF CaptureResult, InSection
<1>2. /\ t \in Intents /\ pc[g] \notin EarlyPc /\ intents[t].status = "processing"
      /\ AccountOK(t) /\ intents[t].amount \in 1..MaxAmount
      /\ intents[t].captured + n <= intents[t].authorized
      /\ View(g) = intents[t] /\ intents[t] \in IntentRecord
  BY <1>1, DriverFacts DEF Stands
<1>3. n \in 1..MaxAmount /\ n \in Nat
  BY <1>1, BoundAssumption DEF TypeOK, HandlersOK, HandlerOK, Serves, Request
<1>4. UNCHANGED <<req, target>>
  BY DEF CaptureResult
<1>5. CASE Accepted(g)
  <2> DEFINE r == [intents[t] EXCEPT !.captured = intents[t].captured + n]
  <2>1. /\ intents' = [intents EXCEPT ![t] = r]
        /\ ledger' = [ledger EXCEPT ![t].capture = ledger[t].capture + n]
        /\ pc'[g] = "settle_capture"
    BY <1>1, <1>2, <1>5 DEF CaptureResult, Assign, AppendLedgerEntry, Goto, TypeOK, HandlersOK
  <2>2. /\ r \in IntentRecord /\ r.status = "processing" /\ r.amount = intents[t].amount
        /\ r.authorized = intents[t].authorized /\ r.captured = intents[t].captured + n
    <3>1. intents[t].captured + n \in Nat
      BY <1>2, <1>3 DEF IntentRecord
    <3> QED
      BY <1>2, <3>1 DEF IntentRecord
  <2> HIDE DEF r
  <2>3. intents'[t] = r
    BY <1>2, <2>1 DEF TypeOK, WorldOK
  <2>4. /\ ledger'[t].capture = intents[t].captured + n
        /\ ledger'[t].authorization = ledger[t].authorization
        /\ \A i \in Intents : i # t => ledger'[i] = ledger[i]
    BY <1>2, <2>1 DEF AccountOK, TypeOK, WorldOK, LedgerTotals
  <2>5. AccountOK(t)'
    BY <1>2, <1>4, <2>2, <2>3, <2>4 DEF AccountOK
  <2>6. intents[t].authorized > 0
    BY <1>2, <1>3 DEF IntentRecord
  <2>7. HandlerStands(g)'
    BY <1>4, <2>1, <2>2, <2>3, <2>6 DEF HandlerStands, Stands
  <2>8. \A h \in Handlers \ {g} : InSection(h) => target[h] # t
    BY <1>1, DriverAlone
  <2>9. MoneyOK'
    BY <1>2, <1>4, <2>1, <2>2, <2>4, <2>5, <2>7, <2>8, MoneyMoved
  <2>10. AccountOf(r) = [AccountOf(intents[t]) EXCEPT !.captured = intents[t].captured + n]
    BY <1>2, <2>2 DEF AccountOf
  <2>11. Lifecycle!LNext
    BY <1>2, <1>3, <2>1, <2>2, <2>10, Collects
  <2> QED
    BY <2>9, <2>11
<1>6. CASE ~ Accepted(g)
  <2> DEFINE r == [intents[t] EXCEPT !.status = "failed"]
  <2>1. /\ intents' = [intents EXCEPT ![t] = r]
        /\ ledger' = ledger /\ pc'[g] = "announce_failed"
    BY <1>1, <1>2, <1>6 DEF CaptureResult, Save, Goto, TypeOK, HandlersOK
  <2>2. /\ r \in IntentRecord /\ r.status = "failed" /\ r.amount = intents[t].amount
        /\ r.authorized = intents[t].authorized /\ r.captured = intents[t].captured
    BY <1>2 DEF IntentRecord, PaymentStatus
  <2>3. pc'[g] \notin EarlyPc /\ ~ InSection(g)'
    BY <2>1 DEF EarlyPc, InSection
  <2> QED
    BY <1>1, <1>4, <2>1, <2>2, <2>3, VerdictMoney
<1> QED
  BY <1>5, <1>6

LEMMA SettleCaptureMoney ==
  ASSUME SharedRecords = TRUE, TypeOK, ProcessingIsExclusive, MoneyOK,
         NEW g \in Handlers, StepOf(g), SettleCapture(g)
  PROVE  MoneyOK' /\ Lifecycle!LNext
<1> DEFINE t == target[g]
<1>1. InSection(g) /\ pc[g] = "settle_capture"
  BY DEF SettleCapture, InSection
<1>2. /\ t \in Intents /\ pc[g] \notin EarlyPc /\ intents[t].status = "processing"
      /\ AccountOK(t) /\ intents[t].amount \in 1..MaxAmount /\ intents[t].authorized > 0
      /\ View(g) = intents[t] /\ intents[t] \in IntentRecord
  BY <1>1, DriverFacts DEF Stands
<1>3. UNCHANGED <<req, target, ledger>>
  BY DEF SettleCapture
<1>4. CASE FullyCaptured(intents[t])
  <2> DEFINE r == [intents[t] EXCEPT !.status = "succeeded"]
  <2>1. intents' = [intents EXCEPT ![t] = r] /\ pc'[g] = "save"
    BY <1>1, <1>2, <1>4 DEF SettleCapture, Assign, Goto, TypeOK, HandlersOK
  <2>2. /\ r \in IntentRecord /\ r.status = "succeeded" /\ r.amount = intents[t].amount
        /\ r.authorized = intents[t].authorized /\ r.captured = intents[t].captured
    BY <1>2 DEF IntentRecord, PaymentStatus
  <2> HIDE DEF r
  <2>3. intents'[t] = r
    BY <1>2, <2>1 DEF TypeOK, WorldOK
  <2>4. AccountOK(t)'
    BY <1>2, <1>3, <2>2, <2>3 DEF AccountOK
  <2>5. HandlerStands(g)'
    BY <1>3, <2>1, <2>2, <2>3 DEF HandlerStands, Stands
  <2>6. \A h \in Handlers \ {g} : InSection(h) => target[h] # t
    BY <1>1, DriverAlone
  <2>7. MoneyOK'
    BY <1>2, <1>3, <2>1, <2>2, <2>4, <2>5, <2>6, MoneyMoved
  <2>8. r.captured = intents[t].authorized
    BY <1>2, <1>4, <2>2 DEF FullyCaptured, AccountOK, IntentRecord
  <2>9. Lifecycle!LNext
    BY <1>2, <2>1, <2>2, <2>8, Succeeds
  <2> QED
    BY <2>7, <2>9
<1>5. CASE ~ FullyCaptured(intents[t])
  <2> DEFINE r == [intents[t] EXCEPT !.status = "requires_action"]
  <2>1. intents' = [intents EXCEPT ![t] = r] /\ pc'[g] = "put"
    BY <1>1, <1>2, <1>5 DEF SettleCapture, Save, Goto, TypeOK, HandlersOK
  <2>2. /\ r \in IntentRecord /\ r.status = "requires_action" /\ r.amount = intents[t].amount
        /\ r.authorized = intents[t].authorized /\ r.captured = intents[t].captured
    BY <1>2 DEF IntentRecord, PaymentStatus
  <2>3. pc'[g] \notin EarlyPc /\ ~ InSection(g)'
    BY <2>1 DEF EarlyPc, InSection
  <2> QED
    BY <1>1, <1>3, <2>1, <2>2, <2>3, VerdictMoney
<1> QED
  BY <1>4, <1>5

LEMMA MoneyStep ==
  ASSUME SharedRecords = TRUE, TypeOK, ProcessingIsExclusive, MoneyOK, [Next]_vars
  PROVE  MoneyOK' /\ (Lifecycle!LNext \/ Accounts' = Accounts)
<1>1. CASE UNCHANGED vars
  BY <1>1 DEF vars, store, locals, MoneyOK, AccountOK, HandlerStands, Stands, Accounts
<1>2. ASSUME NEW g \in Handlers, Arrive(g) \/ Step(g) \/ Fail(g)
      PROVE  MoneyOK' /\ (Lifecycle!LNext \/ Accounts' = Accounts)
  <2>1. StepOf(g)
    BY <1>2, StepHasOneMover
  <2> QED
    BY <1>2, <2>1, QuietSteps, CreateMoney, TakingMoney, AssessMoney, AuthorizeMoney,
       SettleMoney, CaptureResultMoney, SettleCaptureMoney DEF Abort, Step
<1> QED
  BY <1>1, <1>2 DEF Next

LEMMA InitMoney == Init => MoneyOK /\ Lifecycle!LInit
<1> SUFFICES ASSUME Init PROVE MoneyOK /\ Lifecycle!LInit
  OBVIOUS
<1>1. \A i \in Intents : AccountOK(i)
  <2>1. /\ BlankIntent.status = "absent" /\ BlankIntent.amount = 0
        /\ BlankIntent.authorized = 0 /\ BlankIntent.captured = 0
        /\ EmptyLedger.authorization = 0 /\ EmptyLedger.capture = 0
    BY DEF BlankIntent, EmptyLedger
  <2>2. ASSUME NEW i \in Intents
        PROVE  intents[i] = BlankIntent /\ ledger[i] = EmptyLedger /\ AccountOK(i)
    <3>1. intents[i] = BlankIntent /\ ledger[i] = EmptyLedger
      BY DEF Init
    <3> QED
      BY <2>1, <3>1 DEF AccountOK
  <2> QED
    BY <2>2
<1>2. \A h \in Handlers : HandlerStands(h)
  BY DEF Init, HandlerStands, EarlyPc
<1>3. Lifecycle!LInit
  BY DEF Init, Lifecycle!LInit, Lifecycle!NoAccount, Accounts, BlankIntent
<1> QED
  BY <1>1, <1>2, <1>3 DEF MoneyOK

LEMMA MoneyHolds == SharedRecords = TRUE => (Spec => []MoneyOK)
<1> SUFFICES ASSUME SharedRecords = TRUE PROVE Spec => []MoneyOK
  OBVIOUS
<1>1. Init => MoneyOK
  BY InitMoney
<1>2. TypeOK /\ ProcessingIsExclusive /\ MoneyOK /\ [Next]_vars => MoneyOK'
  BY MoneyStep
<1>3. Spec => []ProcessingIsExclusive
  BY Exclusion
<1> QED
  BY <1>1, <1>2, <1>3, TypeCorrect, PTL DEF Spec

\* Over the in-memory repository no sequence of captures, concurrent or not, books
\* more than was authorized, in the intent or in the ledger: the test of
\* capturePaymentIntent still holds three awaits later, when the money is booked.
THEOREM NothingOverCaptured == SharedRecords = TRUE => (Spec => []CapturedWithinAuthorized)
<1> SUFFICES ASSUME SharedRecords = TRUE PROVE Spec => []CapturedWithinAuthorized
  OBVIOUS
<1>1. TypeOK /\ MoneyOK => CapturedWithinAuthorized
  <2> SUFFICES ASSUME TypeOK, MoneyOK, NEW i \in Intents
               PROVE  /\ intents[i].captured <= intents[i].authorized
                      /\ intents[i].authorized <= intents[i].amount
                      /\ ledger[i].capture <= ledger[i].authorization
    BY DEF CapturedWithinAuthorized
  <2>1. AccountOK(i) /\ intents[i].amount \in Nat /\ intents[i].captured \in Nat
    BY DEF MoneyOK, TypeOK, WorldOK, IntentRecord
  <2> QED
    BY <2>1 DEF AccountOK
<1>2. Spec => []MoneyOK
  BY MoneyHolds
<1> QED
  BY <1>1, <1>2, TypeCorrect, PTL

\* The orchestrator over the in-memory repository implements PaymentLifecycle: seen
\* as accounts, its intents only open, advance, authorize, collect and succeed in
\* the promised order, with any number of requests in flight and calls that fail.
THEOREM OrchestratorIsLifecycle == SharedRecords = TRUE => (Spec => ImplementsLifecycle)
<1> SUFFICES ASSUME SharedRecords = TRUE PROVE Spec => ImplementsLifecycle
  OBVIOUS
<1>1. Init => Lifecycle!LInit
  BY InitMoney
<1>2. TypeOK /\ ProcessingIsExclusive /\ MoneyOK /\ [Next]_vars => [Lifecycle!LNext]_Accounts
  BY MoneyStep
<1>3. Spec => []ProcessingIsExclusive
  BY Exclusion
<1>4. Spec => []MoneyOK
  BY MoneyHolds
<1> QED
  BY <1>1, <1>2, <1>3, <1>4, TypeCorrect, PTL DEF Spec, ImplementsLifecycle, Lifecycle!LSpec
-----------------------------------------------------------------------------
(* The in-memory repository: events tell the outcome that is stored *)

\* The await at which the event of each final status is published.
Announcer == [ succeeded |-> "announce_succeeded", failed |-> "announce_failed",
               canceled |-> "announce_canceled" ]

Published(s, i) == <<Outcome[s], i>> \in published

Announces(h, s) == pc[h] = Announcer[s]

EventsOK ==
  \A s \in DOMAIN Outcome :
    /\ \A i \in Intents : Published(s, i) => intents[i].status = s
    /\ \A h \in Handlers : Announces(h, s) => intents[target[h]].status = s
    /\ \A i \in Intents : faults = 0 /\ intents[i].status = s =>
         Published(s, i) \/ \E h \in Handlers : Announces(h, s) /\ target[h] = i

LEMMA Outcomes ==
  /\ DOMAIN Outcome = { "succeeded", "failed", "canceled" }
  /\ Outcome["succeeded"] = "payment_intent.succeeded"
  /\ Outcome["failed"] = "payment_intent.failed"
  /\ Outcome["canceled"] = "payment_intent.canceled"
  /\ Announcer["succeeded"] = "announce_succeeded"
  /\ Announcer["failed"] = "announce_failed"
  /\ Announcer["canceled"] = "announce_canceled"
  BY DEF Outcome, Announcer

\* What a step of g does to events and outcomes: it publishes only the outcome
\* that is stored, parks where one is announced only when that one is stored, and
\* when it stores one it announces it, now or at its next await.
EventsMove(g) ==
  \A s \in DOMAIN Outcome :
    /\ \A i \in Intents : Published(s, i) => Published(s, i)'
    /\ \A i \in Intents : Published(s, i)' => Published(s, i) \/ intents'[i].status = s
    /\ Announces(g, s)' => intents'[target'[g]].status = s
    /\ Announces(g, s) => faults' # 0 \/ <<Outcome[s], target[g]>> \in published'
    /\ \A i \in Intents : intents'[i].status = s /\ intents[i].status # s =>
         Published(s, i)' \/ (Announces(g, s)' /\ target'[g] = i)

LEMMA EventsFollow ==
  ASSUME TypeOK, EventsOK, StatusMoves, NEW g \in Handlers, StepOf(g), EventsMove(g),
         faults' = 0 => faults = 0
  PROVE  EventsOK'
<1>1. SUFFICES ASSUME NEW s \in DOMAIN Outcome
               PROVE  /\ \A i \in Intents : Published(s, i)' => intents'[i].status = s
                      /\ \A h \in Handlers : Announces(h, s)' => intents'[target'[h]].status = s
                      /\ \A i \in Intents : faults' = 0 /\ intents'[i].status = s =>
                           \/ Published(s, i)'
                           \/ \E h \in Handlers : Announces(h, s)' /\ target'[h] = i
  BY DEF EventsOK
<1>2. s \in { "succeeded", "failed", "canceled" }
  BY Outcomes
<1>3. ASSUME NEW i \in Intents, intents[i].status = s PROVE intents'[i].status = s
  BY <1>2, <1>3 DEF StatusMoves, CanTransition, ALLOWED_TRANSITIONS
<1>4. ASSUME NEW i \in Intents, Published(s, i)' PROVE intents'[i].status = s
  BY <1>3, <1>4 DEF EventsOK, EventsMove
<1>5. ASSUME NEW h \in Handlers, Announces(h, s)' PROVE intents'[target'[h]].status = s
  <2>1. CASE h = g
    BY <1>5, <2>1 DEF EventsMove
  <2>2. CASE h # g
    <3>1. Announces(h, s) /\ target'[h] = target[h]
      BY <1>5, <2>2 DEF StepOf, Announces
    <3>2. pc[h] \notin EarlyPc
      BY <1>2, <3>1, Outcomes DEF Announces, EarlyPc
    <3>3. target[h] \in Intents
      BY <3>2 DEF TypeOK, HandlersOK, HandlerOK, EarlyPc
    <3> QED
      BY <1>3, <3>1, <3>3 DEF EventsOK
  <2> QED
    BY <2>1, <2>2
<1>6. ASSUME NEW i \in Intents, faults' = 0, intents'[i].status = s
      PROVE  Published(s, i)' \/ \E h \in Handlers : Announces(h, s)' /\ target'[h] = i
  <2>1. CASE intents[i].status # s
    BY <1>6, <2>1 DEF EventsMove
  <2>2. CASE intents[i].status = s /\ Published(s, i)
    BY <2>2 DEF EventsMove
  <2>3. CASE intents[i].status = s /\ ~ Published(s, i)
    <3>1. PICK h \in Handlers : Announces(h, s) /\ target[h] = i
      BY <1>6, <2>3 DEF EventsOK
    <3>2. CASE h = g
      BY <1>6, <3>1, <3>2 DEF EventsMove, Published
    <3>3. CASE h # g
      BY <3>1, <3>3 DEF StepOf, Announces
    <3> QED
      BY <3>2, <3>3
  <2> QED
    BY <2>1, <2>2, <2>3
<1> QED
  BY <1>4, <1>5, <1>6

\* A step that publishes and stores no outcome.
LEMMA NoOutcome ==
  ASSUME TypeOK, NEW g \in Handlers,
         \/ published' = published
         \/ published' = published \cup { <<"payment_intent.requires_action", target[g]>> },
         \A i \in Intents : \/ intents'[i].status = intents[i].status
                            \/ intents'[i].status \in { "requires_confirmation", "processing",
                                                        "requires_action" },
         \A s \in DOMAIN Outcome : ~ Announces(g, s)',
         faults' # 0 \/ \A s \in DOMAIN Outcome : ~ Announces(g, s)
  PROVE  EventsMove(g)
<1>1. ASSUME NEW s \in DOMAIN Outcome
      PROVE  s \notin { "requires_confirmation", "processing", "requires_action" }
  BY Outcomes
<1>2. ASSUME NEW s \in DOMAIN Outcome, NEW i \in Intents
      PROVE  Published(s, i)' <=> Published(s, i)
  BY Outcomes DEF Published
<1> QED
  BY <1>1, <1>2 DEF EventsMove

\* The actions that decide no payment.
LEMMA UndecidingSteps ==
  ASSUME SharedRecords = TRUE, TypeOK, NEW g \in Handlers,
         \/ Arrive(g) \/ Fail(g) \/ Abort(g) \/ Lock(g) \/ Lookup(g) \/ Put(g) \/ Create(g)
         \/ ReadIntent(g) \/ Confirm(g) \/ SaveOutcome(g) \/ Capture(g) \/ CallCapture(g)
         \/ Refund(g) \/ CallRefund(g) \/ RefundResult(g) \/ ApplyRefund(g) \/ PostRefund(g)
         \/ ListChargebacks(g) \/ Dispute(g) \/ ReadChargeback(g) \/ Resolve(g) \/ PostLoss(g)
  PROVE  EventsMove(g)
<1> USE DEF TypeOK, HandlersOK
<1> DEFINE Final == { "announce_succeeded", "announce_failed", "announce_canceled" }
<1>1. ASSUME published' = published, UNCHANGED intents, pc'[g] \notin Final,
             faults' # 0 \/ pc[g] \notin Final
      PROVE  EventsMove(g)
  BY <1>1, Outcomes, NoOutcome DEF Announces
<1>2. CASE Arrive(g) \/ Fail(g) \/ Put(g)
  <2>1. faults' # 0 \/ pc[g] \notin Final
    BY <1>2 DEF Arrive, Fail, Put, WorldOK
  <2> QED
    BY <1>1, <1>2, <2>1 DEF Arrive, Fail, Put, Release, Goto, store
<1>20. CASE Abort(g)
  <2>1. pc[g] \notin Final
    BY <1>20 DEF Abort, Refused
  <2> QED
    BY <1>1, <1>20, <2>1 DEF Abort, Throw, Release, Goto, store
<1>3. CASE Lock(g) \/ Lookup(g) \/ ReadIntent(g) \/ ReadChargeback(g)
  BY <1>1, <1>3
  DEF Lock, Lookup, ReadIntent, ReadChargeback, Throw, Release, Goto, store
<1>4. CASE CallCapture(g) \/ Refund(g) \/ CallRefund(g) \/ RefundResult(g) \/ PostRefund(g)
  BY <1>1, <1>4
  DEF CallCapture, Refund, CallRefund, RefundResult, PostRefund, Deciding, Throw, Release, Goto, store
<1>5. CASE ListChargebacks(g) \/ Dispute(g) \/ Resolve(g) \/ PostLoss(g)
  BY <1>1, <1>5
  DEF ListChargebacks, Dispute, Resolve, PostLoss, Deciding, Throw, Release, Goto, store
<1>6. CASE Create(g)
  <2>1. PICK t \in Intents : \E r :
          intents' = [intents EXCEPT ![t] = r] /\ r.status = "requires_confirmation"
    <3>1. PICK t \in Intents :
            intents' = [intents EXCEPT ![t] =
              [ BlankIntent EXCEPT !.status = "requires_confirmation",
                                   !.method = req[g].method, !.amount = req[g].amount ]]
      BY <1>6 DEF Create
    <3>2. [ BlankIntent EXCEPT !.status = "requires_confirmation",
                               !.method = req[g].method, !.amount = req[g].amount ].status
            = "requires_confirmation"
      BY DEF BlankIntent
    <3> QED
      BY <3>1, <3>2
  <2>2. /\ published' = published /\ pc[g] = "create" /\ pc'[g] = "announce_created"
    BY <1>6 DEF Create, Goto
  <2>3. \A i \in Intents : \/ intents'[i].status = intents[i].status
                           \/ intents'[i].status = "requires_confirmation"
    BY <2>1 DEF WorldOK
  <2> QED
    BY <2>2, <2>3, Outcomes, NoOutcome DEF Announces
<1>7. CASE Confirm(g) \/ Capture(g) \/ SaveOutcome(g) \/ ApplyRefund(g)
  <2>1. target[g] \in Intents /\ View(g) = intents[target[g]] /\ View(g) \in IntentRecord
    <3>1. pc[g] \notin EarlyPc /\ pc[g] # "idle"
      BY <1>7 DEF Enter, Confirm, Capture, SaveOutcome, ApplyRefund, Deciding, EarlyPc
    <3>2. target[g] \in Intents
      BY <3>1 DEF HandlerOK
    <3> QED
      BY <3>2 DEF View, WorldOK
  <2>2. CASE UNCHANGED intents
    BY <1>1, <1>7, <2>2
    DEF Enter, Confirm, Capture, SaveOutcome, ApplyRefund, Deciding, Throw, Release, Goto
  <2>3. CASE ~ UNCHANGED intents
    <3>1. PICK r : /\ intents' = [intents EXCEPT ![target[g]] = r]
                   /\ r.status \in { intents[target[g]].status, "processing" }
      <4>1. CASE Confirm(g) \/ Capture(g)
        BY <2>1, <2>3, <4>1 DEF Enter, Confirm, Capture, Throw, Save, store, IntentRecord
      <4>2. CASE SaveOutcome(g) \/ ApplyRefund(g)
        BY <2>1, <4>2, SMTT(30) DEF SaveOutcome, ApplyRefund, Save, IntentRecord
      <4> QED
        BY <1>7, <4>1, <4>2
    <3>2. /\ published' = published /\ pc[g] \notin Final /\ pc'[g] \notin Final
      BY <1>7, <2>3
      DEF Enter, Confirm, Capture, SaveOutcome, ApplyRefund, Deciding, Throw, Goto, store
    <3>3. \A i \in Intents : \/ intents'[i].status = intents[i].status
                             \/ intents'[i].status = "processing"
      BY <2>1, <3>1 DEF WorldOK
    <3> QED
      BY <3>2, <3>3, Outcomes, NoOutcome DEF Announces
  <2> QED
    BY <2>2, <2>3
<1> QED
  BY <1>2, <1>20, <1>3, <1>4, <1>5, <1>6, <1>7

\* A step that stores outcome s and announces it next, or publishes it at once.
LEMMA OutcomeStored ==
  ASSUME TypeOK, NEW g \in Handlers, NEW t \in Intents, target[g] = t, target' = target,
         NEW s \in DOMAIN Outcome, NEW r, r.status = s, intents' = [intents EXCEPT ![t] = r],
         \A q \in DOMAIN Outcome : ~ Announces(g, q),
         \/ published' = published /\ pc'[g] = Announcer[s]
         \/ /\ published' = published \cup { <<Outcome[s], t>> }
            /\ \A q \in DOMAIN Outcome : ~ Announces(g, q)'
  PROVE  EventsMove(g)
<1>1. \A i \in Intents : intents'[i] = IF i = t THEN r ELSE intents[i]
  BY DEF TypeOK, WorldOK
<1>2. \A q \in DOMAIN Outcome : Announcer[q] = Announcer[s] \/ Outcome[q] = Outcome[s] => q = s
  BY Outcomes
<1>3. ASSUME NEW q \in DOMAIN Outcome, NEW i \in Intents
      PROVE  /\ Published(q, i) => Published(q, i)'
             /\ Published(q, i)' => Published(q, i) \/ intents'[i].status = q
             /\ intents'[i].status = q /\ intents[i].status # q =>
                  Published(q, i)' \/ (Announces(g, q)' /\ target'[g] = i)
  BY <1>1, <1>2 DEF Published, Announces
<1>4. ASSUME NEW q \in DOMAIN Outcome PROVE Announces(g, q)' => intents'[target'[g]].status = q
  BY <1>1, <1>2 DEF Announces
<1> QED
  BY <1>3, <1>4 DEF EventsMove

LEMMA AnnounceEvents ==
  ASSUME TypeOK, EventsOK, NEW g \in Handlers, Announce(g)
  PROVE  EventsMove(g)
<1>1. /\ UNCHANGED <<intents, target>> /\ pc[g] \in DOMAIN Announcement
      /\ pc'[g] = Announcement[pc[g]].then
      /\ published' = published \cup { <<Announcement[pc[g]].event, target[g]>> }
  BY DEF Announce, Publish, Goto, TypeOK, HandlersOK, store, locals
<1>2. \A s \in DOMAIN Outcome : ~ Announces(g, s)'
  BY <1>1, Outcomes DEF Announces, Announcement
<1>3. \A s \in DOMAIN Outcome : Announcement[pc[g]].event = Outcome[s] <=> Announces(g, s)
  BY <1>1, Outcomes DEF Announces, Announcement
<1>4. \A s \in DOMAIN Outcome : Announces(g, s) => intents[target[g]].status = s
  BY DEF EventsOK
<1> QED
  BY <1>1, <1>2, <1>3, <1>4 DEF EventsMove, Published

\* The actions that decide a payment, or give it back to its client.
LEMMA DecidingSteps ==
  ASSUME SharedRecords = TRUE, TypeOK, NEW g \in Handlers,
         \/ Assess(g) \/ Authorize(g) \/ Settle(g) \/ CaptureResult(g) \/ SettleCapture(g)
         \/ Cancel(g)
  PROVE  EventsMove(g)
<1> USE DEF TypeOK, HandlersOK
<1> DEFINE t == target[g]
           Final == { "announce_succeeded", "announce_failed", "announce_canceled" }
<1>1. pc[g] \notin EarlyPc /\ pc[g] \notin Final
  BY DEF Assess, Authorize, Settle, CaptureResult, SettleCapture, Cancel, Deciding, EarlyPc
<1>2. t \in Intents
  BY <1>1 DEF HandlerOK, EarlyPc
<1>3. View(g) = intents[t] /\ intents[t] \in IntentRecord
  BY <1>2 DEF View, WorldOK
<1>4. \A q \in DOMAIN Outcome : ~ Announces(g, q)
  BY <1>1, Outcomes DEF Announces
<1>5. CASE Throw(g)
  <2>1. UNCHANGED <<intents, published>> /\ pc'[g] = "idle"
    BY <1>5 DEF Throw, Release, Goto, store
  <2>2. \A q \in DOMAIN Outcome : ~ Announces(g, q)'
    BY <2>1, Outcomes DEF Announces
  <2> QED
    BY <1>4, <2>1, <2>2, NoOutcome
<1>6. ASSUME NEW s \in DOMAIN Outcome,
             \E r : r.status = s /\ intents' = [intents EXCEPT ![t] = r],
             target' = target, published' = published, pc'[g] = Announcer[s]
      PROVE  EventsMove(g)
  BY <1>2, <1>4, <1>6, OutcomeStored
<1>7. ASSUME NEW r, r.status = intents[t].status \/ r.status = "requires_action",
             intents' = [intents EXCEPT ![t] = r], pc'[g] \notin Final,
             \/ published' = published
             \/ published' = published \cup { <<"payment_intent.requires_action", t>> }
      PROVE  EventsMove(g)
  <2>1. \A i \in Intents : intents'[i].status = intents[i].status
                           \/ intents'[i].status = "requires_action"
    BY <1>2, <1>7 DEF WorldOK
  <2>2. \A q \in DOMAIN Outcome : ~ Announces(g, q)'
    BY <1>7, Outcomes DEF Announces
  <2> QED
    BY <1>4, <1>7, <2>1, <2>2, NoOutcome
<1>8. ASSUME NEW s \in PaymentStatus PROVE [intents[t] EXCEPT !.status = s].status = s
  BY <1>3 DEF IntentRecord
<1>9. CASE Assess(g) /\ ~ Throw(g)
  <2> DEFINE failed == [intents[t] EXCEPT !.status = "failed"]
             review == [intents[t] EXCEPT !.status = "requires_action"]
  <2>1. failed.status = "failed" /\ review.status = "requires_action"
    BY <1>8, Statuses
  <2>2. /\ published' = published /\ target' = target
        /\ \/ intents' = [intents EXCEPT ![t] = failed] /\ pc'[g] = "announce_failed"
           \/ intents' = [intents EXCEPT ![t] = review] /\ pc'[g] = "announce_review"
           \/ intents' = [intents EXCEPT ![t] = intents[t]] /\ pc'[g] = "authorize"
    BY <1>2, <1>3, <1>9 DEF Assess, Save, Goto, store, WorldOK
  <2> HIDE DEF failed, review
  <2> QED
    BY <1>6, <1>7, <2>1, <2>2, Outcomes
<1>10. CASE Authorize(g)
  <2> DEFINE routed == [intents[t] EXCEPT !.routed = TRUE]
             kept   == [routed EXCEPT !.authorized = routed.amount]
             failed == [routed EXCEPT !.status = "failed"]
  <2>1. routed \in IntentRecord /\ routed.status = intents[t].status
    BY <1>3, IntentFields, StatusFields
  <2>2. kept.status = intents[t].status /\ failed.status = "failed"
    BY <2>1, StatusFields
  <2>3. /\ published' = published /\ target' = target
        /\ \/ intents' = [intents EXCEPT ![t] = kept] /\ pc'[g] = "settle"
           \/ intents' = [intents EXCEPT ![t] = failed] /\ pc'[g] = "announce_failed"
           \/ intents' = [intents EXCEPT ![t] = routed] /\ pc'[g] = "authorize"
    BY <1>3, <1>10 DEF Authorize, Assign, Save, Goto
  <2> HIDE DEF routed, kept, failed
  <2> QED
    BY <1>6, <1>7, <2>1, <2>2, <2>3, Outcomes
<1>11. CASE Settle(g)
  <2> DEFINE done    == [intents[t] EXCEPT !.status = "succeeded", !.captured = intents[t].amount]
             waiting == [intents[t] EXCEPT !.status = "requires_action"]
  <2>1. done.status = "succeeded" /\ waiting.status = "requires_action"
    BY <1>3, Statuses DEF IntentRecord
  <2>2. /\ target' = target
        /\ \/ /\ intents' = [intents EXCEPT ![t] = done] /\ pc'[g] = "announce_succeeded"
              /\ published' = published
           \/ /\ intents' = [intents EXCEPT ![t] = waiting] /\ pc'[g] = "save"
              /\ published' = published \cup { <<"payment_intent.requires_action", t>> }
    BY <1>3, <1>11 DEF Settle, Assign, Publish, Goto
  <2> HIDE DEF done, waiting
  <2> QED
    BY <1>6, <1>7, <2>1, <2>2, Outcomes
<1>12. CASE CaptureResult(g)
  <2> DEFINE booked == [intents[t] EXCEPT !.captured = intents[t].captured + req[g].amount]
             failed == [intents[t] EXCEPT !.status = "failed"]
  <2>1. booked.status = intents[t].status /\ failed.status = "failed"
    BY <1>3, StatusFields
  <2>2. /\ published' = published /\ target' = target
        /\ \/ intents' = [intents EXCEPT ![t] = booked] /\ pc'[g] = "settle_capture"
           \/ intents' = [intents EXCEPT ![t] = failed] /\ pc'[g] = "announce_failed"
    BY <1>3, <1>12 DEF CaptureResult, Assign, Save, Goto
  <2> HIDE DEF booked, failed
  <2> QED
    BY <1>6, <1>7, <2>1, <2>2, Outcomes
<1>13. CASE SettleCapture(g)
  <2> DEFINE done    == [intents[t] EXCEPT !.status = "succeeded"]
             waiting == [intents[t] EXCEPT !.status = "requires_action"]
  <2>1. done.status = "succeeded" /\ waiting.status = "requires_action"
    BY <1>8, Statuses
  <2>2. /\ target' = target
        /\ \/ /\ intents' = [intents EXCEPT ![t] = done] /\ pc'[g] = "save"
              /\ published' = published \cup { <<"payment_intent.succeeded", t>> }
           \/ /\ intents' = [intents EXCEPT ![t] = waiting] /\ pc'[g] = "put"
              /\ published' = published
    BY <1>3, <1>13 DEF SettleCapture, Assign, Save, Publish, Goto
  <2> HIDE DEF done, waiting
  <2>3. CASE pc'[g] = "save"
    <3>1. \A q \in DOMAIN Outcome : ~ Announces(g, q)'
      BY <2>3, Outcomes DEF Announces
    <3>2. /\ published' = published \cup { <<Outcome["succeeded"], t>> }
          /\ "succeeded" \in DOMAIN Outcome /\ intents' = [intents EXCEPT ![t] = done]
      BY <2>2, <2>3, Outcomes
    <3> QED
      BY <1>2, <1>4, <2>1, <2>2, <3>1, <3>2, OutcomeStored
  <2>4. CASE pc'[g] = "put"
    BY <1>7, <2>1, <2>2, <2>4
  <2> QED
    BY <2>2, <2>3, <2>4
<1>14. CASE Cancel(g) /\ ~ Throw(g)
  <2> DEFINE canceled == [intents[t] EXCEPT !.status = "canceled"]
  <2>1. canceled.status = "canceled"
    BY <1>8, Statuses
  <2>2. /\ published' = published /\ target' = target
        /\ \/ intents' = [intents EXCEPT ![t] = intents[t]] /\ pc'[g] = "put"
           \/ intents' = [intents EXCEPT ![t] = canceled] /\ pc'[g] = "announce_canceled"
    BY <1>2, <1>3, <1>14 DEF Cancel, Save, Goto, WorldOK
  <2> HIDE DEF canceled
  <2> QED
    BY <1>6, <1>7, <2>1, <2>2, Outcomes
<1> QED
  BY <1>5, <1>9, <1>10, <1>11, <1>12, <1>13, <1>14

LEMMA EventsStep ==
  ASSUME SharedRecords = TRUE, TypeOK, ProcessingIsExclusive, EventsOK, [Next]_vars
  PROVE  EventsOK'
<1>1. CASE UNCHANGED vars
  BY <1>1 DEF vars, store, locals, bounds, EventsOK, Published, Announces
<1>2. ASSUME NEW g \in Handlers, Arrive(g) \/ Step(g) \/ Fail(g) PROVE EventsOK'
  <2>1. StepOf(g)
    BY <1>2, StepHasOneMover
  <2>2. StatusMoves
    BY <1>2, ExclusiveStep DEF Next
  <2>3. EventsMove(g)
    BY <1>2, UndecidingSteps, AnnounceEvents, DecidingSteps DEF Step
  <2>4. faults' = 0 => faults = 0
    <3>1. CASE Fail(g)
      BY <3>1 DEF Fail, TypeOK, WorldOK
    <3>2. CASE ~ Fail(g)
      BY <1>2, <3>2
      DEF Enter, Abort, Arrive, Step, Throw, Lock, Lookup, Put, Announce, Create, ReadIntent, Confirm,
          Assess, Authorize, Settle, SaveOutcome, Capture, CallCapture, CaptureResult,
          SettleCapture, Cancel, Refund, CallRefund, RefundResult, ApplyRefund, PostRefund,
          ListChargebacks, Dispute, ReadChargeback, Resolve, PostLoss, bounds
    <3> QED
      BY <3>1, <3>2
  <2> QED
    BY <2>1, <2>2, <2>3, <2>4, EventsFollow
<1> QED
  BY <1>1, <1>2 DEF Next

LEMMA InitEvents == Init => EventsOK
<1> SUFFICES ASSUME Init, NEW s \in DOMAIN Outcome
             PROVE  /\ \A i \in Intents : Published(s, i) => intents[i].status = s
                    /\ \A h \in Handlers : Announces(h, s) => intents[target[h]].status = s
                    /\ \A i \in Intents : intents[i].status # s
  BY DEF EventsOK
<1>1. BlankIntent.status = "absent"
  BY DEF BlankIntent
<1> QED
  BY <1>1, Outcomes DEF Init, Published, Announces

\* Over the in-memory repository the event of a final status is published only for
\* an intent stored with that status, and, as long as no call failed, a final
\* intent at rest has had its event published: confirm, capture and cancel assign
\* and publish at different awaits, and no interleaving tells them apart.
THEOREM EventsTellTheOutcome == SharedRecords = TRUE => (Spec => []EventsMatchState)
<1> SUFFICES ASSUME SharedRecords = TRUE PROVE Spec => []EventsMatchState
  OBVIOUS
<1>1. Init => EventsOK
  BY InitEvents
<1>2. TypeOK /\ ProcessingIsExclusive /\ EventsOK /\ [Next]_vars => EventsOK'
  BY EventsStep
<1>3. EventsOK => EventsMatchState
  BY DEF EventsOK, EventsMatchState, Published, AtRest
<1>4. Spec => []ProcessingIsExclusive
  BY Exclusion
<1> QED
  BY <1>1, <1>2, <1>3, <1>4, TypeCorrect, PTL DEF Spec
-----------------------------------------------------------------------------
(* Amounts on their way *)

\* The sum of the amounts w[x] of the members x of S, counted as pairs: with it,
\* sums are cardinalities and need no recursion.
Units(S, w) == { u \in S \X (1..MaxAmount) : u[2] <= w[u[1]] }

Total(S, w) == Cardinality(Units(S, w))

\* The amount of each handler's request.
Asked == [ h \in Handlers |-> req[h].amount ]

\* The handlers that hold an amount of intent i between two of the books: the
\* provider moved it and it is not recorded, and recorded but not applied, and so on.
Paying(i)    == { h \in Handlers : pc[h] = "refund_result" /\ granted[h] /\ target[h] = i }
Applying(i)  == { h \in Handlers : pc[h] = "apply_refund" /\ target[h] = i }
Posting(i)   == { h \in Handlers : pc[h] = "post_refund" /\ target[h] = i }
Capturing(i) == { h \in Handlers : pc[h] = "capture_result" /\ granted[h] /\ target[h] = i }

\* From its read on, a handler of an existing intent works on an existing intent,
\* with the capture method it was created with in hand.
HoldsIntent(h) ==
  pc[h] \notin EarlyPc /\ req[h].op \notin { "create", "resolve" } =>
    /\ intents[target[h]].status # "absent"
    /\ View(h).status # "absent"
    /\ View(h).method = intents[target[h]].method

NeverOver(i) ==
  /\ ledger[i].refund + Total(Applying(i), Asked) + Total(Posting(i), Asked) <= refunds[i]
  /\ refunds[i] + Total(Paying(i), Asked) <= psp[i].refunded
  /\ intents[i].method = "manual" =>
       ledger[i].capture + Total(Capturing(i), Asked) <= psp[i].captured
  /\ intents[i].status = "absent" => ledger[i].capture = 0

BooksOK ==
  /\ \A h \in Handlers : HoldsIntent(h)
  /\ \A i \in Intents : NeverOver(i)
LEMMA UnitsFinite ==
  ASSUME NEW S, IsFiniteSet(S), NEW w
  PROVE  IsFiniteSet(Units(S, w)) /\ Total(S, w) \in Nat
<1>1. IsFiniteSet(1..MaxAmount)
  BY BoundAssumption, FS_Interval
<1>2. IsFiniteSet(S \X (1..MaxAmount))
  BY <1>1, FS_Product
<1>3. Units(S, w) \in SUBSET (S \X (1..MaxAmount))
  BY DEF Units
<1>4. IsFiniteSet(Units(S, w))
  BY <1>2, <1>3, FS_Subset
<1> QED
  BY <1>4, FS_CardinalityType DEF Total

\* The sum over the empty set.
LEMMA TotalOfNone == \A w : Total({}, w) = 0
  BY FS_EmptySet DEF Total, Units

\* One more member adds its amount.
LEMMA TotalAdd ==
  ASSUME NEW S, IsFiniteSet(S), NEW g, g \notin S, NEW w, w[g] \in 0..MaxAmount
  PROVE  Total(S \cup {g}, w) = Total(S, w) + w[g]
<1> DEFINE A == Units(S, w)
           B == {g} \X (1..w[g])
<1>0. w[g] \in Nat /\ MaxAmount \in Nat /\ w[g] <= MaxAmount
  BY BoundAssumption
<1>1. Units(S \cup {g}, w) = A \cup B
  <2>1. ASSUME NEW u \in Units(S \cup {g}, w) PROVE u \in A \cup B
    BY <1>0, <2>1 DEF Units
  <2>2. ASSUME NEW u \in A PROVE u \in Units(S \cup {g}, w)
    BY <2>2 DEF Units
  <2>3. ASSUME NEW u \in B PROVE u \in Units(S \cup {g}, w)
    BY <1>0, <2>3 DEF Units
  <2> QED
    BY <2>1, <2>2, <2>3
<1>2. A \cap B = {}
  BY DEF Units
<1>3. IsFiniteSet(B) /\ Cardinality(B) = w[g]
  <2>1. \A n \in Nat : IsFiniteSet(1..n) /\ Cardinality(1..n) = n
    <3> TAKE n \in Nat
    <3>1. IsFiniteSet(1..n) /\ Cardinality(1..n) = IF 1 > n THEN 0 ELSE n - 1 + 1
      BY FS_Interval
    <3> QED
      BY <3>1
  <2>2. IsFiniteSet({g}) /\ Cardinality({g}) = 1
    BY FS_Singleton
  <2> QED
    <3>1. IsFiniteSet(B) /\ Cardinality(B) = Cardinality({g}) * Cardinality(1..w[g])
      BY <1>0, <2>1, <2>2, FS_Product
    <3> QED
      BY <1>0, <2>1, <2>2, <3>1
<1>4. IsFiniteSet(A) /\ Cardinality(A) \in Nat
  BY UnitsFinite DEF Total
<1>5. Cardinality(A \cup B) = Cardinality(A) + Cardinality(B) - Cardinality({})
  BY <1>2, <1>3, <1>4, FS_Union
<1>6. Total(S \cup {g}, w) = Cardinality(A \cup B) /\ Total(S, w) = Cardinality(A)
  BY <1>1 DEF Total
<1>7. Cardinality({}) = 0
  BY FS_EmptySet
<1> HIDE DEF A, B
<1> QED
  BY <1>0, <1>3, <1>4, <1>5, <1>6, <1>7

\* The sum depends on the amounts of its members only.
LEMMA TotalSame ==
  ASSUME NEW S, NEW v, NEW w, \A x \in S : v[x] = w[x]
  PROVE  Total(S, v) = Total(S, w)
<1>1. Units(S, v) = Units(S, w)
  BY DEF Units
<1> QED
  BY <1>1 DEF Total

\* What one mover g does to a sum: only its own part of it can change.
LEMMA TotalMoved ==
  ASSUME NEW S, IsFiniteSet(S), NEW T, IsFiniteSet(T), NEW g, S \ {g} = T \ {g},
         NEW v, NEW w, \A x \in S \ {g} : v[x] = w[x],
         g \in S => v[g] \in 0..MaxAmount, g \in T => w[g] \in 0..MaxAmount
  PROVE  \E rest \in Nat :
           /\ Total(S, v) = rest + (IF g \in S THEN v[g] ELSE 0)
           /\ Total(T, w) = rest + (IF g \in T THEN w[g] ELSE 0)
<1> DEFINE R == S \ {g}
           rest == Total(R, v)
<1>1. IsFiniteSet(R)
  BY FS_RemoveElement
<1>2. rest \in Nat /\ rest = Total(R, w)
  BY <1>1, UnitsFinite, TotalSame
<1>3. Total(S, v) = rest + (IF g \in S THEN v[g] ELSE 0)
  <2>1. CASE g \in S
    <3>1. S = R \cup {g} /\ g \notin R
      BY <2>1
    <3>2. Total(R \cup {g}, v) = Total(R, v) + v[g]
      BY <1>1, <2>1, <3>1, TotalAdd
    <3> QED
      BY <2>1, <3>1, <3>2
  <2>2. CASE g \notin S
    <3>1. S = R
      BY <2>2
    <3> HIDE DEF R
    <3> QED
      BY <1>2, <2>2, <3>1
  <2> QED
    BY <2>1, <2>2
<1>4. Total(T, w) = rest + (IF g \in T THEN w[g] ELSE 0)
  <2>1. CASE g \in T
    <3>1. T = R \cup {g} /\ g \notin R
      BY <2>1
    <3>2. Total(R \cup {g}, w) = Total(R, w) + w[g]
      BY <1>1, <2>1, <3>1, TotalAdd
    <3> QED
      BY <1>2, <2>1, <3>1, <3>2
  <2>2. CASE g \notin T
    <3>1. T = R
      BY <2>2
    <3> HIDE DEF R
    <3> QED
      BY <1>2, <2>2, <3>1
  <2> QED
    BY <2>1, <2>2
<1> HIDE DEF rest
<1> QED
  BY <1>2, <1>3, <1>4
-----------------------------------------------------------------------------
(* The capture method an intent was created with stays with it *)

\* Only g changed the record it holds and the verdict it was given.
HoldingsOf(g) == \A h \in Handlers \ {g} : copy'[h] = copy[h] /\ granted'[h] = granted[h]

LEMMA StepHasOneHolder ==
  ASSUME TypeOK, NEW g \in Handlers, Arrive(g) \/ Step(g) \/ Fail(g)
  PROVE  HoldingsOf(g)
<1> USE DEF TypeOK, HandlersOK, HoldingsOf
<1>1. CASE Arrive(g) \/ Fail(g) \/ Throw(g) \/ Put(g)
  BY <1>1 DEF Arrive, Fail, Throw, Put, Release
<1>2. CASE \/ Lock(g) \/ Lookup(g) \/ Announce(g) \/ Create(g) \/ ReadIntent(g)
           \/ ReadChargeback(g)
  BY <1>1, <1>2 DEF Lock, Lookup, Announce, Create, ReadIntent, ReadChargeback, locals
<1>3. CASE Confirm(g) \/ Assess(g) \/ Authorize(g) \/ Settle(g) \/ SaveOutcome(g)
  BY <1>1, <1>3 DEF Enter, Confirm, Assess, Authorize, Settle, SaveOutcome, Save, Assign
<1>4. CASE Capture(g) \/ CallCapture(g) \/ CaptureResult(g) \/ SettleCapture(g) \/ Cancel(g)
  BY <1>1, <1>4 DEF Enter, Capture, CallCapture, CaptureResult, SettleCapture, Cancel, Save, Assign
<1>5. CASE Refund(g) \/ CallRefund(g) \/ RefundResult(g) \/ ApplyRefund(g) \/ PostRefund(g)
  BY <1>1, <1>5 DEF Refund, CallRefund, RefundResult, ApplyRefund, PostRefund, Save, locals
<1>6. CASE ListChargebacks(g) \/ Dispute(g) \/ Resolve(g) \/ PostLoss(g)
  BY <1>1, <1>6 DEF ListChargebacks, Dispute, Resolve, PostLoss, locals
<1> QED
  BY <1>1, <1>2, <1>3, <1>4, <1>5, <1>6 DEF Abort, Step

MethodKept(i) == /\ intents'[i].method = intents[i].method
                 /\ intents'[i].status = "absent" <=> intents[i].status = "absent"

MethodsKept == \A i \in Intents : MethodKept(i)

\* A handler writes back a record with the method of the intent it read.
LEMMA MethodWritten ==
  ASSUME TypeOK, NEW g \in Handlers, HoldsIntent(g),
         pc[g] \notin EarlyPc, req[g].op \notin { "create", "resolve" },
         UNCHANGED <<req, target>>,
         NEW r \in IntentRecord, r.status # "absent", r.method = View(g).method,
         Save(g, r) \/ Assign(g, r)
  PROVE  MethodsKept /\ HoldsIntent(g)'
<1> USE DEF TypeOK, WorldOK, HandlersOK
<1> DEFINE t == target[g]
<1>1. t \in Intents
  BY DEF HandlerOK, EarlyPc
<1>2. intents[t].status # "absent" /\ r.method = intents[t].method
  BY DEF HoldsIntent
<1>3. \/ intents' = [intents EXCEPT ![t] = r] /\ (SharedRecords \/ copy'[g] = r)
      \/ intents' = intents /\ ~ SharedRecords /\ copy'[g] = r
  BY DEF Save, Assign
<1>4. MethodsKept
  BY <1>1, <1>2, <1>3 DEF MethodsKept, MethodKept
<1>5. intents'[t].status # "absent" /\ intents'[t].method = intents[t].method
  BY <1>1, <1>2, <1>4 DEF MethodsKept, MethodKept
<1>6. View(g)' = IF SharedRecords THEN intents'[t] ELSE copy'[g]
  BY DEF View
<1>7. View(g)'.status # "absent" /\ View(g)'.method = intents[t].method
  <2>1. CASE SharedRecords
    BY <1>5, <1>6, <2>1
  <2>2. CASE ~ SharedRecords
    BY <1>2, <1>3, <1>6, <2>2
  <2> QED
    BY <2>1, <2>2
<1>8. target'[g] = t
  OBVIOUS
<1> HIDE DEF t
<1> QED
  BY <1>4, <1>5, <1>7, <1>8 DEF HoldsIntent
\* What a handler makes of the record in hand: the same intent, later in its life.
Successors(r) ==
  { s \in IntentRecord : s.status # "absent" /\ s.method = r.method }

LEMMA SuccessorFields ==
  ASSUME NEW r \in IntentRecord, r.status # "absent"
  PROVE  /\ r \in Successors(r)
         /\ \A s \in PaymentStatus : [r EXCEPT !.status = s] \in Successors(r)
         /\ \A n \in Nat : [r EXCEPT !.authorized = n] \in Successors(r)
         /\ \A n \in Nat : [r EXCEPT !.captured = n] \in Successors(r)
         /\ \A n \in Nat : [r EXCEPT !.refunded = n] \in Successors(r)
         /\ \A n \in Nat : \A s \in PaymentStatus :
              [r EXCEPT !.status = s, !.captured = n] \in Successors(r)
         /\ [r EXCEPT !.routed = TRUE] \in Successors(r)
  BY DEF IntentRecord, Successors, PaymentStatus

LEMMA SuccessorOfSuccessor ==
  ASSUME NEW r, NEW s \in Successors(r), NEW q \in Successors(s)
  PROVE  q \in Successors(r)
  BY DEF Successors

\* The awaits at which a handler of an existing intent has it in hand.
AtWork(g) == pc[g] \notin EarlyPc /\ req[g].op \notin { "create", "resolve" }

LEMMA ServingFacts ==
  ASSUME TypeOK, NEW g \in Handlers
  PROVE  /\ pc[g] \in { "assess", "authorize", "settle", "save", "capture_result",
                        "settle_capture", "apply_refund" } => AtWork(g)
         /\ pc[g] = "decide" /\ req[g].op # "resolve" => AtWork(g)
         /\ pc[g] \in { "call_refund", "refund_result", "apply_refund", "post_refund" }
              => req[g].op = "refund" /\ req[g].amount \in 1..MaxAmount
         /\ pc[g] \in { "call_capture", "capture_result", "settle_capture" }
              => req[g].op = "capture" /\ req[g].amount \in 1..MaxAmount
         /\ AtWork(g) => target[g] \in Intents
<1>1. \/ pc[g] = "idle"
      \/ /\ req[g] \in Request /\ Serves(req[g].op, pc[g])
         /\ pc[g] \notin EarlyPc => target[g] \in Intents
  BY DEF TypeOK, HandlersOK, HandlerOK
<1>2. req[g] \in Request /\ req[g].op \in { "capture", "refund" } => req[g].amount \in 1..MaxAmount
  BY DEF Request
<1> QED
  BY <1>1, <1>2 DEF AtWork, EarlyPc, Serves

LEMMA WritesSuccessor ==
  ASSUME TypeOK, NEW g \in Handlers, HoldsIntent(g), AtWork(g),
         \/ Confirm(g) \/ Assess(g) \/ Authorize(g) \/ Settle(g) \/ SaveOutcome(g) \/ Capture(g)
         \/ CaptureResult(g) \/ SettleCapture(g) \/ Cancel(g) \/ ApplyRefund(g)
  PROVE  \/ Throw(g)
         \/ UNCHANGED <<intents, copy, req, target>>
         \/ /\ UNCHANGED <<req, target>>
            /\ \E r \in Successors(View(g)) : Save(g, r) \/ Assign(g, r)
<1> DEFINE v == View(g)
<1>1. v \in IntentRecord /\ v.status # "absent"
  BY ServingFacts, ViewOK DEF AtWork, HoldsIntent
<1>2. v.amount \in Nat /\ v.captured \in Nat /\ v.refunded \in Nat
  BY <1>1, IntentFields
<1> HIDE DEF v
<1>3. CASE Confirm(g) \/ SaveOutcome(g) \/ Capture(g) \/ Cancel(g)
  BY <1>1, <1>3, SuccessorFields, Statuses DEF Enter, Confirm, SaveOutcome, Capture, Cancel, v
<1>4. CASE Assess(g)
  BY <1>1, <1>4, SuccessorFields, Statuses DEF Assess, store, v
<1>5. CASE Authorize(g)
  <2> DEFINE routed == [v EXCEPT !.routed = TRUE]
  <2>1. /\ UNCHANGED <<req, target>>
        /\ \/ Assign(g, [routed EXCEPT !.authorized = routed.amount])
           \/ Save(g, [routed EXCEPT !.status = "failed"])
           \/ Assign(g, routed)
    BY <1>5 DEF Authorize, v
  <2>2. routed \in Successors(v)
    BY <1>1, SuccessorFields
  <2>3. routed \in IntentRecord /\ routed.status # "absent" /\ routed.amount \in Nat
    BY <2>2, IntentFields DEF Successors
  <2> HIDE DEF routed
  <2>4. /\ [routed EXCEPT !.authorized = routed.amount] \in Successors(v)
        /\ [routed EXCEPT !.status = "failed"] \in Successors(v)
    BY <2>2, <2>3, SuccessorFields, SuccessorOfSuccessor, Statuses
  <2> QED
    BY <2>1, <2>2, <2>4 DEF v
<1>6. CASE Settle(g)
  BY <1>1, <1>2, <1>6, SuccessorFields, Statuses DEF Settle, v
<1>7. CASE CaptureResult(g)
  <2>1. pc[g] = "capture_result"
    BY <1>7 DEF CaptureResult
  <2>2. req[g].amount \in Nat
    BY <2>1, ServingFacts, BoundAssumption
  <2>3. \/ UNCHANGED <<req, target>> /\ Save(g, [v EXCEPT !.status = "failed"])
        \/ UNCHANGED <<req, target>> /\ Assign(g, [v EXCEPT !.captured = v.captured + req[g].amount])
    BY <1>7 DEF CaptureResult, v
  <2>4. /\ [v EXCEPT !.status = "failed"] \in Successors(v)
        /\ [v EXCEPT !.captured = v.captured + req[g].amount] \in Successors(v)
    <3>1. v.captured + req[g].amount \in Nat
      BY <1>2, <2>2
    <3> QED
      BY <1>1, <3>1, SuccessorFields, Statuses
  <2> QED
    BY <2>3, <2>4 DEF v
<1>8. CASE SettleCapture(g)
  BY <1>1, <1>8, SuccessorFields, Statuses DEF SettleCapture, v
<1>9. CASE ApplyRefund(g)
  <2>1. pc[g] = "apply_refund"
    BY <1>9 DEF ApplyRefund
  <2>2. req[g].amount \in Nat
    BY <2>1, ServingFacts, BoundAssumption
  <2>3. UNCHANGED <<req, target>> /\ Save(g, [v EXCEPT !.refunded = v.refunded + req[g].amount])
    BY <1>9 DEF ApplyRefund, v
  <2>4. [v EXCEPT !.refunded = v.refunded + req[g].amount] \in Successors(v)
    <3>1. v.refunded + req[g].amount \in Nat
      BY <1>2, <2>2
    <3> QED
      BY <1>1, <3>1, SuccessorFields
  <2> QED
    BY <2>3, <2>4 DEF v
<1> QED
  BY <1>3, <1>4, <1>5, <1>6, <1>7, <1>8, <1>9
LEMMA MethodSteps ==
  ASSUME TypeOK, NEW g \in Handlers, HoldsIntent(g), Arrive(g) \/ Step(g) \/ Fail(g), ~ Create(g)
  PROVE  MethodsKept /\ HoldsIntent(g)'
<1> USE DEF TypeOK, HandlersOK
<1>1. CASE Arrive(g) \/ Fail(g) \/ Throw(g) \/ Put(g) \/ Lock(g) \/ Lookup(g)
  <2>1. UNCHANGED intents /\ pc'[g] \in EarlyPc
    BY <1>1
    DEF Arrive, Fail, Throw, Put, Lock, Lookup, Release, Goto, store, EarlyPc
  <2> QED
    BY <2>1 DEF MethodsKept, MethodKept, HoldsIntent
<1>2. CASE /\ UNCHANGED <<intents, copy, req, target>>
           /\ pc[g] \notin EarlyPc \/ req[g].op \in { "create", "resolve" }
  BY <1>2 DEF MethodsKept, MethodKept, HoldsIntent, View
<1>3. CASE ReadIntent(g) /\ ~ Throw(g)
  <2> DEFINE i == req[g].intent
  <2>1. /\ UNCHANGED <<intents, req>> /\ target'[g] = i
        /\ copy' = IF SharedRecords THEN copy ELSE [copy EXCEPT ![g] = intents[i]]
        /\ intents[i].status # "absent"
    BY <1>3 DEF ReadIntent, store
  <2>2. View(g)' = intents[i]
    BY <2>1 DEF View
  <2> QED
    BY <2>1, <2>2 DEF MethodsKept, MethodKept, HoldsIntent
<1>4. CASE ReadChargeback(g) /\ ~ Throw(g)
  BY <1>4 DEF ReadChargeback, store, MethodsKept, MethodKept, HoldsIntent
<1>5. CASE \/ Announce(g) \/ CallCapture(g) \/ Refund(g) \/ CallRefund(g) \/ RefundResult(g)
           \/ PostRefund(g) \/ ListChargebacks(g) \/ Dispute(g) \/ Resolve(g) \/ PostLoss(g)
  <2>1. \/ Throw(g)
        \/ UNCHANGED <<intents, copy, req, target>> /\ pc[g] \notin EarlyPc
    <3>1. CASE Announce(g) \/ CallCapture(g) \/ CallRefund(g) \/ RefundResult(g) \/ PostRefund(g)
      BY <3>1
      DEF Announce, CallCapture, CallRefund, RefundResult, PostRefund, store, locals,
          EarlyPc, Announcement
    <3>2. CASE Refund(g) \/ ListChargebacks(g) \/ Dispute(g) \/ Resolve(g) \/ PostLoss(g)
      BY <3>2
      DEF Refund, ListChargebacks, Dispute, Resolve, PostLoss, Deciding, store, locals, EarlyPc
    <3> QED
      BY <1>5, <3>1, <3>2
  <2> QED
    BY <1>1, <1>2, <2>1
<1>6. CASE \/ Confirm(g) \/ Assess(g) \/ Authorize(g) \/ Settle(g) \/ SaveOutcome(g) \/ Capture(g)
           \/ CaptureResult(g) \/ SettleCapture(g) \/ Cancel(g) \/ ApplyRefund(g)
  <2>1. AtWork(g)
    <3>1. \/ pc[g] \in { "assess", "authorize", "settle", "save", "capture_result",
                       "settle_capture", "apply_refund" }
          \/ pc[g] = "decide" /\ req[g].op # "resolve"
      BY <1>6
      DEF Enter, Confirm, Assess, Authorize, Settle, SaveOutcome, Capture, CaptureResult,
          SettleCapture, Cancel, ApplyRefund, Deciding
    <3> QED
      BY <3>1, ServingFacts
  <2>2. \/ Throw(g)
        \/ UNCHANGED <<intents, copy, req, target>>
        \/ /\ UNCHANGED <<req, target>>
           /\ \E r \in Successors(View(g)) : Save(g, r) \/ Assign(g, r)
    BY <1>6, <2>1, WritesSuccessor
  <2>3. CASE \E r \in Successors(View(g)) : UNCHANGED <<req, target>> /\ (Save(g, r) \/ Assign(g, r))
    <3>1. PICK r \in Successors(View(g)) : UNCHANGED <<req, target>> /\ (Save(g, r) \/ Assign(g, r))
      BY <2>3
    <3>2. r \in IntentRecord /\ r.status # "absent" /\ r.method = View(g).method
      BY DEF Successors
    <3> QED
      BY <2>1, <3>1, <3>2, MethodWritten DEF AtWork
  <2> QED
    BY <1>1, <1>2, <2>1, <2>2, <2>3 DEF AtWork
<1> QED
  BY <1>1, <1>3, <1>4, <1>5, <1>6 DEF Abort, Step
-----------------------------------------------------------------------------
(* The amounts a step moves from one book to the next *)

Part(g, S) == IF g \in S THEN Asked[g] ELSE 0

LEMMA StageAmounts ==
  TypeOK => \A g \in Handlers : \A i \in Intents :
    g \in (Applying(i) \cup Posting(i)) \cup (Paying(i) \cup Capturing(i)) =>
      Asked[g] \in 1..MaxAmount
<1> SUFFICES ASSUME TypeOK, NEW g \in Handlers, NEW i \in Intents,
                    g \in (Applying(i) \cup Posting(i)) \cup (Paying(i) \cup Capturing(i))
             PROVE  Asked[g] \in 1..MaxAmount
  OBVIOUS
<1>1. pc[g] \in { "apply_refund", "post_refund", "refund_result", "capture_result" }
  BY DEF Applying, Posting, Paying, Capturing
<1> QED
  BY <1>1, ServingFacts DEF Asked

LEMMA StageAmountsNext == TypeOK' => (\A g \in Handlers : \A i \in Intents :
    g \in (Applying(i) \cup Posting(i)) \cup (Paying(i) \cup Capturing(i)) =>
      Asked[g] \in 1..MaxAmount)'
  BY StageAmounts, PTL
\* In a step of g each sum changes by the part of g only.
LEMMA StagesMove ==
  ASSUME TypeOK, TypeOK', NEW g \in Handlers, StepOf(g), HoldingsOf(g), NEW i \in Intents
  PROVE  \E ap, pg, py, cp \in Nat :
           /\ Total(Applying(i), Asked) = ap + Part(g, Applying(i))
           /\ Total(Applying(i), Asked)' = ap + Part(g, Applying(i))'
           /\ Total(Posting(i), Asked) = pg + Part(g, Posting(i))
           /\ Total(Posting(i), Asked)' = pg + Part(g, Posting(i))'
           /\ Total(Paying(i), Asked) = py + Part(g, Paying(i))
           /\ Total(Paying(i), Asked)' = py + Part(g, Paying(i))'
           /\ Total(Capturing(i), Asked) = cp + Part(g, Capturing(i))
           /\ Total(Capturing(i), Asked)' = cp + Part(g, Capturing(i))'
<1>1. /\ \A h \in Handlers \ {g} : Asked[h] = Asked'[h]
      /\ \A x \in 1..MaxAmount : x \in 0..MaxAmount
  BY BoundAssumption DEF StepOf, Asked
<1>2. \A S, T : S \subseteq Handlers /\ T \subseteq Handlers /\ S \ {g} = T \ {g}
              /\ (g \in S => Asked[g] \in 0..MaxAmount) /\ (g \in T => Asked'[g] \in 0..MaxAmount)
       => \E rest \in Nat : /\ Total(S, Asked) = rest + (IF g \in S THEN Asked[g] ELSE 0)
                            /\ Total(T, Asked') = rest + (IF g \in T THEN Asked'[g] ELSE 0)
  <2> SUFFICES ASSUME NEW S, NEW T, S \subseteq Handlers, T \subseteq Handlers,
                      S \ {g} = T \ {g},
                      g \in S => Asked[g] \in 0..MaxAmount,
                      g \in T => Asked'[g] \in 0..MaxAmount
               PROVE  \E rest \in Nat :
                        /\ Total(S, Asked) = rest + (IF g \in S THEN Asked[g] ELSE 0)
                        /\ Total(T, Asked') = rest + (IF g \in T THEN Asked'[g] ELSE 0)
    OBVIOUS
  <2>1. IsFiniteSet(S) /\ IsFiniteSet(T)
    BY FiniteAssumption, FS_Subset
  <2>2. \A x \in S \ {g} : Asked[x] = Asked'[x]
    BY <1>1
  <2> QED
    BY <2>1, <2>2, TotalMoved
<1>3. /\ g \in Applying(i) \/ g \in Posting(i) \/ g \in Paying(i) \/ g \in Capturing(i)
           => Asked[g] \in 0..MaxAmount
      /\ g \in Applying(i)' \/ g \in Posting(i)' \/ g \in Paying(i)' \/ g \in Capturing(i)'
           => Asked'[g] \in 0..MaxAmount
  BY <1>1, StageAmounts, StageAmountsNext
<1>4. PICK ap \in Nat : /\ Total(Applying(i), Asked) = ap + Part(g, Applying(i))
                        /\ Total(Applying(i), Asked)' = ap + Part(g, Applying(i))'
  <2>1. /\ Applying(i) \subseteq Handlers /\ Applying(i)' \subseteq Handlers
        /\ Applying(i) \ {g} = Applying(i)' \ {g}
    BY DEF Applying, StepOf
  <2> QED
    BY <1>2, <1>3, <2>1 DEF Part
<1>5. PICK pg \in Nat : /\ Total(Posting(i), Asked) = pg + Part(g, Posting(i))
                        /\ Total(Posting(i), Asked)' = pg + Part(g, Posting(i))'
  <2>1. /\ Posting(i) \subseteq Handlers /\ Posting(i)' \subseteq Handlers
        /\ Posting(i) \ {g} = Posting(i)' \ {g}
    BY DEF Posting, StepOf
  <2> QED
    BY <1>2, <1>3, <2>1 DEF Part
<1>6. PICK py \in Nat : /\ Total(Paying(i), Asked) = py + Part(g, Paying(i))
                        /\ Total(Paying(i), Asked)' = py + Part(g, Paying(i))'
  <2>1. /\ Paying(i) \subseteq Handlers /\ Paying(i)' \subseteq Handlers
        /\ Paying(i) \ {g} = Paying(i)' \ {g}
    BY DEF Paying, StepOf, HoldingsOf
  <2> QED
    BY <1>2, <1>3, <2>1 DEF Part
<1>7. PICK cp \in Nat : /\ Total(Capturing(i), Asked) = cp + Part(g, Capturing(i))
                        /\ Total(Capturing(i), Asked)' = cp + Part(g, Capturing(i))'
  <2>1. /\ Capturing(i) \subseteq Handlers /\ Capturing(i)' \subseteq Handlers
        /\ Capturing(i) \ {g} = Capturing(i)' \ {g}
    BY DEF Capturing, StepOf, HoldingsOf
  <2> QED
    BY <1>2, <1>3, <2>1 DEF Part
<1> QED
  BY <1>4, <1>5, <1>6, <1>7
\* What the step of g does to the books of i keeps every promise between them.
Flow(g, i) ==
  /\ ledger'[i].refund + Part(g, Applying(i))' + Part(g, Posting(i))' + refunds[i]
       <= refunds'[i] + ledger[i].refund + Part(g, Applying(i)) + Part(g, Posting(i))
  /\ refunds'[i] + Part(g, Paying(i))' + psp[i].refunded
       <= psp'[i].refunded + refunds[i] + Part(g, Paying(i))
  /\ intents'[i].method = "manual" =>
       \/ ledger'[i].capture = 0 /\ Total(Capturing(i), Asked)' = 0
       \/ /\ intents[i].method = "manual"
          /\ ledger'[i].capture + Part(g, Capturing(i))' + psp[i].captured
               <= psp'[i].captured + ledger[i].capture + Part(g, Capturing(i))
  /\ intents'[i].status = "absent" => ledger'[i].capture = 0

LEMMA PartType ==
  TypeOK => \A g \in Handlers : \A i \in Intents :
    /\ Part(g, Applying(i)) \in Nat /\ Part(g, Posting(i)) \in Nat
    /\ Part(g, Paying(i)) \in Nat /\ Part(g, Capturing(i)) \in Nat
<1> SUFFICES ASSUME TypeOK, NEW g \in Handlers, NEW i \in Intents
             PROVE  /\ Part(g, Applying(i)) \in Nat /\ Part(g, Posting(i)) \in Nat
                    /\ Part(g, Paying(i)) \in Nat /\ Part(g, Capturing(i)) \in Nat
  OBVIOUS
<1>1. \A n \in 1..MaxAmount : n \in Nat
  BY BoundAssumption
<1> QED
  BY <1>1, StageAmounts DEF Part

LEMMA PartTypeNext == TypeOK' => (\A g \in Handlers : \A i \in Intents :
    /\ Part(g, Applying(i)) \in Nat /\ Part(g, Posting(i)) \in Nat
    /\ Part(g, Paying(i)) \in Nat /\ Part(g, Capturing(i)) \in Nat)'
  BY PartType, PTL

LEMMA BookTypes ==
  TypeOK => \A i \in Intents :
    /\ ledger[i].refund \in Nat /\ ledger[i].capture \in Nat /\ ledger[i].authorization \in Nat
    /\ ledger[i].chargeback \in Nat
    /\ refunds[i] \in Nat /\ psp[i].refunded \in Nat /\ psp[i].captured \in Nat
  BY DEF TypeOK, WorldOK, LedgerTotals

LEMMA BookTypesNext ==
  TypeOK' => (\A i \in Intents :
    /\ ledger[i].refund \in Nat /\ ledger[i].capture \in Nat /\ ledger[i].authorization \in Nat
    /\ ledger[i].chargeback \in Nat
    /\ refunds[i] \in Nat /\ psp[i].refunded \in Nat /\ psp[i].captured \in Nat)'
  BY BookTypes, PTL

LEMMA BooksFollow ==
  ASSUME TypeOK, TypeOK', NEW g \in Handlers, StepOf(g), HoldingsOf(g),
         NEW i \in Intents, NeverOver(i), Flow(g, i)
  PROVE  NeverOver(i)'
<1>1. PICK ap, pg, py, cp \in Nat :
           /\ Total(Applying(i), Asked) = ap + Part(g, Applying(i))
           /\ Total(Applying(i), Asked)' = ap + Part(g, Applying(i))'
           /\ Total(Posting(i), Asked) = pg + Part(g, Posting(i))
           /\ Total(Posting(i), Asked)' = pg + Part(g, Posting(i))'
           /\ Total(Paying(i), Asked) = py + Part(g, Paying(i))
           /\ Total(Paying(i), Asked)' = py + Part(g, Paying(i))'
           /\ Total(Capturing(i), Asked) = cp + Part(g, Capturing(i))
           /\ Total(Capturing(i), Asked)' = cp + Part(g, Capturing(i))'
  BY StagesMove
<1>2. /\ Part(g, Applying(i)) \in Nat /\ Part(g, Posting(i)) \in Nat
      /\ Part(g, Paying(i)) \in Nat /\ Part(g, Capturing(i)) \in Nat
  BY PartType
<1>3. /\ Part(g, Applying(i))' \in Nat /\ Part(g, Posting(i))' \in Nat
      /\ Part(g, Paying(i))' \in Nat /\ Part(g, Capturing(i))' \in Nat
  BY PartTypeNext
<1>4. /\ ledger[i].refund \in Nat /\ ledger[i].capture \in Nat
      /\ refunds[i] \in Nat /\ psp[i].refunded \in Nat /\ psp[i].captured \in Nat
  BY BookTypes
<1>5. /\ ledger'[i].refund \in Nat /\ ledger'[i].capture \in Nat
      /\ refunds'[i] \in Nat /\ psp'[i].refunded \in Nat /\ psp'[i].captured \in Nat
  BY BookTypesNext
<1>6. ledger'[i].refund + Total(Applying(i), Asked)' + Total(Posting(i), Asked)' <= refunds'[i]
  BY <1>1, <1>2, <1>3, <1>4, <1>5 DEF NeverOver, Flow
<1>7. refunds'[i] + Total(Paying(i), Asked)' <= psp'[i].refunded
  BY <1>1, <1>2, <1>3, <1>4, <1>5 DEF NeverOver, Flow
<1>8. intents'[i].method = "manual" =>
        ledger'[i].capture + Total(Capturing(i), Asked)' <= psp'[i].captured
  <2>1. CASE ledger'[i].capture = 0 /\ Total(Capturing(i), Asked)' = 0
    BY <1>5, <2>1
  <2>2. CASE /\ intents[i].method = "manual"
             /\ ledger'[i].capture + Part(g, Capturing(i))' + psp[i].captured
                  <= psp'[i].captured + ledger[i].capture + Part(g, Capturing(i))
    BY <1>1, <1>2, <1>3, <1>4, <1>5, <2>2 DEF NeverOver
  <2> QED
    BY <2>1, <2>2 DEF Flow
<1> QED
  BY <1>6, <1>7, <1>8 DEF NeverOver, Flow
\* A step that touches no book of i and parks where no amount is held.
LEMMA FlowAway ==
  ASSUME TypeOK, TypeOK', NEW g \in Handlers, NEW i \in Intents, NeverOver(i), MethodKept(i),
         pc'[g] \notin { "refund_result", "apply_refund", "post_refund", "capture_result" },
         UNCHANGED <<psp, refunds>>,
         ledger'[i].refund = ledger[i].refund, ledger'[i].capture = ledger[i].capture
  PROVE  Flow(g, i)
<1>1. /\ Part(g, Applying(i))' = 0 /\ Part(g, Posting(i))' = 0
      /\ Part(g, Paying(i))' = 0 /\ Part(g, Capturing(i))' = 0
  BY DEF Part, Applying, Posting, Paying, Capturing
<1>2. /\ Part(g, Applying(i)) \in Nat /\ Part(g, Posting(i)) \in Nat
      /\ Part(g, Paying(i)) \in Nat /\ Part(g, Capturing(i)) \in Nat
  BY PartType
<1>3. /\ ledger[i].refund \in Nat /\ ledger[i].capture \in Nat
      /\ refunds[i] \in Nat /\ psp[i].refunded \in Nat /\ psp[i].captured \in Nat
  BY BookTypes
<1> QED
  BY <1>1, <1>2, <1>3 DEF Flow, MethodKept, NeverOver

\* A step on another intent.
LEMMA FlowElsewhere ==
  ASSUME TypeOK, TypeOK', NEW g \in Handlers, NEW i \in Intents, NeverOver(i), MethodsKept,
         target[g] # i, target'[g] # i, psp'[i] = psp[i], refunds'[i] = refunds[i],
         ledger'[i] = ledger[i]
  PROVE  Flow(g, i)
<1>1. /\ Part(g, Applying(i))' = 0 /\ Part(g, Posting(i))' = 0
      /\ Part(g, Paying(i))' = 0 /\ Part(g, Capturing(i))' = 0
      /\ Part(g, Applying(i)) = 0 /\ Part(g, Posting(i)) = 0
      /\ Part(g, Paying(i)) = 0 /\ Part(g, Capturing(i)) = 0
  BY DEF Part, Applying, Posting, Paying, Capturing
<1>3. /\ ledger[i].refund \in Nat /\ ledger[i].capture \in Nat
      /\ refunds[i] \in Nat /\ psp[i].refunded \in Nat /\ psp[i].captured \in Nat
  BY BookTypes
<1> QED
  BY <1>1, <1>3 DEF Flow, MethodsKept, MethodKept, NeverOver

\* The steps between the books.
LEMMA QuietBooks ==
  ASSUME TypeOK, NEW g \in Handlers, NEW i \in Intents,
         \/ Arrive(g) \/ Fail(g) \/ Throw(g) \/ Lock(g) \/ Lookup(g) \/ Put(g) \/ Announce(g)
         \/ ReadIntent(g) \/ Confirm(g) \/ Assess(g) \/ Authorize(g) \/ SaveOutcome(g)
         \/ Capture(g) \/ SettleCapture(g) \/ Cancel(g) \/ Refund(g) \/ ListChargebacks(g)
         \/ Dispute(g) \/ ReadChargeback(g) \/ Resolve(g) \/ PostLoss(g)
  PROVE  /\ pc'[g] \notin { "refund_result", "apply_refund", "post_refund", "capture_result" }
         /\ UNCHANGED <<psp, refunds>>
         /\ ledger'[i].refund = ledger[i].refund
         /\ ledger'[i].capture = ledger[i].capture
<1> USE DEF TypeOK, HandlersOK
<1>1. CASE Arrive(g) \/ Fail(g) \/ Throw(g) \/ Put(g) \/ Lock(g) \/ Lookup(g)
  BY <1>1 DEF Arrive, Fail, Throw, Put, Lock, Lookup, Release, Goto, store, outer
<1>2. CASE ReadIntent(g) \/ ReadChargeback(g) \/ ListChargebacks(g)
  BY <1>1, <1>2 DEF ReadIntent, ReadChargeback, ListChargebacks, Goto, store, outer
<1>3. CASE Announce(g)
  <2>1. Announcement[pc[g]].then \notin { "refund_result", "apply_refund", "post_refund",
                                          "capture_result" }
    BY <1>3 DEF Announce, Announcement
  <2> QED
    BY <1>3, <2>1 DEF Announce, Goto, store, outer
<1>4. CASE Confirm(g) \/ Assess(g) \/ SaveOutcome(g) \/ Capture(g) \/ SettleCapture(g) \/ Cancel(g)
  BY <1>1, <1>4
  DEF Enter, Confirm, Assess, SaveOutcome, Capture, SettleCapture, Cancel, Deciding, Goto, store, outer
<1>5. CASE Authorize(g)
  <2>1. /\ \/ UNCHANGED ledger
           \/ \E n : ledger' = [ledger EXCEPT ![target[g]]["authorization"] = @ + n]
        /\ UNCHANGED <<psp, refunds>>
        /\ pc[g] = "authorize" /\ (UNCHANGED pc \/ Goto(g, "settle") \/ Goto(g, "announce_failed"))
    BY <1>5 DEF Authorize, AppendLedgerEntry, outer
  <2>2. CASE \E n : ledger' = [ledger EXCEPT ![target[g]]["authorization"] = @ + n]
    <3>1. ledger'[i].refund = ledger[i].refund /\ ledger'[i].capture = ledger[i].capture
      BY <2>2 DEF WorldOK, LedgerTotals
    <3> QED
      BY <2>1, <3>1 DEF Goto
  <2>3. CASE UNCHANGED ledger
    BY <2>1, <2>3 DEF Goto
  <2> QED
    BY <2>1, <2>2, <2>3
<1>6. CASE Refund(g) \/ Dispute(g) \/ Resolve(g)
  BY <1>1, <1>6 DEF Refund, Dispute, Resolve, Deciding, Goto, store, outer
<1>7. CASE PostLoss(g)
  <2>1. /\ \E n : ledger' = [ledger EXCEPT ![target[g]]["chargeback"] = @ + n]
        /\ UNCHANGED <<psp, refunds>> /\ Goto(g, "chargeback_lost")
    BY <1>7 DEF PostLoss, AppendLedgerEntry, outer
  <2>2. ledger'[i].refund = ledger[i].refund /\ ledger'[i].capture = ledger[i].capture
    BY <2>1 DEF WorldOK, LedgerTotals
  <2> QED
    BY <2>1, <2>2 DEF Goto
<1> QED
  BY <1>1, <1>2, <1>3, <1>4, <1>5, <1>6, <1>7
LEMMA QuietFlow ==
  ASSUME TypeOK, TypeOK', NEW g \in Handlers, NEW i \in Intents, NeverOver(i), MethodsKept,
         \/ Arrive(g) \/ Fail(g) \/ Throw(g) \/ Lock(g) \/ Lookup(g) \/ Put(g) \/ Announce(g)
         \/ ReadIntent(g) \/ Confirm(g) \/ Assess(g) \/ Authorize(g) \/ SaveOutcome(g)
         \/ Capture(g) \/ SettleCapture(g) \/ Cancel(g) \/ Refund(g) \/ ListChargebacks(g)
         \/ Dispute(g) \/ ReadChargeback(g) \/ Resolve(g) \/ PostLoss(g)
  PROVE  Flow(g, i)
  BY QuietBooks, FlowAway DEF MethodsKept

\* The parts of a handler, by the await it is parked at.
LEMMA Parts ==
  \A g \in Handlers : \A i \in Intents :
    /\ Part(g, Applying(i)) =
         IF pc[g] = "apply_refund" /\ target[g] = i THEN req[g].amount ELSE 0
    /\ Part(g, Posting(i)) =
         IF pc[g] = "post_refund" /\ target[g] = i THEN req[g].amount ELSE 0
    /\ Part(g, Paying(i)) =
         IF pc[g] = "refund_result" /\ granted[g] /\ target[g] = i THEN req[g].amount ELSE 0
    /\ Part(g, Capturing(i)) =
         IF pc[g] = "capture_result" /\ granted[g] /\ target[g] = i THEN req[g].amount ELSE 0
  BY DEF Part, Applying, Posting, Paying, Capturing, Asked

LEMMA PartsNext ==
  (\A g \in Handlers : \A i \in Intents :
    /\ Part(g, Applying(i)) =
         IF pc[g] = "apply_refund" /\ target[g] = i THEN req[g].amount ELSE 0
    /\ Part(g, Posting(i)) =
         IF pc[g] = "post_refund" /\ target[g] = i THEN req[g].amount ELSE 0
    /\ Part(g, Paying(i)) =
         IF pc[g] = "refund_result" /\ granted[g] /\ target[g] = i THEN req[g].amount ELSE 0
    /\ Part(g, Capturing(i)) =
         IF pc[g] = "capture_result" /\ granted[g] /\ target[g] = i THEN req[g].amount ELSE 0)'
  BY Parts, PTL

\* The provider moves the money, and the promise of it is held until it is recorded.
LEMMA CallFlow ==
  ASSUME TypeOK, TypeOK', BooksOK, NEW g \in Handlers, NEW i \in Intents, MethodsKept,
         CallCapture(g) \/ CallRefund(g)
  PROVE  Flow(g, i)
<1> USE DEF TypeOK, HandlersOK
<1> DEFINE t == target[g]
           n == req[g].amount
<1>1. /\ pc[g] \in { "call_capture", "call_refund" } /\ UNCHANGED <<req, target, refunds, ledger>>
      /\ NeverOver(i)
  BY DEF CallCapture, CallRefund, store, BooksOK
<1>2. n \in Nat /\ t \in Intents
  <2>1. req[g].amount \in 1..MaxAmount
    BY <1>1, ServingFacts
  <2>2. target[g] \in Intents
    BY <1>1 DEF HandlerOK, EarlyPc
  <2> QED
    BY <2>1, <2>2, BoundAssumption
<1>3. /\ \/ UNCHANGED psp /\ ~ granted'[g]
         \/ /\ pc'[g] = "capture_result"
            /\ psp' = [psp EXCEPT ![t].captured = psp[t].captured + n]
         \/ /\ pc'[g] = "refund_result"
            /\ psp' = [psp EXCEPT ![t].refunded = psp[t].refunded + n]
      /\ pc'[g] \in { "capture_result", "refund_result" }
  BY DEF CallCapture, CallRefund, Goto
<1>4. CASE t # i
  <2>1. psp'[i] = psp[i]
    BY <1>2, <1>3, <1>4 DEF WorldOK
  <2> QED
    BY <1>1, <1>4, <2>1, FlowElsewhere
<1>5. CASE t = i
  <2>1. /\ Part(g, Applying(i)) = 0 /\ Part(g, Posting(i)) = 0
        /\ Part(g, Paying(i)) = 0 /\ Part(g, Capturing(i)) = 0
    BY <1>1, Parts
  <2>2. /\ Part(g, Applying(i))' = 0 /\ Part(g, Posting(i))' = 0
        /\ Part(g, Paying(i))' = IF pc'[g] = "refund_result" /\ granted'[g] THEN n ELSE 0
        /\ Part(g, Capturing(i))' = IF pc'[g] = "capture_result" /\ granted'[g] THEN n ELSE 0
    BY <1>1, <1>3, <1>5, PartsNext
  <2>3. /\ ledger[i].refund \in Nat /\ ledger[i].capture \in Nat
        /\ refunds[i] \in Nat /\ psp[i].refunded \in Nat /\ psp[i].captured \in Nat
    BY BookTypes
  <2>4. \/ psp'[i] = psp[i] /\ ~ granted'[g]
        \/ /\ pc'[g] = "capture_result" /\ psp'[i].captured = psp[i].captured + n
           /\ psp'[i].refunded = psp[i].refunded
        \/ /\ pc'[g] = "refund_result" /\ psp'[i].refunded = psp[i].refunded + n
           /\ psp'[i].captured = psp[i].captured
    BY <1>2, <1>3, <1>5 DEF WorldOK
  <2> HIDE DEF n
  <2>5. CASE psp'[i] = psp[i] /\ ~ granted'[g]
    BY <1>1, <2>1, <2>2, <2>3, <2>5 DEF Flow, MethodsKept, MethodKept, NeverOver
  <2>6. CASE granted'[g] \/ psp'[i] # psp[i]
    <3>1. /\ ledger'[i].refund + Part(g, Applying(i))' + Part(g, Posting(i))' + refunds[i]
              <= refunds'[i] + ledger[i].refund + Part(g, Applying(i)) + Part(g, Posting(i))
      BY <1>1, <2>1, <2>2, <2>3
    <3>2. refunds'[i] + Part(g, Paying(i))' + psp[i].refunded
            <= psp'[i].refunded + refunds[i] + Part(g, Paying(i))
      BY <1>1, <1>2, <2>1, <2>2, <2>3, <2>4
    <3>3. ledger'[i].capture + Part(g, Capturing(i))' + psp[i].captured
            <= psp'[i].captured + ledger[i].capture + Part(g, Capturing(i))
      BY <1>1, <1>2, <2>1, <2>2, <2>3, <2>4
    <3> QED
      BY <1>1, <3>1, <3>2, <3>3 DEF Flow, MethodsKept, MethodKept, NeverOver
  <2> QED
    BY <2>5, <2>6
<1> QED
  BY <1>4, <1>5
\* Recorded money leaves one book for the next.
LEMMA RefundFlow ==
  ASSUME TypeOK, TypeOK', BooksOK, NEW g \in Handlers, NEW i \in Intents, MethodsKept,
         RefundResult(g) \/ ApplyRefund(g) \/ PostRefund(g)
  PROVE  Flow(g, i)
<1> USE DEF TypeOK, HandlersOK
<1> DEFINE t == target[g]
           n == req[g].amount
<1>1. /\ pc[g] \in { "refund_result", "apply_refund", "post_refund" }
      /\ UNCHANGED <<req, target, granted, psp>> /\ NeverOver(i)
  BY DEF RefundResult, ApplyRefund, PostRefund, locals, outer, BooksOK
<1>2. n \in Nat /\ t \in Intents
  <2>1. req[g].amount \in 1..MaxAmount
    BY <1>1, ServingFacts
  <2>2. target[g] \in Intents
    BY <1>1 DEF HandlerOK, EarlyPc
  <2> QED
    BY <2>1, <2>2, BoundAssumption
<1>3. \/ /\ pc[g] = "refund_result" /\ pc'[g] = "refund_failed" /\ ~ granted[g]
         /\ UNCHANGED <<refunds, ledger>>
      \/ /\ pc[g] = "refund_result" /\ pc'[g] = "apply_refund" /\ granted[g]
         /\ refunds' = [refunds EXCEPT ![t] = refunds[t] + n] /\ UNCHANGED ledger
      \/ /\ pc[g] = "apply_refund" /\ pc'[g] = "post_refund" /\ UNCHANGED <<refunds, ledger>>
      \/ /\ pc[g] = "post_refund" /\ pc'[g] = "refund_succeeded" /\ UNCHANGED refunds
         /\ ledger' = [ledger EXCEPT ![t]["refund"] = ledger[t]["refund"] + n]
  BY DEF RefundResult, ApplyRefund, PostRefund, Accepted, AppendLedgerEntry, Goto
<1>4. CASE t # i
  <2>1. refunds'[i] = refunds[i] /\ ledger'[i] = ledger[i]
    BY <1>2, <1>3, <1>4 DEF WorldOK
  <2> QED
    BY <1>1, <1>4, <2>1, FlowElsewhere
<1>5. CASE t = i
  <2>1. /\ Part(g, Applying(i)) = IF pc[g] = "apply_refund" THEN n ELSE 0
        /\ Part(g, Posting(i)) = IF pc[g] = "post_refund" THEN n ELSE 0
        /\ Part(g, Paying(i)) = IF pc[g] = "refund_result" /\ granted[g] THEN n ELSE 0
        /\ Part(g, Capturing(i)) = 0
    BY <1>1, <1>5, Parts
  <2>2. /\ Part(g, Applying(i))' = IF pc'[g] = "apply_refund" THEN n ELSE 0
        /\ Part(g, Posting(i))' = IF pc'[g] = "post_refund" THEN n ELSE 0
        /\ Part(g, Paying(i))' = 0
        /\ Part(g, Capturing(i))' = 0
    BY <1>1, <1>3, <1>5, PartsNext
  <2>3. /\ ledger[i].refund \in Nat /\ ledger[i].capture \in Nat
        /\ refunds[i] \in Nat /\ psp[i].refunded \in Nat /\ psp[i].captured \in Nat
    BY BookTypes
  <2>4. /\ refunds'[i] = IF pc[g] = "refund_result" /\ granted[g] THEN refunds[i] + n ELSE refunds[i]
        /\ ledger'[i].refund = IF pc[g] = "post_refund" THEN ledger[i].refund + n ELSE ledger[i].refund
        /\ ledger'[i].capture = ledger[i].capture
    BY <1>2, <1>3, <1>5 DEF WorldOK, LedgerTotals
  <2> HIDE DEF n
  <2>5. ledger'[i].refund + Part(g, Applying(i))' + Part(g, Posting(i))' + refunds[i]
          <= refunds'[i] + ledger[i].refund + Part(g, Applying(i)) + Part(g, Posting(i))
    BY <1>1, <1>2, <1>3, <2>1, <2>2, <2>3, <2>4
  <2>6. refunds'[i] + Part(g, Paying(i))' + psp[i].refunded
          <= psp'[i].refunded + refunds[i] + Part(g, Paying(i))
    BY <1>1, <1>2, <1>3, <2>1, <2>2, <2>3, <2>4
  <2> QED
    BY <1>1, <2>1, <2>2, <2>3, <2>4, <2>5, <2>6 DEF Flow, MethodsKept, MethodKept, NeverOver
<1> QED
  BY <1>4, <1>5

\* A capture is booked after the provider made it, or when it needs no second call.
LEMMA CaptureFlow ==
  ASSUME TypeOK, TypeOK', BooksOK, NEW g \in Handlers, NEW i \in Intents, MethodsKept,
         CaptureResult(g) \/ Settle(g)
  PROVE  Flow(g, i)
<1> USE DEF TypeOK, HandlersOK
<1> DEFINE t == target[g]
           n == req[g].amount
<1>1. /\ pc[g] \in { "capture_result", "settle" }
      /\ UNCHANGED <<req, target, granted, psp, refunds>> /\ NeverOver(i)
      /\ pc'[g] \notin { "refund_result", "apply_refund", "post_refund", "capture_result" }
  BY DEF CaptureResult, Settle, Goto, outer, BooksOK
<1>2. /\ t \in Intents /\ AtWork(g)
      /\ intents[t].status # "absent" /\ View(g).method = intents[t].method
      /\ View(g).amount \in Nat
  <2>1. AtWork(g) /\ t \in Intents
    BY <1>1, ServingFacts
  <2> QED
    BY <2>1, ViewOK, IntentFields DEF BooksOK, HoldsIntent, AtWork
<1>3. \/ UNCHANGED ledger
      \/ /\ pc[g] = "capture_result" /\ granted[g]
         /\ ledger' = [ledger EXCEPT ![t]["capture"] = ledger[t]["capture"] + n]
      \/ /\ pc[g] = "settle" /\ View(g).method = "automatic"
         /\ ledger' = [ledger EXCEPT ![t]["capture"] = ledger[t]["capture"] + View(g).amount]
  BY DEF CaptureResult, Settle, Accepted, AppendLedgerEntry
<1>4. CASE t # i
  <2>1. ledger'[i] = ledger[i]
    BY <1>2, <1>3, <1>4 DEF WorldOK
  <2> QED
    BY <1>1, <1>4, <2>1, FlowElsewhere
<1>5. CASE UNCHANGED ledger
  BY <1>1, <1>5, FlowAway DEF MethodsKept
<1>6. CASE t = i /\ ~ UNCHANGED ledger
  <2>1. /\ Part(g, Applying(i)) = 0 /\ Part(g, Posting(i)) = 0 /\ Part(g, Paying(i)) = 0
        /\ Part(g, Capturing(i)) = IF pc[g] = "capture_result" /\ granted[g] THEN n ELSE 0
    BY <1>1, <1>6, Parts
  <2>2. /\ Part(g, Applying(i))' = 0 /\ Part(g, Posting(i))' = 0
        /\ Part(g, Paying(i))' = 0 /\ Part(g, Capturing(i))' = 0
    BY <1>1, PartsNext
  <2>3. /\ ledger[i].refund \in Nat /\ ledger[i].capture \in Nat
        /\ refunds[i] \in Nat /\ psp[i].refunded \in Nat /\ psp[i].captured \in Nat
    BY BookTypes
  <2>4. /\ ledger'[i].refund = ledger[i].refund
        /\ pc[g] = "capture_result" => ledger'[i].capture = ledger[i].capture + n /\ granted[g]
    BY <1>2, <1>3, <1>6 DEF WorldOK, LedgerTotals
  <2>5. pc[g] = "capture_result" => n \in Nat
    BY ServingFacts, BoundAssumption
  <2>6. pc[g] = "settle" => intents[i].method = "automatic"
    BY <1>2, <1>3, <1>6
  <2>7. /\ intents'[i].method = intents[i].method /\ intents'[i].status # "absent"
    BY <1>2, <1>6 DEF MethodsKept, MethodKept
  <2> HIDE DEF n
  <2>8. CASE pc[g] = "capture_result"
    <3>1. ledger'[i].capture + Part(g, Capturing(i))' + psp[i].captured
            <= psp'[i].captured + ledger[i].capture + Part(g, Capturing(i))
      BY <1>1, <2>1, <2>2, <2>3, <2>4, <2>5, <2>8
    <3> QED
      BY <1>1, <2>1, <2>2, <2>3, <2>4, <2>7, <3>1 DEF Flow
  <2>9. CASE pc[g] = "settle"
    BY <1>1, <2>1, <2>2, <2>3, <2>4, <2>6, <2>7, <2>9 DEF Flow
  <2> QED
    BY <1>1, <2>8, <2>9
<1> QED
  BY <1>4, <1>5, <1>6
\* Creating an intent: nobody held it, and nothing was booked for it.
LEMMA CreateBooks ==
  ASSUME TypeOK, TypeOK', BooksOK, NEW g \in Handlers, StepOf(g), HoldingsOf(g), Create(g)
  PROVE  BooksOK'
<1> USE DEF TypeOK, HandlersOK
<1>1. PICK t \in Intents :
        /\ intents[t].status = "absent"
        /\ intents' = [intents EXCEPT ![t] =
             [ BlankIntent EXCEPT !.status = "requires_confirmation",
                                  !.method = req[g].method, !.amount = req[g].amount ]]
        /\ target' = [target EXCEPT ![g] = t]
  BY DEF Create
<1>2. intents'[t].status # "absent"
  BY <1>1 DEF BlankIntent, WorldOK
<1>3. \A i \in Intents : i # t => intents'[i] = intents[i]
  BY <1>1 DEF WorldOK
<1>4. /\ UNCHANGED <<psp, refunds, ledger, req>> /\ pc[g] = "create"
      /\ pc'[g] = "announce_created" /\ req[g].op = "create"
  BY DEF Create, Goto, outer, HandlerOK, Serves
<1>5. ASSUME NEW h \in Handlers PROVE HoldsIntent(h)'
  <2>1. CASE h = g
    BY <1>4, <2>1 DEF HoldsIntent
  <2>2. CASE h # g
    <3>1. /\ pc'[h] = pc[h] /\ req'[h] = req[h] /\ target'[h] = target[h] /\ copy'[h] = copy[h]
      BY <2>2 DEF StepOf, HoldingsOf
    <3>2. CASE AtWork(h)
      <4>1. target[h] \in Intents /\ target[h] # t
        BY <1>1, <3>2, ServingFacts DEF BooksOK, HoldsIntent, AtWork
      <4>2. intents'[target[h]] = intents[target[h]]
        BY <1>3, <4>1
      <4>3. View(h)' = View(h)
        BY <3>1, <4>2 DEF View
      <4> QED
        BY <3>1, <4>2, <4>3 DEF BooksOK, HoldsIntent
    <3>3. CASE ~ AtWork(h)
      BY <3>1, <3>3 DEF AtWork, HoldsIntent
    <3> QED
      BY <3>2, <3>3
  <2> QED
    BY <2>1, <2>2
<1>6. ASSUME NEW i \in Intents PROVE NeverOver(i)'
  <2>1. CASE i # t
    <3>1. MethodKept(i)
      BY <1>3, <2>1 DEF MethodKept
    <3>2. Flow(g, i)
      BY <1>4, <3>1, FlowAway DEF BooksOK
    <3> QED
      BY <3>2, BooksFollow DEF BooksOK
  <2>2. CASE i = t
    <3>1. \A h \in Handlers : ~ (pc[h] = "capture_result" /\ target[h] = t)
      <4> SUFFICES ASSUME NEW h \in Handlers, pc[h] = "capture_result", target[h] = t PROVE FALSE
        OBVIOUS
      <4>1. AtWork(h)
        BY ServingFacts
      <4> QED
        BY <1>1, <4>1 DEF BooksOK, HoldsIntent, AtWork
    <3>2. \A h \in Handlers : ~ (pc'[h] = "capture_result" /\ target'[h] = t)
      BY <1>4, <3>1 DEF StepOf
    <3>3. Capturing(t)' = {}
      BY <3>2 DEF Capturing
    <3>4. Total(Capturing(t), Asked)' = 0
      BY <3>3, TotalOfNone
    <3>5. ledger'[t].capture = 0
      BY <1>1, <1>4 DEF BooksOK, NeverOver
    <3>6. /\ Part(g, Applying(t))' = 0 /\ Part(g, Posting(t))' = 0 /\ Part(g, Paying(t))' = 0
          /\ Part(g, Applying(t)) = 0 /\ Part(g, Posting(t)) = 0 /\ Part(g, Paying(t)) = 0
      BY <1>4, Parts, PartsNext
    <3>7. ledger[t].refund \in Nat /\ refunds[t] \in Nat /\ psp[t].refunded \in Nat
      BY BookTypes
    <3>8. Flow(g, t)
      BY <1>4, <3>4, <3>5, <3>6, <3>7 DEF Flow
    <3> QED
      BY <2>2, <3>8, BooksFollow DEF BooksOK
  <2> QED
    BY <2>1, <2>2
<1> QED
  BY <1>5, <1>6 DEF BooksOK

LEMMA BooksStep == TypeOK /\ TypeOK' /\ BooksOK /\ [Next]_vars => BooksOK'
<1> SUFFICES ASSUME TypeOK, TypeOK', BooksOK, [Next]_vars PROVE BooksOK'
  OBVIOUS
<1>1. CASE UNCHANGED vars
  BY <1>1
  DEF BooksOK, HoldsIntent, View, NeverOver, Applying, Posting, Paying, Capturing, Asked,
      vars, store, outer, locals
<1>2. ASSUME NEW g \in Handlers, Arrive(g) \/ Step(g) \/ Fail(g) PROVE BooksOK'
  <2>1. StepOf(g) /\ HoldingsOf(g)
    BY <1>2, StepHasOneMover, StepHasOneHolder
  <2>2. CASE Create(g)
    BY <2>1, <2>2, CreateBooks
  <2>3. CASE ~ Create(g)
    <3>1. MethodsKept /\ HoldsIntent(g)'
      BY <1>2, <2>3, MethodSteps DEF BooksOK
    <3>2. ASSUME NEW h \in Handlers, h # g PROVE HoldsIntent(h)'
      <4>1. /\ pc'[h] = pc[h] /\ req'[h] = req[h] /\ target'[h] = target[h] /\ copy'[h] = copy[h]
        BY <2>1, <3>2 DEF StepOf, HoldingsOf
      <4>2. CASE AtWork(h)
        <5> DEFINE t == target[h]
        <5>1. /\ t \in Intents /\ intents[t].status # "absent" /\ View(h).status # "absent"
              /\ View(h).method = intents[t].method
          BY <4>2, ServingFacts DEF BooksOK, HoldsIntent, AtWork
        <5>2. intents'[t].status # "absent" /\ intents'[t].method = intents[t].method
          BY <3>1, <5>1 DEF MethodsKept, MethodKept
        <5>3. View(h)' = IF SharedRecords THEN intents'[t] ELSE copy[h]
          BY <4>1 DEF View
        <5>4. View(h)'.status # "absent" /\ View(h)'.method = intents[t].method
          BY <5>1, <5>2, <5>3 DEF View
        <5> QED
          BY <4>1, <5>2, <5>4 DEF HoldsIntent
      <4>3. CASE ~ AtWork(h)
        BY <4>1, <4>3 DEF AtWork, HoldsIntent
      <4> QED
        BY <4>2, <4>3
    <3>3. ASSUME NEW i \in Intents PROVE NeverOver(i)'
      <4>1. Flow(g, i)
        <5>1. CASE CallCapture(g) \/ CallRefund(g)
          BY <3>1, <5>1, CallFlow
        <5>2. CASE RefundResult(g) \/ ApplyRefund(g) \/ PostRefund(g)
          BY <3>1, <5>2, RefundFlow
        <5>3. CASE CaptureResult(g) \/ Settle(g)
          BY <3>1, <5>3, CaptureFlow
        <5> QED
          BY <1>2, <2>3, <3>1, <5>1, <5>2, <5>3, QuietFlow DEF Abort, Step, BooksOK
      <4> QED
        BY <2>1, <4>1, BooksFollow DEF BooksOK
    <3> QED
      BY <3>1, <3>2, <3>3 DEF BooksOK
  <2> QED
    BY <2>2, <2>3
<1> QED
  BY <1>1, <1>2 DEF Next

LEMMA InitBooks == Init => BooksOK
<1> SUFFICES ASSUME Init PROVE BooksOK
  OBVIOUS
<1>1. \A h \in Handlers : HoldsIntent(h)
  BY DEF Init, HoldsIntent, EarlyPc
<1>2. ASSUME NEW i \in Intents PROVE NeverOver(i)
  <2>1. Applying(i) = {} /\ Posting(i) = {} /\ Paying(i) = {} /\ Capturing(i) = {}
    BY DEF Init, Applying, Posting, Paying, Capturing
  <2>2. /\ Total(Applying(i), Asked) = 0 /\ Total(Posting(i), Asked) = 0
        /\ Total(Paying(i), Asked) = 0 /\ Total(Capturing(i), Asked) = 0
    BY <2>1, TotalOfNone
  <2>3. /\ ledger[i].refund = 0 /\ ledger[i].capture = 0 /\ refunds[i] = 0
        /\ psp[i].refunded = 0 /\ psp[i].captured = 0
    BY DEF Init, EmptyLedger
  <2> QED
    BY <2>2, <2>3 DEF NeverOver
<1> QED
  BY <1>1, <1>2 DEF BooksOK

LEMMA BooksHold == Spec => []BooksOK
<1>1. TypeOK /\ TypeOK' /\ BooksOK /\ [Next]_vars => BooksOK'
  BY BooksStep
<1> QED
  BY <1>1, InitBooks, TypeCorrect, PTL DEF Spec

\* Over either repository, with any faults and any interleaving, the ledger never
\* claims a refund that is not recorded or a capture that was not made, and no
\* refund is recorded that the provider did not make: each amount is held by its
\* handler from the provider's answer until the book after it has it.
THEOREM NothingOverstated == Spec => []BooksNeverOverstate
<1>1. TypeOK /\ BooksOK => BooksNeverOverstate
  <2> SUFFICES ASSUME TypeOK, BooksOK, NEW i \in Intents
               PROVE  /\ ledger[i].refund <= refunds[i] /\ refunds[i] <= psp[i].refunded
                      /\ intents[i].method = "manual" => ledger[i].capture <= psp[i].captured
    BY DEF BooksNeverOverstate
  <2>1. \A S \in SUBSET Handlers : Total(S, Asked) \in Nat
    BY FiniteAssumption, FS_Subset, UnitsFinite
  <2>2. /\ Total(Applying(i), Asked) \in Nat /\ Total(Posting(i), Asked) \in Nat
        /\ Total(Paying(i), Asked) \in Nat /\ Total(Capturing(i), Asked) \in Nat
    BY <2>1 DEF Applying, Posting, Paying, Capturing
  <2>3. /\ ledger[i].refund \in Nat /\ ledger[i].capture \in Nat
        /\ refunds[i] \in Nat /\ psp[i].refunded \in Nat /\ psp[i].captured \in Nat
    BY BookTypes
  <2>4. NeverOver(i)
    BY DEF BooksOK
  <2> QED
    BY <2>2, <2>3, <2>4 DEF NeverOver
<1> QED
  BY <1>1, BooksHold, TypeCorrect, PTL
-----------------------------------------------------------------------------
(* The in-memory repository: the books balance *)

\* The lost chargebacks of i, and those of them the ledger has not got yet.
Lost(i) == { c \in Chargebacks : chargebacks[c].intent = i /\ chargebacks[c].status = "lost" }

Posts(h, c) == pc[h] = "post_loss" /\ req[h].chargeback = c

Booking(i) == { c \in Lost(i) : \E h \in Handlers : Posts(h, c) }

Disputed == [ c \in Chargebacks |-> chargebacks[c].amount ]

\* What a handler of a resolution knows of its chargeback.
Knows(h) ==
  pc[h] \notin EarlyPc /\ req[h].op = "resolve" =>
    /\ chargebacks[req[h].chargeback].status # "absent"
    /\ chargebacks[req[h].chargeback].intent = target[h]

\* A resolution knows the intent of its chargeback, and only the one that decided
\* "lost" books the loss.
LossesOK ==
  /\ \A c \in Chargebacks : chargebacks[c].amount \in 0..MaxAmount
  /\ \A h \in Handlers : Knows(h)
  /\ \A h \in Handlers : pc[h] = "post_loss" => chargebacks[req[h].chargeback].status = "lost"
  /\ \A g, h \in Handlers :
       pc[g] = "post_loss" /\ pc[h] = "post_loss" /\ req[g].chargeback = req[h].chargeback => g = h

\* Without faults, what one book has and the next has not is what handlers hold.
RefundBalance(i) ==
  /\ ledger[i].refund + Total(Posting(i), Asked) = intents[i].refunded
  /\ intents[i].refunded + Total(Applying(i), Asked) = refunds[i]
  /\ refunds[i] + Total(Paying(i), Asked) = psp[i].refunded
  /\ intents[i].method = "manual" =>
       intents[i].captured + Total(Capturing(i), Asked) = psp[i].captured
  /\ intents[i].status = "absent" => intents[i].refunded = 0 /\ psp[i].captured = 0

LossBalance(i) == ledger[i].chargeback + Total(Booking(i), Disputed) = Total(Lost(i), Disputed)

BalanceOK ==
  /\ LossesOK
  /\ faults = 0 => \A i \in Intents : RefundBalance(i) /\ LossBalance(i)
-----------------------------------------------------------------------------
(* The sum the model computes is the sum the proofs count *)

\* MapThenSumSet folds a set one chosen member after the other, and there is one
\* function that does so: the counted sum.  The library's induction over finite
\* sets takes an operator as a parameter, so the argument is a minimal counterexample.
LEMMA SumIsTotal ==
  ASSUME NEW r, NEW S, IsFiniteSet(S), \A c \in S : r[c].amount \in 0..MaxAmount
  PROVE  MapThenSumSet(LAMBDA c : r[c].amount, S) = Total(S, [ c \in S |-> r[c].amount ])
<1> DEFINE a == [ c \in S |-> r[c].amount ]
           Folds(f) == f = [ s \in SUBSET S |->
                               IF s = {} THEN 0
                               ELSE LET x == CHOOSE y \in s : TRUE
                                    IN  r[x].amount + f[s \ {x}] ]
           w == [ s \in SUBSET S |-> Total(s, a) ]
<1>1. MapThenSumSet(LAMBDA c : r[c].amount, S) = (CHOOSE f : Folds(f))[S]
  BY DEF MapThenSumSet, MapThenFoldSet
<1>2. ASSUME NEW s \in SUBSET S, s # {}
      PROVE  LET x == CHOOSE y \in s : TRUE
             IN  x \in s /\ Total(s, a) = r[x].amount + Total(s \ {x}, a)
  <2> DEFINE x == CHOOSE y \in s : TRUE
  <2>1. x \in s
    BY <1>2
  <2> HIDE DEF x
  <2>2. IsFiniteSet(s \ {x})
    BY FS_Subset
  <2>3. a[x] = r[x].amount /\ a[x] \in 0..MaxAmount /\ a[x] \in Nat
    BY <2>1, BoundAssumption
  <2> HIDE DEF a
  <2>4. Total((s \ {x}) \cup {x}, a) = Total(s \ {x}, a) + a[x]
    BY <2>2, <2>3, TotalAdd
  <2>5. (s \ {x}) \cup {x} = s /\ Total(s \ {x}, a) \in Nat
    BY <2>1, <2>2, UnitsFinite
  <2>6. x \in s /\ Total(s, a) = r[x].amount + Total(s \ {x}, a)
    <3>1. Total(s, a) = Total(s \ {x}, a) + a[x]
      BY <2>4, <2>5, Zenon
    <3>2. \A m, n \in Nat : m + n = n + m
      OBVIOUS
    <3> QED
      BY <2>1, <2>3, <2>5, <3>1, <3>2
  <2> QED
    BY <2>6 DEF x
<1>3. Folds(w)
  <2>1. ASSUME NEW s \in SUBSET S
        PROVE  Total(s, a) = IF s = {} THEN 0
                             ELSE LET x == CHOOSE y \in s : TRUE IN r[x].amount + w[s \ {x}]
    <3>1. CASE s = {}
      BY <3>1, TotalOfNone
    <3>2. CASE s # {}
      <4> DEFINE x == CHOOSE y \in s : TRUE
      <4>1. x \in s /\ Total(s, a) = r[x].amount + Total(s \ {x}, a)
        BY <1>2, <3>2
      <4> HIDE DEF x, a
      <4>2. w[s \ {x}] = Total(s \ {x}, a)
        OBVIOUS
      <4>3. Total(s, a) = r[x].amount + w[s \ {x}]
        BY <4>1, <4>2
      <4> HIDE DEF w
      <4> QED
        BY <3>2, <4>3 DEF x
    <3> QED
      BY <3>1, <3>2
  <2> QED
    BY <2>1
<1> HIDE DEF a
<1>4. ASSUME NEW f, Folds(f) PROVE f[S] = w[S]
  <2> DEFINE bad == { s \in SUBSET S : f[s] # w[s] }
             R == StrictSubsetOrdering(S)
  <2>1. IsWellFoundedOn(R, SUBSET S)
    BY FS_StrictSubsetOrderingWellFounded, FS_FiniteSubsetsOfFinite
  <2>2. SUFFICES ASSUME bad # {} PROVE FALSE
    OBVIOUS
  <2> HIDE DEF R
  <2>3. PICK s \in bad : \A y \in bad : ~ (<<y, s>> \in R)
    <3>1. bad \subseteq SUBSET S
      OBVIOUS
    <3> HIDE DEF bad
    <3> QED
      BY <2>1, <2>2, <3>1, WFMin
  <2> USE DEF R
  <2>4. s # {}
    <3>1. CASE s = {}
      <4>1. f[s] = 0
        BY <1>4, <3>1
      <4>2. w[s] = 0
        BY <3>1, TotalOfNone
      <4> QED
        BY <4>1, <4>2
    <3> QED
      BY <3>1
  <2> DEFINE x == CHOOSE y \in s : TRUE
  <2>5. x \in s /\ w[s] = r[x].amount + w[s \ {x}]
    <3>1. x \in s /\ Total(s, a) = r[x].amount + Total(s \ {x}, a)
      BY <1>2, <2>4
    <3> HIDE DEF x
    <3> QED
      BY <3>1
  <2>6. f[s] = r[x].amount + f[s \ {x}]
    BY <1>4, <2>4
  <2> HIDE DEF x, Folds, w
  <2>7. s \ {x} \notin bad
    <3>1. <<s \ {x}, s>> \in StrictSubsetOrdering(S)
      BY <2>5 DEF StrictSubsetOrdering
    <3> QED
      BY <2>3, <3>1
  <2>8. f[s \ {x}] = w[s \ {x}]
    BY <2>7
  <2> QED
    BY <2>5, <2>6, <2>8
<1> HIDE DEF Folds, w
<1>5. Folds(CHOOSE f : Folds(f))
  BY <1>3
<1>6. (CHOOSE f : Folds(f))[S] = w[S]
  BY <1>4, <1>5
<1> QED
  BY <1>1, <1>6 DEF w, a
\* The steps that touch neither chargebacks nor losses.
LEMMA QuietLosses ==
  ASSUME TypeOK, NEW g \in Handlers, Arrive(g) \/ Step(g),
         ~ Dispute(g), ~ Resolve(g), ~ PostLoss(g)
  PROVE  /\ UNCHANGED chargebacks
         /\ \A i \in Intents : ledger'[i].chargeback = ledger[i].chargeback
         /\ pc[g] # "post_loss" /\ pc'[g] # "post_loss"
<1> USE DEF TypeOK, HandlersOK
<1>0. pc[g] # "post_loss"
  BY DEF Enter, Abort, Refused, Step, Arrive, Lock, Lookup, Put, Announce, Announcement, Create, ReadIntent,
         Confirm, Assess, Authorize, Settle, SaveOutcome, Capture, CallCapture, CaptureResult,
         SettleCapture, Cancel, Refund, CallRefund, RefundResult, ApplyRefund, PostRefund,
         ListChargebacks, ReadChargeback, Deciding
<1>1. CASE Arrive(g) \/ Throw(g) \/ Put(g)
  BY <1>0, <1>1 DEF Arrive, Throw, Put, Release, Goto, store
<1>2. CASE Lock(g) \/ Lookup(g) \/ ReadIntent(g) \/ ReadChargeback(g) \/ ListChargebacks(g)
  BY <1>0, <1>1, <1>2 DEF Lock, Lookup, ReadIntent, ReadChargeback, ListChargebacks, Goto, store
<1>3. CASE Announce(g)
  <2>1. Announcement[pc[g]].then # "post_loss"
    BY <1>3 DEF Announce, Announcement
  <2> QED
    BY <1>0, <1>3, <2>1 DEF Announce, Goto, store
<1>4. CASE \/ Create(g) \/ Confirm(g) \/ Assess(g) \/ SaveOutcome(g) \/ Capture(g)
           \/ CallCapture(g) \/ SettleCapture(g) \/ Cancel(g)
  BY <1>0, <1>1, <1>4
  DEF Enter, Create, Confirm, Assess, SaveOutcome, Capture, CallCapture, SettleCapture, Cancel, Goto, store
<1>5. CASE Refund(g) \/ CallRefund(g) \/ RefundResult(g) \/ ApplyRefund(g)
  BY <1>0, <1>1, <1>5 DEF Refund, CallRefund, RefundResult, ApplyRefund, Goto, store
<1>6. CASE Authorize(g) \/ Settle(g) \/ CaptureResult(g) \/ PostRefund(g)
  <2>1. /\ UNCHANGED chargebacks /\ pc'[g] # "post_loss"
        /\ \/ UNCHANGED ledger
           \/ \E type \in { "authorization", "capture", "refund" } : \E n :
                ledger' = [ledger EXCEPT ![target[g]][type] = @ + n]
    BY <1>0, <1>6 DEF Authorize, Settle, CaptureResult, PostRefund, AppendLedgerEntry, Goto
  <2>2. CASE UNCHANGED ledger
    BY <1>0, <2>1, <2>2
  <2>3. CASE \E type \in { "authorization", "capture", "refund" } : \E n :
               ledger' = [ledger EXCEPT ![target[g]][type] = @ + n]
    <3>1. \A i \in Intents : ledger'[i].chargeback = ledger[i].chargeback
      BY <2>3 DEF WorldOK, LedgerTotals
    <3> QED
      BY <1>0, <2>1, <3>1
  <2> QED
    BY <2>1, <2>2, <2>3
<1> QED
  BY <1>1, <1>2, <1>3, <1>4, <1>5, <1>6 DEF Abort, Step

LEMMA KnowsKept ==
  ASSUME TypeOK, NEW g \in Handlers, Knows(g), Arrive(g) \/ Step(g) \/ Fail(g),
         ~ Dispute(g), ~ Resolve(g), ~ PostLoss(g)
  PROVE  Knows(g)' /\ UNCHANGED chargebacks
<1> USE DEF TypeOK, HandlersOK
<1>0. UNCHANGED chargebacks
  BY QuietLosses DEF Fail, store
<1>1. CASE Arrive(g) \/ Fail(g) \/ Throw(g) \/ Put(g) \/ Lock(g) \/ Lookup(g)
  <2>1. pc'[g] \in EarlyPc
    BY <1>1 DEF Arrive, Fail, Throw, Put, Lock, Lookup, Release, Goto, EarlyPc
  <2> QED
    BY <1>0, <2>1 DEF Knows
<1>2. CASE Create(g) \/ ReadIntent(g)
  <2>1. \/ pc'[g] \in EarlyPc
        \/ UNCHANGED req /\ req[g].op # "resolve"
    BY <1>1, <1>2 DEF Create, ReadIntent, Throw, Release, Goto, EarlyPc, HandlerOK, Serves
  <2> QED
    BY <1>0, <2>1 DEF Knows
<1>3. CASE ReadChargeback(g) /\ ~ Throw(g)
  BY <1>0, <1>3 DEF ReadChargeback, Knows
<1>4. CASE UNCHANGED <<req, target>> /\ pc[g] \notin EarlyPc
  BY <1>0, <1>4 DEF Knows
<1>5. CASE \/ Announce(g) \/ Confirm(g) \/ Assess(g) \/ Authorize(g) \/ Settle(g)
           \/ SaveOutcome(g) \/ Capture(g) \/ CallCapture(g) \/ CaptureResult(g)
           \/ SettleCapture(g) \/ Cancel(g)
  <2>1. Throw(g) \/ (UNCHANGED <<req, target>> /\ pc[g] \notin EarlyPc)
    BY <1>5
    DEF Enter, Announce, Confirm, Assess, Authorize, Settle, SaveOutcome, Capture, CallCapture,
        CaptureResult, SettleCapture, Cancel, Deciding, locals, EarlyPc, Announcement
  <2> QED
    BY <1>1, <1>4, <2>1
<1>6. CASE \/ Refund(g) \/ CallRefund(g) \/ RefundResult(g) \/ ApplyRefund(g)
           \/ PostRefund(g) \/ ListChargebacks(g)
  <2>1. Throw(g) \/ (UNCHANGED <<req, target>> /\ pc[g] \notin EarlyPc)
    BY <1>6
    DEF Refund, CallRefund, RefundResult, ApplyRefund, PostRefund, ListChargebacks,
        Deciding, locals, EarlyPc
  <2> QED
    BY <1>1, <1>4, <2>1
<1> QED
  BY <1>1, <1>2, <1>3, <1>5, <1>6 DEF Abort, Step
LEMMA DisputeFacts ==
  ASSUME TypeOK, NEW g \in Handlers, Dispute(g), ~ Throw(g)
  PROVE  /\ pc[g] = "dispute" /\ pc'[g] = "chargeback_opened"
         /\ target[g] \in Intents /\ req[g].op = "dispute" /\ req[g].amount \in 1..MaxAmount
         /\ UNCHANGED <<ledger, req, target>>
         /\ \E c \in Chargebacks :
              /\ chargebacks[c].status = "absent"
              /\ chargebacks' = [chargebacks EXCEPT ![c] =
                   [ intent |-> target[g], amount |-> req[g].amount, status |-> "open" ]]
<1> USE DEF TypeOK, HandlersOK
<1>1. pc[g] = "dispute" /\ target[g] \in Intents /\ req[g] \in Request /\ req[g].op = "dispute"
  BY DEF Dispute, HandlerOK, EarlyPc, Serves
<1>2. req[g].amount \in 1..MaxAmount
  BY <1>1 DEF Request
<1> QED
  BY <1>1, <1>2 DEF Dispute, Goto, locals

LEMMA ResolveFacts ==
  ASSUME SharedRecords = TRUE, TypeOK, NEW g \in Handlers, Resolve(g), ~ Throw(g)
  PROVE  /\ pc[g] = "decide" /\ req[g].op = "resolve" /\ target[g] \in Intents
         /\ req[g].chargeback \in Chargebacks
         /\ UNCHANGED <<ledger, req, target>>
         /\ \/ UNCHANGED chargebacks /\ pc'[g] = "put"
            \/ LET c == req[g].chargeback
               IN  /\ Undecided(chargebacks[c].status)
                   /\ \E s \in Resolutions :
                        /\ chargebacks' = [chargebacks EXCEPT ![c] = [chargebacks[c] EXCEPT !.status = s]]
                        /\ s = "lost" => pc'[g] = "post_loss"
                        /\ s # "lost" => pc'[g] \in { "chargeback_won", "put" }
<1> USE DEF TypeOK, HandlersOK
<1>1. pc[g] = "decide" /\ target[g] \in Intents /\ req[g] \in Request /\ req[g].op = "resolve"
  BY DEF Resolve, Deciding, HandlerOK, EarlyPc
<1>2. req[g].chargeback \in Chargebacks /\ req[g].status \in Resolutions
  BY <1>1 DEF Request
<1> QED
  BY <1>1, <1>2 DEF Resolve, ViewChargeback, Goto, locals, store

LEMMA PostLossFacts ==
  ASSUME TypeOK, NEW g \in Handlers, PostLoss(g)
  PROVE  /\ pc[g] = "post_loss" /\ pc'[g] = "chargeback_lost"
         /\ req[g].op = "resolve" /\ target[g] \in Intents /\ req[g].chargeback \in Chargebacks
         /\ UNCHANGED <<chargebacks, req, target>>
         /\ \A i \in Intents :
              ledger'[i].chargeback = IF i = target[g]
                                        THEN ledger[i].chargeback + chargebacks[req[g].chargeback].amount
                                        ELSE ledger[i].chargeback
<1> USE DEF TypeOK, HandlersOK
<1>1. pc[g] = "post_loss" /\ target[g] \in Intents /\ req[g] \in Request /\ req[g].op = "resolve"
  BY DEF PostLoss, HandlerOK, EarlyPc, Serves
<1>2. req[g].chargeback \in Chargebacks
  BY <1>1 DEF Request
<1>3. ledger' = [ledger EXCEPT ![target[g]]["chargeback"] =
                   ledger[target[g]]["chargeback"] + chargebacks[req[g].chargeback].amount]
  BY DEF PostLoss, AppendLedgerEntry
<1> QED
  BY <1>1, <1>2, <1>3 DEF PostLoss, Goto, locals, WorldOK, LedgerTotals

LEMMA LossesStep ==
  ASSUME SharedRecords = TRUE, TypeOK, LossesOK, NEW g \in Handlers, StepOf(g),
         Arrive(g) \/ Step(g) \/ Fail(g)
  PROVE  LossesOK'
<1> USE DEF TypeOK, HandlersOK
<1>1. ASSUME UNCHANGED chargebacks, pc'[g] # "post_loss", Knows(g)' PROVE LossesOK'
  <2>1. ASSUME NEW h \in Handlers PROVE Knows(h)'
    BY <1>1, <2>1 DEF LossesOK, Knows, StepOf
  <2>2. \A h \in Handlers : pc'[h] = "post_loss" =>
          h # g /\ pc[h] = "post_loss" /\ req'[h] = req[h]
    BY <1>1 DEF StepOf
  <2> QED
    BY <1>1, <2>1, <2>2 DEF LossesOK
<1>2. CASE Throw(g)
  BY <1>1, <1>2 DEF Throw, Release, Goto, store, Knows, EarlyPc
<1>3. CASE Dispute(g) /\ ~ Throw(g)
  <2>1. PICK c \in Chargebacks :
          /\ chargebacks[c].status = "absent"
          /\ chargebacks' = [chargebacks EXCEPT ![c] =
               [ intent |-> target[g], amount |-> req[g].amount, status |-> "open" ]]
    BY <1>3, DisputeFacts
  <2>2. /\ pc'[g] = "chargeback_opened" /\ req'[g].op = "dispute" /\ req[g].amount \in 0..MaxAmount
    BY <1>3, DisputeFacts, BoundAssumption
  <2>3. /\ \A d \in Chargebacks : d # c => chargebacks'[d] = chargebacks[d]
        /\ chargebacks'[c].amount = req[g].amount
    BY <2>1 DEF WorldOK
  <2>4. \A h \in Handlers : pc'[h] = "post_loss" =>
          h # g /\ pc[h] = "post_loss" /\ req'[h] = req[h]
    BY <2>2 DEF StepOf
  <2>5. ASSUME NEW h \in Handlers, pc[h] \notin EarlyPc, req[h].op = "resolve"
        PROVE  req[h].chargeback \in Chargebacks
    BY <2>5 DEF HandlerOK, Request, EarlyPc
  <2>6. ASSUME NEW h \in Handlers PROVE Knows(h)'
    BY <2>1, <2>2, <2>3, <2>5 DEF LossesOK, Knows, StepOf
  <2>7. ASSUME NEW h \in Handlers, pc'[h] = "post_loss"
        PROVE  chargebacks'[req'[h].chargeback].status = "lost"
    <3>1. pc[h] = "post_loss" /\ req'[h] = req[h] /\ chargebacks[req[h].chargeback].status = "lost"
      BY <2>4, <2>7 DEF LossesOK
    <3>2. req[h].chargeback \in Chargebacks
      <4>1. req[h].op = "resolve"
        BY <3>1 DEF HandlerOK, Serves
      <4> QED
        BY <2>5, <3>1, <4>1 DEF EarlyPc
    <3> QED
      BY <2>1, <2>3, <3>1, <3>2
  <2> QED
    BY <2>2, <2>3, <2>4, <2>6, <2>7 DEF LossesOK
<1>4. CASE Resolve(g) /\ ~ Throw(g)
  <2> DEFINE c == req[g].chargeback
  <2>1. /\ pc[g] = "decide" /\ req[g].op = "resolve" /\ c \in Chargebacks
        /\ UNCHANGED <<req, target>>
    BY <1>4, ResolveFacts
  <2>2. CASE UNCHANGED chargebacks /\ pc'[g] = "put"
    BY <1>1, <2>1, <2>2 DEF LossesOK, Knows, EarlyPc
  <2>3. CASE ~ (UNCHANGED chargebacks /\ pc'[g] = "put")
    <3>1. PICK s \in Resolutions :
            /\ Undecided(chargebacks[c].status)
            /\ chargebacks' = [chargebacks EXCEPT ![c] = [chargebacks[c] EXCEPT !.status = s]]
            /\ s = "lost" => pc'[g] = "post_loss"
            /\ s # "lost" => pc'[g] \in { "chargeback_won", "put" }
      BY <1>4, <2>3, ResolveFacts
    <3>2. chargebacks[c].status # "absent" /\ chargebacks[c].status # "lost" /\ s # "absent"
      BY <3>1 DEF Undecided, Resolutions, ChargebackStatus
    <3>3. chargebacks[c] \in [ intent : Intents, amount : Nat, status : ChargebackStatus ]
      BY <2>1, <3>2 DEF WorldOK, ChargebackRecord, BlankChargeback
    <3>4. /\ \A d \in Chargebacks : /\ chargebacks'[d].amount = chargebacks[d].amount
                                    /\ chargebacks'[d].intent = chargebacks[d].intent
                                    /\ d # c => chargebacks'[d] = chargebacks[d]
          /\ chargebacks'[c].status = s
      BY <2>1, <3>1, <3>3 DEF WorldOK
    <3>5. ASSUME NEW h \in Handlers, pc[h] \notin EarlyPc, req[h].op = "resolve"
          PROVE  req[h].chargeback \in Chargebacks
      BY <3>5 DEF HandlerOK, Request, EarlyPc
    <3>6. \A h \in Handlers : pc[h] = "post_loss" =>
            /\ req[h].chargeback # c /\ req[h].chargeback \in Chargebacks /\ h # g
            /\ chargebacks[req[h].chargeback].status = "lost"
      <4>1. \A h \in Handlers : pc[h] = "post_loss" => req[h].op = "resolve" /\ pc[h] \notin EarlyPc
        BY DEF HandlerOK, Serves, EarlyPc
      <4> QED
        BY <2>1, <3>2, <3>5, <4>1 DEF LossesOK
    <3> HIDE DEF c
    <3>7. ASSUME NEW h \in Handlers PROVE Knows(h)'
      <4>1. CASE h = g
        BY <2>1, <3>2, <3>4, <4>1 DEF LossesOK, Knows, EarlyPc, c
      <4>2. CASE h # g
        BY <2>1, <3>2, <3>4, <3>5, <4>2 DEF LossesOK, Knows, StepOf
      <4> QED
        BY <4>1, <4>2
    <3>8. \A h \in Handlers : h # g /\ pc'[h] = "post_loss" => pc[h] = "post_loss"
      BY DEF StepOf
    <3>9. \A h \in Handlers : pc'[h] = "post_loss" => chargebacks'[req'[h].chargeback].status = "lost"
      BY <2>1, <3>1, <3>4, <3>6, <3>8 DEF c
    <3>10. \A h, k \in Handlers : pc'[h] = "post_loss" /\ pc'[k] = "post_loss"
             /\ req'[h].chargeback = req'[k].chargeback => h = k
      BY <2>1, <3>6, <3>8 DEF LossesOK, c
    <3> QED
      BY <3>4, <3>7, <3>9, <3>10 DEF LossesOK
  <2> QED
    BY <2>2, <2>3
<1>5. CASE PostLoss(g)
  <2>1. /\ UNCHANGED <<chargebacks, req, target>> /\ pc'[g] = "chargeback_lost" /\ pc[g] = "post_loss"
    BY <1>5, PostLossFacts
  <2> QED
    BY <1>1, <2>1 DEF LossesOK, Knows, EarlyPc
<1>6. CASE ~ Dispute(g) /\ ~ Resolve(g) /\ ~ PostLoss(g)
  <2>1. UNCHANGED chargebacks /\ Knows(g)'
    BY <1>6, KnowsKept DEF LossesOK
  <2>2. pc'[g] # "post_loss"
    BY <1>6, QuietLosses DEF Fail, Release, Goto
  <2> QED
    BY <1>1, <2>1, <2>2
<1> QED
  BY <1>2, <1>3, <1>4, <1>5, <1>6
\* A step that changes neither the losses of i nor who books them.
LEMMA LossesSame ==
  ASSUME TypeOK, NEW i \in Intents, LossBalance(i),
         \A c \in Chargebacks : c \in Lost(i)' <=> c \in Lost(i),
         \A c \in Lost(i) : chargebacks'[c].amount = chargebacks[c].amount,
         \A c \in Lost(i) : (\E h \in Handlers : Posts(h, c)') <=> (\E h \in Handlers : Posts(h, c)),
         ledger'[i].chargeback = ledger[i].chargeback
  PROVE  LossBalance(i)'
<1>1. Lost(i)' = Lost(i)
  BY DEF Lost
<1>2. Booking(i)' = Booking(i)
  BY <1>1 DEF Booking
<1>3. \A c \in Lost(i) : Disputed'[c] = Disputed[c]
  BY DEF Disputed, Lost
<1>4. /\ Total(Lost(i), Disputed') = Total(Lost(i), Disputed)
      /\ Total(Booking(i), Disputed') = Total(Booking(i), Disputed)
  BY <1>3, TotalSame DEF Booking
<1>5. /\ Total(Lost(i), Disputed)' = Total(Lost(i), Disputed)
      /\ Total(Booking(i), Disputed)' = Total(Booking(i), Disputed)
  BY <1>1, <1>2, <1>4
<1> QED
  BY <1>5 DEF LossBalance

LEMMA LossSums ==
  ASSUME TypeOK, LossesOK, NEW i \in Intents
  PROVE  /\ IsFiniteSet(Lost(i)) /\ IsFiniteSet(Booking(i))
         /\ Total(Lost(i), Disputed) \in Nat /\ Total(Booking(i), Disputed) \in Nat
         /\ \A c \in Chargebacks : Disputed[c] = chargebacks[c].amount /\ Disputed[c] \in 0..MaxAmount
  BY FiniteAssumption, FS_Subset, UnitsFinite DEF Lost, Booking, Disputed, LossesOK

\* resolveChargeback decides "lost" and holds the loss until it is booked.
LEMMA LossDecided ==
  ASSUME TypeOK, LossesOK, LossesOK', NEW g \in Handlers, StepOf(g), req' = req,
         NEW c \in Chargebacks, c = req[g].chargeback,
         Undecided(chargebacks[c].status), pc[g] # "post_loss", pc'[g] = "post_loss",
         chargebacks' = [chargebacks EXCEPT ![c] = [chargebacks[c] EXCEPT !.status = "lost"]],
         ledger' = ledger, NEW i \in Intents, LossBalance(i)
  PROVE  LossBalance(i)'
<1>1. chargebacks[c].status # "absent" /\ chargebacks[c].status # "lost"
  BY DEF Undecided
<1>2. chargebacks[c] \in [ intent : Intents, amount : Nat, status : ChargebackStatus ]
  BY <1>1 DEF TypeOK, WorldOK, ChargebackRecord, BlankChargeback
<1>3. /\ chargebacks'[c].status = "lost" /\ chargebacks'[c].intent = chargebacks[c].intent
      /\ \A d \in Chargebacks : chargebacks'[d].amount = chargebacks[d].amount
      /\ \A d \in Chargebacks : d # c => chargebacks'[d] = chargebacks[d]
  BY <1>2 DEF TypeOK, WorldOK
<1>4. \A h \in Handlers : \A d \in Chargebacks : Posts(h, d)' <=> Posts(h, d) \/ (h = g /\ d = c)
  BY DEF Posts, StepOf
<1>5. CASE chargebacks[c].intent # i
  <2>1. \A d \in Chargebacks : d \in Lost(i)' <=> d \in Lost(i)
    BY <1>1, <1>3, <1>5 DEF Lost
  <2>2. c \notin Lost(i)
    BY <1>5 DEF Lost
  <2> QED
    BY <1>3, <1>4, <2>1, <2>2, LossesSame DEF Lost
<1>6. CASE chargebacks[c].intent = i
  <2>1. Lost(i)' = Lost(i) \cup {c} /\ c \notin Lost(i)
    BY <1>1, <1>3, <1>6 DEF Lost
  <2>2. Booking(i)' = Booking(i) \cup {c} /\ c \notin Booking(i)
    <3>1. \A d \in Chargebacks : d \in Booking(i)' <=> d \in Booking(i) \/ d = c
      BY <1>4, <2>1 DEF Booking, Lost
    <3> QED
      BY <2>1, <3>1 DEF Booking, Lost
  <2>3. Disputed' = Disputed
    BY <1>3 DEF Disputed
  <2>4. /\ IsFiniteSet(Lost(i)) /\ IsFiniteSet(Booking(i)) /\ Disputed[c] \in 0..MaxAmount
        /\ Total(Lost(i), Disputed) \in Nat /\ Total(Booking(i), Disputed) \in Nat
    BY LossSums
  <2>5. /\ Total(Lost(i) \cup {c}, Disputed) = Total(Lost(i), Disputed) + Disputed[c]
        /\ Total(Booking(i) \cup {c}, Disputed) = Total(Booking(i), Disputed) + Disputed[c]
    BY <2>1, <2>2, <2>4, TotalAdd
  <2>6. /\ Total(Lost(i), Disputed)' = Total(Lost(i), Disputed) + Disputed[c]
        /\ Total(Booking(i), Disputed)' = Total(Booking(i), Disputed) + Disputed[c]
    BY <2>1, <2>2, <2>3, <2>5
  <2>7. ledger'[i].chargeback = ledger[i].chargeback /\ ledger[i].chargeback \in Nat
    BY BookTypes
  <2>8. Disputed[c] \in Nat
    BY <2>4, BoundAssumption
  <2> QED
    BY <2>4, <2>6, <2>7, <2>8 DEF LossBalance
<1> QED
  BY <1>5, <1>6

\* The loss a handler holds is booked, once.
LEMMA LossBooked ==
  ASSUME TypeOK, LossesOK, NEW g \in Handlers, StepOf(g), PostLoss(g),
         NEW i \in Intents, LossBalance(i)
  PROVE  LossBalance(i)'
<1> DEFINE c == req[g].chargeback
<1>1. /\ pc[g] = "post_loss" /\ pc'[g] = "chargeback_lost"
      /\ req[g].op = "resolve" /\ target[g] \in Intents /\ c \in Chargebacks
      /\ UNCHANGED <<chargebacks, req, target>>
      /\ ledger'[i].chargeback = IF i = target[g] THEN ledger[i].chargeback + chargebacks[c].amount
                                 ELSE ledger[i].chargeback
  BY PostLossFacts
<1>2. chargebacks[c].status = "lost" /\ chargebacks[c].intent = target[g]
  BY <1>1 DEF LossesOK, Knows, EarlyPc
<1>3. \A h \in Handlers : pc[h] = "post_loss" /\ req[h].chargeback = c => h = g
  BY <1>1 DEF LossesOK
<1> HIDE DEF c
<1>4. \A h \in Handlers : \A d \in Chargebacks : Posts(h, d)' <=> Posts(h, d) /\ d # c
  BY <1>1, <1>3 DEF Posts, StepOf, c
<1>5. CASE target[g] # i
  <2>1. c \notin Lost(i)
    BY <1>2, <1>5 DEF Lost
  <2>2. \A d \in Chargebacks : d \in Lost(i)' <=> d \in Lost(i)
    BY <1>1 DEF Lost
  <2> QED
    BY <1>1, <1>4, <1>5, <2>1, <2>2, LossesSame DEF Lost
<1>6. CASE target[g] = i
  <2>1. c \in Booking(i)
    BY <1>1, <1>2, <1>6 DEF Booking, Lost, Posts, c
  <2>2. Lost(i)' = Lost(i) /\ Disputed' = Disputed
    BY <1>1 DEF Lost, Disputed
  <2>3. Booking(i) = Booking(i)' \cup {c} /\ c \notin Booking(i)'
    <3>1. \A d \in Lost(i) : d \in Booking(i)' <=> d \in Booking(i) /\ d # c
      BY <1>4, <2>2 DEF Booking, Lost
    <3> QED
      BY <2>1, <2>2, <3>1 DEF Booking
  <2>4. /\ IsFiniteSet(Booking(i)) /\ Disputed[c] \in 0..MaxAmount /\ Disputed[c] = chargebacks[c].amount
        /\ Total(Lost(i), Disputed) \in Nat /\ Total(Booking(i), Disputed) \in Nat
    BY <1>1, LossSums
  <2>5. IsFiniteSet(Booking(i)')
    BY <2>3, <2>4, FS_Subset
  <2>6. Total(Booking(i)', Disputed) \in Nat
    BY <2>5, UnitsFinite
  <2>7. Total(Booking(i)' \cup {c}, Disputed) = Total(Booking(i)', Disputed) + Disputed[c]
    BY <2>3, <2>4, <2>5, TotalAdd
  <2>8. Total(Booking(i), Disputed) = Total(Booking(i), Disputed)' + Disputed[c]
    BY <2>2, <2>3, <2>7
  <2>9. Total(Lost(i), Disputed)' = Total(Lost(i), Disputed) /\ Total(Booking(i), Disputed)' \in Nat
    BY <2>2, <2>6
  <2>10. ledger'[i].chargeback = ledger[i].chargeback + Disputed[c] /\ ledger[i].chargeback \in Nat
    BY <1>1, <1>6, <2>4, BookTypes
  <2>11. Disputed[c] \in Nat
    BY <2>4, BoundAssumption
  <2> QED
    BY <2>4, <2>8, <2>9, <2>10, <2>11 DEF LossBalance
<1> QED
  BY <1>5, <1>6

LEMMA LossStep ==
  ASSUME SharedRecords = TRUE, TypeOK, LossesOK, LossesOK', NEW g \in Handlers, StepOf(g),
         Arrive(g) \/ Step(g), NEW i \in Intents, LossBalance(i)
  PROVE  LossBalance(i)'
<1> USE DEF TypeOK, HandlersOK
<1>1. ASSUME UNCHANGED chargebacks, pc[g] # "post_loss", pc'[g] # "post_loss",
             ledger'[i].chargeback = ledger[i].chargeback
      PROVE  LossBalance(i)'
  <2>1. \A h \in Handlers : \A c \in Chargebacks : Posts(h, c)' <=> Posts(h, c)
    BY <1>1 DEF Posts, StepOf
  <2>2. \A c \in Chargebacks : c \in Lost(i)' <=> c \in Lost(i)
    BY <1>1 DEF Lost
  <2> QED
    BY <1>1, <2>1, <2>2, LossesSame DEF Lost
<1>2. CASE Dispute(g)
  <2>1. CASE Throw(g)
    BY <1>1, <1>2, <2>1 DEF Dispute, Throw, Release, Goto, store
  <2>2. CASE ~ Throw(g)
    <3>1. PICK c \in Chargebacks :
            /\ chargebacks[c].status = "absent"
            /\ chargebacks' = [chargebacks EXCEPT ![c] =
                 [ intent |-> target[g], amount |-> req[g].amount, status |-> "open" ]]
      BY <1>2, <2>2, DisputeFacts
    <3>2. /\ pc[g] = "dispute" /\ pc'[g] = "chargeback_opened" /\ UNCHANGED <<ledger, req>>
      BY <1>2, <2>2, DisputeFacts
    <3>3. /\ \A d \in Chargebacks : d # c => chargebacks'[d] = chargebacks[d]
          /\ chargebacks'[c].status = "open"
      BY <3>1 DEF WorldOK
    <3>4. \A d \in Chargebacks : d \in Lost(i)' <=> d \in Lost(i)
      BY <3>1, <3>3 DEF Lost
    <3>5. \A h \in Handlers : \A d \in Chargebacks : Posts(h, d)' <=> Posts(h, d)
      BY <3>2 DEF Posts, StepOf
    <3>6. \A d \in Lost(i) : chargebacks'[d].amount = chargebacks[d].amount
      BY <3>1, <3>3 DEF Lost
    <3> QED
      BY <3>2, <3>4, <3>5, <3>6, LossesSame DEF Lost
  <2> QED
    BY <2>1, <2>2
<1>3. CASE Resolve(g)
  <2>1. CASE Throw(g)
    BY <1>1, <1>3, <2>1 DEF Resolve, Deciding, Throw, Release, Goto, store
  <2>2. CASE ~ Throw(g)
    <3> DEFINE c == req[g].chargeback
    <3>1. /\ pc[g] = "decide" /\ c \in Chargebacks /\ UNCHANGED <<ledger, req, target>>
      BY <1>3, <2>2, ResolveFacts
    <3>2. CASE UNCHANGED chargebacks /\ pc'[g] = "put"
      BY <1>1, <3>1, <3>2
    <3>3. CASE ~ (UNCHANGED chargebacks /\ pc'[g] = "put")
      <4>1. PICK s \in Resolutions :
              /\ Undecided(chargebacks[c].status)
              /\ chargebacks' = [chargebacks EXCEPT ![c] = [chargebacks[c] EXCEPT !.status = s]]
              /\ s = "lost" => pc'[g] = "post_loss"
              /\ s # "lost" => pc'[g] \in { "chargeback_won", "put" }
        BY <1>3, <2>2, <3>3, ResolveFacts
      <4>2. CASE s = "lost"
        BY <3>1, <4>1, <4>2, LossDecided
      <4>3. CASE s # "lost"
        <5>1. chargebacks[c].status # "absent" /\ chargebacks[c].status # "lost"
          BY <4>1 DEF Undecided
        <5>2. chargebacks[c] \in [ intent : Intents, amount : Nat, status : ChargebackStatus ]
          BY <3>1, <5>1 DEF WorldOK, ChargebackRecord, BlankChargeback
        <5>3. /\ \A d \in Chargebacks : d # c => chargebacks'[d] = chargebacks[d]
              /\ chargebacks'[c].status # "lost"
          BY <3>1, <4>1, <4>3, <5>2 DEF WorldOK
        <5> HIDE DEF c
        <5>4. \A d \in Chargebacks : d \in Lost(i)' <=> d \in Lost(i)
          BY <5>1, <5>3 DEF Lost
        <5>5. \A h \in Handlers : \A d \in Chargebacks : Posts(h, d)' <=> Posts(h, d)
          BY <3>1, <4>1, <4>3 DEF Posts, StepOf
        <5>6. \A d \in Lost(i) : chargebacks'[d].amount = chargebacks[d].amount
          BY <5>1, <5>3 DEF Lost
        <5> QED
          BY <3>1, <5>4, <5>5, <5>6, LossesSame DEF Lost
      <4> QED
        BY <4>2, <4>3
    <3> QED
      BY <3>2, <3>3
  <2> QED
    BY <2>1, <2>2
<1>4. CASE PostLoss(g)
  BY <1>4, LossBooked
<1>5. CASE ~ Dispute(g) /\ ~ Resolve(g) /\ ~ PostLoss(g)
  BY <1>1, <1>5, QuietLosses
<1> QED
  BY <1>2, <1>3, <1>4, <1>5
\* What was refunded and captured changes in three places.
LEMMA AmountsKept ==
  ASSUME SharedRecords = TRUE, TypeOK, NEW g \in Handlers, Arrive(g) \/ Step(g),
         ~ Create(g), ~ ApplyRefund(g), ~ CaptureResult(g), ~ Settle(g)
  PROVE  \A i \in Intents : /\ intents'[i].refunded = intents[i].refunded
                            /\ intents'[i].captured = intents[i].captured
<1> USE DEF TypeOK, HandlersOK
<1>1. CASE UNCHANGED intents
  BY <1>1
<1>2. CASE ~ UNCHANGED intents
  <2>1. \/ Confirm(g) \/ Assess(g) \/ Authorize(g) \/ SaveOutcome(g) \/ Capture(g)
        \/ SettleCapture(g) \/ Cancel(g)
    BY <1>2
    DEF Abort, Step, Arrive, Lock, Lookup, Put, Announce, ReadIntent, CallCapture, Refund, CallRefund,
        RefundResult, PostRefund, ListChargebacks, Dispute, ReadChargeback, Resolve, PostLoss,
        Throw, store
  <2>2. AtWork(g)
    <3>1. \/ pc[g] \in { "assess", "authorize", "settle", "save", "capture_result",
                         "settle_capture", "apply_refund" }
          \/ pc[g] = "decide" /\ req[g].op # "resolve"
      BY <2>1
      DEF Enter, Confirm, Assess, Authorize, SaveOutcome, Capture, SettleCapture, Cancel, Deciding
    <3> QED
      BY <3>1, ServingFacts
  <2> DEFINE v == intents[target[g]]
  <2>3. target[g] \in Intents /\ View(g) = v /\ v \in IntentRecord
    BY <2>2, ServingFacts DEF View, WorldOK
  <2> HIDE DEF v
  <2>4. \E r : /\ r.refunded = v.refunded /\ r.captured = v.captured
               /\ intents' = [intents EXCEPT ![target[g]] = r]
    <3>1. CASE Confirm(g) \/ SaveOutcome(g) \/ Capture(g) \/ SettleCapture(g) \/ Cancel(g)
      <4>1. \E s : \/ intents' = [intents EXCEPT ![target[g]] = [v EXCEPT !.status = s]]
                   \/ intents' = [intents EXCEPT ![target[g]] = v]
        BY <1>2, <2>3, <3>1
        DEF Enter, Confirm, SaveOutcome, Capture, SettleCapture, Cancel, Save, Assign, Throw, store
      <4> QED
        BY <2>3, <4>1 DEF IntentRecord
    <3>2. CASE Assess(g)
      <4>1. \E s : intents' = [intents EXCEPT ![target[g]] = [v EXCEPT !.status = s]]
        BY <1>2, <2>3, <3>2 DEF Assess, Save, Throw, store
      <4> QED
        BY <2>3, <4>1 DEF IntentRecord
    <3>3. CASE Authorize(g)
      <4> DEFINE routed == [v EXCEPT !.routed = TRUE]
      <4>1. \/ intents' = [intents EXCEPT ![target[g]] = [routed EXCEPT !.authorized = routed.amount]]
            \/ intents' = [intents EXCEPT ![target[g]] = [routed EXCEPT !.status = "failed"]]
            \/ intents' = [intents EXCEPT ![target[g]] = routed]
        BY <2>3, <3>3 DEF Authorize, Save, Assign
      <4>2. routed \in IntentRecord /\ routed.refunded = v.refunded /\ routed.captured = v.captured
        BY <2>3 DEF IntentRecord
      <4> HIDE DEF routed
      <4>3. /\ [routed EXCEPT !.authorized = routed.amount].refunded = v.refunded
            /\ [routed EXCEPT !.authorized = routed.amount].captured = v.captured
            /\ [routed EXCEPT !.status = "failed"].refunded = v.refunded
            /\ [routed EXCEPT !.status = "failed"].captured = v.captured
        BY <4>2 DEF IntentRecord
      <4> QED
        BY <4>1, <4>2, <4>3
    <3> QED
      BY <2>1, <3>1, <3>2, <3>3
  <2>5. PICK r : /\ r.refunded = v.refunded /\ r.captured = v.captured
                 /\ intents' = [intents EXCEPT ![target[g]] = r]
    BY <2>4
  <2> QED
    BY <2>3, <2>5 DEF v, WorldOK
<1> QED
  BY <1>1, <1>2

\* What the step of g does to the books of i keeps them balanced.
Balanced(g, i) ==
  /\ ledger'[i].refund + Part(g, Posting(i))' + intents[i].refunded
       = intents'[i].refunded + ledger[i].refund + Part(g, Posting(i))
  /\ intents'[i].refunded + Part(g, Applying(i))' + refunds[i]
       = refunds'[i] + intents[i].refunded + Part(g, Applying(i))
  /\ refunds'[i] + Part(g, Paying(i))' + psp[i].refunded
       = psp'[i].refunded + refunds[i] + Part(g, Paying(i))
  /\ intents'[i].method = "manual" =>
       /\ intents[i].method = "manual"
       /\ intents'[i].captured + Part(g, Capturing(i))' + psp[i].captured
            = psp'[i].captured + intents[i].captured + Part(g, Capturing(i))
  /\ intents'[i].status = "absent" => intents'[i].refunded = 0 /\ psp'[i].captured = 0

LEMMA IntentAmounts ==
  TypeOK => \A i \in Intents : intents[i].refunded \in Nat /\ intents[i].captured \in Nat
  BY DEF TypeOK, WorldOK, IntentRecord

LEMMA IntentAmountsNext ==
  TypeOK' => (\A i \in Intents : intents[i].refunded \in Nat /\ intents[i].captured \in Nat)'
  BY IntentAmounts, PTL

LEMMA BalanceFollows ==
  ASSUME TypeOK, TypeOK', NEW g \in Handlers, StepOf(g), HoldingsOf(g),
         NEW i \in Intents, RefundBalance(i), Balanced(g, i)
  PROVE  RefundBalance(i)'
<1>1. PICK ap, pg, py, cp \in Nat :
           /\ Total(Applying(i), Asked) = ap + Part(g, Applying(i))
           /\ Total(Applying(i), Asked)' = ap + Part(g, Applying(i))'
           /\ Total(Posting(i), Asked) = pg + Part(g, Posting(i))
           /\ Total(Posting(i), Asked)' = pg + Part(g, Posting(i))'
           /\ Total(Paying(i), Asked) = py + Part(g, Paying(i))
           /\ Total(Paying(i), Asked)' = py + Part(g, Paying(i))'
           /\ Total(Capturing(i), Asked) = cp + Part(g, Capturing(i))
           /\ Total(Capturing(i), Asked)' = cp + Part(g, Capturing(i))'
  BY StagesMove
<1>2. /\ Part(g, Applying(i)) \in Nat /\ Part(g, Posting(i)) \in Nat
      /\ Part(g, Paying(i)) \in Nat /\ Part(g, Capturing(i)) \in Nat
  BY PartType
<1>3. /\ Part(g, Applying(i))' \in Nat /\ Part(g, Posting(i))' \in Nat
      /\ Part(g, Paying(i))' \in Nat /\ Part(g, Capturing(i))' \in Nat
  BY PartTypeNext
<1>4. /\ ledger[i].refund \in Nat /\ refunds[i] \in Nat
      /\ psp[i].refunded \in Nat /\ psp[i].captured \in Nat
      /\ intents[i].refunded \in Nat /\ intents[i].captured \in Nat
  BY BookTypes, IntentAmounts
<1>5. /\ ledger'[i].refund \in Nat /\ refunds'[i] \in Nat
      /\ psp'[i].refunded \in Nat /\ psp'[i].captured \in Nat
      /\ intents'[i].refunded \in Nat /\ intents'[i].captured \in Nat
  BY BookTypesNext, IntentAmountsNext
<1> DEFINE Moves(l, m, r, s, x, p, q) ==
             l + (x + p) = r /\ m + q + r = s + l + p => m + (x + q) = s
<1>0. \A l, m, r, s, x, p, q \in Nat : Moves(l, m, r, s, x, p, q)
  OBVIOUS
<1> HIDE DEF Moves
<1>6. ledger'[i].refund + Total(Posting(i), Asked)' = intents'[i].refunded
  <2>1. Moves(ledger[i].refund, ledger'[i].refund, intents[i].refunded, intents'[i].refunded,
              pg, Part(g, Posting(i)), Part(g, Posting(i))')
    BY <1>0, <1>2, <1>3, <1>4, <1>5
  <2> QED
    BY <1>1, <2>1 DEF RefundBalance, Balanced, Moves
<1>7. intents'[i].refunded + Total(Applying(i), Asked)' = refunds'[i]
  <2>1. Moves(intents[i].refunded, intents'[i].refunded, refunds[i], refunds'[i],
              ap, Part(g, Applying(i)), Part(g, Applying(i))')
    BY <1>0, <1>2, <1>3, <1>4, <1>5
  <2> QED
    BY <1>1, <2>1 DEF RefundBalance, Balanced, Moves
<1>8. refunds'[i] + Total(Paying(i), Asked)' = psp'[i].refunded
  <2>1. Moves(refunds[i], refunds'[i], psp[i].refunded, psp'[i].refunded,
              py, Part(g, Paying(i)), Part(g, Paying(i))')
    BY <1>0, <1>2, <1>3, <1>4, <1>5
  <2> QED
    BY <1>1, <2>1 DEF RefundBalance, Balanced, Moves
<1>9. intents'[i].method = "manual" =>
        intents'[i].captured + Total(Capturing(i), Asked)' = psp'[i].captured
  <2>1. Moves(intents[i].captured, intents'[i].captured, psp[i].captured, psp'[i].captured,
              cp, Part(g, Capturing(i)), Part(g, Capturing(i))')
    BY <1>0, <1>2, <1>3, <1>4, <1>5
  <2> QED
    BY <1>1, <2>1 DEF RefundBalance, Balanced, Moves
<1> QED
  BY <1>6, <1>7, <1>8, <1>9 DEF RefundBalance, Balanced
\* A step that moves no amount of i.
LEMMA BalanceAway ==
  ASSUME TypeOK, TypeOK', NEW g \in Handlers, NEW i \in Intents, RefundBalance(i), MethodKept(i),
         \/ /\ pc[g] \notin { "refund_result", "apply_refund", "post_refund", "capture_result" }
            /\ pc'[g] \notin { "refund_result", "apply_refund", "post_refund", "capture_result" }
         \/ target[g] # i /\ target'[g] # i,
         psp'[i] = psp[i], refunds'[i] = refunds[i], ledger'[i].refund = ledger[i].refund,
         intents'[i].refunded = intents[i].refunded, intents'[i].captured = intents[i].captured
  PROVE  Balanced(g, i)
<1>1. /\ Part(g, Applying(i))' = 0 /\ Part(g, Posting(i))' = 0
      /\ Part(g, Paying(i))' = 0 /\ Part(g, Capturing(i))' = 0
      /\ Part(g, Applying(i)) = 0 /\ Part(g, Posting(i)) = 0
      /\ Part(g, Paying(i)) = 0 /\ Part(g, Capturing(i)) = 0
  BY DEF Part, Applying, Posting, Paying, Capturing
<1>2. /\ ledger[i].refund \in Nat /\ refunds[i] \in Nat
      /\ psp[i].refunded \in Nat /\ psp[i].captured \in Nat
      /\ intents[i].refunded \in Nat /\ intents[i].captured \in Nat
  BY BookTypes, IntentAmounts
<1> QED
  BY <1>1, <1>2 DEF Balanced, MethodKept, RefundBalance

LEMMA QuietBalance ==
  ASSUME SharedRecords = TRUE, TypeOK, TypeOK', NEW g \in Handlers, NEW i \in Intents,
         RefundBalance(i), MethodsKept,
         \/ Arrive(g) \/ Lock(g) \/ Lookup(g) \/ Put(g) \/ Announce(g)
         \/ ReadIntent(g) \/ Confirm(g) \/ Assess(g) \/ Authorize(g) \/ SaveOutcome(g)
         \/ Capture(g) \/ SettleCapture(g) \/ Cancel(g) \/ Refund(g) \/ ListChargebacks(g)
         \/ Dispute(g) \/ ReadChargeback(g) \/ Resolve(g) \/ PostLoss(g)
  PROVE  Balanced(g, i)
<1>1. /\ pc'[g] \notin { "refund_result", "apply_refund", "post_refund", "capture_result" }
      /\ UNCHANGED <<psp, refunds>> /\ ledger'[i].refund = ledger[i].refund
  BY QuietBooks
<1>2. pc[g] \notin { "refund_result", "apply_refund", "post_refund", "capture_result", "create", "settle" }
  BY DEF Enter, Arrive, Lock, Lookup, Put, Announce, Announcement, ReadIntent, Confirm, Assess,
         Authorize, SaveOutcome, Capture, SettleCapture, Cancel, Refund, ListChargebacks,
         Dispute, ReadChargeback, Resolve, PostLoss, Deciding
<1>3. ~ Create(g) /\ ~ ApplyRefund(g) /\ ~ CaptureResult(g) /\ ~ Settle(g)
  BY <1>2 DEF Create, ApplyRefund, CaptureResult, Settle
<1>4. intents'[i].refunded = intents[i].refunded /\ intents'[i].captured = intents[i].captured
  BY <1>3, AmountsKept DEF Abort, Step
<1> QED
  BY <1>1, <1>2, <1>4, BalanceAway DEF MethodsKept

\* A stretch that aborts held no amount: its provider had declined, or its money is booked.
LEMMA AbortBalance ==
  ASSUME TypeOK, TypeOK', NEW g \in Handlers, NEW i \in Intents, RefundBalance(i), Abort(g)
  PROVE  Balanced(g, i)
<1>1. UNCHANGED <<intents, refunds, ledger, psp>> /\ pc'[g] = "idle"
  BY DEF Abort, Throw, Release, Goto, store, outer, TypeOK, HandlersOK
<1>2. /\ pc[g] \notin { "refund_result", "apply_refund", "post_refund" }
      /\ pc[g] = "capture_result" => ~ granted[g]
  BY DEF Abort, Refused, Accepted
<1>3. /\ Part(g, Applying(i)) = 0 /\ Part(g, Posting(i)) = 0
      /\ Part(g, Paying(i)) = 0 /\ Part(g, Capturing(i)) = 0
  BY <1>2, Parts
<1>4. /\ Part(g, Applying(i))' = 0 /\ Part(g, Posting(i))' = 0
      /\ Part(g, Paying(i))' = 0 /\ Part(g, Capturing(i))' = 0
  BY <1>1 DEF Part, Applying, Posting, Paying, Capturing
<1>5. /\ ledger[i].refund \in Nat /\ refunds[i] \in Nat
      /\ psp[i].refunded \in Nat /\ psp[i].captured \in Nat
      /\ intents[i].refunded \in Nat /\ intents[i].captured \in Nat
  BY BookTypes, IntentAmounts
<1> QED
  BY <1>1, <1>3, <1>4, <1>5 DEF Balanced, RefundBalance

LEMMA CallBalance ==
  ASSUME TypeOK, TypeOK', BooksOK, NEW g \in Handlers, NEW i \in Intents,
         RefundBalance(i), MethodsKept, CallCapture(g) \/ CallRefund(g)
  PROVE  Balanced(g, i)
<1> USE DEF TypeOK, HandlersOK
<1> DEFINE t == target[g]
           n == req[g].amount
<1>1. /\ pc[g] \in { "call_capture", "call_refund" }
      /\ UNCHANGED <<req, target, intents, refunds, ledger>>
  BY DEF CallCapture, CallRefund, store
<1>2. n \in Nat /\ t \in Intents /\ intents[t].status # "absent"
  <2>1. req[g].amount \in 1..MaxAmount /\ req[g].op \in { "capture", "refund" }
    BY <1>1, ServingFacts
  <2>2. target[g] \in Intents
    BY <1>1 DEF HandlerOK, EarlyPc
  <2>3. intents[t].status # "absent"
    BY <1>1, <2>1 DEF BooksOK, HoldsIntent, EarlyPc
  <2> QED
    BY <2>1, <2>2, <2>3, BoundAssumption
<1>3. /\ \/ UNCHANGED psp /\ ~ granted'[g]
         \/ /\ pc'[g] = "capture_result" /\ granted'[g]
            /\ psp' = [psp EXCEPT ![t].captured = psp[t].captured + n]
         \/ /\ pc'[g] = "refund_result" /\ granted'[g]
            /\ psp' = [psp EXCEPT ![t].refunded = psp[t].refunded + n]
      /\ pc'[g] \in { "capture_result", "refund_result" }
  BY DEF CallCapture, CallRefund, Goto
<1>4. CASE t # i
  <2>1. psp'[i] = psp[i]
    BY <1>2, <1>3, <1>4 DEF WorldOK
  <2> QED
    BY <1>1, <1>4, <2>1, BalanceAway DEF MethodsKept
<1>5. CASE t = i
  <2>1. /\ Part(g, Applying(i)) = 0 /\ Part(g, Posting(i)) = 0
        /\ Part(g, Paying(i)) = 0 /\ Part(g, Capturing(i)) = 0
    BY <1>1, Parts
  <2>2. /\ Part(g, Applying(i))' = 0 /\ Part(g, Posting(i))' = 0
        /\ Part(g, Paying(i))' = IF pc'[g] = "refund_result" /\ granted'[g] THEN n ELSE 0
        /\ Part(g, Capturing(i))' = IF pc'[g] = "capture_result" /\ granted'[g] THEN n ELSE 0
    BY <1>1, <1>3, <1>5, PartsNext
  <2>3. /\ ledger[i].refund \in Nat /\ refunds[i] \in Nat
        /\ psp[i].refunded \in Nat /\ psp[i].captured \in Nat
        /\ intents[i].refunded \in Nat /\ intents[i].captured \in Nat
    BY BookTypes, IntentAmounts
  <2>4. \/ psp'[i] = psp[i] /\ ~ granted'[g]
        \/ /\ pc'[g] = "capture_result" /\ granted'[g]
           /\ psp'[i].captured = psp[i].captured + n /\ psp'[i].refunded = psp[i].refunded
        \/ /\ pc'[g] = "refund_result" /\ granted'[g]
           /\ psp'[i].refunded = psp[i].refunded + n /\ psp'[i].captured = psp[i].captured
    BY <1>2, <1>3, <1>5 DEF WorldOK
  <2> HIDE DEF n
  <2>5. refunds'[i] + Part(g, Paying(i))' + psp[i].refunded
          = psp'[i].refunded + refunds[i] + Part(g, Paying(i))
    BY <1>1, <1>2, <2>1, <2>2, <2>3, <2>4
  <2>6. intents'[i].captured + Part(g, Capturing(i))' + psp[i].captured
          = psp'[i].captured + intents[i].captured + Part(g, Capturing(i))
    BY <1>1, <1>2, <2>1, <2>2, <2>3, <2>4
  <2> QED
    BY <1>1, <1>2, <1>5, <2>1, <2>2, <2>3, <2>5, <2>6 DEF Balanced, MethodsKept, MethodKept
<1> QED
  BY <1>4, <1>5
LEMMA RefundedBalance ==
  ASSUME SharedRecords = TRUE, TypeOK, TypeOK', BooksOK, NEW g \in Handlers, NEW i \in Intents,
         RefundBalance(i), MethodsKept, RefundResult(g) \/ ApplyRefund(g) \/ PostRefund(g)
  PROVE  Balanced(g, i)
<1> USE DEF TypeOK, HandlersOK
<1> DEFINE t == target[g]
           n == req[g].amount
<1>1. /\ pc[g] \in { "refund_result", "apply_refund", "post_refund" }
      /\ UNCHANGED <<req, target, granted, psp>>
  BY DEF RefundResult, ApplyRefund, PostRefund, locals, outer
<1>2. n \in Nat /\ t \in Intents /\ intents[t].status # "absent" /\ View(g) = intents[t]
      /\ intents[t] \in IntentRecord
  <2>1. req[g].amount \in 1..MaxAmount /\ req[g].op = "refund"
    BY <1>1, ServingFacts
  <2>2. target[g] \in Intents
    BY <1>1 DEF HandlerOK, EarlyPc
  <2>3. intents[t].status # "absent"
    BY <1>1, <2>1 DEF BooksOK, HoldsIntent, EarlyPc
  <2> QED
    BY <2>1, <2>2, <2>3, BoundAssumption DEF View, WorldOK
<1>3. \/ /\ pc[g] = "refund_result" /\ pc'[g] = "refund_failed" /\ ~ granted[g]
         /\ UNCHANGED <<refunds, ledger, intents>>
      \/ /\ pc[g] = "refund_result" /\ pc'[g] = "apply_refund" /\ granted[g]
         /\ refunds' = [refunds EXCEPT ![t] = refunds[t] + n] /\ UNCHANGED <<ledger, intents>>
      \/ /\ pc[g] = "apply_refund" /\ pc'[g] = "post_refund" /\ UNCHANGED <<refunds, ledger>>
         /\ intents' = [intents EXCEPT ![t] = [intents[t] EXCEPT !.refunded = intents[t].refunded + n]]
      \/ /\ pc[g] = "post_refund" /\ pc'[g] = "refund_succeeded" /\ UNCHANGED <<refunds, intents>>
         /\ ledger' = [ledger EXCEPT ![t]["refund"] = ledger[t]["refund"] + n]
  BY <1>2 DEF RefundResult, ApplyRefund, PostRefund, Accepted, AppendLedgerEntry, Goto, Save
<1>4. /\ \A j \in Intents : j # t => intents'[j] = intents[j]
      /\ intents'[t].captured = intents[t].captured
      /\ intents'[t].refunded =
           IF pc[g] = "apply_refund" THEN intents[t].refunded + n ELSE intents[t].refunded
  <2>1. CASE UNCHANGED intents /\ pc[g] # "apply_refund"
    BY <1>2, <2>1
  <2>2. CASE /\ pc[g] = "apply_refund"
             /\ intents' = [intents EXCEPT ![t] =
                              [intents[t] EXCEPT !.refunded = intents[t].refunded + n]]
    <3> HIDE DEF n, t
    <3>1. PICK r : /\ r.refunded = intents[t].refunded + n /\ r.captured = intents[t].captured
                   /\ intents' = [intents EXCEPT ![t] = r]
      BY <1>2, <2>2 DEF IntentRecord
    <3> QED
      BY <1>2, <2>2, <3>1 DEF WorldOK
  <2> QED
    BY <1>3, <2>1, <2>2
<1>5. CASE t # i
  <2>1. refunds'[i] = refunds[i] /\ ledger'[i] = ledger[i] /\ intents'[i] = intents[i]
    BY <1>2, <1>3, <1>4, <1>5 DEF WorldOK
  <2> QED
    BY <1>1, <1>5, <2>1, BalanceAway DEF MethodsKept
<1>6. CASE t = i
  <2>1. /\ Part(g, Applying(i)) = IF pc[g] = "apply_refund" THEN n ELSE 0
        /\ Part(g, Posting(i)) = IF pc[g] = "post_refund" THEN n ELSE 0
        /\ Part(g, Paying(i)) = IF pc[g] = "refund_result" /\ granted[g] THEN n ELSE 0
        /\ Part(g, Capturing(i)) = 0
    BY <1>1, <1>6, Parts
  <2>2. /\ Part(g, Applying(i))' = IF pc'[g] = "apply_refund" THEN n ELSE 0
        /\ Part(g, Posting(i))' = IF pc'[g] = "post_refund" THEN n ELSE 0
        /\ Part(g, Paying(i))' = 0
        /\ Part(g, Capturing(i))' = 0
    BY <1>1, <1>3, <1>6, PartsNext
  <2>3. /\ ledger[i].refund \in Nat /\ refunds[i] \in Nat
        /\ psp[i].refunded \in Nat /\ psp[i].captured \in Nat
        /\ intents[i].refunded \in Nat /\ intents[i].captured \in Nat
    BY BookTypes, IntentAmounts
  <2>4. /\ refunds'[i] = IF pc[g] = "refund_result" /\ granted[g] THEN refunds[i] + n ELSE refunds[i]
        /\ ledger'[i].refund = IF pc[g] = "post_refund" THEN ledger[i].refund + n ELSE ledger[i].refund
        /\ intents'[i].captured = intents[i].captured
        /\ intents'[i].refunded =
             IF pc[g] = "apply_refund" THEN intents[i].refunded + n ELSE intents[i].refunded
    BY <1>2, <1>3, <1>4, <1>6 DEF WorldOK, LedgerTotals
  <2> HIDE DEF n
  <2>5. ledger'[i].refund + Part(g, Posting(i))' + intents[i].refunded
          = intents'[i].refunded + ledger[i].refund + Part(g, Posting(i))
    BY <1>1, <1>2, <1>3, <2>1, <2>2, <2>3, <2>4
  <2>6. intents'[i].refunded + Part(g, Applying(i))' + refunds[i]
          = refunds'[i] + intents[i].refunded + Part(g, Applying(i))
    BY <1>1, <1>2, <1>3, <2>1, <2>2, <2>3, <2>4
  <2>7. refunds'[i] + Part(g, Paying(i))' + psp[i].refunded
          = psp'[i].refunded + refunds[i] + Part(g, Paying(i))
    BY <1>1, <1>2, <1>3, <2>1, <2>2, <2>3, <2>4
  <2>8. intents'[i].captured + Part(g, Capturing(i))' + psp[i].captured
          = psp'[i].captured + intents[i].captured + Part(g, Capturing(i))
    BY <1>1, <2>1, <2>2, <2>3, <2>4
  <2> QED
    BY <1>2, <1>6, <2>5, <2>6, <2>7, <2>8 DEF Balanced, MethodsKept, MethodKept
<1> QED
  BY <1>5, <1>6

LEMMA CapturedBalance ==
  ASSUME SharedRecords = TRUE, TypeOK, TypeOK', BooksOK, NEW g \in Handlers, NEW i \in Intents,
         RefundBalance(i), MethodsKept, CaptureResult(g) \/ Settle(g)
  PROVE  Balanced(g, i)
<1> USE DEF TypeOK, HandlersOK
<1> DEFINE t == target[g]
           n == req[g].amount
           v == intents[t]
<1>1. /\ pc[g] \in { "capture_result", "settle" }
      /\ UNCHANGED <<req, target, granted, psp, refunds>>
      /\ pc'[g] \notin { "refund_result", "apply_refund", "post_refund", "capture_result" }
  BY DEF CaptureResult, Settle, Goto, outer
<1>2. /\ t \in Intents /\ v.status # "absent" /\ View(g) = v /\ v \in IntentRecord
  <2>1. AtWork(g) /\ t \in Intents
    BY <1>1, ServingFacts
  <2> QED
    BY <2>1 DEF BooksOK, HoldsIntent, AtWork, View, WorldOK
<1>3. \A j \in Intents : ledger'[j].refund = ledger[j].refund
  <2>1. CASE UNCHANGED ledger
    BY <2>1
  <2>2. CASE ~ UNCHANGED ledger
    <3>1. \E m : ledger' = [ledger EXCEPT ![t]["capture"] = m]
      BY <2>2 DEF CaptureResult, Settle, AppendLedgerEntry
    <3> QED
      BY <3>1 DEF WorldOK, LedgerTotals
  <2> QED
    BY <2>1, <2>2
<1> HIDE DEF v
<1>4. \E r : /\ intents' = [intents EXCEPT ![t] = r] /\ r.refunded = v.refunded
             /\ \/ r.captured = v.captured /\ (pc[g] = "capture_result" => ~ granted[g])
                \/ pc[g] = "settle" /\ v.method = "automatic"
                \/ pc[g] = "capture_result" /\ granted[g] /\ r.captured = v.captured + n
  <2>1. CASE CaptureResult(g)
    <3> HIDE DEF n, t
    <3>1. /\ pc[g] = "capture_result"
          /\ \/ ~ granted[g] /\ intents' = [intents EXCEPT ![t] = [v EXCEPT !.status = "failed"]]
             \/ granted[g] /\ intents' = [intents EXCEPT ![t] = [v EXCEPT !.captured = v.captured + n]]
      BY <1>2, <2>1 DEF CaptureResult, Accepted, Save, Assign, n, t
    <3>2. /\ [v EXCEPT !.status = "failed"].refunded = v.refunded
          /\ [v EXCEPT !.status = "failed"].captured = v.captured
          /\ [v EXCEPT !.captured = v.captured + n].refunded = v.refunded
          /\ [v EXCEPT !.captured = v.captured + n].captured = v.captured + n
      BY <1>2 DEF IntentRecord
    <3> QED
      BY <3>1, <3>2
  <2>2. CASE Settle(g)
    <3>1. /\ pc[g] = "settle"
          /\ \/ v.method = "automatic"
                /\ intents' = [intents EXCEPT ![t] =
                                 [v EXCEPT !.status = "succeeded", !.captured = v.amount]]
             \/ intents' = [intents EXCEPT ![t] = [v EXCEPT !.status = "requires_action"]]
      BY <1>2, <2>2 DEF Settle, Assign
    <3>2. [v EXCEPT !.status = "succeeded", !.captured = v.amount].refunded = v.refunded
      BY <1>2 DEF IntentRecord
    <3>3. /\ [v EXCEPT !.status = "requires_action"].refunded = v.refunded
          /\ [v EXCEPT !.status = "requires_action"].captured = v.captured
      BY <1>2 DEF IntentRecord
    <3> QED
      BY <3>1, <3>2, <3>3
  <2> QED
    BY <2>1, <2>2
<1>5. PICK r : /\ intents' = [intents EXCEPT ![t] = r] /\ r.refunded = v.refunded
               /\ \/ r.captured = v.captured /\ (pc[g] = "capture_result" => ~ granted[g])
                  \/ pc[g] = "settle" /\ v.method = "automatic"
                  \/ pc[g] = "capture_result" /\ granted[g] /\ r.captured = v.captured + n
  BY <1>4
<1>6. CASE t # i
  <2>1. intents'[i] = intents[i]
    BY <1>2, <1>5, <1>6 DEF WorldOK
  <2> QED
    BY <1>1, <1>3, <1>6, <2>1, BalanceAway DEF MethodsKept
<1>7. CASE t = i
  <2>1. /\ Part(g, Applying(i)) = 0 /\ Part(g, Posting(i)) = 0 /\ Part(g, Paying(i)) = 0
        /\ Part(g, Capturing(i)) = IF pc[g] = "capture_result" /\ granted[g] THEN n ELSE 0
    BY <1>1, <1>7, Parts
  <2>2. /\ Part(g, Applying(i))' = 0 /\ Part(g, Posting(i))' = 0
        /\ Part(g, Paying(i))' = 0 /\ Part(g, Capturing(i))' = 0
    BY <1>1, PartsNext
  <2>3. /\ ledger[i].refund \in Nat /\ refunds[i] \in Nat
        /\ psp[i].refunded \in Nat /\ psp[i].captured \in Nat
        /\ intents[i].refunded \in Nat /\ intents[i].captured \in Nat
    BY BookTypes, IntentAmounts
  <2>4. v = intents[i] /\ intents'[i] = r
    BY <1>2, <1>5, <1>7 DEF v, WorldOK
  <2>5. pc[g] = "capture_result" => n \in Nat
    BY ServingFacts, BoundAssumption
  <2>6. /\ intents'[i].method = intents[i].method /\ intents'[i].status # "absent"
    BY <1>2, <1>7, <2>4 DEF MethodsKept, MethodKept
  <2> HIDE DEF n
  <2>7. intents'[i].method = "manual" =>
          intents'[i].captured + Part(g, Capturing(i))' + psp[i].captured
            = psp'[i].captured + intents[i].captured + Part(g, Capturing(i))
    <3>1. CASE r.captured = v.captured /\ (pc[g] = "capture_result" => ~ granted[g])
      <4>1. Part(g, Capturing(i)) = 0 /\ intents'[i].captured = intents[i].captured
        BY <2>1, <2>4, <3>1
      <4> QED
        BY <1>1, <2>2, <2>3, <4>1
    <3>2. CASE pc[g] = "settle" /\ v.method = "automatic"
      BY <2>4, <2>6, <3>2
    <3>3. CASE pc[g] = "capture_result" /\ granted[g] /\ r.captured = v.captured + n
      <4>1. Part(g, Capturing(i)) = n /\ intents'[i].captured = intents[i].captured + n /\ n \in Nat
        BY <2>1, <2>4, <2>5, <3>3
      <4>2. psp'[i].captured = psp[i].captured
        BY <1>1
      <4> QED
        BY <2>2, <2>3, <4>1, <4>2
    <3> QED
      BY <1>5, <3>1, <3>2, <3>3
  <2>8. intents'[i].refunded = intents[i].refunded
    BY <1>5, <2>4
  <2> QED
    BY <1>1, <1>3, <2>1, <2>2, <2>3, <2>6, <2>7, <2>8 DEF Balanced
<1> QED
  BY <1>6, <1>7
LEMMA CreateBalance ==
  ASSUME TypeOK, TypeOK', BooksOK, NEW g \in Handlers, StepOf(g), HoldingsOf(g), Create(g),
         NEW i \in Intents, RefundBalance(i)
  PROVE  RefundBalance(i)'
<1> USE DEF TypeOK, HandlersOK
<1>1. PICK t \in Intents :
        /\ intents[t].status = "absent"
        /\ intents' = [intents EXCEPT ![t] =
             [ BlankIntent EXCEPT !.status = "requires_confirmation",
                                  !.method = req[g].method, !.amount = req[g].amount ]]
        /\ target' = [target EXCEPT ![g] = t]
  BY DEF Create
<1>2. /\ UNCHANGED <<psp, refunds, ledger, req>> /\ pc[g] = "create"
      /\ pc'[g] = "announce_created"
  BY DEF Create, Goto, outer
<1>3. CASE i # t
  <2>1. intents'[i] = intents[i]
    BY <1>1, <1>3 DEF WorldOK
  <2>2. Balanced(g, i)
    BY <1>2, <2>1, BalanceAway DEF MethodKept
  <2> QED
    BY <2>2, BalanceFollows
<1>4. CASE i = t
  <2>1. /\ intents'[i].status # "absent" /\ intents'[i].refunded = 0 /\ intents'[i].captured = 0
    BY <1>1, <1>4 DEF BlankIntent, WorldOK
  <2>2. intents[i].refunded = 0 /\ psp[i].captured = 0
    BY <1>1, <1>4 DEF RefundBalance
  <2>3. \A h \in Handlers : ~ (pc[h] = "capture_result" /\ target[h] = i)
    <3> SUFFICES ASSUME NEW h \in Handlers, pc[h] = "capture_result", target[h] = i PROVE FALSE
      OBVIOUS
    <3>1. AtWork(h)
      BY ServingFacts
    <3> QED
      BY <1>1, <1>4, <3>1 DEF BooksOK, HoldsIntent, AtWork
  <2>4. Capturing(i)' = {}
    BY <1>2, <2>3 DEF Capturing, StepOf
  <2>5. Total(Capturing(i), Asked)' = 0
    BY <2>4, TotalOfNone
  <2>6. /\ Part(g, Applying(i))' = 0 /\ Part(g, Posting(i))' = 0 /\ Part(g, Paying(i))' = 0
        /\ Part(g, Applying(i)) = 0 /\ Part(g, Posting(i)) = 0 /\ Part(g, Paying(i)) = 0
    BY <1>2, Parts, PartsNext
  <2>7. /\ Total(Applying(i), Asked)' = Total(Applying(i), Asked)
        /\ Total(Posting(i), Asked)' = Total(Posting(i), Asked)
        /\ Total(Paying(i), Asked)' = Total(Paying(i), Asked)
    BY <2>6, StagesMove
  <2> QED
    BY <1>2, <2>1, <2>2, <2>5, <2>7 DEF RefundBalance
<1> QED
  BY <1>3, <1>4

LEMMA BalanceStep ==
  ASSUME SharedRecords = TRUE, TypeOK, TypeOK', BooksOK, BalanceOK, [Next]_vars
  PROVE  BalanceOK'
<1>1. CASE UNCHANGED vars
  <2>1. LossesOK'
    BY <1>1 DEF BalanceOK, LossesOK, Knows, vars, store, locals
  <2>2. ASSUME NEW i \in Intents, RefundBalance(i), LossBalance(i)
        PROVE  RefundBalance(i)' /\ LossBalance(i)'
    BY <1>1, <2>2
    DEF RefundBalance, LossBalance, Posting, Applying, Paying, Capturing, Asked, Booking, Lost,
        Posts, Disputed, vars, store, outer, locals
  <2> QED
    BY <1>1, <2>1, <2>2 DEF BalanceOK, vars, bounds
<1>2. ASSUME NEW g \in Handlers, Arrive(g) \/ Step(g) \/ Fail(g) PROVE BalanceOK'
  <2>1. StepOf(g) /\ HoldingsOf(g)
    BY <1>2, StepHasOneMover, StepHasOneHolder
  <2>2. LossesOK /\ LossesOK'
    BY <1>2, <2>1, LossesStep DEF BalanceOK
  <2>3. CASE Fail(g)
    <3>1. faults' # 0
      BY <2>3 DEF Fail, TypeOK, WorldOK
    <3> QED
      BY <2>2, <3>1 DEF BalanceOK
  <2>4. CASE ~ Fail(g)
    <3>1. faults' = faults
      BY <1>2, <2>4
      DEF Enter, Abort, Step, Arrive, Throw, bounds, Lock, Lookup, Put, Announce, Create, ReadIntent, Confirm,
          Assess, Authorize, Settle, SaveOutcome, Capture, CallCapture, CaptureResult,
          SettleCapture, Cancel, Refund, CallRefund, RefundResult, ApplyRefund, PostRefund,
          ListChargebacks, Dispute, ReadChargeback, Resolve, PostLoss
    <3>2. ASSUME faults = 0, NEW i \in Intents PROVE LossBalance(i)'
      BY <1>2, <2>1, <2>2, <2>4, <3>2, LossStep DEF BalanceOK
    <3>3. ASSUME faults = 0, NEW i \in Intents PROVE RefundBalance(i)'
      <4>0. RefundBalance(i)
        BY <3>3 DEF BalanceOK
      <4>1. CASE Create(g)
        BY <2>1, <4>0, <4>1, CreateBalance
      <4>2. CASE ~ Create(g)
        <5>1. MethodsKept
          BY <1>2, <4>2, MethodSteps DEF BooksOK
        <5>2. Balanced(g, i)
          <6>1. CASE CallCapture(g) \/ CallRefund(g)
            BY <4>0, <5>1, <6>1, CallBalance
          <6>2. CASE RefundResult(g) \/ ApplyRefund(g) \/ PostRefund(g)
            BY <4>0, <5>1, <6>2, RefundedBalance
          <6>3. CASE CaptureResult(g) \/ Settle(g)
            BY <4>0, <5>1, <6>3, CapturedBalance
          <6>4. CASE Abort(g)
            BY <4>0, <6>4, AbortBalance
          <6> QED
            BY <1>2, <2>4, <4>0, <4>2, <5>1, <6>1, <6>2, <6>3, <6>4, QuietBalance DEF Step
        <5> QED
          BY <2>1, <4>0, <5>2, BalanceFollows
      <4> QED
        BY <4>1, <4>2
    <3> QED
      BY <2>2, <3>1, <3>2, <3>3 DEF BalanceOK
  <2> QED
    BY <2>3, <2>4
<1> QED
  BY <1>1, <1>2 DEF Next

LEMMA InitBalance == Init => BalanceOK
<1> SUFFICES ASSUME Init PROVE BalanceOK
  OBVIOUS
<1>1. LossesOK
  <2>1. \A c \in Chargebacks : chargebacks[c].amount = 0
    BY DEF Init, NoChargebacks, BlankChargeback
  <2> QED
    BY <2>1, BoundAssumption DEF Init, LossesOK, Knows, EarlyPc
<1>2. ASSUME NEW i \in Intents PROVE RefundBalance(i) /\ LossBalance(i)
  <2>1. /\ Applying(i) = {} /\ Posting(i) = {} /\ Paying(i) = {} /\ Capturing(i) = {}
    BY DEF Init, Applying, Posting, Paying, Capturing
  <2>2. Lost(i) = {}
    BY DEF Init, Lost, NoChargebacks, BlankChargeback
  <2>3. Booking(i) = {}
    BY <2>2 DEF Booking
  <2>4. /\ Total(Applying(i), Asked) = 0 /\ Total(Posting(i), Asked) = 0
        /\ Total(Paying(i), Asked) = 0 /\ Total(Capturing(i), Asked) = 0
        /\ Total(Lost(i), Disputed) = 0 /\ Total(Booking(i), Disputed) = 0
    BY <2>1, <2>2, <2>3, TotalOfNone
  <2>5. /\ ledger[i].refund = 0 /\ ledger[i].chargeback = 0 /\ refunds[i] = 0
        /\ psp[i].refunded = 0 /\ psp[i].captured = 0
        /\ intents[i].refunded = 0 /\ intents[i].captured = 0
    BY DEF Init, EmptyLedger, BlankIntent
  <2> QED
    BY <2>4, <2>5 DEF RefundBalance, LossBalance
<1> QED
  BY <1>1, <1>2 DEF BalanceOK

LEMMA BalanceHolds == SharedRecords = TRUE => (Spec => []BalanceOK)
<1> SUFFICES ASSUME SharedRecords = TRUE PROVE Spec => []BalanceOK
  OBVIOUS
<1>1. TypeOK /\ TypeOK' /\ BooksOK /\ BalanceOK /\ [Next]_vars => BalanceOK'
  BY BalanceStep
<1> QED
  BY <1>1, InitBalance, TypeCorrect, BooksHold, PTL DEF Spec

\* Over the in-memory repository, once nobody works on an intent and no call
\* failed, its ledger totals are its amounts, its refund records and its lost
\* chargebacks, and the provider moved just that money.
THEOREM BooksAgreeAtRest == SharedRecords = TRUE => (Spec => []BooksBalance)
<1> SUFFICES ASSUME SharedRecords = TRUE PROVE Spec => []BooksBalance
  OBVIOUS
<1>1. TypeOK /\ MoneyOK /\ BalanceOK => BooksBalance
  <2> SUFFICES ASSUME TypeOK, MoneyOK, BalanceOK, NEW i \in Intents, AtRest(i), faults = 0
               PROVE  /\ ledger[i] = [ authorization |-> intents[i].authorized,
                                       capture |-> intents[i].captured,
                                       refund |-> intents[i].refunded,
                                       chargeback |-> LostAmount(i) ]
                      /\ refunds[i] = intents[i].refunded
                      /\ psp[i].refunded = intents[i].refunded
                      /\ intents[i].method = "manual" => psp[i].captured = intents[i].captured
    BY DEF BooksBalance
  <2>1. \A h \in Handlers : target[h] # i
    BY DEF AtRest
  <2>2. Applying(i) = {} /\ Posting(i) = {} /\ Paying(i) = {} /\ Capturing(i) = {}
    BY <2>1 DEF Applying, Posting, Paying, Capturing
  <2>3. Booking(i) = {}
    <3> SUFFICES ASSUME NEW c \in Lost(i), NEW h \in Handlers, Posts(h, c) PROVE FALSE
      BY DEF Booking
    <3>1. pc[h] = "post_loss" /\ req[h].chargeback = c
      BY DEF Posts
    <3>2. req[h].op = "resolve"
      BY <3>1 DEF TypeOK, HandlersOK, HandlerOK, Serves
    <3>3. chargebacks[c].intent = target[h]
      BY <3>1, <3>2 DEF BalanceOK, LossesOK, Knows, EarlyPc
    <3> QED
      BY <2>1, <3>3 DEF Lost
  <2>4. /\ Total(Applying(i), Asked) = 0 /\ Total(Posting(i), Asked) = 0
        /\ Total(Paying(i), Asked) = 0 /\ Total(Capturing(i), Asked) = 0
        /\ Total(Booking(i), Disputed) = 0
    BY <2>2, <2>3, TotalOfNone
  <2>5. /\ ledger[i].refund \in Nat /\ ledger[i].chargeback \in Nat
        /\ refunds[i] \in Nat /\ psp[i].refunded \in Nat /\ psp[i].captured \in Nat
        /\ intents[i].refunded \in Nat /\ intents[i].captured \in Nat
    BY BookTypes, IntentAmounts
  <2>6. RefundBalance(i) /\ LossBalance(i)
    BY DEF BalanceOK
  <2>7. /\ ledger[i].refund = intents[i].refunded
        /\ refunds[i] = intents[i].refunded
        /\ psp[i].refunded = intents[i].refunded
        /\ intents[i].method = "manual" => psp[i].captured = intents[i].captured
        /\ ledger[i].chargeback = Total(Lost(i), Disputed)
    BY <2>4, <2>5, <2>6 DEF RefundBalance, LossBalance
  <2>8. LostAmount(i) = Total(Lost(i), Disputed)
    <3>1. IsFiniteSet(Lost(i)) /\ \A c \in Lost(i) : chargebacks[c].amount \in 0..MaxAmount
      BY FiniteAssumption, FS_Subset DEF BalanceOK, LossesOK, Lost
    <3>2. MapThenSumSet(LAMBDA c : chargebacks[c].amount, Lost(i))
            = Total(Lost(i), [ c \in Lost(i) |-> chargebacks[c].amount ])
      BY <3>1, SumIsTotal
    <3>3. Total(Lost(i), [ c \in Lost(i) |-> chargebacks[c].amount ]) = Total(Lost(i), Disputed)
      BY TotalSame DEF Disputed, Lost
    <3> QED
      BY <3>2, <3>3 DEF LostAmount, Lost
  <2>9. ledger[i].authorization = intents[i].authorized /\ ledger[i].capture = intents[i].captured
    BY DEF MoneyOK, AccountOK
  <2>10. ledger[i] \in LedgerTotals
    BY DEF TypeOK, WorldOK
  <2>11. ledger[i] = [ authorization |-> intents[i].authorized, capture |-> intents[i].captured,
                       refund |-> intents[i].refunded, chargeback |-> LostAmount(i) ]
    BY <2>7, <2>8, <2>9, <2>10 DEF LedgerTotals
  <2> QED
    BY <2>7, <2>11
<1> QED
  BY <1>1, MoneyHolds, BalanceHolds, TypeCorrect, PTL
-----------------------------------------------------------------------------
(* The PostgreSQL repository: rows and the copies handlers make of them *)

RowOK(r) == r.refunded <= r.captured /\ r.captured <= r.authorized /\ r.authorized <= r.amount

Section == { "confirm_processing", "assess", "authorize", "settle", "capture_processing",
             "call_capture", "capture_result", "settle_capture" }

Collecting == { "capture_processing", "call_capture", "capture_result" }

Returning == { "call_refund", "refund_result", "apply_refund" }

\* What a handler parked at p knows of its own copy r, whatever the row holds by now:
\* what it checked before its awaits, for request q.
Fits(p, q, r) ==
  /\ p \in Section => r.status = "processing"
  /\ p = "settle" => r.authorized = r.amount
  /\ p \in Collecting => q.amount + r.captured <= r.authorized
  /\ p \in Returning => q.amount + r.refunded <= r.captured

RowsOK ==
  /\ \A i \in Intents : RowOK(intents[i])
  /\ \A h \in Handlers : RowOK(copy[h]) /\ Fits(pc[h], req[h], copy[h])

\* A step of g leaves the other handlers their copies.
LEMMA RowsFollow ==
  ASSUME TypeOK, RowsOK, NEW g \in Handlers, StepOf(g), HoldingsOf(g),
         \A i \in Intents : RowOK(intents'[i]),
         RowOK(copy'[g]), Fits(pc'[g], req'[g], copy'[g])
  PROVE  RowsOK'
<1>1. ASSUME NEW h \in Handlers PROVE RowOK(copy'[h]) /\ Fits(pc'[h], req'[h], copy'[h])
  <2>1. CASE h = g
    BY <2>1
  <2>2. CASE h # g
    BY <2>2 DEF StepOf, HoldingsOf, RowsOK
  <2> QED
    BY <2>1, <2>2
<1> QED
  BY <1>1 DEF RowsOK, RowOK, Fits

\* The handler saves, or only assigns, record r, and goes on with it in hand.
LEMMA RowWritten ==
  ASSUME SharedRecords = FALSE, TypeOK, RowsOK, NEW g \in Handlers, StepOf(g), HoldingsOf(g),
         NEW r, RowOK(r), Save(g, r) \/ Assign(g, r), Fits(pc'[g], req'[g], r)
  PROVE  RowsOK'
<1>1. copy'[g] = r
  BY DEF Save, Assign, TypeOK, HandlersOK
<1>2. \A i \in Intents : RowOK(intents'[i])
  BY DEF Save, Assign, TypeOK, WorldOK, RowsOK
<1> QED
  BY <1>1, <1>2, RowsFollow

\* The steps that write no intent, and the creation of one.
LEMMA ReadingRows ==
  ASSUME SharedRecords = FALSE, TypeOK, RowsOK, NEW g \in Handlers, StepOf(g), HoldingsOf(g),
         \/ Arrive(g) \/ Fail(g) \/ Throw(g) \/ Lock(g) \/ Lookup(g) \/ Put(g) \/ Announce(g)
         \/ Create(g) \/ ReadIntent(g) \/ CallCapture(g) \/ Refund(g) \/ CallRefund(g)
         \/ RefundResult(g) \/ PostRefund(g) \/ ListChargebacks(g) \/ Dispute(g)
         \/ ReadChargeback(g) \/ Resolve(g) \/ PostLoss(g)
  PROVE  RowsOK'
<1> USE DEF TypeOK, HandlersOK
<1>1. RowOK(BlankIntent)
  BY DEF RowOK, BlankIntent
<1>2. ASSUME UNCHANGED intents, RowOK(copy'[g]), pc'[g] \notin Section \cup Returning
      PROVE  RowsOK'
  BY <1>2, RowsFollow DEF Fits, Section, Collecting, Returning, RowsOK
<1>3. CASE Arrive(g) \/ Fail(g) \/ Throw(g) \/ Put(g) \/ Lock(g) \/ Lookup(g)
  BY <1>1, <1>2, <1>3
  DEF Arrive, Fail, Throw, Put, Lock, Lookup, Release, Goto, store, locals, RowsOK, Section, Returning
<1>4. CASE ReadIntent(g) /\ ~ Throw(g)
  <2>1. copy'[g] = intents[req[g].intent] /\ req[g].intent \in Intents
    BY <1>4 DEF ReadIntent, HandlerOK, Serves, Request
  <2> QED
    BY <1>2, <1>4, <2>1 DEF ReadIntent, Goto, store, RowsOK, Section, Returning
<1>5. CASE \/ PostRefund(g) \/ ListChargebacks(g) \/ Dispute(g) \/ ReadChargeback(g)
           \/ Resolve(g) \/ PostLoss(g)
  BY <1>2, <1>3, <1>5
  DEF PostRefund, ListChargebacks, Dispute, ReadChargeback, Resolve, PostLoss, Goto, store, locals,
      RowsOK, Section, Returning
<1>6. CASE Create(g)
  <2>1. /\ copy' = copy /\ pc'[g] = "announce_created"
        /\ \E i \in Intents : intents' = [intents EXCEPT ![i] =
             [ BlankIntent EXCEPT !.status = "requires_confirmation",
                                  !.method = req[g].method, !.amount = req[g].amount ]]
    BY <1>6 DEF Create, Goto
  <2>2. req[g].amount \in Nat
    BY <1>6, RequestAmount DEF Create, HandlerOK, Serves
  <2>3. RowOK([ BlankIntent EXCEPT !.status = "requires_confirmation",
                                   !.method = req[g].method, !.amount = req[g].amount ])
    BY <2>2 DEF RowOK, BlankIntent
  <2>4. \A i \in Intents : RowOK(intents'[i])
    BY <2>1, <2>3 DEF RowsOK, WorldOK
  <2> QED
    BY <2>1, <2>4, RowsFollow DEF RowsOK, Fits, Section, Collecting, Returning
<1>7. CASE Announce(g)
  <2>1. pc[g] \in DOMAIN Announcement /\ pc'[g] = Announcement[pc[g]].then
        /\ UNCHANGED <<intents, copy, req>>
    BY <1>7 DEF Announce, Goto, store, locals
  <2>2. Fits(pc'[g], req[g], copy[g])
    BY <2>1 DEF Announcement, RowsOK, Fits, Section, Collecting, Returning
  <2> QED
    BY <2>1, <2>2, RowsFollow DEF RowsOK
<1>8. CASE CallCapture(g) \/ CallRefund(g) \/ RefundResult(g)
  <2>1. /\ UNCHANGED <<intents, copy, req>>
        /\ \/ pc[g] = "call_capture" /\ pc'[g] = "capture_result"
           \/ pc[g] = "call_refund" /\ pc'[g] = "refund_result"
           \/ pc[g] = "refund_result" /\ pc'[g] \in { "refund_failed", "apply_refund" }
    BY <1>8 DEF CallCapture, CallRefund, RefundResult, Goto, store, locals
  <2>2. Fits(pc'[g], req[g], copy[g])
    BY <2>1 DEF RowsOK, Fits, Section, Collecting, Returning
  <2> QED
    BY <2>1, <2>2, RowsFollow DEF RowsOK
<1>9. CASE Refund(g) /\ ~ Throw(g)
  <2>1. UNCHANGED <<intents, copy, req>> /\ pc'[g] = "call_refund" /\ Refundable(copy[g], req[g].amount)
    BY <1>9 DEF Refund, Goto, View, store, locals
  <2>2. Fits(pc'[g], req[g], copy[g])
    BY <2>1 DEF Refundable, Fits, Section, Collecting, Returning
  <2> QED
    BY <2>1, <2>2, RowsFollow DEF RowsOK
<1> QED
  BY <1>3, <1>4, <1>5, <1>6, <1>7, <1>8, <1>9

\* The steps that write the copy in hand.
LEMMA WritingRows ==
  ASSUME SharedRecords = FALSE, TypeOK, RowsOK, NEW g \in Handlers, StepOf(g), HoldingsOf(g),
         \/ Confirm(g) \/ Assess(g) \/ Authorize(g) \/ Settle(g) \/ SaveOutcome(g)
         \/ Capture(g) \/ CaptureResult(g) \/ SettleCapture(g) \/ Cancel(g) \/ ApplyRefund(g)
  PROVE  RowsOK'
<1> DEFINE v == copy[g]
<1>1. v \in IntentRecord /\ RowOK(v) /\ Fits(pc[g], req[g], v) /\ View(g) = v
  BY DEF TypeOK, HandlersOK, RowsOK, View
<1>2. v.amount \in Nat /\ v.authorized \in Nat /\ v.captured \in Nat /\ v.refunded \in Nat
  BY <1>1 DEF IntentRecord
<1>3. ASSUME NEW s
      PROVE  RowOK([v EXCEPT !.status = s]) /\ [v EXCEPT !.status = s].status = s
             /\ [v EXCEPT !.status = s].captured = v.captured
             /\ [v EXCEPT !.status = s].authorized = v.authorized
  BY <1>1 DEF RowOK, IntentRecord
<1>4. CASE Throw(g)
  BY <1>4, ReadingRows
<1>5. ASSUME pc'[g] \notin Section \cup Returning, NEW r, RowOK(r), Save(g, r) \/ Assign(g, r)
      PROVE  RowsOK'
  <2>1. Fits(pc'[g], req'[g], r)
    BY <1>5 DEF Fits, Section, Collecting, Returning
  <2> QED
    BY <1>5, <2>1, RowWritten
<1>6. ASSUME UNCHANGED <<intents, copy>>, pc'[g] \notin Section \cup Returning PROVE RowsOK'
  BY <1>6, RowsFollow DEF RowsOK, Fits, Section, Collecting, Returning
<1> HIDE DEF v
<1>7. CASE Confirm(g) \/ Capture(g)
  <2>1. \/ UNCHANGED <<intents, copy>> /\ pc'[g] = "put"
        \/ Throw(g)
        \/ /\ Save(g, [v EXCEPT !.status = "processing"]) /\ req' = req
           /\ \/ pc'[g] = "confirm_processing"
              \/ pc'[g] = "capture_processing" /\ Capturable(v, req[g].amount)
    BY <1>1, <1>7 DEF Enter, Confirm, Capture, Goto, TypeOK, HandlersOK
  <2>2. CASE /\ Save(g, [v EXCEPT !.status = "processing"]) /\ req' = req
             /\ \/ pc'[g] = "confirm_processing"
                \/ pc'[g] = "capture_processing" /\ Capturable(v, req[g].amount)
    <3>1. Fits(pc'[g], req'[g], [v EXCEPT !.status = "processing"])
      BY <1>3, <2>2 DEF Fits, Capturable, Section, Collecting, Returning
    <3> QED
      BY <1>3, <2>2, <3>1, RowWritten
  <2> QED
    BY <1>4, <1>6, <2>1, <2>2 DEF Section, Returning
<1>8. CASE Assess(g) \/ SettleCapture(g) \/ Cancel(g) \/ SaveOutcome(g)
  <2>1. \/ UNCHANGED <<intents, copy, req>> /\ pc[g] = "assess" /\ pc'[g] = "authorize"
        \/ UNCHANGED <<intents, copy>> /\ pc'[g] = "put"
        \/ Throw(g)
        \/ Save(g, v) /\ pc'[g] = "put"
        \/ /\ pc'[g] \notin Section \cup Returning
           /\ \E s : Save(g, [v EXCEPT !.status = s]) \/ Assign(g, [v EXCEPT !.status = s])
    BY <1>1, <1>8
    DEF Assess, SettleCapture, Cancel, SaveOutcome, Goto, store, TypeOK, HandlersOK, Section, Returning
  <2>2. CASE UNCHANGED <<intents, copy, req>> /\ pc[g] = "assess" /\ pc'[g] = "authorize"
    <3>1. Fits(pc'[g], req[g], copy[g])
      BY <1>1, <2>2 DEF v, Fits, Section, Collecting, Returning
    <3> QED
      BY <2>2, <3>1, RowsFollow DEF RowsOK
  <2> QED
    BY <1>1, <1>3, <1>4, <1>5, <1>6, <2>1, <2>2 DEF Section, Returning
<1>9. CASE Authorize(g)
  <2> DEFINE routed == [v EXCEPT !.routed = TRUE]
             kept   == [routed EXCEPT !.authorized = routed.amount]
             failed == [routed EXCEPT !.status = "failed"]
  <2>1. /\ RowOK(routed) /\ RowOK(kept) /\ RowOK(failed)
        /\ routed.status = v.status /\ kept.status = v.status /\ kept.authorized = kept.amount
    BY <1>1, <1>2 DEF RowOK, IntentRecord
  <2>2. /\ pc[g] = "authorize" /\ req' = req
        /\ \/ Assign(g, kept) /\ pc'[g] = "settle"
           \/ Save(g, failed) /\ pc'[g] = "announce_failed"
           \/ Assign(g, routed) /\ pc'[g] = "authorize"
    BY <1>1, <1>9 DEF Authorize, Goto, TypeOK, HandlersOK
  <2>3. v.status = "processing"
    BY <1>1, <2>2 DEF Fits, Section
  <2> HIDE DEF routed, kept, failed
  <2>4. CASE Assign(g, kept) /\ pc'[g] = "settle"
    <3>1. Fits(pc'[g], req'[g], kept)
      BY <2>1, <2>3, <2>4 DEF Fits, Section, Collecting, Returning
    <3> QED
      BY <2>1, <2>4, <3>1, RowWritten
  <2>5. CASE Assign(g, routed) /\ pc'[g] = "authorize"
    <3>1. Fits(pc'[g], req'[g], routed)
      BY <2>1, <2>3, <2>5 DEF Fits, Section, Collecting, Returning
    <3> QED
      BY <2>1, <2>5, <3>1, RowWritten
  <2> QED
    BY <1>5, <2>1, <2>2, <2>4, <2>5 DEF Section, Returning
<1>10. CASE Settle(g)
  <2> DEFINE done == [v EXCEPT !.status = "succeeded", !.captured = v.amount]
  <2>1. pc[g] = "settle" /\ v.authorized = v.amount
    BY <1>1, <1>10 DEF Settle, Fits
  <2>2. RowOK(done)
    BY <1>1, <1>2, <2>1 DEF RowOK, IntentRecord
  <2>3. /\ pc'[g] \notin Section \cup Returning
        /\ Assign(g, done) \/ Assign(g, [v EXCEPT !.status = "requires_action"])
    BY <1>1, <1>10 DEF Settle, Goto, TypeOK, HandlersOK, Section, Returning
  <2> HIDE DEF done
  <2> QED
    BY <1>3, <1>5, <2>2, <2>3
<1>11. CASE CaptureResult(g)
  <2> DEFINE more == [v EXCEPT !.captured = v.captured + req[g].amount]
  <2>1. pc[g] = "capture_result" /\ req' = req
    BY <1>11 DEF CaptureResult
  <2>2. req[g].amount \in Nat
    BY <2>1, ServingFacts, BoundAssumption
  <2>3. RowOK(more) /\ more.status = "processing"
    BY <1>1, <1>2, <2>1, <2>2 DEF RowOK, IntentRecord, Fits, Section, Collecting
  <2>4. \/ Save(g, [v EXCEPT !.status = "failed"]) /\ pc'[g] = "announce_failed"
        \/ Assign(g, more) /\ pc'[g] = "settle_capture"
    BY <1>1, <1>11 DEF CaptureResult, Goto, TypeOK, HandlersOK
  <2> HIDE DEF more
  <2>5. CASE Assign(g, more) /\ pc'[g] = "settle_capture"
    <3>1. Fits(pc'[g], req'[g], more)
      BY <2>3, <2>5 DEF Fits, Section, Collecting, Returning
    <3> QED
      BY <2>3, <2>5, <3>1, RowWritten
  <2> QED
    BY <1>3, <1>5, <2>4, <2>5 DEF Section, Returning
<1>12. CASE ApplyRefund(g)
  <2> DEFINE less == [v EXCEPT !.refunded = v.refunded + req[g].amount]
  <2>1. pc[g] = "apply_refund"
    BY <1>12 DEF ApplyRefund
  <2>2. req[g].amount \in Nat
    BY <2>1, ServingFacts, BoundAssumption
  <2>3. RowOK(less)
    BY <1>1, <1>2, <2>1, <2>2 DEF RowOK, IntentRecord, Fits, Returning
  <2>4. Save(g, less) /\ pc'[g] = "post_refund"
    BY <1>1, <1>12 DEF ApplyRefund, Goto, TypeOK, HandlersOK
  <2> HIDE DEF less
  <2> QED
    BY <1>5, <2>3, <2>4 DEF Section, Returning
<1> QED
  BY <1>7, <1>8, <1>9, <1>10, <1>11, <1>12

LEMMA RowsStep ==
  ASSUME SharedRecords = FALSE, TypeOK, RowsOK, [Next]_vars
  PROVE  RowsOK'
<1>1. CASE UNCHANGED vars
  BY <1>1 DEF vars, store, locals, RowsOK, RowOK, Fits
<1>2. ASSUME NEW g \in Handlers, Arrive(g) \/ Step(g) \/ Fail(g) PROVE RowsOK'
  <2>1. StepOf(g) /\ HoldingsOf(g)
    BY <1>2, StepHasOneMover, StepHasOneHolder
  <2> QED
    BY <1>2, <2>1, ReadingRows, WritingRows DEF Abort, Step
<1> QED
  BY <1>1, <1>2 DEF Next

LEMMA RowsHold == SharedRecords = FALSE => (Spec => []RowsOK)
<1> SUFFICES ASSUME SharedRecords = FALSE PROVE Spec => []RowsOK
  OBVIOUS
<1>1. Init => RowsOK
  BY DEF Init, RowsOK, RowOK, Fits, BlankIntent, Section, Collecting, Returning
<1>2. TypeOK /\ RowsOK /\ [Next]_vars => RowsOK'
  BY RowsStep
<1> QED
  BY <1>1, <1>2, TypeCorrect, PTL DEF Spec

\* Over the PostgreSQL repository, whatever requests race, calls fail and saves undo one
\* another: no stored row shows more refunded than captured, captured than authorized, or
\* authorized than the payment's amount.
THEOREM RowsStayInOrder == SharedRecords = FALSE => (Spec => []RowsInOrder)
<1> SUFFICES ASSUME SharedRecords = FALSE PROVE Spec => []RowsInOrder
  OBVIOUS
<1>1. RowsOK => RowsInOrder
  BY DEF RowsOK, RowOK, RowsInOrder
<1> QED
  BY <1>1, RowsHold, PTL

\* Over either repository, assertTransition never throws once a payment is being processed: in
\* memory because nobody else moves it, over PostgreSQL because the copy is the handler's own.
THEOREM NothingRefused == Spec => []TransitionsAccepted
<1>1. ASSUME \A h \in Handlers : InSection(h) => View(h).status = "processing"
      PROVE  TransitionsAccepted
  <2> SUFFICES ASSUME NEW h \in Handlers, Refused(h) PROVE FALSE
    BY DEF TransitionsAccepted
  <2>1. View(h).status = "processing" /\ ~ CanTransition(View(h).status, Pending(h))
    BY <1>1 DEF Refused, Allowed, InSection
  <2>2. Pending(h) \in { "requires_action", "succeeded", "failed" }
    BY DEF Pending
  <2> QED
    BY <2>1, <2>2 DEF CanTransition, ALLOWED_TRANSITIONS
<1>2. CASE SharedRecords = TRUE
  <2>1. ProcessingIsExclusive => TransitionsAccepted
    BY <1>1, <1>2 DEF ProcessingIsExclusive, View
  <2>2. Spec => []ProcessingIsExclusive
    BY <1>2, Exclusion
  <2> QED
    BY <2>1, <2>2, PTL
<1>3. CASE SharedRecords = FALSE
  <2>1. RowsOK => TransitionsAccepted
    BY <1>1, <1>3 DEF RowsOK, Fits, Section, InSection, View
  <2>2. Spec => []RowsOK
    BY <1>3, RowsHold
  <2> QED
    BY <2>1, <2>2, PTL
<1> QED
  BY <1>2, <1>3, SharedRecordsAssumption
=============================================================================
