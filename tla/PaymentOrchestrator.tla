------------------------- MODULE PaymentOrchestrator -------------------------
(***************************************************************************)
(* The request handlers of PaymentOrchestrator                             *)
(* (application/payment-orchestrator.ts) running concurrently over the     *)
(* repositories, the idempotency store, the event bus and the providers.   *)
(*                                                                         *)
(* A handler is an async function: it runs without interruption from one   *)
(* await to the next, and every other handler may run at an await.  Each   *)
(* action below is one such stretch, together with the effect of the call  *)
(* it ends with; pc names the await a handler is parked at.                *)
(*                                                                         *)
(* The two repositories differ in what a read returns.  The in-memory one  *)
(* hands out the stored object, so an assignment is visible to everybody   *)
(* at once (SharedRecords = TRUE).  The PostgreSQL one hands out a copy of *)
(* the row, and a save overwrites the whole row (SharedRecords = FALSE).   *)
(***************************************************************************)
EXTENDS PaymentDomain, FiniteSets, FiniteSetsExt

CONSTANTS
  Handlers,        \* concurrent requests the server can be working on
  Keys,            \* idempotency keys clients send
  Chargebacks,     \* identifiers a chargeback may be given
  Operations,      \* the operations clients call
  SharedRecords,   \* does the repository hand out the stored object?
  MaxAmount,       \* bound: amounts clients send
  MaxCandidates,   \* bound: providers the router lists for a payment
  MaxRequests,     \* bound: requests that arrive
  MaxFaults        \* bound: calls that reject, or crashes of a handler

ASSUME FiniteAssumption ==
  IsFiniteSet(Handlers) /\ IsFiniteSet(Chargebacks)
ASSUME BoundAssumption ==
  MaxAmount \in Nat /\ MaxCandidates \in Nat /\ MaxRequests \in Nat /\ MaxFaults \in Nat
ASSUME SharedRecordsAssumption == SharedRecords \in BOOLEAN

-----------------------------------------------------------------------------
(* Requests *)

\* What a client sends.  The fingerprint of a request is everything but its key.
Request ==
       [ op : {"create"}, amount : 1..MaxAmount, method : CaptureMethod, key : Keys ]
  \cup [ op : {"confirm", "cancel"}, intent : Intents, key : Keys ]
  \cup [ op : {"capture", "refund", "dispute"}, intent : Intents,
         amount : 1..MaxAmount, key : Keys ]
  \cup [ op : {"resolve"}, chargeback : Chargebacks, status : Resolutions, key : Keys ]

NoRequest == [ op |-> "none" ]

\* The idempotency scope: one per intent or chargeback for the operations that
\* name it in their path, one for everybody for the others.
Scope(q) ==
  CASE q.op \in { "confirm", "capture", "cancel" } -> <<q.op, q.intent>>
    [] q.op = "resolve"                            -> <<q.op, q.chargeback>>
    [] OTHER                                       -> <<q.op>>

SameSlot(q, r) == Scope(q) = Scope(r) /\ q.key = r.key

-----------------------------------------------------------------------------
(* State *)

VARIABLES
  intents,      \* repository: payment intents
  chargebacks,  \* repository: chargebacks
  refunds,      \* repository: per intent, the total of its succeeded refunds
  ledger,       \* repository: per intent, the total of each entry type
  records,      \* idempotency store: the requests whose result is stored
  published,    \* event bus: <<type, intent>> of every event published
  psp,          \* providers: per intent, money captured and refunded there
  refundCalls,  \* providers: per idempotency key, refunds made for it
  pc,           \* handler: the await it is parked at
  req,          \* handler: the request it serves
  target,       \* handler: the intent it works on, once known
  copy,         \* handler: its copy of that intent (unused when shared)
  snap,         \* handler: the chargebacks it read
  left,         \* handler: candidate providers not tried yet
  granted,      \* handler: did the provider accept?
  arrived,      \* bound: requests that arrived so far
  faults        \* bound: faults so far

store  == <<intents, chargebacks, refunds, ledger>>
outer  == <<psp, refundCalls>>
locals == <<req, target, copy, snap, left, granted>>
bounds == <<arrived, faults>>
vars   == <<store, records, published, outer, pc, locals, bounds>>

NoChargebacks == [ c \in Chargebacks |-> BlankChargeback ]

\* The awaits at which a handler publishes: the event, and where it goes on.
Announcement ==
  [ announce_created   |-> [ event |-> "payment_intent.created",         then |-> "put" ],
    confirm_processing |-> [ event |-> "payment_intent.processing",      then |-> "assess" ],
    capture_processing |-> [ event |-> "payment_intent.processing",      then |-> "call_capture" ],
    announce_failed    |-> [ event |-> "payment_intent.failed",          then |-> "put" ],
    announce_review    |-> [ event |-> "payment_intent.requires_action", then |-> "put" ],
    announce_manual    |-> [ event |-> "payment_intent.requires_action", then |-> "save" ],
    announce_succeeded |-> [ event |-> "payment_intent.succeeded",       then |-> "save" ],
    announce_canceled  |-> [ event |-> "payment_intent.canceled",        then |-> "put" ],
    refund_succeeded   |-> [ event |-> "refund.succeeded",               then |-> "put" ],
    refund_failed      |-> [ event |-> "refund.failed",                  then |-> "put" ],
    chargeback_opened  |-> [ event |-> "chargeback.opened",              then |-> "put" ],
    chargeback_lost    |-> [ event |-> "chargeback.lost",                then |-> "put" ],
    chargeback_won     |-> [ event |-> "chargeback.won",                 then |-> "put" ] ]

EventType == { Announcement[p].event : p \in DOMAIN Announcement }

\* Awaits before the handler knows its intent, and after.
EarlyPc == { "idle", "lock", "lookup", "read", "create" }
LatePc ==
       { "decide", "assess", "authorize", "settle", "save", "call_capture",
         "capture_result", "settle_capture", "call_refund", "refund_result",
         "apply_refund", "post_refund", "list", "dispute", "post_loss", "put" }
  \cup DOMAIN Announcement

Init ==
  /\ intents     = [ i \in Intents |-> BlankIntent ]
  /\ chargebacks = NoChargebacks
  /\ refunds     = [ i \in Intents |-> 0 ]
  /\ ledger      = [ i \in Intents |-> EmptyLedger ]
  /\ records     = {}
  /\ published   = {}
  /\ psp         = [ i \in Intents |-> [ captured |-> 0, refunded |-> 0 ] ]
  /\ refundCalls = [ k \in Keys |-> 0 ]
  /\ pc          = [ h \in Handlers |-> "idle" ]
  /\ req         = [ h \in Handlers |-> NoRequest ]
  /\ target      = [ h \in Handlers |-> NoIntent ]
  /\ copy        = [ h \in Handlers |-> BlankIntent ]
  /\ snap        = [ h \in Handlers |-> NoChargebacks ]
  /\ left        = [ h \in Handlers |-> 0 ]
  /\ granted     = [ h \in Handlers |-> FALSE ]
  /\ arrived     = 0
  /\ faults      = 0

-----------------------------------------------------------------------------
(* What a handler sees, assigns and saves *)

View(h) == IF SharedRecords THEN intents[target[h]] ELSE copy[h]

ViewChargeback(h, c) == IF SharedRecords THEN chargebacks[c] ELSE snap[h][c]

\* assertTransition, which the code calls before it assigns a status.
Allowed(h, next) == CanTransition(View(h).status, next)

\* Assign to the record in hand without saving it.
Assign(h, record) ==
  IF SharedRecords
    THEN intents' = [intents EXCEPT ![target[h]] = record] /\ UNCHANGED copy
    ELSE copy' = [copy EXCEPT ![h] = record] /\ UNCHANGED intents

\* Assign and save: the whole row is written, whatever it holds by now.
Save(h, record) ==
  /\ intents' = [intents EXCEPT ![target[h]] = record]
  /\ copy' = IF SharedRecords THEN copy ELSE [copy EXCEPT ![h] = record]

Enter_Unmarked(h) == Save(h, View(h))                                              \* mutant

\* Enter the stretch in which nobody else may confirm, capture or cancel.
Enter(h) == Allowed(h, "processing") /\ Save(h, [View(h) EXCEPT !.status = "processing"])

AppendLedgerEntry_Replaces(h, type, amount) ==                                     \* mutant
  ledger' = [ledger EXCEPT ![target[h]][type] = amount]

AppendLedgerEntry(h, type, amount) ==
  ledger' = [ledger EXCEPT ![target[h]][type] = @ + amount]

Publish_KeepsLast(h, type) == published' = { <<type, target[h]>> }                 \* mutant

Publish(h, type) == published' = published \cup { <<type, target[h]>> }

Goto(h, to) == pc' = [pc EXCEPT ![h] = to]

\* The request ends: the key is released and the locals are gone.
Release(h) ==
  /\ Goto(h, "idle")
  /\ req'     = [req EXCEPT ![h] = NoRequest]
  /\ target'  = [target EXCEPT ![h] = NoIntent]
  /\ copy'    = [copy EXCEPT ![h] = BlankIntent]
  /\ snap'    = [snap EXCEPT ![h] = NoChargebacks]
  /\ left'    = [left EXCEPT ![h] = 0]
  /\ granted' = [granted EXCEPT ![h] = FALSE]

\* An error is thrown: the request ends and nothing is recorded for its key.
Throw(h) == Release(h) /\ UNCHANGED <<store, records, published, outer, bounds>>

-----------------------------------------------------------------------------
(* executeIdempotent *)

\* Bound: an operation arrives only while there is an identifier for its result.
Serving(op) == { g \in Handlers : req[g].op = op }

Room(op) ==
  /\ op = "create" => Cardinality(Serving(op))
                        < Cardinality({ i \in Intents : intents[i].status = "absent" })
  /\ op = "dispute" => Cardinality(Serving(op))
                         < Cardinality({ c \in Chargebacks : chargebacks[c].status = "absent" })

Arrive(h) ==
  /\ pc[h] = "idle"
  /\ arrived < MaxRequests
  /\ \E q \in Request : /\ q.op \in Operations /\ Room(q.op)
                         /\ req' = [req EXCEPT ![h] = q]
  /\ arrived' = arrived + 1
  /\ Goto(h, "lock")
  /\ UNCHANGED <<store, records, published, outer, target, copy, snap, left, granted, faults>>

Executing(h) == pc[h] \notin { "idle", "lock" }

Recorded(q) == \E r \in records : SameSlot(r, q)

LockFree_NoLock(h) == TRUE                                                         \* mutant
LockFree_Leaked(h) ==                                                              \* mutant
  ~ Recorded(req[h]) /\ \A g \in Handlers : Executing(g) => ~ SameSlot(req[g], req[h])

\* withKeyLock: nobody else is between its lookup and its put for this key.
LockFree(h) == \A g \in Handlers : Executing(g) => ~ SameSlot(req[g], req[h])

Lock(h) ==
  /\ pc[h] = "lock"
  /\ LockFree(h)
  /\ Goto(h, "lookup")
  /\ UNCHANGED <<store, records, published, outer, locals, bounds>>

\* A stored result is replayed, or refused when the payload differs; either way
\* the request ends.  Otherwise the operation starts.
Lookup(h) ==
  /\ pc[h] = "lookup"
  /\ \/ Recorded(req[h]) /\ Throw(h)
     \/ /\ ~ Recorded(req[h])
        /\ Goto(h, IF req[h].op = "create" THEN "create" ELSE "read")
        /\ UNCHANGED <<store, records, published, outer, locals, bounds>>

\* The operation returned: its result is stored under the key, the key is freed.
Put(h) ==
  /\ pc[h] = "put"
  /\ records' = records \cup { req[h] }
  /\ Release(h)
  /\ UNCHANGED <<store, published, outer, bounds>>

Announce(h) ==
  /\ pc[h] \in DOMAIN Announcement
  /\ Publish(h, Announcement[pc[h]].event)
  /\ Goto(h, Announcement[pc[h]].then)
  /\ UNCHANGED <<store, records, outer, locals, bounds>>

-----------------------------------------------------------------------------
(* createPaymentIntent, and the read every other operation on an intent starts with *)

Create(h) ==
  /\ pc[h] = "create"
  /\ \E i \in Intents :
       /\ intents[i].status = "absent"
       /\ LET intent == [ BlankIntent EXCEPT !.status = "requires_confirmation",
                                             !.method = req[h].method,
                                             !.amount = req[h].amount ]
          IN  intents' = [intents EXCEPT ![i] = intent]
       /\ target' = [target EXCEPT ![h] = i]
  /\ Goto(h, "announce_created")
  /\ UNCHANGED <<chargebacks, refunds, ledger, records, published, outer,
                 req, copy, snap, left, granted, bounds>>

ReadIntent(h) ==
  /\ pc[h] = "read"
  /\ req[h].op # "resolve"
  /\ LET i == req[h].intent
     IN  \/ intents[i].status = "absent" /\ Throw(h)
         \/ /\ intents[i].status # "absent"
            /\ target' = [target EXCEPT ![h] = i]
            /\ copy' = IF SharedRecords THEN copy ELSE [copy EXCEPT ![h] = intents[i]]
            /\ Goto(h, IF req[h].op = "dispute" THEN "list" ELSE "decide")
            /\ UNCHANGED <<store, records, published, outer, req, snap, left, granted, bounds>>

\* A handler at its decision point serves operation op.
Deciding(h, op) == pc[h] = "decide" /\ req[h].op = op

-----------------------------------------------------------------------------
(* confirmPaymentIntent *)

Confirm(h) ==
  /\ Deciding(h, "confirm")
  /\ \/ /\ View(h).status # "requires_confirmation"
        /\ Goto(h, "put")
        /\ UNCHANGED <<intents, copy>>
     \/ /\ View(h).status = "requires_confirmation"
        /\ Enter(h)
        /\ Goto(h, "confirm_processing")
  /\ UNCHANGED <<chargebacks, refunds, ledger, records, published, outer,
                 req, target, snap, left, granted, bounds>>

\* The risk engine answers; on "allow" the router lists the candidates.
Assess(h) ==
  /\ pc[h] = "assess"
  /\ \/ /\ \/ /\ Allowed(h, "failed")
              /\ Save(h, [View(h) EXCEPT !.status = "failed"])
              /\ Goto(h, "announce_failed")
           \/ /\ Allowed(h, "requires_action")
              /\ Save(h, [View(h) EXCEPT !.status = "requires_action"])
              /\ Goto(h, "announce_review")
        /\ UNCHANGED left
        /\ UNCHANGED <<chargebacks, refunds, ledger, records, published, outer,
                       req, target, snap, granted, bounds>>
     \/ \E n \in 1..MaxCandidates :
          /\ left' = [left EXCEPT ![h] = n]
          /\ Goto(h, "authorize")
          /\ UNCHANGED <<store, records, published, outer,
                         req, target, copy, snap, granted, bounds>>

\* A candidate answers: authorized, declined for good, or a transient failure
\* that leaves the next candidate to try.
Authorize(h) ==
  /\ pc[h] = "authorize"
  /\ LET routed == [View(h) EXCEPT !.routed = TRUE]
     IN  \/ /\ Assign(h, [routed EXCEPT !.authorized = routed.amount])
            /\ AppendLedgerEntry(h, "authorization", routed.amount)
            /\ left' = [left EXCEPT ![h] = 0]
            /\ Goto(h, "settle")
         \/ /\ Allowed(h, "failed")
            /\ Save(h, [routed EXCEPT !.status = "failed"])
            /\ left' = [left EXCEPT ![h] = 0]
            /\ Goto(h, "announce_failed")
            /\ UNCHANGED ledger
         \/ /\ left[h] > 1
            /\ Assign(h, routed)
            /\ left' = [left EXCEPT ![h] = @ - 1]
            /\ UNCHANGED <<ledger, pc>>
  /\ UNCHANGED <<chargebacks, refunds, records, published, outer,
                 req, target, snap, granted, bounds>>

\* Automatic capture books the money now; manual capture waits for a request.
\* The outcome is announced before it is saved.
Settle(h) ==
  /\ pc[h] = "settle"
  /\ LET intent == View(h)
     IN  \/ /\ intent.method = "automatic"
            /\ Allowed(h, "succeeded")
            /\ Assign(h, [intent EXCEPT !.status = "succeeded", !.captured = intent.amount])
            /\ AppendLedgerEntry(h, "capture", intent.amount)
            /\ Goto(h, "announce_succeeded")
            /\ UNCHANGED published
         \/ /\ intent.method = "manual"
            /\ Allowed(h, "requires_action")
            /\ Assign(h, [intent EXCEPT !.status = "requires_action"])
            /\ Publish(h, "payment_intent.requires_action")
            /\ Goto(h, "save")
            /\ UNCHANGED ledger
  /\ UNCHANGED <<chargebacks, refunds, records, outer, req, target, snap, left, granted, bounds>>

SaveOutcome(h) ==
  /\ pc[h] = "save"
  /\ Save(h, View(h))
  /\ Goto(h, "put")
  /\ UNCHANGED <<chargebacks, refunds, ledger, records, published, outer,
                 req, target, snap, left, granted, bounds>>

-----------------------------------------------------------------------------
(* capturePaymentIntent and cancelPaymentIntent *)

Capturable_IgnoresCaptured(intent, amount) ==                                      \* mutant
  /\ intent.method = "manual" /\ intent.status = "requires_action"
  /\ intent.routed /\ amount <= intent.authorized

Capturable(intent, amount) ==
  /\ intent.method = "manual"
  /\ intent.status = "requires_action"
  /\ intent.routed
  /\ amount + intent.captured <= intent.authorized

Capture(h) ==
  /\ Deciding(h, "capture")
  /\ \/ ~ Capturable(View(h), req[h].amount) /\ Throw(h)
     \/ /\ Capturable(View(h), req[h].amount)
        /\ Enter(h)
        /\ Goto(h, "capture_processing")
        /\ UNCHANGED <<chargebacks, refunds, ledger, records, published, outer,
                       req, target, snap, left, granted, bounds>>

CallCapture(h) ==
  /\ pc[h] = "call_capture"
  /\ \E ok \in BOOLEAN :
       /\ granted' = [granted EXCEPT ![h] = ok]
       /\ psp' = IF ok THEN [psp EXCEPT ![target[h]].captured = @ + req[h].amount] ELSE psp
  /\ Goto(h, "capture_result")
  /\ UNCHANGED <<store, records, published, refundCalls, req, target, copy, snap, left, bounds>>

Accepted_Always(h) == TRUE                                                         \* mutant

\* The provider's answer to the capture or the refund of this request.
Accepted(h) == granted[h]

CaptureResult(h) ==
  /\ pc[h] = "capture_result"
  /\ \/ /\ ~ Accepted(h)
        /\ Allowed(h, "failed")
        /\ Save(h, [View(h) EXCEPT !.status = "failed"])
        /\ Goto(h, "announce_failed")
        /\ UNCHANGED ledger
     \/ /\ Accepted(h)
        /\ Assign(h, [View(h) EXCEPT !.captured = @ + req[h].amount])
        /\ AppendLedgerEntry(h, "capture", req[h].amount)
        /\ Goto(h, "settle_capture")
  /\ UNCHANGED <<chargebacks, refunds, records, published, outer,
                 req, target, snap, left, granted, bounds>>

FullyCaptured_AnyAmount(intent) == intent.captured > 0                             \* mutant

FullyCaptured(intent) == intent.captured >= intent.authorized

SettleCapture(h) ==
  /\ pc[h] = "settle_capture"
  /\ LET intent == View(h)
     IN  \/ /\ FullyCaptured(intent)
            /\ Allowed(h, "succeeded")
            /\ Assign(h, [intent EXCEPT !.status = "succeeded"])
            /\ Publish(h, "payment_intent.succeeded")
            /\ Goto(h, "save")
         \/ /\ ~ FullyCaptured(intent)
            /\ Allowed(h, "requires_action")
            /\ Save(h, [intent EXCEPT !.status = "requires_action"])
            /\ Goto(h, "put")
            /\ UNCHANGED published
  /\ UNCHANGED <<chargebacks, refunds, ledger, records, outer,
                 req, target, snap, left, granted, bounds>>

\* What the stretch writes next, if the provider it asks declines.
Pending(h) ==
  CASE pc[h] = "settle"         -> IF View(h).method = "automatic" THEN "succeeded" ELSE "requires_action"
    [] pc[h] = "settle_capture" -> IF FullyCaptured(View(h)) THEN "succeeded" ELSE "requires_action"
    [] OTHER                    -> "failed"

\* assertTransition throws.
Refused(h) ==
  /\ \/ pc[h] \in { "assess", "authorize", "settle", "settle_capture" }
     \/ pc[h] = "capture_result" /\ ~ Accepted(h)
  /\ ~ Allowed(h, Pending(h))

\* The stretch ends with an error: the router has no candidate to offer, or assertTransition
\* refuses what is to be written, which TransitionsAccepted says it never does.
Abort(h) == (pc[h] = "assess" \/ Refused(h)) /\ Throw(h)

Cancelable(intent) ==
  ~ IsTerminalStatus(intent.status) /\ intent.status # "processing"

Cancel(h) ==
  /\ Deciding(h, "cancel")
  /\ LET intent == View(h)
         may    == Cancelable(intent) /\ Allowed(h, "canceled")
         rest   == <<chargebacks, refunds, ledger, records, published, outer,
                     req, target, snap, left, granted, bounds>>
     IN  \/ intent.status = "canceled" /\ Goto(h, "put") /\ UNCHANGED <<intents, copy, rest>>
         \/ intent.status # "canceled" /\ ~ may /\ Throw(h)
         \/ /\ may
            /\ Save(h, [intent EXCEPT !.status = "canceled"])
            /\ Goto(h, "announce_canceled")
            /\ UNCHANGED rest

-----------------------------------------------------------------------------
(* createRefund *)

Refundable_IgnoresRefunded(intent, amount) ==                                      \* mutant
  intent.routed /\ amount <= intent.captured

Refundable(intent, amount) == intent.routed /\ amount + intent.refunded <= intent.captured

Refund(h) ==
  /\ Deciding(h, "refund")
  /\ \/ ~ Refundable(View(h), req[h].amount) /\ Throw(h)
     \/ /\ Refundable(View(h), req[h].amount)
        /\ Goto(h, "call_refund")
        /\ UNCHANGED <<store, records, published, outer, locals, bounds>>

CallRefund(h) ==
  /\ pc[h] = "call_refund"
  /\ \E ok \in BOOLEAN :
       /\ granted' = [granted EXCEPT ![h] = ok]
       /\ psp' = IF ok THEN [psp EXCEPT ![target[h]].refunded = @ + req[h].amount] ELSE psp
       /\ refundCalls' = IF ok THEN [refundCalls EXCEPT ![req[h].key] = @ + 1] ELSE refundCalls
  /\ Goto(h, "refund_result")
  /\ UNCHANGED <<store, records, published, req, target, copy, snap, left, bounds>>

\* The refund record is saved with the provider's verdict as its status.
RefundResult(h) ==
  /\ pc[h] = "refund_result"
  /\ \/ ~ Accepted(h) /\ Goto(h, "refund_failed") /\ UNCHANGED refunds
     \/ /\ Accepted(h)
        /\ refunds' = [refunds EXCEPT ![target[h]] = @ + req[h].amount]
        /\ Goto(h, "apply_refund")
  /\ UNCHANGED <<intents, chargebacks, ledger, records, published, outer, locals, bounds>>

ApplyRefund(h) ==
  /\ pc[h] = "apply_refund"
  /\ Save(h, [View(h) EXCEPT !.refunded = @ + req[h].amount])
  /\ Goto(h, "post_refund")
  /\ UNCHANGED <<chargebacks, refunds, ledger, records, published, outer,
                 req, target, snap, left, granted, bounds>>

PostRefund(h) ==
  /\ pc[h] = "post_refund"
  /\ AppendLedgerEntry(h, "refund", req[h].amount)
  /\ Goto(h, "refund_succeeded")
  /\ UNCHANGED <<intents, chargebacks, refunds, records, published, outer, locals, bounds>>

-----------------------------------------------------------------------------
(* createChargeback and resolveChargeback *)

\* Which chargebacks exist is fixed by the listing, in both repositories.
ListChargebacks(h) ==
  /\ pc[h] = "list"
  /\ snap' = [snap EXCEPT ![h] = chargebacks]
  /\ Goto(h, "dispute")
  /\ UNCHANGED <<store, records, published, outer, req, target, copy, left, granted, bounds>>

Reserved(h) ==
  LET listed == { c \in Chargebacks : /\ snap[h][c].intent = target[h]
                                      /\ ViewChargeback(h, c).status # "won" }
  IN  MapThenSumSet(LAMBDA c : snap[h][c].amount, listed)

Disputable(h) ==
  req[h].amount + Reserved(h) + View(h).refunded <= View(h).captured

Dispute(h) ==
  /\ pc[h] = "dispute"
  /\ \/ ~ Disputable(h) /\ Throw(h)
     \/ /\ Disputable(h)
        /\ \E c \in Chargebacks :
             /\ chargebacks[c].status = "absent"
             /\ chargebacks' = [chargebacks EXCEPT ![c] =
                  [ intent |-> target[h], amount |-> req[h].amount, status |-> "open" ]]
        /\ Goto(h, "chargeback_opened")
        /\ UNCHANGED <<intents, refunds, ledger, records, published, outer, locals, bounds>>

ReadChargeback(h) ==
  /\ pc[h] = "read"
  /\ req[h].op = "resolve"
  /\ LET c == req[h].chargeback
     IN  \/ chargebacks[c].status = "absent" /\ Throw(h)
         \/ /\ chargebacks[c].status # "absent"
            /\ target' = [target EXCEPT ![h] = chargebacks[c].intent]
            /\ snap' = IF SharedRecords THEN snap ELSE [snap EXCEPT ![h] = chargebacks]
            /\ Goto(h, "decide")
            /\ UNCHANGED <<store, records, published, outer, req, copy, left, granted, bounds>>

Undecided_AllowsWon(status) == status \in { "open", "under_review", "won" }         \* mutant

Undecided(status) == status \in { "open", "under_review" }

Resolve(h) ==
  /\ Deciding(h, "resolve")
  /\ LET c    == req[h].chargeback
         seen == ViewChargeback(h, c)
         next == req[h].status
     IN  \/ /\ seen.status = next
            /\ Goto(h, "put")
            /\ UNCHANGED <<store, records, published, outer, locals, bounds>>
         \/ seen.status # next /\ ~ Undecided(seen.status) /\ Throw(h)
         \/ /\ seen.status # next
            /\ Undecided(seen.status)
            /\ chargebacks' = [chargebacks EXCEPT ![c] = [seen EXCEPT !.status = next]]
            /\ \/ next = "lost" /\ Goto(h, "post_loss")
               \/ next = "won" /\ Goto(h, "chargeback_won")
               \/ next = "under_review" /\ Goto(h, "put")
            /\ UNCHANGED <<intents, refunds, ledger, records, published, outer, locals, bounds>>

PostLoss(h) ==
  /\ pc[h] = "post_loss"
  /\ AppendLedgerEntry(h, "chargeback", chargebacks[req[h].chargeback].amount)
  /\ Goto(h, "chargeback_lost")
  /\ UNCHANGED <<intents, chargebacks, refunds, records, published, outer, locals, bounds>>

-----------------------------------------------------------------------------
(* Faults, and the specification *)

\* A call of the operation rejects, or the process serving it dies.
Fail(h) ==
  /\ Executing(h)
  /\ faults < MaxFaults
  /\ faults' = faults + 1
  /\ Release(h)
  /\ UNCHANGED <<store, records, published, outer, arrived>>

\* What a handler does between two awaits.
Step(h) ==
  \/ Lock(h) \/ Lookup(h) \/ Put(h) \/ Announce(h)
  \/ Create(h) \/ ReadIntent(h)
  \/ Confirm(h) \/ Assess(h) \/ Authorize(h) \/ Settle(h) \/ SaveOutcome(h)
  \/ Capture(h) \/ CallCapture(h) \/ CaptureResult(h) \/ SettleCapture(h)
  \/ Abort(h) \/ Cancel(h)
  \/ Refund(h) \/ CallRefund(h) \/ RefundResult(h) \/ ApplyRefund(h) \/ PostRefund(h)
  \/ ListChargebacks(h) \/ Dispute(h)
  \/ ReadChargeback(h) \/ Resolve(h) \/ PostLoss(h)

Next == \E h \in Handlers : Arrive(h) \/ Step(h) \/ Fail(h)

Spec == Init /\ [][Next]_vars

\* Every call a handler awaits is answered, so it goes on until its request ends.
FairSpec == Spec /\ \A h \in Handlers : WF_vars(Step(h))

-----------------------------------------------------------------------------
(* Type invariant *)

\* The awaits of each operation.
Serves(op, p) ==
  \/ p \in { "lock", "lookup", "put" }
  \/ op = "create"  /\ p \in { "create", "announce_created" }
  \/ op = "confirm" /\ p \in { "read", "decide", "confirm_processing", "assess", "authorize",
                               "settle", "announce_succeeded", "announce_failed",
                               "announce_review", "save" }
  \/ op = "capture" /\ p \in { "read", "decide", "capture_processing", "call_capture",
                               "capture_result", "settle_capture", "announce_failed", "save" }
  \/ op = "cancel"  /\ p \in { "read", "decide", "announce_canceled" }
  \/ op = "refund"  /\ p \in { "read", "decide", "call_refund", "refund_result",
                               "apply_refund", "post_refund", "refund_succeeded",
                               "refund_failed" }
  \/ op = "dispute" /\ p \in { "read", "list", "dispute", "chargeback_opened" }
  \/ op = "resolve" /\ p \in { "read", "decide", "post_loss", "chargeback_lost",
                               "chargeback_won" }

HandlerOK(h) ==
  \/ pc[h] = "idle" /\ req[h] = NoRequest
  \/ /\ req[h] \in Request
     /\ Serves(req[h].op, pc[h])
     /\ pc[h] \notin EarlyPc => target[h] \in Intents

\* The repositories, the stores and the outside world.
WorldOK ==
  /\ intents     \in [Intents -> IntentRecord]
  /\ chargebacks \in [Chargebacks -> ChargebackRecord]
  /\ refunds     \in [Intents -> Nat]
  /\ ledger      \in [Intents -> LedgerTotals]
  /\ records     \subseteq Request
  /\ published   \subseteq EventType \X Intents
  /\ psp         \in [Intents -> [captured : Nat, refunded : Nat]]
  /\ refundCalls \in [Keys -> Nat]
  /\ arrived     \in 0..MaxRequests
  /\ faults      \in 0..MaxFaults

HandlersOK ==
  /\ pc      \in [Handlers -> EarlyPc \cup LatePc]
  /\ req     \in [Handlers -> Request \cup {NoRequest}]
  /\ target  \in [Handlers -> Intents \cup {NoIntent}]
  /\ copy    \in [Handlers -> IntentRecord]
  /\ snap    \in [Handlers -> [Chargebacks -> ChargebackRecord]]
  /\ left    \in [Handlers -> Nat]
  /\ granted \in [Handlers -> BOOLEAN]
  /\ \A h \in Handlers : HandlerOK(h)

\* Every variable has its type, and every handler is parked at an await of the
\* operation it serves, with its intent known from the read on.
TypeOK == WorldOK /\ HandlersOK

-----------------------------------------------------------------------------
(* Safety *)

\* The stretch between entering "processing" and leaving it.
InSection(h) ==
  pc[h] \in { "confirm_processing", "assess", "authorize", "settle", "capture_processing",
              "call_capture", "capture_result", "settle_capture" }

\* "processing" works as a lock: nobody else confirms, captures or cancels an
\* intent while confirmPaymentIntent or capturePaymentIntent drives it, though no
\* lock is taken on the intent and the keys of the requests differ.
ProcessingIsExclusive ==
  \A h \in Handlers : InSection(h) =>
    /\ intents[target[h]].status = "processing"
    /\ \A g \in Handlers : InSection(g) /\ target[g] = target[h] => g = h

\* assertTransition never refuses a handler what it came to write, whichever requests race:
\* no payment ends with an error between its provider's answer and its outcome.
TransitionsAccepted == \A h \in Handlers : ~ Refused(h)

\* The stored status of an intent moves only along ALLOWED_TRANSITIONS, whichever
\* requests race on it.
StatusFollowsStateMachine ==
  [][\A i \in Intents :
       \/ intents'[i].status = intents[i].status
       \/ intents[i].status = "absent"
       \/ CanTransition(intents[i].status, intents'[i].status)]_vars

\* Seen as accounts, the intents of the in-memory runtime implement the promised
\* life of a payment (PaymentLifecycle), whatever requests are in flight.
Accounts ==
  [ i \in Intents |-> [ status     |-> intents[i].status,
                        amount     |-> intents[i].amount,
                        authorized |-> intents[i].authorized,
                        captured   |-> intents[i].captured ] ]

Lifecycle == INSTANCE PaymentLifecycle WITH account <- Accounts, Amounts <- 1..MaxAmount

ImplementsLifecycle == Lifecycle!LSpec

\* No sequence of captures, concurrent or not, books more than was authorized, in
\* the intent or in the ledger the reconciliation sums.
CapturedWithinAuthorized ==
  \A i \in Intents :
    /\ intents[i].captured <= intents[i].authorized
    /\ intents[i].authorized <= intents[i].amount
    /\ ledger[i].capture <= ledger[i].authorization

AtRest(i) == \A h \in Handlers : target[h] # i

LostAmount(i) ==
  MapThenSumSet(LAMBDA c : chargebacks[c].amount,
                { c \in Chargebacks : chargebacks[c].intent = i /\ chargebacks[c].status = "lost" })

\* Once nobody works on an intent and no call failed, its amounts, its refunds, its ledger
\* and the providers tell the same story (summarizeReconciliation against the records).
BooksBalance ==
  \A i \in Intents : AtRest(i) /\ faults = 0 =>
    /\ ledger[i] = [ authorization |-> intents[i].authorized, capture |-> intents[i].captured,
                     refund |-> intents[i].refunded, chargeback |-> LostAmount(i) ]
    /\ refunds[i] = intents[i].refunded /\ psp[i].refunded = intents[i].refunded
    /\ intents[i].method = "manual" => psp[i].captured = intents[i].captured

\* Whatever fails in between and whoever interferes, the ledger and the refund
\* records never claim money that did not move at the provider.
BooksNeverOverstate ==
  \A i \in Intents :
    /\ ledger[i].refund <= refunds[i] /\ refunds[i] <= psp[i].refunded
    /\ intents[i].method = "manual" => ledger[i].capture <= psp[i].captured

Outcome == [ succeeded |-> "payment_intent.succeeded", failed |-> "payment_intent.failed",
             canceled |-> "payment_intent.canceled" ]

\* The event of a final status is published only for an intent stored with that
\* status, and a final intent at rest has had its event published.
EventsMatchState ==
  \A i \in Intents, s \in DOMAIN Outcome :
    /\ <<Outcome[s], i>> \in published => intents[i].status = s
    /\ AtRest(i) /\ faults = 0 /\ intents[i].status = s => <<Outcome[s], i>> \in published

\* A request never executes when a result is already stored for its key: the
\* second of two concurrent requests waits, then replays.
AtMostOnce == \A h \in Handlers : pc[h] \notin { "idle", "lock", "lookup" } => ~ Recorded(req[h])

\* One idempotency key moves refund money at the provider once.
OneRefundPerKey == \A k \in Keys : refundCalls[k] <= 1

\* A chargeback that was won or lost stays so.
ChargebackDecidedOnce ==
  [][\A c \in Chargebacks : chargebacks[c].status \in { "won", "lost" }
                              => chargebacks'[c].status = chargebacks[c].status]_vars

\* A payment never gives back more than it took.
RefundedWithinCaptured == \A i \in Intents : intents[i].refunded <= intents[i].captured

\* Every stored row adds up, whichever of the copies that raced was saved last: over
\* PostgreSQL a save may undo what another handler wrote, but never mixes the two.
RowsInOrder ==
  \A i \in Intents :
    /\ intents[i].refunded <= intents[i].captured
    /\ intents[i].captured <= intents[i].authorized
    /\ intents[i].authorized <= intents[i].amount

\* The chargebacks of a payment that were not won do not dispute more than it took.
DisputedWithinCaptured ==
  \A i \in Intents :
    MapThenSumSet(LAMBDA c : chargebacks[c].amount,
                  { c \in Chargebacks : /\ chargebacks[c].intent = i
                                        /\ chargebacks[c].status # "won" })
      <= intents[i].captured

-----------------------------------------------------------------------------
(* Liveness *)

\* Every request that arrives is answered: no handler waits for ever.
EveryRequestEnds == \A h \in Handlers : pc[h] # "idle" ~> pc[h] = "idle"

\* A confirmed payment leaves "processing".
ProcessingEnds ==
  \A i \in Intents : intents[i].status = "processing" ~> intents[i].status # "processing"
=============================================================================
