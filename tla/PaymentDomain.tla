---------------------------- MODULE PaymentDomain ----------------------------
(***************************************************************************)
(* The payment domain of the reference runtime: the statuses of a payment  *)
(* intent, the state machine that orders them, and the records the         *)
(* repositories keep (domain/types.ts, domain/state-machine.ts).           *)
(*                                                                         *)
(* A record that was never stored has status "absent"; names, tokens,      *)
(* currencies and timestamps are left out.                                 *)
(***************************************************************************)
EXTENDS Naturals

CONSTANTS
  Intents,      \* identifiers a payment intent may be given
  NoIntent      \* "no payment intent"

ASSUME NoIntentAssumption == NoIntent \notin Intents

-----------------------------------------------------------------------------
(* Payment intents *)

PaymentStatus == { "requires_confirmation", "processing", "requires_action",
                   "succeeded", "failed", "canceled" }

CaptureMethod == { "automatic", "manual" }

\* The statuses that may directly follow each status.
ALLOWED_TRANSITIONS ==
  [ requires_confirmation |-> { "processing", "canceled" },
    processing            |-> { "requires_action", "succeeded", "failed" },
    requires_action       |-> { "processing", "failed", "canceled" },
    succeeded             |-> {},
    failed                |-> {},
    canceled              |-> {} ]

CanTransition(current, next) == next \in ALLOWED_TRANSITIONS[current]

IsTerminalStatus(status) == status \in { "succeeded", "failed", "canceled" }

\* "routed" stands for the pair (provider, provider_reference) being set.
IntentRecord ==
  [ status     : PaymentStatus \cup { "absent" },
    method     : CaptureMethod,
    amount     : Nat,
    authorized : Nat,
    captured   : Nat,
    refunded   : Nat,
    routed     : BOOLEAN ]

BlankIntent ==
  [ status |-> "absent", method |-> "automatic", amount |-> 0,
    authorized |-> 0, captured |-> 0, refunded |-> 0, routed |-> FALSE ]

-----------------------------------------------------------------------------
(* Chargebacks and the ledger *)

ChargebackStatus == { "open", "under_review", "won", "lost" }

Resolutions == ChargebackStatus \ { "open" }

BlankChargeback == [ intent |-> NoIntent, amount |-> 0, status |-> "absent" ]

ChargebackRecord ==
  { BlankChargeback } \cup [ intent : Intents, amount : Nat, status : ChargebackStatus ]

\* The ledger only grows, and is only read as totals per entry type.
LedgerTotals ==
  [ authorization : Nat, capture : Nat, refund : Nat, chargeback : Nat ]

EmptyLedger ==
  [ authorization |-> 0, capture |-> 0, refund |-> 0, chargeback |-> 0 ]
=============================================================================
