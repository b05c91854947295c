--------------------------- MODULE PaymentLifecycle ---------------------------
(***************************************************************************)
(* What the runtime promises about a payment intent, with no requests, no  *)
(* keys and no handlers: an intent is opened, moves along the state        *)
(* machine, and money follows the order authorize - capture - succeed.     *)
(* PaymentOrchestrator over the in-memory repository implements this.      *)
(***************************************************************************)
EXTENDS PaymentDomain

CONSTANT Amounts   \* the amounts a payment may be opened for, or captured

VARIABLE account   \* per intent: its status and its amounts

Account == [ status : PaymentStatus \cup {"absent"},
             amount : Nat, authorized : Nat, captured : Nat ]

AccountTypeOK == account \in [Intents -> Account]

NoAccount == [ status |-> "absent", amount |-> 0, authorized |-> 0, captured |-> 0 ]

LInit == account = [ i \in Intents |-> NoAccount ]

Open(i) ==
  /\ account[i] = NoAccount
  /\ \E amount \in Amounts :
       account' = [account EXCEPT ![i] =
                     [ NoAccount EXCEPT !.status = "requires_confirmation", !.amount = amount ]]

\* A status change moves no money, except that succeeding may book the rest.
Advance(i, next) ==
  /\ account[i].status # "absent"
  /\ CanTransition(account[i].status, next)
  /\ next # "succeeded"
  /\ account' = [account EXCEPT ![i].status = next]

AuthorizeAccount(i) ==
  /\ account[i].status = "processing"
  /\ account[i].authorized = 0
  /\ account' = [account EXCEPT ![i].authorized = account[i].amount]

Collect(i, amount) ==
  /\ account[i].status = "processing"
  /\ account[i].captured + amount <= account[i].authorized
  /\ account' = [account EXCEPT ![i].captured = @ + amount]

\* An intent succeeds exactly when all that was authorized is captured.
Succeed(i) ==
  /\ account[i].status = "processing"
  /\ account[i].authorized > 0
  /\ account' = [account EXCEPT ![i].status = "succeeded", ![i].captured = account[i].authorized]

LNext ==
  \E i \in Intents :
    \/ Open(i)
    \/ \E next \in PaymentStatus : Advance(i, next)
    \/ AuthorizeAccount(i)
    \/ \E amount \in Amounts : Collect(i, amount)
    \/ Succeed(i)

LSpec == LInit /\ [][LNext]_account
=============================================================================
