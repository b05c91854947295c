---------------------------- MODULE ProviderRouter ----------------------------
(***************************************************************************)
(* Provider selection with a circuit breaker                               *)
(* (application/provider-router.ts) under concurrent payments that try     *)
(* their candidates in turn (confirmPaymentIntent, lines 176-202).         *)
(*                                                                         *)
(* A payment asks for its candidates once and then awaits one provider     *)
(* after the other, so answers reach the router in any order, also from    *)
(* payments that chose before a circuit opened.  openedUntilMs is kept as  *)
(* the time that is left; an entry absent from the map is Closed.          *)
(***************************************************************************)
EXTENDS Naturals, Sequences, FiniteSets, Functions

CONSTANTS
  Payments,        \* payments being confirmed at once
  Names,           \* names of providers
  Providers,       \* configured providers that support the payment method
  Priority,        \* the policy: names in order of preference
  Default,         \* the policy: the default provider
  Threshold,       \* failures in a row that open a circuit
  Cooldown,        \* clock ticks a circuit stays open
  TransientOnly    \* do only transient failures count?

ASSUME PriorityAssumption ==
  /\ Priority \in Seq(Names) /\ IsInjective(Priority)
  /\ Default \in Names /\ Providers \subseteq Names
ASSUME PolicyAssumption ==
  Threshold \in Nat \ {0} /\ Cooldown \in Nat \ {0} /\ TransientOnly \in BOOLEAN

VARIABLES
  circuits,     \* per provider: the entry of the map
  candidates,   \* per payment: providers it still has to try, the first one being called
  streak        \* per provider: failures in a row, up to the threshold (history)

vars == <<circuits, candidates, streak>>

Circuit == [ failures : 0..(Threshold - 1), opened : BOOLEAN, left : 0..Cooldown ]

Closed == [ failures |-> 0, opened |-> FALSE, left |-> 0 ]

Answers == { "authorized", "transient", "declined" }

Init ==
  /\ circuits   = [ p \in Providers |-> Closed ]
  /\ candidates = [ x \in Payments |-> <<>> ]
  /\ streak     = [ p \in Providers |-> 0 ]

-----------------------------------------------------------------------------
(* selectCandidates *)

Fallback_Always(ordered) == <<Default>>                                            \* mutant

Fallback(ordered) == IF Default \in Range(ordered) THEN <<>> ELSE <<Default>>

\* The members of a list that are in a set, in their order (a loop that skips, or filter).
Among(list, S) ==
  LET found  == { k \in DOMAIN list : list[k] \in S }
      places == CHOOSE f \in [ 1..Cardinality(found) -> found ] :
                  \A j, k \in DOMAIN f : j < k => f[j] < f[k]
  IN  [ k \in DOMAIN places |-> list[places[k]] ]

\* The supported providers of the policy in its order, then the default one.
Ordered ==
  LET ordered == Among(Priority, Providers)
  IN  ordered \o Among(Fallback(ordered), Providers)

Open(p) == circuits[p].opened /\ circuits[p].left > 0

Available_Always(p) == TRUE                                                        \* mutant

Available(p) == ~ Open(p)

\* A payment starts with the candidates whose circuit is not open; looking at a
\* circuit whose time is over closes it.  Nobody left is an error.
Route(x) ==
  /\ candidates[x] = <<>>
  /\ candidates' = [candidates EXCEPT ![x] =
                      Among(Ordered, { p \in Providers : Available(p) })]
  /\ circuits' = [ p \in Providers |->
                     IF p \in Range(Ordered) /\ circuits[p].opened /\ ~ Open(p)
                       THEN Closed ELSE circuits[p] ]
  /\ UNCHANGED streak

-----------------------------------------------------------------------------
(* recordAuthorizeOutcome, and the loop around it *)

Counts_EveryFailure(answer) == answer # "authorized"                               \* mutant

\* Does this answer count against the provider?  The others close its circuit.
Counts(answer) == answer = "transient" \/ (answer = "declined" /\ ~ TransientOnly)

Trips(failures) == failures >= Threshold

Recorded(p, answer) ==
  LET failures == circuits[p].failures + 1
  IN  IF ~ Counts(answer) THEN Closed
      ELSE IF Trips(failures)
        THEN [ failures |-> 0, opened |-> TRUE, left |-> Cooldown ]
        ELSE [circuits[p] EXCEPT !.failures = failures]

\* (history) What the configuration calls a failure.
Failure(answer) == answer = "transient" \/ (answer = "declined" /\ ~ TransientOnly)

\* The provider answers.  After a transient failure the next candidate is called,
\* after any other answer the payment is through.
Answer(x, answer) ==
  /\ candidates[x] # <<>>
  /\ LET p == Head(candidates[x])
     IN  /\ circuits' = [circuits EXCEPT ![p] = Recorded(p, answer)]
         /\ streak' = [streak EXCEPT ![p] =
                         IF ~ Failure(answer) THEN 0
                         ELSE IF @ < Threshold THEN @ + 1 ELSE @]
  /\ candidates' = [candidates EXCEPT ![x] =
                      IF answer = "transient" THEN Tail(@) ELSE <<>>]

\* The call rejects: the request fails and the router hears nothing.
Reject(x) ==
  /\ candidates[x] # <<>>
  /\ candidates' = [candidates EXCEPT ![x] = <<>>]
  /\ UNCHANGED <<circuits, streak>>

Tick ==
  /\ \E p \in Providers : Open(p)
  /\ circuits' = [ p \in Providers |->
                     IF Open(p) THEN [circuits[p] EXCEPT !.left = @ - 1] ELSE circuits[p] ]
  /\ UNCHANGED <<candidates, streak>>

Next ==
  \/ \E x \in Payments : Route(x) \/ Reject(x) \/ \E answer \in Answers : Answer(x, answer)
  \/ Tick

Spec == Init /\ [][Next]_vars

\* Time passes.
FairSpec == Spec /\ WF_vars(Tick)

-----------------------------------------------------------------------------
(* Properties *)

TypeOK ==
  /\ circuits   \in [Providers -> Circuit]
  /\ candidates \in [Payments -> Seq(Providers)]
  /\ streak     \in [Providers -> 0..Threshold]

\* No provider is called twice for one payment, also where the policy names the default
\* one in its list.
NoProviderTwice == \A x \in Payments : IsInjective(candidates[x])

\* A circuit is open only after a threshold of failures in a row, as they were
\* answered, whichever payments the answers belong to.
OpensOnStreak == \A p \in Providers : Open(p) => streak[p] = Threshold

\* An open circuit stays open until its time is over.
StaysOpen == [][\A p \in Providers : Open(p) /\ ~ Open(p)' => circuits[p].left = 1]_vars

\* However many payments fail meanwhile, a provider whose circuit is open is
\* offered again some time.
CircuitsHeal == \A p \in Providers : Open(p) ~> ~ Open(p)
=============================================================================
