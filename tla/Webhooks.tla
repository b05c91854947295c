-------------------------------- MODULE Webhooks --------------------------------
(***************************************************************************)
(* Webhooks: endpoints, the dispatcher that brings an event to them with   *)
(* retries (application/webhook-dispatcher.ts), the dead letters it leaves *)
(* and their replay, one by one or in a batch                              *)
(* (application/webhook-service.ts), over the repository in memory.        *)
(*                                                                         *)
(* A dispatch and a replay wait for the endpoint's answer, and others run  *)
(* meanwhile.  An event stands for its type too.                           *)
(***************************************************************************)
EXTENDS Integers, SequencesExt

CONSTANTS
  Events,        \* published events
  Endpoints,
  Subscriptions, \* sets of events that an endpoint asks for; the empty set is all
  Replayers,     \* requests that replay dead letters
  MaxAttempts,   \* attempts of a dispatch
  BatchLimit,    \* dead letters of one batch
  MaxChanges,    \* bound: changes of endpoints
  MaxReplays     \* bound: replays

ASSUME AttemptsAssumption == MaxAttempts \in Nat \ {0} /\ BatchLimit \in Nat \ {0}
ASSUME BoundAssumption == MaxChanges \in Nat /\ MaxReplays \in Nat

\* The dispatcher lists the endpoints of a map in memory.
ASSUME EndpointsAssumption == IsFiniteSet(Endpoints)

Answers == {"ok", "transient", "permanent"}
Reasons == {"max_attempts_exhausted", "permanent_failure"}

Endpoint == [ enabled : BOOLEAN, events : Subscriptions, secret : 0..MaxChanges ]
Absent   == [ enabled |-> FALSE, events |-> {}, secret |-> -1 ]
Delivery == [ attempt : Nat, answer : Answers, secret : 0..MaxChanges ]
Letter   == [ event : Events, endpoint : Endpoints, attempts : Nat,
              status : {"pending", "replayed"}, replays : Nat, reason : Reasons ]

VARIABLES
  endpoints,    \* per endpoint: its record, the secret as a version
  changes,      \* changes of endpoints so far
  deliveries,   \* per event and endpoint: the attempts, in order
  letters,      \* dead letters, oldest first
  dispatch,     \* per event: what its dispatch is about to do
  replay,       \* per replayer: likewise
  replays,      \* replays begun so far
  overlapped    \* have two replays ever been under way at the same time? (history)

vars == <<endpoints, changes, deliveries, letters, dispatch, replay, replays, overlapped>>

NotStarted == [ pc |-> "idle", todo |-> <<>>, attempt |-> 1, reason |-> "max_attempts_exhausted" ]
NoLetter   == [ status |-> "none" ]
Resting    == [ pc |-> "idle", queue |-> <<>>, letter |-> NoLetter, answer |-> "ok" ]

Init ==
  /\ endpoints  = [ w \in Endpoints |-> Absent ]
  /\ changes    = 0
  /\ deliveries = [ e \in Events |-> [ w \in Endpoints |-> <<>> ] ]
  /\ letters    = <<>>
  /\ dispatch   = [ e \in Events |-> NotStarted ]
  /\ replay     = [ r \in Replayers |-> Resting ]
  /\ replays    = 0
  /\ overlapped = FALSE

-----------------------------------------------------------------------------
(* Endpoints *)

Create(w) ==
  /\ endpoints[w] = Absent
  /\ \E enabled \in BOOLEAN, events \in Subscriptions :
       endpoints' = [endpoints EXCEPT ![w] = [ enabled |-> enabled, events |-> events, secret |-> 0 ]]
  /\ UNCHANGED <<changes, deliveries, letters, dispatch, replay, replays, overlapped>>

Change(w) ==
  /\ endpoints[w] # Absent
  /\ changes < MaxChanges
  /\ changes' = changes + 1
  /\ UNCHANGED <<deliveries, letters, dispatch, replay, replays, overlapped>>

Update(w) ==
  /\ Change(w)
  /\ \E enabled \in BOOLEAN, events \in Subscriptions :
       endpoints' = [endpoints EXCEPT ![w].enabled = enabled, ![w].events = events]

RotateSecret(w) ==
  /\ Change(w)
  /\ endpoints' = [endpoints EXCEPT ![w].secret = @ + 1]

-----------------------------------------------------------------------------
(* dispatch *)

\* isPermanentWebhookFailure.
IsPermanent(answer) == answer = "permanent"

ReasonFor(answer) ==
  IF IsPermanent(answer) THEN "permanent_failure" ELSE "max_attempts_exhausted"

Logged(e, w, attempt, answer, secret) ==
  [deliveries EXCEPT ![e][w] = Append(@, [ attempt |-> attempt, answer |-> answer, secret |-> secret ])]

\* listEnabledEndpointsByEvent.
Wants(w, e) ==
  endpoints[w].enabled /\ (endpoints[w].events = {} \/ e \in endpoints[w].events)

\* The endpoints are kept for the whole dispatch as they are now.
Start(e) ==
  /\ dispatch[e].pc = "idle"
  /\ LET wanting == SetToSeq({ w \in Endpoints : Wants(w, e) })
         listed  == [ k \in DOMAIN wanting |->
                        [ id |-> wanting[k], secret |-> endpoints[wanting[k]].secret ] ]
     IN  dispatch' = [dispatch EXCEPT ![e].todo = listed,
                                      ![e].pc   = IF listed = <<>> THEN "done" ELSE "send"]
  /\ UNCHANGED <<endpoints, changes, deliveries, letters, replay, replays, overlapped>>

\* The dispatch once it is through with the endpoint at the head of the list.
Forward(d) ==
  [NotStarted EXCEPT !.todo = Tail(d.todo), !.pc = IF Tail(d.todo) = <<>> THEN "done" ELSE "send"]

\* A failure after which there is no further attempt.
GivesUp(answer, attempt) == IsPermanent(answer) \/ attempt = MaxAttempts

AfterAnswer_Unsettled(d, answer) ==                                                \* mutant
  IF answer = "ok" \/ IsPermanent(answer) THEN Forward(d)
  ELSE IF GivesUp(answer, d.attempt)
         THEN [d EXCEPT !.pc = "bury", !.reason = ReasonFor(answer)]
         ELSE [d EXCEPT !.attempt = @ + 1]

AfterAnswer(d, answer) ==
  IF answer = "ok" THEN Forward(d)
  ELSE IF GivesUp(answer, d.attempt)
         THEN [d EXCEPT !.pc = "bury", !.reason = ReasonFor(answer)]
         ELSE [d EXCEPT !.attempt = @ + 1]

Attempt(e) ==
  /\ dispatch[e].pc = "send"
  /\ \E answer \in Answers :
       LET d == dispatch[e]
       IN  /\ deliveries' = Logged(e, Head(d.todo).id, d.attempt, answer, Head(d.todo).secret)
           /\ dispatch'   = [dispatch EXCEPT ![e] = AfterAnswer(d, answer)]
  /\ UNCHANGED <<endpoints, changes, letters, replay, replays, overlapped>>

Bury(e) ==
  /\ dispatch[e].pc = "bury"
  /\ LET d == dispatch[e]
     IN  /\ letters'  = Append(letters,
                          [ event    |-> e,         endpoint |-> Head(d.todo).id,
                            attempts |-> d.attempt, status   |-> "pending",
                            replays  |-> 0,         reason   |-> d.reason ])
         /\ dispatch' = [dispatch EXCEPT ![e] = Forward(d)]
  /\ UNCHANGED <<endpoints, changes, deliveries, replay, replays, overlapped>>

-----------------------------------------------------------------------------
(* replayDeadLetter and replayDeadLettersBatch *)

\* listDeadLetters: newest first, with the status asked for, one page.
Listed(status) ==
  LET found  == { i \in DOMAIN letters : letters[i].status = status }
      newest == CHOOSE s \in [ 1..Cardinality(found) -> found ] :
                  \A j, k \in DOMAIN s : j < k => s[j] > s[k]
  IN  SubSeq(newest, 1, IF Len(newest) < BatchLimit THEN Len(newest) ELSE BatchLimit)

\* A request names one dead letter, or a batch of one status, pending by default.
Request(r) ==
  /\ replay[r].pc = "idle"
  /\ \/ \E i \in DOMAIN letters :
          replay' = [replay EXCEPT ![r].queue = <<i>>, ![r].pc = "read"]
     \/ \E status \in {"pending", "replayed"} :
          /\ Listed(status) # <<>>
          /\ replay' = [replay EXCEPT ![r].queue = Listed(status), ![r].pc = "read"]
  /\ overlapped' = (overlapped \/ \E q \in Replayers \ {r} : replay[q].pc # "idle")
  /\ UNCHANGED <<endpoints, changes, deliveries, letters, dispatch, replays>>

\* On to the next one of the batch; a refusal (409) is only noted in the answer.
Onward(r) ==
  LET rest == Tail(replay[r].queue)
  IN  replay' = [replay EXCEPT ![r] =
                   [Resting EXCEPT !.queue = rest, !.pc = IF rest = <<>> THEN "idle" ELSE "read"]]

Replayable_Any(letter) == TRUE                                                     \* mutant

Replayable(letter) == letter.status # "replayed"

ReadLetter(r) ==
  /\ replay[r].pc = "read"
  /\ replays < MaxReplays
  /\ LET letter == letters[Head(replay[r].queue)]
     IN  \/ /\ Replayable(letter)
            /\ replay'  = [replay EXCEPT ![r].letter = letter, ![r].pc = "send"]
            /\ replays' = replays + 1
         \/ /\ ~ Replayable(letter)
            /\ Onward(r)
            /\ UNCHANGED replays
  /\ UNCHANGED <<endpoints, changes, deliveries, letters, dispatch, overlapped>>

Send(r) ==
  /\ replay[r].pc = "send"
  /\ LET letter == replay[r].letter
         w      == letter.endpoint
     IN  \/ /\ endpoints[w].enabled
            /\ \E answer \in Answers :
                 /\ deliveries' = Logged(letter.event, w, letter.attempts + 1, answer, endpoints[w].secret)
                 /\ replay'     = [replay EXCEPT ![r].answer = answer, ![r].pc = "update"]
         \/ /\ ~ endpoints[w].enabled
            /\ Onward(r)
            /\ UNCHANGED deliveries
  /\ UNCHANGED <<endpoints, changes, letters, dispatch, replays, overlapped>>

NextState_Replayed(letter, answer) ==                                              \* mutant
  [letter EXCEPT !.attempts = @ + 1, !.replays = @ + 1, !.status = "replayed"]
NextState_Recounted(letter, answer) ==                                             \* mutant
  [letter EXCEPT !.attempts = @ + 2, !.replays = @ + 1,
                 !.status = IF answer = "ok" THEN "replayed" ELSE "pending",
                 !.reason = IF answer = "ok" THEN @ ELSE ReasonFor(answer)]

\* nextDeadLetterState, from the letter as it was read.
NextState(letter, answer) ==
  [letter EXCEPT !.attempts = @ + 1, !.replays = @ + 1,
                 !.status = IF answer = "ok" THEN "replayed" ELSE "pending",
                 !.reason = IF answer = "ok" THEN @ ELSE ReasonFor(answer)]

UpdateLetter(r) ==
  /\ replay[r].pc = "update"
  /\ letters' = [letters EXCEPT ![Head(replay[r].queue)] =
                   NextState(replay[r].letter, replay[r].answer)]
  /\ Onward(r)
  /\ UNCHANGED <<endpoints, changes, deliveries, dispatch, replays, overlapped>>

-----------------------------------------------------------------------------

Dispatch(e) == Start(e) \/ Attempt(e) \/ Bury(e)
Replay(r)   == Request(r) \/ ReadLetter(r) \/ Send(r) \/ UpdateLetter(r)

Next ==
  \/ \E e \in Events : Dispatch(e)
  \/ \E r \in Replayers : Replay(r)
  \/ \E w \in Endpoints : Create(w) \/ Update(w) \/ RotateSecret(w)

Spec == Init /\ [][Next]_vars

-----------------------------------------------------------------------------
(* Properties *)

TypeOK ==
  /\ endpoints  \in [Endpoints -> Endpoint \cup {Absent}]
  /\ changes    \in 0..MaxChanges
  /\ deliveries \in [Events -> [Endpoints -> Seq(Delivery)]]
  /\ letters    \in Seq(Letter)
  /\ \A e \in Events : /\ dispatch[e].pc \in {"idle", "send", "bury", "done"}
                       /\ dispatch[e].attempt \in 1..MaxAttempts
                       /\ dispatch[e].pc \in {"send", "bury"} <=> dispatch[e].todo # <<>>
  /\ \A r \in Replayers : /\ replay[r].pc \in {"idle", "read", "send", "update"}
                          /\ replay[r].pc = "idle" <=> replay[r].queue = <<>>
  /\ replays    \in 0..MaxReplays
  /\ overlapped \in BOOLEAN

LettersOf(e, w) == { i \in DOMAIN letters : letters[i].event = e /\ letters[i].endpoint = w }
Succeeded(log)  == \E k \in DOMAIN log : log[k].answer = "ok"

\* What a dispatch tried in vain is in the dead letters: once it is over, every
\* endpoint it tried has the event, or there is exactly one letter about it.
NothingDropped ==
  \A e \in Events, w \in Endpoints :
    dispatch[e].pc = "done" /\ deliveries[e][w] # <<>>
      => \/ Succeeded(deliveries[e][w]) /\ LettersOf(e, w) = {}
         \/ \E i \in DOMAIN letters : LettersOf(e, w) = {i}

\* A dispatch tries again only after a transient failure, up to the maximum.
RetriesAreDue ==
  \A e \in Events, w \in Endpoints :
    LET log == deliveries[e][w]
    IN  LettersOf(e, w) = {} =>
          /\ Len(log) <= MaxAttempts
          /\ \A k \in 1..(Len(log) - 1) : log[k].answer = "transient"

\* A letter says "replayed" only when a replay of it brought the event to the endpoint.
ReplayedWasDelivered ==
  \A i \in DOMAIN letters :
    letters[i].status = "replayed" => Succeeded(deliveries[letters[i].event][letters[i].endpoint])

\* However many replay at once, a letter never counts more attempts than were made,
\* and its replays are the attempts beyond those of the dispatch.
AttemptsNeverOverstate ==
  \A i \in DOMAIN letters :
    LET log == deliveries[letters[i].event][letters[i].endpoint]
    IN  /\ letters[i].attempts <= Len(log)
        /\ letters[i].attempts - letters[i].replays \in 1..MaxAttempts

\* As long as replays do not overlap, a letter at rest tells the whole story: it counts
\* every attempt, the attempts are numbered through, its reason is the last failure's, and
\* an event that a replay delivered was not sent again.
LettersTellAll ==
  \A i \in DOMAIN letters :
    LET letter == letters[i]
        log    == deliveries[letter.event][letter.endpoint]
    IN  ~ overlapped /\ (\A r \in Replayers : replay[r].pc # "update") =>
          /\ letter.attempts = Len(log)
          /\ \A k \in DOMAIN log : log[k].attempt = k
          /\ letter.status = "pending" => letter.reason = ReasonFor(Last(log).answer)
          /\ \A k \in 1..(Len(log) - 1) : log[k].answer # "ok"

\* The documents: a successful replay marks the letter as replayed, for good.
StaysReplayed ==
  [][\A i \in DOMAIN letters : letters[i].status = "replayed" => letters'[i].status = "replayed"]_vars

\* The documents: a delivery is signed with the secret of the registered endpoint.
SignedWithSecret ==
  [][\A e \in Events, w \in Endpoints :
       Len(deliveries'[e][w]) > Len(deliveries[e][w])
         => Last(deliveries'[e][w]).secret = endpoints[w].secret]_vars
=============================================================================
