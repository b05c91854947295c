----------------------------- MODULE ServerProofs -----------------------------
(* Proofs about Server and about the lists it serves (Pagination).               *)
(*                                                                               *)
(* The server, for any environments, clients, rollout of cursor secrets and size *)
(* of batches: a configuration that is accepted can be built, nothing waits for  *)
(* a connection that is not open, a secret of an endpoint never comes back, and  *)
(* a gradual rollout of cursor secrets disturbs no walk.                         *)
(*                                                                               *)
(* The lists, for any identifiers, sizes of pages, times and numbers of changes: *)
(* a walk shows no item twice and skips none that is there all the time, and a   *)
(* reconciliation of the ledger in memory is that of one moment.                 *)
EXTENDS Server, Pagination, SequenceTheorems, FiniteSetTheorems, FunctionTheorems, TLAPS

Resources == {"pool", "redis", "consumer"}
Active    == loop \in {"ensure", "read", "handle", "ack", "pause"}
Whole     == open = Connections(config)

\* A process that serves has the connections that its configuration asks for.
Serving ==
  /\ phase = "up" => Builds(config) /\ Whole
  /\ Active \/ request # "none" => Alive /\ Builds(config) /\ Whole
  /\ Active => config.backends.bus = "durable"
  /\ loop \in {"handle", "ack"} => batch # 0

\* Once the loop is told to stop there are no requests any more.
Stopping ==
  Active /\ ~ running => phase = "closing" /\ request = "none"

IInv == TypeOK /\ AcceptedConfigBuilds /\ Serving /\ Stopping

-----------------------------------------------------------------------------
(* Configurations and connections *)

LEMMA ConnectionFacts ==
  ASSUME NEW c
  PROVE  /\ Connections(c) \subseteq Resources
         /\ HasPool(c) => "pool" \in Connections(c)
         /\ HasRedis(c) => "redis" \in Connections(c)
         /\ c.backends.bus = "durable" => "consumer" \in Connections(c)
  BY DEF Connections, Resources

\* The checks of loadRuntimeConfig imply those of buildApp.
LEMMA AcceptedBuilds ==
  ASSUME NEW e, Accepts(e)
  PROVE  Builds(LoadRuntimeConfig(e))
<1> DEFINE c == LoadRuntimeConfig(e)
<1>1. /\ c.backends = e.backends
      /\ c.postgresUrl = e.postgresUrl
      /\ c.redisUrl = e.redisUrl
  BY DEF LoadRuntimeConfig
<1>2. UrlsSuffice(e)
  BY DEF Accepts
<1> HIDE DEF c
<1>3. Builds(c)
  BY <1>1, <1>2 DEF Builds, HasPool, HasRedis, UrlsSuffice, UsesPostgres, UsesRedis
<1> QED
  BY <1>3 DEF c

\* The connection of the consumer is closed before all others.
LEMMA ConsumerFirst ==
  ASSUME NEW remaining \in SUBSET Resources, "consumer" \in remaining
  PROVE  CloseNext(remaining) = "consumer"
<1>1. \A d \in remaining : Registered("consumer") >= Registered(d)
  BY DEF Registered, Resources
<1>2. \A c \in remaining : (\A d \in remaining : Registered(c) >= Registered(d)) => c = "consumer"
  <2> SUFFICES ASSUME NEW c \in remaining, Registered(c) >= Registered("consumer")
               PROVE  c = "consumer"
    OBVIOUS
  <2> QED
    BY DEF Registered, Resources
<1> QED
  BY <1>1, <1>2 DEF CloseNext

LEMMA NextIsOpen ==
  ASSUME NEW remaining \in SUBSET Resources, remaining # {}
  PROVE  CloseNext(remaining) \in remaining
<1>1. \E c \in remaining : \A d \in remaining : Registered(c) >= Registered(d)
  <2>1. CASE "consumer" \in remaining
    BY <2>1 DEF Registered, Resources
  <2>2. CASE "consumer" \notin remaining /\ "redis" \in remaining
    BY <2>2 DEF Registered, Resources
  <2>3. CASE "consumer" \notin remaining /\ "redis" \notin remaining
    BY <2>3 DEF Registered, Resources
  <2> QED
    BY <2>1, <2>2, <2>3
<1> QED
  BY <1>1 DEF CloseNext

-----------------------------------------------------------------------------
(* The inductive invariant *)

LEMMA NoEditFacts == NoEdit \in Edit /\ ~ Sent(NoEdit)
  BY DEF NoEdit, Edit, Sent

LEMMA InitInv == Init => IInv
<1> SUFFICES ASSUME Init
             PROVE  IInv
  OBVIOUS
<1>1. 1 \in DOMAIN Rollout
  <2>1. Rollout \in Seq(Seq(Secrets)) /\ Rollout # <<>>
    BY RolloutAssumption
  <2> QED
    BY <2>1
<1>2. TypeOK
  <2>1. batch \in 0..MaxBatch
    BY BoundAssumption DEF Init
  <2>2. edits \in [Clients -> Edit] /\ \A c \in Clients : ~ Sent(edits[c])
    BY NoEditFacts DEF Init
  <2> QED
    BY <1>1, <2>1, <2>2 DEF Init, TypeOK, Phases, Waits
<1> QED
  BY <1>2 DEF Init, IInv, AcceptedConfigBuilds, Serving, Stopping, Active

LEMMA ForgetInv ==
  ASSUME IInv, Forget, phase' \in {"down"}
  PROVE  IInv'
<1>1. TypeOK'
  <2>1. batch' \in 0..MaxBatch
    BY BoundAssumption DEF Forget
  <2>2. registered' = registered /\ stage' = stage /\ others' = others
    BY DEF Forget, cursors
  <2>3. /\ phase' \in Phases
        /\ open' = {} /\ running' = FALSE /\ loop' = "off" /\ request' = "none"
    BY DEF Forget, Phases
  <2>4. /\ endpoint' = None /\ edits' \in [Clients -> Edit]
        /\ \A c \in Clients : ~ Sent(edits'[c])
    BY NoEditFacts DEF Forget
  <2> QED
    BY <2>1, <2>2, <2>3, <2>4 DEF IInv, TypeOK, Waits
<1> QED
  BY <1>1 DEF IInv, AcceptedConfigBuilds, Serving, Stopping, Active, Forget

LEMMA StartInv ==
  ASSUME IInv, NEW e \in Environments, Start(e)
  PROVE  IInv'
<1> DEFINE c == LoadRuntimeConfig(e)
<1>1. Builds(c)
  BY AcceptedBuilds DEF Start
<1>2. /\ config' = c /\ phase' = "up" /\ open' = Connections(c)
      /\ running' = (c.backends.bus = "durable")
      /\ loop' = IF c.backends.bus = "durable" THEN "ensure" ELSE "off"
      /\ batch' = batch /\ request' = request /\ registered' = registered
      /\ endpoint' = endpoint /\ edits' = edits
      /\ stage' = stage /\ others' = others
  BY <1>1 DEF Start, webhooks, cursors
<1> HIDE DEF c
<1>3. phase = "down"
  BY DEF Start
<1>4. request = "none"
  BY <1>3 DEF IInv, Serving, Alive
<1>5. TypeOK'
  BY <1>2, ConnectionFacts DEF IInv, TypeOK, Phases, Waits, Resources
<1> QED
  BY <1>1, <1>2, <1>4, <1>5
  DEF IInv, AcceptedConfigBuilds, Serving, Stopping, Active, Alive, Whole

LEMMA LoopInv ==
  ASSUME IInv, LoopStep
  PROVE  IInv'
<1> USE DEF process, webhooks, cursors
<1>1. CASE EnsureConsumerGroupFails
  <2>1. CASE phase' = "down" /\ Forget
    BY <2>1, ForgetInv
  <2>2. CASE ~ running /\ phase' = "cut short" /\ loop' = "failed"
               /\ UNCHANGED <<config, open, running, batch, request, webhooks, cursors>>
    BY <1>1, <2>2
    DEF EnsureConsumerGroupFails, IInv, TypeOK, AcceptedConfigBuilds, Serving, Stopping, Active,
        Phases, Waits
  <2> QED
    BY <1>1, <2>1, <2>2 DEF EnsureConsumerGroupFails
<1>2. CASE ~ EnsureConsumerGroupFails
  <2>1. /\ Active
        /\ UNCHANGED <<process, running, request, webhooks, cursors>>
        /\ loop' \in Waits /\ batch' \in 0..MaxBatch
        /\ loop' \in {"handle", "ack"} => batch' # 0
    <3>1. batch \in 0..MaxBatch /\ MaxBatch \in Nat
      BY BoundAssumption DEF IInv, TypeOK
    <3>2. CASE EnsureConsumerGroup
      BY <3>1, <3>2 DEF EnsureConsumerGroup, Active, Again, Waits
    <3>3. CASE Read
      BY <3>1, <3>3 DEF Read, Active, Again, Waits
    <3>4. CASE LoopFails
      BY <3>1, <3>4 DEF LoopFails, Active, Waits
    <3>5. CASE Pause
      BY <3>1, <3>5 DEF Pause, Active, Again, Waits
    <3>6. CASE Handle \/ Ack
      <4>1. batch # 0
        BY <3>6 DEF Handle, Ack, IInv, Serving
      <4> QED
        BY <3>1, <3>6, <4>1 DEF Handle, Ack, NextMessage, Active, Again, Waits
    <3> QED
      BY <1>2, <3>2, <3>3, <3>4, <3>5, <3>6 DEF LoopStep
  <2> QED
    BY <2>1
    DEF IInv, TypeOK, AcceptedConfigBuilds, Serving, Stopping, Active, Alive, Whole
<1> QED
  BY <1>1, <1>2

LEMMA RequestInv ==
  ASSUME IInv, Arrive \/ Admit \/ Work
  PROVE  IInv'
<1>1. /\ phase = "up" \/ request # "none"
      /\ request' \in {"none", "admit", "work"}
      /\ UNCHANGED <<process, consumer, webhooks, cursors>>
  BY DEF Arrive, Admit, Work
<1>2. Alive /\ Builds(config) /\ Whole
  BY <1>1 DEF IInv, Serving, Alive
<1>3. Active /\ ~ running => request' = "none"
  BY DEF IInv, Stopping, Arrive, Admit, Work
<1> QED
  BY <1>1, <1>2, <1>3
  DEF IInv, TypeOK, AcceptedConfigBuilds, Serving, Stopping, Active, Alive, Whole,
      process, consumer, webhooks, cursors

\* What an edit does to the endpoint: it leaves the rest of the content alone.
LEMMA EditFacts ==
  ASSUME IInv, NEW c \in Clients, ApplyEdit(c)
  PROVE  /\ endpoint \in Content /\ endpoint' \in Content
         /\ endpoint'.secret >= endpoint.secret
         /\ edits' \in [Clients -> Edit]
         /\ UNCHANGED <<process, consumer, request, registered, cursors>>
<1>1. endpoint \in Content /\ edits \in [Clients -> Edit]
  BY DEF IInv, TypeOK, ApplyEdit
<1>2. UNCHANGED <<process, consumer, request, registered, cursors>>
  BY DEF ApplyEdit
<1>3. CASE ~ Matches(edits[c]) /\ edits' = [edits EXCEPT ![c] = NoEdit] /\ UNCHANGED endpoint
  BY <1>1, <1>2, <1>3, NoEditFacts DEF Content
<1>4. CASE /\ \/ \E url \in Urls : endpoint' = UpdateEndpoint(edits[c], url)
              \/ endpoint' = RotateEndpointSecret
           /\ \E answer \in {NoEdit, Knowing(endpoint')} : edits' = [edits EXCEPT ![c] = answer]
  <2>1. endpoint' \in Content /\ endpoint'.secret >= endpoint.secret
    BY <1>1, <1>4 DEF UpdateEndpoint, RotateEndpointSecret, Content
  <2>2. Knowing(endpoint') \in Edit
    BY <2>1 DEF Knowing, Edit
  <2> QED
    BY <1>1, <1>2, <1>4, <2>1, <2>2, NoEditFacts
<1> QED
  BY <1>3, <1>4 DEF ApplyEdit

LEMMA WebhooksInv ==
  ASSUME IInv, CreateEndpoint \/ \E c \in Clients : GetEndpoint(c) \/ SendEdit(c) \/ ApplyEdit(c)
  PROVE  IInv'
<1>1. /\ UNCHANGED <<process, consumer, request, cursors>>
      /\ registered' \in BOOLEAN
  BY DEF CreateEndpoint, GetEndpoint, SendEdit, ApplyEdit, IInv, TypeOK
<1>2. /\ endpoint' \in Content \cup {None}
      /\ edits' \in [Clients -> Edit]
      /\ \A c \in Clients : Sent(edits'[c]) => endpoint' # None
  <2>1. CASE CreateEndpoint
    <3>1. endpoint' \in Content /\ edits' = edits
      BY <2>1 DEF CreateEndpoint, Content
    <3> QED
      BY <3>1, NoneAssumption DEF IInv, TypeOK, Content
  <2>2. CASE \E c \in Clients : GetEndpoint(c)
    <3> PICK c \in Clients : GetEndpoint(c)
      BY <2>2
    <3>1. endpoint \in Content /\ endpoint' = endpoint /\ endpoint # None
      BY DEF GetEndpoint, IInv, TypeOK
    <3>2. Knowing(endpoint) \in Edit
      BY <3>1 DEF Knowing, Edit
    <3> QED
      BY <3>1, <3>2 DEF GetEndpoint, IInv, TypeOK
  <2>3. CASE \E c \in Clients : SendEdit(c)
    <3> PICK c \in Clients : SendEdit(c)
      BY <2>3
    <3>1. endpoint \in Content /\ endpoint' = endpoint /\ endpoint # None
      BY DEF SendEdit, IInv, TypeOK
    <3> PICK kind \in {"patch", "rotate"} :
          edits' = [edits EXCEPT ![c] = [ kind |-> kind, ifMatch |-> edits[c].ifMatch, read |-> endpoint ]]
      BY DEF SendEdit
    <3>2. edits[c].ifMatch \in Content \cup {None}
      BY DEF IInv, TypeOK, Edit
    <3>3. [ kind |-> kind, ifMatch |-> edits[c].ifMatch, read |-> endpoint ] \in Edit
      BY <3>1, <3>2 DEF Edit
    <3> QED
      BY <3>1, <3>3 DEF IInv, TypeOK
  <2>4. CASE \E c \in Clients : ApplyEdit(c)
    BY <2>4, EditFacts, NoneAssumption DEF Content
  <2> QED
    BY <2>1, <2>2, <2>3, <2>4
<1> QED
  BY <1>1, <1>2
  DEF IInv, TypeOK, AcceptedConfigBuilds, Serving, Stopping, Active, Alive, Whole,
      process, consumer, cursors

LEMMA CursorsInv ==
  ASSUME IInv, FetchPage \/ FetchPageElsewhere \/ RestartOthers \/ NextStage
  PROVE  IInv'
<1>1. UNCHANGED <<process, consumer, request, webhooks>>
  BY DEF FetchPage, FetchPageElsewhere, RestartOthers, NextStage
<1>2. /\ stage \in DOMAIN Rollout /\ others \in DOMAIN Rollout /\ others \in {stage, stage - 1}
      /\ Rollout \in Seq(Seq(Secrets))
  BY RolloutAssumption DEF IInv, TypeOK
<1>3. /\ stage' \in DOMAIN Rollout /\ others' \in DOMAIN Rollout
      /\ others' \in {stage', stage' - 1}
  BY <1>2 DEF FetchPage, FetchPageElsewhere, RestartOthers, NextStage
<1> QED
  BY <1>1, <1>3
  DEF IInv, TypeOK, AcceptedConfigBuilds, Serving, Stopping, Active, Alive, Whole,
      process, consumer, webhooks

\* A shutdown closes the connection of the consumer when the loop is over, and the
\* others when that one is closed.
LEMMA CloseInv ==
  ASSUME IInv, CloseStep
  PROVE  IInv'
<1>1. /\ Drained /\ phase = "closing" /\ request = "none"
      /\ UNCHANGED <<config, loop, batch, request, webhooks, cursors>>
  BY DEF CloseStep, StopConsumer, CloseConnection, CloseConnectionFails, Closed, Drained,
         process, consumer
<1>2. open \in SUBSET Resources
  BY DEF IInv, TypeOK, Resources
<1>3. Active => "consumer" \in open
  BY ConnectionFacts DEF IInv, Serving, Whole
<1>4. CASE StopConsumer
  BY <1>1, <1>4
  DEF StopConsumer, Stopped, IInv, TypeOK, AcceptedConfigBuilds, Serving, Stopping, Active,
      Alive, Whole, process, webhooks, cursors
<1>5. CASE CloseConnection \/ CloseConnectionFails \/ Closed
  <2>1. ~ Active
    <3> SUFFICES ASSUME Active
                 PROVE  FALSE
      OBVIOUS
    <3>1. open # {} /\ CloseNext(open) = "consumer"
      BY <1>2, <1>3, ConsumerFirst
    <3>2. loop = "over"
      BY <1>5, <3>1 DEF CloseConnection, CloseConnectionFails, Closed, MayClose
    <3> QED
      BY <3>2 DEF Active
  <2>2. /\ open' \subseteq open /\ running' = running
        /\ phase' \in {"closing", "closed", "cut short"}
    BY <1>1, <1>5 DEF CloseConnection, CloseConnectionFails, Closed, consumer
  <2> QED
    BY <1>1, <2>1, <2>2
    DEF IInv, TypeOK, AcceptedConfigBuilds, Serving, Stopping, Active, Phases, webhooks, cursors
<1> QED
  BY <1>4, <1>5 DEF CloseStep

LEMMA StepInv == IInv /\ [Next]_vars => IInv'
<1> SUFFICES ASSUME IInv, [Next]_vars
             PROVE  IInv'
  OBVIOUS
<1>1. CASE \E e \in Environments : Refuse(e)
  BY <1>1
  DEF Refuse, IInv, TypeOK, AcceptedConfigBuilds, Serving, Stopping, Active, Alive, Phases,
      consumer, webhooks, cursors
<1>2. CASE \E e \in Environments : Start(e)
  BY <1>2, StartInv
<1>3. CASE Crash \/ Exit
  BY <1>3, ForgetInv DEF Crash, Exit
<1>4. CASE LoopStep
  BY <1>4, LoopInv
<1>5. CASE Arrive \/ Admit \/ Work
  BY <1>5, RequestInv
<1>6. CASE CreateEndpoint \/ \E c \in Clients : GetEndpoint(c) \/ SendEdit(c) \/ ApplyEdit(c)
  BY <1>6, WebhooksInv
<1>7. CASE FetchPage \/ FetchPageElsewhere \/ RestartOthers \/ NextStage
  BY <1>7, CursorsInv
<1>8. CASE Close
  BY <1>8
  DEF Close, IInv, TypeOK, AcceptedConfigBuilds, Serving, Stopping, Active, Alive, Whole,
      Phases, consumer, webhooks, cursors
<1>9. CASE CloseStep
  BY <1>9, CloseInv
<1>10. CASE UNCHANGED vars
  BY <1>10
  DEF vars, process, consumer, webhooks, cursors, IInv, TypeOK, AcceptedConfigBuilds, Serving,
      Stopping, Active, Alive, Whole
<1> QED
  BY <1>1, <1>2, <1>3, <1>4, <1>5, <1>6, <1>7, <1>8, <1>9, <1>10 DEF Next

LEMMA Invariant == Spec => []IInv
  BY InitInv, StepInv, PTL DEF Spec

\* The types of the variables, and an edit under way has an endpoint to change.
THEOREM ServerTypeCorrect == Spec => []TypeOK
<1>1. IInv => TypeOK
  BY DEF IInv
<1> QED
  BY <1>1, Invariant, PTL

\* Whatever the environment: a configuration that loadRuntimeConfig lets through can be
\* built by buildApp.
THEOREM AcceptedConfigurationsBuild == Spec => []AcceptedConfigBuilds
<1>1. IInv => AcceptedConfigBuilds
  BY DEF IInv
<1> QED
  BY <1>1, Invariant, PTL

\* The loop and the requests find the connections they wait for open, whenever the
\* process is shut down.
THEOREM NothingWaitsForClosed == Spec => []NothingUsedClosed
<1>1. IInv => NothingUsedClosed
  <2> SUFFICES ASSUME IInv
               PROVE  NothingUsedClosed
    OBVIOUS
  <2>1. LoopNeeds \subseteq open
    <3>1. CASE Active
      <4>1. HasPool(config) /\ HasRedis(config) /\ open = Connections(config)
            /\ config.backends.bus = "durable"
        BY <3>1 DEF IInv, Serving, Whole, Builds
      <4> QED
        BY <4>1, ConnectionFacts DEF LoopNeeds
    <3>2. CASE ~ Active
      BY <3>2 DEF LoopNeeds, Active
    <3> QED
      BY <3>1, <3>2
  <2>2. RequestNeeds \subseteq open
    <3>1. CASE request # "none"
      <4>1. Builds(config) /\ open = Connections(config)
        BY <3>1 DEF IInv, Serving, Whole
      <4>2. /\ UsesPostgres(config.backends) => "pool" \in open
            /\ config.backends.bus = "durable" => "redis" \in open
            /\ config.backends.rate = "redis" => "redis" \in open
        BY <4>1, ConnectionFacts DEF Builds, UsesPostgres
      <4> QED
        BY <4>2 DEF RequestNeeds
    <3>2. CASE request = "none"
      BY <3>2 DEF RequestNeeds
    <3> QED
      BY <3>1, <3>2
  <2> QED
    BY <2>1, <2>2 DEF NothingUsedClosed
<1> QED
  BY <1>1, Invariant, PTL

\* An edit that began before a rotation, or is applied after one, never brings an older
\* secret back.
THEOREM RotatedNeverReturns == Spec => RotatedStaysRotated
<1> DEFINE Kept == endpoint # None /\ endpoint' # None => endpoint'.secret >= endpoint.secret
<1>1. IInv /\ [Next]_vars => [Kept]_vars
  <2> SUFFICES ASSUME IInv, Next
               PROVE  Kept
    OBVIOUS
  <2>1. CASE \E c \in Clients : ApplyEdit(c)
    BY <2>1, EditFacts
  <2>2. CASE endpoint' = endpoint
    BY <2>2 DEF IInv, TypeOK, Content
  <2>3. CASE endpoint = None \/ endpoint' = None
    BY <2>3
  <2>4. ASSUME ~ \E c \in Clients : ApplyEdit(c)
        PROVE  endpoint' = endpoint \/ endpoint = None \/ endpoint' = None
    <3>1. CASE \E e \in Environments : Refuse(e) \/ Start(e)
      BY <3>1 DEF Refuse, Start, webhooks
    <3>2. CASE Crash \/ Exit
      BY <3>2 DEF Crash, Exit, Forget
    <3>3. CASE LoopStep
      BY <3>3
      DEF LoopStep, EnsureConsumerGroup, EnsureConsumerGroupFails, Read, Handle, Ack, LoopFails,
          Pause, Forget, webhooks
    <3>4. CASE Arrive \/ Admit \/ Work
      BY <3>4 DEF Arrive, Admit, Work, webhooks
    <3>5. CASE CreateEndpoint \/ \E c \in Clients : GetEndpoint(c) \/ SendEdit(c)
      BY <3>5 DEF CreateEndpoint, GetEndpoint, SendEdit
    <3>6. CASE FetchPage \/ FetchPageElsewhere \/ RestartOthers \/ NextStage
      BY <3>6 DEF FetchPage, FetchPageElsewhere, RestartOthers, NextStage, webhooks
    <3>7. CASE Close \/ CloseStep
      BY <3>7
      DEF Close, CloseStep, StopConsumer, CloseConnection, CloseConnectionFails, Closed, webhooks
    <3> QED
      BY <2>4, <3>1, <3>2, <3>3, <3>4, <3>5, <3>6, <3>7 DEF Next
  <2> QED
    BY <2>1, <2>2, <2>3, <2>4
<1> QED
  BY <1>1, Invariant, PTL DEF Spec, RotatedStaysRotated

-----------------------------------------------------------------------------
(* The rollout of cursor secrets *)

\* Each secret is known to every server before the first one signs with it, and stays known.
GradualRollout ==
  \A j, k \in DOMAIN Rollout : k >= j - 1 => Verifies(Rollout[k], Signing(Rollout[j]))

SecretsOfStage ==
  Alive => \E k \in DOMAIN Rollout : k \in {stage, stage - 1} /\ config.cursorSecrets = Rollout[k]

SignedByStage ==
  token # None => \E j \in DOMAIN Rollout : j <= stage /\ token = Signing(Rollout[j])

WalkInv == TypeOK /\ SecretsOfStage /\ SignedByStage

LEMMA InitWalkInv == Init => WalkInv
  BY InitInv DEF Init, WalkInv, IInv, SecretsOfStage, SignedByStage, Alive

LEMMA StepWalkInv == WalkInv /\ IInv' /\ [Next]_vars => WalkInv'
<1> SUFFICES ASSUME WalkInv, IInv', [Next]_vars
             PROVE  WalkInv'
  OBVIOUS
<1> USE DEF WalkInv, SecretsOfStage, SignedByStage
<1>1. TypeOK'
  BY DEF IInv
<1>2. /\ Rollout \in Seq(Seq(Secrets))
      /\ stage \in DOMAIN Rollout /\ others \in DOMAIN Rollout /\ others \in {stage, stage - 1}
  BY RolloutAssumption DEF TypeOK
<1>3. ASSUME UNCHANGED cursors, Alive' => UNCHANGED config /\ Alive
      PROVE  WalkInv'
  BY <1>1, <1>2, <1>3 DEF cursors
<1>4. CASE \E e \in Environments : Refuse(e)
  BY <1>3, <1>4 DEF Refuse, Alive
<1>5. CASE \E e \in Environments : Start(e)
  <2> PICK e \in Environments : Start(e)
    BY <1>5
  <2>1. config'.cursorSecrets = Rollout[stage] /\ UNCHANGED cursors
    BY DEF Start, LoadRuntimeConfig
  <2> QED
    BY <1>1, <1>2, <2>1 DEF cursors
<1>6. CASE Crash \/ Exit
  BY <1>3, <1>6 DEF Crash, Exit, Forget, Alive
<1>7. CASE LoopStep
  BY <1>3, <1>7
  DEF LoopStep, EnsureConsumerGroup, EnsureConsumerGroupFails, Read, Handle, Ack, LoopFails,
      Pause, Forget, process, Alive
<1>8. CASE Arrive \/ Admit \/ Work \/ CreateEndpoint
             \/ \E c \in Clients : GetEndpoint(c) \/ SendEdit(c) \/ ApplyEdit(c)
  BY <1>3, <1>8
  DEF Arrive, Admit, Work, CreateEndpoint, GetEndpoint, SendEdit, ApplyEdit, process, Alive
<1>9. CASE FetchPage
  <2>1. Alive /\ UNCHANGED <<phase, config, stage, others>>
    BY <1>9 DEF FetchPage, process, Alive
  <2> PICK k \in DOMAIN Rollout : k \in {stage, stage - 1} /\ config.cursorSecrets = Rollout[k]
    BY <2>1
  <2>2. token' \in {None, Signing(Rollout[k])}
    BY <1>9 DEF FetchPage
  <2>3. k <= stage
    BY <1>2
  <2> QED
    BY <1>1, <2>1, <2>2, <2>3
<1>10. CASE FetchPageElsewhere
  <2>1. UNCHANGED <<phase, config, stage, others>> /\ token' \in {None, Signing(Rollout[others])}
    BY <1>10 DEF FetchPageElsewhere, process
  <2>2. others <= stage
    BY <1>2
  <2> QED
    BY <1>1, <1>2, <2>1, <2>2 DEF Alive
<1>11. CASE RestartOthers
  BY <1>1, <1>11 DEF RestartOthers, process, Alive
<1>12. CASE NextStage
  BY <1>1, <1>2, <1>12 DEF NextStage, process, Alive
<1>13. CASE Close \/ CloseStep
  BY <1>3, <1>13
  DEF Close, CloseStep, StopConsumer, CloseConnection, CloseConnectionFails, Closed, Drained,
      process, Alive
<1>14. CASE UNCHANGED vars
  BY <1>3, <1>14 DEF vars, process, Alive
<1> QED
  BY <1>4, <1>5, <1>6, <1>7, <1>8, <1>9, <1>10, <1>11, <1>12, <1>13, <1>14 DEF Next

\* With a gradual rollout, of any length and whatever its lists, a walk goes on at
\* any server of the fleet.
THEOREM GradualRolloutKeepsWalks ==
  ASSUME GradualRollout
  PROVE  Spec => []RotationKeepsWalks
<1>1. WalkInv => RotationKeepsWalks
  <2> SUFFICES ASSUME WalkInv, token # None
               PROVE  /\ phase = "up" => Verifies(config.cursorSecrets, token)
                      /\ Verifies(Rollout[others], token)
    BY DEF RotationKeepsWalks
  <2> PICK j \in DOMAIN Rollout : j <= stage /\ token = Signing(Rollout[j])
    BY DEF WalkInv, SignedByStage
  <2>1. /\ Rollout \in Seq(Seq(Secrets))
        /\ stage \in DOMAIN Rollout /\ others \in DOMAIN Rollout /\ others \in {stage, stage - 1}
    BY RolloutAssumption DEF WalkInv, TypeOK
  <2>2. \A k \in DOMAIN Rollout : k \in {stage, stage - 1} => Verifies(Rollout[k], token)
    BY <2>1 DEF GradualRollout
  <2> QED
    BY <2>1, <2>2 DEF WalkInv, SecretsOfStage, Alive
<1> QED
  BY <1>1, InitWalkInv, StepWalkInv, Invariant, PTL DEF Spec

-----------------------------------------------------------------------------
(***************************************************************************)
(* The lists                                                               *)
(***************************************************************************)

(* What happens to the items *)

ItemsKept ==
  /\ listing' = listing /\ DOMAIN store \subseteq DOMAIN store'
  /\ \A p \in DOMAIN store : store'[p].at = store[p].at /\ store'[p].id = store[p].id

\* An item that is saved has an identifier of its own, and in memory the time of now.
Saved(item) ==
  /\ store' = Append(store, item)
  /\ item.at \in Times
  /\ \A p \in DOMAIN store : store[p].id # item.id
  /\ listing = "ledger_memory" => item.matches

Saves ==
  \/ CreateIntent   \/ AppendLedgerEntry \/ SaveEndpoint
  \/ PublishEvent   \/ SaveDelivery      \/ SaveDeadLetter

LEMMA StoreFacts ==
  ASSUME PTypeOK
  PROVE  /\ Len(store) \in Nat /\ DOMAIN store = 1..Len(store)
         /\ store \in Seq(Item) /\ \A p \in DOMAIN store : store[p] \in Item
  BY LenProperties DEF PTypeOK

LEMMA TimesFacts ==
  ASSUME PTypeOK
  PROVE  /\ Times \subseteq 0..now /\ now \in Times /\ now \in 0..MaxTime
         /\ Times \subseteq 0..MaxTime
         /\ listing \notin InPostgres => Times = {now}
  BY LimitAssumption DEF PTypeOK, Times

LEMMA SaveFacts ==
  ASSUME PTypeOK, NEW at \in Times, NEW matches \in BOOLEAN, NEW type \in EntryTypes \cup {NoType},
         listing = "ledger_memory" => matches, Save(at, matches, type)
  PROVE  /\ \E item \in Item : Saved(item)
         /\ UNCHANGED <<listing, now, changes, walk, required>>
<1>1. PICK id \in NewIds :
         store' = Append(store, [ id |-> id, at |-> at, matches |-> matches, type |-> type ])
  BY DEF Save
<1>2. id \in Ids /\ \A p \in DOMAIN store : store[p].id # id
  <2>1. NewIds \subseteq Ids \ { store[p].id : p \in DOMAIN store }
    BY DEF NewIds
  <2> QED
    BY <2>1
<1> DEFINE item == [ id |-> id, at |-> at, matches |-> matches, type |-> type ]
<1>3. item \in Item
  BY <1>2, TimesFacts DEF Item
<1>4. Saved(item)
  BY <1>1, <1>2 DEF Saved
<1>5. UNCHANGED <<listing, now, changes, walk, required>>
  BY DEF Save
<1> QED
  BY <1>3, <1>4, <1>5

LEMMA SavesFacts ==
  ASSUME PTypeOK, Saves
  PROVE  /\ \E item \in Item : Saved(item)
         /\ UNCHANGED <<listing, now, changes, walk, required>>
<1> USE TimesFacts, SaveFacts
<1>1. CASE CreateIntent
  BY <1>1 DEF CreateIntent
<1>2. CASE AppendLedgerEntry
  BY <1>2 DEF AppendLedgerEntry
<1>3. CASE SaveEndpoint
  BY <1>3 DEF SaveEndpoint
<1>4. CASE PublishEvent
  <2>1. PICK at \in Times : Save(at, listing = "events_memory", NoType)
    BY <1>4 DEF PublishEvent
  <2>2. listing # "ledger_memory" /\ (listing = "events_memory") \in BOOLEAN
    BY <1>4 DEF PublishEvent
  <2> QED
    BY <2>1, <2>2
<1>5. CASE SaveDelivery
  BY <1>5 DEF SaveDelivery
<1>6. CASE SaveDeadLetter
  BY <1>6 DEF SaveDeadLetter
<1> QED
  BY <1>1, <1>2, <1>3, <1>4, <1>5, <1>6 DEF Saves

LEMMA SavedStore ==
  ASSUME PTypeOK, NEW item \in Item, Saved(item), listing' = listing
  PROVE  /\ store' \in Seq(Item) /\ Len(store') = Len(store) + 1
         /\ DOMAIN store' = 1..(Len(store) + 1) /\ DOMAIN store = 1..Len(store)
         /\ Len(store) \in Nat
         /\ \A p \in DOMAIN store : store'[p] = store[p]
         /\ store'[Len(store) + 1] = item
         /\ ItemsKept
<1>1. /\ store' \in Seq(Item) /\ Len(store') = Len(store) + 1
      /\ \A p \in 1..Len(store) : store'[p] = store[p]
      /\ store'[Len(store) + 1] = item
  BY StoreFacts, AppendProperties DEF Saved
<1>2. DOMAIN store' = 1..(Len(store) + 1) /\ DOMAIN store = 1..Len(store) /\ Len(store) \in Nat
  BY <1>1, StoreFacts, LenProperties
<1> QED
  BY <1>1, <1>2 DEF ItemsKept

\* An edit changes whether one item is listed, and nothing else of it.
LEMMA StoreEditFacts ==
  ASSUME PTypeOK, NEW p \in DOMAIN store, MarkPublished(p) \/ Change(p)
  PROVE  /\ store' \in Seq(Item) /\ Len(store') = Len(store) /\ DOMAIN store' = DOMAIN store
         /\ ItemsKept
         /\ \A q \in DOMAIN store : store'[q].type = store[q].type
         /\ required' \subseteq required
         /\ \A q \in required' : store[q].matches => store'[q].matches
         /\ listing # "ledger_memory" /\ changes' \in 0..MaxChanges
         /\ UNCHANGED <<listing, now, walk>>
<1>1. PICK b \in BOOLEAN : /\ store' = [store EXCEPT ![p].matches = b]
                           /\ b \/ p \notin required'
  <2>1. store[p].matches \in BOOLEAN
    BY StoreFacts DEF Item
  <2>2. CASE MarkPublished(p)
    BY <2>2 DEF MarkPublished
  <2>3. CASE Change(p)
    BY <2>1, <2>3 DEF Change
  <2> QED
    BY <2>2, <2>3
<1>2. [store[p] EXCEPT !.matches = b] \in Item
  BY StoreFacts DEF Item
<1>3. /\ store' \in Seq(Item) /\ Len(store') = Len(store) /\ DOMAIN store' = DOMAIN store
      /\ store'[p] = [store[p] EXCEPT !.matches = b]
      /\ \A q \in DOMAIN store : q # p => store'[q] = store[q]
  <2>1. store' = [store EXCEPT ![p] = [store[p] EXCEPT !.matches = b]]
    BY <1>1
  <2> QED
    BY <1>2, <2>1, StoreFacts, ExceptSeq
<1>4. /\ required' \subseteq required /\ listing # "ledger_memory" /\ changes' \in 0..MaxChanges
      /\ UNCHANGED <<listing, now, walk>>
  BY LimitAssumption DEF MarkPublished, Change, PTypeOK
<1>5. store[p] \in Item
  BY StoreFacts
<1>6. /\ store'[p].at = store[p].at /\ store'[p].id = store[p].id /\ store'[p].type = store[p].type
      /\ store'[p].matches = b
  BY <1>3, <1>5 DEF Item
<1>7. ItemsKept
  BY <1>3, <1>4, <1>6 DEF ItemsKept
<1>8. \A q \in required' : store[q].matches => store'[q].matches
  <2>1. required' \subseteq DOMAIN store
    BY <1>4 DEF PTypeOK
  <2> QED
    BY <1>1, <1>3, <1>6, <2>1
<1> QED
  BY <1>3, <1>4, <1>6, <1>7, <1>8

-----------------------------------------------------------------------------
(* The order of a list *)

DistinctIds == \A p, q \in DOMAIN store : store[p].id = store[q].id => p = q

\* Whatever the list function, its order is one of three.
LEMMA OrderKind ==
  ASSUME PTypeOK
  PROVE  \/ \A p, q : Precedes(p, q) <=> NewestStable(p, q)
         \/ \A p, q : Precedes(p, q) <=> NewestThenId(p, q)
         \/ \A p, q : Precedes(p, q) <=> LastSavedFirst(p, q)
<1>1. listing \in AllListings
  BY ListingsAssumption DEF PTypeOK
<1>2. CASE listing \in {"intents_memory", "ledger_memory", "endpoints"}
  BY <1>2 DEF Precedes, InMemoryIntents, InMemoryLedger, Endpoints
<1>3. CASE listing \in OrderedById
  BY <1>3 DEF OrderedById, InPostgres, Precedes, PostgresIntents, PostgresLedger, InMemoryEvents,
              DurableEvents
<1>4. CASE listing \in {"deliveries", "dead_letters"}
  BY <1>4 DEF Precedes, Deliveries, DeadLetters
<1> QED
  BY <1>1, <1>2, <1>3, <1>4 DEF AllListings, InMemory, InPostgres, OrderedById

\* The order of a ledger in memory is the reverse of that in which it was written.
LEMMA LedgerOrder ==
  ASSUME listing = "ledger_memory", NEW p, NEW q
  PROVE  Precedes(p, q) <=> NewestStable(p, q)
  BY DEF Precedes, InMemoryLedger

LEMMA OrderFacts ==
  ASSUME PTypeOK, DistinctIds
  PROVE  /\ \A p \in DOMAIN store : ~ Precedes(p, p)
         /\ \A p, q, r \in DOMAIN store : Precedes(p, q) /\ Precedes(q, r) => Precedes(p, r)
         /\ \A p, q \in DOMAIN store : p # q => Precedes(p, q) \/ Precedes(q, p)
<1>1. ASSUME NEW p \in DOMAIN store
      PROVE  p \in Nat /\ store[p].at \in Nat /\ store[p].id \in Nat
  <2>1. store[p] \in Item /\ p \in Nat
    BY StoreFacts
  <2>2. store[p].at \in 0..MaxTime /\ store[p].id \in Ids
    BY <2>1 DEF Item
  <2>3. 0..MaxTime \subseteq Nat
    BY LimitAssumption
  <2> QED
    BY <2>1, <2>2, <2>3, IdsAssumption
<1>2. CASE \A p, q : Precedes(p, q) <=> NewestStable(p, q)
  BY <1>1, <1>2 DEF NewestStable
<1>3. CASE \A p, q : Precedes(p, q) <=> NewestThenId(p, q)
  BY <1>1, <1>3 DEF NewestThenId, DistinctIds
<1>4. CASE \A p, q : Precedes(p, q) <=> LastSavedFirst(p, q)
  BY <1>1, <1>4 DEF LastSavedFirst
<1> QED
  BY <1>2, <1>3, <1>4, OrderKind

\* Items keep their places relative to each other.
LEMMA OrderStays ==
  ASSUME PTypeOK, ItemsKept, NEW p \in DOMAIN store, NEW q \in DOMAIN store
  PROVE  Precedes(p, q)' <=> Precedes(p, q)
<1>1. /\ NewestStable(p, q)' <=> NewestStable(p, q)
      /\ NewestThenId(p, q)' <=> NewestThenId(p, q)
      /\ LastSavedFirst(p, q)' <=> LastSavedFirst(p, q)
  BY DEF ItemsKept, NewestStable, NewestThenId, LastSavedFirst
<1>2. listing \in AllListings /\ listing' = listing
  BY ListingsAssumption DEF PTypeOK, ItemsKept
<1>3. CASE listing \in {"intents_memory", "ledger_memory", "endpoints"}
  BY <1>1, <1>2, <1>3 DEF Precedes, InMemoryIntents, InMemoryLedger, Endpoints
<1>4. CASE listing \in OrderedById
  BY <1>1, <1>2, <1>4 DEF OrderedById, InPostgres, Precedes, PostgresIntents, PostgresLedger,
                          InMemoryEvents, DurableEvents
<1>5. CASE listing \in {"deliveries", "dead_letters"}
  BY <1>1, <1>2, <1>5 DEF Precedes, Deliveries, DeadLetters
<1> QED
  BY <1>2, <1>3, <1>4, <1>5 DEF AllListings, InMemory, InPostgres, OrderedById

-----------------------------------------------------------------------------
(* A list *)

Before(p) == { q \in Matching : Precedes(q, p) }
Place(p)  == 1 + Cardinality(Before(p))

LEMMA MatchingFacts ==
  ASSUME PTypeOK
  PROVE  /\ Matching \subseteq DOMAIN store /\ IsFiniteSet(Matching)
         /\ Cardinality(Matching) \in Nat
<1>1. Matching \subseteq 1..Len(store) /\ 1 \in Int /\ Len(store) \in Int
  BY StoreFacts DEF Matching
<1>2. IsFiniteSet(1..Len(store))
  BY <1>1, FS_Interval
<1>3. IsFiniteSet(Matching)
  BY <1>1, <1>2, FS_Subset
<1> QED
  BY <1>1, <1>3, StoreFacts, FS_CardinalityType

\* An item that comes before another has a smaller place.
LEMMA PlaceFacts ==
  ASSUME PTypeOK, DistinctIds
  PROVE  /\ \A p \in Matching : Place(p) \in 1..Cardinality(Matching)
         /\ \A p, q \in Matching : Precedes(p, q) => Place(p) < Place(q)
<1>1. \A p : IsFiniteSet(Before(p)) /\ Cardinality(Before(p)) \in Nat
  <2>1. \A p : Before(p) \in SUBSET Matching
    BY DEF Before
  <2> QED
    BY <2>1, MatchingFacts, FS_Subset, FS_CardinalityType
<1>2. ASSUME NEW p \in Matching
      PROVE  Place(p) \in 1..Cardinality(Matching)
  <2>1. Before(p) \in SUBSET Matching /\ p \notin Before(p)
    BY MatchingFacts, OrderFacts DEF Before
  <2>2. /\ Cardinality(Before(p)) <= Cardinality(Matching)
        /\ Cardinality(Before(p)) # Cardinality(Matching)
    BY <2>1, MatchingFacts, FS_Subset
  <2> QED
    BY <1>1, <2>2, MatchingFacts DEF Place
<1>3. ASSUME NEW p \in Matching, NEW q \in Matching, Precedes(p, q)
      PROVE  Place(p) < Place(q)
  <2>1. Before(p) \in SUBSET Before(q)
    BY <1>3, MatchingFacts, OrderFacts DEF Before
  <2>2. p \in Before(q) /\ p \notin Before(p)
    BY <1>3, MatchingFacts, OrderFacts DEF Before
  <2>3. /\ Cardinality(Before(p)) <= Cardinality(Before(q))
        /\ Cardinality(Before(p)) # Cardinality(Before(q))
    BY <1>1, <2>1, <2>2, FS_Subset
  <2> QED
    BY <1>1, <2>3 DEF Place
<1> QED
  BY <1>2, <1>3

\* A list shows every matching item once, and in its order.
LEMMA CollectionFacts ==
  ASSUME PTypeOK, DistinctIds
  PROVE  /\ Collection \in Seq(Matching) /\ Len(Collection) = Cardinality(Matching)
         /\ Len(Collection) \in Nat /\ DOMAIN Collection = 1..Len(Collection)
         /\ \A p \in Matching : \E k \in 1..Len(Collection) : Collection[k] = p
         /\ \A k, l \in 1..Len(Collection) : k < l <=> Precedes(Collection[k], Collection[l])
<1> DEFINE n == Cardinality(Matching)
           f == [p \in Matching |-> Place(p)]
<1>1. n \in Nat /\ IsFiniteSet(1..n) /\ Cardinality(1..n) = n
  BY MatchingFacts, FS_Interval
<1>2. f \in [Matching -> 1..n]
  BY PlaceFacts
<1>3. \A p, q \in Matching : f[p] = f[q] => p = q
  <2> SUFFICES ASSUME NEW p \in Matching, NEW q \in Matching, Place(p) = Place(q)
               PROVE  p = q
    OBVIOUS
  <2>1. ~ Precedes(p, q) /\ ~ Precedes(q, p)
    <3>1. Place(p) \in Nat /\ Place(q) \in Nat
      BY PlaceFacts, <1>1
    <3> QED
      BY <3>1, PlaceFacts
  <2> QED
    BY <2>1, MatchingFacts, OrderFacts
<1>4. f \in Surjection(Matching, 1..n)
  <2>1. f \in Injection(Matching, 1..n)
    BY <1>2, <1>3, Fun_IsInj
  <2> QED
    BY <2>1, <1>1, FS_Injection
<1> DEFINE places    == { <<1 + Cardinality({ q \in Matching : Precedes(q, p) }), p>> : p \in Matching }
           ItemAt(k) == CHOOSE p \in Matching : <<k, p>> \in places
<1>5. ASSUME NEW k \in 1..n
      PROVE  ItemAt(k) \in Matching /\ Place(ItemAt(k)) = k
  <2>1. \E p \in Matching : Place(p) = k
    <3> HIDE DEF f
    <3>1. \E p \in Matching : f[p] = k
      BY <1>4 DEF Surjection
    <3> QED
      BY <3>1 DEF f
  <2>2. \A p \in Matching : <<k, p>> \in places <=> Place(p) = k
    BY DEF Place, Before
  <2> HIDE DEF places
  <2> QED
    BY <2>1, <2>2
<1>6. Collection = [k \in 1..n |-> ItemAt(k)]
  BY DEF Collection
<1> HIDE DEF f, ItemAt
<1>7. /\ Collection \in Seq(Matching) /\ Len(Collection) = n /\ DOMAIN Collection = 1..n
      /\ \A k \in 1..n : Collection[k] \in Matching /\ Place(Collection[k]) = k
  BY <1>1, <1>5, <1>6
<1>8. \A p \in Matching : Collection[Place(p)] = p /\ Place(p) \in 1..n
  <2> SUFFICES ASSUME NEW p \in Matching
               PROVE  Collection[Place(p)] = p /\ Place(p) \in 1..n
    OBVIOUS
  <2>1. Place(p) \in 1..n
    BY PlaceFacts
  <2>2. Collection[Place(p)] \in Matching /\ Place(Collection[Place(p)]) = Place(p)
    BY <2>1, <1>7
  <2> QED
    BY <2>1, <2>2, <1>3 DEF f
<1>9. ASSUME NEW k \in 1..n, NEW l \in 1..n
      PROVE  k < l <=> Precedes(Collection[k], Collection[l])
  <2>1. /\ Collection[k] \in Matching /\ Place(Collection[k]) = k
        /\ Collection[l] \in Matching /\ Place(Collection[l]) = l
    BY <1>7
  <2>2. Precedes(Collection[k], Collection[l]) => k < l
    BY <2>1, PlaceFacts
  <2>3. Precedes(Collection[l], Collection[k]) => l < k
    BY <2>1, PlaceFacts
  <2>4. k < l => Collection[k] # Collection[l]
    BY <2>1, <1>1
  <2>5. k < l => ~ (l < k)
    BY <1>1
  <2> QED
    BY <2>1, <2>2, <2>3, <2>4, <2>5, MatchingFacts, OrderFacts
<1> QED
  BY <1>1, <1>7, <1>8, <1>9

-----------------------------------------------------------------------------
(* A page *)

InOrder(s)  == \A i, j \in DOMAIN s : i < j => Precedes(s[i], s[j])
Ahead(c, p) == c = NoCursor \/ Precedes(c, p)

\* What the list has after the cursor.
Rest(c) == { p \in Matching : Ahead(c, p) }

LEMMA RestFacts ==
  ASSUME PTypeOK
  PROVE  /\ Rest(NoCursor) = Matching /\ NoCursor \notin DOMAIN store
         /\ \A c : Rest(c) \subseteq Matching /\ Rest(c) \subseteq DOMAIN store
         /\ \A c \in DOMAIN store : Rest(c) = { p \in Matching : Precedes(c, p) }
<1>1. NoCursor \notin DOMAIN store
  BY StoreFacts DEF NoCursor
<1> QED
  BY <1>1, MatchingFacts DEF Rest, Ahead

LEMMA FirstFacts ==
  ASSUME PTypeOK, DistinctIds, NEW c, c = NoCursor \/ c \in Matching
  PROVE  /\ First(Collection, c) \in 1..(Len(Collection) + 1)
         /\ \A k \in 1..Len(Collection) :
              First(Collection, c) <= k <=> Collection[k] \in Rest(c)
<1> DEFINE all == Collection
<1>1. /\ all \in Seq(Matching) /\ Len(all) \in Nat /\ DOMAIN all = 1..Len(all)
      /\ \A k \in 1..Len(all) : all[k] \in Matching
      /\ \A p \in Matching : \E k \in 1..Len(all) : all[k] = p
      /\ \A k, l \in 1..Len(all) : k < l <=> Precedes(all[k], all[l])
  BY CollectionFacts
<1> HIDE DEF all
<1>2. CASE c = NoCursor
  BY <1>1, <1>2, RestFacts DEF First, all
<1>3. CASE c # NoCursor
  <2> DEFINE at == CHOOSE k \in DOMAIN all : all[k] = c
  <2>1. at \in 1..Len(all) /\ all[at] = c
    <3>1. \E k \in DOMAIN all : all[k] = c
      BY <1>1, <1>3
    <3> QED
      BY <3>1, <1>1
  <2>2. First(all, c) = 1 + at
    BY <1>3 DEF First
  <2> HIDE DEF at
  <2>3. c \in DOMAIN store
    BY <1>3, MatchingFacts
  <2>4. ASSUME NEW k \in 1..Len(all)
        PROVE  First(all, c) <= k <=> all[k] \in Rest(c)
    <3>1. First(all, c) <= k <=> at < k
      BY <2>1, <2>2, <1>1
    <3>2. at < k <=> Precedes(c, all[k])
      BY <2>1, <1>1
    <3>3. all[k] \in Rest(c) <=> Precedes(c, all[k])
      BY <1>1, <2>3, RestFacts
    <3> QED
      BY <3>1, <3>2, <3>3
  <2> QED
    BY <1>1, <2>1, <2>2, <2>4 DEF all
<1> QED
  BY <1>2, <1>3

More(c, page) == HasMore(Collection, First(Collection, c), page)

\* A page shows the first items of what the list has after the cursor, and its last
\* item is a cursor for what is left.
LEMMA PageFacts ==
  ASSUME PTypeOK, DistinctIds, NEW c, c = NoCursor \/ c \in Matching, NEW limit \in Nat \ {0},
         NEW page, page = PageOf(Collection, First(Collection, c), limit)
  PROVE  /\ page \in Seq(Matching) /\ InOrder(page)
         /\ More(c, page) => page # <<>>
         /\ Rest(c) = ToSet(page) \cup (IF More(c, page) THEN Rest(Last(page)) ELSE {})
<1> DEFINE all   == Collection
           first == First(all, c)
           last  == IF first + limit - 1 < Len(all) THEN first + limit - 1 ELSE Len(all)
<1>1. /\ all \in Seq(Matching) /\ Len(all) \in Nat /\ DOMAIN all = 1..Len(all)
      /\ \A k \in 1..Len(all) : all[k] \in Matching
      /\ \A p \in Matching : \E k \in 1..Len(all) : all[k] = p
      /\ \A k, l \in 1..Len(all) : k < l <=> Precedes(all[k], all[l])
  BY CollectionFacts
<1>2. /\ first \in 1..(Len(all) + 1)
      /\ \A k \in 1..Len(all) : first <= k <=> all[k] \in Rest(c)
  BY FirstFacts
<1>3. page = SubSeq(all, first, last) /\ (More(c, page) <=> first + Len(page) <= Len(all))
  BY DEF PageOf, HasMore, More
<1> HIDE DEF all, first
<1>4. /\ last \in first - 1..Len(all)
      /\ last < Len(all) => first <= last
  BY <1>1, <1>2
<1> HIDE DEF last
<1>5. first \in Int /\ last \in Int /\ \A i \in first..last : all[i] \in Matching
  BY <1>1, <1>2, <1>4
<1>6. /\ page \in Seq(Matching)
      /\ Len(page) = IF first <= last THEN last - first + 1 ELSE 0
      /\ \A i \in 1..(last - first + 1) : page[i] = all[first + i - 1]
  BY <1>3, <1>5, SubSeqProperties
<1>7. Len(page) = last - first + 1 /\ Len(page) \in Nat /\ DOMAIN page = 1..Len(page)
  BY <1>2, <1>4, <1>5, <1>6, LenProperties
<1>8. More(c, page) <=> last < Len(all)
  <2>1. first + Len(page) <= Len(all) <=> last < Len(all)
    BY <1>1, <1>4, <1>5, <1>7
  <2> QED
    BY <2>1, <1>3
<1>9. \A i \in DOMAIN page : /\ first + i - 1 \in 1..Len(all) /\ first + i - 1 \in first..last
                            /\ page[i] = all[first + i - 1]
  <2> SUFFICES ASSUME NEW i \in 1..(last - first + 1)
               PROVE  /\ first + i - 1 \in 1..Len(all) /\ first + i - 1 \in first..last
                      /\ page[i] = all[first + i - 1]
    BY <1>7
  <2>1. first + i - 1 \in 1..Len(all) /\ first + i - 1 \in first..last
    BY <1>1, <1>2, <1>4, <1>5
  <2> QED
    BY <2>1, <1>6
<1>10. InOrder(page)
  <2> SUFFICES ASSUME NEW i \in DOMAIN page, NEW j \in DOMAIN page, i < j
               PROVE  Precedes(page[i], page[j])
    BY DEF InOrder
  <2>1. first + i - 1 < first + j - 1
    BY <1>5, <1>7
  <2> QED
    BY <2>1, <1>1, <1>9
<1>11. More(c, page) => /\ page # <<>> /\ Last(page) = all[last] /\ last \in 1..Len(all)
  <2> SUFFICES ASSUME More(c, page)
               PROVE  page # <<>> /\ Last(page) = all[last] /\ last \in 1..Len(all)
    OBVIOUS
  <2>1. first <= last /\ Len(page) \in 1..(last - first + 1) /\ first + Len(page) - 1 = last
    BY <1>1, <1>2, <1>4, <1>5, <1>7, <1>8
  <2>2. last \in 1..Len(all)
    BY <2>1, <1>1, <1>2, <1>4
  <2> QED
    BY <2>1, <2>2, <1>6, <1>7, EmptySeq DEF Last
<1>12. \A k \in 1..Len(all) : all[k] \in ToSet(page) <=> first <= k /\ k <= last
  <2>1. ASSUME NEW k \in 1..Len(all), first <= k, k <= last
        PROVE  all[k] \in ToSet(page)
    <3>1. k - first + 1 \in 1..Len(page) /\ first + (k - first + 1) - 1 = k
      BY <2>1, <1>1, <1>2, <1>5, <1>7
    <3>2. page[k - first + 1] = all[k]
      BY <3>1, <1>6, <1>7
    <3> QED
      BY <3>1, <3>2, <1>7 DEF ToSet
  <2>2. ASSUME NEW k \in 1..Len(all), all[k] \in ToSet(page)
        PROVE  first <= k /\ k <= last
    <3>1. PICK i \in DOMAIN page : page[i] = all[k]
      BY <2>2 DEF ToSet
    <3>2. /\ first + i - 1 \in 1..Len(all) /\ all[first + i - 1] = all[k]
          /\ first + i - 1 \in first..last
        BY <3>1, <1>9
    <3>3. all[k] \in DOMAIN store
      BY <1>1, MatchingFacts
    <3>4. ~ Precedes(all[k], all[k])
      BY <3>3, OrderFacts
    <3>5. ~ (first + i - 1 < k) /\ ~ (k < first + i - 1)
      BY <3>2, <3>4, <1>1
    <3>6. k = first + i - 1
      BY <3>2, <3>5, <1>1
    <3> QED
      BY <3>2, <3>6
  <2> QED
    BY <2>1, <2>2
<1>13. More(c, page) => \A k \in 1..Len(all) : all[k] \in Rest(Last(page)) <=> last < k
  <2> SUFFICES ASSUME More(c, page), NEW k \in 1..Len(all)
               PROVE  all[k] \in Rest(Last(page)) <=> last < k
    OBVIOUS
  <2>1. Last(page) = all[last] /\ last \in 1..Len(all) /\ Last(page) \in DOMAIN store
    BY <1>1, <1>11, MatchingFacts
  <2> QED
    BY <2>1, <1>1, RestFacts
<1>14. \A k \in 1..Len(all) :
         all[k] \in Rest(c) <=> all[k] \in ToSet(page) \/ (More(c, page) /\ all[k] \in Rest(Last(page)))
  <2> SUFFICES ASSUME NEW k \in 1..Len(all)
               PROVE  all[k] \in Rest(c)
                      <=> all[k] \in ToSet(page) \/ (More(c, page) /\ all[k] \in Rest(Last(page)))
    OBVIOUS
  <2>1. first <= k <=> (first <= k /\ k <= last) \/ last < k
    BY <1>1, <1>4, <1>5
  <2>2. last < k => More(c, page)
    BY <1>1, <1>5, <1>8
  <2> QED
    BY <2>1, <2>2, <1>2, <1>12, <1>13
<1>15. ToSet(page) \subseteq Matching
  <2>1. \A i \in DOMAIN page : page[i] \in Matching
    BY <1>6, <1>7
  <2> QED
    BY <2>1 DEF ToSet
<1> QED
  <2>1. Rest(c) \subseteq Matching /\ Rest(Last(page)) \subseteq Matching
    BY RestFacts
  <2>2. \A p \in Matching :
          p \in Rest(c) <=> p \in ToSet(page) \/ (More(c, page) /\ p \in Rest(Last(page)))
    BY <1>1, <1>14
  <2> QED
    BY <2>1, <2>2, <1>6, <1>10, <1>11, <1>15

-----------------------------------------------------------------------------
(* The inductive invariant *)

\* The ledger shows every entry, in the order of their times.
LedgerInOrder ==
  listing = "ledger_memory" =>
    /\ Matching = DOMAIN store
    /\ \A p \in DOMAIN store : store[p].at <= now
    /\ \A p, q \in DOMAIN store : p <= q => store[p].at <= store[q].at

AtCursor ==
  walk.pc = "walking" => walk.cursor = IF walk.seen = <<>> THEN NoCursor ELSE Last(walk.seen)

\* What the walk has shown, and what it would show if nothing changed any more.
Shown   == ToSet(walk.seen)
ToShow  == IF walk.pc = "walking" THEN Rest(walk.cursor) ELSE {}
Walking == walk.pc \in {"walking", "done"}

StillToCome == Walking => required \subseteq Shown \cup ToShow

OneMoment ==
  Walking /\ listing = "ledger_memory" =>
    \E moment \in walk.begun..Len(store) : Shown \cup ToShow = 1..moment

ListInv ==
  /\ PTypeOK /\ DistinctIds /\ LedgerInOrder
  /\ InOrder(walk.seen) /\ AtCursor /\ StillToCome /\ OneMoment

LEMMA WalkFacts ==
  ASSUME PTypeOK
  PROVE  /\ walk.seen \in Seq(DOMAIN store) /\ Len(walk.seen) \in Nat
         /\ DOMAIN walk.seen = 1..Len(walk.seen)
         /\ \A i \in DOMAIN walk.seen : walk.seen[i] \in DOMAIN store
         /\ Shown \subseteq DOMAIN store
         /\ walk.cursor = NoCursor \/ walk.cursor \in DOMAIN store
         /\ walk.begun \in 0..Len(store)
<1>1. /\ walk.seen \in Seq(1..Len(store)) /\ walk.cursor \in 0..Len(store)
      /\ walk.begun \in 0..Len(store)
  BY DEF PTypeOK
<1>2. walk.seen \in Seq(DOMAIN store)
  BY <1>1, StoreFacts
<1>3. /\ Len(walk.seen) \in Nat /\ DOMAIN walk.seen = 1..Len(walk.seen)
      /\ \A i \in DOMAIN walk.seen : walk.seen[i] \in DOMAIN store
  BY <1>2, LenProperties, ElementOfSeq
<1>4. Shown \subseteq DOMAIN store
  BY <1>3 DEF Shown, ToSet
<1>5. walk.cursor = NoCursor \/ walk.cursor \in DOMAIN store
  BY <1>1, StoreFacts DEF NoCursor
<1> QED
  BY <1>1, <1>2, <1>3, <1>4, <1>5

LEMMA ListInit == PInit => ListInv
<1> SUFFICES ASSUME PInit
             PROVE  ListInv
  OBVIOUS
<1>1. store = <<>> /\ Len(store) = 0 /\ DOMAIN store = {} /\ store \in Seq(Item)
  BY EmptySeq DEF PInit
<1>2. walk.seen = <<>> /\ walk.seen \in Seq(1..Len(store)) /\ DOMAIN walk.seen = {}
  BY EmptySeq DEF PInit
<1>3. PTypeOK
  BY <1>1, <1>2, LimitAssumption DEF PInit, PTypeOK, NoCursor
<1>4. DistinctIds /\ LedgerInOrder
  BY <1>1 DEF DistinctIds, LedgerInOrder, Matching
<1>5. InOrder(walk.seen) /\ AtCursor /\ StillToCome /\ OneMoment
  BY <1>2 DEF PInit, InOrder, AtCursor, StillToCome, OneMoment, Walking
<1> QED
  BY <1>3, <1>4, <1>5 DEF ListInv

\* What the items that are kept say of a walk that does not move.
LEMMA WalkStays ==
  ASSUME ListInv, ItemsKept, walk' = walk
  PROVE  /\ InOrder(walk.seen)' /\ AtCursor' /\ Shown' = Shown
         /\ \A c \in {NoCursor} \cup DOMAIN store, p \in DOMAIN store : Ahead(c, p)' <=> Ahead(c, p)
<1> USE DEF ListInv
<1>1. \A p, q \in DOMAIN store : Precedes(p, q)' <=> Precedes(p, q)
  BY OrderStays
<1>2. InOrder(walk.seen)'
  BY <1>1, WalkFacts DEF InOrder
<1>3. AtCursor' /\ Shown' = Shown
  BY DEF AtCursor, Shown
<1>4. \A c \in {NoCursor} \cup DOMAIN store, p \in DOMAIN store : Ahead(c, p)' <=> Ahead(c, p)
  BY <1>1 DEF Ahead
<1> QED
  BY <1>2, <1>3, <1>4

-----------------------------------------------------------------------------
(* The steps *)

LEMMA SaveTypes ==
  ASSUME PTypeOK, NEW item \in Item, Saved(item), UNCHANGED <<listing, now, changes, walk, required>>
  PROVE  PTypeOK'
<1>1. store' \in Seq(Item) /\ Len(store') = Len(store) + 1 /\ Len(store) \in Nat
      /\ DOMAIN store \subseteq DOMAIN store'
  BY SavedStore DEF ItemsKept
<1>2. 1..Len(store) \subseteq 1..Len(store') /\ 0..Len(store) \subseteq 0..Len(store')
  BY <1>1
<1>3. walk.seen \in Seq(1..Len(store'))
  BY <1>2, SeqMonotonic DEF PTypeOK
<1>4. walk' \in [ pc : {"idle", "walking", "refused", "done"}, cursor : 0..Len(store'),
                  seen : Seq(1..Len(store')), begun : 0..Len(store') ]
  BY <1>2, <1>3 DEF PTypeOK
<1> QED
  BY <1>1, <1>4 DEF PTypeOK

\* A new item may come after the cursor, and nothing else changes in the list.
LEMMA SaveRest ==
  ASSUME ListInv, NEW item \in Item, Saved(item), UNCHANGED <<listing, now, changes, walk, required>>
  PROVE  /\ ToShow \subseteq ToShow' /\ ToShow' \subseteq ToShow \cup {Len(store) + 1}
         /\ item.matches => (Matching' = Matching \cup {Len(store) + 1})
<1> USE DEF ListInv
<1>1. /\ DOMAIN store' = DOMAIN store \cup {Len(store) + 1}
      /\ \A p \in DOMAIN store : store'[p] = store[p]
      /\ store'[Len(store) + 1] = item /\ ItemsKept
  <2>1. 1..(Len(store) + 1) = 1..Len(store) \cup {Len(store) + 1}
    BY SavedStore
  <2> QED
    BY <2>1, SavedStore
<1>2. Matching \subseteq Matching' /\ Matching' \subseteq Matching \cup {Len(store) + 1}
  BY <1>1 DEF Matching
<1>3. item.matches => (Matching' = Matching \cup {Len(store) + 1})
  BY <1>1 DEF Matching
<1>4. \A p \in DOMAIN store : Ahead(walk.cursor, p)' <=> Ahead(walk.cursor, p)
  BY <1>1, WalkFacts, WalkStays
<1>5. /\ Rest(walk.cursor) \subseteq Rest(walk.cursor)'
      /\ Rest(walk.cursor)' \subseteq Rest(walk.cursor) \cup {Len(store) + 1}
  BY <1>2, <1>4, MatchingFacts DEF Rest
<1>6. /\ ToShow \subseteq ToShow' /\ ToShow' \subseteq ToShow \cup {Len(store) + 1}
  BY <1>5 DEF ToShow
<1> QED
  BY <1>3, <1>6

\* A new entry of the ledger is shown by a walk only if the walk is at the newest ones.
LEMMA SaveOneMoment ==
  ASSUME ListInv, NEW item \in Item, Saved(item), UNCHANGED <<listing, now, changes, walk, required>>
  PROVE  OneMoment'
<1> USE DEF ListInv
<1> SUFFICES ASSUME Walking, listing = "ledger_memory"
             PROVE  \E moment \in walk.begun..Len(store') : Shown' \cup ToShow' = 1..moment
  BY DEF OneMoment, Walking
<1> PICK n : n = Len(store)
  OBVIOUS
<1> PICK c : c = walk.cursor
  OBVIOUS
<1>1. /\ DOMAIN store' = 1..(n + 1) /\ DOMAIN store = 1..n /\ n \in Nat /\ Len(store') = n + 1
      /\ \A p \in DOMAIN store : store'[p] = store[p]
      /\ store'[n + 1] = item
  BY SavedStore
<1>2. item.at = now
  BY TimesFacts DEF Saved, InPostgres
<1>3. PICK moment \in walk.begun..n : Shown \cup ToShow = 1..moment
  BY DEF OneMoment
<1>4. Shown' = Shown /\ ToShow \subseteq ToShow' /\ ToShow' \subseteq ToShow \cup {n + 1}
  BY SaveRest, WalkStays, SavedStore
<1>5. walk.begun \in 0..n
  BY WalkFacts
<1>6. CASE n + 1 \notin ToShow'
  <2>1. ToShow' = ToShow
    BY <1>4, <1>6
  <2>2. moment \in walk.begun..Len(store')
    BY <1>1, <1>5
  <2> QED
    BY <1>3, <1>4, <2>1, <2>2
<1>7. CASE n + 1 \in ToShow'
  <2>1. walk.pc = "walking" /\ (c = NoCursor \/ Precedes(c, n + 1)')
    BY <1>7 DEF ToShow, Rest, Ahead
  <2>2. moment = n
    <3> SUFFICES ASSUME n > 0
                 PROVE  n \in 1..moment
      BY <1>1, <1>5
    <3>1. n \in DOMAIN store /\ n \in Matching
      BY <1>1 DEF LedgerInOrder
    <3>2. CASE c = NoCursor
      <4>1. n \in ToShow
        BY <2>1, <3>1, <3>2 DEF ToShow, Rest, Ahead
      <4> QED
        BY <4>1, <1>3
    <3>3. CASE c # NoCursor
      <4>1. c \in DOMAIN store
        BY <3>3, WalkFacts
      <4>2. NewestStable(c, n + 1)'
        BY <2>1, <3>3 DEF Precedes, InMemoryLedger
      <4>3. store[c].at \in Nat /\ store[n].at \in Nat /\ now \in Nat
        <5>1. store[c] \in Item /\ store[n] \in Item
          BY <3>1, <4>1, StoreFacts
        <5>2. store[c].at \in 0..MaxTime /\ store[n].at \in 0..MaxTime /\ now \in 0..MaxTime
          BY <5>1 DEF Item, PTypeOK
        <5>3. 0..MaxTime \subseteq Nat
          BY LimitAssumption
        <5> QED
          BY <5>2, <5>3
      <4>4. store[c].at = now
        <5>1. store'[c].at = store[c].at /\ store'[n + 1].at = now
          BY <1>1, <1>2, <4>1
        <5>2. store[c].at > now \/ store[c].at = now
          BY <4>2, <5>1 DEF NewestStable
        <5>3. store[c].at <= now
          BY <4>1 DEF LedgerInOrder
        <5> QED
          BY <4>3, <5>2, <5>3
      <4>5. store[n].at = now
        <5>1. store[c].at <= store[n].at /\ store[n].at <= now
          BY <1>1, <3>1, <4>1 DEF LedgerInOrder
        <5> QED
          BY <4>3, <4>4, <5>1
      <4>6. CASE c = n
        <5>1. walk.seen # <<>> /\ c = walk.seen[Len(walk.seen)]
          BY <2>1, <3>3 DEF AtCursor, Last
        <5>2. Len(walk.seen) \in DOMAIN walk.seen
          BY <5>1, WalkFacts, EmptySeq
        <5>3. c \in Shown
          BY <5>1, <5>2 DEF Shown, ToSet
        <5> QED
          BY <4>6, <5>3, <1>3
      <4>7. CASE c # n
        <5>1. c < n
          BY <1>1, <4>1, <4>7
        <5>2. Precedes(c, n)
          BY <4>4, <4>5, <5>1, LedgerOrder DEF NewestStable
        <5>3. n \in ToShow
          BY <2>1, <3>1, <5>2 DEF ToShow, Rest, Ahead
        <5> QED
          BY <5>3, <1>3
      <4> QED
        BY <4>6, <4>7
    <3> QED
      BY <3>2, <3>3
  <2>3. Shown' \cup ToShow' = 1..(n + 1)
    <3>1. 1..(n + 1) = 1..n \cup {n + 1}
      BY <1>1
    <3> QED
      BY <1>3, <1>4, <1>7, <2>2, <3>1
  <2>4. n + 1 \in walk.begun..Len(store')
    BY <1>1, <1>5
  <2> QED
    BY <2>3, <2>4
<1> QED
  BY <1>6, <1>7

LEMMA SavesInv ==
  ASSUME ListInv, Saves
  PROVE  ListInv'
<1>1. PICK item \in Item : Saved(item)
  BY SavesFacts DEF ListInv
<1>2. UNCHANGED <<listing, now, changes, walk, required>>
  BY SavesFacts DEF ListInv
<1>3. /\ DOMAIN store' = 1..(Len(store) + 1) /\ DOMAIN store = 1..Len(store) /\ Len(store) \in Nat
      /\ \A p \in DOMAIN store : store'[p] = store[p]
      /\ store'[Len(store) + 1] = item /\ ItemsKept
  BY <1>1, <1>2, SavedStore DEF ListInv
<1>4. \A p \in DOMAIN store' : p \in DOMAIN store \/ p = Len(store) + 1
  BY <1>3
<1>5. PTypeOK'
  BY <1>1, <1>2, SaveTypes DEF ListInv
<1>6. DistinctIds'
  <2>1. \A p \in DOMAIN store : store'[p].id # item.id
    BY <1>1, <1>3 DEF Saved
  <2>2. \A p, q \in DOMAIN store : store'[p].id = store'[q].id => p = q
    BY <1>3 DEF ListInv, DistinctIds
  <2> QED
    BY <1>3, <1>4, <2>1, <2>2 DEF DistinctIds
<1>7. LedgerInOrder'
  <2> SUFFICES ASSUME listing = "ledger_memory"
               PROVE  LedgerInOrder'
    BY <1>2 DEF LedgerInOrder
  <2>1. item.matches /\ item.at = now
    BY <1>1, TimesFacts DEF Saved, InPostgres, ListInv
  <2>2. Matching' = DOMAIN store'
    <3>1. 1..(Len(store) + 1) = 1..Len(store) \cup {Len(store) + 1}
      BY <1>3
    <3> QED
      BY <1>1, <1>2, <1>3, <2>1, <3>1, SaveRest DEF ListInv, LedgerInOrder
  <2>3. \A p \in DOMAIN store' : store'[p].at <= now
    <3>1. now \in Nat
      BY TimesFacts DEF ListInv
    <3> QED
      BY <1>3, <1>4, <2>1, <3>1 DEF ListInv, LedgerInOrder
  <2>4. ASSUME NEW p \in DOMAIN store', NEW q \in DOMAIN store', p <= q
        PROVE  store'[p].at <= store'[q].at
    <3>1. CASE q \in DOMAIN store
      <4>1. p \in DOMAIN store
        BY <1>3, <2>4, <3>1
      <4> QED
        BY <1>3, <2>4, <3>1, <4>1 DEF ListInv, LedgerInOrder
    <3>2. CASE q = Len(store) + 1
      BY <1>3, <2>1, <2>3, <3>2
    <3> QED
      BY <1>4, <3>1, <3>2
  <2> QED
    BY <1>2, <2>2, <2>3, <2>4 DEF LedgerInOrder
<1>8. InOrder(walk.seen)' /\ AtCursor'
  BY <1>2, <1>3, WalkStays
<1>9. StillToCome'
  <2>1. Shown' = Shown /\ ToShow \subseteq ToShow'
    BY <1>1, <1>2, <1>3, SaveRest, WalkStays
  <2> QED
    BY <1>2, <2>1 DEF ListInv, StillToCome, Walking
<1>10. OneMoment'
  BY <1>1, <1>2, SaveOneMoment
<1> QED
  BY <1>5, <1>6, <1>7, <1>8, <1>9, <1>10 DEF ListInv

LEMMA EditInv ==
  ASSUME ListInv, NEW p \in DOMAIN store, MarkPublished(p) \/ Change(p)
  PROVE  ListInv'
<1>1. /\ store' \in Seq(Item) /\ Len(store') = Len(store) /\ DOMAIN store' = DOMAIN store
      /\ ItemsKept
      /\ required' \subseteq required
      /\ \A q \in required' : store[q].matches => store'[q].matches
      /\ listing # "ledger_memory" /\ changes' \in 0..MaxChanges
      /\ UNCHANGED <<listing, now, walk>>
  BY StoreEditFacts DEF ListInv
<1>2. PTypeOK'
  BY <1>1 DEF ListInv, PTypeOK
<1>3. DistinctIds'
  BY <1>1 DEF ListInv, DistinctIds, ItemsKept
<1>4. LedgerInOrder' /\ OneMoment'
  BY <1>1 DEF LedgerInOrder, OneMoment
<1>5. InOrder(walk.seen)' /\ AtCursor' /\ Shown' = Shown
  BY <1>1, WalkStays
<1>6. StillToCome'
  <2> SUFFICES ASSUME Walking, NEW q \in required', q \notin Shown
               PROVE  q \in ToShow'
    BY <1>1, <1>5 DEF StillToCome, Walking
  <2>1. q \in ToShow
    BY <1>1 DEF ListInv, StillToCome
  <2>2. walk.pc = "walking" /\ q \in Matching /\ Ahead(walk.cursor, q)
    BY <2>1 DEF ToShow, Rest
  <2>3. q \in Matching'
    BY <1>1, <2>2 DEF Matching
  <2>4. Ahead(walk.cursor, q)'
    BY <1>1, <2>2, WalkFacts, WalkStays, MatchingFacts DEF ListInv
  <2> QED
    BY <1>1, <2>2, <2>3, <2>4 DEF ToShow, Rest
<1> QED
  BY <1>2, <1>3, <1>4, <1>5, <1>6 DEF ListInv

\* The order of a list and the items in it depend on the store alone.
LEMMA SameStore ==
  ASSUME UNCHANGED <<listing, store>>
  PROVE  /\ Matching' = Matching
         /\ \A p, q : Precedes(p, q)' <=> Precedes(p, q)
         /\ \A c : Rest(c)' = Rest(c)
<1>1. Matching' = Matching
  BY DEF Matching
<1>2. \A p, q : Precedes(p, q)' <=> Precedes(p, q)
  BY DEF Precedes, InMemoryIntents, InMemoryLedger, Endpoints, PostgresIntents, PostgresLedger,
         InMemoryEvents, DurableEvents, Deliveries, DeadLetters, NewestStable, NewestThenId,
         LastSavedFirst
<1>3. \A c : Rest(c)' = Rest(c)
  BY <1>1, <1>2 DEF Rest, Ahead
<1> QED
  BY <1>1, <1>2, <1>3

LEMMA TickInv ==
  ASSUME ListInv, Tick
  PROVE  ListInv'
<1>1. UNCHANGED <<listing, store, changes, walk, required>> /\ now' = now + 1 /\ now < MaxTime
  BY DEF Tick
<1>2. PTypeOK'
  <2>1. now' \in 0..MaxTime
    BY <1>1, LimitAssumption DEF ListInv, PTypeOK
  <2> QED
    BY <1>1, <2>1 DEF ListInv, PTypeOK
<1>3. DistinctIds' /\ InOrder(walk.seen)' /\ AtCursor'
  BY <1>1, SameStore DEF ListInv, DistinctIds, InOrder, AtCursor
<1>4. LedgerInOrder'
  <2>1. ASSUME listing = "ledger_memory", NEW p \in DOMAIN store
        PROVE  store[p].at <= now + 1
    <3>1. store[p].at \in 0..MaxTime
      BY StoreFacts DEF ListInv, Item
    <3>2. store[p].at <= now /\ now \in 0..MaxTime
      BY <2>1 DEF ListInv, LedgerInOrder, PTypeOK
    <3> QED
      BY <3>1, <3>2, LimitAssumption
  <2> QED
    BY <1>1, <2>1, SameStore DEF ListInv, LedgerInOrder
<1>5. StillToCome' /\ OneMoment'
  <2>1. Shown' = Shown /\ ToShow' = ToShow
    BY <1>1, SameStore DEF Shown, ToShow
  <2> QED
    BY <1>1, <2>1 DEF ListInv, StillToCome, OneMoment, Walking
<1> QED
  BY <1>2, <1>3, <1>4, <1>5 DEF ListInv

LEMMA BeginInv ==
  ASSUME ListInv, Begin
  PROVE  ListInv'
<1>1. /\ walk' = [ pc |-> "walking", cursor |-> NoCursor, seen |-> <<>>, begun |-> Len(store) ]
      /\ required' = Matching /\ UNCHANGED <<listing, store, now, changes>>
  BY DEF Begin
<1>2. PTypeOK'
  <2>1. <<>> \in Seq(1..Len(store)) /\ Len(store) \in Nat
    BY EmptySeq, StoreFacts DEF ListInv
  <2>2. walk' \in [ pc : {"idle", "walking", "refused", "done"}, cursor : 0..Len(store),
                    seen : Seq(1..Len(store)), begun : 0..Len(store) ]
    BY <1>1, <2>1 DEF NoCursor
  <2> QED
    BY <1>1, <2>2, MatchingFacts DEF ListInv, PTypeOK
<1>3. DistinctIds' /\ LedgerInOrder'
  BY <1>1, SameStore DEF ListInv, DistinctIds, LedgerInOrder
<1>4. InOrder(walk.seen)' /\ AtCursor'
  <2>1. DOMAIN walk'.seen = {}
    BY <1>1
  <2> QED
    BY <1>1, <2>1 DEF InOrder, AtCursor
<1>5. Shown' = {} /\ ToShow' = Matching
  <2>1. ToShow' = Rest(NoCursor)
    BY <1>1, SameStore DEF ToShow, NoCursor
  <2> QED
    BY <1>1, <2>1, RestFacts DEF Shown, ToSet, ListInv
<1>6. StillToCome' /\ OneMoment'
  <2>1. Len(store) \in Len(store)..Len(store)
    BY StoreFacts DEF ListInv
  <2>2. listing = "ledger_memory" => Matching = 1..Len(store)
    BY StoreFacts DEF ListInv, LedgerInOrder
  <2> QED
    BY <1>1, <1>5, <2>1, <2>2 DEF StillToCome, OneMoment
<1> QED
  BY <1>2, <1>3, <1>4, <1>6 DEF ListInv

\* The elements of u are those of s and then those of t.
Joined(u, s, t) ==
  /\ Len(u) = Len(s) + Len(t) /\ DOMAIN u = 1..(Len(s) + Len(t))
  /\ \A i \in DOMAIN s : i \in DOMAIN u /\ u[i] = s[i]
  /\ \A i \in DOMAIN t : Len(s) + i \in DOMAIN u /\ u[Len(s) + i] = t[i]
  /\ \A k \in DOMAIN u : k \in DOMAIN s \/ \E i \in DOMAIN t : k = Len(s) + i

LEMMA ConcatJoins ==
  ASSUME NEW S, NEW s \in Seq(S), NEW t \in Seq(S)
  PROVE  s \o t \in Seq(S) /\ Joined(s \o t, s, t)
<1> PICK m, n, u : m = Len(s) /\ n = Len(t) /\ u = s \o t
  OBVIOUS
<1>1. m \in Nat /\ n \in Nat /\ DOMAIN s = 1..m /\ DOMAIN t = 1..n
  BY LenProperties
<1>2. u \in Seq(S) /\ Len(u) = m + n
      /\ \A i \in 1..(m + n) : u[i] = IF i <= m THEN s[i] ELSE t[i - m]
  BY ConcatProperties
<1>3. DOMAIN u = 1..(m + n)
  BY <1>1, <1>2, LenProperties
<1>4. \A i \in 1..m : i \in 1..(m + n) /\ i <= m
  BY <1>1
<1>5. \A i \in 1..n : m + i \in 1..(m + n) /\ ~ (m + i <= m) /\ (m + i) - m = i
  BY <1>1
<1>6. \A k \in 1..(m + n) : k \in 1..m \/ (k - m \in 1..n /\ k = m + (k - m))
  BY <1>1
<1>7. \A k \in DOMAIN u : k \in DOMAIN s \/ \E i \in DOMAIN t : k = m + i
  BY <1>1, <1>3, <1>6
<1>8. \A i \in DOMAIN s : i \in DOMAIN u /\ u[i] = s[i]
  BY <1>1, <1>2, <1>3, <1>4
<1>9. \A i \in DOMAIN t : m + i \in DOMAIN u /\ u[m + i] = t[i]
  BY <1>1, <1>2, <1>3, <1>5
<1> QED
  BY <1>1, <1>2, <1>3, <1>7, <1>8, <1>9 DEF Joined

\* A page moves items from what the walk would show to what it has shown.
LEMMA FetchInv ==
  ASSUME ListInv, Fetch
  PROVE  ListInv'
<1> USE DEF ListInv
<1>1. UNCHANGED <<listing, store, now, changes, required>> /\ walk.pc = "walking"
  BY DEF Fetch
<1>2. DistinctIds' /\ LedgerInOrder'
  BY <1>1, SameStore DEF DistinctIds, LedgerInOrder
<1>3. CASE walk' = [walk EXCEPT !.pc = "refused"]
  <2>1. /\ walk'.pc = "refused" /\ walk'.seen = walk.seen
        /\ walk' \in [ pc : {"idle", "walking", "refused", "done"}, cursor : 0..Len(store),
                       seen : Seq(1..Len(store)), begun : 0..Len(store) ]
    BY <1>3 DEF PTypeOK
  <2>2. PTypeOK'
    BY <1>1, <2>1 DEF PTypeOK
  <2> QED
    BY <1>1, <1>2, <2>1, <2>2, SameStore DEF InOrder, AtCursor, StillToCome, OneMoment, Walking
<1>4. CASE walk' # [walk EXCEPT !.pc = "refused"]
  <2>1. walk.cursor = NoCursor \/ walk.cursor \in Matching
    BY <1>4 DEF Fetch
  <2> PICK c : c = walk.cursor
    OBVIOUS
  <2>2. PICK limit, page :
          /\ limit \in Limits
          /\ page = PageOf(Collection, First(Collection, c), limit)
          /\ walk' = [ pc     |-> IF More(c, page) THEN "walking" ELSE "done",
                       cursor |-> IF page = <<>> THEN NoCursor ELSE NextCursor(page, More(c, page)),
                       seen   |-> walk.seen \o page,
                       begun  |-> walk.begun ]
    BY <1>4 DEF Fetch, More
  <2>3. limit \in Nat \ {0}
    BY <2>2, LimitAssumption
  <2>4. /\ page \in Seq(Matching) /\ InOrder(page)
        /\ More(c, page) => page # <<>>
        /\ Rest(c) = ToSet(page) \cup (IF More(c, page) THEN Rest(Last(page)) ELSE {})
    BY <2>1, <2>2, <2>3, PageFacts
  <2>5. /\ page \in Seq(DOMAIN store) /\ Len(page) \in Nat /\ DOMAIN page = 1..Len(page)
        /\ \A i \in 1..Len(page) : page[i] \in Matching
    BY <2>4, MatchingFacts, SeqMonotonic, LenProperties, ElementOfSeq
  <2> DEFINE seen == walk.seen \o page
             m    == Len(walk.seen)
  <2>6. /\ seen \in Seq(DOMAIN store) /\ Len(seen) = m + Len(page) /\ DOMAIN seen = 1..(m + Len(page))
        /\ \A i \in DOMAIN walk.seen : i \in DOMAIN seen /\ seen[i] = walk.seen[i]
        /\ \A i \in DOMAIN page : m + i \in DOMAIN seen /\ seen[m + i] = page[i]
        /\ \A k \in DOMAIN seen : k \in DOMAIN walk.seen \/ \E i \in DOMAIN page : k = m + i
    <3>1. walk.seen \in Seq(DOMAIN store)
      BY WalkFacts
    <3>2. page \in Seq(DOMAIN store)
      BY <2>5
    <3>3. seen \in Seq(DOMAIN store) /\ Joined(seen, walk.seen, page)
      BY <3>1, <3>2, ConcatJoins
    <3> HIDE DEF seen, ListInv
    <3> QED
      BY <3>3 DEF Joined
  <2>7. /\ walk'.pc = IF More(c, page) THEN "walking" ELSE "done"
        /\ walk'.cursor = IF More(c, page) THEN Last(page) ELSE NoCursor
        /\ walk'.seen = seen /\ walk'.begun = walk.begun
    BY <2>2, <2>4 DEF NextCursor
  <2>8. m \in Nat
    BY WalkFacts
  <2> HIDE DEF seen, m
  <2>9. ToSet(seen) = Shown \cup ToSet(page)
    BY <2>6 DEF Shown, ToSet
  <2>10. Last(page) \in DOMAIN store \/ ~ More(c, page)
    BY <2>4, <2>5, MatchingFacts, EmptySeq DEF Last
  <2>11. PTypeOK'
    <3>1. seen \in Seq(1..Len(store)) /\ NoCursor \in 0..Len(store)
      BY <2>6, StoreFacts DEF NoCursor
    <3>2. walk'.cursor \in 0..Len(store)
      BY <2>7, <2>10, <3>1, StoreFacts
    <3>3. walk' \in [ pc : {"idle", "walking", "refused", "done"}, cursor : 0..Len(store),
                      seen : Seq(1..Len(store)), begun : 0..Len(store) ]
      BY <2>2, <2>7, <3>1, <3>2, WalkFacts DEF seen
    <3> QED
      BY <1>1, <2>7, <3>3 DEF PTypeOK
  <2>12. InOrder(seen)
    <3>1. \A j \in DOMAIN page : page[j] \in Rest(c)
      BY <2>4 DEF ToSet
    <3>2. ASSUME NEW i \in DOMAIN walk.seen, NEW j \in DOMAIN page
          PROVE  Precedes(walk.seen[i], page[j])
      <4>1. c = walk.seen[Len(walk.seen)] /\ c \in DOMAIN store /\ Len(walk.seen) \in DOMAIN walk.seen
        <5>1. walk.seen # <<>> /\ Len(walk.seen) \in DOMAIN walk.seen
          BY <3>2, WalkFacts
        <5> QED
          BY <1>1, <5>1, WalkFacts DEF AtCursor, Last
      <4>2. Precedes(c, page[j]) /\ page[j] \in DOMAIN store
        BY <3>1, <4>1, RestFacts
      <4>3. i = Len(walk.seen) \/ Precedes(walk.seen[i], c)
        <5>1. i = Len(walk.seen) \/ i < Len(walk.seen)
          BY WalkFacts
        <5> QED
          BY <4>1, <5>1 DEF InOrder
      <4> QED
        BY <4>1, <4>2, <4>3, WalkFacts, OrderFacts
    <3> SUFFICES ASSUME NEW i \in DOMAIN seen, NEW j \in DOMAIN seen, i < j
                 PROVE  Precedes(seen[i], seen[j])
      BY DEF InOrder
    <3>3. CASE j \in DOMAIN walk.seen
      <4>1. i \in DOMAIN walk.seen
        BY <2>5, <2>6, <2>8, <3>3, WalkFacts DEF m
      <4> QED
        BY <2>6, <3>3, <4>1 DEF InOrder
    <3>4. ASSUME NEW b \in DOMAIN page, j = m + b
          PROVE  Precedes(seen[i], seen[j])
      <4>1. CASE i \in DOMAIN walk.seen
        BY <2>6, <3>2, <3>4, <4>1
      <4>2. ASSUME NEW a \in DOMAIN page, i = m + a
            PROVE  Precedes(seen[i], seen[j])
        <5>1. a < b
          BY <2>5, <2>8, <3>4, <4>2
        <5> QED
          BY <2>4, <2>6, <3>4, <4>2, <5>1 DEF InOrder
      <4> QED
        BY <2>6, <4>1, <4>2
    <3> QED
      BY <2>6, <3>3, <3>4
  <2>13. InOrder(walk.seen)'
    BY <1>1, <2>7, <2>12, SameStore DEF InOrder
  <2>14. AtCursor'
    <3> SUFFICES ASSUME More(c, page)
                 PROVE  seen # <<>> /\ Last(page) = Last(seen)
      BY <2>7 DEF AtCursor
    <3>1. Len(page) \in Nat \ {0}
      BY <2>4, <2>5, EmptySeq
    <3>2. Len(page) \in DOMAIN page /\ Len(seen) # 0
      BY <2>5, <2>6, <2>8, <3>1
    <3>3. seen # <<>>
      BY <3>2, EmptySeq
    <3> QED
      BY <2>6, <3>2, <3>3 DEF Last
  <2>15. Shown' \cup ToShow' = Shown \cup ToShow
    <3>1. ToShow = Rest(c)
      BY <1>1 DEF ToShow
    <3>2. Shown' = Shown \cup ToSet(page)
      BY <2>7, <2>9 DEF Shown
    <3>3. ToShow' = IF More(c, page) THEN Rest(Last(page)) ELSE {}
      BY <1>1, <2>7, SameStore DEF ToShow
    <3> QED
      BY <2>4, <3>1, <3>2, <3>3
  <2>16. StillToCome' /\ OneMoment'
    BY <1>1, <2>7, <2>15 DEF StillToCome, OneMoment, Walking
  <2> QED
    BY <1>2, <2>11, <2>13, <2>14, <2>16
<1> QED
  BY <1>3, <1>4

LEMMA ListNext == ListInv /\ [PNext]_pvars => ListInv'
<1> SUFFICES ASSUME ListInv, [PNext]_pvars
             PROVE  ListInv'
  OBVIOUS
<1>1. CASE Saves
  BY <1>1, SavesInv
<1>2. ASSUME NEW p \in DOMAIN store, MarkPublished(p) \/ Change(p)
      PROVE  ListInv'
  BY <1>2, EditInv
<1>3. CASE Tick
  BY <1>3, TickInv
<1>4. CASE Begin
  BY <1>4, BeginInv
<1>5. CASE Fetch
  BY <1>5, FetchInv
<1>6. CASE UNCHANGED pvars
  <2>1. UNCHANGED <<listing, store, now, changes, walk, required>>
    BY <1>6 DEF pvars
  <2>2. Shown' = Shown /\ ToShow' = ToShow
    BY <2>1, SameStore DEF Shown, ToShow
  <2> QED
    BY <2>1, <2>2, SameStore DEF ListInv, PTypeOK, DistinctIds, LedgerInOrder, InOrder, AtCursor,
       StillToCome, OneMoment, Walking
<1> QED
  BY <1>1, <1>2, <1>3, <1>4, <1>5, <1>6 DEF PNext, Saves

LEMMA ListInvariant == PSpec => []ListInv
<1> QED
  BY ListInit, ListNext, PTL DEF PSpec

-----------------------------------------------------------------------------
(* The theorems *)

\* The variables of a list and of its walk have their types.
THEOREM ListsTypeCorrect == PSpec => []PTypeOK
<1>1. ListInv => PTypeOK
  BY DEF ListInv
<1> QED
  BY <1>1, ListInvariant, PTL

\* However the collection changes between pages, a walk shows no item twice.
THEOREM WalksShowNoItemTwice == PSpec => []NoItemTwice
<1>1. ListInv => NoItemTwice
  <2> SUFFICES ASSUME ListInv, NEW i \in DOMAIN walk.seen, NEW j \in DOMAIN walk.seen,
                      walk.seen[i] = walk.seen[j]
               PROVE  i = j
    BY DEF NoItemTwice, IsInjective
  <2>1. walk.seen[i] \in DOMAIN store /\ i \in Nat /\ j \in Nat
    BY WalkFacts DEF ListInv
  <2>2. ~ Precedes(walk.seen[i], walk.seen[j]) /\ ~ Precedes(walk.seen[j], walk.seen[i])
    BY <2>1, OrderFacts DEF ListInv
  <2>3. ~ (i < j) /\ ~ (j < i)
    BY <2>2 DEF ListInv, InOrder
  <2> QED
    BY <2>1, <2>3
<1> QED
  BY <1>1, ListInvariant, PTL

\* A walk that came to its end has shown every item that was in the list all the time.
THEOREM WalksSkipNothing == PSpec => []NothingSkipped
<1>1. ListInv => NothingSkipped
  BY DEF ListInv, StillToCome, NothingSkipped, Walking, Shown, ToShow
<1> QED
  BY <1>1, ListInvariant, PTL

\* A reconciliation of the ledger in memory adds up what the ledger was at one moment.
THEOREM ReconciliationsOfOneMoment == PSpec => []SummaryOfOneMoment
<1>1. ListInv => SummaryOfOneMoment
  <2> SUFFICES ASSUME ListInv, walk.pc = "done", listing = "ledger_memory"
               PROVE  \E moment \in walk.begun..Len(store) :
                        Reconciliation(ToSet(walk.seen)) = Reconciliation(1..moment)
    BY DEF SummaryOfOneMoment
  <2>1. PICK moment \in walk.begun..Len(store) : Shown \cup ToShow = 1..moment
    BY DEF ListInv, OneMoment, Walking
  <2>2. ToSet(walk.seen) = 1..moment
    BY <2>1 DEF Shown, ToShow
  <2> QED
    BY <2>2
<1> QED
  BY <1>1, ListInvariant, PTL

=============================================================================
