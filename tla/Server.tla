--------------------------------- MODULE Server ---------------------------------
(***************************************************************************)
(* One server of a fleet, from its environment to its end: the             *)
(* configuration it takes or refuses (infra/config.ts), the application    *)
(* built from it and the connections it opens, the consumer loop of the    *)
(* durable bus, requests, and the shutdown (server.ts).  What the client   *)
(* keeps outlives the process: the token of a list (infra/cursor-token.ts) *)
(* and the webhook endpoint it registered and edits, which the server has  *)
(* in memory only.                                                         *)
(*                                                                         *)
(* Of the other servers only the cursor secrets matter.  A crash, the      *)
(* stream of events, PostgreSQL and Redis are external.                    *)
(***************************************************************************)
EXTENDS Integers, Sequences

CONSTANTS
  Environments,  \* environments a process may be started with
  Secrets,       \* secrets of cursors
  Rollout,       \* lists of cursor secrets, each rolled out to the whole fleet in turn
  Clients,       \* clients that edit the webhook endpoint
  Urls,
  DevKey,        \* the default of PMC_API_KEY
  DevSecret,     \* the default of PMC_CURSOR_SECRET
  None,          \* no endpoint, no token, no condition
  MaxBatch,      \* bound: events of a batch
  MaxRotations   \* bound: rotations of the endpoint's secret

Unset == 0 - 1

Backends == [ payment : {"memory", "postgres"}, idempotency : {"memory", "postgres"},
              rate    : {"memory", "redis"},    bus         : {"memory", "durable"} ]

ASSUME EnvironmentsAssumption ==
  \A e \in Environments :
    /\ e.backends \in Backends
    /\ e.postgresUrl \in BOOLEAN /\ e.redisUrl \in BOOLEAN /\ e.production \in BOOLEAN
    /\ e.listDefaultLimit \in Nat \cup {Unset} /\ e.listMaxLimit \in Nat \cup {Unset}
ASSUME RolloutAssumption ==
  /\ Rollout \in Seq(Seq(Secrets)) /\ Rollout # <<>>
  /\ \A k \in DOMAIN Rollout : Rollout[k] # <<>>
ASSUME NoneAssumption == None \notin [ url : Urls, secret : Nat ]
ASSUME BoundAssumption == MaxBatch \in Nat \ {0} /\ MaxRotations \in Nat

VARIABLES
  phase,       \* of the process
  config,      \* its configuration
  open,        \* connections that are open
  running,     \* does the consumer loop go on to another batch?
  loop,        \* what the consumer loop waits for
  batch,       \* messages left of its batch
  request,     \* what a payment request waits for
  endpoint,    \* the webhook endpoint registered with this process
  edits,       \* per client: the content it knows, or the edit that is under way
  registered,  \* has a client been told that its endpoint is registered?
  stage,       \* of the rollout
  others,      \* stage that the other servers are at
  token        \* secret that signed the client's cursor

process == <<phase, config, open>>
consumer == <<running, loop, batch>>
webhooks == <<endpoint, edits, registered>>
cursors == <<stage, others, token>>
vars == <<process, consumer, request, webhooks, cursors>>

NoConfig == [ backends |-> None ]
Content  == [ url : Urls, secret : Nat ]
NoEdit   == [ kind |-> "none", ifMatch |-> None ]
Edit     == [ kind : {"none", "know"}, ifMatch : Content \cup {None} ]
              \cup [ kind : {"patch", "rotate"}, ifMatch : Content \cup {None}, read : Content ]

Knowing(content) == [ kind |-> "know", ifMatch |-> content ]
Sent(edit)       == edit.kind \in {"patch", "rotate"}

-----------------------------------------------------------------------------
(* loadRuntimeConfig *)

ParseInteger(raw, default) == IF raw = Unset THEN default ELSE raw

ListDefaultLimit(e) == ParseInteger(e.listDefaultLimit, 50)
ListMaxLimit(e)     == ParseInteger(e.listMaxLimit, 500)

\* PMC_CURSOR_SECRETS, or else PMC_CURSOR_SECRET; the first one signs, all of them verify.
CursorSecrets(e) == IF e.cursorSecrets = <<>> THEN <<e.cursorSecret>> ELSE e.cursorSecrets
Signing(secrets) == Head(secrets)

Verifies_SigningOnly(secrets, secret) == secret = Signing(secrets)                 \* mutant

Verifies(secrets, secret) == \E k \in DOMAIN secrets : secrets[k] = secret

UsesPostgres(b) == b.payment = "postgres" \/ b.idempotency = "postgres" \/ b.bus = "durable"
UsesRedis(b)    == b.rate = "redis" \/ b.bus = "durable"

UrlsSuffice_ForStores(e) ==                                                        \* mutant
  /\ e.backends.payment = "postgres" \/ e.backends.idempotency = "postgres" => e.postgresUrl
  /\ e.backends.rate = "redis" => e.redisUrl

UrlsSuffice(e) ==
  /\ UsesPostgres(e.backends) => e.postgresUrl
  /\ UsesRedis(e.backends) => e.redisUrl

Accepts(e) ==
  /\ ListDefaultLimit(e) \in 1..1000
  /\ ListMaxLimit(e) \in 1..5000
  /\ e.production => DevKey \notin e.apiKeys /\ Signing(CursorSecrets(e)) # DevSecret
  /\ ListDefaultLimit(e) <= ListMaxLimit(e)
  /\ UrlsSuffice(e)

LoadRuntimeConfig(e) ==
  [ backends |-> e.backends, postgresUrl |-> e.postgresUrl, redisUrl |-> e.redisUrl,
    cursorSecrets |-> CursorSecrets(e) ]

-----------------------------------------------------------------------------
(* buildApp *)

HasPool(c)  == c.postgresUrl /\ UsesPostgres(c.backends)
HasRedis(c) == c.redisUrl /\ UsesRedis(c.backends)

\* None of the checks of buildApp throws.
Builds(c) ==
  /\ c.backends.payment = "postgres" => HasPool(c)
  /\ c.backends.rate = "redis" => HasRedis(c)
  /\ c.backends.idempotency = "postgres" => HasPool(c)
  /\ c.backends.bus = "durable" => HasPool(c) /\ HasRedis(c)

\* The bus reads its stream over a connection of its own.
Connections(c) ==
  (IF HasPool(c) THEN {"pool"} ELSE {}) \cup (IF HasRedis(c) THEN {"redis"} ELSE {})
    \cup (IF c.backends.bus = "durable" THEN {"consumer"} ELSE {})

Registered(connection) ==
  CASE connection = "pool" -> 1 [] connection = "redis" -> 2 [] connection = "consumer" -> 3

CloseNext_AsRegistered(remaining) ==                                               \* mutant
  CHOOSE c \in remaining : \A d \in remaining : Registered(c) <= Registered(d)

\* The close actions run in the reverse of the order they were registered in.
CloseNext(remaining) ==
  CHOOSE c \in remaining : \A d \in remaining : Registered(c) >= Registered(d)

-----------------------------------------------------------------------------
(* The process *)

Init ==
  /\ phase = "down" /\ config = NoConfig /\ open = {}
  /\ running = FALSE /\ loop = "off" /\ batch = 0
  /\ request = "none"
  /\ endpoint = None /\ registered = FALSE
  /\ edits = [ c \in Clients |-> NoEdit ]
  /\ stage = 1 /\ others = 1 /\ token = None

Alive == phase \in {"up", "closing"}

\* What there is in memory is gone with the process.
Forget ==
  /\ config' = NoConfig /\ open' = {}
  /\ running' = FALSE /\ loop' = "off" /\ batch' = 0
  /\ request' = "none"
  /\ endpoint' = None
  /\ edits' = [ c \in Clients |-> NoEdit ]
  /\ UNCHANGED <<registered, cursors>>

Refuse(e) ==
  /\ phase = "down" /\ ~ Accepts(e)
  /\ phase' = "refused"
  /\ UNCHANGED <<config, open, consumer, request, webhooks, cursors>>

Start(e) ==
  /\ phase = "down" /\ Accepts(e)
  /\ CursorSecrets(e) = Rollout[stage]
  /\ LET c == LoadRuntimeConfig(e)
     IN  /\ config'  = c
         /\ phase'   = IF Builds(c) THEN "up" ELSE "broken"
         /\ open'    = Connections(c)
         /\ running' = (c.backends.bus = "durable")
         /\ loop'    = IF c.backends.bus = "durable" THEN "ensure" ELSE "off"
  /\ UNCHANGED <<batch, request, webhooks, cursors>>

Crash == Alive /\ phase' = "down" /\ Forget

Exit == phase \in {"refused", "closed", "cut short"} /\ phase' = "down" /\ Forget

-----------------------------------------------------------------------------
(* The consumer loop of the durable bus *)

Again == IF running THEN "read" ELSE "over"

EnsureConsumerGroup ==
  /\ loop = "ensure"
  /\ loop' = Again
  /\ UNCHANGED <<process, running, batch, request, webhooks, cursors>>

\* Nobody handles the error, unless the bus is being closed, and then that fails.
EnsureConsumerGroupFails ==
  /\ loop = "ensure"
  /\ \/ running /\ phase' = "down" /\ Forget
     \/ /\ ~ running
        /\ phase' = "cut short" /\ loop' = "failed"
        /\ UNCHANGED <<config, open, running, batch, request, webhooks, cursors>>

Read ==
  /\ loop = "read"
  /\ \E n \in 0..MaxBatch : batch' = n /\ loop' = IF n = 0 THEN Again ELSE "handle"
  /\ UNCHANGED <<process, running, request, webhooks, cursors>>

NextMessage ==
  /\ batch' = batch - 1
  /\ loop'  = IF batch = 1 THEN Again ELSE "handle"

\* processWithInbox, and with it the dispatch to the endpoints of this process.
Handle ==
  /\ loop = "handle"
  /\ \/ loop' = "ack" /\ UNCHANGED batch
     \/ NextMessage
  /\ UNCHANGED <<process, running, request, webhooks, cursors>>

Ack ==
  /\ loop = "ack"
  /\ NextMessage
  /\ UNCHANGED <<process, running, request, webhooks, cursors>>

LoopFails ==
  /\ loop \in {"read", "handle", "ack"}
  /\ loop' = "pause" /\ batch' = 0
  /\ UNCHANGED <<process, running, request, webhooks, cursors>>

Pause ==
  /\ loop = "pause"
  /\ loop' = Again
  /\ UNCHANGED <<process, running, batch, request, webhooks, cursors>>

LoopStep ==
  \/ EnsureConsumerGroup \/ EnsureConsumerGroupFails
  \/ Read \/ Handle \/ Ack \/ LoopFails \/ Pause

-----------------------------------------------------------------------------
(* A payment request: the limiter, then the work on stores and events *)

Arrive ==
  /\ phase = "up" /\ request = "none"
  /\ request' = "admit"
  /\ UNCHANGED <<process, consumer, webhooks, cursors>>

\* A request may be refused or fail at once.
Admit ==
  /\ request = "admit"
  /\ request' \in {"work", "none"}
  /\ UNCHANGED <<process, consumer, webhooks, cursors>>

Work ==
  /\ request = "work"
  /\ request' = "none"
  /\ UNCHANGED <<process, consumer, webhooks, cursors>>

-----------------------------------------------------------------------------
(* The webhook endpoint *)

CreateEndpoint ==
  /\ phase = "up" /\ endpoint = None
  /\ \E url \in Urls : endpoint' = [ url |-> url, secret |-> 0 ]
  /\ registered' = TRUE
  /\ UNCHANGED <<process, consumer, request, edits, cursors>>

\* The answer has the ETag of the content.
GetEndpoint(c) ==
  /\ phase = "up" /\ endpoint # None /\ edits[c].kind = "none"
  /\ edits' = [edits EXCEPT ![c] = Knowing(endpoint)]
  /\ UNCHANGED <<process, consumer, request, endpoint, registered, cursors>>

\* PATCH or rotate-secret: the endpoint is read, and what follows waits for a microtask.
SendEdit(c) ==
  /\ phase = "up" /\ endpoint # None /\ edits[c].kind \in {"none", "know"}
  /\ \E kind \in {"patch"} \cup (IF endpoint.secret < MaxRotations THEN {"rotate"} ELSE {}) :
       edits' = [edits EXCEPT ![c] = [ kind |-> kind, ifMatch |-> edits[c].ifMatch, read |-> endpoint ]]
  /\ UNCHANGED <<process, consumer, request, endpoint, registered, cursors>>

UpdateEndpoint_FromRead(edit, url) == [edit.read EXCEPT !.url = url]               \* mutant

\* The fields that are named replace those of the record as it is now.
UpdateEndpoint(edit, url) == [endpoint EXCEPT !.url = url]

RotateEndpointSecret == [endpoint EXCEPT !.secret = @ + 1]

Matches(edit) == edit.ifMatch = None \/ edit.ifMatch = edit.read

\* The answer to an edit that was accepted has the new ETag.
ApplyEdit(c) ==
  LET edit == edits[c]
  IN  /\ Sent(edit)
      /\ \/ /\ ~ Matches(edit)
            /\ edits' = [edits EXCEPT ![c] = NoEdit]
            /\ UNCHANGED endpoint
         \/ /\ Matches(edit)
            /\ \/ /\ edit.kind = "patch"
                  /\ \E url \in Urls : endpoint' = UpdateEndpoint(edit, url)
               \/ /\ edit.kind = "rotate"
                  /\ endpoint' = RotateEndpointSecret
            /\ \E answer \in {NoEdit, Knowing(endpoint')} : edits' = [edits EXCEPT ![c] = answer]
  /\ UNCHANGED <<process, consumer, request, registered, cursors>>

-----------------------------------------------------------------------------
(* Lists, and the rollout of cursor secrets *)

FetchPage ==
  /\ phase = "up"
  /\ token # None => Verifies(config.cursorSecrets, token)
  /\ token' \in {None, Signing(config.cursorSecrets)}
  /\ UNCHANGED <<process, consumer, request, webhooks, stage, others>>

FetchPageElsewhere ==
  /\ token # None => Verifies(Rollout[others], token)
  /\ token' \in {None, Signing(Rollout[others])}
  /\ UNCHANGED <<process, consumer, request, webhooks, stage, others>>

RestartOthers ==
  /\ others # stage
  /\ others' = stage
  /\ UNCHANGED <<process, consumer, request, webhooks, stage, token>>

\* The next list is rolled out once every server has this one.
NextStage ==
  /\ stage < Len(Rollout) /\ others = stage
  /\ phase = "up" /\ config.cursorSecrets = Rollout[stage]
  /\ stage' = stage + 1
  /\ UNCHANGED <<process, consumer, request, webhooks, others, token>>

-----------------------------------------------------------------------------
(* Shutdown *)

Close ==
  /\ phase = "up"
  /\ phase' = "closing"
  /\ UNCHANGED <<config, open, consumer, request, webhooks, cursors>>

\* Close actions begin when the requests that are under way have been answered.
Drained == phase = "closing" /\ request = "none" /\ \A c \in Clients : ~ Sent(edits[c])

Stopped_NotYet(r) == r                                                             \* mutant

Stopped(r) == FALSE

StopConsumer ==
  /\ Drained /\ running
  /\ open # {} /\ CloseNext(open) = "consumer"
  /\ running' = Stopped(running)
  /\ UNCHANGED <<process, loop, batch, request, webhooks, cursors>>

\* The loop comes to its end before its connection is closed.
MayClose(c) == c = "consumer" => loop = "over"

CloseConnection ==
  /\ Drained /\ open # {} /\ MayClose(CloseNext(open))
  /\ open' = open \ {CloseNext(open)}
  /\ UNCHANGED <<phase, config, consumer, request, webhooks, cursors>>

\* Redis does not answer the QUIT: the close actions that remain do not run.
CloseConnectionFails ==
  /\ Drained /\ open # {} /\ MayClose(CloseNext(open)) /\ CloseNext(open) # "pool"
  /\ phase' = "cut short"
  /\ UNCHANGED <<config, open, consumer, request, webhooks, cursors>>

Closed ==
  /\ Drained /\ open = {}
  /\ phase' = "closed"
  /\ UNCHANGED <<config, open, consumer, request, webhooks, cursors>>

CloseStep == StopConsumer \/ CloseConnection \/ CloseConnectionFails \/ Closed

-----------------------------------------------------------------------------

Next ==
  \/ \E e \in Environments : Refuse(e) \/ Start(e)
  \/ Crash \/ Exit
  \/ LoopStep
  \/ Arrive \/ Admit \/ Work
  \/ CreateEndpoint
  \/ \E c \in Clients : GetEndpoint(c) \/ SendEdit(c) \/ ApplyEdit(c)
  \/ FetchPage \/ FetchPageElsewhere \/ RestartOthers \/ NextStage
  \/ Close \/ CloseStep

\* Calls that are under way come back, and a loop or a shutdown goes on.
Fairness ==
  /\ WF_vars(LoopStep)
  /\ WF_vars(Admit \/ Work)
  /\ WF_vars(\E c \in Clients : ApplyEdit(c))
  /\ WF_vars(CloseStep)

Spec == Init /\ [][Next]_vars /\ Fairness

-----------------------------------------------------------------------------
(* Properties *)

Phases == {"down", "refused", "broken", "up", "closing", "closed", "cut short"}
Waits  == {"off", "ensure", "read", "handle", "ack", "pause", "over", "failed"}

TypeOK ==
  /\ phase \in Phases
  /\ open \subseteq {"pool", "redis", "consumer"}
  /\ running \in BOOLEAN
  /\ loop \in Waits
  /\ batch \in 0..MaxBatch
  /\ request \in {"none", "admit", "work"}
  /\ endpoint \in Content \cup {None}
  /\ edits \in [Clients -> Edit]
  /\ \A c \in Clients : Sent(edits[c]) => endpoint # None
  /\ registered \in BOOLEAN
  /\ stage \in DOMAIN Rollout /\ others \in DOMAIN Rollout /\ others \in {stage, stage - 1}

\* What loadRuntimeConfig lets through, buildApp can build: its own checks never throw.
AcceptedConfigBuilds == phase # "broken"

LoopNeeds ==
  CASE loop = "ensure"          -> {"redis"}
    [] loop \in {"read", "ack"} -> {"consumer"}
    [] loop = "handle"          -> {"pool"}
    [] OTHER                    -> {}

RequestNeeds ==
  LET b == config.backends
  IN  CASE request = "admit" -> IF b.rate = "redis" THEN {"redis"} ELSE {}
        [] request = "work"  -> (IF UsesPostgres(b) THEN {"pool"} ELSE {})
                                  \cup (IF b.bus = "durable" THEN {"redis"} ELSE {})
        [] OTHER             -> {}

\* Whatever is shut down when: the consumer loop and the requests never wait for a
\* connection that was not opened or is closed already.
NothingUsedClosed == LoopNeeds \cup RequestNeeds \subseteq open

\* A shutdown ends, with every connection closed, unless the process crashes or a
\* close action fails.
ShutdownEnds ==
  phase = "closing" ~> \/ phase \in {"down", "cut short"}
                       \/ phase = "closed" /\ open = {}

\* The documents: secrets of cursors rotate without downtime.  A list that is being walked
\* through goes on at any server, whatever mixture of two stages the fleet runs.
RotationKeepsWalks ==
  token # None => /\ phase = "up" => Verifies(config.cursorSecrets, token)
                  /\ Verifies(Rollout[others], token)

\* An edit writes only what it names: a secret that was rotated does not come back
\* with an edit that began before.
RotatedStaysRotated ==
  [][endpoint # None /\ endpoint' # None => endpoint'.secret >= endpoint.secret]_vars

\* The documents: If-Match is an optimistic control.  An edit under If-Match changes the
\* content its client has seen, or nothing (checked as a violation).
IfMatchGuards ==
  [][\A c \in Clients :
       Sent(edits[c]) /\ edits[c].ifMatch # None /\ ~ Sent(edits'[c])
         /\ endpoint' # endpoint /\ endpoint' # None
         => endpoint = edits[c].ifMatch]_vars

\* An endpoint whose registration was acknowledged is offered the events that the stream
\* still holds, or another server brings (checked as a violation).
EventsFindEndpoint == loop = "handle" /\ registered => endpoint # None
=============================================================================
