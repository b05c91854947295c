------------------------------- MODULE MCServer -------------------------------
(* Model-checking definitions for Server. *)
EXTENDS Server, TLC

CONSTANTS s1, s2, dev, ownKey

\* The backends of the tests and of the deployments the documents describe.
Memory    == [ payment |-> "memory",   idempotency |-> "memory",   rate |-> "memory", bus |-> "memory" ]
Stores    == [ payment |-> "postgres", idempotency |-> "postgres", rate |-> "memory", bus |-> "memory" ]
Limiter   == [ payment |-> "memory",   idempotency |-> "memory",   rate |-> "redis",  bus |-> "memory" ]
Bus       == [ payment |-> "memory",   idempotency |-> "memory",   rate |-> "memory", bus |-> "durable" ]
Durable   == [ payment |-> "postgres", idempotency |-> "postgres", rate |-> "redis",  bus |-> "durable" ]

Environment(backends, urls, secrets) ==
  [ production |-> TRUE, apiKeys |-> {ownKey}, cursorSecrets |-> secrets, cursorSecret |-> dev,
    listDefaultLimit |-> Unset, listMaxLimit |-> Unset, backends |-> backends,
    postgresUrl |-> "postgres" \in urls, redisUrl |-> "redis" \in urls ]

\* Each new secret is known everywhere before the first server signs with it.
InThreeStages == << <<s1>>, <<s1, s2>>, <<s2, s1>> >>

\* The new secret signs as soon as it is known.
AtOnce == << <<s1>>, <<s2, s1>> >>

Sufficient(lists) ==
  { Environment(b, {"postgres", "redis"}, lists[k]) : b \in {Memory, Bus, Durable}, k \in DOMAIN lists }
  \cup { Environment(Stores, {"postgres"}, lists[k]) : k \in DOMAIN lists }
  \cup { Environment(Limiter, {"redis"}, lists[k]) : k \in DOMAIN lists }

Lacking ==
  LET plain == Environment(Memory, {}, <<s1>>)
  IN  { Environment(b, {"postgres"}, <<s1>>) : b \in {Limiter, Bus, Durable} }
      \cup { Environment(b, {"redis"}, <<s1>>) : b \in {Stores, Bus, Durable} }
      \cup { Environment(Memory, {}, <<>>),
             [plain EXCEPT !.apiKeys = {dev, ownKey}],
             [plain EXCEPT !.listMaxLimit = 20],
             [plain EXCEPT !.listDefaultLimit = 0] }

EnvironmentsInThreeStages == Sufficient(InThreeStages) \cup Lacking
EnvironmentsAtOnce        == Sufficient(AtOnce) \cup Lacking

Symmetry == Permutations(Clients)
=============================================================================
