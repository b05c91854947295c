---------------------------- MODULE DurableEventBus ----------------------------
(***************************************************************************)
(* The durable event bus (adapters/durable/pg-redis-event-bus.ts).  To     *)
(* publish an event is three calls: a row in the outbox (PostgreSQL), an   *)
(* entry in the stream (Redis), a mark on the row.  The servers of one     *)
(* consumer group read new entries in batches, and each delivers an event  *)
(* to its subscribers once its row in the inbox is there.                  *)
(*                                                                         *)
(* A fault is a call that rejects, a subscriber that throws or a server    *)
(* that restarts.  A call whose effect took place but whose answer is lost *)
(* is the call followed by a fault.                                        *)
(***************************************************************************)
EXTENDS Integers, SequencesExt

CONSTANTS
  Events,       \* one call of publish each
  Consumers,    \* servers of the consumer group
  BatchSize,    \* entries of one read
  MaxResends,   \* bound: commands the Redis client sends twice
  MaxFaults     \* bound: faults

ASSUME BatchAssumption == BatchSize \in Nat \ {0}
ASSUME BoundAssumption == MaxResends \in Nat /\ MaxFaults \in Nat

VARIABLES
  stage,       \* per event: the next call of its publisher
  outbox,      \* per event: its row
  stream,      \* the events, in the order of their entries
  delivered,   \* the group was given the entries up to this position
  pending,     \* positions given and not acknowledged
  inbox,       \* the events with a row
  pc,          \* per consumer: its next call
  batch,       \* per consumer: the positions it has still to go through
  handled,     \* the events whose subscribers all returned, in order (history)
  resends, faults

publisherVars == <<stage, outbox>>
consumerVars  == <<delivered, pending, inbox, pc, batch, handled>>
vars == <<publisherVars, stream, consumerVars, resends, faults>>

Init ==
  /\ stage     = [ e \in Events |-> "insert" ]
  /\ outbox    = [ e \in Events |-> "absent" ]
  /\ stream    = <<>>
  /\ delivered = 0
  /\ pending   = {}
  /\ inbox     = {}
  /\ pc        = [ c \in Consumers |-> "read" ]
  /\ batch     = [ c \in Consumers |-> <<>> ]
  /\ handled   = <<>>
  /\ resends   = 0
  /\ faults    = 0

Fault == faults < MaxFaults /\ faults' = faults + 1

-----------------------------------------------------------------------------
(* publish *)

After(s) == CASE s = "insert" -> "add" [] s = "add" -> "mark" [] s = "mark" -> "done"

Insert(e) ==
  /\ stage[e] = "insert"
  /\ stage'  = [stage EXCEPT ![e] = After(@)]
  /\ outbox' = [outbox EXCEPT ![e] = "recorded"]
  /\ UNCHANGED <<stream, consumerVars, resends, faults>>

\* The client sends XADD again when the connection broke before the answer.
Add(e) ==
  /\ stage[e] = "add"
  /\ stream' = Append(stream, e)
  /\ \/ /\ stage' = [stage EXCEPT ![e] = After(@)]
        /\ UNCHANGED resends
     \/ /\ resends < MaxResends
        /\ resends' = resends + 1
        /\ UNCHANGED stage
  /\ UNCHANGED <<outbox, consumerVars, faults>>

Mark(e) ==
  /\ stage[e] = "mark"
  /\ stage'  = [stage EXCEPT ![e] = After(@)]
  /\ outbox' = [outbox EXCEPT ![e] = "published"]
  /\ UNCHANGED <<stream, consumerVars, resends, faults>>

\* The rest of a failed publish is never taken up again.
FailPublish(e) ==
  /\ Fault
  /\ stage[e] \in {"add", "mark"}
  /\ stage' = [stage EXCEPT ![e] = "failed"]
  /\ UNCHANGED <<outbox, stream, consumerVars, resends>>

-----------------------------------------------------------------------------
(* runConsumerLoop and processWithInbox *)

Event(c) == stream[Head(batch[c])]

\* XREADGROUP with ">": only entries the group was never given.
Taken(count) ==
  [ k \in 1..(IF count - delivered < BatchSize THEN count - delivered ELSE BatchSize)
      |-> delivered + k ]

Read(c) ==
  /\ pc[c] = "read" /\ delivered < Len(stream)
  /\ LET taken == Taken(Len(stream))
     IN  /\ delivered' = delivered + Len(taken)
         /\ pending'   = pending \cup ToSet(taken)
         /\ batch'     = [batch EXCEPT ![c] = taken]
  /\ pc' = [pc EXCEPT ![c] = "claim"]
  /\ UNCHANGED <<publisherVars, stream, inbox, handled, resends, faults>>

Known_Never(e) == FALSE                                                            \* mutant

Known(e) == e \in inbox

Claim(c) ==
  /\ pc[c] = "claim"
  /\ pc'    = [pc EXCEPT ![c] = IF Known(Event(c)) THEN "ack" ELSE "deliver"]
  /\ inbox' = inbox \cup {Event(c)}
  /\ UNCHANGED <<publisherVars, stream, delivered, pending, batch, handled, resends, faults>>

Deliver(c) ==
  /\ pc[c] = "deliver"
  /\ \/ /\ handled' = Append(handled, Event(c))
        /\ pc' = [pc EXCEPT ![c] = "ack"]
        /\ UNCHANGED faults
     \/ /\ Fault
        /\ pc' = [pc EXCEPT ![c] = "forget"]
        /\ UNCHANGED handled
  /\ UNCHANGED <<publisherVars, stream, delivered, pending, inbox, batch, resends>>

Rest_Dropped(positions) == <<>>                                                    \* mutant

Rest(positions) == Tail(positions)

NextEntry(c) ==
  /\ batch' = [batch EXCEPT ![c] = Rest(@)]
  /\ pc'    = [pc EXCEPT ![c] = IF Rest(batch[c]) = <<>> THEN "read" ELSE "claim"]

Forget_Acks(c) ==                                                                  \* mutant
  /\ pc[c] = "forget"
  /\ inbox' = inbox \ {Event(c)}
  /\ pending' = pending \ {Head(batch[c])}
  /\ NextEntry(c)
  /\ UNCHANGED <<publisherVars, stream, delivered, handled, resends, faults>>

\* A failed delivery is not acknowledged, and its entry stays pending.
Forget(c) ==
  /\ pc[c] = "forget"
  /\ inbox' = inbox \ {Event(c)}
  /\ NextEntry(c)
  /\ UNCHANGED <<publisherVars, stream, delivered, pending, handled, resends, faults>>

Ack(c) ==
  /\ pc[c] = "ack"
  /\ pending' = pending \ {Head(batch[c])}
  /\ NextEntry(c)
  /\ UNCHANGED <<publisherVars, stream, delivered, inbox, handled, resends, faults>>

\* An exception ends the batch, and the loop reads on 200 ms later.  A restarted
\* server reads new entries too: nobody asks for pending ones.
Drop(c) ==
  /\ Fault
  /\ pc[c] # "read"
  /\ pc'    = [pc EXCEPT ![c] = "read"]
  /\ batch' = [batch EXCEPT ![c] = <<>>]
  /\ UNCHANGED <<publisherVars, stream, delivered, pending, inbox, handled, resends>>

-----------------------------------------------------------------------------

Publish(e) == Insert(e) \/ Add(e) \/ Mark(e)
Consume(c) == Read(c) \/ Claim(c) \/ Deliver(c) \/ Forget(c) \/ Ack(c)

Next ==
  \/ \E e \in Events : Publish(e) \/ FailPublish(e)
  \/ \E c \in Consumers : Consume(c) \/ Drop(c)

Spec == Init /\ [][Next]_vars

\* Every call is answered, and the consumer loops run until the server is closed.
LiveSpec ==
  /\ Spec
  /\ \A e \in Events : WF_vars(Publish(e))
  /\ \A c \in Consumers : WF_vars(Consume(c))

-----------------------------------------------------------------------------
(* Properties *)

TypeOK ==
  /\ stage     \in [Events -> {"insert", "add", "mark", "done", "failed"}]
  /\ outbox    \in [Events -> {"absent", "recorded", "published"}]
  /\ stream    \in Seq(Events)
  /\ delivered \in 0..Len(stream)
  /\ pending   \subseteq 1..delivered
  /\ inbox     \subseteq Events
  /\ pc        \in [Consumers -> {"read", "claim", "deliver", "forget", "ack"}]
  /\ batch     \in [Consumers -> Seq(pending)]
  /\ \A c \in Consumers : pc[c] = "read" <=> batch[c] = <<>>
  /\ handled   \in Seq(Events)
  /\ resends   \in 0..MaxResends /\ faults \in 0..MaxFaults

\* Entries that are in the stream twice, consumers that share a group, failed
\* deliveries and restarts: the subscribers never finish the same event twice.
HandledOnce == IsInjective(handled)

\* An event that was recorded and not handled can be found by an operator: its
\* row is not marked, or an entry of it is unread or unacknowledged.
LossLeavesTrace ==
  \A e \in Events :
    outbox[e] # "absent" =>
      \/ e \in ToSet(handled)
      \/ outbox[e] = "recorded"
      \/ \E p \in DOMAIN stream : stream[p] = e /\ (p > delivered \/ p \in pending)

\* As long as no call fails and no server restarts, every event that was recorded is
\* handled in the end, though servers share the work and an entry may come twice.
EventsArriveUndisturbed ==
  \A e \in Events : outbox[e] # "absent" ~> e \in ToSet(handled) \/ faults > 0

\* The documents: every event that was recorded is handled in the end.
EventsArrive ==
  \A e \in Events : outbox[e] # "absent" ~> e \in ToSet(handled)
=============================================================================
