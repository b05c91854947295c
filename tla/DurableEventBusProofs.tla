------------------------ MODULE DurableEventBusProofs ------------------------
(* Proofs about DurableEventBus: every variable keeps its type, no event is     *)
(* handled twice and none is lost without a trace, for any events, servers and  *)
(* batch size, and any number of faults and repeated commands.                  *)
EXTENDS DurableEventBus, SequenceTheorems, TLAPS

\* No position of the stream is in the hands of two servers, or twice of one.
BatchesApart ==
  /\ \A c \in Consumers : IsInjective(batch[c])
  /\ \A c, d \in Consumers : c # d =>
       \A i \in DOMAIN batch[c], j \in DOMAIN batch[d] : batch[c][i] # batch[d][j]

TypeInv == TypeOK /\ BatchesApart

\* A server between the claim of an event and the end of its delivery.
Owns(c) == pc[c] \in {"deliver", "forget"}

\* An event whose row is there is handled for good, or has one owner that has not
\* handled it, or was dropped.  Only an owner deletes the row.
OneOwner ==
  /\ IsInjective(handled)
  /\ ToSet(handled) \subseteq inbox
  /\ \A c \in Consumers : Owns(c) => Event(c) \in inbox \ ToSet(handled)
  /\ \A c, d \in Consumers : Owns(c) /\ Owns(d) /\ Event(c) = Event(d) => c = d

-----------------------------------------------------------------------------
(* Sequences *)

\* A sequence whose elements are in T is a sequence over T.
LEMMA SeqOver ==
  ASSUME NEW S, NEW T, NEW s \in Seq(S), \A k \in DOMAIN s : s[k] \in T
  PROVE  s \in Seq(T)
<1>1. Len(s) \in Nat /\ DOMAIN s = 1..Len(s) /\ s = [k \in 1..Len(s) |-> s[k]]
  BY LenProperties
<1>2. s \in [1..Len(s) -> T]
  BY <1>1
<1> QED
  BY <1>1, <1>2, SeqDef

\* What is left of a batch after its first entry.
LEMMA TailFacts ==
  ASSUME NEW S, NEW s \in Seq(S), s # <<>>
  PROVE  /\ Head(s) \in S /\ Head(s) = s[1] /\ 1 \in DOMAIN s
         /\ Tail(s) \in Seq(S)
         /\ \A k \in DOMAIN Tail(s) : k + 1 \in DOMAIN s /\ Tail(s)[k] = s[k + 1]
  BY HeadTailProperties, LenProperties, ElementOfSeq

\* A batch without repetition does not come back to the entry it leaves.
LEMMA NarrowTail ==
  ASSUME NEW S, NEW s \in Seq(S), s # <<>>, IsInjective(s)
  PROVE  /\ IsInjective(Tail(s))
         /\ Tail(s) \in Seq(S \ {Head(s)})
<1>1. /\ Tail(s) \in Seq(S) /\ Head(s) = s[1] /\ 1 \in DOMAIN s
      /\ DOMAIN Tail(s) = 1..Len(Tail(s)) /\ DOMAIN s = 1..Len(s)
      /\ \A k \in DOMAIN Tail(s) : k + 1 \in DOMAIN s /\ Tail(s)[k] = s[k + 1]
  BY TailFacts, LenProperties
<1>2. \A k \in DOMAIN Tail(s) : k \in Nat /\ k + 1 # 1
  BY <1>1
<1>3. \A k \in DOMAIN Tail(s) : Tail(s)[k] \in S \ {Head(s)}
  <2> SUFFICES ASSUME NEW k \in DOMAIN Tail(s)
               PROVE  Tail(s)[k] \in S \ {Head(s)}
    OBVIOUS
  <2>1. Tail(s)[k] = s[k + 1] /\ s[k + 1] # s[1]
    BY <1>1, <1>2 DEF IsInjective
  <2> QED
    BY <2>1, <1>1, ElementOfSeq
<1>4. Tail(s) \in Seq(S \ {Head(s)})
  BY <1>1, <1>3, SeqOver
<1>5. IsInjective(Tail(s))
  <2> SUFFICES ASSUME NEW k \in DOMAIN Tail(s), NEW l \in DOMAIN Tail(s), Tail(s)[k] = Tail(s)[l]
               PROVE  k = l
    BY DEF IsInjective
  <2>1. s[k + 1] = s[l + 1] /\ k + 1 \in DOMAIN s /\ l + 1 \in DOMAIN s
    BY <1>1
  <2>2. k + 1 = l + 1
    BY <2>1 DEF IsInjective
  <2> QED
    BY <2>2, <1>2
<1> QED
  BY <1>4, <1>5

\* Appending keeps the entries there are, and repeats none if it is new.
LEMMA AppendFacts ==
  ASSUME NEW S, NEW s \in Seq(S), NEW e \in S
  PROVE  /\ Append(s, e) \in Seq(S) /\ Len(Append(s, e)) = Len(s) + 1 /\ Len(s) \in Nat
         /\ \A k \in 1..Len(s) : Append(s, e)[k] = s[k]
         /\ ToSet(Append(s, e)) = ToSet(s) \cup {e}
         /\ IsInjective(s) /\ e \notin ToSet(s) => IsInjective(Append(s, e))
<1>1. /\ Append(s, e) \in Seq(S) /\ Len(Append(s, e)) = Len(s) + 1 /\ Len(s) \in Nat
      /\ \A k \in 1..Len(s) : Append(s, e)[k] = s[k]
      /\ Append(s, e)[Len(s) + 1] = e
      /\ DOMAIN s = 1..Len(s) /\ DOMAIN Append(s, e) = 1..(Len(s) + 1)
  BY AppendProperties, LenProperties
<1>2. 1..(Len(s) + 1) = 1..Len(s) \cup {Len(s) + 1}
  BY <1>1
<1>3. ToSet(Append(s, e)) = ToSet(s) \cup {e}
  BY <1>1, <1>2 DEF ToSet
<1>4. IsInjective(s) /\ e \notin ToSet(s) => IsInjective(Append(s, e))
  BY <1>1, <1>2 DEF ToSet, IsInjective
<1> QED
  BY <1>1, <1>3, <1>4
-----------------------------------------------------------------------------
(* Types *)

\* A read takes the entries that follow the last one given to the group.
LEMMA TakenFacts ==
  ASSUME TypeInv, delivered < Len(stream), NEW taken, taken = Taken(Len(stream))
  PROVE  /\ taken # <<>> /\ IsInjective(taken)
         /\ delivered + Len(taken) \in delivered..Len(stream)
         /\ taken \in Seq(ToSet(taken))
         /\ ToSet(taken) \subseteq (delivered + 1)..(delivered + Len(taken))
<1> DEFINE left == Len(stream) - delivered
           n    == IF left < BatchSize THEN left ELSE BatchSize
<1>1. Len(stream) \in Nat /\ delivered \in Nat
  BY LenProperties DEF TypeInv, TypeOK
<1>2. n \in Nat \ {0} /\ delivered + n <= Len(stream)
  BY <1>1, BatchAssumption
<1>3. taken = [k \in 1..n |-> delivered + k]
  BY DEF Taken
<1> HIDE DEF n
<1>4. /\ taken \in Seq(Int) /\ Len(taken) = n /\ DOMAIN taken = 1..n
      /\ \A k \in 1..n : taken[k] = delivered + k
  <2>1. taken \in [1..n -> Int] /\ DOMAIN taken = 1..n
    BY <1>1, <1>2, <1>3
  <2>2. taken \in Seq(Int)
    BY <2>1, <1>2, SeqDef
  <2> QED
    BY <2>1, <2>2, <1>2, <1>3, LenProperties
<1>5. IsInjective(taken)
  BY <1>4, <1>1, <1>2 DEF IsInjective
<1>6. ToSet(taken) \subseteq (delivered + 1)..(delivered + Len(taken))
  BY <1>4, <1>1, <1>2 DEF ToSet
<1>7. taken \in Seq(ToSet(taken))
  BY <1>4, SeqOver DEF ToSet
<1>8. taken # <<>>
  BY <1>4, <1>2
<1> QED
  BY <1>1, <1>2, <1>4, <1>5, <1>6, <1>7, <1>8

\* A server that is not reading is at an entry of the stream.
LEMMA EntryFacts ==
  ASSUME TypeInv, NEW c \in Consumers, pc[c] # "read"
  PROVE  /\ batch[c] \in Seq(pending) /\ batch[c] # <<>>
         /\ Head(batch[c]) \in pending /\ Head(batch[c]) \in 1..Len(stream)
         /\ Event(c) \in Events
<1>1. batch[c] \in Seq(pending) /\ batch[c] # <<>>
  BY DEF TypeInv, TypeOK
<1>2. Head(batch[c]) \in pending
  BY <1>1, TailFacts
<1>3. Len(stream) \in Nat /\ delivered \in 0..Len(stream) /\ pending \subseteq 1..delivered
  BY LenProperties DEF TypeInv, TypeOK
<1>4. \A p \in pending : p \in 1..Len(stream)
  BY <1>3
<1> QED
  BY <1>1, <1>2, <1>4, ElementOfSeq DEF Event, TypeInv, TypeOK

\* A publisher's step leaves the servers alone.
LEMMA PublisherKeepsTypes ==
  ASSUME TypeInv, NEW e \in Events, Publish(e) \/ FailPublish(e)
  PROVE  TypeInv'
<1> USE DEF TypeInv, TypeOK, BatchesApart
<1>1. CASE Insert(e)
  BY <1>1 DEF Insert, After, consumerVars
<1>2. CASE Add(e)
  <2>1. stream' \in Seq(Events) /\ Len(stream') = Len(stream) + 1 /\ Len(stream) \in Nat
    BY <1>2, AppendFacts DEF Add
  <2>2. delivered' \in 0..Len(stream')
    BY <1>2, <2>1 DEF Add, consumerVars
  <2>3. resends' \in 0..MaxResends
    BY <1>2, BoundAssumption DEF Add
  <2>4. stage' \in [Events -> {"insert", "add", "mark", "done", "failed"}]
    BY <1>2 DEF Add, After
  <2> QED
    BY <1>2, <2>1, <2>2, <2>3, <2>4 DEF Add, consumerVars
<1>3. CASE Mark(e)
  BY <1>3 DEF Mark, After, consumerVars
<1>4. CASE FailPublish(e)
  BY <1>4, BoundAssumption DEF FailPublish, Fault, consumerVars
<1> QED
  BY <1>1, <1>2, <1>3, <1>4 DEF Publish

\* A server that goes on to its next entry, acknowledged or not.
LEMMA NextEntryKeepsTypes ==
  ASSUME TypeInv, NEW c \in Consumers, pc[c] # "read", NextEntry(c),
         pending' = pending \/ pending' = pending \ {Head(batch[c])},
         UNCHANGED <<publisherVars, stream, delivered, resends, faults, handled>>,
         inbox' \subseteq Events
  PROVE  TypeInv'
<1> DEFINE rest == Tail(batch[c])
<1>1. /\ batch[c] \in Seq(pending) /\ batch[c] # <<>> /\ IsInjective(batch[c])
      /\ Head(batch[c]) \in pending
  BY EntryFacts DEF TypeInv, BatchesApart
<1>2. /\ IsInjective(rest) /\ rest \in Seq(pending \ {Head(batch[c])}) /\ rest \in Seq(pending)
  BY <1>1, NarrowTail, TailFacts
<1>3. /\ batch' = [batch EXCEPT ![c] = rest]
      /\ pc'    = [pc EXCEPT ![c] = IF rest = <<>> THEN "read" ELSE "claim"]
  BY DEF NextEntry, Rest, TypeInv, TypeOK
<1>4. \A d \in Consumers : batch'[d] \in Seq(pending')
  <2> SUFFICES ASSUME NEW d \in Consumers
               PROVE  batch'[d] \in Seq(pending')
    OBVIOUS
  <2>1. CASE d = c
    BY <2>1, <1>2, <1>3 DEF TypeInv, TypeOK
  <2>2. CASE d # c
    <3>1. batch'[d] = batch[d] /\ batch[d] \in Seq(pending)
      BY <2>2, <1>3 DEF TypeInv, TypeOK
    <3>2. Head(batch[c]) = batch[c][1] /\ 1 \in DOMAIN batch[c]
      BY <1>1, TailFacts
    <3>3. \A k \in DOMAIN batch[d] : batch[d][k] \in pending \ {Head(batch[c])}
      BY <3>1, <3>2, <2>2, ElementOfSeq, LenProperties DEF TypeInv, BatchesApart
    <3>4. batch[d] \in Seq(pending \ {Head(batch[c])})
      BY <3>1, <3>3, SeqOver
    <3> QED
      BY <3>1, <3>4
  <2> QED
    BY <2>1, <2>2
<1>5. BatchesApart'
  <2>1. \A k \in DOMAIN rest : k + 1 \in DOMAIN batch[c] /\ rest[k] = batch[c][k + 1]
    BY <1>1, TailFacts
  <2>2. \A d \in Consumers : IsInjective(batch'[d])
    BY <1>2, <1>3 DEF TypeInv, TypeOK, BatchesApart
  <2>3. \A d, f \in Consumers : d # f =>
          \A i \in DOMAIN batch'[d], j \in DOMAIN batch'[f] : batch'[d][i] # batch'[f][j]
    BY <2>1, <1>3 DEF TypeInv, TypeOK, BatchesApart
  <2> QED
    BY <2>2, <2>3 DEF BatchesApart
<1>6. \A d \in Consumers : pc'[d] = "read" <=> batch'[d] = <<>>
  BY <1>3 DEF TypeInv, TypeOK
<1>7. batch' \in [Consumers -> Seq(pending')]
  BY <1>3, <1>4 DEF TypeInv, TypeOK
<1>8. pc' \in [Consumers -> {"read", "claim", "deliver", "forget", "ack"}]
  BY <1>3 DEF TypeInv, TypeOK
<1> QED
  BY <1>5, <1>6, <1>7, <1>8 DEF TypeInv, TypeOK, publisherVars
\* A server's step keeps the types and the batches apart.
LEMMA ConsumerKeepsTypes ==
  ASSUME TypeInv, NEW c \in Consumers, Consume(c) \/ Drop(c)
  PROVE  TypeInv'
<1>1. CASE Read(c)
  <2> DEFINE taken == Taken(Len(stream))
  <2>0. Len(stream) \in Nat /\ delivered \in Nat /\ delivered < Len(stream)
    BY <1>1, LenProperties DEF Read, TypeInv, TypeOK
  <2>1. /\ taken # <<>> /\ IsInjective(taken)
        /\ delivered + Len(taken) \in delivered..Len(stream)
        /\ taken \in Seq(ToSet(taken))
        /\ ToSet(taken) \subseteq (delivered + 1)..(delivered + Len(taken))
    BY <2>0, TakenFacts
  <2> HIDE DEF taken
  <2>2. /\ delivered' = delivered + Len(taken) /\ pending' = pending \cup ToSet(taken)
        /\ batch' = [batch EXCEPT ![c] = taken] /\ pc' = [pc EXCEPT ![c] = "claim"]
        /\ UNCHANGED <<publisherVars, stream, inbox, handled, resends, faults>>
    BY <1>1 DEF Read, taken
  <2>3. pending' \subseteq 1..delivered' /\ delivered' \in 0..Len(stream)
    <3>1. Len(taken) \in Nat
      BY <2>1, LenProperties
    <3>2. pending \subseteq 1..delivered
      BY DEF TypeInv, TypeOK
    <3>3. delivered' \in delivered..Len(stream)
      BY <2>1, <2>2
    <3>4. 1..delivered \subseteq 1..delivered' /\ ToSet(taken) \subseteq 1..delivered'
      BY <2>0, <2>1, <2>2, <3>1, <3>3
    <3>5. delivered' \in 0..Len(stream)
      BY <2>0, <3>3
    <3> QED
      BY <2>2, <3>2, <3>4, <3>5
  <2>4. \A d \in Consumers : batch[d] \in Seq(pending) /\ DOMAIN batch[d] = 1..Len(batch[d])
    BY LenProperties DEF TypeInv, TypeOK
  <2>5. batch' \in [Consumers -> Seq(pending')]
    <3>1. \A d \in Consumers : batch[d] \in Seq(pending')
      BY <2>2, <2>4, SeqMonotonic
    <3>2. taken \in Seq(pending')
      BY <2>1, <2>2, SeqMonotonic
    <3> QED
      BY <2>2, <3>1, <3>2 DEF TypeInv, TypeOK
  <2>6. \A i \in DOMAIN taken, d \in Consumers :
           \A j \in DOMAIN batch[d] : taken[i] # batch[d][j]
    <3> SUFFICES ASSUME NEW i \in DOMAIN taken, NEW d \in Consumers, NEW j \in DOMAIN batch[d]
                 PROVE  taken[i] # batch[d][j]
      OBVIOUS
    <3>1. taken[i] \in (delivered + 1)..(delivered + Len(taken))
      BY <2>1 DEF ToSet
    <3>2. batch[d][j] \in pending
      BY <2>4, ElementOfSeq
    <3>3. batch[d][j] \in 1..delivered
      BY <3>2 DEF TypeInv, TypeOK
    <3>4. Len(taken) \in Nat
      BY <2>1, LenProperties
    <3> QED
      BY <2>0, <3>1, <3>3, <3>4
  <2>7. BatchesApart'
    <3>1. \A d \in Consumers : batch'[d] = IF d = c THEN taken ELSE batch[d]
      BY <2>2 DEF TypeInv, TypeOK
    <3>2. \A d \in Consumers : IsInjective(batch'[d])
      BY <3>1, <2>1 DEF TypeInv, BatchesApart
    <3>3. \A d, f \in Consumers : d # f =>
            \A i \in DOMAIN batch'[d], j \in DOMAIN batch'[f] : batch'[d][i] # batch'[f][j]
      BY <3>1, <2>6 DEF TypeInv, BatchesApart
    <3> QED
      BY <3>2, <3>3 DEF BatchesApart
  <2> QED
    BY <2>1, <2>2, <2>3, <2>5, <2>7 DEF TypeInv, TypeOK, publisherVars
<1>2. CASE Claim(c)
  <2>1. Event(c) \in Events
    BY <1>2, EntryFacts DEF Claim
  <2> QED
    BY <1>2, <2>1 DEF Claim, TypeInv, TypeOK, BatchesApart, publisherVars
<1>3. CASE Deliver(c)
  <2>1. Event(c) \in Events
    BY <1>3, EntryFacts DEF Deliver
  <2>2. handled' \in Seq(Events)
    <3>1. handled \in Seq(Events)
      BY DEF TypeInv, TypeOK
    <3>2. Append(handled, Event(c)) \in Seq(Events)
      BY <2>1, <3>1, AppendFacts
    <3>3. handled' = Append(handled, Event(c)) \/ handled' = handled
      BY <1>3 DEF Deliver
    <3> QED
      BY <3>1, <3>2, <3>3
  <2>3. faults' \in 0..MaxFaults
    BY <1>3, BoundAssumption DEF Deliver, Fault, TypeInv, TypeOK
  <2>4. /\ pc' \in [Consumers -> {"read", "claim", "deliver", "forget", "ack"}]
        /\ \A d \in Consumers : pc'[d] = "read" <=> pc[d] = "read"
    <3>1. PICK next \in {"ack", "forget"} : pc' = [pc EXCEPT ![c] = next]
      BY <1>3 DEF Deliver
    <3> QED
      BY <1>3, <3>1 DEF Deliver, TypeInv, TypeOK
  <2> QED
    BY <1>3, <2>2, <2>3, <2>4 DEF Deliver, TypeInv, TypeOK, BatchesApart, publisherVars
<1>4. CASE Forget(c)
  BY <1>4, NextEntryKeepsTypes DEF Forget, TypeInv, TypeOK
<1>5. CASE Ack(c)
  BY <1>5, NextEntryKeepsTypes DEF Ack, TypeInv, TypeOK
<1>6. CASE Drop(c)
  <2>1. <<>> \in Seq(pending) /\ IsInjective(<<>>) /\ DOMAIN <<>> = {}
    BY EmptySeq, LenProperties DEF IsInjective
  <2>2. /\ batch' = [batch EXCEPT ![c] = <<>>] /\ pc' = [pc EXCEPT ![c] = "read"]
        /\ UNCHANGED <<publisherVars, stream, delivered, pending, inbox, handled, resends>>
        /\ faults' \in 0..MaxFaults
    BY <1>6, BoundAssumption DEF Drop, Fault, TypeInv, TypeOK
  <2>3. BatchesApart'
    BY <2>1, <2>2 DEF TypeInv, TypeOK, BatchesApart
  <2> QED
    BY <2>1, <2>2, <2>3 DEF TypeInv, TypeOK, publisherVars
<1> QED
  BY <1>1, <1>2, <1>3, <1>4, <1>5, <1>6 DEF Consume

LEMMA InitTypes == Init => TypeInv
<1> SUFFICES ASSUME Init
             PROVE  TypeInv
  OBVIOUS
<1>1. <<>> \in Seq(Events) /\ <<>> \in Seq({}) /\ Len(<<>>) = 0 /\ DOMAIN <<>> = {}
  BY EmptySeq, LenProperties
<1> QED
  BY <1>1, BoundAssumption DEF Init, TypeInv, TypeOK, BatchesApart, IsInjective

LEMMA StepTypes == TypeInv /\ [Next]_vars => TypeInv'
<1> SUFFICES ASSUME TypeInv, [Next]_vars
             PROVE  TypeInv'
  OBVIOUS
<1>1. CASE \E e \in Events : Publish(e) \/ FailPublish(e)
  BY <1>1, PublisherKeepsTypes
<1>2. CASE \E c \in Consumers : Consume(c) \/ Drop(c)
  BY <1>2, ConsumerKeepsTypes
<1>3. CASE UNCHANGED vars
  BY <1>3 DEF vars, publisherVars, consumerVars, TypeInv, TypeOK, BatchesApart
<1> QED
  BY <1>1, <1>2, <1>3 DEF Next

\* Every variable keeps its type, whatever the publishers and the servers do: no
\* server acknowledges or claims an entry the group was not given.
THEOREM BusTypeCorrect == Spec => []TypeOK
<1>1. TypeInv => TypeOK
  BY DEF TypeInv
<1> QED
  BY <1>1, InitTypes, StepTypes, PTL DEF Spec
-----------------------------------------------------------------------------
(* One owner *)

\* A server that keeps its place keeps its event, though the stream may have grown.
LEMMA SamePlace ==
  ASSUME TypeInv, NEW c \in Consumers, pc[c] # "read", batch'[c] = batch[c],
         \/ stream' = stream
         \/ \E e \in Events : stream' = Append(stream, e)
  PROVE  Event(c)' = Event(c)
<1>1. Head(batch[c]) \in 1..Len(stream) /\ stream \in Seq(Events)
  BY EntryFacts DEF TypeInv, TypeOK
<1>2. stream'[Head(batch[c])] = stream[Head(batch[c])]
  BY <1>1, AppendFacts
<1> QED
  BY <1>2 DEF Event

\* Steps that make no owner, and change no row and no delivery.
LEMMA OwnersKept ==
  ASSUME TypeInv, OneOwner, UNCHANGED <<handled, inbox>>,
         \/ stream' = stream
         \/ \E e \in Events : stream' = Append(stream, e),
         \A d \in Consumers : Owns(d)' => Owns(d) /\ batch'[d] = batch[d]
  PROVE  OneOwner'
<1>1. \A d \in Consumers : Owns(d)' => Event(d)' = Event(d)
  BY SamePlace DEF Owns
<1> QED
  BY <1>1 DEF OneOwner

\* A claim makes an owner only of an event that has no row.
LEMMA ClaimOwns ==
  ASSUME TypeInv, OneOwner, NEW c \in Consumers, Claim(c)
  PROVE  OneOwner'
<1>1. /\ pc[c] = "claim" /\ inbox' = inbox \cup {Event(c)}
      /\ UNCHANGED <<stream, batch, handled>>
      /\ \A d \in Consumers : Event(d)' = Event(d)
  BY DEF Claim, publisherVars, Event
<1>2. \A d \in Consumers : Owns(d)' => Owns(d) \/ (d = c /\ Event(c) \notin inbox)
  BY DEF Claim, Known, Owns, TypeInv, TypeOK
<1>3. ~ Owns(c)
  BY <1>1 DEF Owns
<1> QED
  BY <1>1, <1>2, <1>3 DEF OneOwner

\* The owner hands its event over, or the subscribers fail and it stays the owner.
LEMMA DeliverOwns ==
  ASSUME TypeInv, OneOwner, NEW c \in Consumers, Deliver(c)
  PROVE  OneOwner'
<1>1. /\ Owns(c) /\ UNCHANGED <<stream, batch, inbox>>
      /\ \A d \in Consumers : Event(d)' = Event(d)
  BY DEF Deliver, publisherVars, Event, Owns
<1>2. \A d \in Consumers : Owns(d)' => Owns(d)
  BY <1>1 DEF Deliver, Owns, TypeInv, TypeOK
<1>3. CASE handled' = handled
  BY <1>1, <1>2, <1>3 DEF OneOwner
<1>4. CASE handled' = Append(handled, Event(c)) /\ pc' = [pc EXCEPT ![c] = "ack"]
  <2>1. Event(c) \in Events /\ handled \in Seq(Events)
    BY EntryFacts DEF Deliver, TypeInv, TypeOK
  <2>2. Event(c) \in inbox \ ToSet(handled)
    BY <1>1 DEF OneOwner
  <2>3. ToSet(handled') = ToSet(handled) \cup {Event(c)} /\ IsInjective(handled')
    BY <1>4, <2>1, <2>2, AppendFacts DEF OneOwner
  <2>4. ~ Owns(c)'
    BY <1>4 DEF Owns, TypeInv, TypeOK
  <2> QED
    BY <1>1, <1>2, <2>2, <2>3, <2>4 DEF OneOwner
<1> QED
  BY <1>3, <1>4 DEF Deliver

\* The row a server deletes is that of the event it owns, which nobody else has.
LEMMA ForgetOwns ==
  ASSUME TypeInv, OneOwner, NEW c \in Consumers, Forget(c)
  PROVE  OneOwner'
<1>1. /\ Owns(c) /\ inbox' = inbox \ {Event(c)} /\ UNCHANGED <<stream, handled>>
  BY DEF Forget, publisherVars, Owns
<1>2. ~ Owns(c)'
  BY DEF Forget, NextEntry, Owns, TypeInv, TypeOK
<1>3. \A d \in Consumers : d # c => batch'[d] = batch[d] /\ pc'[d] = pc[d]
  BY DEF Forget, NextEntry, TypeInv, TypeOK
<1>4. \A d \in Consumers : Owns(d)' => d # c /\ Owns(d) /\ Event(d)' = Event(d)
  BY <1>1, <1>2, <1>3 DEF Owns, Event
<1> QED
  BY <1>1, <1>4 DEF OneOwner

LEMMA StepOwners == TypeInv /\ OneOwner /\ [Next]_vars => OneOwner'
<1> SUFFICES ASSUME TypeInv, OneOwner, [Next]_vars
             PROVE  OneOwner'
  OBVIOUS
<1>1. ASSUME NEW e \in Events, Publish(e) \/ FailPublish(e)
      PROVE  OneOwner'
  <2>1. UNCHANGED consumerVars /\ (stream' = stream \/ stream' = Append(stream, e))
    BY <1>1 DEF Publish, Insert, Add, Mark, FailPublish
  <2> QED
    BY <2>1, OwnersKept DEF consumerVars, Owns
<1>2. ASSUME NEW c \in Consumers, Read(c) \/ Ack(c) \/ Drop(c)
      PROVE  OneOwner'
  <2>1. UNCHANGED <<stream, handled, inbox>>
    BY <1>2 DEF Read, Ack, Drop, publisherVars
  <2>2. ~ Owns(c)' /\ \A d \in Consumers : d # c => batch'[d] = batch[d] /\ pc'[d] = pc[d]
    BY <1>2 DEF Read, Ack, Drop, NextEntry, Owns, TypeInv, TypeOK
  <2>3. \A d \in Consumers : Owns(d)' => Owns(d) /\ batch'[d] = batch[d]
    BY <2>2 DEF Owns
  <2> QED
    BY <2>1, <2>3, OwnersKept
<1>3. ASSUME NEW c \in Consumers, Consume(c) \/ Drop(c)
      PROVE  OneOwner'
  BY <1>2, <1>3, ClaimOwns, DeliverOwns, ForgetOwns DEF Consume
<1>4. CASE UNCHANGED vars
  BY <1>4 DEF vars, consumerVars, OneOwner, Owns, Event
<1> QED
  BY <1>1, <1>3, <1>4 DEF Next

LEMMA InitOwners == Init => OneOwner
<1>1. DOMAIN <<>> = {}
  BY EmptySeq, LenProperties
<1> QED
  BY <1>1 DEF Init, OneOwner, Owns, IsInjective, ToSet

\* Repeated entries, servers that share a group, failed deliveries and restarts: the
\* subscribers never finish the same event twice.
THEOREM EventsHandledOnce == Spec => []HandledOnce
<1>1. OneOwner => HandledOnce
  BY DEF OneOwner, HandledOnce
<1> QED
  BY <1>1, InitTypes, StepTypes, InitOwners, StepOwners, PTL DEF Spec
-----------------------------------------------------------------------------
(* Traces of events *)

\* A position that is with its owner, or that no server will come to any more.
Kept(p) ==
  /\ p \in pending
  /\ \A c \in Consumers : \A i \in DOMAIN batch[c] : batch[c][i] = p => i = 1 /\ Owns(c)

\* A position that is unread, or that is not acknowledged and not about to be.
Open(p) ==
  \/ p > delivered
  \/ p \in pending /\ \A c \in Consumers : pc[c] = "ack" => Head(batch[c]) # p

\* Every entry of an unhandled event may be acknowledged but one: that of the server
\* that made its row, and until there is a row, any that is left.
TraceOK ==
  /\ \A e \in Events : stage[e] = "mark" \/ outbox[e] = "published" => e \in ToSet(stream)
  /\ \A e \in inbox \ ToSet(handled) : \E p \in DOMAIN stream : stream[p] = e /\ Kept(p)
  /\ \A e \in ToSet(stream) \ ToSet(handled) : \E p \in DOMAIN stream : stream[p] = e /\ Open(p)

\* A kept position is open.
LEMMA KeptIsOpen ==
  ASSUME TypeInv, NEW p, Kept(p)
  PROVE  Open(p)
<1> SUFFICES ASSUME NEW c \in Consumers, pc[c] = "ack", Head(batch[c]) = p
             PROVE  FALSE
  BY DEF Kept, Open
<1>1. Head(batch[c]) = batch[c][1] /\ 1 \in DOMAIN batch[c]
  BY EntryFacts, TailFacts
<1> QED
  BY <1>1 DEF Kept, Owns

\* The event of an entry is that of its position.
LEMMA EntryOfEvent ==
  ASSUME TypeInv, NEW c \in Consumers, pc[c] # "read"
  PROVE  /\ Head(batch[c]) \in DOMAIN stream /\ stream[Head(batch[c])] = Event(c)
         /\ Head(batch[c]) \in pending
         /\ Head(batch[c]) = batch[c][1] /\ 1 \in DOMAIN batch[c]
<1>1. stream \in Seq(Events)
  BY DEF TypeInv, TypeOK
<1> QED
  BY <1>1, EntryFacts, TailFacts, LenProperties DEF Event

\* What a step has to keep: the witness of each event with a row, and of each that
\* has none, unless the event is handled.
LEMMA TraceKept ==
  ASSUME TypeInv, TypeInv', TraceOK, UNCHANGED <<publisherVars, stream>>,
         ToSet(handled) \subseteq ToSet(handled'),
         \A e \in inbox' \ ToSet(handled') : \E p \in DOMAIN stream : stream[p] = e /\ Kept(p)',
         \A p \in DOMAIN stream :
           Open(p) /\ stream[p] \notin inbox' \cup ToSet(handled') => Open(p)'
  PROVE  TraceOK'
<1>1. ASSUME NEW e \in ToSet(stream') \ ToSet(handled')
      PROVE  \E p \in DOMAIN stream' : stream'[p] = e /\ Open(p)'
  <2>1. e \in ToSet(stream) \ ToSet(handled)
    BY <1>1
  <2>2. CASE e \in inbox'
    <3>1. PICK p \in DOMAIN stream : stream[p] = e /\ Kept(p)'
      BY <2>2, <1>1
    <3>2. Open(p)'
      BY <3>1, KeptIsOpen, PTL
    <3> QED
      BY <3>1, <3>2
  <2>3. CASE e \notin inbox'
    BY <2>1, <2>3, <1>1 DEF TraceOK
  <2> QED
    BY <2>2, <2>3
<1> QED
  BY <1>1 DEF TraceOK, publisherVars

\* A publisher appends to the stream, behind what the group was given, and marks the
\* row of an event that has its entry.
LEMMA PublisherKeepsTrace ==
  ASSUME TypeInv, TraceOK, NEW e \in Events, Publish(e) \/ FailPublish(e)
  PROVE  TraceOK'
<1>1. UNCHANGED consumerVars /\ (stream' = stream \/ Add(e))
  BY DEF Publish, Insert, Add, Mark, FailPublish
<1>2. \A p : (Kept(p)' <=> Kept(p)) /\ (Open(p)' <=> Open(p))
  BY <1>1 DEF consumerVars, Kept, Open, Owns
<1>3. /\ stream \in Seq(Events) /\ Len(stream) \in Nat
      /\ DOMAIN stream = 1..Len(stream) /\ delivered \in 0..Len(stream)
  BY LenProperties DEF TypeInv, TypeOK
<1>4. CASE stream' = stream
  <2>1. \A d \in Events : stage'[d] = "mark" \/ outbox'[d] = "published"
                            => stage[d] = "mark" \/ outbox[d] = "published"
    <3>1. CASE Insert(e)
      BY <3>1 DEF Insert, After, TypeInv, TypeOK
    <3>2. ~ Add(e)
      <4>1. PICK longer : longer = Append(stream, e)
        OBVIOUS
      <4>2. Len(longer) = Len(stream) + 1
        BY <4>1, <1>3, AppendFacts
      <4>3. longer # stream
        BY <4>2, <1>3
      <4> QED
        BY <4>1, <4>3, <1>4 DEF Add
    <3>3. CASE Mark(e)
      BY <3>3 DEF Mark, After, TypeInv, TypeOK
    <3>4. CASE FailPublish(e)
      BY <3>4 DEF FailPublish, TypeInv, TypeOK
    <3> QED
      BY <3>1, <3>2, <3>3, <3>4 DEF Publish
  <2> QED
    BY <2>1, <1>1, <1>2, <1>4 DEF TraceOK, consumerVars
<1>5. CASE Add(e)
  <2>1. stream' = Append(stream, e)
    BY <1>5 DEF Add
  <2>2. /\ Len(stream') = Len(stream) + 1 /\ stream' \in Seq(Events)
        /\ \A p \in DOMAIN stream : stream'[p] = stream[p]
        /\ ToSet(stream') = ToSet(stream) \cup {e}
    BY <2>1, <1>3, AppendFacts
  <2>0. PICK last : last = Len(stream) + 1
    OBVIOUS
  <2>3. DOMAIN stream' = 1..last /\ stream'[last] = e
    BY <2>0, <2>1, <2>2, <1>3, AppendProperties, LenProperties
  <2>4. DOMAIN stream \subseteq DOMAIN stream' /\ last \in DOMAIN stream' /\ last > delivered
    BY <2>0, <2>3, <1>3
  <2>5. Open(last)'
    BY <2>4, <1>2 DEF Open
  <2>6. \A d \in Events : stage'[d] = "mark" \/ outbox'[d] = "published"
                            => d = e \/ stage[d] = "mark" \/ outbox[d] = "published"
    BY <1>5 DEF Add, After, TypeInv, TypeOK
  <2>7. UNCHANGED <<inbox, handled>>
    BY <1>1 DEF consumerVars
  <2>8. \A d \in Events : stage'[d] = "mark" \/ outbox'[d] = "published" => d \in ToSet(stream')
    BY <2>2, <2>6 DEF TraceOK
  <2>9. \A d \in inbox' \ ToSet(handled') : \E p \in DOMAIN stream' : stream'[p] = d /\ Kept(p)'
    BY <1>2, <2>2, <2>4, <2>7 DEF TraceOK
  <2>10. ASSUME NEW d \in ToSet(stream') \ ToSet(handled')
         PROVE  \E p \in DOMAIN stream' : stream'[p] = d /\ Open(p)'
    <3>1. CASE d = e
      BY <3>1, <2>3, <2>4, <2>5
    <3>2. CASE d # e
      BY <3>2, <2>2, <2>4, <2>7, <1>2 DEF TraceOK
    <3> QED
      BY <3>1, <3>2
  <2> QED
    BY <2>8, <2>9, <2>10 DEF TraceOK
<1> QED
  BY <1>1, <1>4, <1>5

\* A read gives the group all positions up to the new mark.
LEMMA TakenAll ==
  ASSUME TypeInv, delivered < Len(stream), NEW taken, taken = Taken(Len(stream)),
         NEW p \in Int, p > delivered, p <= delivered + Len(taken)
  PROVE  p \in ToSet(taken)
<1> DEFINE left == Len(stream) - delivered
           n    == IF left < BatchSize THEN left ELSE BatchSize
<1>1. delivered \in Nat /\ Len(stream) \in Nat
  BY LenProperties DEF TypeInv, TypeOK
<1>2. n \in Nat /\ taken = [k \in 1..n |-> delivered + k]
  BY <1>1, BatchAssumption DEF Taken
<1> HIDE DEF n
<1>3. taken \in Seq(Int) /\ DOMAIN taken = 1..n
  <2>1. taken \in [1..n -> Int]
    BY <1>1, <1>2
  <2> QED
    BY <2>1, <1>2, SeqDef
<1>4. Len(taken) = n
  BY <1>2, <1>3, LenProperties
<1>5. p - delivered \in 1..n /\ taken[p - delivered] = p
  BY <1>1, <1>2, <1>4
<1> QED
  BY <1>3, <1>5 DEF ToSet

\* A read takes new positions: no server had them, and they are not acknowledged.
LEMMA ReadKeepsTrace ==
  ASSUME TypeInv, TypeInv', TraceOK, NEW c \in Consumers, Read(c)
  PROVE  TraceOK'
<1> DEFINE taken == Taken(Len(stream))
<1>1. delivered < Len(stream) /\ delivered \in Nat /\ Len(stream) \in Nat
  BY LenProperties DEF Read, TypeInv, TypeOK
<1>2. /\ ToSet(taken) \subseteq (delivered + 1)..(delivered + Len(taken)) /\ Len(taken) \in Nat
      /\ taken \in Seq(ToSet(taken))
  BY <1>1, TakenFacts, LenProperties
<1>3. \A p \in Int : p > delivered /\ p <= delivered + Len(taken) => p \in ToSet(taken)
  BY <1>1, TakenAll
<1> HIDE DEF taken
<1>4. /\ delivered' = delivered + Len(taken) /\ pending' = pending \cup ToSet(taken)
      /\ UNCHANGED <<publisherVars, stream, inbox, handled>>
      /\ \A d \in Consumers : batch'[d] = (IF d = c THEN taken ELSE batch[d])
      /\ \A d \in Consumers : pc'[d] = (IF d = c THEN "claim" ELSE pc[d])
  BY DEF Read, taken, TypeInv, TypeOK
<1>5. pending \subseteq 1..delivered /\ \A i \in DOMAIN taken : taken[i] > delivered
  <2>1. \A i \in DOMAIN taken : taken[i] \in (delivered + 1)..(delivered + Len(taken))
    BY <1>2 DEF ToSet
  <2>2. \A k \in (delivered + 1)..(delivered + Len(taken)) : k > delivered
    BY <1>1, <1>2
  <2>3. pending \subseteq 1..delivered
    BY DEF TypeInv, TypeOK
  <2> QED
    BY <2>1, <2>2, <2>3
<1>6. ASSUME NEW p, Kept(p)
      PROVE  Kept(p)'
  <2>1. p \in pending /\ \A i \in DOMAIN taken : taken[i] # p
    BY <1>1, <1>5, <1>6 DEF Kept
  <2> QED
    BY <2>1, <1>4, <1>6 DEF Kept, Owns
<1>7. ASSUME NEW p \in DOMAIN stream, Open(p)
      PROVE  Open(p)'
  <2>1. p \in Int
    BY LenProperties DEF TypeInv, TypeOK
  <2>2. \A d \in Consumers : pc[d] = "ack" => Head(batch[d]) \in 1..delivered
    BY EntryFacts, <1>5
  <2>3. CASE p > delivered
    BY <2>1, <2>2, <2>3, <1>1, <1>2, <1>3, <1>4 DEF Open
  <2>4. CASE ~ (p > delivered)
    BY <2>4, <1>4, <1>7 DEF Open
  <2> QED
    BY <2>3, <2>4
<1> QED
  BY <1>4, <1>6, <1>7, TraceKept DEF TraceOK

\* The entry of a claim that finds no row is kept; one that finds it is given up, and
\* the entry of the row is another one.
LEMMA ClaimKeepsTrace ==
  ASSUME TypeInv, TypeInv', TraceOK, NEW c \in Consumers, Claim(c)
  PROVE  TraceOK'
<1>0. PICK p0 : p0 = Head(batch[c])
  OBVIOUS
<1>1. /\ pc[c] = "claim" /\ inbox' = inbox \cup {Event(c)}
      /\ UNCHANGED <<publisherVars, stream, delivered, pending, batch, handled>>
      /\ pc' = [pc EXCEPT ![c] = IF Event(c) \in inbox THEN "ack" ELSE "deliver"]
  BY DEF Claim, Known
<1>2. \A d \in Consumers : d # c => pc'[d] = pc[d]
  BY <1>1 DEF TypeInv, TypeOK
<1>3. /\ p0 \in DOMAIN stream /\ stream[p0] = Event(c)
      /\ p0 \in pending /\ p0 = batch[c][1] /\ 1 \in DOMAIN batch[c]
  BY <1>0, <1>1, EntryOfEvent
<1>4. ASSUME NEW p, Kept(p)
      PROVE  Kept(p)'
  <2>1. \A i \in DOMAIN batch[c] : batch[c][i] # p
    BY <1>1, <1>4 DEF Kept, Owns
  <2> QED
    BY <2>1, <1>1, <1>2, <1>4 DEF Kept, Owns
<1>5. CASE Event(c) \notin inbox
  <2>1. Owns(c)'
    BY <1>1, <1>5 DEF Owns, TypeInv, TypeOK
  <2>2. \A d \in Consumers : \A i \in DOMAIN batch[d] : batch[d][i] = p0 => d = c /\ i = 1
    BY <1>3 DEF TypeInv, BatchesApart, IsInjective
  <2>3. Kept(p0)'
    BY <2>1, <2>2, <1>1, <1>3 DEF Kept
  <2>4. \A e \in inbox' \ ToSet(handled') : \E p \in DOMAIN stream : stream[p] = e /\ Kept(p)'
    BY <2>3, <1>1, <1>3, <1>4 DEF TraceOK
  <2>5. \A p : Open(p) => Open(p)'
    BY <1>1, <1>2, <1>5 DEF Open, TypeInv, TypeOK
  <2> QED
    BY <2>4, <2>5, <1>1, TraceKept
<1>6. CASE Event(c) \in inbox
  <2>1. inbox' = inbox
    BY <1>1, <1>6
  <2>2. \A e \in inbox' \ ToSet(handled') : \E p \in DOMAIN stream : stream[p] = e /\ Kept(p)'
    BY <2>1, <1>1, <1>4 DEF TraceOK
  <2>3. \A p : Open(p) /\ p # p0 => Open(p)'
    BY <1>0, <1>1, <1>2 DEF Open
  <2> QED
    BY <2>1, <2>2, <2>3, <1>1, <1>3, <1>6, TraceKept
<1> QED
  BY <1>5, <1>6

\* A delivery gives up the entry of its event only when the event is handled.
LEMMA DeliverKeepsTrace ==
  ASSUME TypeInv, TypeInv', TraceOK, NEW c \in Consumers, Deliver(c)
  PROVE  TraceOK'
<1> DEFINE p0 == Head(batch[c])
<1>1. /\ pc[c] = "deliver"
      /\ UNCHANGED <<publisherVars, stream, delivered, pending, inbox, batch>>
      /\ \/ handled' = Append(handled, Event(c)) /\ pc' = [pc EXCEPT ![c] = "ack"]
         \/ handled' = handled /\ pc' = [pc EXCEPT ![c] = "forget"]
  BY DEF Deliver
<1>2. \A d \in Consumers : d # c => pc'[d] = pc[d]
  BY <1>1 DEF TypeInv, TypeOK
<1>3. p0 \in DOMAIN stream /\ stream[p0] = Event(c) /\ p0 = batch[c][1] /\ 1 \in DOMAIN batch[c]
  BY <1>1, EntryOfEvent
<1>4. Event(c) \in Events /\ handled \in Seq(Events)
  BY <1>1, EntryFacts DEF TypeInv, TypeOK
<1>5. CASE handled' = Append(handled, Event(c)) /\ pc' = [pc EXCEPT ![c] = "ack"]
  <2>1. ToSet(handled') = ToSet(handled) \cup {Event(c)}
    BY <1>4, <1>5, AppendFacts
  <2>2. ASSUME NEW p \in DOMAIN stream, Kept(p), stream[p] # Event(c)
        PROVE  Kept(p)'
    <3>1. \A i \in DOMAIN batch[c] : batch[c][i] # p
      BY <2>2, <1>3 DEF Kept
    <3> QED
      BY <3>1, <2>2, <1>1, <1>2 DEF Kept, Owns
  <2>3. ASSUME NEW p \in DOMAIN stream, Open(p), stream[p] # Event(c)
        PROVE  Open(p)'
    BY <2>3, <1>1, <1>2, <1>3 DEF Open
  <2>4. \A e \in inbox' \ ToSet(handled') : \E p \in DOMAIN stream : stream[p] = e /\ Kept(p)'
    BY <2>1, <2>2, <1>1 DEF TraceOK
  <2> QED
    BY <2>1, <2>3, <2>4, <1>1, TraceKept
<1>6. CASE handled' = handled /\ pc' = [pc EXCEPT ![c] = "forget"]
  <2>1. pc'[c] = "forget"
    BY <1>6 DEF TypeInv, TypeOK
  <2>2. \A p : (Kept(p) => Kept(p)') /\ (Open(p) => Open(p)')
    BY <2>1, <1>1, <1>2 DEF Kept, Open, Owns
  <2>3. \A e \in inbox' \ ToSet(handled') : \E p \in DOMAIN stream : stream[p] = e /\ Kept(p)'
    BY <2>2, <1>1, <1>6 DEF TraceOK
  <2> QED
    BY <2>2, <2>3, <1>1, <1>6, TraceKept
<1> QED
  BY <1>1, <1>5, <1>6

\* A server that leaves an entry, or all of its batch, unacknowledged: nobody comes to
\* the entries again.  An acknowledged one is not kept by anybody.
LEMMA LeaveKeepsTrace ==
  ASSUME TypeInv, TypeInv', TraceOK, NEW c \in Consumers, Forget(c) \/ Ack(c) \/ Drop(c)
  PROVE  TraceOK'
<1> DEFINE p0 == Head(batch[c])
<1>1. /\ pc[c] # "read" /\ UNCHANGED <<publisherVars, stream, delivered, handled>>
      /\ \A d \in Consumers : d # c => pc'[d] = pc[d] /\ batch'[d] = batch[d]
      /\ pc'[c] \in {"read", "claim"}
  BY DEF Forget, Ack, Drop, NextEntry, TypeInv, TypeOK
<1>2. p0 \in DOMAIN stream /\ stream[p0] = Event(c) /\ p0 = batch[c][1] /\ 1 \in DOMAIN batch[c]
  BY <1>1, EntryOfEvent
<1>3. \A k \in DOMAIN batch'[c] :
        k + 1 \in DOMAIN batch[c] /\ batch'[c][k] = batch[c][k + 1] /\ k + 1 # 1
  <2>1. CASE Drop(c)
    <3>1. batch'[c] = <<>>
      BY <2>1 DEF Drop, TypeInv, TypeOK
    <3> QED
      BY <3>1, EmptySeq, LenProperties
  <2>2. CASE Forget(c) \/ Ack(c)
    <3>1. batch'[c] = Tail(batch[c])
      BY <2>2 DEF Forget, Ack, NextEntry, Rest, TypeInv, TypeOK
    <3>2. batch[c] \in Seq(pending) /\ batch[c] # <<>>
      BY <1>1, EntryFacts
    <3>3. /\ Tail(batch[c]) \in Seq(pending)
          /\ \A k \in DOMAIN Tail(batch[c]) :
               k + 1 \in DOMAIN batch[c] /\ Tail(batch[c])[k] = batch[c][k + 1]
      BY <3>2, TailFacts
    <3>4. \A k \in DOMAIN Tail(batch[c]) : k \in Nat /\ k >= 1
      BY <3>3, LenProperties
    <3> QED
      BY <3>1, <3>3, <3>4
  <2> QED
    BY <2>1, <2>2
<1>4. \/ pending' = pending
      \/ pending' = pending \ {p0} /\ pc[c] = "ack"
  BY DEF Forget, Ack, Drop
<1>5. inbox' = inbox \/ inbox' = inbox \ {Event(c)}
  BY DEF Forget, Ack, Drop
<1>6. ASSUME NEW p, Kept(p), pending' = pending \/ p # p0
      PROVE  Kept(p)'
  <2>1. \A k \in DOMAIN batch'[c] : batch'[c][k] # p
    BY <1>3, <1>6 DEF Kept
  <2>2. p \in pending'
    BY <1>4, <1>6 DEF Kept
  <2> QED
    BY <2>1, <2>2, <1>1, <1>6 DEF Kept, Owns
<1>7. \A p : Kept(p) /\ pc[c] = "ack" => p # p0
  BY <1>2 DEF Kept, Owns
<1>8. ASSUME NEW p, Open(p)
      PROVE  Open(p)'
  BY <1>1, <1>4, <1>8 DEF Open
<1>9. \A e \in inbox' \ ToSet(handled') : \E p \in DOMAIN stream : stream[p] = e /\ Kept(p)'
  BY <1>1, <1>4, <1>5, <1>6, <1>7 DEF TraceOK
<1> QED
  BY <1>1, <1>8, <1>9, TraceKept

LEMMA StepTrace == TypeInv /\ TypeInv' /\ TraceOK /\ [Next]_vars => TraceOK'
<1> SUFFICES ASSUME TypeInv, TypeInv', TraceOK, [Next]_vars
             PROVE  TraceOK'
  OBVIOUS
<1>1. CASE \E e \in Events : Publish(e) \/ FailPublish(e)
  BY <1>1, PublisherKeepsTrace
<1>2. CASE \E c \in Consumers : Consume(c) \/ Drop(c)
  BY <1>2, ReadKeepsTrace, ClaimKeepsTrace, DeliverKeepsTrace, LeaveKeepsTrace DEF Consume
<1>3. CASE UNCHANGED vars
  BY <1>3 DEF vars, publisherVars, consumerVars, TraceOK, Kept, Open, Owns
<1> QED
  BY <1>1, <1>2, <1>3 DEF Next

LEMMA InitTrace == Init => TraceOK
<1>1. DOMAIN <<>> = {}
  BY EmptySeq, LenProperties
<1> QED
  BY <1>1 DEF Init, TraceOK, ToSet

\* An event that was recorded and never handled can be found by an operator, whatever
\* fails, repeats or restarts: its row is unmarked, or an entry of it is unread or not
\* acknowledged.
THEOREM LossIsTraced == Spec => []LossLeavesTrace
<1>1. TypeInv /\ TraceOK => LossLeavesTrace
  <2> SUFFICES ASSUME TypeInv, TraceOK, NEW e \in Events, outbox[e] = "published",
                      e \notin ToSet(handled)
               PROVE  \E p \in DOMAIN stream : stream[p] = e /\ (p > delivered \/ p \in pending)
    BY DEF LossLeavesTrace, TypeInv, TypeOK
  <2> QED
    BY DEF TraceOK, Open
<1> QED
  BY <1>1, InitTypes, StepTypes, InitTrace, StepTrace, PTL DEF Spec
=============================================================================
