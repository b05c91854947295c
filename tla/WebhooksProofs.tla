---------------------------- MODULE WebhooksProofs ----------------------------
(***************************************************************************)
(* Proofs about Webhooks, for any numbers of events, endpoints, attempts   *)
(* and replayers.  The inductive invariant has four parts: the types       *)
(* (TypeInv), the place that every endpoint has in a dispatch              *)
(* (DispatchOK), the letters and the versions of them that replays hold    *)
(* (ReplayOK), and, as long as replays do not overlap, that a letter and   *)
(* its log tell the same story (StoryOK).                                  *)
(***************************************************************************)
EXTENDS Webhooks, SequenceTheorems, FiniteSetTheorems, TLAPS
-----------------------------------------------------------------------------
(* Types *)

\* An endpoint of a dispatch, as it was listed.
Step == [ id : Endpoints, secret : 0..MaxChanges ]

DispatchState == [ pc      : {"idle", "send", "bury", "done"}, todo   : Seq(Step),
                   attempt : 1..MaxAttempts,                   reason : Reasons ]

ReplayState == [ pc     : {"idle", "read", "send", "update"}, queue  : Seq(Nat \ {0}),
                 letter : Letter \cup {NoLetter},             answer : Answers ]

\* A secret is no younger than the last change, and a queue holds dead letters.
TypeInv ==
  /\ endpoints  \in [Endpoints -> Endpoint \cup {Absent}]
  /\ changes    \in 0..MaxChanges
  /\ \A w \in Endpoints : endpoints[w].secret <= changes
  /\ deliveries \in [Events -> [Endpoints -> Seq(Delivery)]]
  /\ letters    \in Seq(Letter)
  /\ dispatch   \in [Events -> DispatchState]
  /\ \A e \in Events : dispatch[e].pc \in {"send", "bury"} <=> dispatch[e].todo # <<>>
  /\ replay     \in [Replayers -> ReplayState]
  /\ \A r \in Replayers :
       /\ replay[r].pc = "idle" <=> replay[r].queue = <<>>
       /\ replay[r].pc \in {"send", "update"} => replay[r].letter \in Letter
       /\ \A k \in DOMAIN replay[r].queue : replay[r].queue[k] \in DOMAIN letters
  /\ replays    \in 0..MaxReplays
  /\ overlapped \in BOOLEAN

-----------------------------------------------------------------------------
(* Dispatches *)

Target(e)    == Head(dispatch[e].todo).id
Trying(e, w) == dispatch[e].todo # <<>> /\ Target(e) = w

\* A dispatch has not come to the endpoint yet.
Ahead(e, w) ==
  \/ dispatch[e].pc = "idle"
  \/ \E k \in DOMAIN dispatch[e].todo : k # 1 /\ dispatch[e].todo[k].id = w

\* What the attempts of a dispatch look like: numbered, and all but the last transient.
Tries(log) ==
  /\ Len(log) <= MaxAttempts
  /\ \A k \in DOMAIN log : log[k].attempt = k /\ (k # Len(log) => log[k].answer = "transient")

\* The endpoint that is tried has no letter, and its log is that of the attempts made.
TryOK(d, log) ==
  /\ d.pc = "send" => Len(log) = d.attempt - 1 /\ \A k \in DOMAIN log : log[k].answer = "transient"
  /\ d.pc = "bury" => /\ Len(log) = d.attempt
                      /\ log[d.attempt].answer # "ok" /\ d.reason = ReasonFor(log[d.attempt].answer)

\* Where the dispatch is through: nothing to do, delivered, or one letter.
Settled(e, w) ==
  \/ LettersOf(e, w) = {} /\ (deliveries[e][w] = <<>> \/ Succeeded(deliveries[e][w]))
  \/ \E i \in DOMAIN letters : LettersOf(e, w) = {i}

PlaceOK(e, w) ==
  /\ LettersOf(e, w) = {} => Tries(deliveries[e][w])
  /\ Ahead(e, w)  => LettersOf(e, w) = {} /\ deliveries[e][w] = <<>>
  /\ Trying(e, w) => LettersOf(e, w) = {} /\ TryOK(dispatch[e], deliveries[e][w])
  /\ ~ Ahead(e, w) /\ ~ Trying(e, w) => Settled(e, w)

DispatchOK ==
  /\ \A e \in Events :
       /\ dispatch[e].pc = "idle" => dispatch[e].attempt = 1
       /\ \A j, k \in DOMAIN dispatch[e].todo :
            dispatch[e].todo[j].id = dispatch[e].todo[k].id => j = k
  /\ \A e \in Events, w \in Endpoints : PlaceOK(e, w)

-----------------------------------------------------------------------------
(* Replays *)

LogOf(letter) == deliveries[letter.event][letter.endpoint]

\* The letter that a replay has at hand.
Current(r) == Head(replay[r].queue)

\* A replay has read its letter and not written it back.
InHand(r) == replay[r].pc \in {"send", "update"}

\* The count of a letter: no more than the attempts made, and of those that are not
\* replays at most a dispatch's.
CountOK(letter, made) ==
  letter.attempts <= made /\ letter.attempts - letter.replays \in 1..MaxAttempts

LetterOK(letter) ==
  /\ CountOK(letter, Len(LogOf(letter)))
  /\ letter.status = "replayed" => Succeeded(LogOf(letter))

\* A replay's letter is an earlier version of the stored one, and its attempt is made.
HandOK(r) ==
  LET letter == replay[r].letter
      made   == Len(LogOf(letter))
  IN  /\ letters[Current(r)].event = letter.event /\ letters[Current(r)].endpoint = letter.endpoint
      /\ CountOK(letter, IF replay[r].pc = "update" THEN made - 1 ELSE made)
      /\ replay[r].pc = "update" /\ replay[r].answer = "ok" => Succeeded(LogOf(letter))

ReplayOK ==
  /\ \A i \in DOMAIN letters : LetterOK(letters[i])
  /\ \A r \in Replayers : InHand(r) => HandOK(r)

-----------------------------------------------------------------------------
(* The whole story *)

\* All attempts but the last were in vain, and they are numbered through.
Vain(log) ==
  \A k \in DOMAIN log : log[k].attempt = k /\ (k # Len(log) => log[k].answer # "ok")

Told(letter, log) ==
  /\ letter.attempts = Len(log) /\ Vain(log)
  /\ letter.status = "pending" =>
       log[Len(log)].answer # "ok" /\ letter.reason = ReasonFor(log[Len(log)].answer)

\* The letter tells the whole story, or lags behind by the attempt of a replay that has
\* not written it back.
TaleOK(i) ==
  \/ Told(letters[i], LogOf(letters[i]))
  \/ \E r \in Replayers : replay[r].pc = "update" /\ Current(r) = i

\* What a replay holds is the letter as it is stored, and the log has just its attempt more.
HeldOK(r) ==
  LET letter == replay[r].letter
      log    == LogOf(letter)
  IN  /\ InHand(r) => letter = letters[Current(r)] /\ letter.status = "pending"
      /\ replay[r].pc = "update" =>
           /\ Len(log) = letter.attempts + 1 /\ Vain(log)
           /\ log[Len(log)].answer = replay[r].answer

OneAtATime == \A r, q \in Replayers : replay[r].pc # "idle" /\ replay[q].pc # "idle" => r = q

StoryOK ==
  ~ overlapped =>
    /\ OneAtATime
    /\ \A i \in DOMAIN letters : TaleOK(i)
    /\ \A r \in Replayers : HeldOK(r)
-----------------------------------------------------------------------------
(* Lists *)

\* Finite sets of numbers have a least element.
LEMMA LeastOf ==
  ASSUME NEW S \in SUBSET Nat, IsFiniteSet(S), S # {}
  PROVE  \E m \in S : \A x \in S : m <= x
<1> DEFINE Below(m) == { x \in S : x <= m }
           all == { Below(m) : m \in S }
<1>1. IsWellFoundedOn(StrictSubsetOrdering(S), SUBSET S)
  BY FS_StrictSubsetOrderingWellFounded, FS_FiniteSubsetsOfFinite
<1>2. all \subseteq SUBSET S /\ all # {}
  OBVIOUS
<1> HIDE DEF all
<1>3. PICK least \in all : \A y \in all : ~ (<<y, least>> \in StrictSubsetOrdering(S))
  BY <1>1, <1>2, WFMin
<1>4. PICK m \in S : least = Below(m)
  BY DEF all
<1> SUFFICES ASSUME NEW x \in S, ~ (m <= x)
             PROVE  FALSE
  OBVIOUS
<1>5. Below(x) \subseteq Below(m) /\ m \in Below(m) /\ m \notin Below(x)
  <2>1. x \in Nat /\ m \in Nat /\ x < m
    OBVIOUS
  <2>2. \A y \in S : y <= x => y <= m
    BY <2>1
  <2>3. Below(x) \subseteq Below(m)
    BY <2>2
  <2>4. m <= m /\ ~ (m <= x)
    BY <2>1
  <2>5. m \in Below(m) /\ m \notin Below(x)
    BY <2>4
  <2> QED
    BY <2>3, <2>5
<1>6. Below(x) \in all /\ Below(x) \in SUBSET S /\ Below(m) \in SUBSET S
  BY DEF all
<1> HIDE DEF Below
<1>7. <<Below(x), Below(m)>> \in StrictSubsetOrdering(S)
  BY <1>5, <1>6 DEF StrictSubsetOrdering
<1> QED
  BY <1>3, <1>4, <1>6, <1>7

\* A list of the members of a set, each once, the largest first.
Descending(s, S) ==
  s \in [ 1..Cardinality(S) -> S ] /\ \A j, k \in DOMAIN s : j < k => s[j] > s[k]

\* The least member goes to the end.
LEMMA DescendingAdd ==
  ASSUME NEW S \in SUBSET Nat, IsFiniteSet(S), NEW m \in S, \A x \in S : m <= x,
         NEW s, Descending(s, S \ {m})
  PROVE  \E t : Descending(t, S)
<1> DEFINE n == Cardinality(S \ {m})
           t == [ k \in 1..(n + 1) |-> IF k = n + 1 THEN m ELSE s[k] ]
<1>1. n \in Nat /\ Cardinality(S) = n + 1
  <2>1. IsFiniteSet(S \ {m}) /\ n = Cardinality(S) - 1
    BY FS_RemoveElement
  <2>2. n \in Nat /\ Cardinality(S) \in Nat
    BY <2>1, FS_CardinalityType
  <2> QED
    BY <2>1, <2>2
<1>2. s \in [ 1..n -> S \ {m} ] /\ \A j, k \in 1..n : j < k => s[j] > s[k]
  BY DEF Descending
<1> HIDE DEF n
<1>3. t \in [ 1..(n + 1) -> S ]
  BY <1>1, <1>2
<1>4. ASSUME NEW j \in 1..(n + 1), NEW k \in 1..(n + 1), j < k
      PROVE  t[j] > t[k]
  <2>1. j \in 1..n /\ t[j] = s[j]
    BY <1>1, <1>4
  <2>2. CASE k = n + 1
    <3>1. t[k] = m /\ s[j] \in S /\ s[j] # m
      BY <1>2, <2>1, <2>2
    <3>2. s[j] \in Nat /\ m \in Nat /\ m <= s[j]
      BY <3>1
    <3> QED
      BY <2>1, <3>1, <3>2
  <2>3. CASE k # n + 1
    <3>1. k \in 1..n /\ t[k] = s[k]
      BY <1>1, <2>3
    <3> QED
      BY <1>2, <1>4, <2>1, <3>1
  <2> QED
    BY <2>2, <2>3
<1> QED
  BY <1>1, <1>3, <1>4 DEF Descending

\* Every finite set of numbers can be listed so: a smallest one that cannot would
\* lack its least member in a smaller one that can.
LEMMA DescendingExists ==
  ASSUME NEW S \in SUBSET Nat, IsFiniteSet(S)
  PROVE  \E s : Descending(s, S)
<1> DEFINE bad == { T \in SUBSET S : ~ \E s : Descending(s, T) }
<1>1. IsWellFoundedOn(StrictSubsetOrdering(S), SUBSET S)
  BY FS_StrictSubsetOrderingWellFounded, FS_FiniteSubsetsOfFinite
<1> SUFFICES ASSUME bad # {}
             PROVE  FALSE
  OBVIOUS
<1>2. bad \subseteq SUBSET S
  OBVIOUS
<1>3. PICK T \in bad : \A y \in bad : ~ (<<y, T>> \in StrictSubsetOrdering(S))
  <2> HIDE DEF bad
  <2> QED
    BY <1>1, <1>2, WFMin
<1>4. T \in SUBSET Nat /\ T \in SUBSET S /\ IsFiniteSet(T)
  BY FS_Subset
<1>5. T # {}
  <2> SUFFICES ASSUME T = {}
               PROVE  FALSE
    OBVIOUS
  <2> DEFINE none == [ k \in 1..0 |-> k ]
  <2>1. Cardinality(T) = 0 /\ none \in [ 1..0 -> T ] /\ DOMAIN none = {}
    BY FS_EmptySet
  <2>2. Descending(none, T)
    BY <2>1 DEF Descending
  <2> QED
    BY <2>2
<1>6. PICK m \in T : \A x \in T : m <= x
  BY <1>4, <1>5, LeastOf
<1>7. T \ {m} \notin bad
  <2>1. <<T \ {m}, T>> \in StrictSubsetOrdering(S)
    BY <1>4 DEF StrictSubsetOrdering
  <2> HIDE DEF bad
  <2> QED
    BY <1>3, <2>1
<1>8. PICK s : Descending(s, T \ {m})
  BY <1>4, <1>7
<1>9. \E t : Descending(t, T)
  BY <1>4, <1>6, <1>8, DescendingAdd
<1> QED
  BY <1>9

\* A page of dead letters consists of dead letters.
LEMMA ListedFacts ==
  ASSUME letters \in Seq(Letter), NEW status, NEW page, page = Listed(status)
  PROVE  page \in Seq(Nat \ {0}) /\ \A k \in DOMAIN page : page[k] \in DOMAIN letters
<1> DEFINE found  == { i \in DOMAIN letters : letters[i].status = status }
           newest == CHOOSE s \in [ 1..Cardinality(found) -> found ] :
                       \A j, k \in DOMAIN s : j < k => s[j] > s[k]
           n == IF Len(newest) < BatchLimit THEN Len(newest) ELSE BatchLimit
<1>1. found \in SUBSET Nat /\ found \subseteq DOMAIN letters /\ DOMAIN letters \subseteq Nat \ {0}
      /\ IsFiniteSet(found)
  <2>1. DOMAIN letters = 1..Len(letters) /\ Len(letters) \in Nat
    BY LenProperties
  <2>2. IsFiniteSet(1..Len(letters))
    BY <2>1, FS_Interval
  <2>3. found \in SUBSET (1..Len(letters))
    BY <2>1
  <2>4. IsFiniteSet(found)
    BY <2>2, <2>3, FS_Subset
  <2> HIDE DEF found
  <2> QED
    BY <2>1, <2>3, <2>4
<1>2. Cardinality(found) \in Nat
  BY <1>1, FS_CardinalityType
<1> HIDE DEF found
<1>3. newest \in [ 1..Cardinality(found) -> found ]
  BY <1>1, DescendingExists DEF Descending
<1> HIDE DEF newest
<1>4. newest \in Seq(found) /\ Len(newest) = Cardinality(found)
  <2>1. newest \in Seq(found)
    BY <1>2, <1>3, SeqDef
  <2> QED
    BY <1>2, <1>3, <2>1, LenProperties
<1>5. page = SubSeq(newest, 1, n)
  BY DEF Listed, found, newest
<1>6. n \in Int /\ n <= Len(newest)
  BY <1>2, <1>4, AttemptsAssumption
<1>7. \A i \in 1..n : newest[i] \in found
  BY <1>2, <1>3, <1>4, <1>6
<1> HIDE DEF n
<1>8. page \in Seq(found)
  BY <1>5, <1>6, <1>7, SubSeqProperties
<1>9. \A k \in DOMAIN page : page[k] \in found
  BY <1>8, ElementOfSeq, LenProperties
<1>10. found \subseteq Nat \ {0}
  BY <1>1
<1>11. page \in Seq(Nat \ {0})
  BY <1>8, <1>10, SeqMonotonic
<1> QED
  BY <1>1, <1>9, <1>11

\* The library lists a finite set: every member is there once, and nothing else.
LEMMA ListOfSet ==
  ASSUME NEW S, IsFiniteSet(S), NEW s, s = SetToSeq(S)
  PROVE  /\ s \in Seq(S) /\ DOMAIN s = 1..Len(s) /\ Len(s) \in Nat
         /\ \A j, k \in DOMAIN s : s[j] = s[k] => j = k
<1>1. Cardinality(S) \in Nat
  BY FS_CardinalityType
<1>2. \E f \in [ 1..Cardinality(S) -> S ] : IsInjective(f)
  BY FS_CardinalityType DEF ExistsBijection, Bijection, Injection, IsInjective
<1>3. s \in [ 1..Cardinality(S) -> S ] /\ IsInjective(s)
  BY <1>2 DEF SetToSeq
<1>4. s \in Seq(S)
  BY <1>1, <1>3, SeqDef
<1> QED
  BY <1>3, <1>4, LenProperties DEF IsInjective

\* What is left of a list after its first member.
LEMMA TailFacts ==
  ASSUME NEW S, NEW s \in Seq(S), s # <<>>
  PROVE  /\ Head(s) \in S /\ Head(s) = s[1] /\ 1 \in DOMAIN s
         /\ Tail(s) \in Seq(S)
         /\ \A k \in DOMAIN Tail(s) : k + 1 \in DOMAIN s /\ Tail(s)[k] = s[k + 1] /\ k + 1 # 1
         /\ \A k \in DOMAIN s : k # 1 => k - 1 \in DOMAIN Tail(s) /\ Tail(s)[k - 1] = s[k]
<1>1. /\ Len(s) \in Nat \ {0} /\ DOMAIN s = 1..Len(s)
      /\ Tail(s) \in Seq(S) /\ Len(Tail(s)) = Len(s) - 1
      /\ DOMAIN Tail(s) = 1..Len(Tail(s))
      /\ \A i \in 1..Len(Tail(s)) : Tail(s)[i] = s[i + 1]
      /\ Head(s) \in S /\ Head(s) = s[1]
  BY HeadTailProperties, LenProperties, EmptySeq
<1>2. PICK n \in Nat \ {0} : n = Len(s)
  BY <1>1
<1>3. DOMAIN s = 1..n /\ DOMAIN Tail(s) = 1..(n - 1)
  BY <1>1, <1>2
<1>4. \A k \in 1..(n - 1) : k + 1 \in 1..n /\ k + 1 # 1
  BY <1>2
<1>5. \A k \in 1..n : k # 1 => k - 1 \in 1..(n - 1) /\ (k - 1) + 1 = k
  BY <1>2
<1>6. \A i \in 1..(n - 1) : Tail(s)[i] = s[i + 1]
  BY <1>1, <1>2
<1>7. \A k \in 1..n : k # 1 => Tail(s)[k - 1] = s[k]
  BY <1>5, <1>6
<1>8. \A k \in DOMAIN Tail(s) : k + 1 \in DOMAIN s /\ Tail(s)[k] = s[k + 1] /\ k + 1 # 1
  BY <1>3, <1>4, <1>6
<1>9. \A k \in DOMAIN s : k # 1 => k - 1 \in DOMAIN Tail(s) /\ Tail(s)[k - 1] = s[k]
  BY <1>3, <1>5, <1>7
<1>10. 1 \in DOMAIN s
  BY <1>2, <1>3
<1> QED
  BY <1>1, <1>8, <1>9, <1>10

\* Appending keeps what was there.
LEMMA AppendFacts ==
  ASSUME NEW S, NEW s \in Seq(S), NEW x \in S, NEW t, t = Append(s, x)
  PROVE  /\ t \in Seq(S) /\ Len(t) = Len(s) + 1 /\ Len(s) \in Nat
         /\ DOMAIN s = 1..Len(s) /\ DOMAIN t = 1..(Len(s) + 1)
         /\ \A k \in DOMAIN s : t[k] = s[k]
         /\ t[Len(s) + 1] = x
  BY AppendProperties, LenProperties

-----------------------------------------------------------------------------
(* Steps keep the types *)

LEMMA ForwardFacts ==
  ASSUME NEW d \in DispatchState, d.todo # <<>>, NEW f, f = Forward(d)
  PROVE  /\ f \in DispatchState /\ f.todo = Tail(d.todo) /\ f.attempt = 1
         /\ f.pc = IF f.todo = <<>> THEN "done" ELSE "send"
<1>1. Tail(d.todo) \in Seq(Step)
  BY TailFacts DEF DispatchState
<1>2. f = [ pc      |-> IF Tail(d.todo) = <<>> THEN "done" ELSE "send", todo |-> Tail(d.todo),
            attempt |-> 1,            reason |-> "max_attempts_exhausted" ]
  BY DEF Forward, NotStarted
<1>3. 1 \in 1..MaxAttempts
  BY AttemptsAssumption
<1> QED
  BY <1>1, <1>2, <1>3 DEF DispatchState, Reasons

\* The three ways on from an answer: to the next endpoint, to the dead letters, or to
\* another attempt after a transient failure.
LEMMA AnswerFacts ==
  ASSUME NEW d \in DispatchState, d.todo # <<>>, d.pc = "send", NEW answer \in Answers,
         NEW a, a = AfterAnswer(d, answer)
  PROVE  /\ a \in DispatchState
         /\ \/ answer = "ok" /\ a = Forward(d)
            \/ /\ answer # "ok" /\ a.pc = "bury" /\ a.todo = d.todo /\ a.attempt = d.attempt
               /\ a.reason = ReasonFor(answer)
            \/ /\ answer = "transient" /\ a.pc = "send" /\ a.todo = d.todo
               /\ a.attempt = d.attempt + 1
<1>1. d.attempt \in 1..MaxAttempts /\ MaxAttempts \in Nat
  BY AttemptsAssumption DEF DispatchState
<1>2. CASE answer = "ok"
  BY <1>2, ForwardFacts DEF AfterAnswer
<1>3. CASE answer # "ok" /\ GivesUp(answer, d.attempt)
  <2>1. a = [d EXCEPT !.pc = "bury", !.reason = ReasonFor(answer)]
    BY <1>3 DEF AfterAnswer
  <2>2. ReasonFor(answer) \in Reasons
    BY DEF ReasonFor, Reasons
  <2> QED
    BY <1>3, <2>1, <2>2 DEF DispatchState
<1>4. CASE answer # "ok" /\ ~ GivesUp(answer, d.attempt)
  <2>1. a = [d EXCEPT !.attempt = @ + 1]
    BY <1>4 DEF AfterAnswer
  <2>2. answer = "transient" /\ d.attempt # MaxAttempts
    BY <1>4 DEF GivesUp, IsPermanent, Answers
  <2>3. d.attempt + 1 \in 1..MaxAttempts
    BY <1>1, <2>2
  <2> QED
    BY <2>1, <2>2, <2>3 DEF DispatchState
<1> QED
  BY <1>2, <1>3, <1>4

\* A replayer that goes on to the next letter of its batch.
LEMMA OnwardFacts ==
  ASSUME NEW r \in Replayers, replay \in [Replayers -> ReplayState],
         replay[r].queue # <<>>, Onward(r)
  PROVE  /\ replay' \in [Replayers -> ReplayState]
         /\ \A q \in Replayers \ {r} : replay'[q] = replay[q]
         /\ replay'[r].queue = Tail(replay[r].queue)
         /\ replay'[r].pc = IF replay'[r].queue = <<>> THEN "idle" ELSE "read"
<1>1. Tail(replay[r].queue) \in Seq(Nat \ {0})
  BY TailFacts DEF ReplayState
<1> DEFINE new == [ Resting EXCEPT !.queue = Tail(replay[r].queue),
                                   !.pc = IF Tail(replay[r].queue) = <<>> THEN "idle" ELSE "read" ]
<1>2. replay' = [replay EXCEPT ![r] = new]
  BY DEF Onward
<1>3. /\ new \in ReplayState /\ new.queue = Tail(replay[r].queue)
      /\ new.pc = IF Tail(replay[r].queue) = <<>> THEN "idle" ELSE "read"
  BY <1>1 DEF Resting, ReplayState, NoLetter, Answers
<1> HIDE DEF new
<1> QED
  BY <1>2, <1>3

\* The queue of such a replayer keeps holding dead letters.
LEMMA OnwardKeepsTypes ==
  ASSUME TypeInv, NEW r \in Replayers, replay[r].queue # <<>>, Onward(r),
         letters' \in Seq(Letter), Len(letters') = Len(letters)
  PROVE  /\ replay' \in [Replayers -> ReplayState]
         /\ \A q \in Replayers :
              /\ replay'[q].pc = "idle" <=> replay'[q].queue = <<>>
              /\ replay'[q].pc \in {"send", "update"} => replay'[q].letter \in Letter
              /\ \A k \in DOMAIN replay'[q].queue : replay'[q].queue[k] \in DOMAIN letters'
<1>1. /\ replay' \in [Replayers -> ReplayState]
      /\ \A q \in Replayers \ {r} : replay'[q] = replay[q]
      /\ replay'[r].queue = Tail(replay[r].queue)
      /\ replay'[r].pc = IF replay'[r].queue = <<>> THEN "idle" ELSE "read"
  BY OnwardFacts DEF TypeInv
<1>2. DOMAIN letters' = DOMAIN letters
  BY LenProperties DEF TypeInv
<1>3. replay[r].queue \in Seq(Nat \ {0})
  BY DEF TypeInv, ReplayState
<1>4. \A k \in DOMAIN replay'[r].queue : replay'[r].queue[k] \in DOMAIN letters'
  BY <1>1, <1>2, <1>3, TailFacts DEF TypeInv
<1>5. ASSUME NEW q \in Replayers \ {r}
      PROVE  /\ replay'[q].pc = "idle" <=> replay'[q].queue = <<>>
             /\ replay'[q].pc \in {"send", "update"} => replay'[q].letter \in Letter
             /\ \A k \in DOMAIN replay'[q].queue : replay'[q].queue[k] \in DOMAIN letters'
  BY <1>1, <1>2 DEF TypeInv
<1>6. /\ replay'[r].pc = "idle" <=> replay'[r].queue = <<>>
      /\ replay'[r].pc \notin {"send", "update"}
  BY <1>1
<1> QED
  BY <1>1, <1>4, <1>5, <1>6

\* Endpoints are created and changed.
LEMMA EndpointKeepsTypes ==
  ASSUME TypeInv, NEW w \in Endpoints, Create(w) \/ Update(w) \/ RotateSecret(w)
  PROVE  TypeInv'
<1>1. UNCHANGED <<deliveries, letters, dispatch, replay, replays, overlapped>>
  BY DEF Create, Update, RotateSecret, Change
<1>2. /\ endpoints \in [Endpoints -> Endpoint \cup {Absent}] /\ changes \in 0..MaxChanges
      /\ MaxChanges \in Nat /\ \A v \in Endpoints : endpoints[v].secret <= changes
  BY BoundAssumption DEF TypeInv
<1>3. /\ endpoints' \in [Endpoints -> Endpoint \cup {Absent}]
      /\ changes' \in 0..MaxChanges
      /\ \A v \in Endpoints : endpoints'[v].secret <= changes'
  <2>1. CASE Create(w)
    <3>1. PICK enabled \in BOOLEAN, events \in Subscriptions :
            endpoints' = [endpoints EXCEPT ![w] =
                            [ enabled |-> enabled, events |-> events, secret |-> 0 ]]
      BY <2>1 DEF Create
    <3>2. changes' = changes
      BY <2>1 DEF Create
    <3>3. [ enabled |-> enabled, events |-> events, secret |-> 0 ] \in Endpoint
      BY <1>2 DEF Endpoint
    <3> QED
      BY <1>2, <3>1, <3>2, <3>3
  <2>2. CASE Update(w) \/ RotateSecret(w)
    <3>1. endpoints[w] \in Endpoint /\ changes < MaxChanges /\ changes' = changes + 1
      BY <1>2, <2>2 DEF Update, RotateSecret, Change
    <3>2. changes' \in 0..MaxChanges
      BY <1>2, <3>1
    <3>3. \E new \in Endpoint :
            /\ endpoints' = [endpoints EXCEPT ![w] = new]
            /\ new.secret <= changes'
      <4>1. endpoints[w].secret \in 0..MaxChanges /\ endpoints[w].secret <= changes
        BY <1>2, <3>1 DEF Endpoint
      <4>2. CASE Update(w)
        <5>1. PICK enabled \in BOOLEAN, events \in Subscriptions :
                endpoints' = [endpoints EXCEPT ![w].enabled = enabled, ![w].events = events]
          BY <4>2 DEF Update
        <5> DEFINE new == [endpoints[w] EXCEPT !.enabled = enabled, !.events = events]
        <5>2. endpoints' = [endpoints EXCEPT ![w] = new]
          BY <1>2, <5>1
        <5>3. new \in Endpoint /\ new.secret = endpoints[w].secret
          BY <3>1 DEF Endpoint
        <5>4. new.secret <= changes'
          BY <1>2, <3>1, <4>1, <5>3
        <5> HIDE DEF new
        <5> QED
          BY <5>2, <5>3, <5>4
      <4>3. CASE RotateSecret(w)
        <5> DEFINE new == [ endpoints[w] EXCEPT !.secret = @ + 1 ]
        <5>1. endpoints' = [endpoints EXCEPT ![w] = new]
          BY <4>3, <1>2 DEF RotateSecret
        <5>2. endpoints[w].secret + 1 \in 0..MaxChanges /\ endpoints[w].secret + 1 <= changes'
          BY <1>2, <3>1, <4>1
        <5>3. new \in Endpoint /\ new.secret = endpoints[w].secret + 1
          BY <3>1, <5>2 DEF Endpoint
        <5> HIDE DEF new
        <5> QED
          BY <5>1, <5>2, <5>3
      <4> QED
        BY <2>2, <4>2, <4>3
    <3>4. PICK new \in Endpoint :
            endpoints' = [endpoints EXCEPT ![w] = new] /\ new.secret <= changes'
      BY <3>3
    <3>5. ASSUME NEW v \in Endpoints
          PROVE  endpoints'[v].secret <= changes'
      <4>1. endpoints[v].secret \in Int
        BY <1>2 DEF Endpoint, Absent
      <4>2. CASE v = w
        BY <1>2, <3>4, <4>2
      <4>3. CASE v # w
        BY <1>2, <3>1, <3>4, <4>1, <4>3
      <4> QED
        BY <4>2, <4>3
    <3> QED
      BY <1>2, <3>2, <3>4, <3>5
  <2> QED
    BY <2>1, <2>2
<1> QED
  BY <1>1, <1>3 DEF TypeInv

\* What a dispatch starts with: each endpoint once, as it is now.
LEMMA StartFacts ==
  ASSUME TypeInv, NEW e \in Events, Start(e)
  PROVE  /\ UNCHANGED <<endpoints, changes, deliveries, letters, replay, replays, overlapped>>
         /\ dispatch' \in [Events -> DispatchState]
         /\ \A f \in Events \ {e} : dispatch'[f] = dispatch[f]
         /\ dispatch[e].pc = "idle" /\ dispatch'[e].attempt = dispatch[e].attempt
         /\ dispatch'[e].pc = IF dispatch'[e].todo = <<>> THEN "done" ELSE "send"
         /\ \A j, k \in DOMAIN dispatch'[e].todo :
              dispatch'[e].todo[j].id = dispatch'[e].todo[k].id => j = k
<1> DEFINE wanting == SetToSeq({ w \in Endpoints : Wants(w, e) })
           listed  == [ k \in DOMAIN wanting |->
                          [ id |-> wanting[k], secret |-> endpoints[wanting[k]].secret ] ]
           new == [dispatch[e] EXCEPT !.todo = listed,
                                      !.pc   = IF listed = <<>> THEN "done" ELSE "send"]
<1>1. /\ wanting \in Seq({ w \in Endpoints : Wants(w, e) })
      /\ DOMAIN wanting = 1..Len(wanting) /\ Len(wanting) \in Nat
      /\ \A j, k \in DOMAIN wanting : wanting[j] = wanting[k] => j = k
  <2>1. IsFiniteSet({ w \in Endpoints : Wants(w, e) })
    BY EndpointsAssumption, FS_Subset
  <2> QED
    BY <2>1, ListOfSet
<1>2. \A k \in DOMAIN wanting : wanting[k] \in Endpoints /\ Wants(wanting[k], e)
  BY <1>1, ElementOfSeq
<1>3. \A w \in Endpoints : Wants(w, e) => endpoints[w].secret \in 0..MaxChanges
  <2>1. \A w \in Endpoints : endpoints[w] \in Endpoint \cup {Absent}
    BY DEF TypeInv
  <2>2. ~ Absent.enabled
    BY DEF Absent
  <2> QED
    BY <2>1, <2>2 DEF Wants, Endpoint
<1> HIDE DEF wanting
<1>4. \A k \in DOMAIN wanting : listed[k] \in Step /\ listed[k].id = wanting[k]
  BY <1>2, <1>3 DEF Step
<1>5. listed \in Seq(Step) /\ DOMAIN listed = DOMAIN wanting
  <2>1. listed \in [ 1..Len(wanting) -> Step ]
    BY <1>1, <1>4
  <2> HIDE DEF listed
  <2> QED
    BY <1>1, <2>1, SeqDef
<1>6. \A j, k \in DOMAIN listed : listed[j].id = listed[k].id => j = k
  BY <1>1, <1>4, <1>5
<1>7. /\ dispatch[e].pc = "idle" /\ dispatch \in [Events -> DispatchState]
      /\ UNCHANGED <<endpoints, changes, deliveries, letters, replay, replays, overlapped>>
  BY DEF Start, TypeInv
<1>8. dispatch' = [dispatch EXCEPT ![e] = new]
  BY <1>7 DEF Start, wanting
<1> HIDE DEF listed
<1>9. /\ new \in DispatchState /\ new.attempt = dispatch[e].attempt /\ new.todo = listed
      /\ new.pc = IF listed = <<>> THEN "done" ELSE "send"
  BY <1>5, <1>7 DEF DispatchState
<1> HIDE DEF new
<1>10. /\ dispatch' \in [Events -> DispatchState] /\ dispatch'[e] = new
       /\ \A f \in Events \ {e} : dispatch'[f] = dispatch[f]
  BY <1>7, <1>8, <1>9
<1> QED
  BY <1>6, <1>7, <1>9, <1>10

\* An attempt logs the answer of the endpoint at the head of the list.
LEMMA AttemptFacts ==
  ASSUME TypeInv, NEW e \in Events, Attempt(e)
  PROVE  /\ UNCHANGED <<endpoints, changes, letters, replay, replays, overlapped>>
         /\ dispatch[e].pc = "send" /\ dispatch[e].todo # <<>> /\ Target(e) \in Endpoints
         /\ dispatch \in [Events -> DispatchState]
         /\ \E answer \in Answers, try \in Delivery :
              /\ try.attempt = dispatch[e].attempt /\ try.answer = answer
              /\ deliveries' = [deliveries EXCEPT ![e][Target(e)] = Append(@, try)]
              /\ dispatch' = [dispatch EXCEPT ![e] = AfterAnswer(dispatch[e], answer)]
<1>1. /\ UNCHANGED <<endpoints, changes, letters, replay, replays, overlapped>>
      /\ dispatch[e].pc = "send" /\ dispatch[e].todo # <<>>
      /\ dispatch \in [Events -> DispatchState]
  BY DEF Attempt, TypeInv
<1>2. Head(dispatch[e].todo) \in Step /\ dispatch[e].attempt \in 1..MaxAttempts
  BY <1>1, TailFacts DEF DispatchState
<1>3. PICK answer \in Answers :
        /\ deliveries' = Logged(e, Head(dispatch[e].todo).id, dispatch[e].attempt, answer,
                                Head(dispatch[e].todo).secret)
        /\ dispatch' = [dispatch EXCEPT ![e] = AfterAnswer(dispatch[e], answer)]
  BY DEF Attempt
<1> DEFINE try == [ attempt |-> dispatch[e].attempt, answer |-> answer,
                    secret |-> Head(dispatch[e].todo).secret ]
<1>4. try \in Delivery /\ try.attempt = dispatch[e].attempt /\ try.answer = answer
  BY <1>2, AttemptsAssumption DEF Delivery, Step
<1>5. deliveries' = [deliveries EXCEPT ![e][Target(e)] = Append(@, try)]
  BY <1>3 DEF Logged, Target
<1> HIDE DEF try
<1> QED
  BY <1>1, <1>2, <1>3, <1>4, <1>5 DEF Target, Step

\* A log that grows by one delivery.
LEMMA LogGrows ==
  ASSUME deliveries \in [Events -> [Endpoints -> Seq(Delivery)]],
         NEW e \in Events, NEW w \in Endpoints, NEW try \in Delivery,
         deliveries' = [deliveries EXCEPT ![e][w] = Append(@, try)]
  PROVE  /\ deliveries' \in [Events -> [Endpoints -> Seq(Delivery)]]
         /\ deliveries'[e][w] = Append(deliveries[e][w], try)
         /\ \A f \in Events, v \in Endpoints :
              f # e \/ v # w => deliveries'[f][v] = deliveries[f][v]
<1>1. Append(deliveries[e][w], try) \in Seq(Delivery)
  BY AppendFacts
<1> QED
  BY <1>1

\* A dispatch that is through with an endpoint without an answer to log: a letter.
LEMMA BuryFacts ==
  ASSUME TypeInv, NEW e \in Events, Bury(e)
  PROVE  /\ UNCHANGED <<endpoints, changes, deliveries, replay, replays, overlapped>>
         /\ dispatch[e].pc = "bury" /\ dispatch[e].todo # <<>> /\ Target(e) \in Endpoints
         /\ dispatch \in [Events -> DispatchState]
         /\ dispatch' = [dispatch EXCEPT ![e] = Forward(dispatch[e])]
         /\ \E letter \in Letter :
              /\ letters' = Append(letters, letter)
              /\ letter.event = e /\ letter.endpoint = Target(e) /\ letter.replays = 0
              /\ letter.attempts = dispatch[e].attempt /\ letter.status = "pending"
              /\ letter.reason = dispatch[e].reason
<1>1. /\ UNCHANGED <<endpoints, changes, deliveries, replay, replays, overlapped>>
      /\ dispatch[e].pc = "bury" /\ dispatch[e].todo # <<>>
      /\ dispatch \in [Events -> DispatchState]
      /\ dispatch' = [dispatch EXCEPT ![e] = Forward(dispatch[e])]
  BY DEF Bury, TypeInv
<1>2. /\ Head(dispatch[e].todo) \in Step /\ dispatch[e].attempt \in Nat
      /\ dispatch[e].reason \in Reasons
  BY <1>1, TailFacts, AttemptsAssumption DEF DispatchState
<1> DEFINE letter == [ event    |-> e, endpoint |-> Head(dispatch[e].todo).id,
                       attempts |-> dispatch[e].attempt, status   |-> "pending",
                       replays  |-> 0, reason   |-> dispatch[e].reason ]
<1>3. letters' = Append(letters, letter)
  BY DEF Bury
<1>4. /\ letter \in Letter /\ letter.event = e /\ letter.endpoint = Target(e)
      /\ letter.replays = 0 /\ letter.attempts = dispatch[e].attempt
      /\ letter.status = "pending" /\ letter.reason = dispatch[e].reason
  BY <1>2 DEF Letter, Step, Target
<1> HIDE DEF letter
<1> QED
  BY <1>1, <1>2, <1>3, <1>4 DEF Target, Step

LEMMA DispatchKeepsTypes ==
  ASSUME TypeInv, NEW e \in Events, Dispatch(e)
  PROVE  TypeInv'
<1>1. CASE Start(e)
  BY <1>1, StartFacts, ZenonT(40) DEF TypeInv
<1>2. CASE Attempt(e)
  <2>1. PICK answer \in Answers, try \in Delivery :
          /\ deliveries' = [deliveries EXCEPT ![e][Target(e)] = Append(@, try)]
          /\ dispatch' = [dispatch EXCEPT ![e] = AfterAnswer(dispatch[e], answer)]
    BY <1>2, AttemptFacts
  <2>2. /\ UNCHANGED <<endpoints, changes, letters, replay, replays, overlapped>>
        /\ dispatch[e].pc = "send" /\ dispatch[e].todo # <<>> /\ Target(e) \in Endpoints
        /\ dispatch[e] \in DispatchState /\ dispatch \in [Events -> DispatchState]
    BY <1>2, AttemptFacts
  <2>3. deliveries' \in [Events -> [Endpoints -> Seq(Delivery)]]
    BY <2>1, <2>2, LogGrows DEF TypeInv
  <2>4. PICK a : a = AfterAnswer(dispatch[e], answer)
    OBVIOUS
  <2>5. a \in DispatchState /\ (a.pc \in {"send", "bury"} <=> a.todo # <<>>)
    BY <2>2, <2>4, AnswerFacts, ForwardFacts
  <2>6. \A f \in Events : dispatch'[f] = IF f = e THEN a ELSE dispatch[f]
    BY <2>1, <2>2, <2>4
  <2> QED
    BY <2>1, <2>2, <2>3, <2>4, <2>5, <2>6 DEF TypeInv
<1>3. CASE Bury(e)
  <2>1. PICK letter \in Letter : letters' = Append(letters, letter)
    BY <1>3, BuryFacts
  <2>2. /\ UNCHANGED <<endpoints, changes, deliveries, replay, replays, overlapped>>
        /\ dispatch[e].todo # <<>> /\ dispatch[e] \in DispatchState
        /\ dispatch \in [Events -> DispatchState]
        /\ dispatch' = [dispatch EXCEPT ![e] = Forward(dispatch[e])]
    BY <1>3, BuryFacts
  <2>3. letters' \in Seq(Letter) /\ DOMAIN letters \subseteq DOMAIN letters'
    <3>1. /\ letters' \in Seq(Letter) /\ DOMAIN letters = 1..Len(letters)
          /\ DOMAIN letters' = 1..(Len(letters) + 1) /\ Len(letters) \in Nat
      BY <2>1, AppendFacts DEF TypeInv
    <3> QED
      BY <3>1
  <2>4. PICK f : f = Forward(dispatch[e])
    OBVIOUS
  <2>5. f \in DispatchState /\ (f.pc \in {"send", "bury"} <=> f.todo # <<>>)
    BY <2>2, <2>4, ForwardFacts
  <2>6. \A g \in Events : dispatch'[g] = IF g = e THEN f ELSE dispatch[g]
    BY <2>2, <2>4
  <2> QED
    BY <2>2, <2>3, <2>4, <2>5, <2>6 DEF TypeInv
<1> QED
  BY <1>1, <1>2, <1>3 DEF Dispatch

\* A request has dead letters to go through, and reads the first of them next.
LEMMA RequestFacts ==
  ASSUME TypeInv, NEW r \in Replayers, Request(r)
  PROVE  /\ UNCHANGED <<endpoints, changes, deliveries, letters, dispatch, replays>>
         /\ overlapped' = (overlapped \/ \E q \in Replayers \ {r} : replay[q].pc # "idle")
         /\ replay[r].pc = "idle" /\ replay' \in [Replayers -> ReplayState]
         /\ \A q \in Replayers \ {r} : replay'[q] = replay[q]
         /\ replay'[r].pc = "read" /\ replay'[r].queue # <<>>
         /\ \A k \in DOMAIN replay'[r].queue : replay'[r].queue[k] \in DOMAIN letters
<1>1. /\ UNCHANGED <<endpoints, changes, deliveries, letters, dispatch, replays>>
      /\ overlapped' = (overlapped \/ \E q \in Replayers \ {r} : replay[q].pc # "idle")
      /\ replay[r].pc = "idle" /\ replay \in [Replayers -> ReplayState]
      /\ letters \in Seq(Letter) /\ DOMAIN letters = 1..Len(letters) /\ Len(letters) \in Nat
  BY LenProperties DEF Request, TypeInv
<1>2. \E queue \in Seq(Nat \ {0}) :
         /\ queue # <<>> /\ \A k \in DOMAIN queue : queue[k] \in DOMAIN letters
         /\ replay' = [replay EXCEPT ![r].queue = queue, ![r].pc = "read"]
  <2>1. CASE \E i \in DOMAIN letters :
               replay' = [replay EXCEPT ![r].queue = <<i>>, ![r].pc = "read"]
    <3>1. PICK i \in DOMAIN letters :
            replay' = [replay EXCEPT ![r].queue = <<i>>, ![r].pc = "read"]
      BY <2>1
    <3>2. i \in Nat \ {0}
      BY <1>1
    <3>3. <<i>> \in Seq(Nat \ {0}) /\ <<i>> # <<>> /\ \A k \in DOMAIN <<i>> : <<i>>[k] = i
      BY <3>2
    <3> QED
      BY <3>1, <3>3
  <2>2. CASE \E status \in {"pending", "replayed"} :
               /\ Listed(status) # <<>>
               /\ replay' = [replay EXCEPT ![r].queue = Listed(status), ![r].pc = "read"]
    <3>1. PICK status \in {"pending", "replayed"} :
            /\ Listed(status) # <<>>
            /\ replay' = [replay EXCEPT ![r].queue = Listed(status), ![r].pc = "read"]
      BY <2>2
    <3> QED
      BY <1>1, <3>1, ListedFacts
  <2> QED
    BY <2>1, <2>2 DEF Request
<1>3. PICK queue \in Seq(Nat \ {0}) :
        /\ queue # <<>> /\ \A k \in DOMAIN queue : queue[k] \in DOMAIN letters
        /\ replay' = [replay EXCEPT ![r].queue = queue, ![r].pc = "read"]
  BY <1>2
<1> DEFINE new == [replay[r] EXCEPT !.queue = queue, !.pc = "read"]
<1>4. new \in ReplayState /\ new.queue = queue /\ new.pc = "read"
  BY <1>1 DEF ReplayState
<1>5. replay' = [replay EXCEPT ![r] = new]
  BY <1>1, <1>3
<1> HIDE DEF new
<1>6. /\ replay' \in [Replayers -> ReplayState] /\ replay'[r] = new
      /\ \A q \in Replayers \ {r} : replay'[q] = replay[q]
  BY <1>1, <1>4, <1>5
<1> QED
  BY <1>1, <1>3, <1>4, <1>6

\* A replayer at work has a dead letter at the head of its queue.
LEMMA AtWork ==
  ASSUME TypeInv, NEW r \in Replayers, replay[r].pc # "idle"
  PROVE  /\ replay[r] \in ReplayState /\ replay[r].queue # <<>>
         /\ Current(r) \in DOMAIN letters /\ letters[Current(r)] \in Letter
<1>1. /\ replay[r] \in ReplayState /\ replay[r].queue # <<>>
      /\ replay[r].queue \in Seq(Nat \ {0})
  BY DEF TypeInv, ReplayState
<1>2. Current(r) \in DOMAIN letters
  BY <1>1, TailFacts DEF Current, TypeInv
<1> QED
  BY <1>1, <1>2, ElementOfSeq, LenProperties DEF TypeInv

\* A replay takes the letter as it is now, or leaves one that was replayed.
LEMMA ReadFacts ==
  ASSUME TypeInv, NEW r \in Replayers, ReadLetter(r)
  PROVE  /\ UNCHANGED <<endpoints, changes, deliveries, letters, dispatch, overlapped>>
         /\ replay[r].pc = "read" /\ replays' \in 0..MaxReplays
         /\ \/ /\ letters[Current(r)].status # "replayed"
               /\ replay' \in [Replayers -> ReplayState]
               /\ \A q \in Replayers \ {r} : replay'[q] = replay[q]
               /\ replay'[r].pc = "send" /\ replay'[r].letter = letters[Current(r)]
               /\ replay'[r].queue = replay[r].queue
            \/ Onward(r)
<1>1. /\ UNCHANGED <<endpoints, changes, deliveries, letters, dispatch, overlapped>>
      /\ replay[r].pc = "read" /\ replay \in [Replayers -> ReplayState]
      /\ replays' \in 0..MaxReplays
  BY BoundAssumption DEF ReadLetter, TypeInv
<1> DEFINE letter == letters[Current(r)]
           new    == [replay[r] EXCEPT !.letter = letter, !.pc = "send"]
<1>2. letter \in Letter
  BY <1>1, AtWork
<1>3. CASE Replayable(letter) /\ replay' = [replay EXCEPT ![r].letter = letter, ![r].pc = "send"]
  <2>1. letter.status # "replayed"
    BY <1>3 DEF Replayable
  <2> HIDE DEF letter
  <2>2. new \in ReplayState /\ new.pc = "send" /\ new.letter = letter /\ new.queue = replay[r].queue
    BY <1>1, <1>2 DEF ReplayState
  <2>3. replay' = [replay EXCEPT ![r] = new]
    BY <1>1, <1>3
  <2> HIDE DEF new
  <2>4. /\ replay' \in [Replayers -> ReplayState] /\ replay'[r] = new
        /\ \A q \in Replayers \ {r} : replay'[q] = replay[q]
    BY <1>1, <2>2, <2>3
  <2> QED
    BY <1>1, <2>1, <2>2, <2>4 DEF letter
<1> QED
  BY <1>1, <1>3 DEF ReadLetter, Current

\* A replay logs the answer under the number that follows the count of its letter, or
\* leaves a letter whose endpoint is disabled.
LEMMA SendFacts ==
  ASSUME TypeInv, NEW r \in Replayers, Send(r)
  PROVE  /\ UNCHANGED <<endpoints, changes, letters, dispatch, replays, overlapped>>
         /\ replay[r].pc = "send" /\ replay[r].letter \in Letter
         /\ \/ deliveries' = deliveries /\ Onward(r)
            \/ \E try \in Delivery :
                 /\ try.attempt = replay[r].letter.attempts + 1
                 /\ deliveries' = [deliveries EXCEPT
                       ![replay[r].letter.event][replay[r].letter.endpoint] = Append(@, try)]
                 /\ replay' \in [Replayers -> ReplayState]
                 /\ \A q \in Replayers \ {r} : replay'[q] = replay[q]
                 /\ replay'[r].pc = "update" /\ replay'[r].answer = try.answer
                 /\ replay'[r].letter = replay[r].letter /\ replay'[r].queue = replay[r].queue
<1> DEFINE letter == replay[r].letter
           w      == letter.endpoint
<1>1. /\ UNCHANGED <<endpoints, changes, letters, dispatch, replays, overlapped>>
      /\ replay[r].pc = "send" /\ letter \in Letter /\ replay \in [Replayers -> ReplayState]
  BY DEF Send, TypeInv
<1>2. letter.event \in Events /\ w \in Endpoints /\ letter.attempts \in Nat
  BY <1>1 DEF Letter
<1>3. CASE \E answer \in Answers :
             /\ deliveries' = Logged(letter.event, w, letter.attempts + 1, answer,
                                     endpoints[w].secret)
             /\ replay'     = [replay EXCEPT ![r].answer = answer, ![r].pc = "update"]
             /\ endpoints[w].enabled
  <2>1. PICK answer \in Answers :
             /\ deliveries' = Logged(letter.event, w, letter.attempts + 1, answer,
                                     endpoints[w].secret)
             /\ replay'     = [replay EXCEPT ![r].answer = answer, ![r].pc = "update"]
             /\ endpoints[w].enabled
    BY <1>3
  <2> DEFINE try == [ attempt |-> letter.attempts + 1, answer |-> answer,
                      secret |-> endpoints[w].secret ]
             new == [replay[r] EXCEPT !.answer = answer, !.pc = "update"]
  <2>2. endpoints[w] \in Endpoint
    <3>1. endpoints[w] \in Endpoint \cup {Absent} /\ ~ Absent.enabled
      BY <1>2 DEF TypeInv, Absent
    <3> QED
      BY <2>1, <3>1
  <2>3. endpoints[w].secret \in 0..MaxChanges
    BY <2>2 DEF Endpoint
  <2>4. deliveries' = [deliveries EXCEPT ![letter.event][w] = Append(@, try)]
    BY <2>1 DEF Logged
  <2> HIDE DEF letter, w
  <2>5. try \in Delivery /\ try.attempt = letter.attempts + 1 /\ try.answer = answer
    BY <1>2, <2>3 DEF Delivery
  <2> HIDE DEF try
  <2>6. /\ new \in ReplayState /\ new.pc = "update" /\ new.answer = answer
        /\ new.letter = replay[r].letter /\ new.queue = replay[r].queue
    BY <1>1 DEF ReplayState
  <2>7. replay' = [replay EXCEPT ![r] = new]
    BY <1>1, <2>1
  <2> HIDE DEF new
  <2>8. /\ replay' \in [Replayers -> ReplayState] /\ replay'[r] = new
        /\ \A q \in Replayers \ {r} : replay'[q] = replay[q]
    BY <1>1, <2>6, <2>7
  <2> QED
    BY <1>1, <2>4, <2>5, <2>6, <2>8 DEF letter, w
<1> QED
  BY <1>1, <1>3 DEF Send

\* A replay writes back the letter as it read it, with its attempt counted.
LEMMA UpdateFacts ==
  ASSUME TypeInv, NEW r \in Replayers, UpdateLetter(r)
  PROVE  /\ UNCHANGED <<endpoints, changes, deliveries, dispatch, replays, overlapped>>
         /\ replay[r].pc = "update" /\ replay[r].letter \in Letter /\ Onward(r)
         /\ letters' \in Seq(Letter) /\ Len(letters') = Len(letters)
         /\ DOMAIN letters' = DOMAIN letters /\ Current(r) \in DOMAIN letters
         /\ \A j \in DOMAIN letters : j # Current(r) => letters'[j] = letters[j]
         /\ LET old    == replay[r].letter
                new    == letters'[Current(r)]
                answer == replay[r].answer
            IN  /\ new.event = old.event /\ new.endpoint = old.endpoint
                /\ new.attempts = old.attempts + 1 /\ new.replays = old.replays + 1
                /\ new.status = IF answer = "ok" THEN "replayed" ELSE "pending"
                /\ answer # "ok" => new.reason = ReasonFor(answer)
<1> DEFINE old    == replay[r].letter
           answer == replay[r].answer
           i      == Current(r)
<1>1. /\ UNCHANGED <<endpoints, changes, deliveries, dispatch, replays, overlapped>>
      /\ replay[r].pc = "update" /\ old \in Letter /\ Onward(r)
      /\ letters' = [letters EXCEPT ![i] = NextState(old, answer)]
  BY DEF UpdateLetter, TypeInv, Current
<1>2. i \in DOMAIN letters /\ letters \in Seq(Letter) /\ DOMAIN letters = 1..Len(letters)
  BY <1>1, AtWork, LenProperties DEF TypeInv
<1> HIDE DEF i
<1>3. PICK new : new = NextState(old, answer)
  OBVIOUS
<1>4. /\ new \in Letter /\ new.event = old.event /\ new.endpoint = old.endpoint
      /\ new.attempts = old.attempts + 1 /\ new.replays = old.replays + 1
      /\ new.status = IF answer = "ok" THEN "replayed" ELSE "pending"
      /\ answer # "ok" => new.reason = ReasonFor(answer)
  <2>1. ReasonFor(answer) \in Reasons
    BY DEF ReasonFor, Reasons
  <2> HIDE DEF old, answer
  <2>2. old.attempts + 1 \in Nat /\ old.replays + 1 \in Nat
    BY <1>1 DEF Letter
  <2>3. PICK status \in {"pending", "replayed"} :
          status = IF answer = "ok" THEN "replayed" ELSE "pending"
    OBVIOUS
  <2>4. PICK reason \in Reasons : reason = IF answer = "ok" THEN old.reason ELSE ReasonFor(answer)
    BY <1>1, <2>1 DEF Letter
  <2>5. new = [old EXCEPT !.attempts = old.attempts + 1, !.replays = old.replays + 1,
                          !.status = status, !.reason = reason]
    BY <1>1, <1>3, <2>3, <2>4 DEF NextState, Letter
  <2>6. /\ new \in Letter /\ new.event = old.event /\ new.endpoint = old.endpoint
        /\ new.attempts = old.attempts + 1 /\ new.replays = old.replays + 1
        /\ new.status = status /\ new.reason = reason
    BY <1>1, <2>2, <2>5 DEF Letter
  <2> QED
    BY <2>3, <2>4, <2>6
<1> HIDE DEF old, answer
<1>5. /\ letters' \in Seq(Letter) /\ Len(letters') = Len(letters)
      /\ DOMAIN letters' = DOMAIN letters /\ letters'[i] = new
      /\ \A j \in DOMAIN letters : j # i => letters'[j] = letters[j]
  <2>1. new \in Letter /\ i \in 1..Len(letters) /\ letters' = [letters EXCEPT ![i] = new]
    BY <1>1, <1>2, <1>3, <1>4
  <2> QED
    BY <1>2, <2>1, ExceptSeq, LenProperties
<1> QED
  BY <1>1, <1>2, <1>4, <1>5 DEF i, old, answer

LEMMA ReplayKeepsTypes ==
  ASSUME TypeInv, NEW r \in Replayers, Replay(r)
  PROVE  TypeInv'
<1>1. CASE Request(r)
  <2>1. /\ UNCHANGED <<endpoints, changes, deliveries, letters, dispatch, replays>>
        /\ overlapped' = (overlapped \/ \E q \in Replayers \ {r} : replay[q].pc # "idle")
        /\ replay' \in [Replayers -> ReplayState]
        /\ \A q \in Replayers \ {r} : replay'[q] = replay[q]
        /\ replay'[r].pc = "read" /\ replay'[r].queue # <<>>
        /\ \A k \in DOMAIN replay'[r].queue : replay'[r].queue[k] \in DOMAIN letters
    BY <1>1, RequestFacts
  <2>2. ASSUME NEW q \in Replayers
        PROVE  /\ replay'[q].pc = "idle" <=> replay'[q].queue = <<>>
               /\ replay'[q].pc \in {"send", "update"} => replay'[q].letter \in Letter
               /\ \A k \in DOMAIN replay'[q].queue : replay'[q].queue[k] \in DOMAIN letters'
    <3>1. CASE q = r
      BY <2>1, <3>1
    <3>2. CASE q # r
      BY <2>1, <3>2 DEF TypeInv
    <3> QED
      BY <3>1, <3>2
  <2>3. overlapped' \in BOOLEAN
    BY <2>1
  <2> QED
    BY <2>1, <2>2, <2>3 DEF TypeInv
<1>2. ASSUME Onward(r), replay[r].pc # "idle", replays' \in 0..MaxReplays,
             UNCHANGED <<endpoints, changes, deliveries, letters, dispatch, overlapped>>
      PROVE  TypeInv'
  <2>1. replay[r].queue # <<>> /\ letters' \in Seq(Letter)
    BY <1>2, AtWork DEF TypeInv
  <2> QED
    BY <1>2, <2>1, OnwardKeepsTypes DEF TypeInv
<1>3. CASE ReadLetter(r) /\ ~ Onward(r)
  BY <1>3, ReadFacts, AtWork, ZenonT(40) DEF TypeInv
<1>4. CASE Send(r) /\ ~ (deliveries' = deliveries /\ Onward(r))
  <2>1. PICK try \in Delivery :
          /\ deliveries' = [deliveries EXCEPT
                ![replay[r].letter.event][replay[r].letter.endpoint] = Append(@, try)]
          /\ replay' \in [Replayers -> ReplayState]
          /\ \A q \in Replayers \ {r} : replay'[q] = replay[q]
          /\ replay'[r].pc = "update"
          /\ replay'[r].letter = replay[r].letter /\ replay'[r].queue = replay[r].queue
    BY <1>4, SendFacts
  <2>2. /\ UNCHANGED <<endpoints, changes, letters, dispatch, replays, overlapped>>
        /\ replay[r].pc = "send" /\ replay[r].letter \in Letter
    BY <1>4, SendFacts
  <2>3. replay[r].letter.event \in Events /\ replay[r].letter.endpoint \in Endpoints
    BY <2>2 DEF Letter
  <2>4. deliveries' \in [Events -> [Endpoints -> Seq(Delivery)]]
    BY <2>1, <2>3, LogGrows DEF TypeInv
  <2>5. ASSUME NEW q \in Replayers
        PROVE  /\ replay'[q].pc = "idle" <=> replay'[q].queue = <<>>
               /\ replay'[q].pc \in {"send", "update"} => replay'[q].letter \in Letter
               /\ \A k \in DOMAIN replay'[q].queue : replay'[q].queue[k] \in DOMAIN letters'
    <3>1. CASE q = r
      BY <2>1, <2>2, <3>1 DEF TypeInv
    <3>2. CASE q # r
      BY <2>1, <2>2, <3>2 DEF TypeInv
    <3> QED
      BY <3>1, <3>2
  <2> QED
    BY <2>1, <2>2, <2>4, <2>5 DEF TypeInv
<1>5. CASE UpdateLetter(r)
  <2>1. /\ UNCHANGED <<endpoints, changes, deliveries, dispatch, replays, overlapped>>
        /\ replay[r].pc = "update" /\ Onward(r)
        /\ letters' \in Seq(Letter) /\ Len(letters') = Len(letters)
    BY <1>5, UpdateFacts
  <2>2. replay[r].queue # <<>>
    BY <2>1, AtWork
  <2> QED
    BY <2>1, <2>2, OnwardKeepsTypes DEF TypeInv
<1>6. CASE ReadLetter(r) /\ Onward(r)
  BY <1>2, <1>6, ReadFacts
<1>7. CASE Send(r) /\ deliveries' = deliveries /\ Onward(r)
  BY <1>2, <1>7, SendFacts DEF TypeInv
<1> QED
  BY <1>1, <1>3, <1>4, <1>5, <1>6, <1>7 DEF Replay

LEMMA InitTypes == Init => TypeInv
<1> SUFFICES ASSUME Init
             PROVE  TypeInv
  OBVIOUS
<1>1. \A S : <<>> \in Seq(S) /\ DOMAIN <<>> = {}
  BY EmptySeq, LenProperties
<1>2. NotStarted \in DispatchState /\ NotStarted.pc = "idle" /\ NotStarted.todo = <<>>
  BY <1>1, AttemptsAssumption DEF NotStarted, DispatchState, Reasons
<1>3. Resting \in ReplayState /\ Resting.pc = "idle" /\ Resting.queue = <<>>
  BY <1>1 DEF Resting, ReplayState, NoLetter, Answers
<1>4. /\ endpoints \in [Endpoints -> Endpoint \cup {Absent}] /\ changes \in 0..MaxChanges
      /\ \A w \in Endpoints : endpoints[w].secret <= changes
  <2>1. Absent.secret = -1
    BY DEF Absent
  <2> QED
    BY <2>1, BoundAssumption DEF Init
<1>5. /\ deliveries \in [Events -> [Endpoints -> Seq(Delivery)]] /\ letters \in Seq(Letter)
      /\ replays \in 0..MaxReplays /\ overlapped \in BOOLEAN
  <2>1. <<>> \in Seq(Delivery) /\ <<>> \in Seq(Letter)
    BY <1>1
  <2>2. deliveries = [ e \in Events |-> [ w \in Endpoints |-> <<>> ] ] /\ letters = <<>>
    BY DEF Init
  <2>3. [ w \in Endpoints |-> <<>> ] \in [Endpoints -> Seq(Delivery)]
    BY <2>1
  <2>4. deliveries \in [Events -> [Endpoints -> Seq(Delivery)]]
    BY <2>2, <2>3
  <2>5. replays \in 0..MaxReplays
    BY BoundAssumption DEF Init
  <2>6. overlapped \in BOOLEAN
    BY DEF Init
  <2> QED
    BY <2>1, <2>2, <2>4, <2>5, <2>6
<1>6. /\ dispatch \in [Events -> DispatchState]
      /\ \A e \in Events : dispatch[e].pc \in {"send", "bury"} <=> dispatch[e].todo # <<>>
  BY <1>2 DEF Init
<1>7. replay \in [Replayers -> ReplayState] /\ \A r \in Replayers : replay[r] = Resting
  BY <1>3 DEF Init
<1> QED
  BY <1>1, <1>3, <1>4, <1>5, <1>6, <1>7 DEF TypeInv

LEMMA StepTypes == TypeInv /\ [Next]_vars => TypeInv'
<1> SUFFICES ASSUME TypeInv, [Next]_vars
             PROVE  TypeInv'
  OBVIOUS
<1>1. CASE \E e \in Events : Dispatch(e)
  BY <1>1, DispatchKeepsTypes
<1>2. CASE \E r \in Replayers : Replay(r)
  BY <1>2, ReplayKeepsTypes
<1>3. CASE \E w \in Endpoints : Create(w) \/ Update(w) \/ RotateSecret(w)
  BY <1>3, EndpointKeepsTypes
<1>4. CASE UNCHANGED vars
  BY <1>4 DEF vars, TypeInv
<1> QED
  BY <1>1, <1>2, <1>3, <1>4 DEF Next

\* Every variable keeps its type: a dispatch works on listed endpoints, a replay on
\* stored letters, and no delivery is signed with a secret that never was.
THEOREM WebhookTypeCorrect == Spec => []TypeOK
<1>1. TypeInv => TypeOK
  BY DEF TypeInv, TypeOK, DispatchState, ReplayState
<1> QED
  BY <1>1, InitTypes, StepTypes, PTL DEF Spec

-----------------------------------------------------------------------------
(* Every endpoint has its place in a dispatch *)

\* A place keeps its order if its letters and log stay, and the dispatch only comes
\* nearer, from ahead to the first attempt.
LEMMA PlaceKept ==
  ASSUME TypeInv, NEW f \in Events, NEW v \in Endpoints, PlaceOK(f, v),
         LettersOf(f, v)' = LettersOf(f, v), deliveries'[f][v] = deliveries[f][v],
         Ahead(f, v)' => Ahead(f, v),
         Trying(f, v)' =>
           \/ Trying(f, v) /\ dispatch'[f] = dispatch[f]
           \/ Ahead(f, v) /\ dispatch'[f].pc = "send" /\ dispatch'[f].attempt = 1,
         Trying(f, v) => Trying(f, v)'
  PROVE  PlaceOK(f, v)'
<1>1. Len(<<>>) = 0 /\ DOMAIN <<>> = {}
  BY EmptySeq, LenProperties
<1>2. Ahead(f, v) => TryOK(dispatch[f], <<>>)' \/ ~ Trying(f, v)' \/ Trying(f, v)
  BY <1>1 DEF TryOK
<1>3. Trying(f, v)' => LettersOf(f, v)' = {} /\ TryOK(dispatch[f], deliveries[f][v])'
  <2>1. CASE Trying(f, v) /\ dispatch'[f] = dispatch[f]
    BY <2>1 DEF PlaceOK, TryOK
  <2>2. CASE Ahead(f, v) /\ dispatch'[f].pc = "send" /\ dispatch'[f].attempt = 1
    <3>1. deliveries[f][v] = <<>> /\ LettersOf(f, v) = {}
      BY <2>2 DEF PlaceOK
    <3> QED
      BY <3>1, <2>2, <1>1 DEF TryOK
  <2> QED
    BY <2>1, <2>2
<1>4. LettersOf(f, v)' \subseteq DOMAIN letters'
  BY DEF LettersOf
<1>5. ~ Ahead(f, v)' /\ ~ Trying(f, v)' => Settled(f, v)'
  <2> SUFFICES ASSUME ~ Ahead(f, v)', ~ Trying(f, v)'
               PROVE  Settled(f, v)'
    OBVIOUS
  <2>1. CASE Ahead(f, v)
    BY <2>1 DEF PlaceOK, Settled
  <2>2. CASE ~ Ahead(f, v)
    <3>1. Settled(f, v)
      BY <2>2 DEF PlaceOK
    <3>2. CASE \E i \in DOMAIN letters : LettersOf(f, v) = {i}
      <4>1. PICK i \in DOMAIN letters : LettersOf(f, v) = {i}
        BY <3>2
      <4>2. i \in DOMAIN letters' /\ LettersOf(f, v)' = {i}
        BY <4>1, <1>4
      <4> QED
        BY <4>2 DEF Settled
    <3>3. CASE LettersOf(f, v) = {} /\ (deliveries[f][v] = <<>> \/ Succeeded(deliveries[f][v]))
      BY <3>3 DEF Settled, Succeeded
    <3> QED
      BY <3>1, <3>2, <3>3 DEF Settled
  <2> QED
    BY <2>1, <2>2
<1> QED
  BY <1>3, <1>5 DEF PlaceOK, Tries

\* What is at the place of a dispatch that does not move.
LEMMA PlaceUnmoved ==
  ASSUME TypeInv, NEW f \in Events, NEW v \in Endpoints, PlaceOK(f, v),
         LettersOf(f, v)' = LettersOf(f, v), deliveries'[f][v] = deliveries[f][v],
         dispatch'[f] = dispatch[f]
  PROVE  PlaceOK(f, v)'
<1>1. (Ahead(f, v)' <=> Ahead(f, v)) /\ (Trying(f, v)' <=> Trying(f, v))
  BY DEF Ahead, Trying, Target
<1> QED
  BY <1>1, PlaceKept

\* The endpoint that is tried is not ahead too: each is listed once.
LEMMA TriedOnce ==
  ASSUME TypeInv, DispatchOK, NEW e \in Events, dispatch[e].todo # <<>>
  PROVE  /\ dispatch[e] \in DispatchState /\ dispatch[e].pc # "idle"
         /\ Target(e) \in Endpoints /\ Target(e) = dispatch[e].todo[1].id
         /\ ~ Ahead(e, Target(e)) /\ Trying(e, Target(e))
         /\ LettersOf(e, Target(e)) = {} /\ Tries(deliveries[e][Target(e)])
         /\ TryOK(dispatch[e], deliveries[e][Target(e)])
<1>1. /\ dispatch[e] \in DispatchState /\ dispatch[e].pc \in {"send", "bury"}
      /\ dispatch[e].todo \in Seq(Step)
  BY DEF TypeInv, DispatchState
<1>2. /\ Head(dispatch[e].todo) \in Step /\ Head(dispatch[e].todo) = dispatch[e].todo[1]
      /\ 1 \in DOMAIN dispatch[e].todo
  BY <1>1, TailFacts
<1>3. Target(e) \in Endpoints /\ Target(e) = dispatch[e].todo[1].id /\ Trying(e, Target(e))
  BY <1>2 DEF Target, Step, Trying
<1>4. ~ Ahead(e, Target(e))
  BY <1>1, <1>2, <1>3 DEF Ahead, DispatchOK
<1>5. PlaceOK(e, Target(e))
  BY <1>3 DEF DispatchOK
<1> QED
  BY <1>1, <1>3, <1>4, <1>5 DEF PlaceOK

\* A dispatch that moves on to its next endpoint leaves the one it tried.
LEMMA ForwardPlaces ==
  ASSUME TypeInv, DispatchOK, NEW e \in Events, dispatch[e].todo # <<>>,
         dispatch'[e] = Forward(dispatch[e])
  PROVE  /\ dispatch'[e].pc # "idle"
         /\ \A j, k \in DOMAIN dispatch'[e].todo :
              dispatch'[e].todo[j].id = dispatch'[e].todo[k].id => j = k
         /\ \A v : Ahead(e, v)' => Ahead(e, v) /\ ~ Trying(e, v)
         /\ \A v : Trying(e, v)' => /\ Ahead(e, v) /\ ~ Trying(e, v)
                                    /\ dispatch'[e].pc = "send" /\ dispatch'[e].attempt = 1
<1> DEFINE todo == dispatch[e].todo
<1>1. dispatch[e] \in DispatchState /\ todo \in Seq(Step) /\ Target(e) = todo[1].id /\ todo # <<>>
  BY TriedOnce DEF DispatchState
<1>2. /\ dispatch'[e].todo = Tail(todo) /\ dispatch'[e].attempt = 1
      /\ dispatch'[e].pc = IF Tail(todo) = <<>> THEN "done" ELSE "send"
  BY <1>1, ForwardFacts
<1>3. /\ 1 \in DOMAIN todo /\ Tail(todo) \in Seq(Step)
      /\ \A k \in DOMAIN Tail(todo) :
           k + 1 \in DOMAIN todo /\ Tail(todo)[k] = todo[k + 1] /\ k + 1 # 1
  BY <1>1, TailFacts
<1>4. \A j, k \in DOMAIN todo : todo[j].id = todo[k].id => j = k
  BY DEF DispatchOK
<1> HIDE DEF todo
<1>5. \A j, k \in DOMAIN Tail(todo) : Tail(todo)[j].id = Tail(todo)[k].id => j = k
  <2> SUFFICES ASSUME NEW j \in DOMAIN Tail(todo), NEW k \in DOMAIN Tail(todo),
                      Tail(todo)[j].id = Tail(todo)[k].id
               PROVE  j = k
    OBVIOUS
  <2>1. j \in Int /\ k \in Int
    BY <1>3, LenProperties
  <2>2. j + 1 = k + 1
    BY <1>3, <1>4
  <2> QED
    BY <2>1, <2>2
<1>6. ASSUME NEW v, NEW k \in DOMAIN Tail(todo), Tail(todo)[k].id = v
      PROVE  Ahead(e, v) /\ ~ Trying(e, v)
  <2>1. k + 1 \in DOMAIN todo /\ todo[k + 1].id = v /\ k + 1 # 1
    BY <1>3, <1>6
  <2>2. todo[1].id # v
    BY <2>1, <1>3, <1>4
  <2> QED
    BY <2>1, <2>2, <1>1 DEF Ahead, Trying, todo
<1>7. ASSUME NEW v, Ahead(e, v)'
      PROVE  Ahead(e, v) /\ ~ Trying(e, v)
  BY <1>2, <1>6, <1>7 DEF Ahead
<1>8. ASSUME NEW v, Trying(e, v)'
      PROVE  /\ Ahead(e, v) /\ ~ Trying(e, v)
             /\ dispatch'[e].pc = "send" /\ dispatch'[e].attempt = 1
  <2>1. Tail(todo) # <<>> /\ Head(Tail(todo)).id = v
    BY <1>2, <1>8 DEF Trying, Target
  <2>2. 1 \in DOMAIN Tail(todo) /\ Tail(todo)[1].id = v
    BY <2>1, <1>3, TailFacts
  <2> QED
    BY <2>1, <2>2, <1>2, <1>6
<1> QED
  BY <1>2, <1>5, <1>7, <1>8

\* Nothing about a dispatch changes when its variables stay.
LEMMA DispatchUnmoved ==
  ASSUME TypeInv, DispatchOK, deliveries' = deliveries, dispatch' = dispatch,
         \A f \in Events, v \in Endpoints : LettersOf(f, v)' = LettersOf(f, v)
  PROVE  DispatchOK'
<1>1. ASSUME NEW f \in Events, NEW v \in Endpoints
      PROVE  PlaceOK(f, v)'
  <2>1. PlaceOK(f, v)
    BY DEF DispatchOK
  <2> QED
    BY <2>1, PlaceUnmoved
<1> QED
  BY <1>1 DEF DispatchOK

LEMMA StartKeepsPlaces ==
  ASSUME TypeInv, DispatchOK, NEW e \in Events, Start(e)
  PROVE  DispatchOK'
<1>1. /\ deliveries' = deliveries /\ letters' = letters /\ dispatch[e].pc = "idle"
      /\ \A f \in Events \ {e} : dispatch'[f] = dispatch[f]
      /\ dispatch'[e].attempt = dispatch[e].attempt
      /\ dispatch'[e].pc = IF dispatch'[e].todo = <<>> THEN "done" ELSE "send"
      /\ \A j, k \in DOMAIN dispatch'[e].todo :
           dispatch'[e].todo[j].id = dispatch'[e].todo[k].id => j = k
  BY StartFacts
<1>2. dispatch[e].todo = <<>> /\ dispatch[e].attempt = 1
  BY <1>1 DEF TypeInv, DispatchOK
<1>3. ASSUME NEW f \in Events, NEW v \in Endpoints
      PROVE  PlaceOK(f, v)'
  <2>1. PlaceOK(f, v) /\ LettersOf(f, v)' = LettersOf(f, v)
    BY <1>1 DEF DispatchOK, LettersOf
  <2>2. CASE f # e
    BY <1>1, <2>1, <2>2, PlaceUnmoved
  <2>3. CASE f = e
    <3>1. Ahead(e, v) /\ ~ Trying(e, v)
      BY <1>1, <1>2 DEF Ahead, Trying
    <3>2. Trying(e, v)' => dispatch'[e].pc = "send" /\ dispatch'[e].attempt = 1
      BY <1>1, <1>2 DEF Trying
    <3> QED
      BY <1>1, <2>1, <2>3, <3>1, <3>2, PlaceKept
  <2> QED
    BY <2>2, <2>3
<1> QED
  BY <1>1, <1>3 DEF DispatchOK

\* The log of the endpoint that is tried, after one more attempt.
LEMMA TriesGrow ==
  ASSUME NEW log, NEW more, NEW n \in 1..MaxAttempts,
         Tries(log), \A k \in DOMAIN log : log[k].answer = "transient",
         Len(more) = n, DOMAIN log = 1..(n - 1), DOMAIN more = 1..n,
         \A k \in DOMAIN log : more[k] = log[k], more[n].attempt = n
  PROVE  Tries(more) /\ \A k \in DOMAIN more : k # n => more[k].answer = "transient"
<1>1. n \in Nat /\ MaxAttempts \in Nat /\ n <= MaxAttempts /\ 1 <= n
  BY AttemptsAssumption
<1>2. \A k \in 1..n : k = n \/ k \in 1..(n - 1)
  BY <1>1
<1>3. \A k \in DOMAIN more : k # n => more[k].answer = "transient"
  BY <1>2
<1>4. \A k \in DOMAIN more : more[k].attempt = k
  BY <1>2 DEF Tries
<1> QED
  BY <1>1, <1>3, <1>4 DEF Tries

LEMMA AttemptKeepsPlaces ==
  ASSUME TypeInv, DispatchOK, NEW e \in Events, Attempt(e)
  PROVE  DispatchOK'
<1>1. /\ letters' = letters /\ dispatch[e].pc = "send" /\ dispatch[e].todo # <<>>
      /\ dispatch \in [Events -> DispatchState]
  BY AttemptFacts
<1>2. PICK w \in Endpoints : w = Target(e)
  BY AttemptFacts
<1>3. PICK answer \in Answers, try \in Delivery :
        /\ try.attempt = dispatch[e].attempt /\ try.answer = answer
        /\ deliveries' = [deliveries EXCEPT ![e][w] = Append(@, try)]
        /\ dispatch' = [dispatch EXCEPT ![e] = AfterAnswer(dispatch[e], answer)]
  BY <1>2, AttemptFacts
<1>4. /\ deliveries'[e][w] = Append(deliveries[e][w], try)
      /\ \A f \in Events, v \in Endpoints :
           f # e \/ v # w => deliveries'[f][v] = deliveries[f][v]
  BY <1>3, LogGrows DEF TypeInv
<1>5. /\ dispatch'[e] = AfterAnswer(dispatch[e], answer)
      /\ \A f \in Events \ {e} : dispatch'[f] = dispatch[f]
  BY <1>1, <1>3
<1>6. \/ answer = "ok" /\ dispatch'[e] = Forward(dispatch[e])
      \/ /\ answer # "ok" /\ dispatch'[e].pc = "bury" /\ dispatch'[e].todo = dispatch[e].todo
         /\ dispatch'[e].attempt = dispatch[e].attempt
         /\ dispatch'[e].reason = ReasonFor(answer)
      \/ /\ answer = "transient" /\ dispatch'[e].pc = "send" /\ dispatch'[e].todo = dispatch[e].todo
         /\ dispatch'[e].attempt = dispatch[e].attempt + 1
  BY <1>1, <1>5, AnswerFacts
<1>7. \A f \in Events, v \in Endpoints : LettersOf(f, v)' = LettersOf(f, v)
  BY <1>1 DEF LettersOf
<1>8. /\ Trying(e, w) /\ ~ Ahead(e, w) /\ LettersOf(e, w) = {} /\ Tries(deliveries[e][w])
      /\ Len(deliveries[e][w]) = dispatch[e].attempt - 1
      /\ \A k \in DOMAIN deliveries[e][w] : deliveries[e][w][k].answer = "transient"
  BY <1>1, <1>2, TriedOnce DEF TryOK
<1>9. PICK n \in 1..MaxAttempts : n = dispatch[e].attempt
  BY <1>1 DEF DispatchState
<1>10. PICK more : more = Append(deliveries[e][w], try)
  OBVIOUS
<1>11. /\ Tries(more) /\ Len(more) = n /\ more[n].answer = answer /\ n \in DOMAIN more
       /\ \A k \in DOMAIN more : k # n => more[k].answer = "transient"
  <2>1. PICK log \in Seq(Delivery) : log = deliveries[e][w]
    BY DEF TypeInv
  <2>2. /\ Len(more) = Len(log) + 1 /\ DOMAIN log = 1..Len(log)
        /\ DOMAIN more = 1..(Len(log) + 1) /\ Len(log) \in Nat
        /\ \A k \in DOMAIN log : more[k] = log[k]
        /\ more[Len(log) + 1] = try
    BY <1>10, <2>1, AppendFacts
  <2>3. Len(log) = n - 1 /\ n \in Nat /\ n - 1 + 1 = n /\ 1 <= n
    BY <1>8, <1>9, <2>1
  <2>4. Len(more) = n /\ DOMAIN log = 1..(n - 1) /\ DOMAIN more = 1..n /\ more[n] = try
    BY <2>2, <2>3
  <2>5. Tries(more) /\ \A k \in DOMAIN more : k # n => more[k].answer = "transient"
    <3>1. Tries(log) /\ \A k \in DOMAIN log : log[k].answer = "transient"
      BY <1>8, <2>1
    <3>2. more[n].attempt = n
      BY <1>3, <1>9, <2>4
    <3> QED
      BY <2>2, <2>4, <3>1, <3>2, TriesGrow
  <2>6. n \in DOMAIN more
    BY <2>3, <2>4
  <2> QED
    BY <1>3, <2>4, <2>5, <2>6
<1>12. deliveries'[e][w] = more
  BY <1>4, <1>10
<1>13. \A v : Trying(e, v) => v = w
  BY <1>2 DEF Trying
<1>14. /\ \A v : Ahead(e, v)' => Ahead(e, v)
       /\ \A v : v # w /\ Trying(e, v)' =>
            Ahead(e, v) /\ dispatch'[e].pc = "send" /\ dispatch'[e].attempt = 1
       /\ \A j, k \in DOMAIN dispatch'[e].todo :
            dispatch'[e].todo[j].id = dispatch'[e].todo[k].id => j = k
       /\ dispatch'[e].pc # "idle"
  <2>1. CASE dispatch'[e] = Forward(dispatch[e])
    BY <1>1, <2>1, ForwardPlaces
  <2>2. CASE dispatch'[e].todo = dispatch[e].todo /\ dispatch'[e].pc # "idle"
    <3>1. \A v : Ahead(e, v)' => Ahead(e, v)
      BY <2>2 DEF Ahead
    <3>2. \A v : Trying(e, v)' => v = w
      BY <1>2, <2>2 DEF Trying, Target
    <3> QED
      BY <2>2, <3>1, <3>2 DEF DispatchOK
  <2> QED
    BY <1>6, <2>1, <2>2
<1>15. PlaceOK(e, w)'
  <2>1. LettersOf(e, w)' = {} /\ ~ Ahead(e, w)' /\ Tries(deliveries[e][w])'
    BY <1>7, <1>8, <1>11, <1>12, <1>14 DEF Tries
  <2>2. CASE answer = "ok" /\ dispatch'[e] = Forward(dispatch[e])
    <3>1. ~ Trying(e, w)'
      BY <1>1, <1>8, <2>2, ForwardPlaces
    <3>2. Succeeded(deliveries[e][w])'
      BY <1>11, <1>12, <2>2 DEF Succeeded
    <3>3. Settled(e, w)'
      BY <2>1, <3>2 DEF Settled
    <3> QED
      BY <2>1, <3>1, <3>3 DEF PlaceOK
  <2>3. CASE /\ answer # "ok" /\ dispatch'[e].pc = "bury" /\ dispatch'[e].todo = dispatch[e].todo
             /\ dispatch'[e].attempt = dispatch[e].attempt
             /\ dispatch'[e].reason = ReasonFor(answer)
    <3>1. Trying(e, w)'
      BY <1>8, <2>3 DEF Trying, Target
    <3>2. TryOK(dispatch[e], deliveries[e][w])'
      BY <1>9, <1>11, <1>12, <2>3 DEF TryOK
    <3> QED
      BY <2>1, <3>1, <3>2 DEF PlaceOK
  <2>4. CASE /\ answer = "transient" /\ dispatch'[e].pc = "send"
             /\ dispatch'[e].todo = dispatch[e].todo
             /\ dispatch'[e].attempt = dispatch[e].attempt + 1
    <3>1. Trying(e, w)'
      BY <1>8, <2>4 DEF Trying, Target
    <3>2. dispatch'[e].attempt - 1 = n
      BY <1>9, <2>4
    <3>3. \A k \in DOMAIN more : more[k].answer = "transient"
      BY <1>11, <2>4
    <3>4. TryOK(dispatch[e], deliveries[e][w])'
      BY <1>11, <1>12, <2>4, <3>2, <3>3 DEF TryOK
    <3> QED
      BY <2>1, <3>1, <3>4 DEF PlaceOK
  <2> QED
    BY <1>6, <2>2, <2>3, <2>4
<1>16. ASSUME NEW f \in Events, NEW v \in Endpoints
       PROVE  PlaceOK(f, v)'
  <2>1. PlaceOK(f, v)
    BY DEF DispatchOK
  <2>2. CASE f # e
    BY <1>4, <1>5, <1>7, <2>1, <2>2, PlaceUnmoved
  <2>3. CASE f = e /\ v # w
    BY <1>4, <1>7, <1>13, <1>14, <2>1, <2>3, PlaceKept
  <2> QED
    BY <1>15, <2>2, <2>3
<1>17. ASSUME NEW f \in Events
       PROVE  /\ dispatch'[f].pc = "idle" => dispatch'[f].attempt = 1
              /\ \A j, k \in DOMAIN dispatch'[f].todo :
                   dispatch'[f].todo[j].id = dispatch'[f].todo[k].id => j = k
  <2>1. CASE f = e
    BY <1>14, <2>1
  <2>2. CASE f # e
    BY <1>5, <2>2 DEF DispatchOK
  <2> QED
    BY <2>1, <2>2
<1> QED
  BY <1>16, <1>17 DEF DispatchOK

\* A new letter is one more of its event and endpoint, and of no others.
LEMMA LetterAdded ==
  ASSUME letters \in Seq(Letter), NEW letter \in Letter, letters' = Append(letters, letter)
  PROVE  /\ DOMAIN letters' = DOMAIN letters \cup {Len(letters) + 1}
         /\ Len(letters) + 1 \notin DOMAIN letters /\ letters'[Len(letters) + 1] = letter
         /\ \A i \in DOMAIN letters : letters'[i] = letters[i]
         /\ \A f, v : LettersOf(f, v)' =
              LettersOf(f, v) \cup IF f = letter.event /\ v = letter.endpoint
                                     THEN {Len(letters) + 1} ELSE {}
<1>1. PICK n \in Nat : n = Len(letters)
  BY AppendFacts
<1>2. /\ DOMAIN letters = 1..n /\ DOMAIN letters' = 1..(n + 1)
      /\ \A k \in DOMAIN letters : letters'[k] = letters[k]
      /\ letters'[n + 1] = letter
  BY <1>1, AppendFacts
<1>3. 1..(n + 1) = (1..n) \cup {n + 1} /\ n + 1 \notin 1..n
  BY <1>1
<1>4. ASSUME NEW f, NEW v
      PROVE  LettersOf(f, v)' = LettersOf(f, v) \cup
               IF f = letter.event /\ v = letter.endpoint THEN {n + 1} ELSE {}
  BY <1>2, <1>3 DEF LettersOf
<1> QED
  BY <1>1, <1>2, <1>3, <1>4

LEMMA BuryKeepsPlaces ==
  ASSUME TypeInv, DispatchOK, NEW e \in Events, Bury(e)
  PROVE  DispatchOK'
<1>1. /\ deliveries' = deliveries /\ dispatch[e].todo # <<>>
      /\ dispatch' = [dispatch EXCEPT ![e] = Forward(dispatch[e])]
      /\ dispatch \in [Events -> DispatchState]
  BY BuryFacts
<1>2. PICK w \in Endpoints : w = Target(e)
  BY BuryFacts
<1>3. PICK letter \in Letter :
        letters' = Append(letters, letter) /\ letter.event = e /\ letter.endpoint = w
  BY <1>2, BuryFacts
<1>4. PICK n : n = Len(letters) + 1
  OBVIOUS
<1>5. /\ n \in DOMAIN letters'
      /\ \A f, v : LettersOf(f, v)' =
           LettersOf(f, v) \cup IF f = e /\ v = w THEN {n} ELSE {}
  BY <1>3, <1>4, LetterAdded DEF TypeInv
<1>6. dispatch'[e] = Forward(dispatch[e]) /\ \A f \in Events \ {e} : dispatch'[f] = dispatch[f]
  BY <1>1
<1>7. /\ dispatch'[e].pc # "idle"
      /\ \A j, k \in DOMAIN dispatch'[e].todo :
           dispatch'[e].todo[j].id = dispatch'[e].todo[k].id => j = k
      /\ \A v : Ahead(e, v)' => Ahead(e, v) /\ ~ Trying(e, v)
      /\ \A v : Trying(e, v)' => /\ Ahead(e, v) /\ ~ Trying(e, v)
                                 /\ dispatch'[e].pc = "send" /\ dispatch'[e].attempt = 1
  BY <1>1, <1>6, ForwardPlaces
<1>8. LettersOf(e, w) = {} /\ Trying(e, w) /\ \A v : Trying(e, v) => v = w
  BY <1>1, <1>2, TriedOnce DEF Trying
<1>9. PlaceOK(e, w)'
  <2>1. LettersOf(e, w)' = {n}
    BY <1>5, <1>8
  <2>2. ~ Ahead(e, w)' /\ ~ Trying(e, w)'
    BY <1>7, <1>8
  <2>3. Settled(e, w)'
    BY <1>5, <2>1 DEF Settled
  <2> QED
    BY <2>1, <2>2, <2>3 DEF PlaceOK
<1>10. ASSUME NEW f \in Events, NEW v \in Endpoints
       PROVE  PlaceOK(f, v)'
  <2>1. PlaceOK(f, v)
    BY DEF DispatchOK
  <2>2. f # e \/ v # w => LettersOf(f, v)' = LettersOf(f, v)
    BY <1>5
  <2>3. CASE f # e
    BY <1>1, <1>6, <2>1, <2>2, <2>3, PlaceUnmoved
  <2>4. CASE f = e /\ v # w
    BY <1>1, <1>7, <1>8, <2>1, <2>2, <2>4, PlaceKept
  <2> QED
    BY <1>9, <2>3, <2>4
<1>11. ASSUME NEW f \in Events
       PROVE  /\ dispatch'[f].pc = "idle" => dispatch'[f].attempt = 1
              /\ \A j, k \in DOMAIN dispatch'[f].todo :
                   dispatch'[f].todo[j].id = dispatch'[f].todo[k].id => j = k
  <2>1. CASE f = e
    BY <1>7, <2>1
  <2>2. CASE f # e
    BY <1>6, <2>2 DEF DispatchOK
  <2> QED
    BY <2>1, <2>2
<1> QED
  BY <1>10, <1>11 DEF DispatchOK

\* A replay sends about an event and an endpoint that have one letter, its own.
LEMMA OneLetter ==
  ASSUME TypeInv, DispatchOK, NEW i \in DOMAIN letters, NEW e, NEW w,
         e = letters[i].event, w = letters[i].endpoint
  PROVE  /\ e \in Events /\ w \in Endpoints /\ LettersOf(e, w) = {i}
         /\ ~ Ahead(e, w) /\ ~ Trying(e, w)
<1>1. letters[i] \in Letter
  BY ElementOfSeq, LenProperties DEF TypeInv
<1>2. e \in Events /\ w \in Endpoints /\ i \in LettersOf(e, w)
  BY <1>1 DEF Letter, LettersOf
<1>3. PlaceOK(e, w)
  BY <1>2 DEF DispatchOK
<1>4. ~ Ahead(e, w) /\ ~ Trying(e, w)
  BY <1>2, <1>3 DEF PlaceOK
<1>5. PICK j \in DOMAIN letters : LettersOf(e, w) = {j}
  BY <1>2, <1>3, <1>4 DEF PlaceOK, Settled
<1> QED
  BY <1>2, <1>4, <1>5

LEMMA SendKeepsPlaces ==
  ASSUME TypeInv, DispatchOK, ReplayOK, NEW r \in Replayers, Send(r)
  PROVE  DispatchOK'
<1>1. /\ letters' = letters /\ dispatch' = dispatch /\ replay[r].pc = "send"
      /\ replay[r].letter \in Letter
  BY SendFacts
<1>2. \A f, v : LettersOf(f, v)' = LettersOf(f, v)
  BY <1>1 DEF LettersOf
<1>3. CASE deliveries' = deliveries
  BY <1>1, <1>2, <1>3, DispatchUnmoved
<1>4. CASE deliveries' # deliveries
  <2>1. PICK e \in Events, w \in Endpoints :
          e = replay[r].letter.event /\ w = replay[r].letter.endpoint
    BY <1>1 DEF Letter
  <2>2. PICK try \in Delivery : deliveries' = [deliveries EXCEPT ![e][w] = Append(@, try)]
    BY <1>4, <2>1, SendFacts
  <2>3. \A f \in Events, v \in Endpoints : f # e \/ v # w => deliveries'[f][v] = deliveries[f][v]
    BY <2>2, LogGrows DEF TypeInv
  <2>4. PICK i \in DOMAIN letters : letters[i].event = e /\ letters[i].endpoint = w
    BY <1>1, <2>1, AtWork DEF ReplayOK, InHand, HandOK
  <2>5. LettersOf(e, w) = {i} /\ ~ Ahead(e, w) /\ ~ Trying(e, w)
    BY <2>4, OneLetter
  <2>6. PlaceOK(e, w)'
    <3>1. LettersOf(e, w)' = {i} /\ i \in DOMAIN letters'
      BY <1>1, <1>2, <2>5
    <3>2. ~ Ahead(e, w)' /\ ~ Trying(e, w)'
      BY <1>1, <2>5 DEF Ahead, Trying, Target
    <3> QED
      BY <3>1, <3>2 DEF PlaceOK, Settled
  <2>7. ASSUME NEW f \in Events, NEW v \in Endpoints
        PROVE  PlaceOK(f, v)'
    <3>1. CASE f = e /\ v = w
      BY <2>6, <3>1
    <3>2. CASE f # e \/ v # w
      <4>1. PlaceOK(f, v)
        BY DEF DispatchOK
      <4> QED
        BY <1>1, <1>2, <2>3, <3>2, <4>1, PlaceUnmoved
    <3> QED
      BY <3>1, <3>2
  <2> QED
    BY <1>1, <2>7 DEF DispatchOK
<1> QED
  BY <1>3, <1>4

LEMMA UpdateKeepsPlaces ==
  ASSUME TypeInv, DispatchOK, ReplayOK, NEW r \in Replayers, UpdateLetter(r)
  PROVE  DispatchOK'
<1>1. PICK i \in DOMAIN letters : i = Current(r)
  BY UpdateFacts
<1>2. /\ deliveries' = deliveries /\ dispatch' = dispatch /\ replay[r].pc = "update"
      /\ DOMAIN letters' = DOMAIN letters
      /\ \A j \in DOMAIN letters : j # i => letters'[j] = letters[j]
      /\ letters'[i].event = replay[r].letter.event
      /\ letters'[i].endpoint = replay[r].letter.endpoint
  BY <1>1, UpdateFacts
<1>3. letters'[i].event = letters[i].event /\ letters'[i].endpoint = letters[i].endpoint
  BY <1>1, <1>2 DEF ReplayOK, InHand, HandOK
<1>4. \A f \in Events, v \in Endpoints : LettersOf(f, v)' = LettersOf(f, v)
  BY <1>2, <1>3 DEF LettersOf
<1> QED
  BY <1>2, <1>4, DispatchUnmoved

LEMMA StepPlaces == TypeInv /\ DispatchOK /\ ReplayOK /\ [Next]_vars => DispatchOK'
<1> SUFFICES ASSUME TypeInv, DispatchOK, ReplayOK, [Next]_vars
             PROVE  DispatchOK'
  OBVIOUS
<1>1. CASE \E e \in Events : Dispatch(e)
  BY <1>1, StartKeepsPlaces, AttemptKeepsPlaces, BuryKeepsPlaces DEF Dispatch
<1>2. ASSUME UNCHANGED <<deliveries, letters, dispatch>>
      PROVE  DispatchOK'
  <2>1. \A f \in Events, v \in Endpoints : LettersOf(f, v)' = LettersOf(f, v)
    BY <1>2 DEF LettersOf
  <2> QED
    BY <1>2, <2>1, DispatchUnmoved
<1>3. CASE \E r \in Replayers : Replay(r)
  <2>1. PICK r \in Replayers : Replay(r)
    BY <1>3
  <2>2. CASE Request(r) \/ ReadLetter(r)
    BY <1>2, <2>2 DEF Request, ReadLetter
  <2> QED
    BY <2>1, <2>2, SendKeepsPlaces, UpdateKeepsPlaces DEF Replay
<1>4. CASE (\E w \in Endpoints : Create(w) \/ Update(w) \/ RotateSecret(w)) \/ UNCHANGED vars
  BY <1>2, <1>4 DEF Create, Update, RotateSecret, Change, vars
<1> QED
  BY <1>1, <1>3, <1>4 DEF Next

LEMMA InitPlaces == Init => DispatchOK
<1> SUFFICES ASSUME Init
             PROVE  DispatchOK
  OBVIOUS
<1>1. Len(<<>>) = 0 /\ DOMAIN <<>> = {}
  BY EmptySeq, LenProperties
<1>2. \A e \in Events : /\ dispatch[e].pc = "idle" /\ dispatch[e].attempt = 1
                        /\ dispatch[e].todo = <<>>
  BY DEF Init, NotStarted
<1>3. ASSUME NEW e \in Events, NEW w \in Endpoints
      PROVE  PlaceOK(e, w)
  <2>1. deliveries[e][w] = <<>> /\ LettersOf(e, w) = {}
    BY <1>1 DEF Init, LettersOf
  <2>2. Ahead(e, w) /\ ~ Trying(e, w)
    BY <1>2 DEF Ahead, Trying
  <2>3. Tries(<<>>)
    BY <1>1, AttemptsAssumption DEF Tries
  <2> QED
    BY <2>1, <2>2, <2>3 DEF PlaceOK
<1> QED
  BY <1>1, <1>2, <1>3 DEF DispatchOK

-----------------------------------------------------------------------------
(* Letters and the replays that hold them *)

\* A log that goes on has the deliveries it had.
Grows(log, more) == Len(log) <= Len(more) /\ (Succeeded(log) => Succeeded(more))
LogsGrow == \A f \in Events, v \in Endpoints : Grows(deliveries[f][v], deliveries'[f][v])

\* One delivery more is logged.
Records(e, w, try) == deliveries' = [deliveries EXCEPT ![e][w] = Append(@, try)]

LEMMA OneMore ==
  ASSUME TypeInv, NEW e \in Events, NEW w \in Endpoints, NEW try \in Delivery,
         Records(e, w, try)
  PROVE  /\ LogsGrow
         /\ \A k \in DOMAIN deliveries[e][w] : deliveries'[e][w][k] = deliveries[e][w][k]
         /\ \E m, n \in Nat :
              /\ m = Len(deliveries[e][w]) /\ n = m + 1 /\ n = Len(deliveries'[e][w])
              /\ DOMAIN deliveries[e][w] = 1..m /\ DOMAIN deliveries'[e][w] = 1..n
              /\ n \in 1..n /\ deliveries'[e][w][n] = try
         /\ \A f \in Events, v \in Endpoints :
              f # e \/ v # w => deliveries'[f][v] = deliveries[f][v]
<1>1. /\ deliveries'[e][w] = Append(deliveries[e][w], try)
      /\ \A f \in Events, v \in Endpoints :
           f # e \/ v # w => deliveries'[f][v] = deliveries[f][v]
  BY LogGrows DEF TypeInv, Records
<1>2. PICK log \in Seq(Delivery) : log = deliveries[e][w]
  BY DEF TypeInv
<1>3. PICK more : more = deliveries'[e][w]
  OBVIOUS
<1>4. /\ Len(more) = Len(log) + 1 /\ Len(log) \in Nat
      /\ DOMAIN log = 1..Len(log) /\ DOMAIN more = 1..(Len(log) + 1)
      /\ \A k \in DOMAIN log : more[k] = log[k]
      /\ more[Len(log) + 1] = try
  BY <1>1, <1>2, <1>3, AppendFacts
<1>5. Grows(log, more)
  BY <1>4 DEF Grows, Succeeded
<1>6. ASSUME NEW f \in Events, NEW v \in Endpoints
      PROVE  Grows(deliveries[f][v], deliveries'[f][v])
  <2>1. CASE f = e /\ v = w
    BY <1>2, <1>3, <1>5, <2>1
  <2>2. CASE f # e \/ v # w
    <3>1. Len(deliveries[f][v]) \in Nat
      BY LenProperties DEF TypeInv
    <3> QED
      BY <1>1, <2>2, <3>1 DEF Grows
  <2> QED
    BY <2>1, <2>2
<1>7. LogsGrow
  BY <1>6 DEF LogsGrow
<1>8. PICK m \in Nat : m = Len(log)
  BY <1>4
<1>9. PICK n \in Nat : n = m + 1
  OBVIOUS
<1>10. n \in 1..n
  BY <1>9
<1>11. /\ n = Len(more) /\ DOMAIN log = 1..m /\ DOMAIN more = 1..n /\ more[n] = try
  BY <1>4, <1>8, <1>9
<1> QED
  BY <1>1, <1>2, <1>3, <1>4, <1>7, <1>8, <1>9, <1>10, <1>11

LEMMA LogsStay ==
  ASSUME TypeInv, deliveries' = deliveries
  PROVE  LogsGrow
<1>1. \A f \in Events, v \in Endpoints : Len(deliveries[f][v]) \in Nat
  BY LenProperties DEF TypeInv
<1> QED
  BY <1>1 DEF LogsGrow, Grows

\* A count that was no overstatement is none when more attempts were made.
LEMMA CountGrows ==
  ASSUME NEW letter \in Letter, NEW m \in Int, NEW n \in Int, CountOK(letter, m), m <= n
  PROVE  CountOK(letter, n)
  BY DEF CountOK, Letter

LEMMA LetterKept ==
  ASSUME TypeInv, TypeInv', LogsGrow, NEW i \in DOMAIN letters, LetterOK(letters[i]),
         letters'[i] = letters[i]
  PROVE  LetterOK(letters[i])'
<1>1. PICK letter \in Letter : letter = letters[i]
  BY ElementOfSeq, LenProperties DEF TypeInv
<1>2. PICK e \in Events, w \in Endpoints : e = letter.event /\ w = letter.endpoint
  BY <1>1 DEF Letter
<1>3. Grows(deliveries[e][w], deliveries'[e][w])
  BY DEF LogsGrow
<1>4. Len(deliveries[e][w]) \in Nat /\ Len(deliveries'[e][w]) \in Nat
  BY LenProperties DEF TypeInv
<1>5. /\ CountOK(letter, Len(deliveries[e][w]))
      /\ letter.status = "replayed" => Succeeded(deliveries[e][w])
  BY <1>1, <1>2 DEF LetterOK, LogOf
<1>6. CountOK(letter, Len(deliveries'[e][w]))
  BY <1>3, <1>4, <1>5, CountGrows DEF Grows
<1>7. letter.status = "replayed" => Succeeded(deliveries'[e][w])
  BY <1>3, <1>5 DEF Grows
<1>8. letters'[i] = letter /\ LogOf(letters[i])' = deliveries'[e][w]
  BY <1>1, <1>2 DEF LogOf
<1>9. CountOK(letters[i], Len(LogOf(letters[i])))'
  BY <1>6, <1>8 DEF CountOK
<1>10. (letters[i].status = "replayed" => Succeeded(LogOf(letters[i])))'
  BY <1>7, <1>8 DEF Succeeded
<1> QED
  BY <1>9, <1>10 DEF LetterOK

LEMMA HandKept ==
  ASSUME TypeInv, TypeInv', LogsGrow, NEW q \in Replayers, replay'[q] = replay[q],
         InHand(q) => /\ HandOK(q)
                      /\ letters'[Current(q)].event = letters[Current(q)].event
                      /\ letters'[Current(q)].endpoint = letters[Current(q)].endpoint
  PROVE  InHand(q)' => HandOK(q)'
<1> SUFFICES ASSUME InHand(q)'
             PROVE  HandOK(q)'
  OBVIOUS
<1>1. InHand(q) /\ HandOK(q) /\ Current(q)' = Current(q)
  BY DEF InHand, Current
<1>2. PICK letter \in Letter : letter = replay[q].letter
  BY <1>1 DEF InHand, TypeInv
<1>3. PICK e \in Events, w \in Endpoints : e = letter.event /\ w = letter.endpoint
  BY <1>2 DEF Letter
<1>4. PICK m \in Nat, n \in Nat : m = Len(deliveries[e][w]) /\ n = Len(deliveries'[e][w])
  BY LenProperties DEF TypeInv
<1>5. m <= n /\ (Succeeded(deliveries[e][w]) => Succeeded(deliveries'[e][w]))
  BY <1>4 DEF LogsGrow, Grows
<1>6. /\ letters[Current(q)].event = e /\ letters[Current(q)].endpoint = w
      /\ CountOK(letter, IF replay[q].pc = "update" THEN m - 1 ELSE m)
      /\ replay[q].pc = "update" /\ replay[q].answer = "ok" => Succeeded(deliveries[e][w])
  BY <1>1, <1>2, <1>3, <1>4 DEF HandOK, LogOf
<1>7. CountOK(letter, IF replay[q].pc = "update" THEN n - 1 ELSE n)
  <2>1. m - 1 \in Int /\ n - 1 \in Int /\ m - 1 <= n - 1
    BY <1>5
  <2>2. CASE replay[q].pc = "update"
    BY <1>6, <2>1, <2>2, CountGrows
  <2>3. CASE replay[q].pc # "update"
    BY <1>5, <1>6, <2>3, CountGrows
  <2> QED
    BY <2>2, <2>3
<1>8. /\ replay'[q].letter = letter /\ replay'[q].pc = replay[q].pc
      /\ replay'[q].answer = replay[q].answer
      /\ LogOf(replay[q].letter)' = deliveries'[e][w]
  BY <1>2, <1>3 DEF LogOf
<1>9. (CountOK(replay[q].letter, IF replay[q].pc = "update" THEN Len(LogOf(replay[q].letter)) - 1
                                                           ELSE Len(LogOf(replay[q].letter))))'
  BY <1>4, <1>7, <1>8 DEF CountOK
<1>10. (replay[q].pc = "update" /\ replay[q].answer = "ok" => Succeeded(LogOf(replay[q].letter)))'
  BY <1>5, <1>6, <1>8 DEF Succeeded
<1>11. /\ letters'[Current(q)'].event = replay'[q].letter.event
       /\ letters'[Current(q)'].endpoint = replay'[q].letter.endpoint
  BY <1>1, <1>3, <1>6, <1>8
<1> QED
  BY <1>9, <1>10, <1>11 DEF HandOK

\* What a step has to show about letters and replays, when logs only grow.
LEMMA ReplaysKept ==
  ASSUME TypeInv, TypeInv', ReplayOK, LogsGrow,
         DOMAIN letters \subseteq DOMAIN letters',
         \A i \in DOMAIN letters : /\ letters'[i].event = letters[i].event
                                   /\ letters'[i].endpoint = letters[i].endpoint,
         \A i \in DOMAIN letters' :
           (i \in DOMAIN letters /\ letters'[i] = letters[i]) \/ LetterOK(letters[i])',
         \A q \in Replayers :
           replay'[q] = replay[q] \/ ~ InHand(q)' \/ HandOK(q)'
  PROVE  ReplayOK'
<1>1. ASSUME NEW i \in DOMAIN letters'
      PROVE  LetterOK(letters[i])'
  <2>1. CASE i \in DOMAIN letters /\ letters'[i] = letters[i]
    BY <2>1, LetterKept DEF ReplayOK
  <2> QED
    BY <2>1
<1>2. ASSUME NEW q \in Replayers
      PROVE  InHand(q)' => HandOK(q)'
  <2>1. InHand(q) => Current(q) \in DOMAIN letters
    BY AtWork DEF InHand
  <2>2. CASE replay'[q] = replay[q]
    BY <2>1, <2>2, HandKept DEF ReplayOK
  <2> QED
    BY <2>2
<1> QED
  BY <1>1, <1>2 DEF ReplayOK

LEMMA DispatchKeepsReplays ==
  ASSUME TypeInv, TypeInv', DispatchOK, ReplayOK, NEW e \in Events, Dispatch(e)
  PROVE  ReplayOK'
<1>1. CASE Start(e)
  <2>1. deliveries' = deliveries /\ letters' = letters /\ replay' = replay
    BY <1>1, StartFacts
  <2> QED
    BY <2>1, LogsStay, ReplaysKept
<1>2. CASE Attempt(e)
  <2>1. letters' = letters /\ replay' = replay
    BY <1>2, AttemptFacts
  <2>2. PICK w \in Endpoints, try \in Delivery : Records(e, w, try)
    BY <1>2, AttemptFacts DEF Records
  <2>3. LogsGrow
    BY <2>2, OneMore
  <2> QED
    BY <2>1, <2>3, ReplaysKept
<1>3. CASE Bury(e)
  <2>1. /\ deliveries' = deliveries /\ replay' = replay
        /\ dispatch[e].pc = "bury" /\ dispatch[e].todo # <<>>
    BY <1>3, BuryFacts
  <2>2. PICK w \in Endpoints : w = Target(e)
    BY <1>3, BuryFacts
  <2>3. PICK letter \in Letter :
          /\ letters' = Append(letters, letter) /\ letter.event = e /\ letter.endpoint = w
          /\ letter.replays = 0 /\ letter.attempts = dispatch[e].attempt
          /\ letter.status = "pending"
    BY <1>3, <2>2, BuryFacts
  <2>4. PICK n : n = Len(letters) + 1
    OBVIOUS
  <2>5. /\ DOMAIN letters' = DOMAIN letters \cup {n} /\ letters'[n] = letter
        /\ \A i \in DOMAIN letters : letters'[i] = letters[i]
    BY <2>3, <2>4, LetterAdded DEF TypeInv
  <2>6. LetterOK(letters[n])'
    <3>1. Len(deliveries[e][w]) = dispatch[e].attempt /\ dispatch[e].attempt \in 1..MaxAttempts
      BY <2>1, <2>2, TriedOnce DEF TryOK, DispatchState
    <3>2. CountOK(letter, Len(deliveries[e][w]))
      BY <2>3, <3>1, AttemptsAssumption DEF CountOK
    <3>3. LogOf(letters[n])' = deliveries[e][w] /\ letters'[n] = letter
      BY <2>1, <2>3, <2>5 DEF LogOf
    <3> QED
      BY <2>3, <3>2, <3>3 DEF LetterOK, CountOK
  <2> QED
    BY <2>1, <2>5, <2>6, LogsStay, ReplaysKept
<1> QED
  BY <1>1, <1>2, <1>3 DEF Dispatch

\* A replayer that goes on holds no letter.
LEMMA OnwardHolds ==
  ASSUME TypeInv, NEW r \in Replayers, replay[r].pc # "idle", Onward(r)
  PROVE  /\ ~ InHand(r)' /\ replay'[r].pc \in {"idle", "read"}
         /\ \A q \in Replayers \ {r} : replay'[q] = replay[q]
<1>1. replay[r].queue # <<>> /\ replay \in [Replayers -> ReplayState]
  BY AtWork DEF TypeInv
<1> QED
  BY <1>1, OnwardFacts DEF InHand

LEMMA RequestKeepsReplays ==
  ASSUME TypeInv, TypeInv', ReplayOK, NEW r \in Replayers, Request(r)
  PROVE  ReplayOK'
<1>1. deliveries' = deliveries /\ letters' = letters
  BY RequestFacts
<1>2. ~ InHand(r)' /\ \A q \in Replayers \ {r} : replay'[q] = replay[q]
  BY RequestFacts DEF InHand
<1> QED
  BY <1>1, <1>2, LogsStay, ReplaysKept

LEMMA ReadKeepsReplays ==
  ASSUME TypeInv, TypeInv', ReplayOK, NEW r \in Replayers, ReadLetter(r)
  PROVE  ReplayOK'
<1>1. deliveries' = deliveries /\ letters' = letters /\ replay[r].pc = "read"
  BY ReadFacts
<1>2. CASE Onward(r)
  <2>1. ~ InHand(r)' /\ \A q \in Replayers \ {r} : replay'[q] = replay[q]
    BY <1>1, <1>2, OnwardHolds
  <2> QED
    BY <1>1, <2>1, LogsStay, ReplaysKept
<1>3. CASE ~ Onward(r)
  <2>1. /\ \A q \in Replayers \ {r} : replay'[q] = replay[q]
        /\ replay'[r].pc = "send" /\ replay'[r].letter = letters[Current(r)]
        /\ replay'[r].queue = replay[r].queue /\ letters[Current(r)].status # "replayed"
    BY <1>3, ReadFacts
  <2>2. Current(r)' = Current(r) /\ Current(r) \in DOMAIN letters
    BY <1>1, <2>1, AtWork DEF Current
  <2>3. LetterOK(letters[Current(r)])
    BY <2>2 DEF ReplayOK
  <2>4. HandOK(r)'
    <3>1. LogOf(replay[r].letter)' = LogOf(letters[Current(r)])
      BY <1>1, <2>1 DEF LogOf
    <3>2. CountOK(letters[Current(r)], Len(LogOf(letters[Current(r)])))
      BY <2>3 DEF LetterOK
    <3>3. CountOK(replay[r].letter, Len(LogOf(replay[r].letter)))'
      BY <2>1, <3>1, <3>2 DEF CountOK
    <3> QED
      BY <1>1, <2>1, <2>2, <3>3 DEF HandOK
  <2> QED
    BY <1>1, <2>1, <2>4, LogsStay, ReplaysKept
<1> QED
  BY <1>2, <1>3

LEMMA SendKeepsReplays ==
  ASSUME TypeInv, TypeInv', ReplayOK, NEW r \in Replayers, Send(r)
  PROVE  ReplayOK'
<1>1. letters' = letters /\ replay[r].pc = "send" /\ replay[r].letter \in Letter
  BY SendFacts
<1>2. CASE deliveries' = deliveries /\ Onward(r)
  <2>1. ~ InHand(r)' /\ \A q \in Replayers \ {r} : replay'[q] = replay[q]
    BY <1>1, <1>2, OnwardHolds
  <2> QED
    BY <1>1, <1>2, <2>1, LogsStay, ReplaysKept
<1>3. CASE ~ (deliveries' = deliveries /\ Onward(r))
  <2>1. PICK letter \in Letter : letter = replay[r].letter
    BY <1>1
  <2>2. PICK e \in Events, w \in Endpoints : e = letter.event /\ w = letter.endpoint
    BY DEF Letter
  <2>sent. PICK try \in Delivery :
          /\ deliveries' = [deliveries EXCEPT
                ![replay[r].letter.event][replay[r].letter.endpoint] = Append(@, try)]
          /\ \A q \in Replayers \ {r} : replay'[q] = replay[q]
          /\ replay'[r].pc = "update" /\ replay'[r].answer = try.answer
          /\ replay'[r].letter = replay[r].letter /\ replay'[r].queue = replay[r].queue
    BY <1>3, SendFacts, ZenonT(40)
  <2>3. /\ Records(e, w, try)
        /\ \A q \in Replayers \ {r} : replay'[q] = replay[q]
        /\ replay'[r].pc = "update" /\ replay'[r].answer = try.answer
        /\ replay'[r].letter = letter /\ replay'[r].queue = replay[r].queue
    BY <2>1, <2>2, <2>sent DEF Records
  <2>4. LogsGrow
    BY <2>3, OneMore
  <2>5. PICK m, n \in Nat :
          /\ m = Len(deliveries[e][w]) /\ n = m + 1 /\ n = Len(deliveries'[e][w])
          /\ n \in DOMAIN deliveries'[e][w] /\ deliveries'[e][w][n] = try
    BY <2>3, OneMore
  <2>6. /\ CountOK(letter, m)
        /\ letters[Current(r)].event = e /\ letters[Current(r)].endpoint = w
    BY <1>1, <2>1, <2>2, <2>5 DEF ReplayOK, InHand, HandOK, LogOf
  <2>7. HandOK(r)'
    <3>1. LogOf(replay[r].letter)' = deliveries'[e][w] /\ n - 1 = m
      BY <2>2, <2>3, <2>5 DEF LogOf
    <3>2. CountOK(replay[r].letter, Len(LogOf(replay[r].letter)) - 1)'
      <4>1. Len(LogOf(replay[r].letter))' = n
        BY <2>5, <3>1
      <4> QED
        BY <2>3, <2>6, <3>1, <4>1 DEF CountOK
    <3>3. (replay[r].answer = "ok" => Succeeded(LogOf(replay[r].letter)))'
      BY <2>3, <2>5, <3>1 DEF Succeeded
    <3>4. Current(r)' = Current(r)
      BY <2>3 DEF Current
    <3>5. /\ letters'[Current(r)'].event = replay'[r].letter.event
          /\ letters'[Current(r)'].endpoint = replay'[r].letter.endpoint
      BY <1>1, <2>2, <2>3, <2>6, <3>4
    <3> QED
      BY <2>3, <3>2, <3>3, <3>5 DEF HandOK
  <2> QED
    BY <1>1, <2>3, <2>4, <2>7, ReplaysKept
<1> QED
  BY <1>2, <1>3

LEMMA UpdateKeepsReplays ==
  ASSUME TypeInv, TypeInv', ReplayOK, NEW r \in Replayers, UpdateLetter(r)
  PROVE  ReplayOK'
<1>1. PICK i \in DOMAIN letters : i = Current(r)
  BY UpdateFacts
<1>2. PICK letter \in Letter, answer \in Answers :
        letter = replay[r].letter /\ answer = replay[r].answer
  BY UpdateFacts DEF TypeInv, ReplayState
<1>3. PICK new : new = letters'[i]
  OBVIOUS
<1>4. /\ deliveries' = deliveries /\ replay[r].pc = "update" /\ Onward(r)
      /\ DOMAIN letters' = DOMAIN letters
      /\ \A j \in DOMAIN letters : j # i => letters'[j] = letters[j]
      /\ new.event = letter.event /\ new.endpoint = letter.endpoint
      /\ new.attempts = letter.attempts + 1 /\ new.replays = letter.replays + 1
      /\ new.status = IF answer = "ok" THEN "replayed" ELSE "pending"
  BY <1>1, <1>2, <1>3, UpdateFacts
<1>5. PICK e \in Events, w \in Endpoints : e = letter.event /\ w = letter.endpoint
  BY DEF Letter
<1>6. /\ letters[i].event = e /\ letters[i].endpoint = w
      /\ CountOK(letter, Len(deliveries[e][w]) - 1)
      /\ answer = "ok" => Succeeded(deliveries[e][w])
  BY <1>1, <1>2, <1>4, <1>5 DEF ReplayOK, InHand, HandOK, LogOf
<1>7. Len(deliveries[e][w]) \in Nat
  BY LenProperties DEF TypeInv
<1>8. LetterOK(letters[i])'
  <2>1. LogOf(letters[i])' = deliveries[e][w]
    BY <1>3, <1>4, <1>5 DEF LogOf
  <2>2. CountOK(new, Len(deliveries[e][w]))
    BY <1>4, <1>6, <1>7 DEF CountOK, Letter
  <2>3. new.status = "replayed" => Succeeded(deliveries[e][w])
    BY <1>4, <1>6
  <2> QED
    BY <1>3, <2>1, <2>2, <2>3 DEF LetterOK, CountOK
<1>9. ~ InHand(r)' /\ \A q \in Replayers \ {r} : replay'[q] = replay[q]
  BY <1>4, OnwardHolds
<1>10. \A j \in DOMAIN letters : /\ letters'[j].event = letters[j].event
                                 /\ letters'[j].endpoint = letters[j].endpoint
  BY <1>3, <1>4, <1>5, <1>6
<1> QED
  BY <1>4, <1>8, <1>9, <1>10, LogsStay, ReplaysKept

LEMMA StepReplays ==
  TypeInv /\ TypeInv' /\ DispatchOK /\ ReplayOK /\ [Next]_vars => ReplayOK'
<1> SUFFICES ASSUME TypeInv, TypeInv', DispatchOK, ReplayOK, [Next]_vars
             PROVE  ReplayOK'
  OBVIOUS
<1>1. CASE \E e \in Events : Dispatch(e)
  BY <1>1, DispatchKeepsReplays
<1>2. CASE \E r \in Replayers : Replay(r)
  BY <1>2, RequestKeepsReplays, ReadKeepsReplays, SendKeepsReplays, UpdateKeepsReplays DEF Replay
<1>3. CASE (\E w \in Endpoints : Create(w) \/ Update(w) \/ RotateSecret(w)) \/ UNCHANGED vars
  <2>1. deliveries' = deliveries /\ letters' = letters /\ replay' = replay
    BY <1>3 DEF Create, Update, RotateSecret, Change, vars
  <2> QED
    BY <2>1, LogsStay, ReplaysKept
<1> QED
  BY <1>1, <1>2, <1>3 DEF Next

LEMMA InitReplays == Init => ReplayOK
<1> SUFFICES ASSUME Init
             PROVE  ReplayOK
  OBVIOUS
<1>1. DOMAIN letters = {}
  BY EmptySeq, LenProperties DEF Init
<1>2. \A r \in Replayers : ~ InHand(r)
  BY DEF Init, Resting, InHand
<1> QED
  BY <1>1, <1>2 DEF ReplayOK

\* What a dispatch tried in vain is in the dead letters: the endpoint has the event, or
\* there is exactly one letter about it.
THEOREM NothingIsDropped == Spec => []NothingDropped
<1>1. TypeInv /\ DispatchOK => NothingDropped
  <2> SUFFICES ASSUME TypeInv, DispatchOK, NEW e \in Events, NEW w \in Endpoints,
                      dispatch[e].pc = "done", deliveries[e][w] # <<>>
               PROVE  \/ Succeeded(deliveries[e][w]) /\ LettersOf(e, w) = {}
                      \/ \E i \in DOMAIN letters : LettersOf(e, w) = {i}
    BY DEF NothingDropped
  <2>1. PlaceOK(e, w)
    BY DEF DispatchOK
  <2>2. dispatch[e].todo = <<>>
    BY DEF TypeInv
  <2>3. ~ Ahead(e, w) /\ ~ Trying(e, w)
    BY <2>2, EmptySeq, LenProperties DEF Ahead, Trying
  <2> QED
    BY <2>1, <2>3 DEF PlaceOK, Settled
<1> QED
  BY <1>1, InitTypes, StepTypes, InitPlaces, StepPlaces, InitReplays, StepReplays, PTL DEF Spec

\* A dispatch repeats an attempt only after a transient failure, and no more than
\* maxAttempts times.
THEOREM RetriesOnlyWhenDue == Spec => []RetriesAreDue
<1>1. TypeInv /\ DispatchOK => RetriesAreDue
  <2> SUFFICES ASSUME TypeInv, DispatchOK, NEW e \in Events, NEW w \in Endpoints,
                      LettersOf(e, w) = {}
               PROVE  /\ Len(deliveries[e][w]) <= MaxAttempts
                      /\ \A k \in 1..(Len(deliveries[e][w]) - 1) :
                           deliveries[e][w][k].answer = "transient"
    BY DEF RetriesAreDue
  <2>1. PICK log \in Seq(Delivery) : log = deliveries[e][w]
    BY DEF TypeInv
  <2>2. Tries(log)
    BY <2>1 DEF DispatchOK, PlaceOK
  <2>3. PICK n \in Nat : n = Len(log) /\ DOMAIN log = 1..n
    BY LenProperties
  <2>4. \A k \in 1..(n - 1) : k \in 1..n /\ k # n
    BY <2>3
  <2> QED
    BY <2>1, <2>2, <2>3, <2>4 DEF Tries
<1> QED
  BY <1>1, InitTypes, StepTypes, InitPlaces, StepPlaces, InitReplays, StepReplays, PTL DEF Spec

\* A letter is "replayed" only when the endpoint has the event, whatever replays run at
\* the same time.
THEOREM ReplayedIsDelivered == Spec => []ReplayedWasDelivered
<1>1. ReplayOK => ReplayedWasDelivered
  BY DEF ReplayOK, LetterOK, LogOf, ReplayedWasDelivered
<1> QED
  BY <1>1, InitTypes, StepTypes, InitPlaces, StepPlaces, InitReplays, StepReplays, PTL DEF Spec

\* A letter never counts more attempts than were made, however many replays overlap.
THEOREM CountsNeverOverstate == Spec => []AttemptsNeverOverstate
<1>1. ReplayOK => AttemptsNeverOverstate
  BY DEF ReplayOK, LetterOK, CountOK, LogOf, AttemptsNeverOverstate
<1> QED
  BY <1>1, InitTypes, StepTypes, InitPlaces, StepPlaces, InitReplays, StepReplays, PTL DEF Spec

-----------------------------------------------------------------------------
(* Letters that tell the whole story *)

\* A letter and its log that stay tell the same story.
LEMMA TaleKept ==
  ASSUME TypeInv, NEW i \in DOMAIN letters, TaleOK(i), letters'[i] = letters[i],
         deliveries'[letters[i].event][letters[i].endpoint] = LogOf(letters[i]),
         \A r \in Replayers : replay[r].pc = "update" => replay'[r] = replay[r]
  PROVE  TaleOK(i)'
<1>1. CASE Told(letters[i], LogOf(letters[i]))
  <2>1. LogOf(letters[i])' = LogOf(letters[i])
    BY DEF LogOf
  <2>2. Told(letters[i], LogOf(letters[i]))'
    BY <1>1, <2>1 DEF Told, Vain
  <2> QED
    BY <2>2 DEF TaleOK
<1>2. CASE \E r \in Replayers : replay[r].pc = "update" /\ Current(r) = i
  <2>1. PICK r \in Replayers : replay[r].pc = "update" /\ Current(r) = i
    BY <1>2
  <2>2. replay'[r].pc = "update" /\ Current(r)' = i
    BY <2>1 DEF Current
  <2> QED
    BY <2>2 DEF TaleOK
<1> QED
  BY <1>1, <1>2 DEF TaleOK

LEMMA HeldKept ==
  ASSUME TypeInv, NEW q \in Replayers, HeldOK(q), replay'[q] = replay[q],
         InHand(q) => letters'[Current(q)] = letters[Current(q)],
         InHand(q) => LET letter == replay[q].letter
                      IN  deliveries'[letter.event][letter.endpoint] = LogOf(letter)
  PROVE  HeldOK(q)'
<1>1. CASE ~ InHand(q)
  <2>1. ~ InHand(q)' /\ replay'[q].pc # "update"
    BY <1>1 DEF InHand
  <2> QED
    BY <2>1 DEF HeldOK
<1>2. CASE InHand(q)
  <2>1. PICK letter, log : letter = replay[q].letter /\ log = LogOf(letter)
    OBVIOUS
  <2>2. /\ Current(q)' = Current(q) /\ replay'[q].letter = letter
        /\ LogOf(replay[q].letter)' = log
    BY <1>2, <2>1 DEF Current, LogOf
  <2>3. /\ letter = letters[Current(q)] /\ letter.status = "pending"
        /\ replay[q].pc = "update" =>
             /\ Len(log) = letter.attempts + 1 /\ Vain(log)
             /\ log[Len(log)].answer = replay[q].answer
    BY <1>2, <2>1 DEF HeldOK
  <2>4. (InHand(q) => /\ replay[q].letter = letters[Current(q)]
                      /\ replay[q].letter.status = "pending")'
    BY <1>2, <2>2, <2>3
  <2>5. (replay[q].pc = "update" =>
           LET held == LogOf(replay[q].letter)
           IN  /\ Len(held) = replay[q].letter.attempts + 1 /\ Vain(held)
               /\ held[Len(held)].answer = replay[q].answer)'
    BY <2>2, <2>3 DEF Vain
  <2> QED
    BY <2>4, <2>5 DEF HeldOK
<1> QED
  BY <1>1, <1>2

\* Letters and replays that stay, with their logs.
LEMMA StoriesKept ==
  ASSUME TypeInv, StoryOK, ~ overlapped, replay' = replay,
         \A i \in DOMAIN letters :
           /\ letters'[i] = letters[i]
           /\ deliveries'[letters[i].event][letters[i].endpoint] = LogOf(letters[i])
  PROVE  /\ OneAtATime' /\ \A i \in DOMAIN letters : TaleOK(i)'
         /\ \A r \in Replayers : HeldOK(r)'
<1>1. OneAtATime'
  BY DEF StoryOK, OneAtATime
<1>2. ASSUME NEW i \in DOMAIN letters
      PROVE  TaleOK(i)'
  BY TaleKept DEF StoryOK
<1>3. ASSUME NEW q \in Replayers
      PROVE  HeldOK(q)'
  <2>1. HeldOK(q)
    BY DEF StoryOK
  <2>2. InHand(q) => Current(q) \in DOMAIN letters /\ replay[q].letter = letters[Current(q)]
    BY <2>1, AtWork DEF InHand, HeldOK
  <2> QED
    BY <2>1, <2>2, HeldKept
<1> QED
  BY <1>1, <1>2, <1>3

LEMMA DispatchKeepsStories ==
  ASSUME TypeInv, DispatchOK, ReplayOK, StoryOK, NEW e \in Events, Dispatch(e)
  PROVE  StoryOK'
<1> SUFFICES ASSUME ~ overlapped'
             PROVE  StoryOK'
  BY DEF StoryOK
<1>1. CASE Start(e)
  <2>1. deliveries' = deliveries /\ letters' = letters /\ replay' = replay /\ ~ overlapped
    BY <1>1, StartFacts
  <2>2. /\ OneAtATime' /\ \A i \in DOMAIN letters : TaleOK(i)'
        /\ \A r \in Replayers : HeldOK(r)'
    BY <2>1, StoriesKept DEF LogOf
  <2> QED
    BY <2>1, <2>2 DEF StoryOK
<1>2. CASE Attempt(e)
  <2>1. letters' = letters /\ replay' = replay /\ ~ overlapped /\ dispatch[e].todo # <<>>
    BY <1>2, AttemptFacts
  <2>2. PICK w \in Endpoints : w = Target(e)
    BY <1>2, AttemptFacts
  <2>3. PICK try \in Delivery : Records(e, w, try)
    BY <1>2, <2>2, AttemptFacts DEF Records
  <2>4. ASSUME NEW i \in DOMAIN letters
        PROVE  deliveries'[letters[i].event][letters[i].endpoint] = LogOf(letters[i])
    <3>1. LettersOf(e, w) = {}
      BY <2>1, <2>2, TriedOnce
    <3>2. letters[i].event # e \/ letters[i].endpoint # w
      BY <3>1 DEF LettersOf
    <3>3. letters[i].event \in Events /\ letters[i].endpoint \in Endpoints
      BY OneLetter
    <3> QED
      BY <2>3, <3>2, <3>3, OneMore DEF LogOf
  <2>5. /\ OneAtATime' /\ \A i \in DOMAIN letters : TaleOK(i)'
        /\ \A r \in Replayers : HeldOK(r)'
    BY <2>1, <2>4, StoriesKept
  <2> QED
    BY <2>1, <2>5 DEF StoryOK
<1>3. CASE Bury(e)
  <2>1. /\ deliveries' = deliveries /\ replay' = replay /\ ~ overlapped
        /\ dispatch[e].pc = "bury" /\ dispatch[e].todo # <<>>
    BY <1>3, BuryFacts
  <2>2. PICK w \in Endpoints : w = Target(e)
    BY <1>3, BuryFacts
  <2>3. PICK letter \in Letter :
          /\ letters' = Append(letters, letter) /\ letter.event = e /\ letter.endpoint = w
          /\ letter.attempts = dispatch[e].attempt /\ letter.reason = dispatch[e].reason
    BY <1>3, <2>2, BuryFacts
  <2>4. PICK n : n = Len(letters) + 1
    OBVIOUS
  <2>5. /\ DOMAIN letters' = DOMAIN letters \cup {n} /\ letters'[n] = letter
        /\ \A i \in DOMAIN letters : letters'[i] = letters[i]
    BY <2>3, <2>4, LetterAdded DEF TypeInv
  <2>6. /\ OneAtATime' /\ \A i \in DOMAIN letters : TaleOK(i)'
        /\ \A r \in Replayers : HeldOK(r)'
    BY <2>1, <2>5, StoriesKept DEF LogOf
  <2>7. TaleOK(n)'
    <3>1. PICK log : log = deliveries[e][w]
      OBVIOUS
    <3>2. /\ Tries(log) /\ Len(log) = letter.attempts
          /\ log[Len(log)].answer # "ok" /\ letter.reason = ReasonFor(log[Len(log)].answer)
      BY <2>1, <2>2, <2>3, <3>1, TriedOnce DEF TryOK
    <3>3. Told(letter, log)
      BY <3>2 DEF Told, Vain, Tries
    <3>4. LogOf(letters[n])' = log /\ letters'[n] = letter
      BY <2>1, <2>3, <2>5, <3>1 DEF LogOf
    <3>5. Told(letters[n], LogOf(letters[n]))'
      BY <3>3, <3>4 DEF Told, Vain
    <3> QED
      BY <3>5 DEF TaleOK
  <2> QED
    BY <2>5, <2>6, <2>7 DEF StoryOK
<1> QED
  BY <1>1, <1>2, <1>3 DEF Dispatch

\* Where one replayer is at work, the others rest.
LEMMA OthersRest ==
  ASSUME StoryOK, ~ overlapped, NEW r \in Replayers, replay[r].pc # "idle",
         NEW q \in Replayers, q # r
  PROVE  replay[q].pc = "idle"
  BY DEF StoryOK, OneAtATime

\* A replayer that takes a step alone: what it has to show.
LEMMA AloneKeepsStories ==
  ASSUME TypeInv, NEW r \in Replayers,
         \A q \in Replayers : q # r => replay[q].pc = "idle" /\ replay'[q] = replay[q],
         \A i \in DOMAIN letters' : TaleOK(i)', HeldOK(r)'
  PROVE  StoryOK'
<1>1. OneAtATime'
  BY DEF OneAtATime
<1>2. ASSUME NEW q \in Replayers
      PROVE  HeldOK(q)'
  <2>1. CASE q = r
    BY <2>1
  <2>2. CASE q # r
    <3>1. ~ InHand(q)' /\ replay'[q].pc # "update"
      BY <2>2 DEF InHand
    <3> QED
      BY <3>1 DEF HeldOK
  <2> QED
    BY <2>1, <2>2
<1> QED
  BY <1>1, <1>2 DEF StoryOK

\* A replayer that holds no letter has nothing to show, and one that does not update one
\* lets the letters tell their story.
LEMMA HoldsNothing ==
  ASSUME NEW r \in Replayers, ~ InHand(r)'
  PROVE  HeldOK(r)'
<1>1. replay'[r].pc # "update"
  BY DEF InHand
<1> QED
  BY <1>1 DEF HeldOK

LEMMA AllTold ==
  ASSUME StoryOK, ~ overlapped, NEW i \in DOMAIN letters,
         \A q \in Replayers : replay[q].pc # "update" \/ Current(q) # i
  PROVE  Told(letters[i], LogOf(letters[i]))
  BY DEF StoryOK, TaleOK

LEMMA TalesUntouched ==
  ASSUME TypeInv, StoryOK, ~ overlapped, deliveries' = deliveries, letters' = letters,
         \A q \in Replayers : replay[q].pc # "update"
  PROVE  \A i \in DOMAIN letters' : TaleOK(i)'
<1> SUFFICES ASSUME NEW i \in DOMAIN letters
             PROVE  TaleOK(i)'
  OBVIOUS
<1>1. TaleOK(i)
  BY DEF StoryOK
<1> QED
  BY <1>1, TaleKept DEF LogOf

LEMMA RequestKeepsStories ==
  ASSUME TypeInv, StoryOK, NEW r \in Replayers, Request(r)
  PROVE  StoryOK'
<1> SUFFICES ASSUME ~ overlapped'
             PROVE  StoryOK'
  BY DEF StoryOK
<1>1. /\ deliveries' = deliveries /\ letters' = letters /\ replay[r].pc = "idle"
      /\ \A q \in Replayers \ {r} : replay'[q] = replay[q]
      /\ replay'[r].pc = "read"
      /\ ~ overlapped /\ \A q \in Replayers \ {r} : replay[q].pc = "idle"
  BY RequestFacts
<1>2. \A i \in DOMAIN letters' : TaleOK(i)'
  BY <1>1, TalesUntouched
<1>3. HeldOK(r)'
  BY <1>1, HoldsNothing DEF InHand
<1> QED
  BY <1>1, <1>2, <1>3, AloneKeepsStories

LEMMA ReadKeepsStories ==
  ASSUME TypeInv, StoryOK, NEW r \in Replayers, ReadLetter(r)
  PROVE  StoryOK'
<1> SUFFICES ASSUME ~ overlapped'
             PROVE  StoryOK'
  BY DEF StoryOK
<1>1. deliveries' = deliveries /\ letters' = letters /\ replay[r].pc = "read" /\ ~ overlapped
  BY ReadFacts
<1>2. \A q \in Replayers : q # r => replay[q].pc = "idle"
  BY <1>1, OthersRest
<1>3. \A q \in Replayers : q # r => replay'[q] = replay[q]
  <2>1. CASE Onward(r)
    BY <1>1, <2>1, OnwardHolds
  <2> QED
    BY <2>1, ReadFacts
<1>4. \A i \in DOMAIN letters' : TaleOK(i)'
  BY <1>1, <1>2, TalesUntouched
<1>5. HeldOK(r)'
  <2>1. CASE Onward(r)
    BY <1>1, <2>1, OnwardHolds, HoldsNothing
  <2>2. CASE ~ Onward(r)
    <3>1. /\ replay'[r].pc = "send" /\ replay'[r].letter = letters[Current(r)]
          /\ replay'[r].queue = replay[r].queue /\ letters[Current(r)].status # "replayed"
      BY <2>2, ReadFacts
    <3>2. letters[Current(r)].status = "pending"
      BY <1>1, <3>1, AtWork DEF Letter
    <3>3. Current(r)' = Current(r)
      BY <3>1 DEF Current
    <3> QED
      BY <1>1, <3>1, <3>2, <3>3 DEF HeldOK
  <2> QED
    BY <2>1, <2>2
<1> QED
  BY <1>2, <1>3, <1>4, <1>5, AloneKeepsStories

LEMMA SendKeepsStories ==
  ASSUME TypeInv, DispatchOK, ReplayOK, StoryOK, NEW r \in Replayers, Send(r)
  PROVE  StoryOK'
<1> SUFFICES ASSUME ~ overlapped'
             PROVE  StoryOK'
  BY DEF StoryOK
<1>1. /\ letters' = letters /\ replay[r].pc = "send" /\ replay[r].letter \in Letter
      /\ ~ overlapped
  BY SendFacts
<1>2. \A q \in Replayers : q # r => replay[q].pc = "idle"
  BY <1>1, OthersRest
<1>3. CASE deliveries' = deliveries /\ Onward(r)
  <2>1. ~ InHand(r)' /\ \A q \in Replayers : q # r => replay'[q] = replay[q]
    BY <1>1, <1>3, OnwardHolds
  <2>2. \A i \in DOMAIN letters' : TaleOK(i)'
    BY <1>1, <1>2, <1>3, TalesUntouched
  <2> QED
    BY <1>2, <2>1, <2>2, HoldsNothing, AloneKeepsStories
<1>4. CASE ~ (deliveries' = deliveries /\ Onward(r))
  <2>1. PICK i \in DOMAIN letters : i = Current(r)
    BY <1>1, AtWork
  <2>2. PICK letter \in Letter : letter = replay[r].letter
    BY <1>1
  <2>3. letter = letters[i] /\ letter.status = "pending"
    BY <1>1, <2>1, <2>2 DEF StoryOK, HeldOK, InHand
  <2>4. PICK e \in Events, w \in Endpoints : e = letter.event /\ w = letter.endpoint
    BY DEF Letter
  <2>5. PICK try \in Delivery :
          /\ Records(e, w, try) /\ try.attempt = letter.attempts + 1
          /\ \A q \in Replayers \ {r} : replay'[q] = replay[q]
          /\ replay'[r].pc = "update" /\ replay'[r].answer = try.answer
          /\ replay'[r].letter = letter /\ replay'[r].queue = replay[r].queue
    BY <1>4, <2>2, <2>4, SendFacts DEF Records
  <2>6. PICK log, more : log = deliveries[e][w] /\ more = deliveries'[e][w]
    OBVIOUS
  <2>7. PICK m, n \in Nat :
          /\ m = Len(log) /\ n = m + 1 /\ n = Len(more)
          /\ DOMAIN log = 1..m /\ DOMAIN more = 1..n /\ n \in 1..n /\ more[n] = try
    BY <2>5, <2>6, OneMore
  <2>8. /\ \A k \in DOMAIN log : more[k] = log[k]
        /\ \A f \in Events, v \in Endpoints :
             f # e \/ v # w => deliveries'[f][v] = deliveries[f][v]
    BY <2>5, <2>6, OneMore
  <2>9. letter.attempts = m /\ Vain(log) /\ log[m].answer # "ok"
    <3>1. Told(letters[i], LogOf(letters[i]))
      BY <1>1, <1>2, AllTold
    <3>2. LogOf(letters[i]) = log
      BY <2>3, <2>4, <2>6 DEF LogOf
    <3> QED
      BY <2>3, <2>7, <3>1, <3>2 DEF Told
  <2>10. Vain(more)
    <3>1. \A k \in 1..n : k = n \/ k \in 1..m
      BY <2>7
    <3>2. ASSUME NEW k \in DOMAIN more
          PROVE  more[k].attempt = k /\ (k # Len(more) => more[k].answer # "ok")
      <4>1. CASE k = n
        BY <2>5, <2>7, <2>9, <4>1
      <4>2. CASE k \in DOMAIN log
        BY <2>7, <2>8, <2>9, <4>2 DEF Vain
      <4> QED
        BY <2>7, <3>1, <4>1, <4>2
    <3> QED
      BY <3>2 DEF Vain
  <2>11. HeldOK(r)'
    <3>1. LogOf(replay[r].letter)' = more /\ Current(r)' = i
      BY <2>1, <2>4, <2>5, <2>6 DEF LogOf, Current
    <3>2. (replay[r].letter = letters[Current(r)] /\ replay[r].letter.status = "pending")'
      BY <1>1, <2>3, <2>5, <3>1
    <3>3. (Len(LogOf(replay[r].letter)) = replay[r].letter.attempts + 1)'
      BY <2>5, <2>7, <2>9, <3>1
    <3>4. Vain(LogOf(replay[r].letter))'
      BY <2>10, <3>1 DEF Vain
    <3>5. (LogOf(replay[r].letter)[Len(LogOf(replay[r].letter))].answer = replay[r].answer)'
      BY <2>5, <2>7, <3>1
    <3> QED
      BY <3>2, <3>3, <3>4, <3>5 DEF HeldOK
  <2>12. ASSUME NEW j \in DOMAIN letters
         PROVE  TaleOK(j)'
    <3>1. CASE j = i
      <4>1. Current(r)' = j /\ replay'[r].pc = "update"
        BY <2>1, <2>5, <3>1 DEF Current
      <4> QED
        BY <4>1 DEF TaleOK
    <3>2. CASE j # i
      <4>1. LettersOf(e, w) = {i}
        BY <2>3, <2>4, OneLetter
      <4>2. letters[j].event # e \/ letters[j].endpoint # w
        BY <3>2, <4>1 DEF LettersOf
      <4>3. letters[j].event \in Events /\ letters[j].endpoint \in Endpoints
        BY OneLetter
      <4>4. deliveries'[letters[j].event][letters[j].endpoint] = LogOf(letters[j])
        BY <2>8, <4>2, <4>3 DEF LogOf
      <4>5. \A q \in Replayers : replay[q].pc # "update"
        BY <1>1, <1>2
      <4>6. TaleOK(j)
        BY <1>1 DEF StoryOK
      <4> QED
        BY <1>1, <4>4, <4>5, <4>6, TaleKept
    <3> QED
      BY <3>1, <3>2
  <2> QED
    BY <1>1, <1>2, <2>5, <2>11, <2>12, AloneKeepsStories
<1> QED
  BY <1>3, <1>4

LEMMA UpdateKeepsStories ==
  ASSUME TypeInv, ReplayOK, StoryOK, NEW r \in Replayers, UpdateLetter(r)
  PROVE  StoryOK'
<1> SUFFICES ASSUME ~ overlapped'
             PROVE  StoryOK'
  BY DEF StoryOK
<1>1. PICK i \in DOMAIN letters : i = Current(r)
  BY UpdateFacts
<1>2. PICK letter \in Letter, answer \in Answers :
        letter = replay[r].letter /\ answer = replay[r].answer
  BY UpdateFacts DEF TypeInv, ReplayState
<1>3. PICK new : new = letters'[i]
  OBVIOUS
<1>4. /\ deliveries' = deliveries /\ replay[r].pc = "update" /\ Onward(r) /\ ~ overlapped
      /\ DOMAIN letters' = DOMAIN letters
      /\ \A j \in DOMAIN letters : j # i => letters'[j] = letters[j]
      /\ new.event = letter.event /\ new.endpoint = letter.endpoint
      /\ new.attempts = letter.attempts + 1
      /\ new.status = IF answer = "ok" THEN "replayed" ELSE "pending"
      /\ answer # "ok" => new.reason = ReasonFor(answer)
  BY <1>1, <1>2, <1>3, UpdateFacts
<1>5. \A q \in Replayers : q # r => replay[q].pc = "idle"
  BY <1>4, OthersRest
<1>6. ~ InHand(r)' /\ \A q \in Replayers : q # r => replay'[q] = replay[q]
  BY <1>4, OnwardHolds
<1>7. PICK log : log = LogOf(letter)
  OBVIOUS
<1>8. Len(log) = letter.attempts + 1 /\ Vain(log) /\ log[Len(log)].answer = answer
  BY <1>2, <1>4, <1>7 DEF StoryOK, HeldOK
<1>9. TaleOK(i)'
  <2>1. Told(new, log)
    BY <1>4, <1>8 DEF Told
  <2>2. letters'[i] = new /\ LogOf(letters[i])' = log
    BY <1>3, <1>4, <1>7 DEF LogOf
  <2>3. Told(letters[i], LogOf(letters[i]))'
    BY <2>1, <2>2 DEF Told, Vain
  <2> QED
    BY <2>3 DEF TaleOK
<1>10. ASSUME NEW j \in DOMAIN letters, j # i
       PROVE  TaleOK(j)'
  <2>1. Told(letters[j], LogOf(letters[j]))
    BY <1>1, <1>4, <1>5, <1>10, AllTold
  <2>2. letters'[j] = letters[j] /\ LogOf(letters[j])' = LogOf(letters[j])
    BY <1>4, <1>10 DEF LogOf
  <2>3. Told(letters[j], LogOf(letters[j]))'
    BY <2>1, <2>2 DEF Told, Vain
  <2> QED
    BY <2>3 DEF TaleOK
<1>11. \A j \in DOMAIN letters' : TaleOK(j)'
  BY <1>4, <1>9, <1>10
<1> QED
  BY <1>5, <1>6, <1>11, HoldsNothing, AloneKeepsStories

LEMMA StepStories ==
  TypeInv /\ DispatchOK /\ ReplayOK /\ StoryOK /\ [Next]_vars => StoryOK'
<1> SUFFICES ASSUME TypeInv, DispatchOK, ReplayOK, StoryOK, [Next]_vars
             PROVE  StoryOK'
  OBVIOUS
<1>1. CASE \E e \in Events : Dispatch(e)
  BY <1>1, DispatchKeepsStories
<1>2. CASE \E r \in Replayers : Replay(r)
  BY <1>2, RequestKeepsStories, ReadKeepsStories, SendKeepsStories, UpdateKeepsStories DEF Replay
<1>3. CASE (\E w \in Endpoints : Create(w) \/ Update(w) \/ RotateSecret(w)) \/ UNCHANGED vars
  <2>1. /\ deliveries' = deliveries /\ letters' = letters /\ replay' = replay
        /\ overlapped' = overlapped
    BY <1>3 DEF Create, Update, RotateSecret, Change, vars
  <2>2. CASE overlapped
    BY <2>1, <2>2 DEF StoryOK
  <2>3. CASE ~ overlapped
    <3>1. /\ OneAtATime' /\ \A i \in DOMAIN letters : TaleOK(i)'
          /\ \A r \in Replayers : HeldOK(r)'
      BY <2>1, <2>3, StoriesKept DEF LogOf
    <3> QED
      BY <2>1, <3>1 DEF StoryOK
  <2> QED
    BY <2>2, <2>3
<1> QED
  BY <1>1, <1>2, <1>3 DEF Next

LEMMA InitStories == Init => StoryOK
<1> SUFFICES ASSUME Init
             PROVE  StoryOK
  OBVIOUS
<1>1. DOMAIN letters = {}
  BY EmptySeq, LenProperties DEF Init
<1>2. \A r \in Replayers : replay[r].pc = "idle"
  BY DEF Init, Resting
<1>3. \A r \in Replayers : HeldOK(r)
  BY <1>2 DEF HeldOK, InHand
<1> QED
  BY <1>1, <1>2, <1>3 DEF StoryOK, OneAtATime

\* While replays do not overlap, a letter at rest counts every attempt, has the reason of
\* the last failure, and its event was not sent again once it was delivered.
THEOREM LettersTellTheStory == Spec => []LettersTellAll
<1>1. TypeInv /\ DispatchOK /\ StoryOK => LettersTellAll
  <2> SUFFICES ASSUME TypeInv, DispatchOK, StoryOK, ~ overlapped, NEW i \in DOMAIN letters,
                      \A r \in Replayers : replay[r].pc # "update",
                      NEW log, log = LogOf(letters[i])
               PROVE  /\ letters[i].attempts = Len(log)
                      /\ \A k \in DOMAIN log : log[k].attempt = k
                      /\ letters[i].status = "pending" =>
                           letters[i].reason = ReasonFor(Last(log).answer)
                      /\ \A k \in 1..(Len(log) - 1) : log[k].answer # "ok"
    BY DEF LettersTellAll, LogOf
  <2>1. Told(letters[i], log)
    BY AllTold
  <2>2. log \in Seq(Delivery)
    BY OneLetter DEF TypeInv, LogOf
  <2>3. PICK n \in Nat : n = Len(log) /\ DOMAIN log = 1..n
    BY <2>2, LenProperties
  <2>4. \A k \in 1..(n - 1) : k \in 1..n /\ k # n
    BY <2>3
  <2>5. Last(log) = log[Len(log)]
    BY DEF Last
  <2> QED
    BY <2>1, <2>3, <2>4, <2>5 DEF Told, Vain
<1> QED
  BY <1>1, InitTypes, StepTypes, InitPlaces, StepPlaces, InitReplays, StepReplays,
     InitStories, StepStories, PTL DEF Spec
=============================================================================
