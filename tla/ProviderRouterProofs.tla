-------------------------- MODULE ProviderRouterProofs --------------------------
(* Proofs about ProviderRouter, for any payments, providers, policy, threshold and   *)
(* cooldown: a circuit is open only after its threshold of failures in a row, and no *)
(* provider is called twice for one payment.                                         *)
EXTENDS ProviderRouter, SequenceTheorems, FiniteSetTheorems, TLAPS

CircuitsOK == circuits \in [Providers -> Circuit]
StreaksOK  == streak \in [Providers -> 0..Threshold]

\* The router counts no failure that was not one of the streak: it may have begun to count
\* anew, when the circuit opened or its time was over, and the streak went on.
CountsStreak ==
  \A p \in Providers :
    /\ circuits[p].failures <= streak[p]
    /\ Open(p) => streak[p] = Threshold

IInv == CircuitsOK /\ StreaksOK /\ CountsStreak

LEMMA ClosedFacts == Closed \in Circuit /\ Closed.failures = 0 /\ ~ Closed.opened
  BY PolicyAssumption DEF Closed, Circuit

LEMMA InitInv == Init => IInv
<1> SUFFICES ASSUME Init
             PROVE  IInv
  OBVIOUS
<1>1. \A p \in Providers : circuits[p] = Closed /\ streak[p] = 0
  BY DEF Init
<1>2. CircuitsOK /\ StreaksOK
  BY ClosedFacts, PolicyAssumption DEF Init, CircuitsOK, StreaksOK
<1> QED
  BY <1>1, <1>2, ClosedFacts DEF IInv, CountsStreak, Open

\* One answer, for the circuit and the streak of the provider that gave it.
LEMMA RecordedFacts ==
  ASSUME IInv, NEW p \in Providers, NEW answer \in Answers,
         NEW s, s = IF ~ Failure(answer) THEN 0
                    ELSE IF streak[p] < Threshold THEN streak[p] + 1 ELSE streak[p]
  PROVE  /\ Recorded(p, answer) \in Circuit
         /\ s \in 0..Threshold
         /\ Recorded(p, answer).failures <= s
         /\ Recorded(p, answer).opened /\ Recorded(p, answer).left > 0 => s = Threshold
<1>1. /\ circuits[p] \in Circuit /\ streak[p] \in 0..Threshold
      /\ circuits[p].failures <= streak[p]
      /\ Open(p) => streak[p] = Threshold
  BY DEF IInv, CircuitsOK, StreaksOK, CountsStreak
<1>2. Threshold \in Nat \ {0} /\ Cooldown \in Nat \ {0}
  BY PolicyAssumption
<1>3. Counts(answer) <=> Failure(answer)
  BY DEF Counts, Failure
<1>4. CASE ~ Failure(answer)
  BY <1>2, <1>3, <1>4, ClosedFacts DEF Recorded
<1>5. CASE Failure(answer) /\ circuits[p].failures + 1 >= Threshold
  <2>1. Recorded(p, answer) = [ failures |-> 0, opened |-> TRUE, left |-> Cooldown ]
    BY <1>3, <1>5 DEF Recorded, Trips
  <2>2. s = Threshold
    BY <1>1, <1>2, <1>5 DEF Circuit
  <2> QED
    BY <1>2, <2>1, <2>2 DEF Circuit
<1>6. CASE Failure(answer) /\ ~ circuits[p].failures + 1 >= Threshold
  <2>1. Recorded(p, answer) = [circuits[p] EXCEPT !.failures = circuits[p].failures + 1]
    BY <1>3, <1>6 DEF Recorded, Trips
  <2>2. /\ Recorded(p, answer) \in Circuit
        /\ Recorded(p, answer).failures = circuits[p].failures + 1
        /\ Recorded(p, answer).opened = circuits[p].opened
        /\ Recorded(p, answer).left = circuits[p].left
    BY <1>1, <1>2, <1>6, <2>1 DEF Circuit
  <2>3. /\ s \in 0..Threshold /\ circuits[p].failures + 1 <= s
        /\ streak[p] = Threshold => s = Threshold
    BY <1>1, <1>2, <1>6 DEF Circuit
  <2> QED
    BY <1>1, <2>2, <2>3 DEF Open
<1> QED
  BY <1>4, <1>5, <1>6

LEMMA AnswerInv ==
  ASSUME IInv, NEW x \in Payments, NEW answer \in Answers, Answer(x, answer)
  PROVE  IInv'
<1> DEFINE p == Head(candidates[x])
           s == IF ~ Failure(answer) THEN 0
                ELSE IF streak[p] < Threshold THEN streak[p] + 1 ELSE streak[p]
<1>1. /\ circuits' = [circuits EXCEPT ![p] = Recorded(p, answer)]
      /\ streak' = [streak EXCEPT ![p] = s]
  BY DEF Answer
<1>2. CircuitsOK /\ StreaksOK /\ CountsStreak
  BY DEF IInv
<1>3. p \in Providers => /\ Recorded(p, answer) \in Circuit
                         /\ s \in 0..Threshold
                         /\ Recorded(p, answer).failures <= s
                         /\ Recorded(p, answer).opened /\ Recorded(p, answer).left > 0 => s = Threshold
  BY RecordedFacts
<1> HIDE DEF p, s
<1>4. CircuitsOK' /\ StreaksOK'
  BY <1>1, <1>2, <1>3 DEF CircuitsOK, StreaksOK
<1>5. \A q \in Providers :
        /\ circuits'[q] = IF q = p THEN Recorded(p, answer) ELSE circuits[q]
        /\ streak'[q] = IF q = p THEN s ELSE streak[q]
  BY <1>1, <1>2 DEF CircuitsOK, StreaksOK
<1>6. CountsStreak'
  BY <1>2, <1>3, <1>5 DEF CountsStreak, Open
<1> QED
  BY <1>4, <1>6 DEF IInv

LEMMA StepInv == IInv /\ [Next]_vars => IInv'
<1> SUFFICES ASSUME IInv, [Next]_vars
             PROVE  IInv'
  OBVIOUS
<1>1. CircuitsOK /\ StreaksOK /\ CountsStreak
  BY DEF IInv
<1>2. ASSUME NEW x \in Payments, Route(x)
      PROVE  IInv'
  <2>1. /\ streak' = streak
        /\ circuits' \in [Providers -> Circuit]
        /\ \A p \in Providers : circuits'[p] \in {Closed, circuits[p]}
    BY <1>1, <1>2, ClosedFacts DEF Route, CircuitsOK
  <2>2. \A p \in Providers : streak[p] \in 0..Threshold
    BY <1>1 DEF StreaksOK
  <2>3. CountsStreak'
    BY <1>1, <2>1, <2>2, ClosedFacts, PolicyAssumption DEF CountsStreak, Open
  <2> QED
    BY <1>1, <2>1, <2>3 DEF IInv, CircuitsOK, StreaksOK
<1>3. ASSUME NEW x \in Payments, Reject(x)
      PROVE  IInv'
  BY <1>1, <1>3 DEF Reject, IInv, CircuitsOK, StreaksOK, CountsStreak, Open
<1>4. ASSUME NEW x \in Payments, NEW answer \in Answers, Answer(x, answer)
      PROVE  IInv'
  BY <1>4, AnswerInv
<1>5. CASE Tick
  <2>1. \A p \in Providers : circuits[p] \in Circuit
    BY <1>1 DEF CircuitsOK
  <2>2. \A p \in Providers :
          /\ circuits'[p] \in Circuit
          /\ circuits'[p].failures = circuits[p].failures
          /\ Open(p)' => Open(p)
    BY <1>5, <2>1, PolicyAssumption DEF Tick, Open, Circuit
  <2>3. streak' = streak /\ circuits' \in [Providers -> Circuit]
    BY <1>5, <2>2 DEF Tick
  <2>4. CountsStreak'
    BY <1>1, <2>2, <2>3 DEF CountsStreak
  <2> QED
    BY <1>1, <2>3, <2>4 DEF IInv, CircuitsOK, StreaksOK
<1>6. CASE UNCHANGED vars
  BY <1>1, <1>6 DEF vars, IInv, CircuitsOK, StreaksOK, CountsStreak, Open
<1> QED
  BY <1>2, <1>3, <1>4, <1>5, <1>6 DEF Next

\* A circuit is open only after the threshold of failures in a row, in whatever order the
\* answers of concurrent payments reach the router.
THEOREM CircuitsOpenOnStreak == Spec => []OpensOnStreak
<1>1. IInv => OpensOnStreak
  BY DEF IInv, CountsStreak, OpensOnStreak
<1> QED
  BY <1>1, InitInv, StepInv, PTL DEF Spec

-----------------------------------------------------------------------------
(* Lists in order *)

\* A finite set of numbers has a greatest element: the one that most others are below.
LEMMA GreatestOf ==
  ASSUME NEW S \in SUBSET Nat, IsFiniteSet(S), S # {}
  PROVE  \E m \in S : \A x \in S : x <= m
<1> DEFINE Above(m) == { x \in S : m <= x }
           all == { Above(m) : m \in S }
<1>1. IsWellFoundedOn(StrictSubsetOrdering(S), SUBSET S)
  BY FS_StrictSubsetOrderingWellFounded, FS_FiniteSubsetsOfFinite
<1>2. all \subseteq SUBSET S /\ all # {}
  OBVIOUS
<1> HIDE DEF all
<1>3. PICK least \in all : \A y \in all : ~ (<<y, least>> \in StrictSubsetOrdering(S))
  BY <1>1, <1>2, WFMin
<1>4. PICK m \in S : least = Above(m)
  BY DEF all
<1> SUFFICES ASSUME NEW x \in S, ~ (x <= m)
             PROVE  FALSE
  OBVIOUS
<1>5. Above(x) \subseteq Above(m) /\ m \in Above(m) /\ m \notin Above(x)
  <2>1. x \in Nat /\ m \in Nat /\ m < x
    OBVIOUS
  <2>2. \A y \in S : x <= y => m <= y
    BY <2>1
  <2>3. Above(x) \subseteq Above(m)
    BY <2>2
  <2>4. m <= m /\ ~ (x <= m)
    BY <2>1
  <2>5. m \in Above(m) /\ m \notin Above(x)
    BY <2>4
  <2> QED
    BY <2>3, <2>5
<1>6. Above(x) \in all /\ Above(x) \in SUBSET S /\ Above(m) \in SUBSET S
  BY DEF all
<1> HIDE DEF Above
<1>7. <<Above(x), Above(m)>> \in StrictSubsetOrdering(S)
  BY <1>5, <1>6 DEF StrictSubsetOrdering
<1> QED
  BY <1>3, <1>4, <1>6, <1>7

\* A list of the members of a set, each once, the smallest first.
Ascending(f, S) ==
  f \in [ 1..Cardinality(S) -> S ] /\ \A j, k \in DOMAIN f : j < k => f[j] < f[k]

\* The greatest member goes to the end.
LEMMA AscendingAdd ==
  ASSUME NEW S \in SUBSET Nat, IsFiniteSet(S), NEW m \in S, \A x \in S : x <= m,
         NEW f, Ascending(f, S \ {m})
  PROVE  \E g : Ascending(g, S)
<1> DEFINE n == Cardinality(S \ {m})
           g == [ k \in 1..(n + 1) |-> IF k = n + 1 THEN m ELSE f[k] ]
<1>1. n \in Nat /\ Cardinality(S) = n + 1
  <2>1. IsFiniteSet(S \ {m}) /\ n = Cardinality(S) - 1
    BY FS_RemoveElement
  <2>2. n \in Nat /\ Cardinality(S) \in Nat
    BY <2>1, FS_CardinalityType
  <2> QED
    BY <2>1, <2>2
<1>2. f \in [ 1..n -> S \ {m} ] /\ \A j, k \in 1..n : j < k => f[j] < f[k]
  BY DEF Ascending
<1> HIDE DEF n
<1>3. g \in [ 1..(n + 1) -> S ]
  BY <1>1, <1>2
<1>4. ASSUME NEW j \in 1..(n + 1), NEW k \in 1..(n + 1), j < k
      PROVE  g[j] < g[k]
  <2>1. j \in 1..n /\ g[j] = f[j]
    BY <1>1, <1>4
  <2>2. CASE k = n + 1
    <3>1. g[k] = m /\ f[j] \in S /\ f[j] # m
      BY <1>2, <2>1, <2>2
    <3>2. f[j] \in Nat /\ m \in Nat /\ f[j] <= m
      BY <3>1
    <3> QED
      BY <2>1, <3>1, <3>2
  <2>3. CASE k # n + 1
    <3>1. k \in 1..n /\ g[k] = f[k]
      BY <1>1, <2>3
    <3> QED
      BY <1>2, <1>4, <2>1, <3>1
  <2> QED
    BY <2>2, <2>3
<1> QED
  BY <1>1, <1>3, <1>4 DEF Ascending

\* Every finite set of numbers can be listed so: a smallest one that cannot would lack its
\* greatest member in a smaller one that can.
LEMMA AscendingExists ==
  ASSUME NEW S \in SUBSET Nat, IsFiniteSet(S)
  PROVE  \E f : Ascending(f, S)
<1> DEFINE bad == { T \in SUBSET S : ~ \E f : Ascending(f, T) }
<1>1. IsWellFoundedOn(StrictSubsetOrdering(S), SUBSET S)
  BY FS_StrictSubsetOrderingWellFounded, FS_FiniteSubsetsOfFinite
<1> SUFFICES ASSUME bad # {}
             PROVE  FALSE
  OBVIOUS
<1>2. bad \subseteq SUBSET S
  OBVIOUS
<1>3. PICK T \in bad : \A y \in bad : ~ (<<y, T>> \in StrictSubsetOrdering(S))
  <2> HIDE DEF bad
  <2> QED
    BY <1>1, <1>2, WFMin
<1>4. T \in SUBSET Nat /\ T \in SUBSET S /\ IsFiniteSet(T)
  BY FS_Subset
<1>5. T # {}
  <2> SUFFICES ASSUME T = {}
               PROVE  FALSE
    OBVIOUS
  <2> DEFINE none == [ k \in 1..0 |-> k ]
  <2>1. Cardinality(T) = 0 /\ none \in [ 1..0 -> T ] /\ DOMAIN none = {}
    BY FS_EmptySet
  <2>2. Ascending(none, T)
    BY <2>1 DEF Ascending
  <2> QED
    BY <2>2
<1>6. PICK m \in T : \A x \in T : x <= m
  BY <1>4, <1>5, GreatestOf
<1>7. T \ {m} \notin bad
  <2>1. <<T \ {m}, T>> \in StrictSubsetOrdering(S)
    BY <1>4 DEF StrictSubsetOrdering
  <2> HIDE DEF bad
  <2> QED
    BY <1>3, <2>1
<1>8. PICK f : Ascending(f, T \ {m})
  BY <1>4, <1>7
<1>9. \E g : Ascending(g, T)
  BY <1>4, <1>6, <1>8, AscendingAdd
<1> QED
  BY <1>9

\* What is among a list is of the list and of the set, and is there no more often.
LEMMA AmongFacts ==
  ASSUME NEW T, NEW list \in Seq(T), NEW S, NEW out, out = Among(list, S)
  PROVE  /\ out \in Seq(S)
         /\ \A k \in DOMAIN out : \E j \in DOMAIN list : out[k] = list[j]
         /\ IsInjective(list) => IsInjective(out)
<1> DEFINE found  == { k \in DOMAIN list : list[k] \in S }
           n      == Cardinality(found)
           places == CHOOSE f \in [ 1..Cardinality(found) -> found ] :
                       \A j, k \in DOMAIN f : j < k => f[j] < f[k]
<1>1. found \in SUBSET Nat /\ IsFiniteSet(found)
  <2>1. DOMAIN list = 1..Len(list) /\ Len(list) \in Nat
    BY LenProperties
  <2>2. IsFiniteSet(1..Len(list))
    BY <2>1, FS_Interval
  <2>3. found \in SUBSET (1..Len(list))
    BY <2>1
  <2>4. IsFiniteSet(found)
    BY <2>2, <2>3, FS_Subset
  <2> HIDE DEF found
  <2> QED
    BY <2>1, <2>3, <2>4
<1>2. \A k \in found : k \in DOMAIN list /\ list[k] \in S
  OBVIOUS
<1> HIDE DEF found
<1>3. n \in Nat
  BY <1>1, FS_CardinalityType
<1>4. /\ places \in [ 1..n -> found ]
      /\ \A j, k \in DOMAIN places : j < k => places[j] < places[k]
  BY <1>1, AscendingExists DEF Ascending
<1>5. out = [ k \in DOMAIN places |-> list[places[k]] ]
  BY DEF Among, found
<1> HIDE DEF places, n
<1>6. out \in [ 1..n -> S ] /\ \A k \in 1..n : out[k] = list[places[k]]
  BY <1>2, <1>4, <1>5
<1>7. out \in Seq(S)
  BY <1>3, <1>6, SeqDef
<1>8. \A j, k \in 1..n : places[j] = places[k] => j = k
  <2> SUFFICES ASSUME NEW j \in 1..n, NEW k \in 1..n, places[j] = places[k], j # k
               PROVE  FALSE
    OBVIOUS
  <2>1. places[j] \in Nat /\ places[k] \in Nat /\ (j < k \/ k < j)
    <3>1. places[j] \in found /\ places[k] \in found
      BY <1>4
    <3>2. places[j] \in Nat /\ places[k] \in Nat
      BY <1>1, <3>1
    <3>3. j < k \/ k < j
      BY <1>3
    <3> QED
      BY <3>2, <3>3
  <2>2. places[j] < places[k] \/ places[k] < places[j]
    BY <1>4, <2>1
  <2> QED
    BY <2>1, <2>2
<1>9. IsInjective(list) => IsInjective(out)
  <2> SUFFICES ASSUME IsInjective(list), NEW j \in 1..n, NEW k \in 1..n, out[j] = out[k]
               PROVE  j = k
    BY <1>6 DEF IsInjective
  <2>1. places[j] \in DOMAIN list /\ places[k] \in DOMAIN list
    BY <1>2, <1>4
  <2>2. places[j] = places[k]
    BY <1>6, <2>1 DEF IsInjective
  <2> QED
    BY <1>8, <2>2
<1> QED
  BY <1>2, <1>4, <1>6, <1>7, <1>9

-----------------------------------------------------------------------------
(* Candidates *)

\* The policy's providers, the default one behind them unless it is one of them.
LEMMA OrderedFacts == Ordered \in Seq(Providers) /\ IsInjective(Ordered)
<1>1. PICK first : first = Among(Priority, Providers)
  OBVIOUS
<1>2. PICK fallback : fallback = Fallback(first)
  OBVIOUS
<1>3. PICK last : last = Among(fallback, Providers)
  OBVIOUS
<1>4. Ordered = first \o last
  BY <1>1, <1>2, <1>3 DEF Ordered
<1>5. first \in Seq(Providers) /\ IsInjective(first)
  BY <1>1, AmongFacts, PriorityAssumption
<1>6. \/ fallback = <<>>
      \/ fallback = <<Default>> /\ \A k \in DOMAIN first : first[k] # Default
  BY <1>2 DEF Fallback, Range
<1>7. /\ fallback \in Seq(Names) /\ IsInjective(fallback)
      /\ \A k \in DOMAIN fallback : \A j \in DOMAIN first : first[j] # fallback[k]
  <2>1. CASE fallback = <<>>
    BY <2>1, EmptySeq, LenProperties DEF IsInjective
  <2>2. CASE fallback = <<Default>> /\ \A k \in DOMAIN first : first[k] # Default
    <3>1. fallback \in Seq(Names) /\ DOMAIN fallback = {1} /\ fallback[1] = Default
      BY <2>2, PriorityAssumption
    <3> QED
      BY <2>2, <3>1 DEF IsInjective
  <2> QED
    BY <1>6, <2>1, <2>2
<1>8. /\ last \in Seq(Providers) /\ IsInjective(last)
      /\ \A k \in DOMAIN last : \A j \in DOMAIN first : first[j] # last[k]
  BY <1>3, <1>7, AmongFacts
<1>9. PICK m \in Nat, n \in Nat : m = Len(first) /\ n = Len(last)
  BY <1>5, <1>8, LenProperties
<1>10. /\ DOMAIN first = 1..m /\ DOMAIN last = 1..n /\ Ordered \in Seq(Providers)
       /\ Len(Ordered) = m + n /\ DOMAIN Ordered = 1..(m + n)
       /\ \A i \in 1..(m + n) : Ordered[i] = IF i <= m THEN first[i] ELSE last[i - m]
  BY <1>4, <1>5, <1>8, <1>9, ConcatProperties, LenProperties
<1>11. ASSUME NEW j \in 1..(m + n), NEW k \in 1..(m + n), Ordered[j] = Ordered[k]
       PROVE  j = k
  <2>1. \A i \in 1..(m + n) : IF i <= m THEN i \in 1..m ELSE i - m \in 1..n
    BY <1>9
  <2>2. CASE j <= m /\ k <= m
    BY <1>5, <1>10, <1>11, <2>1, <2>2 DEF IsInjective
  <2>3. CASE ~ (j <= m) /\ ~ (k <= m)
    <3>1. j - m \in 1..n /\ k - m \in 1..n /\ last[j - m] = last[k - m]
      BY <1>10, <1>11, <2>1, <2>3
    <3>2. j - m = k - m
      BY <1>8, <1>10, <3>1 DEF IsInjective
    <3> QED
      BY <1>9, <3>2
  <2>4. CASE j <= m /\ ~ (k <= m)
    BY <1>8, <1>10, <1>11, <2>1, <2>4
  <2>5. CASE ~ (j <= m) /\ k <= m
    BY <1>8, <1>10, <1>11, <2>1, <2>5
  <2> QED
    BY <2>2, <2>3, <2>4, <2>5
<1> QED
  BY <1>10, <1>11 DEF IsInjective

\* A list that loses its first member stays without repetition.
LEMMA TailKeeps ==
  ASSUME NEW s \in Seq(Providers), s # <<>>, IsInjective(s)
  PROVE  Tail(s) \in Seq(Providers) /\ IsInjective(Tail(s))
<1>1. /\ Len(s) \in Nat /\ DOMAIN s = 1..Len(s)
      /\ Tail(s) \in Seq(Providers) /\ Len(Tail(s)) = Len(s) - 1
      /\ DOMAIN Tail(s) = 1..Len(Tail(s))
      /\ \A i \in 1..Len(Tail(s)) : Tail(s)[i] = s[i + 1]
  BY HeadTailProperties, LenProperties
<1>2. PICK n \in Nat : n = Len(s)
  BY <1>1
<1>3. DOMAIN s = 1..n /\ DOMAIN Tail(s) = 1..(n - 1) /\ \A i \in 1..(n - 1) : Tail(s)[i] = s[i + 1]
  BY <1>1, <1>2
<1>4. ASSUME NEW j \in 1..(n - 1), NEW k \in 1..(n - 1), Tail(s)[j] = Tail(s)[k]
      PROVE  j = k
  <2>1. j + 1 \in 1..n /\ k + 1 \in 1..n
    OBVIOUS
  <2>2. s[j + 1] = s[k + 1]
    BY <1>3, <1>4
  <2>3. j + 1 = k + 1
    BY <1>3, <2>1, <2>2 DEF IsInjective
  <2> QED
    BY <2>3
<1> QED
  BY <1>1, <1>3, <1>4 DEF IsInjective

CandidatesOK ==
  candidates \in [Payments -> Seq(Providers)] /\ \A x \in Payments : IsInjective(candidates[x])

LEMMA InitCandidates == Init => CandidatesOK
<1>1. <<>> \in Seq(Providers) /\ IsInjective(<<>>)
  BY EmptySeq, LenProperties DEF IsInjective
<1> QED
  BY <1>1 DEF Init, CandidatesOK

LEMMA StepCandidates == CandidatesOK /\ [Next]_vars => CandidatesOK'
<1> SUFFICES ASSUME CandidatesOK, [Next]_vars
             PROVE  CandidatesOK'
  OBVIOUS
<1>1. <<>> \in Seq(Providers) /\ IsInjective(<<>>)
  BY EmptySeq, LenProperties DEF IsInjective
<1>2. ASSUME NEW x \in Payments, NEW new \in Seq(Providers), IsInjective(new),
             candidates' = [candidates EXCEPT ![x] = new]
      PROVE  CandidatesOK'
  BY <1>2 DEF CandidatesOK
<1>3. ASSUME NEW x \in Payments, Route(x)
      PROVE  CandidatesOK'
  <2>1. PICK new : new = Among(Ordered, { p \in Providers : Available(p) })
    OBVIOUS
  <2>2. new \in Seq({ p \in Providers : Available(p) }) /\ IsInjective(new)
    BY <2>1, OrderedFacts, AmongFacts
  <2>3. new \in Seq(Providers)
    BY <2>2, SeqMonotonic
  <2>4. candidates' = [candidates EXCEPT ![x] = new]
    BY <1>3, <2>1 DEF Route
  <2> QED
    BY <1>2, <2>2, <2>3, <2>4
<1>4. ASSUME NEW x \in Payments, Reject(x)
      PROVE  CandidatesOK'
  BY <1>1, <1>2, <1>4 DEF Reject
<1>5. ASSUME NEW x \in Payments, NEW answer \in Answers, Answer(x, answer)
      PROVE  CandidatesOK'
  <2>1. /\ candidates[x] \in Seq(Providers) /\ candidates[x] # <<>> /\ IsInjective(candidates[x])
        /\ candidates' = [candidates EXCEPT ![x] =
                            IF answer = "transient" THEN Tail(candidates[x]) ELSE <<>>]
    BY <1>5 DEF Answer, CandidatesOK
  <2>2. Tail(candidates[x]) \in Seq(Providers) /\ IsInjective(Tail(candidates[x]))
    BY <2>1, TailKeeps
  <2>3. CASE answer = "transient"
    BY <1>2, <2>1, <2>2, <2>3
  <2>4. CASE answer # "transient"
    BY <1>1, <1>2, <2>1, <2>4
  <2> QED
    BY <2>3, <2>4
<1>6. CASE Tick \/ UNCHANGED vars
  BY <1>6 DEF Tick, vars, CandidatesOK
<1> QED
  BY <1>3, <1>4, <1>5, <1>6 DEF Next

\* However the policy is filled in, with or without the default provider, a payment never
\* calls a provider again that it has tried.
THEOREM NoProviderIsAskedTwice == Spec => []NoProviderTwice
<1>1. CandidatesOK => NoProviderTwice
  BY DEF CandidatesOK, NoProviderTwice
<1> QED
  BY <1>1, InitCandidates, StepCandidates, PTL DEF Spec

\* Every variable keeps its type: payments call configured providers only, and a circuit
\* counts below its threshold.
THEOREM RouterTypeCorrect == Spec => []TypeOK
<1>1. IInv /\ CandidatesOK => TypeOK
  BY DEF IInv, CircuitsOK, StreaksOK, CandidatesOK, TypeOK
<1> QED
  BY <1>1, InitInv, StepInv, InitCandidates, StepCandidates, PTL DEF Spec
=================================================================================
