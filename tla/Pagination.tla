------------------------------- MODULE Pagination -------------------------------
(***************************************************************************)
(* The lists of the API and what is computed from them: a client (or the   *)
(* server itself, when it sums up the ledger for a reconciliation) walks   *)
(* through a collection page by page, each page named by the last item of  *)
(* the one before, while items are created and leave or enter the filter.  *)
(* The list functions share the rule of the cursor and differ in order,    *)
(* in what makes an item visible, and in whether it may still change.      *)
(***************************************************************************)
EXTENDS Integers, SequencesExt

CONSTANTS
  Ids,          \* identifiers of items; numbers, as identifiers have an order
  Limits,       \* items of a page; every request names its own
  Listings,     \* the list functions considered, see AllListings
  EntryTypes,   \* the types of ledger entries that are posted
  MaxTime,      \* bound: times of creation
  MaxChanges    \* bound: items that leave or enter the filter

InMemory    == {"intents_memory", "ledger_memory", "endpoints", "events_memory", "deliveries", "dead_letters"}
InPostgres  == {"intents_postgres", "ledger_postgres", "events_durable"}
AllListings == InMemory \cup InPostgres
OrderedById == InPostgres \cup {"events_memory"}

ASSUME IdsAssumption == Ids \subseteq Nat
ASSUME LimitAssumption == Limits \subseteq Nat \ {0} /\ MaxTime \in Nat /\ MaxChanges \in Nat
ASSUME ListingsAssumption ==
  /\ Listings \subseteq AllListings
  /\ EntryTypes \subseteq {"authorization", "capture", "refund", "chargeback"}

VARIABLES
  listing,    \* the list function the client uses, the same throughout a behaviour
  store,      \* the items in the order they were saved in
  now,        \* time
  changes,    \* changes so far
  walk,       \* the client's walk: what it does, its cursor, what it has seen,
              \* and how many items there were when it began (history)
  required    \* items that were in the collection all the time since it began (history)

pvars == <<listing, store, now, changes, walk, required>>

\* The cursor and what was seen name items by their positions in the store.
NoCursor == 0
NoType   == "none"
Item     == [ id : Ids, at : 0..MaxTime, matches : BOOLEAN, type : EntryTypes \cup {NoType} ]

PInit ==
  /\ listing \in Listings
  /\ store    = <<>>
  /\ now      = 0
  /\ changes  = 0
  /\ walk     = [ pc |-> "idle", cursor |-> NoCursor, seen |-> <<>>, begun |-> 0 ]
  /\ required = {}

Matching == { p \in DOMAIN store : store[p].matches }

-----------------------------------------------------------------------------
(* The order of a list: does p come before q? *)

\* Newest first; the sort in memory leaves items of one time in the order they were saved in.
NewestStable(p, q) ==
  store[p].at > store[q].at \/ (store[p].at = store[q].at /\ p < q)

NewestThenId(p, q) ==
  store[p].at > store[q].at \/ (store[p].at = store[q].at /\ store[p].id > store[q].id)

\* The list that is kept is reversed.
LastSavedFirst(p, q) == p > q

InMemoryIntents(p, q) == NewestStable(p, q)
InMemoryLedger(p, q)  == NewestStable(p, q)
Endpoints(p, q)       == NewestStable(p, q)
PostgresIntents(p, q) == NewestThenId(p, q)
PostgresLedger(p, q)  == NewestThenId(p, q)
InMemoryEvents(p, q)  == NewestThenId(p, q)
DurableEvents(p, q)   == NewestThenId(p, q)
Deliveries(p, q)      == LastSavedFirst(p, q)
DeadLetters(p, q)     == LastSavedFirst(p, q)

Precedes(p, q) ==
  CASE listing = "intents_memory"   -> InMemoryIntents(p, q)
    [] listing = "intents_postgres" -> PostgresIntents(p, q)
    [] listing = "ledger_memory"    -> InMemoryLedger(p, q)
    [] listing = "ledger_postgres"  -> PostgresLedger(p, q)
    [] listing = "endpoints"        -> Endpoints(p, q)
    [] listing = "events_memory"    -> InMemoryEvents(p, q)
    [] listing = "events_durable"   -> DurableEvents(p, q)
    [] listing = "deliveries"       -> Deliveries(p, q)
    [] listing = "dead_letters"     -> DeadLetters(p, q)

\* The k-th item of a list is the one with k - 1 items before it.
Collection ==
  LET items  == Matching
      places == { <<1 + Cardinality({ q \in items : Precedes(q, p) }), p>> : p \in items }
  IN  [ k \in 1..Cardinality(items) |-> CHOOSE p \in items : <<k, p>> \in places ]

-----------------------------------------------------------------------------
(* What happens to the items *)

Times_BeforeAnAwait == 0..now                                                      \* mutant

\* In memory the time is taken and the item saved without an await between them.  A
\* database saves it later, and the clocks of its servers need not agree.
Times == IF listing \in InPostgres THEN 0..now ELSE {now}

\* Identifiers are random; where they do not order a list, which they are does not matter.
NewIds ==
  LET free == Ids \ { store[p].id : p \in DOMAIN store }
  IN  IF listing \in OrderedById THEN free ELSE { id \in free : \A other \in free : id <= other }

Save(at, matches, type) ==
  /\ \E id \in NewIds :
       store' = Append(store, [ id |-> id, at |-> at, matches |-> matches, type |-> type ])
  /\ UNCHANGED <<listing, now, changes, walk, required>>

CreateIntent ==
  /\ listing \in {"intents_memory", "intents_postgres"}
  /\ \E at \in Times, matches \in BOOLEAN : Save(at, matches, NoType)

\* An entry is never changed again, whatever the filter, so others need not be modelled.
AppendLedgerEntry ==
  /\ listing \in {"ledger_memory", "ledger_postgres"}
  /\ \E at \in Times, type \in EntryTypes : Save(at, TRUE, type)

SaveEndpoint == listing = "endpoints" /\ Save(now, TRUE, NoType)

\* The durable bus lists an event only once it is marked as published.
PublishEvent ==
  /\ listing \in {"events_memory", "events_durable"}
  /\ \E at \in Times : Save(at, listing = "events_memory", NoType)

MarkPublished(p) ==
  /\ listing = "events_durable"
  /\ ~ store[p].matches
  /\ store' = [store EXCEPT ![p].matches = TRUE]
  /\ UNCHANGED <<listing, now, changes, walk, required>>

SaveDelivery == listing = "deliveries" /\ Save(now, TRUE, NoType)

SaveDeadLetter ==
  /\ listing = "dead_letters"
  /\ \E matches \in BOOLEAN : Save(now, matches, NoType)

\* A payment or a dead letter gets another status than the one the client filters by.
Change(p) ==
  /\ listing \in {"intents_memory", "intents_postgres", "dead_letters"}
  /\ changes < MaxChanges
  /\ store'    = [store EXCEPT ![p].matches = ~ @]
  /\ required' = required \ {p}
  /\ changes'  = changes + 1
  /\ UNCHANGED <<listing, now, walk>>

Tick ==
  /\ now < MaxTime
  /\ now' = now + 1
  /\ UNCHANGED <<listing, store, changes, walk, required>>

-----------------------------------------------------------------------------
(* A page *)

Begin ==
  /\ walk.pc \in {"idle", "refused"}
  /\ walk'     = [ pc |-> "walking", cursor |-> NoCursor, seen |-> <<>>, begun |-> Len(store) ]
  /\ required' = Matching
  /\ UNCHANGED <<listing, store, now, changes>>

First_AtCursor(all, cursor) ==                                                     \* mutant
  IF cursor = NoCursor THEN 1 ELSE CHOOSE k \in DOMAIN all : all[k] = cursor

\* startIndex, counted from one: the item after the cursor.
First(all, cursor) ==
  IF cursor = NoCursor THEN 1 ELSE 1 + CHOOSE k \in DOMAIN all : all[k] = cursor

PageOf(all, first, limit) ==
  SubSeq(all, first, IF first + limit - 1 < Len(all) THEN first + limit - 1 ELSE Len(all))

HasMore_OneShort(all, first, page) == first + Len(page) < Len(all)                 \* mutant

HasMore(all, first, page) == first + Len(page) <= Len(all)

NextCursor(page, more) == IF more THEN Last(page) ELSE NoCursor

Fetch ==
  /\ walk.pc = "walking"
  /\ \/ /\ walk.cursor # NoCursor /\ walk.cursor \notin Matching
        /\ walk' = [walk EXCEPT !.pc = "refused"]
     \/ /\ walk.cursor = NoCursor \/ walk.cursor \in Matching
        /\ LET all   == Collection
               first == First(all, walk.cursor)
           IN  \E limit \in Limits :
                 LET page == PageOf(all, first, limit)
                     more == HasMore(all, first, page)
                 IN  walk' = [ pc     |-> IF more THEN "walking" ELSE "done",
                               cursor |-> IF page = <<>> THEN NoCursor ELSE NextCursor(page, more),
                               seen   |-> walk.seen \o page,
                               begun  |-> walk.begun ]
  /\ UNCHANGED <<listing, store, now, changes, required>>

\* Amounts of one: what a total adds up is the number of entries of its type.
Total(entries, type) == Cardinality({ p \in entries : store[p].type = type })

Reconciliation(entries) ==
  LET captured    == Total(entries, "capture")
      refunded    == Total(entries, "refund")
      chargedBack == Total(entries, "chargeback")
  IN  [ captured |-> captured, refunded |-> refunded, chargedBack |-> chargedBack,
        net |-> captured - refunded - chargedBack, count |-> Cardinality(entries) ]

PNext ==
  \/ CreateIntent   \/ AppendLedgerEntry \/ SaveEndpoint
  \/ PublishEvent   \/ SaveDelivery      \/ SaveDeadLetter
  \/ \E p \in DOMAIN store : MarkPublished(p) \/ Change(p)
  \/ Tick
  \/ Begin
  \/ Fetch

PSpec == PInit /\ [][PNext]_pvars

-----------------------------------------------------------------------------
(* Properties *)

PTypeOK ==
  /\ listing \in Listings
  /\ store   \in Seq(Item)
  /\ now     \in 0..MaxTime
  /\ changes \in 0..MaxChanges
  /\ walk    \in [ pc : {"idle", "walking", "refused", "done"}, cursor : 0..Len(store),
                   seen : Seq(1..Len(store)), begun : 0..Len(store) ]
  /\ walk.pc \in {"idle", "done"} => walk.cursor = NoCursor
  /\ required \subseteq DOMAIN store

\* However the collection changes between pages, a walk shows every item at most once.
NoItemTwice == IsInjective(walk.seen)

\* A walk that came to the end has shown every item that was there all the time.
NothingSkipped ==
  walk.pc = "done" => required \subseteq ToSet(walk.seen)

\* The reconciliation of a ledger in memory adds up pages that were read at different
\* times, while entries are posted.  Its totals are those of the whole ledger at one
\* moment since it began: a refund is never counted without the capture before it.
SummaryOfOneMoment ==
  (walk.pc = "done" /\ listing = "ledger_memory") =>
    \E moment \in walk.begun..Len(store) :
      Reconciliation(ToSet(walk.seen)) = Reconciliation(1..moment)

\* The same is not so of a ledger in PostgreSQL, whose entries may become visible
\* in another order than that of their times (checked as a violation).
PostgresSummaryOfOneMoment ==
  (walk.pc = "done" /\ listing = "ledger_postgres") =>
    \E moment \in walk.begun..Len(store) :
      Reconciliation(ToSet(walk.seen)) = Reconciliation(1..moment)
=============================================================================
