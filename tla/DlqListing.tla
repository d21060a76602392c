----------------------------- MODULE DlqListing -----------------------------
(***************************************************************************)
(* GET /v1/dlq: an operator walks through the pages of the permanently     *)
(* failed deliveries while deliveries fail and repeated messages move      *)
(* them. order is the list the SELECT would return without LIMIT and       *)
(* OFFSET: updated_at DESC, for the filter of the walk. Nothing else       *)
(* orders it, so deliveries with one updated_at may change places between  *)
(* two queries. A delivery that fails gets the time its UPDATE began, so   *)
(* it may be listed behind one that was committed before it.               *)
(***************************************************************************)
EXTENDS Integers, Sequences, FiniteSets, Functions

CONSTANTS Deliveries,
          Times,        \* bound: the values of updated_at
          Limits,       \* the page sizes operators ask for
          MaxDepartures \* bound: listed deliveries that a repeated message moves

ASSUME ListingAssumption ==
  /\ IsFiniteSet(Deliveries)
  /\ Times \subseteq Nat \ {0}
  /\ Limits \subseteq 1..100
  /\ MaxDepartures \in Nat

VARIABLES order,
          updated, \* updated_at; 0 for a delivery that is not listed: nobody reads it
          walk     \* the requests for page 1, 2, ... of one operator

listing == <<order, updated, walk>>

\* start: what was listed when the walk began; seen: what its pages have shown;
\* departed: how often an entry was moved during the walk; swapped: the entries that
\* changed places with one of the same updated_at. All but seen are history.
Walk == [pc: {"idle", "list", "ended"}, limit: Nat, page: Nat, seen: SUBSET Deliveries,
         start: SUBSET Deliveries, departed: Nat, swapped: SUBSET Deliveries]

ListingTypeOK ==
  /\ order \in Seq(Deliveries)
  /\ updated \in [Deliveries -> Times \cup {0}]
  /\ walk \in Walk

\* ORDER BY d.updated_at DESC.
Sorted(s, time) == \A i, j \in 1..Len(s) : i < j => time[s[i]] >= time[s[j]]

\* Any deliveries have failed, in any order.
ListingInit ==
  /\ \E n \in 0..Cardinality(Deliveries) :
       order \in {s \in [1..n -> Deliveries] : Cardinality(Range(s)) = n}
  /\ updated \in [Deliveries -> Times \cup {0}]
  /\ \A d \in Deliveries : updated[d] = 0 <=> d \notin Range(order)
  /\ Sorted(order, updated)
  /\ walk = [pc |-> "idle", limit |-> 1, page |-> 1, seen |-> {}, start |-> {},
             departed |-> 0, swapped |-> {}]

-----------------------------------------------------------------------------
(* The pages                                                               *)

\* Mutant of Offset: pages are as long as the LIMIT.
Offset_ByLimit(page, limit) == (page - 1) * limit

\* The service asks for one row more than a page has.
Offset(page, limit) == (page - 1) * (limit - 1)

Smaller(m, n) == IF m < n THEN m ELSE n

\* LIMIT limit OFFSET offset.
ListPermanentlyFailed(page, limit) ==
  LET offset == Offset(page, limit)
  IN SubSeq(order, offset + 1, Smaller(offset + limit, Len(order)))

StartWalk(limit) ==
  /\ walk.pc = "idle"
  /\ walk' = [walk EXCEPT !.pc = "list", !.limit = limit, !.start = Range(order)]
  /\ UNCHANGED <<order, updated>>

\* List: the extra row is not shown; it says that there is a next page.
List ==
  LET rows == ListPermanentlyFailed(walk.page, walk.limit + 1)
      hasNext == Len(rows) > walk.limit
      shown == SubSeq(rows, 1, Smaller(walk.limit, Len(rows)))
  IN /\ walk.pc = "list"
     /\ walk' = [walk EXCEPT !.pc = IF hasNext THEN "list" ELSE "ended",
                             !.page = IF hasNext THEN @ + 1 ELSE @,
                             !.seen = @ \cup Range(shown)]
     /\ UNCHANGED <<order, updated>>

-----------------------------------------------------------------------------
(* What happens to the list during a walk                                  *)

\* d, in a sequence s, after its first i elements.
InsertAfter(s, i, d) ==
  [k \in 1..(Len(s) + 1) |-> IF k <= i THEN s[k] ELSE IF k = i + 1 THEN d ELSE s[k - 1]]

\* s without its element i.
Without(s, i) == [k \in 1..(Len(s) - 1) |-> IF k < i THEN s[k] ELSE s[k + 1]]

\* s with its elements i and i + 1 in each other's place.
Swapped(s, i) == [s EXCEPT ![i] = s[i + 1], ![i + 1] = s[i]]

\* A delivery becomes permanently_failed.
Fails(d, i, time) ==
  /\ walk.pc = "list"
  /\ d \notin Range(order) /\ i \in 0..Len(order)
  /\ order' = InsertAfter(order, i, d)
  /\ updated' = [updated EXCEPT ![d] = time]
  /\ Sorted(order', updated')
  /\ UNCHANGED walk

\* A repeated message of a listed delivery has another outcome.
Departs(i) ==
  /\ walk.pc = "list" /\ walk.departed < MaxDepartures
  /\ i \in 1..Len(order)
  /\ order' = Without(order, i)
  /\ updated' = [updated EXCEPT ![order[i]] = 0]
  /\ walk' = [walk EXCEPT !.departed = @ + 1]

\* A repeated message fails the delivery once more, with a new updated_at.
FailsAgain(i, j, time) ==
  /\ walk.pc = "list" /\ walk.departed < MaxDepartures
  /\ i \in 1..Len(order) /\ j \in 0..(Len(order) - 1)
  /\ order' = InsertAfter(Without(order, i), j, order[i])
  /\ updated' = [updated EXCEPT ![order[i]] = time]
  /\ Sorted(order', updated')
  /\ walk' = [walk EXCEPT !.departed = @ + 1]

\* The sort of the next query returns two deliveries with one updated_at the other way
\* round; several such steps give every order of the deliveries of one time.
TiesSwap(i) ==
  /\ walk.pc = "list"
  /\ i \in 1..(Len(order) - 1)
  /\ updated[order[i]] = updated[order[i + 1]]
  /\ order' = Swapped(order, i)
  /\ walk' = [walk EXCEPT !.swapped = @ \cup {order[i], order[i + 1]}]
  /\ UNCHANGED updated

ListChanges ==
  \/ \E d \in Deliveries, i \in 0..Len(order), time \in Times : Fails(d, i, time)
  \/ \E i \in 1..Len(order) : Departs(i) \/ TiesSwap(i)
  \/ \E i \in 1..Len(order), j \in 0..Len(order), time \in Times : FailsAgain(i, j, time)

-----------------------------------------------------------------------------
(* Properties                                                              *)

\* FR-001 of 004-dlq-replay: a walk through all pages shows every delivery that was
\* listed when it began, however many deliveries fail meanwhile. Each repeated message
\* of a listed delivery hides one of them at most, because OFFSET counts the entries
\* before a page anew (delivery_store.go:274, dlq_service.go:87). Beyond these only
\* deliveries that share their updated_at can be missed, those that the ORDER BY of
\* delivery_store.go:296 has put in another order for a later page.
PagesCover ==
  walk.pc = "ended" =>
    Cardinality((walk.start \ walk.seen) \ walk.swapped) <= walk.departed
=============================================================================
