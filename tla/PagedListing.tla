----------------------------- MODULE PagedListing -----------------------------
(***************************************************************************)
(* A client that walks through a list endpoint page by page while rows are *)
(* inserted and updated: GET /events, /deliveries, /deliveries/:id/attempts*)
(* (an opaque cursor that holds an offset) and /subscriptions (a page      *)
(* number).  Each page is a query of its own, so the offset of a page was  *)
(* computed for an older list than the one it is applied to.               *)
(*                                                                         *)
(* The rows are those the filters of the query select.  Only filters on    *)
(* columns that never change are meant: with a filter on a status rows     *)
(* also leave the list.  Rows and their count are read at one moment.      *)
(***************************************************************************)
EXTENDS Naturals, SequencesExt

CONSTANTS Limits,      \* page sizes a client may ask for
          InitialRows, \* rows in the table when the client starts
          Times,       \* values of createdAt, where equal ones matter
          MaxChanges   \* bound on the changes of the list during the walk

ASSUME ListingAssumption ==
    /\ Limits \subseteq Nat \ {0}
    /\ InitialRows \in Nat /\ MaxChanges \in Nat /\ Times \subseteq Nat

(***************************************************************************)
(* What can be asked for: how pages are chained and what they are ordered  *)
(* by.  Behind a cursor ties are broken by the id (attempts: by the        *)
(* sequence number).  The subscriptions are ordered by createdAt alone, so *)
(* two queries may return rows of equal createdAt in different orders.     *)
(***************************************************************************)
Directions == {"asc", "desc"}
EventSorts == {"acceptedAt", "lastProcessedAt"} \X Directions
DeliverySorts == {"createdAt", "updatedAt"} \X Directions
AttemptSorts == {"attemptedAt"} \X Directions
SubscriptionSorts == {<<"createdAt", "desc">>}

Listings ==
    [by : {"cursor"}, sort : EventSorts \cup DeliverySorts \cup AttemptSorts, limit : Limits]
      \cup [by : {"page"}, sort : SubscriptionSorts, limit : Limits]

VARIABLES listing,   \* what the client walks through
          order,     \* the rows by ascending sort key, each named by the
                     \* number of its insert (attempts: attemptSequence)
          createdAt, \* of each row, where nothing else orders the rows
          offset,    \* where the next page starts
          seen,      \* the rows received so far, in order
          done,      \* the client was told that there is no further page
          moved,     \* rows updated, or exchanged, during the walk
          changes    \* number of inserts, updates and exchanges so far

vars == <<listing, order, createdAt, offset, seen, done, moved, changes>>

Column == listing.sort[1]
Ordered == IF listing.sort[2] = "asc" THEN order ELSE Reverse(order)

Lesser(a, b) == IF a < b THEN a ELSE b

\* Nothing but createdAt orders the rows.
TiesAreOpen == listing.by = "page"

SortedTimes ==
    {times \in [1..InitialRows -> Times] :
        \A i, j \in 1..InitialRows : i <= j => times[i] <= times[j]}

Init ==
    /\ listing \in Listings
    /\ order = [i \in 1..InitialRows |-> i]
    /\ createdAt \in IF TiesAreOpen THEN SortedTimes ELSE {<<>>}
    /\ offset = 0
    /\ seen = <<>>
    /\ done = FALSE
    /\ moved = {}
    /\ changes = 0

(***************************************************************************)
(* Pages.                                                                  *)
(***************************************************************************)
\* skip and take, applied to the list as it is now.
Query(skip, take) == SubSeq(Ordered, skip + 1, Lesser(skip + take, Len(Ordered)))

\* Mutant: no row more than the limit is read.
TakeOfLimit(limit) == limit

\* One row more than the limit is read to see whether there is another page.
TakeOf(limit) == limit + 1

\* Mutants: the extra row counts as delivered; the next page repeats a row.
FinalizePageSkipping(rows, limit, skipped) ==
    [items |-> SubSeq(rows, 1, Lesser(limit, Len(rows))),
     more |-> Len(rows) > limit,
     next |-> skipped + Len(rows)]
FinalizePageRepeating(rows, limit, skipped) ==
    [items |-> SubSeq(rows, 1, Lesser(limit, Len(rows))),
     more |-> Len(rows) > limit,
     next |-> skipped + Lesser(limit, Len(rows)) - (IF skipped > 0 THEN 1 ELSE 0)]

FinalizePage(rows, limit, skipped) ==
    LET items == SubSeq(rows, 1, Lesser(limit, Len(rows)))
    IN  [items |-> items, more |-> Len(rows) > limit, next |-> skipped + Len(items)]

Receive(page) ==
    /\ seen' = seen \o page.items
    /\ offset' = page.next
    /\ done' = ~ page.more

ReadCursorPage ==
    /\ ~ done /\ listing.by = "cursor"
    /\ Receive(FinalizePage(Query(offset, TakeOf(listing.limit)), listing.limit, offset))
    /\ UNCHANGED <<listing, order, createdAt, moved, changes>>

\* findAndCount, and totalPages as the client compares it with the page: the
\* next page starts at a multiple of the limit whatever this one held.
ReadNumberedPage ==
    /\ ~ done /\ listing.by = "page"
    /\ Receive([items |-> Query(offset, listing.limit),
                more |-> offset + listing.limit < Len(order),
                next |-> offset + listing.limit])
    /\ UNCHANGED <<listing, order, createdAt, moved, changes>>

(***************************************************************************)
(* Changes of the list.                                                    *)
(***************************************************************************)
Change == ~ done /\ changes < MaxChanges /\ changes' = changes + 1

\* The values of createdAt that put a row at some place among the others.
TimesAt(place) ==
    {t \in Times : \A i \in 1..Len(order) :
        IF i < place THEN createdAt[order[i]] <= t ELSE t <= createdAt[order[i]]}

\* The time in the key of a row is taken before the row is inserted, and by
\* several processes: it may end up before rows that were inserted earlier.
\* This goes for attempts too: attemptedAt is taken before the claim and the
\* row inserted after the call, so handlers that overlap, or whose clocks
\* differ, insert in another order.  A row that was not processed yet has no
\* lastProcessedAt, which sorts as the newest.
Insert ==
    /\ Change
    /\ \E place \in 1..Len(order) + 1 :
         /\ order' = InsertAt(order, place, Len(order) + 1)
         /\ IF TiesAreOpen
              THEN \E t \in TimesAt(place) : createdAt' = Append(createdAt, t)
              ELSE UNCHANGED createdAt
    /\ UNCHANGED <<listing, offset, seen, done, moved>>

\* A worker saves a row: updatedAt moves on, lastProcessedAt moves on or is
\* set for the first time, which takes the row away from the newest.
Save ==
    /\ Change
    /\ Column \in {"updatedAt", "lastProcessedAt"}
    /\ \E from, to \in 1..Len(order) :
         /\ Column = "updatedAt" => from <= to
         /\ order' = InsertAt(RemoveAt(order, from), to, order[from])
         /\ moved' = moved \cup {order[from]}
    /\ UNCHANGED <<listing, createdAt, offset, seen, done>>

\* PostgreSQL returns two rows of equal createdAt in the other order from now
\* on.  No row was written.
Exchange ==
    /\ Change
    /\ TiesAreOpen
    /\ \E i \in 1..Len(order) - 1 :
         /\ createdAt[order[i]] = createdAt[order[i + 1]]
         /\ order' = [order EXCEPT ![i] = order[i + 1], ![i + 1] = order[i]]
         /\ moved' = moved \cup {order[i], order[i + 1]}
    /\ UNCHANGED <<listing, createdAt, offset, seen, done>>

Rest == done /\ UNCHANGED vars

Next == ReadCursorPage \/ ReadNumberedPage \/ Insert \/ Save \/ Exchange \/ Rest

Spec == Init /\ [][Next]_vars

(***************************************************************************)
(* Properties.                                                             *)
(***************************************************************************)
\* Rows move away from the reader only: their keys are fixed, or an update
\* takes them to the front of a list read from the front.
PushesBack ==
    Column \in {"acceptedAt", "createdAt", "attemptedAt"} \/ listing.sort = <<"updatedAt", "desc">>

\* Every row that was there from the start and was neither updated nor
\* exchanged meanwhile is on some page, although offsets go stale:
\* finalizeCursorPagination hands out no cursor only when the end of the list
\* was reached.
NothingSettledIsMissed ==
    done /\ PushesBack => 1..InitialRows \subseteq ToSet(seen) \cup moved

\* A row comes twice only on account of a change: no more repeats than inserts,
\* updates and exchanges during the walk, in any order of the list.
RepeatsAreAccountedFor ==
    Len(seen) <= Cardinality(ToSet(seen)) + changes

\* The attempts of the delivery were recorded in the order of attemptedAt.
RecordedInOrder == \A i \in 1..Len(order) : order[i] = i

\* The history of a delivery, oldest attempt first, is read as recorded if it
\* was recorded in order: no repeats and no gaps, and at the end all attempts
\* from before the walk.
AttemptHistoryIsExact ==
    listing.sort = <<"attemptedAt", "asc">> /\ RecordedInOrder =>
        /\ IsPrefix(seen, order)
        /\ done => Len(seen) >= InitialRows
=============================================================================
