----------------------------- MODULE Pagination -----------------------------
(***************************************************************************)
(* A paginated listing (_pagination.py): the generator that fetches pages  *)
(* on demand, the caller that iterates it or collects it with to_list, and *)
(* a collection on the server that other clients change in between.        *)
(*                                                                         *)
(* The sync and the async classes run the same loop; what differs between  *)
(* the offset and the SCIM paginators is a parameter of the actions.       *)
(***************************************************************************)
EXTENDS Integers, Sequences, SequencesExt, FiniteSets, Extract

CONSTANTS
  MaxPages,  \* _MAX_PAGES
  Listings   \* the listings to consider

\* page_size and max_items are arguments; first() is a max_items of 1.  The
\* server has "rows" rows at the start, which stand at "envelope" in its replies,
\* puts at most "cap" of them in a page, and other clients make up to "changes"
\* changes.
ListingRecords ==
  [paginator : {"offset", "scim"}, page_size : Nat \ {0}, max_items : Nat,
   extractor : Extractors, body : Bodies, envelope : Places \union {"elsewhere"},
   rows : Nat, cap : Nat \ {0}, changes : Nat]

ASSUME PagesAssumption == MaxPages \in Nat \ {0}
ASSUME ListingsAssumption == Listings \subseteq ListingRecords

VARIABLES
  listing,     \* the listing, one of Listings
  server,      \* how the endpoint treats a request, see Servers
  hidden,      \* rows that the server counts, but that are no JSON objects
  collection,  \* the rows, in the server's order
  inserted,    \* history: rows inserted since the listing began
  deleted,     \* history: rows deleted since then
  pc,          \* where the generator is
  offset,      \* offset, or start_index
  empties,     \* consecutive_empty
  fetched,     \* requests made: the loop variable of range(_MAX_PAGES)
  page,        \* items of the current page that were not yielded yet
  total,       \* page.total: a set of at most one number
  results      \* what the caller was handed

arguments == <<listing, server, hidden>>
generator == <<pc, offset, empties, fetched, page, total, results>>
environment == <<collection, inserted, deleted>>
vars == <<arguments, generator, environment>>

\* "total" reports status.total (or totalResults), "plain" does not.  "stuck"
\* does not either, and answers with its first page whatever the offset.
Servers == {"total", "plain", "stuck"}

paginator == listing.paginator
page_size == listing.page_size
max_items == listing.max_items

Rows == 1 .. listing.rows + listing.changes

TypeOK ==
  /\ listing \in ListingRecords
  /\ server \in Servers
  /\ hidden \subseteq Rows
  /\ collection \in Seq(Rows)
  /\ inserted \subseteq Rows
  /\ deleted \subseteq Rows
  /\ pc \in {"fetching", "yielding", "ended", "raised"}
  /\ offset \in Nat
  /\ empties \in 0 .. 2
  /\ fetched \in 0 .. MaxPages
  /\ page \in Seq(Rows)
  /\ total \subseteq Nat
  /\ results \in Seq(Rows)

\* RFC 7644 counts from 1.
FirstIndex == IF paginator = "scim" THEN 1 ELSE 0

\* A plausible slip: one empty page more.
EmptyLimitLoose == IF paginator = "scim" THEN 1 ELSE 3

\* Empty pages in a row that end the listing.
EmptyLimit == IF paginator = "scim" THEN 1 ELSE 2

Init ==
  /\ listing \in Listings
  /\ server \in Servers
  /\ collection = [i \in 1 .. listing.rows |-> i]
  /\ hidden \in SUBSET ToSet(collection)
  /\ inserted = {}
  /\ deleted = {}
  /\ pc = "fetching"
  /\ offset = FirstIndex
  /\ empties = 0
  /\ fetched = 0
  /\ page = <<>>
  /\ total = {}
  /\ results = <<>>

-----------------------------------------------------------------------------
\* The rows that are not hidden, in their order.
Visible(rows) ==
  LET visible[n \in 0 .. Len(rows)] ==
        IF n = 0 THEN <<>>
        ELSE IF rows[n] \in hidden THEN visible[n - 1]
        ELSE Append(visible[n - 1], rows[n])
  IN  visible[Len(rows)]

\* The rows the server answers with, at most page_size from position start.
Served ==
  LET start == IF server = "stuck" THEN 0 ELSE offset - FirstIndex
  IN  SubSeq(collection, start + 1,
             Min({start + page_size, start + listing.cap, Len(collection)}))

\* The extractor looks for the rows where they are.  (If it takes a list from
\* elsewhere, that one is empty.)
RowsFound == Extracted(listing.extractor, listing.body) = {listing.envelope}

\* The items of the page, and whether there are any.
Items == IF RowsFound THEN Visible(Served) ELSE <<>>

\* The extractor or the model's validation fails on this reply.
Undecodable ==
  \/ Fails(listing.extractor, listing.body)
  \/ /\ RowsFound /\ ~DropsNonObjects(listing.extractor)
     /\ ToSet(Served) \intersect hidden # {}

\* A plausible slip: step over the rows that came, not over those asked for.
AdvanceByItems == offset' = offset + Len(Items)

Advance == offset' = offset + page_size

\* A plausible slip: the first empty page ends the listing, as with SCIM.
ToleratesImpatient == empties + 1 < 1

\* Does the loop go on after this empty page?
Tolerates == empties + 1 < EmptyLimit

\* A plausible slip: > for >= at the offset paginator's bound.
IsLastLoose == \E n \in total : offset + page_size > n

\* A plausible slip: the offset paginator's bound for both index bases.
IsLastEager == \E n \in total : offset + page_size >= n

\* The total says that this page was the last.
IsLast ==
  \E n \in total :
    IF paginator = "scim" THEN offset + page_size > n ELSE offset + page_size >= n

\* _fetch_page raises, and the generator is finished.
RaiseInFetch ==
  /\ pc' = "raised"
  /\ fetched' = fetched + 1
  /\ UNCHANGED <<arguments, environment, offset, empties, page, total, results>>

\* The request failed, or validation found something else to object to.
FetchRaises ==
  /\ pc = "fetching" /\ fetched < MaxPages
  /\ RaiseInFetch

FetchUndecodable ==
  /\ pc = "fetching" /\ fetched < MaxPages
  /\ Undecodable
  /\ RaiseInFetch

FetchPage ==
  /\ pc = "fetching" /\ fetched < MaxPages
  /\ ~Undecodable /\ Items # <<>>
  /\ pc' = "yielding"
  /\ fetched' = fetched + 1
  /\ empties' = 0
  /\ page' = Items
  /\ total' = IF server = "total" /\ listing.body["body"] = "object"
              THEN {Len(collection)} ELSE {}
  /\ UNCHANGED <<arguments, environment, offset, results>>

\* A plausible slip: an empty page is taken for a hiccup and fetched again.
FetchEmptyPageAgain ==
  /\ pc = "fetching" /\ fetched < MaxPages
  /\ ~Undecodable /\ Items = <<>>
  /\ UNCHANGED vars

FetchEmptyPage ==
  /\ pc = "fetching" /\ fetched < MaxPages
  /\ ~Undecodable /\ Items = <<>>
  /\ fetched' = fetched + 1
  /\ empties' = empties + 1
  /\ IF Tolerates THEN Advance /\ UNCHANGED pc
                  ELSE pc' = "ended" /\ UNCHANGED offset
  /\ UNCHANGED <<arguments, environment, page, total, results>>

\* range(_MAX_PAGES) is exhausted: the listing ends, and says nothing of it.
PagesExhausted ==
  /\ pc = "fetching" /\ fetched = MaxPages
  /\ pc' = "ended"
  /\ UNCHANGED <<arguments, environment, offset, empties, fetched, page, total, results>>

\* An item is handed over; to_list leaves its loop when it has enough.
Yield ==
  /\ pc = "yielding" /\ page # <<>>
  /\ results' = Append(results, Head(page))
  /\ page' = Tail(page)
  /\ pc' = IF Len(results') >= max_items THEN "ended" ELSE pc
  /\ UNCHANGED <<arguments, environment, offset, empties, fetched, total>>

\* The caller asks for an item beyond the page.
PageDone ==
  /\ pc = "yielding" /\ page = <<>>
  /\ IF IsLast THEN pc' = "ended" /\ UNCHANGED offset
               ELSE pc' = "fetching" /\ Advance
  /\ UNCHANGED <<arguments, environment, empties, fetched, page, total, results>>

Proceed ==
  FetchPage \/ FetchEmptyPage \/ FetchUndecodable \/ PagesExhausted \/ Yield \/ PageDone

Iterate == Proceed \/ FetchRaises

-----------------------------------------------------------------------------
(* Other clients, between two requests of the listing.                     *)

Changes == Cardinality(inserted) + Cardinality(deleted)

Insert ==
  /\ pc \in {"fetching", "yielding"}
  /\ Changes < listing.changes
  /\ LET row == listing.rows + Cardinality(inserted) + 1 IN
       /\ \E i \in 1 .. Len(collection) + 1 : collection' = InsertAt(collection, i, row)
       /\ inserted' = inserted \union {row}
  /\ UNCHANGED <<arguments, generator, deleted>>

Delete ==
  /\ pc \in {"fetching", "yielding"}
  /\ Changes < listing.changes
  /\ \E i \in 1 .. Len(collection) :
       /\ collection' = RemoveAt(collection, i)
       /\ deleted' = deleted \union {collection[i]}
  /\ UNCHANGED <<arguments, generator, inserted>>

Next == Iterate \/ Insert \/ Delete

\* The caller keeps iterating, and the listing does not need a request to fail
\* to come to its end; nothing is assumed of the other clients.
Spec == Init /\ [][Next]_vars /\ WF_vars(Proceed)

-----------------------------------------------------------------------------
(* Safety, while other clients change the collection.                      *)


\* The server puts all rows of a page into its reply, where the extractor looks.
WholePages == RowsFound /\ server # "stuck" /\ listing.cap >= page_size

\* The listing came to its natural end.
Complete ==
  /\ pc = "ended"
  /\ Len(results) < max_items
  /\ Len(collection) <= MaxPages * page_size

\* Rows inserted during a listing may shift others into a page twice, but hide
\* none: what was there at the start is handed over.
InsertionsHideNothing ==
  Complete /\ WholePages /\ hidden = {} /\ deleted = {} =>
    ToSet(collection) \ inserted \subseteq ToSet(results)

\* Rows deleted during a listing may make it miss others, but nothing is handed
\* over twice or out of order.
DeletionsRepeatNothing ==
  server # "stuck" /\ inserted = {} =>
    \A i, j \in 1 .. Len(results) : i < j => results[i] < results[j]

-----------------------------------------------------------------------------
(* A collection that nobody changes.                                       *)

\* The rows that the server shows on its n-th page, n = 0, 1, ...
Shown(n) ==
  {collection[i] : i \in n * page_size + 1 ..
     Min({n * page_size + page_size, n * page_size + listing.cap, Len(collection)})}
  \ hidden

\* Empty pages, as many as end a listing, before the n-th.
EmptyRunBefore(n) ==
  \E first \in 0 .. n - EmptyLimit :
    \A k \in first .. first + EmptyLimit - 1 : Shown(k) = {}

\* A listing that ended has handed over what the server showed on the pages up
\* to the last of _MAX_PAGES or to a run of empty ones, or as much of it as was
\* asked for, and nothing else.  In particular it is complete unless the
\* collection is that long, has such a gap, or is served in shorter pages than
\* were asked for, whose other rows are skipped.
ExactlyTheShownRows ==
  pc = "ended" /\ listing.changes = 0 /\ server # "stuck" /\ RowsFound =>
    LET shown == UNION {Shown(n) : n \in {k \in 0 .. MaxPages - 1 : ~EmptyRunBefore(k)}}
    IN  /\ ToSet(results) \subseteq shown
        /\ Len(results) < max_items => shown \subseteq ToSet(results)

\* "Locate the list of items inside a response body, whatever the envelope"
\* (_extract.py): where the reply has one list, an end with empty hands means
\* that there was nothing to hand over, not that it was looked for elsewhere.
EmptyMeansEmpty ==
  /\ pc = "ended" /\ results = <<>> /\ listing.changes = 0 /\ server # "stuck"
  /\ listing.extractor = "extract_list" /\ listing.envelope # "data.data"
  /\ {place \in Places : listing.body[place] = "list"} = {listing.envelope}
  => \A n \in 0 .. Min({EmptyLimit, MaxPages}) - 1 : Shown(n) = {}

\* A collection that can be listed in full.
Regular ==
  /\ listing.changes = 0 /\ WholePages
  /\ max_items > 0
  /\ Len(collection) <= MaxPages * page_size
  /\ \A n \in 0 .. MaxPages - 1 : Shown(n) # {} => ~EmptyRunBefore(n)

\* Pages are fetched on demand: none after the last row that the total
\* announces, none before the caller wants an item of it, and without a total
\* no more empty ones than the paginator insists on.
NoNeedlessRequest ==
  Regular /\ hidden = {} =>
    /\ total # {} /\ collection # <<>> =>
         (fetched - 1) * page_size < Len(collection)
    /\ (fetched - EmptyLimit - 1) * page_size < Len(collection)
    /\ \/ (fetched - 1) * page_size < max_items
       \/ Len(results) = Len(collection)

\* What Listing sees of it.  A listing that is not regular passes for one that
\* raises at some time.
ListRows == IF Regular THEN Visible(collection) ELSE <<>>
ListResults == IF Regular THEN results ELSE <<>>
ListEnded ==
  CASE pc = "raised" -> "raised"
    [] pc = "ended"  -> IF Regular THEN "end" ELSE "raised"
    [] OTHER         -> "no"

List == INSTANCE Listing WITH
  rows <- ListRows, results <- ListResults, ended <- ListEnded

\* The paginators make pages disappear: each implements Listing wherever the
\* collection stays as it is and is served whole.
ImplementsListing == List!Spec

(* Liveness.                                                               *)

\* A caller that keeps iterating comes to an end, even with an endpoint that
\* never runs out of rows.
IterationEnds == <>(pc \in {"ended", "raised"})

-----------------------------------------------------------------------------
(* What the documentation says, and the code does not do.                  *)

\* to_list: "Collect up to max_items results".
ToListLimit == Len(results) <= max_items

=============================================================================
