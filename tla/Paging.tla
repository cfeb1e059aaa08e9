------------------------------- MODULE Paging -------------------------------
(***************************************************************************)
(* A client that walks through GET /events or GET /events/dlq page by page *)
(* with limit and offset: MongoStore.find_events and list_dead_letters.    *)
(* Each page is a query of its own, and the total another one, while       *)
(* records are inserted and, from the dead-letter collection only,         *)
(* deleted by replays.  The order of records with equal sort keys is not   *)
(* defined, and may be another one in each query.                          *)
(*                                                                         *)
(* listing   what is listed: events or dlq                                 *)
(* limit     the limit of each call                                        *)
(* present   the records that match the filter                             *)
(* deleted   the records that have been deleted                            *)
(* first     history: the records present when the walk began              *)
(* walk      querying, counting, answered or over                          *)
(* offset    the offset of the call under way                              *)
(* page      what its query has returned                                   *)
(* more      whether it has found a document beyond the page               *)
(* total     the total it is answered with, or None                        *)
(* shown     the records on the pages so far                               *)
(* repeated  those that were on two of them                                *)
(***************************************************************************)
EXTENDS Naturals, FiniteSets, SequencesExt

CONSTANTS
    Records,
    SortKey,  \* timestamp of an event, failed_at of a dead letter
    Limits,   \* the limits a client may ask for
    None

ASSUME PagingAssumption ==
    /\ IsFiniteSet(Records)
    /\ SortKey \in [Records -> Nat]
    /\ Limits \subseteq Nat \ {0}
    /\ None \notin Nat

VARIABLES listing, limit, present, deleted, first, walk, offset, page, more, total, shown, repeated

collectionVars == <<present, deleted>>

callVars == <<page, more, total>>

walkVars == <<listing, limit, first, offset, shown, repeated>>

vars == <<collectionVars, callVars, walkVars, walk>>

Init ==
    /\ listing \in {"events", "dlq"}
    /\ limit \in Limits
    /\ present \in SUBSET Records
    /\ deleted = {}
    /\ first = present
    /\ walk = "querying" /\ offset = 0
    /\ page = {} /\ more = FALSE /\ total = None
    /\ shown = {} /\ repeated = {}

-----------------------------------------------------------------------------
Insert ==
    /\ walk # "over"
    /\ \E r \in Records \ (present \cup deleted) : present' = present \cup {r}
    /\ UNCHANGED <<deleted, callVars, walkVars, walk>>

\* delete_dead_letter.  An event is never deleted.
Delete ==
    /\ listing = "dlq" /\ walk # "over"
    /\ \E r \in present :
          /\ present' = present \ {r}
          /\ deleted' = deleted \cup {r}
    /\ UNCHANGED <<callVars, walkVars, walk>>

\* Faulty variant: no sort.
AnyOrder == SetToSeqs(present)

\* The orders that sort(key, -1) may put the records in.
NewestFirst ==
    {order \in SetToSeqs(present) :
        \A i, j \in DOMAIN order : i < j => SortKey[order[i]] >= SortKey[order[j]]}

\* skip(offset).limit(n)
Slice(order, n) == {order[i] : i \in DOMAIN order \cap (offset + 1 .. offset + n)}

\* Faulty variant: no document is fetched beyond the page.
FetchPageOnly(order) ==
    /\ page' = Slice(order, limit)
    /\ more' = FALSE

\* Faulty variant: the document fetched beyond the page is returned as well.
FetchUncut(order) ==
    /\ page' = Slice(order, limit + 1)
    /\ more' = (listing = "events" /\ Cardinality(page') > limit)

Fetch(order) ==
    /\ page' = Slice(order, limit)
    /\ more' = (listing = "events" /\ Slice(order, limit + 1) # page')

Query ==
    /\ walk = "querying"
    /\ walk' = "counting"
    /\ \E order \in NewestFirst : Fetch(order)
    /\ UNCHANGED <<collectionVars, total, walkVars>>

\* Faulty variant: the total of an earlier moment.
TotalBefore == Cardinality(first)

\* count_documents, after the page.
Total == Cardinality(present)

\* The call returns.  Only a listing of events may do without the total.
Count ==
    /\ walk = "counting"
    /\ walk' = "answered"
    /\ total' = Total \/ (listing = "events" /\ total' = None)
    /\ shown' = shown \cup page
    /\ repeated' = repeated \cup (shown \cap page)
    /\ UNCHANGED <<collectionVars, page, more, listing, limit, first, offset>>

\* Either query raises: the answer is a 503, and the client asks again.
CallFails ==
    /\ walk = "counting"
    /\ walk' = "querying"
    /\ page' = {} /\ more' = FALSE
    /\ UNCHANGED <<collectionVars, total, walkVars>>

\* What tells a client that there is another page.
GoesOn == more \/ (listing = "dlq" /\ total > offset + limit)

NextPage ==
    /\ walk = "answered"
    /\ IF GoesOn
       THEN walk' = "querying" /\ offset' = offset + limit
       ELSE walk' = "over" /\ UNCHANGED offset
    /\ page' = {} /\ more' = FALSE /\ total' = None
    /\ UNCHANGED <<collectionVars, listing, limit, first, shown, repeated>>

Over == walk = "over" /\ UNCHANGED vars

Next ==
    \/ Insert \/ Delete
    \/ Query \/ Count \/ CallFails \/ NextPage
    \/ Over

Spec == Init /\ [][Next]_vars

-----------------------------------------------------------------------------
(* Properties. *)

\* The records whose place in the order is defined.
Untied == {r \in Records : \A s \in Records \ {r} : SortKey[s] # SortKey[r]}

Inserted == (present \cup deleted) \ first

\* Inserts never hide an event from a walk: they push the events that are still
\* to come to later pages, and has_more tells of each of them.  Only events of
\* one timestamp may change places between two pages and be missed.
EventsWalkComplete ==
    listing = "events" /\ walk = "over" => first \cap Untied \subseteq shown

\* A replay that deletes a record hides at most one other from a walk through
\* the dead letters: the one that moves up over the edge of the page.
DeletesHideFew ==
    listing = "dlq" /\ walk = "over" =>
        Cardinality((first \cap present \cap Untied) \ shown) <= Cardinality(deleted)

\* A record is on two pages only because another was inserted before it: one
\* for each insert, at the edge of the page.
RepeatsAreInserts == Cardinality(repeated \cap Untied) <= Cardinality(Inserted)

\* The total and has_more of an answer agree, although they come from two
\* queries: the total counts the events of this page, those before it and, if
\* there is more, one beyond.
TotalCoversPage ==
    listing = "events" /\ walk = "answered" /\ total # None /\ page # {} =>
        total >= offset + Cardinality(page) + (IF more THEN 1 ELSE 0)

=============================================================================
