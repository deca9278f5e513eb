------------------------------ MODULE AlertListing ------------------------------
(***************************************************************************)
(* Reading the alerts page by page, while cycles store more of them and    *)
(* analysts change their status. A page is a request of its own: the       *)
(* newest rows of a status are fetched, filtered by everything else, and   *)
(* cut at an offset. The client asks for the next page until it has passed *)
(* the total of the last answer.                                           *)
(***************************************************************************)
EXTENDS Naturals, FiniteSets

CONSTANTS
    LastAlert,      \* bound: alerts, numbered by created_at
    Matching,       \* those with the level, the user and the time asked for
    RowLimit,       \* rows fetched: 10000
    PageSize,       \* limit
    MaxChanges      \* bound: changes of a status

ASSUME AlertListingAssumption ==
    /\ {LastAlert, RowLimit, MaxChanges} \subseteq Nat
    /\ PageSize \in Nat \ {0}
    /\ Matching \subseteq 1 .. LastAlert

VARIABLES
    rows,           \* the alerts in the table
    closed,         \* those whose status is not the one asked for
    changes,
    offset, received,   \* what the client has asked for and received
    finished,       \* it has passed the total
    stayed,         \* history: shown since the first page
    departures      \* history: how often an alert ceased to be shown since then

listingVars == <<rows, closed, changes, offset, received, finished, stayed, departures>>

-----------------------------------------------------------------------------

\* The newest come first.
Rank(alerts, a) == Cardinality({b \in alerts : b > a})

NewestRows(alerts, n) == {a \in alerts : Rank(alerts, a) < n}

\* list_alerts: the status is in the query, and so before the limit.
Listed == NewestRows(rows \ closed, RowLimit)

\* What the other parameters leave of it.
Shown == Listed \intersect Matching

Slice(alerts, from, n) == {a \in alerts : from <= Rank(alerts, a) /\ Rank(alerts, a) < from + n}

\* Mutant: the offset and the limit are in the query, before the filters.
PageOfRows(from) == Slice(Listed, from, PageSize) \intersect Matching

Page(from) == Slice(Shown, from, PageSize)

-----------------------------------------------------------------------------

\* get_alerts_list: the first page, or the one after the last.
ReadPage ==
    /\ ~finished
    /\ received' = received \union Page(offset)
    /\ offset' = offset + PageSize
    /\ finished' = (offset' >= Cardinality(Shown))
    /\ stayed' = IF offset = 0 THEN Shown ELSE stayed
    /\ UNCHANGED <<rows, closed, changes, departures>>

\* History, of what an open reading sees of a change.
Watched ==
    /\ IF offset > 0 /\ ~finished
       THEN /\ stayed' = stayed \intersect Shown'
            /\ departures' = departures + Cardinality(Shown \ Shown')
       ELSE UNCHANGED <<stayed, departures>>
    /\ UNCHANGED <<offset, received, finished>>

\* A cycle stores an alert; overlapping cycles do so out of order.
StoreAlert(a) ==
    /\ a \notin rows
    /\ rows' = rows \union {a}
    /\ UNCHANGED <<closed, changes>>
    /\ Watched

\* update_status, to the status asked for or to another.
UpdateStatus(a) ==
    /\ changes < MaxChanges
    /\ a \in rows
    /\ closed' = IF a \in closed THEN closed \ {a} ELSE closed \union {a}
    /\ changes' = changes + 1
    /\ UNCHANGED rows
    /\ Watched

ListingInit ==
    /\ rows = {}
    /\ closed = {}
    /\ changes = 0
    /\ offset = 0
    /\ received = {}
    /\ finished = FALSE
    /\ stayed = {}
    /\ departures = 0

ListingNext ==
    \/ ReadPage
    \/ \E a \in 1 .. LastAlert : StoreAlert(a) \/ UpdateStatus(a)

ListingSpec == ListingInit /\ [][ListingNext]_listingVars

-----------------------------------------------------------------------------
(* Properties *)

\* Of the alerts that were to be shown all along, a reader who has passed them
\* has missed at most one for every alert that ceased to be: new alerts, in any
\* order, reopened ones and the row limit make it see some twice, and none less.
PagesMissNothing ==
    LET passed == IF finished THEN stayed
                  ELSE stayed \intersect Slice(Shown, 0, offset)
    IN  Cardinality(passed \ received) <= departures

=============================================================================
