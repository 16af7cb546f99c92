------------------------------ MODULE JobStore ------------------------------
(* The rows of the SQLite store (internal/store/sqlite) while jobs are recorded, *)
(* the leader prunes, and a client of the HTTP API (internal/api) pages through  *)
(* the list of jobs.  Times are stored, compared and used as cursors as text.    *)
EXTENDS Integers, FiniteSets, FiniteSetsExt

CONSTANTS
    StoredJobs,
    Second,      \* ticks of the clock in a second
    Retention,   \* ticks: JOB_STORE_RETENTION_DAYS
    Recorded,    \* the statuses written, other than queued
    Filters,     \* the sets of statuses a client may ask for: all, or one
    Requested,   \* page sizes a client may ask for
    DefaultPage, \* 50
    MaxPage,     \* 200
    MaxNow,      \* bound: the last tick of the clock
    MaxWrites    \* bound: writes of a row

VARIABLES
    now,
    writes,  \* writes of a row so far
    rows,    \* the rows of the jobs that have one
    listing, \* the client: "idle", "paging" or "done"
    filter,  \* the statuses it asks for
    cursor,  \* next_cursor of the last page, NoTime before the first
    shown,   \* how often each job was on its pages, 2 for more than once
    changed  \* history: jobs written since it began, or at one instant with another

storeVars == <<now, writes, rows, listing, filter, cursor, shown, changed>>

NoTime == -1
Times == 0 .. MaxNow

Active == {"queued", "dispatching", "dispatched", "scheduled", "running"}
Ended == {"succeeded", "failed"}
RowStatuses == Active \cup Ended \cup {"dispatch_error"}

ASSUME StoreAssumption ==
    /\ Second \in Nat \ {0} /\ Retention \in Nat /\ MaxNow \in Nat /\ MaxWrites \in Nat
    /\ Recorded \subseteq RowStatuses \ {"queued"}
    /\ Filters \subseteq SUBSET RowStatuses
    /\ DefaultPage \in Nat \ {0} /\ MaxPage \in Nat /\ Requested \subseteq Int

Rows == [status : RowStatuses, updated : Times, completed : Times \cup {NoTime}]

StoreTypeOK ==
    /\ now \in Times /\ writes \in 0 .. MaxWrites
    /\ DOMAIN rows \subseteq StoredJobs
    /\ \A j \in DOMAIN rows :
          /\ rows[j] \in Rows /\ rows[j].updated <= now /\ rows[j].completed <= now
          /\ rows[j].status \in Ended => rows[j].completed = rows[j].updated
    /\ listing \in {"idle", "paging", "done"}
    /\ filter \subseteq RowStatuses
    /\ cursor \in Times \cup {NoTime}
    /\ shown \in [StoredJobs -> 0 .. 2]
    /\ changed \subseteq StoredJobs

StoreInit ==
    /\ now = 0 /\ writes = 0
    /\ rows = [j \in {} |-> 0]
    /\ listing = "idle"
    /\ filter = {}
    /\ cursor = NoTime
    /\ shown = [j \in StoredJobs |-> 0]
    /\ changed = {}

\* RFC3339Nano drops the zeros at the end of a fraction, and "Z" comes after
\* "." in the text: a whole second after all other instants of that second.
Text(t) == (t \div Second) * Second + (((t % Second) + Second - 1) % Second)

Before(t, u) == Text(t) < Text(u)

\* A write of j's row.
Touch(j) ==
    /\ writes < MaxWrites
    /\ writes' = writes + 1
    /\ changed' = IF listing = "idle" THEN changed
                  ELSE changed \cup {j} \cup {k \in DOMAIN rows : rows[k].updated = now}

-----------------------------------------------------------------------------
(* Recording.                                                                *)

\* UpsertQueued: a row that is there keeps its other columns.
UpsertQueued(j) ==
    /\ rows' = [k \in DOMAIN rows \cup {j} |->
                  IF k # j THEN rows[k]
                  ELSE [status |-> "queued", updated |-> now,
                        completed |-> IF j \in DOMAIN rows THEN rows[j].completed ELSE NoTime]]
    /\ Touch(j)
    /\ UNCHANGED <<now, listing, filter, cursor, shown>>

\* MarkDispatching, MarkJobCreated, MarkScheduled, MarkRunning, MarkDispatchError.
Mark(j, status) ==
    /\ j \in DOMAIN rows
    /\ status \notin Ended \cup {"queued"}
    /\ rows' = [rows EXCEPT ![j].status = status, ![j].updated = now]
    /\ Touch(j)
    /\ UNCHANGED <<now, listing, filter, cursor, shown>>

MarkCompleted(j, status) ==
    /\ j \in DOMAIN rows
    /\ status \in Ended
    /\ rows' = [rows EXCEPT ![j].status = status, ![j].updated = now, ![j].completed = now]
    /\ Touch(j)
    /\ UNCHANGED <<now, listing, filter, cursor, shown>>

\* The condition of DELETE.
Outdated(row, limit) ==
    \/ row.completed # NoTime /\ Before(row.completed, limit)
    \/ row.status \in Ended \cup {"dispatch_error"} /\ Before(row.updated, limit)

\* Mutant of Cutoff: the days are added.
CutoffAhead == now + Retention

Cutoff == now - Retention

\* runJobStorePrune.
Prune ==
    /\ now >= Retention
    /\ LET kept == {j \in DOMAIN rows : ~Outdated(rows[j], Cutoff)}
       IN  /\ kept # DOMAIN rows
           /\ rows' = [j \in kept |-> rows[j]]
           /\ changed' = IF listing = "idle" THEN changed
                         ELSE changed \cup (DOMAIN rows \ kept)
    /\ UNCHANGED <<now, writes, listing, filter, cursor, shown>>

StoreTick ==
    /\ now < MaxNow
    /\ now' = now + 1
    /\ UNCHANGED <<writes, rows, listing, filter, cursor, shown, changed>>

-----------------------------------------------------------------------------
(* Listing.                                                                  *)

BeginList ==
    /\ listing = "idle"
    /\ listing' = "paging"
    /\ \E s \in Filters : filter' = s
    /\ changed' = {j \in DOMAIN rows :
                     \E k \in DOMAIN rows \ {j} : rows[k].updated = rows[j].updated}
    /\ UNCHANGED <<now, writes, rows, cursor, shown>>

\* Mutant of Wanted: the cursor's own row is wanted again.
WantedAgain(j, from) ==
    /\ rows[j].status \in filter
    /\ from # NoTime => ~Before(from, rows[j].updated)

\* The condition of SELECT.
Wanted(j, from) ==
    /\ rows[j].status \in filter
    /\ from # NoTime => Before(rows[j].updated, from)

PageLimit(limit) == IF limit <= 0 \/ limit > MaxPage THEN DefaultPage ELSE limit

\* Mutant of NextCursor: the cursor is the row beyond the page.
CursorBeyond(page, left) ==
    CHOOSE t \in {rows[j].updated : j \in left} : \A j \in left : ~Before(t, rows[j].updated)

\* The last row of a page, in the order of the text.
NextCursor(page, left) ==
    CHOOSE t \in {rows[j].updated : j \in page} : \A j \in page : ~Before(rows[j].updated, t)

\* GET /jobs: one row more than the page tells whether there is another page.
\* Rows of one instant come in any order.
ListJobs ==
    /\ listing = "paging"
    /\ \E limit \in Requested :
          LET found == {j \in DOMAIN rows : Wanted(j, cursor)}
          IN  \E page \in SUBSET found :
                /\ Cardinality(page) = Min({Cardinality(found), PageLimit(limit)})
                /\ \A j \in page, k \in found \ page : ~Before(rows[j].updated, rows[k].updated)
                /\ shown' = [j \in StoredJobs |->
                              IF j \in page THEN Min({2, shown[j] + 1}) ELSE shown[j]]
                /\ \/ page = found /\ listing' = "done" /\ cursor' = cursor
                   \/ /\ page # found
                      /\ listing' = "paging"
                      /\ cursor' = NextCursor(page, found \ page)
    /\ UNCHANGED <<now, writes, rows, filter, changed>>

StoreNext ==
    \/ \E j \in StoredJobs :
          UpsertQueued(j) \/ \E s \in Recorded : Mark(j, s) \/ MarkCompleted(j, s)
    \/ Prune \/ StoreTick \/ BeginList \/ ListJobs

StoreSpec == StoreInit /\ [][StoreNext]_storeVars

\* The client asks for the next page until there is none.
StoreFairness == WF_storeVars(ListJobs)

-----------------------------------------------------------------------------
(* Properties.                                                               *)

\* A job that is not written while a client pages, and has an instant of its
\* own, is on exactly one page: other rows come, change and are pruned between
\* the pages.
ListedOnce ==
    listing = "done" =>
        \A j \in DOMAIN rows \ changed : shown[j] = (IF rows[j].status \in filter THEN 1 ELSE 0)

\* A row is deleted only if its job has ended, or failed to be dispatched, more
\* than the retention ago, give or take the second that texts may confuse:
\* a job that runs for longer than the retention keeps its row.
PruneRight ==
    [][\A j \in DOMAIN rows \ DOMAIN rows' :
          \/ rows[j].completed # NoTime /\ rows[j].completed < now - Retention + Second
          \/ rows[j].status = "dispatch_error" /\ rows[j].updated < now - Retention + Second]_storeVars

\* The client comes to the last page, though jobs are recorded all the time.
ListingEnds == listing = "paging" ~> listing = "done"
=============================================================================
