----------------------------- MODULE GitHubPages -----------------------------
(* The listings of the GitHub client (internal/ghclient): runs by status, the   *)
(* jobs of a run and the runners, page by page and by number, while GitHub's     *)
(* lists change between two pages.                                               *)
EXTENDS Integers, Sequences, FiniteSets, Functions

CONSTANTS
    Items,     \* runs, or jobs of a run, or runners
    PerPage,   \* 100
    Preamble   \* the items GitHub has at first, in the order they came

ASSUME PagesAssumption ==
    /\ PerPage \in Nat \ {0}
    /\ Preamble \in Seq(Items) /\ IsInjective(Preamble)

VARIABLES
    arrived,  \* of each item: its number in the order they came, 0 before
    state,    \* of each item
    kind,     \* what is listed: "none" before, "runs" or "all" of a kind
    pass,     \* the status being asked for
    number,   \* the page to ask for next
    outcome,  \* of the listing: "none" while it goes on
    found,    \* how often each item is in its result, 2 for more than once
    blurred,  \* history: items whose place another one's leaving has moved
    absent    \* history: items that were not active throughout

pagesVars == <<arrived, state, kind, pass, number, outcome, found, blurred, absent>>

ItemStates == {"none", "queued", "in_progress", "completed"}
ActiveStates == {"queued", "in_progress"}

There == {i \in Items : state[i] # "none"}

PagesTypeOK ==
    /\ state \in [Items -> ItemStates]
    /\ arrived \in [Items -> Nat]
    /\ \A i \in Items : state[i] = "none" <=> arrived[i] = 0
    /\ \A i \in There : arrived[i] <= Cardinality(There)
    /\ \A i, k \in There : arrived[i] = arrived[k] => i = k
    /\ kind \in {"none", "runs", "all"}
    /\ pass \in 1 .. 2 /\ number \in 1 .. Cardinality(There) + 1
    /\ outcome \in {"none", "listed", "failed"}
    /\ found \in [Items -> 0 .. 2]
    /\ blurred \subseteq Items /\ absent \subseteq Items

PagesInit ==
    /\ arrived = [i \in Items |-> IF i \in Range(Preamble)
                                  THEN CHOOSE n \in DOMAIN Preamble : Preamble[n] = i ELSE 0]
    /\ state = [i \in Items |-> IF i \in Range(Preamble) THEN "queued" ELSE "none"]
    /\ kind = "none"
    /\ pass = 1 /\ number = 1
    /\ outcome = "none"
    /\ found = [i \in Items |-> 0]
    /\ blurred = {} /\ absent = {}

\* Mutant of Passes: the statuses in the opposite order.
PassesBackwards == IF kind = "runs" THEN <<{"in_progress"}, {"queued"}>> ELSE <<ActiveStates>>

\* The reconciler asks for queued and then for running runs; jobs and runners
\* come in one list.
Passes == IF kind = "runs" THEN <<{"queued"}, {"in_progress"}>> ELSE <<ActiveStates>>

Listed == {i \in Items : state[i] \in Passes[pass]}

\* GitHub lists the newest first.
Place(i) == Cardinality({k \in Listed : arrived[k] >= arrived[i]})

UnderWay == kind # "none" /\ outcome = "none"

-----------------------------------------------------------------------------
(* GitHub.                                                                   *)

Come(i) ==
    /\ kind # "none" /\ state[i] = "none"
    /\ arrived' = [arrived EXCEPT ![i] = Cardinality(There) + 1]
    /\ state' = [state EXCEPT ![i] = "queued"]
    /\ absent' = absent \cup {i}
    /\ UNCHANGED <<kind, pass, number, outcome, found, blurred>>

\* A queued run begins, an active one ends; a runner goes away.  What comes
\* after it in the list being read moves up by one.
Advance(i) ==
    /\ kind # "none"
    /\ \/ state[i] = "queued" /\ state' = [state EXCEPT ![i] = "in_progress"] /\ absent' = absent
       \/ /\ state[i] \in ActiveStates
          /\ state' = [state EXCEPT ![i] = "completed"]
          /\ absent' = absent \cup {i}
    /\ blurred' = IF UnderWay /\ i \in Listed /\ state'[i] \notin Passes[pass]
                  THEN blurred \cup {k \in Listed : arrived[k] < arrived[i]} ELSE blurred
    /\ UNCHANGED <<arrived, kind, pass, number, outcome, found>>

-----------------------------------------------------------------------------
(* The client.                                                               *)

BeginListing ==
    /\ kind = "none"
    /\ \E k \in {"runs", "all"} : kind' = k
    /\ UNCHANGED <<arrived, state, pass, number, outcome, found, blurred, absent>>

PageOf(n) == {i \in Listed : Place(i) > (n - 1) * PerPage /\ Place(i) <= n * PerPage}

\* Mutant of Continue: only an empty page is the last.
ContinueUntilEmpty(page) ==
    IF page # {} THEN number' = number + 1 /\ UNCHANGED <<pass, outcome>>
    ELSE IF pass + 1 \in DOMAIN Passes THEN pass' = pass + 1 /\ number' = 1 /\ UNCHANGED outcome
    ELSE outcome' = "listed" /\ UNCHANGED <<pass, number>>

\* A page that is not full is the last of its status.
Continue(page) ==
    IF Cardinality(page) = PerPage THEN number' = number + 1 /\ UNCHANGED <<pass, outcome>>
    ELSE IF pass + 1 \in DOMAIN Passes THEN pass' = pass + 1 /\ number' = 1 /\ UNCHANGED outcome
    ELSE outcome' = "listed" /\ UNCHANGED <<pass, number>>

\* ListRuns leaves out what it has seen before.
ListRuns ==
    /\ kind = "runs" /\ outcome = "none"
    /\ found' = [i \in Items |-> IF i \in PageOf(number) /\ found[i] = 0 THEN 1 ELSE found[i]]
    /\ Continue(PageOf(number))
    /\ UNCHANGED <<arrived, state, kind, blurred, absent>>

\* ListRunJobs and ListRunners do not.
ListAll ==
    /\ kind = "all" /\ outcome = "none"
    /\ found' = [i \in Items |-> IF i \in PageOf(number) /\ found[i] < 2 THEN found[i] + 1
                                 ELSE found[i]]
    /\ Continue(PageOf(number))
    /\ UNCHANGED <<arrived, state, kind, blurred, absent>>

\* An answer other than 2xx, or one that cannot be decoded: nothing is returned.
ListingFails ==
    /\ UnderWay
    /\ outcome' = "failed"
    /\ found' = [i \in Items |-> 0]
    /\ UNCHANGED <<arrived, state, kind, pass, number, blurred, absent>>

PagesNext ==
    \/ \E i \in Items : Come(i) \/ Advance(i)
    \/ BeginListing \/ ListRuns \/ ListAll \/ ListingFails

PagesSpec == PagesInit /\ [][PagesNext]_pagesVars

-----------------------------------------------------------------------------
(* Properties.                                                               *)

\* A run, job or runner that is there from the first page to the last is
\* returned, though others come, and though it begins to run in between; unless
\* another one has left the list that was being read.  A run is returned once.
ListedAll ==
    /\ outcome = "listed" =>
         \A i \in Items \ (blurred \cup absent) :
             state[i] \in ActiveStates => found[i] > 0
    /\ kind = "runs" => \A i \in Items : found[i] <= 1

\* A list is read on only after pages that others have filled, though it shrinks
\* and grows meanwhile: the pages before the next one hold no more items than
\* have come, so that a listing costs no more requests than that.
PagesBounded == (number - 1) * PerPage <= Cardinality(There)
=============================================================================
