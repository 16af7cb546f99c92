------------------------------ MODULE RetryDelay ------------------------------
(* How long the dispatches of one job wait between attempts (backoff.go and     *)
(* retry.go of internal/dispatch), under a Lease that nobody renews.  Times are *)
(* in milliseconds.                                                             *)
EXTENDS Integers, Sequences, FiniteSetsExt

CONSTANTS
    MaxAttempts, \* 3
    Initial,     \* ten seconds
    MaxBackoff,  \* five minutes
    Jitters,     \* percent of a delay, 80 to 120
    RetryAfters, \* of an error: the delay that GitHub asks for, 0 for none
    Lease,       \* two minutes
    MaxCalls     \* bound: dispatches of the job by this process

ASSUME RetryAssumption ==
    /\ MaxAttempts \in Nat \ {0} /\ Lease \in Nat /\ MaxCalls \in Nat
    /\ Initial \in Nat \ {0} /\ MaxBackoff \in Nat /\ Initial <= MaxBackoff
    /\ Jitters \subseteq Nat /\ RetryAfters \subseteq Nat

\* The keys of the backoff, in the order of the calls.
RetryKeys == <<"jit", "secret", "job", "ownerref">>
KeyPlaces == DOMAIN RetryKeys

VARIABLES
    backoff,  \* of each key: the entry's delay, 0 without an entry
    at,       \* the place of the call that the dispatch is at, 0 between dispatches
    attempt,
    waited,   \* of this dispatch, in all
    obeyed,   \* it has waited for longer because GitHub asked for it
    dispatched, \* dispatches begun
    failing,  \* history: keys with a failure since they last worked
    worn      \* history: those of them when the dispatch began

retryVars == <<backoff, at, attempt, waited, obeyed, dispatched, failing, worn>>

RetryTypeOK ==
    /\ backoff \in [KeyPlaces -> {0} \cup Initial .. MaxBackoff]
    /\ at \in KeyPlaces \cup {0}
    /\ attempt \in 1 .. MaxAttempts
    /\ waited \in Nat
    /\ obeyed \in BOOLEAN
    /\ dispatched \in 0 .. MaxCalls
    /\ failing \subseteq KeyPlaces /\ worn \subseteq KeyPlaces

RetryInit ==
    /\ backoff = [k \in KeyPlaces |-> 0]
    /\ at = 0 /\ attempt = 1 /\ waited = 0
    /\ obeyed = FALSE
    /\ dispatched = 0
    /\ failing = {} /\ worn = {}

BeginDispatch ==
    /\ at = 0 /\ dispatched < MaxCalls
    /\ at' = 1 /\ attempt' = 1 /\ waited' = 0
    /\ obeyed' = FALSE
    /\ dispatched' = dispatched + 1
    /\ worn' = failing
    /\ UNCHANGED <<backoff, failing>>

\* The delay of an entry as it is, one and a half times as long the next time.
Delay(k) == IF backoff[k] = 0 THEN Initial ELSE backoff[k]

Grown(delay) == Min({(delay * 3) \div 2, MaxBackoff})

\* Mutant of CallWorks: the entry stays.
CallWorksKeeps ==
    /\ at # 0
    /\ UNCHANGED backoff
    /\ failing' = failing \ {at}
    /\ at' = (at + 1) % (Len(RetryKeys) + 1)
    /\ attempt' = 1
    /\ UNCHANGED <<waited, obeyed, dispatched, worn>>

\* The entry goes; the dispatch goes on to its next call, or ends.
CallWorks ==
    /\ at # 0
    /\ backoff' = [backoff EXCEPT ![at] = 0]
    /\ failing' = failing \ {at}
    /\ at' = (at + 1) % (Len(RetryKeys) + 1)
    /\ attempt' = 1
    /\ UNCHANGED <<waited, obeyed, dispatched, worn>>

\* A Retry-After counts if it is the longer one.
CallFails ==
    /\ at # 0 /\ attempt < MaxAttempts
    /\ \E jitter \in Jitters, asked \in RetryAfters :
          LET delay == (Delay(at) * jitter) \div 100
          IN  /\ waited' = waited + Max({delay, asked})
              /\ obeyed' = (obeyed \/ asked > delay)
    /\ backoff' = [backoff EXCEPT ![at] = Grown(Delay(at))]
    /\ failing' = failing \cup {at}
    /\ attempt' = attempt + 1
    /\ UNCHANGED <<at, dispatched, worn>>

\* The last attempt fails, and the dispatch: entries stay for the next one.
\* The owner's patch is given up, too, but the dispatch has done its work.
DispatchFails ==
    /\ at # 0 /\ attempt = MaxAttempts
    /\ at' = 0
    /\ attempt' = 1
    /\ failing' = failing \cup {at}
    /\ UNCHANGED <<backoff, waited, obeyed, dispatched, worn>>

RetryNext == BeginDispatch \/ CallWorks \/ CallFails \/ DispatchFails

RetrySpec == RetryInit /\ [][RetryNext]_retryVars

-----------------------------------------------------------------------------
(* Properties.                                                               *)

\* A dispatch that finds no failure left over from another one, and that
\* GitHub does not ask to wait, has spent at most a quarter of the Lease for
\* each of its four calls so far on waiting: it can overrun the Lease only by
\* the time the calls take themselves.
WaitsFitLease ==
    worn = {} /\ ~obeyed /\ at # 0 => waited * Len(RetryKeys) <= Lease * at
=============================================================================
