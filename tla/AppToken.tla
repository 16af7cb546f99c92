------------------------------ MODULE AppToken ------------------------------
(* The installation token of the GitHub App (internal/ghapp): it is shared by   *)
(* all GitHub calls of a process, behind a mutex that a caller also holds while *)
(* it asks GitHub for a new one.                                                *)
EXTENDS Integers

CONSTANTS
    Callers,    \* goroutines that call GitHub, again and again
    Lifetime,   \* ticks: how long a token is good for
    Margin,     \* ticks: a token is not handed out this long before its end
    Free,       \* no caller: the mutex is free
    NoToken,    \* no time
    MaxClock    \* bound: the last tick of the clock

ASSUME TokenAssumption ==
    /\ Free \notin Callers
    /\ NoToken \notin Int
    /\ Margin \in Nat /\ Lifetime \in Nat /\ MaxClock \in Nat
    /\ Margin < Lifetime

VARIABLES
    clock,
    mutex,    \* its holder
    expires,  \* of the cached token
    asking,   \* when GitHub issued the token that is under way, NoToken if none is
    phase,    \* of each caller
    bearer,   \* of each caller: the end of the token it has got
    since     \* of each caller: when it got it

tokenVars == <<clock, mutex, expires, asking, phase, bearer, since>>

Clock == 0 .. MaxClock
Expiries == 0 .. MaxClock + Lifetime

TokenTypeOK ==
    /\ clock \in Clock
    /\ mutex \in Callers \cup {Free}
    /\ expires \in Expiries \cup {NoToken}
    /\ asking \in Clock \cup {NoToken}
    /\ phase \in [Callers -> {"idle", "waiting", "holding", "minting", "sending", "refused"}]
    /\ bearer \in [Callers -> Expiries \cup {NoToken}]
    /\ since \in [Callers -> Clock]
    /\ \A c \in Callers : mutex = c <=> phase[c] \in {"holding", "minting"}
    /\ asking # NoToken <=> \E c \in Callers : phase[c] = "minting"

TokenInit ==
    /\ clock = 0
    /\ mutex = Free
    /\ expires = NoToken
    /\ asking = NoToken
    /\ phase = [c \in Callers |-> "idle"]
    /\ bearer = [c \in Callers |-> NoToken]
    /\ since = [c \in Callers |-> 0]

PhaseGoto(c, from, to) == phase[c] = from /\ phase' = [phase EXCEPT ![c] = to]

-----------------------------------------------------------------------------

\* Client.do begins.
CallGitHub(c) ==
    /\ PhaseGoto(c, "idle", "waiting")
    /\ UNCHANGED <<clock, mutex, expires, asking, bearer, since>>

LockToken(c) ==
    /\ mutex = Free
    /\ mutex' = c
    /\ PhaseGoto(c, "waiting", "holding")
    /\ UNCHANGED <<clock, expires, asking, bearer, since>>

\* Token returns a token, and unlocks.
Hand(c, from, end) ==
    /\ PhaseGoto(c, from, "sending")
    /\ mutex' = Free
    /\ bearer' = [bearer EXCEPT ![c] = end]
    /\ since' = [since EXCEPT ![c] = clock]

\* Mutant of IsFresh: a token is handed out to its last moment.
IsFreshToTheEnd == expires # NoToken /\ clock < expires

IsFresh == expires # NoToken /\ clock < expires - Margin

UseCached(c) ==
    /\ phase[c] = "holding" /\ IsFresh
    /\ Hand(c, "holding", expires)
    /\ UNCHANGED <<clock, expires, asking>>

\* The request for a token reaches GitHub.
Mint(c) ==
    /\ ~IsFresh
    /\ PhaseGoto(c, "holding", "minting")
    /\ asking' = clock
    /\ UNCHANGED <<clock, mutex, expires, bearer, since>>

\* The new token is used without another look at its end.
Minted(c) ==
    /\ phase[c] = "minting"
    /\ expires' = asking + Lifetime
    /\ asking' = NoToken
    /\ Hand(c, "minting", asking + Lifetime)
    /\ UNCHANGED clock

\* Mutant of MintFails: an error returns with the mutex locked.
MintFailsLocked(c) ==
    /\ PhaseGoto(c, "holding", "refused") \/ PhaseGoto(c, "minting", "refused")
    /\ ~IsFresh
    /\ asking' = NoToken
    /\ UNCHANGED <<clock, mutex, expires, bearer, since>>

\* The request fails, or its answer cannot be used: the cached token stays.
MintFails(c) ==
    /\ PhaseGoto(c, "holding", "refused") \/ PhaseGoto(c, "minting", "refused")
    /\ ~IsFresh
    /\ mutex' = Free
    /\ asking' = NoToken
    /\ UNCHANGED <<clock, expires, bearer, since>>

\* GitHub has read the token of the caller's request; or the call has failed.
CallReturns(c) ==
    /\ PhaseGoto(c, "sending", "idle") \/ PhaseGoto(c, "refused", "idle")
    /\ bearer' = [bearer EXCEPT ![c] = NoToken]
    /\ UNCHANGED <<clock, mutex, expires, asking, since>>

\* Assumed of the network: a request reaches GitHub within the margin, and a
\* new token comes back with more than the margin left.
TokenTick ==
    /\ clock < MaxClock
    /\ \A c \in Callers : phase[c] = "sending" => clock - since[c] < Margin
    /\ asking # NoToken => clock - asking < Lifetime - Margin - 1
    /\ clock' = clock + 1
    /\ UNCHANGED <<mutex, expires, asking, phase, bearer, since>>

TokenCall(c) == UseCached(c) \/ Mint(c) \/ Minted(c) \/ MintFails(c)

TokenNext ==
    \/ \E c \in Callers :
          CallGitHub(c) \/ LockToken(c) \/ TokenCall(c) \/ CallReturns(c)
    \/ TokenTick

TokenSpec == TokenInit /\ [][TokenNext]_tokenVars

\* Go's mutex starves no one; requests come back, which the code, whose HTTP
\* client has no timeout, leaves to the network.
TokenFairness ==
    \A c \in Callers :
        /\ SF_tokenVars(LockToken(c))
        /\ WF_tokenVars(TokenCall(c))
        /\ WF_tokenVars(CallReturns(c))

-----------------------------------------------------------------------------
(* Properties.                                                               *)

\* No request carries a token that has ended when GitHub reads it, though the
\* token is taken from a cache and others renew it meanwhile.
NeverExpired == \A c \in Callers : phase[c] = "sending" => clock < bearer[c]

\* Every call of GitHub gets a token or an error: while one caller asks for a
\* token the others wait, whatever comes of it.
TokenAnswered == \A c \in Callers : phase[c] = "waiting" ~> phase[c] \in {"sending", "refused"}
=============================================================================
