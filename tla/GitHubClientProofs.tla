-------------------------- MODULE GitHubClientProofs --------------------------
(* The GitHub client: no request carries a token that has ended, for any        *)
(* callers, lifetime and margin; and a paged listing returns what is there all   *)
(* the time, for any items, lists and page sizes.                                *)
EXTENDS AppToken, GitHubPages, FiniteSetTheorems, WellFoundedInduction, TLAPS

\* A token in use was handed out with more than the margin left, no longer than
\* the margin ago; a token under way still has more than the margin.
InTime ==
    /\ \A c \in Callers : phase[c] = "sending" =>
          /\ bearer[c] # NoToken
          /\ since[c] < bearer[c] - Margin
          /\ since[c] <= clock /\ clock <= since[c] + Margin
    /\ asking # NoToken => asking <= clock /\ clock < asking + Lifetime - Margin

TokenIInv == TokenTypeOK /\ InTime

\* More than the margin is left of a token.
Lasts(end) == end \in Expiries /\ clock < end - Margin

\* What TokenTypeOK says of one caller.
LEMMA OneMinter ==
    ASSUME TokenTypeOK, NEW c \in Callers, phase[c] \in {"holding", "minting"}
    PROVE  /\ mutex = c
           /\ \A d \in Callers \ {c} : phase[d] \notin {"holding", "minting"}
           /\ asking # NoToken <=> phase[c] = "minting"
  BY DEF TokenTypeOK

\* At first there is no token.
LEMMA TokenStarts == TokenInit => TokenIInv
  BY TokenAssumption DEF TokenInit, TokenIInv, TokenTypeOK, InTime, Clock, Expiries

\* A caller begins, takes the mutex, or is done with its request.
LEMMA CallKeepsTokens ==
    ASSUME TokenIInv, NEW c \in Callers, CallGitHub(c) \/ LockToken(c) \/ CallReturns(c)
    PROVE  TokenIInv'
  <1>1. CASE CallGitHub(c)
    BY <1>1 DEF CallGitHub, PhaseGoto, TokenIInv, TokenTypeOK, InTime, Clock, Expiries
  <1>2. CASE LockToken(c)
    <2>1. TokenTypeOK'
      BY <1>2, TokenAssumption DEF LockToken, PhaseGoto, TokenIInv, TokenTypeOK, Clock, Expiries
    <2>2. InTime'
      BY <1>2 DEF LockToken, PhaseGoto, TokenIInv, TokenTypeOK, InTime
    <2>3. QED
      BY <2>1, <2>2 DEF TokenIInv
  <1>3. CASE CallReturns(c)
    BY <1>3 DEF CallReturns, PhaseGoto, TokenIInv, TokenTypeOK, InTime, Clock, Expiries
  <1>4. QED
    BY <1>1, <1>2, <1>3

\* A token is handed out, from the cache or fresh.
LEMMA HandKeepsTokens ==
    ASSUME TokenIInv, NEW c \in Callers, NEW from \in {"holding", "minting"},
           NEW end, Lasts(end), Hand(c, from, end),
           asking' = NoToken, expires' = end, clock' = clock
    PROVE  TokenIInv'
  <1>1. TokenTypeOK'
    BY OneMinter, TokenAssumption
    DEF Lasts, Hand, PhaseGoto, TokenIInv, TokenTypeOK, Clock, Expiries
  <1>2. end # NoToken /\ end \in Int /\ clock \in Int /\ Margin \in Nat
    BY TokenAssumption DEF Lasts, Expiries, TokenIInv, TokenTypeOK, Clock
  <1>3. ASSUME NEW d \in Callers, phase'[d] = "sending"
        PROVE  /\ bearer'[d] # NoToken
               /\ since'[d] < bearer'[d] - Margin
               /\ since'[d] <= clock' /\ clock' <= since'[d] + Margin
    <2>1. CASE d = c
      BY <2>1, <1>2 DEF Lasts, Hand, TokenIInv, TokenTypeOK
    <2>2. CASE d # c
      BY <2>2, <1>3 DEF Hand, PhaseGoto, TokenIInv, TokenTypeOK, InTime
    <2>3. QED
      BY <2>1, <2>2
  <1>4. QED
    BY <1>1, <1>3 DEF TokenIInv, InTime

\* What Token does under the mutex.
LEMMA TokenCallKeepsTokens ==
    ASSUME TokenIInv, NEW c \in Callers, TokenCall(c)
    PROVE  TokenIInv'
  <1>1. CASE UseCached(c)
    <2>1. Lasts(expires) /\ asking = NoToken
      BY <1>1, OneMinter DEF UseCached, IsFresh, Lasts, TokenIInv, TokenTypeOK
    <2>2. QED
      BY <1>1, <2>1, HandKeepsTokens DEF UseCached
  <1>2. CASE Mint(c)
    <2>1. TokenTypeOK'
      BY <1>2, OneMinter, TokenAssumption
      DEF Mint, PhaseGoto, TokenIInv, TokenTypeOK, Clock, Expiries
    <2>2. clock < clock + Lifetime - Margin
      BY TokenAssumption DEF TokenIInv, TokenTypeOK, Clock
    <2>3. InTime'
      BY <1>2, <2>2 DEF Mint, PhaseGoto, TokenIInv, TokenTypeOK, InTime, Clock
    <2>4. QED
      BY <2>1, <2>3 DEF TokenIInv
  <1>3. CASE Minted(c)
    <2>1. asking # NoToken
      BY <1>3, OneMinter DEF Minted, TokenIInv
    <2>2. Lasts(asking + Lifetime)
      BY <2>1, TokenAssumption DEF Lasts, TokenIInv, TokenTypeOK, InTime, Clock, Expiries
    <2>3. /\ Hand(c, "minting", asking + Lifetime)
          /\ asking' = NoToken /\ expires' = asking + Lifetime /\ clock' = clock
      BY <1>3 DEF Minted
    <2>4. QED
      BY <2>2, <2>3, HandKeepsTokens
  <1>4. CASE MintFails(c)
    <2>1. phase[c] \in {"holding", "minting"} /\ phase' = [phase EXCEPT ![c] = "refused"]
      BY <1>4 DEF MintFails, PhaseGoto
    <2>2. TokenTypeOK'
      BY <1>4, <2>1, OneMinter, TokenAssumption
      DEF MintFails, TokenIInv, TokenTypeOK, Clock, Expiries
    <2>3. InTime'
      BY <1>4, <2>1 DEF MintFails, TokenIInv, TokenTypeOK, InTime
    <2>4. QED
      BY <2>2, <2>3 DEF TokenIInv
  <1>5. QED
    BY <1>1, <1>2, <1>3, <1>4 DEF TokenCall

\* Time passes no further than is assumed of the network.
LEMMA TickKeepsTokens ==
    ASSUME TokenIInv, TokenTick
    PROVE  TokenIInv'
  <1>1. TokenTypeOK'
    BY TokenAssumption DEF TokenTick, TokenIInv, TokenTypeOK, Clock, Expiries
  <1>2. ASSUME NEW c \in Callers, phase[c] = "sending"
        PROVE  since[c] <= clock' /\ clock' <= since[c] + Margin
    BY <1>2, TokenAssumption DEF TokenTick, TokenIInv, TokenTypeOK, InTime, Clock
  <1>3. asking # NoToken => asking <= clock' /\ clock' < asking + Lifetime - Margin
    BY TokenAssumption DEF TokenTick, TokenIInv, TokenTypeOK, InTime, Clock
  <1>4. QED
    BY <1>1, <1>2, <1>3 DEF TokenIInv, InTime, TokenTick

\* The invariant is inductive.
LEMMA TokenKept == TokenIInv /\ [TokenNext]_tokenVars => TokenIInv'
  <1> SUFFICES ASSUME TokenIInv, [TokenNext]_tokenVars
               PROVE  TokenIInv'
    OBVIOUS
  <1>1. CASE TokenTick
    BY <1>1, TickKeepsTokens
  <1>2. ASSUME NEW c \in Callers, CallGitHub(c) \/ LockToken(c) \/ CallReturns(c)
        PROVE  TokenIInv'
    BY <1>2, CallKeepsTokens
  <1>3. ASSUME NEW c \in Callers, TokenCall(c)
        PROVE  TokenIInv'
    BY <1>3, TokenCallKeepsTokens
  <1>4. CASE UNCHANGED tokenVars
    BY <1>4 DEF tokenVars, TokenIInv, TokenTypeOK, InTime, Clock, Expiries
  <1>5. QED
    BY <1>1, <1>2, <1>3, <1>4 DEF TokenNext

\* The variables keep their types, and the mutex is held by the one caller that
\* looks at the cached token or asks for a new one.
THEOREM TokenTypeCorrect == TokenSpec => []TokenTypeOK
  <1>1. TokenIInv => TokenTypeOK
    BY DEF TokenIInv
  <1>2. QED
    BY <1>1, TokenStarts, TokenKept, PTL DEF TokenSpec

\* No request carries a token that has ended when GitHub reads it, if requests
\* take no longer than the margin and new tokens come with more than that left.
THEOREM TokensNeverExpired == TokenSpec => []NeverExpired
  <1>1. TokenIInv => NeverExpired
    BY TokenAssumption
    DEF TokenIInv, TokenTypeOK, InTime, NeverExpired, Clock, Expiries
  <1>2. QED
    BY <1>1, TokenStarts, TokenKept, PTL DEF TokenSpec

-----------------------------------------------------------------------------
(* Places in a list.                                                         *)

\* A set of numbers has a least one.
Less == {pair \in Nat \X Nat : pair[1] < pair[2]}

LEMMA LeastNumber ==
    ASSUME NEW T, T \subseteq Nat, T # {}
    PROVE  \E least \in T : \A t \in T : least <= t
<1>1. IsWellFoundedOn(Less, Nat)
  BY NatLessThanWellFounded, Zenon DEF OpToRel, Less
<1>2. PICK least \in T : \A t \in T : ~(<<t, least>> \in Less)
  BY <1>1, WFMin
<1>3. ASSUME NEW t \in T PROVE least <= t
  <2>1. t \in Nat /\ least \in Nat /\ <<t, least>> \notin Less
    BY <1>2
  <2>2. ~(t < least)
    BY <2>1 DEF Less
  <2> QED
    BY <2>1, <2>2
<1> QED
  BY <1>3

\* The place in a list L of items numbered by a, the highest number first.
Ahead(L, a, i) == {k \in L : a[k] >= a[i]}
PlaceIn(L, a, i) == Cardinality(Ahead(L, a, i))
Numbered(L, a) ==
    /\ IsFiniteSet(L)
    /\ \A i \in L : a[i] \in Nat
    /\ \A i, k \in L : a[i] = a[k] => i = k

\* Places are numbers from 1 up to the length, in the order of the list.
LEMMA PlacesInOrder ==
    ASSUME NEW L, NEW a, Numbered(L, a), NEW i \in L
    PROVE  /\ IsFiniteSet(Ahead(L, a, i)) /\ PlaceIn(L, a, i) \in Nat
           /\ Cardinality(L) \in Nat
           /\ 1 <= PlaceIn(L, a, i) /\ PlaceIn(L, a, i) <= Cardinality(L)
           /\ \A k \in L : a[k] < a[i] => PlaceIn(L, a, i) < PlaceIn(L, a, k)
<1>1. /\ IsFiniteSet(L) /\ Ahead(L, a, i) \subseteq L /\ i \in Ahead(L, a, i)
      /\ Cardinality(L) \in Nat
  BY FS_CardinalityType DEF Numbered, Ahead
<1>2. /\ IsFiniteSet(Ahead(L, a, i)) /\ PlaceIn(L, a, i) \in Nat
      /\ PlaceIn(L, a, i) <= Cardinality(L)
  BY <1>1, FS_Subset, FS_CardinalityType DEF PlaceIn
<1>3. PlaceIn(L, a, i) # 0
  BY <1>1, <1>2, FS_EmptySet DEF PlaceIn
<1>4. ASSUME NEW k \in L, a[k] < a[i]
      PROVE  PlaceIn(L, a, i) < PlaceIn(L, a, k)
  <2>1. /\ Ahead(L, a, k) \subseteq L /\ k \in Ahead(L, a, k) /\ k \notin Ahead(L, a, i)
        /\ Ahead(L, a, i) \subseteq Ahead(L, a, k)
    BY <1>4 DEF Numbered, Ahead
  <2>2. IsFiniteSet(Ahead(L, a, k))
    BY <1>1, <2>1, FS_Subset
  <2>3. /\ PlaceIn(L, a, k) \in Nat /\ PlaceIn(L, a, i) <= PlaceIn(L, a, k)
        /\ PlaceIn(L, a, i) # PlaceIn(L, a, k)
    BY <2>1, <2>2, FS_Subset, FS_CardinalityType DEF PlaceIn
  <2> QED
    BY <1>2, <2>3
<1> QED
  BY <1>1, <1>2, <1>3, <1>4

\* The items at the first places.
Upto(L, a, m) == {i \in L : PlaceIn(L, a, i) <= m}

\* One more place is one more item.
LEMMA NextPlace ==
    ASSUME NEW L, NEW a, Numbered(L, a), NEW m \in Nat, m < Cardinality(L),
           Cardinality(Upto(L, a, m)) = m
    PROVE  Cardinality(Upto(L, a, m + 1)) = m + 1
<1> DEFINE S == Upto(L, a, m)
           rest == L \ S
<1>1. S \subseteq L /\ IsFiniteSet(L) /\ Cardinality(L) \in Nat
  BY FS_CardinalityType DEF Upto, Numbered
<1>2. IsFiniteSet(S) /\ rest # {}
  BY <1>1, FS_Subset
<1>3. \A i \in L : PlaceIn(L, a, i) \in Nat
  BY PlacesInOrder
<1> DEFINE T == {PlaceIn(L, a, i) : i \in rest}
<1>4. T \subseteq Nat /\ T # {}
  BY <1>2, <1>3
<1>5. PICK least \in T : \A t \in T : least <= t
  BY <1>4, LeastNumber
<1>6. PICK k \in rest : least = PlaceIn(L, a, k)
  OBVIOUS
<1>7. \A j \in rest : PlaceIn(L, a, k) <= PlaceIn(L, a, j)
  BY <1>5, <1>6
<1>8. k \in L /\ PlaceIn(L, a, k) > m
  BY <1>1, <1>3 DEF Upto
<1> HIDE DEF T
<1>9. Ahead(L, a, k) = S \cup {k}
  <2>1. ASSUME NEW j \in L, a[j] >= a[k], j # k PROVE j \in S
    <3>1. a[k] < a[j]
      BY <1>8, <2>1 DEF Numbered
    <3>2. PlaceIn(L, a, j) < PlaceIn(L, a, k)
      BY <1>8, <3>1, PlacesInOrder
    <3>3. j \notin rest
      BY <1>3, <1>7, <1>8, <3>2
    <3> QED
      BY <3>3
  <2>2. ASSUME NEW j \in S PROVE a[j] >= a[k]
    <3>1. SUFFICES ASSUME a[j] < a[k] PROVE FALSE
      BY <1>1, <1>8 DEF Numbered
    <3>2. PlaceIn(L, a, k) < PlaceIn(L, a, j)
      BY <1>1, <1>8, <3>1, PlacesInOrder
    <3>3. PlaceIn(L, a, j) <= m
      BY DEF Upto
    <3> QED
      BY <1>1, <1>3, <1>8, <3>2, <3>3
  <2> QED
    BY <1>1, <1>8, <2>1, <2>2 DEF Ahead, Numbered
<1>10. k \notin S
  OBVIOUS
<1>11. PlaceIn(L, a, k) = m + 1
  BY <1>2, <1>9, <1>10, FS_AddElement DEF PlaceIn
<1>12. Upto(L, a, m + 1) = S \cup {k}
  <2>1. ASSUME NEW j \in L, PlaceIn(L, a, j) <= m + 1, j # k PROVE j \in S
    <3>1. SUFFICES ASSUME j \in rest PROVE FALSE
      BY <2>1
    <3>2. PlaceIn(L, a, j) = PlaceIn(L, a, k)
      BY <1>3, <1>7, <1>8, <1>11, <2>1, <3>1
    <3>3. a[j] < a[k] \/ a[k] < a[j]
      BY <1>8, <2>1 DEF Numbered
    <3> QED
      BY <1>3, <1>8, <3>2, <3>3, PlacesInOrder
  <2>2. S \subseteq Upto(L, a, m + 1)
    BY <1>3 DEF Upto
  <2>3. k \in Upto(L, a, m + 1)
    BY <1>8, <1>11 DEF Upto
  <2> QED
    BY <2>1, <2>2, <2>3 DEF Upto
<1> QED
  BY <1>2, <1>10, <1>12, FS_AddElement

\* There are as many items as places.
LEMMA PlacesTaken ==
    ASSUME NEW L, NEW a, Numbered(L, a), NEW m \in Nat, m <= Cardinality(L)
    PROVE  Cardinality(Upto(L, a, m)) = m
<1> DEFINE size == Cardinality(L)
           Wrong == {n \in 0 .. size : Cardinality(Upto(L, a, n)) # n}
<1>1. size \in Nat
  BY FS_CardinalityType DEF Numbered
<1>2. SUFFICES ASSUME Wrong # {} PROVE FALSE
  BY <1>1
<1>3. PICK n \in Wrong : \A w \in Wrong : n <= w
  <2>1. Wrong \subseteq Nat
    BY <1>1
  <2> HIDE DEF Wrong
  <2> QED
    BY <1>2, <2>1, LeastNumber
<1>4. n \in Nat /\ n <= size
  BY <1>1
<1>5. CASE n = 0
  <2>1. \A i \in L : PlaceIn(L, a, i) \in Nat /\ 1 <= PlaceIn(L, a, i)
    BY PlacesInOrder
  <2>2. Upto(L, a, 0) = {}
    BY <2>1 DEF Upto
  <2> QED
    BY <1>5, <2>2, FS_EmptySet
<1>6. CASE n # 0
  <2>1. n - 1 \in Nat /\ n - 1 < size /\ n - 1 \notin Wrong /\ (n - 1) + 1 = n
    BY <1>1, <1>3, <1>4, <1>6
  <2>2. Cardinality(Upto(L, a, n - 1)) = n - 1
    BY <1>1, <2>1
  <2>3. Cardinality(Upto(L, a, (n - 1) + 1)) = (n - 1) + 1
    BY <2>1, <2>2, NextPlace
  <2> QED
    BY <2>1, <2>3
<1> QED
  BY <1>5, <1>6

\* A stretch of places that the list has.
LEMMA StretchTaken ==
    ASSUME NEW L, NEW a, Numbered(L, a), NEW m \in Nat, NEW n \in Nat, m <= n,
           n <= Cardinality(L)
    PROVE  Cardinality({i \in L : PlaceIn(L, a, i) > m /\ PlaceIn(L, a, i) <= n}) = n - m
<1> DEFINE page == {i \in L : PlaceIn(L, a, i) > m /\ PlaceIn(L, a, i) <= n}
<1>1. \A i \in L : PlaceIn(L, a, i) \in Nat
  BY PlacesInOrder
<1>2. Cardinality(L) \in Nat /\ IsFiniteSet(L)
  BY FS_CardinalityType DEF Numbered
<1>3. Cardinality(Upto(L, a, m)) = m /\ Cardinality(Upto(L, a, n)) = n
  BY <1>2, PlacesTaken
<1>4. /\ page = Upto(L, a, n) \ Upto(L, a, m)
      /\ Upto(L, a, n) \cap Upto(L, a, m) = Upto(L, a, m)
  BY <1>1 DEF Upto
<1>5. IsFiniteSet(Upto(L, a, n))
  BY <1>2, FS_Subset DEF Upto
<1>6. Cardinality(page) =
        Cardinality(Upto(L, a, n)) - Cardinality(Upto(L, a, n) \cap Upto(L, a, m))
  BY <1>4, <1>5, FS_Difference
<1> QED
  BY <1>3, <1>4, <1>6

\* An item keeps its place or moves down when nothing that is ahead leaves.
LEMMA PlaceGrows ==
    ASSUME NEW L, NEW a, Numbered(L, a), NEW M, NEW b, Numbered(M, b), NEW i \in L, i \in M,
           Ahead(L, a, i) \subseteq Ahead(M, b, i)
    PROVE  PlaceIn(L, a, i) <= PlaceIn(M, b, i)
  BY PlacesInOrder, FS_Subset DEF PlaceIn

-----------------------------------------------------------------------------
(* The listing.  An item that has been there all the time, and has not been    *)
(* moved up, has been found, or is behind the pages read, or in a list still   *)
(* to be read.                                                                 *)

Behind(i) == i \in Listed /\ Place(i) > (number - 1) * PerPage
ToCome(i) == \E q \in DOMAIN Passes : q > pass /\ state[i] \in Passes[q]

Steady(i) == i \in Items \ (blurred \cup absent) /\ state[i] \in ActiveStates

PagesKept ==
    /\ PagesTypeOK /\ IsFiniteSet(There)
    /\ pass \in DOMAIN Passes
    /\ kind = "none" => pass = 1 /\ number = 1 /\ outcome = "none"
    /\ kind # "all" => \A i \in Items : found[i] <= 1

Covered ==
    /\ outcome = "none" => \A i \in Items : Steady(i) => found[i] > 0 \/ Behind(i) \/ ToCome(i)
    /\ outcome = "listed" => \A i \in Items : Steady(i) => found[i] > 0

PagesIInv == PagesKept /\ Covered

\* The lists asked for.
LEMMA PassesFacts ==
    /\ kind = "runs" => /\ DOMAIN Passes = 1 .. 2
                        /\ Passes[1] = {"queued"} /\ Passes[2] = {"in_progress"}
    /\ kind # "runs" => DOMAIN Passes = {1} /\ Passes[1] = {"queued", "in_progress"}
  BY DEF Passes, ActiveStates

ListRight ==
    /\ Numbered(Listed, arrived) /\ Listed \subseteq There
    /\ \A i \in Items : Place(i) = PlaceIn(Listed, arrived, i)

LEMMA ListedFacts == PagesKept => ListRight
<1> SUFFICES ASSUME PagesKept PROVE ListRight
  OBVIOUS
<1>1. Passes[pass] \subseteq ActiveStates
  BY PassesFacts DEF PagesKept, ActiveStates
<1>2. Listed \subseteq There
  BY <1>1 DEF Listed, There, ActiveStates
<1>3. IsFiniteSet(Listed)
  BY <1>2, FS_Subset DEF PagesKept
<1> QED
  BY <1>2, <1>3 DEF ListRight, PagesKept, PagesTypeOK, Numbered, Listed, Place, PlaceIn, Ahead,
     There

\* The page before one that has an item is full.
LEMMA FullPage ==
    ASSUME PagesKept, NEW n \in Nat \ {0}, NEW i \in Listed, Place(i) > n * PerPage
    PROVE  Cardinality(PageOf(n)) = PerPage
<1> DEFINE from == (n - 1) * PerPage
           to == n * PerPage
<1>1. from \in Nat /\ to \in Nat /\ to = from + PerPage /\ from <= to
  <2>1. PerPage \in Nat /\ n - 1 \in Nat /\ n = (n - 1) + 1
    BY PagesAssumption
  <2>2. from \in Nat /\ ((n - 1) + 1) * PerPage = from + PerPage
    BY <2>1
  <2> QED
    BY <2>1, <2>2
<1>2. /\ Numbered(Listed, arrived) /\ i \in Items
      /\ \A k \in Listed : Place(k) = PlaceIn(Listed, arrived, k)
  BY ListedFacts DEF ListRight, Listed
<1>3. Place(i) > to
  OBVIOUS
<1> HIDE DEF from, to
<1>4. to <= Cardinality(Listed)
  BY <1>1, <1>2, <1>3, PlacesInOrder
<1>5. Cardinality({k \in Listed : PlaceIn(Listed, arrived, k) > from
                                 /\ PlaceIn(Listed, arrived, k) <= to}) = to - from
  BY <1>1, <1>2, <1>4, StretchTaken
<1>6. PageOf(n) = {k \in Listed : PlaceIn(Listed, arrived, k) > from
                                 /\ PlaceIn(Listed, arrived, k) <= to}
  BY <1>2 DEF PageOf, from, to
<1> QED
  BY <1>1, <1>5, <1>6, PagesAssumption

\* There are items for a full page and for the pages before it.
LEMMA PagesFew ==
    ASSUME PagesKept, NEW n \in Nat \ {0}, Cardinality(PageOf(n)) = PerPage
    PROVE  n <= Cardinality(There) /\ n * PerPage <= Cardinality(There)
<1> DEFINE from == (n - 1) * PerPage
           to == n * PerPage
           size == Cardinality(Listed)
<1>1. from \in Nat /\ to \in Nat /\ to = from + PerPage /\ to >= n
  <2>1. PerPage \in Nat /\ PerPage >= 1 /\ n - 1 \in Nat /\ n = (n - 1) + 1
    BY PagesAssumption
  <2>2. from \in Nat /\ from >= n - 1 /\ ((n - 1) + 1) * PerPage = from + PerPage
    BY <2>1
  <2> QED
    BY <2>1, <2>2
<1>2. /\ Numbered(Listed, arrived)
      /\ \A k \in Listed : Place(k) = PlaceIn(Listed, arrived, k)
  BY ListedFacts DEF ListRight, Listed
<1>3. \A k \in Listed : Place(k) \in Nat /\ Place(k) <= size
  BY <1>2, PlacesInOrder
<1>4. size <= Cardinality(There) /\ Cardinality(There) \in Nat /\ size \in Nat
  BY ListedFacts, FS_Subset, FS_CardinalityType DEF ListRight, PagesKept
<1>5. PageOf(n) = {k \in Listed : Place(k) > from /\ Place(k) <= to}
  BY DEF PageOf
<1> HIDE DEF from, to, size
<1>6. from < size
  <2>1. PageOf(n) # {}
    BY FS_EmptySet, PagesAssumption
  <2> QED
    BY <1>1, <1>3, <1>4, <1>5, <2>1
<1>7. ASSUME size < to PROVE FALSE
  <2>1. PageOf(n) = {k \in Listed : PlaceIn(Listed, arrived, k) > from
                                     /\ PlaceIn(Listed, arrived, k) <= size}
    BY <1>1, <1>2, <1>3, <1>4, <1>5, <1>7
  <2>2. Cardinality(PageOf(n)) = size - from
    BY <1>1, <1>2, <1>4, <1>6, <2>1, StretchTaken DEF size
  <2> QED
    BY <1>1, <1>4, <1>7, <2>2, PagesAssumption
<1>8. to <= Cardinality(There) /\ n <= to
  BY <1>1, <1>4, <1>7
<1> QED
  BY <1>1, <1>4, <1>8 DEF to

\* At first GitHub has the items of the preamble, and nothing is asked for.
LEMMA PagesStart == PagesInit => PagesIInv
<1> SUFFICES ASSUME PagesInit PROVE PagesIInv
  OBVIOUS
<1> DEFINE n == Len(Preamble)
<1>1. n \in Nat /\ DOMAIN Preamble = 1 .. n /\ \A m \in 1 .. n : Preamble[m] \in Items
  BY PagesAssumption
<1>2. There = Range(Preamble)
  BY <1>1 DEF PagesInit, There, Range
<1>3. IsFiniteSet(There) /\ Cardinality(There) = n
  <2>1. Preamble \in [1 .. n -> There] /\ \A i \in There : \E m \in 1 .. n : Preamble[m] = i
    BY <1>1, <1>2, PagesAssumption DEF Range
  <2>2. ExistsBijection(1 .. n, There)
    BY <1>1, <2>1, PagesAssumption
    DEF ExistsBijection, Bijection, Injection, Surjection, IsInjective
  <2>3. IsFiniteSet(1 .. n) /\ Cardinality(1 .. n) = n
    BY <1>1, FS_Interval
  <2> QED
    BY <2>2, <2>3, FS_Bijection
<1>4. \A i \in There : arrived[i] \in 1 .. n /\ Preamble[arrived[i]] = i
  BY <1>1, <1>2 DEF PagesInit, There, Range
<1>5. \A i \in Items \ There : arrived[i] = 0
  BY <1>2 DEF PagesInit
<1>6. PagesTypeOK
  <2>1. /\ state \in [Items -> ItemStates]
        /\ \A i \in Items : state[i] = "none" <=> i \notin There
    BY DEF PagesInit, There, ItemStates
  <2>2. arrived \in [Items -> Nat]
    <3>1. \A i \in Items : arrived[i] \in Nat
      BY <1>1, <1>4, <1>5
    <3> QED
      BY <3>1 DEF PagesInit
  <2>3. \A i \in Items : state[i] = "none" <=> arrived[i] = 0
    BY <1>1, <1>4, <1>5, <2>1
  <2>4. \A i \in There : arrived[i] <= Cardinality(There)
    BY <1>1, <1>3, <1>4
  <2>5. \A i, k \in There : arrived[i] = arrived[k] => i = k
    BY <1>4
  <2> QED
    <3>1. /\ kind \in {"none", "runs", "all"} /\ pass \in 1 .. 2
          /\ outcome \in {"none", "listed", "failed"}
          /\ blurred \subseteq Items /\ absent \subseteq Items
      BY DEF PagesInit
    <3>2. found \in [Items -> 0 .. 2]
      BY DEF PagesInit
    <3>3. number \in 1 .. Cardinality(There) + 1
      BY <1>1, <1>3 DEF PagesInit
    <3> QED
      BY <2>1, <2>2, <2>3, <2>4, <2>5, <3>1, <3>2, <3>3 DEF PagesTypeOK
<1>7. PagesKept
  BY <1>3, <1>6, PassesFacts DEF PagesInit, PagesKept
<1>8. \A i \in Items : Steady(i) => Behind(i)
  <2> SUFFICES ASSUME NEW i \in Items, Steady(i) PROVE Behind(i)
    OBVIOUS
  <2>1. i \in Listed
    BY PassesFacts DEF PagesInit, Steady, Listed, ActiveStates
  <2>2. Place(i) \in Nat /\ 1 <= Place(i)
    BY <1>7, <2>1, ListedFacts, PlacesInOrder DEF ListRight, Listed
  <2>3. (number - 1) * PerPage = 0
    BY PagesAssumption DEF PagesInit
  <2> QED
    BY <2>1, <2>2, <2>3 DEF Behind
<1> QED
  BY <1>7, <1>8 DEF PagesIInv, Covered, PagesInit

-----------------------------------------------------------------------------
(* GitHub.                                                                   *)

\* A new item is the newest.
LEMMA ComeKeepsTypes ==
    ASSUME PagesKept, NEW i \in Items, Come(i)
    PROVE  PagesKept'
<1> DEFINE n == Cardinality(There)
<1>1. There' = There \cup {i} /\ i \notin There
  BY DEF Come, There, PagesKept, PagesTypeOK
<1>2. n \in Nat /\ IsFiniteSet(There') /\ Cardinality(There') = n + 1
  BY <1>1, FS_AddElement, FS_CardinalityType DEF PagesKept
<1>3. arrived' = [arrived EXCEPT ![i] = n + 1] /\ state' = [state EXCEPT ![i] = "queued"]
  BY DEF Come
<1>4. /\ arrived \in [Items -> Nat] /\ state \in [Items -> ItemStates]
      /\ \A k \in There : arrived[k] <= n
      /\ \A j, k \in There : arrived[j] = arrived[k] => j = k
      /\ \A k \in Items : state[k] = "none" <=> arrived[k] = 0
      /\ number \in 1 .. n + 1
  BY DEF PagesKept, PagesTypeOK
<1> HIDE DEF n
<1>5. arrived' \in [Items -> Nat] /\ state' \in [Items -> ItemStates]
  BY <1>2, <1>3, <1>4 DEF ItemStates
<1>6. \A k \in Items : state'[k] = "none" <=> arrived'[k] = 0
  BY <1>2, <1>3, <1>4
<1>7. \A k \in There' : arrived'[k] <= n + 1
  <2>1. There \subseteq Items
    BY DEF There
  <2> QED
    BY <1>1, <1>2, <1>3, <1>4, <2>1
<1>8. \A j, k \in There' : arrived'[j] = arrived'[k] => j = k
  <2>1. There \subseteq Items
    BY DEF There
  <2>2. \A k \in There : arrived'[k] = arrived[k] /\ arrived[k] # n + 1
    BY <1>1, <1>2, <1>3, <1>4, <2>1
  <2> QED
    BY <1>1, <1>2, <1>3, <1>4, <2>2
<1>9. number' \in 1 .. (n + 1) + 1
  BY <1>2, <1>4 DEF Come
<1>10. PagesTypeOK'
  <2>1. absent' \subseteq Items
    BY DEF Come, PagesKept, PagesTypeOK
  <2> QED
    BY <1>2, <1>5, <1>6, <1>7, <1>8, <1>9, <2>1 DEF Come, PagesKept, PagesTypeOK
<1> QED
  BY <1>2, <1>10 DEF Come, PagesKept, Passes

LEMMA ComeKeepsCovered ==
    ASSUME PagesIInv, NEW i \in Items, Come(i)
    PROVE  Covered'
<1>1. PagesKept /\ PagesKept' /\ PagesTypeOK
  BY ComeKeepsTypes DEF PagesIInv, PagesKept
<1>2. /\ UNCHANGED <<kind, pass, number, outcome, found, blurred>> /\ state[i] = "none"
      /\ state' = [state EXCEPT ![i] = "queued"] /\ absent' = absent \cup {i}
      /\ \A k \in Items \ {i} : arrived'[k] = arrived[k]
  BY <1>1 DEF Come, PagesTypeOK
<1>3. ASSUME NEW j \in Items, Steady(j)'
      PROVE  Steady(j) /\ j # i /\ state'[j] = state[j]
  BY <1>1, <1>2, <1>3 DEF Steady, PagesTypeOK
<1>4. ASSUME NEW j \in Items, j # i, Behind(j) PROVE Behind(j)'
  <2>1. j \in Listed /\ Listed \subseteq Listed' /\ i \notin Listed
    BY <1>1, <1>2, <1>4, ListedFacts DEF ListRight, Behind, Listed, Passes, PagesTypeOK, There
  <2>2. Ahead(Listed, arrived, j) \subseteq Ahead(Listed', arrived', j)
    BY <1>2, <1>4, <2>1 DEF Ahead, Listed
  <2>3. /\ Numbered(Listed, arrived) /\ Numbered(Listed', arrived')
        /\ Place(j) = PlaceIn(Listed, arrived, j) /\ Place(j)' = PlaceIn(Listed', arrived', j)
    <3>1. ListRight /\ ListRight'
      BY <1>1, ListedFacts, PTL
    <3> QED
      BY <3>1 DEF ListRight
  <2>4. PlaceIn(Listed, arrived, j) <= PlaceIn(Listed', arrived', j)
    BY <2>1, <2>2, <2>3, PlaceGrows
  <2>5. Place(j) \in Nat /\ Place(j)' \in Nat
    BY <2>1, <2>3, PlacesInOrder
  <2> DEFINE x == (number - 1) * PerPage
  <2>6. x \in Int /\ x' = x /\ Place(j) > x
    BY <1>1, <1>2, <1>4, PagesAssumption DEF PagesTypeOK, Behind
  <2> HIDE DEF x
  <2>7. j \in Listed' /\ Place(j)' > x
    BY <2>1, <2>3, <2>4, <2>5, <2>6
  <2> QED
    BY <2>6, <2>7 DEF Behind, x
<1>5. ASSUME NEW j \in Items, state'[j] = state[j], ToCome(j) PROVE ToCome(j)'
  BY <1>2, <1>5 DEF ToCome, Passes
<1> QED
  BY <1>2, <1>3, <1>4, <1>5 DEF PagesIInv, Covered

\* An item that advances keeps its number.
LEMMA AdvanceKeepsTypes ==
    ASSUME PagesKept, NEW i \in Items, Advance(i)
    PROVE  PagesKept'
<1>1. \E to \in {"in_progress", "completed"} : state' = [state EXCEPT ![i] = to]
  BY DEF Advance
<1>2. state[i] # "none"
  BY DEF Advance, ActiveStates
<1>3. There' = There
  BY <1>1, <1>2 DEF There, PagesKept, PagesTypeOK
<1>4. PagesTypeOK'
  <2>1. absent' \subseteq Items /\ blurred' \subseteq Items
    BY DEF Advance, Listed, PagesKept, PagesTypeOK
  <2>2. state' \in [Items -> ItemStates]
    BY <1>1 DEF PagesKept, PagesTypeOK, ItemStates
  <2>3. \A k \in Items : state'[k] = "none" <=> state[k] = "none"
    BY <1>1, <1>2 DEF PagesKept, PagesTypeOK
  <2> QED
    BY <1>3, <2>1, <2>2, <2>3 DEF Advance, PagesKept, PagesTypeOK
<1> QED
  BY <1>3, <1>4 DEF Advance, PagesKept, Passes

\* What is behind the pages read stays there, but for what is behind an item
\* that leaves the list.
LEMMA AdvanceKeepsCovered ==
    ASSUME PagesIInv, NEW i \in Items, Advance(i)
    PROVE  Covered'
<1>1. PagesKept /\ PagesKept' /\ PagesTypeOK
  BY AdvanceKeepsTypes DEF PagesIInv, PagesKept
<1>2. ListRight /\ ListRight'
  BY <1>1, ListedFacts, PTL
<1>3. /\ UNCHANGED <<arrived, kind, pass, number, outcome, found>>
      /\ kind # "none" /\ blurred \subseteq blurred' /\ absent \subseteq absent'
      /\ \A k \in Items \ {i} : state'[k] = state[k]
      /\ i \notin absent' => state[i] = "queued" /\ state'[i] = "in_progress"
  BY <1>1 DEF Advance, PagesTypeOK, ActiveStates
<1>4. ASSUME NEW j \in Items, Steady(j)'
      PROVE  Steady(j)
  <2>1. j \notin blurred /\ j \notin absent /\ j \notin absent'
    BY <1>3, <1>4 DEF Steady
  <2>2. state[j] \in ActiveStates
    BY <1>3, <1>4, <2>1 DEF Steady, ActiveStates
  <2> QED
    BY <2>1, <2>2 DEF Steady
<1>5. ASSUME NEW j \in Items, outcome = "none", Steady(j)', ToCome(j)
      PROVE  ToCome(j)'
  <2>1. CASE j # i
    BY <1>3, <2>1, <1>5 DEF ToCome, Passes
  <2>2. CASE j = i
    <3>1. state[i] = "queued"
      BY <1>3, <1>5, <2>2 DEF Steady
    <3>2. PICK q \in DOMAIN Passes : q > pass /\ state[i] \in Passes[q]
      BY <1>5, <2>2 DEF ToCome
    <3> QED
      BY <1>1, <3>1, <3>2, PassesFacts DEF PagesTypeOK
  <2> QED
    BY <2>1, <2>2
<1>6. ASSUME NEW j \in Items, outcome = "none", Steady(j)', Behind(j), j \in Listed'
      PROVE  Behind(j)'
  <2>1. ASSUME NEW k \in Listed, arrived[k] >= arrived[j] PROVE k \in Listed'
    <3>1. SUFFICES ASSUME k \notin Listed' PROVE FALSE
      OBVIOUS
    <3>2. k = i /\ k # j
      BY <1>3, <1>6, <3>1 DEF Listed, Passes
    <3>3. j \in Listed /\ arrived[j] < arrived[k]
      BY <1>2, <1>6, <2>1, <3>2 DEF ListRight, Numbered, Behind
    <3>4. UnderWay /\ state'[i] \notin Passes[pass]
      BY <1>3, <1>6, <3>1, <3>2 DEF UnderWay, Listed, Passes
    <3>5. j \in blurred'
      BY <2>1, <3>2, <3>3, <3>4 DEF Advance
    <3> QED
      BY <1>6, <3>5 DEF Steady
  <2>2. Ahead(Listed, arrived, j) \subseteq Ahead(Listed', arrived', j)
    BY <1>3, <2>1 DEF Ahead
  <2>3. /\ Numbered(Listed, arrived) /\ Numbered(Listed', arrived')
        /\ Place(j) = PlaceIn(Listed, arrived, j) /\ Place(j)' = PlaceIn(Listed', arrived', j)
    BY <1>2 DEF ListRight
  <2>4. j \in Listed
    BY <1>6 DEF Behind
  <2>5. PlaceIn(Listed, arrived, j) <= PlaceIn(Listed', arrived', j)
    BY <1>6, <2>2, <2>3, <2>4, PlaceGrows
  <2>6. Place(j) \in Nat /\ Place(j)' \in Nat
    BY <1>6, <2>3, <2>4, PlacesInOrder
  <2> DEFINE x == (number - 1) * PerPage
  <2>7. x \in Int /\ x' = x /\ Place(j) > x
    BY <1>1, <1>3, <1>6, PagesAssumption DEF PagesTypeOK, Behind
  <2> HIDE DEF x
  <2>8. Place(j)' > x
    BY <2>3, <2>5, <2>6, <2>7
  <2> QED
    BY <1>6, <2>7, <2>8 DEF Behind, x
<1>7. ASSUME NEW j \in Items, outcome = "none", Steady(j)', Behind(j), j \notin Listed'
      PROVE  ToCome(j)'
  <2>1. j = i /\ j \in Listed /\ state[i] = "queued" /\ state'[i] = "in_progress"
    BY <1>3, <1>7 DEF Listed, Passes, Behind, Steady
  <2>2. state[i] \in Passes[pass] /\ state'[i] \notin Passes[pass]
    BY <1>3, <1>7, <2>1 DEF Listed, Passes
  <2>3. kind = "runs" /\ pass = 1
    BY <1>1, <2>1, <2>2, PassesFacts DEF PagesKept
  <2> QED
    BY <1>3, <2>1, <2>3, PassesFacts DEF ToCome, Passes
<1>8. CASE outcome = "none"
  BY <1>3, <1>4, <1>5, <1>6, <1>7, <1>8 DEF PagesIInv, Covered
<1>9. CASE outcome # "none"
  BY <1>3, <1>4, <1>9 DEF PagesIInv, Covered
<1> QED
  BY <1>8, <1>9

-----------------------------------------------------------------------------
(* The client.                                                               *)

\* When a list is asked for anew, everything in it is behind.
Anew == PagesKept /\ number = 1 => \A i \in Listed : Behind(i)

LEMMA AllBehind == Anew
<1> SUFFICES ASSUME PagesKept, number = 1, NEW i \in Listed PROVE Behind(i)
  BY DEF Anew
<1>1. Place(i) \in Nat /\ 1 <= Place(i)
  BY ListedFacts, PlacesInOrder DEF ListRight, Listed
<1>2. (number - 1) * PerPage = 0
  BY PagesAssumption
<1> QED
  BY <1>1, <1>2 DEF Behind

LEMMA BeginKeepsCovered ==
    ASSUME PagesIInv, BeginListing
    PROVE  PagesIInv'
<1>1. /\ kind = "none" /\ pass = 1 /\ number = 1 /\ outcome = "none"
      /\ UNCHANGED <<arrived, state, pass, number, outcome, found, blurred, absent>>
      /\ kind' \in {"runs", "all"}
  BY DEF BeginListing, PagesIInv, PagesKept
<1>2. PagesKept'
  <2>1. PagesTypeOK' /\ IsFiniteSet(There')
    BY <1>1 DEF PagesIInv, PagesKept, PagesTypeOK, There
  <2>2. pass' \in DOMAIN Passes'
    BY <1>1 DEF Passes
  <2> QED
    BY <1>1, <2>1, <2>2 DEF PagesIInv, PagesKept
<1>3. Anew'
  BY AllBehind, PTL
<1>4. ASSUME NEW j \in Items, Steady(j)' PROVE Behind(j)' \/ ToCome(j)'
  <2>1. state'[j] \in {"queued", "in_progress"}
    BY <1>4 DEF Steady, ActiveStates
  <2>2. CASE j \in Listed'
    BY <1>1, <1>2, <1>3, <2>2 DEF Anew
  <2>3. CASE j \notin Listed'
    BY <1>1, <2>1, <2>3 DEF Listed, ToCome, Passes, ActiveStates
  <2> QED
    BY <2>2, <2>3
<1> QED
  BY <1>1, <1>2, <1>4 DEF PagesIInv, Covered

\* A page has been read: a full one, or the last of its list.
LEMMA PageKeeps ==
    ASSUME PagesIInv, kind # "none", outcome = "none", Continue(PageOf(number)),
           UNCHANGED <<arrived, state, kind, blurred, absent>>,
           found' \in [Items -> 0 .. 2],
           kind # "all" => \A i \in Items : found'[i] <= 1,
           \A i \in Items : found[i] > 0 \/ i \in PageOf(number) => found'[i] > 0
    PROVE  PagesIInv'
<1> DEFINE page == PageOf(number)
           size == Cardinality(There)
<1>1. PagesKept /\ PagesTypeOK /\ There' = There /\ IsFiniteSet(There) /\ size \in Nat
  BY FS_CardinalityType DEF PagesIInv, PagesKept, There
<1>2. number \in Nat \ {0} /\ number <= size + 1 /\ pass \in DOMAIN Passes
      /\ DOMAIN Passes \subseteq 1 .. 2 /\ 1 \in DOMAIN Passes
  BY <1>1, PassesFacts DEF PagesTypeOK, PagesKept
<1>3. ListRight
  BY <1>1, ListedFacts
<1>4. ASSUME NEW i \in Items, Behind(i), i \notin page
      PROVE  Cardinality(page) = PerPage /\ Place(i) > number * PerPage
  <2>1. i \in Listed /\ Place(i) > (number - 1) * PerPage /\ ~(Place(i) <= number * PerPage)
    BY <1>4 DEF Behind, PageOf
  <2>2. Place(i) \in Nat
    BY <1>3, <2>1, PlacesInOrder DEF ListRight
  <2> DEFINE to == number * PerPage
  <2>3. to \in Int /\ ~(Place(i) <= to)
    BY <1>2, <2>1, PagesAssumption
  <2> HIDE DEF to
  <2>4. Place(i) > to
    BY <2>2, <2>3
  <2> QED
    BY <1>1, <1>2, <2>1, <2>4, FullPage DEF to
<1>5. ASSUME NEW i \in Items, Steady(i)
      PROVE  found'[i] > 0 \/ (Behind(i) /\ i \notin page) \/ ToCome(i)
  BY <1>5 DEF PagesIInv, Covered
<1>6. \A i \in Items : Steady(i)' <=> Steady(i)
  BY DEF Steady
<1>7. CASE Cardinality(page) = PerPage
  <2>1. number' = number + 1 /\ UNCHANGED <<pass, outcome>>
    BY <1>7 DEF Continue
  <2>2. number <= size
    BY <1>1, <1>2, <1>7, PagesFew
  <2>3. PagesKept'
    <3> HIDE DEF page, size
    <3>1. number' \in 1 .. size + 1
      BY <1>1, <1>2, <2>1, <2>2
    <3> QED
      BY <1>1, <2>1, <3>1 DEF PagesKept, PagesTypeOK, Passes, size
  <2>4. ASSUME NEW i \in Items, Steady(i), found'[i] = 0 PROVE Behind(i)' \/ ToCome(i)'
    <3>1. (Behind(i) /\ i \notin page) \/ ToCome(i)
      BY <1>5, <2>4
    <3>2. ToCome(i) => ToCome(i)'
      BY <2>1 DEF ToCome, Passes
    <3>3. ASSUME Behind(i), i \notin page PROVE Behind(i)'
      <4>1. Place(i) > number * PerPage
        BY <1>4, <3>3
      <4>2. (number' - 1) * PerPage = number * PerPage
        BY <1>2, <2>1
      <4>3. Place(i)' = Place(i) /\ i \in Listed'
        BY <2>1, <3>3 DEF Place, Listed, Passes, Behind
      <4> QED
        BY <4>1, <4>2, <4>3 DEF Behind
    <3> QED
      BY <3>1, <3>2, <3>3
  <2>5. \A i \in Items : found'[i] > 0 \/ found'[i] = 0
    OBVIOUS
  <2> QED
    BY <1>6, <2>1, <2>3, <2>4, <2>5 DEF PagesIInv, Covered
<1>8. CASE Cardinality(page) # PerPage /\ pass + 1 \in DOMAIN Passes
  <2>1. pass' = pass + 1 /\ number' = 1 /\ outcome' = outcome
    BY <1>8 DEF Continue
  <2>2. PagesKept'
    <3> HIDE DEF page, size
    <3>1. number' \in 1 .. size + 1 /\ pass' \in 1 .. 2
      BY <1>1, <1>2, <1>8, <2>1
    <3> QED
      BY <1>1, <1>8, <2>1, <3>1 DEF PagesKept, PagesTypeOK, Passes, size
  <2>3. Anew'
    BY AllBehind, PTL
  <2>4. ASSUME NEW i \in Items, Steady(i), found'[i] = 0 PROVE Behind(i)' \/ ToCome(i)'
    <3>1. ToCome(i)
      BY <1>4, <1>5, <1>8, <2>4
    <3>2. PICK q \in DOMAIN Passes : q > pass /\ state[i] \in Passes[q]
      BY <3>1 DEF ToCome
    <3>3. q = pass + 1
      BY <1>2, <3>2
    <3>4. i \in Listed'
      BY <2>1, <3>2, <3>3 DEF Listed, Passes
    <3> QED
      BY <2>1, <2>2, <2>3, <3>4 DEF Anew
  <2>5. \A i \in Items : found'[i] > 0 \/ found'[i] = 0
    OBVIOUS
  <2> QED
    BY <1>6, <2>1, <2>2, <2>4, <2>5 DEF PagesIInv, Covered
<1>9. CASE Cardinality(page) # PerPage /\ pass + 1 \notin DOMAIN Passes
  <2>1. outcome' = "listed" /\ UNCHANGED <<pass, number>>
    BY <1>9 DEF Continue
  <2>2. PagesKept'
    BY <1>1, <2>1 DEF PagesKept, PagesTypeOK, Passes
  <2>3. ASSUME NEW i \in Items, Steady(i) PROVE found'[i] > 0
    <3>1. ~ToCome(i)
      BY <1>2, <1>9, PassesFacts DEF ToCome
    <3> QED
      BY <1>4, <1>5, <1>9, <2>3, <3>1
  <2> QED
    BY <1>6, <2>1, <2>2, <2>3 DEF PagesIInv, Covered
<1> QED
  BY <1>7, <1>8, <1>9

\* The three listings differ in what they do with an item they have seen.
LEMMA ListKeepsPages ==
    ASSUME PagesIInv, ListRuns \/ ListAll
    PROVE  PagesIInv'
<1> DEFINE page == PageOf(number)
<1>1. found \in [Items -> 0 .. 2]
  BY DEF PagesIInv, PagesKept, PagesTypeOK
<1>2. CASE ListRuns
  <2>1. \A i \in Items : found[i] <= 1
    BY <1>2 DEF ListRuns, PagesIInv, PagesKept
  <2>2. found' = [i \in Items |-> IF i \in page /\ found[i] = 0 THEN 1 ELSE found[i]]
    BY <1>2 DEF ListRuns
  <2> HIDE DEF page
  <2>3. /\ found' \in [Items -> 0 .. 2] /\ \A i \in Items : found'[i] <= 1
        /\ \A i \in Items : found[i] > 0 \/ i \in page => found'[i] > 0
    BY <1>1, <2>1, <2>2
  <2> QED
    BY <1>2, <2>3, PageKeeps DEF ListRuns, page
<1>3. CASE ListAll
  <2>1. found' = [i \in Items |-> IF i \in page /\ found[i] < 2 THEN found[i] + 1 ELSE found[i]]
    BY <1>3 DEF ListAll
  <2> HIDE DEF page
  <2>2. /\ found' \in [Items -> 0 .. 2]
        /\ \A i \in Items : found[i] > 0 \/ i \in page => found'[i] > 0
    BY <1>1, <2>1
  <2> QED
    BY <1>3, <2>2, PageKeeps DEF ListAll, page
<1> QED
  BY <1>2, <1>3

LEMMA FailureKeepsPages ==
    ASSUME PagesIInv, ListingFails
    PROVE  PagesIInv'
<1>1. /\ kind # "none" /\ outcome' = "failed" /\ \A i \in Items : found'[i] = 0
      /\ UNCHANGED <<arrived, state, kind, pass, number, blurred, absent>>
      /\ found' \in [Items -> 0 .. 2]
  BY DEF ListingFails, UnderWay
<1> QED
  BY <1>1 DEF PagesIInv, Covered, PagesKept, PagesTypeOK, There, Passes

\* The invariant is inductive.
LEMMA PagesStay == PagesIInv /\ [PagesNext]_pagesVars => PagesIInv'
<1> SUFFICES ASSUME PagesIInv, [PagesNext]_pagesVars PROVE PagesIInv'
  OBVIOUS
<1>1. ASSUME NEW i \in Items, Come(i) PROVE PagesIInv'
  BY <1>1, ComeKeepsTypes, ComeKeepsCovered DEF PagesIInv
<1>2. ASSUME NEW i \in Items, Advance(i) PROVE PagesIInv'
  BY <1>2, AdvanceKeepsTypes, AdvanceKeepsCovered DEF PagesIInv
<1>3. CASE BeginListing \/ ListRuns \/ ListAll \/ ListingFails
  BY <1>3, BeginKeepsCovered, ListKeepsPages, FailureKeepsPages
<1>4. CASE UNCHANGED pagesVars
  <2>1. /\ Passes' = Passes /\ There' = There /\ Listed' = Listed
        /\ \A i \in Items : (Steady(i)' <=> Steady(i)) /\ Place(i)' = Place(i)
    BY <1>4 DEF pagesVars, Passes, There, Listed, Steady, Place
  <2>2. PagesKept'
    BY <1>4, <2>1 DEF pagesVars, PagesIInv, PagesKept, PagesTypeOK
  <2>3. Covered'
    BY <1>4, <2>1 DEF pagesVars, PagesIInv, Covered, Behind, ToCome
  <2> QED
    BY <2>2, <2>3 DEF PagesIInv
<1> QED
  BY <1>1, <1>2, <1>3, <1>4 DEF PagesNext

\* GitHub's items and the client's listing keep their types; a page asked for is
\* at most one beyond the items there are.
THEOREM PagesTypeCorrect == PagesSpec => []PagesTypeOK
<1>1. PagesIInv => PagesTypeOK
  BY DEF PagesIInv, PagesKept
<1> QED
  BY <1>1, PagesStart, PagesStay, PTL DEF PagesSpec

\* What is there from the first page to the last, and is not moved up by another
\* one's leaving, is returned, and a run once: for any items, however many to a
\* page, whatever comes and goes.
THEOREM SteadyItemsListed == PagesSpec => []ListedAll
<1>1. PagesIInv => ListedAll
  BY DEF PagesIInv, PagesKept, Covered, Steady, ListedAll
<1> QED
  BY <1>1, PagesStart, PagesStay, PTL DEF PagesSpec

\* What is asked for grows with full pages alone.
LEMMA PagesStayBounded == PagesIInv /\ PagesBounded /\ [PagesNext]_pagesVars => PagesBounded'
<1> SUFFICES ASSUME PagesIInv, PagesBounded, [PagesNext]_pagesVars PROVE PagesBounded'
  OBVIOUS
<1> DEFINE size == Cardinality(There)
<1>1. /\ PagesKept /\ IsFiniteSet(There) /\ size \in Nat /\ number \in Nat \ {0}
      /\ (number - 1) * PerPage <= size
  BY FS_CardinalityType DEF PagesIInv, PagesKept, PagesTypeOK, PagesBounded
<1>2. ASSUME NEW i \in Items, Come(i) PROVE PagesBounded'
  <2>1. number' = number /\ There' = There \cup {i}
    BY <1>1, <1>2 DEF Come, There, PagesKept, PagesTypeOK, ItemStates
  <2>2. Cardinality(There') \in Nat /\ size <= Cardinality(There')
    <3>1. IsFiniteSet(There') /\ There \subseteq There'
      BY <1>1, <2>1, FS_AddElement
    <3> QED
      BY <3>1, FS_Subset, FS_CardinalityType
  <2> DEFINE x == (number - 1) * PerPage
  <2>3. x \in Int /\ x' = x /\ x <= size
    BY <1>1, <2>1, PagesAssumption
  <2> HIDE DEF x
  <2> QED
    BY <1>1, <2>2, <2>3 DEF PagesBounded, x
<1>3. CASE (ListRuns \/ ListAll) /\ Cardinality(PageOf(number)) = PerPage
  <2>1. number' = number + 1 /\ There' = There
    BY <1>3 DEF ListRuns, ListAll, Continue, There
  <2>2. number * PerPage <= size
    BY <1>1, <1>3, PagesFew
  <2>3. (number' - 1) * PerPage = number * PerPage
    BY <1>1, <2>1
  <2> QED
    BY <2>1, <2>2, <2>3 DEF PagesBounded
<1>4. ASSUME There' = There, number' = number \/ number' = 1 PROVE PagesBounded'
  <2>1. number' = 1 => (number' - 1) * PerPage = 0
    BY PagesAssumption
  <2> QED
    BY <1>1, <1>4, <2>1 DEF PagesBounded
<1>5. CASE (ListRuns \/ ListAll) /\ Cardinality(PageOf(number)) # PerPage
  BY <1>4, <1>5 DEF ListRuns, ListAll, Continue, There
<1>6. ASSUME NEW i \in Items, Advance(i) PROVE PagesBounded'
  <2>1. There' = There
    BY <1>1, <1>6 DEF Advance, There, ActiveStates, PagesKept, PagesTypeOK
  <2> QED
    BY <1>4, <1>6, <2>1 DEF Advance
<1>7. CASE BeginListing \/ ListingFails \/ UNCHANGED pagesVars
  BY <1>4, <1>7 DEF BeginListing, ListingFails, pagesVars, There
<1> QED
  BY <1>2, <1>3, <1>5, <1>6, <1>7 DEF PagesNext

\* A list is read on only after full pages: for any items and page sizes, the
\* pages before the next one are no more than what has come would fill.
THEOREM PagesAreBounded == PagesSpec => []PagesBounded
<1>1. PagesInit => PagesBounded
  <2> SUFFICES ASSUME PagesInit PROVE PagesBounded
    OBVIOUS
  <2>1. IsFiniteSet(There) /\ number = 1
    BY PagesStart DEF PagesInit, PagesIInv, PagesKept
  <2>2. (number - 1) * PerPage = 0 /\ Cardinality(There) \in Nat
    BY <2>1, PagesAssumption, FS_CardinalityType
  <2> QED
    BY <2>2 DEF PagesBounded
<1> QED
  BY <1>1, PagesStart, PagesStay, PagesStayBounded, PTL DEF PagesSpec
=============================================================================
