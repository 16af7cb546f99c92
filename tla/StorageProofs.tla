---------------------------- MODULE StorageProofs ----------------------------
(* What is stored, for any jobs, clients and sizes: Prune deletes only rows     *)
(* that are old enough, paging shows a job once, and the cache finds and hands  *)
(* out what was saved.                                                          *)
EXTENDS JobStore, CacheProtocol, FiniteSetTheorems, SequenceTheorems,
    WellFoundedInduction, TLAPS

\* What a row says of the end of its job: once it has ended, and was not queued
\* or marked again, that was its last update.
RowRight(row) == row \in Rows /\ (row.status \in Ended => row.completed = row.updated)

StoreIInv == now \in Times /\ \A j \in DOMAIN rows : RowRight(rows[j])

-----------------------------------------------------------------------------
(* Times as text.                                                            *)

\* A whole number of seconds and the rest.
LEMMA Seconds ==
    ASSUME NEW t \in Nat
    PROVE  /\ t \div Second \in Nat /\ t % Second \in 0 .. Second - 1
           /\ t = (t \div Second) * Second + (t % Second)
  BY StoreAssumption

\* A text stays within its second.
LEMMA TextInSecond ==
    ASSUME NEW t \in Nat
    PROVE  /\ Text(t) \in Int
           /\ (t \div Second) * Second <= Text(t)
           /\ Text(t) < (t \div Second) * Second + Second
  <1> DEFINE r == (t % Second) + Second - 1
  <1>1. t \div Second \in Nat /\ t % Second \in Nat /\ Second \in Nat \ {0}
    BY Seconds, StoreAssumption
  <1>2. r \in Nat
    BY <1>1
  <1>3. r % Second \in 0 .. Second - 1
    BY <1>2, Seconds
  <1>4. (t \div Second) * Second \in Nat
    BY <1>1
  <1>5. Text(t) = (t \div Second) * Second + (r % Second)
    BY DEF Text
  <1> HIDE DEF r
  <1>6. QED
    BY <1>1, <1>3, <1>4, <1>5

\* A time a second later or more has a later text.
LEMMA TextKeepsOrder ==
    ASSUME NEW t \in Nat, NEW u \in Nat, Before(t, u)
    PROVE  t < u + Second
  <1> DEFINE p == t \div Second
             q == u \div Second
  <1>1. p \in Nat /\ q \in Nat /\ Second \in Nat \ {0}
    BY Seconds, StoreAssumption
  <1>2. /\ t < p * Second + Second
        /\ q * Second <= u
    BY <1>1, Seconds
  <1>3. p * Second < q * Second + Second
    <2>1. /\ Text(t) \in Int /\ Text(u) \in Int /\ Text(t) < Text(u)
          /\ p * Second <= Text(t) /\ Text(u) < q * Second + Second
      BY TextInSecond DEF Before
    <2>2. p * Second \in Nat /\ q * Second \in Nat /\ Second \in Nat
      BY <1>1
    <2> HIDE DEF p, q
    <2>3. QED
      BY <2>1, <2>2
  <1> HIDE DEF p, q
  <1>4. p * Second <= q * Second
    <2>1. p < q + 1
      <3>1. CASE p >= q + 1
        <4>1. p * Second >= (q + 1) * Second
          BY <1>1, <3>1
        <4>2. (q + 1) * Second = q * Second + Second
          BY <1>1
        <4>3. QED
          BY <1>1, <1>3, <4>1, <4>2
      <3>2. QED
        BY <1>1, <3>1
    <2>2. QED
      BY <1>1, <2>1
  <1>5. p * Second \in Nat /\ q * Second \in Nat
    BY <1>1
  <1>6. QED
    BY <1>1, <1>2, <1>4, <1>5
-----------------------------------------------------------------------------
(* The rows.                                                                 *)

\* At first there are no rows.
LEMMA RowsStart == StoreInit => StoreIInv
  BY StoreAssumption DEF StoreInit, StoreIInv, Times

\* A write of a row at this moment.
Written(j) == UpsertQueued(j) \/ \E s \in Recorded : Mark(j, s) \/ MarkCompleted(j, s)

\* It ends the job now, or says that it has not ended.
LEMMA WriteKeepsRows ==
    ASSUME StoreIInv, NEW j \in StoredJobs, Written(j)
    PROVE  StoreIInv'
  <1>1. now \in Times /\ now' = now
    BY DEF StoreIInv, Written, UpsertQueued, Mark, MarkCompleted
  <1>2. ASSUME NEW k \in DOMAIN rows'
        PROVE  RowRight(rows'[k])
    <2>1. CASE UpsertQueued(j)
      BY <1>1, <2>1 DEF UpsertQueued, StoreIInv, RowRight, Rows, RowStatuses, Active, Ended
    <2>2. ASSUME NEW s \in Recorded, Mark(j, s)
          PROVE  RowRight(rows'[k])
      <3>1. s \in RowStatuses /\ s \notin Ended /\ k \in DOMAIN rows
        BY <2>2, StoreAssumption DEF Mark
      <3>2. CASE k = j
        BY <1>1, <2>2, <3>1, <3>2 DEF Mark, StoreIInv, RowRight, Rows
      <3>3. CASE k # j
        BY <2>2, <3>1, <3>3 DEF Mark, StoreIInv
      <3>4. QED
        BY <3>2, <3>3
    <2>3. ASSUME NEW s \in Recorded, MarkCompleted(j, s)
          PROVE  RowRight(rows'[k])
      <3>1. s \in RowStatuses /\ k \in DOMAIN rows
        BY <2>3, StoreAssumption DEF MarkCompleted
      <3>2. CASE k = j
        BY <1>1, <2>3, <3>1, <3>2 DEF MarkCompleted, StoreIInv, RowRight, Rows
      <3>3. CASE k # j
        BY <2>3, <3>1, <3>3 DEF MarkCompleted, StoreIInv
      <3>4. QED
        BY <3>2, <3>3
    <2>4. QED
      BY <2>1, <2>2, <2>3 DEF Written
  <1>3. QED
    BY <1>1, <1>2 DEF StoreIInv

\* All other steps write no row; Prune takes some away.
LEMMA RowsStay ==
    ASSUME StoreIInv, Prune \/ StoreTick \/ BeginList \/ ListJobs
    PROVE  StoreIInv'
  <1>1. CASE Prune
    BY <1>1 DEF Prune, StoreIInv
  <1>2. CASE StoreTick
    BY <1>2, StoreAssumption DEF StoreTick, StoreIInv, Times
  <1>3. CASE BeginList
    BY <1>3 DEF BeginList, StoreIInv
  <1>4. CASE ListJobs
    BY <1>4 DEF ListJobs, StoreIInv
  <1>5. QED
    BY <1>1, <1>2, <1>3, <1>4

\* The invariant is inductive.
LEMMA RowsKept == StoreIInv /\ [StoreNext]_storeVars => StoreIInv'
  <1> SUFFICES ASSUME StoreIInv, [StoreNext]_storeVars
               PROVE  StoreIInv'
    OBVIOUS
  <1>1. CASE StoreNext
    BY <1>1, WriteKeepsRows, RowsStay DEF StoreNext, Written
  <1>2. CASE UNCHANGED storeVars
    BY <1>2 DEF storeVars, StoreIInv
  <1>3. QED
    BY <1>1, <1>2

-----------------------------------------------------------------------------
(* Pruning.                                                                  *)

\* What PruneRight says of a row that is deleted.
OldEnough(row) ==
    \/ row.completed # NoTime /\ row.completed < now - Retention + Second
    \/ row.status = "dispatch_error" /\ row.updated < now - Retention + Second

\* The condition of DELETE, in text, is the one in time but for a second.
LEMMA OutdatedIsOld ==
    ASSUME now \in Times, now >= Retention, NEW row, RowRight(row),
           Outdated(row, now - Retention)
    PROVE  OldEnough(row)
  <1>1. now - Retention \in Nat /\ row.updated \in Nat
    BY StoreAssumption DEF Times, RowRight, Rows
  <1>2. row.completed # NoTime => row.completed \in Nat
    BY DEF Times, RowRight, Rows
  <1>3. CASE row.completed # NoTime /\ Before(row.completed, now - Retention)
    BY <1>1, <1>2, <1>3, TextKeepsOrder DEF OldEnough
  <1>4. CASE row.status \in Ended \cup {"dispatch_error"} /\ Before(row.updated, now - Retention)
    <2>1. row.updated < now - Retention + Second
      BY <1>1, <1>4, TextKeepsOrder
    <2>2. CASE row.status \in Ended
      <3>1. row.completed = row.updated /\ row.completed # NoTime
        BY <1>1, <2>2 DEF RowRight, NoTime
      <3>2. QED
        BY <2>1, <3>1 DEF OldEnough
    <2>3. QED
      BY <1>4, <2>1, <2>2 DEF OldEnough
  <1>5. QED
    BY <1>3, <1>4 DEF Outdated

\* A row is deleted only if its job has ended, or failed to be dispatched, more
\* than the retention ago, give or take the second that texts may confuse.
THEOREM OnlyOldRowsPruned == StoreSpec => PruneRight
  <1>1. StoreIInv /\ [StoreNext]_storeVars =>
            \A j \in DOMAIN rows \ DOMAIN rows' : OldEnough(rows[j])
    <2> SUFFICES ASSUME StoreIInv, [StoreNext]_storeVars,
                        NEW j \in DOMAIN rows \ DOMAIN rows'
                 PROVE  OldEnough(rows[j])
      OBVIOUS
    <2>1. Prune
      <3>1. ASSUME NEW i \in StoredJobs, Written(i)
            PROVE  FALSE
        BY <3>1 DEF Written, UpsertQueued, Mark, MarkCompleted
      <3>2. CASE StoreTick \/ BeginList \/ ListJobs \/ UNCHANGED storeVars
        BY <3>2 DEF StoreTick, BeginList, ListJobs, storeVars
      <3>3. QED
        BY <3>1, <3>2 DEF StoreNext, Written
    <2>2. now >= Retention /\ Outdated(rows[j], now - Retention)
      BY <2>1 DEF Prune, Cutoff
    <2>3. now \in Times /\ RowRight(rows[j])
      BY DEF StoreIInv
    <2>4. QED
      BY <2>2, <2>3, OutdatedIsOld
  <1>2. StoreIInv /\ [StoreNext]_storeVars =>
            [\A j \in DOMAIN rows \ DOMAIN rows' :
                \/ rows[j].completed # NoTime /\ rows[j].completed < now - Retention + Second
                \/ rows[j].status = "dispatch_error"
                   /\ rows[j].updated < now - Retention + Second]_storeVars
    BY <1>1 DEF OldEnough
  <1>3. QED
    BY <1>2, RowsStart, RowsKept, PTL DEF StoreSpec, PruneRight

-----------------------------------------------------------------------------
(* Paging.                                                                   *)

\* Whatever number is in it, a set of numbers has a least one.
Less == {pair \in Nat \X Nat : pair[1] < pair[2]}

LEMMA LeastNumber ==
    ASSUME NEW T, T \subseteq Nat, T # {}
    PROVE  \E least \in T : \A t \in T : least <= t
<1>1. IsWellFoundedOn(Less, Nat)
  BY NatLessThanWellFounded, Zenon DEF OpToRel, Less
<1>2. PICK least \in T : \A t \in T : ~(<<t, least>> \in Less)
  BY <1>1, WFMin
<1>3. ASSUME NEW t \in T PROVE least <= t
  <2>1. t \in Nat /\ least \in Nat /\ <<t, least>> \notin Less
    BY <1>2
  <2>2. ~(t < least)
    BY <2>1 DEF Less
  <2> QED
    BY <2>1, <2>2
<1> QED
  BY <1>3

\* The rest of a time, as its text orders it: a whole second comes last.
LEMMA RestInText ==
    ASSUME NEW a \in 0 .. Second - 1
    PROVE  (a + Second - 1) % Second = IF a = 0 THEN Second - 1 ELSE a - 1
<1> DEFINE r == a + Second - 1
           q == r \div Second
           m == r % Second
<1>1. r \in Nat /\ Second \in Nat \ {0} /\ r >= Second - 1 /\ r < 2 * Second - 1
  BY StoreAssumption
<1>2. q \in Nat /\ m \in 0 .. Second - 1 /\ r = q * Second + m
  BY <1>1, Seconds
<1> HIDE DEF q, m
<1>3. q < 2
  <2>1. SUFFICES ASSUME q >= 2 PROVE FALSE
    BY <1>2
  <2>2. q * Second >= 2 * Second
    BY <1>1, <1>2, <2>1
  <2> QED
    BY <1>1, <1>2, <2>2
<1>4. q = 0 \/ q = 1
  BY <1>2, <1>3
<1>5. m = IF a = 0 THEN Second - 1 ELSE a - 1
  BY <1>1, <1>2, <1>4
<1> QED
  BY <1>5 DEF m

\* No two times have the same text.
LEMMA TextInjective ==
    ASSUME NEW t \in Nat, NEW u \in Nat, Text(t) = Text(u)
    PROVE  t = u
<1> DEFINE p == t \div Second
           q == u \div Second
           a == t % Second
           b == u % Second
<1>1. /\ p \in Nat /\ q \in Nat /\ Second \in Nat \ {0}
      /\ a \in 0 .. Second - 1 /\ b \in 0 .. Second - 1
      /\ t = p * Second + a /\ u = q * Second + b
  BY Seconds, StoreAssumption
<1>2. /\ Text(t) = p * Second + ((a + Second - 1) % Second)
      /\ Text(u) = q * Second + ((b + Second - 1) % Second)
  BY DEF Text
<1> HIDE DEF p, q, a, b
<1>3. /\ (a + Second - 1) % Second = IF a = 0 THEN Second - 1 ELSE a - 1
      /\ (b + Second - 1) % Second = IF b = 0 THEN Second - 1 ELSE b - 1
  BY <1>1, RestInText
<1> DEFINE x == IF a = 0 THEN Second - 1 ELSE a - 1
           y == IF b = 0 THEN Second - 1 ELSE b - 1
<1>4. x \in 0 .. Second - 1 /\ y \in 0 .. Second - 1 /\ (x = y => a = b)
  BY <1>1
<1>5. p * Second + x = q * Second + y
  BY <1>2, <1>3
<1> HIDE DEF x, y
<1>6. p = q
  <2>1. ASSUME NEW m \in Nat, NEW n \in Nat, m < n PROVE m * Second + Second <= n * Second
    <3>1. (m + 1) * Second <= n * Second
      BY <1>1, <2>1
    <3>2. (m + 1) * Second = m * Second + Second
      BY <1>1
    <3> QED
      BY <3>1, <3>2
  <2>2. p * Second \in Nat /\ q * Second \in Nat
    BY <1>1
  <2>3. ~(p < q)
    BY <1>1, <1>4, <1>5, <2>1, <2>2
  <2>4. ~(q < p)
    BY <1>1, <1>4, <1>5, <2>1, <2>2
  <2> QED
    BY <1>1, <2>3, <2>4
<1>7. x = y
  <2>1. p * Second \in Nat
    BY <1>1
  <2> QED
    BY <1>4, <1>5, <1>6, <2>1
<1> QED
  BY <1>1, <1>4, <1>6, <1>7

\* A text is a number, too.
LEMMA TextIsNat == \A t \in Nat : Text(t) \in Nat
<1> TAKE t \in Nat
<1>1. t \div Second \in Nat /\ Second \in Nat
  BY Seconds, StoreAssumption
<1>2. (t \div Second) * Second \in Nat
  BY <1>1
<1> QED
  BY <1>2, TextInSecond

\* The cursor is the last of the page, in the order of the text.
LEMMA CursorIsLast ==
    ASSUME StoreIInv, NEW page, page \subseteq DOMAIN rows, page # {}, NEW left
    PROVE  /\ \E j \in page : NextCursor(page, left) = rows[j].updated
           /\ \A j \in page : ~Before(rows[j].updated, NextCursor(page, left))
<1> DEFINE U == {rows[j].updated : j \in page}
           T == {Text(u) : u \in U}
<1>1. \A u \in U : u \in Nat
  BY StoreAssumption DEF StoreIInv, RowRight, Rows, Times
<1>2. T \subseteq Nat /\ T # {}
  BY <1>1, TextIsNat
<1>3. PICK least \in T : \A t \in T : least <= t
  BY <1>2, LeastNumber
<1>4. PICK u \in U : least = Text(u)
  OBVIOUS
<1>5. \A j \in page : ~Before(rows[j].updated, u)
  <2> TAKE j \in page
  <2>1. Text(rows[j].updated) \in T
    OBVIOUS
  <2> QED
    BY <1>2, <1>3, <1>4, <2>1 DEF Before
<1>6. /\ NextCursor(page, left) \in U
      /\ \A j \in page : ~Before(rows[j].updated, NextCursor(page, left))
  BY <1>5 DEF NextCursor
<1> QED
  BY <1>6

\* The smaller of two numbers.
LEMMA SmallerOfTwo ==
    ASSUME NEW a \in Int, NEW b \in Int
    PROVE  Min({a, b}) = IF a <= b THEN a ELSE b
  BY DEF Min

\* A page that is not all there is has a row.
LEMMA PageHasRow ==
    ASSUME NEW found, IsFiniteSet(found), NEW page, page \subseteq found, page # found,
           NEW limit \in Int, Cardinality(page) = Min({Cardinality(found), PageLimit(limit)})
    PROVE  page # {}
<1>1. SUFFICES ASSUME page = {} PROVE FALSE
  OBVIOUS
<1>2. Cardinality(page) = 0 /\ Cardinality(found) \in Nat /\ Cardinality(found) # 0
  BY <1>1, FS_EmptySet, FS_CardinalityType
<1>3. PageLimit(limit) \in Nat \ {0}
  BY StoreAssumption DEF PageLimit
<1> DEFINE n == Cardinality(found)
           m == PageLimit(limit)
<1>4. n \in Nat /\ n # 0 /\ m \in Nat /\ m # 0 /\ Min({n, m}) = 0
  BY <1>2, <1>3
<1> HIDE DEF n, m
<1>5. Min({n, m}) = IF n <= m THEN n ELSE m
  BY <1>4, SmallerOfTwo
<1> QED
  BY <1>4, <1>5

-----------------------------------------------------------------------------
\* The rows of a client's pages: a row that nobody has written since it began
\* has an instant of its own, and it has been shown, once, if and only if it is
\* wanted and not below the cursor.
Alone(j) == \A k \in DOMAIN rows \ {j} : rows[k].updated # rows[j].updated

Above(j) == cursor # NoTime /\ ~Before(rows[j].updated, cursor)

Shown(j) ==
    /\ Alone(j)
    /\ listing = "paging" =>
          shown[j] = IF rows[j].status \in filter /\ Above(j) THEN 1 ELSE 0
    /\ listing = "done" =>
          shown[j] = IF rows[j].status \in filter THEN 1 ELSE 0

PagesRight ==
    /\ IsFiniteSet(DOMAIN rows)
    /\ listing = "idle" => cursor = NoTime /\ \A j \in StoredJobs : shown[j] = 0
    /\ listing # "idle" => \A j \in DOMAIN rows \ changed : Shown(j)

\* At first the types are right, and there is no row.
LEMMA StoreTypesInit == StoreInit => StoreTypeOK
<1> SUFFICES ASSUME StoreInit PROVE StoreTypeOK
  OBVIOUS
<1>1. now \in Times /\ writes \in 0 .. MaxWrites
  BY StoreAssumption DEF StoreInit, Times
<1> QED
  BY <1>1 DEF StoreInit, StoreTypeOK

LEMMA PagesInit == StoreInit => PagesRight
  BY FS_EmptySet DEF StoreInit, PagesRight

\* What a write does to the rows: one of them is new, all others stay.
LEMMA WriteOne ==
    ASSUME StoreTypeOK, NEW j \in StoredJobs, Written(j)
    PROVE  /\ DOMAIN rows' = DOMAIN rows \cup {j}
           /\ rows'[j].updated = now
           /\ \A k \in DOMAIN rows \ {j} : rows'[k] = rows[k]
           /\ Touch(j) /\ UNCHANGED <<now, listing, filter, cursor, shown>>
<1>1. CASE UpsertQueued(j)
  BY <1>1 DEF UpsertQueued
<1>2. ASSUME NEW s \in Recorded, Mark(j, s) \/ MarkCompleted(j, s)
      PROVE  /\ DOMAIN rows' = DOMAIN rows \cup {j}
             /\ rows'[j].updated = now
             /\ \A k \in DOMAIN rows \ {j} : rows'[k] = rows[k]
             /\ Touch(j) /\ UNCHANGED <<now, listing, filter, cursor, shown>>
  <2>1. j \in DOMAIN rows /\ rows[j] \in Rows
    BY <1>2 DEF Mark, MarkCompleted, StoreTypeOK
  <2> QED
    BY <1>2, <2>1 DEF Mark, MarkCompleted, Rows
<1> QED
  BY <1>1, <1>2 DEF Written

\* A write that is not the row's own keeps its types, and so does its own.
LEMMA WriteTypes ==
    ASSUME StoreTypeOK, NEW j \in StoredJobs, Written(j)
    PROVE  StoreTypeOK'
<1>1. /\ DOMAIN rows' = DOMAIN rows \cup {j}
      /\ rows'[j].updated = now
      /\ \A k \in DOMAIN rows \ {j} : rows'[k] = rows[k]
      /\ Touch(j) /\ UNCHANGED <<now, listing, filter, cursor, shown>>
  BY WriteOne
<1>2. StoreIInv'
  BY WriteKeepsRows DEF StoreTypeOK, StoreIInv, RowRight
<1>3. rows'[j].completed <= now
  <2>1. now \in Int /\ NoTime <= now
    BY DEF StoreTypeOK, Times, NoTime
  <2>2. CASE UpsertQueued(j)
    BY <2>1, <2>2 DEF UpsertQueued, StoreTypeOK
  <2>3. ASSUME NEW s \in Recorded, Mark(j, s) PROVE rows'[j].completed <= now
    BY <2>3 DEF Mark, StoreTypeOK, Rows
  <2>4. ASSUME NEW s \in Recorded, MarkCompleted(j, s) PROVE rows'[j].completed <= now
    BY <2>1, <2>4 DEF MarkCompleted, StoreTypeOK, Rows
  <2> QED
    BY <2>2, <2>3, <2>4 DEF Written
<1>4. writes' \in 0 .. MaxWrites /\ changed' \subseteq StoredJobs
  BY <1>1, StoreAssumption DEF Touch, StoreTypeOK
<1>5. ASSUME NEW k \in DOMAIN rows'
      PROVE  /\ rows'[k] \in Rows /\ rows'[k].updated <= now' /\ rows'[k].completed <= now'
             /\ rows'[k].status \in Ended => rows'[k].completed = rows'[k].updated
  <2>1. RowRight(rows'[k])
    BY <1>2 DEF StoreIInv
  <2>2. now \in Int /\ now <= now
    BY DEF StoreTypeOK, Times
  <2>3. rows'[k].updated <= now /\ rows'[k].completed <= now
    BY <1>1, <1>3, <2>2 DEF StoreTypeOK
  <2> QED
    BY <1>1, <2>1, <2>3 DEF RowRight
<1> QED
  BY <1>1, <1>4, <1>5 DEF StoreTypeOK

\* A page keeps the types of the client's variables.
LEMMA PageTypes ==
    ASSUME StoreTypeOK, IsFiniteSet(DOMAIN rows), ListJobs
    PROVE  StoreTypeOK'
<1>1. StoreIInv
  BY DEF StoreTypeOK, StoreIInv, RowRight
<1> DEFINE found == {j \in DOMAIN rows : Wanted(j, cursor)}
<1>2. PICK limit \in Requested, page \in SUBSET found :
         /\ Cardinality(page) = Min({Cardinality(found), PageLimit(limit)})
         /\ shown' = [j \in StoredJobs |->
                       IF j \in page THEN Min({2, shown[j] + 1}) ELSE shown[j]]
         /\ \/ page = found /\ listing' = "done" /\ cursor' = cursor
            \/ /\ page # found
               /\ listing' = "paging"
               /\ cursor' = NextCursor(page, found \ page)
  BY DEF ListJobs
<1>3. cursor' \in Times \cup {NoTime}
  <2>1. CASE page = found
    BY <1>2, <2>1 DEF StoreTypeOK
  <2>2. CASE page # found
    <3>1. IsFiniteSet(found)
      BY FS_Subset
    <3>2. page # {}
      BY <1>2, <2>2, <3>1, PageHasRow, StoreAssumption
    <3>3. \E j \in page : cursor' = rows[j].updated
      BY <1>1, <1>2, <2>2, <3>2, CursorIsLast
    <3> QED
      BY <3>3 DEF StoreTypeOK, Rows
  <2> QED
    BY <2>1, <2>2
<1>4. shown' \in [StoredJobs -> 0 .. 2]
  <2>1. \A n \in 0 .. 2 : Min({2, n + 1}) \in 0 .. 2
    BY SmallerOfTwo
  <2> QED
    BY <1>2, <2>1 DEF StoreTypeOK
<1>5. listing' \in {"idle", "paging", "done"}
  BY <1>2
<1>6. UNCHANGED <<now, writes, rows, filter, changed>>
  BY DEF ListJobs
<1> QED
  BY <1>3, <1>4, <1>5, <1>6 DEF StoreTypeOK

\* Every step keeps the types.
LEMMA StoreTypesStep ==
    StoreTypeOK /\ PagesRight /\ [StoreNext]_storeVars => StoreTypeOK'
<1> SUFFICES ASSUME StoreTypeOK, PagesRight, [StoreNext]_storeVars PROVE StoreTypeOK'
  OBVIOUS
<1>1. ASSUME NEW j \in StoredJobs, Written(j) PROVE StoreTypeOK'
  BY <1>1, WriteTypes
<1>2. CASE Prune
  BY <1>2 DEF Prune, StoreTypeOK
<1>3. CASE StoreTick
  <2>1. now' \in Times /\ now \in Int /\ now' = now + 1
    BY <1>3, StoreAssumption DEF StoreTick, StoreTypeOK, Times
  <2>2. ASSUME NEW j \in DOMAIN rows
        PROVE  rows[j].updated <= now' /\ rows[j].completed <= now'
    BY <2>1 DEF StoreTypeOK, Rows, Times, NoTime
  <2> QED
    BY <1>3, <2>1, <2>2 DEF StoreTick, StoreTypeOK
<1>4. CASE BeginList
  BY <1>4, StoreAssumption DEF BeginList, StoreTypeOK
<1>5. CASE ListJobs
  BY <1>5, PageTypes DEF PagesRight
<1>6. CASE UNCHANGED storeVars
  BY <1>6 DEF storeVars, StoreTypeOK
<1> QED
  BY <1>1, <1>2, <1>3, <1>4, <1>5, <1>6 DEF StoreNext, Written

\* Writes concern only the rows they change and those of the same instant.
LEMMA WriteKeepsPages ==
    ASSUME StoreTypeOK, PagesRight, NEW j \in StoredJobs, Written(j)
    PROVE  PagesRight'
<1>1. /\ DOMAIN rows' = DOMAIN rows \cup {j}
      /\ rows'[j].updated = now
      /\ \A k \in DOMAIN rows \ {j} : rows'[k] = rows[k]
      /\ Touch(j) /\ UNCHANGED <<now, listing, filter, cursor, shown>>
  BY WriteOne
<1>2. IsFiniteSet(DOMAIN rows')
  BY <1>1, FS_AddElement DEF PagesRight
<1>3. ASSUME listing # "idle", NEW k \in DOMAIN rows' \ changed' PROVE Shown(k)'
  <2>1. changed' = changed \cup {j} \cup {i \in DOMAIN rows : rows[i].updated = now}
    BY <1>1, <1>3 DEF Touch
  <2>2. /\ k # j /\ k \in DOMAIN rows \ changed
        /\ rows'[k] = rows[k] /\ rows[k].updated # now
    BY <1>1, <2>1
  <2>3. Shown(k)
    BY <1>3, <2>2 DEF PagesRight
  <2>4. Alone(k)'
    BY <1>1, <2>2, <2>3 DEF Shown, Alone
  <2> QED
    BY <1>1, <2>2, <2>3, <2>4 DEF Shown, Above
<1> QED
  BY <1>1, <1>2, <1>3 DEF PagesRight

\* Rows that go leave the others alone.
LEMMA PruneKeepsPages ==
    ASSUME PagesRight, Prune
    PROVE  PagesRight'
<1>1. /\ DOMAIN rows' \subseteq DOMAIN rows
      /\ \A k \in DOMAIN rows' : rows'[k] = rows[k]
      /\ UNCHANGED <<listing, filter, cursor, shown>> /\ changed \subseteq changed'
  BY DEF Prune
<1>2. IsFiniteSet(DOMAIN rows')
  BY <1>1, FS_Subset DEF PagesRight
<1>3. ASSUME listing # "idle", NEW k \in DOMAIN rows' \ changed' PROVE Shown(k)'
  <2>1. Shown(k) /\ rows'[k] = rows[k]
    BY <1>1, <1>3 DEF PagesRight
  <2>2. Alone(k)'
    BY <1>1, <2>1 DEF Shown, Alone
  <2> QED
    BY <1>1, <2>1, <2>2 DEF Shown, Above
<1> QED
  BY <1>1, <1>2, <1>3 DEF PagesRight

\* When a listing begins, nothing has been shown, and rows that share their
\* instant with another one do not count.
LEMMA BeginKeepsPages ==
    ASSUME StoreTypeOK, PagesRight, BeginList
    PROVE  PagesRight'
<1>1. /\ listing' = "paging" /\ UNCHANGED <<rows, cursor, shown>> /\ cursor = NoTime
      /\ \A j \in StoredJobs : shown[j] = 0
      /\ changed' = {j \in DOMAIN rows :
                      \E k \in DOMAIN rows \ {j} : rows[k].updated = rows[j].updated}
  BY DEF BeginList, PagesRight
<1>2. ASSUME NEW j \in DOMAIN rows' \ changed' PROVE Shown(j)'
  <2>1. Alone(j)' /\ shown[j] = 0
    BY <1>1 DEF Alone, StoreTypeOK
  <2> QED
    BY <1>1, <2>1 DEF Shown, Above
<1> QED
  BY <1>1, <1>2 DEF PagesRight

\* A row that nobody touches is on the page that its text belongs to: not on one
\* before, as it was below those; not on one behind, as its text is no other's.
LEMMA ListKeepsPages ==
    ASSUME StoreTypeOK, PagesRight, ListJobs
    PROVE  PagesRight'
<1> DEFINE found == {j \in DOMAIN rows : Wanted(j, cursor)}
<1>1. PICK limit \in Requested, page \in SUBSET found :
         /\ Cardinality(page) = Min({Cardinality(found), PageLimit(limit)})
         /\ \A j \in page, k \in found \ page : ~Before(rows[j].updated, rows[k].updated)
         /\ shown' = [j \in StoredJobs |->
                       IF j \in page THEN Min({2, shown[j] + 1}) ELSE shown[j]]
         /\ \/ page = found /\ listing' = "done" /\ cursor' = cursor
            \/ /\ page # found
               /\ listing' = "paging"
               /\ cursor' = NextCursor(page, found \ page)
  BY DEF ListJobs
<1>2. UNCHANGED <<rows, filter, changed>> /\ listing = "paging"
  BY DEF ListJobs
<1>3. StoreIInv
  BY DEF StoreTypeOK, StoreIInv, RowRight
<1>4. ASSUME NEW j \in DOMAIN rows \ changed PROVE Shown(j)'
  <2>1. /\ Alone(j) /\ j \in StoredJobs
        /\ shown[j] = IF rows[j].status \in filter /\ Above(j) THEN 1 ELSE 0
    BY <1>2 DEF PagesRight, Shown, StoreTypeOK
  <2>2. j \in found <=> rows[j].status \in filter /\ ~Above(j)
    BY DEF Wanted, Above, Before
  <2>3. shown'[j] = IF j \in page THEN 1 ELSE shown[j]
    <3>1. j \in page => shown[j] = 0
      BY <2>1, <2>2
    <3>2. Min({2, 0 + 1}) = 1
      BY SmallerOfTwo
    <3> QED
      BY <1>1, <2>1, <3>1, <3>2
  <2>4. CASE page = found
    BY <1>1, <1>2, <2>1, <2>2, <2>3, <2>4 DEF Shown, Alone
  <2>5. CASE page # found
    <3>1. listing' = "paging" /\ cursor' = NextCursor(page, found \ page)
      BY <1>1, <2>5
    <3>2. page # {}
      <4>1. IsFiniteSet(found) /\ limit \in Int
        BY FS_Subset, StoreAssumption DEF PagesRight
      <4> QED
        BY <1>1, <2>5, <4>1, PageHasRow
    <3>3. PICK last \in page : cursor' = rows[last].updated
      BY <1>3, <3>1, <3>2, CursorIsLast
    <3>4. \A i \in page : ~Before(rows[i].updated, cursor')
      BY <1>3, <3>1, <3>2, CursorIsLast
    <3>5. cursor' \in Nat /\ rows[j].updated \in Nat /\ cursor' # NoTime
      BY <3>3, StoreAssumption DEF StoreTypeOK, Rows, Times, NoTime
    <3>6. CASE j \in page
      BY <1>2, <2>1, <2>2, <2>3, <3>1, <3>4, <3>5, <3>6 DEF Shown, Alone, Above
    <3>7. CASE j \in found \ page
      <4>1. ~Before(cursor', rows[j].updated)
        BY <1>1, <3>3, <3>7
      <4>2. Text(cursor') # Text(rows[j].updated)
        BY <2>1, <3>3, <3>5, <3>7, TextInjective DEF Alone
      <4>3. Before(rows[j].updated, cursor')
        BY <3>5, <4>1, <4>2, TextIsNat DEF Before
      <4> QED
        BY <1>2, <2>1, <2>2, <2>3, <3>1, <3>7, <4>3 DEF Shown, Alone, Above
    <3>8. CASE j \notin found
      <4>1. Above(j) => ~Before(rows[j].updated, cursor')
        <5>1. SUFFICES ASSUME Above(j), Before(rows[j].updated, cursor') PROVE FALSE
          OBVIOUS
        <5>2. cursor \in Nat /\ ~Before(rows[j].updated, cursor) /\ Before(cursor', cursor)
          <6>1. cursor # NoTime /\ ~Before(rows[j].updated, cursor)
            BY <5>1 DEF Above
          <6>2. cursor \in Nat
            BY <6>1 DEF StoreTypeOK, Times
          <6> QED
            BY <3>3, <6>1, <6>2 DEF Wanted
        <5> QED
          BY <3>5, <5>1, <5>2, TextIsNat DEF Before
      <4> QED
        BY <1>2, <2>1, <2>2, <2>3, <3>1, <3>5, <3>8, <4>1 DEF Shown, Alone, Above
    <3> QED
      BY <3>6, <3>7, <3>8
  <2> QED
    BY <2>4, <2>5
<1>5. listing' # "idle"
  BY <1>1
<1> QED
  BY <1>2, <1>4, <1>5 DEF PagesRight

\* Every step keeps what the pages show.
LEMMA PagesStep == StoreTypeOK /\ PagesRight /\ [StoreNext]_storeVars => PagesRight'
<1> SUFFICES ASSUME StoreTypeOK, PagesRight, [StoreNext]_storeVars PROVE PagesRight'
  OBVIOUS
<1>1. CASE StoreTick \/ UNCHANGED storeVars
  BY <1>1 DEF StoreTick, storeVars, PagesRight, Shown, Alone, Above
<1> QED
  BY <1>1, WriteKeepsPages, PruneKeepsPages, BeginKeepsPages, ListKeepsPages
  DEF StoreNext, Written

\* Types and pages are right in every reachable state.
LEMMA PagesInvariant == StoreSpec => [](StoreTypeOK /\ PagesRight)
  BY StoreTypesInit, PagesInit, StoreTypesStep, PagesStep, PTL DEF StoreSpec

\* The store's rows and the client's pages keep their types; a row that says its
\* job has ended was last written when it did.
THEOREM StoreTypeCorrect == StoreSpec => []StoreTypeOK
  BY PagesInvariant, PTL

\* A job that is not written while a client pages, and has an instant of its
\* own, is on exactly one page, for any jobs, page sizes, resolution of the clock,
\* and writes and prunings in between.
THEOREM JobsListedOnce == StoreSpec => []ListedOnce
<1>1. StoreTypeOK /\ PagesRight => ListedOnce
  BY DEF PagesRight, Shown, ListedOnce
<1> QED
  BY <1>1, PagesInvariant, PTL

-----------------------------------------------------------------------------
(* Names of the bucket.                                                      *)

\* Keys are sequences that are not empty, of parts; their places are numbers.
LEMMA KeyFacts ==
    /\ Len(KeyOrder) \in Nat
    /\ \A i \in Places : KeyOrder[i] \in Keys
    /\ \A key \in Keys : \E i \in Places : KeyOrder[i] = key
    /\ \A i, j \in Places : KeyOrder[i] = KeyOrder[j] => i = j
    /\ \A key \in Keys : key \in Seq(Parts) /\ key # <<>>
<1>1. KeyOrder \in Seq(Seq(Parts) \ {<<>>})
  BY CacheAssumption
<1>2. Len(KeyOrder) \in Nat /\ DOMAIN KeyOrder = Places
  BY <1>1, LenProperties DEF Places
<1>3. \A i \in Places : KeyOrder[i] \in Seq(Parts) \ {<<>>}
  BY <1>1, ElementOfSeq DEF Places
<1> QED
  BY <1>2, <1>3, CacheAssumption DEF Keys, Range, IsInjective

\* Everything a name is made of.
AllParts == Parts \cup Versions \cup {Slash}

LEMMA KeyInParts ==
    /\ \A key \in Keys : key \in Seq(AllParts)
    /\ \A v \in Versions : v \in AllParts
    /\ Slash \in AllParts
  BY KeyFacts, SeqMonotonic DEF AllParts

\* The parts of a name: the version, a slash and the parts of the key.
LEMMA NameParts ==
    ASSUME NEW v \in Versions, NEW key \in Keys
    PROVE  /\ ObjectKey(key, v) \in Seq(AllParts)
           /\ Len(ObjectKey(key, v)) = Len(key) + 2
           /\ ObjectKey(key, v)[1] = v
           /\ ObjectKey(key, v)[2] = Slash
           /\ \A i \in 1 .. Len(key) : ObjectKey(key, v)[i + 2] = key[i]
<1> DEFINE head == <<v, Slash>>
<1>1. head \in Seq(AllParts) /\ Len(head) = 2 /\ head[1] = v /\ head[2] = Slash
  BY KeyInParts
<1>2. key \in Seq(AllParts) /\ Len(key) \in Nat
  BY KeyInParts, LenProperties
<1> HIDE DEF head
<1>3. /\ head \o key \in Seq(AllParts) /\ Len(head \o key) = 2 + Len(key)
      /\ \A i \in 1 .. 2 + Len(key) : (head \o key)[i] = IF i <= 2 THEN head[i] ELSE key[i - 2]
  <2>1. /\ head \o key \in Seq(AllParts) /\ Len(head \o key) = Len(head) + Len(key)
        /\ \A i \in 1 .. Len(head) + Len(key) :
              (head \o key)[i] = IF i <= Len(head) THEN head[i] ELSE key[i - Len(head)]
    BY <1>1, <1>2, ConcatProperties, Zenon
  <2> QED
    BY <1>1, <2>1
<1>4. (head \o key)[1] = v /\ (head \o key)[2] = Slash
  BY <1>1, <1>2, <1>3
<1>5. ASSUME NEW i \in 1 .. Len(key) PROVE (head \o key)[i + 2] = key[i]
  BY <1>2, <1>3
<1>6. ObjectKey(key, v) = head \o key
  BY DEF ObjectKey, head
<1> QED
  BY <1>2, <1>3, <1>4, <1>5, <1>6

\* Entries have names of their own.
LEMMA NamesDiffer ==
    ASSUME NEW key \in Keys, NEW v \in Versions, NEW other \in Keys, NEW w \in Versions,
           ObjectKey(key, v) = ObjectKey(other, w)
    PROVE  key = other /\ v = w
<1>1. key \in Seq(AllParts) /\ other \in Seq(AllParts)
  BY KeyInParts
<1>2. Len(key) \in Nat /\ Len(other) \in Nat
  BY <1>1, LenProperties
<1> DEFINE name == ObjectKey(key, v)
           name2 == ObjectKey(other, w)
<1>3. /\ Len(name) = Len(key) + 2 /\ name[1] = v
      /\ \A i \in 1 .. Len(key) : name[i + 2] = key[i]
  BY NameParts
<1>4. /\ Len(name2) = Len(other) + 2 /\ name2[1] = w
      /\ \A i \in 1 .. Len(other) : name2[i + 2] = other[i]
  BY NameParts
<1>5. name = name2
  OBVIOUS
<1> HIDE DEF name, name2
<1>6. v = w /\ Len(key) = Len(other) /\ \A i \in 1 .. Len(key) : key[i] = other[i]
  BY <1>2, <1>3, <1>4, <1>5
<1> QED
  BY <1>1, <1>6, SeqEqual

\* The path of a download URL.
LEMMA PathParts ==
    ASSUME NEW v \in Versions, NEW key \in Keys
    PROVE  /\ BlobPath(key, v) \in Seq(AllParts)
           /\ Len(BlobPath(key, v)) = Len(key) + 2
           /\ \A i \in 1 .. Len(key) : BlobPath(key, v)[i] = key[i]
           /\ BlobPath(key, v)[Len(key) + 1] = Slash
           /\ BlobPath(key, v)[Len(key) + 2] = v
<1> DEFINE tail == <<Slash, v>>
<1>1. tail \in Seq(AllParts) /\ Len(tail) = 2 /\ tail[1] = Slash /\ tail[2] = v
  BY KeyInParts
<1>2. key \in Seq(AllParts) /\ Len(key) \in Nat
  BY KeyInParts, LenProperties
<1> HIDE DEF tail
<1> DEFINE n == Len(key)
<1>3. /\ key \o tail \in Seq(AllParts) /\ Len(key \o tail) = n + 2
      /\ \A i \in 1 .. n + 2 : (key \o tail)[i] = IF i <= n THEN key[i] ELSE tail[i - n]
  <2>1. /\ key \o tail \in Seq(AllParts) /\ Len(key \o tail) = n + Len(tail)
        /\ \A i \in 1 .. n + Len(tail) :
              (key \o tail)[i] = IF i <= n THEN key[i] ELSE tail[i - n]
    BY <1>1, <1>2, ConcatProperties, Zenon
  <2> QED
    BY <1>1, <2>1
<1>4. n \in Nat
  BY <1>2
<1>5. BlobPath(key, v) = key \o tail
  BY DEF BlobPath, tail
<1> HIDE DEF n
<1>6. (n + 1) - n = 1 /\ (n + 2) - n = 2 /\ n + 1 \in 1 .. n + 2 /\ n + 2 \in 1 .. n + 2
      /\ ~(n + 1 <= n) /\ ~(n + 2 <= n)
  BY <1>4
<1>7. (key \o tail)[n + 1] = Slash /\ (key \o tail)[n + 2] = v
  BY <1>1, <1>3, <1>6
<1>8. \A i \in 1 .. n : (key \o tail)[i] = key[i]
  BY <1>3, <1>4
<1> QED
  BY <1>3, <1>5, <1>7, <1>8 DEF n

\* The first slash of a path that has one.
FirstSlash(path) ==
    CHOOSE i \in DOMAIN path : path[i] = Slash /\ \A j \in 1 .. i - 1 : path[j] # Slash

LEMMA FirstSlashExists ==
    ASSUME NEW T, NEW path \in Seq(T), NEW n \in 1 .. Len(path), path[n] = Slash
    PROVE  /\ FirstSlash(path) \in 1 .. n /\ path[FirstSlash(path)] = Slash
           /\ \A j \in 1 .. FirstSlash(path) - 1 : path[j] # Slash
<1>1. Len(path) \in Nat /\ DOMAIN path = 1 .. Len(path)
  BY LenProperties
<1> DEFINE S == {i \in 1 .. Len(path) : path[i] = Slash}
<1>2. S \subseteq Nat /\ n \in S
  BY <1>1
<1>3. PICK first \in S : \A i \in S : first <= i
  BY <1>2, LeastNumber
<1>4. ASSUME NEW j \in 1 .. first - 1 PROVE path[j] # Slash
  <2>1. j \in 1 .. Len(path) /\ ~(first <= j)
    BY <1>1, <1>3
  <2> QED
    BY <1>3, <2>1
<1>5. first \in DOMAIN path /\ path[first] = Slash
  BY <1>1, <1>3
<1>6. /\ FirstSlash(path) \in DOMAIN path /\ path[FirstSlash(path)] = Slash
      /\ \A j \in 1 .. FirstSlash(path) - 1 : path[j] # Slash
  BY <1>4, <1>5 DEF FirstSlash
<1>7. FirstSlash(path) <= n
  BY <1>1, <1>6
<1> QED
  BY <1>1, <1>6, <1>7

\* What handleBlobDownload makes of a key without slashes is its object's name.
LEMMA PlainName ==
    ASSUME NEW key \in Keys, NEW v \in Versions, Slash \notin Range(key)
    PROVE  DownloadName(BlobPath(key, v)) = ObjectKey(key, v)
<1> DEFINE path == BlobPath(key, v)
           n == Len(key)
<1>1. key \in Seq(AllParts) /\ v \in AllParts /\ Slash \in AllParts
  BY KeyInParts
<1>2. n \in Nat /\ DOMAIN key = 1 .. n
  BY <1>1, LenProperties
<1>3. /\ path \in Seq(AllParts) /\ Len(path) = n + 2
      /\ \A i \in 1 .. n : path[i] = key[i]
      /\ path[n + 1] = Slash /\ path[n + 2] = v
  BY PathParts
<1>4. \A i \in 1 .. n : key[i] # Slash
  BY <1>2 DEF Range
<1> HIDE DEF path, n
<1>5. FirstSlash(path) = n + 1
  <2>1. n + 1 \in 1 .. Len(path)
    BY <1>2, <1>3
  <2>2. FirstSlash(path) \in 1 .. n + 1 /\ path[FirstSlash(path)] = Slash
    BY <1>3, <2>1, FirstSlashExists
  <2> QED
    BY <1>2, <1>3, <1>4, <2>2
<1>6. SubSeq(path, n + 2, n + 2) = <<v>>
  <2>1. /\ SubSeq(path, n + 2, n + 2) \in Seq(AllParts) /\ Len(SubSeq(path, n + 2, n + 2)) = 1
        /\ SubSeq(path, n + 2, n + 2)[1] = v
    <3> DEFINE m == n + 2
    <3>1. m \in Int /\ path[m] = v /\ \A i \in m .. m : path[i] \in AllParts
      BY <1>1, <1>2, <1>3
    <3> HIDE DEF m
    <3>2. /\ SubSeq(path, m, m) \in Seq(AllParts)
          /\ Len(SubSeq(path, m, m)) = IF m <= m THEN m - m + 1 ELSE 0
          /\ \A i \in 1 .. m - m + 1 : SubSeq(path, m, m)[i] = path[m + i - 1]
      BY <3>1, SubSeqProperties, SMTT(20)
    <3>3. m - m + 1 = 1 /\ m + 1 - 1 = m /\ m <= m /\ 1 \in 1 .. 1
      BY <3>1
    <3>4. Len(SubSeq(path, m, m)) = 1 /\ SubSeq(path, m, m)[1] = v
      BY <3>1, <3>2, <3>3
    <3> QED
      BY <3>2, <3>4 DEF m
  <2> DEFINE last == SubSeq(path, n + 2, n + 2)
             one == <<v>>
  <2>2. one \in Seq(AllParts) /\ Len(one) = 1 /\ one[1] = v
    BY <1>1
  <2> HIDE DEF last, one
  <2>3. last \in Seq(AllParts) /\ Len(last) = Len(one) /\ \A i \in 1 .. Len(last) : last[i] = one[i]
    BY <2>1, <2>2 DEF last
  <2>4. last = one
    BY <2>2, <2>3, SeqEqual
  <2> QED
    BY <2>4 DEF last, one
<1>7. SubSeq(path, 1, n) = key
  <2>1. \A i \in 1 .. n : path[i] \in AllParts
    BY <1>1, <1>2, <1>3, ElementOfSeq DEF n
  <2>2. /\ SubSeq(path, 1, n) \in Seq(AllParts)
        /\ Len(SubSeq(path, 1, n)) = IF 1 <= n THEN n - 1 + 1 ELSE 0
        /\ \A i \in 1 .. n - 1 + 1 : SubSeq(path, 1, n)[i] = path[1 + i - 1]
    BY <1>2, <2>1, SubSeqProperties
  <2>3. Len(SubSeq(path, 1, n)) = n /\ \A i \in 1 .. n : SubSeq(path, 1, n)[i] = key[i]
    BY <1>2, <1>3, <2>2
  <2> QED
    BY <1>1, <2>2, <2>3, SeqEqual DEF n
<1>8. DownloadName(path) = (<<v>> \o <<Slash>>) \o key
  <2>1. (n + 1) + 1 = n + 2 /\ (n + 1) - 1 = n
    BY <1>2
  <2>2. DownloadName(path) =
            SubSeq(path, (n + 1) + 1, n + 2) \o <<Slash>> \o SubSeq(path, 1, (n + 1) - 1)
    BY <1>3, <1>5 DEF DownloadName, FirstSlash
  <2> QED
    BY <1>6, <1>7, <2>1, <2>2
<1>9. <<v>> \o <<Slash>> = <<v, Slash>>
  <2> DEFINE s1 == <<v>>
             s2 == <<Slash>>
             pair == <<v, Slash>>
  <2>1. /\ s1 \in Seq(AllParts) /\ Len(s1) = 1 /\ s1[1] = v
        /\ s2 \in Seq(AllParts) /\ Len(s2) = 1 /\ s2[1] = Slash
        /\ pair \in Seq(AllParts) /\ Len(pair) = 2 /\ pair[1] = v /\ pair[2] = Slash
    BY <1>1
  <2> HIDE DEF s1, s2, pair
  <2>2. /\ s1 \o s2 \in Seq(AllParts) /\ Len(s1 \o s2) = Len(s1) + Len(s2)
        /\ \A i \in 1 .. Len(s1) + Len(s2) :
              (s1 \o s2)[i] = IF i <= Len(s1) THEN s1[i] ELSE s2[i - Len(s1)]
    BY <2>1, ConcatProperties, Zenon
  <2>3. Len(s1 \o s2) = Len(pair) /\ \A i \in 1 .. Len(s1 \o s2) : (s1 \o s2)[i] = pair[i]
    BY <2>1, <2>2
  <2>4. s1 \o s2 = pair
    BY <2>1, <2>2, <2>3, SeqEqual
  <2> QED
    BY <2>4 DEF s1, s2, pair
<1> QED
  BY <1>8, <1>9 DEF ObjectKey, path

\* Of a key with slashes, it asks for an object of no version: what begins with
\* a part of a key is not the name of an object.
LEMMA SlashedName ==
    ASSUME NEW key \in Keys, NEW v \in Versions, Slash \in Range(key),
           Parts \cap Versions = {}
    PROVE  DownloadName(BlobPath(key, v)) \notin Names
<1> DEFINE path == BlobPath(key, v)
           n == Len(key)
           f == FirstSlash(path)
           rest == SubSeq(path, f + 1, n + 2)
           first == SubSeq(path, 1, f - 1)
<1>1. key \in Seq(AllParts) /\ key \in Seq(Parts) /\ v \in AllParts /\ Slash \in AllParts
  BY KeyInParts, KeyFacts
<1>2. n \in Nat /\ DOMAIN key = 1 .. n
  BY <1>1, LenProperties
<1>3. /\ path \in Seq(AllParts) /\ Len(path) = n + 2
      /\ \A i \in 1 .. n : path[i] = key[i]
      /\ path[n + 1] = Slash /\ path[n + 2] = v
  BY PathParts
<1>4. \A i \in 1 .. n : key[i] \in Parts
  BY <1>1, ElementOfSeq
<1>5. PICK s \in 1 .. n : key[s] = Slash
  BY <1>2 DEF Range
<1>6. DownloadName(path) = (rest \o <<Slash>>) \o first
  BY <1>3 DEF DownloadName, FirstSlash
<1> HIDE DEF path, n, f
<1>7. f \in 1 .. n
  <2>1. s \in 1 .. Len(path) /\ path[s] = Slash
    BY <1>2, <1>3, <1>5
  <2>2. f \in 1 .. s
    BY <1>3, <2>1, FirstSlashExists DEF f
  <2> QED
    BY <1>2, <2>2
<1>8. \A i \in 1 .. n + 2 : path[i] \in AllParts
  BY <1>3, ElementOfSeq
<1>9. rest \in Seq(AllParts) /\ Len(rest) \in Nat \ {0} /\ rest[1] = path[f + 1]
  <2>1. f + 1 \in Int /\ n + 2 \in Int /\ \A i \in f + 1 .. n + 2 : path[i] \in AllParts
    BY <1>2, <1>7, <1>8
  <2>2. /\ rest \in Seq(AllParts)
        /\ Len(rest) = IF f + 1 <= n + 2 THEN (n + 2) - (f + 1) + 1 ELSE 0
        /\ \A i \in 1 .. (n + 2) - (f + 1) + 1 : rest[i] = path[(f + 1) + i - 1]
    BY <2>1, SubSeqProperties
  <2>3. (n + 2) - (f + 1) + 1 \in Nat \ {0} /\ f + 1 <= n + 2 /\ (f + 1) + 1 - 1 = f + 1
    BY <1>2, <1>7
  <2> HIDE DEF rest
  <2> QED
    BY <2>2, <2>3
<1>10. first \in Seq(AllParts)
  <2>1. f - 1 \in Int /\ \A i \in 1 .. f - 1 : path[i] \in AllParts
    BY <1>2, <1>7, <1>8
  <2> QED
    BY <2>1, SubSeqProperties
<1>11. path[f + 1] \notin Versions
  <2>1. f + 1 \in 1 .. n \/ f + 1 = n + 1
    BY <1>2, <1>7
  <2> QED
    BY <1>3, <1>4, <2>1, CacheAssumption
<1> HIDE DEF rest, first
<1> DEFINE begin == rest \o <<Slash>>
<1>12. begin \in Seq(AllParts) /\ Len(begin) \in Nat \ {0} /\ begin[1] = rest[1]
  <2>1. <<Slash>> \in Seq(AllParts) /\ Len(<<Slash>>) = 1
    BY <1>1
  <2>2. /\ begin \in Seq(AllParts) /\ Len(begin) = Len(rest) + 1
        /\ \A i \in 1 .. Len(rest) + 1 : begin[i] = IF i <= Len(rest) THEN rest[i]
                                                     ELSE <<Slash>>[i - Len(rest)]
    BY <1>9, <2>1, ConcatProperties
  <2> HIDE DEF begin
  <2> QED
    BY <1>9, <2>2
<1> HIDE DEF begin
<1>13. (begin \o first)[1] = rest[1]
  <2>1. \A i \in 1 .. Len(begin) + Len(first) :
            (begin \o first)[i] = IF i <= Len(begin) THEN begin[i] ELSE first[i - Len(begin)]
    BY <1>10, <1>12, ConcatProperties
  <2>2. Len(first) \in Nat
    BY <1>10, LenProperties
  <2> QED
    BY <1>12, <2>1, <2>2
<1>14. \A name \in Names : name[1] \in Versions
  <2>1. ASSUME NEW k \in Keys, NEW w \in Versions PROVE ObjectKey(k, w)[1] = w
    BY NameParts
  <2> QED
    BY <2>1 DEF Names
<1> QED
  BY <1>6, <1>9, <1>11, <1>13, <1>14 DEF begin, path

-----------------------------------------------------------------------------
(* Listing.                                                                  *)

\* The place that a continuation token stands for.
LEMMA LastListed ==
    ASSUME NEW S, S \subseteq Places
    PROVE  /\ Max({0} \cup S) \in {0} \cup S
           /\ \A i \in S : i <= Max({0} \cup S)
<1> DEFINE n == Len(KeyOrder)
           all == {0} \cup S
           T == {n - i : i \in all}
<1>1. n \in Nat /\ \A i \in all : i \in Nat /\ i <= n
  BY KeyFacts DEF Places
<1> HIDE DEF n
<1>2. T \subseteq Nat /\ T # {}
  BY <1>1
<1>3. PICK least \in T : \A t \in T : least <= t
  BY <1>2, LeastNumber
<1>4. PICK last \in all : least = n - last
  OBVIOUS
<1>5. \A i \in all : last >= i
  <2> TAKE i \in all
  <2>1. n - i \in T
    OBVIOUS
  <2>2. n - last <= n - i
    BY <1>3, <1>4, <2>1
  <2> QED
    BY <1>1, <2>2
<1> HIDE DEF all
<1>6. Max(all) \in all /\ \A i \in all : Max(all) >= i
  BY <1>5 DEF Max
<1>7. \A i \in all : i <= Max(all)
  BY <1>1, <1>6
<1> QED
  BY <1>6, <1>7 DEF all

\* The first of some places.
LEMMA FirstPlace ==
    ASSUME NEW S, S \subseteq Places, S # {}
    PROVE  Min(S) \in S
<1>1. S \subseteq Nat
  BY DEF Places
<1>2. \E least \in S : \A i \in S : least <= i
  BY <1>1, LeastNumber
<1> QED
  BY <1>2 DEF Min

\* A page leaves out nothing before the last of its objects.
LEMMA PageLeavesNothing ==
    ASSUME NEW version, NEW start \in Nat, NEW j \in Page(version, start),
           NEW i \in Stored(version), start < i, i <= j
    PROVE  i \in Page(version, start)
<1> DEFINE left == {k \in Stored(version) : k > start}
           upto(k) == {l \in left : l <= k}
<1>1. left \subseteq 1 .. Len(KeyOrder) /\ Len(KeyOrder) \in Nat
  BY KeyFacts DEF Stored, Places
<1>2. i \in left /\ j \in left /\ Cardinality(upto(j)) <= PageSize
  BY <1>1 DEF Page
<1>3. IsFiniteSet(left)
  <2>1. IsFiniteSet(1 .. Len(KeyOrder))
    BY <1>1, FS_Interval
  <2> QED
    BY <1>1, <2>1, FS_Subset
<1>4. IsFiniteSet(upto(j)) /\ upto(i) \subseteq upto(j)
  BY <1>1, <1>2, <1>3, FS_Subset
<1>5. /\ Cardinality(upto(i)) <= Cardinality(upto(j))
      /\ Cardinality(upto(i)) \in Nat /\ Cardinality(upto(j)) \in Nat
  BY <1>4, FS_Subset, FS_CardinalityType
<1>6. Cardinality(upto(i)) <= PageSize
  <2> DEFINE a == Cardinality(upto(i))
             b == Cardinality(upto(j))
  <2>1. a \in Nat /\ b \in Nat /\ a <= b /\ b <= PageSize /\ PageSize \in Nat
    BY <1>2, <1>5, CacheAssumption
  <2> HIDE DEF a, b
  <2>2. a <= PageSize
    BY <2>1
  <2> QED
    BY <2>2 DEF a
<1> QED
  BY <1>2, <1>6 DEF Page

\* What is matched has been listed.
LEMMA MatchesListed ==
    ASSUME NEW S, NEW candidates
    PROVE  Matches(S, candidates) \subseteq S
  BY DEF Matches

\* A place that is listed and has a candidate for its key is matched, and no
\* other one if there is no other candidate.
LEMMA ExactMatched ==
    ASSUME NEW S, S \subseteq Places, NEW i \in S, NEW candidates, KeyOrder[i] \in candidates
    PROVE  /\ i \in Matches(S, candidates)
           /\ candidates = {KeyOrder[i]} => Matches(S, candidates) = {i}
<1> DEFINE k == KeyOrder[i]
           exact == {j \in S : KeyOrder[j] = k}
<1>1. i \in exact /\ k \in candidates /\ k # <<>>
  BY KeyFacts
<1>2. exact = {i}
  BY <1>1, KeyFacts
<1> QED
  BY <1>1, <1>2 DEF Matches

-----------------------------------------------------------------------------
(* The cache.  A reserved id is the one of the caller's own entry; an object   *)
(* is one that was uploaded under the entry it names; and what was saved       *)
(* before a lookup began is found there by every page of it.                   *)

\* The entry a client has a call for.
Called(c) == call[c] # "idle"

UploadsRight ==
    \A c \in Clients : call[c] = "reserved" => pending[PodOf[c]][upload[c]] = Entry(c)

ObjectsRight ==
    \A n \in Names : objects[n] # NoArchive =>
        /\ Called(objects[n])
        /\ n = ObjectKey(request[objects[n]][1], request[objects[n]][2])

InBucket(key, version) == objects[ObjectKey(key, version)] # NoArchive

SavedStored == \A e \in saved : InBucket(e[1], e[2])

LookupRight(c) ==
    /\ known[c] \subseteq saved
    /\ ~Called(c) => listed[c] = {}
    /\ call[c] = "listing" =>
          /\ listed[c] \subseteq Stored(request[c][2])
          /\ \A j \in listed[c], i \in Places :
                i <= j /\ <<KeyOrder[i], request[c][2]>> \in known[c] => i \in listed[c]

AnswerRight(c) ==
    /\ call[c] = "hit" => hit[c] \in Keys /\ InBucket(hit[c], request[c][2])
    /\ call[c] \in {"missed", "hit"} /\ Entry(c) \in known[c] =>
          /\ call[c] = "hit"
          /\ request[c][3] = {} => hit[c] = request[c][1]

FetchedRight(c) ==
    /\ call[c] = "restored" =>
          got[c] \in Clients /\ Called(got[c]) /\ Entry(got[c]) = <<hit[c], request[c][2]>>
    /\ call[c] = "lost" => Slash \in Range(hit[c])

CacheIInv ==
    /\ CacheTypeOK
    /\ UploadsRight /\ ObjectsRight /\ SavedStored
    /\ \A c \in Clients : LookupRight(c) /\ AnswerRight(c)

\* What has been downloaded; no part of a key is a version.
Fetched == \A c \in Clients : FetchedRight(c)

\* A client with a call has an entry.
LEMMA CalledEntry ==
    ASSUME CacheTypeOK, NEW c \in Clients, Called(c)
    PROVE  /\ request[c] \in Requests /\ request[c][1] \in Keys /\ request[c][2] \in Versions
           /\ Entry(c) \in Keys \X Versions
  BY DEF CacheTypeOK, Called, Requests, Entry

LEMMA CacheStarts == CacheInit => CacheIInv
<1> SUFFICES ASSUME CacheInit PROVE CacheIInv
  OBVIOUS
<1>1. CacheTypeOK
  <2>1. <<>> \in Seq(Keys \X Versions)
    OBVIOUS
  <2> QED
    BY <2>1 DEF CacheInit, CacheTypeOK
<1>2. UploadsRight /\ ObjectsRight /\ SavedStored
  BY DEF CacheInit, UploadsRight, ObjectsRight, SavedStored
<1>3. \A c \in Clients : LookupRight(c) /\ AnswerRight(c)
  BY DEF CacheInit, LookupRight, AnswerRight, Called
<1> QED
  BY <1>1, <1>2, <1>3 DEF CacheIInv

\* What every step leaves: a call's entry, and objects under their names.
Grows ==
    /\ \A c \in Clients : Called(c) => Called(c)' /\ request'[c] = request[c]
    /\ \A n \in Names : objects[n] # NoArchive => objects'[n] # NoArchive
    /\ saved \subseteq saved'

LEMMA CacheGrows ==
    ASSUME CacheTypeOK, CacheNext
    PROVE  Grows
<1> PICK c \in Clients :
        \/ Reserve(c) \/ Upload(c) \/ Finalize(c) \/ StoreFails(c)
        \/ Search(c) \/ ListPage(c) \/ Download(c)
  BY DEF CacheNext
<1>1. CASE Reserve(c)
  BY <1>1 DEF Reserve, CallGoto, Grows, Called, CacheTypeOK
<1>2. CASE Upload(c)
  BY <1>2, CacheAssumption DEF Upload, CallGoto, Grows, Called, CacheTypeOK
<1>3. CASE Finalize(c)
  BY <1>3 DEF Finalize, CallGoto, Grows, Called, CacheTypeOK
<1>4. CASE StoreFails(c)
  BY <1>4 DEF StoreFails, CallGoto, Grows, Called, CacheTypeOK
<1>5. CASE Search(c)
  BY <1>5 DEF Search, CallGoto, Grows, Called, CacheTypeOK
<1>6. CASE ListPage(c)
  BY <1>6 DEF ListPage, Answer, CallGoto, Grows, Called, CacheTypeOK
<1>7. CASE Download(c)
  BY <1>7 DEF Download, CallGoto, Grows, Called, CacheTypeOK
<1> QED
  BY <1>1, <1>2, <1>3, <1>4, <1>5, <1>6, <1>7

\* Objects stay in the bucket.
LEMMA BucketGrows ==
    ASSUME Grows, NEW key \in Keys, NEW version \in Versions
    PROVE  InBucket(key, version) => objects'[ObjectKey(key, version)] # NoArchive
  BY DEF Grows, InBucket, Names

LEMMA StoredGrows ==
    ASSUME Grows, NEW version \in Versions
    PROVE  \A i \in Stored(version) : objects'[ObjectKey(KeyOrder[i], version)] # NoArchive
  BY KeyFacts DEF Grows, Stored, Names

\* The lookup of a client that takes no step.
LookupVars(c) == <<call[c], request[c], listed[c], hit[c], known[c]>>

LEMMA OthersLookupKept ==
    ASSUME CacheIInv, Grows, NEW d \in Clients, LookupVars(d)' = LookupVars(d)
    PROVE  (LookupRight(d) /\ AnswerRight(d))'
<1>1. /\ call'[d] = call[d] /\ request'[d] = request[d] /\ listed'[d] = listed[d]
      /\ hit'[d] = hit[d] /\ known'[d] = known[d]
  BY DEF LookupVars
<1>2. CacheTypeOK /\ LookupRight(d) /\ AnswerRight(d)
  BY DEF CacheIInv
<1>3. Called(d) => request[d][2] \in Versions
  BY <1>2, CalledEntry
<1>4. LookupRight(d)'
  <2>1. Called(d) => \A i \in Stored(request[d][2]) :
                         objects'[ObjectKey(KeyOrder[i], request[d][2])] # NoArchive
    BY <1>3, StoredGrows
  <2>2. known'[d] \subseteq saved'
    BY <1>1, <1>2 DEF Grows, LookupRight
  <2>3. Called(d)' <=> Called(d)
    BY <1>1 DEF Called
  <2>4. CASE call[d] = "listing"
    <3>1. Called(d) /\ listed[d] \subseteq Stored(request[d][2])
      BY <1>2, <2>4 DEF LookupRight, Called
    <3>2. listed[d] \subseteq {i \in Places :
                                 objects'[ObjectKey(KeyOrder[i], request[d][2])] # NoArchive}
      BY <2>1, <3>1 DEF Stored
    <3> QED
      BY <1>1, <1>2, <2>2, <2>3, <2>4, <3>2 DEF LookupRight, Stored
  <2>5. CASE call[d] # "listing"
    BY <1>1, <1>2, <2>2, <2>3, <2>5 DEF LookupRight
  <2> QED
    BY <2>4, <2>5
<1>5. AnswerRight(d)'
  <2>1. call[d] = "hit" => objects'[ObjectKey(hit[d], request[d][2])] # NoArchive
    BY <1>2, <1>3, BucketGrows DEF AnswerRight, Called
  <2>2. Entry(d)' = Entry(d)
    BY <1>1 DEF Entry
  <2> QED
    BY <1>1, <1>2, <2>1, <2>2 DEF AnswerRight, InBucket
<1> QED
  BY <1>4, <1>5

\* A client that has a call, but no lookup under way or answered.
LEMMA SaverHasNoLookup ==
    ASSUME CacheIInv, Grows, NEW c \in Clients, Called(c)',
           call'[c] \notin {"listing", "missed", "hit"}, known'[c] = known[c]
    PROVE  (LookupRight(c) /\ AnswerRight(c))'
  BY DEF CacheIInv, LookupRight, AnswerRight, Grows

\* The step of some client.
CacheStep(c) ==
    \/ Reserve(c) \/ Upload(c) \/ Finalize(c) \/ StoreFails(c)
    \/ Search(c) \/ ListPage(c) \/ Download(c)

\* Reserving appends an entry, whose id is the length from then on.
LEMMA ReservedLast ==
    ASSUME CacheTypeOK, NEW c \in Clients, Reserve(c)
    PROVE  \E e \in Keys \X Versions :
             /\ request' = [request EXCEPT ![c] = <<e[1], e[2], {}>>]
             /\ pending' = [pending EXCEPT ![PodOf[c]] = Append(@, e)]
             /\ PodOf[c] \in Range(PodOf)
             /\ pending[PodOf[c]] \in Seq(Keys \X Versions)
             /\ upload' = [upload EXCEPT ![c] = Len(pending[PodOf[c]]) + 1]
<1>1. PICK e \in Saves[c] :
        /\ request' = [request EXCEPT ![c] = <<e[1], e[2], {}>>]
        /\ pending' = [pending EXCEPT ![PodOf[c]] = Append(@, e)]
        /\ upload' = [upload EXCEPT ![c] = Len(pending[PodOf[c]]) + 1]
  BY DEF Reserve
<1>2. e \in Keys \X Versions
  BY CacheAssumption
<1>3. PodOf[c] \in Range(PodOf)
  BY CacheAssumption
<1>4. pending[PodOf[c]] \in Seq(Keys \X Versions)
  BY <1>3 DEF CacheTypeOK
<1> QED
  BY <1>1, <1>2, <1>3, <1>4

\* Entries already reserved keep their ids.
LEMMA IdsStay ==
    ASSUME NEW s \in Seq(Keys \X Versions), NEW e \in Keys \X Versions
    PROVE  /\ Append(s, e) \in Seq(Keys \X Versions)
           /\ DOMAIN s \subseteq DOMAIN Append(s, e)
           /\ \A i \in DOMAIN s : Append(s, e)[i] = s[i]
           /\ Len(s) + 1 \in DOMAIN Append(s, e) /\ Append(s, e)[Len(s) + 1] = e
  BY LenProperties

\* The types are kept.
LEMMA ReserveKeepsTypes ==
    ASSUME CacheTypeOK, NEW c \in Clients, Reserve(c)
    PROVE  CacheTypeOK'
<1>1. PICK e \in Keys \X Versions :
        /\ request' = [request EXCEPT ![c] = <<e[1], e[2], {}>>]
        /\ pending' = [pending EXCEPT ![PodOf[c]] = Append(@, e)]
        /\ PodOf[c] \in Range(PodOf)
        /\ pending[PodOf[c]] \in Seq(Keys \X Versions)
        /\ upload' = [upload EXCEPT ![c] = Len(pending[PodOf[c]]) + 1]
  BY ReservedLast
<1>2. /\ call[c] = "idle" /\ call' = [call EXCEPT ![c] = "reserved"]
      /\ UNCHANGED <<objects, listed, hit, got, saved, known>>
  BY DEF Reserve, CallGoto
<1>3. /\ Append(pending[PodOf[c]], e) \in Seq(Keys \X Versions)
      /\ DOMAIN pending[PodOf[c]] \subseteq DOMAIN Append(pending[PodOf[c]], e)
      /\ Len(pending[PodOf[c]]) + 1 \in DOMAIN Append(pending[PodOf[c]], e)
  BY <1>1, IdsStay
<1>4. pending' \in [Range(PodOf) -> Seq(Keys \X Versions)]
  BY <1>1, <1>3 DEF CacheTypeOK
<1>5. <<e[1], e[2], {}>> \in Requests /\ <<e[1], e[2], {}>> # <<>>
  BY DEF Requests
<1>6. request' \in [Clients -> Requests \cup {<<>>}]
  BY <1>1, <1>5 DEF CacheTypeOK
<1>7. Len(pending[PodOf[c]]) + 1 \in Nat
  BY <1>1, LenProperties
<1>8. upload' \in [Clients -> Nat]
  BY <1>1, <1>7 DEF CacheTypeOK
<1>9. ASSUME NEW d \in Clients
      PROVE  /\ call'[d] # "idle" => request'[d] # <<>>
             /\ call'[d] \in {"reserved", "uploaded", "saved"} =>
                   upload'[d] \in DOMAIN pending'[PodOf[d]]
  <2>1. CASE d = c
    BY <1>1, <1>2, <1>3, <1>5, <2>1, CacheAssumption DEF CacheTypeOK
  <2>2. CASE d # c
    <3>1. call'[d] = call[d] /\ request'[d] = request[d] /\ upload'[d] = upload[d]
      BY <1>1, <1>2, <2>2 DEF CacheTypeOK
    <3>2. DOMAIN pending[PodOf[d]] \subseteq DOMAIN pending'[PodOf[d]]
      BY <1>1, <1>3, CacheAssumption DEF CacheTypeOK
    <3> QED
      BY <3>1, <3>2 DEF CacheTypeOK
  <2> QED
    BY <2>1, <2>2
<1> QED
  BY <1>2, <1>4, <1>6, <1>8, <1>9 DEF CacheTypeOK

LEMMA SaveKeepsTypes ==
    ASSUME CacheTypeOK, NEW c \in Clients, Upload(c) \/ Finalize(c) \/ StoreFails(c)
    PROVE  CacheTypeOK'
<1>1. CASE Upload(c)
  BY <1>1 DEF Upload, CallGoto, CacheTypeOK
<1>2. CASE Finalize(c)
  <2>1. Called(c)
    BY <1>2 DEF Finalize, Called
  <2>2. saved' \subseteq Keys \X Versions
    BY <1>2, <2>1, CalledEntry DEF Finalize, CacheTypeOK
  <2> QED
    BY <1>2, <2>2 DEF Finalize, CallGoto, CacheTypeOK
<1>3. CASE StoreFails(c)
  BY <1>3 DEF StoreFails, CallGoto, CacheTypeOK
<1> QED
  BY <1>1, <1>2, <1>3

LEMMA SearchKeepsTypes ==
    ASSUME CacheTypeOK, NEW c \in Clients, Search(c)
    PROVE  CacheTypeOK'
<1>1. PICK r \in Searches[c] : request' = [request EXCEPT ![c] = r]
  BY DEF Search
<1>2. r \in Requests
  BY CacheAssumption DEF Requests
<1>3. r # <<>>
  <2>1. PICK key \in Keys, v \in Versions, others \in SUBSET Seq(Parts) : r = <<key, v, others>>
    BY <1>2 DEF Requests
  <2> QED
    BY <2>1
<1>4. request' \in [Clients -> Requests \cup {<<>>}] /\ request'[c] # <<>>
  BY <1>1, <1>2, <1>3 DEF CacheTypeOK
<1> QED
  BY <1>1, <1>4 DEF Search, CallGoto, CacheTypeOK

\* One page more, and perhaps the answer.
LEMMA PageListed ==
    ASSUME CacheTypeOK, NEW c \in Clients, ListPage(c)
    PROVE  /\ Page(request[c][2], Max({0} \cup listed[c])) \subseteq Stored(request[c][2])
           /\ listed'[c] = listed[c] \cup Page(request[c][2], Max({0} \cup listed[c]))
           /\ listed'[c] \subseteq Places
           /\ \/ /\ IsLast(request[c][2], Page(request[c][2], Max({0} \cup listed[c])))
                 /\ Answer(c, listed'[c])
              \/ UNCHANGED <<call, hit>>
  BY DEF ListPage, CacheTypeOK, Page, Stored

LEMMA LookupKeepsTypes ==
    ASSUME CacheTypeOK, NEW c \in Clients, ListPage(c) \/ Download(c)
    PROVE  CacheTypeOK'
<1>1. CASE ListPage(c)
  <2>1. listed'[c] \subseteq Places
    BY <1>1, PageListed
  <2>2. listed' \in [Clients -> SUBSET Places]
    BY <1>1, <2>1 DEF ListPage, CacheTypeOK
  <2>3. CASE Answer(c, listed'[c])
    <3>1. Called(c)
      BY <1>1 DEF ListPage, Called
    <3> DEFINE matches == Matches(listed'[c], {request[c][1]} \cup request[c][3])
    <3>2. matches # {} => KeyOrder[Min(matches)] \in Keys
      <4>1. matches \subseteq Places
        BY <2>1, MatchesListed
      <4> HIDE DEF matches
      <4>2. matches # {} => Min(matches) \in Places
        BY <4>1, FirstPlace
      <4> QED
        BY <4>2, KeyFacts
    <3>3. hit' \in [Clients -> Keys \cup {<<>>}]
      BY <2>3, <3>2 DEF Answer, CacheTypeOK
    <3>4. CASE CallGoto(c, "listing", "missed")
      BY <1>1, <2>2, <3>1, <3>3, <3>4 DEF ListPage, CallGoto, CacheTypeOK, Called
    <3>5. CASE CallGoto(c, "listing", "hit")
      BY <1>1, <2>2, <3>1, <3>3, <3>5 DEF ListPage, CallGoto, CacheTypeOK, Called
    <3> QED
      BY <2>3, <3>4, <3>5 DEF Answer
  <2>4. CASE UNCHANGED <<call, hit>>
    BY <1>1, <2>2, <2>4 DEF ListPage, CacheTypeOK
  <2> QED
    BY <1>1, <2>3, <2>4, PageListed
<1>2. CASE Download(c)
  <2>1. \A n \in Names : objects[n] \in Clients \cup {NoArchive}
    BY DEF CacheTypeOK
  <2>2. got' \in [Clients -> Clients \cup {NoArchive}]
    BY <1>2, <2>1 DEF Download, CacheTypeOK
  <2>3. call[c] = "hit" /\ \E to \in {"lost", "restored"} : call' = [call EXCEPT ![c] = to]
    BY <1>2 DEF Download, CallGoto
  <2> QED
    BY <1>2, <2>2, <2>3 DEF Download, CacheTypeOK
<1> QED
  BY <1>1, <1>2

LEMMA CacheTypesStep ==
    ASSUME CacheTypeOK, NEW c \in Clients, CacheStep(c)
    PROVE  CacheTypeOK'
  BY ReserveKeepsTypes, SaveKeepsTypes, SearchKeepsTypes, LookupKeepsTypes DEF CacheStep

\* An id is given once: no other entry ever has it.
LEMMA UploadsStep ==
    ASSUME CacheTypeOK, UploadsRight, NEW c \in Clients, CacheStep(c)
    PROVE  UploadsRight'
<1>1. CASE Reserve(c)
  <2>1. PICK e \in Keys \X Versions :
          /\ request' = [request EXCEPT ![c] = <<e[1], e[2], {}>>]
          /\ pending' = [pending EXCEPT ![PodOf[c]] = Append(@, e)]
          /\ PodOf[c] \in Range(PodOf)
          /\ pending[PodOf[c]] \in Seq(Keys \X Versions)
          /\ upload' = [upload EXCEPT ![c] = Len(pending[PodOf[c]]) + 1]
    BY <1>1, ReservedLast
  <2>2. call' = [call EXCEPT ![c] = "reserved"]
    BY <1>1 DEF Reserve, CallGoto
  <2>3. /\ \A i \in DOMAIN pending[PodOf[c]] :
              Append(pending[PodOf[c]], e)[i] = pending[PodOf[c]][i]
        /\ Append(pending[PodOf[c]], e)[Len(pending[PodOf[c]]) + 1] = e
    BY <2>1, IdsStay
  <2>4. ASSUME NEW d \in Clients, call'[d] = "reserved"
        PROVE  pending'[PodOf[d]][upload'[d]] = Entry(d)'
    <3>1. CASE d = c
      <4>1. pending'[PodOf[c]][upload'[c]] = e
        BY <2>1, <2>3 DEF CacheTypeOK
      <4>2. request'[c][1] = e[1] /\ request'[c][2] = e[2]
        BY <2>1 DEF CacheTypeOK
      <4>3. e = <<e[1], e[2]>>
        OBVIOUS
      <4> QED
        BY <3>1, <4>1, <4>2, <4>3 DEF Entry
    <3>2. CASE d # c
      <4>1. call[d] = "reserved" /\ request'[d] = request[d] /\ upload'[d] = upload[d]
        BY <2>1, <2>2, <2>4, <3>2 DEF CacheTypeOK
      <4>2. upload[d] \in DOMAIN pending[PodOf[d]] /\ pending[PodOf[d]][upload[d]] = Entry(d)
        BY <4>1 DEF UploadsRight, CacheTypeOK
      <4>3. PodOf[d] \in Range(PodOf)
        BY CacheAssumption
      <4>4. pending'[PodOf[d]][upload[d]] = pending[PodOf[d]][upload[d]]
        BY <2>1, <2>3, <4>2, <4>3 DEF CacheTypeOK
      <4> QED
        BY <4>1, <4>2, <4>4 DEF Entry
    <3> QED
      BY <3>1, <3>2
  <2> QED
    BY <2>4 DEF UploadsRight
<1>2. ASSUME Upload(c) \/ Finalize(c) \/ StoreFails(c) \/ Search(c) \/ ListPage(c) \/ Download(c)
      PROVE  UploadsRight'
  <2>1. pending' = pending /\ upload' = upload
    BY <1>2 DEF Upload, Finalize, StoreFails, Search, ListPage, Download
  <2>2. \A d \in Clients : call'[d] = "reserved" => call[d] = "reserved"
    BY <1>2 DEF Upload, Finalize, StoreFails, Search, ListPage, Answer, Download, CallGoto,
       CacheTypeOK
  <2>3. \A d \in Clients : call[d] = "reserved" => request'[d] = request[d]
    BY <1>2 DEF Upload, Finalize, StoreFails, Search, ListPage, Download, CallGoto, CacheTypeOK
  <2> QED
    BY <2>1, <2>2, <2>3 DEF UploadsRight, Entry
<1> QED
  BY <1>1, <1>2 DEF CacheStep

\* An upload is stored under its own entry's name.
LEMMA ObjectsStep ==
    ASSUME CacheTypeOK, UploadsRight, ObjectsRight, Grows, NEW c \in Clients, CacheStep(c)
    PROVE  ObjectsRight'
<1>1. CASE Upload(c)
  <2> DEFINE name == ObjectKey(request[c][1], request[c][2])
  <2>1. call[c] = "reserved" /\ Called(c) /\ Called(c)'
    BY <1>1 DEF Upload, CallGoto, Called, CacheTypeOK
  <2>2. pending[PodOf[c]][upload[c]] = <<request[c][1], request[c][2]>>
    BY <2>1 DEF UploadsRight, Entry
  <2>3. objects' = [objects EXCEPT ![name] = c] /\ request' = request
    BY <1>1, <2>2 DEF Upload
  <2> HIDE DEF name
  <2>4. ASSUME NEW n \in Names, objects'[n] # NoArchive
        PROVE  /\ call'[objects'[n]] # "idle"
               /\ n = ObjectKey(request'[objects'[n]][1], request'[objects'[n]][2])
    <3>1. CASE n = name
      BY <2>1, <2>3, <2>4, <3>1 DEF CacheTypeOK, name, Called
    <3>2. CASE n # name
      <4>1. objects'[n] = objects[n] /\ objects[n] \in Clients
        BY <2>3, <2>4, <3>2 DEF CacheTypeOK
      <4> QED
        BY <2>3, <2>4, <4>1 DEF ObjectsRight, Grows, Called
    <3> QED
      BY <3>1, <3>2
  <2> QED
    BY <2>4 DEF ObjectsRight, Called
<1>2. ASSUME Reserve(c) \/ Finalize(c) \/ StoreFails(c) \/ Search(c) \/ ListPage(c) \/ Download(c)
      PROVE  ObjectsRight'
  <2>1. objects' = objects
    BY <1>2 DEF Reserve, Finalize, StoreFails, Search, ListPage, Download
  <2>2. \A n \in Names : objects[n] # NoArchive => objects[n] \in Clients
    BY DEF CacheTypeOK
  <2> QED
    BY <2>1, <2>2 DEF ObjectsRight, Grows, Called
<1> QED
  BY <1>1, <1>2 DEF CacheStep

\* What is finalized is in the bucket, and stays there.
LEMMA SavedStep ==
    ASSUME CacheTypeOK, SavedStored, Grows, NEW c \in Clients, CacheStep(c)
    PROVE  SavedStored'
<1>1. \A e \in saved : objects'[ObjectKey(e[1], e[2])] # NoArchive
  <2> TAKE e \in saved
  <2>1. e[1] \in Keys /\ e[2] \in Versions /\ InBucket(e[1], e[2])
    BY DEF CacheTypeOK, SavedStored
  <2> QED
    BY <2>1, BucketGrows
<1>2. ASSUME NEW e \in saved' \ saved PROVE objects'[ObjectKey(e[1], e[2])] # NoArchive
  <2>1. Finalize(c)
    BY <1>2 DEF CacheStep, Reserve, Upload, StoreFails, Search, ListPage, Download
  <2>2. /\ objects[ObjectKey(request[c][1], request[c][2])] # NoArchive
        /\ saved' = saved \cup {Entry(c)} /\ objects' = objects
    BY <1>2, <2>1 DEF Finalize
  <2>3. e = <<request[c][1], request[c][2]>>
    BY <1>2, <2>2 DEF Entry
  <2> QED
    BY <2>2, <2>3
<1> QED
  BY <1>1, <1>2 DEF SavedStored, InBucket

\* A lookup begins with nothing listed.
LEMMA SearchKeepsLookup ==
    ASSUME CacheIInv, NEW c \in Clients, Search(c)
    PROVE  (LookupRight(c) /\ AnswerRight(c))'
<1>1. /\ call[c] = "idle" /\ call'[c] = "listing" /\ known'[c] = saved /\ saved' = saved
      /\ listed' = listed
  BY DEF Search, CallGoto, CacheIInv, CacheTypeOK
<1>2. listed[c] = {}
  BY <1>1 DEF CacheIInv, LookupRight, Called
<1> QED
  BY <1>1, <1>2 DEF LookupRight, AnswerRight, Called

\* A page adds every object between those listed and its last one; an answer
\* comes after the last page, which leaves out nothing.
LEMMA ListKeepsLookup ==
    ASSUME CacheIInv, NEW c \in Clients, ListPage(c)
    PROVE  (LookupRight(c) /\ AnswerRight(c))'
<1> DEFINE version == request[c][2]
           start == Max({0} \cup listed[c])
           page == Page(version, start)
<1>1. /\ call[c] = "listing" /\ Called(c) /\ listed[c] \subseteq Places
      /\ UNCHANGED <<objects, request, saved, known>>
  BY DEF ListPage, CacheIInv, CacheTypeOK, Called
<1>2. request[c] \in Requests /\ version \in Versions
  BY <1>1, CalledEntry DEF CacheIInv
<1>3. start \in {0} \cup listed[c] /\ \A i \in listed[c] : i <= start
  BY <1>1, LastListed
<1>4. start \in Nat
  BY <1>1, <1>3 DEF Places
<1>5. page \subseteq Stored(version) /\ listed'[c] = listed[c] \cup page
  BY PageListed DEF CacheIInv
<1>6. \/ IsLast(version, page) /\ Answer(c, listed'[c])
      \/ UNCHANGED <<call, hit>>
  BY PageListed DEF CacheIInv
<1>7. \A j \in page, i \in Stored(version) : start < i /\ i <= j => i \in page
  BY <1>4, PageLeavesNothing
<1>8. \A i \in Places : <<KeyOrder[i], version>> \in known[c] => i \in Stored(version)
  BY DEF CacheIInv, LookupRight, SavedStored, InBucket, Stored
<1>9. /\ listed[c] \subseteq Stored(version)
      /\ \A j \in listed[c], i \in Places :
            i <= j /\ <<KeyOrder[i], version>> \in known[c] => i \in listed[c]
  BY <1>1 DEF CacheIInv, LookupRight
<1> HIDE DEF version, start, page
<1>10. ASSUME NEW i \in Places, <<KeyOrder[i], version>> \in known[c],
              NEW j \in listed[c] \cup page, i <= j
       PROVE  i \in listed[c] \cup page
  <2>1. i \in Nat \ {0} /\ j \in Nat
    <3>1. page \subseteq Places
      BY <1>5 DEF Stored
    <3>2. Places \subseteq Nat \ {0}
      BY DEF Places
    <3> QED
      BY <1>1, <1>10, <3>1, <3>2
  <2>2. CASE start < i
    <3>1. j \in page
      BY <1>3, <1>4, <1>10, <2>1, <2>2 DEF Places
    <3> QED
      BY <1>7, <1>8, <1>10, <2>2, <3>1
  <2>3. CASE i <= start
    <3>1. start \in listed[c]
      BY <1>3, <2>1, <2>3
    <3> QED
      BY <1>9, <1>10, <2>3, <3>1
  <2> QED
    BY <1>4, <2>1, <2>2, <2>3
<1>11. LookupRight(c)'
  <2>1. /\ known'[c] \subseteq saved' /\ Called(c)' = (call'[c] # "idle")
        /\ request'[c][2] = version
    BY <1>1 DEF CacheIInv, LookupRight, Called, version
  <2>2. call'[c] # "idle"
    BY <1>1, <1>6 DEF Answer, CallGoto, CacheIInv, CacheTypeOK
  <2>3. listed'[c] \subseteq {i \in Places : objects'[ObjectKey(KeyOrder[i], version)] # NoArchive}
    BY <1>1, <1>5, <1>9 DEF Stored
  <2> QED
    BY <1>1, <1>5, <1>10, <2>1, <2>2, <2>3 DEF LookupRight, Stored
<1>12. CASE UNCHANGED <<call, hit>>
  BY <1>1, <1>11, <1>12 DEF CacheIInv, AnswerRight, InBucket, Entry
<1>13. CASE IsLast(version, page) /\ Answer(c, listed'[c])
  <2> DEFINE candidates == {request[c][1]} \cup request[c][3]
             matches == Matches(listed'[c], candidates)
  <2>1. listed'[c] \subseteq Stored(version) /\ Stored(version) \subseteq Places
    BY <1>5, <1>9 DEF Stored
  <2>2. matches \subseteq listed'[c]
    BY MatchesListed
  <2>3. matches # {} => Min(matches) \in matches
    <3> HIDE DEF matches
    <3> QED
      BY <2>1, <2>2, FirstPlace
  <2>4. ASSUME call'[c] = "hit"
        PROVE  /\ matches # {} /\ hit'[c] = KeyOrder[Min(matches)]
               /\ hit'[c] \in Keys /\ objects'[ObjectKey(hit'[c], version)] # NoArchive
    <3>1. matches # {} /\ hit'[c] = KeyOrder[Min(matches)]
      BY <1>13, <2>4 DEF Answer, CallGoto, CacheIInv, CacheTypeOK
    <3>2. Min(matches) \in Stored(version) /\ Min(matches) \in Places
      BY <2>1, <2>2, <2>3, <3>1
    <3> HIDE DEF matches
    <3> QED
      BY <1>1, <3>1, <3>2, KeyFacts DEF Stored
  <2>5. ASSUME Entry(c) \in known[c]
        PROVE  matches # {} /\ (request[c][3] = {} => KeyOrder[Min(matches)] = request[c][1])
    <3>1. request[c][1] \in Keys
      BY <1>1, CalledEntry DEF CacheIInv
    <3>2. PICK i \in Places : KeyOrder[i] = request[c][1]
      BY <3>1, KeyFacts
    <3>3. <<KeyOrder[i], version>> \in known[c] /\ i \in Stored(version)
      BY <1>8, <2>5, <3>2 DEF Entry, version
    <3>4. PICK j \in page : i <= j
      BY <1>13, <3>3 DEF IsLast
    <3>5. i \in listed'[c]
      BY <1>5, <1>10, <3>3, <3>4
    <3>6. KeyOrder[i] \in candidates
      BY <3>2
    <3>7. i \in matches
      BY <2>1, <3>5, <3>6, ExactMatched
    <3>8. ASSUME request[c][3] = {}
          PROVE  KeyOrder[Min(matches)] = request[c][1]
      <4>1. candidates = {KeyOrder[i]}
        BY <3>2, <3>8
      <4>2. matches = {i}
        BY <2>1, <3>5, <3>6, <4>1, ExactMatched
      <4> HIDE DEF matches
      <4> QED
        BY <2>3, <3>2, <4>2
    <3> QED
      BY <3>7, <3>8
  <2>6. call'[c] \in {"missed", "hit"} /\ (call'[c] = "missed" => matches = {})
    BY <1>13 DEF Answer, CallGoto, CacheIInv, CacheTypeOK
  <2> HIDE DEF matches, candidates
  <2>7. Entry(c)' = Entry(c) /\ request'[c][2] = version
    BY <1>1 DEF Entry, version
  <2>8. AnswerRight(c)'
    BY <1>1, <2>4, <2>5, <2>6, <2>7 DEF AnswerRight, InBucket
  <2> QED
    BY <1>11, <2>8
<1> QED
  BY <1>6, <1>11, <1>12, <1>13

\* What all lookups know stays right, in every step of a client.
LEMMA LookupsStep ==
    ASSUME CacheIInv, Grows, NEW c \in Clients, CacheStep(c)
    PROVE  \A d \in Clients : (LookupRight(d) /\ AnswerRight(d))'
<1>1. ASSUME NEW d \in Clients, d # c
      PROVE  (LookupRight(d) /\ AnswerRight(d))'
  <2>1. LookupVars(d)' = LookupVars(d)
    BY <1>1 DEF CacheIInv, CacheTypeOK, CacheStep, LookupVars, CallGoto,
       Reserve, Upload, Finalize, StoreFails, Search, ListPage, Answer, Download
  <2> QED
    BY <2>1, OthersLookupKept
<1>2. (LookupRight(c) /\ AnswerRight(c))'
  <2>1. CASE Search(c)
    BY <2>1, SearchKeepsLookup
  <2>2. CASE ListPage(c)
    BY <2>2, ListKeepsLookup
  <2>3. CASE Reserve(c) \/ Upload(c) \/ Finalize(c) \/ StoreFails(c) \/ Download(c)
    <3>1. known' = known
      BY <2>3 DEF Reserve, Upload, Finalize, StoreFails, Download
    <3>2. call'[c] \notin {"idle", "listing", "missed", "hit"}
      BY <2>3 DEF CacheIInv, CacheTypeOK, CallGoto, Reserve, Upload, Finalize, StoreFails, Download
    <3> QED
      BY <3>1, <3>2, SaverHasNoLookup DEF Called
  <2> QED
    BY <2>1, <2>2, <2>3 DEF CacheStep
<1> QED
  BY <1>1, <1>2

\* The invariant is inductive.
LEMMA CacheKept == CacheIInv /\ [CacheNext]_cacheVars => CacheIInv'
<1> SUFFICES ASSUME CacheIInv, [CacheNext]_cacheVars PROVE CacheIInv'
  OBVIOUS
<1>1. CASE CacheNext
  <2>1. PICK c \in Clients : CacheStep(c)
    BY <1>1 DEF CacheNext, CacheStep
  <2>2. Grows /\ CacheTypeOK /\ UploadsRight /\ ObjectsRight /\ SavedStored
    BY <1>1, CacheGrows DEF CacheIInv
  <2> QED
    BY <2>1, <2>2, CacheTypesStep, UploadsStep, ObjectsStep, SavedStep, LookupsStep DEF CacheIInv
<1>2. CASE UNCHANGED cacheVars
  BY <1>2 DEF cacheVars, CacheIInv, CacheTypeOK, UploadsRight, ObjectsRight, SavedStored,
     InBucket, LookupRight, AnswerRight, Called, Entry, Stored
<1> QED
  BY <1>1, <1>2

\* A download finds the archive of the entry that the answer named.
LEMMA DownloadFetches ==
    ASSUME CacheIInv, Parts \cap Versions = {}, NEW c \in Clients, Download(c)
    PROVE  FetchedRight(c)'
<1> DEFINE version == request[c][2]
           name == DownloadName(BlobPath(hit[c], version))
           archive == IF name \in Names THEN objects[name] ELSE NoArchive
<1>1. /\ call[c] = "hit" /\ Called(c)
      /\ UNCHANGED <<objects, request, hit, saved, known>>
      /\ call'[c] = (IF archive = NoArchive THEN "lost" ELSE "restored")
      /\ got'[c] = archive
  BY DEF Download, CallGoto, Called, CacheIInv, CacheTypeOK
<1>2. version \in Versions /\ hit[c] \in Keys /\ InBucket(hit[c], version)
  BY <1>1, CalledEntry DEF CacheIInv, AnswerRight
<1>3. CASE Slash \in Range(hit[c])
  <2>1. name \notin Names
    BY <1>2, <1>3, SlashedName
  <2> QED
    BY <1>1, <1>3, <2>1 DEF FetchedRight
<1>4. CASE Slash \notin Range(hit[c])
  <2>1. name = ObjectKey(hit[c], version) /\ name \in Names
    BY <1>2, <1>4, PlainName DEF Names
  <2>2. archive = objects[name] /\ archive # NoArchive /\ archive \in Clients
    BY <1>2, <2>1 DEF InBucket, CacheIInv, CacheTypeOK
  <2>3. Called(archive) /\ name = ObjectKey(request[archive][1], request[archive][2])
    BY <2>1, <2>2 DEF CacheIInv, ObjectsRight
  <2>4. request[archive][1] \in Keys /\ request[archive][2] \in Versions
    BY <2>2, <2>3, CalledEntry DEF CacheIInv
  <2>5. request[archive][1] = hit[c] /\ request[archive][2] = version
    BY <1>2, <2>1, <2>3, <2>4, NamesDiffer
  <2> HIDE DEF name, archive
  <2>6. call'[archive] # "idle"
    BY <1>1, <2>2, <2>3 DEF Download, CallGoto, CacheIInv, CacheTypeOK, Called
  <2> QED
    BY <1>1, <2>2, <2>5, <2>6 DEF FetchedRight, Called, Entry, version
<1> QED
  BY <1>3, <1>4

\* It stays the one, as the call that uploaded it keeps its entry.
LEMMA FetchedStep ==
    ASSUME Parts \cap Versions = {}
    PROVE  CacheIInv /\ Fetched /\ [CacheNext]_cacheVars => Fetched'
<1> SUFFICES ASSUME CacheIInv, Fetched, [CacheNext]_cacheVars, NEW d \in Clients
             PROVE  FetchedRight(d)'
  BY DEF Fetched
<1>1. CASE CacheNext
  <2>1. PICK c \in Clients : CacheStep(c)
    BY <1>1 DEF CacheNext, CacheStep
  <2>2. Grows
    BY <1>1, CacheGrows DEF CacheIInv
  <2>3. CASE d = c /\ Download(c)
    BY <2>3, DownloadFetches
  <2>4. CASE ~(d = c /\ Download(c))
    <3>1. call'[d] \in {"restored", "lost"} =>
             call'[d] = call[d] /\ hit'[d] = hit[d] /\ got'[d] = got[d]
      BY <2>1, <2>4 DEF CacheIInv, CacheTypeOK, CacheStep, CallGoto,
         Reserve, Upload, Finalize, StoreFails, Search, ListPage, Answer, Download
    <3>2. call[d] \in {"restored", "lost"} => request'[d] = request[d]
      BY <2>2 DEF Grows, Called
    <3>3. FetchedRight(d)
      BY DEF Fetched
    <3> QED
      BY <2>2, <3>1, <3>2, <3>3 DEF FetchedRight, Grows, Called, Entry
  <2> QED
    BY <2>3, <2>4
<1>2. CASE UNCHANGED cacheVars
  BY <1>2 DEF cacheVars, Fetched, FetchedRight, Called, Entry
<1> QED
  BY <1>1, <1>2

\* The sidecars, the bucket and the clients keep their types; the id in an upload
\* URL is one that the sidecar has given.
THEOREM CacheTypeCorrect == CacheSpec => []CacheTypeOK
<1>1. CacheIInv => CacheTypeOK
  BY DEF CacheIInv
<1> QED
  BY <1>1, CacheStarts, CacheKept, PTL DEF CacheSpec

\* An entry finalized before a lookup begins is found by it, and without restore
\* keys it is the one found: for any keys, clients, pods and page size, whatever
\* is saved while the bucket is listed.
THEOREM SavedEntriesFound == CacheSpec => []SavedIsFound
<1>1. CacheIInv => SavedIsFound
  BY DEF CacheIInv, AnswerRight, SavedIsFound
<1> QED
  BY <1>1, CacheStarts, CacheKept, PTL DEF CacheSpec

\* A download yields an archive that was uploaded for the entry the lookup has
\* named, and fails only for a key with a slash; no part of a key is a version,
\* which is a digest.
THEOREM HitsDownloaded ==
    ASSUME Parts \cap Versions = {}
    PROVE  CacheSpec => []HitDownloads
<1>1. CacheInit => Fetched
  BY DEF CacheInit, Fetched, FetchedRight
<1>2. CacheIInv /\ Fetched /\ [CacheNext]_cacheVars => Fetched'
  BY FetchedStep
<1>3. Fetched => HitDownloads
  BY DEF Fetched, FetchedRight, HitDownloads
<1> QED
  BY <1>1, <1>2, <1>3, CacheStarts, CacheKept, PTL DEF CacheSpec
=============================================================================
