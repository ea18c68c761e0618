----------------------------- MODULE SyncProofs -----------------------------
(***************************************************************************)
(* The pages of GET /sync, for any number of rows, any page cap and any    *)
(* contents: a loop of calls gets on whatever is written meanwhile, and    *)
(* when nothing is, no page loses a change.                                *)
(***************************************************************************)
EXTENDS Sync, FiniteSetTheorems, WellFoundedInduction, TLAPS

LEMMA Least ==
  ASSUME NEW S \in SUBSET Nat, S # {}
  PROVE  Min(S) \in S /\ \A x \in S : Min(S) <= x
<1>1. \E x \in S : \A y \in S : ~(<<y, x>> \in OpToRel(<, Nat))
  BY NatLessThanWellFounded, WFMin
<1>2. \A x, y \in Nat : y < x => <<y, x>> \in OpToRel(<, Nat)
  BY DEF OpToRel
<1>3. PICK x \in S : \A y \in S : ~(<<y, x>> \in OpToRel(<, Nat))
  BY <1>1
<1>4. \A y \in S : x <= y
  <2>1. \A y \in S : y \in Nat
    OBVIOUS
  <2>2. x \in Nat /\ \A y \in S : ~(y < x)
    BY <1>2, <1>3, <2>1
  <2> QED BY <2>1, <2>2
<1> QED BY <1>4 DEF Min

LEMMA Greatest ==
  ASSUME NEW S \in SUBSET Nat, S # {}, NEW n \in Nat, \A x \in S : x <= n
  PROVE  Max(S) \in S /\ \A x \in S : x <= Max(S)
<1> DEFINE B == {b \in Nat : \A x \in S : x <= b}
           m == Min(B)
<1>1. m \in B /\ \A b \in B : m <= b
  <2>1. n \in B /\ B \in SUBSET Nat
    OBVIOUS
  <2> HIDE DEF B
  <2> QED BY <2>1, Least
<1>2. m \in S
  <2>1. CASE m = 0
    <3>1. PICK x \in S : TRUE
      OBVIOUS
    <3>2. x = 0
      BY <1>1, <2>1
    <3> QED BY <2>1, <3>2
  <2>2. CASE m # 0 /\ m \notin S
    <3>1. m - 1 \in B
      BY <1>1, <2>2
    <3> QED BY <1>1, <3>1
  <2> QED BY <2>1, <2>2
<1>3. \A x \in S : m >= x
  BY <1>1
<1> HIDE DEF m
<1>4. \E x \in S : \A y \in S : x >= y
  BY <1>2, <1>3
<1> QED BY <1>4 DEF Max

LEMMA IdsFinite == \A S \in SUBSET Ids : IsFiniteSet(S) /\ Cardinality(S) \in Nat
<1>1. IsFiniteSet(Ids)
  BY SyncAssumption, FS_Union DEF Ids
<1> QED BY <1>1, FS_Subset, FS_CardinalityType

LEMMA TimesNat == /\ Times \in SUBSET Nat /\ 0 \in Times /\ MaxTime \in Times
                  /\ \A t \in Times : t \in Nat /\ t <= MaxTime
BY SyncAssumption DEF Times

-----------------------------------------------------------------------------
(* What cap returns.                                                       *)

LEMMA CapFacts ==
  ASSUME rows \in [Ids -> Row], NEW matching \in SUBSET Ids, NEW capped \in Cap(matching)
  PROVE  /\ capped.page \in SUBSET matching
         /\ capped.truncatedAt \in SUBSET Times
         /\ \A s \in Times : (\A x \in matching : rows[x].updatedAt > s) =>
                               \A c \in capped.truncatedAt : c > s
         /\ \A s \in Times : (\A x \in matching : rows[x].updatedAt <= s) =>
                               \A c \in capped.truncatedAt : c <= s
         /\ \A c \in capped.truncatedAt : \E x \in matching : rows[x].updatedAt = c
         /\ (\A t \in Times : Cardinality({x \in matching : rows[x].updatedAt = t}) <= PAGE_CAP) =>
              \A x \in matching :
                (\A c \in capped.truncatedAt : rows[x].updatedAt <= c) => x \in capped.page
<1> DEFINE upTo(t) == {x \in matching : rows[x].updatedAt <= t}
           full == {t \in Times : Cardinality(upTo(t)) >= PAGE_CAP}
           last == Min(full)
           before == {x \in matching : rows[x].updatedAt < last}
           cut == Max({rows[x].updatedAt : x \in before})
<1>1. \A x \in matching : rows[x].updatedAt \in Times /\ rows[x].updatedAt \in Nat
  BY TimesNat DEF Row
<1>2. CASE Cardinality(matching) <= PAGE_CAP
  <2>1. capped = [page |-> matching, truncatedAt |-> {}]
    BY <1>2 DEF Cap
  <2> QED BY <2>1
<1>3. CASE ~(Cardinality(matching) <= PAGE_CAP)
  <2>1. last \in Times /\ Cardinality(upTo(last)) >= PAGE_CAP /\ \A t \in full : last <= t
    <3>1. upTo(MaxTime) = matching
      BY <1>1, TimesNat
    <3>2. Cardinality(matching) \in Nat
      BY IdsFinite
    <3>3. MaxTime \in full
      <4>1. Cardinality(upTo(MaxTime)) >= PAGE_CAP
        <5> HIDE DEF upTo
        <5> QED BY <1>3, <3>1, <3>2, SyncAssumption
      <4> QED BY <4>1, TimesNat
    <3>4. full \in SUBSET Nat
      BY TimesNat
    <3> HIDE DEF full
    <3>5. last \in full /\ \A t \in full : last <= t
      BY <3>3, <3>4, Least
    <3> QED BY <3>5 DEF full
  <2>2. ASSUME NEW s \in Times, \A x \in matching : rows[x].updatedAt > s
        PROVE  last > s
    <3>1. last <= s => upTo(last) = {}
      <4>1. ASSUME last <= s, NEW x \in upTo(last) PROVE FALSE
        <5>1. rows[x].updatedAt > s /\ rows[x].updatedAt <= last
          BY <2>2, <4>1
        <5>2. last \in Nat /\ s \in Nat /\ rows[x].updatedAt \in Nat
          BY <1>1, <2>1, TimesNat
        <5> HIDE DEF last
        <5> QED BY <4>1, <5>1, <5>2
      <4> QED BY <4>1
    <3>2. last > s \/ last <= s
      <4> HIDE DEF last
      <4> QED BY <2>1, TimesNat
    <3>3. Cardinality({}) = 0 /\ PAGE_CAP > 0 /\ PAGE_CAP \in Nat
      BY FS_EmptySet, SyncAssumption
    <3> HIDE DEF last, upTo
    <3> QED BY <2>1, <3>1, <3>2, <3>3
  <2>7. ASSUME NEW s \in Times, \A x \in matching : rows[x].updatedAt <= s
        PROVE  last <= s
    <3>1. upTo(s) = matching
      BY <2>7
    <3>2. Cardinality(matching) \in Nat
      BY IdsFinite
    <3>3. Cardinality(upTo(s)) >= PAGE_CAP
      <4> HIDE DEF upTo
      <4> QED BY <1>3, <3>1, <3>2, SyncAssumption
    <3>4. s \in full
      BY <3>3
    <3> HIDE DEF full
    <3> QED BY <2>1, <3>4
  <2>8. \E x \in matching : rows[x].updatedAt = last
    <3> SUFFICES ASSUME \A x \in matching : rows[x].updatedAt # last PROVE FALSE
      OBVIOUS
    <3>1. last \in Nat /\ Cardinality({}) = 0 /\ PAGE_CAP \in Nat \ {0}
      BY <2>1, TimesNat, FS_EmptySet, SyncAssumption
    <3>2. last # 0
      <4> SUFFICES ASSUME last = 0 PROVE FALSE
        OBVIOUS
      <4>1. ASSUME NEW x \in upTo(last) PROVE FALSE
        <5>1. rows[x].updatedAt <= last /\ rows[x].updatedAt \in Nat /\ rows[x].updatedAt # last
          BY <1>1
        <5> HIDE DEF last
        <5> QED BY <5>1
      <4>2. upTo(last) = {}
        BY <4>1
      <4> HIDE DEF upTo, last
      <4> QED BY <2>1, <3>1, <4>2
    <3>3. upTo(last - 1) = upTo(last)
      <4> HIDE DEF last
      <4>1. \A x \in matching : rows[x].updatedAt <= last - 1 <=> rows[x].updatedAt <= last
        BY <1>1, <3>1, <3>2
      <4> QED BY <4>1
    <3>4. last - 1 \in Times
      <4> HIDE DEF last
      <4> QED BY <2>1, <3>1, <3>2, SyncAssumption DEF Times
    <3>5. last - 1 \in full
      BY <2>1, <3>3, <3>4
    <3> HIDE DEF full, last
    <3> QED BY <2>1, <3>1, <3>5
  <2>3. before # {} => /\ cut \in {rows[x].updatedAt : x \in before}
                       /\ \A x \in before : rows[x].updatedAt <= cut
    <3> DEFINE S == {rows[x].updatedAt : x \in before}
    <3>1. S \in SUBSET Nat /\ \A t \in S : t <= MaxTime
      BY <1>1, TimesNat
    <3>2. CASE before # {}
      <4>1. S # {} /\ \A x \in before : rows[x].updatedAt \in S
        BY <3>2
      <4> HIDE DEF S, before
      <4>2. MaxTime \in Nat
        BY SyncAssumption
      <4>3. Max(S) \in S /\ \A x \in S : x <= Max(S)
        BY <3>1, <4>1, <4>2, Greatest
      <4> QED BY <4>1, <4>3 DEF S
    <3> QED BY <3>2
  <2>4. CASE Cardinality(upTo(last)) = PAGE_CAP
    <3>1. capped = [page |-> upTo(last), truncatedAt |-> {last}]
      BY <1>3, <2>4 DEF Cap
    <3>2. capped.page \in SUBSET matching /\ capped.truncatedAt = {last}
      BY <3>1
    <3>3. \A x \in matching : rows[x].updatedAt <= last => x \in capped.page
      BY <3>1
    <3> HIDE DEF last, upTo
    <3> QED BY <2>1, <2>2, <2>7, <2>8, <3>2, <3>3
  <2>5. CASE Cardinality(upTo(last)) # PAGE_CAP /\ before # {}
    <3>1. capped = [page |-> before, truncatedAt |-> {cut}]
      BY <1>3, <2>5 DEF Cap
    <3>2. PICK w \in before : cut = rows[w].updatedAt
      BY <2>3, <2>5
    <3>3. cut \in Times /\ cut < last
      BY <1>1, <3>2
    <3>4. \A s \in Times : (\A x \in matching : rows[x].updatedAt > s) => cut > s
      BY <3>2
    <3>7. \A s \in Times : (\A x \in matching : rows[x].updatedAt <= s) => cut <= s
      BY <3>2
    <3>5. \A x \in matching : rows[x].updatedAt <= cut => x \in before
      <4>1. cut \in Nat /\ last \in Nat
        BY <2>1, <3>3, TimesNat
      <4> HIDE DEF cut, last
      <4> QED BY <1>1, <3>3, <4>1
    <3>6. capped.page = before /\ capped.truncatedAt = {cut} /\ before \in SUBSET matching
      BY <3>1
    <3>8. \E x \in matching : rows[x].updatedAt = cut
      BY <3>2
    <3> HIDE DEF cut, before
    <3> QED BY <3>3, <3>4, <3>5, <3>6, <3>7, <3>8
  <2>6. CASE Cardinality(upTo(last)) # PAGE_CAP /\ before = {}
    <3>1. PICK page \in kSubset(PAGE_CAP, upTo(last)) :
            capped = [page |-> page, truncatedAt |-> {last}]
      BY <1>3, <2>6 DEF Cap
    <3>2. capped.page \in SUBSET matching /\ capped.truncatedAt = {last}
      BY <3>1 DEF kSubset
    <3>3. upTo(last) = {x \in matching : rows[x].updatedAt = last}
      <4>1. last \in Nat
        BY <2>1, TimesNat
      <4>2. \A x \in matching : ~(rows[x].updatedAt < last)
        BY <2>6
      <4> HIDE DEF last
      <4>3. \A x \in matching : rows[x].updatedAt <= last <=> rows[x].updatedAt = last
        BY <1>1, <4>1, <4>2
      <4> QED BY <4>3
    <3>4. Cardinality(upTo(last)) \in Nat
      BY IdsFinite
    <3>5. ~(Cardinality({x \in matching : rows[x].updatedAt = last}) <= PAGE_CAP)
      <4>1. Cardinality(upTo(last)) > PAGE_CAP
        <5> HIDE DEF upTo, last
        <5> QED BY <2>1, <2>6, <3>4, SyncAssumption
      <4> HIDE DEF last, upTo
      <4> QED BY <3>3, <3>4, <4>1, SyncAssumption
    <3> HIDE DEF last, upTo, before
    <3> QED BY <2>1, <2>2, <2>7, <2>8, <3>2, <3>5
  <2> QED BY <2>4, <2>5, <2>6
<1> QED BY <1>2, <1>3

-----------------------------------------------------------------------------
(* What holds of the tables whatever is written.                           *)

\* No statement writes a tombstone with a stamp older than its deletedAt.
Punctual == ~({"late", "race"} \subseteq Allowed)
Ordered(row, clock) ==
  row.deletedAt <= clock /\ (Punctual => row.deletedAt <= row.updatedAt)

\* A live row is in a live place, a deleted one in a place that has a row.
RowInPlace(x) ==
  /\ rows[x].state = "absent" => rows[x].updatedAt = 0
  /\ rows[x].state = "live" => rows[rows[x].place].state = "live" /\ rows[x].rev # 0
  /\ rows[x].state = "deleted" => rows[rows[x].place].state # "absent" /\ Ordered(rows[x], now)
  /\ x \in Places /\ rows[x].state # "absent" => rows[x].place = x
PlacesInv == \A x \in Ids : RowInPlace(x)

\* What a write of the rows W does to them.
Writes(W, d, i, t) ==
  /\ W \in SUBSET Ids
  /\ rows' \in [Ids -> Row]
  /\ PlacesInv'
  /\ \A x \in W : /\ i <= rows'[x].updatedAt /\ rows'[x].updatedAt <= t
                  /\ rows'[x].state = "deleted" /\ "race" \notin Allowed => rows'[x].deletedAt = d
  /\ \A kind \in Kinds : \A x, y \in W \cap kind : rows'[x].updatedAt = rows'[y].updatedAt
  /\ \A x \in Ids \ W : rows'[x] = rows[x] \/ "move" \in Allowed
  /\ \A kind \in Kinds : Cardinality(W \cap kind) <= 1 \/ Cardinality(W \cap kind) <= BatchBound

\* The times of a write, and the clock when it commits.
Clocked(d, i, t) ==
  /\ d \in Times /\ i \in Times /\ t \in Times /\ d \in Nat /\ i \in Nat /\ t \in Nat
  /\ now \in Nat /\ now' \in Nat /\ now' \in Times
  /\ 0 < d /\ d <= i /\ i <= t
  /\ now <= now' /\ t <= now'
  /\ Timed(d, i, t) /\ Committed(t)

LEMMA WriteClocked ==
  ASSUME TypeOK, NEW t \in Moments, NEW d \in 1 .. t, NEW i \in d .. t,
         Timed(d, i, t), Committed(t)
  PROVE  Clocked(d, i, t)
<1>1. t \in Times /\ now \in Times
  BY DEF Moments, TypeOK
<1>2. t \in Nat /\ now \in Nat /\ t <= MaxTime /\ MaxTime \in Nat
  BY <1>1, TimesNat, SyncAssumption
<1>3. d \in Nat /\ i \in Nat /\ 0 < d /\ d <= i /\ i <= t
  BY <1>2
<1>4. d \in Times /\ i \in Times
  BY <1>2, <1>3 DEF Times
<1>5. now' = IF t > now THEN t ELSE now
  BY DEF Committed
<1>6. now' \in Times /\ now <= now' /\ t <= now'
  BY <1>1, <1>2, <1>5
<1> QED BY <1>1, <1>2, <1>3, <1>4, <1>6, TimesNat DEF Clocked

\* A write by id that finds a tombstone is stamped no earlier than the clock.
LEMMA ReachedLater ==
  ASSUME NEW d, NEW i, NEW t, Clocked(d, i, t), "race" \in Allowed, Punctual
  PROVE  now <= i
BY DEF Clocked, Timed, Punctual

LEMMA KindsOfIds == /\ \A kind \in Kinds : kind \in SUBSET Ids
                    /\ Places \in SUBSET Ids
                    /\ \A x \in Ids : \E kind \in Kinds : x \in kind
                    /\ \A list \in Lists : list[2] \in SUBSET Ids
BY DEF Kinds, Ids, Lists

\* A row, but for the bound on rev.
Revised(new) == \E r \in Row, rev \in Nat : new = [r EXCEPT !.rev = rev]

\* A table whose revs are numbers is one, for a write keeps the bound.
LEMMA Bounded ==
  ASSUME NEW t, Committed(t), rows' = [x \in Ids |-> rows'[x]],
         \A x \in Ids : Revised(rows'[x])
  PROVE  rows' \in [Ids -> Row]
<1>1. ASSUME NEW x \in Ids PROVE rows'[x] \in Row
  <2>1. PICK row \in Row, rev \in Nat : rows'[x] = [row EXCEPT !.rev = rev]
    BY DEF Revised
  <2>2. rows'[x].rev = rev /\ rev <= MaxRev
    BY <2>1 DEF Committed, Row
  <2>3. rev \in 0 .. MaxRev
    BY <2>2, SyncAssumption
  <2> QED BY <2>1, <2>3 DEF Row
<1> QED BY <1>1

LEMMA RowOf ==
  ASSUME TypeOK
  PROVE  /\ \A x \in Ids : rows[x] \in Row
         /\ rows = [x \in Ids |-> rows[x]]
BY DEF TypeOK

LEMMA SameRow == \A row \in Row : Revised(row)
<1>1. \A row \in Row : row = [row EXCEPT !.rev = row.rev] /\ row.rev \in Nat
  BY SyncAssumption DEF Row
<1> QED BY <1>1 DEF Revised

\* The three things a statement makes of a row.
LEMMA TouchedRow ==
  ASSUME NEW row \in Row, NEW hidden \in BOOLEAN, NEW t \in Times, NEW new,
         new = Touched([row EXCEPT !.hidden = hidden], t)
  PROVE  /\ Revised(new)
         /\ new.state = row.state /\ new.place = row.place /\ new.updatedAt = t /\ new.rev # 0
         /\ new.deletedAt = row.deletedAt
<1>1. [row EXCEPT !.hidden = hidden, !.updatedAt = t] \in Row /\ row.rev + 1 \in Nat
  <2>1. [row EXCEPT !.hidden = hidden, !.updatedAt = t] \in Row
    BY DEF Row
  <2>2. row.rev + 1 \in Nat
    BY SyncAssumption DEF Row
  <2> QED BY <2>1, <2>2
<1>2. new = [[row EXCEPT !.hidden = hidden, !.updatedAt = t] EXCEPT !.rev = row.rev + 1]
  BY DEF Touched, Row
<1>3. /\ new.state = row.state /\ new.place = row.place /\ new.updatedAt = t /\ new.rev = row.rev + 1
      /\ new.deletedAt = row.deletedAt
  BY DEF Touched, Row
<1>4. row.rev + 1 # 0
  BY SyncAssumption DEF Row
<1>5. Revised(new)
  BY <1>1, <1>2 DEF Revised
<1> QED BY <1>3, <1>4, <1>5

LEMMA TouchedSame ==
  ASSUME NEW row \in Row, NEW t \in Times, NEW new, new = Touched(row, t)
  PROVE  /\ Revised(new)
         /\ new.state = row.state /\ new.place = row.place /\ new.updatedAt = t /\ new.rev # 0
         /\ new.deletedAt = row.deletedAt
<1>1. [row EXCEPT !.hidden = row.hidden] = row /\ row.hidden \in BOOLEAN
  BY DEF Row
<1> QED BY <1>1, TouchedRow

LEMMA DeletedRow ==
  ASSUME NEW row \in Row, NEW d \in Times, NEW t \in Times, NEW new, new = Deleted(row, d, t)
  PROVE  /\ Revised(new)
         /\ new.state = "deleted" /\ new.place = row.place /\ new.updatedAt = t
         /\ new.deletedAt = d
<1>1. Revised(new)
  <2>1. new \in Row
    BY DEF Deleted, Row
  <2> QED BY <2>1, SameRow
<1>2. new.state = "deleted" /\ new.place = row.place /\ new.updatedAt = t /\ new.deletedAt = d
  BY DEF Deleted, Row
<1> QED BY <1>1, <1>2

LEMMA RemovedRow ==
  ASSUME TypeOK, NEW x \in Ids, NEW d \in Times, NEW u \in Times,
         rows'[x] = Deleted(rows[x], d, u)
  PROVE  /\ rows'[x].state = "deleted" /\ rows'[x].place = rows[x].place
         /\ rows'[x].updatedAt = u /\ rows'[x].deletedAt = d
         /\ Revised(rows'[x])
BY RowOf, DeletedRow

LEMMA OneRow ==
  ASSUME NEW x \in Ids
  PROVE  \A kind \in Kinds : Cardinality({x} \cap kind) <= 1
<1>1. \A kind \in Kinds : {x} \cap kind = {x} \/ {x} \cap kind = {}
  OBVIOUS
<1>2. Cardinality({}) <= 1 /\ Cardinality({x}) <= 1
  BY FS_EmptySet, FS_Singleton
<1>3. ASSUME NEW kind \in Kinds PROVE Cardinality({x} \cap kind) <= 1
  <2>1. CASE {x} \cap kind = {x}
    BY <1>2, <2>1
  <2>2. CASE {x} \cap kind = {}
    BY <1>2, <2>2
  <2> QED BY <1>1, <2>1, <2>2
<1> QED BY <1>3

\* What a removal or a late write makes of a tombstone keeps its times in order.
LEMMA TimesOrdered ==
  ASSUME TypeOK, PlacesInv, NEW d, NEW i, NEW t, Clocked(d, i, t), NEW x \in Ids,
         NEW u \in Nat, i <= u, u <= t,
         rows'[x].updatedAt = u,
         \/ rows'[x].deletedAt = d
         \/ rows[x].state = "deleted" /\ "race" \in Allowed /\ rows'[x].deletedAt = rows[x].deletedAt
  PROVE  Ordered(rows'[x], now')
<1>1. CASE rows'[x].deletedAt = d
  BY <1>1 DEF Clocked, Ordered
<1>2. CASE rows[x].state = "deleted" /\ "race" \in Allowed /\ rows'[x].deletedAt = rows[x].deletedAt
  <2>1. rows[x].deletedAt <= now /\ rows[x].deletedAt \in Nat
    BY <1>2, RowOf, TimesNat DEF PlacesInv, RowInPlace, Ordered, Row
  <2>2. Punctual => now <= i
    BY <1>2, ReachedLater
  <2>3. now \in Nat /\ now' \in Nat /\ now <= now' /\ i \in Nat
    BY DEF Clocked
  <2>4. rows[x].deletedAt <= now'
    BY <2>1, <2>3
  <2>5. Punctual => rows[x].deletedAt <= u
    BY <2>1, <2>2, <2>3
  <2> QED BY <1>2, <2>4, <2>5 DEF Ordered
<1> QED BY <1>1, <1>2

\* Rows stay in their places, and no place that was live is deleted.
LEMMA PlacesKept ==
  ASSUME TypeOK, PlacesInv, now' \in Nat, now <= now',
         \A x \in Ids :
           /\ rows'[x].place = rows[x].place
           /\ \/ rows'[x] = rows[x]
              \/ /\ rows[x].state = "live" /\ rows'[x].state = "live" /\ rows'[x].rev # 0
              \/ /\ rows'[x].state = "deleted" /\ Ordered(rows'[x], now')
                 /\ rows[x].state = "deleted" \/ (rows[x].state = "live" /\ x \notin Places)
  PROVE  PlacesInv'
<1>1. \A p \in Places : rows'[p].state = rows[p].state
  BY KindsOfIds
<1>2. \A x \in Ids : rows[x].place \in Places /\ rows[x].deletedAt \in Nat
  BY RowOf, TimesNat DEF Row
<1>3. ASSUME NEW x \in Ids PROVE RowInPlace(x)'
  <2>1. rows'[x].place = rows[x].place /\ rows'[rows[x].place].state = rows[rows[x].place].state
    BY <1>1, <1>2
  <2>2. RowInPlace(x)
    BY DEF PlacesInv
  <2>3. CASE rows'[x] = rows[x]
    <3>1. now \in Nat
      BY TimesNat DEF TypeOK
    <3>2. rows[x].deletedAt <= now => rows[x].deletedAt <= now'
      BY <1>2, <3>1
    <3> QED BY <2>1, <2>2, <2>3, <3>2 DEF RowInPlace, Ordered
  <2>4. CASE rows[x].state = "live" /\ rows'[x].state = "live" /\ rows'[x].rev # 0
    BY <2>1, <2>2, <2>4 DEF RowInPlace
  <2>5. CASE /\ rows'[x].state = "deleted" /\ Ordered(rows'[x], now')
             /\ rows[x].state = "deleted" \/ (rows[x].state = "live" /\ x \notin Places)
    BY <2>1, <2>2, <2>5 DEF RowInPlace
  <2> QED BY <2>3, <2>4, <2>5
<1> QED BY <1>3 DEF PlacesInv

LEMMA CreateWrites ==
  ASSUME TypeOK, PlacesInv, NEW x \in Ids, NEW p \in Places, NEW hidden \in BOOLEAN,
         NEW t, Clocked(t, t, t), Create(x, p, hidden, t)
  PROVE  Writes({x}, t, t, t)
<1> DEFINE new == [AbsentRow EXCEPT !.state = "live", !.place = p, !.hidden = hidden,
                                    !.updatedAt = t, !.rev = 1]
<1>0. t \in Times /\ t \in Nat /\ Committed(t) /\ now' \in Nat /\ now <= now'
  BY DEF Clocked
<1>1. /\ new.state = "live" /\ new.place = p /\ new.updatedAt = t /\ new.rev = 1
      /\ Revised(new)
  <2> DEFINE r == [AbsentRow EXCEPT !.state = "live", !.place = p, !.hidden = hidden, !.updatedAt = t]
  <2>1. r \in Row
    <3>1. AbsentRow \in Row
      BY TimesNat, SyncAssumption DEF AbsentRow, Row
    <3> QED BY <1>0, <3>1 DEF Row
  <2>2. new = [r EXCEPT !.rev = 1]
    BY DEF AbsentRow
  <2>3. Revised(new)
    BY <2>1, <2>2 DEF Revised
  <2> QED BY <2>3 DEF AbsentRow
<1>2. /\ rows[x].state = "absent" /\ (x = p \/ (x \notin Places /\ Live(p)))
      /\ rows' = [rows EXCEPT ![x] = new]
  BY DEF Create
<1> HIDE DEF new
<1>3. \A y \in Ids : rows'[y] = IF y = x THEN new ELSE rows[y]
  BY <1>2 DEF TypeOK
<1>4. rows' \in [Ids -> Row]
  <2>1. \A y \in Ids : Revised(rows'[y])
    <3>1. \A y \in Ids \ {x} : rows'[y] \in Row
      BY <1>3, RowOf
    <3>2. rows'[x] = new
      BY <1>3
    <3> QED BY <1>1, <3>1, <3>2, SameRow
  <2>2. rows' = [y \in Ids |-> rows'[y]]
    BY <1>2, RowOf
  <2> QED BY <1>0, <2>1, <2>2, Bounded
<1>5. PlacesInv'
  <2>1. ASSUME NEW y \in Ids, rows[y].state = "deleted" PROVE Ordered(rows[y], now')
    <3>1. rows[y].deletedAt <= now /\ rows[y].deletedAt \in Nat /\ now \in Nat
      BY <2>1, RowOf, TimesNat DEF PlacesInv, RowInPlace, Ordered, Row, TypeOK
    <3>2. rows[y].deletedAt <= now'
      BY <1>0, <3>1
    <3> QED BY <2>1, <3>2 DEF PlacesInv, RowInPlace, Ordered
  <2> QED BY <1>1, <1>2, <1>3, <2>1, KindsOfIds DEF TypeOK, Row, PlacesInv, RowInPlace, Live
<1>6. rows'[x].updatedAt = t /\ rows'[x].state = "live"
  BY <1>1, <1>3
<1> QED BY <1>0, <1>3, <1>4, <1>5, <1>6, OneRow DEF Writes

\* A statement that touches the row x alone.
LEMMA TouchWrites ==
  ASSUME TypeOK, PlacesInv, NEW x \in Ids, NEW t, Clocked(t, t, t), Reached(x),
         rows' \in [Ids -> Row], \A y \in Ids \ {x} : rows'[y] = rows[y] \/
            ("move" \in Allowed /\ rows'[y].place = rows[y].place /\ rows[y].state = "live" /\
              rows'[y].state = "live" /\ rows'[y].rev # 0),
         rows'[x].state = rows[x].state, rows'[x].place = rows[x].place,
         rows'[x].updatedAt = t, rows'[x].rev # 0, rows'[x].deletedAt = rows[x].deletedAt
  PROVE  Writes({x}, t, t, t)
<1>0. t \in Times /\ t \in Nat /\ Committed(t) /\ now' \in Nat /\ now <= now'
  BY DEF Clocked
<1>1. rows[x].state = "live" \/ (rows[x].state = "deleted" /\ "race" \in Allowed)
  BY DEF Reached, Live
<1>2. rows[x].state = "deleted" => Ordered(rows'[x], now')
  BY <1>0, <1>1, TimesOrdered
<1>3. PlacesInv'
  BY <1>0, <1>1, <1>2, PlacesKept
<1>4. rows'[x].state = "deleted" => "race" \in Allowed
  BY <1>1
<1> QED BY <1>0, <1>3, <1>4, OneRow DEF Writes

LEMMA EditWrites ==
  ASSUME TypeOK, PlacesInv, NEW x \in Ids, NEW hidden \in BOOLEAN, NEW t, Clocked(t, t, t),
         Edit(x, hidden, t)
  PROVE  Writes({x}, t, t, t)
<1> DEFINE new == Touched([rows[x] EXCEPT !.hidden = hidden], t)
<1>0. t \in Times /\ Committed(t)
  BY DEF Clocked
<1>1. /\ new.state = rows[x].state /\ new.place = rows[x].place /\ new.updatedAt = t /\ new.rev # 0
      /\ new.deletedAt = rows[x].deletedAt
      /\ Revised(new)
  BY <1>0, RowOf, TouchedRow
<1>2. Reached(x) /\ rows' = [rows EXCEPT ![x] = new]
  BY DEF Edit, TypeOK
<1> HIDE DEF new
<1>3. \A y \in Ids : rows'[y] = IF y = x THEN new ELSE rows[y]
  BY <1>2 DEF TypeOK
<1>4. rows' \in [Ids -> Row]
  <2>1. \A y \in Ids : Revised(rows'[y])
    BY <1>1, <1>3, SameRow, RowOf
  <2>2. rows' = [y \in Ids |-> rows'[y]]
    BY <1>2, RowOf
  <2> QED BY <1>0, <2>1, <2>2, Bounded
<1> QED BY <1>1, <1>2, <1>3, <1>4, TouchWrites

LEMMA RemoveItemWrites ==
  ASSUME TypeOK, PlacesInv, NEW x \in Items, NEW d, NEW t, Clocked(d, t, t), RemoveItem(x, d, t)
  PROVE  Writes({x}, d, t, t)
<1> DEFINE new == Deleted(rows[x], d, t)
<1>0. /\ x \in Ids /\ x \notin Places /\ d \in Times /\ t \in Times /\ t \in Nat /\ Committed(t)
      /\ now' \in Nat /\ now <= now'
  BY SyncAssumption DEF Ids, Clocked
<1>1. /\ new.state = "deleted" /\ new.place = rows[x].place /\ new.updatedAt = t
      /\ new.deletedAt = d /\ Revised(new)
  BY <1>0, RowOf, DeletedRow
<1>2. rows[x].state \in {"live", "deleted"} /\ rows' = [rows EXCEPT ![x] = new]
  BY DEF RemoveItem, Reached, Live
<1> HIDE DEF new
<1>3. \A y \in Ids : rows'[y] = IF y = x THEN new ELSE rows[y]
  BY <1>2 DEF TypeOK
<1>4. rows' \in [Ids -> Row]
  <2>1. \A y \in Ids : Revised(rows'[y])
    BY <1>1, <1>3, SameRow, RowOf
  <2>2. rows' = [y \in Ids |-> rows'[y]]
    BY <1>2, RowOf
  <2> QED BY <1>0, <2>1, <2>2, Bounded
<1>7. t <= t
  BY <1>0
<1>8. rows'[x].updatedAt = t /\ rows'[x].deletedAt = d
  BY <1>0, <1>1, <1>3
<1>5. Ordered(rows'[x], now')
  BY <1>0, <1>7, <1>8, TimesOrdered
<1>6. PlacesInv'
  BY <1>0, <1>1, <1>2, <1>3, <1>5, PlacesKept
<1>9. \A y \in Ids \ {x} : rows'[y] = rows[y]
  BY <1>3
<1> QED BY <1>0, <1>4, <1>6, <1>7, <1>8, <1>9, OneRow DEF Writes

LEMMA RemoveStorageWrites ==
  ASSUME TypeOK, PlacesInv, NEW p \in Places, NEW subtree \in SUBSET ReachedIn(p, Storages),
         NEW contents \in SUBSET ReachedIn(p, Items), NEW d, NEW i, NEW t, Clocked(d, i, t),
         RemoveStorage(subtree, contents, d, i, t)
  PROVE  Writes(subtree \cup contents, d, i, t)
<1>0. /\ d \in Times /\ i \in Times /\ t \in Times /\ i \in Nat /\ t \in Nat /\ i <= t
      /\ Committed(t) /\ now' \in Nat /\ now <= now'
  BY DEF Clocked
<1>1. /\ subtree \in SUBSET Storages /\ contents \in SUBSET Items
      /\ \A x \in subtree \cup contents : x \in Ids /\ x \notin Places
      /\ \A x \in subtree \cup contents :
           rows[x].state = "live" \/ (rows[x].state = "deleted" /\ "race" \in Allowed)
  BY SyncAssumption DEF ReachedIn, Reached, Live, Ids
<1>2. /\ rows' = [x \in Ids |-> IF x \in subtree THEN Deleted(rows[x], d, t)
                                ELSE IF x \in contents THEN Touched(rows[x], i) ELSE rows[x]]
      /\ Cardinality(subtree) <= BatchBound /\ Cardinality(contents) <= BatchBound
  BY DEF RemoveStorage
<1>3. ASSUME NEW x \in Ids
      PROVE  /\ Revised(rows'[x])
             /\ rows'[x].place = rows[x].place
             /\ \/ x \in subtree /\ rows'[x].state = "deleted" /\ rows'[x].deletedAt = d
                   /\ rows'[x].updatedAt = t
                \/ x \in contents /\ x \notin subtree /\ rows'[x].state = rows[x].state
                   /\ rows'[x].rev # 0 /\ rows'[x].updatedAt = i
                   /\ rows'[x].deletedAt = rows[x].deletedAt
                \/ x \notin subtree \cup contents /\ rows'[x] = rows[x]
  <2>1. CASE x \in subtree
    BY <1>0, <1>2, <2>1, RowOf, DeletedRow
  <2>2. CASE x \notin subtree /\ x \in contents
    BY <1>0, <1>1, <1>2, <2>2, RowOf, TouchedSame
  <2>3. CASE x \notin subtree /\ x \notin contents
    BY <1>2, <2>3, SameRow DEF TypeOK
  <2> QED BY <2>1, <2>2, <2>3
<1>4. rows' \in [Ids -> Row]
  BY <1>0, <1>2, <1>3, Bounded
<1>5. PlacesInv'
  <2>1. ASSUME NEW x \in subtree PROVE Ordered(rows'[x], now')
    <3>1. x \in Ids /\ rows'[x] = Deleted(rows[x], d, t) /\ rows[x] \in Row
      BY <1>1, <1>2, <2>1, RowOf
    <3>2. rows'[x].updatedAt = t /\ rows'[x].deletedAt = d
      BY <1>1, <1>3, <2>1, SyncAssumption
    <3>3. t <= t
      BY <1>0
    <3> QED BY <1>0, <3>1, <3>2, <3>3, TimesOrdered
  <2>2. ASSUME NEW x \in contents, x \notin subtree, rows[x].state = "deleted"
        PROVE  Ordered(rows'[x], now')
    <3>1. rows'[x].updatedAt = i /\ rows'[x].deletedAt = rows[x].deletedAt /\ "race" \in Allowed
      BY <1>1, <1>3, <2>2
    <3> QED BY <1>0, <1>1, <2>2, <3>1, TimesOrdered
  <2> QED BY <1>0, <1>1, <1>3, <2>1, <2>2, PlacesKept
<1>6. ASSUME NEW kind \in Kinds
      PROVE  /\ Cardinality((subtree \cup contents) \cap kind) <= BatchBound
             /\ \/ (subtree \cup contents) \cap kind = subtree
                \/ (subtree \cup contents) \cap kind = contents
                \/ (subtree \cup contents) \cap kind = {}
  <2>1. \/ (subtree \cup contents) \cap kind = subtree
        \/ (subtree \cup contents) \cap kind = contents
        \/ (subtree \cup contents) \cap kind = {}
    BY <1>1, SyncAssumption DEF Kinds
  <2>2. Cardinality({}) <= BatchBound
    BY FS_EmptySet, SyncAssumption
  <2> QED BY <1>2, <2>1, <2>2
<1>7. \A x \in subtree : x \notin contents
  BY <1>1, SyncAssumption
<1>8. \A kind \in Kinds : \A x, y \in (subtree \cup contents) \cap kind :
        rows'[x].updatedAt = rows'[y].updatedAt
  <2>1. \A x \in subtree : rows'[x].updatedAt = t
    BY <1>1, <1>3
  <2>2. \A x \in contents : rows'[x].updatedAt = i
    BY <1>1, <1>3, <1>7
  <2> QED BY <1>6, <2>1, <2>2
<1>9. \A x \in subtree \cup contents :
        /\ i <= rows'[x].updatedAt /\ rows'[x].updatedAt <= t
        /\ rows'[x].state = "deleted" /\ "race" \notin Allowed => rows'[x].deletedAt = d
  BY <1>0, <1>1, <1>3
<1> QED BY <1>1, <1>3, <1>4, <1>5, <1>6, <1>8, <1>9 DEF Writes

LEMMA RemovePlaceWrites ==
  ASSUME TypeOK, PlacesInv, NEW p \in Places, NEW d, NEW i, NEW t, NEW s \in i .. t,
         Clocked(d, i, t), RemovePlace(p, d, i, s, t)
  PROVE  Writes({p} \cup LiveIn(p, Ids), d, i, t)
<1> DEFINE W == {p} \cup LiveIn(p, Ids)
           stamp(x) == IF x = p THEN t ELSE IF x \in Storages THEN s ELSE i
<1>0. /\ d \in Times /\ i \in Times /\ t \in Times /\ i \in Nat /\ t \in Nat /\ i <= t
      /\ Committed(t) /\ now' \in Nat /\ now <= now' /\ p \in Ids
  BY KindsOfIds DEF Clocked
<1>10. s \in Times /\ s \in Nat /\ i <= s /\ s <= t
  <2>1. t <= MaxTime /\ MaxTime \in Nat
    BY <1>0, TimesNat, SyncAssumption
  <2>2. s \in Nat /\ i <= s /\ s <= t
    BY <1>0
  <2>3. s <= MaxTime
    BY <1>0, <2>1, <2>2
  <2> QED BY <2>1, <2>2, <2>3 DEF Times
<1>1. \A x \in LiveIn(p, Ids) : x \in Ids /\ rows[x].state = "live" /\ rows[x].place = p
  BY DEF LiveIn, Live
<1>11. \A x \in LiveIn(p, Ids) : x = p \/ x \notin Places
  BY <1>1 DEF PlacesInv, RowInPlace
<1>12. rows[p].state \in {"live", "deleted"} /\ rows[p].place = p
  BY <1>0 DEF RemovePlace, Reached, Live, PlacesInv, RowInPlace
<1>13. ASSUME NEW x \in LiveIn(p, Ids), x # p
       PROVE  x \in LiveIn(p, Storages) \/ (x \in LiveIn(p, Items) /\ x \notin Storages)
  BY <1>11, <1>13 DEF LiveIn, Ids
<1>14. ASSUME NEW x \in Ids, x \notin W
       PROVE  x # p /\ x \notin LiveIn(p, Storages) /\ x \notin LiveIn(p, Items)
  BY <1>14 DEF LiveIn
<1>2. /\ rows' = [x \in Ids |-> IF x = p THEN Deleted(rows[x], d, t)
                            ELSE IF x \in LiveIn(p, Storages) THEN Deleted(rows[x], d, s)
                            ELSE IF x \in LiveIn(p, Items) THEN Deleted(rows[x], d, i) ELSE rows[x]]
      /\ \A kind \in Kinds : Cardinality(LiveIn(p, kind)) <= BatchBound
  BY DEF RemovePlace
<1>3. ASSUME NEW x \in Ids
      PROVE  IF x \in W THEN rows'[x] = Deleted(rows[x], d, stamp(x)) ELSE rows'[x] = rows[x]
  <2>1. CASE x = p
    BY <1>2, <2>1
  <2>2. CASE x # p /\ x \in LiveIn(p, Ids)
    <3>1. x \in LiveIn(p, Storages) => x \in Storages
      BY DEF LiveIn
    <3>2. x \in LiveIn(p, Storages) <=> x \in Storages
      BY <1>13, <2>2, <3>1
    <3> QED BY <1>2, <1>13, <2>2, <3>2
  <2>3. CASE x \notin W
    BY <1>2, <1>14, <2>3
  <2> QED BY <2>1, <2>2, <2>3
<1>4. \A x \in Ids : stamp(x) \in Times /\ stamp(x) \in Nat /\ i <= stamp(x) /\ stamp(x) <= t
  BY <1>0, <1>10
<1>5. W \in SUBSET Ids
  BY <1>0, <1>1
<1>6. ASSUME NEW x \in W
      PROVE  /\ rows'[x].state = "deleted" /\ rows'[x].place = p /\ rows[x].place = p
             /\ rows'[x].updatedAt = stamp(x) /\ rows'[x].deletedAt = d
             /\ Revised(rows'[x])
  <2>1. x \in Ids /\ rows[x] \in Row /\ rows[x].place = p
    BY <1>1, <1>5, <1>12, RowOf
  <2>2. rows'[x] = Deleted(rows[x], d, stamp(x)) /\ stamp(x) \in Times
    BY <1>3, <1>4, <2>1
  <2> HIDE DEF stamp, W
  <2> HIDE DEF stamp
  <2>3. ASSUME NEW u \in Times, u = stamp(x)
        PROVE  /\ rows'[x].state = "deleted" /\ rows'[x].place = rows[x].place
               /\ rows'[x].updatedAt = u /\ rows'[x].deletedAt = d
               /\ Revised(rows'[x])
    <3>1. d \in Times /\ x \in Ids
      BY <1>0, <2>1
    <3>2. rows'[x] = Deleted(rows[x], d, u)
      BY <2>2, <2>3
    <3> QED BY <3>1, <3>2, RemovedRow
  <2> QED BY <2>1, <2>2, <2>3
<1> HIDE DEF stamp
<1>7. rows' \in [Ids -> Row]
  <2>1. ASSUME NEW x \in Ids PROVE Revised(rows'[x])
    <3>1. CASE x \in W
      BY <1>6, <3>1
    <3>2. CASE x \notin W
      BY <1>3, <3>2, RowOf, SameRow
    <3> QED BY <3>1, <3>2
  <2>2. rows' = [x \in Ids |-> rows'[x]]
    BY <1>2
  <2> QED BY <1>0, <2>1, <2>2, Bounded
<1>8. PlacesInv'
  <2>1. \A x \in Ids : rows[x].place \in Places /\ rows[x].place \in Ids
    BY KindsOfIds DEF TypeOK, Row
  <2>2. ASSUME NEW x \in W PROVE Ordered(rows'[x], now')
    BY <1>4, <1>5, <1>6, TimesOrdered
  <2>3. ASSUME NEW x \in Ids, x \in W PROVE RowInPlace(x)'
    <3>1. rows'[p].state = "deleted" /\ rows'[x].state = "deleted" /\ rows'[x].place = p
      BY <1>6, <2>3
    <3>2. x \in Places => x = p
      BY <1>11, <2>3
    <3> QED BY <2>2, <2>3, <3>1, <3>2 DEF RowInPlace
  <2>4. ASSUME NEW x \in Ids, x \notin W PROVE RowInPlace(x)'
    <3>1. rows'[x] = rows[x] /\ RowInPlace(x)
      BY <1>3, <2>4 DEF PlacesInv
    <3>2. rows[x].state = "live" => rows[x].place # p
      BY <2>4 DEF LiveIn, Live
    <3>3. ASSUME NEW q \in Places PROVE rows'[q].state = "deleted" \/ rows'[q] = rows[q]
      BY <1>3, <1>6, KindsOfIds
    <3>4. ASSUME NEW q \in Places, q # p PROVE rows'[q] = rows[q]
      <4>1. q \notin W /\ q \in Ids
        BY <1>11, <3>4, KindsOfIds
      <4> QED BY <1>3, <4>1
    <3>5. rows[x].deletedAt <= now => rows[x].deletedAt <= now'
      <4>1. rows[x].deletedAt \in Nat /\ now \in Nat
        BY RowOf, TimesNat DEF Row, TypeOK
      <4> QED BY <1>0, <4>1
    <3>6. rows[x].place \in Places
      BY <2>1
    <3> HIDE DEF W
    <3> QED BY <3>1, <3>2, <3>3, <3>4, <3>5, <3>6 DEF RowInPlace, Ordered
  <2> QED BY <2>3, <2>4 DEF PlacesInv
<1>9. ASSUME NEW kind \in Kinds
      PROVE  /\ Cardinality(W \cap kind) <= 1 \/ Cardinality(W \cap kind) <= BatchBound
             /\ \A x, y \in W \cap kind : stamp(x) = stamp(y)
  <2>1. CASE kind = Places
    <3>1. W \cap kind = {p}
      BY <1>11, <2>1
    <3>2. Cardinality({p}) = 1
      BY FS_Singleton
    <3> HIDE DEF W
    <3> QED BY <3>1, <3>2
  <2>2. CASE kind # Places
    <3>1. kind \in {Storages, Items}
      BY <2>2 DEF Kinds
    <3>2. p \notin kind
      BY <3>1, SyncAssumption
    <3>3. W \cap kind = LiveIn(p, kind)
      BY <3>2, KindsOfIds DEF LiveIn
    <3>4. \A x, y \in kind : stamp(x) = stamp(y)
      BY <3>1, <3>2, SyncAssumption DEF stamp
    <3> HIDE DEF W
    <3>5. Cardinality(W \cap kind) <= BatchBound
      BY <1>2, <3>3
    <3> QED BY <3>4, <3>5
  <2>3. kind = Places \/ kind # Places
    OBVIOUS
  <2> HIDE DEF W, stamp
  <2> QED BY ONLY <2>1, <2>2, <2>3
<1>15. \A kind \in Kinds : \A x, y \in W \cap kind : rows'[x].updatedAt = rows'[y].updatedAt
  <2> SUFFICES ASSUME NEW kind \in Kinds, NEW x \in W \cap kind, NEW y \in W \cap kind
               PROVE  rows'[x].updatedAt = rows'[y].updatedAt
    OBVIOUS
  <2>1. rows'[x].updatedAt = stamp(x) /\ rows'[y].updatedAt = stamp(y)
    BY <1>6
  <2>2. stamp(x) = stamp(y)
    BY <1>9
  <2> QED BY <2>1, <2>2
<1>16. \A x \in W : /\ i <= rows'[x].updatedAt /\ rows'[x].updatedAt <= t
                    /\ rows'[x].state = "deleted" /\ "race" \notin Allowed => rows'[x].deletedAt = d
  BY <1>4, <1>5, <1>6
<1>17. \A x \in Ids \ W : rows'[x] = rows[x]
  BY <1>3
<1> HIDE DEF W
<1>18. Writes(W, d, i, t)
  BY <1>5, <1>7, <1>8, <1>9, <1>15, <1>16, <1>17 DEF Writes
<1> QED BY <1>18 DEF W

LEMMA MoveWrites ==
  ASSUME TypeOK, PlacesInv, NEW p \in Places, NEW x \in ReachedIn(p, Storages),
         NEW below \in SUBSET LiveIn(p, Storages), NEW t, Clocked(t, t, t), MoveStorage(x, below, t)
  PROVE  Writes({x}, t, t, t)
<1>0. t \in Times /\ Committed(t)
  BY DEF Clocked
<1>1. x \in Ids /\ Reached(x) /\ \A y \in below : y \in Ids /\ rows[y].state = "live"
  BY DEF LiveIn, Live, ReachedIn, Ids
<1>2. /\ rows' = [y \in Ids |-> IF y = x THEN Touched(rows[y], t)
                                ELSE IF y \in below THEN [rows[y] EXCEPT !.rev = @ + 1] ELSE rows[y]]
      /\ "move" \in Allowed
  BY DEF MoveStorage
<1>3. ASSUME NEW y \in Ids
      PROVE  /\ Revised(rows'[y])
             /\ rows'[y].place = rows[y].place /\ rows'[y].state = rows[y].state
             /\ \/ y = x /\ rows'[y].rev # 0 /\ rows'[y].updatedAt = t
                   /\ rows'[y].deletedAt = rows[y].deletedAt
                \/ y # x /\ y \in below /\ rows'[y].rev # 0
                \/ y # x /\ rows'[y] = rows[y]
  <2>0. rows[y] \in Row
    BY DEF TypeOK
  <2>1. CASE y = x
    BY <1>0, <1>2, <2>0, <2>1, TouchedSame
  <2>2. CASE y # x /\ y \in below
    <3>1. rows'[y] = [rows[y] EXCEPT !.rev = rows[y].rev + 1]
      BY <1>2, <2>2
    <3>2. rows[y].rev + 1 \in Nat /\ rows[y].rev + 1 # 0
      BY <2>0, SyncAssumption DEF Row
    <3>3. Revised(rows'[y])
      BY <2>0, <3>1, <3>2 DEF Revised
    <3> QED BY <2>0, <2>2, <3>1, <3>2, <3>3 DEF Row
  <2>3. CASE y # x /\ y \notin below
    BY <1>2, <2>0, <2>3, SameRow
  <2> QED BY <2>1, <2>2, <2>3
<1>4. rows' \in [Ids -> Row]
  BY <1>0, <1>2, <1>3, Bounded
<1>5. ASSUME NEW y \in Ids \ {x}
      PROVE  rows'[y] = rows[y] \/
            ("move" \in Allowed /\ rows'[y].place = rows[y].place /\ rows[y].state = "live" /\
              rows'[y].state = "live" /\ rows'[y].rev # 0)
  BY <1>1, <1>2, <1>3
<1>6. /\ rows'[x].state = rows[x].state /\ rows'[x].place = rows[x].place
      /\ rows'[x].updatedAt = t /\ rows'[x].rev # 0 /\ rows'[x].deletedAt = rows[x].deletedAt
  BY <1>1, <1>3
<1> QED BY <1>1, <1>4, <1>5, <1>6, TouchWrites

LEMMA WriteWrites ==
  ASSUME TypeOK, PlacesInv, Write
  PROVE  \E W, d, i, t : Clocked(d, i, t) /\ Writes(W, d, i, t)
<1>1. \E t \in Moments : \E d \in 1 .. t : \E i \in d .. t :
        Timed(d, i, t) /\ Statements(d, i, t) /\ Committed(t)
  BY DEF Write
<1> SUFFICES ASSUME NEW t \in Moments, NEW d \in 1 .. t, NEW i \in d .. t,
                    Timed(d, i, t), Statements(d, i, t), Committed(t)
             PROVE  \E W, d1, i1, t1 : Clocked(d1, i1, t1) /\ Writes(W, d1, i1, t1)
  BY <1>1
<1>2. Clocked(d, i, t)
  BY WriteClocked
<1>3. d = t => i = t
  BY <1>2 DEF Clocked
<1> SUFFICES \E W : Writes(W, d, i, t)
  BY <1>2
<1>4. ASSUME NEW x \in Ids, NEW hidden \in BOOLEAN, d = t, Edit(x, hidden, t)
      PROVE  \E W : Writes(W, d, i, t)
  BY <1>2, <1>3, <1>4, EditWrites
<1>5. ASSUME NEW x \in Ids, NEW p \in Places, NEW hidden \in BOOLEAN, d = t, Create(x, p, hidden, t)
      PROVE  \E W : Writes(W, d, i, t)
  BY <1>2, <1>3, <1>5, CreateWrites
<1>6. ASSUME NEW p \in Places, NEW x \in ReachedIn(p, Storages),
             NEW below \in SUBSET LiveIn(p, Storages), d = t, MoveStorage(x, below, t)
      PROVE  \E W : Writes(W, d, i, t)
  BY <1>2, <1>3, <1>6, MoveWrites
<1>7. ASSUME NEW x \in Items, i = t, RemoveItem(x, d, t) PROVE \E W : Writes(W, d, i, t)
  BY <1>2, <1>7, RemoveItemWrites
<1>8. ASSUME NEW p \in Places, NEW subtree \in SUBSET ReachedIn(p, Storages),
             NEW contents \in SUBSET ReachedIn(p, Items), RemoveStorage(subtree, contents, d, i, t)
      PROVE  \E W : Writes(W, d, i, t)
  BY <1>2, <1>8, RemoveStorageWrites
<1>9. ASSUME NEW p \in Places, NEW s \in i .. t, RemovePlace(p, d, i, s, t)
      PROVE  \E W : Writes(W, d, i, t)
  BY <1>2, <1>9, RemovePlaceWrites
<1> QED BY <1>4, <1>5, <1>6, <1>7, <1>8, <1>9 DEF Statements

-----------------------------------------------------------------------------
(* The request and the cursor, whatever is written meanwhile.              *)

\* A request reads from the cursor on, and every cutoff is past it.
CursorInv ==
  sync.pc = "reading" =>
    sync.since = client.cursor /\ (Punctual => \A c \in sync.cutoffs : c > sync.since)

BaseInv == TypeOK /\ PlacesInv /\ CursorInv

LEMMA IdleReading == Idle \in Reading /\ Idle.pc = "idle"
<1>1. [x \in Ids |-> 0] \in [Ids -> 0 .. MaxRev]
  BY SyncAssumption
<1> QED BY <1>1, TimesNat DEF Idle, Reading

LEMMA BaseInit == Init => BaseInv
<1> SUFFICES ASSUME Init PROVE BaseInv
  OBVIOUS
<1>1. AbsentRow \in Row
  BY TimesNat, SyncAssumption DEF AbsentRow, Row
<1>2. AbsentRow.state = "absent" /\ AbsentRow.updatedAt = 0
  BY DEF AbsentRow
<1>3. \A x \in Ids : rows[x] = AbsentRow
  BY DEF Init
<1>4. client \in Client
  BY TimesNat, SyncAssumption DEF Init, Client
<1>5. rows \in [Ids -> Row] /\ member \in [Places -> BOOLEAN] /\ now \in Times /\ sync = Idle
  BY <1>1, TimesNat DEF Init
<1> QED BY <1>2, <1>3, <1>4, <1>5, IdleReading
        DEF BaseInv, TypeOK, PlacesInv, RowInPlace, CursorInv

\* What a statement does beyond its rows.
LEMMA CommittedSync ==
  ASSUME TypeOK, NEW t, Committed(t)
  PROVE  /\ sync' \in Reading /\ client' \in Client
         /\ client'.cursor = client.cursor /\ client'.copy = client.copy /\ client'.quiet = FALSE
         /\ sync'.pc = sync.pc /\ sync'.since = sync.since /\ sync'.cutoffs = sync.cutoffs
<1>2. /\ client' \in Client /\ client'.cursor = client.cursor /\ client'.copy = client.copy
      /\ client'.quiet = FALSE
  BY DEF Committed, TypeOK, Client
<1>3. /\ sync' \in Reading /\ sync'.pc = sync.pc /\ sync'.since = sync.since
      /\ sync'.cutoffs = sync.cutoffs
  BY DEF Committed, TypeOK, Reading
<1> QED BY <1>2, <1>3

LEMMA BaseWrites ==
  ASSUME BaseInv, NEW W, NEW d, NEW i, NEW t, Clocked(d, i, t), Writes(W, d, i, t)
  PROVE  BaseInv'
<1>1. Committed(t) /\ now' \in Times /\ UNCHANGED member
  BY DEF Clocked, Committed
<1>2. TypeOK'
  BY <1>1, CommittedSync DEF BaseInv, Writes, TypeOK
<1>3. CursorInv'
  BY <1>1, CommittedSync DEF BaseInv, CursorInv
<1> QED BY <1>2, <1>3 DEF BaseInv, Writes

\* A step that leaves the rows alone.
LEMMA BaseReads ==
  ASSUME BaseInv, rows' = rows, member' \in [Places -> BOOLEAN], now' = now,
         sync' \in Reading, client' \in Client, CursorInv'
  PROVE  BaseInv'
<1>1. PlacesInv'
  BY DEF BaseInv, PlacesInv, RowInPlace, Ordered
<1> QED BY <1>1 DEF BaseInv, TypeOK

LEMMA BaseJoins ==
  ASSUME BaseInv, NEW p \in Places, Join(p) \/ Leave(p)
  PROVE  BaseInv'
<1>1. rows' = rows /\ now' = now /\ member' \in [Places -> BOOLEAN]
  BY DEF Join, Leave, BaseInv, TypeOK
<1>2. /\ sync' \in Reading /\ sync'.pc = sync.pc /\ sync'.since = sync.since
      /\ sync'.cutoffs = sync.cutoffs
  BY DEF Join, Leave, BaseInv, TypeOK, Reading
<1>3. client' \in Client /\ client'.cursor = client.cursor
  BY DEF Join, Leave, BaseInv, TypeOK, Client
<1>4. CursorInv'
  BY <1>2, <1>3 DEF BaseInv, CursorInv
<1> QED BY <1>1, <1>2, <1>3, <1>4, BaseReads DEF BaseInv, TypeOK

LEMMA BeginFacts ==
  ASSUME TypeOK, SyncBegin
  PROVE  /\ sync' \in Reading /\ sync'.since = client.cursor /\ sync'.cutoffs = {} /\ sync'.gone = {}
         /\ sync'.upserts = [x \in Ids |-> 0]
         /\ sync'.live = {p \in Places : member[p] /\ Live(p)}
         /\ sync'.withDeleted = {p \in Places : member[p] /\ rows[p].state # "absent"}
         /\ sync'.todo = IF sync'.withDeleted = {} THEN {} ELSE Lists
         /\ sync'.pc = "reading"
<1> DEFINE ids == ResolvePlaceIds
           todo == IF ids.withDeleted = {} THEN {} ELSE Lists
<1>1. /\ ids.live = {p \in Places : member[p] /\ Live(p)}
      /\ ids.withDeleted = {p \in Places : member[p] /\ rows[p].state # "absent"}
  BY DEF ResolvePlaceIds
<1>2. ids.live \in SUBSET Places /\ ids.withDeleted \in SUBSET Places /\ todo \in SUBSET Lists
  BY <1>1
<1>3. sync' = [Idle EXCEPT !.pc = "reading", !.since = client.cursor, !.live = ids.live,
                 !.withDeleted = ids.withDeleted, !.todo = todo, !.quiet = TRUE]
  BY DEF SyncBegin
<1>4. todo = IF ids.withDeleted = {} THEN {} ELSE Lists
  OBVIOUS
<1> HIDE DEF ids, todo
<1>5. /\ sync'.pc = "reading" /\ sync'.since = client.cursor /\ sync'.live = ids.live
      /\ sync'.withDeleted = ids.withDeleted /\ sync'.todo = todo /\ sync'.cutoffs = {}
      /\ sync'.gone = {} /\ sync'.upserts = [x \in Ids |-> 0]
  BY <1>3 DEF Idle
<1>6. sync' \in Reading
  <2>1. client.cursor \in Times
    BY DEF TypeOK, Client
  <2> QED BY <1>2, <1>3, <2>1, IdleReading DEF Reading
<1> QED BY <1>1, <1>4, <1>5, <1>6

LEMMA MatchingFacts ==
  ASSUME BaseInv, NEW list \in Lists
  PROVE  /\ Matching(list) \in SUBSET list[2] /\ Matching(list) \in SUBSET Ids
         /\ Punctual => \A x \in Matching(list) : rows[x].updatedAt > sync.since
<1>1. ASSUME NEW x \in Matching(list), Punctual PROVE rows[x].updatedAt > sync.since
  <2>1. x \in Ids /\ rows[x] \in Row /\ sync.since \in Nat
    BY KindsOfIds, RowOf, TimesNat DEF Matching, BaseInv, TypeOK, Reading
  <2>2. rows[x].updatedAt \in Nat /\ rows[x].deletedAt \in Nat
    BY <2>1, TimesNat DEF Row
  <2>3. \/ rows[x].updatedAt > sync.since
        \/ rows[x].state = "deleted" /\ rows[x].deletedAt > sync.since
    BY DEF Matching
  <2>4. rows[x].state = "deleted" => rows[x].deletedAt <= rows[x].updatedAt
    BY <1>1, <2>1 DEF BaseInv, PlacesInv, RowInPlace, Ordered
  <2> QED BY <2>1, <2>2, <2>3, <2>4
<1> QED BY <1>1, KindsOfIds DEF Matching

LEMMA QueryFacts ==
  ASSUME BaseInv, NEW list \in Lists, SyncQuery(list)
  PROVE  \E capped \in Cap(Matching(list)) :
           /\ sync' \in Reading /\ sync'.pc = "reading" /\ sync'.since = sync.since
           /\ sync'.live = sync.live /\ sync'.withDeleted = sync.withDeleted
           /\ sync'.todo = sync.todo \ {list} /\ sync'.quiet = sync.quiet
           /\ sync'.cutoffs = sync.cutoffs \cup capped.truncatedAt
           /\ sync'.upserts = [x \in Ids |-> IF list[1] = "live" /\ x \in capped.page
                                             THEN rows[x].rev ELSE sync.upserts[x]]
           /\ sync'.gone = IF list[1] = "deleted" THEN sync.gone \cup capped.page ELSE sync.gone
<1>1. PICK capped \in Cap(Matching(list)) :
        sync' = [sync EXCEPT
                  !.todo = sync.todo \ {list},
                  !.upserts = [x \in Ids |-> IF list[1] = "live" /\ x \in capped.page
                                             THEN rows[x].rev ELSE sync.upserts[x]],
                  !.gone = IF list[1] = "deleted" THEN sync.gone \cup capped.page ELSE sync.gone,
                  !.cutoffs = sync.cutoffs \cup capped.truncatedAt]
  BY DEF SyncQuery
<1> DEFINE todo == sync.todo \ {list}
           upserts == [x \in Ids |-> IF list[1] = "live" /\ x \in capped.page
                                     THEN rows[x].rev ELSE sync.upserts[x]]
           gone == IF list[1] = "deleted" THEN sync.gone \cup capped.page ELSE sync.gone
           cutoffs == sync.cutoffs \cup capped.truncatedAt
<1>2. capped.page \in SUBSET Ids /\ capped.truncatedAt \in SUBSET Times
  BY MatchingFacts, CapFacts DEF BaseInv, TypeOK
<1>3. sync \in Reading /\ sync.pc = "reading"
  BY DEF BaseInv, TypeOK, SyncQuery
<1>4. todo \in SUBSET Lists /\ gone \in SUBSET Ids /\ cutoffs \in SUBSET Times
  BY <1>2, <1>3 DEF Reading
<1>5. upserts \in [Ids -> 0 .. MaxRev]
  <2>1. \A x \in Ids : rows[x].rev \in 0 .. MaxRev /\ sync.upserts[x] \in 0 .. MaxRev
    BY <1>3, RowOf DEF BaseInv, Row, Reading
  <2> QED BY <2>1
<1>6. sync' = [sync EXCEPT !.todo = todo, !.upserts = upserts, !.gone = gone, !.cutoffs = cutoffs]
  BY <1>1
<1> HIDE DEF todo, upserts, gone, cutoffs
<1>7. sync' \in Reading
  BY <1>3, <1>4, <1>5, <1>6 DEF Reading
<1>8. /\ sync'.pc = "reading" /\ sync'.since = sync.since /\ sync'.live = sync.live
      /\ sync'.withDeleted = sync.withDeleted /\ sync'.quiet = sync.quiet
      /\ sync'.todo = todo /\ sync'.upserts = upserts /\ sync'.gone = gone /\ sync'.cutoffs = cutoffs
  BY <1>3, <1>6 DEF Reading
<1> QED BY <1>7, <1>8 DEF todo, upserts, gone, cutoffs

LEMMA BaseQuery ==
  ASSUME BaseInv, NEW list \in Lists, SyncQuery(list)
  PROVE  BaseInv'
<1>1. PICK capped \in Cap(Matching(list)) :
        /\ sync' \in Reading /\ sync'.since = sync.since
        /\ sync'.cutoffs = sync.cutoffs \cup capped.truncatedAt
  BY QueryFacts
<1>2. sync.since \in Times
  BY DEF BaseInv, TypeOK, Reading
<1>3. Punctual => \A c \in capped.truncatedAt : c > sync.since
  BY <1>2, MatchingFacts, CapFacts DEF BaseInv, TypeOK
<1>4. UNCHANGED <<rows, member, now, client>> /\ sync.pc = "reading"
  BY DEF SyncQuery
<1>5. CursorInv'
  BY <1>1, <1>3, <1>4 DEF BaseInv, CursorInv
<1> QED BY <1>1, <1>4, <1>5, BaseReads DEF BaseInv, TypeOK

LEMMA ServerTimeFacts ==
  ASSUME BaseInv
  PROVE  /\ ServerTime \in Times
         /\ sync.cutoffs # {} => ServerTime \in sync.cutoffs /\ \A c \in sync.cutoffs : ServerTime <= c
         /\ sync.cutoffs = {} => ServerTime = now
<1>1. sync.cutoffs \in SUBSET Times /\ now \in Times
  BY DEF BaseInv, TypeOK, Reading
<1>2. CASE sync.cutoffs # {}
  <2>1. sync.cutoffs \in SUBSET Nat
    BY <1>1, TimesNat
  <2>2. Min(sync.cutoffs) \in sync.cutoffs /\ \A c \in sync.cutoffs : Min(sync.cutoffs) <= c
    BY <1>2, <2>1, Least
  <2> QED BY <1>1, <1>2, <2>2 DEF ServerTime
<1> QED BY <1>1, <1>2 DEF ServerTime

LEMMA EndFacts ==
  ASSUME BaseInv, SyncEnd
  PROVE  /\ client' \in Client /\ sync' = Idle /\ UNCHANGED <<rows, member, now>>
         /\ client'.cursor = ServerTime
         /\ client'.copy = [x \in Ids |-> IF x \in sync.gone THEN 0
                                          ELSE IF sync.upserts[x] # 0 THEN sync.upserts[x]
                                          ELSE client.copy[x]]
         /\ client'.quiet => sync.cutoffs = {}
<1> DEFINE copy == [x \in Ids |-> IF x \in sync.gone THEN 0
                                  ELSE IF sync.upserts[x] # 0 THEN sync.upserts[x]
                                  ELSE client.copy[x]]
           quiet == sync.quiet /\ sync.cutoffs = {}
<1>1. /\ client' = [cursor |-> ServerTime, copy |-> copy, quiet |-> quiet]
      /\ sync' = Idle /\ UNCHANGED <<rows, member, now>>
  BY DEF SyncEnd
<1>2. copy \in [Ids -> 0 .. MaxRev]
  <2>1. \A x \in Ids : sync.upserts[x] \in 0 .. MaxRev /\ client.copy[x] \in 0 .. MaxRev
    BY DEF BaseInv, TypeOK, Reading, Client
  <2>2. 0 \in 0 .. MaxRev
    BY SyncAssumption
  <2> QED BY <2>1, <2>2
<1>3. quiet \in BOOLEAN /\ (quiet => sync.cutoffs = {})
  OBVIOUS
<1> HIDE DEF copy, quiet
<1>4. client' \in Client
  BY <1>1, <1>2, <1>3, ServerTimeFacts DEF Client
<1>5. client'.cursor = ServerTime /\ client'.copy = copy /\ client'.quiet = quiet
  BY <1>1
<1> QED BY <1>1, <1>3, <1>4, <1>5 DEF copy

LEMMA BaseStep == BaseInv /\ [Next]_vars => BaseInv'
<1> SUFFICES ASSUME BaseInv, [Next]_vars PROVE BaseInv'
  OBVIOUS
<1>1. CASE Write
  <2>1. PICK W, d, i, t : Clocked(d, i, t) /\ Writes(W, d, i, t)
    BY <1>1, WriteWrites DEF BaseInv
  <2> QED BY <2>1, BaseWrites
<1>2. ASSUME NEW p \in Places, Leave(p) \/ Join(p) PROVE BaseInv'
  BY <1>2, BaseJoins
<1>3. CASE SyncBegin
  <2>1. UNCHANGED <<rows, member, now, client>>
    BY <1>3 DEF SyncBegin
  <2>2. sync' \in Reading /\ CursorInv'
    BY <1>3, <2>1, BeginFacts DEF BaseInv, CursorInv
  <2> QED BY <2>1, <2>2, BaseReads DEF BaseInv, TypeOK
<1>4. CASE SyncEnd
  BY <1>4, EndFacts, IdleReading, BaseReads DEF BaseInv, TypeOK, CursorInv
<1>5. CASE SyncFails
  BY <1>5, IdleReading, BaseReads DEF SyncFails, BaseInv, TypeOK, CursorInv
<1>6. ASSUME NEW list \in Lists, SyncQuery(list) PROVE BaseInv'
  BY <1>6, BaseQuery
<1>7. CASE UNCHANGED vars
  BY <1>7, BaseReads DEF vars, BaseInv, TypeOK, CursorInv
<1> QED BY <1>1, <1>2, <1>3, <1>4, <1>5, <1>6, <1>7 DEF Next

\* The strengthening that holds whatever is written during a sync.
THEOREM BaseInvariant == Spec => []BaseInv
BY BaseInit, BaseStep, PTL DEF Spec

\* The types of the tables, the request and the copy.
THEOREM SyncTyped == Spec => []TypeOK
<1>1. BaseInv => TypeOK
  BY DEF BaseInv
<1> QED BY <1>1, BaseInvariant, PTL

\* A truncated response moves the cursor on, whatever is written while it is
\* put together: however late that commits, or, if nothing commits late, however
\* removals and edits race with each other.
THEOREM PagesAlwaysAdvance ==
  ASSUME Punctual
  PROVE  Spec => PagesAdvance
<1>1. BaseInv /\ [Next]_vars =>
        [SyncEnd /\ sync.cutoffs # {} => client'.cursor > client.cursor]_vars
  <2> SUFFICES ASSUME BaseInv, SyncEnd, sync.cutoffs # {}
               PROVE  client'.cursor > client.cursor
    OBVIOUS
  <2>1. sync.pc = "reading"
    BY DEF SyncEnd
  <2> QED BY <2>1, EndFacts, ServerTimeFacts DEF BaseInv, CursorInv
<1> QED BY <1>1, BaseInvariant, PTL DEF Spec, PagesAdvance

-----------------------------------------------------------------------------
(* Without writes during a sync, and with no statement that writes more    *)
(* rows of a kind than a page holds, no page loses a change, but for the   *)
(* deletions when writes race with each other.                             *)

Undisturbed == Allowed \subseteq {"race"} /\ BatchBound <= PAGE_CAP
Certain(x) == rows[x].state # "deleted" \/ "race" \notin Allowed

\* The time by which a list selects a row.
Mark(x) == IF rows[x].state = "deleted" THEN rows[x].deletedAt ELSE rows[x].updatedAt

\* The rows of a kind that one statement wrote, and so share a time, fit a page.
Group(kind, t) == {x \in kind : rows[x].updatedAt = t}
GroupsFit == \A kind \in Kinds, t \in Times : t > 0 => Cardinality(Group(kind, t)) <= PAGE_CAP

\* While a removal was under way, nothing else of the kind was stamped.
Apart ==
  "race" \notin Allowed =>
    \A kind \in Kinds : \A x, y \in kind : rows[x].state = "deleted" =>
      rows[y].updatedAt < rows[x].deletedAt \/ rows[x].updatedAt <= rows[y].updatedAt

\* What the cursor is past by the time that selects it, the client has.
MarksComplete == \A x \in Ids : InView(x) /\ Certain(x) /\ Mark(x) <= client.cursor => Agrees(x)

\* What the lists read so far hold.
Got(list, x) == IF list[1] = "live" THEN sync.upserts[x] = rows[x].rev ELSE x \in sync.gone
ReadSoFar ==
  /\ \A p \in Places : member[p] => /\ Live(p) => p \in sync.live
                                    /\ rows[p].state # "absent" => p \in sync.withDeleted
  /\ \A x \in Ids : sync.upserts[x] # 0 => Live(x) /\ sync.upserts[x] = rows[x].rev
  /\ \A x \in sync.gone : rows[x].state = "deleted"
  /\ \A c \in sync.cutoffs : c <= now
  /\ \A list \in Lists \ sync.todo : \A x \in Matching(list) :
       Certain(x) /\ (\A c \in sync.cutoffs : Mark(x) <= c) => Got(list, x)

SerialInv ==
  /\ client.cursor <= now
  /\ \A x \in Ids : rows[x].updatedAt <= now
  /\ GroupsFit
  /\ Apart
  /\ MarksComplete
  /\ client.quiet => \A x \in Ids : rows[x].updatedAt <= client.cursor
  /\ sync.pc = "reading" => ReadSoFar

LEMMA Numbers ==
  ASSUME TypeOK
  PROVE  /\ now \in Nat /\ client.cursor \in Nat
         /\ \A x \in Ids : rows[x].updatedAt \in Nat /\ rows[x].updatedAt \in Times
         /\ \A x \in Ids : rows[x].deletedAt \in Nat
BY TimesNat, RowOf DEF TypeOK, Client, Row

LEMMA UndisturbedPunctual == Undisturbed => Punctual
BY DEF Undisturbed, Punctual

LEMMA MarkFacts ==
  ASSUME TypeOK, PlacesInv, NEW x \in Ids
  PROVE  /\ Mark(x) \in Nat
         /\ Punctual => Mark(x) <= rows[x].updatedAt
<1>1. rows[x].updatedAt \in Nat /\ rows[x].deletedAt \in Nat
  BY Numbers
<1>2. rows[x].state = "deleted" /\ Punctual => rows[x].deletedAt <= rows[x].updatedAt
  BY DEF PlacesInv, RowInPlace, Ordered
<1> QED BY <1>1, <1>2 DEF Mark

LEMMA SerialInit == Undisturbed /\ Init => SerialInv
<1> SUFFICES ASSUME Undisturbed, Init PROVE SerialInv
  OBVIOUS
<1>1. \A x \in Ids : rows[x].updatedAt = 0 /\ rows[x].state = "absent"
  BY DEF Init, AbsentRow
<1>2. GroupsFit
  <2> SUFFICES ASSUME NEW kind \in Kinds, NEW t \in Times, t > 0
               PROVE  Cardinality(Group(kind, t)) <= PAGE_CAP
    BY DEF GroupsFit
  <2>1. t \in Nat
    BY TimesNat
  <2>2. Group(kind, t) = {}
    BY <1>1, <2>1, KindsOfIds DEF Group
  <2> QED BY <2>2, FS_EmptySet, SyncAssumption
<1>3. MarksComplete
  BY <1>1 DEF MarksComplete, Agrees, Live, Init
<1>4. now = 0 /\ client.cursor = 0 /\ sync.pc = "idle"
  BY DEF Init, Idle
<1>5. Apart
  BY <1>1, KindsOfIds DEF Apart
<1> QED BY <1>1, <1>2, <1>3, <1>4, <1>5 DEF SerialInv

\* A write is stamped after all there is, so it is past the cursor.
LEMMA SerialWrites ==
  ASSUME Undisturbed, BaseInv, SerialInv, NEW W, NEW d, NEW i, NEW t,
         Clocked(d, i, t), Writes(W, d, i, t)
  PROVE  SerialInv'
<1>0. /\ d \in Nat /\ i \in Nat /\ t \in Nat /\ d <= i /\ i <= t /\ now \in Nat /\ now' \in Nat
      /\ now <= now' /\ t <= now' /\ Timed(d, i, t) /\ Committed(t)
  BY DEF Clocked
<1>1. /\ i > now /\ sync.pc = "idle" /\ W \in SUBSET Ids
      /\ \A x \in W : now < rows'[x].updatedAt /\ rows'[x].updatedAt <= now'
      /\ \A x \in Ids \ W : rows'[x] = rows[x]
      /\ member' = member
  <2>1. i > now
    BY DEF Undisturbed, Clocked, Timed
  <2>2. sync.pc = "idle" /\ member' = member
    BY <1>0 DEF Undisturbed, Timed, Committed
  <2>3. W \in SUBSET Ids /\ \A x \in Ids \ W : rows'[x] = rows[x]
    BY DEF Undisturbed, Writes
  <2>4. ASSUME NEW x \in W PROVE now < rows'[x].updatedAt /\ rows'[x].updatedAt <= now'
    <3>1. i <= rows'[x].updatedAt /\ rows'[x].updatedAt <= t /\ rows'[x] \in Row
      BY <2>3 DEF Writes
    <3>2. rows'[x].updatedAt \in Nat
      BY <3>1, TimesNat DEF Row
    <3> QED BY <1>0, <2>1, <3>1, <3>2
  <2> QED BY <2>1, <2>2, <2>3, <2>4
<1>2. /\ client'.cursor = client.cursor /\ client'.copy = client.copy /\ client'.quiet = FALSE
      /\ sync'.pc = sync.pc
  BY <1>0, CommittedSync DEF BaseInv
<1>3. /\ client.cursor <= now /\ \A x \in Ids : rows[x].updatedAt <= now
      /\ now \in Nat /\ client.cursor \in Nat
      /\ \A x \in Ids : rows[x].updatedAt \in Nat /\ rows[x].deletedAt \in Nat
  BY Numbers DEF BaseInv, SerialInv
<1>9. \A x \in Ids : rows'[x].updatedAt \in Nat /\ rows'[x].deletedAt \in Nat
  BY TimesNat DEF Writes, Row
<1>4. GroupsFit'
  <2> SUFFICES ASSUME NEW kind \in Kinds, NEW u \in Times, u > 0
               PROVE  Cardinality(Group(kind, u)') <= PAGE_CAP
    BY DEF GroupsFit
  <2>0. u \in Nat /\ kind \in SUBSET Ids
    BY TimesNat, KindsOfIds
  <2>1. CASE u > now
    <3>1. Group(kind, u)' \in SUBSET (W \cap kind)
      <4>1. ASSUME NEW x \in kind, x \notin W PROVE rows'[x].updatedAt # u
        BY <1>1, <1>3, <2>0, <2>1, <4>1
      <4> QED BY <4>1 DEF Group
    <3>2. Cardinality(W \cap kind) <= 1 \/ Cardinality(W \cap kind) <= BatchBound
      BY DEF Writes
    <3>3. IsFiniteSet(W \cap kind) /\ Cardinality(W \cap kind) \in Nat
      BY <1>1, IdsFinite
    <3>4. Cardinality(Group(kind, u)') <= Cardinality(W \cap kind) /\ Cardinality(Group(kind, u)') \in Nat
      BY <3>1, <3>3, FS_Subset, FS_CardinalityType
    <3> QED BY <3>2, <3>3, <3>4, SyncAssumption DEF Undisturbed
  <2>2. CASE ~(u > now)
    <3>1. Group(kind, u)' \in SUBSET Group(kind, u)
      <4>1. ASSUME NEW x \in kind, x \in W PROVE rows'[x].updatedAt # u
        BY <1>1, <1>3, <1>9, <2>0, <2>2, <4>1
      <4> QED BY <1>1, <2>0, <4>1 DEF Group
    <3>2. IsFiniteSet(Group(kind, u)) /\ Cardinality(Group(kind, u)) \in Nat
      BY <2>0, IdsFinite DEF Group
    <3>3. Cardinality(Group(kind, u)') <= Cardinality(Group(kind, u))
      BY <3>1, <3>2, FS_Subset
    <3>4. Cardinality(Group(kind, u)) <= PAGE_CAP /\ Cardinality(Group(kind, u)') \in Nat
      BY <3>1, <3>2, FS_Subset, FS_CardinalityType DEF SerialInv, GroupsFit
    <3> QED BY <3>2, <3>3, <3>4, SyncAssumption
  <2> QED BY <2>1, <2>2
<1>5. MarksComplete'
  <2> SUFFICES ASSUME NEW x \in Ids, InView(x)', Certain(x)', Mark(x)' <= client.cursor
               PROVE  Agrees(x)'
    BY <1>2 DEF MarksComplete
  <2>1. x \notin W
    <3> SUFFICES ASSUME x \in W PROVE FALSE
      OBVIOUS
    <3>1. CASE rows'[x].state = "deleted"
      <4>1. "race" \notin Allowed /\ rows'[x].deletedAt = d
        BY <3>1 DEF Certain, Writes
      <4>2. d > now
        BY <1>0, <1>1, <4>1 DEF Timed
      <4> QED BY <1>0, <1>3, <3>1, <4>1, <4>2 DEF Mark
    <3>2. CASE rows'[x].state # "deleted"
      BY <1>1, <1>3, <1>9, <3>2 DEF Mark
    <3> QED BY <3>1, <3>2
  <2>2. rows'[x] = rows[x]
    BY <1>1, <2>1
  <2>3. Agrees(x)
    BY <1>1, <2>2 DEF SerialInv, MarksComplete, InView, Certain, Mark
  <2> QED BY <1>2, <2>2, <2>3 DEF Agrees, Live
<1>6. \A x \in Ids : rows'[x].updatedAt <= now'
  BY <1>0, <1>1, <1>3
<1>7. Apart'
  <2> SUFFICES ASSUME "race" \notin Allowed, NEW kind \in Kinds, NEW x \in kind, NEW y \in kind,
                      rows'[x].state = "deleted"
               PROVE  rows'[y].updatedAt < rows'[x].deletedAt \/ rows'[x].updatedAt <= rows'[y].updatedAt
    BY DEF Apart
  <2>0. x \in Ids /\ y \in Ids
    BY KindsOfIds
  <2>1. CASE x \in W /\ y \in W
    <3>1. rows'[x].updatedAt = rows'[y].updatedAt
      BY <2>1 DEF Writes
    <3> QED BY <1>9, <2>0, <3>1
  <2>2. CASE x \in W /\ y \notin W
    <3>1. rows'[x].deletedAt = d /\ d > now /\ rows'[y].updatedAt <= now
      BY <1>0, <1>1, <1>3, <2>0, <2>2 DEF Writes, Timed
    <3> QED BY <1>0, <1>9, <2>0, <3>1
  <2>3. CASE x \notin W /\ y \in W
    <3>1. rows'[x].updatedAt <= now /\ now < rows'[y].updatedAt
      BY <1>1, <1>3, <2>0, <2>3
    <3> QED BY <1>0, <1>9, <2>0, <3>1
  <2>4. CASE x \notin W /\ y \notin W
    BY <1>1, <2>0, <2>4 DEF SerialInv, Apart
  <2> QED BY <2>1, <2>2, <2>3, <2>4
<1> QED BY <1>0, <1>1, <1>2, <1>3, <1>4, <1>5, <1>6, <1>7 DEF SerialInv

\* A step that changes no row, no clock and nothing of the copy.
LEMMA SerialReads ==
  ASSUME SerialInv, rows' = rows, now' = now, client' = client,
         \A p \in Places : member'[p] => member[p],
         TypeOK, sync'.pc = "reading" => ReadSoFar'
  PROVE  SerialInv'
<1>1. GroupsFit' /\ Apart'
  BY DEF SerialInv, GroupsFit, Group, Apart
<1>2. \A x \in Ids : InView(x)' => InView(x)
  BY RowOf DEF InView, Row
<1>3. MarksComplete'
  BY <1>2 DEF SerialInv, MarksComplete, Agrees, Live, Certain, Mark
<1> QED BY <1>1, <1>3 DEF SerialInv

LEMMA SerialBegins ==
  ASSUME BaseInv, SerialInv, SyncBegin
  PROVE  SerialInv'
<1>1. UNCHANGED <<rows, member, now, client>>
  BY DEF SyncBegin
<1>2. /\ sync'.cutoffs = {} /\ sync'.gone = {} /\ sync'.upserts = [x \in Ids |-> 0]
      /\ sync'.live = {p \in Places : member[p] /\ Live(p)}
      /\ sync'.withDeleted = {p \in Places : member[p] /\ rows[p].state # "absent"}
      /\ sync'.todo = IF sync'.withDeleted = {} THEN {} ELSE Lists
  BY BeginFacts DEF BaseInv
<1>3. ASSUME NEW list \in Lists \ sync'.todo PROVE Matching(list)' = {}
  <2>1. sync'.withDeleted = {}
    BY <1>2, <1>3
  <2>2. sync'.live = {}
    BY <1>2, <2>1 DEF Live
  <2> QED BY <2>1, <2>2 DEF Matching
<1>4. ReadSoFar'
  BY <1>1, <1>2, <1>3 DEF ReadSoFar, Live
<1> QED BY <1>1, <1>4, SerialReads DEF BaseInv

LEMMA SerialQueries ==
  ASSUME Undisturbed, BaseInv, SerialInv, NEW list \in Lists, SyncQuery(list)
  PROVE  SerialInv'
<1>1. PICK capped \in Cap(Matching(list)) :
           /\ sync'.pc = "reading" /\ sync'.since = sync.since
           /\ sync'.live = sync.live /\ sync'.withDeleted = sync.withDeleted
           /\ sync'.todo = sync.todo \ {list}
           /\ sync'.cutoffs = sync.cutoffs \cup capped.truncatedAt
           /\ sync'.upserts = [x \in Ids |-> IF list[1] = "live" /\ x \in capped.page
                                             THEN rows[x].rev ELSE sync.upserts[x]]
           /\ sync'.gone = IF list[1] = "deleted" THEN sync.gone \cup capped.page ELSE sync.gone
  BY QueryFacts
<1>2. UNCHANGED <<rows, member, now, client>> /\ ReadSoFar
  BY DEF SyncQuery, SerialInv
<1>3. \A l \in Lists : Matching(l)' = Matching(l)
  BY <1>1, <1>2 DEF Matching, Live
<1>4. /\ capped.page \in SUBSET Matching(list) /\ Matching(list) \in SUBSET Ids
      /\ \A x \in Matching(list) :
           Certain(x) /\ (\A c \in capped.truncatedAt : Mark(x) <= c) => x \in capped.page
      /\ \A c \in capped.truncatedAt : c <= now
  <2>1. Matching(list) \in SUBSET Ids /\ Matching(list) \in SUBSET list[2] /\ list[2] \in Kinds
    BY MatchingFacts DEF Lists
  <2>2. ASSUME NEW t \in Times
        PROVE  Cardinality({x \in Matching(list) : rows[x].updatedAt = t}) <= PAGE_CAP
    <3> DEFINE S == {x \in Matching(list) : rows[x].updatedAt = t}
    <3>1. CASE t > 0
      <4>1. S \in SUBSET Group(list[2], t)
        BY <2>1 DEF Group
      <4>2. Group(list[2], t) \in SUBSET Ids
        BY KindsOfIds DEF Group
      <4>3. Cardinality(S) <= Cardinality(Group(list[2], t)) /\ Cardinality(S) \in Nat
            /\ Cardinality(Group(list[2], t)) \in Nat
        BY <4>1, <4>2, IdsFinite, FS_Subset
      <4>4. Cardinality(Group(list[2], t)) <= PAGE_CAP
        BY <2>1, <3>1 DEF SerialInv, GroupsFit
      <4> HIDE DEF S
      <4> QED BY <4>3, <4>4, SyncAssumption DEF S
    <3>2. CASE ~(t > 0)
      <4>1. sync.since \in Nat /\ t \in Nat
        BY TimesNat DEF BaseInv, TypeOK, Reading
      <4>2. \A x \in Matching(list) : rows[x].updatedAt > sync.since /\ rows[x].updatedAt \in Nat
        BY <2>1, MatchingFacts, Numbers, UndisturbedPunctual DEF BaseInv
      <4>3. \A x \in Matching(list) : rows[x].updatedAt # t
        BY <3>2, <4>1, <4>2
      <4>4. S = {}
        BY <4>3
      <4>5. Cardinality({}) <= PAGE_CAP
        BY FS_EmptySet, SyncAssumption
      <4> QED BY ONLY <4>4, <4>5
    <3> QED BY <3>1, <3>2
  <2>3. now \in Times /\ \A x \in Matching(list) : rows[x].updatedAt <= now
    BY <2>1 DEF BaseInv, TypeOK, SerialInv
  <2>4. /\ capped.page \in SUBSET Matching(list)
        /\ \A x \in Matching(list) :
             (\A c \in capped.truncatedAt : rows[x].updatedAt <= c) => x \in capped.page
        /\ \A c \in capped.truncatedAt : \E y \in Matching(list) : rows[y].updatedAt = c
        /\ \A c \in capped.truncatedAt : c <= now
    BY <2>1, <2>2, <2>3, CapFacts DEF BaseInv, TypeOK
  <2>5. ASSUME NEW x \in Matching(list), Certain(x), NEW c \in capped.truncatedAt, Mark(x) <= c
        PROVE  rows[x].updatedAt <= c
    <3>1. CASE rows[x].state # "deleted"
      BY <2>5, <3>1 DEF Mark
    <3>2. CASE rows[x].state = "deleted"
      <4>1. PICK y \in Matching(list) : rows[y].updatedAt = c
        BY <2>4
      <4>2. "race" \notin Allowed /\ rows[x].deletedAt <= c
        BY <2>5, <3>2 DEF Certain, Mark
      <4>3. x \in list[2] /\ y \in list[2] /\ x \in Ids /\ y \in Ids
        BY <2>1
      <4>4. rows[y].updatedAt < rows[x].deletedAt \/ rows[x].updatedAt <= rows[y].updatedAt
        BY <2>1, <3>2, <4>2, <4>3 DEF SerialInv, Apart
      <4>5. rows[x].deletedAt \in Nat /\ rows[y].updatedAt \in Nat
        BY <4>3, Numbers DEF BaseInv
      <4> QED BY <4>1, <4>2, <4>4, <4>5
    <3> QED BY <3>1, <3>2
  <2> QED BY <2>1, <2>4, <2>5
<1>5. \A x \in Matching(list) : IF list[1] = "live" THEN Live(x) ELSE rows[x].state = "deleted"
  BY DEF Matching
<1>6. list[1] \in {"live", "deleted"}
  BY DEF Lists
<1>7. \A x \in Ids : sync'.upserts[x] # 0 => Live(x) /\ sync'.upserts[x] = rows[x].rev
  BY <1>1, <1>2, <1>4, <1>5 DEF ReadSoFar
<1>8. \A x \in sync'.gone : rows[x].state = "deleted"
  BY <1>1, <1>2, <1>4, <1>5 DEF ReadSoFar
<1>9. ASSUME NEW l \in Lists \ sync'.todo, NEW x \in Matching(l), Certain(x),
             \A c \in sync'.cutoffs : Mark(x) <= c
      PROVE  Got(l, x)'
  <2>1. x \in Ids
    BY MatchingFacts
  <2>2. CASE l = list
    <3>1. x \in capped.page
      BY <1>1, <1>4, <1>9, <2>2
    <3> QED BY <1>1, <1>2, <1>6, <2>1, <2>2, <3>1 DEF Got
  <2>3. CASE l # list
    <3>1. Got(l, x)
      BY <1>1, <1>2, <1>9, <2>3 DEF ReadSoFar
    <3> QED BY <1>1, <1>2, <2>1, <3>1 DEF Got
  <2> QED BY <2>2, <2>3
<1>10. \A c \in sync'.cutoffs : c <= now'
  BY <1>1, <1>2, <1>4 DEF ReadSoFar
<1>12. \A x : Certain(x)' = Certain(x) /\ Mark(x)' = Mark(x)
  BY <1>2 DEF Certain, Mark
<1>11. ReadSoFar'
  BY <1>1, <1>2, <1>3, <1>7, <1>8, <1>9, <1>10, <1>12 DEF ReadSoFar, Live
<1> QED BY <1>2, <1>11, SerialReads DEF BaseInv

\* The heart of the matter: what the response brings up to the new cursor.
LEMMA SerialEnds ==
  ASSUME BaseInv, SerialInv, SyncEnd
  PROVE  SerialInv'
<1>1. /\ sync' = Idle /\ UNCHANGED <<rows, member, now>> /\ client'.cursor = ServerTime
      /\ client'.copy = [x \in Ids |-> IF x \in sync.gone THEN 0
                                       ELSE IF sync.upserts[x] # 0 THEN sync.upserts[x]
                                       ELSE client.copy[x]]
      /\ client'.quiet => sync.cutoffs = {}
  BY EndFacts
<1>2. sync.pc = "reading" /\ sync.todo = {} /\ ReadSoFar /\ sync.since = client.cursor
  BY DEF SyncEnd, SerialInv, BaseInv, CursorInv
<1>3. /\ sync.cutoffs # {} => ServerTime \in sync.cutoffs /\ \A c \in sync.cutoffs : ServerTime <= c
      /\ sync.cutoffs = {} => ServerTime = now
  BY ServerTimeFacts
<1>4. ASSUME NEW x \in Ids, InView(x), Certain(x), Mark(x) <= ServerTime
      PROVE  Agrees(x)'
  <2>1. /\ x \in sync.gone => rows[x].state = "deleted"
        /\ sync.upserts[x] # 0 => Live(x) /\ sync.upserts[x] = rows[x].rev
    BY <1>2 DEF ReadSoFar
  <2>2. CASE Mark(x) <= client.cursor
    <3>1. Agrees(x)
      BY <1>4, <2>2 DEF SerialInv, MarksComplete
    <3> QED BY <1>1, <2>1, <3>1 DEF Agrees, Live
  <2>3. CASE ~(Mark(x) <= client.cursor)
    <3>0. /\ Mark(x) \in Nat /\ client.cursor \in Nat /\ ServerTime \in Nat
          /\ \A c \in sync.cutoffs : c \in Nat
      BY Numbers, MarkFacts, ServerTimeFacts, TimesNat DEF BaseInv, TypeOK, Reading
    <3>1. Mark(x) > sync.since /\ rows[x].state # "absent"
      <4>1. Mark(x) # 0 /\ Mark(x) > sync.since
        BY <1>2, <2>3, <3>0
      <4> QED BY <4>1 DEF BaseInv, PlacesInv, RowInPlace, Mark
    <3>2. \A c \in sync.cutoffs : Mark(x) <= c
      BY <1>3, <1>4, <3>0
    <3>3. rows[x].place \in Places /\ rows[x].place \in Ids /\ member[rows[x].place] /\ ~rows[x].hidden
      BY <1>4, KindsOfIds, RowOf DEF BaseInv, Row, InView
    <3>4. PICK kind \in Kinds : x \in kind
      BY KindsOfIds
    <3>5. CASE rows[x].state = "live"
      <4>1. rows[x].place \in sync.live /\ rows[x].rev # 0
        BY <1>2, <3>3, <3>5 DEF BaseInv, PlacesInv, RowInPlace, ReadSoFar, Live
      <4>2. <<"live", kind>> \in Lists \ sync.todo
        BY <1>2 DEF Lists
      <4>3. x \in Matching(<<"live", kind>>)
        BY <3>1, <3>3, <3>4, <3>5, <4>1 DEF Matching, Live, Mark
      <4>4. sync.upserts[x] = rows[x].rev
        BY <1>2, <1>4, <3>2, <4>2, <4>3 DEF ReadSoFar, Got
      <4>5. x \notin sync.gone
        BY <2>1, <3>5
      <4> QED BY <1>1, <3>5, <4>1, <4>4, <4>5 DEF Agrees, Live
    <3>6. CASE rows[x].state = "deleted"
      <4>1. rows[x].place \in sync.withDeleted
        BY <1>2, <3>3, <3>6 DEF BaseInv, PlacesInv, RowInPlace, ReadSoFar
      <4>2. <<"deleted", kind>> \in Lists \ sync.todo
        BY <1>2 DEF Lists
      <4>3. x \in Matching(<<"deleted", kind>>)
        BY <3>1, <3>3, <3>4, <3>6, <4>1 DEF Matching, Mark
      <4>4. x \in sync.gone
        BY <1>2, <1>4, <3>2, <4>2, <4>3 DEF ReadSoFar, Got
      <4> QED BY <1>1, <3>6, <4>4 DEF Agrees, Live
    <3>7. rows[x].state \in {"live", "deleted"}
      BY <3>1, RowOf DEF BaseInv, Row
    <3> QED BY <3>5, <3>6, <3>7
  <2> QED BY <2>2, <2>3
<1>5. MarksComplete'
  BY <1>1, <1>4 DEF MarksComplete, InView, Certain, Mark
<1>6. client'.cursor <= now
  <2>1. CASE sync.cutoffs = {}
    BY <1>1, <1>3, <2>1, Numbers DEF BaseInv
  <2>2. CASE sync.cutoffs # {}
    BY <1>1, <1>2, <1>3, <2>2 DEF ReadSoFar
  <2> QED BY <2>1, <2>2
<1>7. GroupsFit' /\ Apart'
  BY <1>1 DEF SerialInv, GroupsFit, Group, Apart
<1>8. client'.quiet => \A x \in Ids : rows'[x].updatedAt <= client'.cursor
  BY <1>1, <1>3 DEF SerialInv
<1> QED BY <1>1, <1>5, <1>6, <1>7, <1>8, IdleReading DEF SerialInv

LEMMA SerialStep ==
  ASSUME Undisturbed, BaseInv, SerialInv, [Next]_vars
  PROVE  SerialInv'
<1>1. CASE Write
  <2>1. PICK W, d, i, t : Clocked(d, i, t) /\ Writes(W, d, i, t)
    BY <1>1, WriteWrites DEF BaseInv
  <2> QED BY <2>1, SerialWrites
<1>2. ASSUME NEW p \in Places, Leave(p) \/ Join(p) PROVE SerialInv'
  <2>1. Leave(p)
    BY <1>2 DEF Join, Undisturbed
  <2>2. UNCHANGED <<rows, now, sync, client>> /\ \A q \in Places : member'[q] => member[q]
    BY <2>1 DEF Leave, BaseInv, TypeOK
  <2>3. sync'.pc = "reading" => ReadSoFar'
    <3> SUFFICES ASSUME sync.pc = "reading" PROVE ReadSoFar'
      BY <2>2
    <3>1. \A list \in Lists : Matching(list)' = Matching(list)
      BY <2>2 DEF Matching, Live
    <3> QED BY <2>2, <3>1 DEF SerialInv, ReadSoFar, Live, Got, Certain, Mark
  <2> QED BY <2>2, <2>3, SerialReads DEF BaseInv
<1>3. CASE SyncBegin
  BY <1>3, SerialBegins
<1>4. CASE SyncEnd
  BY <1>4, SerialEnds
<1>5. CASE SyncFails
  <2>1. UNCHANGED <<rows, member, now, client>> /\ sync'.pc = "idle"
    BY <1>5, IdleReading DEF SyncFails
  <2> QED BY <2>1, SerialReads DEF BaseInv
<1>6. ASSUME NEW list \in Lists, SyncQuery(list) PROVE SerialInv'
  BY <1>6, SerialQueries
<1>7. CASE UNCHANGED vars
  <2>1. UNCHANGED <<rows, member, now, sync, client>>
    BY <1>7 DEF vars
  <2>2. sync'.pc = "reading" => ReadSoFar'
    <3> SUFFICES ASSUME sync.pc = "reading" PROVE ReadSoFar'
      BY <2>1
    <3>1. \A list \in Lists : Matching(list)' = Matching(list)
      BY <2>1 DEF Matching, Live
    <3> QED BY <2>1, <3>1 DEF SerialInv, ReadSoFar, Live, Got, Certain, Mark
  <2> QED BY <2>1, <2>2, SerialReads DEF BaseInv
<1> QED BY <1>1, <1>2, <1>3, <1>4, <1>5, <1>6, <1>7 DEF Next

\* Undisturbed, no step breaks the strengthening that the theorems after it
\* rest on.
THEOREM SerialInvariant ==
  ASSUME Undisturbed
  PROVE  Spec => []SerialInv
<1>1. Init => SerialInv
  BY SerialInit
<1>2. BaseInv /\ SerialInv /\ [Next]_vars => SerialInv'
  BY SerialStep
<1> QED BY <1>1, <1>2, BaseInvariant, PTL DEF Spec

LEMMA CompleteFromMarks ==
  ASSUME Undisturbed, BaseInv, SerialInv
  PROVE  /\ ContentsComplete
         /\ "race" \notin Allowed => CompleteUpToCursor
         /\ "race" \notin Allowed => CaughtUp
<1>1. ASSUME NEW x \in Ids, InView(x), Certain(x), rows[x].updatedAt <= client.cursor
      PROVE  Agrees(x)
  <2>1. /\ Mark(x) \in Nat /\ rows[x].updatedAt \in Nat /\ client.cursor \in Nat
        /\ Mark(x) <= rows[x].updatedAt
    BY MarkFacts, Numbers, UndisturbedPunctual DEF BaseInv
  <2>2. Mark(x) <= client.cursor
    BY <1>1, <2>1
  <2> QED BY <1>1, <2>2 DEF SerialInv, MarksComplete
<1>2. ContentsComplete
  BY <1>1 DEF ContentsComplete, Certain, Live
<1>3. "race" \notin Allowed => CompleteUpToCursor
  BY <1>1 DEF CompleteUpToCursor, Certain
<1>4. "race" \notin Allowed => CaughtUp
  BY <1>3 DEF SerialInv, CaughtUp, CompleteUpToCursor
<1> QED BY <1>2, <1>3, <1>4

\* The cursor passes no change of a row that is there which the client has not
\* got, though removals take their deletedAt before others commit, and edits
\* reach what was deleted meanwhile.
THEOREM ContentsCompleteAlways ==
  ASSUME Undisturbed
  PROVE  Spec => []ContentsComplete
<1>1. BaseInv /\ SerialInv => ContentsComplete
  BY CompleteFromMarks
<1> QED BY <1>1, BaseInvariant, SerialInvariant, PTL

\* Where no write races with another, the cursor passes no change at all the
\* client has not got, deletions included, though each is selected by a time
\* older than the one it is cut by; however many rows and places there are and
\* wherever the pages are cut.
THEOREM CompleteAlways ==
  ASSUME Undisturbed, "race" \notin Allowed
  PROVE  Spec => []CompleteUpToCursor
<1>1. BaseInv /\ SerialInv => CompleteUpToCursor
  BY CompleteFromMarks
<1> QED BY <1>1, BaseInvariant, SerialInvariant, PTL

\* A sync that was not truncated, and that nothing was written after, leaves the
\* copy equal to what the user may see, where no write races with another.
THEOREM CaughtUpAlways ==
  ASSUME Undisturbed, "race" \notin Allowed
  PROVE  Spec => []CaughtUp
<1>1. BaseInv /\ SerialInv => CaughtUp
  BY CompleteFromMarks
<1> QED BY <1>1, BaseInvariant, SerialInvariant, PTL

=============================================================================
