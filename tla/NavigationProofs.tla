-------------------------- MODULE NavigationProofs --------------------------
(***************************************************************************)
(* For any number of entries, days and changes: a visitor of the public    *)
(* site who reaches the end of a walk missed nothing (EndMeetsAll), and    *)
(* the index and the archive show nothing twice (ShowsOnce).               *)
(***************************************************************************)
EXTENDS Navigation, FiniteSetTheorems, WellFoundedInduction, TLAPS

-----------------------------------------------------------------------------
(* Greatest members, and the n greatest.                                   *)

\* A set of numbers has a least one
LEMMA LeastNumber ==
  ASSUME NEW T, T \subseteq Nat, T # {}
  PROVE  \E m \in T : \A n \in T : m <= n
<1>1. PICK m \in T : \A n \in T : ~ (<<n, m>> \in OpToRel(<, Nat))
  BY NatLessThanWellFounded, WFMin
<1>2. \A n \in T : ~ (n < m)
  BY <1>1 DEF OpToRel
<1> QED
  BY <1>2

\* Max is what it says on bounded sets of numbers
LEMMA MaxOfSome ==
  ASSUME NEW N \in Nat, NEW S, S \subseteq 0 .. N, S # {}
  PROVE  Max(S) \in S /\ \A x \in S : Max(S) >= x
<1> DEFINE T == {N - x : x \in S}
<1> HIDE DEF T
<1>0. T \subseteq Nat /\ T # {}
  <2>1. \A x \in S : N - x \in Nat
    OBVIOUS
  <2>2. \E x \in S : TRUE
    OBVIOUS
  <2> QED
    BY <2>1, <2>2 DEF T
<1>1. PICK t \in T : \A n \in T : t <= n
  BY <1>0, LeastNumber
<1>2. PICK m \in S : t = N - m
  BY DEF T
<1>3. \A x \in S : m >= x
  BY <1>1, <1>2 DEF T
<1> QED
  BY <1>3 DEF Max

\* Bounded sets of numbers are finite
LEMMA FiniteNumbers ==
  ASSUME NEW N \in Nat, NEW S, S \subseteq 0 .. N
  PROVE  IsFiniteSet(S)
<1>1. IsFiniteSet(0 .. N)
  BY FS_Interval
<1>2. S \in SUBSET (0 .. N)
  OBVIOUS
<1> QED
  BY ONLY <1>1, <1>2, FS_Subset

\* What a subset of numbers has above a number
LEMMA Above ==
  ASSUME NEW N \in Nat, NEW S, S \subseteq 0 .. N, NEW y
  PROVE  /\ IsFiniteSet({z \in S : z > y})
         /\ Cardinality({z \in S : z > y}) \in Nat
<1> DEFINE T == {z \in S : z > y}
<1>1. T \subseteq 0 .. N
  OBVIOUS
<1> HIDE DEF T
<1>2. IsFiniteSet(T)
  BY <1>1, FiniteNumbers
<1>3. Cardinality(T) \in Nat
  BY <1>2, FS_CardinalityType
<1> QED
  BY <1>2, <1>3 DEF T

\* A subset has no more members
LEMMA SmallerSubset ==
  ASSUME NEW S, NEW T, T \subseteq S, IsFiniteSet(S)
  PROVE  /\ IsFiniteSet(T) /\ Cardinality(T) \in Nat /\ Cardinality(S) \in Nat
         /\ Cardinality(T) <= Cardinality(S)
<1>1. T \in SUBSET S
  OBVIOUS
<1>2. IsFiniteSet(T) /\ Cardinality(T) <= Cardinality(S)
  BY <1>1, FS_Subset
<1> QED
  BY <1>2, FS_CardinalityType

\* Who is among the n greatest is greater than who is not
LEMMA TopIsAbove ==
  ASSUME NEW N \in Nat, NEW S, S \subseteq 0 .. N, NEW n \in Nat,
         NEW x \in Top(S, n), NEW y \in S \ Top(S, n)
  PROVE  x > y
<1> DEFINE GtX == {z \in S : z > x}
           GtY == {z \in S : z > y}
<1>1. x \in Nat /\ y \in Nat /\ S \subseteq Nat
  BY DEF Top
<1>2. Cardinality(GtX) < n /\ ~ (Cardinality(GtY) < n)
  BY Zenon DEF Top
<1>3. SUFFICES ASSUME x <= y PROVE FALSE
  BY <1>1
<1>4. GtY \subseteq GtX
  <2>1. \A z \in S : z > y => z > x
    BY <1>1, <1>3
  <2> QED
    BY Zenon, <2>1
<1>5. IsFiniteSet(GtX)
  BY Above
<1> HIDE DEF GtX, GtY
<1>6. Cardinality(GtY) <= Cardinality(GtX) /\ Cardinality(GtY) \in Nat /\ Cardinality(GtX) \in Nat
  BY <1>4, <1>5, SmallerSubset
<1> QED
  BY <1>2, <1>6

\* There are at most n of them
LEMMA TopIsSmall ==
  ASSUME NEW N \in Nat, NEW S, S \subseteq 0 .. N, NEW n \in Nat
  PROVE  Cardinality(Top(S, n)) <= n
<1> DEFINE P == Top(S, n)
<1>1. P \subseteq 0 .. N
  BY DEF Top
<1>2. CASE P = {}
  BY <1>2, FS_EmptySet
<1>3. CASE P # {}
  <2>1. PICK m \in P : \A x \in P : m <= x
    <3> HIDE DEF P
    <3>1. P \subseteq Nat
      BY <1>1
    <3> QED
      BY <1>3, <3>1, LeastNumber
  <2> DEFINE GtM == {z \in S : z > m}
  <2>2. IsFiniteSet(GtM)
    BY Above
  <2>3. P \ {m} \subseteq GtM
    BY <1>1, <2>1 DEF Top
  <2>4. Cardinality(GtM) < n
    BY <2>1 DEF Top
  <2> HIDE DEF P, GtM
  <2>5. IsFiniteSet(P)
    BY <1>1, FiniteNumbers
  <2>6. Cardinality(P \ {m}) <= Cardinality(GtM) /\ Cardinality(GtM) \in Nat
    BY <2>2, <2>3, SmallerSubset
  <2>7. Cardinality(P \ {m}) = Cardinality(P) - 1 /\ Cardinality(P) \in Nat
    BY <2>1, <2>5, FS_RemoveElement, FS_CardinalityType
  <2>8. Cardinality(P) <= n
    BY <2>4, <2>6, <2>7
  <2> QED
    BY <2>8 DEF P
<1> QED
  BY <1>2, <1>3

\* ... and n of them if they are not all
LEMMA TopIsFull ==
  ASSUME NEW N \in Nat, NEW S, S \subseteq 0 .. N, NEW n \in Nat,
         S \ Top(S, n) # {}
  PROVE  Cardinality(Top(S, n)) >= n
<1> DEFINE P == Top(S, n)
           R == S \ P
           d == Max(R)
           GtD == {z \in S : z > d}
<1>1. R \subseteq 0 .. N /\ R # {} /\ P \subseteq 0 .. N
  BY DEF Top
<1>2. d \in R /\ \A x \in R : d >= x
  <2> HIDE DEF R
  <2> QED
    BY <1>1, MaxOfSome
<1>3. ~ (Cardinality(GtD) < n)
  <2>1. \A x \in R : ~ (Cardinality({z \in S : z > x}) < n)
    BY Zenon DEF Top
  <2> HIDE DEF d
  <2> QED
    BY <1>2, <2>1
<1> HIDE DEF d
<1>4. GtD \subseteq P
  <2>1. d \in Nat /\ S \subseteq Nat
    BY <1>1, <1>2
  <2>2. \A z \in S : z > d => z \notin R
    BY <1>2, <2>1
  <2> QED
    BY Zenon, <2>2
<1> HIDE DEF P, GtD
<1>5. IsFiniteSet(P)
  BY <1>1, FiniteNumbers
<1>6. Cardinality(GtD) <= Cardinality(P) /\ Cardinality(GtD) \in Nat /\ Cardinality(P) \in Nat
  BY <1>4, <1>5, SmallerSubset
<1>7. Cardinality(P) >= n
  BY <1>3, <1>6
<1> QED
  BY <1>7 DEF P

-----------------------------------------------------------------------------
(* What the queries answer.                                                *)

\* Days are positive numbers
LEMMA DayFacts ==
  /\ MaxDay \in Nat /\ Today \in Day /\ MaxDay \in Day /\ MaxTime \in Nat
  /\ Day \subseteq 0 .. MaxDay /\ Day \subseteq Nat
BY DaysAreNumbers DEF Day

\* The columns of a row
LEMMA RowFacts ==
  ASSUME TypeOK, NEW e \in Entry
  PROVE  /\ rows[e] \in Row /\ rows[e].visible \in BOOLEAN /\ rows[e].tagged \in BOOLEAN
         /\ rows[e].date \in Day /\ rows[e].date \in Nat
         /\ rows[e].created \in 0 .. MaxTime /\ rows[e].created \in Nat
<1>1. rows[e] \in Row
  BY DEF TypeOK
<1>2. /\ rows[e].visible \in BOOLEAN /\ rows[e].tagged \in BOOLEAN
      /\ rows[e].date \in Day /\ rows[e].created \in 0 .. MaxTime
  BY <1>1 DEF Row
<1>3. rows[e].date \in Nat
  BY <1>2, DayFacts
<1>4. rows[e].created \in Nat
  BY <1>2, DayFacts
<1> QED
  BY <1>1, <1>2, <1>3, <1>4

\* What is sought are entries, with dates to compare with the walk's
LEMMA SoughtFacts ==
  ASSUME IInv, NEW e \in sought
  PROVE  /\ e \in Entry /\ e \in Visible /\ rows[e].date \in Day /\ rows[e].date \in Nat
         /\ walk \in Walk /\ walk.at \in Day /\ walk.at \in Nat
         /\ (rows[e].date > walk.at \/ rows[e].date <= walk.at)
<1>1. e \in Entry /\ e \in Visible /\ TypeOK
  BY DEF IInv, TypeOK, SoughtIsThere
<1>2. rows[e].date \in Day /\ rows[e].date \in Nat
  BY <1>1, RowFacts
<1>3. walk \in Walk /\ walk.at \in Day
  BY DEF IInv, TypeOK, Walk
<1>4. walk.at \in Nat
  BY <1>3, DayFacts
<1> QED
  BY <1>1, <1>2, <1>3, <1>4

\* DisplayDays never shows all of the MaxDays + 1 dates that may be read
LEMMA DisplayDaysBound ==
  ASSUME NEW dates, dates \subseteq Day, NEW entries
  PROVE  DisplayDays(dates, entries) \in Nat /\ DisplayDays(dates, entries) <= MaxDays
<1> DEFINE most == IF Cardinality(dates) <= MaxDays THEN Cardinality(dates) ELSE MaxDays
           total(d) == Cardinality({e \in entries : rows[e].date \in Top(dates, d)})
           fits == {d \in MinDays + 1 .. most : total(d) <= Threshold}
           some == {MinDays} \cup fits
<1>1. Cardinality(dates) \in Nat
  BY DayFacts, FiniteNumbers, FS_CardinalityType
<1>2. most \in Nat /\ most <= MaxDays /\ MaxDays \in Nat /\ MinDays \in Nat /\ MinDays <= MaxDays
  BY <1>1, PagesHoldSomething
<1>3. DisplayDays(dates, entries) = IF most <= MinDays THEN most ELSE Max(some)
  BY DEF DisplayDays
<1> HIDE DEF most
<1>4. some \subseteq 0 .. MaxDays /\ some # {}
  BY <1>2
<1> HIDE DEF some
<1>5. Max(some) \in 0 .. MaxDays
  BY <1>2, <1>4, MaxOfSome
<1> QED
  BY <1>2, <1>3, <1>5

\* An entry with older ones has an older link
LEMMA OlderIsFound ==
  ASSUME TypeOK, NEW e \in Entry, Older(e) # {}
  PROVE  GetOlderEntry(e) # {}
<1> DEFINE S == {rows[x].created : x \in Older(e)}
<1>1. \A x \in Older(e) : x \in Entry /\ rows[x].created \in 0 .. MaxTime
  BY RowFacts DEF Older, Visible
<1>2. S \subseteq 0 .. MaxTime /\ S # {}
  BY <1>1
<1>3. Max(S) \in S /\ \A n \in S : Max(S) >= n
  <2> HIDE DEF S
  <2> QED
    BY <1>2, MaxOfSome, DayFacts
<1>4. PICK o \in Older(e) : rows[o].created = Max(S)
  BY <1>3
<1>5. \A x \in Older(e) : rows[x].created \in S
  OBVIOUS
<1> HIDE DEF S
<1>6. \A x \in Older(e) : rows[x].created <= rows[o].created
  BY <1>1, <1>2, <1>3, <1>4, <1>5
<1> QED
  BY <1>4, <1>6 DEF GetOlderEntry

-----------------------------------------------------------------------------
(* The first page.                                                         *)

\* No walk has begun
LEMMA InitEstablishes == Init => IInv
<1> SUFFICES ASSUME Init PROVE IInv
  OBVIOUS
<1>1. TypeOK
  <2>1. Unpublished \in Row
    <3>1. 1 \in Day /\ 0 \in 0 .. MaxTime
      BY DayFacts DEF Day
    <3> QED
      BY <3>1 DEF Unpublished, Row
  <2>2. rows \in [Entry -> Row]
    BY <2>1 DEF Init
  <2>3. walk \in Walk
    BY DayFacts DEF Init, Walk, Kind
  <2> QED
    BY <2>2, <2>3 DEF TypeOK, Init
<1>2. /\ walk.pc = "start" /\ walk.kind = "index" /\ sought = {} /\ met = {} /\ twice = {}
  BY DEF Init
<1> QED
  BY <1>1, <1>2 DEF IInv, SoughtIsThere, NothingBeforeStart, OnlyIndexReadsDates,
     IndexMetLater, DatesAreNext, CategoryMetLater, OlderMetLater, ArchiveMetOthers,
     EndMeetsAll, ShowsOnce

\* What any first page does, before its kind is looked at
LEMMA StartKeeps ==
  ASSUME IInv, NEW kind \in Kind, NEW at \in Day, NEW next \in SUBSET Entry,
         NEW months \in SUBSET Month, NEW seeks \in SUBSET Visible,
         Start(kind, at, next, months, seeks)
  PROVE  /\ TypeOK' /\ sought' = seeks /\ met' = {} /\ twice' = {}
         /\ rows' = rows /\ Visible' = Visible
         /\ walk'.kind = kind /\ walk'.pc = "page" /\ walk'.at = at
         /\ walk'.next = next /\ walk'.months = months
<1>1. walk.pc = "start" /\ met = {} /\ twice = {}
  BY DEF IInv, Start, NothingBeforeStart
<1>2. walk' = [kind |-> kind, pc |-> "page", at |-> at, next |-> next,
               dates |-> {}, months |-> months]
  BY DEF Start
<1>3. walk' \in Walk
  BY <1>2 DEF Walk
<1>4. seeks \in SUBSET Entry
  BY DEF Visible
<1>5. TypeOK'
  BY <1>3, <1>4 DEF TypeOK, IInv, Start
<1> QED
  BY <1>1, <1>2, <1>5 DEF Start, Visible

\* What the first page leads to is what is sought
LEMMA BeginKeeps == IInv /\ Begin => IInv'
<1> SUFFICES ASSUME IInv, Begin PROVE IInv'
  OBVIOUS
<1> USE DEF IInv, SoughtIsThere, NothingBeforeStart, OnlyIndexReadsDates,
            IndexMetLater, DatesAreNext, CategoryMetLater, OlderMetLater, ArchiveMetOthers,
            EndMeetsAll, ShowsOnce
<1>0. TypeOK
  OBVIOUS
<1>1. CASE StartIndex
  <2>1. /\ TypeOK' /\ sought' = Visible /\ met' = {} /\ twice' = {} /\ rows' = rows
        /\ Visible' = Visible /\ walk'.kind = "index" /\ walk'.pc = "page"
        /\ walk'.at = MaxDay
    BY <1>1, StartKeeps, DayFacts, Zenon DEF StartIndex, Kind
  <2>2. \A e \in Visible : ~ (rows[e].date > MaxDay)
    BY <1>0, RowFacts, DayFacts DEF Visible, Day
  <2> QED
    BY <2>1, <2>2
<1>2. CASE StartCategory
  <2>1. InCategory(Today) \in SUBSET Visible
    BY DEF InCategory
  <2>2. /\ TypeOK' /\ sought' = InCategory(Today) /\ met' = {} /\ twice' = {}
        /\ rows' = rows /\ Visible' = Visible /\ walk'.kind = "category"
        /\ walk'.pc = "page" /\ walk'.at = Today
    BY <1>2, <2>1, StartKeeps, DayFacts, Zenon DEF StartCategory, Kind
  <2> QED
    BY <2>1, <2>2 DEF InCategory
<1>3. CASE HandleArchive
  <2>1. ListArchiveMonths \in SUBSET Month
    BY <1>0, RowFacts DEF ListArchiveMonths, DatesOf, Month, Visible
  <2>2. /\ TypeOK' /\ sought' = Visible /\ met' = {} /\ twice' = {} /\ rows' = rows
        /\ Visible' = Visible /\ walk'.kind = "archive" /\ walk'.pc = "page"
        /\ walk'.months = ListArchiveMonths
    BY <1>3, <2>1, StartKeeps, DayFacts, Zenon DEF HandleArchive, Kind
  <2>3. \A e \in Visible : MonthOf[rows[e].date] \in ListArchiveMonths
    BY DEF ListArchiveMonths, DatesOf
  <2> QED
    BY <2>2, <2>3
<1>4. ASSUME NEW o \in Entry, StartEntry(o) PROVE IInv'
  <2>1. o \in Visible /\ {o} \cup Older(o) \in SUBSET Visible
    BY <1>4 DEF StartEntry, Older
  <2>2. /\ TypeOK' /\ sought' = {o} \cup Older(o) /\ met' = {} /\ twice' = {}
        /\ rows' = rows /\ Visible' = Visible /\ walk'.kind = "older"
        /\ walk'.pc = "page" /\ walk'.next = {o}
    <3>1. /\ "older" \in Kind /\ {o} \in SUBSET Entry /\ {} \in SUBSET Month
          /\ Start("older", MaxDay, {o}, {}, {o} \cup Older(o))
      BY <1>4 DEF StartEntry, Kind
    <3> QED
      BY <2>1, <3>1, StartKeeps, DayFacts, Zenon
  <2>3. \A e \in {o} \cup Older(o) : rows[e].created <= rows[o].created
    BY <1>0, RowFacts, <2>1 DEF Older, Visible
  <2> QED
    BY <2>1, <2>2, <2>3
<1> QED
  BY <1>1, <1>2, <1>3, <1>4 DEF Begin

-----------------------------------------------------------------------------
(* The pages that follow.                                                  *)

\* The dates read are the next, and more than can be shown if any are left out
LEMMA ReadDatesKeeps == IInv /\ ReadDates => IInv'
<1> SUFFICES ASSUME IInv, ReadDates PROVE IInv'
  OBVIOUS
<1> DEFINE D == {d \in DatesOf(Visible) : d <= walk.at}
           T == ListUniqueDates(walk.at, MaxDays + 1)
<1>0. /\ TypeOK /\ walk.kind = "index" /\ walk.pc = "page" /\ walk.at \in Day
      /\ T = Top(D, MaxDays + 1) /\ MaxDays \in Nat
  BY PagesHoldSomething DEF IInv, TypeOK, Walk, ReadDates, AtPage, ListUniqueDates
<1>1. D \subseteq Day /\ D \subseteq 0 .. MaxDay
  BY <1>0, RowFacts, DayFacts DEF DatesOf, Visible
<1>2. T \subseteq Day /\ \A d \in T : d <= walk.at
  BY <1>0, <1>1 DEF Top
<1>3. walk' = [walk EXCEPT !.dates = T, !.pc = IF T = {} THEN "end" ELSE "dates"]
  BY DEF ReadDates
<1>4. UNCHANGED <<rows, changes, sought, met, twice, skipped, Visible>>
  BY DEF ReadDates, Visible
<1>5. walk' \in Walk
  BY <1>0, <1>2, <1>3 DEF IInv, TypeOK, Walk
<1>6. /\ walk'.kind = "index" /\ walk'.at = walk.at /\ walk'.dates = T
      /\ walk'.pc = IF T = {} THEN "end" ELSE "dates"
  BY <1>0, <1>3, <1>5 DEF IInv, TypeOK, Walk
<1>7. \A e \in sought \ met : rows[e].date \in D
  BY <1>0, SoughtFacts DEF IInv, IndexMetLater, DatesOf
<1>8. ASSUME NEW e \in sought \ met, rows[e].date \notin T
      PROVE  Cardinality(T) > MaxDays /\ \A d \in T : d > rows[e].date
  <2> HIDE DEF D, T
  <2>1. MaxDays + 1 \in Nat /\ rows[e].date \in D \ Top(D, MaxDays + 1)
    BY <1>0, <1>7, <1>8
  <2>2. Cardinality(T) >= MaxDays + 1
    BY <1>0, <1>1, <2>1, DayFacts, TopIsFull
  <2>3. \A d \in T : d > rows[e].date
    BY <1>0, <1>1, <2>1, DayFacts, TopIsAbove
  <2>4. Cardinality(T) \in Nat
    BY <1>2, DayFacts, FiniteNumbers, FS_CardinalityType
  <2> QED
    BY <1>0, <2>2, <2>3, <2>4
<1>9. T = {} => sought \subseteq met
  BY <1>0, <1>8, FS_EmptySet
<1> HIDE DEF D, T
<1> QED
  BY <1>0, <1>2, <1>4, <1>5, <1>6, <1>8, <1>9
  DEF IInv, TypeOK, SoughtIsThere, NothingBeforeStart, OnlyIndexReadsDates,
      IndexMetLater, DatesAreNext, CategoryMetLater, OlderMetLater, ArchiveMetOthers,
      EndMeetsAll, ShowsOnce

\* Of the dates read the later ones are shown, the next page begins with the rest
LEMMA ReadEntriesKeeps == IInv /\ ReadEntries => IInv'
<1> SUFFICES ASSUME IInv, ReadEntries PROVE IInv'
  OBVIOUS
<1> DEFINE k == DisplayDays(walk.dates, ListEntriesByDates(walk.dates))
           shown == Top(walk.dates, k)
           older == walk.dates \ shown
           S == ListEntriesByDates(shown)
<1>0. /\ TypeOK /\ walk.kind = "index" /\ walk.pc = "dates" /\ walk.at \in Day
      /\ walk.dates \subseteq Day /\ walk.dates \subseteq 0 .. MaxDay
  BY DayFacts DEF IInv, TypeOK, Walk, ReadEntries
<1>1. k \in Nat /\ k <= MaxDays /\ MaxDays \in Nat
  BY <1>0, DisplayDaysBound, PagesHoldSomething
<1>2. Show(S, {}, IF older = {} THEN End
                  ELSE [walk EXCEPT !.pc = "page", !.dates = {}, !.at = Max(older)])
  BY DEF ReadEntries
<1> HIDE DEF k
<1>3. \A e \in sought : e \in S <=> rows[e].date \in shown
  BY DEF ListEntriesByDates, IInv, SoughtIsThere
<1>4. S \subseteq Entry
  BY DEF ListEntriesByDates, Visible
<1>5. /\ met' = met \cup S /\ twice' = twice \cup (met \cap S)
      /\ UNCHANGED <<rows, changes, sought, skipped, Visible>>
  BY <1>2 DEF Show, Visible
<1>6. /\ shown \subseteq walk.dates
      /\ \A x \in shown, y \in older : x > y
  <2>1. shown \subseteq walk.dates
    BY DEF Top
  <2>2. ASSUME NEW x \in shown, NEW y \in older PROVE x > y
    BY <1>0, <1>1, DayFacts, TopIsAbove
  <2> QED
    BY <2>1, <2>2
<1>7. \A e \in sought : e \in met => rows[e].date \notin walk.dates /\ rows[e].date > walk.at
  <2>1. \A e \in sought : e \in met => rows[e].date > walk.at
    BY <1>0 DEF IInv, IndexMetLater
  <2>2. \A d \in walk.dates : d <= walk.at
    BY <1>0 DEF IInv, DatesAreNext
  <2>3. \A d \in walk.dates : d \in Nat
    BY <1>0, DayFacts
  <2> QED
    BY <2>1, <2>2, <2>3, SoughtFacts
<1>8. \A e \in sought \ met : e \in Entry /\ rows[e].date \in Day /\ rows[e].date <= walk.at
  BY <1>0, SoughtFacts DEF IInv, IndexMetLater
<1>9. \A e \in sought \ met : \/ rows[e].date \in walk.dates
                              \/ /\ Cardinality(walk.dates) > MaxDays
                                 /\ \A d \in walk.dates : d > rows[e].date
  BY <1>0 DEF IInv, DatesAreNext
<1>10. sought \cap twice' = {}
  BY <1>0, <1>3, <1>5, <1>6, <1>7 DEF IInv, ShowsOnce
<1>11. CASE older = {}
  <2>1. walk' = End
    BY <1>2, <1>11 DEF Show
  <2>2. walk' \in Walk /\ walk'.kind = "index" /\ walk'.pc = "end"
    BY <1>0, <2>1 DEF End, TypeOK, Walk
  <2>3. shown = walk.dates
    BY <1>6, <1>11
  <2>4. Cardinality(walk.dates) <= MaxDays /\ Cardinality(walk.dates) \in Nat
    BY <1>0, <1>1, <2>3, DayFacts, TopIsSmall, FiniteNumbers, FS_CardinalityType
  <2> HIDE DEF shown, older
  <2>5. \A e \in sought \ met : rows[e].date \in shown
    BY <1>1, <1>9, <2>3, <2>4
  <2> HIDE DEF S
  <2>6. sought \subseteq met'
    BY <1>3, <1>5, <2>5
  <2> QED
    BY <1>0, <1>4, <1>5, <1>10, <2>2, <2>6
    DEF IInv, TypeOK, SoughtIsThere, NothingBeforeStart, OnlyIndexReadsDates,
        IndexMetLater, DatesAreNext, CategoryMetLater, OlderMetLater, ArchiveMetOthers,
        EndMeetsAll, ShowsOnce
<1>12. CASE older # {}
  <2>1. older \subseteq 0 .. MaxDay
    BY <1>0
  <2> HIDE DEF shown
  <2>2. Max(older) \in older /\ \A x \in older : Max(older) >= x
    <3> HIDE DEF older
    <3> QED
      BY <1>12, <2>1, DayFacts, MaxOfSome
  <2> DEFINE d == Max(older)
  <2>3. d \in Day /\ d \in Nat /\ d <= walk.at
    BY <1>0, <2>2, DayFacts DEF IInv, DatesAreNext
  <2>4. walk' = [walk EXCEPT !.pc = "page", !.dates = {}, !.at = d]
    BY <1>2, <1>12 DEF Show
  <2> HIDE DEF d
  <2>5. /\ walk' \in Walk /\ walk'.kind = "index" /\ walk'.pc = "page" /\ walk'.at = d
    BY <1>0, <2>3, <2>4 DEF TypeOK, Walk
  <2>6. ASSUME NEW e \in sought PROVE e \in met' <=> rows[e].date > d
    <3>0. walk.at \in Nat /\ d \in Nat /\ rows[e].date \in Nat
      BY <1>0, <2>3, DayFacts, RowFacts DEF IInv, TypeOK
    <3>1. CASE e \in met
      BY <1>5, <1>7, <2>3, <3>0, <3>1
    <3>2. CASE e \notin met /\ rows[e].date \in shown
      BY <1>3, <1>5, <1>6, <2>2, <3>2 DEF d
    <3>3. CASE e \notin met /\ rows[e].date \in older
      <4>1. rows[e].date <= d /\ rows[e].date \notin shown
        BY <2>2, <3>0, <3>3 DEF d
      <4> QED
        BY <1>3, <1>5, <3>0, <3>3, <4>1
    <3>4. CASE e \notin met /\ rows[e].date \notin walk.dates
      <4>1. d > rows[e].date /\ rows[e].date \notin shown
        BY <1>6, <1>9, <2>2, <3>4 DEF d
      <4> QED
        BY <1>3, <1>5, <3>0, <3>4, <4>1
    <3> QED
      BY <3>1, <3>2, <3>3, <3>4
  <2> HIDE DEF older, S
  <2> QED
    BY <1>0, <1>4, <1>5, <1>10, <2>5, <2>6
    DEF IInv, TypeOK, SoughtIsThere, NothingBeforeStart, OnlyIndexReadsDates,
        IndexMetLater, DatesAreNext, CategoryMetLater, OlderMetLater, ArchiveMetOthers,
        EndMeetsAll, ShowsOnce
<1> QED
  BY <1>11, <1>12

\* The next page of a category begins with the latest day left over
LEMMA HandleCategoryKeeps == IInv /\ HandleCategory => IInv'
<1> SUFFICES ASSUME IInv, HandleCategory PROVE IInv'
  OBVIOUS
<1> DEFINE C == InCategory(walk.at)
<1>0. /\ TypeOK /\ walk.kind = "category" /\ walk.pc = "page" /\ walk \in Walk
      /\ walk.at \in Day
  BY DEF IInv, TypeOK, Walk, HandleCategory, AtPage
<1>1. PICK shown \in Firsts(C, Limit) :
        LET older == DatesOf(C \ shown)
        IN  Show(shown, {}, IF older = {} THEN End ELSE [walk EXCEPT !.at = Max(older)])
  BY DEF HandleCategory
<1> DEFINE older == DatesOf(C \ shown)
<1>2. shown \subseteq C /\ C \subseteq Entry
  BY DEF Firsts, InCategory, Visible
<1>3. /\ met' = met \cup shown
      /\ UNCHANGED <<rows, changes, sought, skipped, Visible>>
      /\ twice' = twice \cup (met \cap shown)
  BY <1>1 DEF Show, Visible
<1>4. \A e \in sought \ met : e \in C
  BY <1>0, SoughtFacts DEF IInv, SoughtIsThere, CategoryMetLater, InCategory
<1>5. older \subseteq Day /\ older \subseteq 0 .. MaxDay
  BY <1>0, <1>2, RowFacts, DayFacts DEF DatesOf
<1>6. \A e \in sought \ met' : e \in C \ shown /\ rows[e].date \in older
  BY <1>3, <1>4 DEF DatesOf
<1>7. CASE older = {}
  <2>1. walk' = End
    BY <1>1, <1>7 DEF Show
  <2>2. walk' \in Walk /\ walk'.kind = "category" /\ walk'.pc = "end"
    BY <1>0, <2>1 DEF End, Walk
  <2>3. sought \subseteq met'
    BY <1>6, <1>7
  <2> HIDE DEF C, older
  <2> QED
    BY <1>0, <1>2, <1>3, <2>2, <2>3
    DEF IInv, TypeOK, SoughtIsThere, NothingBeforeStart, OnlyIndexReadsDates,
        IndexMetLater, DatesAreNext, CategoryMetLater, OlderMetLater, ArchiveMetOthers,
        EndMeetsAll, ShowsOnce
<1>8. CASE older # {}
  <2> HIDE DEF C
  <2>1. Max(older) \in older /\ \A x \in older : Max(older) >= x
    <3> HIDE DEF older
    <3> QED
      BY <1>5, <1>8, DayFacts, MaxOfSome
  <2>2. walk' = [walk EXCEPT !.at = Max(older)]
    BY <1>1, <1>8 DEF Show
  <2>3. /\ walk' \in Walk /\ walk'.kind = "category" /\ walk'.pc = "page"
        /\ walk'.at = Max(older)
    BY <1>0, <1>5, <2>1, <2>2 DEF Walk
  <2>4. \A n \in older : Max(older) \in Nat /\ n \in Nat
    BY <1>5, <2>1, DayFacts
  <2> HIDE DEF older
  <2>5. \A e \in sought \ met' : rows[e].date <= Max(older)
    BY <1>6, <2>1, <2>4
  <2> QED
    BY <1>0, <1>2, <1>3, <2>3, <2>5
    DEF IInv, TypeOK, SoughtIsThere, NothingBeforeStart, OnlyIndexReadsDates,
        IndexMetLater, DatesAreNext, CategoryMetLater, OlderMetLater, ArchiveMetOthers,
        EndMeetsAll, ShowsOnce
<1> QED
  BY <1>7, <1>8

\* What the older link passes over is as old as the entry shown
LEMMA HandlePathKeeps == IInv /\ HandlePath => IInv'
<1> SUFFICES ASSUME IInv, HandlePath PROVE IInv'
  OBVIOUS
<1>0. TypeOK /\ walk.kind = "older" /\ walk.pc = "page" /\ walk \in Walk
  BY DEF IInv, TypeOK, HandlePath, AtPage
<1>1. PICK e \in Entry : /\ walk.next = {e}
                         /\ \A x \in sought \ (met \cup skipped) :
                              rows[x].created <= rows[e].created
  BY <1>0 DEF IInv, OlderMetLater
<1> DEFINE same == {x \in Visible : rows[x].created = rows[e].created}
<1>2. IF e \notin Visible
      THEN Show({}, {}, [walk EXCEPT !.pc = "gone"])
      ELSE IF GetOlderEntry(e) = {} THEN Show({e}, same, End)
      ELSE \E o \in GetOlderEntry(e) : Show({e}, same, [walk EXCEPT !.next = {o}])
  BY <1>1 DEF HandlePath
<1>3. UNCHANGED <<rows, changes, sought, Visible>>
  BY <1>2 DEF Show, Visible
<1>4. same \subseteq Entry
  BY DEF Visible
<1>5. \A x \in sought \ (met \cup skipped \cup same) : x \in Older(e)
  <2> SUFFICES ASSUME NEW x \in sought \ (met \cup skipped \cup same) PROVE x \in Older(e)
    OBVIOUS
  <2>1. x \in Visible /\ x \in Entry
    BY SoughtFacts
  <2>2. rows[x].created \in Nat /\ rows[e].created \in Nat
    BY <1>0, <2>1, RowFacts
  <2>3. rows[x].created <= rows[e].created /\ rows[x].created # rows[e].created
    BY <1>1, <2>1
  <2> QED
    BY <2>1, <2>2, <2>3 DEF Older
<1> HIDE DEF same
<1>6. CASE e \notin Visible
  <2>1. /\ walk' = [walk EXCEPT !.pc = "gone"]
        /\ UNCHANGED <<met, twice, skipped>>
    BY <1>2, <1>6 DEF Show
  <2>2. walk' \in Walk /\ walk'.kind = "older" /\ walk'.pc = "gone"
    BY <1>0, <2>1 DEF Walk
  <2> QED
    BY <1>0, <1>3, <2>1, <2>2
    DEF IInv, TypeOK, SoughtIsThere, NothingBeforeStart, OnlyIndexReadsDates,
        IndexMetLater, DatesAreNext, CategoryMetLater, OlderMetLater, ArchiveMetOthers,
        EndMeetsAll, ShowsOnce
<1>7. CASE e \in Visible /\ GetOlderEntry(e) = {}
  <2>1. /\ walk' = End /\ met' = met \cup {e} /\ skipped' = skipped \cup same
        /\ twice' = twice \cup (met \cap {e})
    BY <1>2, <1>7 DEF Show
  <2>2. walk' \in Walk /\ walk'.kind = "older" /\ walk'.pc = "end"
    BY <1>0, <2>1 DEF End, Walk
  <2>3. sought \subseteq met' \cup skipped'
    BY <1>0, <1>5, <1>7, <2>1, OlderIsFound
  <2> QED
    BY <1>0, <1>3, <1>4, <2>1, <2>2, <2>3
    DEF IInv, TypeOK, SoughtIsThere, NothingBeforeStart, OnlyIndexReadsDates,
        IndexMetLater, DatesAreNext, CategoryMetLater, OlderMetLater, ArchiveMetOthers,
        EndMeetsAll, ShowsOnce
<1>8. CASE e \in Visible /\ GetOlderEntry(e) # {}
  <2>1. PICK o \in GetOlderEntry(e) : Show({e}, same, [walk EXCEPT !.next = {o}])
    BY <1>2, <1>8
  <2>2. o \in Entry /\ \A x \in Older(e) : rows[x].created <= rows[o].created
    BY DEF GetOlderEntry, Older, Visible
  <2>3. /\ walk' = [walk EXCEPT !.next = {o}]
        /\ met' = met \cup {e} /\ skipped' = skipped \cup same
        /\ twice' = twice \cup (met \cap {e})
    BY <2>1 DEF Show
  <2>4. walk' \in Walk /\ walk'.kind = "older" /\ walk'.pc = "page" /\ walk'.next = {o}
    BY <1>0, <2>2, <2>3 DEF Walk
  <2>5. \A x \in sought \ (met' \cup skipped') : rows[x].created <= rows[o].created
    BY <1>5, <2>2, <2>3
  <2> QED
    BY <1>0, <1>3, <1>4, <2>2, <2>3, <2>4, <2>5
    DEF IInv, TypeOK, SoughtIsThere, NothingBeforeStart, OnlyIndexReadsDates,
        IndexMetLater, DatesAreNext, CategoryMetLater, OlderMetLater, ArchiveMetOthers,
        EndMeetsAll, ShowsOnce
<1> QED
  BY <1>6, <1>7, <1>8

\* A month is shown once and whole
LEMMA HandleDateArchiveKeeps == IInv /\ HandleDateArchive => IInv'
<1> SUFFICES ASSUME IInv, HandleDateArchive PROVE IInv'
  OBVIOUS
<1>0. TypeOK /\ walk.kind = "archive" /\ walk.pc = "page" /\ walk \in Walk
  BY DEF IInv, TypeOK, HandleDateArchive, AtPage
<1>1. /\ \A e \in sought : e \in met <=> MonthOf[rows[e].date] \notin walk.months
      /\ sought \cap twice = {} /\ sought \subseteq Visible
  BY <1>0 DEF IInv, ArchiveMetOthers, ShowsOnce, SoughtIsThere
<1>2. ASSUME NEW m \in walk.months,
             Show(ListEntriesByYearMonthDay(m), {}, [walk EXCEPT !.months = @ \ {m}])
      PROVE  IInv'
  <2> DEFINE S == ListEntriesByYearMonthDay(m)
  <2>1. /\ walk' = [walk EXCEPT !.months = @ \ {m}]
        /\ met' = met \cup S /\ twice' = twice \cup (met \cap S)
        /\ UNCHANGED <<rows, changes, sought, skipped, Visible>>
    BY <1>2 DEF Show, Visible
  <2>2. S \subseteq Entry /\ \A e \in sought : e \in S <=> MonthOf[rows[e].date] = m
    BY <1>1 DEF ListEntriesByYearMonthDay, Visible
  <2> HIDE DEF S
  <2>3. /\ walk' \in Walk /\ walk'.kind = "archive" /\ walk'.pc = "page"
        /\ walk'.months = walk.months \ {m}
    BY <1>0, <2>1 DEF Walk
  <2>4. \A e \in sought : e \in met' <=> MonthOf[rows[e].date] \notin walk.months \ {m}
    BY <1>1, <1>2, <2>1, <2>2
  <2>5. sought \cap twice' = {}
    BY <1>1, <1>2, <2>1, <2>2
  <2> QED
    BY <1>0, <2>1, <2>2, <2>3, <2>4, <2>5
    DEF IInv, TypeOK, SoughtIsThere, NothingBeforeStart, OnlyIndexReadsDates,
        IndexMetLater, DatesAreNext, CategoryMetLater, OlderMetLater, ArchiveMetOthers,
        EndMeetsAll, ShowsOnce
<1>3. ASSUME walk.months = {}, Show({}, {}, End)
      PROVE  IInv'
  <2>1. walk' = End /\ UNCHANGED <<rows, changes, sought, met, twice, skipped, Visible>>
    BY <1>3 DEF Show, Visible
  <2>2. walk' \in Walk /\ walk'.kind = "archive" /\ walk'.pc = "end"
    BY <1>0, <2>1 DEF End, Walk
  <2>3. sought \subseteq met
    BY <1>1, <1>3
  <2> QED
    BY <1>0, <2>1, <2>2, <2>3
    DEF IInv, TypeOK, SoughtIsThere, NothingBeforeStart, OnlyIndexReadsDates,
        IndexMetLater, DatesAreNext, CategoryMetLater, OlderMetLater, ArchiveMetOthers,
        EndMeetsAll, ShowsOnce
<1> QED
  BY <1>2, <1>3 DEF HandleDateArchive

-----------------------------------------------------------------------------
(* The author, and all steps.                                              *)

\* A change of an entry that is sought no longer, or is where it was
LEMMA ChangeKeeps ==
  ASSUME IInv, NEW e \in Entry, NEW row \in Row, NEW seeks \in SUBSET sought,
         row.created >= rows[e].created,
         e \in seeks => /\ row.visible
                        /\ row.date = rows[e].date /\ row.created = rows[e].created
                        /\ walk.kind = "category" => row.tagged,
         Change(e, row, seeks)
  PROVE  IInv'
<1>0. TypeOK /\ walk \in Walk /\ walk.pc # "start"
  BY DEF IInv, TypeOK, Change
<1>1. /\ rows' = [rows EXCEPT ![e] = row] /\ sought' = seeks /\ changes' = changes + 1
      /\ UNCHANGED <<walk, met, twice, skipped>>
  BY DEF Change
<1>2. TypeOK'
  BY <1>0, <1>1 DEF TypeOK
<1>3. /\ \A x \in Entry : rows'[x] = IF x = e THEN row ELSE rows[x]
      /\ \A x \in seeks : x \in Entry /\ x \in sought /\ x \in Visible
  BY <1>0, <1>1 DEF TypeOK, IInv, SoughtIsThere
<1>4. \A x \in seeks : /\ rows'[x].date = rows[x].date
                       /\ rows'[x].created = rows[x].created
                       /\ rows'[x].visible
                       /\ walk.kind = "category" => rows'[x].tagged
  BY <1>3 DEF Visible, IInv, SoughtIsThere
<1>5. SoughtIsThere'
  BY <1>1, <1>3, <1>4 DEF SoughtIsThere, Visible
<1>6. OlderMetLater'
  <2> SUFFICES ASSUME walk.kind = "older" /\ walk.pc = "page" PROVE OlderMetLater'
    BY <1>1 DEF OlderMetLater
  <2>1. PICK o \in Entry : /\ walk.next = {o}
                           /\ \A x \in sought \ (met \cup skipped) :
                                rows[x].created <= rows[o].created
    BY DEF IInv, OlderMetLater
  <2>2. rows'[o].created >= rows[o].created
    BY <1>0, <1>3, RowFacts
  <2>3. rows[o].created \in Nat /\ rows'[o].created \in Nat
    BY <1>0, <1>2, RowFacts, RowFacts, DayFacts DEF TypeOK, Row
  <2>4. \A x \in seeks : rows[x].created \in Nat
    BY <1>0, <1>3, RowFacts
  <2>5. \A x \in seeks \ (met \cup skipped) : rows'[x].created <= rows'[o].created
    BY <1>3, <1>4, <2>1, <2>2, <2>3, <2>4
  <2> QED
    BY <1>1, <2>1, <2>5 DEF OlderMetLater
<1>7. /\ IndexMetLater' /\ DatesAreNext' /\ CategoryMetLater' /\ ArchiveMetOthers'
  BY <1>1, <1>3, <1>4
  DEF IInv, IndexMetLater, DatesAreNext, CategoryMetLater, ArchiveMetOthers
<1>8. NothingBeforeStart' /\ OnlyIndexReadsDates' /\ EndMeetsAll' /\ ShowsOnce'
  BY <1>0, <1>1
  DEF IInv, NothingBeforeStart, OnlyIndexReadsDates, EndMeetsAll, ShowsOnce
<1> QED
  BY <1>2, <1>5, <1>6, <1>7, <1>8 DEF IInv

\* Publishing, withdrawing and retitling move nothing that is sought
LEMMA AuthorKeeps == IInv /\ Author => IInv'
<1> SUFFICES ASSUME IInv, NEW e \in Entry,
                    \/ \E date \in Day, created \in Instant, tagged \in BOOLEAN :
                         Publish(e, date, created, tagged)
                    \/ Withdraw(e) \/ Retitle(e)
             PROVE  IInv'
  BY DEF Author
<1>0. /\ rows[e] \in Row /\ rows[e].created \in Nat /\ rows[e].visible \in BOOLEAN
      /\ rows[e].tagged \in BOOLEAN
  BY RowFacts DEF IInv
<1>1. ASSUME NEW date \in Day, NEW created \in Instant, NEW tagged \in BOOLEAN,
             Publish(e, date, created, tagged)
      PROVE  IInv'
  <2> DEFINE row == [visible |-> TRUE, date |-> date, created |-> created, tagged |-> tagged]
  <2>1. created \in 0 .. MaxTime /\ created \in Nat
    BY DayFacts DEF Instant
  <2>2. row \in Row /\ row.created >= rows[e].created
    BY <1>0, <1>1, <2>1 DEF Row, Publish
  <2>3. e \notin sought
    BY <1>1 DEF Publish, IInv, SoughtIsThere, Visible
  <2>4. Change(e, row, sought)
    BY <1>1 DEF Publish
  <2> HIDE DEF row
  <2> QED
    BY <2>2, <2>3, <2>4, ChangeKeeps
<1>2. ASSUME Withdraw(e) PROVE IInv'
  <2> DEFINE row == [rows[e] EXCEPT !.visible = FALSE]
             seeks == sought \ {e}
  <2>1. row \in Row /\ row.created = rows[e].created
    BY <1>0 DEF Row
  <2>2. Change(e, row, seeks)
    BY <1>2 DEF Withdraw
  <2>3. seeks \in SUBSET sought /\ e \notin seeks
    OBVIOUS
  <2>4. row.created >= rows[e].created
    BY <1>0, <2>1
  <2> HIDE DEF row, seeks
  <2> QED
    BY <2>1, <2>2, <2>3, <2>4, ChangeKeeps
<1>3. ASSUME Retitle(e) PROVE IInv'
  <2> DEFINE row == [rows[e] EXCEPT !.tagged = ~@]
             seeks == IF walk.kind = "category" THEN sought \ {e} ELSE sought
  <2>1. /\ row \in Row /\ row.created = rows[e].created /\ row.date = rows[e].date
        /\ row.visible = rows[e].visible
    BY <1>0 DEF Row
  <2>2. Change(e, row, seeks) /\ rows[e].visible
    BY <1>3 DEF Retitle
  <2>3. seeks \in SUBSET sought /\ (walk.kind = "category" => e \notin seeks)
    OBVIOUS
  <2>4. row.created >= rows[e].created
    BY <1>0, <2>1
  <2> HIDE DEF row, seeks
  <2> QED
    BY <2>1, <2>2, <2>3, <2>4, ChangeKeeps
<1> QED
  BY <1>1, <1>2, <1>3

\* Every step keeps the invariant
LEMMA NextKeeps == IInv /\ [Next]_vars => IInv'
<1> SUFFICES ASSUME IInv, [Next]_vars PROVE IInv'
  OBVIOUS
<1>1. CASE UNCHANGED vars
  BY <1>1
  DEF vars, IInv, TypeOK, SoughtIsThere, NothingBeforeStart, OnlyIndexReadsDates,
      IndexMetLater, DatesAreNext, CategoryMetLater, OlderMetLater, ArchiveMetOthers,
      EndMeetsAll, ShowsOnce, Visible
<1>2. CASE Visit
  BY <1>2, ReadDatesKeeps, ReadEntriesKeeps, HandleCategoryKeeps, HandlePathKeeps,
     HandleDateArchiveKeeps DEF Visit
<1> QED
  BY <1>1, <1>2, BeginKeeps, AuthorKeeps DEF Next

\* What a walk has met so far is told by where it is (IInv), in every state
THEOREM InductiveInvariant == Spec => []IInv
  BY InitEstablishes, NextKeeps, PTL DEF Spec

\* The variables have their types, for any calendar and any sizes of pages
THEOREM TypeCorrect == Spec => []TypeOK
<1>1. IInv => TypeOK
  BY DEF IInv
<1> QED
  BY <1>1, InductiveInvariant, PTL

\* Whoever reaches the end of the index, of a category, of the older links or
\* of the archive was shown every entry that was there from the beginning and
\* has not changed, but for those as old to the instant as one shown by the
\* older links: pages of any number of days, any limit, any changes meanwhile
THEOREM WalkMeetsAll == Spec => []EndMeetsAll
<1>1. IInv => EndMeetsAll
  BY DEF IInv
<1> QED
  BY <1>1, InductiveInvariant, PTL

\* The index and the archive show an entry that keeps its date on one page only
THEOREM WalkShowsOnce == Spec => []ShowsOnce
<1>1. IInv => ShowsOnce
  BY DEF IInv
<1> QED
  BY <1>1, InductiveInvariant, PTL
=============================================================================
