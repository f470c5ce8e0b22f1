------------------------- MODULE EntryServiceProofs -------------------------
(* The inductive invariant of EntryService, and the theorems that follow.  *)
EXTENDS EntryService, TLAPS, WellFoundedInduction

-----------------------------------------------------------------------------
(* Numbers: what CalculateNextPath takes the greatest of.                  *)

\* Every set of naturals that has an element has a least one
LEMMA LeastNumber ==
  ASSUME NEW T, T \subseteq Nat, T # {}
  PROVE  \E m \in T : \A n \in T : m <= n
<1>1. PICK m \in T : \A n \in T : ~ (<<n, m>> \in OpToRel(<, Nat))
  BY NatLessThanWellFounded, WFMin
<1>2. \A n \in T : ~ (n < m)
  BY <1>1 DEF OpToRel
<1> QED
  BY <1>2

\* Finitely many naturals have an upper bound
LEMMA UpperBound ==
  ASSUME NEW N \in Nat, NEW f \in [1 .. N -> Nat]
  PROVE  \E b \in Nat : \A i \in 1 .. N : f[i] <= b
<1> DEFINE Unbounded == {k \in 0 .. N : \A b \in Nat : \E i \in 1 .. k : ~ (f[i] <= b)}
<1>1. Unbounded = {}
  <2>1. SUFFICES ASSUME Unbounded # {} PROVE FALSE
    OBVIOUS
  <2>2. PICK k \in Unbounded : \A n \in Unbounded : k <= n
    <3>1. Unbounded \subseteq Nat
      OBVIOUS
    <3> QED
      BY <2>1, <3>1, LeastNumber
  <2>3. k \in 1 .. N
    <3>1. \E i \in 1 .. k : ~ (f[i] <= 0)
      BY <2>2
    <3> QED
      BY <2>2, <3>1
  <2>4. k - 1 \in 0 .. N /\ k - 1 \notin Unbounded
    <3>1. k - 1 \in 0 .. N /\ ~ (k <= k - 1)
      BY <2>3
    <3> HIDE DEF Unbounded
    <3> QED
      BY <2>2, <3>1
  <2>5. PICK b \in Nat : \A i \in 1 .. k - 1 : f[i] <= b
    BY <2>4
  <2>6. f[k] \in Nat /\ b + f[k] \in Nat
    BY <2>3
  <2>7. \A i \in 1 .. k : f[i] <= b + f[k]
    <3>1. TAKE i \in 1 .. k
    <3>2. f[i] \in Nat
      BY <2>3
    <3> QED
      BY <2>3, <2>5, <2>6, <3>2
  <2> QED
    BY <2>2, <2>6, <2>7
<1>2. N \notin Unbounded
  BY <1>1
<1> QED
  BY <1>2

\* A set of naturals that is not empty and has an upper bound has a greatest
LEMMA GreatestNumber ==
  ASSUME NEW S, S \subseteq Nat, S # {}, NEW b \in Nat, \A n \in S : n <= b
  PROVE  \E m \in S : \A n \in S : n <= m
<1> DEFINE Bounds == {c \in Nat : \A n \in S : n <= c}
<1>1. PICK m \in Bounds : \A c \in Bounds : m <= c
  <2>1. Bounds \subseteq Nat /\ Bounds # {}
    OBVIOUS
  <2> QED
    BY <2>1, LeastNumber
<1>2. m \in S
  <2>1. SUFFICES ASSUME m \notin S PROVE FALSE
    OBVIOUS
  <2>2. \A n \in S : n <= m - 1
    BY <2>1, <1>1
  <2>3. m - 1 \in Bounds
    <3>1. PICK n \in S : TRUE
      OBVIOUS
    <3>2. n \in Nat /\ m \in Nat /\ n <= m - 1
      BY <2>2, <3>1
    <3>3. m - 1 \in Nat
      BY <3>2
    <3> QED
      BY <2>2, <3>3
  <2> QED
    BY <2>3, <1>1
<1> QED
  BY <1>2

-----------------------------------------------------------------------------
(* Numbering: the path that CalculateNextPath gives is nobody's.           *)

LEMMA RowFields ==
  ASSUME NEW row \in Row \cup {NoRow}
  PROVE  /\ row.status \in Status \cup {"none"}
         /\ row.date \in Nat
         /\ row.path \in Nat \X Nat
         /\ row.path = <<row.path[1], row.path[2]>>
         /\ row.path[1] \in Nat
         /\ row.path[2] \in Nat
         /\ row.publishAt \in Instant \cup {NoTime}
         /\ row \notin Row => row = NoRow
         /\ row.status = "none" => row = NoRow /\ ~HasPath(row)
BY DEF Row, NoRow, Status, Path, NoPath, HasPath

\* The numbers of the paths of a day have a greatest
LEMMA NumbersHaveGreatest ==
  ASSUME TypeOK, NEW d \in Nat,
         NEW numbers,
         numbers = {0} \cup {rows[e].path[2] : e \in {x \in Existing :
                     rows[x].date = d /\ HasPath(rows[x]) /\ rows[x].path[1] = d}}
  PROVE  /\ numbers \subseteq Nat
         /\ \E n \in numbers : \A m \in numbers : m <= n
<1> DEFINE number == [e \in 1 .. MaxEntry |-> rows[e].path[2]]
<1>1. \A e \in Entry : rows[e].path[2] \in Nat
  BY RowFields DEF TypeOK
<1>2. number \in [1 .. MaxEntry -> Nat] /\ MaxEntry \in Nat
  BY <1>1, BoundsAreNaturals DEF Entry
<1>3. PICK b \in Nat : \A e \in 1 .. MaxEntry : number[e] <= b
  <2> HIDE DEF number
  <2> QED
    BY <1>2, UpperBound
<1>4. \A e \in Entry : rows[e].path[2] <= b
  BY <1>3 DEF Entry
<1>5. numbers \subseteq Nat /\ numbers # {} /\ \A n \in numbers : n <= b
  BY <1>1, <1>4 DEF Existing
<1> QED
  BY <1>5, GreatestNumber

LEMMA NextPathIsFresh ==
  ASSUME TypeOK, PathsConsistent, NEW d \in Nat
  PROVE  /\ CalculateNextPath(d) \in Path
         /\ CalculateNextPath(d)[1] = d
         /\ CalculateNextPath(d)[2] > 0
         /\ \A e \in Entry : HasPath(rows[e]) => rows[e].path # CalculateNextPath(d)
<1> DEFINE numbers == {0} \cup {rows[e].path[2] : e \in {x \in Existing :
                        rows[x].date = d /\ HasPath(rows[x]) /\ rows[x].path[1] = d}}
           top == CHOOSE n \in numbers : \A m \in numbers : m <= n
<1>1. numbers \subseteq Nat /\ \E n \in numbers : \A m \in numbers : m <= n
  <2> HIDE DEF numbers
  <2>1. numbers = {0} \cup {rows[e].path[2] : e \in {x \in Existing :
                    rows[x].date = d /\ HasPath(rows[x]) /\ rows[x].path[1] = d}}
    BY DEF numbers
  <2> QED
    BY <2>1, NumbersHaveGreatest
<1>2. top \in numbers /\ \A m \in numbers : m <= top
  <2> HIDE DEF numbers
  <2> QED
    BY <1>1
<1>3. CalculateNextPath(d) = <<d, 1 + top>>
  BY DEF CalculateNextPath
<1>4. top \in Nat
  BY <1>1, <1>2
<1>5. ASSUME NEW e \in Entry, HasPath(rows[e]), rows[e].path = <<d, 1 + top>>
      PROVE  FALSE
  <2>1. rows[e].date = d /\ rows[e].path[1] = d /\ rows[e].path[2] = 1 + top
    BY <1>5 DEF PathsConsistent, Consistent
  <2>2. e \in Existing
    BY <1>5, RowFields DEF Existing, TypeOK
  <2>3. 1 + top \in numbers
    BY <1>5, <2>1, <2>2
  <2> HIDE DEF numbers, top
  <2> QED
    BY <1>2, <1>4, <2>3
<1> HIDE DEF numbers, top
<1> QED
  BY <1>3, <1>4, <1>5 DEF Path

-----------------------------------------------------------------------------
(* What the two transactions write.                                        *)

\* Before it is numbered, an edited entry has the path and the date that it
\* had, or no path; it gives up a path only when it was reserved
LEMMA DateAndPathFit ==
  ASSUME TypeOK, EditsValid, PathsConsistent,
         NEW s \in Saver, NEW e \in Entry, Target(saver[s], e)
  PROVE  LET dp == DateAndPath(saver[s], rows[e]) IN
           /\ dp.date \in Nat
           /\ dp.path \in Path
           /\ dp.path[2] > 0 => dp.path = rows[e].path /\ dp.path[1] = dp.date
           /\ HasPath(rows[e]) /\ dp.path # rows[e].path => rows[e].status = "reserved"
<1>1. rows[e] \in Row \cup {NoRow}
  BY DEF TypeOK
<1>2. /\ DayOf[saver[s].began] \in Nat
      /\ saver[s].publishAt # NoTime => DayOf[saver[s].publishAt] \in Nat
  BY DaysAreNumbers DEF TypeOK
<1>3. HasPath(rows[e]) => rows[e].path[1] = rows[e].date
  BY DEF PathsConsistent, Consistent
<1>4. saver[s].id = NewEntry => ~HasPath(rows[e])
  BY <1>1, RowFields DEF Target, Existing
<1>5. saver[s].status \in {"scheduled", "reserved"} => saver[s].publishAt # NoTime
  BY DEF EditsValid
<1>6. rows[e].date \in Nat /\ rows[e].path \in Path /\ rows[e].path[2] \in Nat
  BY <1>1, RowFields DEF Path
<1>7. CASE saver[s].id = NewEntry
  BY <1>2, <1>4, <1>7 DEF DateAndPath, NoPath, Path, HasPath
<1>8. CASE saver[s].id # NewEntry /\ rows[e].status = "reserved" /\ saver[s].status # "reserved"
  BY <1>2, <1>8 DEF DateAndPath, NoPath, Path, HasPath
<1>9. CASE saver[s].id # NewEntry /\ ~(rows[e].status = "reserved" /\ saver[s].status # "reserved")
  BY <1>2, <1>3, <1>6, <1>9 DEF DateAndPath, HasPath
<1> QED
  BY <1>7, <1>8, <1>9

Unused(path) == \A x \in Entry : HasPath(rows[x]) => rows[x].path # path

\* The row that an edit writes
LEMMA SavedFits ==
  ASSUME TypeOK, EditsValid, PathsConsistent,
         NEW s \in Saver, NEW e \in Entry, Target(saver[s], e)
  PROVE  LET row == Saved(saver[s], rows[e]) IN
           /\ row \in Row
           /\ Consistent(row)
           /\ row.status = saver[s].status
           /\ row.publishAt = saver[s].publishAt
           /\ HasPath(row) => row.path = rows[e].path \/ Unused(row.path)
           /\ HasPath(rows[e]) /\ row.path # rows[e].path => rows[e].status = "reserved"
<1> DEFINE dp == DateAndPath(saver[s], rows[e])
           row == Saved(saver[s], rows[e])
<1>1. /\ dp.date \in Nat
      /\ dp.path \in Path
      /\ dp.path[2] > 0 => dp.path = rows[e].path /\ dp.path[1] = dp.date
      /\ HasPath(rows[e]) /\ dp.path # rows[e].path => rows[e].status = "reserved"
  BY DateAndPathFit
<1>2. /\ row.status = saver[s].status
      /\ row.publishAt = saver[s].publishAt
      /\ row.date = dp.date
      /\ row.path = IF dp.path[2] = 0 /\ saver[s].status \in {"public", "scheduled"}
                    THEN CalculateNextPath(dp.date) ELSE dp.path
      /\ row = [status |-> row.status, date |-> row.date,
                publishAt |-> row.publishAt, path |-> row.path]
  BY DEF Saved
<1>3. /\ CalculateNextPath(dp.date) \in Path
      /\ CalculateNextPath(dp.date)[1] = dp.date
      /\ CalculateNextPath(dp.date)[2] > 0
      /\ Unused(CalculateNextPath(dp.date))
  BY <1>1, NextPathIsFresh DEF Unused
<1>4. saver[s].status \in Status /\ saver[s].publishAt \in Instant \cup {NoTime}
  BY DEF TypeOK
<1>5. dp.path[2] \in Nat /\ (dp.path[2] # 0 => dp.path[2] > 0)
  BY <1>1 DEF Path
<1> HIDE DEF dp, row
<1>6. row \in Row
  BY <1>1, <1>2, <1>3, <1>4 DEF Row
<1>7. CASE dp.path[2] = 0 /\ saver[s].status \in {"public", "scheduled"}
  <2>1. row.path = CalculateNextPath(dp.date)
    BY <1>2, <1>7
  <2>2. HasPath(rows[e]) => dp.path # rows[e].path
    BY <1>7 DEF HasPath
  <2>3. HasPath(row) /\ row.path[1] = row.date /\ Unused(row.path)
    BY <1>2, <1>3, <2>1 DEF HasPath
  <2>4. Consistent(row)
    BY <2>3 DEF Consistent
  <2> QED
    BY <1>1, <1>2, <1>6, <2>2, <2>3, <2>4 DEF row
<1>8. CASE ~(dp.path[2] = 0 /\ saver[s].status \in {"public", "scheduled"})
  <2>1. row.path = dp.path
    BY <1>2, <1>8
  <2>2. HasPath(row) => row.path = rows[e].path /\ row.path[1] = row.date
    BY <1>1, <1>2, <2>1 DEF HasPath
  <2>3. row.status \in {"public", "scheduled"} => HasPath(row)
    BY <1>2, <1>5, <1>8, <2>1 DEF HasPath
  <2>4. Consistent(row)
    BY <2>2, <2>3 DEF Consistent
  <2> QED
    BY <1>1, <1>2, <1>6, <2>1, <2>2, <2>4 DEF row
<1> QED
  BY <1>7, <1>8

\* The row that the publisher writes
Published(f) ==
  [status |-> "public", publishAt |-> rows[f.id].publishAt,
   date |-> IF f.row.status = "reserved" THEN PublishDay(f) ELSE f.row.date,
   path |-> IF f.row.status = "reserved" THEN CalculateNextPath(PublishDay(f))
            ELSE f.row.path]

LEMMA PublishedFits ==
  ASSUME TypeOK, FoundWell, PathsConsistent, NEW f \in publisher.todo
  PROVE  /\ f.id \in Entry
         /\ Published(f) \in Row
         /\ Consistent(Published(f))
         /\ Published(f).status = "public"
         /\ f.row.status = "reserved" => Unused(Published(f).path)
         /\ f.row.status = "scheduled" => Published(f).path = f.row.path
<1>1. f.id \in Entry /\ f.row \in Row /\ publisher.began \in Instant
  BY DEF TypeOK
<1>2. f.row.status \in {"scheduled", "reserved"} /\ Consistent(f.row)
  BY DEF FoundWell
<1>3. f.row.publishAt \in Instant \cup {NoTime} /\ f.row.date \in Nat /\ f.row.path \in Path
  BY <1>1 DEF Row
<1>4. PublishDay(f) \in Nat
  BY <1>1, <1>3, DaysAreNumbers DEF PublishDay
<1>5. /\ CalculateNextPath(PublishDay(f)) \in Path
      /\ CalculateNextPath(PublishDay(f))[1] = PublishDay(f)
      /\ CalculateNextPath(PublishDay(f))[2] > 0
      /\ Unused(CalculateNextPath(PublishDay(f)))
  BY <1>4, NextPathIsFresh DEF Unused
<1>6. rows[f.id].publishAt \in Instant \cup {NoTime}
  BY <1>1, RowFields DEF TypeOK
<1>7. CASE f.row.status = "reserved"
  <2>1. Published(f) = [status |-> "public", publishAt |-> rows[f.id].publishAt,
                        date |-> PublishDay(f), path |-> CalculateNextPath(PublishDay(f))]
    BY <1>7 DEF Published
  <2> QED
    BY <1>1, <1>4, <1>5, <1>6, <1>7, <2>1 DEF Row, Status, Consistent, HasPath
<1>8. CASE f.row.status = "scheduled"
  <2>1. Published(f) = [status |-> "public", publishAt |-> rows[f.id].publishAt,
                        date |-> f.row.date, path |-> f.row.path]
    BY <1>8 DEF Published
  <2> QED
    BY <1>1, <1>2, <1>3, <1>6, <1>8, <2>1 DEF Row, Status, Consistent, HasPath
<1> QED
  BY <1>2, <1>7, <1>8

\* A row whose path is kept, nobody's, or excused leaves the paths in order
LEMMA OneRowWritten ==
  ASSUME TypeOK, PathsConsistent, PathsUnique,
         NEW e \in Entry, NEW row \in Row, Consistent(row),
         rows' = [rows EXCEPT ![e] = row],
         reused \subseteq reused',
         HasPath(row) => row.path = rows[e].path \/ Unused(row.path) \/ e \in reused'
  PROVE  PathsConsistent' /\ PathsUnique'
<1>1. rows'[e] = row /\ \A x \in Entry : x # e => rows'[x] = rows[x]
  BY DEF TypeOK
<1>2. PathsConsistent'
  BY <1>1 DEF PathsConsistent, Consistent, HasPath
<1>3. ASSUME NEW x \in Entry, x # e, HasPath(row), row.path = rows[x].path
      PROVE  e \in reused' \/ x \in reused'
  <2>1. HasPath(rows[x])
    BY <1>3 DEF HasPath
  <2>2. CASE row.path = rows[e].path
    <3>1. HasPath(rows[e])
      BY <1>3, <2>2 DEF HasPath
    <3> QED
      BY <1>3, <2>2, <3>1 DEF PathsUnique
  <2>3. CASE Unused(row.path)
    BY <1>3, <2>1, <2>3 DEF Unused
  <2> QED
    BY <1>3, <2>2, <2>3
<1>4. ASSUME NEW x \in Entry, NEW y \in Entry, x # y,
             HasPath(rows'[x]), rows'[x].path = rows'[y].path
      PROVE  x \in reused' \/ y \in reused'
  <2>1. CASE x = e
    BY <1>1, <1>3, <1>4, <2>1
  <2>2. CASE y = e
    <3>1. HasPath(row)
      BY <1>1, <1>4, <2>2 DEF HasPath
    <3> QED
      BY <1>1, <1>3, <1>4, <2>2, <3>1
  <2>3. CASE x # e /\ y # e
    BY <1>1, <1>4, <2>3 DEF PathsUnique
  <2> QED
    BY <2>1, <2>2, <2>3
<1>5. PathsUnique'
  BY <1>4 DEF PathsUnique, HasPath
<1> QED
  BY <1>2, <1>5

-----------------------------------------------------------------------------
(* The steps preserve each part of the invariant.                          *)

RowsTyped ==
  /\ rows \in [Entry -> Row \cup {NoRow}]
  /\ \A e \in Entry : rows[e].status \in {"scheduled", "reserved"} => rows[e].publishAt # NoTime

Edit == [pc: {"free", "formatting", "saved"}, id: Entry \cup {NewEntry},
         status: Status, publishAt: Instant \cup {NoTime}, began: Instant]
Publication == [todo: SUBSET [id: Entry, row: Row], sent: SUBSET Entry, began: Instant]

LEMMA AtRestTyped == Free \in Edit /\ Resting \in Publication
BY BoundsAreNaturals DEF Free, Resting, Edit, Publication, Instant, Status

LEMMA TypeStep ==
  ASSUME TypeOK, FoundWell, EditsValid, PathsConsistent, [Next]_vars
  PROVE  TypeOK'
<1> USE DEF TypeOK
<1>1. CASE FindScheduledEntriesToPublish
  <2>1. \A e \in Entry : IsDue(rows[e]) => rows[e] \in Row
    BY DEF IsDue, NoRow
  <2> QED
    BY <1>1, <2>1 DEF FindScheduledEntriesToPublish
<1>2. ASSUME NEW f \in publisher.todo, PublishEntry(f) PROVE TypeOK'
  <2>1. f.id \in Entry /\ Published(f) \in Row /\ Published(f).status = "public"
    BY PublishedFits
  <2>2. rows' = [rows EXCEPT ![f.id] = Published(f)]
    BY <1>2 DEF PublishEntry, Published
  <2>3. RowsTyped'
    BY <2>1, <2>2 DEF RowsTyped
  <2>4. /\ announced' = [announced EXCEPT ![f.id] = FALSE]
        /\ publisher' = [publisher EXCEPT !.todo = @ \ {f}, !.sent = {f.id}]
        /\ reused' \in {reused, reused \cup {f.id}}
        /\ UNCHANGED <<now, saver, saves, faults, lost>>
    BY <1>2 DEF PublishEntry
  <2> QED
    BY <2>1, <2>3, <2>4 DEF RowsTyped
<1>3. ASSUME NEW e \in publisher.sent, EnqueuePublished(e) PROVE TypeOK'
  <2>1. publisher' \in Publication
    BY <1>3, AtRestTyped DEF EnqueuePublished, Proceed, Publication
  <2> QED
    BY <1>3, <2>1 DEF EnqueuePublished, Publication
<1>4. ASSUME NEW s \in Saver, NEW id \in Entry \cup {NewEntry}, NEW status \in Status,
             NEW publishAt \in Instant \cup {NoTime}, Submit(s, id, status, publishAt)
      PROVE  TypeOK'
  <2>1. saves' \in 0 .. MaxSaves
    BY <1>4, BoundsAreNaturals DEF Submit
  <2> QED
    BY <1>4, <2>1 DEF Submit
<1>5. ASSUME NEW s \in Saver, NEW e \in Entry, Commit(s, e) PROVE TypeOK'
  <2> DEFINE row == Saved(saver[s], rows[e])
  <2>1. row \in Row /\ row.status = saver[s].status /\ row.publishAt = saver[s].publishAt
    BY <1>5, SavedFits DEF Commit
  <2>2. row.status \in {"scheduled", "reserved"} => row.publishAt # NoTime
    BY <2>1 DEF EditsValid
  <2>3. rows' = [rows EXCEPT ![e] = row]
    BY <1>5 DEF Commit
  <2>4. RowsTyped'
    <3> HIDE DEF row
    <3> QED
      BY <2>1, <2>2, <2>3 DEF RowsTyped
  <2>5. saver' \in [Saver -> Edit] /\ announced' \in [Entry -> BOOLEAN]
    <3>1. CASE saver[s].status = "public"
      <4>1. saver' = [saver EXCEPT ![s] = [@ EXCEPT !.pc = "saved", !.id = e]]
        BY <1>5, <3>1 DEF Commit
      <4>2. [saver[s] EXCEPT !.pc = "saved", !.id = e] \in Edit
        BY DEF Edit
      <4>3. saver' \in [Saver -> Edit]
        BY <4>1, <4>2 DEF Edit
      <4> QED
        BY <1>5, <3>1, <4>3 DEF Commit
    <3>2. CASE saver[s].status # "public"
      BY <1>5, <3>2, AtRestTyped DEF Commit, Edit
    <3> QED
      BY <3>1, <3>2
  <2>6. UNCHANGED <<now, publisher, saves, faults, lost, reused>>
    BY <1>5 DEF Commit
  <2> QED
    BY <2>4, <2>5, <2>6 DEF RowsTyped, Edit
<1>6. ASSUME NEW s \in Saver, SaveFails(s) \/ Enqueue(s) \/ EnqueueFails(s) PROVE TypeOK'
  <2>1. saver' \in [Saver -> Edit]
    BY <1>6, AtRestTyped DEF SaveFails, Enqueue, EnqueueFails, Edit
  <2>2. saver[s].pc = "saved" => saver[s].id \in Entry
    BY DEF EditsValid
  <2>3. faults < MaxFaults => faults + 1 \in 0 .. MaxFaults
    BY BoundsAreNaturals
  <2>4. CASE SaveFails(s)
    BY <2>1, <2>4 DEF SaveFails, Edit
  <2>5. CASE Enqueue(s)
    BY <2>1, <2>2, <2>5 DEF Enqueue, Edit
  <2>6. CASE EnqueueFails(s)
    BY <2>1, <2>2, <2>3, <2>6 DEF EnqueueFails, Edit
  <2> QED
    BY <1>6, <2>4, <2>5, <2>6
<1>7. ASSUME NEW f \in publisher.todo, PublishFails(f) PROVE TypeOK'
  <2>1. faults' \in 0 .. MaxFaults
    BY <1>7, BoundsAreNaturals DEF PublishFails
  <2>2. publisher' \in Publication
    BY <1>7, AtRestTyped DEF PublishFails, Publication
  <2> QED
    BY <1>7, <2>1, <2>2 DEF PublishFails, Publication
<1>8. ASSUME NEW e \in publisher.sent, EnqueuePublishedFails(e) PROVE TypeOK'
  <2>1. faults' \in 0 .. MaxFaults
    BY <1>8, BoundsAreNaturals DEF EnqueuePublishedFails
  <2>2. publisher' \in Publication
    BY <1>8, AtRestTyped DEF EnqueuePublishedFails, Proceed, Publication
  <2> QED
    BY <1>8, <2>1, <2>2 DEF EnqueuePublishedFails, Publication
<1>9. CASE Tick
  BY <1>9, BoundsAreNaturals DEF Tick, Instant
<1>10. CASE Crash
  <2>1. faults' \in 0 .. MaxFaults
    BY <1>10, BoundsAreNaturals DEF Crash
  <2>2. saver' \in [Saver -> Edit] /\ publisher' \in Publication
    BY <1>10, AtRestTyped DEF Crash
  <2>3. lost' \subseteq Entry
    BY <1>10 DEF Crash, EditsValid
  <2> QED
    BY <1>10, <2>1, <2>2, <2>3 DEF Crash, Edit, Publication
<1>11. CASE UNCHANGED vars
  BY <1>11 DEF vars
<1> QED
  BY <1>1, <1>2, <1>3, <1>4, <1>5, <1>6, <1>7, <1>8, <1>9, <1>10, <1>11
  DEF Next, PublisherStep

\* What the publisher holds was in the table when it was found
LEMMA FoundStep ==
  ASSUME TypeOK, FoundWell, PathsConsistent, [Next]_vars
  PROVE  FoundWell'
<1>1. CASE FindScheduledEntriesToPublish
  BY <1>1 DEF FindScheduledEntriesToPublish, FoundWell, PathsConsistent, IsDue, Consistent, HasPath
<1>2. CASE publisher' = Resting
  BY <1>2 DEF FoundWell, Resting
<1>3. CASE publisher'.todo \subseteq publisher.todo
             /\ \E e \in Entry : publisher'.sent \in {publisher.sent, {}, {e}}
  <2>1. \A e, f \in publisher'.sent : e = f
    BY <1>3 DEF FoundWell
  <2>2. \A f \in publisher'.todo :
          f.row.status \in {"scheduled", "reserved"} /\ Consistent(f.row)
    BY <1>3 DEF FoundWell
  <2> QED
    BY <2>1, <2>2 DEF FoundWell, Consistent, HasPath
<1>4. ASSUME NEW f \in publisher.todo, PublishEntry(f) \/ PublishFails(f) PROVE FoundWell'
  <2>1. f.id \in Entry
    BY DEF TypeOK
  <2>2. \/ publisher' = Resting
        \/ publisher' = [publisher EXCEPT !.todo = @ \ {f}]
        \/ publisher' = [publisher EXCEPT !.todo = @ \ {f}, !.sent = {f.id}]
    BY <1>4 DEF PublishEntry, PublishFails
  <2>3. \/ publisher' = Resting
        \/ /\ publisher'.todo = publisher.todo \ {f}
           /\ publisher'.sent \in {publisher.sent, {f.id}}
    BY <2>2 DEF TypeOK
  <2> QED
    BY <1>2, <1>3, <2>1, <2>3
<1>5. ASSUME NEW e \in publisher.sent, EnqueuePublished(e) \/ EnqueuePublishedFails(e)
      PROVE  FoundWell'
  <2>1. e \in Entry
    BY DEF TypeOK
  <2>2. publisher' = Resting \/ (publisher'.todo = publisher.todo /\ publisher'.sent = {})
    BY <1>5 DEF EnqueuePublished, EnqueuePublishedFails, Proceed, TypeOK
  <2> QED
    BY <1>2, <1>3, <2>1, <2>2
<1>6. CASE UNCHANGED publisher
  BY <1>6 DEF FoundWell, Consistent, HasPath
<1>7. CASE Crash
  BY <1>2, <1>7 DEF Crash
<1> QED
  BY <1>1, <1>4, <1>5, <1>6, <1>7
  DEF Next, PublisherStep, Submit, Commit, SaveFails, Enqueue, EnqueueFails, Tick, vars

\* Edits under way stay valid: only Submit and Commit change one that goes on
LEMMA EditsStep ==
  ASSUME TypeOK, EditsValid, [Next]_vars
  PROVE  EditsValid'
<1>1. Free.status = "draft" /\ Free.pc = "free"
  BY DEF Free
<1>2. ASSUME NEW s \in Saver, NEW id \in Entry \cup {NewEntry}, NEW status \in Status,
             NEW publishAt \in Instant \cup {NoTime}, Submit(s, id, status, publishAt)
      PROVE  EditsValid'
  <2>1. status \in {"scheduled", "reserved"} => publishAt # NoTime
    <3>1. now \in Nat /\ (status \in {"scheduled", "reserved"} => publishAt > now)
      BY <1>2 DEF Submit, TypeOK, Instant
    <3> QED
      BY <3>1 DEF NoTime
  <2> QED
    BY <1>2, <2>1 DEF Submit, EditsValid, TypeOK
<1>3. ASSUME NEW s \in Saver, NEW e \in Entry, Commit(s, e) PROVE EditsValid'
  <2>1. e # NewEntry
    BY DEF Entry, NewEntry
  <2>2. \/ saver' = [saver EXCEPT ![s] = [@ EXCEPT !.pc = "saved", !.id = e]]
        \/ saver' = [saver EXCEPT ![s] = Free]
    <3>1. CASE saver[s].status = "public"
      BY <1>3, <3>1 DEF Commit
    <3>2. CASE saver[s].status # "public"
      BY <1>3, <3>2 DEF Commit
    <3> QED
      BY <3>1, <3>2
  <2>3. \A x \in Saver \ {s} : saver'[x] = saver[x]
    BY <2>2 DEF TypeOK
  <2>4. \/ saver'[s] = Free
        \/ /\ saver'[s].status = saver[s].status
           /\ saver'[s].publishAt = saver[s].publishAt
           /\ saver'[s].id = e
    <3>1. saver \in [Saver -> Edit]
      BY DEF TypeOK, Edit
    <3>2. CASE saver' = [saver EXCEPT ![s] = Free]
      BY <3>1, <3>2
    <3>3. CASE saver' = [saver EXCEPT ![s] = [@ EXCEPT !.pc = "saved", !.id = e]]
      <4>1. saver'[s] = [saver[s] EXCEPT !.pc = "saved", !.id = e]
        BY <3>1, <3>3
      <4>2. saver[s] \in Edit
        BY <3>1
      <4> QED
        BY <4>1, <4>2 DEF Edit
    <3> QED
      BY <2>2, <3>2, <3>3
  <2> QED
    BY <1>1, <2>1, <2>3, <2>4 DEF EditsValid
<1>4. ASSUME NEW s \in Saver, SaveFails(s) \/ Enqueue(s) \/ EnqueueFails(s) PROVE EditsValid'
  BY <1>1, <1>4 DEF SaveFails, Enqueue, EnqueueFails, EditsValid, TypeOK
<1>5. CASE Crash
  BY <1>1, <1>5 DEF Crash, EditsValid
<1>6. CASE UNCHANGED saver
  BY <1>6 DEF EditsValid
<1> QED
  BY <1>2, <1>3, <1>4, <1>5, <1>6
  DEF Next, PublisherStep, FindScheduledEntriesToPublish, PublishEntry, EnqueuePublished,
      PublishFails, EnqueuePublishedFails, Tick, vars

\* Only Commit and PublishEntry write rows, and both write one that fits
LEMMA PathsStep ==
  ASSUME TypeOK, FoundWell, EditsValid, PathsConsistent, PathsUnique, [Next]_vars
  PROVE  PathsConsistent' /\ PathsUnique'
<1>1. ASSUME NEW s \in Saver, NEW e \in Entry, Commit(s, e)
      PROVE  PathsConsistent' /\ PathsUnique'
  <2> DEFINE row == Saved(saver[s], rows[e])
  <2>1. /\ row \in Row /\ Consistent(row)
        /\ HasPath(row) => row.path = rows[e].path \/ Unused(row.path)
    BY <1>1, SavedFits DEF Commit
  <2>2. rows' = [rows EXCEPT ![e] = row] /\ reused' = reused
    BY <1>1 DEF Commit
  <2> HIDE DEF row
  <2> QED
    BY <2>1, <2>2, OneRowWritten
<1>2. ASSUME NEW f \in publisher.todo, PublishEntry(f)
      PROVE  PathsConsistent' /\ PathsUnique'
  <2>1. /\ f.id \in Entry
        /\ Published(f) \in Row /\ Consistent(Published(f))
        /\ f.row.status = "reserved" => Unused(Published(f).path)
        /\ f.row.status = "scheduled" => Published(f).path = f.row.path
    BY PublishedFits
  <2>2. rows' = [rows EXCEPT ![f.id] = Published(f)]
    BY <1>2 DEF PublishEntry, Published
  <2>3. /\ reused \subseteq reused'
        /\ f.row.status = "scheduled" /\ rows[f.id].path # f.row.path => f.id \in reused'
    BY <1>2 DEF PublishEntry
  <2>4. f.row.status \in {"scheduled", "reserved"}
    BY DEF FoundWell
  <2> QED
    BY <2>1, <2>2, <2>3, <2>4, OneRowWritten
<1>3. CASE UNCHANGED <<rows, reused>>
  BY <1>3 DEF PathsConsistent, PathsUnique, Consistent, HasPath
<1> QED
  BY <1>1, <1>2, <1>3
  DEF Next, PublisherStep, FindScheduledEntriesToPublish, EnqueuePublished, Submit, SaveFails,
      Enqueue, EnqueueFails, PublishFails, EnqueuePublishedFails, Tick, Crash, vars

\* A public entry is announced, about to be, or was lost: every step that makes
\* one public leaves somebody who will enqueue its jobs
LEMMA AnnouncedStep ==
  ASSUME TypeOK, FoundWell, EditsValid, PathsConsistent, PublicIsAnnounced, [Next]_vars
  PROVE  PublicIsAnnounced'
<1> DEFINE Saving(e) == \E s \in Saver : saver[s].pc = "saved" /\ saver[s].id = e
           Safe(e) == rows[e].status = "public" /\ ~announced[e] =>
                        e \in lost \/ e \in publisher.sent \/ Saving(e)
<1>1. \A e \in Entry : Safe(e)
  BY DEF PublicIsAnnounced
<1>2. SUFFICES \A e \in Entry : Safe(e)'
  BY DEF PublicIsAnnounced
<1>3. CASE FindScheduledEntriesToPublish
  BY <1>1, <1>3 DEF FindScheduledEntriesToPublish, Resting
<1>4. ASSUME NEW f \in publisher.todo, PublishEntry(f) PROVE \A e \in Entry : Safe(e)'
  <2>1. /\ publisher.sent = {}
        /\ publisher'.sent = {f.id}
        /\ UNCHANGED <<saver, lost>>
    BY <1>4 DEF PublishEntry, IsNext, TypeOK
  <2>2. \A e \in Entry : e # f.id => rows'[e] = rows[e] /\ announced'[e] = announced[e]
    BY <1>4 DEF PublishEntry, TypeOK
  <2> QED
    BY <1>1, <2>1, <2>2
<1>5. ASSUME NEW x \in publisher.sent, EnqueuePublished(x) PROVE \A e \in Entry : Safe(e)'
  <2>1. announced' = [announced EXCEPT ![x] = TRUE] /\ lost' = lost \ {x}
        /\ UNCHANGED <<rows, saver>>
    BY <1>5 DEF EnqueuePublished
  <2>2. x \in Entry /\ announced'[x] /\ \A e \in Entry : e # x => announced'[e] = announced[e]
    BY <2>1 DEF TypeOK
  <2>3. publisher.sent = {x}
    BY DEF FoundWell
  <2> QED
    BY <1>1, <2>1, <2>2, <2>3
<1>6. ASSUME NEW x \in publisher.sent, EnqueuePublishedFails(x) PROVE \A e \in Entry : Safe(e)'
  <2>1. publisher.sent = {x}
    BY DEF FoundWell
  <2> QED
    BY <1>1, <1>6, <2>1 DEF EnqueuePublishedFails
<1>7. ASSUME NEW f \in publisher.todo, PublishFails(f) PROVE \A e \in Entry : Safe(e)'
  BY <1>1, <1>7 DEF PublishFails, IsNext
<1>8. ASSUME NEW s \in Saver, NEW id \in Entry \cup {NewEntry}, NEW status \in Status,
             NEW publishAt \in Instant \cup {NoTime}, Submit(s, id, status, publishAt)
      PROVE  \A e \in Entry : Safe(e)'
  <2>1. \A e \in Entry : Saving(e) => Saving(e)'
    BY <1>8 DEF Submit, TypeOK
  <2> QED
    BY <1>1, <1>8, <2>1 DEF Submit
<1>9. ASSUME NEW s \in Saver, NEW x \in Entry, Commit(s, x) PROVE \A e \in Entry : Safe(e)'
  <2>1. /\ saver[s].pc = "formatting"
        /\ Target(saver[s], x)
        /\ rows' = [rows EXCEPT ![x] = Saved(saver[s], rows[x])]
        /\ UNCHANGED <<publisher, lost>>
    BY <1>9 DEF Commit
  <2>2. \A e \in Entry : e # x => rows'[e] = rows[e] /\ announced'[e] = announced[e]
    BY <1>9 DEF Commit, TypeOK
  <2>3. \A t \in Saver : t # s => saver'[t] = saver[t]
    BY <1>9 DEF Commit, TypeOK
  <2>4. \A e \in Entry : Saving(e) => Saving(e)'
    BY <2>1, <2>3
  <2>5. rows'[x].status = saver[s].status
    BY <2>1, SavedFits DEF TypeOK
  <2>6. saver[s].status = "public" => Saving(x)'
    BY <1>9 DEF Commit, TypeOK
  <2> QED
    BY <1>1, <2>1, <2>2, <2>4, <2>5, <2>6
<1>10. ASSUME NEW s \in Saver, SaveFails(s) PROVE \A e \in Entry : Safe(e)'
  <2>1. \A e \in Entry : Saving(e) => Saving(e)'
    BY <1>10 DEF SaveFails, TypeOK
  <2> QED
    BY <1>1, <1>10, <2>1 DEF SaveFails
<1>11. ASSUME NEW s \in Saver, Enqueue(s) PROVE \A e \in Entry : Safe(e)'
  <2> DEFINE x == saver[s].id
  <2>1. /\ saver[s].pc = "saved" /\ x \in Entry
        /\ announced' = [announced EXCEPT ![x] = TRUE] /\ lost' = lost \ {x}
        /\ UNCHANGED <<rows, publisher>>
    BY <1>11 DEF Enqueue, EditsValid, TypeOK
  <2>2. \A t \in Saver : t # s => saver'[t] = saver[t]
    BY <1>11 DEF Enqueue, TypeOK
  <2>3. \A e \in Entry : e # x /\ Saving(e) => Saving(e)'
    BY <2>2
  <2>4. announced'[x] /\ \A e \in Entry : e # x => announced'[e] = announced[e]
    BY <2>1 DEF TypeOK
  <2> HIDE DEF x
  <2> QED
    BY <1>1, <2>1, <2>3, <2>4
<1>12. ASSUME NEW s \in Saver, EnqueueFails(s) PROVE \A e \in Entry : Safe(e)'
  <2> DEFINE x == saver[s].id
  <2>1. lost' = lost \cup {x} /\ UNCHANGED <<rows, publisher, announced>>
    BY <1>12 DEF EnqueueFails
  <2>2. \A t \in Saver : t # s => saver'[t] = saver[t]
    BY <1>12 DEF EnqueueFails, TypeOK
  <2>3. \A e \in Entry : e # x /\ Saving(e) => Saving(e)'
    BY <2>2
  <2> HIDE DEF x
  <2> QED
    BY <1>1, <2>1, <2>3
<1>13. CASE Tick
  BY <1>1, <1>13 DEF Tick
<1>14. CASE Crash
  <2>1. /\ lost' = lost \cup publisher.sent
                     \cup {saver[s].id : s \in {x \in Saver : saver[x].pc = "saved"}}
        /\ UNCHANGED <<rows, announced>>
    BY <1>14 DEF Crash
  <2> QED
    BY <1>1, <2>1
<1>15. CASE UNCHANGED vars
  BY <1>1, <1>15 DEF vars
<1> QED
  BY <1>3, <1>4, <1>5, <1>6, <1>7, <1>8, <1>9, <1>10, <1>11, <1>12, <1>13, <1>14, <1>15
  DEF Next, PublisherStep

-----------------------------------------------------------------------------
(* The theorems.                                                           *)

\* The inductive invariant, for every number of entries, goroutines, instants
\* and faults
THEOREM InductiveInvariant == Spec => []IInv
<1>1. Init => IInv
  <2> SUFFICES ASSUME Init PROVE IInv
    OBVIOUS
  <2>1. TypeOK
    BY AtRestTyped, BoundsAreNaturals DEF Init, TypeOK, NoRow, Edit, Publication, Instant
  <2>2. FoundWell /\ EditsValid
    BY DEF Init, FoundWell, EditsValid, Resting, Free
  <2>3. PathsConsistent /\ PathsUnique /\ PublicIsAnnounced
    BY DEF Init, PathsConsistent, PathsUnique, PublicIsAnnounced, NoRow, NoPath, HasPath, Consistent
  <2> QED
    BY <2>1, <2>2, <2>3 DEF IInv
<1>2. IInv /\ [Next]_vars => IInv'
  BY TypeStep, FoundStep, EditsStep, PathsStep, AnnouncedStep DEF IInv
<1> QED
  BY <1>1, <1>2, PTL DEF Spec

\* Type correctness; in particular, whoever waits to be published says when
THEOREM TypeCorrect == Spec => []TypeOK
BY InductiveInvariant, PTL DEF IInv

\* A path begins with the date of its entry, and public and scheduled entries
\* have one
THEOREM PathsAreConsistent == Spec => []PathsConsistent
BY InductiveInvariant, PTL DEF IInv

\* No path is given twice, but for scheduled entries that were published with
\* a path that an edit had changed in between
THEOREM PathsAreUnique == Spec => []PathsUnique
BY InductiveInvariant, PTL DEF IInv

\* No public entry misses its jobs unless a fault has lost them
THEOREM PublicEntriesAreAnnounced == Spec => []PublicIsAnnounced
BY InductiveInvariant, PTL DEF IInv

\* An entry leaves its path only when it is, or was found, reserved
THEOREM UrlsAreStable == Spec => UrlStable
<1>1. ASSUME IInv, [Next]_vars, NEW e \in Entry,
             HasPath(rows[e]), rows'[e].path # rows[e].path
      PROVE  rows[e].status = "reserved" \/ Overtaken(e)
  <2> USE DEF IInv
  <2>1. ASSUME NEW s \in Saver, NEW x \in Entry, Commit(s, x)
        PROVE  rows[e].status = "reserved"
    <3>1. Target(saver[s], x) /\ rows' = [rows EXCEPT ![x] = Saved(saver[s], rows[x])]
      BY <2>1 DEF Commit
    <3>2. x = e /\ rows'[e] = Saved(saver[s], rows[e])
      BY <1>1, <3>1 DEF TypeOK
    <3> QED
      BY <1>1, <3>1, <3>2, SavedFits
  <2>2. ASSUME NEW f \in publisher.todo, PublishEntry(f)
        PROVE  rows[e].status = "reserved" \/ Overtaken(e)
    <3>1. rows' = [rows EXCEPT ![f.id] = Published(f)]
      BY <2>2 DEF PublishEntry, Published
    <3>2. f.id = e /\ rows'[e] = Published(f)
      BY <1>1, <3>1 DEF TypeOK
    <3>3. f.row.status = "reserved" \/ f.row.path # rows[e].path
      BY <1>1, <3>2, PublishedFits DEF FoundWell
    <3> QED
      BY <3>2, <3>3 DEF Overtaken
  <2>3. CASE UNCHANGED rows
    BY <1>1, <2>3
  <2> QED
    BY <1>1, <2>1, <2>2, <2>3
    DEF Next, PublisherStep, FindScheduledEntriesToPublish, EnqueuePublished, Submit, SaveFails,
        Enqueue, EnqueueFails, PublishFails, EnqueuePublishedFails, Tick, Crash, vars
<1>2. IInv /\ [Next]_vars
        => [\A e \in Entry :
              HasPath(rows[e]) /\ rows'[e].path # rows[e].path
                => rows[e].status = "reserved" \/ Overtaken(e)]_vars
  BY <1>1
<1> QED
  BY <1>2, InductiveInvariant, PTL DEF Spec, UrlStable
=============================================================================
