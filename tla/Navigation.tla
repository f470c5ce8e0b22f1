----------------------------- MODULE Navigation -----------------------------
(***************************************************************************)
(* How a visitor reaches the entries of the public site: the index with    *)
(* its older pages (HandleIndex), a category with its older pages          *)
(* (HandleCategory), the older link of an entry's own page (HandlePath)    *)
(* and the months of the archive (HandleArchive, HandleDateArchive), of    *)
(* backend/app/handler_public.go, while entries are published, withdrawn   *)
(* and given another title.                                                *)
(*                                                                         *)
(* A visitor follows one kind of link to its end.  Every page is read from *)
(* the table; the page cache is PageCache's.  Days and instants are        *)
(* numbers; one category stands for all, an entry is tagged with it or not.*)
(***************************************************************************)
EXTENDS Naturals, FiniteSets, FiniteSetsExt

CONSTANTS
  Entry,      \* the entries
  MaxDay,     \* the latest date an entry has
  Today,      \* the present day
  MaxTime,    \* bound: instants of created_at
  MonthOf,    \* MonthOf[d]: the month of the day d
  MaxDays,    \* maxDays, minDays and threshold of HandleIndex
  MinDays,
  Threshold,
  Limit,      \* limit of HandleCategory
  MaxChanges  \* bound: how often an entry changes during the walk

Day == 1 .. MaxDay
Instant == 1 .. MaxTime
Month == {MonthOf[d] : d \in Day}
Kind == {"index", "category", "older", "archive"}

ASSUME EntriesAreFinite == IsFiniteSet(Entry)
ASSUME DaysAreNumbers == MaxDay \in Nat /\ Today \in Day /\ MaxTime \in Nat
ASSUME PagesHoldSomething ==
  /\ MaxDays \in Nat /\ MinDays \in Nat \ {0} /\ MinDays <= MaxDays
  /\ Threshold \in Nat /\ Limit \in Nat \ {0} /\ MaxChanges \in Nat
ASSUME MonthsOfDays == DOMAIN MonthOf = Day

VARIABLES
  rows,    \* the entries table: what the public queries look at
  walk,    \* where the visitor is
  changes, \* how often an entry has changed
  sought,  \* history: what the walk was to show, and has not changed since
  met,     \* history: the entries the visitor was shown
  twice,   \* history: the entries shown on two pages
  skipped  \* history: entries as old, to the instant, as one whose page was shown

vars == <<rows, walk, changes, sought, met, twice, skipped>>

Row == [visible: BOOLEAN, date: Day, created: 0 .. MaxTime, tagged: BOOLEAN]

\* at: the date that bounds the next page; next: the entry whose page is
\* next; dates: what ListUniqueDates answered; months: archive links to follow
Walk == [kind: Kind, pc: {"start", "page", "dates", "end", "gone"}, at: Day,
         next: SUBSET Entry, dates: SUBSET Day, months: SUBSET Month]

-----------------------------------------------------------------------------
(* The queries, all of them over what is public and past its publish_at.   *)

Visible == {e \in Entry : rows[e].visible}

\* The n greatest members: ORDER BY ... DESC LIMIT n
Top(S, n) == {d \in S : Cardinality({x \in S : x > d}) < n}

DatesOf(S) == {rows[e].date : e \in S}

ListUniqueDates(target, n) == Top({d \in DatesOf(Visible) : d <= target}, n)

ListEntriesByDates(dates) == {e \in Visible : rows[e].date \in dates}

ListArchiveMonths == {MonthOf[d] : d \in DatesOf(Visible)}

ListEntriesByYearMonthDay(m) == {e \in Visible : MonthOf[rows[e].date] = m}

InCategory(target) == {e \in Visible : rows[e].tagged /\ rows[e].date <= target}

\* ORDER BY date DESC, created_at ASC; the order of equals is SQLite's
Precedes(a, b) ==
  \/ rows[a].date > rows[b].date
  \/ rows[a].date = rows[b].date /\ rows[a].created < rows[b].created

\* The first n of S, where equals may come in either order
Firsts(S, n) ==
  {P \in SUBSET S : /\ Cardinality(P) <= n
                    /\ P = S \/ Cardinality(P) = n
                    /\ \A a \in P, b \in S \ P : ~Precedes(b, a)}

Older(e) == {x \in Visible : rows[x].created < rows[e].created}

\* The entries GetOlderEntry may answer: of equal created_at any
GetOlderEntry(e) ==
  {x \in Older(e) : \A y \in Older(e) : rows[y].created <= rows[x].created}

\* The most days whose entries do not exceed the threshold, yet minDays of
\* them, if there are so many
DisplayDays(dates, entries) ==
  LET most == IF Cardinality(dates) <= MaxDays THEN Cardinality(dates) ELSE MaxDays
      total(d) == Cardinality({e \in entries : rows[e].date \in Top(dates, d)})
  IN  IF most <= MinDays THEN most
      ELSE Max({MinDays} \cup {d \in MinDays + 1 .. most : total(d) <= Threshold})

-----------------------------------------------------------------------------
(* The visitor.                                                            *)

Start(kind, at, next, months, seeks) ==
  /\ walk.pc = "start"
  /\ walk' = [kind |-> kind, pc |-> "page", at |-> at, next |-> next,
              dates |-> {}, months |-> months]
  /\ sought' = seeks
  /\ UNCHANGED <<rows, changes, met, twice, skipped>>

StartIndex == Start("index", MaxDay, {}, {}, Visible)      \* targetDate "9999-99-99"
StartCategory == Start("category", Today, {}, {}, InCategory(Today))
StartEntry(e) ==
  e \in Visible /\ Start("older", MaxDay, {e}, {}, {e} \cup Older(e))
HandleArchive == Start("archive", MaxDay, {}, ListArchiveMonths, Visible)

\* The page shows the entries of S and passes over those of T; the visitor
\* goes on as rest says
Show(S, T, rest) ==
  /\ met' = met \cup S
  /\ twice' = twice \cup (met \cap S)
  /\ skipped' = skipped \cup T
  /\ walk' = rest
  /\ UNCHANGED <<rows, changes, sought>>

AtPage(kind) == walk.kind = kind /\ walk.pc = "page"
End == [walk EXCEPT !.pc = "end"]

\* HandleIndex asks for one date more than it shows, to know of an older page
ReadDates ==
  /\ AtPage("index")
  /\ walk' = [walk EXCEPT !.dates = ListUniqueDates(walk.at, MaxDays + 1),
                          !.pc = IF ListUniqueDates(walk.at, MaxDays + 1) = {}
                                 THEN "end" ELSE "dates"]
  /\ UNCHANGED <<rows, changes, sought, met, twice, skipped>>

\* Mutant: the older page begins with the oldest of the dates read
ReadEntriesFromLast ==
  LET entries == ListEntriesByDates(walk.dates)
      shown == Top(walk.dates, DisplayDays(walk.dates, entries))
      older == walk.dates \ shown
  IN  /\ walk.kind = "index" /\ walk.pc = "dates"
      /\ Show(ListEntriesByDates(shown), {},
              IF older = {} THEN End
              ELSE [walk EXCEPT !.pc = "page", !.dates = {}, !.at = Min(older)])

\* Mutant: the older page begins with the last date shown
ReadEntriesFromShown ==
  LET entries == ListEntriesByDates(walk.dates)
      shown == Top(walk.dates, DisplayDays(walk.dates, entries))
  IN  /\ walk.kind = "index" /\ walk.pc = "dates"
      /\ Show(ListEntriesByDates(shown), {},
              IF walk.dates \ shown = {} THEN End
              ELSE [walk EXCEPT !.pc = "page", !.dates = {}, !.at = Min(shown)])

\* ... and reads the entries of those dates in a second statement
ReadEntries ==
  LET entries == ListEntriesByDates(walk.dates)
      shown == Top(walk.dates, DisplayDays(walk.dates, entries))
      older == walk.dates \ shown
  IN  /\ walk.kind = "index" /\ walk.pc = "dates"
      /\ Show(ListEntriesByDates(shown), {},
              IF older = {} THEN End
              ELSE [walk EXCEPT !.pc = "page", !.dates = {}, !.at = Max(older)])

\* Mutant: the older page begins with the day of the last entry shown
HandleCategoryFromShown ==
  /\ AtPage("category")
  /\ \E shown \in Firsts(InCategory(walk.at), Limit) :
       Show(shown, {}, IF InCategory(walk.at) = shown THEN End
                       ELSE [walk EXCEPT !.at = Min(DatesOf(shown))])

\* The older page of a category begins with the day of the first entry that
\* did not fit
HandleCategory ==
  /\ AtPage("category")
  /\ \E shown \in Firsts(InCategory(walk.at), Limit) :
       LET older == DatesOf(InCategory(walk.at) \ shown)
       IN  Show(shown, {}, IF older = {} THEN End ELSE [walk EXCEPT !.at = Max(older)])

\* An entry that went is answered 404
HandlePath ==
  /\ AtPage("older")
  /\ \E e \in walk.next :
       LET same == {x \in Visible : rows[x].created = rows[e].created}
       IN  IF e \notin Visible
           THEN Show({}, {}, [walk EXCEPT !.pc = "gone"])
           ELSE IF GetOlderEntry(e) = {} THEN Show({e}, same, End)
           ELSE \E o \in GetOlderEntry(e) : Show({e}, same, [walk EXCEPT !.next = {o}])

HandleDateArchive ==
  /\ AtPage("archive")
  /\ \/ \E m \in walk.months :
          Show(ListEntriesByYearMonthDay(m), {}, [walk EXCEPT !.months = @ \ {m}])
     \/ walk.months = {} /\ Show({}, {}, End)

-----------------------------------------------------------------------------
(* What the author does meanwhile.  Publication gives an entry a date, of  *)
(* any day, and a created_at later than the one it had; edits of what is   *)
(* public keep both.                                                       *)

Change(e, row, seeks) ==
  /\ changes < MaxChanges /\ walk.pc # "start"
  /\ changes' = changes + 1
  /\ rows' = [rows EXCEPT ![e] = row]
  /\ sought' = seeks
  /\ UNCHANGED <<walk, met, twice, skipped>>

Publish(e, date, created, tagged) ==
  /\ ~rows[e].visible /\ created > rows[e].created
  /\ Change(e, [visible |-> TRUE, date |-> date, created |-> created, tagged |-> tagged],
            sought)

Withdraw(e) ==
  rows[e].visible /\ Change(e, [rows[e] EXCEPT !.visible = FALSE], sought \ {e})

Retitle(e) ==
  /\ rows[e].visible
  /\ Change(e, [rows[e] EXCEPT !.tagged = ~@],
            IF walk.kind = "category" THEN sought \ {e} ELSE sought)

-----------------------------------------------------------------------------
Unpublished == [visible |-> FALSE, date |-> 1, created |-> 0, tagged |-> FALSE]

\* Any entries may have been published before the visitor comes
Init ==
  /\ rows \in [Entry -> {Unpublished} \cup {row \in Row : row.visible /\ row.created > 0}]
  /\ walk = [kind |-> "index", pc |-> "start", at |-> MaxDay, next |-> {},
             dates |-> {}, months |-> {}]
  /\ changes = 0 /\ sought = {} /\ met = {} /\ twice = {} /\ skipped = {}

Begin ==
  \/ StartIndex \/ StartCategory \/ HandleArchive
  \/ \E e \in Entry : StartEntry(e)

Visit == ReadDates \/ ReadEntries \/ HandleCategory \/ HandlePath \/ HandleDateArchive

Author ==
  \E e \in Entry :
    \/ \E date \in Day, created \in Instant, tagged \in BOOLEAN :
         Publish(e, date, created, tagged)
    \/ Withdraw(e) \/ Retitle(e)

Next == Begin \/ Visit \/ Author

Spec == Init /\ [][Next]_vars

\* A visitor who has begun goes on to the end
FairSpec == Spec /\ WF_vars(Visit)

-----------------------------------------------------------------------------
TypeOK ==
  /\ rows \in [Entry -> Row]
  /\ walk \in Walk
  /\ changes \in Nat
  /\ sought \subseteq Entry /\ met \subseteq Entry
  /\ twice \subseteq Entry /\ skipped \subseteq Entry

\* Whoever follows the links to the last was shown every entry that was there
\* from the beginning: pages of an adaptive number of days, read in two
\* statements (HandleIndex), pages of a category cut within a day
\* (HandleCategory), the months of the archive and the older links of entries
\* leave no gap, whatever is published and withdrawn meanwhile.  The older
\* link alone passes over an entry with the created_at of another
\* (GetOlderEntry): both of two entries reserved for the same minute have it.
EndMeetsAll == walk.pc = "end" => sought \subseteq met \cup skipped

\* The index and the archive show no entry on two pages, as long as it keeps
\* its date (HandleIndex, HandleDateArchive)
ShowsOnce == walk.kind \in {"index", "archive"} => sought \cap twice = {}

\* A day of the category has more entries than a page: its page leads back to
\* itself
Crowded ==
  \E d \in Day : Cardinality({e \in InCategory(d) : rows[e].date = d}) > Limit

\* A walk comes to an end, unless it is of a category with a day whose entries
\* do not fit on a page (HandleCategory leads to the day of the first entry
\* that did not fit, and from there to itself)
WalksEnd ==
  (walk.pc # "start") ~>
    \/ walk.pc \in {"end", "gone"}
    \/ walk.kind = "category" /\ Crowded

-----------------------------------------------------------------------------
(* The inductive invariant of NavigationProofs: which part of what is sought *)
(* was met, by the place in the walk.                                        *)

\* What is sought is there still, of the category if that is walked
SoughtIsThere ==
  /\ sought \subseteq Visible
  /\ walk.kind = "category" => \A e \in sought : rows[e].tagged

NothingBeforeStart ==
  walk.pc = "start" => sought = {} /\ met = {} /\ twice = {}

OnlyIndexReadsDates == walk.pc = "dates" => walk.kind = "index"

\* The index has shown what is later than the bound of the next page
IndexMetLater ==
  walk.kind = "index" /\ walk.pc \in {"page", "dates"} =>
    \A e \in sought : e \in met <=> rows[e].date > walk.at

\* The dates read are the next ones, the oldest of them not to be shown
DatesAreNext ==
  walk.pc = "dates" =>
    /\ \A d \in walk.dates : d <= walk.at
    /\ \A e \in sought \ met :
         \/ rows[e].date \in walk.dates
         \/ /\ Cardinality(walk.dates) > MaxDays
            /\ \A d \in walk.dates : d > rows[e].date

CategoryMetLater ==
  walk.kind = "category" /\ walk.pc = "page" =>
    \A e \in sought \ met : rows[e].date <= walk.at

OlderMetLater ==
  walk.kind = "older" /\ walk.pc = "page" =>
    \E o \in Entry :
      /\ walk.next = {o}
      /\ \A e \in sought \ (met \cup skipped) : rows[e].created <= rows[o].created

ArchiveMetOthers ==
  walk.kind = "archive" /\ walk.pc = "page" =>
    \A e \in sought : e \in met <=> MonthOf[rows[e].date] \notin walk.months

IInv ==
  /\ TypeOK /\ SoughtIsThere /\ NothingBeforeStart /\ OnlyIndexReadsDates
  /\ IndexMetLater /\ DatesAreNext /\ CategoryMetLater /\ OlderMetLater
  /\ ArchiveMetOthers /\ EndMeetsAll /\ ShowsOnce
=============================================================================
