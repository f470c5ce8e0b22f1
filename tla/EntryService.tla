---------------------------- MODULE EntryService ----------------------------
(***************************************************************************)
(* How entries get their status, date and path: the goroutines that save   *)
(* an edit (SaveEntry) and the one that publishes what was scheduled       *)
(* (PublishScheduledEntries), of backend/app/entry_service.go.             *)
(*                                                                         *)
(* An entry is its status, date, path and publish_at; text and created_at  *)
(* are left out.  A path is a day and a number; number 0 is no path.       *)
(* A transaction begins with BEGIN IMMEDIATE and is one step.              *)
(***************************************************************************)
EXTENDS Naturals, FiniteSets

CONSTANTS
  MaxEntry,   \* bound: how many entries are created
  Saver,      \* the edits that may be under way at once
  MaxTime,    \* bound: how often the time passes
  DayOf,      \* DayOf[t]: the day of the instant t
  MaxSaves,   \* bound: how many edits are submitted
  MaxFaults   \* bound: crashes and failing statements

Entry == 1 .. MaxEntry
Instant == 1 .. MaxTime
NoTime == 0                 \* publish_at is NULL
NewEntry == 0               \* SaveEntryParams.ID of an entry to be created

ASSUME BoundsAreNaturals ==
  MaxEntry \in Nat /\ MaxTime \in Nat \ {0} /\ MaxSaves \in Nat /\ MaxFaults \in Nat
ASSUME DaysAreNumbers == DayOf \in [Instant -> Nat]

VARIABLES
  rows,       \* the entries table
  now,        \* the present instant
  saver,      \* per goroutine, the edit it saves
  publisher,  \* the entries the publisher has found, and has published
  announced,  \* whether the jobs of the last public version are enqueued
  saves,      \* how many edits were submitted
  faults,     \* how often something failed
  lost,       \* history: entries whose jobs a fault has lost
  reused      \* history: entries that got a path read before an edit changed it

vars == <<rows, now, saver, publisher, announced, saves, faults, lost, reused>>

Status == {"draft", "public", "scheduled", "reserved"}
Path == Nat \X Nat
NoPath == <<0, 0>>
HasPath(row) == row.path[2] > 0

Row == [status: Status, date: Nat, path: Path, publishAt: Instant \cup {NoTime}]
NoRow == [status |-> "none", date |-> 0, path |-> NoPath, publishAt |-> NoTime]

Existing == {e \in Entry : rows[e].status # "none"}

\* Mutant: the number of the paths of a day instead of the greatest number
CountedPath(d) ==
  <<d, 1 + Cardinality({x \in Existing : rows[x].date = d /\ HasPath(rows[x])})>>

\* CalculateNextPath: one more than the greatest number among the paths of a day
CalculateNextPath(d) ==
  LET numbers == {0} \cup {rows[e].path[2] : e \in {x \in Existing :
                             rows[x].date = d /\ HasPath(rows[x]) /\ rows[x].path[1] = d}}
  IN  <<d, 1 + CHOOSE n \in numbers : \A m \in numbers : m <= n>>

-----------------------------------------------------------------------------
(* Saving an edit.                                                         *)

Free == [pc |-> "free", id |-> NewEntry, status |-> "draft", publishAt |-> NoTime, began |-> 1]

\* The time is read and the edit is checked before it is formatted and
\* post-processed, which takes up to a minute
Submit(s, id, status, publishAt) ==
  /\ saver[s].pc = "free" /\ saves < MaxSaves
  /\ id \in Existing \cup {NewEntry}
  /\ status \in {"scheduled", "reserved"} => publishAt > now
  /\ saves' = saves + 1
  /\ saver' = [saver EXCEPT ![s] = [pc |-> "formatting", id |-> id, status |-> status,
                                    publishAt |-> publishAt, began |-> now]]
  /\ UNCHANGED <<rows, now, publisher, announced, faults, lost, reused>>

\* Mutant: the date becomes that of the publication, the path stays
DateAndPathToday(job, old) ==
  [path |-> IF job.id = NewEntry THEN NoPath ELSE old.path,
   date |-> IF job.id = NewEntry \/ job.status \in {"public", "scheduled"}
            THEN DayOf[job.began] ELSE old.date]

\* Mutant: whoever becomes public gets a new path
DateAndPathAnew(job, old) ==
  [path |-> IF job.id = NewEntry \/ job.status = "public" THEN NoPath ELSE old.path,
   date |-> IF job.id = NewEntry \/ job.status = "public" THEN DayOf[job.began] ELSE old.date]

\* The date and the path of an entry before it gets a new path
DateAndPath(job, old) ==
  LET today == DayOf[job.began]
      publishDay == DayOf[job.publishAt]
  IN  IF job.id = NewEntry
      THEN [path |-> NoPath,
            date |-> IF job.status \in {"reserved", "public"} /\ job.publishAt # NoTime
                     THEN publishDay ELSE today]
      ELSE IF old.status = "reserved" /\ job.status # "reserved"
      THEN [path |-> NoPath,
            date |-> IF job.status = "scheduled" \/ job.publishAt = NoTime
                     THEN today ELSE publishDay]
      ELSE [path |-> old.path,
            date |-> IF ~HasPath(old) /\ job.status \in {"public", "scheduled"}
                     THEN today ELSE old.date]

Saved(job, old) ==
  LET dp == DateAndPath(job, old)
  IN  [status |-> job.status, date |-> dp.date, publishAt |-> job.publishAt,
       path |-> IF dp.path[2] = 0 /\ job.status \in {"public", "scheduled"}
                THEN CalculateNextPath(dp.date) ELSE dp.path]

\* The entry an edit writes: its own, or the one that is created
Target(job, e) == IF job.id = NewEntry THEN e \notin Existing ELSE e = job.id

\* Mutant: the jobs are enqueued for an edit only, not for a new entry
CommitNewUnannounced(s, e) ==
  /\ saver[s].pc = "formatting"
  /\ Target(saver[s], e)
  /\ rows' = [rows EXCEPT ![e] = Saved(saver[s], rows[e])]
  /\ announced' = [announced EXCEPT ![e] = saver[s].status # "public" /\ @]
  /\ saver' = [saver EXCEPT ![s] = IF @.status = "public" /\ @.id # NewEntry
                                   THEN [@ EXCEPT !.pc = "saved"] ELSE Free]
  /\ UNCHANGED <<now, publisher, saves, faults, lost, reused>>

\* One transaction reads the row, numbers the path and writes; afterwards a
\* public entry has its jobs enqueued
Commit(s, e) ==
  /\ saver[s].pc = "formatting"
  /\ Target(saver[s], e)
  /\ rows' = [rows EXCEPT ![e] = Saved(saver[s], rows[e])]
  /\ IF saver[s].status = "public"
     THEN /\ saver' = [saver EXCEPT ![s].pc = "saved", ![s].id = e]
          /\ announced' = [announced EXCEPT ![e] = FALSE]
     ELSE /\ saver' = [saver EXCEPT ![s] = Free]
          /\ UNCHANGED announced
  /\ UNCHANGED <<now, publisher, saves, faults, lost, reused>>

\* Formatting fails, or the transaction does
SaveFails(s) ==
  /\ saver[s].pc = "formatting"
  /\ saver' = [saver EXCEPT ![s] = Free]
  /\ UNCHANGED <<rows, now, publisher, announced, saves, faults, lost, reused>>

Enqueue(s) ==
  /\ saver[s].pc = "saved"
  /\ saver' = [saver EXCEPT ![s] = Free]
  /\ announced' = [announced EXCEPT ![saver[s].id] = TRUE]
  /\ lost' = lost \ {saver[s].id}
  /\ UNCHANGED <<rows, now, publisher, saves, faults, reused>>

\* A failing enqueue is logged, and the edit counts as saved
EnqueueFails(s) ==
  /\ saver[s].pc = "saved" /\ faults < MaxFaults
  /\ faults' = faults + 1
  /\ saver' = [saver EXCEPT ![s] = Free]
  /\ lost' = lost \cup {saver[s].id}
  /\ UNCHANGED <<rows, now, publisher, announced, saves, reused>>

-----------------------------------------------------------------------------
(* The publisher, once a minute.                                           *)

IsDue(row) ==
  row.status \in {"scheduled", "reserved"} /\ (row.publishAt = NoTime \/ row.publishAt <= now)

Resting == [todo |-> {}, sent |-> {}, began |-> 1]

\* Mutant: reserved entries are forgotten
FindScheduledOnly ==
  /\ publisher = Resting
  /\ \E e \in Entry : IsDue(rows[e]) /\ rows[e].status = "scheduled"
  /\ publisher' = [todo |-> {[id |-> e, row |-> rows[e]] :
                       e \in {x \in Entry : IsDue(rows[x]) /\ rows[x].status = "scheduled"}},
                   sent |-> {}, began |-> now]
  /\ UNCHANGED <<rows, now, saver, announced, saves, faults, lost, reused>>

\* The rows are read outside of the transactions that publish them
FindScheduledEntriesToPublish ==
  /\ publisher = Resting
  /\ \E e \in Entry : IsDue(rows[e])
  /\ publisher' = [todo |-> {[id |-> e, row |-> rows[e]] : e \in {x \in Entry : IsDue(rows[x])}},
                   sent |-> {}, began |-> now]
  /\ UNCHANGED <<rows, now, saver, announced, saves, faults, lost, reused>>

IsNext(f) ==
  /\ f \in publisher.todo /\ publisher.sent = {}
  /\ \A g \in publisher.todo : f.row.publishAt <= g.row.publishAt

PublishDay(f) ==
  DayOf[IF f.row.publishAt = NoTime THEN publisher.began ELSE f.row.publishAt]

\* PublishEntry writes the row of that id, whatever has become of it; a
\* reserved entry is numbered now, a scheduled one keeps what was found
PublishEntry(f) ==
  /\ IsNext(f)
  /\ rows' = [rows EXCEPT ![f.id] =
       [status |-> "public", publishAt |-> @.publishAt,
        date |-> IF f.row.status = "reserved" THEN PublishDay(f) ELSE f.row.date,
        path |-> IF f.row.status = "reserved" THEN CalculateNextPath(PublishDay(f))
                 ELSE f.row.path]]
  /\ reused' = IF f.row.status = "scheduled" /\ rows[f.id].path # f.row.path
               THEN reused \cup {f.id} ELSE reused
  /\ announced' = [announced EXCEPT ![f.id] = FALSE]
  /\ publisher' = [publisher EXCEPT !.todo = @ \ {f}, !.sent = {f.id}]
  /\ UNCHANGED <<now, saver, saves, faults, lost>>

\* An error is logged and the next entry is published
PublishFails(f) ==
  /\ IsNext(f) /\ faults < MaxFaults
  /\ faults' = faults + 1
  /\ publisher' = IF publisher.todo = {f} THEN Resting
                  ELSE [publisher EXCEPT !.todo = @ \ {f}]
  /\ UNCHANGED <<rows, now, saver, announced, saves, lost, reused>>

Proceed ==
  publisher' = IF publisher.todo = {} THEN Resting ELSE [publisher EXCEPT !.sent = {}]

EnqueuePublished(e) ==
  /\ e \in publisher.sent
  /\ Proceed
  /\ announced' = [announced EXCEPT ![e] = TRUE]
  /\ lost' = lost \ {e}
  /\ UNCHANGED <<rows, now, saver, saves, faults, reused>>

EnqueuePublishedFails(e) ==
  /\ e \in publisher.sent /\ faults < MaxFaults
  /\ faults' = faults + 1
  /\ Proceed
  /\ lost' = lost \cup {e}
  /\ UNCHANGED <<rows, now, saver, announced, saves, reused>>

-----------------------------------------------------------------------------
Tick ==
  /\ now < MaxTime
  /\ now' = now + 1
  /\ UNCHANGED <<rows, saver, publisher, announced, saves, faults, lost, reused>>

Crash ==
  /\ faults < MaxFaults
  /\ faults' = faults + 1
  /\ saver' = [s \in Saver |-> Free]
  /\ publisher' = Resting
  /\ lost' = lost \cup publisher.sent
                  \cup {saver[s].id : s \in {x \in Saver : saver[x].pc = "saved"}}
  /\ UNCHANGED <<rows, now, announced, saves, reused>>

Init ==
  /\ rows = [e \in Entry |-> NoRow]
  /\ now = 1
  /\ saver = [s \in Saver |-> Free]
  /\ publisher = Resting
  /\ announced = [e \in Entry |-> FALSE]
  /\ saves = 0
  /\ faults = 0
  /\ lost = {}
  /\ reused = {}

PublisherStep ==
  \/ FindScheduledEntriesToPublish
  \/ \E f \in publisher.todo : PublishEntry(f)
  \/ \E e \in publisher.sent : EnqueuePublished(e)

Next ==
  \/ PublisherStep
  \/ \E s \in Saver :
       \/ \E id \in Entry \cup {NewEntry}, status \in Status, publishAt \in Instant \cup {NoTime} :
            Submit(s, id, status, publishAt)
       \/ \E e \in Entry : Commit(s, e)
       \/ SaveFails(s) \/ Enqueue(s) \/ EnqueueFails(s)
  \/ \E f \in publisher.todo : PublishFails(f)
  \/ \E e \in publisher.sent : EnqueuePublishedFails(e)
  \/ Tick
  \/ Crash

Spec == Init /\ [][Next]_vars

\* The ticker of main.go runs the publisher again and again, and SQLite answers
FairSpec == Spec /\ WF_vars(PublisherStep)

-----------------------------------------------------------------------------
\* The shape of the state; and whoever waits to be published says when, although
\* the time of an edit has passed before the edit is written
TypeOK ==
  /\ rows \in [Entry -> Row \cup {NoRow}]
  /\ \A e \in Entry : rows[e].status \in {"scheduled", "reserved"} => rows[e].publishAt # NoTime
  /\ now \in Instant
  /\ saver \in [Saver -> [pc: {"free", "formatting", "saved"}, id: Entry \cup {NewEntry},
                          status: Status, publishAt: Instant \cup {NoTime}, began: Instant]]
  /\ publisher \in [todo: SUBSET [id: Entry, row: Row], sent: SUBSET Entry, began: Instant]
  /\ announced \in [Entry -> BOOLEAN]
  /\ saves \in 0 .. MaxSaves
  /\ faults \in 0 .. MaxFaults
  /\ lost \subseteq Entry
  /\ reused \subseteq Entry

\* docs/specs/entry-path-logic.md, 4: a path begins with the date of its entry;
\* and whoever is public or scheduled has one.  Each branch of SaveEntry changes
\* date and path together or neither
Consistent(row) ==
  /\ HasPath(row) => row.path[1] = row.date
  /\ row.status \in {"public", "scheduled"} => HasPath(row)

PathsConsistent == \A e \in Entry : Consistent(rows[e])

\* No two entries have one path, although CalculateNextPath looks only at the
\* entries that have the same date, entries leave their paths when they are
\* reserved, and edits, creations and publications overlap.  The exception is a
\* scheduled entry whose path an edit changed after the publisher had read it
PathsUnique ==
  \A e, f \in Entry :
    e # f /\ HasPath(rows[e]) /\ rows[e].path = rows[f].path => e \in reused \/ f \in reused

\* What the publisher has read of e is no longer so
Overtaken(e) == \E f \in publisher.todo : f.id = e /\ rows[e] # f.row

\* docs/specs/entry-path-logic.md, 2: a path never changes but by way of
\* reserved, whatever edits and publications come between; only the publisher
\* changes one that it found reserved and that is so no more
UrlStable ==
  [][\A e \in Entry :
       HasPath(rows[e]) /\ rows'[e].path # rows[e].path
         => rows[e].status = "reserved" \/ Overtaken(e)]_vars

\* A public entry whose jobs are not enqueued is about to be announced, by an
\* edit or by the publisher, or a fault has lost them
PublicIsAnnounced ==
  \A e \in Entry :
    rows[e].status = "public" /\ ~announced[e] =>
      \/ e \in lost
      \/ e \in publisher.sent
      \/ \E s \in Saver : saver[s].pc = "saved" /\ saver[s].id = e

\* An entry whose time has come does not stay scheduled: failing entries do not
\* keep the publisher from the others, nor from the next round
DueIsPublished == \A e \in Entry : IsDue(rows[e]) ~> ~IsDue(rows[e])

-----------------------------------------------------------------------------
(* What the proofs rest on: the rows that the publisher holds were once in  *)
(* the table, it announces one entry at a time, and edits under way have    *)
(* passed the check of SaveEntry.                                           *)

FoundWell ==
  /\ \A f \in publisher.todo :
       f.row.status \in {"scheduled", "reserved"} /\ Consistent(f.row)
  /\ \A e, f \in publisher.sent : e = f

EditsValid ==
  \A s \in Saver :
    /\ saver[s].status \in {"scheduled", "reserved"} => saver[s].publishAt # NoTime
    /\ saver[s].pc = "saved" => saver[s].id # NewEntry

\* The inductive invariant
IInv ==
  /\ TypeOK
  /\ FoundWell
  /\ EditsValid
  /\ PathsConsistent
  /\ PathsUnique
  /\ PublicIsAnnounced
=============================================================================
