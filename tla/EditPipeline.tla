---------------------------- MODULE EditPipeline ----------------------------
(***************************************************************************)
(* Edits and previews that share the post-processor, with the progress     *)
(* sessions of the edits (backend/app/entry_service.go: SaveEntry;         *)
(* backend/app/handler_admin.go: HandleAdminApiEdit and                    *)
(* HandleAdminApiPreview): the loop that reads the output of Node reports  *)
(* into the sessions, and an edit ends after its post-processing, whether  *)
(* that succeeded or not.                                                  *)
(***************************************************************************)
EXTENDS PostprocessPool, ProgressSession

ASSUME EditsReport == Edit \subseteq Request /\ Reporting = Edit

vars == <<poolVars, sessionVars>>

Init == PoolInit /\ SessionInit

Start(r) ==
  /\ Call(r)
  /\ IF r \in Edit THEN Create(r) ELSE UNCHANGED sessionVars

Returned(r) == caller[r].pc \in {"ok", "failed"}

\* SaveEntry reports its own steps as well
Reports(e) ==
  /\ saving[e] = "saving"
  /\ ReportProgress(e)
  /\ UNCHANGED poolVars

\* A session without a reporter ignores what is reported to it
ReaderReports(p) ==
  /\ Report(p)
  /\ IF reader[p].to \in Edit THEN ReportProgress(reader[p].to) ELSE UNCHANGED sessionVars

\* Without post-processed HTML the formatted HTML is saved.  An edit that is
\* refused before it is formatted looks to its session like one that fails
EditEnds(e) ==
  /\ Returned(e)
  /\ SaveSucceeds(e) \/ SaveFails(e)
  /\ UNCHANGED poolVars

\* All is over, or the server has died
Finished ==
  /\ \/ panicked
     \/ /\ \A r \in Request : Returned(r)
        /\ \A e \in Edit : saving[e] = "ended" /\ e \notin registered /\ ~client[e].listens
  /\ UNCHANGED vars

\* No other state has no successor: whatever fails, every caller of Postprocess
\* returns, every edit ends, every session goes and every stream is ended
Next ==
  \/ /\ ~panicked
     /\ \/ \E r \in Request : Start(r)
        \/ PoolStep /\ UNCHANGED sessionVars
        \/ \E p \in Proc : HoldsProgress(p) /\ ReaderReports(p)
        \/ \E e \in Edit : Reports(e) \/ EditEnds(e)
        \/ SessionStep /\ UNCHANGED poolVars
  \/ Finished

Spec == Init /\ [][Next]_vars

-----------------------------------------------------------------------------
\* The server dies of a progress session only if the buffer was full when the
\* edit was done, so that its goroutine waited for a listener until the clean-up
\* of five minutes, or if a report came from an attempt that was given up
PanicHasCause == panicked => waited \cup late # {}

\* A stream that ends without the outcome is that of an edit that failed, or of
\* one whose goroutine the clean-up of five minutes found waiting for room, with
\* the panic ahead of it: a saved edit tells whoever listens that it is done,
\* however late the browser connects and whatever was dropped before
ClosedMeansFailure ==
  \A e \in Edit : client[e].learned = "closed" => e \in failure \/ saving[e] = "sending"

-----------------------------------------------------------------------------
(* The inductive invariant of EditPipelineProofs.                          *)

Content == [kind: {"html", "error", "closing"}, of: Request]

Callers ==
  [Request -> [pc: {"free", "get", "admit", "register", "write", "wait", "discard", "ok", "failed"},
               attempt: {0, 1}, at: Proc \cup {NoProc}, id: Nat]]

\* Whoever is past the choice of a process has one
HasProc ==
  \A r \in Request :
    caller[r].pc \in {"admit", "register", "write", "wait", "discard"} => At(r) \in Proc

PoolShapes ==
  /\ caller \in Callers /\ HasProc
  /\ answer \in [Request -> Request \cup {"none"}]
  /\ current \in Proc \cup {NoProc} /\ started \in 0 .. MaxProcs
  /\ idSeq \in [Proc -> Nat]
  /\ sessions \in [Proc -> SUBSET (Nat \X Request)]
  /\ resCh \in [Proc -> SUBSET (Request \X Content)]
  /\ input \in [Proc -> Seq(Nat \X Request)]
  /\ output \in [Proc -> Seq([id: Nat, kind: {"html", "error", "progress"}, of: Request])]
  /\ reader \in [Proc -> {NoLine, Ended} \cup
                   [to: Request, kind: {"html", "error", "progress"}, of: Request]]

Lines(s) == {s[i] : i \in 1 .. Len(s)}

\* The ids of a process in use, each with the request it stands for
Printed(p) == {<<l.id, l.of>> : l \in Lines(output[p])}
Writing(p) == {<<caller[r].id, r>> : r \in {q \in Request : At(q) = p /\ caller[q].pc = "write"}}
Named(p) == sessions[p] \cup Lines(input[p]) \cup Printed(p) \cup Writing(p)

IdsAreOwn ==
  \A p \in Proc :
    /\ \A x \in Named(p) : x[1] <= idSeq[p]
    /\ \A x, y \in Named(p) : x[1] = y[1] => x[2] = y[2]

\* Whatever is on its way to a session came from the request of the session
HeldIsOwn == \A p \in Proc : reader[p] \notin {NoLine, Ended} => reader[p].of = reader[p].to
SentIsOwn == \A p \in Proc : \A c \in resCh[p] : c[2].of = c[1]
ResultsAreOwn == HeldIsOwn /\ SentIsOwn

SessionShapes ==
  /\ saving \in [Edit -> {"idle", "saving", "sending", "closing", "ended"}]
  /\ messages \in [Edit -> Seq({"progress", "done"})]
  /\ client \in [Edit -> [listens: BOOLEAN, learned: {"nothing", "done", "error", "closed"}]]

EndTimers(e) == {<<e, "cleanup">>, <<e, "delete">>} \cap timers

\* Unless the buffer was full at the end or a report came late, whoever closes a
\* channel has it for itself
QuietIsSafe ==
  waited \cup late = {} =>
    /\ ~panicked
    /\ \A e \in Edit :
         /\ e \in closed => saving[e] = "ended"
         /\ e \in closed \cap registered => EndTimers(e) = {<<e, "delete">>}
         /\ saving[e] = "sending" => HasRoom(e)

Told(e) == "done" \in Lines(messages[e]) \/ client[e].learned = "done"
Refused(e) == e \in failure \/ client[e].learned = "error"

\* What an edit has come to is in its channels, or its browser knows it
EndIsTold ==
  \A e \in Edit :
    /\ EndTimers(e) # {} => saving[e] = "ended"
    /\ e \in waited \cup closed => saving[e] \in {"sending", "closing", "ended"}
    /\ saving[e] = "closing" => Told(e)
    /\ saving[e] = "ended" => Told(e) \/ Refused(e)
    /\ client[e].listens => client[e].learned \in {"nothing", "closed"}
    /\ client[e].learned = "closed" => e \in failure \/ (saving[e] = "sending" /\ e \in closed)

PoolInv == PoolShapes /\ IdsAreOwn /\ ResultsAreOwn /\ AnswerIsOwn

\* The requests whose answer is still owed, printed, read or in a channel
Owed(p) == {l[2] : l \in Lines(input[p])}
Answered(p) == {l.of : l \in {m \in Lines(output[p]) : m.kind # "progress"}}
Held(p) == {r \in Request : HoldsResult(p) /\ reader[p].of = r}
Sent(p) == {c[1] : c \in resCh[p]}

OwedOnce(s) == \A i, j \in 1 .. Len(s) : s[i][2] = s[j][2] => i = j
AnsweredOnce(s) ==
  \A i, j \in 1 .. Len(s) :
    s[i].kind # "progress" /\ s[j].kind # "progress" /\ s[i].of = s[j].of => i = j

\* Until a process is given up there is one answer to a request on its way, in
\* one place, and only to a caller that wrote its line there
OneAnswer(p) ==
  /\ OwedOnce(input[p]) /\ AnsweredOnce(output[p])
  /\ Owed(p) \cap (Answered(p) \cup Held(p) \cup Sent(p)) = {}
  /\ Answered(p) \cap (Held(p) \cup Sent(p)) = {}
  /\ Held(p) \cap Sent(p) = {}
  /\ \A r \in Owed(p) \cup Answered(p) \cup Held(p) \cup Sent(p) :
       At(r) = p /\ caller[r].pc \in {"wait", "discard", "ok"}

OneAnswerEach == \A p \in Proc \ done : OneAnswer(p)

\* Nothing ends a process, or makes it answer with anything but HTML, except
\* what is in broken
EndsHaveCauses ==
  /\ closing \cup done \subseteq broken
  /\ \A p \in 1 .. started : p \in running \/ p \in broken
  /\ \A p \in Proc : p \notin broken =>
       /\ \A l \in Lines(output[p]) : l.kind # "error"
       /\ reader[p] \notin {NoLine, Ended} => reader[p].kind # "error"
       /\ \A c \in resCh[p] : c[2].kind = "html"

Uses(r) == caller[r].pc \in {"admit", "register", "write", "wait", "discard"}

\* A caller has tried the process it is at, and one that broke before it if this
\* is its second attempt
AttemptIsTold(r) ==
  /\ At(r) <= started
  /\ caller[r].pc = "free" => caller[r].attempt = 0
  /\ Uses(r) => At(r) \in tried[r]
  /\ caller[r].pc = "discard" => At(r) \in broken
  /\ caller[r].pc = "get" /\ caller[r].attempt = 1 =>
       At(r) \in tried[r] \cap broken \cap done
  /\ Uses(r) /\ caller[r].attempt = 1 => \E p \in tried[r] \cap broken : p # At(r)

AttemptsAreTold ==
  /\ tried \in [Request -> SUBSET Proc] /\ current <= started
  /\ \A r \in Request : AttemptIsTold(r)

BlameInv == EndsHaveCauses /\ AttemptsAreTold /\ FailsAfterTwo
SessionInv == SessionShapes /\ QuietIsSafe /\ EndIsTold
=============================================================================
