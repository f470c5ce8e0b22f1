--------------------------- MODULE PostprocessPool ---------------------------
(***************************************************************************)
(* The resident Node process that post-processes HTML                      *)
(* (backend/app/app.go: getPostprocessProcessor, postprocessWithRetry and  *)
(* BatchProcessor): callers share the current process, register a session  *)
(* under an id, write a line to its stdin and wait for the channel of the  *)
(* session, their timeout or the end of the process.  One goroutine per    *)
(* process reads stdout and hands results to sessions.  A caller that      *)
(* fails closes its process, forgets the current one and tries once more.  *)
(*                                                                         *)
(* HTML is the name of the request it came from.  A caller calls Process   *)
(* once per process, so its session there is named by the two.             *)
(***************************************************************************)
EXTENDS Naturals, Sequences, FiniteSets

CONSTANTS
  Request,   \* the calls of Postprocess
  Reporting, \* the requests that pass a reporter: edits, not previews
  MaxProcs,  \* bound: how many processes are started
  MaxFaults  \* bound: crashes, failed starts, lines too long, HTML the script
             \* fails on, timeouts and cancelled callers

Proc == 1 .. MaxProcs
NoProc == 0

ASSUME RequestsOfKind == Reporting \subseteq Request
ASSUME PoolBounds == MaxProcs \in Nat /\ MaxFaults \in Nat

VARIABLES
  caller,    \* per request: pc, attempt, the process it uses and its id there
  answer,    \* per request: the HTML it returned
  cancelled, \* the requests whose context has ended
  current,   \* AppImpl.postprocessProcessor
  started,   \* how many processes were started
  closing,   \* the processes whose closing flag is set
  done,      \* the processes whose done channel is closed
  running,   \* the processes whose Node runs
  idSeq,     \* per process: the last id
  sessions,  \* per process: the map from ids to sessions, as pairs
  resCh,     \* per process: what the channels of the sessions hold, as pairs
  input,     \* per process: the lines of stdin not answered yet
  output,    \* per process: the lines of stdout not read yet
  reader,    \* per process: the session and the line the reading loop holds
  tried,     \* history: the processes a request was at
  broken,    \* history: the processes that something has happened to
  faults

procVars == <<started, closing, done, running>>
wireVars == <<input, output, reader>>
poolVars == <<caller, answer, cancelled, current, procVars, idSeq, sessions, resCh,
              wireVars, tried, broken, faults>>

NoLine == [to |-> "none"]
Ended == [to |-> "ended"]

-----------------------------------------------------------------------------
(* The life of a process.                                                  *)

IsAlive(p) == p \notin closing \cup done

\* Whoever waits at p learns that it closes, unless a result is there already
Closed(p) ==
  {<<s[2], [kind |-> "closing", of |-> s[2]]>> :
     s \in {x \in sessions[p] : \A c \in resCh[p] : c[1] # x[2]}}

\* Mutant: done is left to the end of the loop
CloseUndone(p) ==
  /\ closing' = closing \cup {p}
  /\ resCh' = [resCh EXCEPT ![p] = @ \cup Closed(p)]
  /\ input' = [input EXCEPT ![p] = <<>>]
  /\ UNCHANGED done

\* New callers are refused and those that wait are told; Node is killed too
CloseRest(p) ==
  /\ closing' = closing \cup {p}
  /\ done' = done \cup {p}
  /\ resCh' = [resCh EXCEPT ![p] = @ \cup Closed(p)]
  /\ input' = [input EXCEPT ![p] = <<>>]

Close(p) == CloseRest(p) /\ running' = running \ {p}

\* Node ends: it crashes, or it was idle for long
NodeExits(p) ==
  /\ p \in running /\ faults < MaxFaults
  /\ faults' = faults + 1
  /\ running' = running \ {p}
  /\ input' = [input EXCEPT ![p] = <<>>]
  /\ broken' = broken \cup {p}
  /\ UNCHANGED <<caller, answer, cancelled, current, started, closing, done, idSeq,
                 sessions, resCh, output, reader, tried>>

\* The script reports progress on the line it works on, and answers it once
Emits(p, kind) ==
  /\ p \in running /\ input[p] # <<>>
  /\ output' = [output EXCEPT ![p] =
                  Append(@, [id |-> input[p][1][1], kind |-> kind, of |-> input[p][1][2]])]

Progresses(p) ==
  /\ Emits(p, "progress") /\ input[p][1][2] \in Reporting
  /\ output[p] # <<>> => output[p][Len(output[p])].id # input[p][1][1]
  /\ UNCHANGED <<caller, answer, cancelled, current, procVars, idSeq, sessions, resCh,
                 input, reader, tried, broken, faults>>

Answers(p) ==
  /\ \/ Emits(p, "html") /\ UNCHANGED <<broken, faults>>
     \/ /\ Emits(p, "error") /\ faults < MaxFaults
        /\ faults' = faults + 1
        /\ broken' = broken \cup {p}
  /\ input' = [input EXCEPT ![p] = Tail(@)]
  /\ UNCHANGED <<caller, answer, cancelled, current, procVars, idSeq, sessions, resCh,
                 reader, tried>>

-----------------------------------------------------------------------------
(* The loop that reads stdout.                                             *)

\* The session of the line is looked up; a line of an unknown id is dropped
Load(p) ==
  /\ reader[p] = NoLine /\ output[p] # <<>>
  /\ LET line == output[p][1]
         found == {s \in sessions[p] : s[1] = line.id}
     IN  reader' = [reader EXCEPT ![p] =
           IF found = {} THEN NoLine
           ELSE [to |-> (CHOOSE s \in found : TRUE)[2], kind |-> line.kind, of |-> line.of]]
  /\ output' = [output EXCEPT ![p] = Tail(@)]
  /\ UNCHANGED <<caller, answer, cancelled, current, procVars, idSeq, sessions, resCh,
                 input, tried, broken, faults>>

HoldsResult(p) == reader[p] \notin {NoLine, Ended} /\ reader[p].kind # "progress"

\* The channel of a session holds one result: a second one has to wait
Deliver(p) ==
  /\ HoldsResult(p)
  /\ \A c \in resCh[p] : c[1] # reader[p].to
  /\ resCh' = [resCh EXCEPT ![p] =
                 @ \cup {<<reader[p].to, [kind |-> reader[p].kind, of |-> reader[p].of]>>}]
  /\ reader' = [reader EXCEPT ![p] = NoLine]
  /\ UNCHANGED <<caller, answer, cancelled, current, procVars, idSeq, sessions,
                 input, output, tried, broken, faults>>

HoldsProgress(p) == reader[p] \notin {NoLine, Ended} /\ reader[p].kind = "progress"

\* The reporter of the session is called
Report(p) ==
  /\ HoldsProgress(p)
  /\ reader' = [reader EXCEPT ![p] = NoLine]
  /\ UNCHANGED <<caller, answer, cancelled, current, procVars, idSeq, sessions, resCh,
                 input, output, tried, broken, faults>>

\* stdout ends, or Close has closed it
ReaderEnds(p) ==
  /\ p \in 1 .. started /\ p \notin running
  /\ reader[p] = NoLine
  /\ output[p] = <<>> \/ p \in closing
  /\ done' = done \cup {p}
  /\ reader' = [reader EXCEPT ![p] = Ended]
  /\ UNCHANGED <<caller, answer, cancelled, current, started, closing, running, idSeq,
                 sessions, resCh, input, output, tried, broken, faults>>

\* A line that is too long ends the loop while Node goes on
ReaderBreaks(p) ==
  /\ p \in running /\ reader[p] = NoLine /\ output[p] # <<>> /\ faults < MaxFaults
  /\ faults' = faults + 1
  /\ done' = done \cup {p}
  /\ reader' = [reader EXCEPT ![p] = Ended]
  /\ broken' = broken \cup {p}
  /\ UNCHANGED <<caller, answer, cancelled, current, started, closing, running, idSeq,
                 sessions, resCh, input, output, tried>>

-----------------------------------------------------------------------------
(* The callers.                                                            *)

Free == [pc |-> "free", attempt |-> 0, at |-> NoProc, id |-> 0]

At(r) == caller[r].at

Goto(r, pc) == caller' = [caller EXCEPT ![r].pc = pc]

Call(r) ==
  /\ caller[r].pc = "free"
  /\ Goto(r, "get")
  /\ UNCHANGED <<answer, cancelled, current, procVars, idSeq, sessions, resCh,
                 wireVars, tried, broken, faults>>

\* The context ends: a client disconnects, or an edit takes a minute.  It ends
\* the attempt too, and Close then breaks the process for all
Cancel(r) ==
  /\ caller[r].pc \in {"get", "admit", "register", "write", "wait"}
  /\ r \notin cancelled /\ faults < MaxFaults
  /\ faults' = faults + 1
  /\ cancelled' = cancelled \cup {r}
  /\ UNCHANGED <<caller, answer, current, procVars, idSeq, sessions, resCh,
                 wireVars, tried, broken>>

\* No retry for a caller that is cancelled
GivesUp(r) ==
  /\ caller[r].pc = "get" /\ r \in cancelled
  /\ Goto(r, "failed")
  /\ UNCHANGED <<answer, cancelled, current, procVars, idSeq, sessions, resCh,
                 wireVars, tried, broken, faults>>

Takes(r, p) ==
  /\ caller' = [caller EXCEPT ![r].pc = "admit", ![r].at = p]
  /\ tried' = [tried EXCEPT ![r] = @ \cup {p}]
  /\ current' = p

\* The current process is alive
GetCurrent(r) ==
  /\ caller[r].pc = "get" /\ r \notin cancelled
  /\ current # NoProc /\ IsAlive(current)
  /\ Takes(r, current)
  /\ UNCHANGED <<answer, cancelled, procVars, idSeq, sessions, resCh, wireVars, broken, faults>>

\* Under the mutex a dead process is closed and another one is started
GetNew(r) ==
  /\ caller[r].pc = "get" /\ r \notin cancelled /\ started < MaxProcs
  /\ current = NoProc \/ ~IsAlive(current)
  /\ started' = started + 1
  /\ Takes(r, started + 1)
  /\ running' = (running \ {current}) \cup {started + 1}
  /\ IF current = NoProc THEN UNCHANGED <<closing, done, resCh, input>> ELSE CloseRest(current)
  /\ UNCHANGED <<answer, cancelled, idSeq, sessions, output, reader, broken, faults>>

\* Node does not start: the caller fails at once, with no process in its hands
GetFails(r) ==
  /\ caller[r].pc = "get" /\ r \notin cancelled /\ faults < MaxFaults
  /\ current = NoProc \/ ~IsAlive(current)
  /\ faults' = faults + 1
  /\ caller' = [caller EXCEPT ![r].pc = "failed", ![r].at = NoProc]
  /\ current' = NoProc
  /\ running' = running \ {current}
  /\ IF current = NoProc THEN UNCHANGED <<closing, done, resCh, input>> ELSE CloseRest(current)
  /\ UNCHANGED <<answer, cancelled, started, idSeq, sessions, output, reader, tried, broken>>

\* The closing flag is read before the session is stored
Admit(r) ==
  /\ caller[r].pc = "admit"
  /\ Goto(r, IF At(r) \in closing THEN "discard" ELSE "register")
  /\ UNCHANGED <<answer, cancelled, current, procVars, idSeq, sessions, resCh,
                 wireVars, tried, broken, faults>>

\* Mutant: the id is read and not counted up
RegisterUncounted(r) ==
  /\ caller[r].pc = "register"
  /\ sessions' = [sessions EXCEPT ![At(r)] = {s \in @ : s[1] # 0} \cup {<<0, r>>}]
  /\ caller' = [caller EXCEPT ![r].pc = "write", ![r].id = 0]
  /\ UNCHANGED <<answer, cancelled, current, procVars, idSeq, resCh, wireVars, tried, broken,
                 faults>>

Register(r) ==
  /\ caller[r].pc = "register"
  /\ LET p  == At(r)
         id == idSeq[p] + 1
     IN  /\ idSeq' = [idSeq EXCEPT ![p] = id]
         /\ sessions' = [sessions EXCEPT ![p] = {s \in @ : s[1] # id} \cup {<<id, r>>}]
         /\ caller' = [caller EXCEPT ![r].pc = "write", ![r].id = id]
  /\ UNCHANGED <<answer, cancelled, current, procVars, resCh, wireVars, tried, broken, faults>>

\* Process returns: the deferred Delete, then html or the discarding of the process
Leaves(r, pc) ==
  /\ sessions' = [sessions EXCEPT ![At(r)] = {s \in @ : s[1] # caller[r].id}]
  /\ Goto(r, pc)

Write(r) ==
  /\ caller[r].pc = "write"
  /\ IF At(r) \in running
     THEN /\ input' = [input EXCEPT ![At(r)] = Append(@, <<caller[r].id, r>>)]
          /\ Goto(r, "wait")
          /\ UNCHANGED sessions
     ELSE Leaves(r, "discard") /\ UNCHANGED input
  /\ UNCHANGED <<answer, cancelled, current, procVars, idSeq, resCh, output, reader,
                 tried, broken, faults>>

\* Whichever of its channel, its context and done is ready
Receive(r) ==
  /\ caller[r].pc = "wait"
  /\ \E c \in resCh[At(r)] :
       /\ c[1] = r
       /\ resCh' = [resCh EXCEPT ![At(r)] = @ \ {c}]
       /\ IF c[2].kind = "html"
          THEN Leaves(r, "ok") /\ answer' = [answer EXCEPT ![r] = c[2].of]
          ELSE Leaves(r, "discard") /\ UNCHANGED answer
  /\ UNCHANGED <<cancelled, current, procVars, idSeq, wireVars, tried, broken, faults>>

SeesDone(r) ==
  /\ caller[r].pc = "wait"
  /\ At(r) \in done
  /\ Leaves(r, "discard")
  /\ UNCHANGED <<answer, cancelled, current, procVars, idSeq, resCh, wireVars, tried, broken,
                 faults>>

\* The 30 seconds of the attempt, or the whole context, are over
TimesOut(r) ==
  /\ caller[r].pc = "wait"
  /\ IF r \in cancelled THEN UNCHANGED faults
     ELSE faults < MaxFaults /\ faults' = faults + 1
  /\ Leaves(r, "discard")
  /\ broken' = broken \cup {At(r)}
  /\ UNCHANGED <<answer, cancelled, current, procVars, idSeq, resCh, wireVars, tried>>

\* Mutant: the current process is closed in place of that of the attempt
DiscardCurrent(r) ==
  /\ caller[r].pc = "discard"
  /\ IF current = NoProc THEN UNCHANGED <<closing, done, running, resCh, input>>
     ELSE Close(current)
  /\ current' = NoProc
  /\ caller' = [caller EXCEPT ![r].pc = IF caller[r].attempt = 0 THEN "get" ELSE "failed",
                              ![r].attempt = 1]
  /\ UNCHANGED <<answer, cancelled, started, idSeq, sessions, output, reader, tried, broken,
                 faults>>

\* Under the mutex: the process of the attempt is closed, and the current one,
\* which may be another by now, is forgotten
Discard(r) ==
  /\ caller[r].pc = "discard"
  /\ Close(At(r))
  /\ current' = NoProc
  /\ caller' = [caller EXCEPT ![r].pc = IF caller[r].attempt = 0 THEN "get" ELSE "failed",
                              ![r].attempt = 1]
  /\ UNCHANGED <<answer, cancelled, started, idSeq, sessions, output, reader, tried, broken,
                 faults>>

\* AppImpl.Close, when the server ends: the edits that are saved go on meanwhile
AppClose ==
  /\ current # NoProc /\ faults < MaxFaults
  /\ faults' = faults + 1
  /\ Close(current)
  /\ current' = NoProc
  /\ broken' = broken \cup {current}
  /\ UNCHANGED <<caller, answer, cancelled, started, idSeq, sessions, output, reader, tried>>

-----------------------------------------------------------------------------
PoolInit ==
  /\ caller = [r \in Request |-> Free]
  /\ answer = [r \in Request |-> "none"]
  /\ cancelled = {} /\ current = NoProc /\ started = 0
  /\ closing = {} /\ done = {} /\ running = {}
  /\ idSeq = [p \in Proc |-> 0]
  /\ sessions = [p \in Proc |-> {}]
  /\ resCh = [p \in Proc |-> {}]
  /\ input = [p \in Proc |-> <<>>]
  /\ output = [p \in Proc |-> <<>>]
  /\ reader = [p \in Proc |-> NoLine]
  /\ tried = [r \in Request |-> {}]
  /\ broken = {}
  /\ faults = 0

CallerStep(r) ==
  \/ GivesUp(r) \/ GetCurrent(r) \/ GetNew(r) \/ Admit(r) \/ Register(r) \/ Write(r)
  \/ Receive(r) \/ SeesDone(r) \/ TimesOut(r) \/ Discard(r)

ProcStep(p) == Answers(p) \/ Load(p) \/ Deliver(p) \/ ReaderEnds(p)

Disturb ==
  \/ \E r \in Request : Cancel(r) \/ GetFails(r)
  \/ \E p \in Proc : NodeExits(p) \/ ReaderBreaks(p)
  \/ AppClose

\* Without the calls of the reporters, which belong to the edits
PoolStep ==
  \/ \E r \in Request : CallerStep(r)
  \/ \E p \in Proc : ProcStep(p) \/ Progresses(p)
  \/ Disturb

PoolNext ==
  \/ PoolStep
  \/ \E r \in Request : Call(r)
  \/ \E p \in Proc : Report(p)

PoolSpec == PoolInit /\ [][PoolNext]_poolVars

-----------------------------------------------------------------------------
\* Whoever gets HTML gets its own, although lines of many callers are on one
\* stdin, callers leave before they are answered and ids begin anew with each
\* process (plans/postprocess_json_rpc.md:80)
AnswerIsOwn == \A r \in Request : caller[r].pc = "ok" => answer[r] = r

\* One crash, timeout, cancelled caller or page that fails breaks one process,
\* and no caller fails for less than two of them, however many share the
\* process and whoever closes it: the retry is at another, which nobody closes
\* for the failure of the first.  Only a failed start is not tried again
FailsAfterTwo ==
  \A r \in Request :
    caller[r].pc = "failed" =>
      \/ r \in cancelled \/ At(r) = NoProc
      \/ \E p, q \in tried[r] \cap broken : p # q

\* The loop that reads for all callers waits for nobody: the channel that a
\* result goes to has room, unless the process is given up
ReaderNeverStuck ==
  \A p \in Proc :
    HoldsResult(p) /\ (\E c \in resCh[p] : c[1] = reader[p].to) => p \in done
=============================================================================
