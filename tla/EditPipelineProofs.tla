------------------------- MODULE EditPipelineProofs -------------------------
(***************************************************************************)
(* For any number of edits, previews, processes, visits and faults: whoever *)
(* gets HTML gets its own (AnswerIsOwn), no caller fails for less than two *)
(* broken processes (FailsAfterTwo), the loop that reads for all callers   *)
(* never waits for one (ReaderNeverStuck), the server dies of a progress   *)
(* session only for the causes named (PanicHasCause), and a browser that   *)
(* is cut off without the outcome is that of an edit that failed           *)
(* (ClosedMeansFailure).                                                   *)
(***************************************************************************)
EXTENDS EditPipeline, SequenceTheorems, TLAPS

-----------------------------------------------------------------------------
(* Lines.                                                                  *)

LEMMA NoLines == Lines(<<>>) = {}
  BY DEF Lines

LEMMA ElementsOf == ASSUME NEW S, NEW s \in Seq(S) PROVE \A i \in 1 .. Len(s) : s[i] \in S
  OBVIOUS

LEMMA LinesOfAppend ==
  ASSUME NEW S, NEW s \in Seq(S), NEW x \in S
  PROVE  Append(s, x) \in Seq(S) /\ Lines(Append(s, x)) = Lines(s) \cup {x}
<1>1. /\ Append(s, x) \in Seq(S) /\ Len(Append(s, x)) = Len(s) + 1 /\ Len(s) \in Nat
      /\ \A i \in 1 .. Len(s) : Append(s, x)[i] = s[i]
      /\ Append(s, x)[Len(s) + 1] = x
  OBVIOUS
<1>2. 1 .. Len(s) + 1 = (1 .. Len(s)) \cup {Len(s) + 1}
  BY <1>1
<1>3. Lines(Append(s, x)) = {Append(s, x)[i] : i \in (1 .. Len(s)) \cup {Len(s) + 1}}
  BY <1>1, <1>2 DEF Lines
<1> QED
  BY <1>1, <1>3 DEF Lines

LEMMA LinesOfTail ==
  ASSUME NEW S, NEW s \in Seq(S), s # <<>>
  PROVE  /\ Tail(s) \in Seq(S) /\ s[1] \in S /\ s[1] \in Lines(s)
         /\ Lines(s) = {s[1]} \cup Lines(Tail(s))
<1>1. /\ Tail(s) \in Seq(S) /\ Len(Tail(s)) = Len(s) - 1 /\ Len(s) \in Nat /\ Len(s) >= 1
      /\ \A i \in 1 .. Len(Tail(s)) : Tail(s)[i] = s[i + 1]
      /\ \A i \in 1 .. Len(s) : s[i] \in S
  OBVIOUS
<1>2. s[1] \in S /\ s[1] \in Lines(s)
  BY <1>1 DEF Lines
<1>3. \A x \in Lines(Tail(s)) : x \in Lines(s)
  <2> SUFFICES ASSUME NEW i \in 1 .. Len(Tail(s)) PROVE Tail(s)[i] \in Lines(s)
    BY DEF Lines
  <2>1. i + 1 \in 1 .. Len(s) /\ Tail(s)[i] = s[i + 1]
    BY <1>1
  <2> QED
    BY <2>1 DEF Lines
<1>4. \A x \in Lines(s) : x = s[1] \/ x \in Lines(Tail(s))
  <2> SUFFICES ASSUME NEW i \in 1 .. Len(s), i # 1 PROVE s[i] \in Lines(Tail(s))
    BY DEF Lines
  <2>1. i - 1 \in 1 .. Len(Tail(s)) /\ Tail(s)[i - 1] = s[i]
    BY <1>1
  <2> QED
    BY <2>1 DEF Lines
<1> QED
  BY <1>1, <1>2, <1>3, <1>4

-----------------------------------------------------------------------------
(* The sessions.                                                           *)

SessionNext ==
  \/ \E e \in Edit : Create(e) \/ ReportProgress(e) \/ SaveSucceeds(e) \/ SaveFails(e)
  \/ SessionStep

LEMMA SessionInitEstablishes == SessionInit => SessionInv
<1> SUFFICES ASSUME SessionInit PROVE SessionInv
  OBVIOUS
<1>1. <<>> \in Seq({"progress", "done"})
  OBVIOUS
<1>2. SessionShapes
  BY <1>1 DEF SessionInit, SessionShapes
<1> QED
  BY <1>2 DEF SessionInit, SessionInv, QuietIsSafe, EndIsTold, EndTimers

\* A report changes a channel only while there is room
LEMMA SendKeeps ==
  ASSUME SessionShapes, NEW e \in Edit, NEW m \in {"progress", "done"}, Send(e, m)
  PROVE  /\ messages' \in [Edit -> Seq({"progress", "done"})]
         /\ Lines(messages'[e]) = Lines(messages[e]) \cup {m}
         /\ Len(messages'[e]) = Len(messages[e]) + 1
         /\ \A o \in Edit \ {e} : messages'[o] = messages[o]
<1>1. messages' = [messages EXCEPT ![e] = Append(messages[e], m)]
      /\ messages[e] \in Seq({"progress", "done"})
  BY DEF Send, SessionShapes
<1>2. /\ Append(messages[e], m) \in Seq({"progress", "done"})
      /\ Lines(Append(messages[e], m)) = Lines(messages[e]) \cup {m}
  BY <1>1, LinesOfAppend
<1>3. Len(Append(messages[e], m)) = Len(messages[e]) + 1
  BY <1>1
<1> QED
  BY <1>1, <1>2, <1>3 DEF SessionShapes

LEMMA CreateKeeps ==
  ASSUME SessionInv, ~panicked, NEW e \in Edit, Create(e)
  PROVE  SessionInv'
<1> USE DEF SessionInv
<1>0. /\ saving[e] = "idle" /\ saving' = [saving EXCEPT ![e] = "saving"]
      /\ registered' = registered \cup {e}
      /\ UNCHANGED <<messages, closed, failure, waited, late, client, panicked>>
      /\ \A o \in Edit : EndTimers(o)' = EndTimers(o)
  BY DEF Create, channel, browser, EndTimers
<1>1. SessionShapes'
  BY <1>0 DEF SessionShapes
<1>2. QuietIsSafe'
  BY <1>0 DEF QuietIsSafe, SessionShapes, HasRoom
<1>3. EndIsTold'
  BY <1>0 DEF EndIsTold, SessionShapes, Told, Refused
<1> QED
  BY <1>1, <1>2, <1>3

LEMMA ReportProgressKeeps ==
  ASSUME SessionInv, ~panicked, NEW e \in Edit, ReportProgress(e)
  PROVE  SessionInv'
<1> USE DEF SessionInv
<1>0. /\ UNCHANGED <<saving, closed, failure, registered, timers, waited, client>>
      /\ e \in closed => panicked' = TRUE /\ messages' = messages
      /\ e \notin closed => panicked' = panicked /\ SendReport(e)
      /\ late' = IF saving[e] = "saving" THEN late ELSE late \cup {e}
  BY DEF ReportProgress, table, browser
<1>1. /\ messages' \in [Edit -> Seq({"progress", "done"})]
      /\ \A o \in Edit : Lines(messages[o]) \subseteq Lines(messages'[o])
      /\ \A o \in Edit \ {e} : messages'[o] = messages[o]
  BY <1>0, SendKeeps DEF SendReport, SessionShapes
<1>2. SessionShapes'
  BY <1>0, <1>1 DEF SessionShapes
<1>3. QuietIsSafe'
  BY <1>0, <1>1 DEF QuietIsSafe, HasRoom, EndTimers, SessionShapes
<1>4. EndIsTold'
  BY <1>0, <1>1 DEF EndIsTold, Told, Refused, EndTimers
<1> QED
  BY <1>2, <1>3, <1>4

LEMMA SaveSucceedsKeeps ==
  ASSUME SessionInv, ~panicked, NEW e \in Edit, SaveSucceeds(e)
  PROVE  SessionInv'
<1> USE DEF SessionInv
<1>0. /\ saving[e] = "saving" /\ saving' = [saving EXCEPT ![e] = "sending"]
      /\ waited' = IF HasRoom(e) THEN waited ELSE waited \cup {e}
      /\ UNCHANGED <<messages, closed, failure, registered, timers, late, client, panicked>>
  BY DEF SaveSucceeds, channel, table, browser
<1>1. SessionShapes'
  BY <1>0 DEF SessionShapes
<1>2. QuietIsSafe'
  BY <1>0 DEF QuietIsSafe, HasRoom, EndTimers, SessionShapes
<1>3. EndIsTold'
  BY <1>0 DEF EndIsTold, Told, Refused, EndTimers, SessionShapes
<1> QED
  BY <1>1, <1>2, <1>3

LEMMA SaveFailsKeeps ==
  ASSUME SessionInv, ~panicked, NEW e \in Edit, SaveFails(e)
  PROVE  SessionInv'
<1> USE DEF SessionInv
<1>0. /\ saving[e] = "saving" /\ saving' = [saving EXCEPT ![e] = "ended"]
      /\ failure' = failure \cup {e} /\ timers' = timers \cup {<<e, "cleanup">>}
      /\ UNCHANGED <<messages, closed, registered, waited, late, client, panicked>>
  BY DEF SaveFails, browser
<1>1. SessionShapes'
  BY <1>0 DEF SessionShapes
<1>2. QuietIsSafe'
  BY <1>0 DEF QuietIsSafe, HasRoom, EndTimers, SessionShapes
<1>3. EndIsTold'
  BY <1>0 DEF EndIsTold, Told, Refused, EndTimers, SessionShapes
<1> QED
  BY <1>1, <1>2, <1>3

LEMMA SendDoneKeeps ==
  ASSUME SessionInv, ~panicked, NEW e \in Edit, SendDone(e)
  PROVE  SessionInv'
<1> USE DEF SessionInv
<1>0. /\ saving[e] = "sending"
      /\ UNCHANGED <<closed, failure, registered, timers, waited, late, client>>
  BY DEF SendDone, table, browser
<1>1. CASE e \in closed
  <2>1. panicked' = TRUE /\ UNCHANGED <<saving, messages>>
    BY <1>1 DEF SendDone
  <2>2. waited \cup late # {}
    BY <1>0, <1>1 DEF QuietIsSafe
  <2> QED
    BY <1>0, <2>1, <2>2 DEF SessionShapes, QuietIsSafe, EndIsTold, Told, Refused, EndTimers
<1>2. CASE e \notin closed
  <2>1. /\ Send(e, "done") /\ saving' = [saving EXCEPT ![e] = "closing"]
        /\ panicked' = panicked
    BY <1>2 DEF SendDone
  <2>2. /\ messages' \in [Edit -> Seq({"progress", "done"})]
        /\ "done" \in Lines(messages'[e])
        /\ \A o \in Edit \ {e} : messages'[o] = messages[o]
    BY <2>1, SendKeeps
  <2>3. SessionShapes'
    BY <1>0, <2>1, <2>2 DEF SessionShapes
  <2>4. QuietIsSafe'
    BY <1>0, <1>2, <2>1, <2>2 DEF QuietIsSafe, HasRoom, EndTimers, SessionShapes
  <2>5. EndIsTold'
    BY <1>0, <1>2, <2>1, <2>2 DEF EndIsTold, Told, Refused, EndTimers, SessionShapes
  <2> QED
    BY <2>3, <2>4, <2>5
<1> QED
  BY <1>1, <1>2

LEMMA CloseMessagesKeeps ==
  ASSUME SessionInv, ~panicked, NEW e \in Edit, CloseMessages(e)
  PROVE  SessionInv'
<1> USE DEF SessionInv
<1>0. /\ saving[e] = "closing" /\ saving' = [saving EXCEPT ![e] = "ended"]
      /\ panicked' = (e \in closed) /\ closed' = closed \cup {e}
      /\ timers' = timers \cup {<<e, "delete">>}
      /\ UNCHANGED <<messages, failure, registered, waited, late, client>>
  BY DEF CloseMessages, browser
<1>1. SessionShapes'
  BY <1>0 DEF SessionShapes
<1>2. QuietIsSafe'
  <2>1. EndTimers(e) = {} /\ \A o \in Edit \ {e} : EndTimers(o)' = EndTimers(o)
    BY <1>0 DEF EndTimers, EndIsTold
  <2>2. EndTimers(e)' = {<<e, "delete">>}
    BY <1>0, <2>1 DEF EndTimers
  <2>3. /\ saving'[e] = "ended"
        /\ \A o \in Edit \ {e} : saving'[o] = saving[o] /\ (o \in closed' <=> o \in closed)
    BY <1>0 DEF SessionShapes
  <2>4. waited \cup late = {} => ~panicked'
    BY <1>0 DEF QuietIsSafe
  <2> QED
    BY <1>0, <2>1, <2>2, <2>3, <2>4 DEF QuietIsSafe, HasRoom
<1>3. EndIsTold'
  BY <1>0 DEF EndIsTold, Told, Refused, EndTimers, SessionShapes
<1> QED
  BY <1>1, <1>2, <1>3

LEMMA FiveMinutesKeeps ==
  ASSUME SessionInv, ~panicked, NEW e \in Edit, FiveMinutes(e)
  PROVE  SessionInv'
<1> USE DEF SessionInv
<1>0. /\ timers' = timers \ {<<e, "fiveMinutes">>} /\ saving[e] # "saving"
      /\ IF e \in registered THEN panicked' = (e \in closed) /\ closed' = closed \cup {e}
         ELSE UNCHANGED <<panicked, closed>>
      /\ registered' = registered \ {e}
      /\ UNCHANGED <<saving, messages, failure, waited, late, client>>
      /\ \/ e \in waited
         \/ saving[e] = "sending" /\ ~HasRoom(e)
         \/ saving[e] = "ended" /\ EndTimers(e) = {}
  BY DEF FiveMinutes, Cleanup, Fires, browser, EndTimers
<1>1. \A o \in Edit : EndTimers(o)' = EndTimers(o)
  BY <1>0 DEF EndTimers
<1>2. SessionShapes'
  BY <1>0 DEF SessionShapes
<1>3. QuietIsSafe'
  BY <1>0, <1>1 DEF QuietIsSafe, HasRoom
<1>4. EndIsTold'
  BY <1>0, <1>1 DEF EndIsTold, Told, Refused
<1> QED
  BY <1>2, <1>3, <1>4

LEMMA CleanupFailedKeeps ==
  ASSUME SessionInv, ~panicked, NEW e \in Edit, CleanupFailed(e)
  PROVE  SessionInv'
<1> USE DEF SessionInv
<1>0. /\ <<e, "cleanup">> \in timers /\ timers' = timers \ {<<e, "cleanup">>}
      /\ IF e \in registered THEN panicked' = (e \in closed) /\ closed' = closed \cup {e}
         ELSE UNCHANGED <<panicked, closed>>
      /\ registered' = registered \ {e}
      /\ UNCHANGED <<saving, messages, failure, waited, late, client>>
  BY DEF CleanupFailed, Cleanup, Fires, browser
<1>1. /\ <<e, "cleanup">> \in EndTimers(e) /\ saving[e] = "ended"
      /\ \A o \in Edit : EndTimers(o)' \subseteq EndTimers(o)
      /\ \A o \in Edit \ {e} : EndTimers(o)' = EndTimers(o)
  BY <1>0 DEF EndTimers, EndIsTold
<1>2. SessionShapes'
  BY <1>0 DEF SessionShapes
<1>3. QuietIsSafe'
  <2>1. waited \cup late = {} => ~ (e \in closed \cap registered)
    BY <1>1 DEF QuietIsSafe
  <2> QED
    BY <1>0, <1>1, <2>1 DEF QuietIsSafe, HasRoom
<1>4. EndIsTold'
  BY <1>0, <1>1 DEF EndIsTold, Told, Refused
<1> QED
  BY <1>2, <1>3, <1>4

LEMMA DeleteSavedKeeps ==
  ASSUME SessionInv, ~panicked, NEW e \in Edit, DeleteSaved(e)
  PROVE  SessionInv'
<1> USE DEF SessionInv
<1>0. /\ timers' = timers \ {<<e, "delete">>} /\ registered' = registered \ {e}
      /\ UNCHANGED <<saving, messages, closed, failure, waited, late, client, panicked>>
  BY DEF DeleteSaved, Fires, channel, browser
<1>1. /\ \A o \in Edit : EndTimers(o)' \subseteq EndTimers(o)
      /\ \A o \in Edit \ {e} : EndTimers(o)' = EndTimers(o)
  BY <1>0 DEF EndTimers
<1> QED
  BY <1>0, <1>1 DEF SessionShapes, QuietIsSafe, HasRoom, EndIsTold, Told, Refused

LEMMA ListenerKeeps ==
  ASSUME SessionInv, ~panicked, NEW e \in Edit,
         ReceiveError(e) \/ SeesClosed(e) \/ Connect(e) \/ Disconnect(e)
  PROVE  SessionInv'
<1> USE DEF SessionInv
<1>0. /\ UNCHANGED <<saving, messages, closed, registered, timers, waited, late, panicked>>
      /\ \A o \in Edit : EndTimers(o)' = EndTimers(o)
  BY DEF ReceiveError, SeesClosed, Connect, Disconnect, channel, table, EndTimers
<1>1. client[e] \in [listens: BOOLEAN, learned: {"nothing", "done", "error", "closed"}]
  BY DEF SessionShapes
<1>2. SessionShapes'
  <2>1. client' \in [Edit -> [listens: BOOLEAN, learned: {"nothing", "done", "error", "closed"}]]
    <3>1. CASE ReceiveError(e) \/ SeesClosed(e)
      <4>1. \A w \in {"error", "closed"} : [listens |-> FALSE, learned |-> w]
              \in [listens: BOOLEAN, learned: {"nothing", "done", "error", "closed"}]
        OBVIOUS
      <4> QED
        BY <3>1, <4>1 DEF ReceiveError, SeesClosed, Learns, SessionShapes
    <3>2. CASE Connect(e)
      <4>1. client' = [client EXCEPT ![e].listens = TRUE]
        BY <3>2 DEF Connect
      <4> QED
        BY <4>1 DEF SessionShapes
    <3>3. CASE Disconnect(e)
      <4>1. client' = [client EXCEPT ![e].listens = FALSE]
        BY <3>3 DEF Disconnect
      <4> QED
        BY <4>1 DEF SessionShapes
    <3> QED
      BY <3>1, <3>2, <3>3
  <2> QED
    BY <1>0, <2>1 DEF SessionShapes
<1>3. QuietIsSafe'
  BY <1>0 DEF QuietIsSafe, HasRoom
<1>4. \A o \in Edit \ {e} : client'[o] = client[o]
  BY DEF SessionShapes, ReceiveError, SeesClosed, Connect, Disconnect, Learns
<1>5. CASE ReceiveError(e)
  <2>1. /\ client'[e] = [listens |-> FALSE, learned |-> "error"]
        /\ client[e].listens /\ failure' = failure \ {e}
    BY <1>5 DEF ReceiveError, Learns, SessionShapes
  <2> QED
    BY <1>0, <1>2, <1>3, <1>4, <2>1 DEF EndIsTold, Told, Refused
<1>6. CASE SeesClosed(e)
  <2>1. /\ client'[e] = [listens |-> FALSE, learned |-> "closed"]
        /\ client[e].listens /\ failure' = failure /\ e \in closed
        /\ Lines(messages[e]) = {}
    BY <1>6, NoLines DEF SeesClosed, Learns, SessionShapes, channel
  <2>2. e \in failure \/ saving[e] = "sending"
    BY <2>1 DEF EndIsTold, Told, Refused
  <2> QED
    BY <1>0, <1>2, <1>3, <1>4, <2>1, <2>2 DEF EndIsTold, Told, Refused
<1>7. CASE Connect(e) \/ Disconnect(e)
  <2>1. /\ client'[e].learned = client[e].learned /\ failure' = failure
        /\ client'[e].listens => client[e].learned \in {"nothing", "closed"}
    BY <1>1, <1>7 DEF Connect, Disconnect, SessionShapes, channel
  <2> QED
    BY <1>0, <1>2, <1>3, <1>4, <2>1 DEF EndIsTold, Told, Refused
<1> QED
  BY <1>5, <1>6, <1>7

LEMMA ReceiveMessageKeeps ==
  ASSUME SessionInv, ~panicked, NEW e \in Edit, ReceiveMessage(e)
  PROVE  SessionInv'
<1> USE DEF SessionInv
<1>0. /\ UNCHANGED <<saving, closed, failure, registered, timers, waited, late, panicked>>
      /\ messages[e] # <<>> /\ messages[e] \in Seq({"progress", "done"})
      /\ messages' = [messages EXCEPT ![e] = Tail(messages[e])]
      /\ client[e].listens
      /\ IF messages[e][1] = "done" THEN Learns(e, "done") ELSE client' = client
  BY DEF ReceiveMessage, table, SessionShapes
<1>1. /\ Tail(messages[e]) \in Seq({"progress", "done"})
      /\ Lines(messages[e]) = {messages[e][1]} \cup Lines(Tail(messages[e]))
  BY <1>0, LinesOfTail
<1>2. Len(Tail(messages[e])) = Len(messages[e]) - 1 /\ Len(messages[e]) \in Nat
  BY <1>0
<1>3. SessionShapes'
  <2>1. [listens |-> FALSE, learned |-> "done"]
          \in [listens: BOOLEAN, learned: {"nothing", "done", "error", "closed"}]
    OBVIOUS
  <2>2. client' \in [Edit -> [listens: BOOLEAN, learned: {"nothing", "done", "error", "closed"}]]
    BY <1>0, <2>1 DEF SessionShapes, Learns
  <2>3. messages' \in [Edit -> Seq({"progress", "done"})]
    BY <1>0, <1>1 DEF SessionShapes
  <2> QED
    BY <1>0, <2>2, <2>3 DEF SessionShapes
<1>4. /\ messages'[e] = Tail(messages[e])
      /\ \A o \in Edit \ {e} : messages'[o] = messages[o] /\ client'[o] = client[o]
  BY <1>0 DEF SessionShapes, Learns
<1>5. QuietIsSafe'
  BY <1>0, <1>2, <1>4, SessionBounds DEF QuietIsSafe, HasRoom, EndTimers
<1>6. CASE messages[e][1] = "done"
  <2>1. client'[e] = [listens |-> FALSE, learned |-> "done"]
    BY <1>0, <1>6 DEF Learns, SessionShapes
  <2> QED
    BY <1>0, <1>3, <1>4, <1>5, <2>1 DEF EndIsTold, Told, Refused, EndTimers
<1>7. CASE messages[e][1] # "done"
  BY <1>0, <1>1, <1>3, <1>4, <1>5, <1>7 DEF EndIsTold, Told, Refused, EndTimers
<1> QED
  BY <1>6, <1>7

LEMMA SessionKeeps == SessionInv /\ ~panicked /\ SessionNext => SessionInv'
  BY CreateKeeps, ReportProgressKeeps, SaveSucceedsKeeps, SaveFailsKeeps, SendDoneKeeps,
     CloseMessagesKeeps, FiveMinutesKeeps, CleanupFailedKeeps, DeleteSavedKeeps,
     ListenerKeeps, ReceiveMessageKeeps
  DEF SessionNext, SessionStep, GoroutineStep, TimerStep, ListenerStep

-----------------------------------------------------------------------------
(* The pool.                                                               *)

LEMMA PoolInitEstablishes == PoolInit => PoolInv
<1> SUFFICES ASSUME PoolInit PROVE PoolInv
  OBVIOUS
<1>1. Free \in [pc: {"free", "get", "admit", "register", "write", "wait", "discard", "ok", "failed"},
                attempt: {0, 1}, at: Proc \cup {NoProc}, id: Nat]
  BY DEF Free
<1>2. caller \in Callers /\ HasProc /\ \A r \in Request : caller[r].pc = "free"
  BY <1>1 DEF PoolInit, Callers, HasProc, Free
<1>3. /\ <<>> \in Seq(Nat \X Request)
      /\ <<>> \in Seq([id: Nat, kind: {"html", "error", "progress"}, of: Request])
  OBVIOUS
<1>4. PoolShapes
  BY <1>2, <1>3, PoolBounds DEF PoolInit, PoolShapes
<1>5. \A p \in Proc : Named(p) = {}
  <2>1. \A p \in Proc : Lines(input[p]) = {} /\ Lines(output[p]) = {}
    BY NoLines DEF PoolInit
  <2>2. \A p \in Proc : Printed(p) = {} /\ Writing(p) = {} /\ sessions[p] = {}
    BY <1>2, <2>1 DEF Printed, Writing, PoolInit
  <2> QED
    BY <2>1, <2>2 DEF Named
<1>6. IdsAreOwn
  BY <1>5 DEF IdsAreOwn
<1>7. ResultsAreOwn /\ AnswerIsOwn
  BY <1>2 DEF PoolInit, ResultsAreOwn, HeldIsOwn, SentIsOwn, AnswerIsOwn
<1> QED
  BY <1>4, <1>6, <1>7 DEF PoolInv

\* As long as no id is given out, it is enough that no name is new
LEMMA NamesKept ==
  ASSUME IdsAreOwn, idSeq' = idSeq, \A p \in Proc : Named(p)' \subseteq Named(p)
  PROVE  IdsAreOwn'
  BY DEF IdsAreOwn

LEMMA NobodyWritesAnew ==
  ASSUME NEW r \in Request, caller'[r].pc # "write",
         \A q \in Request \ {r} : caller'[q] = caller[q]
  PROVE  \A p \in Proc : Writing(p)' \subseteq Writing(p)
  BY DEF Writing, At

LEMMA GotoKeeps ==
  ASSUME PoolShapes, NEW r \in Request, NEW pc, Goto(r, pc),
         pc \in {"get", "admit", "register", "wait", "discard", "ok", "failed"},
         pc \in {"admit", "register", "wait", "discard"} => At(r) \in Proc
  PROVE  /\ caller' \in Callers /\ HasProc'
         /\ caller'[r].pc = pc /\ \A q \in Request \ {r} : caller'[q] = caller[q]
         /\ \A p \in Proc : Writing(p)' \subseteq Writing(p)
<1>1. caller' = [caller EXCEPT ![r].pc = pc] /\ caller \in Callers
  BY DEF Goto, PoolShapes
<1>2. caller' \in Callers
  BY <1>1 DEF Callers
<1>3. /\ caller'[r].pc = pc /\ caller'[r].at = caller[r].at
      /\ \A q \in Request \ {r} : caller'[q] = caller[q]
  BY <1>1 DEF Callers
<1>4. HasProc'
  BY <1>3 DEF HasProc, At, PoolShapes
<1> QED
  BY <1>2, <1>3, <1>4, NobodyWritesAnew

\* Closing tells those that wait and empties stdin
LEMMA CloseRestKeeps ==
  ASSUME PoolShapes, SentIsOwn, NEW p \in Proc, CloseRest(p)
  PROVE  /\ resCh' \in [Proc -> SUBSET (Request \X Content)]
         /\ input' \in [Proc -> Seq(Nat \X Request)]
         /\ SentIsOwn'
         /\ \A q \in Proc : Lines(input'[q]) \subseteq Lines(input[q])
<1>1. /\ resCh' = [resCh EXCEPT ![p] = resCh[p] \cup Closed(p)]
      /\ input' = [input EXCEPT ![p] = <<>>]
      /\ resCh \in [Proc -> SUBSET (Request \X Content)]
      /\ input \in [Proc -> Seq(Nat \X Request)]
      /\ sessions[p] \subseteq Nat \X Request
  BY DEF CloseRest, PoolShapes
<1>2. \A c \in Closed(p) : c \in Request \X Content /\ c[2].of = c[1]
  <2> SUFFICES ASSUME NEW s \in sessions[p]
               PROVE  /\ <<s[2], [kind |-> "closing", of |-> s[2]]>> \in Request \X Content
                      /\ [kind |-> "closing", of |-> s[2]].of = s[2]
    BY DEF Closed
  <2>1. s[2] \in Request
    BY <1>1
  <2>2. [kind |-> "closing", of |-> s[2]] \in Content
    BY <2>1 DEF Content
  <2> QED
    BY <2>1, <2>2
<1>3. resCh' \in [Proc -> SUBSET (Request \X Content)]
  <2> DEFINE all == Request \X Content
  <2>1. resCh[p] \cup Closed(p) \in SUBSET all
    BY <1>1, <1>2
  <2> HIDE DEF all
  <2>2. resCh' \in [Proc -> SUBSET all]
    BY <1>1, <2>1 DEF all
  <2> QED
    BY <2>2 DEF all
<1>4. SentIsOwn'
  BY <1>1, <1>2 DEF SentIsOwn
<1>5. <<>> \in Seq(Nat \X Request) /\ Lines(<<>>) = {}
  BY NoLines
<1> QED
  BY <1>1, <1>3, <1>4, <1>5

\* The steps of Node and of the reading loop that take nothing new up
LEMMA QuietKeeps ==
  ASSUME PoolInv,
         \/ \E p \in Proc : NodeExits(p) \/ ReaderEnds(p) \/ ReaderBreaks(p) \/ Report(p)
         \/ \E r \in Request : Cancel(r)
  PROVE  PoolInv'
<1> USE DEF PoolInv
<1>1. UNCHANGED <<caller, answer, current, started, idSeq, sessions, resCh, output>>
  BY DEF NodeExits, ReaderEnds, ReaderBreaks, Report, Cancel, procVars, wireVars
<1>2. /\ input' \in [Proc -> Seq(Nat \X Request)]
      /\ \A q \in Proc : Lines(input'[q]) \subseteq Lines(input[q])
  <2>1. input' = input \/ \E p \in Proc : input' = [input EXCEPT ![p] = <<>>]
    BY DEF NodeExits, ReaderEnds, ReaderBreaks, Report, Cancel, wireVars
  <2>2. <<>> \in Seq(Nat \X Request) /\ Lines(<<>>) = {}
    BY NoLines
  <2> QED
    BY <2>1, <2>2 DEF PoolShapes
<1>3. /\ reader' \in [Proc -> {NoLine, Ended} \cup
                        [to: Request, kind: {"html", "error", "progress"}, of: Request]]
      /\ \A q \in Proc : reader'[q] = reader[q] \/ reader'[q] \in {NoLine, Ended}
  <2>1. \/ reader' = reader
        \/ \E p \in Proc : \E l \in {NoLine, Ended} : reader' = [reader EXCEPT ![p] = l]
    BY DEF NodeExits, ReaderEnds, ReaderBreaks, Report, Cancel, wireVars
  <2> QED
    BY <2>1 DEF PoolShapes
<1>4. PoolShapes'
  BY <1>1, <1>2, <1>3 DEF PoolShapes, HasProc, At
<1>5. \A q \in Proc : Named(q)' \subseteq Named(q)
  BY <1>1, <1>2 DEF Named, Printed, Writing, At
<1>6. ResultsAreOwn' /\ AnswerIsOwn'
  BY <1>1, <1>3 DEF ResultsAreOwn, HeldIsOwn, SentIsOwn, AnswerIsOwn
<1> QED
  BY <1>1, <1>4, <1>5, <1>6, NamesKept

\* A line that is printed carries the id and the request of the line it answers
LEMMA EmitsKeeps ==
  ASSUME PoolInv, NEW p \in Proc, Progresses(p) \/ Answers(p)
  PROVE  PoolInv'
<1> USE DEF PoolInv
<1>1. UNCHANGED <<caller, answer, current, started, idSeq, sessions, resCh, reader>>
  BY DEF Progresses, Answers, procVars
<1>2. PICK kind \in {"html", "error", "progress"} : Emits(p, kind)
  BY DEF Progresses, Answers
<1>3. input' = input \/ input' = [input EXCEPT ![p] = Tail(input[p])]
  BY DEF Progresses, Answers
<1> DEFINE head == input[p][1]
           line == [id |-> head[1], kind |-> kind, of |-> head[2]]
           Line == [id: Nat, kind: {"html", "error", "progress"}, of: Request]
<1>4. input[p] # <<>> /\ output' = [output EXCEPT ![p] = Append(output[p], line)]
  BY <1>2 DEF Emits
<1>5. /\ input[p] \in Seq(Nat \X Request) /\ output[p] \in Seq(Line)
      /\ input \in [Proc -> Seq(Nat \X Request)] /\ output \in [Proc -> Seq(Line)]
  BY DEF PoolShapes
<1>6. /\ Tail(input[p]) \in Seq(Nat \X Request)
      /\ head \in Nat \X Request /\ head \in Lines(input[p])
      /\ Lines(Tail(input[p])) \subseteq Lines(input[p])
  BY <1>4, <1>5, LinesOfTail
<1>7. line \in Line /\ line.id = head[1] /\ line.of = head[2] /\ head = <<head[1], head[2]>>
  BY <1>6
<1> HIDE DEF line, head, Line
<1>8. /\ Append(output[p], line) \in Seq(Line)
      /\ Lines(Append(output[p], line)) = Lines(output[p]) \cup {line}
  BY <1>5, <1>7, LinesOfAppend
<1>9. /\ input' \in [Proc -> Seq(Nat \X Request)]
      /\ \A q \in Proc : Lines(input'[q]) \subseteq Lines(input[q])
  BY <1>3, <1>5, <1>6
<1>10. output' \in [Proc -> Seq(Line)]
  BY <1>4, <1>5, <1>8
<1>11. PoolShapes'
  BY <1>1, <1>9, <1>10 DEF PoolShapes, HasProc, At, Line
<1>12. \A q \in Proc : Printed(q)' \subseteq Printed(q) \cup Lines(input[q])
  <2> SUFFICES ASSUME NEW q \in Proc, NEW l \in Lines(output'[q])
               PROVE  <<l.id, l.of>> \in Printed(q) \cup Lines(input[q])
    BY DEF Printed
  <2>1. CASE l \in Lines(output[q])
    BY <2>1 DEF Printed
  <2>2. CASE l \notin Lines(output[q])
    <3>1. q = p /\ l = line
      BY <1>4, <1>5, <1>8, <2>2
    <3> QED
      BY <1>6, <1>7, <3>1
  <2> QED
    BY <2>1, <2>2
<1>13. \A q \in Proc : Writing(q)' = Writing(q) /\ sessions'[q] = sessions[q]
  BY <1>1 DEF Writing, At
<1>14. \A q \in Proc : Named(q)' \subseteq Named(q)
  BY <1>9, <1>12, <1>13 DEF Named
<1>15. ResultsAreOwn' /\ AnswerIsOwn'
  BY <1>1 DEF ResultsAreOwn, HeldIsOwn, SentIsOwn, AnswerIsOwn
<1> QED
  BY <1>1, <1>11, <1>14, <1>15, NamesKept

\* The session found for a line is that of the request of the line
LEMMA LoadKeeps ==
  ASSUME PoolInv, NEW p \in Proc, Load(p)
  PROVE  PoolInv'
<1> USE DEF PoolInv
<1> DEFINE line == output[p][1]
           found == {s \in sessions[p] : s[1] = line.id}
           Line == [id: Nat, kind: {"html", "error", "progress"}, of: Request]
           HeldLine == [to: Request, kind: {"html", "error", "progress"}, of: Request]
<1>1. UNCHANGED <<caller, answer, current, started, idSeq, sessions, resCh, input>>
  BY DEF Load, procVars
<1>2. /\ output[p] # <<>> /\ output' = [output EXCEPT ![p] = Tail(output[p])]
      /\ reader' = [reader EXCEPT ![p] =
           IF found = {} THEN NoLine
           ELSE [to |-> (CHOOSE s \in found : TRUE)[2], kind |-> line.kind, of |-> line.of]]
  BY DEF Load
<1>3. /\ output[p] \in Seq(Line) /\ output \in [Proc -> Seq(Line)]
      /\ sessions[p] \subseteq Nat \X Request
      /\ reader \in [Proc -> {NoLine, Ended} \cup HeldLine]
  BY DEF PoolShapes
<1>4. /\ Tail(output[p]) \in Seq(Line)
      /\ line \in Line /\ line \in Lines(output[p])
      /\ Lines(Tail(output[p])) \subseteq Lines(output[p])
  BY <1>2, <1>3, LinesOfTail
<1>5. output' \in [Proc -> Seq(Line)] /\ \A q \in Proc : Lines(output'[q]) \subseteq Lines(output[q])
  BY <1>2, <1>3, <1>4
<1>6. ASSUME found # {}
      PROVE  LET h == [to |-> (CHOOSE s \in found : TRUE)[2], kind |-> line.kind, of |-> line.of]
             IN  h \in HeldLine /\ h.of = h.to
  <2> DEFINE s == CHOOSE x \in found : TRUE
  <2>1. s \in found
    BY <1>6
  <2>2. s \in sessions[p] /\ s[1] = line.id
    BY <2>1
  <2> HIDE DEF s, found
  <2>3. s[2] \in Request
    BY <1>3, <2>2
  <2>4. <<line.id, line.of>> \in Printed(p)
    BY <1>4 DEF Printed
  <2>5. s \in Named(p) /\ <<line.id, line.of>> \in Named(p)
    BY <2>2, <2>4 DEF Named
  <2>6. s[2] = line.of
    BY <2>2, <2>5 DEF IdsAreOwn
  <2>7. line.kind \in {"html", "error", "progress"} /\ line.of \in Request
    BY <1>4
  <2> QED
    BY <2>3, <2>6, <2>7 DEF s
<1>7. reader' \in [Proc -> {NoLine, Ended} \cup HeldLine]
  BY <1>2, <1>3, <1>6
<1>8. HeldIsOwn'
  BY <1>2, <1>3, <1>6 DEF HeldIsOwn, ResultsAreOwn
<1>9. PoolShapes'
  BY <1>1, <1>5, <1>7 DEF PoolShapes, HasProc, At
<1>10. \A q \in Proc : Named(q)' \subseteq Named(q)
  BY <1>1, <1>5 DEF Named, Printed, Writing, At
<1>11. SentIsOwn' /\ AnswerIsOwn'
  BY <1>1 DEF ResultsAreOwn, SentIsOwn, AnswerIsOwn
<1> QED
  BY <1>1, <1>8, <1>9, <1>10, <1>11, NamesKept DEF ResultsAreOwn

LEMMA DeliverKeeps ==
  ASSUME PoolInv, NEW p \in Proc, Deliver(p)
  PROVE  PoolInv'
<1> USE DEF PoolInv
<1> DEFINE r == reader[p]
           c == <<r.to, [kind |-> r.kind, of |-> r.of]>>
           All == Request \X Content
           HeldLine == [to: Request, kind: {"html", "error", "progress"}, of: Request]
<1>1. UNCHANGED <<caller, answer, current, started, idSeq, sessions, input, output>>
  BY DEF Deliver, procVars
<1>2. /\ r \notin {NoLine, Ended} /\ r.kind # "progress"
      /\ resCh' = [resCh EXCEPT ![p] = resCh[p] \cup {c}]
      /\ reader' = [reader EXCEPT ![p] = NoLine]
  BY DEF Deliver, HoldsResult
<1>3. /\ r \in HeldLine /\ r.of = r.to
      /\ resCh \in [Proc -> SUBSET All] /\ reader \in [Proc -> {NoLine, Ended} \cup HeldLine]
  BY <1>2 DEF PoolShapes, ResultsAreOwn, HeldIsOwn
<1>4. r.to \in Request /\ r.of \in Request /\ r.kind \in {"html", "error"}
  BY <1>2, <1>3
<1> HIDE DEF r
<1>5. [kind |-> r.kind, of |-> r.of] \in Content
  BY <1>4 DEF Content
<1>6. c \in All /\ c[2].of = c[1]
  BY <1>3, <1>4, <1>5
<1> HIDE DEF c, All
<1>7. resCh' \in [Proc -> SUBSET All]
  BY <1>2, <1>3, <1>6
<1>8. SentIsOwn'
  BY <1>2, <1>3, <1>6 DEF SentIsOwn, ResultsAreOwn
<1>9. reader' \in [Proc -> {NoLine, Ended} \cup HeldLine] /\ HeldIsOwn'
  BY <1>2, <1>3 DEF HeldIsOwn, ResultsAreOwn
<1>10. PoolShapes'
  BY <1>1, <1>7, <1>9 DEF PoolShapes, HasProc, At, All
<1>11. \A q \in Proc : Named(q)' \subseteq Named(q)
  BY <1>1 DEF Named, Printed, Writing, At
<1>12. AnswerIsOwn'
  BY <1>1 DEF AnswerIsOwn
<1> QED
  BY <1>1, <1>8, <1>9, <1>10, <1>11, <1>12, NamesKept DEF ResultsAreOwn

\* The steps of a caller by itself
LEMMA MovesKeep ==
  ASSUME PoolInv, NEW r \in Request, Call(r) \/ GivesUp(r) \/ Admit(r)
  PROVE  PoolInv'
<1> USE DEF PoolInv
<1>1. UNCHANGED <<answer, current, started, idSeq, sessions, resCh, input, output, reader>>
  BY DEF Call, GivesUp, Admit, procVars, wireVars
<1>2. PICK pc \in {"get", "register", "discard", "failed"} :
        Goto(r, pc) /\ (pc \in {"register", "discard"} => At(r) \in Proc)
  <2>1. CASE Call(r) \/ GivesUp(r)
    BY <2>1 DEF Call, GivesUp
  <2>2. CASE Admit(r)
    <3>1. At(r) \in Proc
      BY <2>2 DEF Admit, PoolShapes, HasProc
    <3> QED
      BY <2>2, <3>1 DEF Admit
  <2> QED
    BY <2>1, <2>2
<1>3. /\ caller' \in Callers /\ HasProc'
      /\ caller'[r].pc = pc /\ \A q \in Request \ {r} : caller'[q] = caller[q]
      /\ \A p \in Proc : Writing(p)' \subseteq Writing(p)
  BY <1>2, GotoKeeps
<1>4. PoolShapes'
  BY <1>1, <1>3 DEF PoolShapes
<1>5. \A p \in Proc : Named(p)' \subseteq Named(p)
  BY <1>1, <1>3 DEF Named, Printed
<1>6. ResultsAreOwn' /\ AnswerIsOwn'
  BY <1>1, <1>2, <1>3 DEF ResultsAreOwn, HeldIsOwn, SentIsOwn, AnswerIsOwn
<1> QED
  BY <1>1, <1>4, <1>5, <1>6, NamesKept

\* The old process, if there is one, is closed and a caller goes on
LEMMA GetKeeps ==
  ASSUME PoolInv, NEW r \in Request, GetCurrent(r) \/ GetNew(r) \/ GetFails(r)
  PROVE  PoolInv'
<1> USE DEF PoolInv
<1>1. UNCHANGED <<answer, idSeq, sessions, output, reader>>
  BY DEF GetCurrent, GetNew, GetFails, wireVars
<1>2. current \in Proc \cup {NoProc} /\ started \in 0 .. MaxProcs /\ caller \in Callers
  BY DEF PoolShapes
<1>3. PICK pc \in {"admit", "failed"}, p \in Proc \cup {NoProc} :
        /\ caller' = [caller EXCEPT ![r].pc = pc, ![r].at = p]
        /\ current' = p
        /\ pc = "admit" => p \in Proc
        /\ started' \in 0 .. MaxProcs
  <2>1. CASE GetCurrent(r)
    BY <1>2, <2>1 DEF GetCurrent, Takes, procVars
  <2>2. CASE GetNew(r)
    <3>1. started + 1 \in Proc /\ started + 1 \in 0 .. MaxProcs
      BY <1>2, <2>2, PoolBounds DEF GetNew, Proc
    <3> QED
      BY <2>2, <3>1 DEF GetNew, Takes
  <2>3. CASE GetFails(r)
    BY <1>2, <2>3 DEF GetFails
  <2> QED
    BY <2>1, <2>2, <2>3
<1>4. caller' \in Callers
  BY <1>2, <1>3 DEF Callers
<1>5. /\ caller'[r].pc = pc /\ caller'[r].at = p
      /\ \A q \in Request \ {r} : caller'[q] = caller[q]
  BY <1>2, <1>3 DEF Callers
<1>6. HasProc'
  BY <1>3, <1>5 DEF HasProc, At, PoolShapes
<1>7. \A q \in Proc : Writing(q)' \subseteq Writing(q)
  BY <1>5, NobodyWritesAnew
<1>8. /\ resCh' \in [Proc -> SUBSET (Request \X Content)]
      /\ input' \in [Proc -> Seq(Nat \X Request)]
      /\ SentIsOwn'
      /\ \A q \in Proc : Lines(input'[q]) \subseteq Lines(input[q])
  <2>1. CASE UNCHANGED <<resCh, input>>
    BY <2>1 DEF PoolShapes, SentIsOwn, ResultsAreOwn
  <2>2. CASE current \in Proc /\ CloseRest(current)
    BY <2>2, CloseRestKeeps DEF ResultsAreOwn
  <2> QED
    BY <1>2, <2>1, <2>2 DEF GetCurrent, GetNew, GetFails, wireVars
<1>9. PoolShapes'
  BY <1>1, <1>3, <1>4, <1>6, <1>8 DEF PoolShapes
<1>10. \A q \in Proc : Named(q)' \subseteq Named(q)
  BY <1>1, <1>7, <1>8 DEF Named, Printed
<1>11. HeldIsOwn' /\ AnswerIsOwn'
  BY <1>1, <1>5 DEF ResultsAreOwn, HeldIsOwn, AnswerIsOwn
<1> QED
  BY <1>1, <1>8, <1>9, <1>10, <1>11, NamesKept DEF ResultsAreOwn

\* The attempt is over for its caller, and its process is closed
LEMMA CloseKeeps ==
  ASSUME PoolInv, (\E r \in Request : Discard(r)) \/ AppClose
  PROVE  PoolInv'
<1> USE DEF PoolInv
<1>1. UNCHANGED <<answer, started, idSeq, sessions, output, reader>> /\ current' = NoProc
  BY DEF Discard, AppClose
<1>2. PICK p \in Proc : CloseRest(p)
  <2>1. \A r \in Request : caller[r].pc = "discard" => At(r) \in Proc
    BY DEF PoolShapes, HasProc
  <2>2. current # NoProc => current \in Proc
    BY DEF PoolShapes
  <2> QED
    BY <2>1, <2>2 DEF Discard, AppClose, Close
<1>3. /\ caller' \in Callers /\ HasProc'
      /\ \A q \in Request : caller'[q] = caller[q] \/ caller'[q].pc \in {"get", "failed"}
      /\ \A q \in Proc : Writing(q)' \subseteq Writing(q)
  <2>1. CASE caller' = caller
    BY <2>1 DEF PoolShapes, HasProc, At, Writing
  <2>2. ASSUME NEW r \in Request, Discard(r) PROVE <1>3
    <3>0. PICK pc \in {"get", "failed"} : pc = IF caller[r].attempt = 0 THEN "get" ELSE "failed"
      OBVIOUS
    <3>1. caller' = [caller EXCEPT ![r].pc = pc, ![r].attempt = 1]
      BY <2>2, <3>0 DEF Discard
    <3>2. caller' \in Callers
      <4>1. caller \in Callers
        BY DEF PoolShapes
      <4>2. 1 \in {0, 1}
            /\ pc \in {"free", "get", "admit", "register", "write", "wait", "discard", "ok", "failed"}
        OBVIOUS
      <4> QED
        BY <3>1, <4>1, <4>2 DEF Callers
    <3>3. caller'[r].pc = pc /\ \A q \in Request \ {r} : caller'[q] = caller[q]
      BY <3>1 DEF PoolShapes, Callers
    <3>4. HasProc'
      BY <3>3 DEF HasProc, At, PoolShapes
    <3>5. \A q \in Proc : Writing(q)' \subseteq Writing(q)
      BY <3>3, NobodyWritesAnew
    <3> QED
      BY <3>2, <3>3, <3>4, <3>5
  <2> QED
    BY <2>1, <2>2 DEF AppClose
<1>4. /\ resCh' \in [Proc -> SUBSET (Request \X Content)]
      /\ input' \in [Proc -> Seq(Nat \X Request)]
      /\ SentIsOwn'
      /\ \A q \in Proc : Lines(input'[q]) \subseteq Lines(input[q])
  BY <1>2, CloseRestKeeps DEF ResultsAreOwn
<1>5. PoolShapes'
  BY <1>1, <1>3, <1>4 DEF PoolShapes
<1>6. \A q \in Proc : Named(q)' \subseteq Named(q)
  BY <1>1, <1>3, <1>4 DEF Named, Printed
<1>7. HeldIsOwn' /\ AnswerIsOwn'
  BY <1>1, <1>3 DEF ResultsAreOwn, HeldIsOwn, AnswerIsOwn
<1> QED
  BY <1>1, <1>4, <1>5, <1>6, <1>7, NamesKept DEF ResultsAreOwn

\* The deferred Delete
LEMMA LeavesKeeps ==
  ASSUME PoolShapes, NEW r \in Request, At(r) \in Proc, NEW pc \in {"discard", "ok"},
         Leaves(r, pc)
  PROVE  /\ caller' \in Callers /\ HasProc'
         /\ caller'[r].pc = pc /\ \A q \in Request \ {r} : caller'[q] = caller[q]
         /\ \A p \in Proc : Writing(p)' \subseteq Writing(p)
         /\ sessions' \in [Proc -> SUBSET (Nat \X Request)]
         /\ \A p \in Proc : sessions'[p] \subseteq sessions[p]
<1>1. Goto(r, pc)
  BY DEF Leaves
<1>2. sessions' = [sessions EXCEPT ![At(r)] = {s \in sessions[At(r)] : s[1] # caller[r].id}]
  BY DEF Leaves
<1> DEFINE kept == {s \in sessions[At(r)] : s[1] # caller[r].id}
<1>3. kept \subseteq sessions[At(r)]
  OBVIOUS
<1> HIDE DEF kept
<1>4. /\ sessions' \in [Proc -> SUBSET (Nat \X Request)]
      /\ \A p \in Proc : sessions'[p] \subseteq sessions[p]
  BY <1>2, <1>3 DEF PoolShapes, kept
<1> QED
  BY <1>1, <1>4, GotoKeeps

\* Process returns without a new result
LEMMA EndsKeep ==
  ASSUME PoolInv, NEW r \in Request, SeesDone(r) \/ TimesOut(r)
  PROVE  PoolInv'
<1> USE DEF PoolInv
<1>1. /\ UNCHANGED <<answer, current, started, idSeq, resCh, input, output, reader>>
      /\ Leaves(r, "discard") /\ caller[r].pc = "wait"
  BY DEF SeesDone, TimesOut, procVars, wireVars
<1>2. At(r) \in Proc
  BY <1>1 DEF PoolShapes, HasProc
<1>3. /\ caller' \in Callers /\ HasProc'
      /\ caller'[r].pc = "discard" /\ \A q \in Request \ {r} : caller'[q] = caller[q]
      /\ \A p \in Proc : Writing(p)' \subseteq Writing(p)
      /\ sessions' \in [Proc -> SUBSET (Nat \X Request)]
      /\ \A p \in Proc : sessions'[p] \subseteq sessions[p]
  BY <1>1, <1>2, LeavesKeeps
<1>4. PoolShapes'
  BY <1>1, <1>3 DEF PoolShapes
<1>5. \A p \in Proc : Named(p)' \subseteq Named(p)
  BY <1>1, <1>3 DEF Named, Printed
<1>6. ResultsAreOwn' /\ AnswerIsOwn'
  BY <1>1, <1>3 DEF ResultsAreOwn, HeldIsOwn, SentIsOwn, AnswerIsOwn
<1> QED
  BY <1>1, <1>4, <1>5, <1>6, NamesKept

\* The result in the channel of a session is that of its request
LEMMA ReceiveKeeps ==
  ASSUME PoolInv, NEW r \in Request, Receive(r)
  PROVE  PoolInv'
<1> USE DEF PoolInv
<1>1. UNCHANGED <<current, started, idSeq, input, output, reader>> /\ caller[r].pc = "wait"
  BY DEF Receive, procVars, wireVars
<1>2. At(r) \in Proc
  BY <1>1 DEF PoolShapes, HasProc
<1>3. PICK c \in resCh[At(r)] :
        /\ c[1] = r /\ resCh' = [resCh EXCEPT ![At(r)] = resCh[At(r)] \ {c}]
        /\ \/ Leaves(r, "ok") /\ answer' = [answer EXCEPT ![r] = c[2].of]
           \/ Leaves(r, "discard") /\ answer' = answer
  BY DEF Receive
<1>4. c[2].of = r
  BY <1>2, <1>3 DEF ResultsAreOwn, SentIsOwn
<1>5. PICK pc \in {"discard", "ok"} : Leaves(r, pc) /\ (pc = "ok" => answer'[r] = r)
  BY <1>3, <1>4 DEF PoolShapes
<1>6. /\ caller' \in Callers /\ HasProc'
      /\ caller'[r].pc = pc /\ \A q \in Request \ {r} : caller'[q] = caller[q]
      /\ \A p \in Proc : Writing(p)' \subseteq Writing(p)
      /\ sessions' \in [Proc -> SUBSET (Nat \X Request)]
      /\ \A p \in Proc : sessions'[p] \subseteq sessions[p]
  BY <1>2, <1>5, LeavesKeeps
<1>7. /\ answer' \in [Request -> Request \cup {"none"}]
      /\ \A q \in Request \ {r} : answer'[q] = answer[q]
  <2>1. answer' = [answer EXCEPT ![r] = c[2].of] \/ answer' = answer
    BY <1>3
  <2>2. [answer EXCEPT ![r] = c[2].of] = [answer EXCEPT ![r] = r]
    BY <1>4
  <2>3. answer' = [answer EXCEPT ![r] = r] \/ answer' = answer
    BY <2>1, <2>2
  <2>4. answer \in [Request -> Request \cup {"none"}]
    BY DEF PoolShapes
  <2> QED
    BY <2>3, <2>4
<1>8. /\ resCh' \in [Proc -> SUBSET (Request \X Content)]
      /\ \A p \in Proc : resCh'[p] \subseteq resCh[p]
  <2> DEFINE All == Request \X Content
  <2>1. resCh \in [Proc -> SUBSET All]
    BY DEF PoolShapes
  <2> HIDE DEF All
  <2>2. resCh' \in [Proc -> SUBSET All] /\ \A p \in Proc : resCh'[p] \subseteq resCh[p]
    BY <1>2, <1>3, <2>1
  <2> QED
    BY <2>2 DEF All
<1>9. PoolShapes'
  BY <1>1, <1>6, <1>7, <1>8 DEF PoolShapes
<1>10. \A p \in Proc : Named(p)' \subseteq Named(p)
  BY <1>1, <1>6 DEF Named, Printed
<1>11. ResultsAreOwn'
  BY <1>1, <1>8 DEF ResultsAreOwn, HeldIsOwn, SentIsOwn
<1>12. AnswerIsOwn'
  BY <1>5, <1>6, <1>7 DEF AnswerIsOwn
<1> QED
  BY <1>1, <1>9, <1>10, <1>11, <1>12, NamesKept

\* The line written has the id under which its caller is named already
LEMMA WriteKeeps ==
  ASSUME PoolInv, NEW r \in Request, Write(r)
  PROVE  PoolInv'
<1> USE DEF PoolInv
<1>1. /\ UNCHANGED <<answer, current, started, idSeq, resCh, output, reader>>
      /\ caller[r].pc = "write"
  BY DEF Write, procVars
<1>2. At(r) \in Proc
  BY <1>1 DEF PoolShapes, HasProc
<1> DEFINE line == <<caller[r].id, r>>
<1>3. line \in Nat \X Request
  BY DEF PoolShapes, Callers
<1>4. line \in Writing(At(r))
  BY <1>1 DEF Writing
<1>5. CASE At(r) \in running
  <2>1. /\ input' = [input EXCEPT ![At(r)] = Append(input[At(r)], line)]
        /\ Goto(r, "wait") /\ sessions' = sessions
    BY <1>5 DEF Write
  <2>2. input \in [Proc -> Seq(Nat \X Request)] /\ input[At(r)] \in Seq(Nat \X Request)
    BY <1>2 DEF PoolShapes
  <2> HIDE DEF line
  <2>3. /\ Append(input[At(r)], line) \in Seq(Nat \X Request)
        /\ Lines(Append(input[At(r)], line)) = Lines(input[At(r)]) \cup {line}
    BY <1>3, <2>2, LinesOfAppend
  <2>4. /\ caller' \in Callers /\ HasProc'
        /\ caller'[r].pc = "wait" /\ \A q \in Request \ {r} : caller'[q] = caller[q]
        /\ \A p \in Proc : Writing(p)' \subseteq Writing(p)
    BY <1>2, <2>1, GotoKeeps
  <2>5. /\ input' \in [Proc -> Seq(Nat \X Request)]
        /\ \A p \in Proc : Lines(input'[p]) \subseteq Lines(input[p]) \cup Writing(p)
    BY <1>4, <2>1, <2>2, <2>3
  <2>6. PoolShapes'
    BY <1>1, <2>1, <2>4, <2>5 DEF PoolShapes
  <2>7. \A p \in Proc : Named(p)' \subseteq Named(p)
    BY <1>1, <2>1, <2>4, <2>5 DEF Named, Printed
  <2>8. ResultsAreOwn' /\ AnswerIsOwn'
    BY <1>1, <2>4 DEF ResultsAreOwn, HeldIsOwn, SentIsOwn, AnswerIsOwn
  <2> QED
    BY <1>1, <2>6, <2>7, <2>8, NamesKept
<1>6. CASE At(r) \notin running
  <2>1. Leaves(r, "discard") /\ input' = input
    BY <1>6 DEF Write
  <2>2. /\ caller' \in Callers /\ HasProc'
        /\ caller'[r].pc = "discard" /\ \A q \in Request \ {r} : caller'[q] = caller[q]
        /\ \A p \in Proc : Writing(p)' \subseteq Writing(p)
        /\ sessions' \in [Proc -> SUBSET (Nat \X Request)]
        /\ \A p \in Proc : sessions'[p] \subseteq sessions[p]
    BY <1>2, <2>1, LeavesKeeps
  <2>3. PoolShapes'
    BY <1>1, <2>1, <2>2 DEF PoolShapes
  <2>4. \A p \in Proc : Named(p)' \subseteq Named(p)
    BY <1>1, <2>1, <2>2 DEF Named, Printed
  <2>5. ResultsAreOwn' /\ AnswerIsOwn'
    BY <1>1, <2>2 DEF ResultsAreOwn, HeldIsOwn, SentIsOwn, AnswerIsOwn
  <2> QED
    BY <1>1, <2>3, <2>4, <2>5, NamesKept
<1> QED
  BY <1>5, <1>6

\* The id that is given out is above every id of the process
LEMMA RegisterKeeps ==
  ASSUME PoolInv, NEW r \in Request, Register(r)
  PROVE  PoolInv'
<1> USE DEF PoolInv
<1>0. PICK p \in Proc : p = At(r)
  BY DEF Register, PoolShapes, HasProc
<1> DEFINE id == idSeq[p] + 1
<1>1. /\ UNCHANGED <<answer, current, started, resCh, input, output, reader>>
      /\ caller[r].pc = "register"
      /\ idSeq' = [idSeq EXCEPT ![p] = id]
      /\ sessions' = [sessions EXCEPT ![p] = {s \in sessions[p] : s[1] # id} \cup {<<id, r>>}]
      /\ caller' = [caller EXCEPT ![r].pc = "write", ![r].id = id]
  BY <1>0 DEF Register, procVars, wireVars
<1>2. p \in Proc /\ idSeq[p] \in Nat /\ id \in Nat
  BY DEF PoolShapes
<1> HIDE DEF id
<1>3. caller' \in Callers
  <2>1. caller \in Callers
    BY DEF PoolShapes
  <2> QED
    BY <1>1, <1>2, <2>1 DEF Callers
<1>4. /\ caller'[r].pc = "write" /\ caller'[r].at = p /\ caller'[r].id = id
      /\ \A q \in Request \ {r} : caller'[q] = caller[q]
  <2>1. caller \in Callers
    BY DEF PoolShapes
  <2> QED
    BY <1>0, <1>1, <2>1 DEF Callers, At
<1>5. HasProc'
  BY <1>2, <1>4 DEF HasProc, At, PoolShapes
<1>6. /\ sessions' \in [Proc -> SUBSET (Nat \X Request)]
      /\ \A q \in Proc \ {p} : sessions'[q] = sessions[q]
      /\ sessions'[p] \subseteq sessions[p] \cup {<<id, r>>}
  <2>1. sessions \in [Proc -> SUBSET (Nat \X Request)]
    BY DEF PoolShapes
  <2>2. <<id, r>> \in Nat \X Request
    BY <1>2
  <2> DEFINE all == Nat \X Request
             new == {s \in sessions[p] : s[1] # id} \cup {<<id, r>>}
  <2>3. new \in SUBSET all /\ new \subseteq sessions[p] \cup {<<id, r>>}
    BY <1>2, <2>1, <2>2
  <2>4. sessions' = [sessions EXCEPT ![p] = new]
    BY <1>1
  <2> HIDE DEF all, new
  <2>5. sessions \in [Proc -> SUBSET all]
    BY <2>1 DEF all
  <2>6. /\ sessions' \in [Proc -> SUBSET all] /\ sessions'[p] = new
        /\ \A q \in Proc \ {p} : sessions'[q] = sessions[q]
    BY <1>2, <2>3, <2>4, <2>5
  <2> QED
    BY <2>3, <2>6 DEF all
<1>7. /\ idSeq' \in [Proc -> Nat] /\ idSeq'[p] = id
      /\ \A q \in Proc \ {p} : idSeq'[q] = idSeq[q]
  BY <1>1, <1>2 DEF PoolShapes
<1>8. PoolShapes'
  BY <1>1, <1>3, <1>5, <1>6, <1>7 DEF PoolShapes
<1>9. /\ \A q \in Proc \ {p} : Writing(q)' \subseteq Writing(q)
      /\ Writing(p)' \subseteq Writing(p) \cup {<<id, r>>}
  BY <1>4 DEF Writing, At
<1>10. /\ \A q \in Proc \ {p} : Named(q)' \subseteq Named(q)
       /\ Named(p)' \subseteq Named(p) \cup {<<id, r>>}
  BY <1>1, <1>6, <1>9 DEF Named, Printed
<1>11. \A x \in Named(p) : x \in Nat \X Request
  <2>1. \A x \in Lines(input[p]) : x \in Nat \X Request
    BY <1>2 DEF Lines, PoolShapes
  <2>2. \A x \in Printed(p) : x \in Nat \X Request
    <3>1. output[p] \in Seq([id: Nat, kind: {"html", "error", "progress"}, of: Request])
      BY <1>2 DEF PoolShapes
    <3>2. ASSUME NEW i \in 1 .. Len(output[p])
          PROVE  <<output[p][i].id, output[p][i].of>> \in Nat \X Request
      <4>1. output[p][i] \in [id: Nat, kind: {"html", "error", "progress"}, of: Request]
        BY <3>1, ElementsOf
      <4> QED
        BY <4>1
    <3> QED
      BY <3>2 DEF Printed, Lines
  <2>3. \A x \in Writing(p) : x \in Nat \X Request
    BY DEF Writing, PoolShapes, Callers
  <2>4. \A x \in sessions[p] : x \in Nat \X Request
    BY <1>2 DEF PoolShapes
  <2> QED
    BY <2>1, <2>2, <2>3, <2>4 DEF Named
<1>12. \A x \in Named(p) : x[1] < id
  <2> SUFFICES ASSUME NEW x \in Named(p) PROVE x[1] < id
    OBVIOUS
  <2>1. x[1] \in Nat /\ x[1] <= idSeq[p]
    BY <1>2, <1>11 DEF IdsAreOwn
  <2> QED
    BY <1>2, <2>1 DEF id
<1>13. IdsAreOwn'
  <2>1. ASSUME NEW q \in Proc \ {p}
        PROVE  /\ \A x \in Named(q)' : x[1] <= idSeq'[q]
               /\ \A x, y \in Named(q)' : x[1] = y[1] => x[2] = y[2]
    BY <1>7, <1>10 DEF IdsAreOwn
  <2>2. \A x \in Named(p)' : x[1] <= idSeq'[p]
    <3> SUFFICES ASSUME NEW x \in Named(p)' PROVE x[1] <= id
      BY <1>7
    <3>1. CASE x \in Named(p)
      <4>1. x[1] \in Nat /\ x[1] < id
        BY <1>11, <1>12, <3>1
      <4> QED
        BY <1>2, <4>1
    <3>2. CASE x = <<id, r>>
      BY <1>2, <3>2
    <3> QED
      BY <1>10, <3>1, <3>2
  <2>3. \A x, y \in Named(p)' : x[1] = y[1] => x[2] = y[2]
    <3> SUFFICES ASSUME NEW x \in Named(p)', NEW y \in Named(p)', x[1] = y[1]
                 PROVE  x[2] = y[2]
      OBVIOUS
    <3>1. \A z \in Named(p) : z[1] # id
      BY <1>2, <1>11, <1>12
    <3>2. <<id, r>>[1] = id
      OBVIOUS
    <3>3. CASE x \in Named(p) /\ y \in Named(p)
      BY <1>2, <3>3 DEF IdsAreOwn
    <3>4. CASE x = <<id, r>> \/ y = <<id, r>>
      BY <1>10, <3>1, <3>2, <3>4
    <3> QED
      BY <1>10, <3>3, <3>4
  <2> QED
    BY <2>1, <2>2, <2>3 DEF IdsAreOwn
<1>14. ResultsAreOwn' /\ AnswerIsOwn'
  BY <1>1, <1>4 DEF ResultsAreOwn, HeldIsOwn, SentIsOwn, AnswerIsOwn
<1> QED
  BY <1>8, <1>13, <1>14

LEMMA PoolKeeps == PoolInv /\ PoolNext => PoolInv'
<1> SUFFICES ASSUME PoolInv, PoolNext PROVE PoolInv'
  OBVIOUS
<1>1. ASSUME NEW r \in Request, CallerStep(r) PROVE PoolInv'
  BY <1>1, MovesKeep, GetKeeps, RegisterKeeps, WriteKeeps, ReceiveKeeps, EndsKeep, CloseKeeps
  DEF CallerStep
<1>2. ASSUME NEW p \in Proc, ProcStep(p) \/ Progresses(p) \/ Report(p) PROVE PoolInv'
  BY <1>2, EmitsKeeps, LoadKeeps, DeliverKeeps, QuietKeeps DEF ProcStep
<1>3. CASE Disturb
  BY <1>3, QuietKeeps, GetKeeps, CloseKeeps DEF Disturb
<1>4. ASSUME NEW r \in Request, Call(r) PROVE PoolInv'
  BY <1>4, MovesKeep
<1> QED
  BY <1>1, <1>2, <1>3, <1>4 DEF PoolNext, PoolStep

-----------------------------------------------------------------------------
(* What failures are blamed on.                                            *)

FailureIsTold(r) ==
  caller[r].pc = "failed" =>
    \/ r \in cancelled \/ At(r) = NoProc
    \/ \E p, q \in tried[r] \cap broken : p # q

\* What is remembered only grows
Remembers ==
  /\ started <= started' /\ started' \in Nat
  /\ done \subseteq done' /\ broken \subseteq broken' /\ cancelled \subseteq cancelled'
  /\ tried' \in [Request -> SUBSET Proc] /\ \A r \in Request : tried[r] \subseteq tried'[r]

LEMMA OneCallerMoves ==
  ASSUME PoolShapes, AttemptsAreTold, FailsAfterTwo, Remembers, current' <= started',
         \A r \in Request : caller'[r] = caller[r] \/ (AttemptIsTold(r)' /\ FailureIsTold(r)')
  PROVE  AttemptsAreTold' /\ FailsAfterTwo'
<1>1. ASSUME NEW r \in Request PROVE AttemptIsTold(r)' /\ FailureIsTold(r)'
  <2>1. CASE caller'[r] = caller[r]
    <3>1. AttemptIsTold(r) /\ FailureIsTold(r)
      BY DEF AttemptsAreTold, FailsAfterTwo, FailureIsTold
    <3>2. At(r) \in Nat /\ started \in Nat /\ started' \in Nat /\ At(r)' = At(r)
      BY <2>1 DEF PoolShapes, Callers, At, Proc, NoProc, Remembers
    <3>3. At(r)' <= started'
      BY <3>1, <3>2 DEF AttemptIsTold, Remembers
    <3>4. FailureIsTold(r)'
      BY <2>1, <3>1, <3>2 DEF FailureIsTold, Remembers
    <3> QED
      BY <2>1, <3>1, <3>2, <3>3, <3>4 DEF AttemptIsTold, Uses, Remembers
  <2> QED
    BY <2>1
<1>2. AttemptsAreTold'
  BY <1>1 DEF AttemptsAreTold, Remembers
<1> QED
  BY <1>1, <1>2 DEF FailsAfterTwo, FailureIsTold

LEMMA BlameInitEstablishes == PoolInit => BlameInv
<1> SUFFICES ASSUME PoolInit PROVE BlameInv
  OBVIOUS
<1>1. \A r \in Request : caller[r] = Free
  BY DEF PoolInit
<1>2. \A p \in Proc : Lines(output[p]) = {} /\ reader[p] = NoLine /\ resCh[p] = {}
  BY NoLines DEF PoolInit
<1>3. EndsHaveCauses
  BY <1>2 DEF PoolInit, EndsHaveCauses
<1>4. AttemptsAreTold
  BY <1>1 DEF PoolInit, AttemptsAreTold, AttemptIsTold, Uses, At, Free, NoProc
<1>5. FailsAfterTwo
  BY <1>1 DEF FailsAfterTwo, Free
<1> QED
  BY <1>3, <1>4, <1>5 DEF BlameInv

\* A process that is closed was broken before
LEMMA CloseHasCause ==
  ASSUME PoolShapes, EndsHaveCauses, NEW p \in Proc, CloseRest(p), p \in broken',
         broken \subseteq broken', UNCHANGED <<output, reader>>,
         \A q \in 1 .. started' : q \in running' \/ q \in broken'
  PROVE  EndsHaveCauses'
<1>1. closing' = closing \cup {p} /\ done' = done \cup {p}
      /\ \A q \in Proc \ {p} : resCh'[q] = resCh[q]
  BY DEF CloseRest, PoolShapes
<1> QED
  BY <1>1 DEF EndsHaveCauses

LEMMA NothingEnds ==
  ASSUME EndsHaveCauses, UNCHANGED <<started, closing, done, running, output, reader>>,
         broken \subseteq broken',
         \A p \in Proc : \A c \in resCh'[p] : c \in resCh[p]
  PROVE  EndsHaveCauses'
  BY DEF EndsHaveCauses

\* The steps of Node and of the reading loop, and the end of a context
LEMMA ProcBlame ==
  ASSUME PoolInv, BlameInv,
         \/ \E p \in Proc : ProcStep(p) \/ Progresses(p) \/ Report(p) \/ NodeExits(p) \/ ReaderBreaks(p)
         \/ \E r \in Request : Cancel(r)
  PROVE  BlameInv'
<1> USE DEF BlameInv
<1>1. /\ UNCHANGED <<caller, current, started, tried>>
      /\ done \subseteq done' /\ broken \subseteq broken' /\ cancelled \subseteq cancelled'
  BY DEF ProcStep, Progresses, Answers, Load, Deliver, ReaderEnds, Report, NodeExits, ReaderBreaks,
         Cancel, procVars, wireVars
<1>2. started \in Nat
  BY DEF PoolInv, PoolShapes
<1>3. AttemptsAreTold' /\ FailsAfterTwo'
  BY <1>1, <1>2, OneCallerMoves DEF Remembers, PoolInv, AttemptsAreTold
<1>4. EndsHaveCauses'
  <2>1. ASSUME NEW r \in Request, Cancel(r) PROVE EndsHaveCauses'
    BY <2>1 DEF Cancel, procVars, wireVars, EndsHaveCauses
  <2>2. ASSUME NEW p \in Proc, NodeExits(p) PROVE EndsHaveCauses'
    BY <2>2 DEF NodeExits, EndsHaveCauses
  <2>3. ASSUME NEW p \in Proc, ReaderBreaks(p) PROVE EndsHaveCauses'
    <3>1. /\ broken' = broken \cup {p} /\ done' = done \cup {p}
          /\ UNCHANGED <<started, closing, running, resCh, output>>
          /\ \A q \in Proc \ {p} : reader'[q] = reader[q]
      BY <2>3 DEF ReaderBreaks, PoolInv, PoolShapes
    <3> QED
      BY <3>1 DEF EndsHaveCauses
  <2>4. ASSUME NEW p \in Proc, Report(p) \/ ReaderEnds(p) PROVE EndsHaveCauses'
    <3>1. /\ UNCHANGED <<started, closing, running, resCh, output, broken>>
          /\ \A q \in Proc : reader'[q] = reader[q] \/ reader'[q] \in {NoLine, Ended}
          /\ done' = done \/ (done' = done \cup {p} /\ p \in 1 .. started /\ p \notin running)
      BY <2>4 DEF Report, ReaderEnds, procVars, PoolInv, PoolShapes
    <3> QED
      BY <3>1 DEF EndsHaveCauses
  <2>5. ASSUME NEW p \in Proc, Load(p) PROVE EndsHaveCauses'
    <3>1. /\ UNCHANGED <<started, closing, done, running, resCh, broken>>
          /\ output[p] # <<>> /\ output' = [output EXCEPT ![p] = Tail(output[p])]
          /\ \A q \in Proc \ {p} : reader'[q] = reader[q]
          /\ reader'[p] = NoLine \/ reader'[p].kind = output[p][1].kind
      BY <2>5 DEF Load, procVars, PoolInv, PoolShapes
    <3>2. /\ output[p][1] \in Lines(output[p]) /\ Lines(Tail(output[p])) \subseteq Lines(output[p])
          /\ output \in [Proc -> Seq([id: Nat, kind: {"html", "error", "progress"}, of: Request])]
      BY <3>1, LinesOfTail DEF PoolInv, PoolShapes
    <3>3. \A q \in Proc : Lines(output'[q]) \subseteq Lines(output[q])
      BY <3>1, <3>2
    <3> QED
      BY <3>1, <3>2, <3>3 DEF EndsHaveCauses
  <2>6. ASSUME NEW p \in Proc, Deliver(p) PROVE EndsHaveCauses'
    <3> DEFINE c == <<reader[p].to, [kind |-> reader[p].kind, of |-> reader[p].of]>>
    <3>1. /\ UNCHANGED <<started, closing, done, running, output, broken>>
          /\ \A q \in Proc \ {p} : reader'[q] = reader[q] /\ resCh'[q] = resCh[q]
          /\ resCh'[p] = resCh[p] \cup {c} /\ reader'[p] = NoLine
          /\ HoldsResult(p)
      BY <2>6 DEF Deliver, procVars, PoolInv, PoolShapes
    <3>2. reader[p].kind \in {"html", "error"} /\ reader[p] \notin {NoLine, Ended}
      BY <3>1 DEF HoldsResult, PoolInv, PoolShapes
    <3>3. p \notin broken => c[2].kind = "html"
      BY <3>2 DEF EndsHaveCauses
    <3> HIDE DEF c
    <3> QED
      BY <3>1, <3>3 DEF EndsHaveCauses
  <2>7. ASSUME NEW p \in Proc, Progresses(p) \/ Answers(p) PROVE EndsHaveCauses'
    <3>1. UNCHANGED <<started, closing, done, running, resCh, reader>>
      BY <2>7 DEF Progresses, Answers, procVars
    <3>2. PICK kind \in {"html", "error", "progress"} :
            Emits(p, kind) /\ (kind = "error" => p \in broken')
      BY <2>7 DEF Progresses, Answers
    <3> DEFINE line == [id |-> input[p][1][1], kind |-> kind, of |-> input[p][1][2]]
               Line == [id: Nat, kind: {"html", "error", "progress"}, of: Request]
    <3>3. input[p] # <<>> /\ input[p] \in Seq(Nat \X Request)
          /\ output' = [output EXCEPT ![p] = Append(output[p], line)]
          /\ output \in [Proc -> Seq(Line)]
      BY <3>2 DEF Emits, PoolInv, PoolShapes
    <3>4. input[p][1] \in Nat \X Request
      BY <3>3, LinesOfTail
    <3>5. line \in Line /\ line.kind = kind
      BY <3>4
    <3> HIDE DEF line, Line
    <3>6. Lines(Append(output[p], line)) = Lines(output[p]) \cup {line}
      BY <3>3, <3>5, LinesOfAppend
    <3>7. /\ \A q \in Proc \ {p} : output'[q] = output[q]
          /\ Lines(output'[p]) = Lines(output[p]) \cup {line}
      BY <3>3, <3>6
    <3> QED
      BY <1>1, <3>1, <3>2, <3>5, <3>7 DEF EndsHaveCauses
  <2> QED
    BY <2>1, <2>2, <2>3, <2>4, <2>5, <2>6, <2>7 DEF ProcStep
<1> QED
  BY <1>3, <1>4

\* A caller that goes on at the process it has
LEMMA CallerBlame ==
  ASSUME PoolInv, BlameInv, NEW r \in Request,
         \/ Call(r) \/ GivesUp(r) \/ Admit(r) \/ Register(r) \/ Write(r) \/ Receive(r)
         \/ SeesDone(r) \/ TimesOut(r)
  PROVE  BlameInv'
<1> USE DEF BlameInv
<1>1. /\ UNCHANGED <<cancelled, current, started, closing, done, running, output, reader, tried>>
      /\ broken \subseteq broken'
  BY DEF Call, GivesUp, Admit, Register, Write, Receive, SeesDone, TimesOut, procVars, wireVars
<1>2. started \in 0 .. MaxProcs /\ started \in Nat /\ caller \in Callers
      /\ (caller[r].pc \in {"admit", "register", "write", "wait", "discard"} => At(r) \in Proc)
  BY DEF PoolInv, PoolShapes, HasProc
<1>3. \A p \in Proc : \A c \in resCh'[p] : c \in resCh[p]
  BY DEF Call, GivesUp, Admit, Register, Write, Receive, SeesDone, TimesOut, PoolInv, PoolShapes
<1>4. EndsHaveCauses'
  BY <1>1, <1>3, NothingEnds
<1>5. At(r) <= started /\ (Uses(r) => At(r) \in Proc /\ At(r) \in 1 .. started)
  BY <1>2 DEF AttemptsAreTold, AttemptIsTold, Uses, Proc
<1>6. PICK pc : /\ caller'[r].pc = pc /\ caller'[r].at = caller[r].at
                /\ caller'[r].attempt = caller[r].attempt
                /\ \A q \in Request \ {r} : caller'[q] = caller[q]
                /\ \/ caller[r].pc = "free" /\ pc = "get"
                   \/ caller[r].pc = "get" /\ pc = "failed" /\ r \in cancelled
                   \/ Uses(r) /\ pc \in {"register", "write", "wait", "ok"}
                   \/ Uses(r) /\ pc = "discard" /\ At(r) \in broken'
  <2>1. CASE Call(r) \/ GivesUp(r)
    BY <1>2, <2>1 DEF Call, GivesUp, Goto, Callers
  <2>2. CASE Admit(r)
    <3>1. PICK pc \in {"register", "discard"} :
            Goto(r, pc) /\ (pc = "discard" => At(r) \in closing) /\ Uses(r)
      BY <2>2 DEF Admit, Uses
    <3>2. caller' = [caller EXCEPT ![r].pc = pc]
      BY <3>1 DEF Goto
    <3> QED
      BY <1>1, <1>2, <3>1, <3>2 DEF Callers, EndsHaveCauses
  <2>3. CASE Register(r)
    <3>1. Uses(r) /\ caller' = [caller EXCEPT ![r].pc = "write", ![r].id = idSeq[At(r)] + 1]
      BY <2>3 DEF Register, Uses
    <3> QED
      BY <1>2, <3>1 DEF Callers
  <2>4. CASE Write(r)
    <3>1. Uses(r) /\ (Goto(r, "wait") \/ (Goto(r, "discard") /\ At(r) \notin running))
      BY <2>4 DEF Write, Uses, Leaves
    <3>2. At(r) \notin running => At(r) \in broken
      BY <1>5, <3>1 DEF EndsHaveCauses
    <3> QED
      BY <1>1, <1>2, <3>1, <3>2 DEF Goto, Callers
  <2>5. CASE Receive(r)
    <3>1. PICK c \in resCh[At(r)] :
            IF c[2].kind = "html" THEN Leaves(r, "ok") ELSE Leaves(r, "discard")
      BY <2>5 DEF Receive
    <3>2. Uses(r)
      BY <2>5 DEF Receive, Uses
    <3>3. c[2].kind # "html" => At(r) \in broken
      BY <1>5, <3>2 DEF EndsHaveCauses
    <3>4. Goto(r, "ok") \/ (Goto(r, "discard") /\ At(r) \in broken)
      BY <3>1, <3>3 DEF Leaves
    <3> QED
      BY <1>1, <1>2, <3>2, <3>4 DEF Goto, Callers
  <2>6. CASE SeesDone(r) \/ TimesOut(r)
    <3>1. Uses(r) /\ Goto(r, "discard") /\ At(r) \in broken'
      BY <1>1, <2>6 DEF SeesDone, TimesOut, Uses, Leaves, EndsHaveCauses
    <3> QED
      BY <1>2, <3>1 DEF Goto, Callers
  <2> QED
    BY <2>1, <2>2, <2>3, <2>4, <2>5, <2>6
<1>7. AttemptIsTold(r)
  BY DEF AttemptsAreTold
<1>8. AttemptIsTold(r)'
  BY <1>1, <1>6, <1>7 DEF AttemptIsTold, Uses, At
<1>9. FailureIsTold(r)'
  BY <1>1, <1>6 DEF FailureIsTold, Uses
<1>10. AttemptsAreTold' /\ FailsAfterTwo'
  BY <1>1, <1>2, <1>6, <1>8, <1>9, OneCallerMoves DEF Remembers, PoolInv, AttemptsAreTold
<1> QED
  BY <1>4, <1>10

\* The process that is taken is not the one that broke before
LEMMA GetBlame ==
  ASSUME PoolInv, BlameInv, NEW r \in Request, GetCurrent(r) \/ GetNew(r) \/ GetFails(r)
  PROVE  BlameInv'
<1> USE DEF BlameInv
<1>1. /\ UNCHANGED <<cancelled, output, reader, broken>> /\ caller[r].pc = "get"
      /\ current \in Proc \cup {NoProc} /\ started \in 0 .. MaxProcs /\ caller \in Callers
      /\ started \in Nat /\ At(r) <= started /\ current <= started
      /\ tried \in [Request -> SUBSET Proc]
      /\ AttemptIsTold(r)
  BY PoolBounds DEF GetCurrent, GetNew, GetFails, wireVars, PoolInv, PoolShapes, AttemptsAreTold, AttemptIsTold
<1>2. done \subseteq done' /\ started' \in {started, started + 1}
  BY DEF GetCurrent, GetNew, GetFails, procVars, CloseRest
<1>3. \/ current = NoProc /\ UNCHANGED <<closing, done, resCh>>
      \/ current \in Proc /\ IsAlive(current) /\ UNCHANGED <<closing, done, resCh>>
      \/ current \in Proc /\ current \in broken /\ CloseRest(current)
  BY <1>1 DEF GetCurrent, GetNew, GetFails, procVars, IsAlive, EndsHaveCauses
<1>4. \A p \in 1 .. started' : p \in running' \/ p \in broken
  BY <1>1 DEF GetCurrent, GetNew, GetFails, procVars, IsAlive, EndsHaveCauses, NoProc
<1>5. EndsHaveCauses'
  <2>1. CASE UNCHANGED <<closing, done, resCh>>
    BY <1>1, <1>4, <2>1 DEF EndsHaveCauses
  <2>2. CASE current \in Proc /\ current \in broken /\ CloseRest(current)
    BY <1>1, <1>4, <2>2, CloseHasCause DEF PoolInv
  <2> QED
    BY <1>3, <2>1, <2>2
<1>6. CASE GetFails(r)
  <2>1. /\ caller' = [caller EXCEPT ![r].pc = "failed", ![r].at = NoProc]
        /\ current' = NoProc /\ UNCHANGED <<started, tried>>
    BY <1>6 DEF GetFails
  <2>2. /\ caller'[r].pc = "failed" /\ caller'[r].at = NoProc
        /\ \A q \in Request \ {r} : caller'[q] = caller[q]
    BY <1>1, <2>1 DEF Callers
  <2>3. AttemptIsTold(r)' /\ FailureIsTold(r)'
    BY <1>1, <2>1, <2>2 DEF AttemptIsTold, FailureIsTold, Uses, At, NoProc
  <2>4. Remembers /\ current' <= started'
    BY <1>1, <1>2, <2>1 DEF Remembers, NoProc
  <2>5. AttemptsAreTold' /\ FailsAfterTwo'
    BY <2>2, <2>3, <2>4, OneCallerMoves DEF PoolInv
  <2> QED
    BY <1>5, <2>5
<1>7. CASE GetCurrent(r) \/ GetNew(r)
  <2>1. PICK p \in Proc : Takes(r, p) /\ p <= started' /\ p # NoProc /\ (p \notin done \/ p > started)
    <3>1. CASE GetCurrent(r)
      BY <1>1, <3>1 DEF GetCurrent, IsAlive, procVars
    <3>2. CASE GetNew(r)
      <4>1. started + 1 \in Proc
        BY <1>1, <3>2, PoolBounds DEF GetNew, Proc
      <4> QED
        BY <1>1, <3>2, <4>1 DEF GetNew, NoProc
    <3> QED
      BY <1>7, <3>1, <3>2
  <2>2. /\ caller' = [caller EXCEPT ![r].pc = "admit", ![r].at = p]
        /\ tried' = [tried EXCEPT ![r] = tried[r] \cup {p}] /\ current' = p
    BY <2>1 DEF Takes
  <2>3. /\ caller'[r].pc = "admit" /\ caller'[r].at = p /\ caller'[r].attempt = caller[r].attempt
        /\ \A q \in Request \ {r} : caller'[q] = caller[q]
    BY <1>1, <2>2 DEF Callers
  <2>4. /\ tried' \in [Request -> SUBSET Proc] /\ \A q \in Request : tried[q] \subseteq tried'[q]
        /\ p \in tried'[r]
    BY <1>1, <2>2
  <2>5. caller[r].attempt = 1 => At(r) \in tried[r] \cap broken /\ At(r) # p
    BY <1>1, <2>1 DEF AttemptIsTold, Proc
  <2>6. caller[r].attempt = 1 => \E q \in tried'[r] \cap broken' : q # p
    BY <1>1, <2>4, <2>5
  <2>7. AttemptIsTold(r)' /\ FailureIsTold(r)'
    BY <1>1, <2>1, <2>3, <2>4, <2>6 DEF AttemptIsTold, FailureIsTold, Uses, At
  <2>8. Remembers
    BY <1>1, <1>2, <2>4 DEF Remembers
  <2>9. AttemptsAreTold' /\ FailsAfterTwo'
    BY <2>1, <2>2, <2>3, <2>7, <2>8, OneCallerMoves DEF PoolInv
  <2> QED
    BY <1>5, <2>9
<1> QED
  BY <1>6, <1>7

\* A process is closed for a failure at it, so a caller that gives up saw two fail
LEMMA DiscardBlame ==
  ASSUME PoolInv, BlameInv, (\E r \in Request : Discard(r)) \/ AppClose
  PROVE  BlameInv'
<1> USE DEF BlameInv
<1>0. /\ UNCHANGED <<cancelled, started, output, reader, tried>> /\ current' = NoProc
      /\ broken \subseteq broken'
  BY DEF Discard, AppClose
<1>1. /\ UNCHANGED <<cancelled, started, output, reader, tried>> /\ current' = NoProc
      /\ broken \subseteq broken' /\ started \in Nat /\ caller \in Callers
  BY <1>0, PoolBounds DEF PoolInv, PoolShapes
<1>2. PICK p \in Proc : CloseRest(p) /\ running' = running \ {p} /\ p \in broken'
  <2>1. ASSUME NEW r \in Request, Discard(r)
        PROVE  \E p \in Proc : CloseRest(p) /\ running' = running \ {p} /\ p \in broken'
    <3>1. At(r) \in Proc /\ At(r) \in broken
      BY <2>1 DEF Discard, PoolInv, PoolShapes, HasProc, AttemptsAreTold, AttemptIsTold
    <3> QED
      BY <1>1, <2>1, <3>1 DEF Discard, Close
  <2>2. CASE AppClose
    BY <2>2 DEF AppClose, Close, PoolInv, PoolShapes
  <2> QED
    BY <2>1, <2>2
<1>3. \A q \in 1 .. started' : q \in running' \/ q \in broken'
  BY <1>1, <1>2 DEF EndsHaveCauses
<1>4. EndsHaveCauses'
  BY <1>1, <1>2, <1>3, CloseHasCause DEF PoolInv
<1>5. done \subseteq done' /\ p \in done'
  BY <1>2 DEF CloseRest
<1>6. Remembers /\ current' <= started'
  BY <1>1, <1>5 DEF Remembers, AttemptsAreTold, NoProc
<1>7. \A r \in Request : caller'[r] = caller[r] \/ (AttemptIsTold(r)' /\ FailureIsTold(r)')
  <2>1. CASE AppClose
    BY <2>1 DEF AppClose
  <2>2. ASSUME NEW r \in Request, Discard(r) PROVE <1>7
    <3>1. PICK pc \in {"get", "failed"} :
            /\ pc = IF caller[r].attempt = 0 THEN "get" ELSE "failed"
            /\ caller' = [caller EXCEPT ![r].pc = pc, ![r].attempt = 1]
      BY <2>2 DEF Discard
    <3>2. /\ caller'[r].pc = pc /\ caller'[r].attempt = 1 /\ caller'[r].at = caller[r].at
          /\ \A q \in Request \ {r} : caller'[q] = caller[q]
          /\ caller[r].attempt \in {0, 1}
      BY <1>1, <3>1 DEF Callers
    <3>3. caller[r].pc = "discard" /\ AttemptIsTold(r) /\ Close(At(r))
      BY <2>2 DEF Discard, AttemptsAreTold
    <3>4. At(r) \in tried[r] \cap broken /\ At(r) <= started /\ At(r) \in done'
      BY <3>3 DEF AttemptIsTold, Uses, Close, CloseRest
    <3>5. AttemptIsTold(r)'
      BY <1>1, <3>2, <3>4 DEF AttemptIsTold, Uses, At
    <3>6. FailureIsTold(r)'
      <4>1. CASE pc = "get"
        BY <3>2, <4>1 DEF FailureIsTold
      <4>2. CASE caller[r].attempt = 1
        <5>1. \E q \in tried[r] \cap broken : q # At(r)
          BY <3>3, <4>2 DEF AttemptIsTold, Uses
        <5> QED
          BY <1>1, <3>4, <5>1 DEF FailureIsTold
      <4> QED
        BY <3>1, <3>2, <4>1, <4>2
    <3> QED
      BY <3>2, <3>5, <3>6
  <2> QED
    BY <2>1, <2>2
<1>8. AttemptsAreTold' /\ FailsAfterTwo'
  BY <1>6, <1>7, OneCallerMoves DEF PoolInv
<1> QED
  BY <1>4, <1>8

LEMMA BlameKeeps == PoolInv /\ BlameInv /\ PoolNext => BlameInv'
  BY ProcBlame, CallerBlame, GetBlame, DiscardBlame DEF PoolNext, PoolStep, CallerStep, Disturb

-----------------------------------------------------------------------------
(* One answer to each request.                                             *)

LEMMA OwedOnceAppend ==
  ASSUME NEW S, NEW s \in Seq(S), NEW x \in S, OwedOnce(s), \A l \in Lines(s) : l[2] # x[2]
  PROVE  OwedOnce(Append(s, x))
<1>1. /\ Len(Append(s, x)) = Len(s) + 1 /\ Len(s) \in Nat
      /\ \A i \in 1 .. Len(s) : Append(s, x)[i] = s[i]
      /\ Append(s, x)[Len(s) + 1] = x
  OBVIOUS
<1>2. \A i \in 1 .. Len(s) : s[i][2] # x[2]
  BY DEF Lines
<1>3. \A i \in 1 .. Len(s) + 1 : i = Len(s) + 1 \/ i \in 1 .. Len(s)
  BY <1>1
<1> QED
  BY <1>1, <1>2, <1>3 DEF OwedOnce

LEMMA OwedOnceTail ==
  ASSUME NEW S, NEW s \in Seq(S), s # <<>>, OwedOnce(s)
  PROVE  OwedOnce(Tail(s)) /\ \A l \in Lines(Tail(s)) : l[2] # s[1][2]
<1>1. /\ Len(Tail(s)) = Len(s) - 1 /\ Len(s) \in Nat /\ Len(s) >= 1
      /\ \A i \in 1 .. Len(Tail(s)) : Tail(s)[i] = s[i + 1]
  OBVIOUS
<1>2. \A i \in 1 .. Len(Tail(s)) : i + 1 \in 1 .. Len(s) /\ i + 1 # 1 /\ i \in Nat
  BY <1>1
<1>3. 1 \in 1 .. Len(s)
  BY <1>1
<1>4. OwedOnce(Tail(s))
  <2> SUFFICES ASSUME NEW i \in 1 .. Len(Tail(s)), NEW j \in 1 .. Len(Tail(s)),
                      Tail(s)[i][2] = Tail(s)[j][2]
               PROVE  i = j
    BY DEF OwedOnce
  <2>1. i + 1 = j + 1
    BY <1>1, <1>2 DEF OwedOnce
  <2> QED
    BY <1>2, <2>1
<1>5. \A i \in 1 .. Len(Tail(s)) : Tail(s)[i][2] # s[1][2]
  BY <1>1, <1>2, <1>3 DEF OwedOnce
<1> QED
  BY <1>4, <1>5 DEF Lines

\* Progress is not an answer
LEMMA AnsweredOnceAppend ==
  ASSUME NEW S, NEW s \in Seq(S), NEW x \in S, AnsweredOnce(s),
         x.kind = "progress" \/ \A l \in Lines(s) : l.kind # "progress" => l.of # x.of
  PROVE  AnsweredOnce(Append(s, x))
<1>1. /\ Len(Append(s, x)) = Len(s) + 1 /\ Len(s) \in Nat
      /\ \A i \in 1 .. Len(s) : Append(s, x)[i] = s[i]
      /\ Append(s, x)[Len(s) + 1] = x
  OBVIOUS
<1>2. x.kind = "progress" \/ \A i \in 1 .. Len(s) : s[i].kind # "progress" => s[i].of # x.of
  BY DEF Lines
<1>3. \A i \in 1 .. Len(s) + 1 : i = Len(s) + 1 \/ i \in 1 .. Len(s)
  BY <1>1
<1> QED
  BY <1>1, <1>2, <1>3 DEF AnsweredOnce

LEMMA AnsweredOnceTail ==
  ASSUME NEW S, NEW s \in Seq(S), s # <<>>, AnsweredOnce(s)
  PROVE  /\ AnsweredOnce(Tail(s))
         /\ s[1].kind # "progress" =>
              \A l \in Lines(Tail(s)) : l.kind # "progress" => l.of # s[1].of
<1>1. /\ Len(Tail(s)) = Len(s) - 1 /\ Len(s) \in Nat /\ Len(s) >= 1
      /\ \A i \in 1 .. Len(Tail(s)) : Tail(s)[i] = s[i + 1]
  OBVIOUS
<1>2. \A i \in 1 .. Len(Tail(s)) : i + 1 \in 1 .. Len(s) /\ i + 1 # 1 /\ i \in Nat
  BY <1>1
<1>3. 1 \in 1 .. Len(s)
  BY <1>1
<1>4. AnsweredOnce(Tail(s))
  <2> SUFFICES ASSUME NEW i \in 1 .. Len(Tail(s)), NEW j \in 1 .. Len(Tail(s)),
                      Tail(s)[i].kind # "progress", Tail(s)[j].kind # "progress",
                      Tail(s)[i].of = Tail(s)[j].of
               PROVE  i = j
    BY DEF AnsweredOnce
  <2>1. i + 1 = j + 1
    BY <1>1, <1>2 DEF AnsweredOnce
  <2> QED
    BY <1>2, <2>1
<1>5. s[1].kind # "progress" =>
        \A i \in 1 .. Len(Tail(s)) : Tail(s)[i].kind # "progress" => Tail(s)[i].of # s[1].of
  BY <1>1, <1>2, <1>3 DEF AnsweredOnce
<1> QED
  BY <1>4, <1>5 DEF Lines

LEMMA OnTheWay ==
  ASSUME PoolShapes, NEW p \in Proc
  PROVE  Owed(p) \cup Answered(p) \cup Held(p) \cup Sent(p) \subseteq Request
<1> DEFINE Line == [id: Nat, kind: {"html", "error", "progress"}, of: Request]
           All == Nat \X Request
<1>1. input[p] \in Seq(All) /\ output[p] \in Seq(Line) /\ resCh[p] \subseteq Request \X Content
  BY DEF PoolShapes
<1> HIDE DEF Line, All
<1>2. Lines(input[p]) \subseteq All /\ Lines(output[p]) \subseteq Line
  BY <1>1, ElementsOf DEF Lines
<1>3. Owed(p) \subseteq Request
  BY <1>2 DEF Owed, All
<1>4. Answered(p) \subseteq Request
  BY <1>2 DEF Answered, Line
<1>5. Sent(p) \subseteq Request
  BY <1>1 DEF Sent
<1> QED
  BY <1>3, <1>4, <1>5 DEF Held

Answerable(r, p) == At(r) = p /\ caller[r].pc \in {"wait", "discard", "ok"}

\* An answer that is lost, and a caller that has none on its way or goes on to
\* leave with its process, make no second answer
LEMMA AnswersKept ==
  ASSUME PoolShapes, NEW p \in Proc, OneAnswer(p),
         input'[p] = input[p] \/ input'[p] = <<>>, output'[p] = output[p],
         reader'[p] = reader[p] \/ reader'[p] \in {NoLine, Ended}, resCh'[p] \subseteq resCh[p],
         \A r \in Request : Answerable(r, p) => Answerable(r, p)'
  PROVE  OneAnswer(p)'
<1>1. Owed(p)' \subseteq Owed(p) /\ OwedOnce(input[p])'
  BY NoLines DEF Owed, OneAnswer, OwedOnce
<1>2. Answered(p)' = Answered(p) /\ AnsweredOnce(output[p])'
  BY DEF Answered, OneAnswer
<1>3. Held(p)' \subseteq Held(p) /\ Sent(p)' \subseteq Sent(p)
  BY DEF Held, Sent, HoldsResult
<1>4. \A r \in Owed(p) \cup Answered(p) \cup Held(p) \cup Sent(p) : Answerable(r, p)'
  BY OnTheWay DEF OneAnswer, Answerable
<1> QED
  BY <1>1, <1>2, <1>3, <1>4 DEF OneAnswer, Answerable

\* The rest of the processes
LEMMA OthersKeepAnswers ==
  ASSUME PoolShapes, NEW p \in Proc, OneAnswer(p),
         UNCHANGED <<input[p], output[p], reader[p], resCh[p], caller>>
  PROVE  OneAnswer(p)'
  BY AnswersKept DEF Answerable, At

\* Steps that put no answer on its way
LEMMA QuietAnswers ==
  ASSUME PoolInv, OneAnswerEach,
         \/ \E p \in Proc : NodeExits(p) \/ ReaderEnds(p) \/ ReaderBreaks(p) \/ Report(p)
         \/ \E r \in Request : Cancel(r)
  PROVE  OneAnswerEach'
<1> SUFFICES ASSUME NEW p \in Proc, p \notin done' PROVE OneAnswer(p)'
  BY DEF OneAnswerEach
<1>1. UNCHANGED <<caller, output, resCh>> /\ done \subseteq done'
  BY DEF NodeExits, ReaderEnds, ReaderBreaks, Report, Cancel, procVars, wireVars
<1>2. /\ input'[p] = input[p] \/ input'[p] = <<>>
      /\ reader'[p] = reader[p] \/ reader'[p] \in {NoLine, Ended}
  BY DEF NodeExits, ReaderEnds, ReaderBreaks, Report, Cancel, wireVars, PoolInv, PoolShapes
<1>3. OneAnswer(p) /\ PoolShapes
  BY <1>1 DEF OneAnswerEach, PoolInv
<1>4. \A r \in Request : Answerable(r, p) => Answerable(r, p)'
  BY <1>1 DEF Answerable, At
<1> QED
  BY <1>1, <1>2, <1>3, <1>4, AnswersKept

\* A caller that chooses a process has no answer on its way at one that is in use
LEMMA CallerAnswers ==
  ASSUME PoolInv, OneAnswerEach, NEW r \in Request,
         \/ Call(r) \/ GivesUp(r) \/ GetCurrent(r) \/ GetNew(r) \/ GetFails(r)
         \/ Admit(r) \/ Register(r) \/ Receive(r) \/ SeesDone(r) \/ TimesOut(r)
         \/ Write(r) /\ At(r) \notin running
         \/ Discard(r)
  PROVE  OneAnswerEach'
<1> SUFFICES ASSUME NEW p \in Proc, p \notin done' PROVE OneAnswer(p)'
  BY DEF OneAnswerEach
<1>0. PoolShapes /\ caller \in Callers
  BY DEF PoolInv, PoolShapes
<1>1. UNCHANGED <<output, reader>> /\ done \subseteq done'
  BY DEF Call, GivesUp, GetCurrent, GetNew, GetFails, Admit, Register, Receive, SeesDone, TimesOut,
         Write, Discard, Close, CloseRest, procVars, wireVars
<1>2. input'[p] = input[p] /\ resCh'[p] \subseteq resCh[p]
  <2>1. CASE UNCHANGED <<input, resCh>>
    BY <2>1
  <2>2. CASE Receive(r)
    BY <1>0, <2>2 DEF Receive, wireVars, PoolShapes
  <2>3. ASSUME NEW q \in Proc, CloseRest(q) PROVE <1>2
    <3>1. q # p
      BY <2>3 DEF CloseRest
    <3> QED
      BY <1>0, <2>3, <3>1 DEF CloseRest, PoolShapes
  <2>4. \/ UNCHANGED <<input, resCh>> \/ Receive(r)
        \/ current \in Proc /\ CloseRest(current)
        \/ At(r) \in Proc /\ CloseRest(At(r))
    BY <1>0 DEF Call, GivesUp, GetCurrent, GetNew, GetFails, Admit, Register, SeesDone, TimesOut,
                Write, Discard, Close, procVars, wireVars, PoolShapes, HasProc
  <2> QED
    BY <2>1, <2>2, <2>3, <2>4
<1>3. \A q \in Request \ {r} : caller'[q] = caller[q]
  BY <1>0 DEF Call, GivesUp, GetCurrent, GetNew, GetFails, Admit, Register, Receive, SeesDone, TimesOut,
              Write, Discard, Leaves, Goto, Takes, Callers
<1>4. Answerable(r, p) => Answerable(r, p)'
  <2>1. CASE Receive(r) \/ SeesDone(r) \/ TimesOut(r)
    <3>1. PICK pc \in {"discard", "ok"} : caller' = [caller EXCEPT ![r].pc = pc]
      BY <2>1 DEF Receive, SeesDone, TimesOut, Leaves, Goto
    <3> QED
      BY <1>0, <3>1 DEF Callers, Answerable, At
  <2>2. CASE Discard(r)
    <3>1. At(r) # p
      BY <2>2 DEF Discard, Close, CloseRest
    <3> QED
      BY <3>1 DEF Answerable
  <2>3. CASE caller[r].pc \in {"free", "get", "admit", "register", "write"}
    BY <2>3 DEF Answerable
  <2> QED
    BY <2>1, <2>2, <2>3 DEF Call, GivesUp, GetCurrent, GetNew, GetFails, Admit, Register, Write
<1>5. \A q \in Request : Answerable(q, p) => Answerable(q, p)'
  BY <1>3, <1>4 DEF Answerable, At
<1>6. OneAnswer(p)
  BY <1>1 DEF OneAnswerEach
<1> QED
  BY <1>0, <1>1, <1>2, <1>5, <1>6, AnswersKept

LEMMA AppCloseAnswers ==
  ASSUME PoolInv, OneAnswerEach, AppClose
  PROVE  OneAnswerEach'
<1> SUFFICES ASSUME NEW p \in Proc, p \notin done' PROVE OneAnswer(p)'
  BY DEF OneAnswerEach
<1>1. /\ UNCHANGED <<output, reader, caller>> /\ done \subseteq done' /\ current \in Proc
      /\ current # p /\ CloseRest(current)
  BY DEF AppClose, Close, CloseRest, PoolInv, PoolShapes
<1>2. input'[p] = input[p] /\ resCh'[p] = resCh[p]
  BY <1>1 DEF CloseRest, PoolInv, PoolShapes
<1> QED
  BY <1>1, <1>2, OthersKeepAnswers DEF OneAnswerEach, PoolInv

\* The answer takes the place of the line it answers
LEMMA EmitsAnswers ==
  ASSUME PoolInv, OneAnswerEach, NEW p \in Proc, Progresses(p) \/ Answers(p)
  PROVE  OneAnswerEach'
<1>1. UNCHANGED <<caller, done, resCh, reader>>
  BY DEF Progresses, Answers, procVars
<1>2. PICK kind \in {"html", "error", "progress"} :
        /\ Emits(p, kind)
        /\ IF kind = "progress" THEN input' = input
           ELSE input' = [input EXCEPT ![p] = Tail(input[p])]
  BY DEF Progresses, Answers
<1> DEFINE head == input[p][1]
           line == [id |-> head[1], kind |-> kind, of |-> head[2]]
           Line == [id: Nat, kind: {"html", "error", "progress"}, of: Request]
           Ask == Nat \X Request
<1>3. /\ input[p] # <<>> /\ input[p] \in Seq(Ask) /\ input \in [Proc -> Seq(Ask)]
      /\ output' = [output EXCEPT ![p] = Append(output[p], line)]
      /\ output[p] \in Seq(Line) /\ output \in [Proc -> Seq(Line)]
  BY <1>2 DEF Emits, PoolInv, PoolShapes
<1>4. head \in Nat \X Request
  BY <1>3, LinesOfTail
<1>5. line \in Line /\ line.kind = kind /\ line.of = head[2]
  BY <1>4
<1> HIDE DEF line, Line, Ask
<1> SUFFICES ASSUME NEW q \in Proc, q \notin done' PROVE OneAnswer(q)'
  BY DEF OneAnswerEach
<1>6. OneAnswer(q)
  BY <1>1 DEF OneAnswerEach
<1>7. CASE q # p
  <2>1. input'[q] = input[q] /\ output'[q] = output[q]
    BY <1>2, <1>3, <1>7
  <2> QED
    BY <1>1, <1>6, <2>1, OthersKeepAnswers DEF PoolInv
<1>8. CASE q = p
  <2>1. /\ Lines(input[p]) = {head} \cup Lines(Tail(input[p]))
        /\ OwedOnce(Tail(input[p])) /\ \A l \in Lines(Tail(input[p])) : l[2] # head[2]
    BY <1>3, <1>6, <1>8, LinesOfTail, OwedOnceTail DEF OneAnswer
  <2>2. head[2] \in Owed(p)
    BY <2>1 DEF Owed
  <2>3. \A l \in Lines(output[p]) : l.kind # "progress" => l.of # line.of
    BY <1>5, <1>6, <1>8, <2>2 DEF OneAnswer, Answered
  <2>4. /\ output'[p] = Append(output[p], line)
        /\ Lines(output'[p]) = Lines(output[p]) \cup {line} /\ AnsweredOnce(output'[p])
    BY <1>3, <1>5, <1>6, <1>8, <2>3, LinesOfAppend, AnsweredOnceAppend DEF OneAnswer
  <2>5. Held(p)' = Held(p) /\ Sent(p)' = Sent(p) /\ \A r : At(r)' = At(r)
    BY <1>1 DEF Held, HoldsResult, Sent, At
  <2>6. CASE kind = "progress"
    <3>1. Answered(p)' = Answered(p) /\ Owed(p)' = Owed(p) /\ input'[p] = input[p]
      BY <1>2, <1>5, <2>4, <2>6 DEF Answered, Owed
    <3> QED
      BY <1>1, <1>6, <1>8, <2>4, <2>5, <3>1 DEF OneAnswer
  <2>7. CASE kind # "progress"
    <3>1. input'[p] = Tail(input[p])
      BY <1>2, <1>3, <2>7
    <3>2. Owed(p)' = Owed(p) \ {head[2]}
      BY <2>1, <3>1 DEF Owed
    <3>3. Answered(p)' = Answered(p) \cup {head[2]}
      <4>1. {m \in Lines(output'[p]) : m.kind # "progress"}
              = {m \in Lines(output[p]) : m.kind # "progress"} \cup {line}
        BY <1>5, <2>4, <2>7
      <4> QED
        BY <1>5, <4>1 DEF Answered
    <3> QED
      BY <1>1, <1>6, <1>8, <2>1, <2>2, <2>4, <2>5, <3>1, <3>2, <3>3 DEF OneAnswer
  <2> QED
    BY <2>6, <2>7
<1> QED
  BY <1>7, <1>8

\* A line read is held for its session or dropped
LEMMA LoadAnswers ==
  ASSUME PoolInv, OneAnswerEach, NEW p \in Proc, Load(p)
  PROVE  OneAnswerEach'
<1> DEFINE line == output[p][1]
           Line == [id: Nat, kind: {"html", "error", "progress"}, of: Request]
<1>1. /\ UNCHANGED <<caller, done, resCh, input>>
      /\ output[p] # <<>> /\ output' = [output EXCEPT ![p] = Tail(output[p])]
      /\ output[p] \in Seq(Line) /\ output \in [Proc -> Seq(Line)]
      /\ reader[p] = NoLine
      /\ reader'[p] = NoLine \/ (reader'[p].kind = line.kind /\ reader'[p].of = line.of)
      /\ \A q \in Proc \ {p} : reader'[q] = reader[q]
  BY DEF Load, procVars, PoolInv, PoolShapes
<1> HIDE DEF Line
<1> SUFFICES ASSUME NEW q \in Proc, q \notin done' PROVE OneAnswer(q)'
  BY DEF OneAnswerEach
<1>2. OneAnswer(q)
  BY <1>1 DEF OneAnswerEach
<1>3. CASE q # p
  BY <1>1, <1>2, <1>3, OthersKeepAnswers DEF PoolInv
<1>4. CASE q = p
  <2>1. /\ line \in Lines(output[p]) /\ Lines(output[p]) = {line} \cup Lines(Tail(output[p]))
        /\ AnsweredOnce(Tail(output[p])) /\ output'[p] = Tail(output[p])
        /\ line.kind # "progress" =>
             \A l \in Lines(Tail(output[p])) : l.kind # "progress" => l.of # line.of
    BY <1>1, <1>2, <1>4, LinesOfTail, AnsweredOnceTail DEF OneAnswer
  <2>2. Owed(p)' = Owed(p) /\ Sent(p)' = Sent(p) /\ Held(p) = {} /\ \A r : At(r)' = At(r)
    BY <1>1 DEF Owed, Sent, Held, HoldsResult, At
  <2>3. Answered(p)' \subseteq Answered(p)
    BY <2>1 DEF Answered
  <2>4. Held(p)' \subseteq Answered(p)
    <3>1. line.kind # "progress" => line.of \in Answered(p)
      BY <2>1 DEF Answered
    <3> QED
      BY <1>1, <3>1 DEF Held, HoldsResult
  <2>5. Held(p)' \cap Answered(p)' = {}
    <3>1. line.kind # "progress" => line.of \notin Answered(p)'
      BY <2>1 DEF Answered
    <3> QED
      BY <1>1, <3>1 DEF Held, HoldsResult
  <2> QED
    BY <1>1, <1>2, <1>4, <2>1, <2>2, <2>3, <2>4, <2>5 DEF OneAnswer
<1> QED
  BY <1>3, <1>4

LEMMA DeliverAnswers ==
  ASSUME PoolInv, OneAnswerEach, NEW p \in Proc, Deliver(p)
  PROVE  OneAnswerEach'
<1> DEFINE c == <<reader[p].to, [kind |-> reader[p].kind, of |-> reader[p].of]>>
<1>1. /\ UNCHANGED <<caller, done, input, output>>
      /\ \A q \in Proc \ {p} : reader'[q] = reader[q] /\ resCh'[q] = resCh[q]
      /\ resCh'[p] = resCh[p] \cup {c} /\ reader'[p] = NoLine /\ HoldsResult(p)
  BY DEF Deliver, procVars, PoolInv, PoolShapes
<1>2. c[1] = reader[p].of /\ reader[p].of \in Request
  BY <1>1 DEF HoldsResult, PoolInv, PoolShapes, ResultsAreOwn, HeldIsOwn
<1> HIDE DEF c
<1> SUFFICES ASSUME NEW q \in Proc, q \notin done' PROVE OneAnswer(q)'
  BY DEF OneAnswerEach
<1>3. OneAnswer(q)
  BY <1>1 DEF OneAnswerEach
<1>4. CASE q # p
  BY <1>1, <1>3, <1>4, OthersKeepAnswers DEF PoolInv
<1>5. CASE q = p
  <2>1. Held(p) = {reader[p].of} /\ Held(p)' = {} /\ Sent(p)' = Sent(p) \cup {reader[p].of}
    BY <1>1, <1>2 DEF Held, HoldsResult, Sent
  <2>2. Owed(p)' = Owed(p) /\ Answered(p)' = Answered(p) /\ \A r : At(r)' = At(r)
    BY <1>1 DEF Owed, Answered, At
  <2> QED
    BY <1>1, <1>3, <1>5, <2>1, <2>2 DEF OneAnswer
<1> QED
  BY <1>4, <1>5

\* A caller writes one line to a process
LEMMA WriteAnswers ==
  ASSUME PoolInv, OneAnswerEach, NEW r \in Request, Write(r), At(r) \in running
  PROVE  OneAnswerEach'
<1>1. PICK p \in Proc : p = At(r)
  BY DEF Write, PoolInv, PoolShapes, HasProc
<1> DEFINE line == <<caller[r].id, r>>
           Ask == Nat \X Request
<1>2. /\ UNCHANGED <<done, resCh, output, reader>> /\ caller[r].pc = "write"
      /\ input' = [input EXCEPT ![p] = Append(input[p], line)]
      /\ caller' = [caller EXCEPT ![r].pc = "wait"]
      /\ caller \in Callers
      /\ input \in [Proc -> Seq(Ask)]
  BY <1>1 DEF Write, Goto, procVars, PoolInv, PoolShapes
<1>3. /\ caller'[r].pc = "wait" /\ At(r)' = p
      /\ \A q \in Request \ {r} : caller'[q] = caller[q]
  BY <1>1, <1>2 DEF Callers, At
<1>4. line \in Ask /\ line[2] = r
  BY <1>2 DEF Callers
<1> HIDE DEF line, Ask
<1> SUFFICES ASSUME NEW q \in Proc, q \notin done' PROVE OneAnswer(q)'
  BY DEF OneAnswerEach
<1>5. OneAnswer(q) /\ PoolShapes
  BY <1>2 DEF OneAnswerEach, PoolInv
<1>6. CASE q # p
  <2>1. input'[q] = input[q]
    BY <1>2, <1>6
  <2>2. \A o \in Request : Answerable(o, q) => Answerable(o, q)'
    BY <1>2, <1>3 DEF Answerable, At
  <2> QED
    BY <1>2, <1>5, <2>1, <2>2, AnswersKept
<1>7. CASE q = p
  <2> DEFINE all == Owed(p) \cup Answered(p) \cup Held(p) \cup Sent(p)
  <2>1. r \notin all /\ all \subseteq Request
    BY <1>2, <1>5, <1>7, OnTheWay DEF OneAnswer
  <2>2. input'[p] = Append(input[p], line) /\ input[p] \in Seq(Ask)
    BY <1>2
  <2>3. \A l \in Lines(input[p]) : l[2] # line[2]
    BY <1>4, <2>1 DEF Owed
  <2>4. Lines(input'[p]) = Lines(input[p]) \cup {line} /\ OwedOnce(input'[p])
    BY <1>4, <1>5, <1>7, <2>2, <2>3, LinesOfAppend, OwedOnceAppend DEF OneAnswer
  <2>5. Owed(p)' = Owed(p) \cup {r}
    BY <1>4, <2>4 DEF Owed
  <2>6. Answered(p)' = Answered(p) /\ Held(p)' = Held(p) /\ Sent(p)' = Sent(p)
    BY <1>2 DEF Answered, Held, HoldsResult, Sent
  <2>7. \A o \in all : Answerable(o, p)
    BY <1>5, <1>7 DEF OneAnswer, Answerable
  <2>8. \A o \in all \cup {r} : Answerable(o, p)'
    BY <1>3, <2>1, <2>7 DEF Answerable, At
  <2> QED
    BY <1>2, <1>5, <1>7, <2>1, <2>4, <2>5, <2>6, <2>8 DEF OneAnswer, Answerable
<1> QED
  BY <1>6, <1>7

LEMMA OneAnswerInit == PoolInit => OneAnswerEach
<1> SUFFICES ASSUME PoolInit, NEW p \in Proc PROVE OneAnswer(p)
  BY DEF OneAnswerEach
<1>1. input[p] = <<>> /\ output[p] = <<>> /\ reader[p] = NoLine /\ resCh[p] = {}
  BY DEF PoolInit
<1>2. Owed(p) = {} /\ Answered(p) = {} /\ Held(p) = {} /\ Sent(p) = {}
  BY <1>1, NoLines DEF Owed, Answered, Held, HoldsResult, Sent
<1> QED
  BY <1>1, <1>2 DEF OneAnswer, OwedOnce, AnsweredOnce

LEMMA OneAnswerKeeps == PoolInv /\ OneAnswerEach /\ PoolNext => OneAnswerEach'
  BY QuietAnswers, CallerAnswers, AppCloseAnswers, EmitsAnswers, LoadAnswers, DeliverAnswers,
     WriteAnswers
  DEF PoolNext, PoolStep, CallerStep, ProcStep, Disturb

-----------------------------------------------------------------------------
(* The pipeline.                                                           *)

LEMMA PoolInvStutters == PoolInv /\ UNCHANGED poolVars => PoolInv'
<1> SUFFICES ASSUME PoolInv, UNCHANGED poolVars PROVE PoolInv'
  OBVIOUS
<1>1. UNCHANGED <<caller, answer, current, started, idSeq, sessions, resCh, input, output, reader>>
  BY DEF poolVars, procVars, wireVars
<1>2. \A p \in Proc : Named(p)' \subseteq Named(p)
  BY <1>1 DEF Named, Printed, Writing, At
<1>3. IdsAreOwn'
  BY <1>1, <1>2, NamesKept DEF PoolInv
<1> QED
  BY <1>1, <1>3 DEF PoolInv, PoolShapes, HasProc, At, ResultsAreOwn, HeldIsOwn, SentIsOwn, AnswerIsOwn

LEMMA SessionInvStutters == SessionInv /\ UNCHANGED sessionVars => SessionInv'
  BY DEF SessionInv, sessionVars, channel, table, browser, SessionShapes, QuietIsSafe, EndIsTold,
         HasRoom, EndTimers, Told, Refused

\* Every step of the pipeline is one of the pool or none, and one of a session
\* of a server that lives or none
LEMMA StepsAreOfParts ==
  ASSUME Next
  PROVE  /\ PoolNext \/ UNCHANGED poolVars
         /\ (~panicked /\ SessionNext) \/ UNCHANGED sessionVars
<1>1. ASSUME ~panicked, NEW r \in Request, Start(r) PROVE PoolNext /\ (SessionNext \/ UNCHANGED sessionVars)
  BY <1>1 DEF Start, PoolNext, SessionNext
<1>2. ASSUME NEW p \in Proc, ReaderReports(p) PROVE PoolNext /\ (SessionNext \/ UNCHANGED sessionVars)
  BY <1>2 DEF ReaderReports, PoolNext, SessionNext
<1>3. ASSUME NEW e \in Edit, Reports(e) \/ EditEnds(e) PROVE SessionNext /\ UNCHANGED poolVars
  BY <1>3 DEF Reports, EditEnds, SessionNext
<1>4. Finished => UNCHANGED poolVars /\ UNCHANGED sessionVars
  BY DEF Finished, vars
<1> QED
  BY <1>1, <1>2, <1>3, <1>4 DEF Next, PoolNext, SessionNext

LEMMA BlameStutters == BlameInv /\ UNCHANGED poolVars => BlameInv'
  BY DEF BlameInv, EndsHaveCauses, AttemptsAreTold, AttemptIsTold, FailsAfterTwo, Uses, At,
         poolVars, procVars, wireVars

LEMMA OneAnswerStutters == PoolInv /\ OneAnswerEach /\ UNCHANGED poolVars => OneAnswerEach'
<1> SUFFICES ASSUME PoolInv, OneAnswerEach, UNCHANGED poolVars, NEW p \in Proc, p \notin done'
             PROVE  OneAnswer(p)'
  BY DEF OneAnswerEach
<1>1. UNCHANGED <<input, output, reader, resCh, caller, done>>
  BY DEF poolVars, procVars, wireVars
<1> QED
  BY <1>1, OthersKeepAnswers DEF OneAnswerEach, PoolInv

PipelineInv == PoolInv /\ BlameInv /\ OneAnswerEach /\ SessionInv

\* In every reachable state of the pipeline the ids and the results on the wires
\* of a process are those of the requests they were given to, one for each, a
\* process that ended had a cause, and the sessions keep what the end of an edit
\* needs
THEOREM InductiveInvariant == Spec => []PipelineInv
<1>1. Init => PipelineInv
  BY PoolInitEstablishes, BlameInitEstablishes, OneAnswerInit, SessionInitEstablishes
  DEF Init, PipelineInv
<1>2. PipelineInv /\ [Next]_vars => PipelineInv'
  <2> SUFFICES ASSUME PoolInv, BlameInv, OneAnswerEach, SessionInv, [Next]_vars
               PROVE  PoolInv' /\ BlameInv' /\ OneAnswerEach' /\ SessionInv'
    BY DEF PipelineInv
  <2>1. (PoolNext \/ UNCHANGED poolVars) /\ ((~panicked /\ SessionNext) \/ UNCHANGED sessionVars)
    BY StepsAreOfParts DEF vars
  <2>2. PoolInv' /\ BlameInv' /\ OneAnswerEach'
    BY <2>1, PoolKeeps, BlameKeeps, OneAnswerKeeps, PoolInvStutters, BlameStutters, OneAnswerStutters
  <2>3. SessionInv'
    BY <2>1, SessionKeeps, SessionInvStutters
  <2> QED
    BY <2>2, <2>3
<1> QED
  BY <1>1, <1>2, PTL DEF Spec

\* No caller whose context lives fails for less than two broken processes, with
\* any number of callers that share them and whoever closes what: a failure costs
\* one process, and the retry is at another
THEOREM TwoProcessesFail == Spec => []FailsAfterTwo
  BY InductiveInvariant, PTL DEF PipelineInv, BlameInv

\* The loop that reads the stdout of a process for all its callers always finds
\* room in the channel of a session, until the process is given up: one answer
\* comes for each line that was written, whatever is lost, late or cut off
THEOREM ReaderGoesOn == Spec => []ReaderNeverStuck
<1>1. PipelineInv => ReaderNeverStuck
  <2> SUFFICES ASSUME PipelineInv, NEW p \in Proc, HoldsResult(p),
                      NEW c \in resCh[p], c[1] = reader[p].to, p \notin done
               PROVE  FALSE
    BY DEF ReaderNeverStuck
  <2>1. reader[p].of = reader[p].to /\ reader[p].of \in Request
    BY DEF PipelineInv, PoolInv, PoolShapes, ResultsAreOwn, HeldIsOwn, HoldsResult
  <2>2. reader[p].of \in Held(p) /\ reader[p].of \in Sent(p)
    BY <2>1 DEF Held, Sent
  <2> QED
    BY <2>2 DEF PipelineInv, OneAnswerEach, OneAnswer
<1> QED
  BY <1>1, InductiveInvariant, PTL

\* Process never hands a caller the HTML of another, with any number of callers
\* of one Node process and any number of processes one after the other
THEOREM HtmlIsOwn == Spec => []AnswerIsOwn
  BY InductiveInvariant, PTL DEF PipelineInv, PoolInv

\* Unless the buffer of Messages was full when an edit was done or something was
\* reported for it after that, no goroutine sends on the closed channel of its
\* session and none closes it twice
THEOREM PanicsHaveCauses == Spec => []PanicHasCause
<1>1. PipelineInv => PanicHasCause
  BY DEF PipelineInv, SessionInv, QuietIsSafe, PanicHasCause
<1> QED
  BY <1>1, InductiveInvariant, PTL

\* A browser whose stream ends without an outcome belongs to an edit that failed
\* or to one that still waits to tell, whatever the buffer and however often it
\* connected
THEOREM ClosedStreamsFailed == Spec => []ClosedMeansFailure
<1>1. PipelineInv => ClosedMeansFailure
  BY DEF PipelineInv, SessionInv, EndIsTold, ClosedMeansFailure
<1> QED
  BY <1>1, InductiveInvariant, PTL
=============================================================================
