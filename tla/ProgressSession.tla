--------------------------- MODULE ProgressSession ---------------------------
(***************************************************************************)
(* The progress session of an edit: the goroutine that saves the entry     *)
(* reports into a channel with a small buffer, a handler of server-sent    *)
(* events drains it, and timers take the session away                      *)
(* (backend/app/app.go: ProgressSession, createProgressSession,            *)
(* cleanupProgressSession; backend/app/handler_admin.go:                   *)
(* HandleAdminApiEdit, HandleAdminApiEditProgress).                        *)
(*                                                                         *)
(* Sending on a closed channel and closing one twice panic in a goroutine  *)
(* that nothing recovers: the server dies.                                 *)
(***************************************************************************)
EXTENDS Naturals, Sequences

CONSTANTS
  Edit,     \* the edits
  Capacity, \* the buffer of Messages, 10 in the code
  MaxVisits \* bound: how often the client of an edit connects

ASSUME SessionBounds == Capacity \in Nat \ {0} /\ MaxVisits \in Nat

VARIABLES
  saving,     \* per edit: where its goroutine is
  messages,   \* per edit: the buffer of Messages
  closed,     \* the edits whose Messages is closed
  failure,    \* the edits that have an error in Done
  registered, \* the edits in progressSessions
  timers,     \* the timers that are set, as <<edit, kind>>
  waited,     \* history: the edits that found the buffer full when they were done
  late,       \* history: the edits something reported for after they were done
  client,     \* per edit: whether its browser listens, and what it has learned
  visits,     \* per edit: how often it has connected
  panicked    \* whether the server has died

channel == <<messages, closed, failure>>
table == <<registered, timers>>
browser == <<client, visits>>
sessionVars == <<saving, channel, table, waited, late, browser, panicked>>

-----------------------------------------------------------------------------
(* The goroutine of HandleAdminApiEdit.                                    *)

SessionInit ==
  /\ saving = [e \in Edit |-> "idle"]
  /\ messages = [e \in Edit |-> <<>>]
  /\ closed = {} /\ failure = {} /\ registered = {} /\ timers = {}
  /\ waited = {} /\ late = {}
  /\ client = [e \in Edit |-> [listens |-> FALSE, learned |-> "nothing"]]
  /\ visits = [e \in Edit |-> 0]
  /\ panicked = FALSE

\* createProgressSession, and the goroutine is started
Create(e) ==
  /\ saving[e] = "idle"
  /\ saving' = [saving EXCEPT ![e] = "saving"]
  /\ registered' = registered \cup {e}
  /\ timers' = timers \cup {<<e, "fiveMinutes">>}
  /\ UNCHANGED <<channel, waited, late, browser, panicked>>

Send(e, m) == messages' = [messages EXCEPT ![e] = Append(@, m)]

HasRoom(e) == Len(messages[e]) < Capacity

\* A report that finds the buffer full is dropped
SendReport(e) == IF HasRoom(e) THEN Send(e, "progress") ELSE UNCHANGED messages

\* A report of SaveEntry, or of the loop that reads the output of Node
ReportProgress(e) ==
  /\ IF e \in closed THEN panicked' = TRUE /\ UNCHANGED messages
     ELSE SendReport(e) /\ UNCHANGED panicked
  /\ late' = IF saving[e] = "saving" THEN late ELSE late \cup {e}
  /\ UNCHANGED <<saving, closed, failure, table, waited, browser>>

\* The error fits into the buffer of Done
SaveFails(e) ==
  /\ saving[e] = "saving"
  /\ saving' = [saving EXCEPT ![e] = "ended"]
  /\ failure' = failure \cup {e}
  /\ timers' = timers \cup {<<e, "cleanup">>}
  /\ UNCHANGED <<messages, closed, registered, waited, late, browser, panicked>>

SaveSucceeds(e) ==
  /\ saving[e] = "saving"
  /\ saving' = [saving EXCEPT ![e] = "sending"]
  /\ waited' = IF HasRoom(e) THEN waited ELSE waited \cup {e}
  /\ UNCHANGED <<channel, table, late, browser, panicked>>

\* Mutant: the notice of the end is dropped when there is no room
SendDoneOrDrop(e) ==
  /\ saving[e] = "sending"
  /\ saving' = [saving EXCEPT ![e] = "closing"]
  /\ IF HasRoom(e) THEN Send(e, "done") ELSE UNCHANGED messages
  /\ UNCHANGED <<closed, failure, table, waited, late, browser, panicked>>

\* The notice of the end waits for room
SendDone(e) ==
  /\ saving[e] = "sending"
  /\ IF e \in closed THEN panicked' = TRUE /\ UNCHANGED <<saving, messages>>
     ELSE /\ HasRoom(e)
          /\ Send(e, "done")
          /\ saving' = [saving EXCEPT ![e] = "closing"]
          /\ UNCHANGED panicked
  /\ UNCHANGED <<closed, failure, table, waited, late, browser>>

CloseMessages(e) ==
  /\ saving[e] = "closing"
  /\ saving' = [saving EXCEPT ![e] = "ended"]
  /\ panicked' = (e \in closed)
  /\ closed' = closed \cup {e}
  /\ timers' = timers \cup {<<e, "delete">>}
  /\ UNCHANGED <<messages, failure, registered, waited, late, browser>>

-----------------------------------------------------------------------------
(* The timers.                                                             *)

Fires(e, kind) == <<e, kind>> \in timers /\ timers' = timers \ {<<e, kind>>}

\* Mutant: the session is looked up and stays in the table
CleanupKeeping(e) ==
  /\ IF e \in registered
     THEN panicked' = (e \in closed) /\ closed' = closed \cup {e}
     ELSE UNCHANGED <<panicked, closed>>
  /\ UNCHANGED <<registered, saving, messages, failure, waited, late, browser>>

\* cleanupProgressSession: whoever takes the session out closes its channel
Cleanup(e) ==
  /\ IF e \in registered
     THEN panicked' = (e \in closed) /\ closed' = closed \cup {e}
     ELSE UNCHANGED <<panicked, closed>>
  /\ registered' = registered \ {e}
  /\ UNCHANGED <<saving, messages, failure, waited, late, browser>>

\* SaveEntry has a minute and the other timers half of one, so that five
\* minutes pass only when the goroutine has waited for room or all is over
FiveMinutes(e) ==
  /\ Fires(e, "fiveMinutes")
  /\ saving[e] # "saving"
  /\ \/ e \in waited
     \/ saving[e] = "sending" /\ ~HasRoom(e)
     \/ saving[e] = "ended" /\ {<<e, "cleanup">>, <<e, "delete">>} \cap timers = {}
  /\ Cleanup(e)

\* Half a minute after the edit failed
CleanupFailed(e) == Fires(e, "cleanup") /\ Cleanup(e)

\* Half a minute after the edit was saved: the channel is closed already
DeleteSaved(e) ==
  /\ Fires(e, "delete")
  /\ registered' = registered \ {e}
  /\ UNCHANGED <<saving, channel, waited, late, browser, panicked>>

-----------------------------------------------------------------------------
(* The handler of the events, and the browser that listens to it.          *)

Connect(e) ==
  /\ e \in registered /\ ~client[e].listens /\ client[e].learned \in {"nothing", "closed"}
  /\ visits[e] < MaxVisits
  /\ client' = [client EXCEPT ![e].listens = TRUE]
  /\ visits' = [visits EXCEPT ![e] = @ + 1]
  /\ UNCHANGED <<saving, channel, table, waited, late, panicked>>

Learns(e, what) == client' = [client EXCEPT ![e] = [listens |-> FALSE, learned |-> what]]

\* The browser closes the stream when it is told that the edit is done
ReceiveMessage(e) ==
  /\ client[e].listens /\ messages[e] # <<>>
  /\ messages' = [messages EXCEPT ![e] = Tail(@)]
  /\ IF messages[e][1] = "done" THEN Learns(e, "done") ELSE UNCHANGED client
  /\ UNCHANGED <<saving, closed, failure, table, waited, late, visits, panicked>>

ReceiveError(e) ==
  /\ client[e].listens /\ e \in failure
  /\ failure' = failure \ {e}
  /\ Learns(e, "error")
  /\ UNCHANGED <<saving, messages, closed, table, waited, late, visits, panicked>>

SeesClosed(e) ==
  /\ client[e].listens /\ e \in closed /\ messages[e] = <<>>
  /\ Learns(e, "closed")
  /\ UNCHANGED <<saving, channel, table, waited, late, visits, panicked>>

Disconnect(e) ==
  /\ client[e].listens
  /\ client' = [client EXCEPT ![e].listens = FALSE]
  /\ UNCHANGED <<saving, channel, table, waited, late, visits, panicked>>

GoroutineStep(e) == SendDone(e) \/ CloseMessages(e)
TimerStep(e) == FiveMinutes(e) \/ CleanupFailed(e) \/ DeleteSaved(e)
ListenerStep(e) == ReceiveMessage(e) \/ ReceiveError(e) \/ SeesClosed(e)

SessionStep ==
  \E e \in Edit :
    GoroutineStep(e) \/ TimerStep(e) \/ ListenerStep(e) \/ Connect(e) \/ Disconnect(e)
=============================================================================
