--------------------------- MODULE WorkerRuntime ---------------------------
(***************************************************************************)
(* One session on a worker: the runtime that holds its shell               *)
(* (WorkerRuntimeHost, WorkerSessionRuntime), the pump of its output, the  *)
(* observer of its exit, the commands that start and close it, and the     *)
(* hub connection that all of them use and that may break at any moment.   *)
(*                                                                         *)
(* On the gateway's side the session is the little that this interplay     *)
(* needs; SessionCoordinator has the rest.                                 *)
(*                                                                         *)
(* A runtime is a number, in the order of creation.  Code that closes a    *)
(* runtime runs in a thread: the handler of commands (SignalR dispatches   *)
(* them one after the other) or the observer of a runtime.  Its todo list  *)
(* holds what the thread will do between its awaits.                       *)
(***************************************************************************)
EXTENDS Naturals, Sequences

CONSTANTS
  MaxRuns,      \* bound: runtimes ever created
  MaxLinks,     \* bound: hub connections of the worker
  MaxCommands,  \* bound: commands that the gateway sends
  MaxRestarts   \* bound: times the worker process is killed and started again

ASSUME BoundsAssumption ==
  {MaxRuns, MaxLinks, MaxCommands, MaxRestarts} \subseteq Nat

VARIABLES
  conn,      \* the worker's connections so far; the last is the current one
  link,      \* whether the current connection is up
  joined,    \* how far RegisterWorkerAsync is on it
  inbox,     \* commands that have not been dispatched
  sessions,  \* the runtime that _sessions holds for the session, or 0
  rt,        \* rt[r]: the process, its pump, its observer and two flags
  todo,      \* todo[t]: what thread t will do; thread 0 is the handler
  session,   \* the gateway's record of the session
  shielded,  \* history: the last report passed over it because of its client
  used       \* history, for the bounds: runtimes, commands and restarts so far

vars == <<conn, link, joined, inbox, sessions, rt, todo, session, shielded, used>>

Runs    == 1..MaxRuns
Handler == 0
Threads == {Handler} \cup Runs

NoRuntime == [process |-> "none",   \* none, alive, exited, gone (disposed)
              pump |-> "off",       \* off, reading, sending, ended
              observed |-> FALSE,   \* ObserveExitAsync waits for the process
              disposed |-> FALSE,   \* _disposed
              terminated |-> FALSE] \* _terminated

Killed == [process |-> "gone", pump |-> "ended", observed |-> FALSE,
           disposed |-> TRUE, terminated |-> TRUE]

NoSession == [state |-> "none", client |-> FALSE, conn |-> 0]

Init ==
  /\ conn = 1
  /\ link = TRUE
  /\ joined = "no"
  /\ inbox = <<>>
  /\ sessions = 0
  /\ rt = [r \in Runs |-> NoRuntime]
  /\ todo = [t \in Threads |-> <<>>]
  /\ session = NoSession
  /\ shielded = FALSE
  /\ used = [runs |-> 0, commands |-> 0, restarts |-> 0]

Running(s) == s.state \in {"Attached", "DetachedGracePeriod"}
Reachable(s) == link /\ s.conn = conn

-----------------------------------------------------------------------------
(* The worker.                                                             *)

Step(do, r) == [do |-> do, r |-> r]

CloseAsync(r) == <<Step("dispose", r), Step("forward", r), Step("notify", r)>>

Take(command) ==
  /\ todo[Handler] = <<>>
  /\ inbox # <<>> /\ Head(inbox) = command
  /\ inbox' = Tail(inbox)

(* Mutant of StartSession: a session that is held already is replaced.     *)
StartSessionAlways ==
  /\ Take("start")
  /\ used.runs < MaxRuns
  /\ LET r == used.runs + 1
     IN /\ sessions' = r
        /\ rt' = [rt EXCEPT ![r] = [NoRuntime EXCEPT !.process = "alive",
                                   !.pump = "reading", !.observed = TRUE]]
        /\ used' = [used EXCEPT !.runs = r]
  /\ UNCHANGED <<conn, link, joined, todo, session, shielded>>

(* Mutant of StartSession: nobody observes the exit.                       *)
StartUnobserved ==
  /\ Take("start")
  /\ sessions = 0
  /\ used.runs < MaxRuns
  /\ LET r == used.runs + 1
     IN /\ sessions' = r
        /\ rt' = [rt EXCEPT ![r] = [NoRuntime EXCEPT !.process = "alive", !.pump = "reading"]]
        /\ used' = [used EXCEPT !.runs = r]
  /\ UNCHANGED <<conn, link, joined, todo, session, shielded>>

(* HandleStartSessionAsync, when the process starts.                       *)
StartSession ==
  /\ Take("start")
  /\ sessions = 0
  /\ used.runs < MaxRuns
  /\ LET r == used.runs + 1
     IN /\ sessions' = r
        /\ rt' = [rt EXCEPT ![r] = [NoRuntime EXCEPT !.process = "alive",
                                   !.pump = "reading", !.observed = TRUE]]
        /\ used' = [used EXCEPT !.runs = r]
  /\ UNCHANGED <<conn, link, joined, todo, session, shielded>>

(* ... when it does not: the runtime is closed and disposed of, and then   *)
(* the failure is forwarded.                                               *)
StartFails ==
  /\ Take("start")
  /\ sessions = 0
  /\ used.runs < MaxRuns
  /\ LET r == used.runs + 1
     IN /\ todo' = [todo EXCEPT ![Handler] = CloseAsync(r) \o CloseAsync(r)
                                             \o <<Step("fail", r)>>]
        /\ used' = [used EXCEPT !.runs = r]
  /\ UNCHANGED <<conn, link, joined, sessions, rt, session, shielded>>

(* ... and for a session that the worker holds.                            *)
DuplicateStart ==
  /\ Take("start")
  /\ sessions # 0
  /\ todo' = [todo EXCEPT ![Handler] = <<Step("fail", sessions)>>]
  /\ UNCHANGED <<conn, link, joined, sessions, rt, session, shielded, used>>

(* HandleCloseSessionAsync closes the runtime, and then disposes of it,    *)
(* which closes it once more.                                              *)
CloseSession ==
  /\ Take("close")
  /\ IF sessions = 0 THEN UNCHANGED <<sessions, todo>>
     ELSE /\ sessions' = 0
          /\ todo' = [todo EXCEPT ![Handler] = CloseAsync(sessions) \o CloseAsync(sessions)]
  /\ UNCHANGED <<conn, link, joined, rt, session, shielded, used>>

Next1(t, do) == todo[t] # <<>> /\ Head(todo[t]).do = do
Rest(t) == [todo EXCEPT ![t] = Tail(@)]

(* DisposeProcessAsync: cancelling the lifetime ends the observer's wait,  *)
(* so that it goes on with its finally block.                              *)
FinallyBlock(r) == <<Step("drain", r), Step("dispose", r), Step("notify", r)>>

DisposeProcess(t) ==
  /\ Next1(t, "dispose")
  /\ LET r == Head(todo[t]).r
     IN IF rt[r].disposed
        THEN todo' = Rest(t) /\ UNCHANGED rt
        ELSE /\ rt' = [rt EXCEPT ![r].disposed = TRUE, ![r].observed = FALSE,
                                 ![r].process = IF @ = "none" THEN @ ELSE "gone"]
             /\ todo' = IF rt[r].observed THEN [Rest(t) EXCEPT ![r] = FinallyBlock(r)]
                        ELSE Rest(t)
  /\ UNCHANGED <<conn, link, joined, inbox, sessions, session, shielded, used>>

(* WorkerHub.SessionExited, invoked over the current connection.           *)
SessionExited == session' = IF session.conn = conn THEN NoSession ELSE session

(* ForwardExitedAsync throws when the connection is down.  That ends a     *)
(* handler; the observer catches it, in its own call ("report") and in the *)
(* Terminated callback, which is the last of what it does.                 *)
ForwardExited(t) ==
  /\ \E do \in {"forward", "report"} :
       /\ Next1(t, do)
       /\ todo' = IF link \/ do = "report" THEN Rest(t) ELSE [todo EXCEPT ![t] = <<>>]
  /\ IF link THEN SessionExited ELSE UNCHANGED session
  /\ UNCHANGED <<conn, link, joined, inbox, sessions, rt, shielded, used>>

(* ForwardStartFailedAsync and WorkerHub.SessionStartFailed.               *)
ForwardStartFailed ==
  /\ Next1(Handler, "fail")
  /\ todo' = Rest(Handler)
  /\ session' = IF link /\ session.state # "none" /\ session.conn = conn
                THEN [session EXCEPT !.state = "Exited", !.client = FALSE] ELSE session
  /\ UNCHANGED <<conn, link, joined, inbox, sessions, rt, shielded, used>>

(* AwaitPumpTasksAsync.                                                    *)
DrainPumps(t) ==
  /\ Next1(t, "drain")
  /\ rt[Head(todo[t]).r].pump \in {"off", "ended"}
  /\ todo' = Rest(t)
  /\ UNCHANGED <<conn, link, joined, inbox, sessions, rt, session, shielded, used>>

(* Mutant of NotifyTerminated: nobody is told.                             *)
NotifyNobody(t) ==
  /\ Next1(t, "notify")
  /\ LET r == Head(todo[t]).r IN rt' = [rt EXCEPT ![r].terminated = TRUE]
  /\ todo' = Rest(t)
  /\ UNCHANGED <<conn, link, joined, inbox, sessions, session, shielded, used>>

(* NotifyTerminatedAsync and its subscriber RemoveSessionAsync, which      *)
(* disposes of whatever runtime it removes.                                *)
NotifyTerminated(t) ==
  /\ Next1(t, "notify")
  /\ LET r == Head(todo[t]).r
     IN /\ rt' = [rt EXCEPT ![r].terminated = TRUE]
        /\ IF rt[r].terminated \/ sessions = 0
           THEN todo' = Rest(t) /\ UNCHANGED sessions
           ELSE /\ sessions' = 0
                /\ todo' = [todo EXCEPT ![t] = CloseAsync(sessions) \o Tail(@)]
  /\ UNCHANGED <<conn, link, joined, inbox, session, shielded, used>>

(* The shell ends by itself, and ObserveExitAsync sees it.                 *)
ProcessExits(r) ==
  /\ rt[r].process = "alive"
  /\ rt[r].observed
  /\ rt' = [rt EXCEPT ![r] = [@ EXCEPT !.process = "exited", !.observed = FALSE]]
  /\ todo' = [todo EXCEPT ![r] = <<Step("report", r)>> \o FinallyBlock(r)]
  /\ UNCHANGED <<conn, link, joined, inbox, sessions, session, shielded, used>>

(* PumpAsync takes a chunk and forwards it, which throws at once when the  *)
(* connection is down; or it meets the end of the output.                  *)
PumpTakes(r) ==
  /\ rt[r].pump = "reading"
  /\ \/ rt[r].process = "alive" /\ rt' = [rt EXCEPT ![r].pump = IF link THEN "sending" ELSE "ended"]
     \/ rt[r].process # "alive" /\ rt' = [rt EXCEPT ![r].pump = "ended"]
  /\ UNCHANGED <<conn, link, joined, inbox, sessions, todo, session, shielded, used>>

(* The gateway has answered.                                               *)
PumpForwarded(r) ==
  /\ rt[r].pump = "sending"
  /\ rt' = [rt EXCEPT ![r].pump = "reading"]
  /\ UNCHANGED <<conn, link, joined, inbox, sessions, todo, session, shielded, used>>

(* RegisterWorkerAsync: register, take a snapshot of the sessions, report. *)
Register ==
  /\ link /\ joined = "no"
  /\ joined' = "registered"
  /\ session' = CASE session.state = "Recovering" ->
                       [session EXCEPT !.state = "Attached", !.conn = conn]
                  [] Running(session) -> [session EXCEPT !.conn = conn]
                  [] OTHER -> session
  /\ UNCHANGED <<conn, link, inbox, sessions, rt, todo, shielded, used>>

TakeSnapshot ==
  /\ link /\ joined = "registered"
  /\ joined' = IF sessions = 0 THEN "without" ELSE "with"
  /\ UNCHANGED <<conn, link, inbox, sessions, rt, todo, session, shielded, used>>

(* Mutant of ReportWorkerSessions: only a recovering session expires.      *)
ReportRecovering ==
  /\ link /\ joined \in {"with", "without"}
  /\ joined' = "reported"
  /\ session' = IF joined = "without" /\ session.state = "Recovering"
                THEN [session EXCEPT !.state = "Expired", !.client = FALSE] ELSE session
  /\ shielded' = (session.state = "Attached" /\ session.client)
  /\ UNCHANGED <<conn, link, inbox, sessions, rt, todo, used>>

ReportWorkerSessions ==
  /\ link /\ joined \in {"with", "without"}
  /\ joined' = "reported"
  /\ session' = IF joined = "without" /\ (Running(session) \/ session.state = "Recovering")
                   /\ ~(session.state = "Attached" /\ session.client)
                THEN [session EXCEPT !.state = "Expired", !.client = FALSE] ELSE session
  /\ shielded' = (session.state = "Attached" /\ session.client)
  /\ UNCHANGED <<conn, link, inbox, sessions, rt, todo, used>>

-----------------------------------------------------------------------------
(* The connection and the processes.                                       *)

(* What was being sent over a connection fails with it.                    *)
Drop ==
  /\ link
  /\ link' = FALSE
  /\ inbox' = <<>>
  /\ rt' = [r \in Runs |-> [rt[r] EXCEPT !.pump = IF @ = "sending" THEN "ended" ELSE @]]
  /\ UNCHANGED <<conn, joined, sessions, todo, session, shielded, used>>

(* The automatic reconnect, or ReconnectLoopAsync.                         *)
Reconnect ==
  /\ ~link
  /\ conn < MaxLinks
  /\ link' = TRUE
  /\ conn' = conn + 1
  /\ joined' = "no"
  /\ UNCHANGED <<inbox, sessions, rt, todo, session, shielded, used>>

(* The worker process is killed; its shells go with it.                    *)
Restart ==
  /\ used.restarts < MaxRestarts
  /\ used' = [used EXCEPT !.restarts = @ + 1]
  /\ link' = FALSE
  /\ inbox' = <<>>
  /\ sessions' = 0
  /\ rt' = [r \in Runs |-> IF r <= used.runs THEN Killed ELSE NoRuntime]
  /\ todo' = [t \in Threads |-> <<>>]
  /\ UNCHANGED <<conn, joined, session, shielded>>

-----------------------------------------------------------------------------
(* The gateway.                                                            *)

Dispatch(command) ==
  /\ used.commands < MaxCommands
  /\ used' = [used EXCEPT !.commands = @ + 1]
  /\ inbox' = IF link THEN Append(inbox, command) ELSE inbox

Unused == <<conn, link, joined, sessions, rt, todo, shielded>>

(* WorkerHub.OnDisconnectedAsync, some time after the connection is gone.  *)
WorkerDisconnected ==
  /\ Running(session) /\ session.conn # 0
  /\ session.conn # conn \/ ~link
  /\ session' = [state |-> "Recovering", client |-> FALSE, conn |-> 0]
  /\ UNCHANGED <<Unused, inbox, used>>

CreateSession ==
  /\ session.state = "none"
  /\ used.runs = 0 /\ used.commands = 0
  /\ link /\ joined # "no"
  /\ session' = [state |-> "Attached", client |-> TRUE, conn |-> conn]
  /\ Dispatch("start")
  /\ UNCHANGED Unused

(* A client reattaches; a session whose shell is gone gets another one.    *)
ReattachSession ==
  \/ /\ Running(session) \/ session.state = "Recovering"
     /\ ~session.client
     /\ session' = [session EXCEPT !.state = "Attached", !.client = TRUE]
     /\ UNCHANGED <<Unused, inbox, used>>
  \/ /\ session.state \in {"Expired", "Exited"}
     /\ link /\ joined # "no"
     /\ session' = [state |-> "Attached", client |-> TRUE, conn |-> conn]
     /\ Dispatch("start")
     /\ UNCHANGED Unused

DetachSession ==
  /\ session.state = "Attached" /\ session.client
  /\ session' = [session EXCEPT !.state = "DetachedGracePeriod", !.client = FALSE]
  /\ UNCHANGED <<Unused, inbox, used>>

Terminate ==
  /\ Running(session) /\ Reachable(session)
  /\ Dispatch("close")
  /\ UNCHANGED <<Unused, session>>

(* DELETE: the shell of a running session is closed, then the record goes. *)
DeleteSession ==
  /\ session.state # "none"
  /\ session' = NoSession
  /\ IF Running(session) /\ Reachable(session) THEN Dispatch("close")
     ELSE UNCHANGED <<inbox, used>>
  /\ UNCHANGED Unused

-----------------------------------------------------------------------------
Worker ==
  \/ StartSession
  \/ StartFails
  \/ DuplicateStart
  \/ CloseSession
  \/ ForwardStartFailed
  \/ \E t \in Threads : \/ DisposeProcess(t)
                        \/ ForwardExited(t)
                        \/ DrainPumps(t)
                        \/ NotifyTerminated(t)
  \/ \E r \in Runs : \/ ProcessExits(r)
                     \/ PumpTakes(r)
                     \/ PumpForwarded(r)
  \/ Register
  \/ TakeSnapshot
  \/ ReportWorkerSessions

Gateway ==
  \/ WorkerDisconnected
  \/ CreateSession
  \/ ReattachSession
  \/ DetachSession
  \/ Terminate
  \/ DeleteSession

Next == Worker \/ Gateway \/ Drop \/ Reconnect \/ Restart

Spec == Init /\ [][Next]_vars

-----------------------------------------------------------------------------
(* Properties.                                                             *)

TypeOK ==
  /\ conn \in 1..MaxLinks \cup {1}
  /\ joined \in {"no", "registered", "with", "without", "reported"}
  /\ inbox \in Seq({"start", "close"})
  /\ sessions \in 0..used.runs
  /\ \A r \in Runs : rt[r].process = "alive" <=> rt[r].observed
  /\ \A t \in Threads : Len(todo[t]) <= 7
  /\ session.state = "none" => session = NoSession

(* A shell that runs is the one its worker holds for the session, so that  *)
(* commands reach it and snapshots list it, or its closing is under way.   *)
BeingClosed(r) ==
  \E t \in Threads : \E i \in DOMAIN todo[t] : todo[t][i] = Step("dispose", r)

LiveShellIsHeld ==
  \A r \in Runs : rt[r].process = "alive" => sessions = r \/ BeingClosed(r)

(* Conversely a held runtime has a shell, or its removal is under way: an  *)
(* entry left behind would refuse every later start as a duplicate.        *)
HeldIsLive ==
  sessions # 0 => \/ rt[sessions].process = "alive"
                  \/ \E t \in Threads : \E i \in DOMAIN todo[t] : todo[t][i].do = "notify"

(* Once everything is quiet and the worker has reported, the gateway does  *)
(* not believe in a shell that is gone, unless that report passed over the *)
(* session because a client was attached to it.                            *)
Quiet == link /\ joined = "reported" /\ inbox = <<>> /\ \A t \in Threads : todo[t] = <<>>

GhostsExpire ==
  Quiet /\ sessions = 0 /\ Running(session) /\ session.conn = conn => shielded

(* WorkerHub.cs:157-160, README.md:48: a session outlives a break of the   *)
(* worker's connection.  A held shell is read as long as it runs.          *)
HeldShellIsRead ==
  sessions # 0 /\ rt[sessions].process = "alive" => rt[sessions].pump # "ended"
=============================================================================
