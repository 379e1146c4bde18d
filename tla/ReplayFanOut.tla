---------------------------- MODULE ReplayFanOut ----------------------------
(***************************************************************************)
(* The gateway's output path of one session.  The worker forwards chunk    *)
(* after chunk (WorkerHub.ForwardStdout); a client that reattaches first   *)
(* gets a replay of the worker's scrollback buffer, and the chunks that    *)
(* arrive meanwhile wait in its pending queue (ReplayCoordinator).         *)
(*                                                                         *)
(* ForwardStdout reads the session record, then the dictionary of pending  *)
(* replays, then takes the queue's lock; a reattach call begins the        *)
(* replay, attaches, asks the worker, sends, flushes the queue and marks   *)
(* the replay completed.  The two interleave at every one of these points, *)
(* and calls of several clients interleave with each other.                *)
(*                                                                         *)
(* The record is the coordinator's; its operations are single steps here,  *)
(* their own phases are the subject of SessionCoordinator.  A replay is    *)
(* represented by the newest chunk it contains, chunk n being the n-th     *)
(* that the shell printed.  The session's shell and worker stay alive.     *)
(***************************************************************************)
EXTENDS Naturals, Sequences

CONSTANTS
  Conns,    \* client connections, one reattach each
  Sockets,  \* those that are plain WebSockets; the others are hub connections
  None,     \* no connection
  MaxOut    \* bound: chunks the shell prints

ASSUME SocketsAssumption == Sockets \subseteq Conns
ASSUME NoneAssumption == None \notin Conns
ASSUME OutAssumption == MaxOut \in Nat

Hubs == Conns \ Sockets

VARIABLES
  last,     \* the newest chunk in the worker's scrollback buffer
  fan,      \* the chunk on its way through ForwardStdout
  holder,   \* AttachedClientConnectionId of the record
  pending,  \* ReplayPending of the record
  slot,     \* whose PendingReplay the replay coordinator has for the session
  queue,    \* queue[c]: the queue of the PendingReplay of c
  queued,   \* history: the chunks that TryEnqueue has accepted
  call,     \* call[c]: how far the reattach call of c is
  upto,     \* upto[c]: the newest chunk in the replay of c; MaxOut + 1: no replay
  drained,  \* drained[c]: what c's flush took and has not sent
  wire,     \* wire[c]: what c was sent: live chunks, and Completed
  open      \* the connections that are not closed

record == <<holder, pending>>
vars == <<last, fan, holder, pending, slot, queue, queued, call, upto, drained, wire, open>>

Completed == 0              \* ReplayCompleted, among the live chunks 1, 2, ...
NoReplay  == MaxOut + 1

Fan == [at : {"idle", "sent", "read", "queue"}, n : 0..MaxOut,
        holder : Conns \cup {None}, pending : BOOLEAN, to : Conns \cup {None}]

Quiet == [at |-> "idle", n |-> 0, holder |-> None, pending |-> FALSE, to |-> None]

Calls == {"new", "attach", "ask", "replay", "flush", "drain", "mark", "live", "over"}

Init ==
  /\ last = 0
  /\ fan = Quiet
  /\ holder = None
  /\ pending = FALSE
  /\ slot = None
  /\ queue = [c \in Conns |-> <<>>]
  /\ queued = {}
  /\ call = [c \in Conns |-> "new"]
  /\ upto = [c \in Conns |-> NoReplay]
  /\ drained = [c \in Conns |-> <<>>]
  /\ wire = [c \in Conns |-> <<>>]
  /\ open = Conns

-----------------------------------------------------------------------------
(* The worker's pump: append a chunk to the buffer, forward it, and wait   *)
(* for the gateway's answer before taking the next.                        *)
PumpChunk ==
  /\ fan.at = "idle"
  /\ last < MaxOut
  /\ last' = last + 1
  /\ fan' = [Quiet EXCEPT !.at = "sent", !.n = last + 1]
  /\ UNCHANGED <<record, slot, queue, queued, call, upto, drained, wire, open>>

(* ForwardStdout reads the record.                                         *)
ReadRecord ==
  /\ fan.at = "sent"
  /\ fan' = [fan EXCEPT !.at = "read", !.holder = holder, !.pending = pending]
  /\ UNCHANGED <<last, record, slot, queue, queued, call, upto, drained, wire, open>>

(* A WebSocket holder stands for every socket registered for the session.  *)
Recipients(h) ==
  IF h \in Sockets THEN {c \in Sockets : call[c] \notin {"new", "over"}} ELSE {h}

Send(C, frame) == wire' = [c \in Conns |-> IF c \in C \cap open
                                           THEN Append(wire[c], frame) ELSE wire[c]]

(* Mutant of Route: while a replay is pending, nothing is sent directly.   *)
RouteNever ==
  /\ fan.at = "read"
  /\ IF fan.pending /\ slot # None
     THEN /\ fan' = [fan EXCEPT !.at = "queue", !.to = slot]
          /\ UNCHANGED wire
     ELSE /\ fan' = Quiet
          /\ IF fan.holder = None \/ fan.pending
             THEN UNCHANGED wire
             ELSE Send(Recipients(fan.holder), fan.n)
  /\ UNCHANGED <<last, record, slot, queue, queued, call, upto, drained, open>>

(* ... and goes on with what it read: to the pending replay if there is    *)
(* one, else to the client, else nowhere.                                  *)
Route ==
  /\ fan.at = "read"
  /\ IF fan.pending /\ slot # None
     THEN /\ fan' = [fan EXCEPT !.at = "queue", !.to = slot]
          /\ UNCHANGED wire
     ELSE /\ fan' = Quiet
          /\ IF fan.holder = None
             THEN UNCHANGED wire
             ELSE Send(Recipients(fan.holder), fan.n)
  /\ UNCHANGED <<last, record, slot, queue, queued, call, upto, drained, open>>

(* TryEnqueue found this queue a moment ago, whatever happened to it since. *)
Enqueue ==
  /\ fan.at = "queue"
  /\ queue' = [queue EXCEPT ![fan.to] = Append(@, fan.n)]
  /\ queued' = queued \cup {fan.n}
  /\ fan' = Quiet
  /\ UNCHANGED <<last, record, slot, call, upto, drained, wire, open>>

ForwardStdout == ReadRecord \/ Route \/ Enqueue

-----------------------------------------------------------------------------
(* A reattach call, of TerminalHub or of the WebSocket handler.            *)

BeginReplay(c) ==
  /\ call[c] = "new"
  /\ c \in open
  /\ slot' = c
  /\ call' = [call EXCEPT ![c] = "attach"]
  /\ UNCHANGED <<last, fan, record, queue, queued, upto, drained, wire, open>>

(* Mutant of ReattachSession: the record does not wait for the replay.     *)
ReattachAtOnce(c) ==
  /\ call[c] = "attach"
  /\ holder' = c
  /\ pending' = FALSE
  /\ call' = [call EXCEPT ![c] = "ask"]
  /\ UNCHANGED <<last, fan, slot, queue, queued, upto, drained, wire, open>>

ReattachSession(c) ==
  /\ call[c] = "attach"
  /\ holder' = c
  /\ pending' = TRUE
  /\ call' = [call EXCEPT ![c] = "ask"]
  /\ UNCHANGED <<last, fan, slot, queue, queued, upto, drained, wire, open>>

(* The worker answers with its buffer, or the request fails and the replay *)
(* is empty.                                                               *)
RequestScrollback(c) ==
  /\ call[c] = "ask"
  /\ \E answer \in {last, NoReplay} : upto' = [upto EXCEPT ![c] = answer]
  /\ call' = [call EXCEPT ![c] = "replay"]
  /\ UNCHANGED <<last, fan, record, slot, queue, queued, drained, wire, open>>

SendReplay(c) ==
  /\ call[c] = "replay"
  /\ c \in Hubs \cup open
  /\ Send({c}, Completed)
  /\ call' = [call EXCEPT ![c] = "flush"]
  /\ UNCHANGED <<last, fan, record, slot, queue, queued, upto, drained, open>>

(* Mutant of FlushPending: a foreign queue ends the call.                  *)
FlushPendingOrLeave(c) ==
  /\ call[c] = "flush"
  /\ slot' = None
  /\ IF slot = c
     THEN /\ drained' = [drained EXCEPT ![c] = queue[c]]
          /\ queue' = [queue EXCEPT ![c] = <<>>]
          /\ call' = [call EXCEPT ![c] = "drain"]
     ELSE /\ call' = [call EXCEPT ![c] = "over"]
          /\ UNCHANGED <<drained, queue>>
  /\ UNCHANGED <<last, fan, record, queued, upto, wire, open>>

(* FlushPending removes whatever queue the session has, and goes on to     *)
(* send it only if it is the caller's.                                     *)
FlushPending(c) ==
  /\ call[c] = "flush"
  /\ slot' = None
  /\ IF slot = c
     THEN /\ drained' = [drained EXCEPT ![c] = queue[c]]
          /\ queue' = [queue EXCEPT ![c] = <<>>]
     ELSE UNCHANGED <<drained, queue>>
  /\ call' = [call EXCEPT ![c] = "drain"]
  /\ UNCHANGED <<last, fan, record, queued, upto, wire, open>>

SendDrained(c) ==
  /\ call[c] = "drain"
  /\ drained[c] # <<>>
  /\ c \in open
  /\ Send({c}, Head(drained[c]))
  /\ drained' = [drained EXCEPT ![c] = Tail(@)]
  /\ UNCHANGED <<last, fan, record, slot, queue, queued, call, upto, open>>

EndFlush(c) ==
  /\ call[c] = "drain"
  /\ drained[c] = <<>>
  /\ call' = [call EXCEPT ![c] = "mark"]
  /\ UNCHANGED <<last, fan, record, slot, queue, queued, upto, drained, wire, open>>

MarkReplayCompleted(c) ==
  /\ call[c] = "mark"
  /\ pending' = IF holder = c THEN FALSE ELSE pending
  /\ call' = [call EXCEPT ![c] = "live"]
  /\ UNCHANGED <<last, fan, holder, slot, queue, queued, upto, drained, wire, open>>

(* The hub's catch block after a send was cancelled because the caller is  *)
(* gone: the pending replay goes, whosever it is, and the detach is        *)
(* cancelled by the same token.                                            *)
HubCallFails(c) ==
  /\ c \in Hubs \ open
  /\ call[c] = "drain"
  /\ drained[c] # <<>>
  /\ slot' = None
  /\ drained' = [drained EXCEPT ![c] = <<>>]
  /\ call' = [call EXCEPT ![c] = "over"]
  /\ UNCHANGED <<last, fan, record, queue, queued, upto, wire, open>>

(* The reattach itself throws (a database write): the hub's call ends and  *)
(* leaves the begun replay behind.  A client that calls again is another   *)
(* connection of the model.                                                *)
HubReattachThrows(c) ==
  /\ c \in Hubs
  /\ call[c] = "attach"
  /\ call' = [call EXCEPT ![c] = "over"]
  /\ UNCHANGED <<last, fan, record, slot, queue, queued, upto, drained, wire, open>>

(* DetachSession: a connection that was displaced leaves the record alone. *)
Detach(c) == /\ holder' = IF holder = c THEN None ELSE holder
             /\ pending' = IF holder \in {c, None} THEN FALSE ELSE pending

(* The finally block of the WebSocket handler, whatever ends it.           *)
SocketHandlerEnds(c) ==
  /\ c \in Sockets
  /\ call[c] \notin {"new", "over"}
  /\ \/ c \notin open /\ call[c] \in {"replay", "drain", "live"}
     \/ call[c] = "attach"
  /\ slot' = None
  /\ Detach(c)
  /\ drained' = [drained EXCEPT ![c] = <<>>]
  /\ call' = [call EXCEPT ![c] = "over"]
  /\ open' = open \ {c}
  /\ UNCHANGED <<last, fan, queue, queued, upto, wire>>

(* A hub client leaves the session's page.                                 *)
HubDetach(c) ==
  /\ c \in Hubs \cap open
  /\ call[c] = "live"
  /\ Detach(c)
  /\ call' = [call EXCEPT ![c] = "over"]
  /\ UNCHANGED <<last, fan, slot, queue, queued, upto, drained, wire, open>>

(* A connection closes or breaks; the hub does nothing about it.           *)
Close(c) ==
  /\ c \in open
  /\ open' = open \ {c}
  /\ UNCHANGED <<last, fan, record, slot, queue, queued, call, upto, drained, wire>>

-----------------------------------------------------------------------------
(* What the gateway goes on to do by itself once a call is under way.      *)
Continue(c) ==
  \/ ReattachSession(c)
  \/ RequestScrollback(c)
  \/ SendReplay(c)
  \/ FlushPending(c)
  \/ SendDrained(c)
  \/ EndFlush(c)
  \/ MarkReplayCompleted(c)
  \/ HubCallFails(c)
  \/ SocketHandlerEnds(c)

Next ==
  \/ PumpChunk
  \/ ForwardStdout
  \/ \E c \in Conns : \/ BeginReplay(c)
                      \/ Continue(c)
                      \/ HubReattachThrows(c)
                      \/ HubDetach(c)
                      \/ Close(c)

(* A call that is under way is an async method of the gateway: each of its *)
(* steps is eventually scheduled, and a request to the worker is answered  *)
(* or fails when the worker's connection is declared dead.                 *)
Fairness == \A c \in Conns : WF_vars(Continue(c))

Spec == Init /\ [][Next]_vars /\ Fairness

-----------------------------------------------------------------------------
(* Properties.                                                             *)

TypeOK ==
  /\ last \in 0..MaxOut
  /\ fan \in Fan
  /\ holder \in Conns \cup {None}
  /\ pending \in BOOLEAN
  /\ slot \in Conns \cup {None}
  /\ queue \in [Conns -> Seq(1..MaxOut)]
  /\ queued \subseteq 1..MaxOut
  /\ call \in [Conns -> Calls]
  /\ upto \in [Conns -> 0..NoReplay]
  /\ drained \in [Conns -> Seq(1..MaxOut)]
  /\ wire \in [Conns -> Seq(0..MaxOut)]
  /\ open \subseteq Conns

(* What the holder of the session was not replayed it was sent, or it is   *)
(* still on its way, or it was entrusted to a pending replay: however the  *)
(* three steps of ForwardStdout fall between the steps of the calls, no    *)
(* chunk falls between the record it read and the queue it then looked     *)
(* for.  (What becomes of a queue: see LiveInOrder.)                       *)
Reaches(c, n) ==
  \/ \E i \in DOMAIN wire[c] : wire[c][i] = n
  \/ n \in queued
  \/ fan.at # "idle" /\ fan.n = n

Answered(c) == call[c] \notin {"new", "attach", "ask", "over"} /\ upto[c] # NoReplay

NothingIsDropped ==
  \A c \in open : holder = c /\ Answered(c) =>
    \A n \in 1..last : n <= upto[c] \/ Reaches(c, n)

(* As long as the pending replay is its own, a hub client is sent no live  *)
(* chunk between its attaching and the end of its replay.                  *)
ReplayGoesFirst ==
  [][\A c \in Hubs : holder = c /\ slot = c /\ ForwardStdout => wire'[c] = wire[c]]_vars

(* A replay does not stay pending while its client is connected, whatever  *)
(* the calls of other clients do to its queue: otherwise the client's      *)
(* output would be held back for good.                                     *)
ReplayEnds ==
  \A c \in Conns : holder = c /\ pending ~> ~pending \/ holder # c \/ c \notin open

(* WorkerHubTests.cs:80: flushing the pending queue delivers its chunks in *)
(* order to the client, so what follows the replay on its connection is    *)
(* the shell's output in the order it was printed.                         *)
LiveInOrder ==
  \A c \in Hubs : \A i, j \in 1..Len(wire[c]) :
    i < j /\ wire[c][i] # Completed /\ wire[c][j] # Completed => wire[c][i] < wire[c][j]
=============================================================================
