------------------------------ MODULE RelayTunnel ------------------------------
(***************************************************************************)
(* Port forwarding.  A visitor's HTTP request reaches the relay, which     *)
(* sends it as frames over the one WebSocket of the worker; the worker     *)
(* asks the local service and sends the response back the same way.  All   *)
(* the requests of a worker share that socket, one loop at the relay reads *)
(* it (WorkerRelayConnection), one handler answers each visitor            *)
(* (TunnelEntryMiddleware), one task serves each request at the worker     *)
(* (RelayLink).                                                            *)
(*                                                                         *)
(* The module follows one worker, from the moment a visitor has shown the  *)
(* tunnel's secret.  A chunk of a body is its number.                      *)
(***************************************************************************)
EXTENDS Integers, Sequences

CONSTANTS
  Visitors,    \* requests of visitors
  Conns,       \* the worker's successive connections to the relay
  None,
  OutRoom,     \* frames that wait for the worker (1024 in the code)
  BackRoom,    \* frames that wait for the relay (8)
  BodyRoom,    \* chunks of a response that wait for its visitor (128)
  UploadRoom,  \* chunks of a request that wait for the service (64)
  MaxUpload,   \* bound: chunks of each visitor's request
  MaxReply     \* bound: chunks of the service's response to each

ASSUME NoneAssumption == None \notin Conns
ASSUME RoomAssumption == {OutRoom, BackRoom, BodyRoom, UploadRoom} \subseteq Nat
ASSUME BoundAssumption == {MaxUpload, MaxReply} \subseteq [Visitors -> Nat]

VARIABLES
  link,     \* each connection's socket, and whether the worker knows of its end
  run,      \* RunAsync and its caller at the relay, for each connection
  workers,  \* the registry's entry: a connection or None
  up,       \* frames for the worker, from _outgoing to the worker's loop
  back,     \* frames for the relay, from outgoing to the relay's loop
  calls,    \* _calls of each connection
  call,     \* TunnelCall of each visitor
  pc,       \* where the handler of each visitor stands
  at,       \* the connection that it found
  sent,     \* chunks of the request sent
  got,      \* chunks of the response written to the visitor
  answer,   \* what the visitor was answered
  task,     \* the worker's task for the request
  upload,   \* RequestBody: chunks that the service has not read
  closed,   \* RequestBodyWriter is completed
  taken,    \* chunks of the request that the service has read
  replied   \* chunks of the response sent

tunnel  == <<link, run, workers>>
handler == <<pc, at, sent, got, answer>>
service == <<task, upload, closed, taken, replied>>
vars == <<tunnel, up, back, calls, call, handler, service>>

Frame(kind, v, n) == [kind |-> kind, of |-> v, n |-> n]

(* Head, ResponseBody and End; ResponseBody is completed with End.         *)
NewCall == [head |-> "none", body |-> <<>>, end |-> "none", cancelled |-> FALSE]

(* The handlers that run under their token; "leaving" is the way to the    *)
(* finally block, which cancels it anyway.                                 *)
Busy == {"found", "registered", "uploading", "headwait", "body"}
Active == Busy \cup {"leaving"}
Alive(v) == task[v] \in {"dialing", "replying"}

Init ==
  /\ link = [k \in Conns |-> "new"] /\ run = [k \in Conns |-> "none"]
  /\ workers = None
  /\ up = [k \in Conns |-> <<>>] /\ back = [k \in Conns |-> <<>>]
  /\ calls = [k \in Conns |-> {}]
  /\ call = [v \in Visitors |-> NewCall]
  /\ pc = [v \in Visitors |-> "idle"] /\ at = [v \in Visitors |-> None]
  /\ sent = [v \in Visitors |-> 0] /\ got = [v \in Visitors |-> <<>>]
  /\ answer = [v \in Visitors |-> "none"]
  /\ task = [v \in Visitors |-> "none"] /\ upload = [v \in Visitors |-> <<>>]
  /\ closed = [v \in Visitors |-> FALSE] /\ taken = [v \in Visitors |-> <<>>]
  /\ replied = [v \in Visitors |-> 0]

-------------------------------------------------------------------------------
(* The connections.                                                        *)

(* The worker connects again once its last connection has ended; the relay *)
(* registers the connection in place of the one before.                    *)
Connect(k) ==
  /\ link[k] = "new" /\ \A j \in Conns : link[j] \in {"new", "lost"}
  /\ link' = [link EXCEPT ![k] = "up"]
  /\ run' = [run EXCEPT ![k] = "reading"]
  /\ workers' = k
  /\ UNCHANGED <<up, back, calls, call, handler, service>>

(* The socket fails: of what is on its way, only a first part arrives.     *)
Cut(k) ==
  /\ link[k] = "up"
  /\ link' = [link EXCEPT ![k] = "cut"]
  /\ \E n \in 0 .. Len(back[k]) : back' = [back EXCEPT ![k] = SubSeq(@, 1, n)]
  /\ UNCHANGED <<run, workers, up, calls, call, handler, service>>

(* RunConnectionAsync ends: the requests under way get the end of their    *)
(* body, and their frames are refused from now on.                         *)
WorkerEnds(k) ==
  /\ link[k] = "cut"
  /\ link' = [link EXCEPT ![k] = "lost"]
  /\ closed' = [v \in Visitors |-> closed[v] \/ Alive(v)]
  /\ UNCHANGED <<run, workers, up, back, calls, call, handler,
                 task, upload, taken, replied>>

Failed(c) == [c EXCEPT !.head = IF @ = "none" THEN "failed" ELSE @, !.end = "error"]

(* RunAsync: the loop ends, and _outgoing takes no more frames, ...        *)
LoopEnds(k) ==
  /\ run[k] = "reading" /\ link[k] # "up" /\ back[k] = <<>>
  /\ run' = [run EXCEPT ![k] = "completed"]
  /\ UNCHANGED <<link, workers, up, back, calls, call, handler, service>>

(* ... then the calls that are registered are failed.                      *)
FailPending(k) ==
  /\ run[k] = "completed"
  /\ run' = [run EXCEPT ![k] = "failed"]
  /\ call' = [v \in Visitors |-> IF v \in calls[k] THEN Failed(call[v]) ELSE call[v]]
  /\ UNCHANGED <<link, workers, up, back, calls, handler, service>>

(* Unregister: it looks whether the entry is its own, and then removes the *)
(* worker's entry, whichever it is by now.                                 *)
UnregisterLooks(k) ==
  /\ run[k] = "failed"
  /\ run' = [run EXCEPT ![k] = IF workers = k THEN "looked" ELSE "gone"]
  /\ UNCHANGED <<link, workers, up, back, calls, call, handler, service>>

UnregisterRemoves(k) ==
  /\ run[k] = "looked"
  /\ run' = [run EXCEPT ![k] = "gone"]
  /\ workers' = None
  /\ UNCHANGED <<link, up, back, calls, call, handler, service>>

(* Mutant of Refusing: _outgoing is completed after the calls are failed.  *)
RefusingLate(k) == run[k] \in {"looked", "gone"}

(* _outgoing is completed: writing to it throws.                           *)
Refusing(k) == run[k] \in {"completed", "failed", "looked", "gone"}

-------------------------------------------------------------------------------
(* The relay's loop of a connection handles the next frame.  A frame of a  *)
(* call that is not registered is ignored.                                 *)

Arrives(k, kind) == run[k] = "reading" /\ back[k] # <<>> /\ Head(back[k]).kind = kind
Registered(k, v) == v \in calls[k]
Consume(k) == back' = [back EXCEPT ![k] = Tail(@)]

ReceiveHead(k) ==
  /\ Arrives(k, "head") /\ Consume(k)
  /\ LET v == Head(back[k]).of IN
       call' = [call EXCEPT ![v].head =
                  IF Registered(k, v) /\ @ = "none" THEN "set" ELSE @]
  /\ UNCHANGED <<tunnel, up, calls, handler, service>>

ReceiveEnd(k) ==
  /\ \E how \in {"ok", "error"} :
       /\ Arrives(k, how) /\ Consume(k)
       /\ LET v == Head(back[k]).of IN
            /\ calls' = [calls EXCEPT ![k] = @ \ {v}]
            /\ call' = [call EXCEPT ![v].end = IF Registered(k, v) THEN how ELSE @]
  /\ UNCHANGED <<tunnel, up, handler, service>>

HasRoom(v) == Len(call[v].body) < BodyRoom

(* Mutant of ReceiveData: a chunk is put by TryWrite, as on the other side.*)
ReceiveDataTry(k) ==
  /\ Arrives(k, "data") /\ Consume(k)
  /\ LET f == Head(back[k]) IN
       call' = [call EXCEPT ![f.of].body =
                  IF Registered(k, f.of) /\ HasRoom(f.of) THEN Append(@, f.n) ELSE @]
  /\ UNCHANGED <<tunnel, up, calls, handler, service>>

(* A chunk waits until its visitor's queue has room, and with it the loop. *)
(* The token of the call ends the wait and the call.                       *)
ReceiveData(k) ==
  /\ Arrives(k, "data") /\ Consume(k)
  /\ LET f == Head(back[k])
         v == f.of IN
       \/ /\ ~Registered(k, v)
          /\ UNCHANGED <<calls, call>>
       \/ /\ Registered(k, v) /\ call[v].cancelled
          /\ calls' = [calls EXCEPT ![k] = @ \ {v}]
          /\ call' = [call EXCEPT ![v] = Failed(@)]
       \/ /\ Registered(k, v) /\ ~call[v].cancelled /\ HasRoom(v)
          /\ call' = [call EXCEPT ![v].body = Append(@, f.n)]
          /\ UNCHANGED calls
  /\ UNCHANGED <<tunnel, up, handler, service>>

-------------------------------------------------------------------------------
(* The handler of a visitor.                                               *)

Leave(v, a) ==
  /\ pc' = [pc EXCEPT ![v] = "leaving"]
  /\ answer' = [answer EXCEPT ![v] = a]

(* WorkerRelayRegistry.Find.  A socket that is cut may still look open.    *)
Find(v) ==
  /\ pc[v] = "idle"
  /\ \/ /\ ~\E k \in Conns : workers = k /\ link[k] = "up"
        /\ pc' = [pc EXCEPT ![v] = "done"]
        /\ UNCHANGED at
     \/ /\ workers # None /\ run[workers] = "reading"
        /\ pc' = [pc EXCEPT ![v] = "found"]
        /\ at' = [at EXCEPT ![v] = workers]
  /\ UNCHANGED <<tunnel, up, back, calls, call, sent, got, answer, service>>

(* CallAsync: the call is registered, then the frames are written.         *)
Register(v) ==
  /\ pc[v] = "found"
  /\ pc' = [pc EXCEPT ![v] = "registered"]
  /\ calls' = [calls EXCEPT ![at[v]] = @ \cup {v}]
  /\ UNCHANGED <<tunnel, up, back, call, at, sent, got, answer, service>>

Write(v, f) ==
  /\ ~Refusing(at[v]) /\ ~call[v].cancelled /\ Len(up[at[v]]) < OutRoom
  /\ up' = [up EXCEPT ![at[v]] = Append(@, f)]

SendRequest(v) ==
  /\ pc[v] = "registered"
  /\ Write(v, Frame("request", v, 0))
  /\ pc' = [pc EXCEPT ![v] = "uploading"]
  /\ UNCHANGED <<tunnel, back, calls, call, at, sent, got, answer, service>>

SendChunk(v) ==
  /\ pc[v] = "uploading" /\ sent[v] < MaxUpload[v]
  /\ Write(v, Frame("data", v, sent[v] + 1))
  /\ sent' = [sent EXCEPT ![v] = @ + 1]
  /\ UNCHANGED <<tunnel, back, calls, call, pc, at, got, answer, service>>

SendBodyEnd(v) ==
  /\ pc[v] = "uploading"
  /\ Write(v, Frame("bodyend", v, 0))
  /\ pc' = [pc EXCEPT ![v] = "headwait"]
  /\ UNCHANGED <<tunnel, back, calls, call, at, sent, got, answer, service>>

CallFails(v) ==
  /\ pc[v] \in {"registered", "uploading"}
  /\ \/ Refusing(at[v]) /\ Leave(v, "error")
     \/ call[v].cancelled /\ Leave(v, "error")
  /\ UNCHANGED <<tunnel, up, back, calls, call, at, sent, got, service>>

(* The head decides; a response that switches protocols is refused.        *)
TakeHead(v) ==
  /\ pc[v] = "headwait"
  /\ \/ /\ call[v].head = "set"
        /\ \/ pc' = [pc EXCEPT ![v] = "body"] /\ UNCHANGED answer
           \/ Leave(v, "error")
     \/ call[v].head = "failed" /\ Leave(v, "error")
     \/ call[v].cancelled /\ Leave(v, "error")
  /\ UNCHANGED <<tunnel, up, back, calls, call, at, sent, got, service>>

(* Mutant of EarlyEnd: the completed head is not looked for.               *)
EarlyEndUnchecked(v) ==
  /\ pc[v] = "headwait" /\ call[v].end # "none"
  /\ Leave(v, "waiting")
  /\ UNCHANGED <<tunnel, up, back, calls, call, at, sent, got, service>>

(* End before any head: the page that waits for the service.               *)
EarlyEnd(v) ==
  /\ pc[v] = "headwait" /\ call[v].end # "none" /\ call[v].head = "none"
  /\ Leave(v, "waiting")
  /\ UNCHANGED <<tunnel, up, back, calls, call, at, sent, got, service>>

CopyChunk(v) ==
  /\ pc[v] = "body" /\ call[v].body # <<>>
  /\ got' = [got EXCEPT ![v] = Append(@, Head(call[v].body))]
  /\ call' = [call EXCEPT ![v].body = Tail(@)]
  /\ UNCHANGED <<tunnel, up, back, calls, pc, at, sent, answer, service>>

(* The body is over, or the token ends the copying: the visitor sees a     *)
(* whole response, an aborted one, or an error if nothing was written.     *)
EndBody(v) ==
  /\ pc[v] = "body"
  /\ \/ /\ call[v].body = <<>> /\ call[v].end # "none"
        /\ Leave(v, IF call[v].end = "ok" THEN "whole" ELSE "aborted")
     \/ call[v].cancelled /\ Leave(v, IF got[v] = <<>> THEN "error" ELSE "aborted")
  /\ UNCHANGED <<tunnel, up, back, calls, call, at, sent, got, service>>

(* The forward timeout, or the visitor's connection ends.                  *)
Expire(v) ==
  /\ pc[v] \in Busy /\ ~call[v].cancelled
  /\ call' = [call EXCEPT ![v].cancelled = TRUE]
  /\ UNCHANGED <<tunnel, up, back, calls, handler, service>>

(* The handler is over, and what the visitor got is forgotten.             *)
Over(v) ==
  /\ pc[v] = "leaving"
  /\ pc' = [pc EXCEPT ![v] = "done"]
  /\ answer' = [answer EXCEPT ![v] = "none"] /\ got' = [got EXCEPT ![v] = <<>>]

(* Mutant of Release: the source is disposed of and not cancelled.         *)
ReleaseQuietly(v) ==
  /\ Over(v)
  /\ UNCHANGED <<tunnel, up, back, calls, call, at, sent, service>>

(* The finally block: the token is cancelled and the timer disposed of.    *)
(* The chunks that are left in ResponseBody are not read any more.         *)
Release(v) ==
  /\ Over(v)
  /\ call' = [call EXCEPT ![v].cancelled = TRUE, ![v].body = <<>>]
  /\ UNCHANGED <<tunnel, up, back, calls, at, sent, service>>

-------------------------------------------------------------------------------
(* The worker's loop, which never waits.                                   *)

TakeFrame(k, kind) ==
  /\ link[k] = "up" /\ up[k] # <<>> /\ Head(up[k]).kind = kind
  /\ up' = [up EXCEPT ![k] = Tail(@)]

TakeRequest(k) ==
  /\ TakeFrame(k, "request")
  /\ task' = [task EXCEPT ![Head(up[k]).of] = "dialing"]
  /\ UNCHANGED <<tunnel, back, calls, call, handler, upload, closed, taken, replied>>

(* TryWrite: a chunk for which there is no room is dropped.                *)
TakeData(k) ==
  /\ TakeFrame(k, "data")
  /\ LET f == Head(up[k])
         v == f.of IN
       upload' = [upload EXCEPT ![v] =
         IF Alive(v) /\ ~closed[v] /\ Len(@) < UploadRoom THEN Append(@, f.n) ELSE @]
  /\ UNCHANGED <<tunnel, back, calls, call, handler, task, closed, taken, replied>>

TakeBodyEnd(k) ==
  /\ TakeFrame(k, "bodyend")
  /\ closed' = [closed EXCEPT ![Head(up[k]).of] = @ \/ Alive(Head(up[k]).of)]
  /\ UNCHANGED <<tunnel, back, calls, call, handler, task, upload, taken, replied>>

(* The task of a request, and the service it asks.                         *)

ReadUpload(v) ==
  /\ Alive(v) /\ upload[v] # <<>>
  /\ taken' = [taken EXCEPT ![v] = Append(@, Head(upload[v]))]
  /\ upload' = [upload EXCEPT ![v] = Tail(@)]
  /\ UNCHANGED <<tunnel, up, back, calls, call, handler, task, closed, replied>>

(* outgoing.Writer: refused once the worker has seen the end of the        *)
(* connection, in vain once the socket is cut.                             *)
Reply(v, f) ==
  LET k == at[v] IN
  /\ link[k] # "lost" /\ (link[k] = "up" => Len(back[k]) < BackRoom)
  /\ back' = [back EXCEPT ![k] = IF link[k] = "up" THEN Append(@, f) ELSE @]

ReplyHead(v) ==
  /\ task[v] = "dialing" /\ Reply(v, Frame("head", v, 0))
  /\ task' = [task EXCEPT ![v] = "replying"]
  /\ UNCHANGED <<tunnel, up, calls, call, handler, upload, closed, taken, replied>>

ReplyChunk(v) ==
  /\ task[v] = "replying" /\ replied[v] < MaxReply[v]
  /\ Reply(v, Frame("data", v, replied[v] + 1))
  /\ replied' = [replied EXCEPT ![v] = @ + 1]
  /\ UNCHANGED <<tunnel, up, calls, call, handler, task, upload, closed, taken>>

(* The task ends, and its InflightTunnelRequest is disposed of.            *)
EndTask(v, how) ==
  /\ task' = [task EXCEPT ![v] = how]
  /\ upload' = [upload EXCEPT ![v] = <<>>] /\ closed' = [closed EXCEPT ![v] = FALSE]
  /\ taken' = [taken EXCEPT ![v] = <<>>]

ReplyEnd(v) ==
  /\ task[v] = "replying" /\ Reply(v, Frame("ok", v, 0))
  /\ EndTask(v, "finished")
  /\ UNCHANGED <<tunnel, up, calls, call, handler, replied>>

(* The service does not answer or breaks off, or the ten minutes are over: *)
(* the error is put by TryWrite, which may find no room.                   *)
ReplyFails(v) ==
  /\ Alive(v) /\ EndTask(v, "failed")
  /\ \/ Reply(v, Frame("error", v, 0))
     \/ ~(link[at[v]] = "up" /\ Len(back[at[v]]) < BackRoom) /\ UNCHANGED back
  /\ UNCHANGED <<tunnel, up, calls, call, handler, replied>>

-------------------------------------------------------------------------------
Next ==
  \/ \E k \in Conns :
       \/ Connect(k) \/ Cut(k) \/ WorkerEnds(k) \/ LoopEnds(k) \/ FailPending(k)
       \/ UnregisterLooks(k) \/ UnregisterRemoves(k)
       \/ ReceiveHead(k) \/ ReceiveEnd(k) \/ ReceiveData(k)
       \/ TakeRequest(k) \/ TakeData(k) \/ TakeBodyEnd(k)
  \/ \E v \in Visitors :
       \/ Find(v) \/ Register(v) \/ SendRequest(v) \/ SendChunk(v) \/ SendBodyEnd(v)
       \/ CallFails(v) \/ TakeHead(v) \/ EarlyEnd(v) \/ CopyChunk(v) \/ EndBody(v)
       \/ Expire(v) \/ Release(v)
       \/ ReadUpload(v) \/ ReplyHead(v) \/ ReplyChunk(v) \/ ReplyEnd(v) \/ ReplyFails(v)

Spec == Init /\ [][Next]_vars

(* Timers fire, finally blocks run, and a loop goes on when the queue it   *)
(* waits for lets it.  No visitor, service or worker is assumed to do      *)
(* anything.                                                               *)
Fairness ==
  /\ \A v \in Visitors : WF_vars(Expire(v) \/ Release(v))
  /\ \A k \in Conns : WF_vars(ReceiveData(k))

FairSpec == Spec /\ Fairness

-------------------------------------------------------------------------------
Frames == [kind : {"request", "data", "bodyend", "head", "ok", "error"},
           of : Visitors, n : Nat]
Calls == [head : {"none", "set", "failed"}, body : Seq(Nat),
          end : {"none", "ok", "error"}, cancelled : BOOLEAN]

TypeOK ==
  /\ link \in [Conns -> {"new", "up", "cut", "lost"}]
  /\ run \in [Conns -> {"none", "reading", "completed", "failed", "looked", "gone"}]
  /\ workers \in Conns \cup {None}
  /\ up \in [Conns -> Seq(Frames)] /\ back \in [Conns -> Seq(Frames)]
  /\ calls \in [Conns -> SUBSET Visitors]
  /\ call \in [Visitors -> Calls]
  /\ pc \in [Visitors -> Active \cup {"idle", "done"}]
  /\ at \in [Visitors -> Conns \cup {None}]
  /\ sent \in [Visitors -> Nat] /\ got \in [Visitors -> Seq(Nat)]
  /\ answer \in [Visitors -> {"none", "whole", "aborted", "waiting", "error"}]
  /\ task \in [Visitors -> {"none", "dialing", "replying", "finished", "failed"}]
  /\ upload \in [Visitors -> Seq(Nat)] /\ taken \in [Visitors -> Seq(Nat)]
  /\ closed \in [Visitors -> BOOLEAN] /\ replied \in [Visitors -> Nat]

(* No visitor is left waiting on a connection that has failed its calls,   *)
(* also when its own was registered while the connection was ending: it    *)
(* was failed with the others, or its next frame is refused.               *)
Stranded(v) ==
  \/ pc[v] \in {"registered", "uploading"} /\ ~Refusing(at[v])
  \/ pc[v] \in {"headwait", "body"} /\ call[v].end = "none"

NoOrphan ==
  \A v \in Visitors :
    pc[v] \in Busy /\ run[at[v]] \in {"failed", "looked", "gone"} => ~Stranded(v)

(* A response that ends normally for the visitor is the service's whole    *)
(* response, in order, whatever else the socket carried: not one whose end *)
(* overtook its chunks, nor one that broke off.                            *)
WholeIsWhole ==
  \A v \in Visitors :
    answer[v] = "whole" =>
      task[v] = "finished" /\ got[v] = [i \in 1 .. replied[v] |-> i]

(* TunnelEntryMiddleware.cs:169-171: a visitor whose response has a head   *)
(* is not shown the waiting page because the end came soon after it.       *)
HeadIsHonoured ==
  \A v \in Visitors : answer[v] = "waiting" => call[v].head # "set"

(* TunnelEntryMiddleware.cs:237-238: a visitor that takes nothing, or has  *)
(* gone, holds up the responses of the others only for a time.             *)
HeldUp(k) ==
  /\ run[k] = "reading" /\ back[k] # <<>> /\ Head(back[k]).kind = "data"
  /\ Registered(k, Head(back[k]).of) /\ ~HasRoom(Head(back[k]).of)

LoopGoesOn == \A k \in Conns : HeldUp(k) ~> ~HeldUp(k)

(* WorkerRelayConnection.cs:56: a request's body streams with backpressure.*)
(* A service that reads the end of the body has read what was sent.        *)
UploadIsWhole ==
  \A v \in Visitors :
    Alive(v) /\ closed[v] /\ upload[v] = <<>>
      => taken[v] = [i \in 1 .. sent[v] |-> i]

(* WorkerRelayConnection.cs:268: the cleanup of an old connection does not *)
(* hit the new one, so the connection that is up can be found.             *)
ConnectedIsFound == \A k \in Conns : link[k] = "up" => workers = k

================================================================================
