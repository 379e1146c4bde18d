--------------------------- MODULE RelayTunnelProofs ---------------------------
(***************************************************************************)
(* Theorems about RelayTunnel, for any visitors, connections, capacities   *)
(* and sizes of bodies.                                                    *)
(*                                                                         *)
(* Two inductive invariants.  Ledger says where a call stands between its  *)
(* handler, the table of its connection and the frames on the way: it      *)
(* carries NoOrphan and HeadIsHonoured.  Stream says which chunks of a     *)
(* response are where: those the visitor has, those in its queue, and on   *)
(* the socket the rest, each before the end of the response.               *)
(***************************************************************************)
EXTENDS RelayTunnel, TLAPS

(* A call and its frames are of the connection that the handler found.     *)
InTable == \A k \in Conns : \A v \in calls[k] : at[v] = k

OnSocket(q) == \A k \in Conns : \A i \in 1 .. Len(q[k]) : at[q[k][i].of] = k

AtConn ==
  /\ \A v \in Visitors : task[v] # "none" => at[v] \in Conns
  /\ \A v \in Visitors : pc[v] \in Active => at[v] \in Conns /\ run[at[v]] # "none"
  /\ \A v \in Visitors : pc[v] = "idle" => at[v] = None
  /\ \A v \in Visitors : at[v] # None => run[at[v]] # "none"
  /\ \A k \in Conns : run[k] = "none" <=> link[k] = "new"
  /\ \A k \in Conns : link[k] = "up" => run[k] = "reading"

Located == InTable /\ OnSocket(up) /\ OnSocket(back) /\ AtConn

(* A handler that waits has its call in the table, or the call has ended;  *)
(* no frame reaches a call that has ended.                                 *)
Pending ==
  /\ \A v \in Visitors :
       pc[v] \in {"registered", "uploading", "headwait", "body"}
         => v \in calls[at[v]] \/ call[v].end # "none"
  /\ \A v \in Visitors :
       call[v].end # "none" => \A k \in Conns : v \in calls[k] => run[k] # "reading"
  /\ \A v \in Visitors :
       pc[v] \in {"idle", "found"}
         => call[v].end = "none" /\ \A k \in Conns : v \notin calls[k]

Answered ==
  \A v \in Visitors :
    /\ answer[v] # "none" => pc[v] = "leaving"
    /\ answer[v] = "waiting" => call[v].end # "none" /\ call[v].head # "set"

Ledger == TypeOK /\ Located /\ Pending /\ Answered /\ NoOrphan

-------------------------------------------------------------------------------
(* A request is sent once, and nothing comes back before it is taken.      *)
Unasked(v) == task[v] = "none" /\ replied[v] = 0

Early == {"idle", "found", "registered"}

EarlyUnasked == \A v \in Visitors : pc[v] \in Early => Unasked(v)

Asks(q, i, v) == q[i].kind = "request" /\ q[i].of = v

RequestsWait ==
  \A k \in Conns : \A v \in Visitors : \A i \in 1 .. Len(up[k]) :
    Asks(up[k], i, v) =>
      /\ Unasked(v) /\ pc[v] \notin Early
      /\ \A j \in 1 .. Len(up[k]) : Asks(up[k], j, v) => j = i

AnswersFollow ==
  \A k \in Conns : \A v \in Visitors : \A i \in 1 .. Len(back[k]) :
    back[k][i].of = v =>
      task[v] # "none" /\ (back[k][i].kind = "ok" => task[v] = "finished")

NoneBefore == \A v \in Visitors : task[v] \in {"none", "dialing"} => replied[v] = 0

AskedOnce == EarlyUnasked /\ RequestsWait /\ AnswersFollow /\ NoneBefore

(* The chunks that the relay has of a response.                            *)
Has(v) == Len(got[v]) + Len(call[v].body)

Sound(v) ==
  /\ \A i \in 1 .. Len(got[v]) : got[v][i] = i
  /\ \A i \in 1 .. Len(call[v].body) : call[v].body[i] = Len(got[v]) + i
  /\ Has(v) <= replied[v]

Straight == \A v \in Visitors : pc[v] # "done" => Sound(v)

(* In a queue q of frames, of a response with r chunks of which the relay  *)
(* has h: the chunks are some that it has not, in order; each, and the     *)
(* normal end, comes after all that are missing before it; and all that    *)
(* are missing are there, if it is said to be whole.                       *)
DataOf(q, i, v) == q[i].kind = "data" /\ q[i].of = v
Before(q, v, n, i) == \E j \in 1 .. Len(q) : j < i /\ DataOf(q, j, v) /\ q[j].n = n

InOrder(q, v, h, r) ==
  \A i \in 1 .. Len(q) : DataOf(q, i, v) =>
    /\ h < q[i].n /\ q[i].n <= r
    /\ \A j \in 1 .. Len(q) : j < i /\ DataOf(q, j, v) => q[j].n < q[i].n
    /\ \A n \in h + 1 .. q[i].n - 1 : Before(q, v, n, i)

EndIsLast(q, v, h, r) ==
  \A i \in 1 .. Len(q) :
    q[i].kind = "ok" /\ q[i].of = v => \A n \in h + 1 .. r : Before(q, v, n, i)

NoneMissing(q, v, h, r) == \A n \in h + 1 .. r : Before(q, v, n, Len(q) + 1)

Flow(q, v, h, r, whole) ==
  InOrder(q, v, h, r) /\ EndIsLast(q, v, h, r) /\ (whole => NoneMissing(q, v, h, r))

Open(k, v) == v \in calls[k] /\ run[k] = "reading" /\ pc[v] # "done"

Whole(k, v) == link[k] = "up" /\ task[v] = "replying"

OnTheWay ==
  \A k \in Conns : \A v \in Visitors :
    Open(k, v) => Flow(back[k], v, Has(v), replied[v], Whole(k, v))

Ended ==
  \A v \in Visitors :
    /\ pc[v] # "done" /\ call[v].end = "ok"
         => task[v] = "finished" /\ Has(v) = replied[v]
    /\ answer[v] = "whole"
         => task[v] = "finished" /\ got[v] = [i \in 1 .. replied[v] |-> i]

Stream == AskedOnce /\ Straight /\ OnTheWay /\ Ended

-------------------------------------------------------------------------------
(* Sequences.                                                              *)

LEMMA TailOf ==
  ASSUME NEW S, NEW s \in Seq(S), s # <<>>
  PROVE  /\ Tail(s) \in Seq(S) /\ Head(s) \in S /\ Head(s) = s[1]
         /\ Len(s) \in Nat \ {0} /\ Len(Tail(s)) = Len(s) - 1
         /\ \A i \in 1 .. Len(Tail(s)) : Tail(s)[i] = s[i + 1]
  OBVIOUS

LEMMA AppendOf ==
  ASSUME NEW S, NEW s \in Seq(S), NEW e \in S
  PROVE  /\ Append(s, e) \in Seq(S) /\ Len(s) \in Nat
         /\ Len(Append(s, e)) = Len(s) + 1
         /\ \A i \in 1 .. Len(s) : Append(s, e)[i] = s[i]
         /\ Append(s, e)[Len(s) + 1] = e
  OBVIOUS

LEMMA PrefixOf ==
  ASSUME NEW S, NEW s \in Seq(S), NEW n \in 0 .. Len(s)
  PROVE  /\ SubSeq(s, 1, n) \in Seq(S) /\ Len(SubSeq(s, 1, n)) = n
         /\ \A i \in 1 .. n : SubSeq(s, 1, n)[i] = s[i]
  OBVIOUS

LEMMA FrameIsFrame ==
  ASSUME NEW kind \in {"request", "data", "bodyend", "head", "ok", "error"},
         NEW v \in Visitors, NEW n \in Nat
  PROVE  Frame(kind, v, n) \in Frames
  BY DEF Frame, Frames

-------------------------------------------------------------------------------
(* Types.                                                                  *)

LEMMA InitTypeOK == Init => TypeOK
  BY DEF Init, TypeOK, NewCall, Calls, Active, Busy

LEMMA FailedIsCall == ASSUME NEW c \in Calls PROVE Failed(c) \in Calls
  BY DEF Failed, Calls

LEMMA TunnelTypeOK ==
  ASSUME TypeOK, NEW k \in Conns,
         \/ Connect(k) \/ Cut(k) \/ WorkerEnds(k) \/ LoopEnds(k) \/ FailPending(k)
         \/ UnregisterLooks(k) \/ UnregisterRemoves(k)
  PROVE  TypeOK'
<1>1. CASE Connect(k)
  BY <1>1 DEF TypeOK, Connect, handler, service
<1>2. CASE Cut(k)
  <2>1. PICK n \in 0 .. Len(back[k]) : back' = [back EXCEPT ![k] = SubSeq(@, 1, n)]
    BY <1>2 DEF Cut
  <2>2. SubSeq(back[k], 1, n) \in Seq(Frames)
    BY PrefixOf DEF TypeOK
  <2> QED
    BY <1>2, <2>1, <2>2 DEF TypeOK, Cut, handler, service
<1>3. CASE WorkerEnds(k)
  BY <1>3 DEF TypeOK, WorkerEnds, handler, Alive
<1>4. CASE LoopEnds(k)
  BY <1>4 DEF TypeOK, LoopEnds, handler, service
<1>5. CASE FailPending(k)
  BY <1>5, FailedIsCall DEF TypeOK, FailPending, handler, service
<1>6. CASE UnregisterLooks(k)
  BY <1>6 DEF TypeOK, UnregisterLooks, handler, service
<1>7. CASE UnregisterRemoves(k)
  BY <1>7 DEF TypeOK, UnregisterRemoves, handler, service
<1> QED
  BY <1>1, <1>2, <1>3, <1>4, <1>5, <1>6, <1>7

LEMMA ReceiveTypeOK ==
  ASSUME TypeOK, NEW k \in Conns, ReceiveHead(k) \/ ReceiveEnd(k) \/ ReceiveData(k)
  PROVE  TypeOK'
<1> DEFINE f == Head(back[k])
           v == f.of
<1>1. back[k] # <<>> /\ back' = [back EXCEPT ![k] = Tail(@)]
  BY DEF ReceiveHead, ReceiveEnd, ReceiveData, Arrives, Consume
<1>2. f \in Frames /\ Tail(back[k]) \in Seq(Frames)
  BY <1>1, TailOf DEF TypeOK
<1>3. back' \in [Conns -> Seq(Frames)] /\ v \in Visitors /\ f.n \in Nat
  BY <1>1, <1>2 DEF TypeOK, Frames
<1>7. calls \in [Conns -> SUBSET Visitors]
  BY DEF TypeOK
<1>4. CASE ReceiveHead(k)
  <2> DEFINE h == IF Registered(k, v) /\ call[v].head = "none" THEN "set" ELSE call[v].head
  <2>1. call' \in [Visitors -> Calls]
    <3>1. call' = [call EXCEPT ![v] = [call[v] EXCEPT !.head = h]]
      BY <1>4 DEF ReceiveHead
    <3>2. call[v] \in Calls
      BY <1>3 DEF TypeOK
    <3>3. [call[v] EXCEPT !.head = h] \in Calls
      BY <3>2 DEF Calls
    <3> QED
      BY <1>3, <3>1, <3>3 DEF TypeOK
  <2> QED
    BY <1>3, <1>4, <2>1 DEF TypeOK, ReceiveHead, tunnel, handler, service
<1>5. CASE ReceiveEnd(k)
  <2>1. call' \in [Visitors -> Calls]
    <3>1. PICK how \in {"ok", "error"} :
            call' = [call EXCEPT ![v] =
              [call[v] EXCEPT !.end = IF Registered(k, v) THEN how ELSE call[v].end]]
      BY <1>5 DEF ReceiveEnd
    <3>2. call[v] \in Calls
      BY <1>3 DEF TypeOK
    <3>3. [call[v] EXCEPT !.end = IF Registered(k, v) THEN how ELSE call[v].end] \in Calls
      BY <3>2 DEF Calls
    <3> QED
      BY <1>3, <3>1, <3>3 DEF TypeOK
  <2>2. calls' \in [Conns -> SUBSET Visitors]
    <3>1. calls' = [calls EXCEPT ![k] = @ \ {v}]
      BY <1>5 DEF ReceiveEnd
    <3> QED
      BY <1>7, <3>1
  <2> QED
    BY <1>3, <1>5, <2>1, <2>2 DEF TypeOK, ReceiveEnd, tunnel, handler, service
<1>6. CASE ReceiveData(k)
  <2>1. calls' \in [Conns -> SUBSET Visitors]
    <3>1. calls' = calls \/ calls' = [calls EXCEPT ![k] = @ \ {v}]
      BY <1>6 DEF ReceiveData
    <3> QED
      BY <1>7, <3>1
  <2>2. call' \in [Visitors -> Calls]
    <3>1. CASE call' = call
      BY <3>1 DEF TypeOK
    <3>2. CASE call' = [call EXCEPT ![v] = Failed(@)]
      BY <1>3, <3>2, FailedIsCall DEF TypeOK
    <3>3. CASE call' = [call EXCEPT ![v].body = Append(@, f.n)]
      <4>1. call[v] \in Calls
        BY <1>3 DEF TypeOK
      <4>2. Append(call[v].body, f.n) \in Seq(Nat)
        BY <1>3, <4>1, AppendOf DEF Calls
      <4>3. [call[v] EXCEPT !.body = Append(@, f.n)] \in Calls
        BY <4>1, <4>2 DEF Calls
      <4> QED
        BY <1>3, <3>3, <4>3 DEF TypeOK
    <3> QED
      BY <1>6, <3>1, <3>2, <3>3 DEF ReceiveData
  <2> QED
    BY <1>3, <1>6, <2>1, <2>2 DEF TypeOK, ReceiveData, tunnel, handler, service
<1> QED
  BY <1>4, <1>5, <1>6

LEMMA HandlerTypeOK ==
  ASSUME TypeOK, NEW v \in Visitors,
         \/ Find(v) \/ Register(v) \/ SendRequest(v) \/ SendChunk(v) \/ SendBodyEnd(v)
         \/ CallFails(v) \/ TakeHead(v) \/ EarlyEnd(v) \/ CopyChunk(v) \/ EndBody(v)
         \/ Expire(v) \/ Release(v)
  PROVE  TypeOK'
<1> USE DEF Active, Busy
<1> DEFINE k == at[v]
<1>0. call[v] \in Calls
  BY DEF TypeOK
<1>2. CASE Find(v)
  <2>1. pc' \in [Visitors -> Active \cup {"idle", "done"}]
    <3>1. pc' = [pc EXCEPT ![v] = "done"] \/ pc' = [pc EXCEPT ![v] = "found"]
      BY <1>2 DEF Find
    <3> QED
      BY <3>1 DEF TypeOK
  <2>2. at' \in [Visitors -> Conns \cup {None}]
    BY <1>2 DEF TypeOK, Find
  <2> QED
    BY <1>2, <2>1, <2>2 DEF TypeOK, Find, tunnel, service
<1>3. CASE Register(v)
  <2>1. calls' \in [Conns -> SUBSET Visitors]
    BY <1>3 DEF TypeOK, Register
  <2> QED
    BY <1>3, <2>1 DEF TypeOK, Register, tunnel, service
<1>4. ASSUME NEW f \in Frames, Write(v, f) PROVE up' \in [Conns -> Seq(Frames)]
  <2>1. ASSUME k \in Conns PROVE Append(up[k], f) \in Seq(Frames)
    BY <2>1, AppendOf DEF TypeOK
  <2> QED
    BY <1>4, <2>1 DEF TypeOK, Write
<1>5. CASE SendRequest(v)
  <2>1. up' \in [Conns -> Seq(Frames)]
    BY <1>4, <1>5, FrameIsFrame DEF SendRequest
  <2> QED
    BY <1>5, <2>1 DEF TypeOK, SendRequest, tunnel, service
<1>6. CASE SendChunk(v)
  <2>1. sent[v] + 1 \in Nat
    BY DEF TypeOK
  <2>2. up' \in [Conns -> Seq(Frames)]
    BY <1>4, <1>6, <2>1, FrameIsFrame DEF SendChunk
  <2> QED
    BY <1>6, <2>1, <2>2 DEF TypeOK, SendChunk, tunnel, service
<1>7. CASE SendBodyEnd(v)
  <2>1. up' \in [Conns -> Seq(Frames)]
    BY <1>4, <1>7, FrameIsFrame DEF SendBodyEnd
  <2> QED
    BY <1>7, <2>1 DEF TypeOK, SendBodyEnd, tunnel, service
<1>8. CASE CallFails(v)
  <2>1. pc' \in [Visitors -> Active \cup {"idle", "done"}]
    <3>1. pc' = [pc EXCEPT ![v] = "leaving"]
      BY <1>8 DEF CallFails, Leave
    <3> QED
      BY <3>1 DEF TypeOK
  <2>2. answer' \in [Visitors -> {"none", "whole", "aborted", "waiting", "error"}]
    BY <1>8 DEF TypeOK, CallFails, Leave
  <2> QED
    BY <1>8, <2>1, <2>2 DEF TypeOK, CallFails, tunnel, service
<1>9. CASE TakeHead(v)
  <2>1. pc' \in [Visitors -> Active \cup {"idle", "done"}]
    <3>1. pc' = [pc EXCEPT ![v] = "body"] \/ pc' = [pc EXCEPT ![v] = "leaving"]
      BY <1>9 DEF TakeHead, Leave
    <3> QED
      BY <3>1 DEF TypeOK
  <2>2. answer' \in [Visitors -> {"none", "whole", "aborted", "waiting", "error"}]
    BY <1>9 DEF TypeOK, TakeHead, Leave
  <2> QED
    BY <1>9, <2>1, <2>2 DEF TypeOK, TakeHead, tunnel, service
<1>10. CASE EarlyEnd(v)
  BY <1>10 DEF TypeOK, EarlyEnd, Leave, tunnel, service
<1>11. CASE CopyChunk(v)
  <2>1. call[v] \in Calls /\ call[v].body \in Seq(Nat) /\ call[v].body # <<>>
    BY <1>11 DEF TypeOK, CopyChunk, Calls
  <2>2. Head(call[v].body) \in Nat /\ Tail(call[v].body) \in Seq(Nat)
    BY <2>1, TailOf
  <2>3. [call[v] EXCEPT !.body = Tail(@)] \in Calls
    BY <2>1, <2>2 DEF Calls
  <2>4. call' \in [Visitors -> Calls]
    BY <1>11, <2>3 DEF TypeOK, CopyChunk
  <2>5. Append(got[v], Head(call[v].body)) \in Seq(Nat)
    BY <2>2, AppendOf DEF TypeOK
  <2>6. got' \in [Visitors -> Seq(Nat)]
    BY <1>11, <2>5 DEF TypeOK, CopyChunk
  <2> QED
    BY <1>11, <2>4, <2>6 DEF TypeOK, CopyChunk, tunnel, service
<1>12. CASE EndBody(v)
  <2>1. pc' \in [Visitors -> Active \cup {"idle", "done"}]
    <3>1. pc' = [pc EXCEPT ![v] = "leaving"]
      BY <1>12 DEF EndBody, Leave
    <3> QED
      BY <3>1 DEF TypeOK
  <2>2. answer' \in [Visitors -> {"none", "whole", "aborted", "waiting", "error"}]
    BY <1>12 DEF TypeOK, EndBody, Leave
  <2> QED
    BY <1>12, <2>1, <2>2 DEF TypeOK, EndBody, tunnel, service
<1>13. CASE Expire(v)
  <2>1. [call[v] EXCEPT !.cancelled = TRUE] \in Calls
    BY <1>0 DEF Calls
  <2>2. call' \in [Visitors -> Calls]
    BY <1>13, <2>1 DEF TypeOK, Expire
  <2> QED
    BY <1>13, <2>2 DEF TypeOK, Expire, tunnel, handler, service
<1>14. CASE Release(v)
  <2>1. [call[v] EXCEPT !.cancelled = TRUE, !.body = <<>>] \in Calls
    <3>1. <<>> \in Seq(Nat)
      OBVIOUS
    <3>2. [call[v] EXCEPT !.body = <<>>] \in Calls
      BY <1>0, <3>1 DEF Calls
    <3> QED
      BY <3>2 DEF Calls
  <2>2. call' \in [Visitors -> Calls]
    BY <1>14, <2>1 DEF TypeOK, Release
  <2> QED
    BY <1>14, <2>2 DEF TypeOK, Release, Over, tunnel, service
<1> QED
  BY <1>2, <1>3, <1>5, <1>6, <1>7, <1>8, <1>9, <1>10, <1>11, <1>12, <1>13, <1>14

LEMMA TakeTypeOK ==
  ASSUME TypeOK, NEW k \in Conns, TakeRequest(k) \/ TakeData(k) \/ TakeBodyEnd(k)
  PROVE  TypeOK'
<1> DEFINE f == Head(up[k])
           v == f.of
<1>1. up[k] # <<>> /\ up' = [up EXCEPT ![k] = Tail(@)]
  BY DEF TakeRequest, TakeData, TakeBodyEnd, TakeFrame
<1>2. f \in Frames /\ Tail(up[k]) \in Seq(Frames)
  BY <1>1, TailOf DEF TypeOK
<1>3. up' \in [Conns -> Seq(Frames)] /\ v \in Visitors /\ f.n \in Nat
  BY <1>1, <1>2 DEF TypeOK, Frames
<1>4. CASE TakeRequest(k)
  BY <1>3, <1>4 DEF TypeOK, TakeRequest, tunnel, handler
<1>5. CASE TakeData(k)
  <2>1. Append(upload[v], f.n) \in Seq(Nat)
    BY <1>3, AppendOf DEF TypeOK
  <2>2. upload' \in [Visitors -> Seq(Nat)]
    BY <1>3, <1>5, <2>1 DEF TypeOK, TakeData
  <2> QED
    BY <1>3, <1>5, <2>2 DEF TypeOK, TakeData, tunnel, handler
<1>6. CASE TakeBodyEnd(k)
  BY <1>3, <1>6 DEF TypeOK, TakeBodyEnd, tunnel, handler, Alive
<1> QED
  BY <1>4, <1>5, <1>6

LEMMA ReplyTypeOK ==
  ASSUME TypeOK, NEW v \in Visitors, NEW f \in Frames, Reply(v, f)
  PROVE  back' \in [Conns -> Seq(Frames)]
<1>1. ASSUME at[v] \in Conns PROVE Append(back[at[v]], f) \in Seq(Frames)
  BY <1>1, AppendOf DEF TypeOK
<1>2. back \in [Conns -> Seq(Frames)] /\ at[v] \in Conns \cup {None}
  BY DEF TypeOK
<1>3. back' = [back EXCEPT ![at[v]] = back[at[v]]]
        \/ back' = [back EXCEPT ![at[v]] = Append(back[at[v]], f)]
  BY DEF Reply
<1> QED
  BY <1>1, <1>2, <1>3

LEMMA ServiceTypeOK ==
  ASSUME TypeOK, NEW v \in Visitors,
         ReadUpload(v) \/ ReplyHead(v) \/ ReplyChunk(v) \/ ReplyEnd(v) \/ ReplyFails(v)
  PROVE  TypeOK'
<1>1. CASE ReadUpload(v)
  <2>1. Head(upload[v]) \in Nat /\ Tail(upload[v]) \in Seq(Nat)
    BY <1>1, TailOf DEF TypeOK, ReadUpload
  <2>2. Append(taken[v], Head(upload[v])) \in Seq(Nat)
    BY <2>1, AppendOf DEF TypeOK
  <2> QED
    BY <1>1, <2>1, <2>2 DEF TypeOK, ReadUpload, tunnel, handler
<1>2. CASE ReplyHead(v)
  <2>1. back' \in [Conns -> Seq(Frames)]
    BY <1>2, ReplyTypeOK, FrameIsFrame DEF ReplyHead
  <2> QED
    BY <1>2, <2>1 DEF TypeOK, ReplyHead, tunnel, handler
<1>3. CASE ReplyChunk(v)
  <2>1. replied[v] + 1 \in Nat
    BY DEF TypeOK
  <2>2. back' \in [Conns -> Seq(Frames)]
    BY <1>3, <2>1, ReplyTypeOK, FrameIsFrame DEF ReplyChunk
  <2> QED
    BY <1>3, <2>1, <2>2 DEF TypeOK, ReplyChunk, tunnel, handler
<1>4. CASE ReplyEnd(v)
  <2>1. back' \in [Conns -> Seq(Frames)]
    BY <1>4, ReplyTypeOK, FrameIsFrame DEF ReplyEnd
  <2> QED
    BY <1>4, <2>1 DEF TypeOK, ReplyEnd, EndTask, tunnel, handler
<1>5. CASE ReplyFails(v)
  <2>1. back' \in [Conns -> Seq(Frames)]
    <3>1. CASE UNCHANGED back
      BY <3>1 DEF TypeOK
    <3> QED
      BY <1>5, <3>1, ReplyTypeOK, FrameIsFrame DEF ReplyFails
  <2> QED
    BY <1>5, <2>1 DEF TypeOK, ReplyFails, EndTask, tunnel, handler
<1> QED
  BY <1>1, <1>2, <1>3, <1>4, <1>5

LEMMA NextTypeOK == TypeOK /\ [Next]_vars => TypeOK'
<1> SUFFICES ASSUME TypeOK, [Next]_vars PROVE TypeOK'
  OBVIOUS
<1>1. CASE UNCHANGED vars
  BY <1>1 DEF TypeOK, vars, tunnel, handler, service
<1>2. CASE Next
  BY <1>2, TunnelTypeOK, ReceiveTypeOK, HandlerTypeOK, TakeTypeOK, ServiceTypeOK DEF Next
<1> QED
  BY <1>1, <1>2

-------------------------------------------------------------------------------
(* What the actions do to the two queues.                                  *)

LEMMA Consumed ==
  ASSUME NEW q \in [Conns -> Seq(Frames)], NEW p, NEW k \in Conns,
         q[k] # <<>>, p = [q EXCEPT ![k] = Tail(@)]
  PROVE  /\ Head(q[k]) = q[k][1] /\ 1 \in 1 .. Len(q[k])
         /\ Head(q[k]).of \in Visitors /\ Head(q[k]).n \in Nat
         /\ Len(p[k]) = Len(q[k]) - 1
         /\ \A i \in 1 .. Len(p[k]) : p[k][i] = q[k][i + 1] /\ i + 1 \in 1 .. Len(q[k])
         /\ \A j \in Conns \ {k} : p[j] = q[j]
<1>1. q[k] \in Seq(Frames) /\ p[k] = Tail(q[k])
  OBVIOUS
<1>2. Head(q[k]) \in Frames /\ Head(q[k]) = q[k][1]
  BY <1>1, TailOf
<1>3. /\ Len(q[k]) \in Nat \ {0} /\ Len(p[k]) = Len(q[k]) - 1
      /\ \A i \in 1 .. Len(p[k]) : p[k][i] = q[k][i + 1]
  BY <1>1, TailOf
<1> QED
  BY <1>2, <1>3 DEF Frames

LEMMA Appended ==
  ASSUME NEW q \in [Conns -> Seq(Frames)], NEW p, NEW k \in Conns, NEW f \in Frames,
         p = [q EXCEPT ![k] = Append(@, f)]
  PROVE  /\ Len(q[k]) \in Nat /\ Len(p[k]) = Len(q[k]) + 1
         /\ \A i \in 1 .. Len(q[k]) : p[k][i] = q[k][i]
         /\ p[k][Len(q[k]) + 1] = f
         /\ \A j \in Conns \ {k} : p[j] = q[j]
<1>1. q[k] \in Seq(Frames) /\ p[k] = Append(q[k], f)
  OBVIOUS
<1> QED
  BY <1>1, AppendOf

(* Of a queue that a frame is put into, the frames there are the old ones  *)
(* at their places and the new one.                                        *)
LEMMA PutOnly ==
  ASSUME NEW q \in [Conns -> Seq(Frames)], NEW p, NEW k \in Conns, NEW f \in Frames,
         p = [q EXCEPT ![k] = Append(@, f)], NEW j \in Conns, NEW i \in 1 .. Len(p[j])
  PROVE  (i \in 1 .. Len(q[j]) /\ p[j][i] = q[j][i]) \/ (j = k /\ p[j][i] = f)
<1>1. CASE j = k
  <2>1. /\ Len(q[k]) \in Nat /\ Len(p[k]) = Len(q[k]) + 1
        /\ \A n \in 1 .. Len(q[k]) : p[k][n] = q[k][n]
        /\ p[k][Len(q[k]) + 1] = f
    BY Appended
  <2>2. i \in 1 .. Len(q[k]) \/ i = Len(q[k]) + 1
    BY <1>1, <2>1
  <2> QED
    BY <1>1, <2>1, <2>2
<1>2. CASE j # k
  BY <1>2, Appended
<1> QED
  BY <1>1, <1>2

LEMMA OfVisitor ==
  ASSUME NEW q \in [Conns -> Seq(Frames)], NEW k \in Conns, NEW i \in 1 .. Len(q[k])
  PROVE  q[k][i] \in Frames /\ q[k][i].of \in Visitors /\ q[k][i].n \in Nat
<1>1. q[k] \in Seq(Frames)
  OBVIOUS
<1>2. q[k][i] \in Frames
  BY <1>1
<1> QED
  BY <1>2 DEF Frames

(* Of the frames of p, some are of q, and a new one is of a handler at     *)
(* that connection.                                                        *)
Moved(q, p) ==
  \A k \in Conns : \A i \in 1 .. Len(p[k]) :
    \/ \E m \in 1 .. Len(q[k]) : p[k][i] = q[k][m]
    \/ at'[p[k][i].of] = k

Placed(p) == \A k \in Conns : \A i \in 1 .. Len(p[k]) : at'[p[k][i].of] = k

(* Then frames stay located, also when a handler finds its connection.     *)
LEMMA StillOnSocket ==
  ASSUME NEW q \in [Conns -> Seq(Frames)], NEW p, OnSocket(q), Moved(q, p),
         \A v \in Visitors : at[v] # None => at'[v] = at[v]
  PROVE  Placed(p)
<1> SUFFICES ASSUME NEW k \in Conns, NEW i \in 1 .. Len(p[k]) PROVE at'[p[k][i].of] = k
  BY DEF Placed
<1>1. CASE \E m \in 1 .. Len(q[k]) : p[k][i] = q[k][m]
  <2>1. PICK m \in 1 .. Len(q[k]) : p[k][i] = q[k][m]
    BY <1>1
  <2>2. at[q[k][m].of] = k /\ q[k][m].of \in Visitors
    BY OfVisitor DEF OnSocket
  <2> QED
    BY <2>1, <2>2, NoneAssumption
<1> QED
  BY <1>1 DEF Moved

ConnStep(k) ==
  \/ Connect(k) \/ Cut(k) \/ WorkerEnds(k) \/ LoopEnds(k) \/ FailPending(k)
  \/ UnregisterLooks(k) \/ UnregisterRemoves(k)
ReceiveStep(k) == ReceiveHead(k) \/ ReceiveEnd(k) \/ ReceiveData(k)
TakeStep(k) == TakeRequest(k) \/ TakeData(k) \/ TakeBodyEnd(k)
HandlerStep(v) ==
  \/ Find(v) \/ Register(v) \/ SendRequest(v) \/ SendChunk(v) \/ SendBodyEnd(v)
  \/ CallFails(v) \/ TakeHead(v) \/ EarlyEnd(v) \/ CopyChunk(v) \/ EndBody(v)
  \/ Expire(v) \/ Release(v)
ReplyStep(v) == ReplyHead(v) \/ ReplyChunk(v) \/ ReplyEnd(v) \/ ReplyFails(v)

LEMMA NextSteps ==
  ASSUME [Next]_vars
  PROVE  \/ \E k \in Conns : ConnStep(k) \/ ReceiveStep(k) \/ TakeStep(k)
         \/ \E v \in Visitors : HandlerStep(v) \/ ReadUpload(v) \/ ReplyStep(v)
         \/ UNCHANGED vars
  BY DEF Next, ConnStep, ReceiveStep, TakeStep, HandlerStep, ReplyStep

(* Only Find changes at, and only from None.                               *)
LEMMA AtStays ==
  ASSUME TypeOK, AtConn, [Next]_vars
  PROVE  \A v \in Visitors : at[v] # None => at'[v] = at[v]
<1>1. ASSUME NEW k \in Conns, ConnStep(k) PROVE UNCHANGED at
  BY <1>1 DEF ConnStep, Connect, Cut, WorkerEnds, LoopEnds, FailPending,
              UnregisterLooks, UnregisterRemoves, handler
<1>2. ASSUME NEW k \in Conns, ReceiveStep(k) PROVE UNCHANGED at
  BY <1>2 DEF ReceiveStep, ReceiveHead, ReceiveEnd, ReceiveData, handler
<1>3. ASSUME NEW k \in Conns, TakeStep(k) PROVE UNCHANGED at
  BY <1>3 DEF TakeStep, TakeRequest, TakeData, TakeBodyEnd, handler
<1>4. ASSUME NEW v \in Visitors, ReadUpload(v) \/ ReplyStep(v) PROVE UNCHANGED at
  BY <1>4 DEF ReadUpload, ReplyStep, ReplyHead, ReplyChunk, ReplyEnd, ReplyFails, handler
<1>5. ASSUME NEW v \in Visitors, HandlerStep(v)
      PROVE  \A u \in Visitors : at[u] # None => at'[u] = at[u]
  <2>1. CASE Find(v)
    BY <2>1 DEF Find, AtConn, TypeOK
  <2>2. CASE ~Find(v)
    BY <1>5, <2>2 DEF HandlerStep, Register, SendRequest, SendChunk, SendBodyEnd, CallFails,
                      TakeHead, EarlyEnd, CopyChunk, EndBody, Expire, Release, handler
  <2> QED
    BY <2>1, <2>2
<1>6. CASE UNCHANGED vars
  BY <1>6 DEF vars, handler
<1> QED
  BY <1>1, <1>2, <1>3, <1>4, <1>5, <1>6, NextSteps

(* A task's step: its frame f, which may be lost, and how far it is then.  *)
ReplyMove(v, f, put) ==
  /\ IF put THEN link[at[v]] = "up" /\ back' = [back EXCEPT ![at[v]] = Append(@, f)]
            ELSE back' = back
  /\ \/ /\ f.kind = "head" /\ task[v] = "dialing" /\ task'[v] = "replying"
        /\ replied'[v] = replied[v]
     \/ /\ f.kind = "data" /\ f.n = replied[v] + 1
        /\ task[v] = "replying" /\ task'[v] = "replying"
        /\ replied'[v] = replied[v] + 1 /\ (link[at[v]] = "up" => put)
     \/ /\ f.kind = "ok" /\ task[v] = "replying" /\ task'[v] = "finished"
        /\ replied'[v] = replied[v]
     \/ /\ f.kind = "error" /\ task[v] \in {"dialing", "replying"} /\ task'[v] = "failed"
        /\ replied'[v] = replied[v]

LEMMA ReplyMoves ==
  ASSUME TypeOK, AtConn, NEW v \in Visitors, ReplyStep(v)
  PROVE  /\ at[v] \in Conns /\ UNCHANGED <<tunnel, up, calls, call, handler>>
         /\ \A u \in Visitors \ {v} : task'[u] = task[u] /\ replied'[u] = replied[u]
         /\ \E f \in Frames, put \in BOOLEAN : f.of = v /\ ReplyMove(v, f, put)
<1>1. at[v] \in Conns
  BY DEF ReplyStep, ReplyHead, ReplyChunk, ReplyEnd, ReplyFails, Alive, AtConn
<1>2. UNCHANGED <<tunnel, up, calls, call, handler>>
  BY DEF ReplyStep, ReplyHead, ReplyChunk, ReplyEnd, ReplyFails
<1>3. \A u \in Visitors \ {v} : task'[u] = task[u] /\ replied'[u] = replied[u]
  BY DEF ReplyStep, ReplyHead, ReplyChunk, ReplyEnd, ReplyFails, EndTask, TypeOK
<1>4. \A kind \in {"data", "head", "ok", "error"}, n \in Nat :
        Frame(kind, v, n) \in Frames /\ Frame(kind, v, n) = [kind |-> kind, of |-> v, n |-> n]
  BY FrameIsFrame DEF Frame
<1>5. ASSUME NEW f, Reply(v, f)
      PROVE  \E put \in BOOLEAN :
               /\ IF put THEN link[at[v]] = "up" /\ back' = [back EXCEPT ![at[v]] = Append(@, f)]
                         ELSE back' = back
               /\ (link[at[v]] = "up" => put)
  <2>1. CASE link[at[v]] = "up"
    <3>1. back' = [back EXCEPT ![at[v]] = Append(@, f)]
      BY <1>5, <2>1 DEF Reply
    <3> QED
      BY <2>1, <3>1
  <2>2. CASE link[at[v]] # "up"
    <3>1. back' = [back EXCEPT ![at[v]] = back[at[v]]]
      BY <1>5, <2>2 DEF Reply
    <3>2. back' = back
      BY <1>1, <3>1 DEF TypeOK
    <3> QED
      BY <2>2, <3>2
  <2> QED
    BY <2>1, <2>2
<1>6. CASE ReplyHead(v)
  <2> DEFINE f == Frame("head", v, 0)
  <2>1. f \in Frames /\ f.of = v /\ f.kind = "head" /\ Reply(v, f)
    BY <1>4, <1>6 DEF ReplyHead
  <2>2. task[v] = "dialing" /\ task'[v] = "replying" /\ replied'[v] = replied[v]
    BY <1>6 DEF ReplyHead, TypeOK
  <2> HIDE DEF f
  <2> QED
    BY <1>1, <1>2, <1>3, <1>5, <2>1, <2>2 DEF ReplyMove
<1>7. CASE ReplyChunk(v)
  <2> DEFINE f == Frame("data", v, replied[v] + 1)
  <2>0. replied[v] + 1 \in Nat
    BY DEF TypeOK
  <2>1. f \in Frames /\ f.of = v /\ f.kind = "data" /\ f.n = replied[v] + 1 /\ Reply(v, f)
    BY <1>4, <1>7, <2>0 DEF ReplyChunk
  <2>2. task[v] = "replying" /\ task'[v] = "replying" /\ replied'[v] = replied[v] + 1
    BY <1>7 DEF ReplyChunk, TypeOK
  <2> HIDE DEF f
  <2> QED
    BY <1>1, <1>2, <1>3, <1>5, <2>1, <2>2 DEF ReplyMove
<1>8. CASE ReplyEnd(v)
  <2> DEFINE f == Frame("ok", v, 0)
  <2>1. f \in Frames /\ f.of = v /\ f.kind = "ok" /\ Reply(v, f)
    BY <1>4, <1>8 DEF ReplyEnd
  <2>2. task[v] = "replying" /\ task'[v] = "finished" /\ replied'[v] = replied[v]
    BY <1>8 DEF ReplyEnd, EndTask, TypeOK
  <2> HIDE DEF f
  <2> QED
    BY <1>1, <1>2, <1>3, <1>5, <2>1, <2>2 DEF ReplyMove
<1>9. CASE ReplyFails(v)
  <2> DEFINE f == Frame("error", v, 0)
  <2>1. f \in Frames /\ f.of = v /\ f.kind = "error" /\ (Reply(v, f) \/ UNCHANGED back)
    BY <1>4, <1>9 DEF ReplyFails
  <2>2. task[v] \in {"dialing", "replying"} /\ task'[v] = "failed" /\ replied'[v] = replied[v]
    BY <1>9 DEF ReplyFails, EndTask, Alive, TypeOK
  <2> HIDE DEF f
  <2>3. \E put \in BOOLEAN :
          IF put THEN link[at[v]] = "up" /\ back' = [back EXCEPT ![at[v]] = Append(@, f)]
                 ELSE back' = back
    BY <1>5, <2>1
  <2> QED
    BY <1>1, <1>2, <1>3, <2>1, <2>2, <2>3 DEF ReplyMove
<1> QED
  BY <1>6, <1>7, <1>8, <1>9 DEF ReplyStep

(* In all other steps the frames for the relay are frames that it had.     *)
LEMMA BackShrinks ==
  ASSUME TypeOK, [Next]_vars, \A v \in Visitors : ~ReplyStep(v)
  PROVE  \A k \in Conns : \A i \in 1 .. Len(back'[k]) :
           \E m \in 1 .. Len(back[k]) : back'[k][i] = back[k][m]
<1> DEFINE Goal == \A k \in Conns : \A i \in 1 .. Len(back'[k]) :
                     \E m \in 1 .. Len(back[k]) : back'[k][i] = back[k][m]
<1>0. back \in [Conns -> Seq(Frames)]
  BY DEF TypeOK
<1>1. ASSUME UNCHANGED back PROVE Goal
  BY <1>1
<1>2. ASSUME NEW k \in Conns, Cut(k) PROVE Goal
  <2>1. PICK n \in 0 .. Len(back[k]) : back' = [back EXCEPT ![k] = SubSeq(@, 1, n)]
    BY <1>2 DEF Cut
  <2>2. Len(back'[k]) = n /\ \A i \in 1 .. n : back'[k][i] = back[k][i]
    BY <1>0, <2>1, PrefixOf
  <2>3. \A j \in Conns \ {k} : back'[j] = back[j]
    BY <1>0, <2>1
  <2> QED
    BY <1>0, <2>2, <2>3
<1>3. ASSUME NEW k \in Conns, ReceiveStep(k) PROVE Goal
  <2>1. back[k] # <<>> /\ back' = [back EXCEPT ![k] = Tail(@)]
    BY <1>3 DEF ReceiveStep, ReceiveHead, ReceiveEnd, ReceiveData, Arrives, Consume
  <2> QED
    BY <1>0, <2>1, Consumed
<1>4. ASSUME NEW k \in Conns, ConnStep(k) \/ TakeStep(k), ~Cut(k) PROVE Goal
  BY <1>1, <1>4 DEF ConnStep, Connect, WorkerEnds, LoopEnds, FailPending, UnregisterLooks,
                    UnregisterRemoves, TakeStep, TakeRequest, TakeData, TakeBodyEnd
<1>5. ASSUME NEW v \in Visitors, HandlerStep(v) \/ ReadUpload(v) PROVE Goal
  BY <1>1, <1>5 DEF HandlerStep, Find, Register, SendRequest, SendChunk, SendBodyEnd,
                    CallFails, TakeHead, EarlyEnd, CopyChunk, EndBody, Expire, Release, ReadUpload
<1>6. CASE UNCHANGED vars
  BY <1>1, <1>6 DEF vars
<1> QED
  BY <1>2, <1>3, <1>4, <1>5, <1>6, NextSteps

(* So the relay gets frames that it had, and one of a task at its place.   *)
LEMMA BackMoves ==
  ASSUME TypeOK, AtConn, [Next]_vars
  PROVE  Moved(back, back')
<1>0. back \in [Conns -> Seq(Frames)]
  BY DEF TypeOK
<1>1. CASE \A v \in Visitors : ~ReplyStep(v)
  BY <1>1, BackShrinks DEF Moved
<1>2. ASSUME NEW v \in Visitors, ReplyStep(v) PROVE Moved(back, back')
  <2> DEFINE k == at[v]
  <2>1. k \in Conns /\ UNCHANGED at
    BY <1>2, ReplyMoves DEF handler
  <2>2. PICK f \in Frames, put \in BOOLEAN : f.of = v /\ ReplyMove(v, f, put)
    BY <1>2, ReplyMoves
  <2>3. CASE back' = back
    BY <2>3 DEF Moved
  <2>4. CASE back' = [back EXCEPT ![k] = Append(@, f)]
    <3>1. ASSUME NEW j \in Conns, NEW i \in 1 .. Len(back'[j])
          PROVE  \/ i \in 1 .. Len(back[j]) /\ back'[j][i] = back[j][i]
                 \/ j = k /\ back'[j][i] = f
      BY <1>0, <2>1, <2>4, PutOnly
    <3> QED
      BY <2>1, <2>2, <3>1 DEF Moved
  <2> QED
    BY <2>2, <2>3, <2>4 DEF ReplyMove
<1> QED
  BY <1>1, <1>2

(* What the worker gets: frames taken away, or one of a handler appended.  *)
LEMMA UpMoves ==
  ASSUME TypeOK, AtConn, [Next]_vars
  PROVE  \A k \in Conns : \A i \in 1 .. Len(up'[k]) :
           \/ \E m \in 1 .. Len(up[k]) : up'[k][i] = up[k][m]
           \/ at'[up'[k][i].of] = k
<1> DEFINE Goal == \A k \in Conns : \A i \in 1 .. Len(up'[k]) :
                     \/ \E m \in 1 .. Len(up[k]) : up'[k][i] = up[k][m]
                     \/ at'[up'[k][i].of] = k
<1>0. up \in [Conns -> Seq(Frames)]
  BY DEF TypeOK
<1>1. ASSUME UNCHANGED up PROVE Goal
  BY <1>1
<1>2. ASSUME NEW k \in Conns, ConnStep(k) \/ ReceiveStep(k) PROVE Goal
  BY <1>1, <1>2 DEF ConnStep, Connect, Cut, WorkerEnds, LoopEnds, FailPending,
                    UnregisterLooks, UnregisterRemoves,
                    ReceiveStep, ReceiveHead, ReceiveEnd, ReceiveData
<1>3. ASSUME NEW k \in Conns, TakeStep(k) PROVE Goal
  <2>1. up[k] # <<>> /\ up' = [up EXCEPT ![k] = Tail(@)]
    BY <1>3 DEF TakeStep, TakeRequest, TakeData, TakeBodyEnd, TakeFrame
  <2> QED
    BY <1>0, <2>1, Consumed
<1>4. ASSUME NEW v \in Visitors, ReadUpload(v) \/ ReplyStep(v) PROVE Goal
  BY <1>1, <1>4 DEF ReadUpload, ReplyStep, ReplyHead, ReplyChunk, ReplyEnd, ReplyFails
<1>5. ASSUME NEW v \in Visitors, HandlerStep(v) PROVE Goal
  <2> DEFINE k == at[v]
  <2>1. CASE SendRequest(v) \/ SendChunk(v) \/ SendBodyEnd(v)
    <3>1. PICK kind \in {"request", "data", "bodyend"}, n \in Nat : Write(v, Frame(kind, v, n))
      <4>1. 0 \in Nat /\ sent[v] + 1 \in Nat
        BY DEF TypeOK
      <4> QED
        BY <2>1, <4>1 DEF SendRequest, SendChunk, SendBodyEnd
    <3> DEFINE f == Frame(kind, v, n)
    <3>2. f \in Frames /\ f.of = v
      BY FrameIsFrame DEF Frame
    <3>3. at[v] \in Conns /\ UNCHANGED at
      BY <2>1 DEF SendRequest, SendChunk, SendBodyEnd, AtConn, Active, Busy
    <3>4. up' = [up EXCEPT ![k] = Append(@, f)]
      BY <3>1 DEF Write
    <3> HIDE DEF f
    <3>5. ASSUME NEW j \in Conns, NEW i \in 1 .. Len(up'[j])
          PROVE  \/ i \in 1 .. Len(up[j]) /\ up'[j][i] = up[j][i]
                 \/ j = k /\ up'[j][i] = f
      BY <1>0, <3>2, <3>3, <3>4, PutOnly
    <3> QED
      BY <3>2, <3>3, <3>5
  <2>2. CASE ~(SendRequest(v) \/ SendChunk(v) \/ SendBodyEnd(v))
    BY <1>1, <1>5, <2>2 DEF HandlerStep, Find, Register, CallFails, TakeHead, EarlyEnd,
                            CopyChunk, EndBody, Expire, Release
  <2> QED
    BY <2>1, <2>2
<1>6. CASE UNCHANGED vars
  BY <1>1, <1>6 DEF vars
<1> QED
  BY <1>2, <1>3, <1>4, <1>5, <1>6, NextSteps

(* What a frame of the relay's loop does to its call: nothing, a chunk or  *)
(* a head, or the end of a registered call, which leaves the table.        *)
ReceiveMove(k, v) ==
  /\ \A u \in Visitors \ {v} : call'[u] = call[u]
  /\ \/ /\ calls' = calls /\ call'[v].end = call[v].end
        /\ \/ call'[v].head = call[v].head
           \/ v \in calls[k] /\ call[v].head = "none"
        /\ call'[v].body = IF v \in calls[k] /\ Head(back[k]).kind = "data"
                             THEN Append(call[v].body, Head(back[k]).n)
                             ELSE call[v].body
     \/ /\ v \in calls[k] /\ calls' = [calls EXCEPT ![k] = @ \ {v}]
        /\ call'[v].end # "none"
        /\ call'[v].end = "ok" => Head(back[k]).kind = "ok"
        /\ call'[v].head = "set" => call[v].head = "set"
        /\ call'[v].body = call[v].body

LEMMA ReceiveMoves ==
  ASSUME TypeOK, NEW k \in Conns, ReceiveStep(k)
  PROVE  Head(back[k]).of \in Visitors /\ ReceiveMove(k, Head(back[k]).of)
<1> DEFINE f == Head(back[k])
           v == f.of
<1>1. back[k] # <<>>
  BY DEF ReceiveStep, ReceiveHead, ReceiveEnd, ReceiveData, Arrives
<1>2. v \in Visitors
  <2>1. back[k] \in Seq(Frames)
    BY DEF TypeOK
  <2>2. f \in Frames
    BY <1>1, <2>1, TailOf
  <2> QED
    BY <2>2 DEF Frames
<1>3. call[v] \in Calls /\ calls[k] \in SUBSET Visitors
  BY <1>2 DEF TypeOK
<1>4. CASE ReceiveHead(k)
  <2>1. call' = [call EXCEPT ![v] = [call[v] EXCEPT
          !.head = IF Registered(k, v) /\ call[v].head = "none" THEN "set" ELSE call[v].head]]
    BY <1>4 DEF ReceiveHead
  <2>2. \A u \in Visitors \ {v} : call'[u] = call[u]
    BY <2>1 DEF TypeOK
  <2>3. /\ call'[v].end = call[v].end /\ call'[v].body = call[v].body
        /\ call'[v].head = IF Registered(k, v) /\ call[v].head = "none"
                             THEN "set" ELSE call[v].head
    BY <1>2, <1>3, <2>1 DEF TypeOK, Calls
  <2>4. calls' = calls /\ f.kind = "head"
    BY <1>4 DEF ReceiveHead, Arrives
  <2> QED
    BY <1>2, <2>2, <2>3, <2>4 DEF ReceiveMove, Registered
<1>5. CASE ReceiveEnd(k)
  <2>1. PICK how \in {"ok", "error"} :
          /\ f.kind = how /\ calls' = [calls EXCEPT ![k] = @ \ {v}]
          /\ call' = [call EXCEPT ![v] =
               [call[v] EXCEPT !.end = IF Registered(k, v) THEN how ELSE call[v].end]]
    BY <1>5 DEF ReceiveEnd, Arrives
  <2>2. \A u \in Visitors \ {v} : call'[u] = call[u]
    BY <2>1 DEF TypeOK
  <2>3. /\ call'[v].end = IF Registered(k, v) THEN how ELSE call[v].end
        /\ call'[v].head = call[v].head /\ call'[v].body = call[v].body
    BY <1>2, <1>3, <2>1 DEF TypeOK, Calls
  <2>4. CASE v \in calls[k]
    <3>1. call'[v].end = how
      BY <2>3, <2>4 DEF Registered
    <3> QED
      BY <1>2, <2>1, <2>2, <2>3, <2>4, <3>1 DEF ReceiveMove
  <2>5. CASE v \notin calls[k]
    <3>1. calls[k] \ {v} = calls[k]
      BY <2>5
    <3>2. calls' = calls
      BY <2>1, <3>1 DEF TypeOK
    <3> QED
      BY <1>2, <2>2, <2>3, <2>5, <3>2 DEF ReceiveMove, Registered
  <2> QED
    BY <2>4, <2>5
<1>6. CASE ReceiveData(k)
  <2>0. f.kind = "data"
    BY <1>6 DEF ReceiveData, Arrives
  <2>1. CASE UNCHANGED <<calls, call>> /\ v \notin calls[k]
    BY <1>2, <2>1 DEF ReceiveMove
  <2>2. CASE /\ v \in calls[k] /\ calls' = [calls EXCEPT ![k] = @ \ {v}]
             /\ call' = [call EXCEPT ![v] = Failed(@)]
    <3>1. \A u \in Visitors \ {v} : call'[u] = call[u]
      BY <2>2 DEF TypeOK
    <3>2. call'[v] = Failed(call[v])
      BY <1>2, <2>2 DEF TypeOK
    <3>3. /\ Failed(call[v]).end = "error" /\ Failed(call[v]).body = call[v].body
          /\ Failed(call[v]).head = "set" => call[v].head = "set"
      BY <1>3 DEF Failed, Calls
    <3> QED
      BY <1>2, <2>2, <3>1, <3>2, <3>3 DEF ReceiveMove
  <2>3. CASE /\ UNCHANGED calls /\ v \in calls[k]
             /\ call' = [call EXCEPT ![v].body = Append(@, f.n)]
    <3>1. \A u \in Visitors \ {v} : call'[u] = call[u]
      BY <2>3 DEF TypeOK
    <3>2. call' = [call EXCEPT ![v] = [call[v] EXCEPT !.body = Append(call[v].body, f.n)]]
      BY <2>3
    <3>3. /\ call'[v].end = call[v].end /\ call'[v].head = call[v].head
          /\ call'[v].body = Append(call[v].body, f.n)
      BY <1>2, <1>3, <3>2 DEF TypeOK, Calls
    <3> QED
      BY <1>2, <2>0, <2>3, <3>1, <3>3 DEF ReceiveMove
  <2> QED
    BY <1>6, <2>1, <2>2, <2>3 DEF ReceiveData, Registered
<1> QED
  BY <1>2, <1>4, <1>5, <1>6 DEF ReceiveStep

-------------------------------------------------------------------------------
(* Located.                                                                *)

LEMMA InTableNext ==
  ASSUME TypeOK, Located, [Next]_vars
  PROVE  InTable'
<1>1. \A v \in Visitors : at[v] # None => at'[v] = at[v]
  BY AtStays DEF Located
<1>2. \A k \in Conns : \A v \in calls[k] : v \in Visitors /\ at[v] = k /\ at[v] # None
  BY NoneAssumption DEF TypeOK, Located, InTable
<1>3. ASSUME \A k \in Conns : calls'[k] \subseteq calls[k] PROVE InTable'
  BY <1>1, <1>2, <1>3 DEF InTable
<1>4. ASSUME NEW v \in Visitors, Register(v) PROVE InTable'
  <2>1. at[v] \in Conns /\ at' = at /\ calls' = [calls EXCEPT ![at[v]] = @ \cup {v}]
    BY <1>4 DEF Register, Located, AtConn, Active, Busy
  <2>2. \A k \in Conns : \A u \in calls'[k] : u \in calls[k] \/ (u = v /\ k = at[v])
    BY <2>1 DEF TypeOK
  <2> QED
    BY <1>2, <2>1, <2>2 DEF InTable
<1>5. ASSUME NEW k \in Conns, ReceiveStep(k) PROVE InTable'
  <2>1. calls' = calls \/ \E v \in Visitors : calls' = [calls EXCEPT ![k] = @ \ {v}]
    BY <1>5, ReceiveMoves DEF ReceiveMove
  <2>2. \A j \in Conns : calls'[j] \subseteq calls[j]
    BY <2>1 DEF TypeOK
  <2> QED
    BY <1>3, <2>2
<1>6. ASSUME NEW k \in Conns, ConnStep(k) \/ TakeStep(k) PROVE InTable'
  BY <1>3, <1>6 DEF ConnStep, Connect, Cut, WorkerEnds, LoopEnds, FailPending,
        UnregisterLooks, UnregisterRemoves, TakeStep, TakeRequest, TakeData, TakeBodyEnd
<1>7. ASSUME NEW v \in Visitors, HandlerStep(v), ~Register(v) PROVE InTable'
  BY <1>3, <1>7 DEF HandlerStep, Find, SendRequest, SendChunk, SendBodyEnd, CallFails,
        TakeHead, EarlyEnd, CopyChunk, EndBody, Expire, Release
<1>8. ASSUME NEW v \in Visitors, ReadUpload(v) \/ ReplyStep(v) PROVE InTable'
  BY <1>3, <1>8 DEF ReadUpload, ReplyStep, ReplyHead, ReplyChunk, ReplyEnd, ReplyFails
<1>9. CASE UNCHANGED vars
  BY <1>3, <1>9 DEF vars
<1> QED
  BY <1>4, <1>5, <1>6, <1>7, <1>8, <1>9, NextSteps

LEMMA AtConnNext ==
  ASSUME TypeOK, Located, [Next]_vars
  PROVE  AtConn'
<1>1. AtConn /\ OnSocket(up)
  BY DEF Located
<1>2. ASSUME UNCHANGED <<link, run, pc, at>>,
             \A v \in Visitors : task'[v] # "none" => task[v] # "none" \/ at[v] \in Conns
      PROVE  AtConn'
  BY <1>1, <1>2 DEF AtConn
<1>3. ASSUME NEW k \in Conns, ConnStep(k) PROVE AtConn'
  <2>1. UNCHANGED <<pc, at, task>>
    BY <1>3 DEF ConnStep, Connect, Cut, WorkerEnds, LoopEnds, FailPending,
                UnregisterLooks, UnregisterRemoves, handler, service
  <2>2. /\ \A j \in Conns \ {k} : link'[j] = link[j] /\ run'[j] = run[j]
        /\ run'[k] # "none" /\ link'[k] # "new"
        /\ link'[k] = "up" => run'[k] = "reading"
    BY <1>1, <1>3 DEF ConnStep, Connect, Cut, WorkerEnds, LoopEnds, FailPending,
                UnregisterLooks, UnregisterRemoves, TypeOK, AtConn
  <2>3. \A j \in Conns : run[j] # "none" => run'[j] # "none"
    BY <2>2
  <2>4. \A v \in Visitors : at[v] # None => at[v] \in Conns
    BY DEF TypeOK
  <2>5. /\ \A j \in Conns : run'[j] = "none" <=> link'[j] = "new"
        /\ \A j \in Conns : link'[j] = "up" => run'[j] = "reading"
    BY <1>1, <2>2 DEF AtConn
  <2> QED
    BY <1>1, <2>1, <2>3, <2>4, <2>5 DEF AtConn
<1>4. ASSUME NEW k \in Conns, ReceiveStep(k) PROVE AtConn'
  BY <1>2, <1>4 DEF ReceiveStep, ReceiveHead, ReceiveEnd, ReceiveData, tunnel, handler, service
<1>5. ASSUME NEW k \in Conns, TakeStep(k) PROVE AtConn'
  <2>1. CASE TakeRequest(k)
    <3>1. at[Head(up[k]).of] = k
      <4>1. up[k] # <<>> /\ up[k] \in Seq(Frames)
        BY <2>1 DEF TakeRequest, TakeFrame, TypeOK
      <4>2. Head(up[k]) = up[k][1] /\ 1 \in 1 .. Len(up[k])
        BY <4>1, TailOf
      <4> QED
        BY <1>1, <4>2 DEF OnSocket
    <3> QED
      BY <1>2, <2>1, <3>1 DEF TakeRequest, TypeOK, tunnel, handler
  <2>2. CASE ~TakeRequest(k)
    BY <1>2, <1>5, <2>2 DEF TakeStep, TakeData, TakeBodyEnd, tunnel, handler
  <2> QED
    BY <2>1, <2>2
<1>6. ASSUME NEW v \in Visitors, HandlerStep(v) PROVE AtConn'
  <2>0. UNCHANGED <<link, run, task>>
    BY <1>6 DEF HandlerStep, Find, Register, SendRequest, SendChunk, SendBodyEnd, CallFails,
                TakeHead, EarlyEnd, CopyChunk, EndBody, Expire, Release, tunnel, service
  <2>1. CASE Find(v)
    <3>1. CASE pc' = [pc EXCEPT ![v] = "done"] /\ UNCHANGED at
      BY <1>1, <2>0, <3>1 DEF AtConn, TypeOK, Active, Busy
    <3>2. CASE /\ workers # None /\ run[workers] = "reading"
               /\ pc' = [pc EXCEPT ![v] = "found"] /\ at' = [at EXCEPT ![v] = workers]
      <4>1. workers \in Conns /\ at'[v] = workers /\ pc'[v] = "found"
        BY <3>2 DEF TypeOK
      <4>2. \A u \in Visitors \ {v} : at'[u] = at[u] /\ pc'[u] = pc[u]
        BY <3>2 DEF TypeOK
      <4> QED
        BY <1>1, <2>0, <3>2, <4>1, <4>2 DEF AtConn
    <3> QED
      BY <2>1, <3>1, <3>2 DEF Find
  <2>2. CASE ~Find(v)
    <3>1. UNCHANGED at
      BY <1>6, <2>2 DEF HandlerStep, Register, SendRequest, SendChunk, SendBodyEnd, CallFails,
                TakeHead, EarlyEnd, CopyChunk, EndBody, Expire, Release, handler
    <3>2. /\ pc[v] \in Active
          /\ UNCHANGED pc \/ \E a \in Active \cup {"done"} : pc' = [pc EXCEPT ![v] = a]
      BY <1>6, <2>2 DEF HandlerStep, Register, SendRequest, SendChunk, SendBodyEnd, CallFails,
                TakeHead, EarlyEnd, CopyChunk, EndBody, Expire, Release, Leave, Over, handler,
                Active, Busy
    <3>3. /\ \A u \in Visitors : pc'[u] \in Active => pc[u] \in Active
          /\ \A u \in Visitors : pc'[u] = "idle" => pc[u] = "idle"
      BY <3>2 DEF TypeOK, Active, Busy
    <3> QED
      BY <1>1, <2>0, <3>1, <3>3 DEF AtConn
  <2> QED
    BY <2>1, <2>2
<1>7. ASSUME NEW v \in Visitors, ReadUpload(v) \/ ReplyStep(v) PROVE AtConn'
  <2>1. task[v] # "none" /\ \A u \in Visitors \ {v} : task'[u] = task[u]
    BY <1>7 DEF ReadUpload, ReplyStep, ReplyHead, ReplyChunk, ReplyEnd, ReplyFails,
                EndTask, Alive, TypeOK
  <2>2. UNCHANGED <<link, run, pc, at>>
    BY <1>7 DEF ReadUpload, ReplyStep, ReplyHead, ReplyChunk, ReplyEnd, ReplyFails,
                tunnel, handler
  <2> QED
    BY <1>2, <2>1, <2>2
<1>8. CASE UNCHANGED vars
  BY <1>2, <1>8 DEF vars, tunnel, handler, service
<1> QED
  BY <1>3, <1>4, <1>5, <1>6, <1>7, <1>8, NextSteps

LEMMA LocatedNext ==
  ASSUME TypeOK, Located, [Next]_vars
  PROVE  Located'
<1>1. \A v \in Visitors : at[v] # None => at'[v] = at[v]
  BY AtStays DEF Located
<1>2. up \in [Conns -> Seq(Frames)] /\ back \in [Conns -> Seq(Frames)]
  BY DEF TypeOK
<1>3. OnSocket(up) /\ OnSocket(back) /\ AtConn
  BY DEF Located
<1>4. Moved(up, up') /\ Moved(back, back')
  BY <1>3, UpMoves, BackMoves DEF Moved
<1>5. Placed(up') /\ Placed(back')
  BY <1>1, <1>2, <1>3, <1>4, StillOnSocket
<1>6. OnSocket(up)' /\ OnSocket(back)'
  BY <1>5 DEF OnSocket, Placed
<1> QED
  BY <1>6, InTableNext, AtConnNext DEF Located

-------------------------------------------------------------------------------
(* Pending, Answered and NoOrphan.                                         *)

Waits == Pending /\ Answered /\ NoOrphan

Dead(k) == run[k] \in {"failed", "looked", "gone"}

LEMMA WaitsUnchanged ==
  ASSUME Waits, UNCHANGED <<pc, at, answer, calls, call, run>>
  PROVE  Waits'
  BY DEF Waits, Pending, Answered, NoOrphan, Stranded, Refusing, Busy

(* A connection goes on from one stage to the next: one with a call in its *)
(* table has been reading before, and one that is dead by then was dead or *)
(* fails its calls now.                                                    *)
LEMMA WaitsConn ==
  ASSUME TypeOK, Located, Waits, NEW k \in Conns, ConnStep(k)
  PROVE  Waits'
<1>1. UNCHANGED <<pc, at, answer, calls>>
  BY DEF ConnStep, Connect, Cut, WorkerEnds, LoopEnds, FailPending,
         UnregisterLooks, UnregisterRemoves, handler
<1>2. \A v \in Visitors : v \in calls[k] => run[k] # "none"
  <2> SUFFICES ASSUME NEW v \in Visitors, v \in calls[k] PROVE run[k] # "none"
    OBVIOUS
  <2>1. at[v] = k /\ at[v] # None
    BY NoneAssumption DEF Located, InTable
  <2> QED
    BY <2>1 DEF Located, AtConn
<1>3. \A v \in Visitors : pc[v] \in Busy => at[v] \in Conns /\ run[at[v]] # "none"
  BY DEF Located, AtConn, Active
<1>4. CASE FailPending(k)
  <2>1. run[k] = "completed" /\ run' = [run EXCEPT ![k] = "failed"]
    BY <1>4 DEF FailPending
  <2>2. \A v \in Visitors :
          IF v \in calls[k]
            THEN call'[v].end = "error" /\ (call'[v].head = "set" => call[v].head = "set")
            ELSE call'[v] = call[v]
    <3> SUFFICES ASSUME NEW v \in Visitors
                 PROVE  IF v \in calls[k]
                          THEN /\ call'[v].end = "error"
                               /\ call'[v].head = "set" => call[v].head = "set"
                          ELSE call'[v] = call[v]
      OBVIOUS
    <3>1. call[v] \in Calls
      BY DEF TypeOK
    <3>2. /\ Failed(call[v]).end = "error"
          /\ Failed(call[v]).head = "set" => call[v].head = "set"
      BY <3>1 DEF Failed, Calls
    <3> QED
      BY <1>4, <3>2 DEF FailPending
  <2>3. \A j \in Conns : run'[j] = IF j = k THEN "failed" ELSE run[j]
    BY <2>1 DEF TypeOK
  <2>4. \A v \in Visitors : pc[v] \in {"idle", "found"} => v \notin calls[k]
    BY DEF Waits, Pending
  <2>5. Pending'
    <3>1. \A v \in Visitors : call[v].end # "none" => call'[v].end # "none"
      BY <2>2
    <3>2. \A v \in Visitors : v \notin calls[k] => call'[v].end = call[v].end
      BY <2>2
    <3>3. \A v \in Visitors : call'[v].end # "none" =>
            \A j \in Conns : v \in calls[j] => run'[j] # "reading"
      <4> SUFFICES ASSUME NEW v \in Visitors, call'[v].end # "none",
                          NEW j \in Conns, v \in calls[j]
                   PROVE  run'[j] # "reading"
        OBVIOUS
      <4>1. CASE v \in calls[k]
        <5>1. j = k
          BY <4>1 DEF Located, InTable
        <5> QED
          BY <2>3, <5>1
      <4>2. CASE v \notin calls[k]
        BY <2>3, <3>2, <4>2 DEF Waits, Pending
      <4> QED
        BY <4>1, <4>2
    <3> QED
      BY <1>1, <2>4, <3>1, <3>2, <3>3 DEF Waits, Pending
  <2>6. Answered'
    BY <1>1, <2>2 DEF Waits, Answered
  <2>7. NoOrphan'
    <3> SUFFICES ASSUME NEW v \in Visitors, pc[v] \in Busy, run'[at[v]] \in {"failed", "looked", "gone"}
                 PROVE  ~Stranded(v)'
      BY <1>1 DEF NoOrphan
    <3>1. CASE at[v] = k
      <4>1. Refusing(k)'
        BY <2>3 DEF Refusing
      <4>2. pc[v] \in {"headwait", "body"} => call'[v].end # "none"
        BY <1>3, <2>2, <3>1 DEF Waits, Pending
      <4> QED
        BY <1>1, <3>1, <4>1, <4>2 DEF Stranded
    <3>2. CASE at[v] # k
      <4>1. ~Stranded(v) /\ run'[at[v]] = run[at[v]] /\ at[v] \in Conns
        BY <1>3, <2>3, <3>2 DEF Waits, NoOrphan
      <4>2. call[v].end # "none" => call'[v].end # "none"
        BY <2>2
      <4> QED
        BY <1>1, <4>1, <4>2 DEF Stranded, Refusing
    <3> QED
      BY <3>1, <3>2
  <2> QED
    BY <2>5, <2>6, <2>7 DEF Waits
<1>5. CASE ~FailPending(k)
  <2>1. UNCHANGED call
    BY <1>5 DEF ConnStep, Connect, Cut, WorkerEnds, LoopEnds,
                UnregisterLooks, UnregisterRemoves
  <2>2. /\ \A j \in Conns \ {k} : run'[j] = run[j]
        /\ run'[k] = "reading" => run[k] \in {"none", "reading"}
        /\ Dead(k)' => Dead(k)
        /\ Refusing(k) => Refusing(k)'
    BY <1>5 DEF ConnStep, Connect, Cut, WorkerEnds, LoopEnds, UnregisterLooks,
                UnregisterRemoves, Dead, Refusing, TypeOK, Located, AtConn
  <2>3. Pending'
    BY <1>1, <1>2, <2>1, <2>2 DEF Waits, Pending
  <2>4. Answered'
    BY <1>1, <2>1 DEF Waits, Answered
  <2>5. NoOrphan'
    BY <1>1, <1>3, <2>1, <2>2 DEF Waits, NoOrphan, Stranded, Dead, Refusing
  <2> QED
    BY <2>3, <2>4, <2>5 DEF Waits
<1> QED
  BY <1>4, <1>5

LEMMA WaitsReceive ==
  ASSUME TypeOK, Located, Waits, NEW k \in Conns, ReceiveStep(k)
  PROVE  Waits'
<1>1. UNCHANGED <<pc, at, answer, run>> /\ run[k] = "reading"
  BY DEF ReceiveStep, ReceiveHead, ReceiveEnd, ReceiveData, Arrives, tunnel, handler
<1>2. PICK v \in Visitors :
           /\ \A u \in Visitors \ {v} : call'[u] = call[u]
           /\ \/ /\ calls' = calls /\ call'[v].end = call[v].end
                 /\ \/ call'[v].head = call[v].head
                    \/ v \in calls[k] /\ call[v].head = "none"
              \/ /\ v \in calls[k] /\ calls' = [calls EXCEPT ![k] = @ \ {v}]
                 /\ call'[v].end # "none"
                 /\ call'[v].head = "set" => call[v].head = "set"
  BY ReceiveMoves DEF ReceiveMove
<1>3. v \in calls[k] => at[v] = k /\ \A j \in Conns : v \in calls[j] => j = k
  BY DEF Located, InTable
<1>4. CASE /\ calls' = calls /\ call'[v].end = call[v].end
           /\ \/ call'[v].head = call[v].head
              \/ v \in calls[k] /\ call[v].head = "none"
  <2>1. Pending'
    BY <1>1, <1>2, <1>4 DEF Waits, Pending
  <2>2. Answered'
    BY <1>1, <1>2, <1>4 DEF Waits, Pending, Answered
  <2>3. NoOrphan'
    BY <1>1, <1>2, <1>4 DEF Waits, NoOrphan, Stranded, Refusing
  <2> QED
    BY <2>1, <2>2, <2>3 DEF Waits
<1>5. CASE /\ v \in calls[k] /\ calls' = [calls EXCEPT ![k] = @ \ {v}]
           /\ call'[v].end # "none"
           /\ call'[v].head = "set" => call[v].head = "set"
  <2>1. \A j \in Conns : \A u \in Visitors :
          u \in calls'[j] <=> u \in calls[j] /\ ~(j = k /\ u = v)
    BY <1>5 DEF TypeOK
  <2>2. \A u \in Visitors : pc[u] \in Busy => at[u] \in Conns
    BY DEF Located, AtConn, Active
  <2>3. Pending'
    BY <1>1, <1>2, <1>3, <1>5, <2>1, <2>2 DEF Waits, Pending, Busy
  <2>4. Answered'
    BY <1>1, <1>2, <1>5 DEF Waits, Answered
  <2>5. NoOrphan'
    BY <1>1, <1>2, <1>5 DEF Waits, NoOrphan, Stranded, Refusing
  <2> QED
    BY <2>3, <2>4, <2>5 DEF Waits
<1> QED
  BY <1>2, <1>4, <1>5

(* A handler's step: another visitor's call stays as it is, and so do the  *)
(* head and the end of its own.                                            *)
LEMMA HandlerMoves ==
  ASSUME TypeOK, NEW v \in Visitors, HandlerStep(v)
  PROVE  /\ UNCHANGED run
         /\ \A u \in Visitors : call'[u].end = call[u].end /\ call'[u].head = call[u].head
         /\ \A u \in Visitors \ {v} :
              pc'[u] = pc[u] /\ at'[u] = at[u] /\ answer'[u] = answer[u]
<1>1. UNCHANGED run
  BY DEF HandlerStep, Find, Register, SendRequest, SendChunk, SendBodyEnd, CallFails,
         TakeHead, EarlyEnd, CopyChunk, EndBody, Expire, Release, tunnel
<1>2. \A u \in Visitors : call'[u].end = call[u].end /\ call'[u].head = call[u].head
  <2>0. call[v] \in Calls
    BY DEF TypeOK
  <2>1. CASE UNCHANGED call
    BY <2>1
  <2>2. CASE \E b : call' = [call EXCEPT ![v] = [call[v] EXCEPT !.body = b]]
    BY <2>0, <2>2 DEF TypeOK, Calls
  <2>3. CASE \E c : call' = [call EXCEPT ![v] = [call[v] EXCEPT !.cancelled = c]]
    BY <2>0, <2>3 DEF TypeOK, Calls
  <2>4. CASE \E c, b : call' = [call EXCEPT ![v] =
                                  [call[v] EXCEPT !.cancelled = c, !.body = b]]
    BY <2>0, <2>4 DEF TypeOK, Calls
  <2>5. CASE CopyChunk(v)
    <3>1. call' = [call EXCEPT ![v] = [call[v] EXCEPT !.body = Tail(call[v].body)]]
      BY <2>5 DEF CopyChunk
    <3> QED
      BY <2>2, <3>1
  <2>6. CASE Expire(v)
    <3>1. call' = [call EXCEPT ![v] = [call[v] EXCEPT !.cancelled = TRUE]]
      BY <2>6 DEF Expire
    <3> QED
      BY <2>3, <3>1
  <2>7. CASE Release(v)
    <3>1. call' = [call EXCEPT ![v] = [call[v] EXCEPT !.cancelled = TRUE, !.body = <<>>]]
      BY <2>7 DEF Release
    <3> QED
      BY <2>4, <3>1
  <2> QED
    BY <2>1, <2>5, <2>6, <2>7 DEF HandlerStep, Find, Register, SendRequest, SendChunk,
         SendBodyEnd, CallFails, TakeHead, EarlyEnd, EndBody
<1>3. \A u \in Visitors \ {v} : at'[u] = at[u] /\ answer'[u] = answer[u]
  BY DEF HandlerStep, Find, Register, SendRequest, SendChunk, SendBodyEnd, CallFails,
         TakeHead, EarlyEnd, CopyChunk, EndBody, Expire, Release, Leave, Over, handler, TypeOK
<1>4. \A u \in Visitors \ {v} : pc'[u] = pc[u]
  <2>1. UNCHANGED pc \/ \E a : pc' = [pc EXCEPT ![v] = a]
    BY DEF HandlerStep, Find, Register, SendRequest, SendChunk, SendBodyEnd, CallFails,
         TakeHead, EarlyEnd, CopyChunk, EndBody, Expire, Release, Leave, Over, handler
  <2> QED
    BY <2>1 DEF TypeOK
<1> QED
  BY <1>1, <1>2, <1>3, <1>4

LEMMA WaitsHandler ==
  ASSUME TypeOK, Located, Waits, NEW v \in Visitors, HandlerStep(v)
  PROVE  Waits'
<1> USE HandlerMoves
<1>0. \A u \in Visitors : pc[u] \in Busy => at[u] \in Conns
  BY DEF Located, AtConn, Active
<1>1. CASE Register(v)
  <2>1. /\ pc[v] = "found" /\ pc'[v] = "registered" /\ UNCHANGED <<at, answer>>
        /\ calls' = [calls EXCEPT ![at[v]] = @ \cup {v}] /\ at[v] \in Conns
    BY <1>0, <1>1 DEF Register, TypeOK, Busy
  <2>2. \A j \in Conns : \A u \in Visitors :
          u \in calls'[j] <=> u \in calls[j] \/ (j = at[v] /\ u = v)
    BY <2>1 DEF TypeOK
  <2>3. Pending'
    BY <2>1, <2>2 DEF Waits, Pending
  <2>4. Answered'
    BY <2>1 DEF Waits, Answered
  <2>5. NoOrphan'
    BY <2>1 DEF Waits, NoOrphan, Stranded, Refusing
  <2> QED
    BY <2>3, <2>4, <2>5 DEF Waits
<1>2. ASSUME ~Register(v) PROVE UNCHANGED calls
  BY <1>2 DEF HandlerStep, Find, SendRequest, SendChunk, SendBodyEnd, CallFails,
         TakeHead, EarlyEnd, CopyChunk, EndBody, Expire, Release
<1>3. CASE Find(v)
  <2>1. UNCHANGED <<answer, calls>> /\ pc[v] = "idle" /\ pc'[v] \in {"done", "found"}
    BY <1>3 DEF Find, TypeOK
  <2>2. Pending'
    BY <2>1 DEF Waits, Pending
  <2>3. Answered'
    BY <2>1 DEF Waits, Answered
  <2>4. NoOrphan'
    BY <2>1 DEF Waits, NoOrphan, Stranded, Refusing, Busy
  <2> QED
    BY <2>2, <2>3, <2>4 DEF Waits
<1>4. CASE SendRequest(v) \/ SendChunk(v) \/ SendBodyEnd(v)
  <2>1. /\ UNCHANGED <<at, answer, calls>> /\ ~Refusing(at[v])
        /\ pc[v] \in {"registered", "uploading"} /\ pc'[v] \in {"uploading", "headwait"}
    BY <1>4 DEF SendRequest, SendChunk, SendBodyEnd, Write, handler, TypeOK
  <2>2. Pending'
    BY <2>1 DEF Waits, Pending
  <2>3. Answered'
    BY <2>1 DEF Waits, Answered
  <2>4. NoOrphan'
    BY <2>1 DEF Waits, NoOrphan, Stranded, Refusing
  <2> QED
    BY <2>2, <2>3, <2>4 DEF Waits
<1>5. CASE CallFails(v) \/ TakeHead(v) \/ EarlyEnd(v) \/ EndBody(v)
  <2>1. /\ UNCHANGED <<at, calls>>
        /\ pc[v] \in {"registered", "uploading", "headwait", "body"}
    BY <1>5 DEF CallFails, TakeHead, EarlyEnd, EndBody
  <2>2. \/ pc[v] = "headwait" /\ pc'[v] = "body" /\ answer'[v] = answer[v]
        \/ /\ pc'[v] = "leaving"
           /\ answer'[v] = "waiting" => call[v].end # "none" /\ call[v].head = "none"
    BY <1>5 DEF CallFails, TakeHead, EarlyEnd, EndBody, Leave, TypeOK
  <2>3. Pending'
    BY <2>1, <2>2 DEF Waits, Pending
  <2>4. Answered'
    BY <2>1, <2>2 DEF Waits, Answered
  <2>5. NoOrphan'
    BY <2>1, <2>2 DEF Waits, NoOrphan, Stranded, Refusing, Busy
  <2> QED
    BY <2>3, <2>4, <2>5 DEF Waits
<1>6. CASE CopyChunk(v) \/ Expire(v)
  <2>1. UNCHANGED <<pc, at, answer, calls>>
    BY <1>6 DEF CopyChunk, Expire, handler
  <2>2. Pending'
    BY <2>1 DEF Waits, Pending
  <2>3. Answered'
    BY <2>1 DEF Waits, Answered
  <2>4. NoOrphan'
    BY <2>1 DEF Waits, NoOrphan, Stranded, Refusing
  <2> QED
    BY <2>2, <2>3, <2>4 DEF Waits
<1>7. CASE Release(v)
  <2>1. UNCHANGED <<at, calls>> /\ pc'[v] = "done" /\ answer'[v] = "none"
    BY <1>7 DEF Release, Over, TypeOK
  <2>2. Pending'
    BY <2>1 DEF Waits, Pending
  <2>3. Answered'
    BY <2>1 DEF Waits, Answered
  <2>4. NoOrphan'
    BY <2>1 DEF Waits, NoOrphan, Stranded, Refusing, Busy
  <2> QED
    BY <2>2, <2>3, <2>4 DEF Waits
<1> QED
  BY <1>1, <1>3, <1>4, <1>5, <1>6, <1>7 DEF HandlerStep

LEMMA InitLedger == Init => Ledger
  BY InitTypeOK DEF Init, Ledger, Located, InTable, OnSocket, AtConn, Pending, Answered,
       NoOrphan, NewCall, Busy, Active

LEMMA NextLedger == Ledger /\ [Next]_vars => Ledger'
<1> SUFFICES ASSUME Ledger, [Next]_vars PROVE Ledger'
  OBVIOUS
<1>1. TypeOK /\ Located /\ Waits
  BY DEF Ledger, Waits
<1>2. TypeOK' /\ Located'
  BY <1>1, NextTypeOK, LocatedNext
<1>3. Waits'
  <2>1. ASSUME NEW k \in Conns, TakeStep(k) PROVE Waits'
    BY <1>1, <2>1, WaitsUnchanged DEF TakeStep, TakeRequest, TakeData, TakeBodyEnd,
         tunnel, handler
  <2>2. ASSUME NEW v \in Visitors, ReadUpload(v) \/ ReplyStep(v) PROVE Waits'
    BY <1>1, <2>2, WaitsUnchanged DEF ReadUpload, ReplyStep, ReplyHead, ReplyChunk, ReplyEnd,
         ReplyFails, tunnel, handler
  <2>3. CASE UNCHANGED vars
    BY <1>1, <2>3, WaitsUnchanged DEF vars, tunnel, handler
  <2> QED
    BY <1>1, <2>1, <2>2, <2>3, WaitsConn, WaitsReceive, WaitsHandler, NextSteps
<1> QED
  BY <1>2, <1>3 DEF Ledger, Waits

LEMMA LedgerHolds == Spec => []Ledger
  BY InitLedger, NextLedger, PTL DEF Spec

(* Every variable keeps its type: a frame is of a visitor, a table of      *)
(* calls holds visitors, a body is a sequence of chunks.                   *)
THEOREM TypeCorrect == Spec => []TypeOK
<1>1. Ledger => TypeOK
  BY DEF Ledger
<1> QED
  BY <1>1, LedgerHolds, PTL

(* A visitor whose connection has failed its calls is not left waiting:    *)
(* whenever it registered its call, the call has ended or its next frame   *)
(* is refused.                                                             *)
THEOREM NobodyIsOrphaned == Spec => []NoOrphan
<1>1. Ledger => NoOrphan
  BY DEF Ledger
<1> QED
  BY <1>1, LedgerHolds, PTL

(* A response with a head is not answered by the waiting page, and none    *)
(* gets its head after that page is shown.                                 *)
THEOREM HeadsAreHonoured == Spec => []HeadIsHonoured
<1>1. Ledger => HeadIsHonoured
  BY DEF Ledger, Answered, HeadIsHonoured
<1> QED
  BY <1>1, LedgerHolds, PTL

-------------------------------------------------------------------------------
(* Flow, as frames are appended, taken and cut off.                        *)

LEMMA FlowNone ==
  ASSUME NEW q \in Seq(Frames), NEW v, NEW h, NEW r,
         \A i \in 1 .. Len(q) : q[i].of # v
  PROVE  Flow(q, v, h, r, FALSE)
  BY DEF Flow, InOrder, EndIsLast, DataOf

LEMMA FlowTail ==
  ASSUME NEW q \in Seq(Frames), q # <<>>, NEW v, NEW h \in Nat, NEW r \in Nat,
         NEW w, Flow(q, v, h, r, w), ~DataOf(q, 1, v)
  PROVE  Flow(Tail(q), v, h, r, w)
<1> DEFINE p == Tail(q)
<1>1. /\ Len(q) \in Nat \ {0} /\ Len(p) = Len(q) - 1 /\ p \in Seq(Frames)
      /\ \A i \in 1 .. Len(p) : p[i] = q[i + 1] /\ i + 1 \in 1 .. Len(q)
  BY TailOf
<1> HIDE DEF p
<1>2. ASSUME NEW n, NEW i \in Nat, Before(q, v, n, i + 1) PROVE Before(p, v, n, i)
  <2>1. PICK j \in 1 .. Len(q) : j < i + 1 /\ DataOf(q, j, v) /\ q[j].n = n
    BY <1>2 DEF Before
  <2>2. j # 1
    BY <2>1
  <2>3. j - 1 \in 1 .. Len(p) /\ j - 1 < i /\ p[j - 1] = q[j]
    BY <1>1, <2>1, <2>2
  <2> QED
    BY <2>1, <2>3 DEF Before, DataOf
<1>3. InOrder(p, v, h, r)
  <2> SUFFICES ASSUME NEW i \in 1 .. Len(p), DataOf(p, i, v)
               PROVE  /\ h < p[i].n /\ p[i].n <= r
                      /\ \A j \in 1 .. Len(p) : j < i /\ DataOf(p, j, v) => p[j].n < p[i].n
                      /\ \A n \in h + 1 .. p[i].n - 1 : Before(p, v, n, i)
    BY DEF InOrder
  <2>1. p[i] = q[i + 1] /\ i + 1 \in 1 .. Len(q) /\ DataOf(q, i + 1, v)
    BY <1>1 DEF DataOf
  <2>2. /\ h < q[i + 1].n /\ q[i + 1].n <= r
        /\ \A j \in 1 .. Len(q) : j < i + 1 /\ DataOf(q, j, v) => q[j].n < q[i + 1].n
        /\ \A n \in h + 1 .. q[i + 1].n - 1 : Before(q, v, n, i + 1)
    BY <2>1 DEF Flow, InOrder
  <2>3. ASSUME NEW j \in 1 .. Len(p), j < i, DataOf(p, j, v) PROVE p[j].n < p[i].n
    <3>1. j + 1 \in 1 .. Len(q) /\ j + 1 < i + 1 /\ p[j] = q[j + 1] /\ DataOf(q, j + 1, v)
      BY <1>1, <2>3 DEF DataOf
    <3> QED
      BY <2>1, <2>2, <3>1
  <2> QED
    BY <1>1, <1>2, <2>1, <2>2, <2>3
<1>4. EndIsLast(p, v, h, r)
  <2> SUFFICES ASSUME NEW i \in 1 .. Len(p), p[i].kind = "ok", p[i].of = v,
                      NEW n \in h + 1 .. r
               PROVE  Before(p, v, n, i)
    BY DEF EndIsLast
  <2>1. Before(q, v, n, i + 1)
    BY <1>1 DEF Flow, EndIsLast
  <2> QED
    BY <1>1, <1>2, <2>1
<1>5. ASSUME w PROVE NoneMissing(p, v, h, r)
  <2> SUFFICES ASSUME NEW n \in h + 1 .. r PROVE Before(p, v, n, Len(p) + 1)
    BY DEF NoneMissing
  <2>1. Before(q, v, n, Len(q) + 1)
    BY <1>5 DEF Flow, NoneMissing
  <2> QED
    BY <1>1, <1>2, <2>1
<1> QED
  BY <1>3, <1>4, <1>5 DEF Flow, p

(* The first chunk on the way is the next one.                             *)
LEMMA FlowNext ==
  ASSUME NEW q \in Seq(Frames), q # <<>>, NEW v, NEW h \in Nat, NEW r \in Nat,
         NEW w, Flow(q, v, h, r, w), DataOf(q, 1, v)
  PROVE  q[1].n = h + 1 /\ h + 1 <= r /\ Flow(Tail(q), v, h + 1, r, w)
<1> DEFINE p == Tail(q)
<1>1. /\ Len(q) \in Nat \ {0} /\ Len(p) = Len(q) - 1 /\ p \in Seq(Frames)
      /\ \A i \in 1 .. Len(p) : p[i] = q[i + 1] /\ i + 1 \in 1 .. Len(q)
  BY TailOf
<1> HIDE DEF p
<1>2. q[1].n \in Nat /\ \A i \in 1 .. Len(q) : q[i].n \in Nat
  <2>1. \A i \in 1 .. Len(q) : q[i] \in Frames
    OBVIOUS
  <2> QED
    BY <1>1, <2>1 DEF Frames
<1>3. q[1].n = h + 1
  <2>1. h < q[1].n /\ q[1].n <= r /\ \A n \in h + 1 .. q[1].n - 1 : Before(q, v, n, 1)
    BY <1>1 DEF Flow, InOrder
  <2>2. ~Before(q, v, h + 1, 1)
    BY DEF Before
  <2>3. h + 1 \notin h + 1 .. q[1].n - 1
    BY <2>1, <2>2
  <2> QED
    BY <1>2, <2>1, <2>3
<1>4. h + 1 <= r
  BY <1>1, <1>3 DEF Flow, InOrder
<1>5. ASSUME NEW n \in Nat, n # h + 1, NEW i \in Nat, Before(q, v, n, i + 1)
      PROVE  Before(p, v, n, i)
  <2>1. PICK j \in 1 .. Len(q) : j < i + 1 /\ DataOf(q, j, v) /\ q[j].n = n
    BY <1>5 DEF Before
  <2>2. j # 1
    BY <1>3, <1>5, <2>1
  <2>3. j - 1 \in 1 .. Len(p) /\ j - 1 < i /\ p[j - 1] = q[j]
    BY <1>1, <2>1, <2>2
  <2> QED
    BY <2>1, <2>3 DEF Before, DataOf
<1>6. InOrder(p, v, h + 1, r)
  <2> SUFFICES ASSUME NEW i \in 1 .. Len(p), DataOf(p, i, v)
               PROVE  /\ h + 1 < p[i].n /\ p[i].n <= r
                      /\ \A j \in 1 .. Len(p) : j < i /\ DataOf(p, j, v) => p[j].n < p[i].n
                      /\ \A n \in h + 1 + 1 .. p[i].n - 1 : Before(p, v, n, i)
    BY DEF InOrder
  <2>1. p[i] = q[i + 1] /\ i + 1 \in 1 .. Len(q) /\ DataOf(q, i + 1, v) /\ 1 < i + 1
    BY <1>1 DEF DataOf
  <2>2. /\ q[i + 1].n <= r
        /\ \A j \in 1 .. Len(q) : j < i + 1 /\ DataOf(q, j, v) => q[j].n < q[i + 1].n
        /\ \A n \in h + 1 .. q[i + 1].n - 1 : Before(q, v, n, i + 1)
    BY <2>1 DEF Flow, InOrder
  <2>3. ASSUME NEW j \in 1 .. Len(p), j < i, DataOf(p, j, v) PROVE p[j].n < p[i].n
    <3>1. j + 1 \in 1 .. Len(q) /\ j + 1 < i + 1 /\ p[j] = q[j + 1] /\ DataOf(q, j + 1, v)
      BY <1>1, <2>3 DEF DataOf
    <3> QED
      BY <2>1, <2>2, <3>1
  <2>4. q[1].n < q[i + 1].n
    BY <1>1, <2>1, <2>2
  <2>5. ASSUME NEW n \in h + 1 + 1 .. p[i].n - 1 PROVE Before(p, v, n, i)
    <3>1. n \in Nat /\ n # h + 1 /\ n \in h + 1 .. q[i + 1].n - 1
      BY <1>2, <2>1, <2>5
    <3> QED
      BY <1>1, <1>5, <2>2, <3>1
  <2> QED
    BY <1>3, <2>1, <2>2, <2>3, <2>4, <2>5
<1>7. EndIsLast(p, v, h + 1, r)
  <2> SUFFICES ASSUME NEW i \in 1 .. Len(p), p[i].kind = "ok", p[i].of = v,
                      NEW n \in h + 1 + 1 .. r
               PROVE  Before(p, v, n, i)
    BY DEF EndIsLast
  <2>1. n \in Nat /\ n # h + 1 /\ n \in h + 1 .. r
    OBVIOUS
  <2>2. Before(q, v, n, i + 1)
    BY <1>1, <2>1 DEF Flow, EndIsLast
  <2> QED
    BY <1>1, <1>5, <2>1, <2>2
<1>8. ASSUME w PROVE NoneMissing(p, v, h + 1, r)
  <2> SUFFICES ASSUME NEW n \in h + 1 + 1 .. r PROVE Before(p, v, n, Len(p) + 1)
    BY DEF NoneMissing
  <2>1. n \in Nat /\ n # h + 1 /\ n \in h + 1 .. r
    OBVIOUS
  <2>2. Before(q, v, n, Len(q) + 1)
    BY <1>8, <2>1 DEF Flow, NoneMissing
  <2> QED
    BY <1>1, <1>5, <2>1, <2>2
<1> QED
  BY <1>3, <1>4, <1>6, <1>7, <1>8 DEF Flow, p

(* When the end is first, nothing is missing.                              *)
LEMMA FlowEnd ==
  ASSUME NEW q \in Seq(Frames), q # <<>>, NEW v, NEW h \in Nat, NEW r \in Nat,
         NEW w, Flow(q, v, h, r, w), q[1].kind = "ok", q[1].of = v
  PROVE  r <= h
<1>1. 1 \in 1 .. Len(q)
  <2>1. Len(q) \in Nat \ {0}
    BY TailOf
  <2> QED
    BY <2>1
<1>2. \A n \in h + 1 .. r : Before(q, v, n, 1)
  BY <1>1 DEF Flow, EndIsLast
<1>3. ~Before(q, v, h + 1, 1)
  BY DEF Before
<1> QED
  BY <1>2, <1>3

LEMMA FlowCut ==
  ASSUME NEW q \in Seq(Frames), NEW m \in 0 .. Len(q), NEW v, NEW h \in Nat, NEW r \in Nat,
         NEW w, Flow(q, v, h, r, w)
  PROVE  Flow(SubSeq(q, 1, m), v, h, r, FALSE)
<1> DEFINE p == SubSeq(q, 1, m)
<1>1. Len(q) \in Nat /\ Len(p) = m /\ m \in Nat /\ m <= Len(q) /\ \A i \in 1 .. m : p[i] = q[i]
  BY PrefixOf
<1> HIDE DEF p
<1>2. ASSUME NEW n, NEW i \in 1 .. m, Before(q, v, n, i) PROVE Before(p, v, n, i)
  BY <1>1, <1>2 DEF Before, DataOf
<1>3. InOrder(p, v, h, r)
  <2> SUFFICES ASSUME NEW i \in 1 .. m, DataOf(p, i, v)
               PROVE  /\ h < p[i].n /\ p[i].n <= r
                      /\ \A j \in 1 .. m : j < i /\ DataOf(p, j, v) => p[j].n < p[i].n
                      /\ \A n \in h + 1 .. p[i].n - 1 : Before(p, v, n, i)
    BY <1>1 DEF InOrder
  <2>1. p[i] = q[i] /\ i \in 1 .. Len(q) /\ DataOf(q, i, v)
    BY <1>1 DEF DataOf
  <2>2. /\ h < q[i].n /\ q[i].n <= r
        /\ \A j \in 1 .. Len(q) : j < i /\ DataOf(q, j, v) => q[j].n < q[i].n
        /\ \A n \in h + 1 .. q[i].n - 1 : Before(q, v, n, i)
    BY <2>1 DEF Flow, InOrder
  <2>3. ASSUME NEW j \in 1 .. m, j < i, DataOf(p, j, v) PROVE p[j].n < p[i].n
    <3>1. j \in 1 .. Len(q) /\ p[j] = q[j] /\ DataOf(q, j, v)
      BY <1>1, <2>3 DEF DataOf
    <3> QED
      BY <2>1, <2>2, <2>3, <3>1
  <2> QED
    BY <1>2, <2>1, <2>2, <2>3
<1>4. EndIsLast(p, v, h, r)
  <2> SUFFICES ASSUME NEW i \in 1 .. m, p[i].kind = "ok", p[i].of = v, NEW n \in h + 1 .. r
               PROVE  Before(p, v, n, i)
    BY <1>1 DEF EndIsLast
  <2>1. Before(q, v, n, i)
    BY <1>1 DEF Flow, EndIsLast
  <2> QED
    BY <1>2, <2>1
<1> QED
  BY <1>3, <1>4 DEF Flow, p

(* A frame appended: of another response or no chunk and no normal end; the*)
(* next chunk; the normal end.                                             *)
LEMMA FlowAppend ==
  ASSUME NEW q \in Seq(Frames), NEW f \in Frames, NEW v, NEW h \in Nat, NEW r \in Nat,
         NEW w, Flow(q, v, h, r, w)
  PROVE  /\ f.of # v \/ f.kind \notin {"data", "ok"} => Flow(Append(q, f), v, h, r, w)
         /\ f.of = v /\ f.kind = "data" /\ f.n = r + 1 /\ w /\ h <= r
              /\ (\A i \in 1 .. Len(q) : ~(q[i].kind = "ok" /\ q[i].of = v))
              => Flow(Append(q, f), v, h, r + 1, TRUE)
         /\ f.of = v /\ f.kind = "ok" /\ w => Flow(Append(q, f), v, h, r, FALSE)
<1> DEFINE p == Append(q, f)
           last == Len(q) + 1
<1>1. /\ Len(q) \in Nat /\ Len(p) = last /\ p[last] = f
      /\ \A i \in 1 .. Len(q) : p[i] = q[i]
      /\ \A i \in 1 .. last : i \in 1 .. Len(q) \/ i = last
  BY AppendOf
<1>0. \A i \in 1 .. Len(q) : q[i].n \in Nat
  <2>1. \A i \in 1 .. Len(q) : q[i] \in Frames
    OBVIOUS
  <2> QED
    BY <2>1 DEF Frames
<1> HIDE DEF p
<1>2. ASSUME NEW n, NEW i, Before(q, v, n, i) PROVE Before(p, v, n, i)
  BY <1>1, <1>2 DEF Before, DataOf
<1>3. ASSUME NEW n, Before(q, v, n, last) PROVE Before(p, v, n, last + 1)
  <2>1. PICK j \in 1 .. Len(q) : j < last /\ DataOf(q, j, v) /\ q[j].n = n
    BY <1>3 DEF Before
  <2>2. j \in 1 .. Len(p) /\ j < last + 1 /\ DataOf(p, j, v) /\ p[j].n = n
    BY <1>1, <2>1 DEF DataOf
  <2> QED
    BY <2>2 DEF Before
<1>4. ASSUME NEW i \in 1 .. Len(q), DataOf(p, i, v), NEW s \in Nat, r <= s
      PROVE  /\ h < p[i].n /\ p[i].n <= s
             /\ \A j \in 1 .. Len(p) : j < i /\ DataOf(p, j, v) => p[j].n < p[i].n
             /\ \A n \in h + 1 .. p[i].n - 1 : Before(p, v, n, i)
  <2>1. p[i] = q[i] /\ DataOf(q, i, v) /\ q[i].n \in Nat
    BY <1>0, <1>1, <1>4 DEF DataOf
  <2>2. /\ h < q[i].n /\ q[i].n <= r
        /\ \A j \in 1 .. Len(q) : j < i /\ DataOf(q, j, v) => q[j].n < q[i].n
        /\ \A n \in h + 1 .. q[i].n - 1 : Before(q, v, n, i)
    BY <2>1 DEF Flow, InOrder
  <2>3. ASSUME NEW j \in 1 .. Len(p), j < i, DataOf(p, j, v) PROVE p[j].n < p[i].n
    <3>1. j \in 1 .. Len(q)
      BY <1>1, <2>3
    <3>2. p[j] = q[j] /\ DataOf(q, j, v)
      BY <1>1, <2>3, <3>1 DEF DataOf
    <3> QED
      BY <2>1, <2>2, <2>3, <3>1, <3>2
  <2> QED
    BY <1>2, <1>4, <2>1, <2>2, <2>3
<1>5. ASSUME NEW i \in 1 .. Len(q), p[i].kind = "ok", p[i].of = v, NEW n \in h + 1 .. r
      PROVE  Before(p, v, n, i)
  <2>1. Before(q, v, n, i)
    BY <1>1, <1>5 DEF Flow, EndIsLast
  <2> QED
    BY <1>2, <2>1
<1>6. ASSUME w, NEW n \in h + 1 .. r PROVE Before(q, v, n, last)
  BY <1>6 DEF Flow, NoneMissing
<1>7. ASSUME f.of # v \/ f.kind \notin {"data", "ok"} PROVE Flow(p, v, h, r, w)
  <2>1. ~DataOf(p, last, v) /\ ~(p[last].kind = "ok" /\ p[last].of = v)
    BY <1>1, <1>7 DEF DataOf
  <2>2. InOrder(p, v, h, r)
    BY <1>1, <1>4, <2>1 DEF InOrder
  <2>3. EndIsLast(p, v, h, r)
    BY <1>1, <1>5, <2>1 DEF EndIsLast
  <2>4. w => NoneMissing(p, v, h, r)
    BY <1>1, <1>3, <1>6 DEF NoneMissing
  <2> QED
    BY <2>2, <2>3, <2>4 DEF Flow
<1>8. ASSUME f.of = v, f.kind = "data", f.n = r + 1, w, h <= r,
             \A i \in 1 .. Len(q) : ~(q[i].kind = "ok" /\ q[i].of = v)
      PROVE  Flow(p, v, h, r + 1, TRUE)
  <2>1. DataOf(p, last, v) /\ p[last].n = r + 1 /\ p[last].kind # "ok"
    BY <1>1, <1>8 DEF DataOf
  <2>2. InOrder(p, v, h, r + 1)
    <3>1. \A j \in 1 .. Len(p) : j < last /\ DataOf(p, j, v) => p[j].n < r + 1
      <4> SUFFICES ASSUME NEW j \in 1 .. Len(p), j < last, DataOf(p, j, v) PROVE p[j].n < r + 1
        OBVIOUS
      <4>1. j \in 1 .. Len(q)
        BY <1>1
      <4>2. p[j] = q[j] /\ DataOf(q, j, v) /\ q[j].n \in Nat
        BY <1>0, <1>1, <4>1 DEF DataOf
      <4> QED
        BY <4>1, <4>2 DEF Flow, InOrder
    <3>2. \A n \in h + 1 .. r + 1 - 1 : Before(p, v, n, last)
      BY <1>2, <1>6, <1>8
    <3>3. \A i \in 1 .. Len(q) : DataOf(p, i, v) =>
            /\ h < p[i].n /\ p[i].n <= r + 1
            /\ \A j \in 1 .. Len(p) : j < i /\ DataOf(p, j, v) => p[j].n < p[i].n
            /\ \A n \in h + 1 .. p[i].n - 1 : Before(p, v, n, i)
      BY <1>4
    <3> QED
      BY <1>1, <1>8, <2>1, <3>1, <3>2, <3>3 DEF InOrder
  <2>3. EndIsLast(p, v, h, r + 1)
    BY <1>1, <1>8, <2>1 DEF EndIsLast
  <2>4. NoneMissing(p, v, h, r + 1)
    <3> SUFFICES ASSUME NEW n \in h + 1 .. r + 1 PROVE Before(p, v, n, last + 1)
      BY <1>1 DEF NoneMissing
    <3>1. CASE n = r + 1
      BY <1>1, <2>1, <3>1 DEF Before
    <3>2. CASE n # r + 1
      BY <1>3, <1>6, <1>8, <3>2
    <3> QED
      BY <3>1, <3>2
  <2> QED
    BY <2>2, <2>3, <2>4 DEF Flow
<1>9. ASSUME f.of = v, f.kind = "ok", w PROVE Flow(p, v, h, r, FALSE)
  <2>1. ~DataOf(p, last, v)
    BY <1>1, <1>9 DEF DataOf
  <2>2. InOrder(p, v, h, r)
    BY <1>1, <1>4, <2>1 DEF InOrder
  <2>3. EndIsLast(p, v, h, r)
    BY <1>1, <1>2, <1>5, <1>6, <1>9 DEF EndIsLast
  <2> QED
    BY <2>2, <2>3 DEF Flow
<1> QED
  BY <1>7, <1>8, <1>9 DEF p

(* A chunk that is lost with the socket.                                   *)
LEMMA FlowLost ==
  ASSUME NEW q \in Seq(Frames), NEW v, NEW h \in Nat, NEW r \in Nat,
         NEW w, Flow(q, v, h, r, w),
         \A i \in 1 .. Len(q) : ~(q[i].kind = "ok" /\ q[i].of = v)
  PROVE  Flow(q, v, h, r + 1, FALSE)
<1>1. InOrder(q, v, h, r + 1)
  <2>1. \A i \in 1 .. Len(q) : q[i] \in Frames
    OBVIOUS
  <2>2. \A i \in 1 .. Len(q) : q[i].n \in Nat
    BY <2>1 DEF Frames
  <2>3. \A i \in 1 .. Len(q) : DataOf(q, i, v) => q[i].n <= r + 1
    BY <2>2 DEF Flow, InOrder
  <2> QED
    BY <2>3 DEF Flow, InOrder
<1> QED
  BY <1>1 DEF Flow, EndIsLast

-------------------------------------------------------------------------------
(* AskedOnce.                                                              *)

(* Steps that neither send a request, nor take one, nor answer one.        *)
LEMMA AskedElse ==
  ASSUME TypeOK, AskedOnce, [Next]_vars, \A v \in Visitors : ~ReplyStep(v),
         UNCHANGED <<up, task, replied>>,
         \A u \in Visitors : pc'[u] \in Early => pc[u] \in Early
  PROVE  AskedOnce'
<1>1. EarlyUnasked' /\ NoneBefore' /\ RequestsWait'
  BY DEF AskedOnce, EarlyUnasked, NoneBefore, RequestsWait, Unasked, Asks
<1>2. AnswersFollow'
  <2>1. \A k \in Conns : \A i \in 1 .. Len(back'[k]) :
           \E m \in 1 .. Len(back[k]) : back'[k][i] = back[k][m]
    BY BackShrinks
  <2> QED
    BY <2>1 DEF AskedOnce, AnswersFollow
<1> QED
  BY <1>1, <1>2 DEF AskedOnce

LEMMA AskedSend ==
  ASSUME TypeOK, Located, AskedOnce, NEW v \in Visitors,
         SendRequest(v) \/ SendChunk(v) \/ SendBodyEnd(v)
  PROVE  AskedOnce'
<1> DEFINE k == at[v]
<1>1. UNCHANGED <<back, task, replied>>
  BY DEF SendRequest, SendChunk, SendBodyEnd, service
<1>2. /\ pc'[v] \notin Early /\ \A u \in Visitors \ {v} : pc'[u] = pc[u]
      /\ pc[v] \in {"registered", "uploading"}
  BY DEF SendRequest, SendChunk, SendBodyEnd, handler, TypeOK, Early
<1>3. PICK f \in Frames : /\ f.of = v /\ up' = [up EXCEPT ![k] = Append(@, f)]
                          /\ f.kind = "request" => pc[v] = "registered"
  <2>1. sent[v] + 1 \in Nat
    BY DEF TypeOK
  <2>2. \A kind \in {"request", "data", "bodyend"}, n \in Nat :
          Frame(kind, v, n) \in Frames /\ Frame(kind, v, n) = [kind |-> kind, of |-> v, n |-> n]
    BY FrameIsFrame DEF Frame
  <2>3. CASE SendRequest(v)
    <3> DEFINE f == Frame("request", v, 0)
    <3>1. f \in Frames /\ f.of = v /\ up' = [up EXCEPT ![k] = Append(@, f)]
      BY <2>2, <2>3 DEF SendRequest, Write
    <3>2. pc[v] = "registered"
      BY <2>3 DEF SendRequest
    <3> HIDE DEF f
    <3> QED
      BY <3>1, <3>2
  <2>4. CASE SendChunk(v)
    <3> DEFINE f == Frame("data", v, sent[v] + 1)
    <3>1. f \in Frames /\ f.of = v /\ f.kind = "data"
      BY <2>1, <2>2
    <3>2. up' = [up EXCEPT ![k] = Append(@, f)]
      BY <2>4 DEF SendChunk, Write
    <3> HIDE DEF f
    <3> QED
      BY <3>1, <3>2
  <2>5. CASE SendBodyEnd(v)
    <3> DEFINE f == Frame("bodyend", v, 0)
    <3>1. f \in Frames /\ f.of = v /\ f.kind = "bodyend"
      BY <2>2
    <3>2. up' = [up EXCEPT ![k] = Append(@, f)]
      BY <2>5 DEF SendBodyEnd, Write
    <3> HIDE DEF f
    <3> QED
      BY <3>1, <3>2
  <2> QED
    BY <2>3, <2>4, <2>5
<1>4. k \in Conns /\ up \in [Conns -> Seq(Frames)]
  BY <1>2 DEF Located, AtConn, Active, Busy, TypeOK
<1>5. /\ Len(up[k]) \in Nat /\ Len(up'[k]) = Len(up[k]) + 1
      /\ \A i \in 1 .. Len(up[k]) : up'[k][i] = up[k][i]
      /\ up'[k][Len(up[k]) + 1] = f
      /\ \A j \in Conns \ {k} : up'[j] = up[j]
  BY <1>3, <1>4, Appended
<1> HIDE DEF k
<1>6. EarlyUnasked' /\ NoneBefore' /\ AnswersFollow'
  BY <1>1, <1>2 DEF AskedOnce, EarlyUnasked, NoneBefore, AnswersFollow, Unasked
<1>7. RequestsWait'
  <2>1. \A u \in Visitors : Unasked(u)' <=> Unasked(u)
    BY <1>1 DEF Unasked
  <2>2. \A u \in Visitors : pc[u] \notin Early => pc'[u] \notin Early
    BY <1>2
  <2>3. ASSUME NEW j \in Conns \ {k}, NEW u \in Visitors, NEW i \in 1 .. Len(up'[j]),
               Asks(up'[j], i, u)
        PROVE  /\ Unasked(u) /\ pc'[u] \notin Early
               /\ \A m \in 1 .. Len(up'[j]) : Asks(up'[j], m, u) => m = i
    BY <1>5, <2>2, <2>3 DEF AskedOnce, RequestsWait
  <2>4. \A u \in Visitors, i \in 1 .. Len(up[k]) : Asks(up[k], i, u) =>
          /\ Unasked(u) /\ pc[u] \notin Early
          /\ \A m \in 1 .. Len(up[k]) : Asks(up[k], m, u) => m = i
    BY <1>4 DEF AskedOnce, RequestsWait
  <2>5. /\ \A u \in Visitors, i \in 1 .. Len(up[k]) : Asks(up'[k], i, u) <=> Asks(up[k], i, u)
        /\ \A u \in Visitors : Asks(up'[k], Len(up[k]) + 1, u) =>
             u = v /\ pc[v] = "registered"
    BY <1>3, <1>5 DEF Asks
  <2>6. pc[v] = "registered" =>
          Unasked(v) /\ \A i \in 1 .. Len(up[k]) : ~Asks(up[k], i, v)
    BY <2>4 DEF AskedOnce, EarlyUnasked, Early
  <2>7. \A i \in 1 .. Len(up'[k]) : i \in 1 .. Len(up[k]) \/ i = Len(up[k]) + 1
    BY <1>5
  <2>8. ASSUME NEW u \in Visitors, NEW i \in 1 .. Len(up'[k]), Asks(up'[k], i, u)
        PROVE  /\ Unasked(u) /\ pc'[u] \notin Early
               /\ \A m \in 1 .. Len(up'[k]) : Asks(up'[k], m, u) => m = i
    <3>1. CASE i \in 1 .. Len(up[k])
      BY <2>2, <2>4, <2>5, <2>6, <2>7, <2>8, <3>1
    <3>2. CASE i = Len(up[k]) + 1
      BY <1>2, <2>5, <2>6, <2>7, <2>8, <3>2
    <3> QED
      BY <2>7, <3>1, <3>2
  <2> QED
    BY <2>1, <2>3, <2>8 DEF RequestsWait
<1> QED
  BY <1>6, <1>7 DEF AskedOnce

LEMMA AskedTake ==
  ASSUME TypeOK, Located, AskedOnce, NEW k \in Conns, TakeStep(k)
  PROVE  AskedOnce'
<1> DEFINE f == Head(up[k])
           v == f.of
<1>1. up[k] # <<>> /\ up' = [up EXCEPT ![k] = Tail(@)] /\ UNCHANGED <<back, pc, replied>>
  BY DEF TakeStep, TakeRequest, TakeData, TakeBodyEnd, TakeFrame, handler
<1>2. up \in [Conns -> Seq(Frames)]
  BY DEF TypeOK
<1>3. /\ f = up[k][1] /\ 1 \in 1 .. Len(up[k]) /\ v \in Visitors
      /\ Len(up'[k]) = Len(up[k]) - 1
      /\ \A i \in 1 .. Len(up'[k]) : up'[k][i] = up[k][i + 1] /\ i + 1 \in 1 .. Len(up[k])
      /\ \A j \in Conns \ {k} : up'[j] = up[j]
  <2> HIDE DEF f, v
  <2>1. /\ Head(up[k]) = up[k][1] /\ 1 \in 1 .. Len(up[k]) /\ Head(up[k]).of \in Visitors
        /\ Len(up'[k]) = Len(up[k]) - 1
    <3>1. up[k] # <<>> /\ up' = [up EXCEPT ![k] = Tail(@)]
      BY <1>1
    <3>2. Head(up[k]) = up[k][1] /\ 1 \in 1 .. Len(up[k])
      BY <1>2, <3>1, Consumed
    <3>3. Head(up[k]).of \in Visitors
      BY <1>2, <3>1, Consumed
    <3>4. Len(up'[k]) = Len(up[k]) - 1
      BY <1>2, <3>1, Consumed
    <3> QED
      BY <3>2, <3>3, <3>4
  <2>2. \A i \in 1 .. Len(up'[k]) : up'[k][i] = up[k][i + 1] /\ i + 1 \in 1 .. Len(up[k])
    BY <1>1, <1>2, Consumed
  <2>3. \A j \in Conns \ {k} : up'[j] = up[j]
    BY <1>1, <1>2
  <2> QED
    BY <2>1, <2>2, <2>3 DEF f, v
<1>4. /\ \A u \in Visitors \ {v} : task'[u] = task[u]
      /\ \/ UNCHANGED task
         \/ f.kind = "request" /\ task'[v] = "dialing"
  BY <1>3 DEF TakeStep, TakeRequest, TakeData, TakeBodyEnd, TakeFrame, TypeOK
<1>5. f.kind = "request" <=> Asks(up[k], 1, v)
  BY <1>3 DEF Asks
<1>6. Asks(up[k], 1, v) => Unasked(v) /\ pc[v] \notin Early
  BY <1>3 DEF AskedOnce, RequestsWait
<1> HIDE DEF f, v
<1>7. EarlyUnasked' /\ NoneBefore' /\ AnswersFollow'
  BY <1>1, <1>3, <1>4, <1>5, <1>6
     DEF AskedOnce, EarlyUnasked, NoneBefore, AnswersFollow, Unasked
<1>8. RequestsWait'
  <2>1. ASSUME NEW j \in Conns, NEW u \in Visitors, NEW i \in 1 .. Len(up[j]),
               Asks(up[j], i, u), j # k \/ i # 1
        PROVE  /\ Unasked(u)' /\ pc'[u] \notin Early
               /\ \A m \in 1 .. Len(up[j]) : Asks(up[j], m, u) => m = i
    <3>1. /\ Unasked(u) /\ pc[u] \notin Early
          /\ \A m \in 1 .. Len(up[j]) : Asks(up[j], m, u) => m = i
      BY <2>1 DEF AskedOnce, RequestsWait
    <3>2. at[u] = j /\ at[v] = k
      BY <1>3, <2>1 DEF Located, OnSocket, Asks, v
    <3>3. f.kind = "request" => u # v
      BY <1>3, <1>5, <2>1, <3>1, <3>2
    <3> QED
      BY <1>1, <1>4, <3>1, <3>3 DEF Unasked
  <2>2. ASSUME NEW j \in Conns \ {k}, NEW u \in Visitors, NEW i \in 1 .. Len(up'[j]),
               Asks(up'[j], i, u)
        PROVE  /\ Unasked(u)' /\ pc'[u] \notin Early
               /\ \A m \in 1 .. Len(up'[j]) : Asks(up'[j], m, u) => m = i
    BY <1>3, <2>1, <2>2
  <2>3. ASSUME NEW u \in Visitors, NEW i \in 1 .. Len(up'[k]), Asks(up'[k], i, u)
        PROVE  /\ Unasked(u)' /\ pc'[u] \notin Early
               /\ \A m \in 1 .. Len(up'[k]) : Asks(up'[k], m, u) => m = i
    <3>1. \A m \in 1 .. Len(up'[k]) :
            m + 1 \in 1 .. Len(up[k]) /\ m + 1 # 1 /\ (Asks(up'[k], m, u) <=> Asks(up[k], m + 1, u))
      BY <1>3 DEF Asks
    <3>2. /\ Unasked(u)' /\ pc'[u] \notin Early
          /\ \A m \in 1 .. Len(up[k]) : Asks(up[k], m, u) => m = i + 1
      BY <2>1, <2>3, <3>1
    <3> QED
      BY <3>1, <3>2
  <2> QED
    BY <2>2, <2>3 DEF RequestsWait
<1> QED
  BY <1>7, <1>8 DEF AskedOnce

LEMMA AskedReply ==
  ASSUME TypeOK, Located, AskedOnce, NEW v \in Visitors, ReplyStep(v)
  PROVE  AskedOnce'
<1>1. /\ at[v] \in Conns /\ UNCHANGED <<up, pc>>
      /\ \A u \in Visitors \ {v} : task'[u] = task[u] /\ replied'[u] = replied[u]
  BY ReplyMoves DEF Located, handler
<1>2. PICK f \in Frames, put \in BOOLEAN : f.of = v /\ ReplyMove(v, f, put)
  BY ReplyMoves DEF Located
<1>3. /\ task[v] \in {"dialing", "replying"} /\ task'[v] \notin {"none", "dialing"}
      /\ f.kind = "ok" => task'[v] = "finished"
  BY <1>2 DEF ReplyMove
<1>4. ~Unasked(v)
  BY <1>3 DEF Unasked
<1>5. EarlyUnasked' /\ NoneBefore'
  BY <1>1, <1>3, <1>4 DEF AskedOnce, EarlyUnasked, NoneBefore, Unasked
<1>6. RequestsWait'
  <2>1. \A u \in Visitors \ {v} : Unasked(u)' <=> Unasked(u)
    BY <1>1 DEF Unasked
  <2> QED
    BY <1>1, <1>4, <2>1 DEF AskedOnce, RequestsWait
<1>7. AnswersFollow'
  <2>1. \A k \in Conns : \A u \in Visitors : \A i \in 1 .. Len(back[k]) :
          back[k][i].of = u =>
            task'[u] # "none" /\ (back[k][i].kind = "ok" => task'[u] = "finished")
    BY <1>1, <1>3 DEF AskedOnce, AnswersFollow
  <2>2. CASE back' = back
    BY <2>1, <2>2 DEF AnswersFollow
  <2>3. CASE back' = [back EXCEPT ![at[v]] = Append(@, f)]
    <3> DEFINE k == at[v]
    <3>0. back \in [Conns -> Seq(Frames)]
      BY DEF TypeOK
    <3>1. /\ Len(back[k]) \in Nat /\ Len(back'[k]) = Len(back[k]) + 1
          /\ \A i \in 1 .. Len(back[k]) : back'[k][i] = back[k][i]
          /\ back'[k][Len(back[k]) + 1] = f
          /\ \A j \in Conns \ {k} : back'[j] = back[j]
      BY <1>1, <2>3, <3>0, Appended
    <3>2. \A i \in 1 .. Len(back'[k]) : i \in 1 .. Len(back[k]) \/ i = Len(back[k]) + 1
      BY <3>1
    <3> HIDE DEF k
    <3>3. ASSUME NEW j \in Conns, NEW u \in Visitors, NEW i \in 1 .. Len(back'[j]),
                 back'[j][i].of = u
          PROVE  task'[u] # "none" /\ (back'[j][i].kind = "ok" => task'[u] = "finished")
      <4>1. CASE j # k
        BY <2>1, <3>1, <3>3, <4>1
      <4>2. CASE j = k /\ i \in 1 .. Len(back[k])
        BY <2>1, <3>1, <3>3, <4>2
      <4>3. CASE j = k /\ i = Len(back[k]) + 1
        BY <1>2, <1>3, <3>1, <3>3, <4>3
      <4> QED
        BY <3>2, <4>1, <4>2, <4>3
    <3> QED
      BY <3>3 DEF AnswersFollow
  <2> QED
    BY <1>2, <2>2, <2>3 DEF ReplyMove
<1> QED
  BY <1>5, <1>6, <1>7 DEF AskedOnce

LEMMA AskedOnceNext ==
  ASSUME TypeOK, Located, AskedOnce, [Next]_vars
  PROVE  AskedOnce'
<1>1. ASSUME NEW v \in Visitors, ReplyStep(v) PROVE AskedOnce'
  BY <1>1, AskedReply
<1>2. ASSUME NEW v \in Visitors, HandlerStep(v), SendRequest(v) \/ SendChunk(v) \/ SendBodyEnd(v)
      PROVE  AskedOnce'
  BY <1>2, AskedSend
<1>3. ASSUME NEW k \in Conns, TakeStep(k) PROVE AskedOnce'
  BY <1>3, AskedTake
<1>4. ASSUME \A v \in Visitors : ~ReplyStep(v), NEW k \in Conns, ConnStep(k) \/ ReceiveStep(k)
      PROVE  AskedOnce'
  <2>1. UNCHANGED <<up, task, replied, pc>>
    BY <1>4 DEF ConnStep, Connect, Cut, WorkerEnds, LoopEnds, FailPending, UnregisterLooks,
         UnregisterRemoves, ReceiveStep, ReceiveHead, ReceiveEnd, ReceiveData, handler, service
  <2> QED
    BY <1>4, <2>1, AskedElse
<1>5. ASSUME \A v \in Visitors : ~ReplyStep(v), NEW v \in Visitors, HandlerStep(v),
             ~(SendRequest(v) \/ SendChunk(v) \/ SendBodyEnd(v))
      PROVE  AskedOnce'
  <2>1. UNCHANGED <<up, task, replied>>
    BY <1>5 DEF HandlerStep, Find, Register, CallFails, TakeHead, EarlyEnd, CopyChunk,
                EndBody, Expire, Release, service
  <2>2. \A u \in Visitors : pc'[u] \in Early => pc[u] \in Early
    BY <1>5 DEF HandlerStep, Find, Register, CallFails, TakeHead, EarlyEnd, CopyChunk,
                EndBody, Expire, Release, Leave, Over, handler, TypeOK, Early
  <2> QED
    BY <1>5, <2>1, <2>2, AskedElse
<1>6. ASSUME \A v \in Visitors : ~ReplyStep(v), NEW v \in Visitors, ReadUpload(v)
      PROVE  AskedOnce'
  <2>1. UNCHANGED <<up, task, replied, pc>>
    BY <1>6 DEF ReadUpload, handler
  <2> QED
    BY <1>6, <2>1, AskedElse
<1>7. CASE (\A v \in Visitors : ~ReplyStep(v)) /\ UNCHANGED vars
  <2>1. UNCHANGED <<up, task, replied, pc>>
    BY <1>7 DEF vars, handler, service
  <2> QED
    BY <1>7, <2>1, AskedElse
<1> QED
  BY <1>1, <1>2, <1>3, <1>4, <1>5, <1>6, <1>7, NextSteps

-------------------------------------------------------------------------------
(* Straight, OnTheWay and Ended.                                           *)

Bodies == Straight /\ OnTheWay /\ Ended

LEMMA Counts ==
  ASSUME TypeOK, NEW v \in Visitors
  PROVE  /\ got[v] \in Seq(Nat) /\ call[v] \in Calls /\ call[v].body \in Seq(Nat)
         /\ Len(got[v]) \in Nat /\ Len(call[v].body) \in Nat /\ Has(v) \in Nat
         /\ replied[v] \in Nat
<1>1. got[v] \in Seq(Nat) /\ call[v] \in Calls /\ replied[v] \in Nat
  BY DEF TypeOK
<1>2. call[v].body \in Seq(Nat)
  BY <1>1 DEF Calls
<1>3. Len(got[v]) \in Nat /\ Len(call[v].body) \in Nat
  BY <1>1, <1>2
<1>4. ASSUME NEW a \in Nat, NEW b \in Nat PROVE a + b \in Nat
  OBVIOUS
<1>5. Has(v) \in Nat
  BY <1>3, <1>4 DEF Has
<1> QED
  BY <1>1, <1>2, <1>3, <1>5

(* Steps that leave the chunks where they are.                             *)
Still(v) ==
  /\ pc'[v] # "done" => /\ pc[v] # "done" /\ got'[v] = got[v]
                        /\ call'[v].body = call[v].body /\ replied'[v] = replied[v]
                        /\ call'[v].end = "ok" => call[v].end = "ok"
  /\ task[v] = "finished" => task'[v] = "finished"
  /\ answer'[v] = "whole" => /\ answer[v] = "whole" /\ got'[v] = got[v]
                             /\ replied'[v] = replied[v]
  /\ \A k \in Conns : Open(k, v)' => Open(k, v) /\ (Whole(k, v)' => Whole(k, v))

LEMMA BodiesStill ==
  ASSUME TypeOK, Bodies, UNCHANGED back, \A v \in Visitors : Still(v)
  PROVE  Bodies'
<1>1. ASSUME NEW v \in Visitors, pc'[v] # "done" PROVE Has(v)' = Has(v)
  BY <1>1 DEF Still, Has
<1>2. Straight'
  <2> SUFFICES ASSUME NEW v \in Visitors, pc'[v] # "done" PROVE Sound(v)'
    BY DEF Straight
  <2>1. Sound(v)
    BY DEF Still, Bodies, Straight
  <2>2. got'[v] = got[v] /\ call'[v].body = call[v].body /\ replied'[v] = replied[v]
    BY DEF Still
  <2> QED
    BY <1>1, <2>1, <2>2 DEF Sound
<1>3. OnTheWay'
  <2> SUFFICES ASSUME NEW k \in Conns, NEW v \in Visitors, Open(k, v)'
               PROVE  Flow(back[k], v, Has(v)', replied'[v], Whole(k, v)')
    BY DEF OnTheWay
  <2>1. pc'[v] # "done" /\ Open(k, v) /\ (Whole(k, v)' => Whole(k, v))
    BY DEF Still, Open
  <2>2. Has(v)' = Has(v) /\ replied'[v] = replied[v]
    BY <1>1, <2>1 DEF Still
  <2>3. Flow(back[k], v, Has(v), replied[v], Whole(k, v))
    BY <2>1 DEF Bodies, OnTheWay
  <2> QED
    BY <2>1, <2>2, <2>3 DEF Flow
<1>4. Ended'
  BY <1>1 DEF Bodies, Ended, Still
<1> QED
  BY <1>2, <1>3, <1>4 DEF Bodies

(* A connection's table is empty before it is used.                        *)
LEMMA OpenStays ==
  ASSUME TypeOK, Located, NEW k \in Conns, ConnStep(k), NEW v \in Visitors, NEW j \in Conns
  PROVE  Open(j, v)' => Open(j, v) /\ (Whole(j, v)' => Whole(j, v))
<1> SUFFICES ASSUME Open(j, v)' PROVE Open(j, v) /\ (Whole(j, v)' => Whole(j, v))
  OBVIOUS
<1>1. UNCHANGED <<calls, pc, task>>
  BY DEF ConnStep, Connect, Cut, WorkerEnds, LoopEnds, FailPending,
         UnregisterLooks, UnregisterRemoves, handler, service
<1>2. run[j] # "none" /\ link[j] # "new"
  <2>1. at[v] = j /\ at[v] # None
    BY <1>1, NoneAssumption DEF Located, InTable, Open
  <2> QED
    BY <2>1 DEF Located, AtConn
<1>3. /\ run'[j] = "reading" => run[j] = "reading" \/ link[j] = "new"
      /\ link'[j] = "up" => link[j] \in {"new", "up"}
  BY DEF ConnStep, Connect, Cut, WorkerEnds, LoopEnds, FailPending,
         UnregisterLooks, UnregisterRemoves, TypeOK
<1> QED
  BY <1>1, <1>2, <1>3 DEF Open, Whole

LEMMA BodiesConn ==
  ASSUME TypeOK, Located, Bodies, NEW k \in Conns, ConnStep(k)
  PROVE  Bodies'
<1>1. UNCHANGED <<pc, got, replied, task, answer, calls>>
  BY DEF ConnStep, Connect, Cut, WorkerEnds, LoopEnds, FailPending,
         UnregisterLooks, UnregisterRemoves, handler, service
<1>2. \A v \in Visitors : call'[v].body = call[v].body /\ (call'[v].end = "ok" => call[v].end = "ok")
  <2>1. CASE UNCHANGED call
    BY <2>1
  <2>2. CASE FailPending(k)
    <3> SUFFICES ASSUME NEW v \in Visitors
                 PROVE  call'[v].body = call[v].body /\ (call'[v].end = "ok" => call[v].end = "ok")
      OBVIOUS
    <3>1. call[v] \in Calls
      BY DEF TypeOK
    <3>2. Failed(call[v]).body = call[v].body /\ Failed(call[v]).end = "error"
      BY <3>1 DEF Failed, Calls
    <3> QED
      BY <2>2, <3>2 DEF FailPending
  <2> QED
    BY <2>1, <2>2 DEF ConnStep, Connect, Cut, WorkerEnds, LoopEnds, UnregisterLooks,
         UnregisterRemoves
<1>3. \A v \in Visitors : Still(v)
  BY <1>1, <1>2, OpenStays DEF Still
<1>4. CASE UNCHANGED back
  BY <1>3, <1>4, BodiesStill
<1>5. CASE Cut(k)
  <2>1. PICK m \in 0 .. Len(back[k]) : back' = [back EXCEPT ![k] = SubSeq(@, 1, m)]
    BY <1>5 DEF Cut
  <2>2. /\ back'[k] = SubSeq(back[k], 1, m) /\ back[k] \in Seq(Frames)
        /\ \A j \in Conns \ {k} : back'[j] = back[j]
    BY <2>1 DEF TypeOK
  <2>3. UNCHANGED <<call, run>> /\ \A v \in Visitors : ~Whole(k, v)'
    BY <1>5 DEF Cut, Whole, TypeOK
  <2>4. \A v \in Visitors : (Has(v)' = Has(v)) /\ (Sound(v)' <=> Sound(v))
    BY <1>1, <2>3 DEF Has, Sound
  <2>5. Straight' /\ Ended'
    BY <1>1, <2>3, <2>4 DEF Bodies, Straight, Ended
  <2>6. OnTheWay'
    <3> SUFFICES ASSUME NEW j \in Conns, NEW v \in Visitors, Open(j, v)'
                 PROVE  Flow(back'[j], v, Has(v), replied[v], Whole(j, v)')
      BY <1>1, <2>4 DEF OnTheWay
    <3>1. Flow(back[j], v, Has(v), replied[v], Whole(j, v)) /\ (Whole(j, v)' => Whole(j, v))
      BY OpenStays DEF Bodies, OnTheWay
    <3>2. CASE j # k
      BY <2>2, <3>1, <3>2 DEF Flow
    <3>3. CASE j = k
      <4>1. Flow(back'[k], v, Has(v), replied[v], FALSE)
        BY <2>2, <3>1, <3>3, FlowCut, Counts
      <4> QED
        BY <2>3, <3>3, <4>1 DEF Flow
    <3> QED
      BY <3>2, <3>3
  <2> QED
    BY <2>5, <2>6 DEF Bodies
<1> QED
  BY <1>4, <1>5 DEF ConnStep, Connect, WorkerEnds, LoopEnds, FailPending, UnregisterLooks,
       UnregisterRemoves

LEMMA BodiesReceive ==
  ASSUME TypeOK, Located, Pending, AskedOnce, Bodies, NEW k \in Conns, ReceiveStep(k)
  PROVE  Bodies'
<1>1. /\ UNCHANGED <<pc, got, replied, task, answer, run, link>> /\ run[k] = "reading"
      /\ back[k] # <<>> /\ back' = [back EXCEPT ![k] = Tail(@)]
  BY DEF ReceiveStep, ReceiveHead, ReceiveEnd, ReceiveData, Arrives, Consume,
         tunnel, handler, service
<1>0. PICK f \in Frames, v \in Visitors : f = Head(back[k]) /\ v = f.of
  <2>1. Head(back[k]) \in Frames
    BY <1>1, TailOf DEF TypeOK
  <2> QED
    BY <2>1 DEF Frames
<1>2. ReceiveMove(k, v)
  BY <1>0, ReceiveMoves
<1>3. /\ back[k] \in Seq(Frames) /\ back'[k] = Tail(back[k])
      /\ \A j \in Conns \ {k} : back'[j] = back[j]
  BY <1>1 DEF TypeOK
<1>4. f = back[k][1] /\ 1 \in 1 .. Len(back[k])
  <2>1. f = back[k][1] /\ Len(back[k]) \in Nat \ {0}
    BY <1>0, <1>1, <1>3, TailOf
  <2> QED
    BY <2>1
<1>5. at[v] = k
  BY <1>0, <1>4 DEF Located, OnSocket
<1>6. /\ v \in calls[k] => call[v].end = "none"
      /\ \A j \in Conns : v \in calls[j] => j = k
  BY <1>1, <1>2, <1>5 DEF Pending, Located, InTable
<1>7. \A u \in Visitors : \A j \in Conns : Open(j, u)' => Open(j, u)
  <2>1. calls' = calls \/ calls' = [calls EXCEPT ![k] = @ \ {v}]
    BY <1>2 DEF ReceiveMove
  <2>2. calls \in [Conns -> SUBSET Visitors]
    BY DEF TypeOK
  <2>3. \A j \in Conns : calls'[j] \subseteq calls[j]
    BY <2>1, <2>2
  <2> QED
    BY <1>1, <2>3 DEF Open
<1>8. \A u \in Visitors : \A j \in Conns : Whole(j, u)' = Whole(j, u)
  BY <1>1 DEF Whole
(* Of the others.                                                          *)
<1>9. \A u \in Visitors \ {v} : call'[u] = call[u]
  BY <1>2 DEF ReceiveMove
<1>10. ASSUME NEW u \in Visitors, call'[u].body = call[u].body
       PROVE  Has(u)' = Has(u) /\ (Sound(u)' <=> Sound(u))
  BY <1>1, <1>10 DEF Has, Sound
<1>11. ASSUME NEW u \in Visitors, NEW j \in Conns, Open(j, u), j # k \/ ~DataOf(back[k], 1, u),
              call'[u].body = call[u].body
       PROVE  Flow(back'[j], u, Has(u)', replied'[u], Whole(j, u)')
  <2>1. Flow(back[j], u, Has(u), replied[u], Whole(j, u))
    BY <1>11 DEF Bodies, OnTheWay
  <2>2. Has(u)' = Has(u) /\ replied'[u] = replied[u]
    BY <1>1, <1>10, <1>11
  <2>3. CASE j # k
    BY <1>3, <1>8, <2>1, <2>2, <2>3
  <2>4. CASE j = k
    <3>1. Flow(Tail(back[k]), u, Has(u), replied[u], Whole(k, u))
      BY <1>1, <1>3, <1>11, <2>1, <2>4, FlowTail, Counts
    <3> QED
      BY <1>3, <1>8, <2>2, <2>4, <3>1
  <2> QED
    BY <2>3, <2>4
<1>12. CASE /\ v \in calls[k] /\ f.kind = "data" /\ call'[v].end = call[v].end
            /\ call'[v].body = Append(call[v].body, f.n)
  <2>1. pc[v] # "done" => /\ f.n = Has(v) + 1 /\ Has(v) + 1 <= replied[v]
                          /\ Flow(Tail(back[k]), v, Has(v) + 1, replied[v], Whole(k, v))
    <3> SUFFICES ASSUME pc[v] # "done"
                 PROVE  /\ f.n = Has(v) + 1 /\ Has(v) + 1 <= replied[v]
                        /\ Flow(Tail(back[k]), v, Has(v) + 1, replied[v], Whole(k, v))
      OBVIOUS
    <3>1. Flow(back[k], v, Has(v), replied[v], Whole(k, v))
      BY <1>1, <1>2, <1>12 DEF Bodies, OnTheWay, Open
    <3>2. DataOf(back[k], 1, v)
      BY <1>0, <1>4, <1>12 DEF DataOf
    <3> QED
      BY <1>1, <1>2, <1>3, <1>4, <3>1, <3>2, FlowNext, Counts
  <2>2. f.n \in Nat
    BY DEF Frames
  <2>3. /\ Len(call'[v].body) = Len(call[v].body) + 1
        /\ \A i \in 1 .. Len(call[v].body) : call'[v].body[i] = call[v].body[i]
        /\ call'[v].body[Len(call[v].body) + 1] = f.n
    BY <1>2, <1>12, <2>2, Counts, AppendOf
  <2>4. Has(v)' = Has(v) + 1
    <3>1. ASSUME NEW g \in Nat, NEW m \in Nat PROVE g + (m + 1) = (g + m) + 1
      OBVIOUS
    <3>2. Has(v)' = Len(got[v]) + (Len(call[v].body) + 1)
      BY <1>1, <2>3 DEF Has
    <3> QED
      BY <3>1, <3>2, Counts DEF Has
  <2>5. pc[v] # "done" => Sound(v)'
    <3> SUFFICES ASSUME pc[v] # "done" PROVE Sound(v)'
      OBVIOUS
    <3>1. Sound(v)
      BY <1>2 DEF Bodies, Straight
    <3>2. Has(v)' <= replied'[v]
      BY <1>1, <2>1, <2>4
    <3>3. f.n = Len(got[v]) + (Len(call[v].body) + 1)
      <4>1. ASSUME NEW g \in Nat, NEW m \in Nat PROVE g + (m + 1) = (g + m) + 1
        OBVIOUS
      <4> QED
        BY <2>1, <4>1, Counts DEF Has
    <3>4. \A i \in 1 .. Len(call'[v].body) :
            i \in 1 .. Len(call[v].body) \/ i = Len(call[v].body) + 1
      BY <1>2, <2>3, Counts
    <3>5. \A i \in 1 .. Len(call'[v].body) : call'[v].body[i] = Len(got[v]) + i
      BY <2>3, <3>1, <3>3, <3>4 DEF Sound
    <3> QED
      BY <1>1, <3>1, <3>2, <3>5 DEF Sound
  <2>6. Straight'
    BY <1>1, <1>9, <1>10, <2>5 DEF Bodies, Straight
  <2>7. Ended'
    BY <1>1, <1>6, <1>9, <1>10, <1>12 DEF Bodies, Ended
  <2>8. OnTheWay'
    <3> SUFFICES ASSUME NEW j \in Conns, NEW u \in Visitors, Open(j, u)'
                 PROVE  Flow(back'[j], u, Has(u)', replied'[u], Whole(j, u)')
      BY DEF OnTheWay
    <3>1. CASE u # v
      <4>1. ~DataOf(back[k], 1, u)
        BY <1>0, <1>4, <3>1 DEF DataOf
      <4> QED
        BY <1>7, <1>9, <1>11, <3>1, <4>1
    <3>2. CASE u = v
      <4>1. j = k /\ pc[v] # "done"
        BY <1>6, <1>7, <3>2 DEF Open
      <4> QED
        BY <1>1, <1>3, <1>8, <2>1, <2>4, <3>2, <4>1
    <3> QED
      BY <3>1, <3>2
  <2> QED
    BY <2>6, <2>7, <2>8 DEF Bodies
<1>13. CASE /\ call'[v].body = call[v].body
            /\ v \in calls'[k] => f.kind # "data"
            /\ \/ call'[v].end = call[v].end
               \/ /\ v \in calls[k] /\ call'[v].end # "none"
                  /\ call'[v].end = "ok" => f.kind = "ok"
  <2>1. \A u \in Visitors : call'[u].body = call[u].body
    BY <1>9, <1>13
  <2>2. \A u \in Visitors : Has(u)' = Has(u) /\ (Sound(u)' <=> Sound(u))
    BY <1>10, <2>1
  <2>3. Straight'
    BY <1>1, <2>2 DEF Bodies, Straight
  <2>4. OnTheWay'
    <3> SUFFICES ASSUME NEW j \in Conns, NEW u \in Visitors, Open(j, u)'
                 PROVE  Flow(back'[j], u, Has(u)', replied'[u], Whole(j, u)')
      BY DEF OnTheWay
    <3>1. j # k \/ ~DataOf(back[k], 1, u)
      BY <1>0, <1>4, <1>13 DEF Open, DataOf
    <3> QED
      BY <1>7, <1>11, <2>1, <3>1
  <2>5. ASSUME pc[v] # "done", call'[v].end = "ok"
        PROVE  task[v] = "finished" /\ Has(v) = replied[v]
    <3>1. CASE call'[v].end = call[v].end
      BY <1>2, <2>5, <3>1 DEF Bodies, Ended
    <3>2. CASE v \in calls[k] /\ f.kind = "ok"
      <4>1. task[v] = "finished"
        BY <1>0, <1>4, <3>2 DEF AskedOnce, AnswersFollow
      <4>2. Flow(back[k], v, Has(v), replied[v], Whole(k, v))
        BY <1>1, <1>2, <2>5, <3>2 DEF Bodies, OnTheWay, Open
      <4>3. replied[v] <= Has(v)
        BY <1>0, <1>1, <1>3, <1>4, <3>2, <4>2, FlowEnd, Counts
      <4>4. Has(v) <= replied[v]
        BY <1>2, <2>5 DEF Bodies, Straight, Sound
      <4> QED
        BY <1>2, <4>1, <4>3, <4>4, Counts
    <3> QED
      BY <1>13, <2>5, <3>1, <3>2
  <2>6. Ended'
    BY <1>1, <1>2, <1>9, <2>2, <2>5 DEF Bodies, Ended
  <2> QED
    BY <2>3, <2>4, <2>6 DEF Bodies
<1>14. \/ v \in calls[k] /\ f.kind = "data" /\ call'[v].end = call[v].end
            /\ call'[v].body = Append(call[v].body, f.n)
       \/ /\ call'[v].body = call[v].body
          /\ v \in calls'[k] => f.kind # "data"
          /\ \/ call'[v].end = call[v].end
             \/ /\ v \in calls[k] /\ call'[v].end # "none"
                /\ call'[v].end = "ok" => f.kind = "ok"
  <2>1. \/ /\ calls' = calls /\ call'[v].end = call[v].end
           /\ call'[v].body = IF v \in calls[k] /\ f.kind = "data"
                                THEN Append(call[v].body, f.n) ELSE call[v].body
        \/ /\ v \in calls[k] /\ calls' = [calls EXCEPT ![k] = @ \ {v}]
           /\ call'[v].end # "none" /\ (call'[v].end = "ok" => f.kind = "ok")
           /\ call'[v].body = call[v].body
    BY <1>0, <1>2 DEF ReceiveMove
  <2>2. v \notin [calls EXCEPT ![k] = @ \ {v}][k]
    BY DEF TypeOK
  <2> QED
    BY <2>1, <2>2
<1> QED
  BY <1>12, <1>13, <1>14

LEMMA BodiesReply ==
  ASSUME TypeOK, Located, AskedOnce, Bodies, NEW v \in Visitors, ReplyStep(v)
  PROVE  Bodies'
<1> DEFINE k == at[v]
<1>1. /\ k \in Conns /\ UNCHANGED <<link, run, pc, at, calls, call, got, answer>>
      /\ \A u \in Visitors \ {v} : task'[u] = task[u] /\ replied'[u] = replied[u]
  BY ReplyMoves DEF Located, handler, tunnel
<1>2. PICK f \in Frames, put \in BOOLEAN : f.of = v /\ ReplyMove(v, f, put)
  BY ReplyMoves DEF Located
<1>3. task[v] \in {"dialing", "replying"} /\ replied'[v] \in {replied[v], replied[v] + 1}
  BY <1>2 DEF ReplyMove
<1>4. \A u \in Visitors : Has(u)' = Has(u)
  BY <1>1 DEF Has
<1>5. Straight'
  <2> SUFFICES ASSUME NEW u \in Visitors, pc[u] # "done" PROVE Sound(u)'
    BY <1>1 DEF Straight
  <2>1. Sound(u)
    BY DEF Bodies, Straight
  <2>2. Has(u) <= replied'[u]
    BY <1>1, <1>3, <2>1, Counts DEF Sound
  <2> QED
    BY <1>1, <1>4, <2>1, <2>2 DEF Sound
<1>6. Ended'
  <2>1. call[v].end = "ok" => pc[v] = "done"
    BY <1>3 DEF Bodies, Ended
  <2>2. answer[v] # "whole"
    BY <1>3 DEF Bodies, Ended
  <2> QED
    BY <1>1, <1>4, <2>1, <2>2 DEF Bodies, Ended
<1>7. OnTheWay'
  <2> SUFFICES ASSUME NEW j \in Conns, NEW u \in Visitors, Open(j, u)
               PROVE  Flow(back'[j], u, Has(u), replied'[u], Whole(j, u)')
    BY <1>1, <1>4 DEF OnTheWay, Open
  <2>1. Flow(back[j], u, Has(u), replied[u], Whole(j, u)) /\ back[j] \in Seq(Frames)
    BY DEF Bodies, OnTheWay, TypeOK
  <2>2. Has(u) \in Nat /\ replied[u] \in Nat /\ at[u] = j
    BY Counts DEF Open, Located, InTable
  <2>3. back'[j] = IF put /\ j = k THEN Append(back[j], f) ELSE back[j]
    <3>1. IF put THEN back' = [back EXCEPT ![k] = Append(@, f)] ELSE back' = back
      BY <1>2 DEF ReplyMove
    <3>2. CASE put
      <4>1. back \in [Conns -> Seq(Frames)] /\ back' = [back EXCEPT ![k] = Append(@, f)]
        BY <3>1, <3>2 DEF TypeOK
      <4> QED
        BY <1>1, <3>2, <4>1
    <3>3. CASE ~put
      BY <3>1, <3>3
    <3> QED
      BY <3>2, <3>3
  <2>4. CASE u # v
    <3>1. replied'[u] = replied[u] /\ Whole(j, u)' = Whole(j, u)
      BY <1>1, <2>4 DEF Whole
    <3>2. Flow(Append(back[j], f), u, Has(u), replied[u], Whole(j, u))
      BY <1>2, <2>1, <2>2, <2>4, FlowAppend
    <3> QED
      BY <2>1, <2>3, <3>1, <3>2
  <2>5. CASE u = v
    <3>0. j = k /\ Has(v) <= replied[v]
      BY <2>2, <2>5 DEF Bodies, Straight, Sound, Open
    <3>1. CASE f.kind = "head" \/ f.kind = "error"
      <4>1. Flow(Append(back[j], f), v, Has(v), replied[v], Whole(j, v))
        BY <2>1, <2>2, <2>5, <3>1, FlowAppend
      <4>2. replied'[v] = replied[v]
            /\ (f.kind = "head" => task[v] = "dialing") /\ (f.kind = "error" => ~Whole(j, v)')
        BY <1>2, <3>1 DEF ReplyMove, Whole
      <4>3. Flow(back'[j], v, Has(v), replied[v], Whole(j, v))
        BY <2>1, <2>3, <2>5, <4>1
      <4>4. f.kind = "head" => NoneMissing(back'[j], v, Has(v), replied[v])
        <5> SUFFICES ASSUME f.kind = "head" PROVE NoneMissing(back'[j], v, Has(v), replied[v])
          OBVIOUS
        <5>1. replied[v] = 0
          BY <4>2 DEF AskedOnce, NoneBefore
        <5> QED
          BY <2>2, <2>5, <5>1 DEF NoneMissing
      <4> QED
        BY <2>5, <3>1, <4>2, <4>3, <4>4 DEF Flow
    <3>2. CASE f.kind = "data"
      <4>1. /\ f.n = replied[v] + 1 /\ replied'[v] = replied[v] + 1
            /\ task[v] = "replying" /\ task'[v] = "replying" /\ (put <=> link[k] = "up")
        BY <1>2, <3>2 DEF ReplyMove
      <4>2. \A i \in 1 .. Len(back[j]) : ~(back[j][i].kind = "ok" /\ back[j][i].of = v)
        BY <4>1 DEF AskedOnce, AnswersFollow
      <4>3. CASE put
        <5>1. Whole(j, v) /\ back'[j] = Append(back[j], f)
          BY <2>3, <3>0, <4>1, <4>3 DEF Whole
        <5>2. Flow(Append(back[j], f), v, Has(v), replied[v] + 1, TRUE)
          BY <1>2, <2>1, <2>2, <2>5, <3>0, <3>2, <4>1, <4>2, <5>1, FlowAppend
        <5> QED
          BY <2>5, <4>1, <5>1, <5>2 DEF Flow
      <4>4. CASE ~put
        <5>1. ~Whole(j, v)' /\ back'[j] = back[j]
          BY <1>1, <2>3, <3>0, <4>1, <4>4 DEF Whole
        <5>2. Flow(back[j], v, Has(v), replied[v] + 1, FALSE)
          BY <2>1, <2>2, <2>5, <4>2, FlowLost
        <5> QED
          BY <2>5, <4>1, <5>1, <5>2 DEF Flow
      <4> QED
        BY <4>3, <4>4
    <3>3. CASE f.kind = "ok"
      <4>1. replied'[v] = replied[v] /\ task[v] = "replying" /\ ~Whole(j, v)'
            /\ (put => link[k] = "up")
        BY <1>2, <3>3 DEF ReplyMove, Whole
      <4>2. CASE put
        <5>1. Whole(j, v) /\ back'[j] = Append(back[j], f)
          BY <2>3, <3>0, <4>1, <4>2 DEF Whole
        <5>2. Flow(Append(back[j], f), v, Has(v), replied[v], FALSE)
          BY <1>2, <2>1, <2>2, <2>5, <3>3, <5>1, FlowAppend
        <5> QED
          BY <2>5, <4>1, <5>1, <5>2 DEF Flow
      <4>3. CASE ~put
        BY <2>1, <2>3, <2>5, <4>1, <4>3 DEF Flow
      <4> QED
        BY <4>2, <4>3
    <3> QED
      BY <1>2, <3>1, <3>2, <3>3 DEF ReplyMove
  <2> QED
    BY <2>4, <2>5
<1> QED
  BY <1>5, <1>6, <1>7 DEF Bodies

LEMMA BodiesTake ==
  ASSUME TypeOK, AskedOnce, Bodies, NEW k \in Conns, TakeStep(k)
  PROVE  Bodies'
<1>1. UNCHANGED <<link, run, back, calls, call, pc, got, answer, replied>>
  BY DEF TakeStep, TakeRequest, TakeData, TakeBodyEnd, tunnel, handler
<1>2. \A u \in Visitors : task'[u] = task[u] \/ (task[u] = "none" /\ task'[u] = "dialing")
  <2>1. CASE TakeRequest(k)
    <3>0. up[k] # <<>> /\ up[k] \in Seq(Frames) /\ Head(up[k]).kind = "request"
      BY <2>1 DEF TakeRequest, TakeFrame, TypeOK
    <3>1. PICK f \in Frames, v \in Visitors : f = Head(up[k]) /\ v = f.of
      <4>1. Head(up[k]) \in Frames
        BY <3>0, TailOf
      <4> QED
        BY <4>1 DEF Frames
    <3>2. f = up[k][1] /\ Len(up[k]) \in Nat \ {0}
      BY <3>0, <3>1, TailOf
    <3>3. Asks(up[k], 1, v) /\ 1 \in 1 .. Len(up[k])
      BY <3>0, <3>1, <3>2 DEF Asks
    <3>4. task[v] = "none"
      BY <3>3 DEF AskedOnce, RequestsWait, Unasked
    <3>5. task' = [task EXCEPT ![v] = "dialing"]
      BY <2>1, <3>1 DEF TakeRequest
    <3> QED
      BY <3>4, <3>5 DEF TypeOK
  <2> QED
    BY <2>1 DEF TakeStep, TakeData, TakeBodyEnd
<1>3. \A u \in Visitors : Still(u)
  BY <1>1, <1>2 DEF Still, Open, Whole
<1> QED
  BY <1>1, <1>3, BodiesStill

LEMMA BodiesHandler ==
  ASSUME TypeOK, Located, Answered, AskedOnce, Bodies, NEW v \in Visitors, HandlerStep(v)
  PROVE  Bodies'
<1>1. UNCHANGED <<link, run, back, task, replied>>
  BY DEF HandlerStep, Find, Register, SendRequest, SendChunk, SendBodyEnd, CallFails, TakeHead,
         EarlyEnd, CopyChunk, EndBody, Expire, Release, tunnel, service
<1>2. /\ \A u \in Visitors : call'[u].end = call[u].end
      /\ \A u \in Visitors \ {v} : pc'[u] = pc[u] /\ answer'[u] = answer[u]
  BY HandlerMoves
<1>3. CASE CopyChunk(v)
  <2> DEFINE c == Head(call[v].body)
  <2>1. /\ pc[v] = "body" /\ UNCHANGED <<pc, answer, calls>> /\ call[v].body # <<>>
        /\ got' = [got EXCEPT ![v] = Append(@, c)]
        /\ call' = [call EXCEPT ![v] = [call[v] EXCEPT !.body = Tail(call[v].body)]]
    BY <1>3 DEF CopyChunk
  <2>2. /\ got'[v] = Append(got[v], c) /\ call'[v].body = Tail(call[v].body)
        /\ \A u \in Visitors \ {v} : got'[u] = got[u] /\ call'[u] = call[u]
    BY <2>1, Counts DEF TypeOK, Calls
  <2>3. /\ c \in Nat /\ c = call[v].body[1] /\ Len(call[v].body) \in Nat \ {0}
        /\ Len(call'[v].body) = Len(call[v].body) - 1
        /\ \A i \in 1 .. Len(call'[v].body) : call'[v].body[i] = call[v].body[i + 1]
    <3>1. call[v].body \in Seq(Nat)
      BY Counts
    <3>2. /\ c \in Nat /\ c = call[v].body[1] /\ Len(call[v].body) \in Nat \ {0}
          /\ Len(Tail(call[v].body)) = Len(call[v].body) - 1
          /\ \A i \in 1 .. Len(Tail(call[v].body)) :
               Tail(call[v].body)[i] = call[v].body[i + 1]
      BY <2>1, <3>1, TailOf
    <3> HIDE DEF c
    <3> QED
      BY <2>2, <3>2
  <2>4. /\ Len(got[v]) \in Nat /\ Len(got'[v]) = Len(got[v]) + 1
        /\ \A i \in 1 .. Len(got[v]) : got'[v][i] = got[v][i]
        /\ got'[v][Len(got[v]) + 1] = c
    BY <2>2, <2>3, Counts, AppendOf
  <2> HIDE DEF c
  <2>5. \A u \in Visitors : Has(u)' = Has(u)
    <3>1. Has(v)' = Has(v)
      <4>1. ASSUME NEW g \in Nat, NEW m \in Nat PROVE (g + 1) + (m - 1) = g + m
        OBVIOUS
      <4>2. Has(v)' = (Len(got[v]) + 1) + (Len(call[v].body) - 1)
        BY <2>3, <2>4 DEF Has
      <4> QED
        BY <2>3, <2>4, <4>1, <4>2 DEF Has
    <3> QED
      BY <2>2, <3>1 DEF Has
  <2>6. Sound(v)'
    <3>1. Sound(v)
      BY <2>1 DEF Bodies, Straight
    <3>2. \A i \in 1 .. Len(got'[v]) : got'[v][i] = i
      <4>1. c = Len(got[v]) + 1
        BY <2>3, <3>1 DEF Sound
      <4>2. \A i \in 1 .. Len(got'[v]) : i \in 1 .. Len(got[v]) \/ i = Len(got[v]) + 1
        BY <2>4
      <4> QED
        BY <2>4, <3>1, <4>1, <4>2 DEF Sound
    <3>3. \A i \in 1 .. Len(call'[v].body) : call'[v].body[i] = Len(got'[v]) + i
      <4> SUFFICES ASSUME NEW i \in 1 .. Len(call'[v].body)
                   PROVE  call'[v].body[i] = Len(got'[v]) + i
        OBVIOUS
      <4>1. i + 1 \in 1 .. Len(call[v].body) /\ call'[v].body[i] = call[v].body[i + 1]
        BY <2>3
      <4>2. call[v].body[i + 1] = Len(got[v]) + (i + 1)
        BY <3>1, <4>1 DEF Sound
      <4>3. ASSUME NEW g \in Nat PROVE g + (i + 1) = (g + 1) + i
        OBVIOUS
      <4> QED
        BY <2>4, <4>1, <4>2, <4>3
    <3>4. Has(v)' <= replied'[v]
      BY <1>1, <2>5, <3>1 DEF Sound
    <3> QED
      BY <3>2, <3>3, <3>4 DEF Sound
  <2>7. \A u \in Visitors \ {v} : Sound(u)' = Sound(u)
    BY <1>1, <2>2, <2>5 DEF Sound
  <2>8. Straight'
    BY <2>1, <2>6, <2>7 DEF Bodies, Straight
  <2>9. OnTheWay'
    BY <1>1, <2>1, <2>5 DEF Bodies, OnTheWay, Open, Whole
  <2>10. Ended'
    <3>1. answer[v] # "whole"
      BY <2>1 DEF Answered
    <3> QED
      BY <1>1, <1>2, <2>1, <2>2, <2>5, <3>1 DEF Bodies, Ended
  <2> QED
    BY <2>8, <2>9, <2>10 DEF Bodies
<1>4. CASE EndBody(v)
  <2>1. UNCHANGED <<call, calls, got>> /\ pc[v] = "body" /\ pc'[v] = "leaving"
    BY <1>4 DEF EndBody, Leave, TypeOK
  <2>2. answer'[v] = "whole" => call[v].body = <<>> /\ call[v].end = "ok"
    BY <1>4 DEF EndBody, Leave, TypeOK
  <2>3. \A u \in Visitors : Has(u)' = Has(u) /\ Sound(u)' = Sound(u)
    BY <1>1, <2>1 DEF Has, Sound
  <2>4. Straight'
    BY <1>2, <2>1, <2>3 DEF Bodies, Straight
  <2>5. OnTheWay'
    BY <1>1, <1>2, <2>1, <2>3 DEF Bodies, OnTheWay, Open, Whole
  <2>6. ASSUME call[v].body = <<>>, call[v].end = "ok"
        PROVE  task[v] = "finished" /\ got[v] = [i \in 1 .. replied[v] |-> i]
    <3>1. task[v] = "finished" /\ Has(v) = replied[v] /\ Sound(v)
      BY <2>1, <2>6 DEF Bodies, Ended, Straight
    <3>2. Len(got[v]) = replied[v]
      BY <2>6, <3>1, Counts DEF Has
    <3>3. got[v] = [i \in 1 .. Len(got[v]) |-> got[v][i]]
      <4>1. ASSUME NEW q \in Seq(Nat) PROVE q = [i \in 1 .. Len(q) |-> q[i]]
        OBVIOUS
      <4> QED
        BY <4>1, Counts
    <3> QED
      BY <3>1, <3>2, <3>3 DEF Sound
  <2>7. Ended'
    BY <1>1, <1>2, <2>1, <2>2, <2>3, <2>6 DEF Bodies, Ended
  <2> QED
    BY <2>4, <2>5, <2>7 DEF Bodies
<1>5. CASE Register(v)
  <2>1. /\ pc[v] = "found" /\ UNCHANGED <<call, got, answer>>
        /\ calls' = [calls EXCEPT ![at[v]] = @ \cup {v}]
    BY <1>5 DEF Register
  <2>2. pc'[v] = "registered"
    BY <1>5 DEF Register, TypeOK
  <2>3. \A u \in Visitors : Has(u)' = Has(u) /\ Sound(u)' = Sound(u)
    BY <1>1, <2>1 DEF Has, Sound
  <2>4. Straight' /\ Ended'
    BY <1>1, <1>2, <2>1, <2>2, <2>3 DEF Bodies, Straight, Ended
  <2>5. OnTheWay'
    <3> SUFFICES ASSUME NEW k \in Conns, NEW u \in Visitors, Open(k, u)'
                 PROVE  Flow(back[k], u, Has(u), replied[u], Whole(k, u)')
      BY <1>1, <2>3 DEF OnTheWay
    <3>1. Whole(k, u)' = Whole(k, u)
      BY <1>1 DEF Whole
    <3>2. CASE u # v
      <4>1. Open(k, u)
        BY <1>1, <1>2, <2>1, <3>2 DEF Open, TypeOK
      <4> QED
        BY <3>1, <4>1 DEF Bodies, OnTheWay
    <3>3. CASE u = v
      <4>1. task[v] = "none"
        BY <2>1 DEF AskedOnce, EarlyUnasked, Early, Unasked
      <4>2. \A i \in 1 .. Len(back[k]) : back[k][i].of # v
        BY <4>1 DEF AskedOnce, AnswersFollow
      <4>3. Flow(back[k], v, Has(v), replied[v], FALSE)
        <5>1. back[k] \in Seq(Frames)
          BY DEF TypeOK
        <5> QED
          BY <4>2, <5>1, FlowNone
      <4> QED
        BY <3>1, <3>3, <4>1, <4>3 DEF Flow, Whole
    <3> QED
      BY <3>2, <3>3
  <2> QED
    BY <2>4, <2>5 DEF Bodies
<1>6. CASE ~(CopyChunk(v) \/ EndBody(v) \/ Register(v))
  <2>1. UNCHANGED calls /\ (~Release(v) => UNCHANGED got)
    BY <1>6 DEF HandlerStep, Find, SendRequest, SendChunk, SendBodyEnd, CallFails, TakeHead,
         EarlyEnd, Expire, Release, handler
  <2>2. /\ pc'[v] # "done" => pc[v] # "done"
        /\ answer'[v] = "whole" => answer[v] = "whole"
        /\ Release(v) => pc'[v] = "done" /\ answer'[v] = "none"
    <3>1. CASE Release(v)
      BY <3>1 DEF Release, Over, TypeOK
    <3>2. CASE ~Release(v)
      BY <1>6, <3>2 DEF HandlerStep, Find, SendRequest, SendChunk, SendBodyEnd, CallFails,
           TakeHead, EarlyEnd, Expire, Leave, TypeOK, handler
    <3> QED
      BY <3>1, <3>2
  <2>3. ~Release(v) => \A u \in Visitors : call'[u].body = call[u].body
    <3>1. CASE Expire(v)
      <4>1. call' = [call EXCEPT ![v] = [call[v] EXCEPT !.cancelled = TRUE]]
        BY <3>1 DEF Expire
      <4> QED
        BY <4>1, Counts DEF TypeOK, Calls
    <3>2. CASE ~Expire(v)
      BY <1>6, <3>2 DEF HandlerStep, Find, SendRequest, SendChunk, SendBodyEnd, CallFails,
           TakeHead, EarlyEnd
    <3> QED
      BY <3>1, <3>2
  <2>4. Release(v) => \A u \in Visitors \ {v} : call'[u] = call[u] /\ got'[u] = got[u]
    BY DEF Release, Over, TypeOK
  <2>5. \A u \in Visitors : Still(u)
    BY <1>1, <1>2, <2>1, <2>2, <2>3, <2>4 DEF Still, Open, Whole
  <2> QED
    BY <1>1, <2>5, BodiesStill
<1> QED
  BY <1>3, <1>4, <1>5, <1>6

LEMMA NextStream == Ledger /\ Stream /\ [Next]_vars => Stream'
<1> SUFFICES ASSUME Ledger, Stream, [Next]_vars PROVE Stream'
  OBVIOUS
<1>1. TypeOK /\ Located /\ Pending /\ Answered /\ AskedOnce /\ Bodies
  BY DEF Ledger, Stream, Bodies
<1>2. AskedOnce'
  BY <1>1, AskedOnceNext
<1>3. Bodies'
  <2>1. ASSUME NEW v \in Visitors, ReadUpload(v) PROVE Bodies'
    <3>1. /\ UNCHANGED <<link, run, back, calls, call, pc, got, answer, replied, task>>
      BY <2>1 DEF ReadUpload, tunnel, handler
    <3>2. \A u \in Visitors : Still(u)
      BY <3>1 DEF Still, Open, Whole
    <3> QED
      BY <1>1, <3>1, <3>2, BodiesStill
  <2>2. CASE UNCHANGED vars
    <3>1. /\ UNCHANGED <<link, run, back, calls, call, pc, got, answer, replied, task>>
      BY <2>2 DEF vars, tunnel, handler, service
    <3>2. \A u \in Visitors : Still(u)
      BY <3>1 DEF Still, Open, Whole
    <3> QED
      BY <1>1, <3>1, <3>2, BodiesStill
  <2> QED
    BY <1>1, <2>1, <2>2, BodiesConn, BodiesReceive, BodiesTake, BodiesHandler, BodiesReply,
       NextSteps
<1> QED
  BY <1>2, <1>3 DEF Stream, Bodies

LEMMA InitStream == Init => Stream
<1> SUFFICES ASSUME Init PROVE Stream
  OBVIOUS
<1>1. AskedOnce
  BY DEF Init, AskedOnce, EarlyUnasked, RequestsWait, AnswersFollow, NoneBefore, Unasked
<1>2. \A v \in Visitors : got[v] = <<>> /\ call[v].body = <<>> /\ replied[v] = 0
                          /\ call[v].end = "none" /\ answer[v] = "none"
  BY DEF Init, NewCall
<1>3. Straight
  <2> SUFFICES ASSUME NEW v \in Visitors PROVE Sound(v)
    BY DEF Straight
  <2>1. Len(got[v]) = 0 /\ Len(call[v].body) = 0
    BY <1>2
  <2> QED
    BY <1>2, <2>1 DEF Sound, Has
<1>4. OnTheWay
  BY DEF Init, OnTheWay, Open
<1>5. Ended
  BY <1>2 DEF Ended
<1> QED
  BY <1>1, <1>3, <1>4, <1>5 DEF Stream

(* A response that ends normally for the visitor is the whole response of  *)
(* the service, in order, whatever the sizes, the capacities and the other *)
(* requests on the socket.                                                 *)
THEOREM WholeStaysWhole == Spec => []WholeIsWhole
<1>1. Ledger /\ Stream => WholeIsWhole
  BY DEF Stream, Ended, WholeIsWhole
<1>2. Spec => [](Ledger /\ Stream)
  BY InitLedger, NextLedger, InitStream, NextStream, PTL DEF Spec
<1> QED
  BY <1>1, <1>2, PTL

================================================================================
