------------------------- MODULE ReplayFanOutProofs -------------------------
(***************************************************************************)
(* Proofs about ReplayFanOut, for any clients and any amount of output.    *)
(***************************************************************************)
EXTENDS ReplayFanOut, SequenceTheorems, TLAPS

(* The chunk being forwarded is one that the shell printed.                *)
FanPrinted == fan.at # "idle" => fan.n \in 1..last

(* A connection attaches at most once: before that it is neither in the    *)
(* record nor in a copy of it.                                             *)
Unattached == \A c \in Conns : call[c] \in {"new", "attach"} => holder # c /\ fan.holder # c

Replaying == {"ask", "replay", "flush"}

(* The replay of a connection that is, or was read as, the holder is in    *)
(* the dictionary only until its flush.                                    *)
SlotReplaying ==
  \A c \in Conns :
    /\ slot = c => call[c] \in Replaying \cup {"attach", "over"}
    /\ slot = c /\ (holder = c \/ fan.holder = c) => call[c] \in Replaying

(* Until its flush, the record says so, and so does every copy.            *)
ReplayingPending ==
  \A c \in Conns : call[c] \in Replaying =>
    /\ holder = c => pending
    /\ fan.holder = c => fan.pending

(* A chunk that the replay of the holder does not contain was read with    *)
(* that holder in the record.                                              *)
CopyCurrent ==
  \A c \in Conns :
    fan.at = "read" /\ holder = c /\ Answered(c) /\ fan.n > upto[c] => fan.holder = c

IInv == /\ TypeOK /\ FanPrinted /\ Unattached /\ SlotReplaying /\ ReplayingPending
        /\ CopyCurrent /\ NothingIsDropped

-----------------------------------------------------------------------------
(* What the actions that send and route do, in one place.                  *)
LEMMA SendTyped ==
  ASSUME TypeOK, NEW C, NEW n \in 0..MaxOut, Send(C, n)
  PROVE  wire' \in [Conns -> Seq(0..MaxOut)]
<1>1. \A c \in Conns : Append(wire[c], n) \in Seq(0..MaxOut)
  BY DEF TypeOK
<1> QED
  BY <1>1 DEF TypeOK, Send

LEMMA FanTyped ==
  ASSUME TypeOK, FanPrinted,
         \/ PumpChunk \/ ReadRecord \/ Route \/ Enqueue
  PROVE  fan' \in Fan
<1>1. CASE PumpChunk
  <2>1. last + 1 \in 0..MaxOut
    BY <1>1, OutAssumption DEF TypeOK, PumpChunk
  <2> QED
    BY <1>1, <2>1 DEF PumpChunk, Fan, Quiet
<1>2. CASE ReadRecord
  BY <1>2 DEF ReadRecord, TypeOK, Fan
<1>3. CASE Route
  <2>1. fan' = Quiet \/ fan' = [fan EXCEPT !.at = "queue", !.to = slot]
    BY <1>3 DEF Route
  <2>2. Quiet \in Fan
    BY OutAssumption DEF Quiet, Fan
  <2>3. [fan EXCEPT !.at = "queue", !.to = slot] \in Fan
    BY DEF TypeOK, Fan
  <2> QED
    BY <2>1, <2>2, <2>3
<1>4. CASE Enqueue
  BY <1>4, OutAssumption DEF Enqueue, Quiet, Fan
<1> QED
  BY <1>1, <1>2, <1>3, <1>4

LEMMA RouteEffect ==
  ASSUME fan \in Fan, Route
  PROVE  /\ fan.at = "read"
         /\ \/ fan' = Quiet
            \/ /\ fan'.at = "queue" /\ fan'.n = fan.n
               /\ fan'.holder = fan.holder /\ fan'.pending = fan.pending
         /\ last' = last /\ holder' = holder /\ pending' = pending /\ slot' = slot
         /\ queue' = queue /\ queued' = queued /\ call' = call /\ upto' = upto
         /\ drained' = drained /\ open' = open
BY DEF Route, record, Fan

(* Every step keeps the types.                                             *)
LEMMA TypeStep == TypeOK /\ FanPrinted /\ [Next]_vars => TypeOK'
<1> SUFFICES ASSUME TypeOK, FanPrinted, [Next]_vars PROVE TypeOK'
  OBVIOUS
<1> USE OutAssumption, NoneAssumption DEF record
<1>1. CASE PumpChunk
  <2>1. last' \in 0..MaxOut
    BY <1>1 DEF PumpChunk, TypeOK
  <2> QED
    BY <1>1, <2>1, FanTyped DEF PumpChunk, TypeOK
<1>2. CASE ReadRecord
  BY <1>2, FanTyped DEF ReadRecord, TypeOK
<1>3. CASE Route
  <2>1. fan.n \in 0..MaxOut
    BY DEF TypeOK, Fan
  <2>2. wire' \in [Conns -> Seq(0..MaxOut)]
    <3>1. wire' = wire \/ Send(Recipients(fan.holder), fan.n)
      BY <1>3 DEF Route
    <3> QED
      BY <2>1, <3>1, SendTyped DEF TypeOK
  <2> QED
    BY <1>3, <2>2, FanTyped DEF Route, TypeOK
<1>4. CASE Enqueue
  <2>1. fan.n \in 1..MaxOut
    BY <1>4 DEF Enqueue, FanPrinted, TypeOK
  <2>2. queue' \in [Conns -> Seq(1..MaxOut)]
    <3>1. queue \in [Conns -> Seq(1..MaxOut)]
      BY DEF TypeOK
    <3>2. \A c \in Conns : Append(queue[c], fan.n) \in Seq(1..MaxOut)
      BY <2>1, <3>1
    <3>3. queue' = [queue EXCEPT ![fan.to] = Append(queue[fan.to], fan.n)]
      BY <1>4 DEF Enqueue
    <3> QED
      BY <3>1, <3>2, <3>3
  <2> QED
    BY <1>4, <2>1, <2>2, FanTyped DEF Enqueue, TypeOK
<1>5. ASSUME NEW c \in Conns, BeginReplay(c) \/ Continue(c) \/ HubReattachThrows(c)
                             \/ HubDetach(c) \/ Close(c)
      PROVE  TypeOK'
  <2>1. <<>> \in Seq(1..MaxOut)
    OBVIOUS
  <2>2. CASE BeginReplay(c)
    BY <2>2 DEF BeginReplay, TypeOK, Calls
  <2>3. CASE ReattachSession(c)
    BY <2>3 DEF ReattachSession, TypeOK, Calls
  <2>4. CASE RequestScrollback(c)
    <3>1. last \in 0..NoReplay /\ NoReplay \in 0..NoReplay
      BY DEF TypeOK, NoReplay
    <3>2. upto' \in [Conns -> 0..NoReplay] /\ call' \in [Conns -> Calls]
      <4>1. upto \in [Conns -> 0..NoReplay] /\ call \in [Conns -> Calls]
        BY DEF TypeOK
      <4> QED
        BY <2>4, <3>1, <4>1 DEF RequestScrollback, Calls
    <3> QED
      BY <2>4, <3>2 DEF RequestScrollback, TypeOK
  <2>5. CASE SendReplay(c)
    <3>1. wire' \in [Conns -> Seq(0..MaxOut)]
      BY <2>5, SendTyped DEF SendReplay, Completed
    <3> QED
      BY <2>5, <3>1 DEF SendReplay, TypeOK, Calls
  <2>6. CASE FlushPending(c)
    <3>1. queue' \in [Conns -> Seq(1..MaxOut)] /\ drained' \in [Conns -> Seq(1..MaxOut)]
      <4>1. /\ queue \in [Conns -> Seq(1..MaxOut)] /\ drained \in [Conns -> Seq(1..MaxOut)]
            /\ queue[c] \in Seq(1..MaxOut)
        BY DEF TypeOK
      <4>2. /\ queue' = queue \/ queue' = [queue EXCEPT ![c] = <<>>]
            /\ drained' = drained \/ drained' = [drained EXCEPT ![c] = queue[c]]
        BY <2>6 DEF FlushPending
      <4> QED
        BY <2>1, <4>1, <4>2
    <3> QED
      BY <2>6, <3>1 DEF FlushPending, TypeOK, Calls
  <2>7. CASE SendDrained(c)
    <3>1. drained[c] \in Seq(1..MaxOut) /\ drained[c] # <<>>
      BY <2>7 DEF SendDrained, TypeOK
    <3>2. Head(drained[c]) \in 1..MaxOut /\ Tail(drained[c]) \in Seq(1..MaxOut)
      BY <3>1, HeadTailProperties
    <3>3. wire' \in [Conns -> Seq(0..MaxOut)]
      BY <2>7, <3>2, SendTyped DEF SendDrained
    <3>4. drained' \in [Conns -> Seq(1..MaxOut)]
      BY <2>7, <3>2 DEF SendDrained, TypeOK
    <3> QED
      BY <2>7, <3>3, <3>4 DEF SendDrained, TypeOK
  <2>8. CASE EndFlush(c)
    BY <2>8 DEF EndFlush, TypeOK, Calls
  <2>9. CASE MarkReplayCompleted(c)
    BY <2>9 DEF MarkReplayCompleted, TypeOK, Calls
  <2>10. CASE HubCallFails(c)
    <3>1. drained' \in [Conns -> Seq(1..MaxOut)]
      BY <2>1, <2>10 DEF HubCallFails, TypeOK
    <3> QED
      BY <2>10, <3>1 DEF HubCallFails, TypeOK, Calls
  <2>11. CASE HubReattachThrows(c)
    BY <2>11 DEF HubReattachThrows, TypeOK, Calls
  <2>12. CASE SocketHandlerEnds(c)
    <3>1. drained' \in [Conns -> Seq(1..MaxOut)]
      BY <2>1, <2>12 DEF SocketHandlerEnds, TypeOK
    <3> QED
      BY <2>12, <3>1 DEF SocketHandlerEnds, Detach, TypeOK, Calls
  <2>13. CASE HubDetach(c)
    BY <2>13 DEF HubDetach, Detach, TypeOK, Calls
  <2>14. CASE Close(c)
    BY <2>14 DEF Close, TypeOK
  <2> QED
    BY <1>5, <2>2, <2>3, <2>4, <2>5, <2>6, <2>7, <2>8, <2>9, <2>10, <2>11, <2>12, <2>13,
       <2>14 DEF Continue
<1>6. CASE UNCHANGED vars
  BY <1>6 DEF vars, TypeOK
<1> QED
  BY <1>1, <1>2, <1>3, <1>4, <1>5, <1>6 DEF Next, ForwardStdout

(* What is being forwarded has been printed.                               *)
LEMMA FanPrintedStep == TypeOK /\ FanPrinted /\ [Next]_vars => FanPrinted'
<1> SUFFICES ASSUME TypeOK /\ FanPrinted, [Next]_vars PROVE FanPrinted'
  OBVIOUS
<1> USE OutAssumption, NoneAssumption DEF TypeOK, FanPrinted, Fan, record
<1>1. CASE PumpChunk
  <2>1. last \in Nat /\ last' = last + 1 /\ fan'.n = last + 1
    BY <1>1 DEF PumpChunk, Quiet
  <2> QED
    BY <2>1
<1>2. CASE ReadRecord
  BY <1>2 DEF ReadRecord
<1>3. CASE Route
  BY <1>3, RouteEffect DEF Quiet
<1>4. CASE Enqueue
  BY <1>4 DEF Enqueue, Quiet
<1>5. ASSUME NEW c \in Conns, BeginReplay(c) \/ Continue(c) \/ HubReattachThrows(c)
                             \/ HubDetach(c) \/ Close(c)
      PROVE  FanPrinted'
  <2>1. CASE BeginReplay(c)
    BY <2>1 DEF BeginReplay
  <2>2. CASE ReattachSession(c)
    BY <2>2 DEF ReattachSession
  <2>3. CASE RequestScrollback(c)
    BY <2>3 DEF RequestScrollback
  <2>4. CASE SendReplay(c)
    BY <2>4 DEF SendReplay, Send, Completed
  <2>5. CASE FlushPending(c)
    BY <2>5 DEF FlushPending
  <2>6. CASE SendDrained(c)
    BY <2>6 DEF SendDrained, Send
  <2>7. CASE EndFlush(c)
    BY <2>7 DEF EndFlush
  <2>8. CASE MarkReplayCompleted(c)
    BY <2>8 DEF MarkReplayCompleted
  <2>9. CASE HubCallFails(c)
    BY <2>9 DEF HubCallFails
  <2>10. CASE HubReattachThrows(c)
    BY <2>10 DEF HubReattachThrows
  <2>11. CASE SocketHandlerEnds(c)
    BY <2>11 DEF SocketHandlerEnds, Detach
  <2>12. CASE HubDetach(c)
    BY <2>12 DEF HubDetach, Detach
  <2>13. CASE Close(c)
    BY <2>13 DEF Close
  <2> QED
    BY <1>5, <2>1, <2>2, <2>3, <2>4, <2>5, <2>6, <2>7, <2>8, <2>9, <2>10, <2>11, <2>12,
       <2>13 DEF Continue
<1>6. CASE UNCHANGED vars
  BY <1>6 DEF vars
<1> QED
  BY <1>1, <1>2, <1>3, <1>4, <1>5, <1>6 DEF Next, ForwardStdout

(* Only a reattach puts its own connection into the record.                *)
LEMMA UnattachedStep == TypeOK /\ Unattached /\ [Next]_vars => Unattached'
<1> SUFFICES ASSUME TypeOK /\ Unattached, [Next]_vars PROVE Unattached'
  OBVIOUS
<1> USE OutAssumption, NoneAssumption DEF TypeOK, Unattached, Fan, Calls, record
<1>1. CASE PumpChunk
  BY <1>1 DEF PumpChunk, Quiet
<1>2. CASE ReadRecord
  BY <1>2 DEF ReadRecord
<1>3. CASE Route
  BY <1>3, RouteEffect DEF Quiet
<1>4. CASE Enqueue
  BY <1>4 DEF Enqueue, Quiet
<1>5. ASSUME NEW c \in Conns, BeginReplay(c) \/ Continue(c) \/ HubReattachThrows(c)
                             \/ HubDetach(c) \/ Close(c)
      PROVE  Unattached'
  <2>1. CASE BeginReplay(c)
    BY <2>1 DEF BeginReplay
  <2>2. CASE ReattachSession(c)
    BY <2>2 DEF ReattachSession
  <2>3. CASE RequestScrollback(c)
    BY <2>3 DEF RequestScrollback
  <2>4. CASE SendReplay(c)
    BY <2>4 DEF SendReplay, Send, Completed
  <2>5. CASE FlushPending(c)
    BY <2>5 DEF FlushPending
  <2>6. CASE SendDrained(c)
    BY <2>6 DEF SendDrained, Send
  <2>7. CASE EndFlush(c)
    BY <2>7 DEF EndFlush
  <2>8. CASE MarkReplayCompleted(c)
    BY <2>8 DEF MarkReplayCompleted
  <2>9. CASE HubCallFails(c)
    BY <2>9 DEF HubCallFails
  <2>10. CASE HubReattachThrows(c)
    BY <2>10 DEF HubReattachThrows
  <2>11. CASE SocketHandlerEnds(c)
    BY <2>11 DEF SocketHandlerEnds, Detach
  <2>12. CASE HubDetach(c)
    BY <2>12 DEF HubDetach, Detach
  <2>13. CASE Close(c)
    BY <2>13 DEF Close
  <2> QED
    BY <1>5, <2>1, <2>2, <2>3, <2>4, <2>5, <2>6, <2>7, <2>8, <2>9, <2>10, <2>11, <2>12,
       <2>13 DEF Continue
<1>6. CASE UNCHANGED vars
  BY <1>6 DEF vars
<1> QED
  BY <1>1, <1>2, <1>3, <1>4, <1>5, <1>6 DEF Next, ForwardStdout

(* The flush takes the caller's replay out of the dictionary.              *)
LEMMA SlotReplayingStep == TypeOK /\ Unattached /\ SlotReplaying /\ [Next]_vars => SlotReplaying'
<1> SUFFICES ASSUME TypeOK /\ Unattached /\ SlotReplaying, [Next]_vars PROVE SlotReplaying'
  OBVIOUS
<1> USE OutAssumption, NoneAssumption DEF TypeOK, Unattached, SlotReplaying, Replaying, Fan, Calls, record
<1>1. CASE PumpChunk
  BY <1>1 DEF PumpChunk, Quiet
<1>2. CASE ReadRecord
  BY <1>2 DEF ReadRecord
<1>3. CASE Route
  <2>1. fan'.holder \in {fan.holder, None} /\ slot' = slot /\ holder' = holder /\ call' = call
    BY <1>3, RouteEffect DEF Quiet
  <2> QED
    BY <2>1
<1>4. CASE Enqueue
  BY <1>4 DEF Enqueue, Quiet
<1>5. ASSUME NEW c \in Conns, BeginReplay(c) \/ Continue(c) \/ HubReattachThrows(c)
                             \/ HubDetach(c) \/ Close(c)
      PROVE  SlotReplaying'
  <2>1. CASE BeginReplay(c)
    BY <2>1 DEF BeginReplay
  <2>2. CASE ReattachSession(c)
    BY <2>2 DEF ReattachSession
  <2>3. CASE RequestScrollback(c)
    BY <2>3 DEF RequestScrollback
  <2>4. CASE SendReplay(c)
    BY <2>4 DEF SendReplay, Send, Completed
  <2>5. CASE FlushPending(c)
    BY <2>5 DEF FlushPending
  <2>6. CASE SendDrained(c)
    BY <2>6 DEF SendDrained, Send
  <2>7. CASE EndFlush(c)
    BY <2>7 DEF EndFlush
  <2>8. CASE MarkReplayCompleted(c)
    BY <2>8 DEF MarkReplayCompleted
  <2>9. CASE HubCallFails(c)
    BY <2>9 DEF HubCallFails
  <2>10. CASE HubReattachThrows(c)
    BY <2>10 DEF HubReattachThrows
  <2>11. CASE SocketHandlerEnds(c)
    BY <2>11 DEF SocketHandlerEnds, Detach
  <2>12. CASE HubDetach(c)
    BY <2>12 DEF HubDetach, Detach
  <2>13. CASE Close(c)
    BY <2>13 DEF Close
  <2> QED
    BY <1>5, <2>1, <2>2, <2>3, <2>4, <2>5, <2>6, <2>7, <2>8, <2>9, <2>10, <2>11, <2>12,
       <2>13 DEF Continue
<1>6. CASE UNCHANGED vars
  BY <1>6 DEF vars
<1> QED
  BY <1>1, <1>2, <1>3, <1>4, <1>5, <1>6 DEF Next, ForwardStdout

(* Only the end of its own replay makes a holder's record not pending.     *)
LEMMA ReplayingPendingStep == TypeOK /\ Unattached /\ ReplayingPending /\ [Next]_vars => ReplayingPending'
<1> SUFFICES ASSUME TypeOK /\ Unattached /\ ReplayingPending, [Next]_vars PROVE ReplayingPending'
  OBVIOUS
<1> USE OutAssumption, NoneAssumption DEF TypeOK, Unattached, ReplayingPending, Replaying, Fan, Calls, record
<1>1. CASE PumpChunk
  BY <1>1 DEF PumpChunk, Quiet
<1>2. CASE ReadRecord
  BY <1>2 DEF ReadRecord
<1>3. CASE Route
  <2>1. /\ fan'.holder = None \/ (fan'.holder = fan.holder /\ fan'.pending = fan.pending)
        /\ holder' = holder /\ pending' = pending /\ call' = call
    BY <1>3, RouteEffect DEF Quiet
  <2> QED
    BY <2>1
<1>4. CASE Enqueue
  BY <1>4 DEF Enqueue, Quiet
<1>5. ASSUME NEW c \in Conns, BeginReplay(c) \/ Continue(c) \/ HubReattachThrows(c)
                             \/ HubDetach(c) \/ Close(c)
      PROVE  ReplayingPending'
  <2>1. CASE BeginReplay(c)
    BY <2>1 DEF BeginReplay
  <2>2. CASE ReattachSession(c)
    BY <2>2 DEF ReattachSession
  <2>3. CASE RequestScrollback(c)
    BY <2>3 DEF RequestScrollback
  <2>4. CASE SendReplay(c)
    BY <2>4 DEF SendReplay, Send, Completed
  <2>5. CASE FlushPending(c)
    BY <2>5 DEF FlushPending
  <2>6. CASE SendDrained(c)
    BY <2>6 DEF SendDrained, Send
  <2>7. CASE EndFlush(c)
    BY <2>7 DEF EndFlush
  <2>8. CASE MarkReplayCompleted(c)
    BY <2>8 DEF MarkReplayCompleted
  <2>9. CASE HubCallFails(c)
    BY <2>9 DEF HubCallFails
  <2>10. CASE HubReattachThrows(c)
    BY <2>10 DEF HubReattachThrows
  <2>11. CASE SocketHandlerEnds(c)
    BY <2>11 DEF SocketHandlerEnds, Detach
  <2>12. CASE HubDetach(c)
    BY <2>12 DEF HubDetach, Detach
  <2>13. CASE Close(c)
    BY <2>13 DEF Close
  <2> QED
    BY <1>5, <2>1, <2>2, <2>3, <2>4, <2>5, <2>6, <2>7, <2>8, <2>9, <2>10, <2>11, <2>12,
       <2>13 DEF Continue
<1>6. CASE UNCHANGED vars
  BY <1>6 DEF vars
<1> QED
  BY <1>1, <1>2, <1>3, <1>4, <1>5, <1>6 DEF Next, ForwardStdout

(* No holder comes back: a copy read after its answer names it.            *)
LEMMA CopyCurrentStep == TypeOK /\ FanPrinted /\ CopyCurrent /\ [Next]_vars => CopyCurrent'
<1> SUFFICES ASSUME TypeOK /\ FanPrinted /\ CopyCurrent, [Next]_vars PROVE CopyCurrent'
  OBVIOUS
<1> USE OutAssumption, NoneAssumption DEF TypeOK, FanPrinted, CopyCurrent, Answered, NoReplay, Fan, Calls, record
<1>1. CASE PumpChunk
  BY <1>1 DEF PumpChunk, Quiet
<1>2. CASE ReadRecord
  BY <1>2 DEF ReadRecord
<1>3. CASE Route
  <2>1. fan'.at \in {"idle", "queue"}
    BY <1>3, RouteEffect DEF Quiet
  <2> QED
    BY <2>1
<1>4. CASE Enqueue
  BY <1>4 DEF Enqueue, Quiet
<1>5. ASSUME NEW c \in Conns, BeginReplay(c) \/ Continue(c) \/ HubReattachThrows(c)
                             \/ HubDetach(c) \/ Close(c)
      PROVE  CopyCurrent'
  <2>1. CASE BeginReplay(c)
    BY <2>1 DEF BeginReplay
  <2>2. CASE ReattachSession(c)
    BY <2>2 DEF ReattachSession
  <2>3. CASE RequestScrollback(c)
    BY <2>3 DEF RequestScrollback
  <2>4. CASE SendReplay(c)
    BY <2>4 DEF SendReplay, Send, Completed
  <2>5. CASE FlushPending(c)
    BY <2>5 DEF FlushPending
  <2>6. CASE SendDrained(c)
    BY <2>6 DEF SendDrained, Send
  <2>7. CASE EndFlush(c)
    BY <2>7 DEF EndFlush
  <2>8. CASE MarkReplayCompleted(c)
    BY <2>8 DEF MarkReplayCompleted
  <2>9. CASE HubCallFails(c)
    BY <2>9 DEF HubCallFails
  <2>10. CASE HubReattachThrows(c)
    BY <2>10 DEF HubReattachThrows
  <2>11. CASE SocketHandlerEnds(c)
    BY <2>11 DEF SocketHandlerEnds, Detach
  <2>12. CASE HubDetach(c)
    BY <2>12 DEF HubDetach, Detach
  <2>13. CASE Close(c)
    BY <2>13 DEF Close
  <2> QED
    BY <1>5, <2>1, <2>2, <2>3, <2>4, <2>5, <2>6, <2>7, <2>8, <2>9, <2>10, <2>11, <2>12,
       <2>13 DEF Continue
<1>6. CASE UNCHANGED vars
  BY <1>6 DEF vars
<1> QED
  BY <1>1, <1>2, <1>3, <1>4, <1>5, <1>6 DEF Next, ForwardStdout

(* The heart of it: a chunk leaves ForwardStdout for the client, for a      *)
(* pending replay, or for nobody when no replay will miss it.               *)
LEMMA NothingIsDroppedStep ==
  TypeOK /\ FanPrinted /\ CopyCurrent /\ NothingIsDropped /\ [Next]_vars => NothingIsDropped'
<1> SUFFICES ASSUME TypeOK, FanPrinted, CopyCurrent, NothingIsDropped, [Next]_vars,
                    NEW c \in open', holder' = c, Answered(c)',
                    NEW n \in 1..last', ~(n <= upto'[c])
             PROVE  Reaches(c, n)'
  BY DEF NothingIsDropped
<1>1. c \in Conns /\ c \in open
  <2>1. open' \subseteq open
    BY DEF Next, vars, ForwardStdout, PumpChunk, ReadRecord, Route, Enqueue, BeginReplay, Continue,
           ReattachSession, RequestScrollback, SendReplay, FlushPending, SendDrained, EndFlush,
           MarkReplayCompleted, HubCallFails, SocketHandlerEnds, HubReattachThrows, HubDetach, Close
  <2> QED
    BY <2>1 DEF TypeOK
(* What was sent to an open connection stays sent.                         *)
<1>2. ASSUME NEW C, NEW f, Send(C, f), \E i \in DOMAIN wire[c] : wire[c][i] = n
      PROVE  \E i \in DOMAIN wire'[c] : wire'[c][i] = n
  <2>1. wire[c] \in Seq(0..MaxOut)
    BY <1>1 DEF TypeOK
  <2>2. wire'[c] = wire[c] \/ wire'[c] = Append(wire[c], f)
    BY <1>1, <1>2 DEF Send
  <2>3. PICK i \in DOMAIN wire[c] : wire[c][i] = n
    BY <1>2
  <2>4. i \in DOMAIN Append(wire[c], f) /\ Append(wire[c], f)[i] = n
    BY <2>1, <2>3
  <2> QED
    BY <2>2, <2>3, <2>4
<1>3. ASSUME holder = c, Answered(c), upto'[c] = upto[c], n \in 1..last
      PROVE  Reaches(c, n)
  <2>1. ~(n <= upto[c])
    BY <1>3
  <2> QED
    BY <1>1, <1>3, <2>1 DEF NothingIsDropped
<1>4. ASSUME holder = c, Answered(c), upto'[c] = upto[c], n \in 1..last,
             wire' = wire, queued' = queued, fan' = fan
      PROVE  Reaches(c, n)'
  BY <1>3, <1>4 DEF Reaches
<1>5. CASE PumpChunk
  <2>1. holder = c /\ Answered(c) /\ upto'[c] = upto[c]
    BY <1>5 DEF PumpChunk, Answered, record
  <2>2. fan'.at = "sent" /\ fan'.n = last + 1 /\ last' = last + 1 /\ wire' = wire /\ queued' = queued
    BY <1>5 DEF PumpChunk, Quiet
  <2>3. fan.at = "idle"
    BY <1>5 DEF PumpChunk
  <2>4. CASE n = last + 1
    BY <2>2, <2>4 DEF Reaches
  <2>5. CASE n \in 1..last
    BY <1>3, <2>1, <2>2, <2>3, <2>5 DEF Reaches
  <2> QED
    BY <2>2, <2>4, <2>5 DEF TypeOK
<1>6. CASE ReadRecord
  <2>1. holder = c /\ Answered(c) /\ upto'[c] = upto[c] /\ n \in 1..last
    BY <1>6 DEF ReadRecord, Answered, record
  <2>2. fan'.at = "read" /\ fan'.n = fan.n /\ wire' = wire /\ queued' = queued
    BY <1>6 DEF ReadRecord, TypeOK, Fan
  <2> QED
    BY <1>3, <2>1, <2>2 DEF Reaches
<1>7. CASE Route
  <2>1. holder = c /\ Answered(c) /\ upto'[c] = upto[c] /\ n \in 1..last
    BY <1>7 DEF Route, Answered, record
  <2>2. Reaches(c, n)
    BY <1>3, <2>1
  <2>3. CASE fan.pending /\ slot # None
    <3>1. fan'.at = "queue" /\ fan'.n = fan.n /\ wire' = wire /\ queued' = queued
      BY <1>7, <2>3 DEF Route, TypeOK, Fan
    <3> QED
      BY <2>2, <3>1 DEF Reaches
  <2>4. CASE ~(fan.pending /\ slot # None) /\ fan.n # n
    <3>1. queued' = queued /\ (wire' = wire \/ Send(Recipients(fan.holder), fan.n))
      BY <1>7, <2>4 DEF Route
    <3> QED
      BY <1>2, <2>2, <2>4, <3>1 DEF Reaches
  (* The copy that was read is of this holder, so this is where it goes.   *)
  <2>5. CASE ~(fan.pending /\ slot # None) /\ fan.n = n
    <3>1. fan.holder = c
      <4>1. upto[c] \in Int /\ n \in Int
        BY <1>1 DEF TypeOK, NoReplay
      <4>2. fan.n > upto[c]
        BY <2>1, <2>5, <4>1
      <4> QED
        BY <1>1, <1>7, <2>1, <4>2 DEF CopyCurrent, Route
    <3>2. c # None
      BY <1>1, NoneAssumption
    <3>3. Send(Recipients(c), n)
      BY <1>7, <2>5, <3>1, <3>2 DEF Route
    <3>4. c \in Recipients(c)
      BY <1>1, <2>1 DEF Recipients, Answered
    <3>5. wire'[c] = Append(wire[c], n) /\ wire[c] \in Seq(0..MaxOut)
      BY <1>1, <3>3, <3>4 DEF Send, TypeOK
    <3>6. Len(wire[c]) + 1 \in DOMAIN wire'[c] /\ wire'[c][Len(wire[c]) + 1] = n
      BY <3>5
    <3> QED
      BY <3>6 DEF Reaches
  <2> QED
    BY <2>3, <2>4, <2>5
<1>8. CASE Enqueue
  <2>1. holder = c /\ Answered(c) /\ upto'[c] = upto[c] /\ n \in 1..last
    BY <1>8 DEF Enqueue, Answered, record
  <2>2. queued' = queued \cup {fan.n} /\ wire' = wire
    BY <1>8 DEF Enqueue
  <2> QED
    BY <1>3, <2>1, <2>2 DEF Reaches
<1>9. ASSUME NEW d \in Conns, BeginReplay(d) \/ Continue(d) \/ HubReattachThrows(d)
                             \/ HubDetach(d) \/ Close(d)
      PROVE  Reaches(c, n)'
  <2>1. fan' = fan /\ queued' = queued /\ last' = last
    BY <1>9 DEF BeginReplay, Continue, ReattachSession, RequestScrollback, SendReplay, FlushPending,
                SendDrained, EndFlush, MarkReplayCompleted, HubCallFails, SocketHandlerEnds,
                HubReattachThrows, HubDetach, Close
  <2>2. wire' = wire \/ \E C, f : Send(C, f)
    BY <1>9 DEF BeginReplay, Continue, ReattachSession, RequestScrollback, SendReplay, FlushPending,
                SendDrained, EndFlush, MarkReplayCompleted, HubCallFails, SocketHandlerEnds,
                HubReattachThrows, HubDetach, Close
  <2>3. ASSUME holder = c, Answered(c), upto'[c] = upto[c] PROVE Reaches(c, n)'
    <3>1. Reaches(c, n)
      BY <1>3, <2>1, <2>3
    <3> QED
      BY <1>2, <2>1, <2>2, <3>1 DEF Reaches
  (* Answering with the whole buffer leaves nothing to miss.               *)
  <2>4. CASE RequestScrollback(d) /\ d = c
    <3>1. upto'[c] = last \/ upto'[c] = NoReplay
      BY <1>1, <2>4 DEF RequestScrollback, TypeOK
    <3> QED
      BY <2>1, <3>1 DEF Answered, TypeOK
  <2>5. CASE ReattachSession(d) /\ d = c
    BY <1>1, <2>5 DEF ReattachSession, Answered, TypeOK
  <2>6. CASE ~(RequestScrollback(d) /\ d = c) /\ ~(ReattachSession(d) /\ d = c)
    <3>1. holder = c /\ Answered(c) /\ upto'[c] = upto[c]
      BY <1>1, <1>9, <2>6, NoneAssumption
         DEF BeginReplay, Continue, ReattachSession, RequestScrollback, SendReplay, FlushPending,
             SendDrained, EndFlush, MarkReplayCompleted, HubCallFails, SocketHandlerEnds, Detach,
             HubReattachThrows, HubDetach, Close, Answered, TypeOK, Calls, record
    <3> QED
      BY <2>3, <3>1
  <2> QED
    BY <2>4, <2>5, <2>6
<1>10. CASE UNCHANGED vars
  BY <1>4, <1>10 DEF vars, Answered
<1> QED
  BY <1>5, <1>6, <1>7, <1>8, <1>9, <1>10 DEF Next, ForwardStdout

LEMMA InitIInv == Init => IInv
<1> SUFFICES ASSUME Init PROVE IInv
  OBVIOUS
<1> USE OutAssumption, NoneAssumption DEF Init
<1>1. <<>> \in Seq(1..MaxOut) /\ <<>> \in Seq(0..MaxOut)
  OBVIOUS
<1>2. Quiet \in Fan
  BY DEF Quiet, Fan
<1>3. TypeOK
  <2>1. queue \in [Conns -> Seq(1..MaxOut)] /\ drained \in [Conns -> Seq(1..MaxOut)]
    BY <1>1
  <2>2. wire \in [Conns -> Seq(0..MaxOut)]
    BY <1>1
  <2>3. call \in [Conns -> Calls] /\ upto \in [Conns -> 0..NoReplay]
    BY DEF Calls, NoReplay
  <2>4. last \in 0..MaxOut /\ fan \in Fan
    BY <1>2
  <2>5. holder \in Conns \cup {None} /\ pending \in BOOLEAN /\ slot \in Conns \cup {None}
    OBVIOUS
  <2>6. queued \subseteq 1..MaxOut /\ open \subseteq Conns
    OBVIOUS
  <2> QED
    BY ONLY <2>1, <2>2, <2>3, <2>4, <2>5, <2>6 DEF TypeOK
<1>4. fan.at = "idle" /\ fan.holder = None
  BY DEF Quiet
<1> QED
  BY <1>3, <1>4 DEF IInv, FanPrinted, Unattached, SlotReplaying, Replaying, ReplayingPending,
                    CopyCurrent, NothingIsDropped

LEMMA Invariance == Spec => []IInv
<1>1. IInv /\ [Next]_vars => IInv'
  BY TypeStep, FanPrintedStep, UnattachedStep, SlotReplayingStep, ReplayingPendingStep,
     CopyCurrentStep, NothingIsDroppedStep DEF IInv
<1> QED
  BY InitIInv, <1>1, PTL DEF Spec

(* The output path's state always has the shape the program gives it.      *)
THEOREM TypeCorrect == Spec => []TypeOK
BY Invariance, PTL DEF IInv

(* For any number of clients, of either kind: what the holder was not      *)
(* replayed is never dropped between the record and the queue.             *)
THEOREM NoChunkFallsBetween == Spec => []NothingIsDropped
BY Invariance, PTL DEF IInv

(* For any number of clients: while the pending replay is its own, a hub   *)
(* client is sent nothing live before its replay has ended.                *)
THEOREM ReplayPrecedesLive == Spec => ReplayGoesFirst
<1>1. ASSUME IInv, [Next]_vars, NEW c \in Hubs, holder = c, slot = c, ForwardStdout
      PROVE  wire'[c] = wire[c]
  <2>1. c \in Conns /\ c \notin Sockets /\ c # None
    BY NoneAssumption DEF Hubs
  <2>2. CASE ReadRecord \/ Enqueue
    BY <2>2 DEF ReadRecord, Enqueue
  <2>3. CASE Route /\ fan.holder = c
    <3>1. call[c] \in Replaying
      BY <1>1, <2>1 DEF IInv, SlotReplaying
    <3>2. fan.pending
      BY <2>1, <2>3, <3>1, <1>1 DEF IInv, ReplayingPending
    <3> QED
      BY <1>1, <2>1, <2>3, <3>2 DEF Route
  <2>4. CASE Route /\ fan.holder # c
    <3>1. c \notin Recipients(fan.holder)
      BY <2>1, <2>4 DEF Recipients
    <3>2. wire' = wire \/ Send(Recipients(fan.holder), fan.n)
      BY <2>4 DEF Route
    <3> QED
      BY <1>1, <2>1, <3>1, <3>2 DEF Send, IInv, TypeOK
  <2> QED
    BY <1>1, <2>2, <2>3, <2>4 DEF ForwardStdout
<1>2. IInv /\ [Next]_vars =>
        [\A c \in Hubs : holder = c /\ slot = c /\ ForwardStdout => wire'[c] = wire[c]]_vars
  BY <1>1
<1> QED
  BY Invariance, <1>2, PTL DEF Spec, ReplayGoesFirst
=============================================================================
