-------------------------- MODULE PunchStreamProofs --------------------------
(***************************************************************************)
(* Proofs about PunchStream, for any input, window, retransmission limits  *)
(* and any network that loses, duplicates, delays and reorders frames.     *)
(***************************************************************************)
EXTENDS PunchStream, SequenceTheorems, TLAPS

(* The inductive invariant.                                                *)

(* The counters: what the application wrote, and FIN after it.             *)
Counted ==
  /\ nextSeq \in Nat /\ finSeq \in Int
  /\ nextSeq <= Len(Input) + 1
  /\ finSeq = -1 => nextSeq <= Len(Input)
  /\ finSeq # -1 => nextSeq = finSeq + 1
  /\ expected \in Nat /\ expected <= nextSeq

(* Every frame, wherever it is, is the one the sender made for its number. *)
Proper(f) ==
  /\ f.seq \in Nat /\ f.seq < nextSeq
  /\ \/ f.seq = finSeq /\ f = FinFrame(f.seq)
     \/ f.seq # finSeq /\ f = DataFrame(f.seq) /\ f.seq < Len(Input)

FramesProper == \A f \in inFlight \cup data \cup pending : Proper(f)

(* Whatever an acknowledgement under way confirms has been received.       *)
AcksTrue == \A ack \in acks : \A n \in Nat : Confirmed(ack, n) => Received(n)

(* What is buffered lies above a gap.                                      *)
Gapped == \A f \in pending : f.seq > expected

(* What was handed up is the input as far as the number expected.          *)
Ended == finSeq # -1 /\ expected = nextSeq

StreamInOrder ==
  /\ stream \in Seq(STRING)
  /\ Ended => Len(stream) = finSeq
  /\ ~Ended => Len(stream) = expected
  /\ Len(stream) <= Len(Input)
  /\ \A i \in 1 .. Len(stream) : stream[i] = Input[i]

FinKnown ==
  /\ remoteFin = -1 \/ remoteFin = finSeq
  /\ \A f \in pending : f.seq = finSeq => remoteFin = finSeq
  /\ eof <=> Ended

ReaderBehind ==
  /\ read \in Nat /\ read <= Len(stream)
  /\ reader = "eof" => Ended /\ read = Len(stream)

IInv ==
  /\ Counted /\ FramesProper /\ AcksTrue /\ Gapped /\ StreamInOrder /\ FinKnown
  /\ ReaderBehind /\ AckedIsReceived
  /\ written = "done" => Ended

-----------------------------------------------------------------------------
LEMMA InitIInv == Init => IInv
<1> SUFFICES ASSUME Init PROVE IInv
  OBVIOUS
<1>1. Len(Input) \in Nat
  BY InputAssumption
<1>2. FramesProper /\ AcksTrue /\ Gapped /\ AckedIsReceived
  BY DEF Init, FramesProper, AcksTrue, Gapped, AckedIsReceived
<1>3. Counted
  BY <1>1 DEF Init, Counted
<1>4. FinKnown
  BY DEF Init, FinKnown, Ended
<1>5. StreamInOrder /\ ReaderBehind
  BY <1>1 DEF Init, StreamInOrder, ReaderBehind, Ended
<1>6. QED
  BY <1>2, <1>3, <1>4, <1>5 DEF Init, IInv

(* Two proper frames with one number are the same frame.                   *)
LEMMA ProperUnique ==
  ASSUME NEW f, NEW g, Proper(f), Proper(g), f.seq = g.seq
  PROVE  f = g
BY DEF Proper

(* An acknowledgement built from the receiver's state confirms only what   *)
(* that state has received.                                                *)
LEMMA AckOfTrue ==
  ASSUME NEW exp \in Nat, NEW buffered, \A f \in buffered : f.seq \in Nat /\ f.seq <= Len(Input),
         NEW n \in Nat, Confirmed(AckOf(exp, buffered), n)
  PROVE  n < exp \/ n \in Numbers(buffered)
<1>1. Len(Input) \in Nat
  BY InputAssumption
<1> DEFINE missing == AckOf(exp, buffered).missing
<1>2. CASE n < AckOf(exp, buffered).cum
  BY <1>2 DEF AckOf
<1>3. CASE n \notin missing /\ \E m \in missing : n < m
  <2> PICK m \in missing : n < m
    BY <1>3
  <2>1. m \in Seqs /\ \E k \in Numbers(buffered) : m < k
    BY DEF AckOf
  <2> PICK k \in Numbers(buffered) : m < k
    BY <2>1
  <2>2. k \in Nat /\ n < k /\ n \in Seqs
    BY <1>1, <2>1 DEF Numbers, Seqs
  <2>3. QED
    BY <1>3, <2>2 DEF AckOf
<1>4. QED
  BY <1>2, <1>3 DEF Confirmed

-----------------------------------------------------------------------------
(* The sending end.                                                        *)

LEMMA RegisterKeeps ==
  ASSUME IInv, NEW frame, Register(frame), UNCHANGED <<receiver, acks, written>>,
         finSeq = -1, frame.seq = nextSeq,
         \/ frame = DataFrame(nextSeq) /\ nextSeq < Len(Input) /\ finSeq' = finSeq
         \/ frame = FinFrame(nextSeq) /\ finSeq' = nextSeq
  PROVE  IInv'
<1>1. /\ nextSeq' = nextSeq + 1 /\ inFlight' = inFlight \cup {frame}
      /\ data' \subseteq data \cup {frame}
      /\ finSeq' = -1 \/ finSeq' = nextSeq
      /\ Len(Input) \in Nat
  BY InputAssumption DEF Register, Transmit
<1>2. UNCHANGED <<expected, pending, stream, remoteFin, eof, read, reader, acks, written>>
  BY DEF receiver
<1>3. Counted'
  BY <1>1, <1>2 DEF IInv, Counted
<1>4. FramesProper'
  <2>1. ASSUME NEW f, Proper(f) PROVE Proper(f)'
    BY <1>1, <2>1 DEF Proper, IInv, Counted
  <2>2. Proper(frame)'
    BY <1>1 DEF Proper, IInv, Counted
  <2>3. QED
    BY <1>1, <1>2, <2>1, <2>2 DEF FramesProper, IInv
<1>5. ~Ended /\ ~Ended'
  BY <1>1, <1>2 DEF Ended, IInv, Counted
<1>6. AcksTrue' /\ Gapped'
  BY <1>2 DEF IInv, AcksTrue, Gapped, Received, Confirmed
<1>7. StreamInOrder' /\ ReaderBehind'
  BY <1>2, <1>5 DEF IInv, StreamInOrder, ReaderBehind
<1>8. FinKnown'
  <2>1. remoteFin = -1
    BY DEF IInv, FinKnown
  <2>2. \A f \in pending : f.seq \in Nat /\ f.seq < nextSeq
    BY DEF IInv, FramesProper, Proper
  <2>3. QED
    BY <1>1, <1>2, <1>5, <2>1, <2>2 DEF IInv, FinKnown, Counted
<1>9. AckedIsReceived'
  BY <1>1, <1>2 DEF IInv, AckedIsReceived, Received, Numbers, Counted
<1>10. (written = "done" => Ended)'
  BY <1>2, <1>5 DEF IInv
<1>11. QED
  BY <1>3, <1>4, <1>6, <1>7, <1>8, <1>9, <1>10 DEF IInv

LEMMA OnAckKeeps ==
  ASSUME IInv, NEW ack \in acks, NEW again \in BOOLEAN, OnAck(ack, again)
  PROVE  IInv'
<1> DEFINE left == {f \in inFlight : ~Confirmed(ack, f.seq)}
<1>1. /\ inFlight' = left /\ acks' \subseteq acks /\ data' \subseteq data \cup inFlight
      /\ UNCHANGED <<nextSeq, finSeq>>
      /\ UNCHANGED <<expected, pending, stream, remoteFin, eof, read, reader>>
      /\ written' = "done" => written = "done" \/ (FinQueued /\ left = {})
  <2>1. inFlight' = left /\ acks' \subseteq acks /\ UNCHANGED <<nextSeq, finSeq>>
    BY DEF OnAck
  <2>2. UNCHANGED <<expected, pending, stream, remoteFin, eof, read, reader>>
    BY DEF OnAck, receiver
  <2>3. data' = data \/ \E lost \in SUBSET left : Transmit(lost)
    BY DEF OnAck
  <2>4. data' \subseteq data \cup inFlight
    BY <2>3 DEF Transmit
  <2>5. written' = "done" => written = "done" \/ (FinQueued /\ left = {})
    BY DEF OnAck
  <2>6. QED
    BY <2>1, <2>2, <2>4, <2>5
<1>2. FramesProper'
  <2>1. \A f : Proper(f) => Proper(f)'
    BY <1>1 DEF Proper
  <2>2. QED
    BY <1>1, <2>1 DEF FramesProper, IInv
<1>3. Counted' /\ Gapped' /\ StreamInOrder' /\ ReaderBehind' /\ FinKnown'
  BY <1>1 DEF IInv, Counted, Gapped, StreamInOrder, ReaderBehind, FinKnown, Ended
<1>4. AcksTrue'
  BY <1>1 DEF IInv, AcksTrue, Received
<1>5. AckedIsReceived'
  <2>1. ASSUME NEW f \in inFlight, f \notin left PROVE Received(f.seq)
    BY <2>1 DEF IInv, AcksTrue, FramesProper, Proper
  <2>2. QED
    BY <1>1, <2>1 DEF IInv, AckedIsReceived, Received, Numbers
<1>6. (written = "done" => Ended)'
  <2>1. CASE FinQueued /\ left = {}
    <3>1. \A n \in 0 .. nextSeq - 1 : Received(n)
      BY <1>1, <1>5, <2>1 DEF AckedIsReceived, Received, Numbers
    <3>2. expected \notin Numbers(pending) /\ expected \in Nat /\ nextSeq \in Nat /\ expected <= nextSeq
      BY DEF IInv, Counted, Gapped, Numbers
    <3>3. expected = nextSeq
      BY <3>1, <3>2 DEF Received
    <3>4. QED
      BY <1>1, <2>1, <3>3 DEF Ended, FinQueued
  <2>2. CASE ~(FinQueued /\ left = {})
    BY <1>1, <2>2 DEF IInv, Ended
  <2>3. QED
    BY <2>1, <2>2
<1>7. QED
  BY <1>2, <1>3, <1>4, <1>5, <1>6 DEF IInv

LEMMA SenderKeeps == IInv /\ SenderStep => IInv'
<1> SUFFICES ASSUME IInv, SenderStep PROVE IInv'
  OBVIOUS
<1>1. CASE Write
  <2>1. CASE Cardinality(inFlight) < Window
    BY <1>1, <2>1, RegisterKeeps DEF Write, DataFrame, FinQueued
  <2>2. CASE ~(Cardinality(inFlight) < Window)
    <3>1. UNCHANGED <<nextSeq, inFlight, finSeq, written, data, acks>>
          /\ UNCHANGED <<expected, pending, stream, remoteFin, eof, read, reader>>
      BY <1>1, <2>2 DEF Write, receiver
    <3>2. QED
      BY <3>1 DEF IInv, Counted, FramesProper, Proper, AcksTrue, Gapped, StreamInOrder, FinKnown,
                  ReaderBehind, AckedIsReceived, Received, Ended
  <2>3. QED
    BY <2>1, <2>2
<1>2. CASE CompleteWriting
  BY <1>2, RegisterKeeps DEF CompleteWriting, FinFrame, FinQueued
<1>3. CASE \E ack \in acks, again \in BOOLEAN : OnAck(ack, again)
  BY <1>3, OnAckKeeps
<1>4. CASE \/ WriteFails \/ AbortSender \/ DisposeSocket
           \/ \E due \in SUBSET inFlight : RetransmitScan(due)
  <2>1. /\ UNCHANGED <<nextSeq, inFlight, finSeq, acks>>
        /\ UNCHANGED <<expected, pending, stream, remoteFin, eof, read, reader>>
        /\ data' \subseteq data \cup inFlight
        /\ written' = "done" => written = "done"
    BY <1>4 DEF WriteFails, AbortSender, DisposeSocket, RetransmitScan, FailSender, Transmit, receiver
  <2>2. QED
    BY <2>1 DEF IInv, Counted, FramesProper, Proper, AcksTrue, Gapped, StreamInOrder, FinKnown,
                ReaderBehind, AckedIsReceived, Received, Ended
<1>5. QED
  BY <1>1, <1>2, <1>3, <1>4 DEF SenderStep

-----------------------------------------------------------------------------
(* The receiving end.                                                      *)

(* A frame in the window, the run it completes up to the first gap, and    *)
(* the number known to be FIN's from then on.                              *)
All(frame) == pending \cup {frame}

FinAfter(frame) ==
  IF frame.type = "fin" /\ (remoteFin = -1 \/ frame.seq < remoteFin) THEN frame.seq ELSE remoteFin

Run(frame, gap) ==
  /\ gap \in Nat /\ expected <= gap
  /\ ~ \E f \in All(frame) : f.seq = gap
  /\ \A n \in Nat : expected <= n /\ n < gap => \E f \in All(frame) : f.seq = n

Rest(frame, gap) == {f \in All(frame) : f.seq >= gap}
Ends(frame, gap) == \E f \in All(frame) \ Rest(frame, gap) : f.payload = ""
Count(frame, gap) == gap - expected - (IF Ends(frame, gap) THEN 1 ELSE 0)
More(frame, gap) ==
  [i \in 1 .. Count(frame, gap) |-> PayloadOf(All(frame), expected + i - 1)]

LEMMA AbsorbIsRun ==
  ASSUME IInv, NEW frame \in data, NEW again \in BOOLEAN, OnFrame(frame, again),
         InWindow(frame.seq)
  PROVE  /\ data' \subseteq data /\ remoteFin' = FinAfter(frame)
         /\ UNCHANGED <<nextSeq, inFlight, finSeq, written, read, reader>>
         /\ \E gap : /\ Run(frame, gap)
                     /\ expected' = gap /\ pending' = Rest(frame, gap)
                     /\ stream' = stream \o More(frame, gap)
                     /\ permits' = permits + Count(frame, gap)
                     /\ eof' <=> eof \/ FinAfter(frame) \in expected .. gap - 1
                     /\ SendAck(AckOf(gap, Rest(frame, gap)))
<1>1. /\ data' \subseteq data /\ remoteFin' = FinAfter(frame)
      /\ UNCHANGED <<nextSeq, inFlight, finSeq, written, read, reader>>
      /\ Absorb(frame, FinAfter(frame))
  BY DEF OnFrame, sender, FinAfter
<1>2. PICK gap \in expected .. expected + Window :
         /\ gap \notin Numbers(All(frame))
         /\ \A n \in expected .. gap - 1 : n \in Numbers(All(frame))
         /\ expected' = gap /\ pending' = Rest(frame, gap)
         /\ stream' = stream \o More(frame, gap)
         /\ permits' = permits + Count(frame, gap)
         /\ eof' = (eof \/ FinAfter(frame) \in expected .. gap - 1)
         /\ SendAck(AckOf(gap, Rest(frame, gap)))
  BY <1>1 DEF Absorb, All, Rest, Ends, Count, More, Released
<1>3. expected \in Nat /\ Window \in Nat
  BY WindowAssumption DEF IInv, Counted
<1>4. gap \in Nat /\ expected <= gap
  BY ONLY <1>3, gap \in expected .. expected + Window
<1>5. Run(frame, gap)
  <2>1. \A n \in Nat : expected <= n /\ n < gap => n \in Numbers(All(frame))
    BY <1>2, <1>3, <1>4
  <2>2. QED
    BY <1>2, <1>4, <2>1 DEF Run, Numbers
<1>6. QED
  BY <1>1, <1>2, <1>5

(* Where the run ends, and what it and the number of FIN have to do with   *)
(* each other.                                                             *)
LEMMA RunFacts ==
  ASSUME IInv, NEW frame \in data, InWindow(frame.seq), NEW gap, Run(frame, gap)
  PROVE  /\ \A f \in All(frame) : Proper(f) /\ f.seq >= expected /\ f.seq < nextSeq
         /\ gap <= nextSeq
         /\ ~eof /\ ~Ended /\ expected < nextSeq
<1>1. expected \in Nat /\ nextSeq \in Nat /\ expected <= nextSeq
  BY DEF IInv, Counted
<1>2. ASSUME NEW f \in All(frame) PROVE Proper(f) /\ f.seq \in Nat /\ f.seq >= expected /\ f.seq < nextSeq
  <2>1. Proper(f)
    BY <1>2 DEF All, IInv, FramesProper
  <2>2. f.seq \in Nat /\ f.seq < nextSeq
    BY <2>1 DEF Proper
  <2>3. CASE f \in pending
    BY <1>1, <2>1, <2>2, <2>3 DEF IInv, Gapped
  <2>4. CASE f = frame
    BY <1>1, <2>1, <2>2, <2>4 DEF InWindow
  <2>5. QED
    BY <1>2, <2>3, <2>4 DEF All
<1>3. gap <= nextSeq
  <2>1. gap \in Nat /\ expected <= gap
    BY DEF Run
  <2>2. CASE gap = expected
    BY <1>1, <2>2
  <2>3. CASE gap # expected
    <3>1. \E f \in All(frame) : f.seq = gap - 1
      BY <1>1, <2>1, <2>3 DEF Run
    <3>2. QED
      BY <1>1, <1>2, <2>1, <3>1
  <2>4. QED
    BY <2>2, <2>3
<1>4. expected < nextSeq
  <2>1. frame \in All(frame)
    BY DEF All
  <2>2. QED
    BY <1>1, <1>2, <2>1
<1>5. ~Ended /\ ~eof
  BY <1>1, <1>4 DEF Ended, IInv, FinKnown
<1>6. QED
  BY <1>2, <1>3, <1>4, <1>5

LEMMA FinFacts ==
  ASSUME IInv, NEW frame \in data, InWindow(frame.seq), NEW gap, Run(frame, gap)
  PROVE  /\ FinAfter(frame) = -1 \/ FinAfter(frame) = finSeq
         /\ \A f \in All(frame) : f.seq = finSeq => FinAfter(frame) = finSeq
         /\ Ends(frame, gap) <=> finSeq # -1 /\ gap = nextSeq
         /\ FinAfter(frame) \in expected .. gap - 1 <=> Ends(frame, gap)
<1>1. \A f \in All(frame) : Proper(f)
  BY RunFacts
<1>2. expected \in Nat /\ nextSeq \in Nat /\ gap \in Nat /\ finSeq \in Int
  BY DEF IInv, Counted, Run
<1>3. expected <= gap /\ gap <= nextSeq /\ expected < nextSeq
  BY RunFacts DEF Run
<1>4. finSeq # -1 => nextSeq = finSeq + 1
  BY DEF IInv, Counted
<1>5. \A f \in All(frame) : f.seq \in Nat /\ f.seq >= expected
  BY <1>1, RunFacts DEF Proper
<1>6. ASSUME NEW f \in All(frame)
      PROVE  /\ f.seq = finSeq => f.type = "fin" /\ f.payload = ""
             /\ f.seq # finSeq => f.type # "fin" /\ f.payload # ""
  <2>1. CASE f.seq = finSeq
    <3>1. f = FinFrame(f.seq)
      BY <1>1, <2>1 DEF Proper
    <3>2. FinFrame(f.seq).type = "fin" /\ FinFrame(f.seq).payload = ""
      BY DEF FinFrame
    <3>3. QED
      BY <2>1, <3>1, <3>2
  <2>2. CASE f.seq # finSeq
    <3>1. f = DataFrame(f.seq) /\ f.seq < Len(Input)
      BY <1>1, <2>2 DEF Proper
    <3>2. f.seq + 1 \in 1 .. Len(Input)
      BY <1>5, <3>1, InputAssumption
    <3>3. Input[f.seq + 1] # ""
      BY <3>2, ChunkAssumption
    <3>4. f.type = "data" /\ f.payload = Input[f.seq + 1]
      BY <3>1 DEF DataFrame
    <3>5. QED
      BY <2>2, <3>3, <3>4
  <2>3. QED
    BY <2>1, <2>2
<1>7. frame \in All(frame)
  BY DEF All
<1>8. FinAfter(frame) = -1 \/ FinAfter(frame) = finSeq
  <2>1. remoteFin = -1 \/ remoteFin = finSeq
    BY DEF IInv, FinKnown
  <2>2. frame.type = "fin" => frame.seq = finSeq
    BY <1>6, <1>7
  <2>3. QED
    BY <2>1, <2>2 DEF FinAfter
<1>9. \A f \in All(frame) : f.seq = finSeq => FinAfter(frame) = finSeq
  <2>1. ASSUME NEW f \in pending, f.seq = finSeq PROVE FinAfter(frame) = finSeq
    <3>1. remoteFin = finSeq /\ finSeq \in Nat
      BY <1>5, <2>1 DEF IInv, FinKnown, All
    <3>2. QED
      BY <1>5, <1>7, <1>8, <3>1 DEF FinAfter
  <2>2. ASSUME frame.seq = finSeq PROVE FinAfter(frame) = finSeq
    <3>1. frame.type = "fin" /\ (remoteFin = -1 \/ remoteFin = finSeq)
      BY <1>6, <1>7, <2>2 DEF IInv, FinKnown
    <3>2. QED
      BY <2>2, <3>1 DEF FinAfter
  <2>3. QED
    BY <2>1, <2>2 DEF All
<1>10. Ends(frame, gap) => \E f \in All(frame) : f.seq < gap /\ f.seq = finSeq
  <2> SUFFICES ASSUME Ends(frame, gap) PROVE \E f \in All(frame) : f.seq < gap /\ f.seq = finSeq
    OBVIOUS
  <2>1. PICK f \in All(frame) : f \notin Rest(frame, gap) /\ f.payload = ""
    BY DEF Ends
  <2>2. ~(f.seq >= gap)
    BY <2>1 DEF Rest
  <2>3. f.seq = finSeq
    BY <1>6, <2>1
  <2>4. QED
    BY <1>2, <1>5, <2>2, <2>3
<1>11. (\E f \in All(frame) : f.seq < gap /\ f.seq = finSeq) => Ends(frame, gap)
  <2> SUFFICES ASSUME NEW f \in All(frame), f.seq < gap, f.seq = finSeq PROVE Ends(frame, gap)
    OBVIOUS
  <2>1. ~(f.seq >= gap)
    BY <1>2, <1>5
  <2>2. f.payload = ""
    BY <1>6
  <2>3. QED
    BY <2>1, <2>2 DEF Ends, Rest
<1>12. finSeq # -1 /\ gap = nextSeq => \E f \in All(frame) : f.seq < gap /\ f.seq = finSeq
  <2> SUFFICES ASSUME finSeq # -1, gap = nextSeq
               PROVE  \E f \in All(frame) : f.seq < gap /\ f.seq = finSeq
    OBVIOUS
  <2>1. finSeq \in Nat /\ expected <= finSeq /\ finSeq < gap
    BY <1>2, <1>3, <1>4
  <2>2. QED
    BY <2>1 DEF Run
<1>13. (\E f \in All(frame) : f.seq < gap /\ f.seq = finSeq) => finSeq # -1 /\ gap = nextSeq
  BY <1>2, <1>3, <1>4, <1>5
<1>14. Ends(frame, gap) <=> finSeq # -1 /\ gap = nextSeq
  BY <1>10, <1>11, <1>12, <1>13
<1>15. FinAfter(frame) \in expected .. gap - 1 <=> Ends(frame, gap)
  <2>1. ASSUME FinAfter(frame) \in expected .. gap - 1 PROVE finSeq # -1 /\ gap = nextSeq
    BY <1>2, <1>3, <1>4, <1>8, <2>1
  <2>2. ASSUME NEW f \in All(frame), f.seq < gap, f.seq = finSeq
        PROVE  FinAfter(frame) \in expected .. gap - 1
    BY <1>2, <1>3, <1>5, <1>9, <2>2
  <2>3. QED
    BY <1>10, <1>14, <2>1, <2>2
<1>16. QED
  BY <1>8, <1>9, <1>14, <1>15

(* What is handed up continues the input.                                  *)
LEMMA MoreFacts ==
  ASSUME IInv, NEW frame \in data, InWindow(frame.seq), NEW gap, Run(frame, gap)
  PROVE  /\ Count(frame, gap) \in Nat
         /\ Count(frame, gap) = (IF Ends(frame, gap) THEN finSeq ELSE gap) - expected
         /\ expected + Count(frame, gap) <= Len(Input)
         /\ More(frame, gap) \in Seq(STRING)
         /\ Len(More(frame, gap)) = Count(frame, gap)
         /\ \A i \in 1 .. Count(frame, gap) : More(frame, gap)[i] = Input[expected + i]
<1> DEFINE count == Count(frame, gap)
<1>1. expected \in Nat /\ nextSeq \in Nat /\ gap \in Nat /\ finSeq \in Int /\ Len(Input) \in Nat
  BY InputAssumption DEF IInv, Counted, Run
<1>2. /\ expected <= gap /\ gap <= nextSeq /\ expected < nextSeq
      /\ finSeq # -1 => nextSeq = finSeq + 1
      /\ expected <= Len(Input)
  <2>1. ~Ended /\ expected <= gap /\ gap <= nextSeq /\ expected < nextSeq
    BY RunFacts DEF Run
  <2>2. expected = Len(stream) /\ Len(stream) <= Len(Input)
    BY <2>1 DEF IInv, StreamInOrder
  <2>3. finSeq # -1 => nextSeq = finSeq + 1
    BY DEF IInv, Counted
  <2>4. QED
    BY <2>1, <2>2, <2>3
<1>3. Ends(frame, gap) <=> finSeq # -1 /\ gap = nextSeq
  BY FinFacts
<1>4. count = (IF Ends(frame, gap) THEN finSeq ELSE gap) - expected /\ count \in Nat
  BY <1>1, <1>2, <1>3 DEF Count
<1> HIDE DEF count
<1>5. ASSUME NEW n \in Nat, expected <= n, n < expected + count
      PROVE  PayloadOf(All(frame), n) = Input[n + 1] /\ n < Len(Input)
  <2> DEFINE g == CHOOSE f \in All(frame) : f.seq = n
  <2>1. n < gap /\ n # finSeq
    BY <1>1, <1>2, <1>3, <1>4, <1>5
  <2>2. \E f \in All(frame) : f.seq = n
    BY <1>5, <2>1 DEF Run
  <2>3. g \in All(frame) /\ g.seq = n
    BY <2>2
  <2>4. PayloadOf(All(frame), n) = g.payload
    BY DEF PayloadOf
  <2> HIDE DEF g
  <2>5. Proper(g)
    BY <2>3, RunFacts
  <2>6. g = DataFrame(n) /\ n < Len(Input)
    BY <2>1, <2>3, <2>5 DEF Proper
  <2>7. QED
    BY <2>4, <2>6 DEF DataFrame
<1>6. expected + count <= Len(Input)
  <2>1. CASE count = 0
    BY <1>1, <1>2, <2>1
  <2>2. CASE count # 0
    <3>1. expected + count - 1 \in Nat /\ expected <= expected + count - 1
          /\ expected + count - 1 < expected + count
      BY <1>1, <1>4, <2>2
    <3>2. expected + count - 1 < Len(Input)
      BY <1>5, <3>1
    <3>3. QED
      BY <1>1, <1>4, <3>2
  <2>3. QED
    BY <2>1, <2>2
<1>7. \A i \in 1 .. count : /\ PayloadOf(All(frame), expected + i - 1) = Input[expected + i]
                           /\ expected + i \in 1 .. Len(Input)
  <2> SUFFICES ASSUME NEW i \in 1 .. count
               PROVE  /\ PayloadOf(All(frame), expected + i - 1) = Input[expected + i]
                      /\ expected + i \in 1 .. Len(Input)
    OBVIOUS
  <2>1. /\ expected + i - 1 \in Nat /\ expected <= expected + i - 1
        /\ expected + i - 1 < expected + count /\ (expected + i - 1) + 1 = expected + i
    BY <1>1, <1>4
  <2>2. PayloadOf(All(frame), expected + i - 1) = Input[(expected + i - 1) + 1]
        /\ expected + i - 1 < Len(Input)
    BY <1>5, <2>1
  <2>3. QED
    BY <1>1, <2>1, <2>2
<1>8. \A i \in 1 .. count : PayloadOf(All(frame), expected + i - 1) \in STRING
  BY <1>7, InputAssumption, ElementOfSeq
<1>9. More(frame, gap) = [i \in 1 .. count |-> PayloadOf(All(frame), expected + i - 1)]
  BY DEF More, count
<1>10. More(frame, gap) \in Seq(STRING) /\ Len(More(frame, gap)) = count
  BY <1>4, <1>8, <1>9
<1>11. \A i \in 1 .. count : More(frame, gap)[i] = Input[expected + i]
  BY <1>7, <1>9
<1>12. QED
  BY <1>4, <1>6, <1>10, <1>11 DEF count

LEMMA AbsorbKeeps ==
  ASSUME IInv, NEW frame \in data, NEW again \in BOOLEAN, OnFrame(frame, again),
         InWindow(frame.seq)
  PROVE  IInv'
<1>1. /\ data' \subseteq data /\ remoteFin' = FinAfter(frame)
      /\ UNCHANGED <<nextSeq, inFlight, finSeq, written, read, reader>>
  BY AbsorbIsRun
<1>2. PICK gap : /\ Run(frame, gap)
                 /\ expected' = gap /\ pending' = Rest(frame, gap)
                 /\ stream' = stream \o More(frame, gap)
                 /\ eof' <=> eof \/ FinAfter(frame) \in expected .. gap - 1
                 /\ SendAck(AckOf(gap, Rest(frame, gap)))
  BY AbsorbIsRun
<1>3. expected \in Nat /\ nextSeq \in Nat /\ gap \in Nat /\ finSeq \in Int /\ Len(Input) \in Nat
  BY <1>2, InputAssumption DEF IInv, Counted, Run
<1>4. /\ \A f \in All(frame) : Proper(f) /\ f.seq >= expected /\ f.seq < nextSeq
      /\ expected <= gap /\ gap <= nextSeq /\ expected < nextSeq
      /\ ~eof /\ ~Ended
      /\ nextSeq <= Len(Input) + 1
  BY <1>2, RunFacts DEF Run, IInv, Counted
<1>5. \A f \in All(frame) : f.seq \in Nat
  BY <1>4 DEF Proper
<1>6. Counted'
  BY <1>1, <1>2, <1>3, <1>4 DEF IInv, Counted
<1>7. Gapped'
  <2>1. \A f \in Rest(frame, gap) : f.seq > gap
    BY <1>2, <1>3, <1>5 DEF Rest, Run
  <2>2. QED
    BY <1>2, <2>1 DEF Gapped
<1>8. FramesProper'
  <2>1. \A f : Proper(f) => Proper(f)'
    BY <1>1 DEF Proper
  <2>2. \A f \in pending' : Proper(f)
    BY <1>2, <1>4 DEF Rest
  <2>3. \A f \in inFlight' \cup data' : Proper(f)
    BY <1>1 DEF IInv, FramesProper
  <2>4. QED
    BY <2>1, <2>2, <2>3 DEF FramesProper
<1>9. \A n \in Nat : Received(n) => Received(n)'
  <2> SUFFICES ASSUME NEW n \in Nat, Received(n)
               PROVE  n < gap \/ n \in Numbers(Rest(frame, gap))
    BY <1>2 DEF Received
  <2>1. CASE n < expected
    BY <1>3, <1>4, <2>1
  <2>2. CASE n \in Numbers(pending)
    <3>1. PICK f \in pending : f.seq = n
      BY <2>2 DEF Numbers
    <3>2. CASE n < gap
      BY <3>2
    <3>3. CASE n >= gap
      BY <3>1, <3>3 DEF Rest, All, Numbers
    <3>4. QED
      BY <1>3, <3>2, <3>3
  <2>3. QED
    BY <2>1, <2>2 DEF Received
<1>10. AckedIsReceived'
  <2>1. \A n \in 0 .. nextSeq - 1 : n \in Numbers(inFlight') \/ Received(n)'
    BY <1>1, <1>3, <1>9 DEF IInv, AckedIsReceived
  <2>2. QED
    BY <1>1, <2>1 DEF AckedIsReceived, Numbers
<1>11. AcksTrue'
  <2>1. \A f \in Rest(frame, gap) : f.seq \in Nat /\ f.seq <= Len(Input)
    BY <1>3, <1>4, <1>5 DEF Rest
  <2>2. \A n \in Nat : Confirmed(AckOf(gap, Rest(frame, gap)), n) => Received(n)'
    BY <1>2, <1>3, <2>1, AckOfTrue DEF Received
  <2>3. acks' \subseteq acks \cup {AckOf(gap, Rest(frame, gap))}
    BY <1>2 DEF SendAck
  <2>4. QED
    BY <1>9, <2>2, <2>3 DEF IInv, AcksTrue
<1>12. /\ FinAfter(frame) = -1 \/ FinAfter(frame) = finSeq
       /\ \A f \in All(frame) : f.seq = finSeq => FinAfter(frame) = finSeq
       /\ Ends(frame, gap) <=> finSeq # -1 /\ gap = nextSeq
       /\ FinAfter(frame) \in expected .. gap - 1 <=> Ends(frame, gap)
  BY <1>2, FinFacts
<1>13. (Ended' <=> Ends(frame, gap)) /\ (eof' <=> Ends(frame, gap))
  BY <1>1, <1>2, <1>4, <1>12 DEF Ended
<1>14. FinKnown'
  <2>1. \A f \in Rest(frame, gap) : f.seq = finSeq => FinAfter(frame) = finSeq
    BY <1>12 DEF Rest
  <2>2. QED
    BY <1>1, <1>2, <1>12, <1>13, <2>1 DEF FinKnown
<1> DEFINE count == Count(frame, gap)
           more  == More(frame, gap)
<1>15. /\ count \in Nat
       /\ count = (IF Ends(frame, gap) THEN finSeq ELSE gap) - expected
       /\ expected + count <= Len(Input)
       /\ more \in Seq(STRING) /\ Len(more) = count
       /\ \A i \in 1 .. count : more[i] = Input[expected + i]
  BY <1>2, MoreFacts
<1> HIDE DEF count
<1>16. /\ stream \in Seq(STRING) /\ Len(stream) = expected
       /\ \A i \in 1 .. expected : stream[i] = Input[i]
  <2>1. Len(stream) = expected
    BY <1>4 DEF IInv, StreamInOrder
  <2>2. QED
    BY <2>1 DEF IInv, StreamInOrder
<1>17. stream' = stream \o more
  BY <1>2
<1> HIDE DEF more
<1>18. stream' \in Seq(STRING) /\ Len(stream') = expected + count
  <2>1. stream \o more \in Seq(STRING) /\ Len(stream \o more) = Len(stream) + Len(more)
    BY <1>15, <1>16, ConcatProperties
  <2>2. QED
    BY <1>15, <1>16, <1>17, <2>1
<1>19. \A i \in 1 .. expected + count : stream'[i] = Input[i]
  <2> SUFFICES ASSUME NEW i \in 1 .. expected + count PROVE stream'[i] = Input[i]
    OBVIOUS
  <2>1. i \in 1 .. Len(stream) + Len(more)
    BY <1>3, <1>15, <1>16
  <2>2. (stream \o more)[i] = IF i <= Len(stream) THEN stream[i] ELSE more[i - Len(stream)]
    BY <1>15, <1>16, <2>1, ConcatProperties
  <2>3. CASE i <= expected
    <3>1. i \in 1 .. expected
      BY <1>3, <1>15, <2>3
    <3>2. QED
      BY <1>16, <1>17, <2>2, <2>3, <3>1
  <2>4. CASE ~(i <= expected)
    <3>1. i - expected \in 1 .. count /\ expected + (i - expected) = i
      BY <1>3, <1>15, <2>4
    <3>2. QED
      BY <1>15, <1>16, <1>17, <2>2, <2>4, <3>1
  <2>5. QED
    BY <2>3, <2>4
<1>20. StreamInOrder'
  <2>1. Ended' => Len(stream') = finSeq'
    BY <1>1, <1>3, <1>13, <1>15, <1>18
  <2>2. ~Ended' => Len(stream') = expected'
    BY <1>2, <1>3, <1>13, <1>15, <1>18
  <2>3. QED
    BY <1>15, <1>18, <1>19, <2>1, <2>2 DEF StreamInOrder
<1>21. ReaderBehind'
  <2>1. read \in Nat /\ read <= Len(stream) /\ reader # "eof"
    BY <1>4 DEF IInv, ReaderBehind
  <2>2. read <= Len(stream')
    BY <1>3, <1>15, <1>16, <1>18, <2>1
  <2>3. QED
    BY <1>1, <2>1, <2>2 DEF ReaderBehind
<1>22. written' # "done"
  BY <1>1, <1>4 DEF IInv
<1>23. QED
  BY <1>6, <1>7, <1>8, <1>10, <1>11, <1>14, <1>20, <1>21, <1>22 DEF IInv

LEMMA OnFrameKeeps ==
  ASSUME IInv, NEW frame \in data, NEW again \in BOOLEAN, OnFrame(frame, again)
  PROVE  IInv'
<1>1. CASE InWindow(frame.seq)
  BY <1>1, AbsorbKeeps
<1>2. CASE ~InWindow(frame.seq)
  <2>1. /\ data' \subseteq data /\ remoteFin' = FinAfter(frame)
        /\ UNCHANGED <<nextSeq, inFlight, finSeq, written, read, reader>>
        /\ UNCHANGED <<expected, pending, stream, eof>>
        /\ SendAck(AckOf(expected, pending))
    BY <1>2 DEF OnFrame, sender, FinAfter, Absorb
  <2>2. expected \in Nat /\ Len(Input) \in Nat /\ nextSeq <= Len(Input) + 1
    BY InputAssumption DEF IInv, Counted
  <2>3. \A f \in pending \cup data : Proper(f)
    BY DEF IInv, FramesProper
  <2>4. AcksTrue'
    <3>1. \A f \in pending : f.seq \in Nat /\ f.seq <= Len(Input)
      BY <2>2, <2>3 DEF Proper, IInv, Counted
    <3>2. \A n \in Nat : Confirmed(AckOf(expected, pending), n) => Received(n)
      BY <2>2, <3>1, AckOfTrue DEF Received
    <3>3. acks' \subseteq acks \cup {AckOf(expected, pending)}
      BY <2>1 DEF SendAck
    <3>4. QED
      BY <2>1, <3>2, <3>3 DEF IInv, AcksTrue, Received
  <2>5. FinAfter(frame) = -1 \/ FinAfter(frame) = finSeq
    <3>1. frame.type = "fin" => frame.seq = finSeq
      BY <2>3 DEF Proper, DataFrame
    <3>2. QED
      BY <3>1 DEF FinAfter, IInv, FinKnown
  <2>6. FinKnown'
    <3>1. \A f \in pending : f.seq = finSeq => FinAfter(frame) = finSeq
      <4> SUFFICES ASSUME NEW f \in pending, f.seq = finSeq PROVE FinAfter(frame) = finSeq
        OBVIOUS
      <4>1. remoteFin = finSeq /\ finSeq \in Nat /\ frame.seq \in Nat
        BY <2>3 DEF IInv, FinKnown, Proper
      <4>2. QED
        BY <2>5, <4>1 DEF FinAfter
    <3>2. QED
      BY <2>1, <2>5, <3>1 DEF IInv, FinKnown, Ended
  <2>7. Counted' /\ Gapped' /\ StreamInOrder' /\ ReaderBehind' /\ (written = "done" => Ended)'
    BY <2>1 DEF IInv, Counted, Gapped, StreamInOrder, ReaderBehind, Ended
  <2>8. FramesProper' /\ AckedIsReceived'
    BY <2>1 DEF IInv, FramesProper, Proper, AckedIsReceived, Received
  <2>9. QED
    BY <2>4, <2>6, <2>7, <2>8 DEF IInv
<1>3. QED
  BY <1>1, <1>2

(* Reading, waking and losing: nothing but the reader's place in the       *)
(* stream moves, and it stays within it.                                   *)
LEMMA ReadKeeps ==
  ASSUME IInv, Read \/ Wake \/ AbortReceiver \/ Lose
  PROVE  IInv'
<1>1. /\ UNCHANGED <<nextSeq, inFlight, finSeq, written>>
      /\ UNCHANGED <<expected, pending, stream, remoteFin, eof>>
      /\ data' \subseteq data /\ acks' \subseteq acks
  BY DEF Read, Wake, AbortReceiver, Lose, sender, receiver
<1>2. ReaderBehind'
  <2>1. read \in Nat /\ Len(stream) \in Nat /\ read <= Len(stream)
    BY DEF IInv, ReaderBehind, StreamInOrder
  <2>2. CASE Read
    <3>1. read' \in Nat /\ read' <= Len(stream)
      BY <2>1, <2>2 DEF Read
    <3>2. reader' = "eof" => eof /\ ~(read < Len(stream)) /\ read' = read
      BY <2>2 DEF Read
    <3>3. QED
      BY <1>1, <2>1, <3>1, <3>2 DEF IInv, FinKnown, ReaderBehind, Ended
  <2>3. CASE Wake \/ AbortReceiver \/ Lose
    <3>1. read' = read /\ (reader' = reader \/ reader' = "ready")
      BY <2>3 DEF Wake, AbortReceiver, Lose, receiver
    <3>2. QED
      BY <1>1, <3>1 DEF IInv, ReaderBehind, Ended
  <2>4. QED
    BY <2>2, <2>3
<1>3. Counted' /\ Gapped' /\ StreamInOrder' /\ FinKnown' /\ (written = "done" => Ended)'
  BY <1>1 DEF IInv, Counted, Gapped, StreamInOrder, FinKnown, Ended
<1>4. FramesProper' /\ AcksTrue' /\ AckedIsReceived'
  BY <1>1 DEF IInv, FramesProper, Proper, AcksTrue, AckedIsReceived, Received
<1>5. QED
  BY <1>2, <1>3, <1>4 DEF IInv

-----------------------------------------------------------------------------
LEMMA NextIInv == IInv /\ [Next]_vars => IInv'
<1> SUFFICES ASSUME IInv, [Next]_vars PROVE IInv'
  OBVIOUS
<1>1. CASE SenderStep
  BY <1>1, SenderKeeps
<1>2. CASE \E frame \in data, again \in BOOLEAN : OnFrame(frame, again)
  BY <1>2, OnFrameKeeps
<1>3. CASE Read \/ Wake \/ AbortReceiver \/ Lose
  BY <1>3, ReadKeeps
<1>4. CASE UNCHANGED vars
  <2>1. /\ UNCHANGED <<nextSeq, inFlight, finSeq, written>>
        /\ UNCHANGED <<expected, pending, stream, remoteFin, eof, read, reader, data, acks>>
    BY <1>4 DEF vars, sender, receiver
  <2>2. QED
    BY <2>1 DEF IInv, Counted, FramesProper, Proper, AcksTrue, Gapped, StreamInOrder, FinKnown,
                ReaderBehind, AckedIsReceived, Received, Ended
<1>5. QED
  BY <1>1, <1>2, <1>3, <1>4 DEF Next, ReceiverStep

(* Frames, acknowledgements and both ends fit together in every reachable  *)
(* state, whatever the network loses, repeats or reorders.                 *)
THEOREM Invariance == Spec => []IInv
<1>1. Init => IInv
  BY InitIInv
<1>2. IInv /\ [Next]_vars => IInv'
  BY NextIInv
<1>3. QED
  BY <1>1, <1>2, PTL DEF Spec

(* However the network loses, repeats, delays and reorders: a frame that   *)
(* the sending end no longer holds for resending has been received.        *)
THEOREM AckedStaysReceived == Spec => []AckedIsReceived
<1>1. IInv => AckedIsReceived
  BY DEF IInv
<1>2. QED
  BY <1>1, Invariance, PTL

(* When Written has completed, the receiving end has handed up everything  *)
(* that was written, and knows it to be all.                               *)
THEOREM WrittenMeansDelivered == Spec => []WrittenIsDelivered
<1>1. IInv => WrittenIsDelivered
  BY DEF IInv, WrittenIsDelivered, FinKnown, StreamInOrder, Ended
<1>2. QED
  BY <1>1, Invariance, PTL

-----------------------------------------------------------------------------
(* No wakeup is lost: permits are added with the chunks, in equal number,  *)
(* and a reader starts to wait only with nothing unread.                   *)
WInv == permits \in Nat /\ NoLostWakeup

LEMMA AbsorbWakes ==
  ASSUME IInv, WInv, NEW frame \in data, NEW again \in BOOLEAN, OnFrame(frame, again)
  PROVE  WInv'
<1>1. UNCHANGED <<read, reader, rcvFailed>> /\ Absorb(frame, FinAfter(frame))
  BY DEF OnFrame, FinAfter
<1>2. permits \in Nat /\ read \in Nat /\ Len(stream) \in Nat
  BY DEF WInv, IInv, ReaderBehind, StreamInOrder
<1>3. CASE InWindow(frame.seq)
  <2>1. PICK gap : /\ Run(frame, gap)
                   /\ stream' = stream \o More(frame, gap)
                   /\ permits' = permits + Count(frame, gap)
    BY <1>3, AbsorbIsRun
  <2>2. /\ Count(frame, gap) \in Nat /\ More(frame, gap) \in Seq(STRING)
        /\ Len(More(frame, gap)) = Count(frame, gap)
    BY <1>3, <2>1, MoreFacts
  <2>3. Len(stream') = Len(stream) + Count(frame, gap)
    <3>1. stream \in Seq(STRING)
      BY DEF IInv, StreamInOrder
    <3>2. Len(stream \o More(frame, gap)) = Len(stream) + Len(More(frame, gap))
      BY <2>2, <3>1, ConcatProperties
    <3>3. QED
      BY <2>1, <2>2, <3>2
  <2>4. QED
    BY <1>1, <1>2, <2>1, <2>2, <2>3 DEF WInv, NoLostWakeup
<1>4. CASE ~InWindow(frame.seq)
  BY <1>1, <1>4 DEF Absorb, WInv, NoLostWakeup
<1>5. QED
  BY <1>3, <1>4

LEMMA NextWakes == IInv /\ WInv /\ [Next]_vars => WInv'
<1> SUFFICES ASSUME IInv, WInv, [Next]_vars PROVE WInv'
  OBVIOUS
<1>1. permits \in Nat /\ read \in Nat /\ Len(stream) \in Nat /\ read <= Len(stream)
  BY DEF WInv, IInv, ReaderBehind, StreamInOrder
<1>2. CASE SenderStep \/ Lose \/ UNCHANGED vars
  <2>1. UNCHANGED <<permits, read, reader, stream, rcvFailed>>
    BY <1>2 DEF SenderStep, Write, WriteFails, CompleteWriting, AbortSender, DisposeSocket,
                OnAck, RetransmitScan, Lose, vars, receiver
  <2>2. QED
    BY <2>1 DEF WInv, NoLostWakeup
<1>3. CASE \E frame \in data, again \in BOOLEAN : OnFrame(frame, again)
  BY <1>3, AbsorbWakes
<1>4. CASE Read
  <2>1. UNCHANGED <<permits, stream, rcvFailed>>
    BY <1>4 DEF Read
  <2>2. CASE rcvFailed \/ read < Len(stream) \/ eof
    BY <1>4, <2>1, <2>2 DEF Read, WInv, NoLostWakeup
  <2>3. CASE ~rcvFailed /\ ~(read < Len(stream)) /\ ~eof
    <3>1. read' = read /\ permits' = permits /\ stream' = stream /\ ~rcvFailed'
      BY <1>4, <2>1, <2>3 DEF Read
    <3>2. Len(stream) - read = 0
      BY <1>1, <2>3
    <3>3. permits' >= Len(stream') - read' + (IF rcvFailed' THEN 1 ELSE 0)
      BY <1>1, <3>1, <3>2
    <3>4. QED
      BY <1>1, <3>1, <3>3 DEF WInv, NoLostWakeup
  <2>4. QED
    BY <2>2, <2>3
<1>5. CASE AbortReceiver
  <2>1. permits' = permits + 1 /\ ~rcvFailed /\ rcvFailed' /\ UNCHANGED <<read, stream, reader>>
    BY <1>5 DEF AbortReceiver
  <2>2. QED
    BY <1>1, <2>1 DEF WInv, NoLostWakeup
<1>6. CASE Wake
  <2>1. permits' = permits - 1 /\ permits > 0 /\ reader' = "ready"
    BY <1>6 DEF Wake
  <2>2. QED
    BY <1>1, <2>1 DEF WInv, NoLostWakeup
<1>7. QED
  BY <1>2, <1>3, <1>4, <1>5, <1>6 DEF Next, ReceiverStep

(* Whatever arrives and however much of it becomes readable at once, a     *)
(* reader never waits with an unread chunk or a failure it has no permit   *)
(* for.                                                                    *)
THEOREM ReaderIsWoken == Spec => []NoLostWakeup
<1>1. Init => WInv
  BY DEF Init, WInv, NoLostWakeup
<1>2. IInv /\ WInv /\ [Next]_vars => WInv'
  BY NextWakes
<1>3. WInv => NoLostWakeup
  BY DEF WInv
<1>4. QED
  BY <1>1, <1>2, <1>3, Invariance, PTL DEF Spec

-----------------------------------------------------------------------------
(* Types. Frames and numbers are as the invariant says; what is left are   *)
(* the counters of resends, of repeated acknowledgements and of permits.   *)
Permits == Len(stream) + (IF rcvFailed THEN 1 ELSE 0)

SenderTypes ==
  /\ retries \in [Seqs -> 0 .. MaxRetransmits]
  /\ lastCum \in -1 .. Len(Input) + 1 /\ dups \in 0 .. DupAcks /\ fastRtx \in -1 .. Len(Input) + 1
  /\ writer \in {"ready", "blocked", "failed"} /\ written \in {"pending", "done", "failed"}
  /\ sndFailed \in BOOLEAN /\ scanning \in BOOLEAN /\ socket \in BOOLEAN

ReceiverTypes ==
  /\ eof \in BOOLEAN /\ rcvFailed \in BOOLEAN /\ permits \in Nat /\ permits <= Permits
  /\ reader \in {"ready", "waiting", "eof", "failed"}

Typed == SenderTypes /\ ReceiverTypes /\ acks \subseteq Ack

(* An acknowledgement of a number up to the end of the input is an Ack.    *)
LEMMA AckIsTyped ==
  ASSUME acks \subseteq Ack, NEW n \in 0 .. Len(Input) + 1, NEW frames, SendAck(AckOf(n, frames))
  PROVE  acks' \subseteq Ack
BY DEF SendAck, AckOf, Ack

LEMMA SenderTyped ==
  ASSUME IInv, Typed, SenderStep
  PROVE  Typed'
<1>1. Len(Input) \in Nat /\ MaxRetransmits \in Nat /\ DupAcks \in Nat \ {0}
  BY InputAssumption, RetryAssumption
<1>2. SenderTypes /\ ReceiverTypes /\ acks \subseteq Ack
  BY DEF Typed
<1>3. UNCHANGED receiver
  BY DEF SenderStep, Write, WriteFails, CompleteWriting, AbortSender, DisposeSocket, OnAck,
         RetransmitScan
<1>4. ReceiverTypes'
  BY <1>2, <1>3 DEF ReceiverTypes, Permits, receiver
<1>5. CASE Write \/ WriteFails \/ CompleteWriting
  <2>1. /\ UNCHANGED <<retries, lastCum, dups, fastRtx, written, sndFailed, scanning, socket, acks>>
        /\ writer' \in {writer, "blocked", "failed"}
    BY <1>5 DEF Write, WriteFails, CompleteWriting
  <2> QED
    BY <1>2, <1>4, <2>1 DEF Typed, SenderTypes
<1>6. CASE AbortSender \/ DisposeSocket
  <2>1. /\ UNCHANGED <<retries, lastCum, dups, fastRtx, scanning, acks>>
        /\ writer' \in {writer, "failed"} /\ written' \in {written, "failed"}
        /\ sndFailed' \in {sndFailed, TRUE} /\ socket' \in {socket, FALSE}
    BY <1>6 DEF AbortSender, DisposeSocket, FailSender
  <2> QED
    BY <1>2, <1>4, <2>1 DEF Typed, SenderTypes
<1>7. ASSUME NEW ack \in acks, NEW again \in BOOLEAN, OnAck(ack, again)
      PROVE  Typed'
  <2>1. ack.cum \in 0 .. Len(Input) + 1
    BY <1>2 DEF Ack
  <2>2. /\ UNCHANGED <<retries, sndFailed, scanning, socket>>
        /\ lastCum' = ack.cum /\ acks' \subseteq acks
        /\ fastRtx' \in {ack.cum, fastRtx, -1}
        /\ writer' \in {writer, "ready"} /\ written' \in {written, "done"}
    BY <1>7 DEF OnAck
  <2>3. dups' \in 0 .. DupAcks
    <3>1. dups' = 0 \/ dups' = dups \/ (dups < DupAcks /\ dups' = dups + 1)
      BY <1>7 DEF OnAck
    <3> QED
      BY <1>1, <1>2, <3>1 DEF SenderTypes
  <2>4. lastCum' \in -1 .. Len(Input) + 1 /\ fastRtx' \in -1 .. Len(Input) + 1
    BY <1>1, <1>2, <2>1, <2>2 DEF SenderTypes
  <2> QED
    BY <1>2, <1>4, <2>2, <2>3, <2>4 DEF Typed, SenderTypes
<1>8. ASSUME NEW due \in SUBSET inFlight, RetransmitScan(due)
      PROVE  Typed'
  <2>1. CASE \E f \in due : retries[f.seq] >= MaxRetransmits
    <3>1. /\ UNCHANGED <<retries, lastCum, dups, fastRtx, socket, acks>>
          /\ writer' \in {writer, "failed"} /\ written' \in {written, "failed"}
          /\ sndFailed' = TRUE /\ scanning' = FALSE
      BY <1>8, <2>1 DEF RetransmitScan, FailSender
    <3> QED
      BY <1>2, <1>4, <3>1 DEF Typed, SenderTypes
  <2>2. CASE ~ \E f \in due : retries[f.seq] >= MaxRetransmits
    <3>1. /\ UNCHANGED <<lastCum, dups, fastRtx, writer, written, sndFailed, scanning, socket, acks>>
          /\ retries' = [n \in Seqs |-> IF n \in Numbers(due) THEN retries[n] + 1 ELSE retries[n]]
      BY <1>8, <2>2 DEF RetransmitScan
    <3>2. ASSUME NEW n \in Seqs
          PROVE  (IF n \in Numbers(due) THEN retries[n] + 1 ELSE retries[n]) \in 0 .. MaxRetransmits
      <4>1. retries[n] \in 0 .. MaxRetransmits
        BY <1>2 DEF SenderTypes
      <4>2. n \in Numbers(due) => ~(retries[n] >= MaxRetransmits)
        BY <2>2 DEF Numbers
      <4> QED
        BY <1>1, <4>1, <4>2
    <3>3. retries' \in [Seqs -> 0 .. MaxRetransmits]
      BY <3>1, <3>2
    <3> QED
      BY <1>2, <1>4, <3>1, <3>3 DEF Typed, SenderTypes
  <2> QED
    BY <2>1, <2>2
<1> QED
  BY <1>5, <1>6, <1>7, <1>8 DEF SenderStep

LEMMA FrameTyped ==
  ASSUME IInv, Typed, NEW frame \in data, NEW again \in BOOLEAN, OnFrame(frame, again)
  PROVE  Typed'
<1>1. Len(Input) \in Nat /\ nextSeq \in Nat /\ nextSeq <= Len(Input) + 1 /\ expected \in Nat
      /\ expected <= nextSeq /\ Len(stream) \in Nat
  BY InputAssumption DEF IInv, Counted, StreamInOrder
<1>2. SenderTypes /\ ReceiverTypes /\ acks \subseteq Ack
  BY DEF Typed
<1>3. UNCHANGED <<rcvFailed, reader, sender>>
  BY DEF OnFrame
<1>4. SenderTypes'
  BY <1>2, <1>3 DEF SenderTypes, sender
<1>5. CASE InWindow(frame.seq)
  <2>1. PICK gap : /\ Run(frame, gap) /\ stream' = stream \o More(frame, gap)
                   /\ permits' = permits + Count(frame, gap)
                   /\ SendAck(AckOf(gap, Rest(frame, gap)))
    BY <1>5, AbsorbIsRun
  <2>2. gap \in 0 .. Len(Input) + 1
    <3>1. gap <= nextSeq /\ gap \in Nat
      BY <1>5, <2>1, RunFacts DEF Run
    <3> QED
      BY <1>1, <3>1
  <2>3. acks' \subseteq Ack
    BY <1>2, <2>1, <2>2, AckIsTyped
  <2>4. /\ Count(frame, gap) \in Nat /\ More(frame, gap) \in Seq(STRING)
        /\ Len(More(frame, gap)) = Count(frame, gap)
    BY <1>5, <2>1, MoreFacts
  <2>5. Len(stream') = Len(stream) + Count(frame, gap)
    <3>1. stream \in Seq(STRING)
      BY DEF IInv, StreamInOrder
    <3>2. Len(stream \o More(frame, gap)) = Len(stream) + Len(More(frame, gap))
      BY <2>4, <3>1, ConcatProperties
    <3> QED
      BY <2>1, <2>4, <3>2
  <2>6. permits' \in Nat /\ permits' <= Permits'
    <3>1. permits \in Nat /\ permits <= Permits
      BY <1>2 DEF ReceiverTypes
    <3> QED
      BY <1>1, <1>3, <2>1, <2>4, <2>5, <3>1 DEF Permits
  <2>7. eof' \in BOOLEAN
    BY <1>2, <1>5 DEF OnFrame, Absorb, ReceiverTypes
  <2> QED
    BY <1>2, <1>3, <1>4, <2>3, <2>6, <2>7 DEF Typed, ReceiverTypes
<1>6. CASE ~InWindow(frame.seq)
  <2>1. UNCHANGED <<stream, eof, permits>> /\ SendAck(AckOf(expected, pending))
    BY <1>6 DEF OnFrame, Absorb
  <2>2. expected \in 0 .. Len(Input) + 1
    BY <1>1
  <2>3. acks' \subseteq Ack
    BY <1>2, <2>1, <2>2, AckIsTyped
  <2> QED
    BY <1>2, <1>3, <1>4, <2>1, <2>3 DEF Typed, ReceiverTypes, Permits
<1> QED
  BY <1>5, <1>6

LEMMA ReaderTyped ==
  ASSUME IInv, Typed, Read \/ Wake \/ AbortReceiver \/ Lose
  PROVE  Typed'
<1>1. SenderTypes /\ ReceiverTypes /\ acks \subseteq Ack /\ Len(stream) \in Nat
  BY DEF Typed, IInv, StreamInOrder
<1>2. UNCHANGED <<sender, stream, eof>> /\ acks' \subseteq acks
  BY DEF Read, Wake, AbortReceiver, Lose, receiver
<1>3. SenderTypes'
  BY <1>1, <1>2 DEF SenderTypes, sender
<1>4. CASE Read
  <2>1. UNCHANGED <<permits, rcvFailed>> /\ reader' \in {reader, "failed", "eof", "waiting"}
    BY <1>4 DEF Read
  <2> QED
    BY <1>1, <1>2, <1>3, <2>1 DEF Typed, ReceiverTypes, Permits
<1>5. CASE Wake
  <2>1. permits' = permits - 1 /\ permits > 0 /\ reader' = "ready" /\ UNCHANGED rcvFailed
    BY <1>5 DEF Wake
  <2>2. permits' \in Nat /\ permits' <= Permits'
    BY <1>1, <1>2, <2>1 DEF ReceiverTypes, Permits
  <2> QED
    BY <1>1, <1>2, <1>3, <2>1, <2>2 DEF Typed, ReceiverTypes
<1>6. CASE AbortReceiver
  <2>1. permits' = permits + 1 /\ ~rcvFailed /\ rcvFailed' = TRUE /\ UNCHANGED reader
    BY <1>6 DEF AbortReceiver
  <2>2. permits' \in Nat /\ permits' <= Permits'
    BY <1>1, <1>2, <2>1 DEF ReceiverTypes, Permits
  <2> QED
    BY <1>1, <1>2, <1>3, <2>1, <2>2 DEF Typed, ReceiverTypes
<1>7. CASE Lose
  BY <1>1, <1>2, <1>3, <1>7 DEF Lose, receiver, Typed, ReceiverTypes, Permits
<1> QED
  BY <1>4, <1>5, <1>6, <1>7

LEMMA NextTyped == IInv /\ Typed /\ [Next]_vars => Typed'
<1> SUFFICES ASSUME IInv, Typed, [Next]_vars PROVE Typed'
  OBVIOUS
<1>1. CASE SenderStep
  BY <1>1, SenderTyped
<1>2. CASE \E frame \in data, again \in BOOLEAN : OnFrame(frame, again)
  BY <1>2, FrameTyped
<1>3. CASE Read \/ Wake \/ AbortReceiver \/ Lose
  BY <1>3, ReaderTyped
<1>4. CASE UNCHANGED vars
  BY <1>4 DEF vars, sender, receiver, Typed, SenderTypes, ReceiverTypes, Permits
<1> QED
  BY <1>1, <1>2, <1>3, <1>4 DEF Next, ReceiverStep

(* A frame that is the one the sender made for its number is a Frame.      *)
LEMMA ProperIsFrame ==
  ASSUME IInv, NEW f, Proper(f)
  PROVE  f \in Frame
<1>1. Len(Input) \in Nat /\ nextSeq \in Nat /\ nextSeq <= Len(Input) + 1 /\ f.seq \in Nat
      /\ f.seq < nextSeq
  BY InputAssumption DEF IInv, Counted, Proper
<1>2. f.seq \in Seqs
  BY <1>1 DEF Seqs
<1>3. CASE f = FinFrame(f.seq)
  <2> DEFINE n == f.seq
  <2>1. f = [type |-> "fin", seq |-> n, payload |-> ""]
    BY <1>3 DEF FinFrame
  <2>2. n \in Seqs
    BY <1>2
  <2> HIDE DEF n
  <2> QED
    BY <2>1, <2>2 DEF Frame
<1>4. CASE f = DataFrame(f.seq) /\ f.seq < Len(Input)
  <2>1. f.seq + 1 \in 1 .. Len(Input)
    BY <1>1, <1>4
  <2> DEFINE n == f.seq
  <2>2. f = [type |-> "data", seq |-> n, payload |-> Input[n + 1]]
    BY <1>4 DEF DataFrame
  <2>3. Input[n + 1] \in {Input[i] : i \in 1 .. Len(Input)} \cup {""} /\ n \in Seqs
    BY <1>2, <2>1
  <2> HIDE DEF n
  <2> QED
    BY <2>2, <2>3 DEF Frame
<1> QED
  BY <1>3, <1>4 DEF Proper

(* Types, and with them the bounds of the counters: no frame is resent     *)
(* more than MaxRetransmits times, and no permit is handed out for nothing.*)
THEOREM TypeCorrect == Spec => []TypeOK
<1>1. Init => Typed
  <2> SUFFICES ASSUME Init PROVE Typed
    OBVIOUS
  <2>1. Len(Input) \in Nat /\ MaxRetransmits \in Nat /\ DupAcks \in Nat \ {0}
    BY InputAssumption, RetryAssumption
  <2>2. retries \in [Seqs -> 0 .. MaxRetransmits]
    BY <2>1 DEF Init
  <2>3. SenderTypes
    <3>1. 0 \in 0 .. DupAcks /\ -1 \in -1 .. Len(Input) + 1
      BY <2>1
    <3> QED
      BY <2>2, <3>1 DEF Init, SenderTypes
  <2>4. ReceiverTypes
    <3>1. stream = <<>> /\ rcvFailed = FALSE /\ permits = 0
      BY DEF Init
    <3>2. Len(stream) = 0
      BY <3>1
    <3>3. permits <= Permits
      BY <3>1, <3>2 DEF Permits
    <3> QED
      BY <3>3 DEF Init, ReceiverTypes
  <2> QED
    BY <2>3, <2>4 DEF Typed, Init
<1>2. IInv /\ Typed /\ [Next]_vars => Typed'
  BY NextTyped
<1>3. IInv /\ Typed => TypeOK
  <2> SUFFICES ASSUME IInv, Typed PROVE TypeOK
    OBVIOUS
  <2>1. /\ Len(Input) \in Nat /\ nextSeq \in Nat /\ nextSeq <= Len(Input) + 1
        /\ expected \in Nat /\ expected <= nextSeq /\ finSeq \in Int
        /\ finSeq # -1 => nextSeq = finSeq + 1
    BY InputAssumption DEF IInv, Counted
  <2>2. /\ nextSeq \in 0 .. Len(Input) + 1 /\ expected \in 0 .. Len(Input) + 1
        /\ finSeq \in -1 .. Len(Input)
    BY <2>1
  <2>3. remoteFin \in -1 .. Len(Input)
    <3>1. remoteFin = -1 \/ remoteFin = finSeq
      BY DEF IInv, FinKnown
    <3> QED
      BY <2>1, <2>2, <3>1
  <2>4. inFlight \subseteq Frame /\ pending \subseteq Frame /\ data \subseteq Frame
    BY ProperIsFrame DEF IInv, FramesProper
  <2>5. /\ stream \in Seq(STRING) /\ Len(stream) \in Nat /\ Len(stream) <= Len(Input)
        /\ \A i \in 1 .. Len(stream) : stream[i] = Input[i]
        /\ read \in Nat /\ read <= Len(stream)
    BY DEF IInv, StreamInOrder, ReaderBehind
  <2>6. stream \in Seq({Input[i] : i \in 1 .. Len(Input)})
    <3>1. \A i \in 1 .. Len(stream) : stream[i] \in {Input[j] : j \in 1 .. Len(Input)}
      BY <2>1, <2>5
    <3> QED
      BY <2>5, <3>1
  <2>7. read \in 0 .. Len(Input)
    BY <2>1, <2>5
  <2>8. permits \in 0 .. Len(Input) + 1
    <3>1. permits \in Nat /\ permits <= Permits
      BY DEF Typed, ReceiverTypes
    <3> QED
      BY <2>1, <2>5, <3>1 DEF Permits
  <2> QED
    BY <2>2, <2>3, <2>4, <2>6, <2>7, <2>8 DEF TypeOK, Typed, SenderTypes, ReceiverTypes
<1> QED
  BY <1>1, <1>2, <1>3, Invariance, PTL DEF Spec

-----------------------------------------------------------------------------
(* The stream implements the reliable channel. What has been read is a     *)
(* prefix of the input at every moment, so frames that arrive change       *)
(* nothing in it.                                                          *)
Wrote == IF FinQueued THEN finSeq ELSE nextSeq
Got   == [i \in 1 .. read |-> stream[i]]
Told  == IF reader \in {"eof", "failed"} THEN reader ELSE "none"

LEMMA GotIsPrefix ==
  ASSUME IInv
  PROVE  /\ read \in Nat /\ read <= Len(stream) /\ Len(stream) <= Len(Input)
         /\ Got \in Seq(STRING) /\ Len(Got) = read
         /\ Got = [i \in 1 .. read |-> Input[i]]
<1>1. /\ read \in Nat /\ read <= Len(stream) /\ Len(stream) \in Nat /\ Len(stream) <= Len(Input)
      /\ \A i \in 1 .. Len(stream) : stream[i] = Input[i]
      /\ stream \in Seq(STRING)
  BY DEF IInv, ReaderBehind, StreamInOrder
<1>2. \A i \in 1 .. read : i \in 1 .. Len(stream)
  BY <1>1
<1>3. Got = [i \in 1 .. read |-> Input[i]]
  BY <1>1, <1>2 DEF Got
<1>4. \A i \in 1 .. read : stream[i] \in STRING
  BY <1>1, <1>2, ElementOfSeq
<1>5. Got \in Seq(STRING) /\ Len(Got) = read
  BY <1>1, <1>4 DEF Got
<1>6. QED
  BY <1>1, <1>3, <1>5

LEMMA InitMaps == Init => Channel!Init
<1> SUFFICES ASSUME Init PROVE Channel!Init
  OBVIOUS
<1>1. finSeq = -1 /\ nextSeq = 0 /\ read = 0 /\ reader = "ready"
  BY DEF Init
<1>2. [i \in 1 .. read |-> stream[i]] = <<>>
  BY <1>1
<1>3. QED
  BY <1>1, <1>2 DEF Channel!Init, FinQueued

(* Steps that leave what is written, read and told as it is.               *)
LEMMA Stutter ==
  ASSUME IInv, IInv', UNCHANGED <<nextSeq, finSeq, read, Told>>
  PROVE  UNCHANGED Channel!channel
<1>1. /\ read' = read /\ read \in Nat /\ read <= Len(stream)
      /\ Len(stream) \in Nat /\ \A i \in 1 .. Len(stream) : stream[i] = Input[i]
  BY DEF IInv, ReaderBehind, StreamInOrder
<1>2. /\ read' <= Len(stream')
      /\ Len(stream') \in Nat /\ \A i \in 1 .. Len(stream') : stream'[i] = Input[i]
  BY DEF IInv, ReaderBehind, StreamInOrder
<1>3. \A i \in 1 .. read : i \in 1 .. Len(stream) /\ i \in 1 .. Len(stream')
  BY <1>1, <1>2
<1>4. \A i \in 1 .. read : stream[i] = stream'[i]
  BY <1>1, <1>2, <1>3
<1>5. Got' = Got
  BY <1>1, <1>4 DEF Got
<1>6. QED
  BY <1>5 DEF Channel!channel, FinQueued, Got, Told

LEMMA WriteMaps ==
  ASSUME IInv, IInv', Write \/ CompleteWriting
  PROVE  [Channel!Next]_Channel!channel
<1>1. Counted /\ Counted' /\ read' = read /\ reader' = reader
  BY DEF IInv, Write, CompleteWriting, receiver
<1>2. Told' = Told /\ Got' = Got
  <2>1. stream' = stream
    BY DEF Write, CompleteWriting, receiver
  <2>2. QED
    BY <1>1, <2>1 DEF Told, Got
<1>3. CASE nextSeq' = nextSeq
  <2>1. finSeq' = finSeq
    BY <1>1, <1>3 DEF Write, CompleteWriting, Register, Counted
  <2>2. QED
    BY <1>1, <1>2, <1>3, <2>1, Stutter
<1>4. CASE Write /\ nextSeq' # nextSeq
  <2>1. nextSeq' = nextSeq + 1 /\ finSeq = -1 /\ finSeq' = -1
    BY <1>4 DEF Write, Register, FinQueued
  <2>2. nextSeq' \in nextSeq .. Len(Input)
    BY <1>1, <2>1, InputAssumption DEF Counted
  <2>3. Channel!Write
    BY <1>2, <2>1, <2>2 DEF Channel!Write, FinQueued, Got, Told
  <2>4. QED
    BY <2>3 DEF Channel!Next
<1>5. CASE CompleteWriting
  <2>1. finSeq = -1 /\ finSeq' = nextSeq /\ finSeq' # -1
    BY <1>1, <1>5 DEF CompleteWriting, FinQueued, Counted
  <2>2. Channel!Close
    BY <1>2, <2>1 DEF Channel!Close, FinQueued, Got, Told
  <2>3. QED
    BY <2>2 DEF Channel!Next
<1>6. QED
  BY <1>3, <1>4, <1>5

LEMMA ReadMaps ==
  ASSUME IInv, IInv', Read
  PROVE  [Channel!Next]_Channel!channel
<1>1. /\ reader = "ready" /\ UNCHANGED <<nextSeq, finSeq, stream, eof>>
      /\ UNCHANGED FinQueued
  BY DEF Read, sender, FinQueued
<1>2. Wrote' = Wrote /\ Told = "none"
  BY <1>1 DEF Wrote, FinQueued, Told
<1>3. /\ read \in Nat /\ read <= Len(stream) /\ Len(stream) \in Nat
      /\ \A i \in 1 .. Len(stream) : stream[i] = Input[i]
      /\ Got \in Seq(STRING) /\ Len(Got) = read
  BY GotIsPrefix DEF IInv, StreamInOrder
<1>4. CASE read' = read /\ reader' = "waiting"
  BY <1>1, <1>4, Stutter DEF Told
<1>5. CASE read' = read + 1
  <2>1. read < Len(stream) /\ reader' = reader
    BY <1>3, <1>5 DEF Read
  <2>2. Len(stream) <= Wrote
    BY DEF IInv, StreamInOrder, Counted, Ended, Wrote, FinQueued
  <2>3. Wrote \in Int
    BY DEF IInv, Counted, Wrote
  <2>4. Len(Got) < Wrote
    BY <1>3, <2>1, <2>2, <2>3
  <2>5. stream[read + 1] = Input[Len(Got) + 1]
    BY <1>3, <2>1
  <2>6. Got' = Append(Got, Input[Len(Got) + 1])
    <3>1. Got' = [i \in 1 .. read + 1 |-> stream[i]]
      BY <1>1, <1>5 DEF Got
    <3>2. /\ \A i \in 1 .. read + 1 : stream[i] \in STRING
          /\ stream[read + 1] \in STRING
      <4>1. \A i \in 1 .. read + 1 : i \in 1 .. Len(stream)
        BY <1>3, <2>1
      <4>2. stream \in Seq(STRING) /\ read + 1 \in 1 .. Len(stream)
        BY <1>3, <2>1 DEF IInv, StreamInOrder
      <4>3. QED
        BY <4>1, <4>2, ElementOfSeq
    <3>3. /\ Got' \in Seq(STRING) /\ Len(Got') = read + 1
          /\ \A i \in 1 .. read + 1 : Got'[i] = stream[i]
      BY <1>3, <3>1, <3>2
    <3>4. /\ Append(Got, stream[read + 1]) \in Seq(STRING)
          /\ Len(Append(Got, stream[read + 1])) = read + 1
          /\ \A i \in 1 .. read : Append(Got, stream[read + 1])[i] = Got[i]
          /\ Append(Got, stream[read + 1])[read + 1] = stream[read + 1]
      BY <1>3, <3>2, AppendProperties
    <3>5. \A i \in 1 .. read : Got[i] = stream[i]
      BY DEF Got
    <3>6. \A i \in 1 .. read + 1 : i \in 1 .. read \/ i = read + 1
      BY <1>3
    <3>7. \A i \in 1 .. read + 1 : Got'[i] = Append(Got, stream[read + 1])[i]
      BY <3>3, <3>4, <3>5, <3>6
    <3>8. Got' = Append(Got, stream[read + 1])
      BY <3>3, <3>4, <3>7, SeqEqual
    <3>9. QED
      BY <2>5, <3>8
  <2>7. Told' = "none"
    BY <1>1, <2>1 DEF Told
  <2>8. Channel!Read
    BY <1>1, <1>2, <2>4, <2>6, <2>7 DEF Channel!Read, Wrote, Got, Told
  <2>9. QED
    BY <2>8 DEF Channel!Next
<1>6. CASE read' = read /\ reader' \in {"eof", "failed"}
  <2>1. Got' = Got /\ Told' = reader'
    BY <1>1, <1>6 DEF Got, Told
  <2>2. reader' = "eof" => FinQueued /\ Len(Got) = Wrote
    <3>1. reader' = "eof" => eof /\ read = Len(stream)
      BY <1>3 DEF Read
    <3>2. QED
      BY <1>3, <3>1 DEF IInv, FinKnown, StreamInOrder, Ended, FinQueued, Wrote
  <2>3. Channel!End
    BY <1>1, <1>2, <1>6, <2>1, <2>2 DEF Channel!End, Wrote, Got, Told
  <2>4. QED
    BY <2>3 DEF Channel!Next
<1>7. QED
  BY <1>3, <1>4, <1>5, <1>6 DEF Read

LEMMA NextMaps == IInv /\ IInv' /\ [Next]_vars => [Channel!Next]_Channel!channel
<1> SUFFICES ASSUME IInv, IInv', [Next]_vars PROVE [Channel!Next]_Channel!channel
  OBVIOUS
<1>1. CASE Write \/ CompleteWriting
  BY <1>1, WriteMaps
<1>2. CASE Read
  BY <1>2, ReadMaps
<1>3. CASE \/ \E ack \in acks, again \in BOOLEAN : OnAck(ack, again)
           \/ WriteFails \/ AbortSender \/ DisposeSocket
           \/ \E due \in SUBSET inFlight : RetransmitScan(due)
           \/ Lose \/ UNCHANGED vars
  <2>1. UNCHANGED <<nextSeq, finSeq, read, reader>>
    BY <1>3 DEF OnAck, WriteFails, AbortSender, DisposeSocket, RetransmitScan, Lose, vars,
                sender, receiver
  <2>2. QED
    BY <2>1, Stutter DEF Told
<1>4. CASE \/ \E frame \in data, again \in BOOLEAN : OnFrame(frame, again)
           \/ AbortReceiver
  <2>1. UNCHANGED <<nextSeq, finSeq, read, reader>>
    BY <1>4 DEF OnFrame, AbortReceiver, sender
  <2>2. QED
    BY <2>1, Stutter DEF Told
<1>5. CASE Wake
  <2>1. /\ UNCHANGED <<nextSeq, finSeq, read>>
        /\ reader = "waiting" /\ reader' = "ready"
    BY <1>5 DEF Wake, sender
  <2>2. QED
    BY <2>1, Stutter DEF Told
<1>6. QED
  BY <1>1, <1>2, <1>3, <1>4, <1>5 DEF Next, SenderStep, ReceiverStep

(* In order, each chunk once, and the end only after everything: for any   *)
(* input, any window and any network.                                      *)
THEOREM StreamImplementsChannel == Spec => ImplementsChannel
<1>1. IInv /\ IInv' /\ [Next]_vars => [Channel!Next]_Channel!channel
  BY NextMaps
<1>2. Init => Channel!Init
  BY InitMaps
<1>3. QED
  BY <1>1, <1>2, Invariance, PTL DEF Spec, ImplementsChannel, Channel!Spec
=============================================================================
