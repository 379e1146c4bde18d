---------------------------- MODULE PunchStream ----------------------------
(***************************************************************************)
(* One direction of a PunchStream: the automatic-repeat-request protocol   *)
(* that carries a file transfer over a punched UDP path.  The sending end  *)
(* numbers its frames, keeps them in flight until acknowledged, resends    *)
(* the ones that time out or that repeated acknowledgements report lost;   *)
(* the receiving end buffers what arrives out of order and acknowledges    *)
(* each frame with what it has (cumulative number and missing runs).  The  *)
(* network loses, duplicates, delays and reorders frames of both kinds.    *)
(*                                                                         *)
(* A frame's payload is one chunk of Input.  Time is abstract: any frame   *)
(* in flight may be due at any scan of the retransmit loop.  Encryption    *)
(* and framing are left out: a datagram that fails its tag is a lost one.  *)
(* Sequence numbers are unbounded here; in the code they are 32 bits wide  *)
(* and no transfer is meant to reach 2^32 packets.                         *)
(***************************************************************************)
EXTENDS Integers, FiniteSets, Sequences

CONSTANTS
  Input,           \* the chunks the writing application has, in order
  Window,          \* WindowPackets
  MaxRetransmits,  \* resends of one frame after which the link counts as dead
  DupAcks,         \* FastRetransmitDupAcks
  MaxAcks,         \* bound: acknowledgements in the network at a time
  MayAbort         \* whether an end may abort and the sender dispose its socket

ASSUME InputAssumption == Input \in Seq(STRING)
ASSUME ChunkAssumption == \A i \in 1 .. Len(Input) : Input[i] # ""
ASSUME WindowAssumption == Window \in Nat \ {0}
ASSUME RetryAssumption == MaxRetransmits \in Nat /\ DupAcks \in Nat \ {0} /\ MaxAcks \in Nat \ {0}
ASSUME AbortAssumption == MayAbort \in BOOLEAN

VARIABLES
  (* sending end *)
  nextSeq, inFlight, retries, lastCum, dups, fastRtx, writer, finSeq, written,
  sndFailed, scanning, socket,
  (* receiving end *)
  expected, pending, stream, remoteFin, eof, read, permits, reader, rcvFailed,
  (* network: the frames and the acknowledgements under way *)
  data, acks

sender   == <<nextSeq, inFlight, retries, lastCum, dups, fastRtx, writer, finSeq,
              written, sndFailed, scanning, socket>>
receiver == <<expected, pending, stream, remoteFin, eof, read, permits, reader, rcvFailed>>
vars     == <<sender, receiver, data, acks>>

Seqs == 0 .. Len(Input)   \* one number per chunk, and one for FIN

DataFrame(n) == [type |-> "data", seq |-> n, payload |-> Input[n + 1]]
FinFrame(n)  == [type |-> "fin", seq |-> n, payload |-> ""]

(* The application has completed writing: FIN has the number finSeq.       *)
FinQueued == finSeq # -1

Numbers(frames) == {f.seq : f \in frames}

(* Datagrams sent after the socket is disposed go nowhere.                 *)
Transmit(frames) == data' = IF socket THEN data \cup frames ELSE data

-----------------------------------------------------------------------------
(* The sending end.                                                        *)

Register(frame) ==
  /\ inFlight' = inFlight \cup {frame}
  /\ nextSeq' = nextSeq + 1
  /\ Transmit({frame})

(* WriteAsync, one chunk: into the window, or wait for room in it.         *)
Write ==
  /\ writer = "ready" /\ ~FinQueued /\ ~sndFailed
  /\ nextSeq < Len(Input)
  /\ IF Cardinality(inFlight) < Window
     THEN Register(DataFrame(nextSeq)) /\ UNCHANGED writer
     ELSE writer' = "blocked" /\ UNCHANGED <<nextSeq, inFlight, data>>
  /\ UNCHANGED <<retries, lastCum, dups, fastRtx, finSeq, written, sndFailed, scanning,
                 socket, receiver, acks>>

WriteFails ==
  /\ writer = "ready" /\ ~FinQueued /\ sndFailed
  /\ nextSeq < Len(Input)
  /\ writer' = "failed"
  /\ UNCHANGED <<nextSeq, inFlight, retries, lastCum, dups, fastRtx, finSeq, written,
                 sndFailed, scanning, socket, receiver, data, acks>>

(* FIN does not wait for the window.                                       *)
CompleteWriting ==
  /\ writer = "ready" /\ ~FinQueued
  /\ finSeq' = nextSeq
  /\ Register(FinFrame(nextSeq))
  /\ UNCHANGED <<retries, lastCum, dups, fastRtx, writer, written, sndFailed, scanning,
                 socket, receiver, acks>>

(* Mutant of Confirmed: no missing run above the number means received.    *)
ConfirmedAbove(ack, n) == n < ack.cum \/ n \notin ack.missing

(* An acknowledgement confirms what is below its cumulative number, and    *)
(* what is below the end of its last missing run but in none of the runs.  *)
Confirmed(ack, n) ==
  \/ n < ack.cum
  \/ n \notin ack.missing /\ \E m \in ack.missing : n < m

OnAck(ack, again) ==
  LET left   == {f \in inFlight : ~Confirmed(ack, f.seq)}
      repeat == ack.cum = lastCum
      count  == IF ~repeat THEN 0 ELSE IF dups < DupAcks THEN dups + 1 ELSE dups
      lost   == {f \in left : f.seq = ack.cum}
      resend == repeat /\ count >= DupAcks /\ lost # {} /\ fastRtx # ack.cum
  IN
  /\ socket
  /\ ack \in acks
  /\ acks' = IF again THEN acks ELSE acks \ {ack}
  /\ inFlight' = left
  /\ lastCum' = ack.cum
  /\ dups' = IF resend THEN 0 ELSE count
  /\ fastRtx' = IF resend THEN ack.cum ELSE IF repeat THEN fastRtx ELSE -1
  /\ IF resend THEN Transmit(lost) ELSE UNCHANGED data
  /\ writer' = IF writer = "blocked" /\ Cardinality(left) < Window THEN "ready" ELSE writer
  /\ written' = IF FinQueued /\ left = {} /\ written = "pending" THEN "done" ELSE written
  /\ UNCHANGED <<nextSeq, retries, finSeq, sndFailed, scanning, socket, receiver>>

(* Mutant of FailSender: the waiting writer and Written are not woken.     *)
FailSenderSilently == sndFailed' = TRUE /\ UNCHANGED <<writer, written>>

FailSender ==
  /\ sndFailed' = TRUE
  /\ writer' = IF writer = "blocked" THEN "failed" ELSE writer
  /\ written' = IF written = "pending" THEN "failed" ELSE written

(* Mutant of RetransmitScan: the count of resends is never looked at.      *)
RetransmitForever(due) ==
  /\ scanning
  /\ due # {} /\ due \subseteq inFlight
  /\ retries' = [n \in Seqs |-> IF n \in Numbers(due) THEN retries[n] + 1 ELSE retries[n]]
  /\ Transmit(due)
  /\ UNCHANGED <<nextSeq, inFlight, lastCum, dups, fastRtx, writer, finSeq, written,
                 sndFailed, scanning, socket, receiver, acks>>

(* One scan of the retransmit loop that finds the frames `due' overdue.    *)
RetransmitScan(due) ==
  LET Over(f) == retries[f.seq] >= MaxRetransmits IN
  /\ scanning
  /\ due # {} /\ due \subseteq inFlight
  /\ IF \E f \in due : Over(f)
     THEN /\ FailSender
          /\ scanning' = FALSE
          /\ UNCHANGED <<retries, data>>
     ELSE /\ retries' = [n \in Seqs |-> IF n \in Numbers(due) THEN retries[n] + 1 ELSE retries[n]]
          /\ Transmit(due)
          /\ UNCHANGED <<scanning, sndFailed, writer, written>>
  /\ UNCHANGED <<nextSeq, inFlight, lastCum, dups, fastRtx, finSeq, socket, receiver, acks>>

(* Abort, or an RST from a mobile peer; the loop goes on scanning.         *)
AbortSender ==
  /\ MayAbort /\ ~sndFailed
  /\ FailSender
  /\ UNCHANGED <<nextSeq, inFlight, retries, lastCum, dups, fastRtx, finSeq, scanning,
                 socket, receiver, data, acks>>

(* A worker that served one transfer disposes the socket as soon as the    *)
(* response and its FIN are queued.                                        *)
DisposeSocket ==
  /\ MayAbort /\ socket /\ (FinQueued \/ sndFailed)
  /\ socket' = FALSE
  /\ UNCHANGED <<nextSeq, inFlight, retries, lastCum, dups, fastRtx, writer, finSeq,
                 written, sndFailed, scanning, receiver, data, acks>>

-----------------------------------------------------------------------------
(* The receiving end.                                                      *)

(* Mutant of AckOf: the cumulative number taken for the last one received. *)
AckOfLast(exp, buffered) == [cum |-> exp + 1, missing |-> {}]

(* BuildAck: next number expected, and the gaps below what is buffered.    *)
AckOf(exp, buffered) ==
  [cum     |-> exp,
   missing |-> {n \in Seqs : /\ exp <= n /\ n \notin Numbers(buffered)
                             /\ \E m \in Numbers(buffered) : n < m}]

SendAck(ack) == acks' = IF Cardinality(acks) < MaxAcks THEN acks \cup {ack} ELSE acks

PayloadOf(frames, n) == (CHOOSE f \in frames : f.seq = n).payload

(* Mutant of Released: a run of several chunks releases nothing.           *)
ReleasedSingly(n) == IF n = 1 THEN 1 ELSE 0

Released(n) == n

(* OnData: outside the window the frame is ignored; inside, everything     *)
(* that is now consecutive, up to the first gap, is handed up.  An empty   *)
(* payload (FIN) is not, and wakes nobody.                                 *)
InWindow(n) == expected <= n /\ n < expected + Window

Absorb(frame, fin) ==
  IF ~InWindow(frame.seq)
  THEN /\ SendAck(AckOf(expected, pending))
       /\ UNCHANGED <<expected, pending, stream, eof, permits>>
  ELSE LET all == pending \cup {frame} IN
       \E gap \in expected .. expected + Window :
         LET rest == {f \in all : f.seq >= gap}
             ends == \E f \in all \ rest : f.payload = ""
             new  == gap - expected - (IF ends THEN 1 ELSE 0)
         IN
         /\ gap \notin Numbers(all) /\ \A n \in expected .. gap - 1 : n \in Numbers(all)
         /\ expected' = gap
         /\ pending' = rest
         /\ stream' = stream \o [i \in 1 .. new |-> PayloadOf(all, expected + i - 1)]
         /\ permits' = permits + Released(new)
         /\ eof' = (eof \/ fin \in expected .. gap - 1)
         /\ SendAck(AckOf(gap, rest))

OnFrame(frame, again) ==
  LET fin == IF frame.type = "fin" /\ (remoteFin = -1 \/ frame.seq < remoteFin)
             THEN frame.seq ELSE remoteFin
  IN
  /\ frame \in data
  /\ data' = IF again THEN data ELSE data \ {frame}
  /\ remoteFin' = fin
  /\ Absorb(frame, fin)
  /\ UNCHANGED <<read, reader, rcvFailed, sender>>

(* Abort, or an RST from a mobile peer: one permit for the reader.         *)
AbortReceiver ==
  /\ MayAbort /\ ~rcvFailed
  /\ rcvFailed' = TRUE
  /\ permits' = permits + 1
  /\ UNCHANGED <<expected, pending, stream, remoteFin, eof, read, reader, sender, data, acks>>

(* Mutant of Read: the end of the stream looked at before the queue.       *)
ReadEofFirst ==
  /\ reader = "ready"
  /\ IF eof THEN reader' = "eof" /\ UNCHANGED read
     ELSE IF read < Len(stream) THEN read' = read + 1 /\ UNCHANGED reader
     ELSE reader' = "waiting" /\ UNCHANGED read
  /\ UNCHANGED <<expected, pending, stream, remoteFin, eof, permits, rcvFailed, sender, data, acks>>

(* ReadAsync: fail, take a chunk, see the end of the stream, or wait.      *)
Read ==
  /\ reader = "ready"
  /\ IF rcvFailed THEN reader' = "failed" /\ UNCHANGED read
     ELSE IF read < Len(stream) THEN read' = read + 1 /\ UNCHANGED reader
     ELSE reader' = (IF eof THEN "eof" ELSE "waiting") /\ UNCHANGED read
  /\ UNCHANGED <<expected, pending, stream, remoteFin, eof, permits, rcvFailed, sender, data, acks>>

(* The wait on _recvAvailable: take a permit and look again.               *)
Wake ==
  /\ reader = "waiting"
  /\ permits > 0
  /\ permits' = permits - 1
  /\ reader' = "ready"
  /\ UNCHANGED <<expected, pending, stream, remoteFin, eof, read, rcvFailed, sender, data, acks>>

-----------------------------------------------------------------------------
(* The network.                                                            *)

Lose ==
  /\ \/ \E f \in data : data' = data \ {f} /\ UNCHANGED acks
     \/ \E a \in acks : acks' = acks \ {a} /\ UNCHANGED data
  /\ UNCHANGED <<sender, receiver>>

-----------------------------------------------------------------------------
Init ==
  /\ nextSeq = 0 /\ inFlight = {} /\ retries = [n \in Seqs |-> 0]
  /\ lastCum = -1 /\ dups = 0 /\ fastRtx = -1
  /\ writer = "ready" /\ finSeq = -1 /\ written = "pending"
  /\ sndFailed = FALSE /\ scanning = TRUE /\ socket = TRUE
  /\ expected = 0 /\ pending = {} /\ stream = <<>> /\ remoteFin = -1 /\ eof = FALSE
  /\ read = 0 /\ permits = 0 /\ reader = "ready" /\ rcvFailed = FALSE
  /\ data = {} /\ acks = {}

SenderStep ==
  \/ Write \/ WriteFails \/ CompleteWriting \/ AbortSender \/ DisposeSocket
  \/ \E ack \in acks, again \in BOOLEAN : OnAck(ack, again)
  \/ \E due \in SUBSET inFlight : RetransmitScan(due)

ReceiverStep ==
  \/ \E frame \in data, again \in BOOLEAN : OnFrame(frame, again)
  \/ AbortReceiver \/ Read \/ Wake

Next == SenderStep \/ ReceiverStep \/ Lose

Spec == Init /\ [][Next]_vars

(* The retransmit loop is a timer that is never stopped, and the reading   *)
(* application calls ReadAsync until the stream ends.                      *)
FairSpec ==
  /\ Spec
  /\ WF_vars(\E due \in SUBSET inFlight : RetransmitScan(due))
  /\ WF_vars(Read) /\ WF_vars(Wake)

-----------------------------------------------------------------------------
(* Properties.                                                             *)

Frame ==
  [type : {"data", "fin"}, seq : Seqs, payload : {Input[i] : i \in 1 .. Len(Input)} \cup {""}]
Ack == [cum : 0 .. Len(Input) + 1, missing : SUBSET Seqs]

TypeOK ==
  /\ nextSeq \in 0 .. Len(Input) + 1
  /\ inFlight \subseteq Frame
  /\ retries \in [Seqs -> 0 .. MaxRetransmits]
  /\ lastCum \in -1 .. Len(Input) + 1
  /\ dups \in 0 .. DupAcks
  /\ fastRtx \in -1 .. Len(Input) + 1
  /\ finSeq \in -1 .. Len(Input)
  /\ writer \in {"ready", "blocked", "failed"}
  /\ written \in {"pending", "done", "failed"}
  /\ sndFailed \in BOOLEAN /\ scanning \in BOOLEAN /\ socket \in BOOLEAN
  /\ expected \in 0 .. Len(Input) + 1
  /\ pending \subseteq Frame
  /\ stream \in Seq({Input[i] : i \in 1 .. Len(Input)})
  /\ remoteFin \in -1 .. Len(Input)
  /\ eof \in BOOLEAN /\ rcvFailed \in BOOLEAN
  /\ read \in 0 .. Len(Input) /\ permits \in 0 .. Len(Input) + 1
  /\ reader \in {"ready", "waiting", "eof", "failed"}
  /\ data \subseteq Frame
  /\ acks \subseteq Ack

Received(n) == n < expected \/ n \in Numbers(pending)

(* The sending end forgets a frame only when the receiving end has it,     *)
(* however old, repeated or reordered the acknowledgement is that made it  *)
(* forget: what is no longer in flight can no longer be resent.            *)
AckedIsReceived == \A n \in 0 .. nextSeq - 1 : n \in Numbers(inFlight) \/ Received(n)

(* Written completes only when the receiving end has the whole stream.     *)
WrittenIsDelivered == written = "done" => eof /\ Len(stream) = finSeq

(* The stream implements the reliable channel: in order, once, complete.   *)
Channel == INSTANCE ReliableChannel WITH
  wrote  <- IF FinQueued THEN finSeq ELSE nextSeq,
  closed <- FinQueued,
  got    <- [i \in 1 .. read |-> stream[i]],
  end    <- IF reader \in {"eof", "failed"} THEN reader ELSE "none"
ImplementsChannel == Channel!Spec

(* A writer that waits for the window is let in or told of the failure.    *)
WriterResumes == writer = "blocked" ~> writer # "blocked"

(* Once writing is complete, Written completes or fails.                   *)
WritingSettles == FinQueued ~> written # "pending"

(* A reader that waits has a permit for every chunk it has not read, and   *)
(* one for the failure of its end: the semaphore and the queue are handled *)
(* apart, and several chunks may become readable at once.                  *)
NoLostWakeup ==
  reader = "waiting" => permits >= Len(stream) - read + (IF rcvFailed THEN 1 ELSE 0)

(* ReliableStream.cs:102 and 441: FIN makes the peer's read side see EOF.  *)
FinIsSeen == eof ~> reader # "waiting"
=============================================================================
