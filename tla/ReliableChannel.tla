--------------------------- MODULE ReliableChannel ---------------------------
(***************************************************************************)
(* What one direction of a punched stream promises to the application at   *)
(* its two ends: the chunks written come out in order, each once, and the  *)
(* reader is told that the stream has ended only when it has everything.   *)
(* A reader whose end of the stream failed is told so instead.             *)
(***************************************************************************)
EXTENDS Naturals, Sequences

CONSTANT Input  \* the chunks the writing application has, in order

VARIABLES
  wrote,   \* how many of them it has written
  closed,  \* whether it has completed writing
  got,     \* the chunks the reading application has read
  end      \* what ended its reading: "none" so far, "eof" or "failed"

channel == <<wrote, closed, got, end>>

Write == ~closed /\ wrote' \in wrote .. Len(Input) /\ UNCHANGED <<closed, got, end>>

Close == ~closed /\ closed' = TRUE /\ UNCHANGED <<wrote, got, end>>

Read ==
  /\ end = "none"
  /\ Len(got) < wrote
  /\ got' = Append(got, Input[Len(got) + 1])
  /\ UNCHANGED <<wrote, closed, end>>

End ==
  /\ end = "none"
  /\ \/ closed /\ Len(got) = wrote /\ end' = "eof"
     \/ end' = "failed"
  /\ UNCHANGED <<wrote, closed, got>>

Init == wrote = 0 /\ closed = FALSE /\ got = <<>> /\ end = "none"

Next == Write \/ Close \/ Read \/ End

Spec == Init /\ [][Next]_channel
=============================================================================
