--------------------------- MODULE MCConsoleTerminal ---------------------------
(***************************************************************************)
(* ConsoleTerminal for TLC, and the bounded checks of ConsoleFunctions,    *)
(* which TLC evaluates before it starts.                                   *)
(***************************************************************************)
EXTENDS ConsoleTerminal, ConsoleFunctions

Texts(n) == UNION {[1 .. k -> {"x", CR, LF}] : k \in 0 .. n}

(* What a terminal is to be written for a whole text: every LF that no CR  *)
(* precedes gets one.                                                      *)
Rendered(text) ==
  FlattenSeq([i \in DOMAIN text |->
    IF text[i] = LF /\ (i = 1 \/ text[i - 1] # CR) THEN <<CR, LF>> ELSE <<text[i]>>])

(* Where a stream is cut into chunks does not show: what was written, and  *)
(* the CR held back, are the rendering of the whole.                       *)
ASSUME CutsDoNotShow ==
  \A a, b, c \in Texts(3) :
    LET p == Pushed(<<a, b, c>>)
    IN p.out \o (IF p.pendingCarriageReturn THEN <<CR>> ELSE <<>>) = Rendered(a \o b \o c)

(* However stdout and stderr are interleaved, a line feed reaches the      *)
(* terminal right behind a carriage return: no line starts in mid-screen.  *)
ASSUME NoStaircase ==
  \A a, b, c \in Texts(2) : \A u, v, w \in {"stdout", "stderr"} :
    LET out == Painted(<<[stream |-> u, text |-> a], [stream |-> v, text |-> b],
                         [stream |-> w, text |-> c]>>).out
    IN \A i \in DOMAIN out : out[i] = LF => i > 1 /\ out[i - 1] = CR

(* A pasted text or an arrow key is never changed; a single character is   *)
(* changed by both keys, and Alt adds one Esc whatever Ctrl made of it.    *)
ASSUME ModifiersCompose ==
  \A ctrl, alt \in BOOLEAN :
    /\ \A data \in {<<Esc, "[", "A">>, <<"a", "c">>} : Typed(data, ctrl, alt) = data
    /\ \A c \in Letters \cup {Esc, "1"} :
         LET sent == Typed(<<c>>, ctrl, alt)
         IN /\ Last(sent) = IF ctrl THEN ApplyCtrlModifier(<<c>>)[1] ELSE c
            /\ Front(sent) = IF alt THEN <<Esc>> ELSE <<>>

(* What the list lets the user do, the gateway accepts if nothing happens  *)
(* in between; a session that can be neither terminated nor deleted is one *)
(* the gateway calls Recovering, and it is in no filtered list either.     *)
ASSUME OfferedIsAccepted ==
  \A state \in AttachmentStates, online \in BOOLEAN :
    LET effective == EffectiveState(state, online)
        status == MapSessionStatus(effective)
    IN /\ CanTerminate(status) => TerminateAnswer(state, online) = 202
       /\ CanDelete(status) => state \in {"Expired", "Exited"}
       /\ (~CanTerminate(status) /\ ~CanDelete(status)) <=> effective = "Recovering"
       /\ effective = "Recovering" <=>
            \A f \in {"live", "detached", "exited"} : ~StatusMatchesFilter(status, f)

(* The buttons: the first, the last and the current page, in order, and    *)
(* dots exactly where pages are left out; never more than seven.           *)
ASSUME PagesAreReachable ==
  \A total \in 1 .. 12 : \A current \in 1 .. total :
    LET shownPages == GetPageNumbers(current, total)
    IN /\ {1, current, total} \subseteq ToSet(shownPages)
       /\ Len(shownPages) <= 7
       /\ \A i \in 1 .. Len(shownPages) - 1 :
            IF shownPages[i] = Dots \/ shownPages[i + 1] = Dots THEN TRUE
            ELSE shownPages[i + 1] = shownPages[i] + 1
       /\ \A i \in 2 .. Len(shownPages) - 1 :
            shownPages[i] = Dots => shownPages[i + 1] > shownPages[i - 1] + 1

(* The event log with two scopes, two events each, kept for three ticks.   *)
Logged(ops) ==
  FoldLeft(LAMBDA logs, op :
             IF op.move THEN MoveScope(logs, op.from, op.key, op.at, 3, 2, 2)
             ELSE AppendEvent(logs, op.key, op.at, 3, 2, 2),
           <<>>, ops)

Ops(at) == [move : {FALSE}, from : {"a"}, key : {"a", "b", "c"}, at : at]
           \cup [move : {TRUE}, from : {"a"}, key : {"a", "b"}, at : at]

(* Whatever is logged and moved: the log keeps its bounds, an event that   *)
(* was just logged is in it, a scope that moved is gone, and no event is   *)
(* in two scopes.                                                          *)
ASSUME LogKeepsTheLatest ==
  \A o1 \in Ops({1}), o2 \in Ops({2}), o3 \in Ops({3}), o4 \in Ops({4, 6}) :
    LET logs == Logged(<<o1, o2, o3, o4>>)
    IN /\ Len(logs) <= 2 /\ \A i \in DOMAIN logs : Len(logs[i].entries) \in 1 .. 2
       /\ ~o4.move => Last(Entries(logs, o4.key)) = o4.at
       /\ o4.move /\ o4.from # o4.key => Entries(logs, o4.from) = <<>>
       /\ \A i, j \in DOMAIN logs :
            ToSet(logs[i].entries) \cap ToSet(logs[j].entries) # {} => i = j

================================================================================
