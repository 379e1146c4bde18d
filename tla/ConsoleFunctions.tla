---------------------------- MODULE ConsoleFunctions ----------------------------
(***************************************************************************)
(* The parts of the browser Console that compute and keep no connection:   *)
(* the line ends of terminal output, the keys Ctrl and Alt of the virtual  *)
(* keyboard, what may be done with a session of the list, the numbers      *)
(* under a table, and the event log that is kept in localStorage.          *)
(* MCConsoleTerminal checks each against what it is meant to compute.      *)
(***************************************************************************)
EXTENDS Integers, FiniteSets, SequencesExt

-------------------------------------------------------------------------------
(* createTerminalOutputNormalizer.  A chunk ends anywhere; a CR at its end *)
(* is held back until the next chunk of the same stream tells whether it   *)
(* belongs to a CRLF.                                                      *)

CR == "CR"
LF == "LF"
Held == [out |-> <<>>, pendingCarriageReturn |-> FALSE]

(* push(text): what is written now, and whether a CR is held back.         *)
Push(pending, text) ==
  IF text = <<>> THEN [out |-> <<>>, pendingCarriageReturn |-> pending]
  ELSE
    LET paired == pending /\ text[1] = LF
        first  == CASE paired -> <<CR, LF>>
                    [] pending /\ ~paired -> <<CR>>
                    [] OTHER -> <<>>
        start  == IF paired THEN 2 ELSE 1
        \* What the loop writes when it is at index i, or has jumped over it.
        At(i)  == CASE text[i] = CR /\ i = Len(text) -> <<>>
                    [] text[i] = CR /\ i < Len(text) ->
                         IF text[i + 1] = LF THEN <<CR, LF>> ELSE <<CR>>
                    [] text[i] = LF ->
                         IF i > start /\ text[i - 1] = CR THEN <<>> ELSE <<CR, LF>>
                    [] OTHER -> <<text[i]>>
    IN [out |-> first \o FlattenSeq([k \in 1 .. Len(text) + 1 - start |-> At(k + start - 1)]),
        pendingCarriageReturn |-> Last(text) = CR]

(* The chunks of one stream, one after the other.                          *)
Pushed(chunks) ==
  FoldLeft(LAMBDA state, text :
             LET next == Push(state.pendingCarriageReturn, text)
             IN [next EXCEPT !.out = state.out \o next.out],
           Held, chunks)

(* emitStream: stdout and stderr have a normalizer each and one terminal.  *)
Painted(chunks) ==
  FoldLeft(LAMBDA screen, chunk :
             LET next == Push(screen.pending[chunk.stream], chunk.text)
             IN [out |-> screen.out \o next.out,
                 pending |-> [screen.pending EXCEPT
                                ![chunk.stream] = next.pendingCarriageReturn]],
           [out |-> <<>>, pending |-> [stdout |-> FALSE, stderr |-> FALSE]], chunks)

-------------------------------------------------------------------------------
(* applyCtrlModifier, applyAltModifier.  A character is a letter, Esc or   *)
(* another one; [ctl |-> c] stands for the control character of a letter.  *)

Letters == {"a", "c"}
Esc == "Esc"

ApplyCtrlModifier(sequence) ==
  CASE sequence = <<Esc>> -> <<[ctl |-> "c"]>>
    [] \E c \in Letters : sequence = <<c>> -> <<[ctl |-> sequence[1]]>>
    [] OTHER -> sequence

ApplyAltModifier(sequence) ==
  IF Len(sequence) # 1 THEN sequence ELSE <<Esc>> \o sequence

(* handleTerminalData: Ctrl first.  Neither is switched off by a key.      *)
Typed(data, ctrlActive, altActive) ==
  LET processed == IF ctrlActive THEN ApplyCtrlModifier(data) ELSE data
  IN IF altActive THEN ApplyAltModifier(processed) ELSE processed

-------------------------------------------------------------------------------
(* The gateway names a session that its worker cannot reach Recovering; the *)
(* Console has no status for it.                                           *)

AttachmentStates == {"Attached", "DetachedGracePeriod", "Expired", "Exited", "Recovering"}
Connected == {"Attached", "DetachedGracePeriod"}

EffectiveState(state, workerOnline) ==
  IF ~workerOnline /\ state \in Connected THEN "Recovering" ELSE state

MapSessionStatus(status) ==
  CASE status = "Attached" -> "live"
    [] status = "DetachedGracePeriod" -> "detached"
    [] status = "Expired" -> "expired"
    [] status = "Exited" -> "exited"
    [] OTHER -> "undefined"

CanTerminate(status) == status \in {"live", "detached"}
CanDelete(status) == status \in {"exited", "expired"}

StatusMatchesFilter(status, filter) ==
  \/ filter = "all"
  \/ filter = status
  \/ filter = "exited" /\ status = "expired"

(* POST terminate: the answer, the worker's connection being the session's. *)
TerminateAnswer(state, workerOnline) ==
  CASE state \in AttachmentStates \ Connected -> 409
    [] state \in Connected /\ ~workerOnline -> 503
    [] OTHER -> 202

-------------------------------------------------------------------------------
(* getPageNumbers: the buttons under a table; 0 stands for the dots.       *)

Dots == 0
MaxVisiblePages == 5
Run(a, b) == [i \in 1 .. b + 1 - a |-> a + i - 1]

GetPageNumbers(currentPage, totalPages) ==
  CASE totalPages <= MaxVisiblePages -> Run(1, totalPages)
    [] totalPages > MaxVisiblePages /\ currentPage <= 3 ->
         Run(1, 4) \o <<Dots, totalPages>>
    [] totalPages > MaxVisiblePages /\ currentPage > 3 /\ currentPage >= totalPages - 2 ->
         <<1, Dots>> \o Run(totalPages - 3, totalPages)
    [] OTHER ->
         <<1, Dots>> \o Run(currentPage - 1, currentPage + 1) \o <<Dots, totalPages>>

-------------------------------------------------------------------------------
(* The event log: for every scope (a session, or a launch that has none    *)
(* yet) the times of its last events.  The scopes are in the order in      *)
(* which the stored object lists them.                                     *)

Entries(logs, key) ==
  LET own == SelectSeq(logs, LAMBDA s : s.key = key)
  IN IF own = <<>> THEN <<>> ELSE own[1].entries

(* { ...logs, [key]: entries }                                             *)
Put(logs, key, entries) ==
  IF \E i \in DOMAIN logs : logs[i].key = key
  THEN [i \in DOMAIN logs |->
          IF logs[i].key = key THEN [logs[i] EXCEPT !.entries = entries] ELSE logs[i]]
  ELSE Append(logs, [key |-> key, entries |-> entries])

LastOf(entries, n) == SubSeq(entries, IF Len(entries) > n THEN Len(entries) - n + 1 ELSE 1,
                             Len(entries))

(* pruneLogsByScope: events that are too old, empty scopes, and all but    *)
(* the maxScopes scopes that were used last are dropped.                   *)
Prune(logs, cutoff, maxEvents, maxScopes) ==
  LET kept == SelectSeq(
                [i \in DOMAIN logs |->
                   [logs[i] EXCEPT !.entries =
                      LastOf(SelectSeq(@, LAMBDA at : at >= cutoff), maxEvents)]],
                LAMBDA s : s.entries # <<>>)
      at(i) == Last(kept[i].entries)
      rank(i) == Cardinality({j \in DOMAIN kept : at(j) > at(i) \/ (at(j) = at(i) /\ j < i)}) + 1
      sorted == [r \in DOMAIN kept |-> kept[CHOOSE i \in DOMAIN kept : rank(i) = r]]
  IN SubSeq(sorted, 1, IF Len(sorted) > maxScopes THEN maxScopes ELSE Len(sorted))

AppendEvent(logs, key, now, ttl, maxEvents, maxScopes) ==
  Prune(Put(logs, key, LastOf(Append(Entries(logs, key), now), maxEvents)),
        now - ttl, maxEvents, maxScopes)

(* moveScope: the log of a launch goes on as the log of its session.       *)
MoveScope(logs, from, to, now, ttl, maxEvents, maxScopes) ==
  LET merged == LastOf(SortSeq(Entries(logs, to) \o Entries(logs, from), <), maxEvents)
      others == SelectSeq(logs, LAMBDA s : s.key # from)
  IN IF from = to THEN Prune(logs, now - ttl, maxEvents, maxScopes)
     ELSE Prune(IF merged = <<>> THEN others ELSE Put(others, to, merged),
                now - ttl, maxEvents, maxScopes)

================================================================================
