----------------------- MODULE SessionCoordinatorProofs -----------------------
(***************************************************************************)
(* Proofs about SessionCoordinator, for any sets of sessions, clients,     *)
(* worker connections and tasks.  The first part holds for any bound on    *)
(* the operations in flight, with or without database failures.  The       *)
(* second is about operations one at a time, MaxInFlight = 1; what it says *)
(* of rows assumes besides that the database does not fail, DbMayFail =    *)
(* FALSE.                                                                  *)
(***************************************************************************)
EXTENDS SessionCoordinator, FiniteSetTheorems, TLAPS

(* The record that stands for "no session" is a well-formed record.        *)
LEMMA AbsentIsRecord == Absent \in Record /\ WellFormed(Absent)
BY NoneAssumption DEF Absent, Record, States, Running, Ended, WellFormed

(* The idle operation is a well-formed operation.                          *)
LEMMA IdleIsOperation ==
  /\ Idle \in Operation
  /\ \A s \in Sessions : WellFormed(Idle.staged[s])
BY AbsentIsRecord DEF Idle, Operation, Nothing, Kinds

(* Ending a record, whatever its state, leaves it well formed.             *)
LEMMA EndedIsWellFormed ==
  ASSUME NEW r \in Record, NEW state \in States
  PROVE  EndedRecord(r, state) \in Record /\ WellFormed(EndedRecord(r, state))
BY NoneAssumption DEF EndedRecord, Record, WellFormed

(* What a coordinator step may do to the flight of an operation.           *)
FlightOK(f) ==
  /\ f \in [Callers -> Operation]
  /\ \A a \in Callers, s \in Sessions : WellFormed(f[a].staged[s])

(* Phase 1: staging well-formed records keeps every flight well formed.    *)
LEMMA StageKeepsFlight ==
  ASSUME FlightOK(flight),
         NEW a \in Callers, NEW k \in Kinds, NEW S \in SUBSET Sessions,
         NEW new \in [S -> Record], \A s \in S : WellFormed(new[s]),
         Stage(a, k, S, new)
  PROVE  FlightOK(flight')
<1> DEFINE st == [s \in Sessions |-> IF s \in S THEN new[s] ELSE Absent]
           op == [kind |-> k, on |-> S, todo |-> S, staged |-> st]
<1>1. st \in [Sessions -> Record] /\ \A s \in Sessions : WellFormed(st[s])
  BY AbsentIsRecord
<1>2. op \in Operation
  BY <1>1 DEF Operation
<1>3. flight' = [flight EXCEPT ![a] = op]
  BY DEF Stage
<1>4. op.staged = st
  OBVIOUS
<1> HIDE DEF op, st
<1>5. QED
  BY <1>1, <1>2, <1>3, <1>4 DEF FlightOK

(* Giving up or completing an operation keeps every flight well formed.    *)
LEMMA FinishKeepsFlight ==
  ASSUME FlightOK(flight), NEW a \in Callers, Finish(a)
  PROVE  FlightOK(flight')
BY IdleIsOperation DEF FlightOK, Finish

(* Phase 3: writing a flight's staged records back.                        *)
LEMMA WriteBackKeepsRecords ==
  ASSUME mem \in [Sessions -> Record], RecordsWellFormed, FlightOK(flight),
         NEW a \in Callers, WriteBack(flight[a])
  PROVE  mem' \in [Sessions -> Record] /\ RecordsWellFormed'
<1>1. flight[a].staged \in [Sessions -> Record]
  BY DEF FlightOK, Operation
<1>2. QED
  BY <1>1 DEF WriteBack, RecordsWellFormed, FlightOK

(* Phase 2: a row write leaves a row in the table.                         *)
LEMMA RowAfterIsRow ==
  ASSUME NEW op \in Operation, NEW s \in Sessions, NEW row \in Record
  PROVE  RowAfter(op, s, row) \in Record
<1> DEFINE r == op.staged[s]
<1>1. r \in Record
  BY DEF Operation
<1>2. /\ Absent \in Record
      /\ [Absent EXCEPT !.state = r.state] \in Record
  BY <1>1, AbsentIsRecord DEF Record
<1>3. [row EXCEPT !.state = r.state, !.client = None] \in Record
  BY <1>1 DEF Record
<1>6. [row EXCEPT !.state = r.state, !.client = r.client, !.pending = @ \/ r.pending] \in Record
  BY <1>1 DEF Record
<1>4. /\ [row EXCEPT !.state = "Attached", !.client = None, !.pending = FALSE] \in Record
      /\ [row EXCEPT !.state = "Attached", !.client = None, !.wconn = r.wconn] \in Record
  BY <1>1 DEF Record, States, Running, Ended
<1>5. EndedRecord(row, r.state) \in Record
  BY <1>1 DEF Record, EndedRecord
<1> QED
  BY <1>1, <1>2, <1>3, <1>4, <1>5, <1>6 DEF RowAfter

(* A gateway restart loads well-formed records only.                       *)
LEMMA RecoveredIsWellFormed ==
  ASSUME NEW row \in Record
  PROVE  Recovered(row) \in Record /\ WellFormed(Recovered(row))
BY AbsentIsRecord, EndedIsWellFormed, NoneAssumption
   DEF Recovered, Record, States, Running, Ended, WellFormed

-----------------------------------------------------------------------------
(* The invariant, initially and at every step.                             *)

LEMMA InitIInv == Init => IInv
BY AbsentIsRecord, IdleIsOperation
   DEF Init, IInv, TypeOK, RecordsWellFormed, StagedWellFormed, Nothing

(* Phase 1 of the operations on one session.                               *)
LEMMA OneSessionStep ==
  ASSUME IInv, NEW a \in Callers, NEW s \in Sessions,
         \/ CreateSession(a, s)
         \/ MarkSessionStartFailed(a, s)
         \/ a \in Clients /\ DetachSession(a, s)
         \/ a \in Clients /\ \E b \in BOOLEAN : ReattachSession(a, s, b)
         \/ a \in Clients /\ MarkReplayCompleted(a, s)
         \/ a \in WorkerConns /\ SessionExited(a, s)
         \/ a \in Tasks /\ (DeleteSession(a, s) \/ RenameSession(a, s) \/ MoveSessionWorkspace(a, s))
  PROVE  IInv'
<1>1. mem[s] \in Record /\ WellFormed(mem[s]) /\ FlightOK(flight)
  BY DEF IInv, TypeOK, RecordsWellFormed, StagedWellFormed, FlightOK
<1>2. SUFFICES /\ FlightOK(flight')
               /\ mem' \in [Sessions -> Record] /\ RecordsWellFormed'
               /\ db' = db /\ created' \subseteq Sessions /\ worker' = worker /\ link' = link
  BY DEF IInv, TypeOK, StagedWellFormed, FlightOK
<1>3. /\ mem \in [Sessions -> Record] /\ RecordsWellFormed
      /\ created \subseteq Sessions /\ worker \in WorkerConns \cup {None}
  BY DEF IInv, TypeOK
<1>4. ASSUME NEW k \in Kinds, NEW r \in Record, WellFormed(r), Stage(a, k, {s}, [x \in {s} |-> r])
      PROVE  FlightOK(flight')
  BY <1>1, <1>4, StageKeepsFlight
<1>5. CASE CreateSession(a, s)
  <2> DEFINE c == IF a \in Clients THEN a ELSE None
             r == [state |-> "Attached", client |-> c, wconn |-> worker, pending |-> FALSE]
  <2>1. r \in Record /\ WellFormed(r)
    BY <1>3 DEF Record, States, Running, WellFormed
  <2>2. Stage(a, "create", {s}, [x \in {s} |-> r])
    BY <1>5 DEF CreateSession
  <2>3. FlightOK(flight')
    BY <2>1, <2>2, <1>4 DEF Kinds
  <2>4. QED
    BY <1>3, <1>5, <2>3 DEF CreateSession, RecordsWellFormed
<1>6. CASE MarkSessionStartFailed(a, s)
  <2>1. EndedRecord(mem[s], "Exited") \in Record /\ WellFormed(EndedRecord(mem[s], "Exited"))
    BY <1>1, EndedIsWellFormed DEF States, Ended
  <2>2. Stage(a, "exit", {s}, [x \in {s} |-> EndedRecord(mem[s], "Exited")])
    BY <1>6, [x \in {s} |-> EndedRecord(mem[x], "Exited")]
             = [x \in {s} |-> EndedRecord(mem[s], "Exited")] DEF MarkSessionStartFailed
  <2>3. FlightOK(flight')
    BY <2>1, <2>2, <1>4 DEF Kinds
  <2>4. QED
    BY <1>3, <1>6, <2>3 DEF MarkSessionStartFailed, RecordsWellFormed
<1>7. CASE a \in Clients /\ DetachSession(a, s)
  <2> DEFINE r == [mem[s] EXCEPT !.state = "DetachedGracePeriod", !.client = None, !.pending = FALSE]
  <2>1. r \in Record /\ WellFormed(r)
    BY <1>1, NoneAssumption DEF Record, States, Running, WellFormed
  <2>2. Stage(a, "detach", {s}, [x \in {s} |-> r])
    BY <1>7, [x \in {s} |-> [mem[x] EXCEPT !.state = "DetachedGracePeriod", !.client = None, !.pending = FALSE]]
             = [x \in {s} |-> r] DEF DetachSession
  <2>3. FlightOK(flight')
    BY <2>1, <2>2, <1>4 DEF Kinds
  <2>4. QED
    BY <1>3, <1>7, <2>3 DEF DetachSession, RecordsWellFormed
<1>8. CASE a \in Clients /\ \E b \in BOOLEAN : ReattachSession(a, s, b)
  <2> DEFINE r == Reattached(mem[s], a)
             k == IF mem[s].state \in Ended THEN "revive" ELSE "reattach"
  <2>1. r \in Record /\ WellFormed(r)
    BY <1>1, <1>8, NoneAssumption DEF Reattached, Record, States, Running, WellFormed
  <2>2. Stage(a, k, {s}, [x \in {s} |-> r])
    BY <1>8, [x \in {s} |-> Reattached(mem[x], a)] = [x \in {s} |-> r] DEF ReattachSession
  <2>3. k \in Kinds
    BY DEF Kinds
  <2>4. FlightOK(flight')
    BY <2>1, <2>2, <2>3, <1>4
  <2>5. QED
    BY <1>3, <1>8, <2>4 DEF ReattachSession, RecordsWellFormed
<1>9. CASE a \in Clients /\ MarkReplayCompleted(a, s)
  <2> DEFINE r == [mem[s] EXCEPT !.pending = FALSE]
  <2>1. r \in Record /\ WellFormed(r)
    BY <1>1 DEF Record, WellFormed
  <2>2. Stage(a, "replayDone", {s}, [x \in {s} |-> r])
    BY <1>9, [x \in {s} |-> [mem[x] EXCEPT !.pending = FALSE]] = [x \in {s} |-> r]
       DEF MarkReplayCompleted
  <2>3. FlightOK(flight')
    BY <2>1, <2>2, <1>4 DEF Kinds
  <2>4. QED
    BY <1>3, <1>9, <2>3 DEF MarkReplayCompleted, RecordsWellFormed
<1>10. [x \in {s} |-> mem[x]] = [x \in {s} |-> mem[s]]
  OBVIOUS
<1>11. CASE a \in WorkerConns /\ SessionExited(a, s)
  <2>1. FlightOK(flight')
    BY <1>1, <1>4, <1>10, <1>11 DEF SessionExited, Kinds
  <2>2. QED
    BY <1>3, <1>11, <2>1, AbsentIsRecord DEF SessionExited, RecordsWellFormed
<1>12. CASE a \in Tasks /\ DeleteSession(a, s)
  <2>1. FlightOK(flight')
    BY AbsentIsRecord, <1>4, <1>12 DEF DeleteSession, Kinds
  <2>2. QED
    BY <1>3, <1>12, <2>1 DEF DeleteSession, RecordsWellFormed
<1>13. CASE a \in Tasks /\ (RenameSession(a, s) \/ MoveSessionWorkspace(a, s))
  <2>1. FlightOK(flight')
    BY <1>1, <1>4, <1>10, <1>13 DEF RenameSession, MoveSessionWorkspace, Kinds
  <2>2. QED
    BY <1>3, <1>13, <2>1 DEF RenameSession, MoveSessionWorkspace, RecordsWellFormed
<1>14. QED
  BY <1>5, <1>6, <1>7, <1>8, <1>9, <1>11, <1>12, <1>13

(* Phase 1 of the operations on all the sessions of the worker.            *)
LEMMA WorkerStep ==
  ASSUME IInv, NEW k \in WorkerConns,
         \/ RegisterWorker(k)
         \/ \E live \in SUBSET Sessions : ReportWorkerSessions(k, live)
         \/ \E t \in Tasks : WorkerDisconnected(t, k)
  PROVE  IInv'
<1>1. /\ mem \in [Sessions -> Record] /\ \A s \in Sessions : WellFormed(mem[s])
      /\ FlightOK(flight)
      /\ worker \in WorkerConns \cup {None}
      /\ link \in [WorkerConns -> {"new", "open", "closed"}]
  BY DEF IInv, TypeOK, RecordsWellFormed, StagedWellFormed, FlightOK
<1>2. SUFFICES /\ FlightOK(flight')
               /\ mem' = mem /\ db' = db /\ created' = created
               /\ worker' \in WorkerConns \cup {None}
               /\ link' \in [WorkerConns -> {"new", "open", "closed"}]
  BY DEF IInv, TypeOK, RecordsWellFormed, StagedWellFormed, FlightOK
<1>3. CASE RegisterWorker(k)
  <2> DEFINE S == {s \in Sessions : \/ mem[s].state = "Recovering"
                                    \/ mem[s].state \in Running /\ mem[s].wconn # k}
             new == [s \in S |-> [mem[s] EXCEPT
                       !.wconn = k,
                       !.state = IF @ = "Recovering" THEN "Attached" ELSE @]]
  <2>1. ASSUME NEW s \in S PROVE new[s] \in Record /\ WellFormed(new[s])
    BY <1>1 DEF Record, States, Running, WellFormed
  <2>2. Stage(k, "rebind", S, new)
    BY <1>3 DEF RegisterWorker
  <2>3. new \in [S -> Record] /\ S \in SUBSET Sessions /\ k \in Callers /\ "rebind" \in Kinds
    BY <2>1 DEF Callers, Kinds
  <2> HIDE DEF S, new
  <2>4. FlightOK(flight')
    BY <1>1, <2>1, <2>2, <2>3, StageKeepsFlight
  <2>5. QED
    BY <1>1, <1>3, <2>4 DEF RegisterWorker
<1>4. ASSUME NEW live \in SUBSET Sessions, ReportWorkerSessions(k, live)
      PROVE  FlightOK(flight')
  <2> DEFINE S == {s \in Sessions \ live : /\ mem[s].state \in Running \cup {"Recovering"}
                                           /\ ~Shielded(mem[s])}
             new == [s \in S |-> EndedRecord(mem[s], "Expired")]
  <2>1. ASSUME NEW s \in S PROVE new[s] \in Record /\ WellFormed(new[s])
    BY <1>1, EndedIsWellFormed DEF States, Ended
  <2>2. Stage(k, "reconcile", S, new)
    BY <1>4 DEF ReportWorkerSessions
  <2>3. new \in [S -> Record] /\ S \in SUBSET Sessions /\ k \in Callers /\ "reconcile" \in Kinds
    BY <2>1 DEF Callers, Kinds
  <2> HIDE DEF S, new
  <2>4. QED
    BY <1>1, <2>1, <2>2, <2>3, StageKeepsFlight
<1>5. CASE \E live \in SUBSET Sessions : ReportWorkerSessions(k, live)
  BY <1>1, <1>4, <1>5 DEF ReportWorkerSessions
<1>6. ASSUME NEW t \in Tasks, WorkerDisconnected(t, k), worker = k
      PROVE  FlightOK(flight')
  <2> DEFINE S == {s \in Sessions : mem[s].state \in Running /\ mem[s].wconn = k}
             new == [s \in S |-> [EndedRecord(mem[s], "Recovering") EXCEPT !.wconn = None]]
  <2>1. ASSUME NEW s \in S PROVE new[s] \in Record /\ WellFormed(new[s])
    <3> DEFINE r == EndedRecord(mem[s], "Recovering")
    <3>1. r \in Record /\ WellFormed(r)
      BY <1>1, EndedIsWellFormed DEF States
    <3> HIDE DEF r
    <3>2. [r EXCEPT !.wconn = None] \in Record /\ WellFormed([r EXCEPT !.wconn = None])
      BY <3>1 DEF Record, WellFormed
    <3>3. QED
      BY <3>2 DEF r
  <2>2. Stage(t, "lost", S, new)
    BY <1>6 DEF WorkerDisconnected
  <2>3. new \in [S -> Record] /\ S \in SUBSET Sessions /\ t \in Callers /\ "lost" \in Kinds
    BY <2>1 DEF Callers, Kinds
  <2> HIDE DEF S, new
  <2>4. QED
    BY <1>1, <2>1, <2>2, <2>3, StageKeepsFlight
<1>7. CASE \E t \in Tasks : WorkerDisconnected(t, k)
  <2> PICK t \in Tasks : WorkerDisconnected(t, k)
    BY <1>7
  <2>1. FlightOK(flight')
    BY <1>1, <1>6 DEF WorkerDisconnected
  <2>2. QED
    BY <1>1, <2>1 DEF WorkerDisconnected
<1>8. QED
  BY <1>3, <1>5, <1>7

(* Phases 2 and 3, and the ways an operation can fail.                     *)
LEMMA ContinueStep == IInv /\ Continue => IInv'
<1> SUFFICES ASSUME IInv, NEW a \in Callers,
                    \/ \E s \in Sessions : PersistRow(a, s)
                    \/ DeleteMisses(a)
                    \/ PersistFails(a)
                    \/ ApplyStaged(a)
                    \/ \E viaHub \in BOOLEAN : ApplyRevival(a, viaHub)
                    \/ RestartShell(a)
                    \/ ApplyReplayCompleted(a)
                    \/ ApplyMove(a)
                    \/ EndRemove(a)
             PROVE  IInv'
  BY DEF Continue
<1>1. /\ mem \in [Sessions -> Record] /\ RecordsWellFormed
      /\ db \in [Sessions -> Record]
      /\ FlightOK(flight)
      /\ flight[a] \in Operation
      /\ flight[a].staged \in [Sessions -> Record]
      /\ \A s \in Sessions : WellFormed(flight[a].staged[s])
      /\ worker \in WorkerConns \cup {None}
  BY DEF IInv, TypeOK, RecordsWellFormed, StagedWellFormed, FlightOK, Operation
<1>2. SUFFICES ASSUME UNCHANGED <<created, worker, link>>
               PROVE  /\ FlightOK(flight')
                      /\ mem' \in [Sessions -> Record] /\ RecordsWellFormed'
                      /\ db' \in [Sessions -> Record]
  BY DEF IInv, TypeOK, StagedWellFormed, FlightOK, PersistRow, DeleteMisses, PersistFails,
         ApplyStaged, ApplyRevival, RestartShell, ApplyReplayCompleted, ApplyMove, EndRemove
<1>3. Finish(a) => FlightOK(flight')
  BY <1>1, FinishKeepsFlight
<1>4. mem' = mem => mem' \in [Sessions -> Record] /\ RecordsWellFormed'
  BY <1>1 DEF RecordsWellFormed
<1>5. CASE \E s \in Sessions : PersistRow(a, s)
  <2> PICK s \in Sessions : PersistRow(a, s)
    BY <1>5
  <2>1. RowAfter(flight[a], s, db[s]) \in Record
    BY <1>1, RowAfterIsRow
  <2>2. db' \in [Sessions -> Record]
    BY <1>1, <2>1 DEF PersistRow
  <2> DEFINE op == [flight[a] EXCEPT !.todo = @ \ {s}]
  <2>3. op \in Operation /\ op.staged = flight[a].staged
    BY <1>1 DEF Operation
  <2>4. flight' = [flight EXCEPT ![a] = op]
    BY DEF PersistRow
  <2> HIDE DEF op
  <2>5. FlightOK(flight')
    BY <1>1, <2>3, <2>4 DEF FlightOK
  <2>6. QED
    BY <1>4, <2>2, <2>5 DEF PersistRow
<1>6. CASE DeleteMisses(a) \/ PersistFails(a) \/ EndRemove(a)
  BY <1>1, <1>3, <1>4, <1>6 DEF DeleteMisses, PersistFails, EndRemove
<1>7. CASE ApplyStaged(a)
  BY <1>1, <1>3, <1>7, WriteBackKeepsRecords DEF ApplyStaged
<1>8. CASE \E viaHub \in BOOLEAN : ApplyRevival(a, viaHub)
  <2>1. mem' \in [Sessions -> Record] /\ RecordsWellFormed'
    BY <1>1, <1>8, WriteBackKeepsRecords DEF ApplyRevival
  <2> DEFINE op == [flight[a] EXCEPT !.kind = "restart"]
  <2>2. op \in Operation /\ op.staged = flight[a].staged
    BY <1>1 DEF Operation, Kinds
  <2>3. Finish(a) \/ flight' = [flight EXCEPT ![a] = op]
    BY <1>8 DEF ApplyRevival
  <2> HIDE DEF op
  <2>4. FlightOK(flight')
    BY <1>1, <1>3, <2>2, <2>3 DEF FlightOK
  <2>5. QED
    BY <1>1, <1>8, <2>1, <2>4 DEF ApplyRevival
<1>9. CASE RestartShell(a)
  <2>1. ASSUME NEW r \in Record, NEW k \in WorkerConns, WellFormed(r)
        PROVE  [r EXCEPT !.wconn = k] \in Record /\ WellFormed([r EXCEPT !.wconn = k])
    BY <2>1 DEF Record, WellFormed
  <2> DEFINE moves(s) == s \in flight[a].on /\ mem[s].state # "Absent" /\ worker # None
             new(s) == IF moves(s) THEN [mem[s] EXCEPT !.wconn = worker] ELSE mem[s]
  <2>2. \A s \in Sessions : new(s) \in Record /\ WellFormed(new(s))
    BY <1>1, <2>1 DEF RecordsWellFormed
  <2>3. mem' = [s \in Sessions |-> new(s)]
    BY <1>9 DEF RestartShell
  <2> HIDE DEF new
  <2>4. mem' \in [Sessions -> Record] /\ RecordsWellFormed'
    BY <2>2, <2>3 DEF RecordsWellFormed
  <2>5. QED
    BY <1>1, <1>3, <1>9, <2>4 DEF RestartShell
<1>10. CASE ApplyReplayCompleted(a)
  BY <1>1, <1>3, <1>10 DEF ApplyReplayCompleted, RecordsWellFormed
<1>11. CASE ApplyMove(a)
  BY <1>1, <1>3, <1>11 DEF ApplyMove, RecordsWellFormed
<1>12. QED
  BY <1>5, <1>6, <1>7, <1>8, <1>9, <1>10, <1>11

LEMMA RestartStep == IInv /\ GatewayRestart => IInv'
<1> SUFFICES ASSUME IInv, GatewayRestart PROVE IInv'
  OBVIOUS
<1>1. db \in [Sessions -> Record] /\ link \in [WorkerConns -> {"new", "open", "closed"}]
  BY DEF IInv, TypeOK
<1>2. mem' \in [Sessions -> Record] /\ RecordsWellFormed'
  BY <1>1, RecoveredIsWellFormed DEF GatewayRestart, RecordsWellFormed
<1>3. FlightOK(flight')
  BY IdleIsOperation DEF GatewayRestart, FlightOK
<1>4. db' \in [Sessions -> Record]
  <2>1. \A r \in Record : [r EXCEPT !.state = "DetachedGracePeriod", !.client = None] \in Record
    BY DEF Record, States, Running
  <2>2. QED
    BY <1>1, <2>1 DEF GatewayRestart
<1>5. worker' \in WorkerConns \cup {None} /\ created' \subseteq Sessions
      /\ link' \in [WorkerConns -> {"new", "open", "closed"}]
  BY <1>1 DEF GatewayRestart, IInv, TypeOK
<1>6. QED
  BY <1>2, <1>3, <1>4, <1>5 DEF IInv, TypeOK, StagedWellFormed, FlightOK

LEMMA NextIInv == IInv /\ [Next]_vars => IInv'
<1>1. CASE UNCHANGED vars
  BY <1>1 DEF vars, IInv, TypeOK, RecordsWellFormed, StagedWellFormed
<1>2. ASSUME IInv, Next PROVE IInv'
  <2>1. CASE \E a \in Callers, s \in Sessions : CreateSession(a, s) \/ MarkSessionStartFailed(a, s)
    BY <1>2, <2>1, OneSessionStep
  <2>2. CASE ClientCall
    BY <1>2, <2>2, OneSessionStep DEF ClientCall, Callers
  <2>3. CASE WorkerCall
    BY <1>2, <2>3, OneSessionStep, WorkerStep DEF WorkerCall, Callers
  <2>4. CASE TaskCall
    BY <1>2, <2>4, OneSessionStep DEF TaskCall, Callers
  <2>5. CASE Continue
    BY <1>2, <2>5, ContinueStep
  <2>6. CASE GatewayRestart
    BY <1>2, <2>6, RestartStep
  <2>7. QED
    BY <1>2, <2>1, <2>2, <2>3, <2>4, <2>5, <2>6 DEF Next
<1>3. QED
  BY <1>1, <1>2

-----------------------------------------------------------------------------
(* Theorems.                                                               *)

(* The inductive invariant holds in every reachable state.                 *)
THEOREM Invariance == Spec => []IInv
BY InitIInv, NextIInv, PTL DEF Spec

(* Every variable of the coordinator keeps its type, whatever interleaves. *)
THEOREM TypeCorrect == Spec => []TypeOK
<1>1. IInv => TypeOK
  BY DEF IInv
<1>2. QED
  BY Invariance, <1>1, PTL

(* A record names a client only while Attached and awaits a replay only    *)
(* under a client, for any number of operations in flight on any number of *)
(* sessions, with failing writes and gateway restarts at any moment: the   *)
(* lost updates of the three-phase operations never mix two records.       *)
THEOREM RecordsStayWellFormed == Spec => []RecordsWellFormed
<1>1. IInv => RecordsWellFormed
  BY DEF IInv
<1>2. QED
  BY Invariance, <1>1, PTL

-----------------------------------------------------------------------------
(* A replay that completes was staged under the client that holds it.      *)
ReplayStaged ==
  \A a \in Callers : flight[a].kind = "replayDone" =>
    \A s \in flight[a].on :
      flight[a].staged[s].state = "Attached" /\ flight[a].staged[s].client = a

(* What phase 1 leaves in the flight of its caller.                        *)
LEMMA StagedFlight ==
  ASSUME flight \in [Callers -> Operation], NEW a \in Callers, NEW k, NEW S, NEW new,
         Stage(a, k, S, new)
  PROVE  /\ flight'[a].kind = k /\ flight'[a].on = S /\ flight'[a].todo = S
         /\ \A s \in Sessions : flight'[a].staged[s] = IF s \in S THEN new[s] ELSE Absent
         /\ \A b \in Callers \ {a} : flight'[b] = flight[b]
BY DEF Stage

(* Phases 2 and 3 of an operation of caller a.                             *)
ContinueOf(a) ==
  \/ \E s \in Sessions : PersistRow(a, s)
  \/ DeleteMisses(a) \/ PersistFails(a) \/ ApplyStaged(a)
  \/ \E viaHub \in BOOLEAN : ApplyRevival(a, viaHub)
  \/ RestartShell(a) \/ ApplyReplayCompleted(a) \/ ApplyMove(a) \/ EndRemove(a)

LEMMA ContinueFlight ==
  ASSUME flight \in [Callers -> Operation], NEW a \in Callers, ContinueOf(a)
  PROVE  /\ \A b \in Callers \ {a} : flight'[b] = flight[b]
         /\ \/ flight'[a] = Idle
            \/ /\ flight'[a].on = flight[a].on /\ flight'[a].staged = flight[a].staged
               /\ flight'[a].kind \in {flight[a].kind, "restart"}
<1>1. CASE \E s \in Sessions : PersistRow(a, s)
  <2> PICK s \in Sessions : PersistRow(a, s)
    BY <1>1
  <2>1. flight' = [flight EXCEPT ![a] = [flight[a] EXCEPT !.todo = @ \ {s}]]
    BY DEF PersistRow
  <2>2. flight[a] \in Operation
    OBVIOUS
  <2> QED
    BY <2>1, <2>2 DEF Operation
<1>2. CASE \E viaHub \in BOOLEAN : ApplyRevival(a, viaHub)
  <2>1. \/ flight' = [flight EXCEPT ![a] = [flight[a] EXCEPT !.kind = "restart"]]
        \/ flight' = [flight EXCEPT ![a] = Idle]
    BY <1>2 DEF ApplyRevival, Finish
  <2>2. flight[a] \in Operation
    OBVIOUS
  <2> QED
    BY <2>1, <2>2 DEF Operation
<1>3. CASE Finish(a)
  BY <1>3 DEF Finish
<1> QED
  BY <1>1, <1>2, <1>3 DEF ContinueOf, DeleteMisses, PersistFails, ApplyStaged, RestartShell,
       ApplyReplayCompleted, ApplyMove, EndRemove

LEMMA ReplayStagedStep == IInv /\ ReplayStaged /\ [Next]_vars => ReplayStaged'
<1> SUFFICES ASSUME IInv, ReplayStaged, [Next]_vars PROVE ReplayStaged'
  OBVIOUS
<1>1. flight \in [Callers -> Operation]
  BY DEF IInv, TypeOK
<1>2. ASSUME NEW a \in Callers, NEW k, NEW S, NEW new, Stage(a, k, S, new), k # "replayDone"
      PROVE  ReplayStaged'
  BY <1>1, <1>2, StagedFlight DEF ReplayStaged
<1>3. CASE flight' = flight
  BY <1>3 DEF ReplayStaged
<1>4. ASSUME NEW a \in Callers, NEW s \in Sessions, CreateSession(a, s) \/ MarkSessionStartFailed(a, s)
      PROVE  ReplayStaged'
  BY <1>2, <1>4 DEF CreateSession, MarkSessionStartFailed
<1>5. ASSUME NEW c \in Clients, NEW s \in Sessions,
             DetachSession(c, s) \/ \E b \in BOOLEAN : ReattachSession(c, s, b)
      PROVE  ReplayStaged'
  BY <1>2, <1>5 DEF DetachSession, ReattachSession, Callers
<1>6. ASSUME NEW c \in Clients, NEW s \in Sessions, MarkReplayCompleted(c, s)
      PROVE  ReplayStaged'
  <2> DEFINE new == [x \in {s} |-> [mem[x] EXCEPT !.pending = FALSE]]
  <2>1. Stage(c, "replayDone", {s}, new) /\ mem[s].state = "Attached" /\ mem[s].client = c
    BY <1>6 DEF MarkReplayCompleted
  <2>2. mem[s] \in Record
    BY DEF IInv, TypeOK
  <2>3. new[s].state = "Attached" /\ new[s].client = c
    BY <2>1, <2>2 DEF Record
  <2> HIDE DEF new
  <2>4. c \in Callers
    BY DEF Callers
  <2> QED
    BY <1>1, <2>1, <2>3, <2>4, StagedFlight DEF ReplayStaged
<1>7. CASE WorkerCall
  BY <1>2, <1>3, <1>7 DEF WorkerCall, RegisterWorker, ReportWorkerSessions, SessionExited,
       WorkerDisconnected, Callers
<1>8. CASE TaskCall
  BY <1>2, <1>8 DEF TaskCall, DeleteSession, RenameSession, MoveSessionWorkspace, Callers
<1>9. ASSUME NEW a \in Callers, ContinueOf(a) PROVE ReplayStaged'
  BY <1>1, <1>9, ContinueFlight DEF ReplayStaged, Idle
<1>10. CASE GatewayRestart
  BY <1>10 DEF GatewayRestart, ReplayStaged, Idle
<1> QED
  BY <1>3, <1>4, <1>5, <1>6, <1>7, <1>8, <1>9, <1>10
     DEF Next, vars, ClientCall, Continue, ContinueOf

(* Completing a replay gives or takes nobody's attachment, whatever        *)
(* happened to the session while the row was written.                      *)
THEOREM ReplayCompletion == Spec => ReplayCompletionKeepsHolder
<1>1. Init => ReplayStaged
  BY DEF Init, ReplayStaged, Idle
<1>2. IInv /\ ReplayStaged => [\A c \in Clients : KeepsHolder(c)]_vars
  <2> SUFFICES ASSUME IInv, ReplayStaged, NEW c \in Clients, ApplyReplayCompleted(c),
                      NEW s \in Sessions
               PROVE  mem'[s].client = mem[s].client /\ mem'[s].state = mem[s].state
    BY DEF KeepsHolder
  <2>1. c \in Callers
    BY DEF Callers
  <2> QED
    BY <2>1 DEF ApplyReplayCompleted, ReplayStaged
<1> QED
  BY Invariance, ReplayStagedStep, <1>1, <1>2, PTL DEF Spec, ReplayCompletionKeepsHolder

-----------------------------------------------------------------------------
(* Operations one at a time.  The inductive invariant says what the one    *)
(* operation in flight owes to the records it staged from: the map has not *)
(* moved since, and the staged copy is what the operation promised.        *)

Free(state) == Contract!Free(state)
Held(c, pending) == Contract!Held(c, pending)

OneAtATime ==
  /\ \A a \in Callers : flight[a].kind = "idle" => flight[a] = Idle
  /\ \A a, b \in Callers : flight[a].kind # "idle" /\ flight[b].kind # "idle" => a = b

Several == {"rebind", "lost", "reconcile"}

Shape(op) ==
  /\ op.todo \subseteq op.on
  /\ op.kind \notin Several \cup {"idle"} => \E s \in Sessions : op.on = {s}
  /\ op.kind = "restart" => op.todo = {}

(* Of an operation k of caller a that found the record r and staged n.     *)
Fits(k, a, r, n) ==
  /\ k = "create" => r.state = "Absent" /\ n.state = "Attached" /\ ~n.pending
  /\ k = "detach" =>
       /\ a \in Clients /\ r.state # "Absent" /\ r.client \in {None, a}
       /\ View(n) = Free("DetachedGracePeriod")
  /\ k \in {"reattach", "revive"} =>
       a \in Clients /\ r.state # "Absent" /\ View(n) = Held(a, r.state # "Recovering")
  /\ k = "restart" => n = r
  /\ k = "exit" => r.state # "Absent" /\ View(n) = Free("Exited")
  /\ k = "remove" => r.state = "Absent"
  /\ k = "delete" => n = Absent
  /\ k = "replayDone" =>
       a \in Clients /\ r.state = "Attached" /\ r.client = a /\ n = [r EXCEPT !.pending = FALSE]
  /\ k = "rebind" =>
       \/ r.state = "Recovering" /\ View(n) = Free("Attached")
       \/ r.state \in Running /\ View(n) = View(r)
  /\ k = "lost" => r.state \in Running /\ View(n) = Free("Recovering")
  /\ k = "reconcile" =>
       r.state \in Running \cup {"Recovering"} /\ r.client = None /\ View(n) = Free("Expired")
  /\ k \in {"rename", "move"} => r.state # "Absent" /\ n = r

Staging ==
  \A a \in Callers :
    /\ Shape(flight[a])
    /\ \A s \in flight[a].on : Fits(flight[a].kind, a, mem[s], flight[a].staged[s])

(* What has not been created is nowhere.                                   *)
Fresh ==
  \A s \in Sessions \ created :
    /\ mem[s].state = "Absent" /\ db[s].state = "Absent"
    /\ \A a \in Callers : s \notin flight[a].on

(* What has a record, as of its last row write, has a row.                 *)
Backed == \A s \in Sessions : Effective(s).state # "Absent" => db[s].state # "Absent"

(* The invariant of operations one at a time, and of those that never fail.*)
Orderly == OneAtATime /\ Staging /\ Fresh /\ Backed
Serial  == Orderly /\ RowsAgree

(* The record of s as of its last row write, with one operation op.        *)
Written(op, s) ==
  \/ op.kind = "remove" /\ s \in op.todo
  \/ op.kind # "remove" /\ s \in op.on \ op.todo

Alone(f, a) == \A b \in Callers \ {a} : f[b] = Idle

EffectiveIn(f, m, s) ==
  LET W(a) == Written(f[a], s)
  IN IF \E a \in Callers : W(a) THEN f[CHOOSE a \in Callers : W(a)].staged[s] ELSE m[s]

LEMMA EffectiveIsIn ==
  \A s : Effective(s) = EffectiveIn(flight, mem, s)
         /\ Effective(s)' = EffectiveIn(flight', mem', s)
BY DEF Effective, EffectiveIn, Written

LEMMA EffectiveAlone ==
  ASSUME NEW f, NEW m, NEW a \in Callers, Alone(f, a), NEW s
  PROVE  EffectiveIn(f, m, s) = IF Written(f[a], s) THEN f[a].staged[s] ELSE m[s]
<1> DEFINE W(b) == Written(f[b], s)
<1>1. \A b \in Callers \ {a} : ~W(b)
  BY DEF Alone, Written, Idle
<1> HIDE DEF W
<1>2. CASE W(a)
  <2>1. (CHOOSE b \in Callers : W(b)) \in Callers /\ W(CHOOSE b \in Callers : W(b))
    BY <1>2
  <2>2. (CHOOSE b \in Callers : W(b)) = a
    BY <1>1, <2>1
  <2> QED
    BY <1>2, <2>2 DEF EffectiveIn, W
<1>3. CASE ~W(a)
  <2>1. ~\E b \in Callers : W(b)
    BY <1>1, <1>3
  <2> QED
    BY <1>3, <2>1 DEF EffectiveIn, W
<1> QED
  BY <1>2, <1>3

LEMMA EffectiveIdle ==
  ASSUME NEW f, NEW m, \A b \in Callers : f[b] = Idle, NEW s
  PROVE  EffectiveIn(f, m, s) = m[s]
BY DEF EffectiveIn, Written, Idle

LEMMA BusyAlone ==
  ASSUME OneAtATime, NEW a \in Callers, flight[a].kind # "idle"
  PROVE  Alone(flight, a)
BY DEF OneAtATime, Alone

(* An operation begins only when none is in flight.                        *)
LEMMA NoneInFlight ==
  ASSUME OneAtATime, MaxInFlight = 1, Cardinality(Busy) < MaxInFlight
  PROVE  \A a \in Callers : flight[a] = Idle
<1> SUFFICES ASSUME NEW a \in Callers, flight[a].kind # "idle" PROVE FALSE
  BY DEF OneAtATime
<1>1. Busy = {a}
  BY DEF Busy, OneAtATime
<1>2. Cardinality({a}) = 1
  BY FS_Singleton
<1> QED
  BY <1>1, <1>2

(* What phase 1 of any operation amounts to.                               *)
Begun(a, k, S, st) ==
  /\ flight[a].kind = "idle" /\ Cardinality(Busy) < MaxInFlight
  /\ flight' = [flight EXCEPT ![a] = [kind |-> k, on |-> S, todo |-> S, staged |-> st]]
  /\ \A s \in Sessions : mem'[s] = IF k = "remove" /\ s \in S THEN Absent ELSE mem[s]
  /\ db' = db
  /\ created \subseteq created' /\ S \subseteq created'
  /\ k \notin {"idle", "restart"}
  /\ k \notin Several => \E s \in Sessions : S = {s}
  /\ \A s \in S : Fits(k, a, mem'[s], st[s]) /\ (k = "remove" => st[s] = mem[s])

Begins == \E a \in Callers : \E k : \E S \in SUBSET Sessions : \E st : Begun(a, k, S, st)

LEMMA StageBegins ==
  ASSUME NEW a \in Callers, NEW k, NEW S \in SUBSET Sessions, NEW new,
         Stage(a, k, S, new), db' = db, created \subseteq created', S \subseteq created',
         \A s \in Sessions : mem'[s] = IF k = "remove" /\ s \in S THEN Absent ELSE mem[s],
         k \notin {"idle", "restart"},
         k \notin Several => \E s \in Sessions : S = {s},
         \A s \in S : Fits(k, a, mem'[s], new[s]) /\ (k = "remove" => new[s] = mem[s])
  PROVE  Begins
<1> DEFINE st == [s \in Sessions |-> IF s \in S THEN new[s] ELSE Absent]
<1>1. flight' = [flight EXCEPT ![a] = [kind |-> k, on |-> S, todo |-> S, staged |-> st]]
  BY DEF Stage
<1>2. \A s \in S : st[s] = new[s]
  OBVIOUS
<1> HIDE DEF st
<1>3. Begun(a, k, S, st)
  BY <1>1, <1>2 DEF Begun, Stage
<1> QED
  BY <1>3 DEF Begins

(* The one session of an operation, when the map does not change.          *)
LEMMA OneBegins ==
  ASSUME mem \in [Sessions -> Record], NEW a \in Callers, NEW k, NEW s \in Sessions, NEW new,
         Stage(a, k, {s}, new), UNCHANGED <<mem, db>>,
         created \subseteq created', s \in created', k \notin Several \cup {"idle", "restart", "remove"},
         Fits(k, a, mem[s], new[s])
  PROVE  Begins
<1>1. \A x \in Sessions : mem'[x] = IF k = "remove" /\ x \in {s} THEN Absent ELSE mem[x]
  OBVIOUS
<1> QED
  BY <1>1, StageBegins

(* The many sessions of an operation on a worker.                          *)
LEMMA SeveralBegin ==
  ASSUME NEW a \in Callers, NEW k \in Several, NEW S \in SUBSET Sessions, NEW new,
         Stage(a, k, S, new), UNCHANGED <<mem, db, created>>,
         \A s \in S : Fits(k, a, mem[s], new[s]) /\ s \in created
  PROVE  Begins
<1>1. /\ S \subseteq created' /\ created \subseteq created' /\ db' = db
      /\ k \notin {"idle", "restart", "remove"}
      /\ \A s \in S : Fits(k, a, mem'[s], new[s])
  BY DEF Several
<1> QED
  BY <1>1, StageBegins

LEMMA ClientBegins ==
  ASSUME IInv, Fresh, NEW c \in Clients, NEW s \in Sessions,
         \/ DetachSession(c, s)
         \/ \E b \in BOOLEAN : ReattachSession(c, s, b)
         \/ MarkReplayCompleted(c, s)
  PROVE  Begins
<1>1. mem \in [Sessions -> Record] /\ mem[s] \in Record /\ WellFormed(mem[s]) /\ c \in Callers
  BY DEF IInv, TypeOK, RecordsWellFormed, Callers
<1>2. mem[s].state # "Absent" /\ UNCHANGED <<mem, db, created>>
  BY DEF DetachSession, ReattachSession, MarkReplayCompleted
<1>3. s \in created'
  BY <1>2 DEF Fresh
<1>4. CASE DetachSession(c, s)
  <2> DEFINE new == [x \in {s} |->
               [mem[x] EXCEPT !.state = "DetachedGracePeriod", !.client = None, !.pending = FALSE]]
  <2>1. Stage(c, "detach", {s}, new) /\ mem[s].client \in {None, c}
    BY <1>4 DEF DetachSession, MayDetach
  <2>2. View(new[s]) = Free("DetachedGracePeriod")
    BY <1>1 DEF View, Free, Contract!Free, Record
  <2> HIDE DEF new
  <2>3. Fits("detach", c, mem[s], new[s])
    BY <1>2, <2>1, <2>2 DEF Fits
  <2> QED
    BY <1>1, <1>2, <1>3, <2>1, <2>3, OneBegins DEF Several
<1>5. CASE \E b \in BOOLEAN : ReattachSession(c, s, b)
  <2> DEFINE new == [x \in {s} |-> Reattached(mem[x], c)]
             k == IF mem[s].state \in Ended THEN "revive" ELSE "reattach"
  <2>1. Stage(c, k, {s}, new)
    BY <1>5 DEF ReattachSession
  <2>2. View(new[s]) = Held(c, mem[s].state # "Recovering")
    BY <1>1 DEF View, Held, Contract!Held, Reattached, Record
  <2>3. k \in {"revive", "reattach"}
    OBVIOUS
  <2> HIDE DEF new, k
  <2>4. Fits(k, c, mem[s], new[s])
    BY <1>2, <2>2, <2>3 DEF Fits
  <2> QED
    BY <1>1, <1>2, <1>3, <2>1, <2>3, <2>4, OneBegins DEF Several
<1>6. CASE MarkReplayCompleted(c, s)
  <2> DEFINE new == [x \in {s} |-> [mem[x] EXCEPT !.pending = FALSE]]
  <2>1. Stage(c, "replayDone", {s}, new) /\ mem[s].state = "Attached" /\ mem[s].client = c
    BY <1>6 DEF MarkReplayCompleted
  <2>2. new[s] = [mem[s] EXCEPT !.pending = FALSE]
    OBVIOUS
  <2> HIDE DEF new
  <2>3. Fits("replayDone", c, mem[s], new[s])
    BY <2>1, <2>2 DEF Fits
  <2> QED
    BY <1>1, <1>2, <1>3, <2>1, <2>3, OneBegins DEF Several
<1> QED
  BY <1>4, <1>5, <1>6

LEMMA CallerBegins ==
  ASSUME IInv, Fresh, NEW a \in Callers, NEW s \in Sessions,
         CreateSession(a, s) \/ MarkSessionStartFailed(a, s)
  PROVE  Begins
<1>1. mem \in [Sessions -> Record] /\ mem[s] \in Record
  BY DEF IInv, TypeOK
<1>2. CASE CreateSession(a, s)
  <2> DEFINE c == IF a \in Clients THEN a ELSE None
             new == [x \in {s} |-> [state |-> "Attached", client |-> c,
                                    wconn |-> worker, pending |-> FALSE]]
  <2>1. /\ Stage(a, "create", {s}, new) /\ UNCHANGED <<mem, db>>
        /\ s \notin created /\ created' = created \cup {s}
    BY <1>2 DEF CreateSession
  <2>2. new[s].state = "Attached" /\ ~new[s].pending
    OBVIOUS
  <2> HIDE DEF new
  <2>3. Fits("create", a, mem[s], new[s])
    BY <2>1, <2>2 DEF Fits, Fresh
  <2> QED
    BY <1>1, <2>1, <2>3, OneBegins DEF Several
<1>3. CASE MarkSessionStartFailed(a, s)
  <2> DEFINE new == [x \in {s} |-> EndedRecord(mem[x], "Exited")]
  <2>1. /\ Stage(a, "exit", {s}, new) /\ UNCHANGED <<mem, db, created>>
        /\ mem[s].state # "Absent"
    BY <1>3 DEF MarkSessionStartFailed
  <2>2. View(new[s]) = Free("Exited")
    BY <1>1 DEF View, Free, Contract!Free, EndedRecord, Record
  <2> HIDE DEF new
  <2>3. Fits("exit", a, mem[s], new[s]) /\ s \in created'
    BY <2>1, <2>2 DEF Fits, Fresh
  <2> QED
    BY <1>1, <2>1, <2>3, OneBegins DEF Several
<1> QED
  BY <1>2, <1>3

LEMMA TaskBegins ==
  ASSUME IInv, Fresh, NEW t \in Tasks, NEW s \in Sessions,
         DeleteSession(t, s) \/ RenameSession(t, s) \/ MoveSessionWorkspace(t, s)
  PROVE  Begins
<1>1. mem \in [Sessions -> Record] /\ t \in Callers
  BY DEF IInv, TypeOK, Callers
<1>2. /\ UNCHANGED <<mem, db, created>>
      /\ mem[s].state # "Absent" \/ db[s].state # "Absent"
  BY DEF DeleteSession, RenameSession, MoveSessionWorkspace
<1>3. s \in created'
  BY <1>2 DEF Fresh
<1>4. CASE DeleteSession(t, s)
  <2> DEFINE new == [x \in {s} |-> Absent]
  <2>1. Stage(t, "delete", {s}, new) /\ new[s] = Absent
    BY <1>4 DEF DeleteSession
  <2> HIDE DEF new
  <2>2. Fits("delete", t, mem[s], new[s])
    BY <2>1 DEF Fits
  <2> QED
    BY <1>1, <1>2, <1>3, <2>1, <2>2, OneBegins DEF Several
<1>5. CASE RenameSession(t, s) \/ MoveSessionWorkspace(t, s)
  <2> DEFINE new == [x \in {s} |-> mem[x]]
  <2>1. PICK k \in {"rename", "move"} :
          Stage(t, k, {s}, new) /\ new[s] = mem[s] /\ mem[s].state # "Absent"
    BY <1>5 DEF RenameSession, MoveSessionWorkspace
  <2> HIDE DEF new
  <2>2. Fits(k, t, mem[s], new[s])
    BY <2>1 DEF Fits
  <2> QED
    BY <1>1, <1>2, <1>3, <2>1, <2>2, OneBegins DEF Several
<1> QED
  BY <1>4, <1>5

LEMMA WorkerBegins ==
  ASSUME IInv, Fresh, NEW k \in WorkerConns,
         \/ RegisterWorker(k)
         \/ \E live \in SUBSET Sessions : ReportWorkerSessions(k, live)
         \/ \E s \in Sessions : SessionExited(k, s)
         \/ \E t \in Tasks : WorkerDisconnected(t, k) /\ worker = k
  PROVE  Begins
<1>1. /\ mem \in [Sessions -> Record] /\ \A s \in Sessions : WellFormed(mem[s])
      /\ k \in Callers
  BY DEF IInv, TypeOK, RecordsWellFormed, Callers
<1>2. db' = db /\ created' = created /\ \A s \in Sessions : mem[s].state # "Absent" => s \in created
  BY DEF RegisterWorker, ReportWorkerSessions, SessionExited, WorkerDisconnected, Fresh
<1>4. CASE RegisterWorker(k)
  <2> DEFINE S == {s \in Sessions : \/ mem[s].state = "Recovering"
                                    \/ mem[s].state \in Running /\ mem[s].wconn # k}
             new == [s \in S |-> [mem[s] EXCEPT
                       !.wconn = k,
                       !.state = IF @ = "Recovering" THEN "Attached" ELSE @]]
  <2>1. Stage(k, "rebind", S, new) /\ UNCHANGED mem
    BY <1>4 DEF RegisterWorker
  <2>2. ASSUME NEW s \in S PROVE Fits("rebind", k, mem[s], new[s]) /\ s \in created
    <3>1. mem[s] \in Record /\ WellFormed(mem[s]) /\ mem[s].state \in Running \cup {"Recovering"}
      BY <1>1
    <3>2. new[s] = [mem[s] EXCEPT !.wconn = k,
                      !.state = IF mem[s].state = "Recovering" THEN "Attached" ELSE mem[s].state]
      BY <3>1
    <3>3. CASE mem[s].state = "Recovering"
      <4>1. View(new[s]) = Free("Attached")
        BY <3>1, <3>2, <3>3 DEF View, Free, Contract!Free, Record, WellFormed
      <4> QED
        BY <1>2, <3>3, <4>1 DEF Fits
    <3>4. CASE mem[s].state \in Running
      <4>1. View(new[s]) = View(mem[s]) /\ mem[s].state # "Absent"
        BY <3>1, <3>2, <3>4 DEF View, Record, Running
      <4> QED
        BY <1>2, <3>4, <4>1 DEF Fits
    <3> QED
      BY <3>1, <3>3, <3>4
  <2>3. S \in SUBSET Sessions
    OBVIOUS
  <2> HIDE DEF S, new
  <2> QED
    BY <1>1, <1>2, <2>1, <2>2, <2>3, SeveralBegin DEF Several
<1>5. ASSUME NEW live \in SUBSET Sessions, ReportWorkerSessions(k, live) PROVE Begins
  <2> DEFINE S == {s \in Sessions \ live : /\ mem[s].state \in Running \cup {"Recovering"}
                                           /\ ~Shielded(mem[s])}
             new == [s \in S |-> EndedRecord(mem[s], "Expired")]
  <2>1. Stage(k, "reconcile", S, new) /\ UNCHANGED mem
    BY <1>5 DEF ReportWorkerSessions
  <2>2. ASSUME NEW s \in S PROVE Fits("reconcile", k, mem[s], new[s]) /\ s \in created
    <3>1. mem[s] \in Record /\ WellFormed(mem[s]) /\ mem[s].state \in Running \cup {"Recovering"}
      BY <1>1
    <3>2. mem[s].client = None
      BY <3>1 DEF Shielded, WellFormed
    <3>3. View(new[s]) = Free("Expired")
      BY <3>1 DEF View, Free, Contract!Free, EndedRecord, Record
    <3>4. mem[s].state # "Absent"
      BY <3>1 DEF Running
    <3> QED
      BY <1>2, <3>1, <3>2, <3>3, <3>4 DEF Fits
  <2>3. S \in SUBSET Sessions
    OBVIOUS
  <2> HIDE DEF S, new
  <2> QED
    BY <1>1, <1>2, <2>1, <2>2, <2>3, SeveralBegin DEF Several
<1>6. ASSUME NEW s \in Sessions, SessionExited(k, s) PROVE Begins
  <2> DEFINE new == [x \in {s} |-> mem[x]]
  <2>1. /\ Stage(k, "remove", {s}, new) /\ mem' = [mem EXCEPT ![s] = Absent]
        /\ mem[s].state # "Absent" /\ new[s] = mem[s]
    BY <1>6 DEF SessionExited
  <2> HIDE DEF new
  <2>2. \A x \in Sessions : mem'[x] = IF "remove" = "remove" /\ x \in {s} THEN Absent ELSE mem[x]
    BY <1>1, <2>1
  <2>3. \A x \in {s} : Fits("remove", k, mem'[x], new[x]) /\ new[x] = mem[x]
    BY <2>1, <2>2 DEF Fits, Absent
  <2>4. {s} \in SUBSET Sessions /\ {s} \subseteq created' /\ created \subseteq created'
    BY <1>2, <2>1
  <2> QED
    BY <1>1, <1>2, <2>1, <2>2, <2>3, <2>4, StageBegins
<1>7. ASSUME NEW t \in Tasks, WorkerDisconnected(t, k), worker = k PROVE Begins
  <2> DEFINE S == {s \in Sessions : mem[s].state \in Running /\ mem[s].wconn = k}
             new == [s \in S |-> [EndedRecord(mem[s], "Recovering") EXCEPT !.wconn = None]]
  <2>1. Stage(t, "lost", S, new) /\ UNCHANGED mem /\ t \in Callers
    BY <1>7 DEF WorkerDisconnected, Callers
  <2>2. ASSUME NEW s \in S PROVE Fits("lost", t, mem[s], new[s]) /\ s \in created
    <3>1. mem[s] \in Record /\ mem[s].state \in Running /\ mem[s].state # "Absent"
      BY <1>1 DEF Running
    <3>2. View(new[s]) = Free("Recovering")
      BY <3>1 DEF View, Free, Contract!Free, EndedRecord, Record
    <3> QED
      BY <1>2, <3>1, <3>2 DEF Fits
  <2>3. S \in SUBSET Sessions
    OBVIOUS
  <2> HIDE DEF S, new
  <2> QED
    BY <1>1, <1>2, <2>1, <2>2, <2>3, SeveralBegin DEF Several
<1> QED
  BY <1>4, <1>5, <1>6, <1>7

(* A row and a record agree on whether the shell may be alive.             *)
Agree(r, row) ==
  \/ Fate(r.state) = Fate(row.state)
  \/ r.state = "Absent" /\ row.state \in Ended

LEMMA AgreeIs ==
  /\ RowsAgree <=> \A s \in Sessions : Agree(Effective(s), db[s])
  /\ RowsAgree' <=> \A s \in Sessions : Agree(Effective(s)', db'[s])
BY DEF RowsAgree, Agree

LEMMA BackedIs ==
  /\ Backed <=> \A s \in Sessions : Effective(s).state # "Absent" => db[s].state # "Absent"
  /\ Backed' <=> \A s \in Sessions : Effective(s)'.state # "Absent" => db'[s].state # "Absent"
BY DEF Backed

LEMMA BeginStep ==
  ASSUME IInv, Orderly, MaxInFlight = 1, Begins
  PROVE  /\ Orderly' /\ (RowsAgree => RowsAgree')
         /\ \A s \in Sessions : Effective(s)' = Effective(s)
<1> PICK a \in Callers : \E k : \E S \in SUBSET Sessions : \E st : Begun(a, k, S, st)
  BY DEF Begins
<1> PICK k : \E S \in SUBSET Sessions : \E st : Begun(a, k, S, st)
  OBVIOUS
<1> PICK S \in SUBSET Sessions : \E st : Begun(a, k, S, st)
  OBVIOUS
<1> PICK st : Begun(a, k, S, st)
  OBVIOUS
<1> DEFINE op == [kind |-> k, on |-> S, todo |-> S, staged |-> st]
<1>1. \A b \in Callers : flight[b] = Idle
  BY NoneInFlight DEF Orderly, Begun
<1>2. flight \in [Callers -> Operation] /\ flight' = [flight EXCEPT ![a] = op]
  BY DEF IInv, TypeOK, Begun
<1>3. op.kind = k /\ op.on = S /\ op.todo = S /\ op.staged = st
  OBVIOUS
<1> HIDE DEF op
<1>4. flight'[a] = op /\ Alone(flight', a)
  BY <1>1, <1>2 DEF Alone
<1>5. k \notin {"idle", "restart"} /\ (k \notin Several => \E s \in Sessions : S = {s})
  BY DEF Begun
<1>6. \A s \in Sessions : Effective(s)' = Effective(s)
  <2> SUFFICES ASSUME NEW s \in Sessions PROVE Effective(s)' = Effective(s)
    OBVIOUS
  <2>1. Effective(s) = mem[s]
    BY <1>1, EffectiveIsIn, EffectiveIdle
  <2>2. Effective(s)' = IF Written(op, s) THEN st[s] ELSE mem'[s]
    <3>1. Effective(s)' = EffectiveIn(flight', mem', s)
      BY EffectiveIsIn
    <3> QED
      BY <1>3, <1>4, <3>1, EffectiveAlone
  <2>3. Written(op, s) <=> k = "remove" /\ s \in S
    BY <1>3 DEF Written
  <2> QED
    BY <2>1, <2>2, <2>3 DEF Begun
<1>7. OneAtATime'
  BY <1>3, <1>4, <1>5 DEF OneAtATime, Alone, Idle
<1>8. Staging'
  <2> SUFFICES ASSUME NEW b \in Callers
               PROVE  /\ Shape(flight'[b])
                      /\ \A s \in flight'[b].on :
                           Fits(flight'[b].kind, b, mem'[s], flight'[b].staged[s])
    BY DEF Staging
  <2>1. CASE b = a
    BY <1>3, <1>4, <1>5, <2>1 DEF Shape, Begun
  <2>2. CASE b # a
    BY <1>4, <2>2 DEF Alone, Shape, Idle
  <2> QED
    BY <2>1, <2>2
<1>9. Fresh'
  <2> SUFFICES ASSUME NEW s \in Sessions \ created'
               PROVE  /\ mem'[s].state = "Absent" /\ db'[s].state = "Absent"
                      /\ \A b \in Callers : s \notin flight'[b].on
    BY DEF Fresh
  <2>1. s \notin S /\ s \notin created /\ mem'[s] = mem[s] /\ db' = db
    BY DEF Begun
  <2>2. \A b \in Callers : s \notin flight'[b].on
    BY <1>3, <1>4, <2>1 DEF Alone, Idle
  <2> QED
    BY <2>1, <2>2 DEF Orderly, Fresh
<1>10. Backed'
  BY <1>6, BackedIs DEF Orderly, Begun
<1>11. RowsAgree => RowsAgree'
  BY <1>6, AgreeIs DEF Begun
<1> QED
  BY <1>6, <1>7, <1>8, <1>9, <1>10, <1>11 DEF Orderly

(* Phase 2, of a row.                                                      *)
LEMMA RowWritten ==
  ASSUME NEW op \in Operation, NEW a, NEW s \in Sessions, NEW r \in Record, NEW row \in Record,
         Fits(op.kind, a, r, op.staged[s]), op.kind \notin {"idle", "restart", "remove"},
         Agree(r, row)
  PROVE  Agree(op.staged[s], RowAfter(op, s, row))
<1> DEFINE n == op.staged[s]
           k == op.kind
<1>0. n \in Record /\ k \in Kinds
  BY DEF Operation
<1>1. CASE k \in {"create", "delete"}
  <2>1. CASE k = "create"
    <3>1. RowAfter(op, s, row) = n
      BY <2>1 DEF RowAfter
    <3> QED
      BY <3>1 DEF Agree
  <2>2. CASE k = "delete"
    <3>1. RowAfter(op, s, row) = Absent /\ n = Absent
      BY <2>2 DEF RowAfter, Fits
    <3> QED
      BY <3>1 DEF Agree
  <2> QED
    BY <1>1, <2>1, <2>2
<1>2. ASSUME k \notin {"create", "delete"} PROVE row.state # "Absent"
  <2>1. r.state # "Absent"
    BY <1>0, <1>2 DEF Fits, Kinds, Running
  <2> QED
    BY <2>1 DEF Agree, Fate, Record, Running, Ended
<1>3. CASE k \in {"rename", "move"}
  BY <1>2, <1>3 DEF Fits, RowAfter, Agree
<1>4. CASE k \in {"detach", "reattach", "revive"}
  <2>1. RowAfter(op, s, row).state = n.state
    BY <1>2, <1>4 DEF RowAfter, Record
  <2> QED
    BY <2>1 DEF Agree
<1>5. CASE k \in {"replayDone", "rebind"}
  <2>1. RowAfter(op, s, row).state = "Attached"
    BY <1>2, <1>5 DEF RowAfter, Record
  <2>2. n.state \in Running
    <3>1. CASE k = "replayDone"
      BY <3>1 DEF Fits, Record, Running
    <3>2. CASE k = "rebind"
      BY <3>2 DEF Fits, View, Free, Contract!Free, Running
    <3> QED
      BY <1>5, <3>1, <3>2
  <2> QED
    BY <2>1, <2>2 DEF Agree, Fate, Running
<1>6. CASE k = "lost"
  BY <1>2, <1>6 DEF RowAfter, Agree
<1>7. CASE k \in {"exit", "reconcile"}
  <2>1. RowAfter(op, s, row).state = n.state
    BY <1>2, <1>7 DEF RowAfter, EndedRecord, Record
  <2> QED
    BY <2>1 DEF Agree
<1> QED
  BY <1>0, <1>1, <1>3, <1>4, <1>5, <1>6, <1>7 DEF Kinds

(* A row that is there stays, unless its session is deleted.               *)
LEMMA RowKept ==
  ASSUME NEW op \in Operation, NEW a, NEW s \in Sessions, NEW r \in Record, NEW row \in Record,
         Fits(op.kind, a, r, op.staged[s]), op.kind \notin {"idle", "restart", "remove"},
         r.state # "Absent" => row.state # "Absent", op.staged[s].state # "Absent"
  PROVE  RowAfter(op, s, row).state # "Absent"
<1> DEFINE n == op.staged[s]
           k == op.kind
<1>0. n \in Record /\ k \in Kinds
  BY DEF Operation
<1>1. CASE k = "create"
  BY <1>1 DEF RowAfter
<1>2. k # "delete"
  BY DEF Fits, Absent
<1>3. ASSUME k # "create" PROVE row.state # "Absent"
  BY <1>0, <1>2, <1>3 DEF Fits, Kinds, Running
<1>4. CASE k \in {"rename", "move"}
  BY <1>3, <1>4 DEF RowAfter
<1>5. CASE k \in {"detach", "reattach", "revive"}
  BY <1>3, <1>5 DEF RowAfter, Record
<1>6. CASE k \in {"replayDone", "rebind"}
  BY <1>3, <1>6 DEF RowAfter, Record
<1>7. CASE k = "lost"
  BY <1>3, <1>7 DEF RowAfter
<1>8. CASE k \in {"exit", "reconcile"}
  BY <1>3, <1>8 DEF RowAfter, EndedRecord, Record
<1> QED
  BY <1>0, <1>1, <1>2, <1>4, <1>5, <1>6, <1>7, <1>8 DEF Kinds

(* A row write is when an operation takes effect on a session.             *)
LEMMA PersistEffect ==
  ASSUME IInv, Orderly, NEW a \in Callers, NEW s \in Sessions, PersistRow(a, s)
  PROVE  /\ flight[a].kind \notin {"idle", "restart"}
         /\ s \in flight[a].on /\ Fits(flight[a].kind, a, mem[s], flight[a].staged[s])
         /\ \A u \in Sessions \ {s} : Effective(u)' = Effective(u)
         /\ flight[a].kind = "remove" => Effective(s)' = mem[s]
         /\ flight[a].kind # "remove" =>
              Effective(s) = mem[s] /\ Effective(s)' = flight[a].staged[s]
<1> DEFINE op == flight[a]
           q == [op EXCEPT !.todo = @ \ {s}]
<1>1. flight \in [Callers -> Operation] /\ op \in Operation
  BY DEF IInv, TypeOK
<1>2. s \in op.todo /\ mem' = mem /\ flight' = [flight EXCEPT ![a] = q]
  BY DEF PersistRow
<1>3. q.kind = op.kind /\ q.on = op.on /\ q.staged = op.staged /\ q.todo = op.todo \ {s}
  BY <1>1 DEF Operation
<1>4. op.kind \notin {"idle", "restart"}
  BY <1>2 DEF Orderly, OneAtATime, Staging, Shape, Idle
<1> HIDE DEF q
<1>5. Alone(flight, a) /\ Alone(flight', a) /\ flight'[a] = q
  BY <1>1, <1>2, <1>4, BusyAlone DEF Orderly, Alone
<1>6. s \in op.on /\ Fits(op.kind, a, mem[s], op.staged[s])
  BY <1>2 DEF Orderly, Staging, Shape
<1>7. ASSUME NEW u
      PROVE  /\ Effective(u) = IF Written(op, u) THEN op.staged[u] ELSE mem[u]
             /\ Effective(u)' = IF Written(q, u) THEN op.staged[u] ELSE mem[u]
  <2>1. Effective(u) = EffectiveIn(flight, mem, u) /\ Effective(u)' = EffectiveIn(flight', mem', u)
    BY EffectiveIsIn
  <2>2. EffectiveIn(flight, mem, u) = IF Written(op, u) THEN op.staged[u] ELSE mem[u]
    BY <1>5, EffectiveAlone
  <2>3. EffectiveIn(flight', mem', u) = IF Written(flight'[a], u) THEN flight'[a].staged[u] ELSE mem'[u]
    BY <1>5, EffectiveAlone
  <2> QED
    BY <1>2, <1>3, <1>5, <2>1, <2>2, <2>3
<1>8. \A u \in Sessions \ {s} : Written(q, u) <=> Written(op, u)
  BY <1>3 DEF Written
<1>9. /\ op.kind = "remove" => ~Written(q, s)
      /\ op.kind # "remove" => ~Written(op, s) /\ Written(q, s)
  BY <1>2, <1>3, <1>6 DEF Written
<1> QED
  BY <1>4, <1>6, <1>7, <1>8, <1>9

LEMMA PersistStep ==
  ASSUME IInv, Orderly, NEW a \in Callers, NEW s \in Sessions, PersistRow(a, s)
  PROVE  Orderly' /\ (RowsAgree => RowsAgree')
<1> DEFINE op == flight[a]
           q == [op EXCEPT !.todo = @ \ {s}]
<1>1. /\ flight \in [Callers -> Operation] /\ op \in Operation
      /\ mem \in [Sessions -> Record] /\ db \in [Sessions -> Record]
  BY DEF IInv, TypeOK
<1>2. /\ s \in op.todo /\ UNCHANGED <<mem, created>> /\ flight' = [flight EXCEPT ![a] = q]
      /\ db' = [db EXCEPT ![s] = RowAfter(op, s, db[s])]
  BY DEF PersistRow
<1>3. q.kind = op.kind /\ q.on = op.on /\ q.staged = op.staged /\ q.todo = op.todo \ {s}
  BY <1>1 DEF Operation
<1> HIDE DEF q
<1>4. flight'[a] = q /\ \A b \in Callers \ {a} : flight'[b] = flight[b]
  BY <1>1, <1>2
<1>5. op.kind \notin {"idle", "restart"} /\ s \in op.on /\ s \in created
  BY PersistEffect DEF Orderly, Fresh
<1>6. OneAtATime'
  BY <1>3, <1>4, <1>5 DEF Orderly, OneAtATime
<1>7. Staging'
  BY <1>2, <1>3, <1>4, <1>5 DEF Orderly, Staging, Shape
<1>8. Fresh'
  <2>1. \A u \in Sessions \ created' : db'[u] = db[u]
    BY <1>1, <1>2, <1>5
  <2>2. \A b \in Callers : flight'[b].on = flight[b].on
    BY <1>3, <1>4
  <2> QED
    BY <1>2, <2>1, <2>2 DEF Orderly, Fresh
<1>9. ASSUME RowsAgree PROVE RowsAgree'
  <2>1. \A u \in Sessions : Agree(Effective(u), db[u])
    BY <1>9, AgreeIs
  <2>2. \A u \in Sessions \ {s} : Agree(Effective(u)', db'[u])
    BY <1>1, <1>2, <2>1, PersistEffect
  <2>3. db'[s] = RowAfter(op, s, db[s]) /\ mem[s] \in Record /\ db[s] \in Record
    BY <1>1, <1>2
  <2>4. CASE op.kind = "remove"
    <3>1. Effective(s)' = mem[s] /\ mem[s].state = "Absent"
      BY <2>4, PersistEffect DEF Fits
    <3>2. db'[s] = Absent
      BY <2>3, <2>4 DEF RowAfter
    <3> QED
      BY <2>2, <3>1, <3>2, AgreeIs DEF Agree, Absent
  <2>5. CASE op.kind # "remove"
    <3>1. /\ Effective(s) = mem[s] /\ Effective(s)' = op.staged[s]
          /\ Fits(op.kind, a, mem[s], op.staged[s])
      BY <2>5, PersistEffect
    <3>2. Agree(mem[s], db[s])
      BY <2>1, <3>1
    <3>3. Agree(op.staged[s], RowAfter(op, s, db[s]))
      BY <1>1, <1>5, <2>3, <2>5, <3>1, <3>2, RowWritten
    <3> QED
      BY <2>2, <2>3, <3>1, <3>3, AgreeIs
  <2> QED
    BY <2>4, <2>5
<1>10. Backed'
  <2>1. \A u \in Sessions : Effective(u).state # "Absent" => db[u].state # "Absent"
    BY BackedIs DEF Orderly
  <2>2. \A u \in Sessions \ {s} : Effective(u)'.state # "Absent" => db'[u].state # "Absent"
    BY <1>1, <1>2, <2>1, PersistEffect
  <2>3. db'[s] = RowAfter(op, s, db[s]) /\ mem[s] \in Record /\ db[s] \in Record
    BY <1>1, <1>2
  <2>4. CASE op.kind = "remove"
    <3>1. Effective(s)' = mem[s] /\ mem[s].state = "Absent"
      BY <2>4, PersistEffect DEF Fits
    <3> QED
      BY <2>2, <3>1, BackedIs
  <2>5. CASE op.kind # "remove"
    <3>1. /\ Effective(s) = mem[s] /\ Effective(s)' = op.staged[s]
          /\ Fits(op.kind, a, mem[s], op.staged[s])
      BY <2>5, PersistEffect
    <3>2. mem[s].state # "Absent" => db[s].state # "Absent"
      BY <2>1, <3>1
    <3>3. op.staged[s].state # "Absent" => RowAfter(op, s, db[s]).state # "Absent"
      BY <1>1, <1>5, <2>3, <2>5, <3>1, <3>2, RowKept
    <3> QED
      BY <2>2, <2>3, <3>1, <3>3, BackedIs
  <2> QED
    BY <2>4, <2>5
<1> QED
  BY <1>6, <1>7, <1>8, <1>9, <1>10 DEF Orderly

LEMMA EffectiveWith ==
  ASSUME NEW a \in Callers, NEW s
  PROVE  /\ Alone(flight, a) =>
              Effective(s) = IF Written(flight[a], s) THEN flight[a].staged[s] ELSE mem[s]
         /\ Alone(flight', a) =>
              Effective(s)' = IF Written(flight'[a], s) THEN flight'[a].staged[s] ELSE mem'[s]
<1>1. Effective(s) = EffectiveIn(flight, mem, s) /\ Effective(s)' = EffectiveIn(flight', mem', s)
  BY EffectiveIsIn
<1>2. Alone(flight, a) =>
        EffectiveIn(flight, mem, s) = IF Written(flight[a], s) THEN flight[a].staged[s] ELSE mem[s]
  BY EffectiveAlone
<1>3. Alone(flight', a) =>
        EffectiveIn(flight', mem', s) =
          IF Written(flight'[a], s) THEN flight'[a].staged[s] ELSE mem'[s]
  BY EffectiveAlone
<1> QED
  BY <1>1, <1>2, <1>3

-----------------------------------------------------------------------------
(* Phase 3 and the ends without one: the map catches up with what has      *)
(* already taken effect, or with what never will.                          *)
Completed(a) ==
  /\ flight[a].kind # "idle"
  /\ UNCHANGED <<db, created>>
  /\ \A s \in Sessions : View(mem'[s]) = View(Effective(s))
  /\ \/ flight' = [flight EXCEPT ![a] = Idle]
     \/ \E op : /\ flight[a].kind = "revive" /\ op.kind = "restart"
                /\ op.on = flight[a].on /\ op.todo = {}
                /\ flight' = [flight EXCEPT ![a] = op]
                /\ \A s \in op.on : mem'[s] = op.staged[s]

LEMMA Completion ==
  ASSUME IInv, Orderly, NEW a \in Callers,
         \/ DeleteMisses(a)
         \/ ApplyStaged(a)
         \/ \E viaHub \in BOOLEAN : ApplyRevival(a, viaHub)
         \/ RestartShell(a)
         \/ ApplyReplayCompleted(a)
         \/ ApplyMove(a)
         \/ EndRemove(a)
  PROVE  Completed(a)
<1> DEFINE op == flight[a]
<1>1. /\ flight \in [Callers -> Operation] /\ op \in Operation
      /\ mem \in [Sessions -> Record]
  BY DEF IInv, TypeOK
<1>2. op.kind # "idle" /\ UNCHANGED <<db, created>>
  BY DEF DeleteMisses, ApplyStaged, Unconditional, ApplyRevival, RestartShell,
         ApplyReplayCompleted, ApplyMove, EndRemove
<1>3. Shape(op) /\ \A s \in op.on : Fits(op.kind, a, mem[s], op.staged[s])
  BY DEF Orderly, Staging
<1>4. \A s \in Sessions : Effective(s) = IF Written(op, s) THEN op.staged[s] ELSE mem[s]
  BY <1>2, BusyAlone, EffectiveWith DEF Orderly
<1>5. ASSUME op.todo = {}, op.kind # "remove"
      PROVE  \A s \in Sessions : Effective(s) = IF s \in op.on THEN op.staged[s] ELSE mem[s]
  BY <1>4, <1>5 DEF Written
<1>6. op.on \subseteq Sessions
  BY <1>1 DEF Operation
<1> HIDE DEF op
<1>7. CASE DeleteMisses(a)
  <2>1. op.todo = op.on /\ op.kind = "delete" /\ mem' = mem /\ Finish(a)
    BY <1>3, <1>7 DEF DeleteMisses, Shape, Several, op
  <2>2. \A s \in Sessions : Effective(s) = mem[s]
    BY <1>4, <2>1 DEF Written
  <2> QED
    BY <1>2, <2>1, <2>2 DEF Completed, Finish, op
<1>8. CASE ApplyStaged(a) \/ ApplyMove(a)
  <2>1. op.todo = {} /\ op.kind # "remove" /\ Finish(a)
    BY <1>8 DEF ApplyStaged, ApplyMove, Unconditional, op
  <2>2. ASSUME NEW s \in Sessions PROVE mem'[s] = IF s \in op.on THEN op.staged[s] ELSE mem[s]
    <3>1. CASE ApplyStaged(a)
      BY <3>1 DEF ApplyStaged, WriteBack, op
    <3>2. CASE ApplyMove(a)
      <4>1. \A u \in op.on : mem[u].state # "Absent"
        BY <1>3, <3>2 DEF ApplyMove, Fits, op
      <4> QED
        BY <3>2, <4>1 DEF ApplyMove, op
    <3> QED
      BY <1>8, <3>1, <3>2
  <2> QED
    BY <1>2, <1>5, <2>1, <2>2 DEF Completed, Finish, op
<1>9. CASE \E viaHub \in BOOLEAN : ApplyRevival(a, viaHub)
  <2>1. op.todo = {} /\ op.kind = "revive" /\ WriteBack(op)
    BY <1>9 DEF ApplyRevival, op
  <2>2. \A s \in Sessions : mem'[s] = IF s \in op.on THEN op.staged[s] ELSE mem[s]
    BY <2>1 DEF WriteBack
  <2>3. CASE Finish(a)
    BY <1>2, <1>5, <2>1, <2>2, <2>3 DEF Completed, Finish, op
  <2>4. CASE flight' = [flight EXCEPT ![a].kind = "restart"]
    <3> DEFINE q == [op EXCEPT !.kind = "restart"]
    <3>1. flight' = [flight EXCEPT ![a] = q]
      BY <1>1, <2>4 DEF op
    <3>2. q.kind = "restart" /\ q.on = op.on /\ q.todo = op.todo /\ q.staged = op.staged
      BY <1>1 DEF Operation
    <3> HIDE DEF q
    <3>3. \A s \in q.on : mem'[s] = q.staged[s]
      BY <1>6, <2>2, <3>2
    <3> QED
      BY <1>2, <1>5, <2>1, <2>2, <3>1, <3>2, <3>3 DEF Completed, op
  <2> QED
    BY <1>9, <2>3, <2>4 DEF ApplyRevival
<1>10. CASE RestartShell(a)
  <2>1. op.todo = {} /\ op.kind = "restart" /\ Finish(a)
    BY <1>3, <1>10 DEF RestartShell, Shape, op
  <2>2. \A s \in Sessions : Effective(s) = mem[s]
    BY <1>3, <1>5, <2>1 DEF Fits
  <2>3. ASSUME NEW s \in Sessions PROVE View(mem'[s]) = View(mem[s])
    <3>1. mem'[s] = [mem[s] EXCEPT !.wconn = worker] \/ mem'[s] = mem[s]
      BY <1>10 DEF RestartShell
    <3> QED
      BY <1>1, <3>1 DEF View, Record
  <2> QED
    BY <1>2, <2>1, <2>2, <2>3 DEF Completed, Finish, op
<1>11. CASE ApplyReplayCompleted(a)
  <2>1. op.todo = {} /\ op.kind = "replayDone" /\ Finish(a)
    BY <1>11 DEF ApplyReplayCompleted, op
  <2>2. \A s \in op.on : mem[s].state = "Attached" /\ mem[s].client = a
    BY <1>3, <2>1 DEF Fits
  <2>3. \A s \in Sessions : mem'[s] = IF s \in op.on THEN op.staged[s] ELSE mem[s]
    BY <1>11, <2>2 DEF ApplyReplayCompleted, op
  <2> QED
    BY <1>2, <1>5, <2>1, <2>3 DEF Completed, Finish, op
<1>12. CASE EndRemove(a)
  <2>1. op.todo = {} /\ op.kind = "remove" /\ Finish(a) /\ mem' = mem
    BY <1>12 DEF EndRemove, op
  <2>2. \A s \in Sessions : Effective(s) = mem[s]
    BY <1>4, <2>1 DEF Written
  <2> QED
    BY <1>2, <2>1, <2>2 DEF Completed, Finish, op
<1> QED
  BY <1>7, <1>8, <1>9, <1>10, <1>11, <1>12

LEMMA CompletedStep ==
  ASSUME IInv, Orderly, NEW a \in Callers, Completed(a)
  PROVE  /\ Orderly' /\ (RowsAgree => RowsAgree')
         /\ \A s \in Sessions : View(Effective(s)') = View(Effective(s))
<1> DEFINE op == flight'[a]
<1>1. flight \in [Callers -> Operation] /\ Alone(flight, a)
  BY BusyAlone DEF IInv, TypeOK, Completed, Orderly
<1>2. /\ Alone(flight', a) /\ op.on \subseteq flight[a].on
      /\ \/ op = Idle
         \/ /\ op.kind = "restart" /\ op.on = flight[a].on /\ op.todo = {}
            /\ flight[a].kind = "revive" /\ \A s \in op.on : mem'[s] = op.staged[s]
  <2>1. CASE flight' = [flight EXCEPT ![a] = Idle]
    BY <1>1, <2>1 DEF Alone, Idle
  <2>2. ASSUME NEW q, flight[a].kind = "revive", q.kind = "restart", q.on = flight[a].on, q.todo = {},
               flight' = [flight EXCEPT ![a] = q], \A s \in q.on : mem'[s] = q.staged[s]
        PROVE  Alone(flight', a) /\ op = q
    BY <1>1, <2>2 DEF Alone
  <2> QED
    BY <2>1, <2>2 DEF Completed
<1>3. \A s \in Sessions : Effective(s)' = mem'[s]
  <2>1. \A s \in Sessions : Effective(s)' = IF Written(op, s) THEN op.staged[s] ELSE mem'[s]
    BY <1>2, EffectiveWith
  <2> QED
    BY <1>2, <2>1 DEF Written, Idle
<1>4. \A s \in Sessions : View(Effective(s)') = View(Effective(s))
  BY <1>3 DEF Completed
<1>5. \A s \in Sessions : Effective(s)'.state = Effective(s).state
  BY <1>4 DEF View
<1>6. \A b \in Callers \ {a} : flight'[b] = Idle
  BY <1>2 DEF Alone
<1> HIDE DEF op
<1>7. OneAtATime'
  BY <1>2, <1>6 DEF OneAtATime, Idle, op
<1>8. Staging'
  <2> SUFFICES ASSUME NEW b \in Callers
               PROVE  /\ Shape(flight'[b])
                      /\ \A s \in flight'[b].on :
                           Fits(flight'[b].kind, b, mem'[s], flight'[b].staged[s])
    BY DEF Staging
  <2>1. CASE flight'[b] = Idle
    BY <2>1 DEF Shape, Idle
  <2>2. CASE flight'[b] # Idle
    <3>1. b = a /\ op # Idle
      BY <1>6, <2>2 DEF op
    <3>2. /\ op.kind = "restart" /\ op.on = flight[a].on /\ op.todo = {}
          /\ flight[a].kind = "revive" /\ \A s \in op.on : mem'[s] = op.staged[s]
      BY <1>2, <3>1
    <3>3. \E s \in Sessions : op.on = {s}
      BY <3>2 DEF Orderly, Staging, Shape, Several
    <3>4. Shape(op)
      BY <3>2, <3>3 DEF Shape
    <3>5. \A s \in op.on : Fits(op.kind, a, mem'[s], op.staged[s])
      BY <3>2 DEF Fits
    <3> QED
      BY <3>1, <3>4, <3>5 DEF op
  <2> QED
    BY <2>1, <2>2
<1>9. Fresh'
  <2> SUFFICES ASSUME NEW s \in Sessions \ created'
               PROVE  /\ mem'[s].state = "Absent" /\ db'[s].state = "Absent"
                      /\ \A b \in Callers : s \notin flight'[b].on
    BY DEF Fresh
  <2>1. /\ created' = created /\ db' = db
        /\ mem[s].state = "Absent" /\ db[s].state = "Absent" /\ \A b \in Callers : s \notin flight[b].on
    BY DEF Completed, Orderly, Fresh
  <2>2. Effective(s) = mem[s]
    <3>1. Effective(s) = IF Written(flight[a], s) THEN flight[a].staged[s] ELSE mem[s]
      BY <1>1, EffectiveWith
    <3> QED
      BY <2>1, <3>1 DEF Written, Orderly, Staging, Shape
  <2>3. mem'[s].state = "Absent"
    BY <1>3, <1>5, <2>1, <2>2
  <2>4. \A b \in Callers : s \notin flight'[b].on
    BY <1>2, <1>6, <2>1 DEF Idle, op
  <2> QED
    BY <2>1, <2>3, <2>4
<1>10. Backed'
  BY <1>5, BackedIs DEF Orderly, Completed
<1>11. RowsAgree => RowsAgree'
  BY <1>5, AgreeIs DEF Completed, Agree
<1> QED
  BY <1>4, <1>7, <1>8, <1>9, <1>10, <1>11 DEF Orderly

(* A row write that throws takes back what its operation had written.      *)
LEMMA FailStep ==
  ASSUME IInv, Orderly, NEW a \in Callers, PersistFails(a)
  PROVE  Orderly'
<1> DEFINE op == flight[a]
<1>1. /\ flight \in [Callers -> Operation] /\ op \in Operation
      /\ op.todo # {} /\ flight' = [flight EXCEPT ![a] = Idle] /\ UNCHANGED <<mem, db, created>>
  BY DEF IInv, TypeOK, PersistFails, Finish
<1>2. Shape(op) /\ \A s \in op.on : Fits(op.kind, a, mem[s], op.staged[s])
  BY DEF Orderly, Staging
<1>3. op.kind # "idle" /\ Alone(flight, a) /\ \A b \in Callers : flight'[b] = Idle
  <2>1. op.kind # "idle"
    BY <1>1 DEF Orderly, OneAtATime, Idle
  <2> QED
    BY <1>1, <2>1, BusyAlone DEF Orderly, Alone
<1> HIDE DEF op
<1>4. OneAtATime' /\ Staging'
  BY <1>3 DEF OneAtATime, Staging, Shape, Idle
<1>5. Fresh'
  BY <1>1, <1>3 DEF Orderly, Fresh, Idle
<1>6. Backed'
  <2>0. \A s \in Sessions : Effective(s)' = mem[s] /\ db'[s] = db[s]
    <3>1. \A s \in Sessions : EffectiveIn(flight', mem', s) = mem'[s]
      BY <1>3, EffectiveIdle
    <3> QED
      BY <1>1, <3>1, EffectiveIsIn
  <2> SUFFICES ASSUME NEW s \in Sessions, mem[s].state # "Absent" PROVE db[s].state # "Absent"
    BY <2>0, BackedIs
  <2>1. Effective(s) = IF Written(op, s) THEN op.staged[s] ELSE mem[s]
    BY <1>3, EffectiveWith DEF op
  <2>2. Effective(s).state # "Absent" => db[s].state # "Absent"
    BY BackedIs DEF Orderly
  <2>3. CASE ~Written(op, s)
    BY <2>1, <2>2, <2>3
  <2>4. CASE Written(op, s)
    <3>1. s \in op.on /\ op.kind # "remove"
      BY <1>2, <2>4 DEF Written, Shape, Fits
    <3>2. op.kind \in Several
      BY <1>1, <1>2, <1>3, <2>4, <3>1 DEF Written, Shape
    <3>3. Fits(op.kind, a, mem[s], op.staged[s])
      BY <1>2, <3>1
    <3>4. op.staged[s].state # "Absent"
      BY <3>2, <3>3 DEF Several, Fits, View, Free, Contract!Free
    <3> QED
      BY <2>1, <2>2, <2>4, <3>4
  <2> QED
    BY <2>3, <2>4
<1> QED
  BY <1>4, <1>5, <1>6 DEF Orderly

-----------------------------------------------------------------------------
(* A gateway restart, and what is left: steps that change no session.      *)

LEMMA EffectiveIsRecord ==
  ASSUME IInv, NEW s \in Sessions
  PROVE  Effective(s) \in Record /\ WellFormed(Effective(s))
<1> DEFINE W(b) == Written(flight[b], s)
<1>1. Effective(s) = IF \E a \in Callers : W(a) THEN flight[CHOOSE a \in Callers : W(a)].staged[s]
                     ELSE mem[s]
  BY EffectiveIsIn DEF EffectiveIn
<1>2. \A a \in Callers : flight[a].staged[s] \in Record /\ WellFormed(flight[a].staged[s])
  BY DEF IInv, TypeOK, Operation, StagedWellFormed
<1>3. mem[s] \in Record /\ WellFormed(mem[s])
  BY DEF IInv, TypeOK, RecordsWellFormed
<1> HIDE DEF W
<1> QED
  BY <1>1, <1>2, <1>3

LEMMA RestartEffect ==
  ASSUME IInv, Orderly, GatewayRestart
  PROVE  /\ Orderly' /\ RowsAgree'
         /\ \A s \in Sessions : Effective(s)' = Recovered(db[s])
<1>1. \A a \in Callers : flight'[a] = Idle
  BY DEF GatewayRestart
<1>2. \A s \in Sessions : mem'[s] = Recovered(db[s]) /\ db[s] \in Record
  BY DEF GatewayRestart, IInv, TypeOK
<1>3. \A s \in Sessions : Effective(s)' = Recovered(db[s])
  BY <1>1, <1>2, EffectiveIsIn, EffectiveIdle
<1>4. \A s \in Sessions :
        db'[s].state = IF db[s].state = "Attached" THEN "DetachedGracePeriod" ELSE db[s].state
  BY <1>2 DEF GatewayRestart, Record
<1>5. OneAtATime' /\ Staging'
  BY <1>1 DEF OneAtATime, Staging, Shape, Idle
<1>6. Fresh'
  <2>1. \A s \in Sessions : db[s].state = "Absent" => Recovered(db[s]).state = "Absent"
    BY DEF Recovered, Running, Absent
  <2> QED
    BY <1>1, <1>2, <1>4, <2>1 DEF Orderly, Fresh, GatewayRestart, Idle
<1>7. RowsAgree'
  <2> SUFFICES ASSUME NEW s \in Sessions PROVE Agree(Recovered(db[s]), db'[s])
    BY <1>3, AgreeIs
  <2>1. db[s] \in Record
    BY <1>2
  <2>2. CASE db[s].state \in Running
    BY <1>4, <2>1, <2>2 DEF Recovered, Record, Agree, Fate, Running
  <2>3. CASE db[s].state = "Recovering"
    BY <1>4, <2>1, <2>3 DEF Recovered, EndedRecord, Record, Agree, Fate, Running, Ended
  <2>4. CASE db[s].state \in Ended \cup {"Absent"}
    BY <1>4, <2>1, <2>4 DEF Recovered, Absent, Agree, Fate, Running, Ended
  <2> QED
    BY <2>1, <2>2, <2>3, <2>4 DEF Record, States
<1>8. Backed'
  <2>1. \A s \in Sessions : db[s].state = "Absent" => Recovered(db[s]).state = "Absent"
    BY DEF Recovered, Running, Absent
  <2> QED
    BY <1>3, <1>4, <2>1, BackedIs
<1> QED
  BY <1>3, <1>5, <1>6, <1>7, <1>8 DEF Orderly

Quiet == UNCHANGED <<mem, db, flight, created>>

LEMMA QuietStep ==
  ASSUME Orderly, Quiet
  PROVE  /\ Orderly' /\ (RowsAgree => RowsAgree')
         /\ \A s \in Sessions : Effective(s)' = Effective(s)
<1>1. \A s : EffectiveIn(flight', mem', s) = EffectiveIn(flight, mem, s)
  BY DEF Quiet
<1>2. \A s \in Sessions : Effective(s)' = Effective(s)
  BY <1>1, EffectiveIsIn
<1>3. RowsAgree => RowsAgree'
  BY <1>2, AgreeIs DEF Quiet
<1>4. OneAtATime' /\ Staging' /\ Fresh'
  BY DEF Quiet, Orderly, OneAtATime, Staging, Fresh
<1>5. Backed'
  BY <1>2, BackedIs DEF Orderly, Quiet
<1> QED
  BY <1>2, <1>3, <1>4, <1>5 DEF Orderly

(* Every step is one of six.                                               *)
LEMMA SixSteps ==
  ASSUME IInv, Orderly, [Next]_vars
  PROVE  \/ Begins
         \/ \E a \in Callers, s \in Sessions : PersistRow(a, s)
         \/ \E a \in Callers : Completed(a)
         \/ \E a \in Callers : PersistFails(a)
         \/ GatewayRestart
         \/ Quiet
<1>0. Fresh
  BY DEF Orderly
<1>1. CASE \E a \in Callers, s \in Sessions : CreateSession(a, s) \/ MarkSessionStartFailed(a, s)
  BY <1>0, <1>1, CallerBegins
<1>2. CASE ClientCall
  BY <1>0, <1>2, ClientBegins DEF ClientCall
<1>3. CASE WorkerCall
  <2>1. PICK k \in WorkerConns :
          \/ RegisterWorker(k)
          \/ \E live \in SUBSET Sessions : ReportWorkerSessions(k, live)
          \/ \E s \in Sessions : SessionExited(k, s)
          \/ \E t \in Tasks : WorkerDisconnected(t, k)
    BY <1>3 DEF WorkerCall
  <2>2. CASE worker = k \/ ~\E t \in Tasks : WorkerDisconnected(t, k)
    BY <1>0, <2>1, <2>2, WorkerBegins
  <2>3. CASE worker # k /\ \E t \in Tasks : WorkerDisconnected(t, k)
    BY <2>3 DEF WorkerDisconnected, Quiet
  <2> QED
    BY <2>2, <2>3
<1>4. CASE TaskCall
  BY <1>0, <1>4, TaskBegins DEF TaskCall
<1>5. CASE Continue
  <2>1. PICK a \in Callers :
          \/ \E s \in Sessions : PersistRow(a, s)
          \/ DeleteMisses(a)
          \/ PersistFails(a)
          \/ ApplyStaged(a)
          \/ \E viaHub \in BOOLEAN : ApplyRevival(a, viaHub)
          \/ RestartShell(a)
          \/ ApplyReplayCompleted(a)
          \/ ApplyMove(a)
          \/ EndRemove(a)
    BY <1>5 DEF Continue
  <2> QED
    BY <2>1, Completion
<1>6. CASE UNCHANGED vars
  BY <1>6 DEF vars, Quiet
<1> QED
  BY <1>1, <1>2, <1>3, <1>4, <1>5, <1>6 DEF Next

LEMMA InitSerial == Init => IInv /\ Serial
<1> SUFFICES ASSUME Init PROVE Serial
  BY InitIInv
<1>1. /\ \A a \in Callers : flight[a] = Idle
      /\ \A s \in Sessions : mem[s] = Absent /\ db[s] = Absent
  BY DEF Init, Nothing
<1>2. OneAtATime /\ Staging /\ Fresh
  BY <1>1 DEF OneAtATime, Staging, Shape, Fresh, Idle, Absent
<1>3. \A s \in Sessions : Effective(s) = Absent
  BY <1>1, EffectiveIsIn, EffectiveIdle
<1>4. RowsAgree
  BY <1>1, <1>3 DEF RowsAgree
<1>5. Backed
  BY <1>3 DEF Backed, Absent
<1> QED
  BY <1>2, <1>4, <1>5 DEF Serial, Orderly

LEMMA OrderlyStep ==
  ASSUME MaxInFlight = 1, IInv, Orderly, [Next]_vars
  PROVE  Orderly'
BY SixSteps, BeginStep, PersistStep, CompletedStep, FailStep, RestartEffect, QuietStep

LEMMA SerialStep ==
  ASSUME MaxInFlight = 1, DbMayFail = FALSE, IInv, Serial, [Next]_vars
  PROVE  Serial'
<1>1. Orderly /\ RowsAgree /\ \A a \in Callers : ~PersistFails(a)
  BY DEF Serial, PersistFails
<1>2. Orderly'
  BY <1>1, OrderlyStep
<1>3. RowsAgree'
  BY <1>1, SixSteps, BeginStep, PersistStep, CompletedStep, RestartEffect, QuietStep
<1> QED
  BY <1>2, <1>3 DEF Serial

-----------------------------------------------------------------------------
(* The refinement.                                                         *)

Recs == [s \in Sessions |-> View(Effective(s))]

LEMMA SameRecs ==
  ASSUME \A s \in Sessions : View(Effective(s)') = View(Effective(s))
  PROVE  Recs' = Recs
BY DEF Recs, View

(* What the contract sees of one session, and of a change of one session.  *)
LEMMA SeenBy ==
  ASSUME NEW s \in Sessions
  PROVE  /\ Recs[s].state = Effective(s).state
         /\ Recs[s].client = Effective(s).client
         /\ s \in Contract!Known <=> Effective(s).state # "Absent"
BY DEF Recs, View, Contract!Known

LEMMA OneBecomes ==
  ASSUME NEW s \in Sessions, NEW x, View(Effective(s)') = x,
         \A u \in Sessions \ {s} : Effective(u)' = Effective(u)
  PROVE  Contract!Become(s, x) /\ Contract!BecomeAll({s}, x)
BY DEF Contract!Become, Contract!BecomeAll, View

(* A row write is the moment at which the operation happens.               *)
LEMMA PersistMaps ==
  ASSUME IInv, Orderly, NEW a \in Callers, NEW s \in Sessions, PersistRow(a, s)
  PROVE  Contract!Next \/ Recs' = Recs
<1> DEFINE k == flight[a].kind
           r == mem[s]
           n == flight[a].staged[s]
<1>1. /\ k \in Kinds \ {"restart"} /\ Fits(k, a, r, n)
      /\ \A u \in Sessions \ {s} : Effective(u)' = Effective(u)
      /\ k = "remove" => Effective(s)' = r
      /\ k # "remove" => Effective(s) = r /\ Effective(s)' = n
  BY PersistEffect DEF IInv, TypeOK, Operation
<1>2. r \in Record /\ n \in Record /\ WellFormed(r) /\ WellFormed(n)
  BY DEF IInv, TypeOK, Operation, RecordsWellFormed, StagedWellFormed
<1>3. \A x : View(Effective(s)') = x => Contract!Become(s, x) /\ Contract!BecomeAll({s}, x)
  BY <1>1, OneBecomes
<1>4. View(n) = View(r) /\ k # "remove" => Recs' = Recs
  BY <1>1, SameRecs
<1> HIDE DEF k, r, n
<1>5. CASE k \in {"delete", "remove"}
  <2>1. View(Effective(s)') = Contract!Gone
    <3>1. CASE k = "delete"
      <4>1. Effective(s)' = Absent
        BY <1>1, <3>1 DEF Fits
      <4> QED
        BY <4>1 DEF Absent, View, Contract!Gone
    <3>2. CASE k = "remove"
      BY <1>1, <1>2, <3>2 DEF Fits, WellFormed, Record, View, Contract!Gone
    <3> QED
      BY <1>5, <3>1, <3>2
  <2>2. Contract!Forget(s)
    BY <1>3, <2>1 DEF Contract!Forget
  <2> QED
    BY <2>2 DEF Contract!Next
<1>6. CASE k = "create"
  <2>1. View(r) = Contract!Gone
    BY <1>1, <1>2, <1>6 DEF Fits, WellFormed, Record, View, Contract!Gone
  <2>2. View(n) = Contract!Held(n.client, FALSE) /\ n.client \in Clients \cup {None}
    BY <1>1, <1>2, <1>6 DEF Fits, Record, View, Contract!Held
  <2>3. Contract!Open(s, n.client)
    BY <1>1, <1>3, <1>6, <2>1, <2>2 DEF Contract!Open
  <2> QED
    BY <2>2, <2>3 DEF Contract!Next
<1>7. CASE k \in {"reattach", "revive"}
  <2>1. a \in Clients /\ r.state # "Absent" /\ View(n) = Contract!Held(a, r.state # "Recovering")
    BY <1>1, <1>7 DEF Fits, Held
  <2>2. Contract!Attach(s, a)
    BY <1>1, <1>3, <1>7, <2>1, SeenBy DEF Contract!Attach, Recs
  <2> QED
    BY <2>1, <2>2 DEF Contract!Next
<1>8. CASE k = "detach"
  <2>1. /\ a \in Clients /\ r.state # "Absent" /\ r.client \in {None, a}
        /\ View(n) = Contract!Free("DetachedGracePeriod")
    BY <1>1, <1>8 DEF Fits, Free
  <2>2. Contract!Release(s, a)
    BY <1>1, <1>3, <1>8, <2>1, SeenBy DEF Contract!Release, Recs
  <2> QED
    BY <2>1, <2>2 DEF Contract!Next
<1>9. CASE k = "replayDone"
  <2>1. /\ a \in Clients /\ r.state = "Attached" /\ r.client = a
        /\ n = [r EXCEPT !.pending = FALSE]
    BY <1>1, <1>9 DEF Fits
  <2>2. View(n) = Contract!Held(a, FALSE)
    BY <1>2, <2>1 DEF Record, View, Contract!Held
  <2>3. Contract!CompleteReplay(s, a)
    BY <1>1, <1>3, <1>9, <2>1, <2>2, SeenBy DEF Contract!CompleteReplay, Recs
  <2> QED
    BY <2>1, <2>3 DEF Contract!Next
<1>10. CASE k = "exit"
  <2>1. r.state # "Absent" /\ View(n) = Contract!Free("Exited")
    BY <1>1, <1>10 DEF Fits, Free
  <2>2. Contract!End(s)
    BY <1>1, <1>3, <1>10, <2>1, SeenBy DEF Contract!End
  <2> QED
    BY <2>2 DEF Contract!Next
<1>11. CASE k = "lost"
  <2>1. r.state \in Running /\ View(n) = Contract!Free("Recovering")
    BY <1>1, <1>11 DEF Fits, Free
  <2>2. Contract!LoseWorker({s})
    BY <1>1, <1>3, <1>11, <2>1, SeenBy DEF Contract!LoseWorker, Contract!Alive, Running, Recs
  <2> QED
    BY <2>2 DEF Contract!Next
<1>12. CASE k = "rebind"
  <2>1. CASE View(n) = View(r)
    BY <1>4, <1>12, <2>1
  <2>2. CASE r.state = "Recovering" /\ View(n) = Contract!Free("Attached")
    <3>1. Contract!RegainWorker({s})
      BY <1>1, <1>3, <1>12, <2>2, SeenBy DEF Contract!RegainWorker, Recs
    <3> QED
      BY <3>1 DEF Contract!Next
  <2> QED
    BY <1>1, <1>12, <2>1, <2>2 DEF Fits, Free
<1>13. CASE k = "reconcile"
  <2>1. /\ r.state \in Running \cup {"Recovering"} /\ r.client = None
        /\ View(n) = Contract!Free("Expired")
    BY <1>1, <1>13 DEF Fits, Free
  <2>2. Contract!Expire({s})
    BY <1>1, <1>3, <1>13, <2>1, SeenBy DEF Contract!Expire, Contract!Alive, Running, Recs
  <2> QED
    BY <2>2 DEF Contract!Next
<1>14. CASE k \in {"rename", "move"}
  BY <1>1, <1>4, <1>14 DEF Fits
<1> QED
  BY <1>1, <1>5, <1>6, <1>7, <1>8, <1>9, <1>10, <1>11, <1>12, <1>13, <1>14 DEF Kinds

LEMMA RestartMaps ==
  ASSUME IInv, Serial, GatewayRestart
  PROVE  Contract!Restart
<1> SUFFICES ASSUME NEW s \in Sessions
             PROVE  View(Effective(s)') =
                      CASE Recs[s].state \in Contract!Alive -> Contract!Free("DetachedGracePeriod")
                        [] Recs[s].state = "Recovering"     -> Contract!Free("Recovering")
                        [] OTHER                            -> Contract!Gone
  BY DEF Contract!Restart, Recs
<1>1. /\ Effective(s)' = Recovered(db[s]) /\ db[s] \in Record
      /\ Recs[s].state = Effective(s).state /\ Effective(s).state \in States
      /\ Agree(Effective(s), db[s])
  BY RestartEffect, SeenBy, EffectiveIsRecord, AgreeIs DEF IInv, TypeOK, Serial, Record
<1>2. CASE Effective(s).state \in Running
  <2>1. db[s].state \in Running /\ Recs[s].state \in Contract!Alive
    BY <1>1, <1>2 DEF Agree, Fate, Running, Ended, Record, States, Contract!Alive
  <2>2. View(Effective(s)') = Contract!Free("DetachedGracePeriod")
    BY <1>1, <2>1 DEF Recovered, Record, View, Contract!Free
  <2> QED
    BY <2>1, <2>2 DEF Contract!Alive
<1>3. CASE Effective(s).state = "Recovering"
  <2>1. db[s].state = "Recovering"
    BY <1>1, <1>3 DEF Agree, Fate, Running, Ended, Record, States
  <2>2. View(Effective(s)') = Contract!Free("Recovering")
    BY <1>1, <2>1 DEF Recovered, EndedRecord, Record, View, Contract!Free, Running
  <2> QED
    BY <1>1, <1>3, <2>2 DEF Contract!Alive
<1>4. CASE Effective(s).state \in Ended \cup {"Absent"}
  <2>1. db[s].state \in Ended \cup {"Absent"}
    BY <1>1, <1>4 DEF Agree, Fate, Running, Ended, Record, States
  <2>2. View(Effective(s)') = Contract!Gone
    <3>1. Effective(s)' = Absent
      BY <1>1, <2>1 DEF Recovered, Running, Ended
    <3> QED
      BY <3>1 DEF Absent, View, Contract!Gone
  <2> QED
    BY <1>1, <1>4, <2>2 DEF Contract!Alive, Ended
<1> QED
  BY <1>1, <1>2, <1>3, <1>4 DEF States

LEMMA SerialMaps ==
  ASSUME MaxInFlight = 1, DbMayFail = FALSE, IInv, Serial, [Next]_vars
  PROVE  Contract!Next \/ Recs' = Recs
<1>0. Orderly /\ \A a \in Callers : ~PersistFails(a)
  BY DEF Serial, PersistFails
<1>1. CASE Begins
  BY <1>0, <1>1, BeginStep, SameRecs
<1>2. CASE \E a \in Callers, s \in Sessions : PersistRow(a, s)
  BY <1>0, <1>2, PersistMaps
<1>3. CASE \E a \in Callers : Completed(a)
  BY <1>0, <1>3, CompletedStep, SameRecs
<1>4. CASE GatewayRestart
  BY <1>4, RestartMaps DEF Contract!Next
<1>5. CASE Quiet
  BY <1>0, <1>5, QuietStep, SameRecs
<1> QED
  BY <1>0, <1>1, <1>2, <1>3, <1>4, <1>5, SixSteps

-----------------------------------------------------------------------------
(* The theorems, for operations one at a time.                             *)

(* With operations one at a time, what an operation staged still fits the  *)
(* record when it is put back, and every record has a row.                 *)
THEOREM OrderlyInvariance ==
  ASSUME MaxInFlight = 1
  PROVE  Spec => [](IInv /\ Orderly)
<1>1. Init => IInv /\ Orderly
  BY InitSerial DEF Serial
<1>2. IInv /\ Orderly /\ [Next]_vars => (IInv /\ Orderly)'
  BY NextIInv, OrderlyStep
<1> QED
  BY <1>1, <1>2, PTL DEF Spec

(* If besides the database does not fail, rows and records agree.          *)
THEOREM SerialInvariance ==
  ASSUME MaxInFlight = 1, DbMayFail = FALSE
  PROVE  Spec => [](IInv /\ Serial)
<1>1. Init => IInv /\ Serial
  BY InitSerial
<1>2. IInv /\ Serial /\ [Next]_vars => (IInv /\ Serial)'
  BY NextIInv, SerialStep
<1> QED
  BY <1>1, <1>2, PTL DEF Spec

(* Row and record agree, at every row write, on whether the shell may be   *)
(* alive: a restart revives no ended session and loses no running one.     *)
THEOREM RowsStayInAgreement ==
  ASSUME MaxInFlight = 1, DbMayFail = FALSE
  PROVE  Spec => []RowsAgree
<1>1. IInv /\ Serial => RowsAgree
  BY DEF Serial
<1> QED
  BY <1>1, SerialInvariance, PTL

(* Who may hold a session, who may take it away, when it may end and what  *)
(* survives a crash at any point: the coordinator keeps the contract.      *)
THEOREM CoordinatorImplementsContract ==
  ASSUME MaxInFlight = 1, DbMayFail = FALSE
  PROVE  Spec => ImplementsContract
<1>1. Init => Contract!Init
  <2> SUFFICES ASSUME Init, NEW s \in Sessions PROVE View(Effective(s)) = Contract!Gone
    BY DEF Contract!Init
  <2>1. Effective(s) = Absent
    BY EffectiveIsIn, EffectiveIdle DEF Init, Nothing
  <2> QED
    BY <2>1 DEF View, Absent, Contract!Gone
<1>2. IInv /\ Serial /\ [Next]_vars => [Contract!Next]_[s \in Sessions |-> View(Effective(s))]
  BY SerialMaps DEF Recs
<1> QED
  BY <1>1, <1>2, SerialInvariance, PTL DEF Spec, ImplementsContract, Contract!Spec

(* The last write of a detach, or of a reconciliation, finds the holder    *)
(* that its first step found.                                              *)
LEMMA AppliedAsStaged ==
  ASSUME Orderly, NEW a \in Callers, NEW s \in flight[a].on
  PROVE  /\ flight[a].kind = "detach" => mem[s].client \in {None, a}
         /\ flight[a].kind = "reconcile" => mem[s].client = None
BY DEF Orderly, Staging, Fits

(* The closing of a displaced connection does not detach its successor.    *)
THEOREM DisplacedNeverDetaches ==
  ASSUME MaxInFlight = 1
  PROVE  Spec => DisplacedCannotDetach
<1>1. Orderly /\ [Next]_vars =>
        [\A c \in Clients, s \in Sessions :
           ApplyStaged(c) /\ flight[c].kind = "detach" /\ s \in flight[c].on
             => mem[s].client \in {None, c}]_vars
  BY AppliedAsStaged DEF Callers
<1> QED
  BY <1>1, OrderlyInvariance, PTL DEF Spec, DisplacedCannotDetach

(* Reconciling the worker's snapshot expires no session a client holds.    *)
THEOREM ReconciliationSparesClients ==
  ASSUME MaxInFlight = 1
  PROVE  Spec => ReconcileSparesClients
<1>1. Orderly /\ [Next]_vars =>
        [\A k \in WorkerConns, s \in Sessions :
           ApplyStaged(k) /\ flight[k].kind = "reconcile" /\ s \in flight[k].on
             => mem[s].client = None]_vars
  BY AppliedAsStaged DEF Callers
<1> QED
  BY <1>1, OrderlyInvariance, PTL DEF Spec, ReconcileSparesClients

(* What is in flight for a session that row and record have lost brings    *)
(* nothing back: without a row, it took no effect.                         *)
LEMMA DeletedStep ==
  ASSUME IInv, Orderly, [Next]_vars,
         NEW s \in Sessions, mem[s].state = "Absent", db[s].state = "Absent"
  PROVE  mem'[s].state = "Absent"
<1>1. CASE Begins
  BY <1>1 DEF Begins, Begun, Absent
<1>2. CASE \E a \in Callers, u \in Sessions : PersistRow(a, u)
  BY <1>2 DEF PersistRow
<1>3. CASE \E a \in Callers : Completed(a)
  <2>1. mem'[s].state = Effective(s).state
    BY <1>3 DEF Completed, View
  <2> QED
    BY <2>1, BackedIs DEF Orderly
<1>4. CASE \E a \in Callers : PersistFails(a)
  BY <1>4 DEF PersistFails
<1>5. CASE GatewayRestart
  BY <1>5 DEF GatewayRestart, Recovered, Running, Absent
<1>6. CASE Quiet
  BY <1>6 DEF Quiet
<1> QED
  BY <1>1, <1>2, <1>3, <1>4, <1>5, <1>6, SixSteps

(* Once a session is deleted, row and record, it is not found again.       *)
THEOREM DeletedSessionsStayDeleted ==
  ASSUME MaxInFlight = 1
  PROVE  Spec => DeletedStaysDeleted
<1>1. IInv /\ Orderly /\ [Next]_vars =>
        [\A s \in Sessions :
           s \in created /\ mem[s].state = "Absent" /\ db[s].state = "Absent"
             => mem'[s].state = "Absent"]_vars
  BY DeletedStep
<1> QED
  BY <1>1, OrderlyInvariance, PTL DEF Spec, DeletedStaysDeleted
===============================================================================
