------------------------- MODULE SessionCoordinator -------------------------
(***************************************************************************)
(* The gateway's session coordinator: an in-memory map of session records  *)
(* guarded by a lock, and one database row per session.  Every operation   *)
(* that changes a record runs in three phases:                             *)
(*                                                                         *)
(*   1. under the lock, read the record and build a STAGED copy of it;     *)
(*   2. without the lock, await the database writes, row by row;           *)
(*   3. under the lock, put the staged copy back.                          *)
(*                                                                         *)
(* The phases of different operations interleave, so phase 3 may overwrite *)
(* whatever happened to the record during phase 2.  A gateway crash drops  *)
(* the map and all operations in flight; the restart reloads it from the   *)
(* rows.                                                                   *)
(*                                                                         *)
(* All sessions belong to one user and one worker: a request of another    *)
(* user, or for a worker's sessions that are not its own, returns without  *)
(* touching any state.  Names, sizes, timestamps, exit codes and agent     *)
(* metadata are abstracted away.                                           *)
(***************************************************************************)
EXTENDS Naturals, FiniteSets

CONSTANTS
  Sessions,     \* session ids (fresh GUIDs, never reused)
  Clients,      \* client connection ids
  WorkerConns,  \* hub connection ids of the worker process
  Tasks,        \* REST requests and disconnect callbacks running on their own
  None,         \* no connection (null or "")
  MaxInFlight,  \* bound: operations between their phase 1 and their phase 3
  DbMayFail     \* whether a database write may throw

ASSUME NoneAssumption == None \notin Clients \cup WorkerConns
ASSUME InFlightAssumption == MaxInFlight \in Nat \ {0}
ASSUME DbAssumption == DbMayFail \in BOOLEAN

VARIABLES
  mem,      \* mem[s]: the record of s in the coordinator's dictionary
  db,       \* db[s]: the row of s in the Sessions table
  flight,   \* flight[a]: the operation caller a has in flight
  created,  \* the session ids handed out so far
  worker,   \* the connection the worker registry has for the worker, or None
  link      \* link[k]: life of the worker connection k

vars == <<mem, db, flight, created, worker, link>>

-----------------------------------------------------------------------------
(* Records and rows.                                                       *)

Running == {"Attached", "DetachedGracePeriod"}
Ended   == {"Expired", "Exited"}
States  == Running \cup Ended \cup {"Recovering", "Absent"}

Record == [state   : States,
           client  : Clients \cup {None},
           wconn   : WorkerConns \cup {None},
           pending : BOOLEAN]

Absent == [state |-> "Absent", client |-> None, wconn |-> None, pending |-> FALSE]

(* Operations in flight.                                                   *)

Callers == Clients \cup WorkerConns \cup Tasks

Kinds == {"create", "detach", "reattach", "revive", "restart", "exit", "remove",
          "delete", "replayDone", "rebind", "lost", "reconcile", "rename", "move"}

Operation == [kind   : Kinds \cup {"idle"},
              on     : SUBSET Sessions,          \* the sessions it stages
              todo   : SUBSET Sessions,          \* rows not yet written
              staged : [Sessions -> Record]]     \* meaningful on `on'

Nothing == [s \in Sessions |-> Absent]
Idle    == [kind |-> "idle", on |-> {}, todo |-> {}, staged |-> Nothing]

Busy == {a \in Callers : flight[a].kind # "idle"}

(* Phase 1 of an operation of caller a: stage the record new[s] for each   *)
(* session s of S and leave the lock.                                      *)
Stage(a, k, S, new) ==
  /\ flight[a].kind = "idle"
  /\ Cardinality(Busy) < MaxInFlight
  /\ flight' = [flight EXCEPT ![a] =
       [kind   |-> k, on |-> S, todo |-> S,
        staged |-> [s \in Sessions |-> IF s \in S THEN new[s] ELSE Absent]]]

Finish(a) == flight' = [flight EXCEPT ![a] = Idle]

-----------------------------------------------------------------------------
(* Phase 1 of each operation.                                              *)

(* A session is created for a registered worker; through the hub it starts *)
(* attached to the calling connection, through REST to nobody.             *)
CreateSession(a, s) ==
  LET c == IF a \in Clients THEN a ELSE None IN
  /\ a \in Clients \cup Tasks
  /\ s \notin created
  /\ worker # None
  /\ Stage(a, "create", {s}, [x \in {s} |-> [state |-> "Attached", client |-> c,
                                              wconn |-> worker, pending |-> FALSE]])
  /\ created' = created \cup {s}
  /\ UNCHANGED <<mem, db, worker, link>>

(* Mutant of MayDetach: the displacement guard dropped.                    *)
MayDetachUnguarded(r, c) == TRUE

(* A connection that another one displaced may not take its attachment.    *)
MayDetach(r, c) == r.client \in {None, c}

DetachSession(c, s) ==
  /\ mem[s].state # "Absent"
  /\ MayDetach(mem[s], c)
  /\ Stage(c, "detach", {s}, [x \in {s} |->
       [mem[x] EXCEPT !.state = "DetachedGracePeriod", !.client = None, !.pending = FALSE]])
  /\ UNCHANGED <<mem, db, created, worker, link>>

(* A worker that was gone kept no replay to wait for.                      *)
Reattached(r, c) ==
  [r EXCEPT !.state = "Attached", !.client = c, !.pending = (r.state # "Recovering")]

ReattachSession(c, s, resumeOnly) ==
  /\ mem[s].state # "Absent"
  /\ ~(resumeOnly /\ mem[s].state \in Ended)
  /\ Stage(c, IF mem[s].state \in Ended THEN "revive" ELSE "reattach", {s},
           [x \in {s} |-> Reattached(mem[x], c)])
  /\ UNCHANGED <<mem, db, created, worker, link>>

MarkReplayCompleted(c, s) ==
  /\ mem[s].state = "Attached"
  /\ mem[s].client = c
  /\ Stage(c, "replayDone", {s}, [x \in {s} |-> [mem[x] EXCEPT !.pending = FALSE]])
  /\ UNCHANGED <<mem, db, created, worker, link>>

(* Mutant of EndedRecord: the attachment cleared, the pending replay not.  *)
EndedAwaitingReplay(r, state) == [r EXCEPT !.state = state, !.client = None]

EndedRecord(r, state) == [r EXCEPT !.state = state, !.client = None, !.pending = FALSE]

(* MarkSessionStartFailed, for the report of the worker that holds the     *)
(* session or for the caller whose dispatch of the start command failed.   *)
MarkSessionStartFailed(a, s) ==
  /\ mem[s].state # "Absent"
  /\ a \in WorkerConns => link[a] = "open" /\ mem[s].wconn = a
  /\ Stage(a, "exit", {s}, [x \in {s} |-> EndedRecord(mem[x], "Exited")])
  /\ UNCHANGED <<mem, db, created, worker, link>>

(* RemoveSession, called when the worker reports the shell's exit: the     *)
(* record goes before the row.  The removed record stays in `staged', for  *)
(* the refinement mapping only.                                            *)
SessionExited(k, s) ==
  /\ link[k] = "open"
  /\ mem[s].state # "Absent"
  /\ mem[s].wconn = k
  /\ Stage(k, "remove", {s}, [x \in {s} |-> mem[x]])
  /\ mem' = [mem EXCEPT ![s] = Absent]
  /\ UNCHANGED <<db, created, worker, link>>

(* DeleteSession, a REST request: the row goes before the record.          *)
DeleteSession(t, s) ==
  /\ mem[s].state # "Absent" \/ db[s].state # "Absent"
  /\ Stage(t, "delete", {s}, [x \in {s} |-> Absent])
  /\ UNCHANGED <<mem, db, created, worker, link>>

RenameSession(t, s) ==
  /\ mem[s].state # "Absent"
  /\ Stage(t, "rename", {s}, [x \in {s} |-> mem[x]])
  /\ UNCHANGED <<mem, db, created, worker, link>>

MoveSessionWorkspace(t, s) ==
  /\ mem[s].state # "Absent"
  /\ Stage(t, "move", {s}, [x \in {s} |-> mem[x]])
  /\ UNCHANGED <<mem, db, created, worker, link>>

(* RegisterWorker: the registry takes the new connection, and the sessions *)
(* of the worker are rebound to it.                                        *)
RegisterWorker(k) ==
  LET S == {s \in Sessions : \/ mem[s].state = "Recovering"
                             \/ mem[s].state \in Running /\ mem[s].wconn # k}
  IN
  /\ link[k] = "new"
  /\ link' = [link EXCEPT ![k] = "open"]
  /\ worker' = k
  /\ Stage(k, "rebind", S, [s \in S |-> [mem[s] EXCEPT
        !.wconn = k,
        !.state = IF @ = "Recovering" THEN "Attached" ELSE @]])
  /\ UNCHANGED <<mem, db, created>>

(* Mutant of Shielded: no session is spared.                               *)
ShieldedNone(r) == FALSE

(* ReportWorkerSessions: what the worker does not report as live expires,  *)
(* unless a client holds it.                                               *)
Shielded(r) == r.state = "Attached" /\ r.client # None

ReportWorkerSessions(k, live) ==
  LET S == {s \in Sessions \ live : /\ mem[s].state \in Running \cup {"Recovering"}
                                    /\ ~Shielded(mem[s])}
  IN
  /\ link[k] = "open"
  /\ worker = k
  /\ Stage(k, "reconcile", S, [s \in S |-> EndedRecord(mem[s], "Expired")])
  /\ UNCHANGED <<mem, db, created, worker, link>>

(* OnDisconnected of a worker connection: only the registered connection   *)
(* unregisters the worker and moves its sessions to Recovering.            *)
WorkerDisconnected(t, k) ==
  LET S == {s \in Sessions : mem[s].state \in Running /\ mem[s].wconn = k} IN
  /\ link[k] = "open"
  /\ link' = [link EXCEPT ![k] = "closed"]
  /\ IF worker = k
     THEN /\ worker' = None
          /\ Stage(t, "lost", S, [s \in S |->
                 [EndedRecord(mem[s], "Recovering") EXCEPT !.wconn = None]])
     ELSE UNCHANGED <<worker, flight>>
  /\ UNCHANGED <<mem, db, created>>

-----------------------------------------------------------------------------
(* Phase 2: the rows, one await after the other.                           *)

(* Mutant of RowAfter: the end of a session is not written to its row.     *)
RowAfterEndUnwritten(op, s, row) ==
  IF op.kind = "create" THEN op.staged[s]
  ELSE IF op.kind \in {"delete", "remove"} THEN Absent
  ELSE IF row.state = "Absent" \/ op.kind \in {"exit", "reconcile"} THEN row
  ELSE [row EXCEPT !.state = op.staged[s].state]

(* An update finds its row or leaves it; a move puts back a missing one.   *)
RowAfter(op, s, row) ==
  LET r == op.staged[s] IN
  IF op.kind = "create" THEN r
  ELSE IF op.kind \in {"delete", "remove"} THEN Absent
  ELSE IF row.state = "Absent"
  THEN IF op.kind = "move" THEN [Absent EXCEPT !.state = r.state] ELSE row
  ELSE
  CASE op.kind \in {"rename", "move"} -> row
    [] op.kind = "detach"     -> [row EXCEPT !.state = r.state, !.client = None]
    [] op.kind \in {"reattach", "revive"} ->
                                 [row EXCEPT !.state = r.state, !.client = r.client,
                                             !.pending = @ \/ r.pending]
    [] op.kind = "replayDone" -> [row EXCEPT !.state = "Attached", !.client = None,
                                             !.pending = FALSE]
    [] op.kind = "rebind"     -> [row EXCEPT !.state = "Attached", !.client = None,
                                             !.wconn = r.wconn]
    [] op.kind = "lost"       -> r
    [] OTHER                  -> EndedRecord(row, r.state)

PersistRow(a, s) ==
  /\ s \in flight[a].todo
  /\ flight[a].kind = "delete" => db[s].state # "Absent"
  /\ db' = [db EXCEPT ![s] = RowAfter(flight[a], s, @)]
  /\ flight' = [flight EXCEPT ![a].todo = @ \ {s}]
  /\ UNCHANGED <<mem, created, worker, link>>

(* DeleteSession finds no row: it fails and leaves the record alone.       *)
DeleteMisses(a) ==
  /\ flight[a].kind = "delete"
  /\ \E s \in flight[a].todo : db[s].state = "Absent"
  /\ Finish(a)
  /\ UNCHANGED <<mem, db, created, worker, link>>

(* A database write throws: the exception leaves phase 3 undone, the rows  *)
(* already written stay written.                                           *)
PersistFails(a) ==
  /\ DbMayFail
  /\ flight[a].todo # {}
  /\ Finish(a)
  /\ UNCHANGED <<mem, db, created, worker, link>>

-----------------------------------------------------------------------------
(* Phase 3: put the staged records back.                                   *)

WriteBack(op) == mem' = [s \in Sessions |-> IF s \in op.on THEN op.staged[s] ELSE mem[s]]

(* Every other kind looks at the record it replaces, or replaces none.     *)
Unconditional == {"create", "detach", "reattach", "exit", "delete", "rebind",
                  "lost", "reconcile", "rename"}

ApplyStaged(a) ==
  /\ flight[a].kind \in Unconditional
  /\ flight[a].todo = {}
  /\ WriteBack(flight[a])
  /\ Finish(a)
  /\ UNCHANGED <<db, created, worker, link>>

(* A reattach that found an ended session asks the caller for a new shell; *)
(* the terminal hub goes on to restart it, the WebSocket handler does not. *)
ApplyRevival(c, viaHub) ==
  /\ flight[c].kind = "revive"
  /\ flight[c].todo = {}
  /\ WriteBack(flight[c])
  /\ IF viaHub
     THEN flight' = [flight EXCEPT ![c].kind = "restart"]
     ELSE Finish(c)
  /\ UNCHANGED <<db, created, worker, link>>

(* RestartShellIfRequired: point the session, in memory only, at the       *)
(* worker's current connection; without a worker the reattach fails.       *)
RestartShell(c) ==
  /\ flight[c].kind = "restart"
  /\ mem' = [s \in Sessions |->
       IF s \in flight[c].on /\ mem[s].state # "Absent" /\ worker # None
       THEN [mem[s] EXCEPT !.wconn = worker] ELSE mem[s]]
  /\ Finish(c)
  /\ UNCHANGED <<db, created, worker, link>>

(* Mutant of ApplyReplayCompleted: written back without a second look.     *)
ApplyReplayUnchecked(c) ==
  /\ flight[c].kind = "replayDone"
  /\ flight[c].todo = {}
  /\ WriteBack(flight[c])
  /\ Finish(c)
  /\ UNCHANGED <<db, created, worker, link>>

ApplyReplayCompleted(c) ==
  LET Holds(s) == mem[s].state = "Attached" /\ mem[s].client = c IN
  /\ flight[c].kind = "replayDone"
  /\ flight[c].todo = {}
  /\ mem' = [s \in Sessions |-> IF s \in flight[c].on /\ Holds(s)
                                THEN flight[c].staged[s] ELSE mem[s]]
  /\ Finish(c)
  /\ UNCHANGED <<db, created, worker, link>>

ApplyMove(t) ==
  /\ flight[t].kind = "move"
  /\ flight[t].todo = {}
  /\ mem' = [s \in Sessions |-> IF s \in flight[t].on /\ mem[s].state # "Absent"
                                THEN flight[t].staged[s] ELSE mem[s]]
  /\ Finish(t)
  /\ UNCHANGED <<db, created, worker, link>>

(* Mutant of EndRemove: the write-back of the other operations.            *)
EndRemoveWritesBack(a) ==
  /\ flight[a].kind = "remove"
  /\ flight[a].todo = {}
  /\ WriteBack(flight[a])
  /\ Finish(a)
  /\ UNCHANGED <<db, created, worker, link>>

EndRemove(a) ==
  /\ flight[a].kind = "remove"
  /\ flight[a].todo = {}
  /\ Finish(a)
  /\ UNCHANGED <<mem, db, created, worker, link>>

-----------------------------------------------------------------------------
(* The gateway process dies and starts again: RecoverActiveSessions loads  *)
(* the rows of sessions that have not ended.  It completes before the      *)
(* gateway accepts connections, and a crash between its own two phases     *)
(* leaves rows that the next start treats alike.                           *)
Recovered(row) ==
  IF row.state \in Running
  THEN [row EXCEPT !.state = "DetachedGracePeriod", !.client = None, !.pending = FALSE]
  ELSE IF row.state = "Recovering" THEN EndedRecord(row, "Recovering") ELSE Absent

GatewayRestart ==
  /\ mem' = [s \in Sessions |-> Recovered(db[s])]
  /\ db' = [s \in Sessions |->
       IF db[s].state = "Attached"
       THEN [db[s] EXCEPT !.state = "DetachedGracePeriod", !.client = None]
       ELSE db[s]]
  /\ flight' = [a \in Callers |-> Idle]
  /\ worker' = None
  /\ link' = [k \in WorkerConns |-> IF link[k] = "open" THEN "closed" ELSE link[k]]
  /\ UNCHANGED created

-----------------------------------------------------------------------------
Init ==
  /\ mem = Nothing
  /\ db = Nothing
  /\ flight = [a \in Callers |-> Idle]
  /\ created = {}
  /\ worker = None
  /\ link = [k \in WorkerConns |-> "new"]

ClientCall ==
  \E c \in Clients, s \in Sessions :
    \/ DetachSession(c, s)
    \/ \E resumeOnly \in BOOLEAN : ReattachSession(c, s, resumeOnly)
    \/ MarkReplayCompleted(c, s)

WorkerCall ==
  \E k \in WorkerConns :
    \/ RegisterWorker(k)
    \/ \E live \in SUBSET Sessions : ReportWorkerSessions(k, live)
    \/ \E s \in Sessions : SessionExited(k, s)
    \/ \E t \in Tasks : WorkerDisconnected(t, k)

TaskCall ==
  \E t \in Tasks, s \in Sessions :
    DeleteSession(t, s) \/ RenameSession(t, s) \/ MoveSessionWorkspace(t, s)

Continue ==
  \E a \in Callers :
    \/ \E s \in Sessions : PersistRow(a, s)
    \/ DeleteMisses(a)
    \/ PersistFails(a)
    \/ ApplyStaged(a)
    \/ \E viaHub \in BOOLEAN : ApplyRevival(a, viaHub)
    \/ RestartShell(a)
    \/ ApplyReplayCompleted(a)
    \/ ApplyMove(a)
    \/ EndRemove(a)

Next ==
  \/ \E a \in Callers, s \in Sessions : CreateSession(a, s) \/ MarkSessionStartFailed(a, s)
  \/ ClientCall
  \/ WorkerCall
  \/ TaskCall
  \/ Continue
  \/ GatewayRestart

Spec == Init /\ [][Next]_vars

-----------------------------------------------------------------------------
(* Properties.                                                             *)

TypeOK ==
  /\ mem \in [Sessions -> Record]
  /\ db \in [Sessions -> Record]
  /\ flight \in [Callers -> Operation]
  /\ created \subseteq Sessions
  /\ worker \in WorkerConns \cup {None}
  /\ link \in [WorkerConns -> {"new", "open", "closed"}]

WellFormed(r) ==
  /\ r.client # None => r.state = "Attached"
  /\ r.pending => r.client # None

(* A record names a client only while it is Attached, and waits for a      *)
(* replay only while a client is there to receive it: the worker's output  *)
(* is queued or delivered on exactly these two fields.  It holds whatever  *)
(* stale copy is written back, and in whatever order.                      *)
RecordsWellFormed == \A s \in Sessions : WellFormed(mem[s])

(* The strengthening that makes it inductive: so is every staged copy.     *)
StagedWellFormed == \A a \in Callers, s \in Sessions : WellFormed(flight[a].staged[s])

IInv == TypeOK /\ RecordsWellFormed /\ StagedWellFormed

(* Completing a replay gives or takes nobody's attachment, even when the   *)
(* session was displaced, detached or removed during the database write.   *)
KeepsHolder(c) ==
  ApplyReplayCompleted(c) => \A s \in Sessions : /\ mem'[s].client = mem[s].client
                                                 /\ mem'[s].state = mem[s].state

ReplayCompletionKeepsHolder == [][\A c \in Clients : KeepsHolder(c)]_vars

(* The record of s as of its last row write: an operation takes effect on  *)
(* a session when it writes the row.                                       *)
Effective(s) ==
  LET Owes(a) == flight[a].kind = "remove" /\ s \in flight[a].todo
      Wrote(a) == flight[a].kind # "remove" /\ s \in flight[a].on \ flight[a].todo
  IN IF \E a \in Callers : Owes(a) \/ Wrote(a)
     THEN flight[CHOOSE a \in Callers : Owes(a) \/ Wrote(a)].staged[s]
     ELSE mem[s]

(* With operations one at a time and a database that does not fail, the    *)
(* coordinator implements the contract of AttachmentContract, a gateway    *)
(* crash between any two of its phases included.                           *)
View(r) == [state |-> r.state, client |-> r.client, pending |-> r.pending]
Contract == INSTANCE AttachmentContract
              WITH rec <- [s \in Sessions |-> View(Effective(s))]
ImplementsContract == Contract!Spec

(* Under the same conditions the row and the record of a session agree at  *)
(* every row write on whether its shell may be alive, so a restart neither *)
(* revives an ended session nor loses a running one.                       *)
Fate(state) == IF state \in Running THEN "running"
               ELSE IF state \in Ended THEN "ended" ELSE state

RowsAgree ==
  \A s \in Sessions :
    \/ Fate(Effective(s).state) = Fate(db[s].state)
    \/ Effective(s).state = "Absent" /\ db[s].state \in Ended

(* PostgresSessionCoordinator.cs:189-190: the closing of a connection that *)
(* was displaced must not send the new attachment to the grace period.     *)
DisplacedCannotDetach ==
  [][\A c \in Clients, s \in Sessions :
       ApplyStaged(c) /\ flight[c].kind = "detach" /\ s \in flight[c].on
         => mem[s].client \in {None, c}]_vars

(* PostgresSessionCoordinator.cs:612-613: reconciling the worker's         *)
(* snapshot never expires a session that a client holds.  Like the next    *)
(* property, it needs operations one at a time: a stale copy put back by   *)
(* phase 3 breaks both, as it breaks DisplacedCannotDetach.                *)
ReconcileSparesClients ==
  [][\A k \in WorkerConns, s \in Sessions :
       ApplyStaged(k) /\ flight[k].kind = "reconcile" /\ s \in flight[k].on
         => mem[s].client = None]_vars

(* SessionLifecycleCoordinatorTests.cs:39-42: once a session is deleted,   *)
(* row and record, the coordinator does not find it again.                 *)
DeletedStaysDeleted ==
  [][\A s \in Sessions :
       s \in created /\ mem[s].state = "Absent" /\ db[s].state = "Absent"
         => mem'[s].state = "Absent"]_vars
=============================================================================
