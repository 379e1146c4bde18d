-------------------------- MODULE WorkerRuntimeProofs --------------------------
(***************************************************************************)
(* Proofs about WorkerRuntime, for any number of runtimes, connections,    *)
(* commands and restarts.                                                  *)
(*                                                                         *)
(* The inductive invariant has two halves.  WorkerSide is about the map,   *)
(* the runtimes and what each thread is about to do: whoever took the      *)
(* entry out of the map disposes of the process before anything may throw, *)
(* and the observer of a runtime notifies last, so that the entry it       *)
(* removes then, even another runtime's, is still closed.  Believed is     *)
(* about what the gateway was told: over a connection on which the worker  *)
(* has taken its snapshot, no shell ends without a report to come.         *)
(***************************************************************************)
EXTENDS WorkerRuntime, TLAPS

(* What the threads are about to do.                                       *)
StepSet == [do : {"dispose", "forward", "notify", "fail", "drain", "report"}, r : Runs]

Steps(s) == {s[i] : i \in DOMAIN s}
Todo(t) == Steps(todo[t])

Runtime == [process    : {"none", "alive", "exited", "gone"},
            pump       : {"off", "reading", "sending", "ended"},
            observed   : BOOLEAN,
            disposed   : BOOLEAN,
            terminated : BOOLEAN]

Types ==
  /\ conn \in Nat \ {0} /\ (conn > 1 => conn <= MaxLinks)
  /\ link \in BOOLEAN
  /\ joined \in {"no", "registered", "with", "without", "reported"}
  /\ inbox \in Seq({"start", "close"})
  /\ sessions \in 0 .. used.runs
  /\ rt \in [Runs -> Runtime]
  /\ todo \in [Threads -> Seq(StepSet)]
  /\ session \in [state : {"none", "Attached", "DetachedGracePeriod", "Recovering",
                           "Expired", "Exited"},
                  client : BOOLEAN, conn : 0 .. conn]
  /\ shielded \in BOOLEAN
  /\ used \in [runs : 0 .. MaxRuns, commands : Nat, restarts : Nat]

(* A runtime is observed as long as its process lives, and its observer    *)
(* has nothing else to do until then; a disposed runtime has no process.   *)
Observed ==
  \A r \in Runs :
    /\ rt[r].process = "alive" <=> rt[r].observed
    /\ rt[r].observed => todo[r] = <<>>
    /\ rt[r].disposed => rt[r].process # "alive"

(* What has not been created is nowhere.                                   *)
Uncreated ==
  /\ \A r \in Runs : r > used.runs => rt[r] = NoRuntime /\ todo[r] = <<>>
  /\ \A t \in Threads : \A e \in Todo(t) : e.r <= used.runs

(* Each thread is busy with one runtime.  The handler closes what the map  *)
(* no longer holds, and an observer notifies last.                         *)
Order ==
  /\ \A t \in Threads : \A e, f \in Todo(t) : e.r = f.r
  /\ \A e \in Todo(Handler) : /\ e.do \in {"dispose", "forward", "notify", "fail"}
                              /\ e.do # "fail" => sessions = 0
  /\ \A r \in Runs : \A i \in DOMAIN todo[r] : todo[r][i].do = "notify" => i = Len(todo[r])
  /\ \A r \in Runs : \A e \in Todo(r) : e.do # "fail"
  /\ \A t \in Threads : Len(todo[t]) <= 7

Forwards(t) == \E e \in Todo(t) : e.do = "forward"

(* A thread that may throw has disposed of what it had to dispose of.      *)
Throwing ==
  \A t \in Threads : Forwards(t) =>
    /\ \A e \in Todo(t) : e.do \notin {"drain", "report"}
    /\ Head(todo[t]).do # "dispose" =>
         \A e \in Todo(t) : e.do = "dispose" => rt[e.r].disposed

(* The runtime that the map holds is closed by its own observer only.      *)
HeldIsOwn ==
  sessions # 0 =>
    /\ ~rt[sessions].terminated
    /\ rt[sessions].process = "alive" \/ Step("notify", sessions) \in Todo(sessions)
    /\ ~Forwards(sessions)
    /\ \A t \in Threads \ {sessions} : \A e \in Todo(t) : e.r = sessions => e.do = "fail"

LiveIsHeld ==
  \A r \in Runs : rt[r].process = "alive" =>
    sessions = r \/ \E t \in Threads : Step("dispose", r) \in Todo(t)

SessionOK ==
  /\ session.state = "none" => session = NoSession
  /\ session.state = "Recovering" => session.conn = 0

(* The gateway believes in a shell of this connection: there is one, or     *)
(* one is about to start, or some thread will report that there is none.   *)
Believing == link /\ joined \in {"with", "reported"} /\ Running(session) /\ session.conn = conn
Starting  == \E i \in DOMAIN inbox : inbox[i] = "start"
Reporting == \E t \in Threads : \E e \in Todo(t) : e.do \in {"forward", "report", "fail"}

Believed ==
  Believing => (joined = "reported" /\ shielded) \/ sessions # 0 \/ Starting \/ Reporting

IInv == /\ Types /\ Observed /\ Uncreated /\ Order /\ Throwing
        /\ HeldIsOwn /\ LiveIsHeld /\ SessionOK /\ Believed

-----------------------------------------------------------------------------
(* Lists of steps.                                                         *)

LEMMA TailOf ==
  ASSUME NEW s \in Seq(StepSet), s # <<>>
  PROVE  /\ Head(s) \in StepSet /\ Tail(s) \in Seq(StepSet)
         /\ Len(Tail(s)) = Len(s) - 1
         /\ Steps(s) = {Head(s)} \cup Steps(Tail(s))
         /\ \A i \in DOMAIN Tail(s) : Tail(s)[i] = s[i + 1] /\ i + 1 \in DOMAIN s
<1>1. Len(s) \in Nat /\ Len(s) > 0 /\ DOMAIN s = 1 .. Len(s)
  OBVIOUS
<1>2. /\ Head(s) = s[1] /\ Tail(s) \in Seq(StepSet) /\ Len(Tail(s)) = Len(s) - 1
      /\ DOMAIN Tail(s) = 1 .. (Len(s) - 1)
      /\ \A i \in 1 .. (Len(s) - 1) : Tail(s)[i] = s[i + 1]
  BY <1>1
<1>3. Head(s) \in StepSet
  BY <1>1, <1>2
<1>4. ASSUME NEW e \in Steps(s) PROVE e \in {Head(s)} \cup Steps(Tail(s))
  <2>1. PICK i \in DOMAIN s : e = s[i]
    BY DEF Steps
  <2>2. CASE i = 1
    BY <1>2, <2>1, <2>2
  <2>3. CASE i # 1
    <3>1. i - 1 \in DOMAIN Tail(s) /\ Tail(s)[i - 1] = e
      BY <1>1, <1>2, <2>1, <2>3
    <3> QED
      BY <3>1 DEF Steps
  <2> QED
    BY <2>2, <2>3
<1>5. ASSUME NEW e \in {Head(s)} \cup Steps(Tail(s)) PROVE e \in Steps(s)
  <2>1. CASE e = Head(s)
    BY <1>1, <1>2, <2>1 DEF Steps
  <2>2. CASE e \in Steps(Tail(s))
    <3>1. PICK i \in DOMAIN Tail(s) : e = Tail(s)[i]
      BY <2>2 DEF Steps
    <3>2. i + 1 \in DOMAIN s /\ e = s[i + 1]
      BY <1>1, <1>2, <3>1
    <3> QED
      BY <3>2 DEF Steps
  <2> QED
    BY <2>1, <2>2
<1> QED
  BY <1>1, <1>2, <1>3, <1>4, <1>5

LEMMA StepIs ==
  ASSUME NEW do \in {"dispose", "forward", "notify", "fail", "drain", "report"}, NEW r \in Runs
  PROVE  Step(do, r) \in StepSet /\ Step(do, r).do = do /\ Step(do, r).r = r
BY DEF Step, StepSet

LEMMA Emptiness == Steps(<<>>) = {}
BY DEF Steps

LEMMA ThreeSteps ==
  ASSUME NEW a \in StepSet, NEW b \in StepSet, NEW c \in StepSet
  PROVE  /\ <<a, b, c>> \in Seq(StepSet) /\ Len(<<a, b, c>>) = 3
         /\ Steps(<<a, b, c>>) = {a, b, c} /\ Head(<<a, b, c>>) = a
<1>1. Steps(<<a, b, c>>) = {a, b, c}
  <2>1. DOMAIN <<a, b, c>> = {1, 2, 3}
    OBVIOUS
  <2> QED
    BY <2>1 DEF Steps
<1> QED
  BY <1>1

LEMMA OneStep ==
  ASSUME NEW a \in StepSet
  PROVE  <<a>> \in Seq(StepSet) /\ Len(<<a>>) = 1 /\ Steps(<<a>>) = {a} /\ Head(<<a>>) = a
<1>1. DOMAIN <<a>> = {1}
  OBVIOUS
<1> QED
  BY <1>1 DEF Steps

LEMMA ConcatOf ==
  ASSUME NEW s \in Seq(StepSet), NEW q \in Seq(StepSet)
  PROVE  /\ s \o q \in Seq(StepSet) /\ Len(s \o q) = Len(s) + Len(q)
         /\ Steps(s \o q) = Steps(s) \cup Steps(q)
         /\ s # <<>> => Head(s \o q) = Head(s)
<1>1. /\ s \o q \in Seq(StepSet) /\ Len(s \o q) = Len(s) + Len(q)
      /\ Len(s) \in Nat /\ Len(q) \in Nat
      /\ DOMAIN s = 1 .. Len(s) /\ DOMAIN q = 1 .. Len(q)
      /\ DOMAIN (s \o q) = 1 .. (Len(s) + Len(q))
      /\ \A i \in 1 .. (Len(s) + Len(q)) : (s \o q)[i] = IF i <= Len(s) THEN s[i] ELSE q[i - Len(s)]
  OBVIOUS
<1>2. s # <<>> => Head(s \o q) = Head(s)
  BY <1>1
<1>3. ASSUME NEW e \in Steps(s \o q) PROVE e \in Steps(s) \cup Steps(q)
  <2>1. PICK i \in 1 .. (Len(s) + Len(q)) : e = (s \o q)[i]
    BY <1>1, <1>3 DEF Steps
  <2>2. CASE i <= Len(s)
    BY <1>1, <2>1, <2>2 DEF Steps
  <2>3. CASE ~(i <= Len(s))
    <3>1. i - Len(s) \in 1 .. Len(q) /\ e = q[i - Len(s)]
      BY <1>1, <2>1, <2>3
    <3> QED
      BY <1>1, <3>1 DEF Steps
  <2> QED
    BY <2>2, <2>3
<1>4. ASSUME NEW e \in Steps(s) PROVE e \in Steps(s \o q)
  <2>1. PICK i \in 1 .. Len(s) : e = s[i]
    BY <1>1, <1>4 DEF Steps
  <2>2. i \in 1 .. (Len(s) + Len(q)) /\ (s \o q)[i] = e
    BY <1>1, <2>1
  <2> QED
    BY <1>1, <2>2 DEF Steps
<1>5. ASSUME NEW e \in Steps(q) PROVE e \in Steps(s \o q)
  <2>1. PICK i \in 1 .. Len(q) : e = q[i]
    BY <1>1, <1>5 DEF Steps
  <2>2. i + Len(s) \in 1 .. (Len(s) + Len(q)) /\ (s \o q)[i + Len(s)] = e
    BY <1>1, <2>1
  <2> QED
    BY <1>1, <2>2 DEF Steps
<1> QED
  BY <1>1, <1>2, <1>3, <1>4, <1>5

(* The lists that the worker's code amounts to.                            *)
Disposes(r) == {Step("dispose", r), Step("forward", r), Step("notify", r)}
Finishes(r) == {Step("drain", r), Step("dispose", r), Step("notify", r)}

LEMMA ListsOf ==
  ASSUME NEW r \in Runs
  PROVE  /\ CloseAsync(r) \in Seq(StepSet) /\ Len(CloseAsync(r)) = 3
         /\ Steps(CloseAsync(r)) = Disposes(r) /\ Head(CloseAsync(r)) = Step("dispose", r)
         /\ FinallyBlock(r) \in Seq(StepSet) /\ Len(FinallyBlock(r)) = 3
         /\ Steps(FinallyBlock(r)) = Finishes(r)
         /\ CloseAsync(r) # <<>> /\ FinallyBlock(r) # <<>>
BY StepIs, ThreeSteps DEF CloseAsync, FinallyBlock, Disposes, Finishes

-----------------------------------------------------------------------------
(* Types.                                                                  *)

LEMMA RestOf ==
  ASSUME todo \in [Threads -> Seq(StepSet)], NEW t \in Threads, todo[t] # <<>>
  PROVE  /\ Rest(t) \in [Threads -> Seq(StepSet)] /\ Rest(t)[t] = Tail(todo[t])
         /\ \A u \in Threads \ {t} : Rest(t)[u] = todo[u]
BY TailOf DEF Rest

LEMMA HeadIs ==
  ASSUME todo \in [Threads -> Seq(StepSet)], NEW t \in Threads,
         NEW do \in {"dispose", "forward", "notify", "fail", "drain", "report"}, Next1(t, do)
  PROVE  /\ todo[t] # <<>> /\ Head(todo[t]).r \in Runs
         /\ Head(todo[t]) = Step(do, Head(todo[t]).r) /\ Head(todo[t]) \in Todo(t)
<1>1. todo[t] \in Seq(StepSet) /\ todo[t] # <<>> /\ Head(todo[t]).do = do
  BY DEF Next1
<1>2. Head(todo[t]) \in StepSet /\ Head(todo[t]) \in Todo(t)
  BY <1>1, TailOf DEF Todo
<1> QED
  BY <1>1, <1>2 DEF StepSet, Step

LEMMA RunsAreThreads == Runs \subseteq Threads /\ Handler \in Threads /\ Handler \notin Runs
BY DEF Runs, Threads, Handler

LEMMA NoRuntimeIs == NoRuntime \in Runtime /\ Killed \in Runtime
BY DEF NoRuntime, Killed, Runtime

LEMMA TakenFrom ==
  ASSUME inbox \in Seq({"start", "close"}), NEW c, Take(c)
  PROVE  inbox' \in Seq({"start", "close"})
BY DEF Take

LEMMA DispatchedTo ==
  ASSUME Types, NEW c \in {"start", "close"}, Dispatch(c)
  PROVE  /\ inbox' \in Seq({"start", "close"})
         /\ used' \in [runs : 0 .. MaxRuns, commands : Nat, restarts : Nat]
         /\ used'.runs = used.runs
<1>1. used' = [used EXCEPT !.commands = @ + 1] /\ inbox' = IF link THEN Append(inbox, c) ELSE inbox
  BY DEF Dispatch
<1>2. used \in [runs : 0 .. MaxRuns, commands : Nat, restarts : Nat] /\ inbox \in Seq({"start", "close"})
  BY DEF Types
<1>3. Append(inbox, c) \in Seq({"start", "close"})
  BY <1>2
<1> QED
  BY <1>1, <1>2, <1>3

StartedRuntime == [NoRuntime EXCEPT !.process = "alive", !.pump = "reading", !.observed = TRUE]

LEMMA StartedIs ==
  /\ StartedRuntime \in Runtime /\ StartedRuntime.process = "alive" /\ StartedRuntime.observed
  /\ ~StartedRuntime.disposed /\ ~StartedRuntime.terminated
BY DEF StartedRuntime, NoRuntime, Runtime

LEMMA TakeTypes ==
  ASSUME Types, StartSession \/ StartFails \/ DuplicateStart \/ CloseSession
  PROVE  Types'
<1>1. /\ UNCHANGED <<conn, link, joined, session, shielded>>
      /\ \E c : Take(c)
  BY DEF StartSession, StartFails, DuplicateStart, CloseSession
<1>2. inbox' \in Seq({"start", "close"})
  BY <1>1, TakenFrom DEF Types
<1>3. /\ used' \in [runs : 0 .. MaxRuns, commands : Nat, restarts : Nat]
      /\ sessions' \in 0 .. used'.runs /\ rt' \in [Runs -> Runtime]
      /\ todo' \in [Threads -> Seq(StepSet)]
  <2>1. /\ MaxRuns \in Nat /\ used.runs \in 0 .. MaxRuns /\ sessions \in 0 .. used.runs
        /\ used.commands \in Nat /\ used.restarts \in Nat
        /\ used \in [runs : 0 .. MaxRuns, commands : Nat, restarts : Nat]
        /\ todo \in [Threads -> Seq(StepSet)] /\ rt \in [Runs -> Runtime]
    BY BoundsAssumption DEF Types
  <2>2. sessions # 0 => sessions \in Runs
    BY <2>1 DEF Runs
  <2>3. CASE StartSession
    <3>1. /\ used.runs < MaxRuns /\ used' = [used EXCEPT !.runs = used.runs + 1]
          /\ sessions' = used.runs + 1 /\ todo' = todo
          /\ rt' = [rt EXCEPT ![used.runs + 1] = StartedRuntime]
      BY <2>3 DEF StartSession, StartedRuntime
    <3>2. used.runs + 1 \in 0 .. MaxRuns
      BY <2>1, <3>1
    <3>3. rt' \in [Runs -> Runtime]
      BY <2>1, <3>1, StartedIs
    <3> QED
      BY <2>1, <3>1, <3>2, <3>3
  <2>4. CASE StartFails
    <3> DEFINE r == used.runs + 1
               L == CloseAsync(r) \o CloseAsync(r) \o <<Step("fail", r)>>
    <3>1. /\ used.runs < MaxRuns /\ used' = [used EXCEPT !.runs = r]
          /\ UNCHANGED <<sessions, rt>>
          /\ todo' = [todo EXCEPT ![Handler] = L]
      BY <2>4 DEF StartFails
    <3>2. r \in 0 .. MaxRuns /\ r \in Runs
      BY <2>1, <3>1 DEF Runs
    <3>3. L \in Seq(StepSet)
      BY <3>2, ListsOf, StepIs, OneStep, ConcatOf
    <3> HIDE DEF L
    <3>4. todo' \in [Threads -> Seq(StepSet)]
      BY <2>1, <3>1, <3>3
    <3> QED
      BY <2>1, <3>1, <3>2, <3>4
  <2>5. CASE DuplicateStart
    <3>1. /\ UNCHANGED <<sessions, rt, used>> /\ sessions # 0
          /\ todo' = [todo EXCEPT ![Handler] = <<Step("fail", sessions)>>]
      BY <2>5 DEF DuplicateStart
    <3>2. <<Step("fail", sessions)>> \in Seq(StepSet)
      BY <2>2, <3>1, StepIs, OneStep
    <3> QED
      BY <2>1, <3>1, <3>2
  <2>6. CASE CloseSession
    <3>1. CASE sessions = 0
      BY <2>1, <2>6, <3>1 DEF CloseSession
    <3>2. CASE sessions # 0
      <4> DEFINE L == CloseAsync(sessions) \o CloseAsync(sessions)
      <4>1. /\ UNCHANGED <<rt, used>> /\ sessions' = 0 /\ todo' = [todo EXCEPT ![Handler] = L]
        BY <2>6, <3>2 DEF CloseSession
      <4>2. L \in Seq(StepSet)
        BY <2>2, <3>2, ListsOf, ConcatOf
      <4> HIDE DEF L
      <4> QED
        <5>1. todo' \in [Threads -> Seq(StepSet)]
          BY <2>1, <4>1, <4>2
        <5>2. sessions' \in 0 .. used'.runs
          BY <2>1, <4>1
        <5> QED
          BY <2>1, <4>1, <5>1, <5>2
    <3> QED
      BY <3>1, <3>2
  <2> QED
    BY <2>3, <2>4, <2>5, <2>6
<1> QED
  BY <1>1, <1>2, <1>3 DEF Types

LEMMA ThreadTypes ==
  ASSUME Types, NEW t \in Threads,
         \/ DisposeProcess(t) \/ ForwardExited(t) \/ DrainPumps(t) \/ NotifyTerminated(t)
         \/ t = Handler /\ ForwardStartFailed
         \/ t \in Runs /\ ProcessExits(t)
  PROVE  Types'
<1>1. /\ UNCHANGED <<conn, link, joined, inbox, shielded, used>>
      /\ todo \in [Threads -> Seq(StepSet)] /\ rt \in [Runs -> Runtime]
  BY DEF Types, DisposeProcess, ForwardExited, DrainPumps, NotifyTerminated, ForwardStartFailed,
         ProcessExits
<1> USE DEF Threads
<1>2. CASE DisposeProcess(t)
  <2> DEFINE r == Head(todo[t]).r
             new == [rt[r] EXCEPT !.disposed = TRUE, !.observed = FALSE,
                         !.process = IF @ = "none" THEN @ ELSE "gone"]
  <2>1. r \in Runs /\ todo[t] # <<>>
    BY <1>1, <1>2, HeadIs DEF DisposeProcess
  <2>2. rt[r] \in Runtime
    BY <1>1, <2>1
  <2>3. new \in Runtime
    BY <2>2 DEF Runtime
  <2>4. rt' = rt \/ rt' = [rt EXCEPT ![r] = new]
    BY <1>1, <1>2, <2>1, <2>2 DEF DisposeProcess, Runtime
  <2>5. todo' = Rest(t) \/ todo' = [Rest(t) EXCEPT ![r] = FinallyBlock(r)]
    BY <1>2 DEF DisposeProcess
  <2>6. FinallyBlock(r) \in Seq(StepSet) /\ Rest(t) \in [Threads -> Seq(StepSet)]
    BY <1>1, <2>1, ListsOf, RestOf
  <2>7. UNCHANGED <<sessions, session>>
    BY <1>2 DEF DisposeProcess
  <2> HIDE DEF r, new
  <2>8. rt' \in [Runs -> Runtime]
    BY <1>1, <2>3, <2>4
  <2>9. todo' \in [Threads -> Seq(StepSet)]
    BY <2>5, <2>6
  <2> QED
    BY <1>1, <2>7, <2>8, <2>9 DEF Types
<1>3. CASE ForwardExited(t) \/ DrainPumps(t) \/ (t = Handler /\ ForwardStartFailed)
  <2>1. todo[t] # <<>> /\ UNCHANGED <<sessions, rt>>
    BY <1>3 DEF ForwardExited, DrainPumps, ForwardStartFailed, Next1
  <2>2. todo' = Rest(t) \/ todo' = [todo EXCEPT ![t] = <<>>]
    BY <1>3 DEF ForwardExited, DrainPumps, ForwardStartFailed
  <2>3. todo' \in [Threads -> Seq(StepSet)]
    <3>1. <<>> \in Seq(StepSet)
      OBVIOUS
    <3> QED
      BY <1>1, <2>1, <2>2, <3>1, RestOf
  <2>4. session' \in [state : {"none", "Attached", "DetachedGracePeriod", "Recovering",
                               "Expired", "Exited"},
                      client : BOOLEAN, conn : 0 .. conn]
    <3>1. CASE ForwardExited(t) \/ DrainPumps(t)
      <4>1. session' = session \/ session' = NoSession
        BY <3>1 DEF ForwardExited, SessionExited, DrainPumps
      <4>2. NoSession \in [state : {"none", "Attached", "DetachedGracePeriod", "Recovering",
                                    "Expired", "Exited"},
                           client : BOOLEAN, conn : 0 .. conn]
        BY DEF Types, NoSession
      <4> QED
        BY <4>1, <4>2 DEF Types
    <3>2. CASE ForwardStartFailed
      <4>1. session' = session \/ session' = [session EXCEPT !.state = "Exited", !.client = FALSE]
        BY <3>2 DEF ForwardStartFailed
      <4> QED
        BY <4>1 DEF Types
    <3> QED
      BY <1>3, <3>1, <3>2
  <2> QED
    BY <1>1, <2>1, <2>3, <2>4 DEF Types
<1>4. CASE NotifyTerminated(t)
  <2> DEFINE r == Head(todo[t]).r
  <2>1. r \in Runs /\ todo[t] # <<>> /\ UNCHANGED session
    BY <1>1, <1>4, HeadIs DEF NotifyTerminated
  <2>2. rt' = [rt EXCEPT ![r].terminated = TRUE] /\ rt[r] \in Runtime
    BY <1>1, <1>4, <2>1 DEF NotifyTerminated
  <2>3. rt' \in [Runs -> Runtime]
    <3>1. [rt[r] EXCEPT !.terminated = TRUE] \in Runtime
      BY <2>2 DEF Runtime
    <3> HIDE DEF r
    <3> QED
      BY <1>1, <2>2, <3>1
  <2>4. CASE todo' = Rest(t) /\ sessions' = sessions
    BY <1>1, <2>1, <2>3, <2>4, RestOf DEF Types
  <2>5. CASE sessions # 0 /\ sessions' = 0
             /\ todo' = [todo EXCEPT ![t] = CloseAsync(sessions) \o Tail(@)]
    <3>1. sessions \in Runs
      BY BoundsAssumption, <2>5 DEF Types, Runs
    <3>2. CloseAsync(sessions) \o Tail(todo[t]) \in Seq(StepSet)
      BY <1>1, <2>1, <3>1, ListsOf, TailOf, ConcatOf
    <3>3. todo' \in [Threads -> Seq(StepSet)]
      BY <1>1, <2>5, <3>2
    <3>4. sessions' \in 0 .. used'.runs
      BY <1>1, <2>5 DEF Types
    <3> QED
      BY <1>1, <2>1, <2>3, <3>3, <3>4 DEF Types
  <2> QED
    BY <1>4, <2>4, <2>5 DEF NotifyTerminated
<1>5. CASE t \in Runs /\ ProcessExits(t)
  <2>1. [rt[t] EXCEPT !.process = "exited", !.observed = FALSE] \in Runtime
    BY <1>1, <1>5 DEF Runtime
  <2>2. rt' \in [Runs -> Runtime]
    BY <1>1, <1>5, <2>1 DEF ProcessExits
  <2>3. <<Step("report", t)>> \o FinallyBlock(t) \in Seq(StepSet)
    BY <1>5, StepIs, OneStep, ListsOf, ConcatOf
  <2>4. todo' \in [Threads -> Seq(StepSet)]
    BY <1>1, <1>5, <2>3 DEF ProcessExits
  <2> QED
    BY <1>1, <1>5, <2>2, <2>4 DEF Types, ProcessExits
<1> QED
  BY <1>2, <1>3, <1>4, <1>5

SessionSet == [state : {"none", "Attached", "DetachedGracePeriod", "Recovering",
                        "Expired", "Exited"},
               client : BOOLEAN, conn : 0 .. conn]

LEMMA PumpTypes ==
  ASSUME Types, Drop \/ \E r \in Runs : PumpTakes(r) \/ PumpForwarded(r)
  PROVE  /\ Types'
         /\ UNCHANGED <<conn, joined, sessions, todo, session, shielded, used>>
         /\ \A r \in Runs : /\ rt'[r].process = rt[r].process
                            /\ rt'[r].observed = rt[r].observed
                            /\ rt'[r].disposed = rt[r].disposed
                            /\ rt'[r].terminated = rt[r].terminated
                            /\ rt[r] = NoRuntime => rt'[r] = NoRuntime
         /\ UNCHANGED <<link, inbox>> \/ ~link'
<1>1. rt \in [Runs -> Runtime]
  BY DEF Types
<1>2. CASE Drop
  <2>1. rt' = [r \in Runs |-> [rt[r] EXCEPT !.pump = IF @ = "sending" THEN "ended" ELSE @]]
    BY <1>2 DEF Drop
  <2>2. ASSUME NEW r \in Runs
        PROVE  /\ rt'[r] \in Runtime
               /\ rt'[r].process = rt[r].process /\ rt'[r].observed = rt[r].observed
               /\ rt'[r].disposed = rt[r].disposed /\ rt'[r].terminated = rt[r].terminated
               /\ rt[r] = NoRuntime => rt'[r] = NoRuntime
    <3>1. rt[r] \in Runtime
      BY <1>1
    <3>2. rt'[r] = [rt[r] EXCEPT !.pump = IF rt[r].pump = "sending" THEN "ended" ELSE rt[r].pump]
      BY <2>1
    <3> QED
      BY <3>1, <3>2 DEF Runtime, NoRuntime
  <2>3. rt' \in [Runs -> Runtime]
    BY <2>1, <2>2
  <2>4. <<>> \in Seq({"start", "close"})
    OBVIOUS
  <2> QED
    BY <1>2, <2>2, <2>3, <2>4 DEF Drop, Types
<1>3. ASSUME NEW r \in Runs, PumpTakes(r) \/ PumpForwarded(r)
      PROVE  /\ rt' \in [Runs -> Runtime]
             /\ \A q \in Runs : /\ rt'[q].process = rt[q].process
                                /\ rt'[q].observed = rt[q].observed
                                /\ rt'[q].disposed = rt[q].disposed
                                /\ rt'[q].terminated = rt[q].terminated
                                /\ rt[q] = NoRuntime => rt'[q] = NoRuntime
  <2>1. PICK p \in {"reading", "sending", "ended"} : rt' = [rt EXCEPT ![r] = [rt[r] EXCEPT !.pump = p]]
    BY <1>1, <1>3 DEF PumpTakes, PumpForwarded
  <2>2. rt[r] \in Runtime /\ rt[r] # NoRuntime
    BY <1>1, <1>3 DEF PumpTakes, PumpForwarded, NoRuntime
  <2>3. [rt[r] EXCEPT !.pump = p] \in Runtime
    BY <2>2 DEF Runtime
  <2>4. rt' \in [Runs -> Runtime]
    BY <1>1, <2>1, <2>3
  <2>5. ASSUME NEW q \in Runs
        PROVE  /\ rt'[q].process = rt[q].process
               /\ rt'[q].observed = rt[q].observed
               /\ rt'[q].disposed = rt[q].disposed
               /\ rt'[q].terminated = rt[q].terminated
               /\ rt[q] = NoRuntime => rt'[q] = NoRuntime
    <3>1. CASE q = r
      BY <1>1, <2>1, <2>2, <3>1 DEF Runtime
    <3>2. CASE q # r
      BY <1>1, <2>1, <3>2
    <3> QED
      BY <3>1, <3>2
  <2> QED
    BY <2>4, <2>5
<1>4. CASE \E r \in Runs : PumpTakes(r) \/ PumpForwarded(r)
  <2>1. UNCHANGED <<conn, link, joined, inbox, sessions, todo, session, shielded, used>>
    BY <1>4 DEF PumpTakes, PumpForwarded
  <2> QED
    BY <1>3, <1>4, <2>1 DEF Types
<1> QED
  BY <1>2, <1>4

LEMMA RestartTypes ==
  ASSUME Types, Restart
  PROVE  Types'
<1>1. /\ rt' = [r \in Runs |-> IF r <= used.runs THEN Killed ELSE NoRuntime]
      /\ todo' = [t \in Threads |-> <<>>] /\ inbox' = <<>> /\ sessions' = 0 /\ link' = FALSE
      /\ used' = [used EXCEPT !.restarts = @ + 1] /\ UNCHANGED <<conn, joined, session, shielded>>
  BY DEF Restart
<1>2. rt' \in [Runs -> Runtime] /\ todo' \in [Threads -> Seq(StepSet)]
  BY <1>1, NoRuntimeIs
<1>3. /\ used' \in [runs : 0 .. MaxRuns, commands : Nat, restarts : Nat]
      /\ 0 \in 0 .. used'.runs /\ <<>> \in Seq({"start", "close"})
  <2>1. used \in [runs : 0 .. MaxRuns, commands : Nat, restarts : Nat]
    BY DEF Types
  <2>2. used.runs \in 0 .. MaxRuns /\ used.restarts + 1 \in Nat
    BY <2>1
  <2>3. used' \in [runs : 0 .. MaxRuns, commands : Nat, restarts : Nat] /\ used'.runs = used.runs
    BY <1>1, <2>1, <2>2
  <2>4. 0 \in 0 .. used'.runs
    BY <2>2, <2>3, BoundsAssumption
  <2> QED
    BY <2>3, <2>4
<1> QED
  BY <1>1, <1>2, <1>3 DEF Types

(* Steps of the gateway, and of the worker's registration with it.         *)
Remote == Gateway \/ Register \/ TakeSnapshot \/ ReportWorkerSessions \/ Reconnect

LEMMA RemoteTypes ==
  ASSUME Types, Remote
  PROVE  /\ Types' /\ UNCHANGED <<sessions, rt, todo>> /\ used'.runs = used.runs
<1>1. CASE Gateway
  <2>1. UNCHANGED <<conn, link, joined, sessions, rt, todo, shielded>>
    BY <1>1 DEF Gateway, WorkerDisconnected, CreateSession, ReattachSession, DetachSession,
                Terminate, DeleteSession, Unused
  <2>2. \/ UNCHANGED <<inbox, used>> \/ Dispatch("start") \/ Dispatch("close")
    BY <1>1 DEF Gateway, WorkerDisconnected, CreateSession, ReattachSession, DetachSession,
                Terminate, DeleteSession
  <2>3. session' \in SessionSet
    <3>1. session \in SessionSet /\ conn \in Nat
      BY DEF Types, SessionSet
    <3>2. \/ session' = session
          \/ session' = [state |-> "Recovering", client |-> FALSE, conn |-> 0]
          \/ session' = [state |-> "Attached", client |-> TRUE, conn |-> conn]
          \/ session' = [session EXCEPT !.state = "Attached", !.client = TRUE]
          \/ session' = [session EXCEPT !.state = "DetachedGracePeriod", !.client = FALSE]
          \/ session' = NoSession
      BY <1>1 DEF Gateway, WorkerDisconnected, CreateSession, ReattachSession, DetachSession,
                  Terminate, DeleteSession
    <3>3. [session EXCEPT !.state = "Attached", !.client = TRUE] \in SessionSet
      BY <3>1 DEF SessionSet
    <3>4. [session EXCEPT !.state = "DetachedGracePeriod", !.client = FALSE] \in SessionSet
      BY <3>1 DEF SessionSet
    <3>5. /\ [state |-> "Recovering", client |-> FALSE, conn |-> 0] \in SessionSet
          /\ [state |-> "Attached", client |-> TRUE, conn |-> conn] \in SessionSet
          /\ NoSession \in SessionSet
      BY <3>1 DEF SessionSet, NoSession
    <3> QED
      BY <3>1, <3>2, <3>3, <3>4, <3>5
  <2>4. /\ inbox' \in Seq({"start", "close"}) /\ used'.runs = used.runs
        /\ used' \in [runs : 0 .. MaxRuns, commands : Nat, restarts : Nat]
    BY <2>2, DispatchedTo DEF Types
  <2> QED
    BY <2>1, <2>3, <2>4 DEF Types, SessionSet
<1>2. CASE Register \/ TakeSnapshot \/ ReportWorkerSessions
  <2>1. UNCHANGED <<conn, link, inbox, sessions, rt, todo, used>>
    BY <1>2 DEF Register, TakeSnapshot, ReportWorkerSessions
  <2>2. joined' \in {"registered", "with", "without", "reported"} /\ shielded' \in BOOLEAN
    BY <1>2 DEF Register, TakeSnapshot, ReportWorkerSessions, Types
  <2>3. session' \in SessionSet
    <3>1. session \in SessionSet /\ conn \in Nat
      BY DEF Types, SessionSet
    <3>2. \/ session' = session
          \/ session' = [session EXCEPT !.state = "Attached", !.conn = conn]
          \/ session' = [session EXCEPT !.conn = conn]
          \/ session' = [session EXCEPT !.state = "Expired", !.client = FALSE]
      BY <1>2 DEF Register, TakeSnapshot, ReportWorkerSessions
    <3>3. /\ [session EXCEPT !.state = "Attached", !.conn = conn] \in SessionSet
          /\ [session EXCEPT !.conn = conn] \in SessionSet
      <4>1. conn \in 0 .. conn
        BY <3>1
      <4>2. [session EXCEPT !.conn = conn] \in SessionSet
        BY <3>1, <4>1 DEF SessionSet
      <4>3. [session EXCEPT !.state = "Attached", !.conn = conn] \in SessionSet
        BY <3>1, <4>1 DEF SessionSet
      <4> QED
        BY <4>2, <4>3
    <3>4. [session EXCEPT !.state = "Expired", !.client = FALSE] \in SessionSet
      BY <3>1 DEF SessionSet
    <3> QED
      BY <3>1, <3>2, <3>3, <3>4
  <2> QED
    BY <2>1, <2>2, <2>3 DEF Types, SessionSet
<1>3. CASE Reconnect
  <2>1. /\ conn' = conn + 1 /\ conn < MaxLinks /\ link' = TRUE /\ joined' = "no"
        /\ UNCHANGED <<inbox, sessions, rt, todo, session, shielded, used>>
    BY <1>3 DEF Reconnect
  <2>2. conn' \in Nat \ {0} /\ conn' <= MaxLinks
    BY <2>1, BoundsAssumption DEF Types
  <2>3. \A c \in 0 .. conn : c \in 0 .. conn'
    BY <2>1 DEF Types
  <2> QED
    BY <2>1, <2>2, <2>3 DEF Types
<1> QED
  BY <1>1, <1>2, <1>3 DEF Remote

-----------------------------------------------------------------------------
(* The worker's part of the invariant, step by step.                       *)
WorkerSide == Observed /\ Uncreated /\ Order /\ Throwing /\ HeldIsOwn /\ LiveIsHeld

LEMMA RemoteKeeps ==
  ASSUME WorkerSide, UNCHANGED <<sessions, rt, todo>>, used'.runs = used.runs
  PROVE  WorkerSide'
<1>1. Observed' /\ Uncreated'
  BY DEF WorkerSide, Observed, Uncreated, Todo
<1>2. Order'
  BY DEF WorkerSide, Order, Todo
<1>3. Throwing'
  BY DEF WorkerSide, Throwing, Todo, Forwards
<1>4. HeldIsOwn' /\ LiveIsHeld'
  BY DEF WorkerSide, HeldIsOwn, LiveIsHeld, Todo, Forwards
<1> QED
  BY <1>1, <1>2, <1>3, <1>4 DEF WorkerSide

(* The part of a runtime that the invariant looks at.                      *)
SameRuntimes ==
  \A r \in Runs : /\ rt'[r].process = rt[r].process
                  /\ rt'[r].observed = rt[r].observed
                  /\ rt'[r].disposed = rt[r].disposed
                  /\ r > used.runs /\ rt[r] = NoRuntime => rt'[r] = NoRuntime

LEMMA HeldIsRun == ASSUME Types, sessions # 0 PROVE sessions \in Runs /\ sessions \in Threads
<1>1. sessions \in 1 .. MaxRuns
  BY BoundsAssumption DEF Types
<1> QED
  BY <1>1 DEF Runs, Threads

LEMMA StepsAre ==
  ASSUME Types
  PROVE  \A t \in Threads : \A e \in Todo(t) : e \in StepSet /\ e.r \in Runs
<1> SUFFICES ASSUME NEW t \in Threads, NEW e \in Todo(t) PROVE e \in StepSet
  BY DEF StepSet
<1>1. todo[t] \in Seq(StepSet)
  BY DEF Types
<1> QED
  BY <1>1 DEF Todo, Steps

LEMMA PumpKeeps ==
  ASSUME Types, WorkerSide, UNCHANGED <<sessions, todo, used>>, SameRuntimes,
         \A r \in Runs : rt'[r].terminated = rt[r].terminated
  PROVE  WorkerSide'
<1>1. Observed' /\ Uncreated'
  BY DEF WorkerSide, Observed, Uncreated, Todo, SameRuntimes
<1>2. Order'
  BY DEF WorkerSide, Order, Todo
<1>3. Throwing'
  <2>1. \A t \in Threads : \A e \in Todo(t) : e.r \in Runs
    BY StepsAre
  <2> QED
    BY <2>1 DEF WorkerSide, Throwing, Todo, Forwards, SameRuntimes
<1>4. HeldIsOwn' /\ LiveIsHeld'
  BY HeldIsRun DEF WorkerSide, HeldIsOwn, LiveIsHeld, Todo, Forwards, SameRuntimes
<1> QED
  BY <1>1, <1>2, <1>3, <1>4 DEF WorkerSide

LEMMA RestartKeeps ==
  ASSUME Types, Restart
  PROVE  WorkerSide'
<1>1. /\ rt' = [r \in Runs |-> IF r <= used.runs THEN Killed ELSE NoRuntime]
      /\ sessions' = 0 /\ used'.runs = used.runs
      /\ \A t \in Threads : todo'[t] = <<>>
  BY DEF Restart, Types
<1>2. \A t \in Threads : Todo(t)' = {}
  BY <1>1, Emptiness DEF Todo
<1>3. \A r \in Runs : ~rt'[r].observed /\ rt'[r].process # "alive"
  BY <1>1 DEF Killed, NoRuntime
<1>4. Observed' /\ LiveIsHeld' /\ HeldIsOwn'
  BY <1>1, <1>2, <1>3 DEF Observed, LiveIsHeld, HeldIsOwn
<1>5. Uncreated'
  <2>1. \A r \in Runs : r > used'.runs => rt'[r] = NoRuntime
    BY <1>1 DEF Runs, Types
  <2> QED
    BY <1>1, <1>2, <2>1, RunsAreThreads DEF Uncreated
<1>6. Order'
  BY <1>1, <1>2, RunsAreThreads DEF Order
<1>7. Throwing'
  BY <1>2 DEF Throwing, Forwards
<1> QED
  BY <1>4, <1>5, <1>6, <1>7 DEF WorkerSide

(* What a thread's list knows of its runtime.                              *)
LEMMA ListFacts ==
  ASSUME Types, WorkerSide, NEW t \in Threads, todo[t] # <<>>
  PROVE  /\ Head(todo[t]) \in StepSet /\ Todo(t) = {Head(todo[t])} \cup Steps(Tail(todo[t]))
         /\ Tail(todo[t]) \in Seq(StepSet) /\ Len(Tail(todo[t])) = Len(todo[t]) - 1
         /\ \A e \in Todo(t) : e \in StepSet /\ e.r = Head(todo[t]).r /\ e.r <= used.runs
         /\ t \in Runs => ~rt[t].observed
<1>1. todo[t] \in Seq(StepSet)
  BY DEF Types
<1>2. /\ Head(todo[t]) \in StepSet /\ Todo(t) = {Head(todo[t])} \cup Steps(Tail(todo[t]))
      /\ Tail(todo[t]) \in Seq(StepSet) /\ Len(Tail(todo[t])) = Len(todo[t]) - 1
  BY <1>1, TailOf DEF Todo
<1>3. \A e \in Todo(t) : e \in StepSet
  BY <1>1 DEF Todo, Steps
<1>4. \A e \in Todo(t) : e.r = Head(todo[t]).r /\ e.r <= used.runs
  BY <1>2 DEF WorkerSide, Order, Uncreated
<1> QED
  BY <1>2, <1>3, <1>4 DEF WorkerSide, Observed

(* A thread goes on to its next step, having done nothing that counts.     *)
LEMMA PopKeeps ==
  ASSUME Types, WorkerSide, NEW t \in Threads, todo[t] # <<>>, todo' = Rest(t),
         UNCHANGED <<sessions, used>>, SameRuntimes,
         sessions # 0 => rt'[sessions].terminated = rt[sessions].terminated,
         Head(todo[t]).do = "dispose" => rt[Head(todo[t]).r].disposed,
         sessions = t => Head(todo[t]) # Step("notify", t)
  PROVE  WorkerSide'
<1> DEFINE h == Head(todo[t])
<1>1. /\ todo'[t] = Tail(todo[t]) /\ \A u \in Threads \ {t} : todo'[u] = todo[u]
  BY RestOf DEF Types
<1>2. /\ Todo(t) = {h} \cup Todo(t)' /\ \A u \in Threads \ {t} : Todo(u)' = Todo(u)
      /\ h \in StepSet /\ \A e \in Todo(t) : e \in StepSet /\ e.r = h.r
      /\ t \in Runs => ~rt[t].observed
  BY <1>1, ListFacts DEF Todo
<1>3. \A u \in Threads : Todo(u)' \subseteq Todo(u)
  BY <1>2
<1> HIDE DEF h
<1>4. Observed'
  BY <1>1, <1>2, RunsAreThreads DEF WorkerSide, Observed, SameRuntimes
<1>5. Uncreated'
  <2>1. \A r \in Runs : r > used.runs => todo'[r] = <<>> /\ rt'[r] = NoRuntime
    BY <1>1, RunsAreThreads DEF WorkerSide, Uncreated, SameRuntimes
  <2> QED
    BY <1>3, <2>1 DEF WorkerSide, Uncreated
<1>6. Order'
  <2>1. \A r \in Runs : \A i \in DOMAIN todo'[r] : todo'[r][i].do = "notify" => i = Len(todo'[r])
    <3> SUFFICES ASSUME NEW r \in Runs, NEW i \in DOMAIN todo'[r], todo'[r][i].do = "notify"
                 PROVE  i = Len(todo'[r])
      OBVIOUS
    <3>1. CASE r = t
      <4>1. todo[t] \in Seq(StepSet)
        BY DEF Types
      <4>2. \A j \in DOMAIN Tail(todo[t]) : /\ Tail(todo[t])[j] = todo[t][j + 1]
                                            /\ j + 1 \in DOMAIN todo[t]
        BY <4>1, TailOf
      <4>3. i \in DOMAIN Tail(todo[t]) /\ Tail(todo[t])[i].do = "notify"
        BY <1>1, <3>1
      <4>4. i + 1 = Len(todo[t])
        BY <3>1, <4>2, <4>3 DEF WorkerSide, Order
      <4>5. Len(Tail(todo[t])) = Len(todo[t]) - 1 /\ Tail(todo[t]) \in Seq(StepSet)
        BY <4>1, TailOf
      <4>6. i \in Nat /\ Len(todo[t]) \in Nat
        BY <4>1, <4>3, <4>5
      <4>7. Len(todo'[r]) = Len(todo[t]) - 1
        BY <1>1, <3>1, <4>5
      <4> QED
        BY <4>4, <4>6, <4>7
    <3>2. CASE r # t
      BY <1>1, <3>2, RunsAreThreads DEF WorkerSide, Order
    <3> QED
      BY <3>1, <3>2
  <2>2. \A u \in Threads : Len(todo'[u]) <= 7
    <3>1. Len(todo[t]) \in Nat /\ Len(Tail(todo[t])) = Len(todo[t]) - 1
      BY ListFacts DEF Types
    <3>2. \A u \in Threads : Len(todo[u]) <= 7
      BY DEF WorkerSide, Order
    <3>3. Len(Tail(todo[t])) <= 7
      BY <3>1, <3>2
    <3> QED
      BY <1>1, <3>2, <3>3
  <2> QED
    BY <1>3, <2>1, <2>2, RunsAreThreads DEF WorkerSide, Order
<1>7. Throwing'
  <2> SUFFICES ASSUME NEW u \in Threads, Forwards(u)'
               PROVE  /\ \A e \in Todo(u)' : e.do \notin {"drain", "report"}
                      /\ Head(todo'[u]).do # "dispose" =>
                           \A e \in Todo(u)' : e.do = "dispose" => rt'[e.r].disposed
    BY DEF Throwing
  <2>1. Forwards(u)
    BY <1>3 DEF Forwards
  <2>2. \A e \in Todo(u)' : e.do \notin {"drain", "report"}
    BY <1>3, <2>1 DEF WorkerSide, Throwing
  <2>3. CASE u = t
    <3>1. \A e \in Todo(t) : e.do = "dispose" => rt[e.r].disposed
      <4>1. CASE h.do = "dispose"
        BY <1>2, <4>1 DEF h
      <4>2. CASE h.do # "dispose"
        BY <2>1, <2>3, <4>2 DEF WorkerSide, Throwing, h
      <4> QED
        BY <4>1, <4>2
    <3>2. \A e \in Todo(t)' : e \in Todo(t) /\ e.r \in Runs
      BY <1>2 DEF StepSet
    <3> QED
      BY <2>2, <2>3, <3>1, <3>2 DEF SameRuntimes
  <2>4. CASE u # t
    <3>1. \A e \in Todo(u) : e.r \in Runs
      BY StepsAre
    <3> QED
      BY <1>1, <1>2, <2>1, <2>2, <2>4, <3>1 DEF WorkerSide, Throwing, SameRuntimes
  <2> QED
    BY <2>3, <2>4
<1>8. HeldIsOwn'
  <2> SUFFICES ASSUME sessions # 0
               PROVE  /\ ~rt'[sessions].terminated
                      /\ rt'[sessions].process = "alive" \/ Step("notify", sessions) \in Todo(sessions)'
                      /\ ~Forwards(sessions)'
                      /\ \A u \in Threads \ {sessions} : \A e \in Todo(u)' :
                           e.r = sessions => e.do = "fail"
    BY DEF HeldIsOwn
  <2>1. sessions \in Runs /\ sessions \in Threads
    BY HeldIsRun
  <2>2. rt[sessions].process = "alive" \/ Step("notify", sessions) \in Todo(sessions)'
    BY <1>2, <2>1 DEF WorkerSide, HeldIsOwn, h
  <2>3. ~Forwards(sessions)'
    BY <1>3, <2>1 DEF WorkerSide, HeldIsOwn, Forwards
  <2> QED
    BY <1>3, <2>1, <2>2, <2>3 DEF WorkerSide, HeldIsOwn, SameRuntimes
<1>9. LiveIsHeld'
  <2> SUFFICES ASSUME NEW r \in Runs, rt'[r].process = "alive", sessions # r
               PROVE  \E u \in Threads : Step("dispose", r) \in Todo(u)'
    BY DEF LiveIsHeld
  <2>1. PICK u \in Threads : Step("dispose", r) \in Todo(u)
    BY DEF WorkerSide, LiveIsHeld, SameRuntimes
  <2>2. ~rt[r].disposed
    BY DEF WorkerSide, Observed, SameRuntimes
  <2>3. h # Step("dispose", r)
    BY <2>2, StepIs DEF h
  <2> QED
    BY <1>2, <2>1, <2>3
<1> QED
  BY <1>4, <1>5, <1>6, <1>7, <1>8, <1>9 DEF WorkerSide

(* A forward that fails ends its thread, which has disposed of everything. *)
LEMMA ThrowKeeps ==
  ASSUME Types, WorkerSide, NEW t \in Threads, todo[t] # <<>>, Head(todo[t]).do = "forward",
         todo' = [todo EXCEPT ![t] = <<>>], UNCHANGED <<sessions, used, rt>>
  PROVE  WorkerSide'
<1>1. /\ todo'[t] = <<>> /\ \A u \in Threads \ {t} : todo'[u] = todo[u]
  BY DEF Types
<1>2. Todo(t)' = {} /\ \A u \in Threads \ {t} : Todo(u)' = Todo(u)
  BY <1>1, Emptiness DEF Todo
<1>3. Forwards(t) /\ \A e \in Todo(t) : e.do = "dispose" => rt[e.r].disposed
  BY ListFacts DEF WorkerSide, Throwing, Forwards
<1>4. Observed' /\ Uncreated'
  BY <1>1, <1>2, RunsAreThreads DEF WorkerSide, Observed, Uncreated
<1>5. Order'
  BY <1>1, <1>2, RunsAreThreads DEF WorkerSide, Order
<1>6. Throwing'
  BY <1>1, <1>2 DEF WorkerSide, Throwing, Forwards
<1>7. HeldIsOwn'
  <2>1. sessions # 0 => t # sessions /\ sessions \in Threads
    BY <1>3, HeldIsRun DEF WorkerSide, HeldIsOwn
  <2> QED
    BY <1>2, <2>1 DEF WorkerSide, HeldIsOwn, Forwards
<1>8. LiveIsHeld'
  <2> SUFFICES ASSUME NEW r \in Runs, rt[r].process = "alive", sessions # r
               PROVE  \E u \in Threads : Step("dispose", r) \in Todo(u)'
    BY DEF LiveIsHeld
  <2>1. PICK u \in Threads : Step("dispose", r) \in Todo(u)
    BY DEF WorkerSide, LiveIsHeld
  <2>2. u # t
    BY <1>3, <2>1, StepIs DEF WorkerSide, Observed
  <2> QED
    BY <1>2, <2>1, <2>2
<1> QED
  BY <1>4, <1>5, <1>6, <1>7, <1>8 DEF WorkerSide

-----------------------------------------------------------------------------
(* The handler takes a command.                                            *)

LEMMA HandlerIdle ==
  ASSUME Types, WorkerSide, NEW L, todo[Handler] = <<>>, todo' = [todo EXCEPT ![Handler] = L]
  PROVE  /\ todo'[Handler] = L /\ \A r \in Runs : todo'[r] = todo[r]
         /\ Todo(Handler) = {} /\ Todo(Handler)' = Steps(L) /\ \A r \in Runs : Todo(r)' = Todo(r)
<1>1. todo'[Handler] = L /\ \A r \in Runs : todo'[r] = todo[r]
  BY RunsAreThreads DEF Types
<1> QED
  BY <1>1, Emptiness DEF Todo

(* The handler is given a list of steps about runtime q, which the map     *)
(* does not hold (any more), or to report that it refused a start.         *)
LEMMA GivenKeeps ==
  ASSUME Types, WorkerSide, NEW L \in Seq(StepSet), NEW q \in Runs, L # <<>>,
         todo[Handler] = <<>>, todo' = [todo EXCEPT ![Handler] = L], rt' = rt,
         \A e \in Steps(L) : e.r = q /\ e.do \in {"dispose", "forward", "notify", "fail"},
         Len(L) <= 7, used'.runs \in Nat, q <= used'.runs, used.runs <= used'.runs,
         Head(L).do = "dispose" \/ Steps(L) = {Step("fail", q)},
         \/ sessions' = sessions /\ (sessions = 0 \/ Steps(L) = {Step("fail", q)})
         \/ sessions' = 0 /\ sessions = q /\ Step("dispose", q) \in Steps(L)
  PROVE  WorkerSide'
<1>1. /\ todo'[Handler] = L /\ \A r \in Runs : todo'[r] = todo[r]
      /\ Todo(Handler) = {} /\ Todo(Handler)' = Steps(L) /\ \A r \in Runs : Todo(r)' = Todo(r)
  BY HandlerIdle
<1>2. Observed'
  BY <1>1 DEF WorkerSide, Observed
<1>3. \A u \in Threads : u = Handler \/ u \in Runs
  BY DEF Threads
<1>4. Uncreated'
  <2>1. used.runs \in Nat /\ Runs \subseteq Nat
    <3>1. used.runs \in Nat
      BY BoundsAssumption DEF Types
    <3> QED
      BY <3>1 DEF Runs
  <2>2. ASSUME NEW r \in Runs, r > used'.runs PROVE rt'[r] = NoRuntime /\ todo'[r] = <<>>
    <3>1. r > used.runs
      BY <2>1, <2>2
    <3> QED
      BY <1>1, <3>1 DEF WorkerSide, Uncreated
  <2>3. ASSUME NEW u \in Threads, NEW e \in Todo(u)' PROVE e.r <= used'.runs
    <3>1. CASE u = Handler
      BY <1>1, <3>1
    <3>2. CASE u \in Runs
      <4>1. e \in Todo(u) /\ e.r \in Runs
        BY <1>1, <2>3, <3>2, StepsAre
      <4>2. e.r <= used.runs
        BY <4>1, <2>3 DEF WorkerSide, Uncreated
      <4>3. e.r \in Nat
        BY <2>1, <4>1
      <4> QED
        BY <2>1, <4>2, <4>3
    <3> QED
      BY <1>3, <3>1, <3>2
  <2> QED
    BY <2>2, <2>3 DEF Uncreated
<1>5. Order'
  BY <1>1, <1>3, StepIs DEF WorkerSide, Order
<1>6. Throwing'
  BY <1>1, <1>3, StepIs DEF WorkerSide, Throwing, Forwards
<1>7. HeldIsOwn'
  <2>1. CASE sessions' = 0
    BY <2>1 DEF HeldIsOwn
  <2>2. CASE sessions' = sessions /\ sessions # 0
    <3>1. /\ sessions \in Runs /\ Steps(L) = {Step("fail", q)} /\ Step("fail", q).do = "fail"
          /\ sessions # Handler
      BY <2>2, HeldIsRun, StepIs DEF Handler
    <3>2. /\ ~rt'[sessions].terminated
          /\ rt'[sessions].process = "alive" \/ Step("notify", sessions) \in Todo(sessions)'
          /\ ~Forwards(sessions)'
      BY <1>1, <2>2, <3>1 DEF WorkerSide, HeldIsOwn, Forwards
    <3>3. \A u \in Threads \ {sessions} : \A e \in Todo(u)' : e.r = sessions => e.do = "fail"
      <4>1. \A e \in Todo(Handler)' : e.do = "fail"
        BY <1>1, <3>1
      <4>2. \A u \in Runs \ {sessions} : \A e \in Todo(u)' : e.r = sessions => e.do = "fail"
        BY <1>1, <2>2, RunsAreThreads DEF WorkerSide, HeldIsOwn
      <4> QED
        BY <1>3, <4>1, <4>2
    <3> QED
      BY <2>2, <3>2, <3>3 DEF HeldIsOwn
  <2> QED
    BY <2>1, <2>2
<1>8. LiveIsHeld'
  BY <1>1, <1>3, RunsAreThreads DEF WorkerSide, LiveIsHeld
<1> QED
  BY <1>2, <1>4, <1>5, <1>6, <1>7, <1>8 DEF WorkerSide

LEMMA ClosingLists ==
  ASSUME NEW q \in Runs
  PROVE  /\ CloseAsync(q) \o CloseAsync(q) \in Seq(StepSet)
         /\ Len(CloseAsync(q) \o CloseAsync(q)) = 6
         /\ Head(CloseAsync(q) \o CloseAsync(q)) = Step("dispose", q)
         /\ Steps(CloseAsync(q) \o CloseAsync(q)) = Disposes(q)
         /\ CloseAsync(q) \o CloseAsync(q) \o <<Step("fail", q)>> \in Seq(StepSet)
         /\ Len(CloseAsync(q) \o CloseAsync(q) \o <<Step("fail", q)>>) = 7
         /\ Head(CloseAsync(q) \o CloseAsync(q) \o <<Step("fail", q)>>) = Step("dispose", q)
         /\ Steps(CloseAsync(q) \o CloseAsync(q) \o <<Step("fail", q)>>)
              = Disposes(q) \cup {Step("fail", q)}
<1> DEFINE c == CloseAsync(q)
           f == <<Step("fail", q)>>
           d == Step("dispose", q)
           S == Disposes(q)
           F == {Step("fail", q)}
<1>1. c \in Seq(StepSet) /\ Len(c) = 3 /\ Steps(c) = S /\ Head(c) = d /\ c # <<>>
  BY ListsOf
<1>2. f \in Seq(StepSet) /\ Len(f) = 1 /\ Steps(f) = F
  BY StepIs, OneStep
<1> HIDE DEF c, f, d, S, F
<1>3. c \o c \in Seq(StepSet) /\ Len(c \o c) = 6 /\ Head(c \o c) = d /\ Steps(c \o c) = S
  <2>1. /\ c \o c \in Seq(StepSet) /\ Len(c \o c) = Len(c) + Len(c)
        /\ Steps(c \o c) = Steps(c) \cup Steps(c) /\ Head(c \o c) = Head(c)
    BY <1>1, ConcatOf
  <2> QED
    BY <1>1, <2>1
<1> DEFINE two == c \o c
<1>4. two # <<>>
  BY <1>3
<1>5. two \in Seq(StepSet) /\ Len(two) = 6 /\ Head(two) = d /\ Steps(two) = S
  BY <1>3
<1> HIDE DEF two
<1>6. two \o f \in Seq(StepSet) /\ Len(two \o f) = 7 /\ Head(two \o f) = d /\ Steps(two \o f) = S \cup F
  <2>1. /\ two \o f \in Seq(StepSet) /\ Len(two \o f) = Len(two) + Len(f)
        /\ Steps(two \o f) = Steps(two) \cup Steps(f) /\ Head(two \o f) = Head(two)
    BY <1>2, <1>4, <1>5, ConcatOf
  <2> QED
    BY <1>2, <1>5, <2>1
<1> QED
  BY <1>3, <1>6 DEF two, c, f, d, S, F

LEMMA TakeKeeps ==
  ASSUME Types, WorkerSide, StartSession \/ StartFails \/ DuplicateStart \/ CloseSession
  PROVE  WorkerSide'
<1>1. todo[Handler] = <<>>
  BY DEF StartSession, StartFails, DuplicateStart, CloseSession, Take
<1>2. used.runs \in Nat /\ (used.runs < MaxRuns => used.runs + 1 \in Runs)
  BY BoundsAssumption DEF Types, Runs
<1>3. CASE StartSession
  <2>0. PICK n \in Runs : n = used.runs + 1
    BY <1>2, <1>3 DEF StartSession
  <2>1. /\ sessions = 0 /\ sessions' = n /\ used'.runs = n /\ todo' = todo
        /\ rt' = [rt EXCEPT ![n] = StartedRuntime]
    BY <1>2, <1>3, <2>0 DEF StartSession, StartedRuntime, Types
  <2>2. rt[n] = NoRuntime /\ todo[n] = <<>>
    BY <1>2, <2>0 DEF WorkerSide, Uncreated
  <2>3. \A t \in Threads : Todo(t)' = Todo(t) /\ \A e \in Todo(t) : e.r \in Nat /\ e.r <= used.runs
    BY <2>1, StepsAre DEF Todo, WorkerSide, Uncreated, Runs
  <2>4. rt'[n] = StartedRuntime /\ \A r \in Runs \ {n} : rt'[r] = rt[r]
    BY <2>1 DEF Types
  <2>5. Todo(n) = {} /\ n \in Nat /\ n > used.runs /\ n # 0 /\ n \in Threads
    BY <1>2, <2>0, <2>2, Emptiness, RunsAreThreads DEF Todo
  <2>6. Observed'
    BY <2>1, <2>2, <2>4, StartedIs DEF WorkerSide, Observed
  <2>7. Uncreated'
    <3>1. \A r \in Runs : r > used'.runs => rt'[r] = NoRuntime /\ todo'[r] = <<>>
      <4> SUFFICES ASSUME NEW r \in Runs, r > n PROVE rt'[r] = NoRuntime /\ todo'[r] = <<>>
        BY <2>1
      <4>1. r # n /\ r > used.runs
        BY <1>2, <2>5 DEF Runs
      <4> QED
        BY <2>1, <2>4, <4>1 DEF WorkerSide, Uncreated
    <3>2. \A t \in Threads : \A e \in Todo(t)' : e.r <= used'.runs
      BY <1>2, <2>1, <2>3, <2>5
    <3> QED
      BY <3>1, <3>2 DEF Uncreated
  <2>8. Order'
    <3>1. Todo(Handler)' = {}
      BY <1>1, <2>3, Emptiness, RunsAreThreads DEF Todo
    <3> QED
      BY <2>1, <2>3, <3>1, RunsAreThreads DEF WorkerSide, Order
  <2>9. Throwing'
    <3>1. \A t \in Threads : \A e \in Todo(t) : e.r \in Runs /\ e.r # n
      BY <1>2, <2>3, <2>5, StepsAre
    <3> QED
      BY <2>1, <2>3, <2>4, <3>1 DEF WorkerSide, Throwing, Forwards
  <2>10. HeldIsOwn'
    <3>1. \A t \in Threads : \A e \in Todo(t)' : e.r # n
      BY <1>2, <2>3, <2>5
    <3>2. Todo(n)' = {}
      BY <2>3, <2>5
    <3>3. ~Forwards(n)'
      BY <3>2 DEF Forwards
    <3>4. ~rt'[n].terminated /\ rt'[n].process = "alive"
      BY <2>4, StartedIs
    <3> QED
      BY <2>1, <3>1, <3>3, <3>4 DEF HeldIsOwn
  <2>11. LiveIsHeld'
    <3> SUFFICES ASSUME NEW r \in Runs, rt'[r].process = "alive", sessions' # r
                 PROVE  \E t \in Threads : Step("dispose", r) \in Todo(t)'
      BY DEF LiveIsHeld
    <3>1. r # n /\ rt'[r] = rt[r] /\ sessions # r
      BY <2>1, <2>4, RunsAreThreads DEF Handler
    <3> QED
      BY <2>3, <3>1 DEF WorkerSide, LiveIsHeld
  <2> QED
    BY <2>6, <2>7, <2>8, <2>9, <2>10, <2>11 DEF WorkerSide
<1>4. CASE StartFails
  <2> DEFINE n == used.runs + 1
             L == CloseAsync(n) \o CloseAsync(n) \o <<Step("fail", n)>>
  <2>1. /\ sessions = 0 /\ UNCHANGED <<sessions, rt>> /\ used'.runs = n /\ n \in Runs
        /\ todo' = [todo EXCEPT ![Handler] = L]
    BY <1>2, <1>4 DEF StartFails, Types
  <2>2. /\ L \in Seq(StepSet) /\ Len(L) = 7 /\ Head(L) = Step("dispose", n)
        /\ Steps(L) = Disposes(n) \cup {Step("fail", n)}
    BY <2>1, ClosingLists
  <2>3. \A e \in Steps(L) : e.r = n /\ e.do \in {"dispose", "forward", "notify", "fail"}
    BY <2>1, <2>2, StepIs DEF Disposes
  <2>4. n <= used'.runs /\ used.runs <= used'.runs /\ used'.runs \in Nat
    BY <1>2, <2>1
  <2>5. Head(L).do = "dispose"
    BY <2>1, <2>2, StepIs
  <2> HIDE DEF L, n
  <2>6. Len(L) = 7
    BY <2>2
  <2>7. Len(L) <= 7 /\ L # <<>>
    BY <2>6
  <2> QED
    BY <1>1, <2>1, <2>2, <2>3, <2>4, <2>5, <2>7, GivenKeeps
<1>5. CASE DuplicateStart
  <2> DEFINE L == <<Step("fail", sessions)>>
  <2>1. sessions # 0 /\ UNCHANGED <<sessions, rt, used>> /\ todo' = [todo EXCEPT ![Handler] = L]
    BY <1>5 DEF DuplicateStart
  <2>2. sessions \in Runs
    BY <2>1, HeldIsRun
  <2>3. L \in Seq(StepSet) /\ Len(L) <= 7 /\ L # <<>> /\ Steps(L) = {Step("fail", sessions)}
    BY <2>2, StepIs, OneStep
  <2>4. \A e \in Steps(L) : e.r = sessions /\ e.do \in {"dispose", "forward", "notify", "fail"}
    BY <2>2, <2>3, StepIs
  <2>5. sessions <= used'.runs /\ used.runs <= used'.runs /\ used'.runs \in Nat
    BY <1>2, <2>1 DEF Types
  <2> HIDE DEF L
  <2> QED
    BY <1>1, <2>1, <2>2, <2>3, <2>4, <2>5, GivenKeeps
<1>6. CASE CloseSession /\ sessions = 0
  BY <1>6, RemoteKeeps DEF CloseSession
<1>7. CASE CloseSession /\ sessions # 0
  <2> DEFINE L == CloseAsync(sessions) \o CloseAsync(sessions)
  <2>1. sessions' = 0 /\ UNCHANGED <<rt, used>> /\ todo' = [todo EXCEPT ![Handler] = L]
    BY <1>7 DEF CloseSession
  <2>2. sessions \in Runs
    BY <1>7, HeldIsRun
  <2>3. /\ L \in Seq(StepSet) /\ Len(L) = 6 /\ Steps(L) = Disposes(sessions)
        /\ Head(L) = Step("dispose", sessions)
    BY <2>2, ClosingLists
  <2>4. /\ \A e \in Steps(L) : e.r = sessions /\ e.do \in {"dispose", "forward", "notify", "fail"}
        /\ Step("dispose", sessions) \in Steps(L) /\ Head(L).do = "dispose"
    BY <2>2, <2>3, StepIs DEF Disposes
  <2>5. sessions <= used'.runs /\ used.runs <= used'.runs /\ used'.runs \in Nat
    BY <1>2, <2>1 DEF Types
  <2> HIDE DEF L
  <2>6. Len(L) = 6
    BY <2>3
  <2>7. Len(L) <= 7 /\ L # <<>>
    BY <2>6
  <2> QED
    BY <1>1, <1>7, <2>1, <2>2, <2>3, <2>4, <2>5, <2>7, GivenKeeps
<1> QED
  BY <1>3, <1>4, <1>5, <1>6, <1>7

-----------------------------------------------------------------------------
(* The threads go on.                                                      *)

(* The observer's list, with what else it is about to do.                  *)
NotifyLast(s) == \A i \in DOMAIN s : s[i].do = "notify" => i = Len(s)

LEMMA TailEnds ==
  ASSUME NEW s \in Seq(StepSet), s # <<>>, NotifyLast(s)
  PROVE  NotifyLast(Tail(s))
<1> SUFFICES ASSUME NEW i \in DOMAIN Tail(s), Tail(s)[i].do = "notify"
             PROVE  i = Len(Tail(s))
  BY DEF NotifyLast
<1>1. Tail(s)[i] = s[i + 1] /\ i + 1 \in DOMAIN s
  BY TailOf
<1>2. i + 1 = Len(s)
  BY <1>1 DEF NotifyLast
<1>3. Len(Tail(s)) = Len(s) - 1 /\ Tail(s) \in Seq(StepSet) /\ Len(s) \in Nat
  BY TailOf
<1>4. i \in Nat
  BY <1>3
<1> QED
  BY <1>2, <1>3, <1>4

LEMMA ConcatEnds ==
  ASSUME NEW s \in Seq(StepSet), NEW q \in Seq(StepSet), q # <<>>, NotifyLast(q),
         \A e \in Steps(s) : e.do # "notify"
  PROVE  NotifyLast(s \o q)
<1>1. /\ Len(s \o q) = Len(s) + Len(q) /\ Len(s) \in Nat /\ Len(q) \in Nat
      /\ DOMAIN s = 1 .. Len(s) /\ DOMAIN q = 1 .. Len(q)
      /\ DOMAIN (s \o q) = 1 .. (Len(s) + Len(q))
      /\ \A i \in 1 .. (Len(s) + Len(q)) : (s \o q)[i] = IF i <= Len(s) THEN s[i] ELSE q[i - Len(s)]
  OBVIOUS
<1> SUFFICES ASSUME NEW i \in 1 .. (Len(s) + Len(q)), (s \o q)[i].do = "notify"
             PROVE  i = Len(s) + Len(q)
  BY <1>1 DEF NotifyLast
<1>2. CASE i <= Len(s)
  <2>1. i \in DOMAIN s /\ (s \o q)[i] = s[i]
    BY <1>1, <1>2
  <2> QED
    BY <2>1 DEF Steps
<1>3. CASE ~(i <= Len(s))
  <2>1. i - Len(s) \in DOMAIN q /\ (s \o q)[i] = q[i - Len(s)]
    BY <1>1, <1>3
  <2>2. i - Len(s) = Len(q)
    BY <2>1 DEF NotifyLast
  <2> QED
    BY <1>1, <2>2
<1> QED
  BY <1>2, <1>3

LEMMA ListsEnd ==
  ASSUME NEW r \in Runs
  PROVE  /\ NotifyLast(CloseAsync(r)) /\ NotifyLast(FinallyBlock(r))
         /\ NotifyLast(<<Step("report", r)>> \o FinallyBlock(r))
<1> DEFINE n == Step("notify", r)
           d == Step("dispose", r)
           f == Step("forward", r)
           a == Step("drain", r)
<1>1. d.do # "notify" /\ f.do # "notify" /\ a.do # "notify"
  BY StepIs
<1>2. CloseAsync(r) = <<d, f, n>> /\ FinallyBlock(r) = <<a, d, n>>
  BY DEF CloseAsync, FinallyBlock
<1> HIDE DEF n, d, f, a
<1>3. NotifyLast(<<d, f, n>>)
  <2>1. DOMAIN <<d, f, n>> = {1, 2, 3} /\ Len(<<d, f, n>>) = 3
    OBVIOUS
  <2> QED
    BY <1>1, <2>1 DEF NotifyLast
<1>4. NotifyLast(<<a, d, n>>)
  <2>1. DOMAIN <<a, d, n>> = {1, 2, 3} /\ Len(<<a, d, n>>) = 3
    OBVIOUS
  <2> QED
    BY <1>1, <2>1 DEF NotifyLast
<1>5. NotifyLast(<<Step("report", r)>> \o FinallyBlock(r))
  <2>1. /\ <<Step("report", r)>> \in Seq(StepSet)
        /\ \A e \in Steps(<<Step("report", r)>>) : e.do # "notify"
    BY StepIs, OneStep
  <2>2. FinallyBlock(r) \in Seq(StepSet) /\ FinallyBlock(r) # <<>> /\ NotifyLast(FinallyBlock(r))
    BY <1>2, <1>4, ListsOf
  <2> QED
    BY <2>1, <2>2, ConcatEnds
<1> QED
  BY <1>2, <1>3, <1>4, <1>5

(* The process of a runtime ends; if its observer waited for that, it goes *)
(* on with its finally block.                                              *)
LEMMA DisposeKeeps ==
  ASSUME Types, WorkerSide, NEW t \in Threads, DisposeProcess(t)
  PROVE  WorkerSide'
<1>1. /\ UNCHANGED <<sessions, used>> /\ rt \in [Runs -> Runtime] /\ todo \in [Threads -> Seq(StepSet)]
      /\ Next1(t, "dispose")
  BY DEF DisposeProcess, Types
<1>2. PICK r \in Runs : r = Head(todo[t]).r
  BY <1>1, HeadIs
<1>3. /\ todo[t] # <<>> /\ Head(todo[t]) = Step("dispose", r) /\ Step("dispose", r) \in Todo(t)
      /\ Head(todo[t]).do = "dispose" /\ r \in Threads
  BY <1>1, <1>2, HeadIs, StepIs, RunsAreThreads
<1>4. CASE rt[r].disposed
  <2>1. todo' = Rest(t) /\ rt' = rt
    BY <1>2, <1>4 DEF DisposeProcess
  <2>2. SameRuntimes
    BY <2>1 DEF SameRuntimes
  <2>3. sessions = t => Head(todo[t]) # Step("notify", t)
    BY <1>3, StepIs, HeldIsRun DEF Step
  <2> QED
    BY <1>1, <1>2, <1>3, <1>4, <2>1, <2>2, <2>3, PopKeeps
<1>5. CASE ~rt[r].disposed
  <2> DEFINE new == [rt[r] EXCEPT !.disposed = TRUE, !.observed = FALSE,
                         !.process = IF @ = "none" THEN @ ELSE "gone"]
  <2>1. /\ rt' = [rt EXCEPT ![r] = new]
        /\ todo' = IF rt[r].observed THEN [Rest(t) EXCEPT ![r] = FinallyBlock(r)] ELSE Rest(t)
    <3>1. rt[r] \in Runtime
      BY <1>1
    <3> QED
      BY <1>1, <1>2, <1>5, <3>1 DEF DisposeProcess, Runtime
  <2>2. /\ new.disposed /\ ~new.observed /\ new.process # "alive" /\ new.terminated = rt[r].terminated
        /\ rt[r].process = "none" => new.process = "none"
    <3>1. rt[r] \in Runtime
      BY <1>1
    <3> QED
      BY <3>1 DEF Runtime
  <2> HIDE DEF new
  <2>3. /\ rt'[r] = new /\ \A q \in Runs \ {r} : rt'[q] = rt[q]
    BY <1>1, <2>1
  <2>4. /\ Rest(t) \in [Threads -> Seq(StepSet)] /\ Rest(t)[t] = Tail(todo[t])
        /\ \A u \in Threads \ {t} : Rest(t)[u] = todo[u]
    BY <1>1, <1>3, RestOf
  <2>5. rt[r].observed => /\ todo[r] = <<>> /\ Todo(r) = {} /\ t # r /\ todo'[r] = FinallyBlock(r)
                          /\ Todo(r)' = Finishes(r)
    <3> SUFFICES ASSUME rt[r].observed
                 PROVE  /\ todo[r] = <<>> /\ Todo(r) = {} /\ t # r /\ todo'[r] = FinallyBlock(r)
                        /\ Todo(r)' = Finishes(r)
      OBVIOUS
    <3>1. todo[r] = <<>> /\ t # r
      BY <1>3 DEF WorkerSide, Observed
    <3>2. todo'[r] = FinallyBlock(r)
      BY <1>3, <2>1, <2>4
    <3> QED
      BY <3>1, <3>2, ListsOf, Emptiness DEF Todo
  <2>6. \A u \in Threads : (u = r => ~rt[r].observed) =>
           todo'[u] = (IF u = t THEN Tail(todo[t]) ELSE todo[u])
    BY <1>3, <2>1, <2>4
  <2>7. /\ todo'[t] = Tail(todo[t]) /\ Todo(t) = {Step("dispose", r)} \cup Todo(t)'
        /\ \A e \in Todo(t) : e.r = r /\ e \in StepSet /\ r <= used.runs
    <3>1. todo'[t] = Tail(todo[t])
      BY <2>5, <2>6
    <3> QED
      BY <1>2, <1>3, <3>1, ListFacts DEF Todo
  <2>8. \A u \in Threads : (u = r => ~rt[r].observed) =>
           Todo(u)' \subseteq Todo(u) /\ (u # t => Todo(u)' = Todo(u) /\ todo'[u] = todo[u])
    BY <2>6, <2>7 DEF Todo
  <2>9. \A e \in Finishes(r) : e.r = r /\ e.do \in {"drain", "dispose", "notify"} /\ e \in StepSet
    BY StepIs DEF Finishes
  <2>10. Observed'
    <3> SUFFICES ASSUME NEW q \in Runs
                 PROVE  /\ rt'[q].process = "alive" <=> rt'[q].observed
                        /\ rt'[q].observed => todo'[q] = <<>>
                        /\ rt'[q].disposed => rt'[q].process # "alive"
      BY DEF Observed
    <3>1. CASE q = r
      BY <2>2, <2>3, <3>1
    <3>2. CASE q # r
      <4>1. rt'[q] = rt[q] /\ q \in Threads
        BY <2>3, <3>2, RunsAreThreads
      <4>2. rt[q].observed => todo[q] = <<>> /\ q # t
        BY <1>3 DEF WorkerSide, Observed
      <4>3. rt[q].observed => todo'[q] = <<>>
        BY <2>8, <3>2, <4>1, <4>2
      <4> QED
        BY <4>1, <4>3 DEF WorkerSide, Observed
    <3> QED
      BY <3>1, <3>2
  <2>11. Uncreated'
    <3>1. ASSUME NEW q \in Runs, q > used.runs PROVE rt'[q] = NoRuntime /\ todo'[q] = <<>>
      <4>1. rt[q] = NoRuntime /\ todo[q] = <<>> /\ q # t
        BY <1>3, <3>1 DEF WorkerSide, Uncreated
      <4>2. q # r
        BY <1>3, <2>7, <3>1, BoundsAssumption DEF Types, Runs
      <4> QED
        BY <2>3, <2>8, <4>1, <4>2, RunsAreThreads
    <3>2. ASSUME NEW u \in Threads, NEW e \in Todo(u)' PROVE e.r <= used.runs
      <4>1. CASE e \in Todo(u)
        BY <4>1 DEF WorkerSide, Uncreated
      <4>2. CASE e \notin Todo(u)
        BY <1>3, <2>5, <2>7, <2>8, <2>9, <3>2, <4>2
      <4> QED
        BY <4>1, <4>2
    <3> QED
      BY <1>1, <3>1, <3>2 DEF Uncreated
  <2>12. Order'
    <3>1. \A u \in Threads : \A e, f \in Todo(u)' : e.r = f.r
      <4> SUFFICES ASSUME NEW u \in Threads, NEW e \in Todo(u)', NEW f \in Todo(u)' PROVE e.r = f.r
        OBVIOUS
      <4>1. CASE u = r /\ rt[r].observed
        BY <2>5, <2>9, <4>1
      <4>2. CASE ~(u = r /\ rt[r].observed)
        BY <2>8, <4>2 DEF WorkerSide, Order
      <4> QED
        BY <4>1, <4>2
    <3>2. \A e \in Todo(Handler)' : /\ e.do \in {"dispose", "forward", "notify", "fail"}
                                    /\ e.do # "fail" => sessions' = 0
      BY <1>1, <2>8, RunsAreThreads DEF WorkerSide, Order
    <3>3. ASSUME NEW q \in Runs
          PROVE  NotifyLast(todo'[q]) /\ Len(todo'[q]) <= 7 /\ \A e \in Todo(q)' : e.do # "fail"
      <4>1. q \in Threads /\ NotifyLast(todo[q]) /\ Len(todo[q]) <= 7 /\ \A e \in Todo(q) : e.do # "fail"
        BY RunsAreThreads DEF WorkerSide, Order, NotifyLast
      <4>2. CASE q = r /\ rt[r].observed
        <5>1. todo'[q] = FinallyBlock(r) /\ Todo(q)' = Finishes(r)
          BY <2>5, <4>2
        <5>2. NotifyLast(FinallyBlock(r)) /\ Len(FinallyBlock(r)) = 3
          BY ListsOf, ListsEnd
        <5>3. \A e \in Finishes(r) : e.do # "fail"
          BY <2>9
        <5> HIDE DEF FinallyBlock
        <5>4. Len(FinallyBlock(r)) <= 7
          BY <5>2
        <5> QED
          BY <5>1, <5>2, <5>3, <5>4
      <4>3. CASE ~(q = r /\ rt[r].observed) /\ q = t
        <5>1. todo[t] \in Seq(StepSet) /\ Len(Tail(todo[t])) = Len(todo[t]) - 1 /\ Len(todo[t]) \in Nat
          BY <1>1, <1>3, ListFacts
        <5>2. NotifyLast(Tail(todo[t])) /\ Len(Tail(todo[t])) <= 7
          BY <1>3, <4>1, <4>3, <5>1, TailEnds
        <5> QED
          BY <2>7, <2>8, <4>1, <4>3, <5>2
      <4>4. CASE ~(q = r /\ rt[r].observed) /\ q # t
        BY <2>8, <4>1, <4>4
      <4> QED
        BY <4>2, <4>3, <4>4
    <3>4. Len(todo'[Handler]) <= 7
      <4>1. Len(todo[Handler]) <= 7 /\ Handler # r /\ Handler \in Threads
        BY RunsAreThreads DEF WorkerSide, Order
      <4>2. Len(Tail(todo[t])) = Len(todo[t]) - 1 /\ Len(todo[t]) \in Nat
        BY <1>1, <1>3, ListFacts
      <4>3. CASE t = Handler
        <5>1. Len(Tail(todo[t])) <= 7
          BY <4>1, <4>2, <4>3
        <5> QED
          BY <2>6, <4>1, <4>3, <5>1
      <4>4. CASE t # Handler
        BY <2>6, <4>1, <4>4
      <4> QED
        BY <4>3, <4>4
    <3>5. \A u \in Threads : u = Handler \/ u \in Runs
      BY DEF Threads
    <3> QED
      BY <3>1, <3>2, <3>3, <3>4, <3>5 DEF Order, NotifyLast
  <2>13. Throwing'
    <3> SUFFICES ASSUME NEW u \in Threads, Forwards(u)'
                 PROVE  /\ \A e \in Todo(u)' : e.do \notin {"drain", "report"}
                        /\ Head(todo'[u]).do # "dispose" =>
                             \A e \in Todo(u)' : e.do = "dispose" => rt'[e.r].disposed
      BY DEF Throwing
    <3>1. ~(u = r /\ rt[r].observed)
      BY <2>5, <2>9 DEF Forwards
    <3>2. Todo(u)' \subseteq Todo(u) /\ Forwards(u)
      BY <2>8, <3>1 DEF Forwards
    <3>3. \A e \in Todo(u)' : e.do \notin {"drain", "report"}
      BY <3>2 DEF WorkerSide, Throwing
    <3>4. \A q \in Runs : rt[q].disposed => rt'[q].disposed
      BY <2>2, <2>3
    <3>5. CASE u = t
      <4>1. \A e \in Todo(u)' : rt'[e.r].disposed
        BY <2>2, <2>3, <2>7, <3>2, <3>5
      <4> QED
        BY <3>3, <4>1
    <3>6. CASE u # t
      <4>1. \A e \in Todo(u) : e.r \in Runs
        BY StepsAre
      <4> QED
        BY <2>8, <3>1, <3>2, <3>3, <3>4, <3>6, <4>1 DEF WorkerSide, Throwing
    <3> QED
      BY <3>5, <3>6
  <2>14. HeldIsOwn'
    <3> SUFFICES ASSUME sessions # 0
                 PROVE  /\ ~rt'[sessions].terminated
                        /\ rt'[sessions].process = "alive" \/ Step("notify", sessions) \in Todo(sessions)'
                        /\ ~Forwards(sessions)'
                        /\ \A u \in Threads \ {sessions} : \A e \in Todo(u)' :
                             e.r = sessions => e.do = "fail"
      BY <1>1 DEF HeldIsOwn
    <3>1. PICK s \in Runs : s = sessions
      BY HeldIsRun
    <3>2. /\ ~rt[s].terminated
          /\ rt[s].process = "alive" \/ Step("notify", s) \in Todo(s)
          /\ ~Forwards(s) /\ s \in Threads
          /\ \A u \in Threads \ {s} : \A e \in Todo(u) : e.r = s => e.do = "fail"
      BY <3>1, RunsAreThreads DEF WorkerSide, HeldIsOwn
    <3>3. s = r => t = s /\ ~rt[r].observed
      <4>1. s = r => t = s
        BY <1>3, <3>2, StepIs
      <4> QED
        BY <1>3, <4>1 DEF WorkerSide, Observed
    <3>4. ~rt'[s].terminated
      <4>1. rt'[s].terminated = rt[s].terminated
        BY <2>2, <2>3
      <4>2. ~rt[s].terminated
        BY <3>2
      <4> QED
        BY <4>1, <4>2
    <3>5. Step("notify", s) \in Todo(s) => Step("notify", s) \in Todo(s)'
      <4>1. Step("notify", s) # Step("dispose", r)
        BY StepIs
      <4>2. s # r => Todo(s)' = Todo(s) \/ s = t
        BY <2>8, <3>2
      <4> QED
        BY <2>7, <3>3, <4>1, <4>2
    <3>6. rt'[s].process = "alive" \/ Step("notify", s) \in Todo(s)'
      <4>1. CASE s = r
        <5>1. rt[s].process # "alive"
          BY <3>3, <4>1 DEF WorkerSide, Observed
        <5> QED
          BY <3>2, <3>5, <5>1
      <4>2. CASE s # r
        BY <2>3, <3>2, <3>5, <4>2
      <4> QED
        BY <4>1, <4>2
    <3>7. ~Forwards(s)'
      BY <2>8, <3>2, <3>3 DEF Forwards
    <3>8. ASSUME NEW u \in Threads \ {s}, NEW e \in Todo(u)', e.r = s PROVE e.do = "fail"
      <4>1. CASE u = r /\ rt[r].observed
        BY <2>5, <2>9, <3>3, <3>8, <4>1
      <4>2. CASE ~(u = r /\ rt[r].observed)
        BY <2>8, <3>2, <3>8, <4>2
      <4> QED
        BY <4>1, <4>2
    <3> QED
      BY <1>1, <3>1, <3>4, <3>6, <3>7, <3>8
  <2>15. LiveIsHeld'
    <3> SUFFICES ASSUME NEW q \in Runs, rt'[q].process = "alive", sessions # q
                 PROVE  \E u \in Threads : Step("dispose", q) \in Todo(u)'
      BY <1>1 DEF LiveIsHeld
    <3>1. q # r /\ rt[q].process = "alive"
      BY <2>2, <2>3
    <3>2. PICK u \in Threads : Step("dispose", q) \in Todo(u)
      BY <3>1 DEF WorkerSide, LiveIsHeld
    <3>3. ~(u = r /\ rt[r].observed)
      BY <2>5, <3>2
    <3>4. Step("dispose", q) # Step("dispose", r)
      BY <3>1, StepIs
    <3> QED
      BY <2>7, <2>8, <3>2, <3>3, <3>4
  <2> QED
    BY <2>10, <2>11, <2>12, <2>13, <2>14, <2>15 DEF WorkerSide
<1> QED
  BY <1>4, <1>5

LEMMA ForwardKeeps ==
  ASSUME Types, WorkerSide, NEW t \in Threads,
         ForwardExited(t) \/ DrainPumps(t) \/ (t = Handler /\ ForwardStartFailed)
  PROVE  WorkerSide'
<1>1. UNCHANGED <<sessions, used, rt>> /\ todo[t] # <<>>
  BY DEF ForwardExited, DrainPumps, ForwardStartFailed, Next1
<1>2. SameRuntimes
  BY <1>1 DEF SameRuntimes
<1>3. Head(todo[t]).do \in {"forward", "report", "drain", "fail"}
  BY DEF ForwardExited, DrainPumps, ForwardStartFailed, Next1
<1>4. sessions = t => Head(todo[t]) # Step("notify", t)
  BY <1>3 DEF Step
<1>5. CASE todo' = Rest(t)
  BY <1>1, <1>2, <1>3, <1>4, <1>5, PopKeeps
<1>6. CASE Head(todo[t]).do = "forward" /\ todo' = [todo EXCEPT ![t] = <<>>]
  BY <1>1, <1>6, ThrowKeeps
<1> QED
  BY <1>5, <1>6 DEF ForwardExited, DrainPumps, ForwardStartFailed, Next1

(* The entry that the observer of one runtime removes may be of another.   *)
LEMMA NotifyKeeps ==
  ASSUME Types, WorkerSide, NEW t \in Threads, NotifyTerminated(t)
  PROVE  WorkerSide'
<1>1. /\ UNCHANGED used /\ rt \in [Runs -> Runtime] /\ todo \in [Threads -> Seq(StepSet)]
      /\ Next1(t, "notify")
  BY DEF NotifyTerminated, Types
<1>2. PICK r \in Runs : r = Head(todo[t]).r
  BY <1>1, HeadIs
<1>3. /\ todo[t] # <<>> /\ Head(todo[t]) = Step("notify", r) /\ Step("notify", r) \in Todo(t)
      /\ Head(todo[t]).do = "notify" /\ r \in Threads /\ r <= used.runs
  <2>1. /\ todo[t] # <<>> /\ Head(todo[t]) = Step("notify", r) /\ Step("notify", r) \in Todo(t)
        /\ Head(todo[t]).do = "notify" /\ r \in Threads
    BY <1>1, <1>2, HeadIs, StepIs, RunsAreThreads
  <2> QED
    BY <1>2, <2>1, ListFacts
<1>4. rt' = [rt EXCEPT ![r].terminated = TRUE]
  BY <1>2 DEF NotifyTerminated
<1>5. /\ \A q \in Runs : /\ rt'[q].process = rt[q].process /\ rt'[q].observed = rt[q].observed
                         /\ rt'[q].disposed = rt[q].disposed
      /\ rt'[r].terminated
      /\ \A q \in Runs \ {r} : rt'[q] = rt[q]
  <2>1. rt[r] \in Runtime /\ rt'[r] = [rt[r] EXCEPT !.terminated = TRUE]
    BY <1>1, <1>4
  <2>2. \A q \in Runs \ {r} : rt'[q] = rt[q]
    BY <1>1, <1>4
  <2>3. /\ rt'[r].process = rt[r].process /\ rt'[r].observed = rt[r].observed
        /\ rt'[r].disposed = rt[r].disposed /\ rt'[r].terminated
    BY <2>1 DEF Runtime
  <2> QED
    BY <2>2, <2>3
<1>6. SameRuntimes
  <2>1. \A q \in Runs : q > used.runs => q # r
    BY <1>3, BoundsAssumption DEF Runs, Types
  <2> QED
    BY <1>5, <2>1 DEF SameRuntimes
<1>7. CASE rt[r].terminated \/ sessions = 0
  <2>1. todo' = Rest(t) /\ UNCHANGED sessions
    BY <1>2, <1>7 DEF NotifyTerminated
  <2>2. sessions # 0 => rt'[sessions].terminated = rt[sessions].terminated
    <3> SUFFICES ASSUME sessions # 0 PROVE rt'[sessions].terminated = rt[sessions].terminated
      OBVIOUS
    <3>1. sessions \in Runs /\ ~rt[sessions].terminated /\ rt[r].terminated
      BY <1>7, HeldIsRun DEF WorkerSide, HeldIsOwn
    <3>2. sessions # r
      BY <3>1
    <3>3. rt'[sessions] = rt[sessions]
      BY <1>5, <3>1, <3>2
    <3> QED
      BY <3>3
  <2>3. sessions = t => Head(todo[t]) # Step("notify", t)
    <3> SUFFICES ASSUME sessions = t, Step("notify", r) = Step("notify", t) PROVE FALSE
      BY <1>3
    <3>1. r = t /\ sessions # 0
      BY RunsAreThreads DEF Step, Handler
    <3>2. rt[sessions].terminated
      BY <1>7, <3>1
    <3> QED
      BY <3>1, <3>2 DEF WorkerSide, HeldIsOwn
  <2> QED
    BY <1>1, <1>3, <1>6, <2>1, <2>2, <2>3, PopKeeps
<1>8. CASE ~(rt[r].terminated \/ sessions = 0)
  <2>1. PICK s \in Runs : s = sessions
    BY <1>8, HeldIsRun
  <2>2. sessions' = 0 /\ todo' = [todo EXCEPT ![t] = CloseAsync(s) \o Tail(@)]
    BY <1>2, <1>8, <2>1 DEF NotifyTerminated
  <2>3. t \in Runs /\ t # Handler
    <3>1. t # Handler
      BY <1>3, <1>8, StepIs DEF WorkerSide, Order
    <3> QED
      BY <3>1 DEF Threads
  <2>4. todo[t] \in Seq(StepSet) /\ Len(todo[t]) = 1
    <3>1. todo[t] \in Seq(StepSet)
      BY <1>1
    <3>2. 1 \in DOMAIN todo[t] /\ todo[t][1].do = "notify"
      BY <1>3, <3>1
    <3> QED
      BY <2>3, <3>1, <3>2 DEF WorkerSide, Order
  <2>5. Tail(todo[t]) = <<>> /\ Steps(Tail(todo[t])) = {} /\ Todo(t) = {Step("notify", r)}
    <3>1. Tail(todo[t]) = <<>>
      <4>1. Tail(todo[t]) \in Seq(StepSet) /\ Len(Tail(todo[t])) = Len(todo[t]) - 1
        BY <1>3, <2>4, TailOf
      <4>2. Len(Tail(todo[t])) = 0
        BY <2>4, <4>1
      <4>3. \A x \in Seq(StepSet) : Len(x) = 0 => x = <<>>
        OBVIOUS
      <4> QED
        BY <4>1, <4>2, <4>3
    <3> QED
      BY <1>3, <2>4, <3>1, Emptiness, TailOf DEF Todo
  <2>6. /\ todo'[t] = CloseAsync(s) /\ Todo(t)' = Disposes(s)
        /\ \A u \in Threads \ {t} : todo'[u] = todo[u] /\ Todo(u)' = Todo(u)
    <3>1. CloseAsync(s) \in Seq(StepSet) /\ Steps(CloseAsync(s)) = Disposes(s)
      BY ListsOf
    <3>2. CloseAsync(s) \o <<>> = CloseAsync(s)
      BY <3>1
    <3>3. todo'[t] = CloseAsync(s) /\ \A u \in Threads \ {t} : todo'[u] = todo[u]
      BY <1>1, <2>2, <2>5, <3>2
    <3> QED
      BY <3>1, <3>3 DEF Todo
  <2>7. /\ \A e \in Disposes(s) : /\ e.r = s /\ e.do \in {"dispose", "forward", "notify"}
                                  /\ e \in StepSet
        /\ Step("dispose", s) \in Disposes(s)
    BY StepIs DEF Disposes
  <2>8. Observed'
    <3>1. \A q \in Runs : rt[q].observed => q # t
      BY <1>3 DEF WorkerSide, Observed
    <3>2. ASSUME NEW q \in Runs
          PROVE  /\ rt'[q].process = "alive" <=> rt'[q].observed
                 /\ rt'[q].observed => todo'[q] = <<>>
                 /\ rt'[q].disposed => rt'[q].process # "alive"
      BY <1>5, <2>6, <3>1, RunsAreThreads DEF WorkerSide, Observed
    <3> QED
      BY <3>2 DEF Observed
  <2>9. Uncreated'
    <3>1. ASSUME NEW q \in Runs, q > used.runs PROVE rt'[q] = NoRuntime /\ todo'[q] = <<>>
      <4>1. rt[q] = NoRuntime /\ todo[q] = <<>> /\ q # t
        BY <1>3, <3>1 DEF WorkerSide, Uncreated
      <4> QED
        BY <1>6, <2>6, <3>1, <4>1, RunsAreThreads DEF SameRuntimes
    <3>2. ASSUME NEW u \in Threads, NEW e \in Todo(u)' PROVE e.r <= used.runs
      <4>1. CASE u = t
        BY <2>1, <2>6, <2>7, <3>2, <4>1, BoundsAssumption DEF Types
      <4>2. CASE u # t
        BY <2>6, <3>2, <4>2 DEF WorkerSide, Uncreated
      <4> QED
        BY <4>1, <4>2
    <3> QED
      BY <1>1, <3>1, <3>2 DEF Uncreated
  <2>10. Order'
    <3>0. NotifyLast(CloseAsync(s)) /\ Len(CloseAsync(s)) = 3
      BY ListsEnd, ListsOf
    <3>1. NotifyLast(todo'[t]) /\ Len(todo'[t]) <= 7
      <4>1. todo'[t] = CloseAsync(s)
        BY <2>6
      <4>2. Len(todo'[t]) = 3
        BY <3>0, <4>1
      <4>3. Len(todo'[t]) <= 7
        BY <4>2
      <4> QED
        BY <3>0, <4>1, <4>3
    <3>2. \A q \in Runs : NotifyLast(todo'[q])
      BY <2>6, <3>1, RunsAreThreads DEF WorkerSide, Order, NotifyLast
    <3>3. \A u \in Threads : Len(todo'[u]) <= 7
      BY <2>6, <3>1 DEF WorkerSide, Order
    <3>4. \A u \in Threads : \A e, f \in Todo(u)' : e.r = f.r
      BY <2>6, <2>7 DEF WorkerSide, Order
    <3>5. \A e \in Todo(Handler)' : /\ e.do \in {"dispose", "forward", "notify", "fail"}
                                    /\ e.do # "fail" => sessions' = 0
      BY <2>2, <2>3, <2>6, RunsAreThreads DEF WorkerSide, Order
    <3>6. \A q \in Runs : \A e \in Todo(q)' : e.do # "fail"
      BY <2>6, <2>7, RunsAreThreads DEF WorkerSide, Order
    <3> QED
      BY <3>2, <3>3, <3>4, <3>5, <3>6 DEF Order, NotifyLast
  <2>11. Throwing'
    <3> SUFFICES ASSUME NEW u \in Threads, Forwards(u)'
                 PROVE  /\ \A e \in Todo(u)' : e.do \notin {"drain", "report"}
                        /\ Head(todo'[u]).do # "dispose" =>
                             \A e \in Todo(u)' : e.do = "dispose" => rt'[e.r].disposed
      BY DEF Throwing
    <3>1. CASE u = t
      <4>1. Head(todo'[u]).do = "dispose"
        BY <2>6, <3>1, ListsOf, StepIs
      <4> QED
        BY <2>6, <2>7, <3>1, <4>1
    <3>2. CASE u # t
      <4>1. \A e \in Todo(u) : e.r \in Runs
        BY StepsAre
      <4>2. Forwards(u) /\ Todo(u)' = Todo(u) /\ todo'[u] = todo[u]
        BY <2>6, <3>2 DEF Forwards
      <4> QED
        BY <1>5, <4>1, <4>2 DEF WorkerSide, Throwing
    <3> QED
      BY <3>1, <3>2
  <2>12. HeldIsOwn'
    BY <2>2 DEF HeldIsOwn
  <2>13. LiveIsHeld'
    <3> SUFFICES ASSUME NEW q \in Runs, rt'[q].process = "alive"
                 PROVE  \E u \in Threads : Step("dispose", q) \in Todo(u)'
      BY DEF LiveIsHeld
    <3>1. CASE q = s
      BY <2>6, <2>7, <3>1
    <3>2. CASE q # s
      <4>1. PICK u \in Threads : Step("dispose", q) \in Todo(u)
        BY <1>5, <2>1, <3>2 DEF WorkerSide, LiveIsHeld
      <4>2. u # t
        BY <2>5, <4>1, StepIs
      <4> QED
        BY <2>6, <4>1, <4>2
    <3> QED
      BY <3>1, <3>2
  <2> QED
    BY <2>8, <2>9, <2>10, <2>11, <2>12, <2>13 DEF WorkerSide
<1> QED
  BY <1>7, <1>8

LEMMA ExitKeeps ==
  ASSUME Types, WorkerSide, NEW r \in Runs, ProcessExits(r)
  PROVE  WorkerSide'
<1> DEFINE L == <<Step("report", r)>> \o FinallyBlock(r)
           S == Finishes(r) \cup {Step("report", r)}
           new == [rt[r] EXCEPT !.process = "exited", !.observed = FALSE]
<1>1. /\ UNCHANGED <<sessions, used>> /\ rt \in [Runs -> Runtime] /\ todo \in [Threads -> Seq(StepSet)]
      /\ rt' = [rt EXCEPT ![r] = new] /\ todo' = [todo EXCEPT ![r] = L]
      /\ rt[r].observed /\ rt[r].process = "alive"
  BY DEF ProcessExits, Types
<1>2. /\ new.process # "alive" /\ ~new.observed /\ new.terminated = rt[r].terminated
      /\ new.disposed = rt[r].disposed
  BY <1>1 DEF Runtime
<1>3. L \in Seq(StepSet) /\ Len(L) = 4 /\ Steps(L) = S /\ NotifyLast(L)
  <2>1. /\ <<Step("report", r)>> \in Seq(StepSet) /\ Len(<<Step("report", r)>>) = 1
        /\ Steps(<<Step("report", r)>>) = {Step("report", r)}
    BY StepIs, OneStep
  <2>2. /\ FinallyBlock(r) \in Seq(StepSet) /\ Len(FinallyBlock(r)) = 3
        /\ Steps(FinallyBlock(r)) = Finishes(r)
    BY ListsOf
  <2>3. /\ L \in Seq(StepSet) /\ Len(L) = Len(<<Step("report", r)>>) + Len(FinallyBlock(r))
        /\ Steps(L) = Steps(<<Step("report", r)>>) \cup Steps(FinallyBlock(r))
    BY <2>1, <2>2, ConcatOf
  <2>4. Len(L) = 4
    BY <2>1, <2>2, <2>3
  <2> QED
    BY <2>1, <2>2, <2>3, <2>4, ListsEnd
<1>4. \A e \in S : e.r = r /\ e.do \in {"report", "drain", "dispose", "notify"} /\ e \in StepSet
  BY StepIs DEF Finishes
<1>5. Step("notify", r) \in S
  BY DEF Finishes
<1> HIDE DEF L, S, new
<1>6. /\ rt'[r] = new /\ \A q \in Runs \ {r} : rt'[q] = rt[q]
  BY <1>1
<1>7. /\ todo[r] = <<>> /\ todo'[r] = L /\ Todo(r) = {} /\ Todo(r)' = S /\ r \in Threads /\ r # Handler
      /\ \A u \in Threads \ {r} : todo'[u] = todo[u] /\ Todo(u)' = Todo(u)
  BY <1>1, <1>3, RunsAreThreads, Emptiness DEF WorkerSide, Observed, Todo
<1>8. r <= used.runs /\ ~(r > used.runs)
  <2>1. rt[r] # NoRuntime
    BY <1>1 DEF NoRuntime
  <2> QED
    BY <2>1, BoundsAssumption DEF WorkerSide, Uncreated, Runs, Types
<1>9. Observed'
  <2> SUFFICES ASSUME NEW q \in Runs
               PROVE  /\ rt'[q].process = "alive" <=> rt'[q].observed
                      /\ rt'[q].observed => todo'[q] = <<>>
                      /\ rt'[q].disposed => rt'[q].process # "alive"
    BY DEF Observed
  <2>1. CASE q = r
    BY <1>2, <1>6, <2>1
  <2>2. CASE q # r
    BY <1>6, <1>7, <2>2, RunsAreThreads DEF WorkerSide, Observed
  <2> QED
    BY <2>1, <2>2
<1>10. Uncreated'
  <2>1. ASSUME NEW q \in Runs, q > used.runs PROVE rt'[q] = NoRuntime /\ todo'[q] = <<>>
    BY <1>6, <1>7, <1>8, <2>1, RunsAreThreads DEF WorkerSide, Uncreated
  <2>2. ASSUME NEW u \in Threads, NEW e \in Todo(u)' PROVE e.r <= used.runs
    <3>1. CASE u = r
      BY <1>4, <1>7, <1>8, <2>2, <3>1
    <3>2. CASE u # r
      BY <1>7, <2>2, <3>2 DEF WorkerSide, Uncreated
    <3> QED
      BY <3>1, <3>2
  <2> QED
    BY <1>1, <2>1, <2>2 DEF Uncreated
<1>11. Order'
  <2>1. Len(L) <= 7
    BY <1>3
  <2>2. \A q \in Runs : NotifyLast(todo'[q])
    BY <1>3, <1>7, RunsAreThreads DEF WorkerSide, Order, NotifyLast
  <2>3. \A u \in Threads : Len(todo'[u]) <= 7
    BY <1>7, <2>1 DEF WorkerSide, Order
  <2>4. \A u \in Threads : \A e, f \in Todo(u)' : e.r = f.r
    BY <1>4, <1>7 DEF WorkerSide, Order
  <2>5. \A e \in Todo(Handler)' : /\ e.do \in {"dispose", "forward", "notify", "fail"}
                                  /\ e.do # "fail" => sessions' = 0
    BY <1>1, <1>7, RunsAreThreads DEF WorkerSide, Order
  <2>6. \A q \in Runs : \A e \in Todo(q)' : e.do # "fail"
    BY <1>4, <1>7, RunsAreThreads DEF WorkerSide, Order
  <2> QED
    BY <2>2, <2>3, <2>4, <2>5, <2>6 DEF Order, NotifyLast
<1>12. Throwing'
  <2> SUFFICES ASSUME NEW u \in Threads, Forwards(u)'
               PROVE  /\ \A e \in Todo(u)' : e.do \notin {"drain", "report"}
                      /\ Head(todo'[u]).do # "dispose" =>
                           \A e \in Todo(u)' : e.do = "dispose" => rt'[e.r].disposed
    BY DEF Throwing
  <2>1. u # r
    BY <1>4, <1>7 DEF Forwards
  <2>2. Forwards(u) /\ Todo(u)' = Todo(u) /\ todo'[u] = todo[u]
    BY <1>7, <2>1 DEF Forwards
  <2>3. \A q \in Runs : rt'[q].disposed = rt[q].disposed
    BY <1>2, <1>6
  <2>4. \A e \in Todo(u) : e.r \in Runs
    BY StepsAre
  <2> QED
    BY <2>2, <2>3, <2>4 DEF WorkerSide, Throwing
<1>13. HeldIsOwn'
  <2> SUFFICES ASSUME sessions # 0
               PROVE  /\ ~rt'[sessions].terminated
                      /\ rt'[sessions].process = "alive" \/ Step("notify", sessions) \in Todo(sessions)'
                      /\ ~Forwards(sessions)'
                      /\ \A u \in Threads \ {sessions} : \A e \in Todo(u)' :
                           e.r = sessions => e.do = "fail"
    BY <1>1 DEF HeldIsOwn
  <2>1. PICK s \in Runs : s = sessions
    BY HeldIsRun
  <2>2. /\ ~rt[s].terminated
        /\ rt[s].process = "alive" \/ Step("notify", s) \in Todo(s)
        /\ ~Forwards(s) /\ s \in Threads
        /\ \A u \in Threads \ {s} : \A e \in Todo(u) : e.r = s => e.do = "fail"
    BY <2>1, RunsAreThreads DEF WorkerSide, HeldIsOwn
  <2>3. ~rt'[s].terminated
    <3>1. rt'[s].terminated = rt[s].terminated
      BY <1>2, <1>6
    <3> QED
      BY <2>2, <3>1
  <2>4. rt'[s].process = "alive" \/ Step("notify", s) \in Todo(s)'
    <3>1. CASE s = r
      BY <1>5, <1>7, <3>1
    <3>2. CASE s # r
      BY <1>6, <1>7, <2>2, <3>2
    <3> QED
      BY <3>1, <3>2
  <2>5. ~Forwards(s)'
    <3>1. CASE s = r
      BY <1>4, <1>7, <3>1 DEF Forwards
    <3>2. CASE s # r
      BY <1>7, <2>2, <3>2 DEF Forwards
    <3> QED
      BY <3>1, <3>2
  <2>6. ASSUME NEW u \in Threads \ {s}, NEW e \in Todo(u)', e.r = s PROVE e.do = "fail"
    <3>1. CASE u = r
      BY <1>4, <1>7, <2>6, <3>1
    <3>2. CASE u # r
      BY <1>7, <2>2, <2>6, <3>2
    <3> QED
      BY <3>1, <3>2
  <2> QED
    BY <1>1, <2>1, <2>3, <2>4, <2>5, <2>6
<1>14. LiveIsHeld'
  <2> SUFFICES ASSUME NEW q \in Runs, rt'[q].process = "alive", sessions # q
               PROVE  \E u \in Threads : Step("dispose", q) \in Todo(u)'
    BY <1>1 DEF LiveIsHeld
  <2>1. q # r /\ rt[q].process = "alive"
    BY <1>2, <1>6
  <2>2. PICK u \in Threads : Step("dispose", q) \in Todo(u)
    BY <2>1 DEF WorkerSide, LiveIsHeld
  <2>3. u # r
    BY <1>7, <2>2
  <2> QED
    BY <1>7, <2>2, <2>3
<1> QED
  BY <1>9, <1>10, <1>11, <1>12, <1>13, <1>14 DEF WorkerSide

-----------------------------------------------------------------------------
(* What the gateway knows.                                                 *)

LEMMA ThreadsKeep ==
  ASSUME Types, WorkerSide, NEW t \in Threads,
         \/ DisposeProcess(t) \/ ForwardExited(t) \/ DrainPumps(t) \/ NotifyTerminated(t)
         \/ t = Handler /\ ForwardStartFailed
         \/ t \in Runs /\ ProcessExits(t)
  PROVE  WorkerSide'
BY DisposeKeeps, ForwardKeeps, NotifyKeeps, ExitKeeps

(* Disposing of a process takes no report back.                            *)
LEMMA DisposeReports ==
  ASSUME Types, WorkerSide, NEW t \in Threads, DisposeProcess(t), Reporting
  PROVE  Reporting'
<1>1. /\ rt \in [Runs -> Runtime] /\ todo \in [Threads -> Seq(StepSet)] /\ Next1(t, "dispose")
  BY DEF DisposeProcess, Types
<1>2. PICK r \in Runs : r = Head(todo[t]).r
  BY <1>1, HeadIs
<1>3. /\ todo[t] # <<>> /\ Head(todo[t]).do = "dispose" /\ r \in Threads
      /\ Todo(t) = {Head(todo[t])} \cup Steps(Tail(todo[t]))
  BY <1>1, HeadIs, ListFacts, RunsAreThreads DEF Next1
<1>4. PICK u \in Threads : \E e \in Todo(u) : e.do \in {"forward", "report", "fail"}
  BY DEF Reporting
<1>5. PICK e \in Todo(u) : e.do \in {"forward", "report", "fail"}
  BY <1>4
<1>6. /\ Rest(t) \in [Threads -> Seq(StepSet)] /\ Rest(t)[t] = Tail(todo[t])
      /\ \A v \in Threads \ {t} : Rest(t)[v] = todo[v]
  BY <1>1, <1>3, RestOf
<1>7. e \in Steps(Rest(t)[u])
  <2>1. CASE u = t
    BY <1>3, <1>5, <1>6, <2>1
  <2>2. CASE u # t
    BY <1>5, <1>6, <2>2 DEF Todo
  <2> QED
    BY <2>1, <2>2
<1>8. todo' = Rest(t) \/ (rt[r].observed /\ todo' = [Rest(t) EXCEPT ![r] = FinallyBlock(r)])
  BY <1>2 DEF DisposeProcess
<1>9. rt[r].observed => u # r
  <2>1. rt[r].observed => Todo(r) = {}
    BY Emptiness DEF WorkerSide, Observed, Todo
  <2> QED
    BY <1>5, <2>1
<1>10. todo'[u] = Rest(t)[u]
  BY <1>6, <1>8, <1>9
<1> QED
  BY <1>5, <1>7, <1>10 DEF Reporting, Todo

(* Nor does a step that only ends.                                         *)
LEMMA PopReports ==
  ASSUME Types, WorkerSide, NEW t \in Threads, todo[t] # <<>>, todo' = Rest(t),
         Head(todo[t]).do \in {"drain", "notify"}, Reporting
  PROVE  Reporting'
<1>1. Todo(t) = {Head(todo[t])} \cup Steps(Tail(todo[t]))
  BY ListFacts
<1>2. todo'[t] = Tail(todo[t]) /\ \A v \in Threads \ {t} : todo'[v] = todo[v]
  BY RestOf DEF Types
<1>3. PICK u \in Threads : \E e \in Todo(u) : e.do \in {"forward", "report", "fail"}
  BY DEF Reporting
<1>4. PICK e \in Todo(u) : e.do \in {"forward", "report", "fail"}
  BY <1>3
<1>5. e \in Todo(u)'
  <2>1. CASE u = t
    BY <1>1, <1>2, <1>4, <2>1 DEF Todo
  <2>2. CASE u # t
    BY <1>2, <1>4, <2>2 DEF Todo
  <2> QED
    BY <2>1, <2>2
<1> QED
  BY <1>4, <1>5 DEF Reporting

LEMMA ThreadsBelieve ==
  ASSUME Types, WorkerSide, SessionOK, Believed, NEW t \in Threads,
         \/ DisposeProcess(t) \/ ForwardExited(t) \/ DrainPumps(t) \/ NotifyTerminated(t)
         \/ t = Handler /\ ForwardStartFailed
         \/ t \in Runs /\ ProcessExits(t)
  PROVE  SessionOK' /\ Believed'
<1>1. UNCHANGED <<conn, link, joined, inbox, shielded, used>>
  BY DEF DisposeProcess, ForwardExited, DrainPumps, NotifyTerminated, ForwardStartFailed, ProcessExits
<1>2. Starting' = Starting
  BY <1>1 DEF Starting
<1>3. CASE DisposeProcess(t)
  <2>1. UNCHANGED <<sessions, session>>
    BY <1>3 DEF DisposeProcess
  <2>2. Believing' = Believing
    BY <1>1, <2>1 DEF Believing, Running
  <2>3. SessionOK'
    BY <2>1 DEF SessionOK, NoSession
  <2>4. Reporting => Reporting'
    BY <1>3, DisposeReports
  <2> QED
    BY <1>1, <1>2, <2>1, <2>2, <2>3, <2>4 DEF Believed
<1>4. CASE ForwardExited(t)
  <2>1. session' = NoSession \/ (session' = session /\ (~link \/ session.conn # conn))
    BY <1>4 DEF ForwardExited, SessionExited
  <2>2. ~Believing'
    BY <1>1, <2>1 DEF Believing, Running, NoSession
  <2>3. SessionOK'
    BY <2>1 DEF SessionOK, NoSession
  <2> QED
    BY <2>2, <2>3 DEF Believed
<1>5. CASE DrainPumps(t)
  <2>1. UNCHANGED <<sessions, session>> /\ todo' = Rest(t) /\ todo[t] # <<>> /\ Head(todo[t]).do = "drain"
    BY <1>5 DEF DrainPumps, Next1
  <2>2. Believing' = Believing
    BY <1>1, <2>1 DEF Believing, Running
  <2>3. SessionOK'
    BY <2>1 DEF SessionOK, NoSession
  <2>4. Reporting => Reporting'
    BY <2>1, PopReports
  <2> QED
    BY <1>1, <1>2, <2>1, <2>2, <2>3, <2>4 DEF Believed
<1>6. CASE NotifyTerminated(t)
  <2>1. UNCHANGED session /\ todo[t] # <<>> /\ Head(todo[t]).do = "notify"
    BY <1>6 DEF NotifyTerminated, Next1
  <2>2. Believing' = Believing
    BY <1>1, <2>1 DEF Believing, Running
  <2>3. SessionOK'
    BY <2>1 DEF SessionOK, NoSession
  <2>4. CASE todo' = Rest(t) /\ UNCHANGED sessions
    <3>1. Reporting => Reporting'
      BY <2>1, <2>4, PopReports
    <3> QED
      BY <1>1, <1>2, <2>2, <2>3, <2>4, <3>1 DEF Believed
  <2>5. CASE sessions # 0 /\ todo' = [todo EXCEPT ![t] = CloseAsync(sessions) \o Tail(@)]
    <3>1. sessions \in Runs
      BY <2>5, HeldIsRun
    <3>2. /\ CloseAsync(sessions) \in Seq(StepSet) /\ Tail(todo[t]) \in Seq(StepSet)
          /\ Step("forward", sessions) \in Steps(CloseAsync(sessions))
          /\ Step("forward", sessions).do = "forward"
      BY <2>1, <3>1, ListsOf, ListFacts, StepIs DEF Disposes
    <3>3. Step("forward", sessions) \in Steps(CloseAsync(sessions) \o Tail(todo[t]))
      BY <3>2, ConcatOf
    <3>4. todo'[t] = CloseAsync(sessions) \o Tail(todo[t])
      BY <2>5 DEF Types
    <3>5. Step("forward", sessions) \in Steps(todo'[t])
      BY <3>3, <3>4
    <3>6. Reporting'
      BY <3>2, <3>5 DEF Reporting, Todo
    <3> QED
      BY <2>3, <3>6 DEF Believed
  <2> QED
    BY <1>6, <2>4, <2>5 DEF NotifyTerminated
<1>7. CASE ForwardStartFailed
  <2>1. \/ session' = [session EXCEPT !.state = "Exited", !.client = FALSE]
        \/ session' = session /\ (~link \/ session.state = "none" \/ session.conn # conn)
    BY <1>7 DEF ForwardStartFailed
  <2>2. session \in [state : {"none", "Attached", "DetachedGracePeriod", "Recovering",
                              "Expired", "Exited"}, client : BOOLEAN, conn : 0 .. conn]
    BY DEF Types
  <2>3. session'.state = "Exited" \/ session' = session
    BY <2>1, <2>2
  <2>4. ~Believing'
    BY <1>1, <2>1, <2>2 DEF Believing, Running
  <2>5. SessionOK'
    BY <2>3 DEF SessionOK, NoSession
  <2> QED
    BY <2>4, <2>5 DEF Believed
<1>8. CASE t \in Runs /\ ProcessExits(t)
  <2>1. UNCHANGED <<sessions, session>> /\ todo' = [todo EXCEPT ![t] = <<Step("report", t)>> \o FinallyBlock(t)]
    BY <1>8 DEF ProcessExits
  <2>2. SessionOK'
    BY <2>1 DEF SessionOK, NoSession
  <2>3. /\ <<Step("report", t)>> \in Seq(StepSet) /\ FinallyBlock(t) \in Seq(StepSet)
        /\ Step("report", t) \in Steps(<<Step("report", t)>>) /\ Step("report", t).do = "report"
    BY <1>8, StepIs, OneStep, ListsOf
  <2>4. Step("report", t) \in Steps(<<Step("report", t)>> \o FinallyBlock(t))
    BY <2>3, ConcatOf
  <2>5. todo'[t] = <<Step("report", t)>> \o FinallyBlock(t)
    BY <2>1 DEF Types
  <2>6. Reporting'
    BY <2>3, <2>4, <2>5 DEF Reporting, Todo
  <2> QED
    BY <2>2, <2>6 DEF Believed
<1> QED
  BY <1>3, <1>4, <1>5, <1>6, <1>7, <1>8

LEMMA TakeBelieves ==
  ASSUME Types, WorkerSide, SessionOK, Believed,
         StartSession \/ StartFails \/ DuplicateStart \/ CloseSession
  PROVE  SessionOK' /\ Believed'
<1>1. UNCHANGED <<conn, link, joined, session, shielded>>
  BY DEF StartSession, StartFails, DuplicateStart, CloseSession
<1>2. SessionOK' /\ Believing' = Believing
  BY <1>1 DEF SessionOK, NoSession, Believing, Running
<1>3. CASE StartSession
  <2>1. sessions' = used.runs + 1 /\ used.runs \in Nat
    BY <1>3, BoundsAssumption DEF StartSession, Types
  <2>2. sessions' # 0
    BY <2>1
  <2> QED
    BY <1>2, <2>2 DEF Believed
<1>4. CASE StartFails
  <2>1. PICK n \in Runs : n = used.runs + 1
    BY <1>4, BoundsAssumption DEF StartFails, Types, Runs
  <2>2. todo'[Handler] = CloseAsync(n) \o CloseAsync(n) \o <<Step("fail", n)>>
    BY <1>4, <2>1, RunsAreThreads DEF StartFails, Types
  <2>3. Step("fail", n) \in Todo(Handler)' /\ Step("fail", n).do = "fail"
    BY <2>2, ClosingLists, StepIs DEF Todo
  <2>4. Reporting'
    BY <2>3, RunsAreThreads DEF Reporting
  <2> QED
    BY <1>2, <2>4 DEF Believed
<1>5. CASE DuplicateStart
  <2>1. sessions' # 0
    BY <1>5 DEF DuplicateStart
  <2> QED
    BY <1>2, <2>1 DEF Believed
<1>6. CASE CloseSession /\ sessions = 0
  <2>1. UNCHANGED <<sessions, todo>> /\ inbox # <<>> /\ Head(inbox) = "close" /\ inbox' = Tail(inbox)
    BY <1>6 DEF CloseSession, Take
  <2>2. Reporting' = Reporting
    BY <2>1 DEF Reporting, Todo
  <2>3. Starting => Starting'
    <3> SUFFICES ASSUME NEW i \in DOMAIN inbox, inbox[i] = "start" PROVE Starting'
      BY DEF Starting
    <3>1. inbox \in Seq({"start", "close"})
      BY DEF Types
    <3>2. i # 1
      BY <2>1, <3>1
    <3>3. i - 1 \in DOMAIN Tail(inbox) /\ Tail(inbox)[i - 1] = inbox[i]
      BY <2>1, <3>1, <3>2
    <3> QED
      BY <2>1, <3>3 DEF Starting
  <2> QED
    BY <1>1, <1>2, <2>1, <2>2, <2>3 DEF Believed
<1>7. CASE CloseSession /\ sessions # 0
  <2>1. PICK s \in Runs : s = sessions
    BY <1>7, HeldIsRun
  <2>2. todo'[Handler] = CloseAsync(s) \o CloseAsync(s)
    BY <1>7, <2>1, RunsAreThreads DEF CloseSession, Types
  <2>3. Step("forward", s) \in Todo(Handler)' /\ Step("forward", s).do = "forward"
    <3>1. Steps(CloseAsync(s) \o CloseAsync(s)) = Disposes(s)
      BY ClosingLists
    <3>2. Todo(Handler)' = Disposes(s)
      BY <2>2, <3>1 DEF Todo
    <3> QED
      BY <3>2, StepIs DEF Disposes
  <2>4. Reporting'
    BY <2>3, RunsAreThreads DEF Reporting
  <2> QED
    BY <1>2, <2>4 DEF Believed
<1> QED
  BY <1>3, <1>4, <1>5, <1>6, <1>7

(* A link that is gone, or that the worker has not reported over.          *)
LEMMA LinksBelieve ==
  ASSUME Types, SessionOK, Believed,
         \/ Drop \/ Restart \/ Reconnect \/ Register \/ TakeSnapshot \/ ReportWorkerSessions
         \/ \E r \in Runs : PumpTakes(r) \/ PumpForwarded(r)
  PROVE  SessionOK' /\ Believed'
<1>1. session \in [state : {"none", "Attached", "DetachedGracePeriod", "Recovering",
                            "Expired", "Exited"}, client : BOOLEAN, conn : 0 .. conn]
  BY DEF Types
<1>2. CASE Drop \/ Restart \/ Reconnect
  <2>1. UNCHANGED session /\ (link' = FALSE \/ joined' = "no")
    BY <1>2 DEF Drop, Restart, Reconnect
  <2>2. SessionOK' /\ ~Believing'
    BY <2>1 DEF SessionOK, NoSession, Believing
  <2> QED
    BY <2>2 DEF Believed
<1>3. CASE Register
  <2>1. /\ joined' = "registered"
        /\ \/ session' = [session EXCEPT !.state = "Attached", !.conn = conn]
           \/ Running(session) /\ session' = [session EXCEPT !.conn = conn]
           \/ session' = session
    BY <1>3 DEF Register
  <2>2. ~Believing'
    BY <2>1 DEF Believing
  <2>3. SessionOK'
    <3>1. CASE session' = session
      BY <3>1 DEF SessionOK, NoSession
    <3>2. CASE session' # session
      <4>1. session'.state \in {"Attached", "DetachedGracePeriod"}
        BY <1>1, <2>1, <3>2 DEF Running
      <4> QED
        BY <4>1 DEF SessionOK
    <3> QED
      BY <3>1, <3>2
  <2> QED
    BY <2>2, <2>3 DEF Believed
<1>4. CASE TakeSnapshot
  <2>1. UNCHANGED <<session, sessions>> /\ joined' = IF sessions = 0 THEN "without" ELSE "with"
    BY <1>4 DEF TakeSnapshot
  <2>2. SessionOK'
    BY <2>1 DEF SessionOK, NoSession
  <2>3. Believing' => sessions' # 0
    BY <2>1 DEF Believing
  <2> QED
    BY <2>2, <2>3 DEF Believed
<1>5. CASE ReportWorkerSessions
  <2>1. /\ link /\ joined \in {"with", "without"} /\ joined' = "reported"
        /\ UNCHANGED <<conn, link, inbox, sessions, todo>>
        /\ shielded' = (session.state = "Attached" /\ session.client)
        /\ session' = IF joined = "without" /\ (Running(session) \/ session.state = "Recovering")
                         /\ ~(session.state = "Attached" /\ session.client)
                      THEN [session EXCEPT !.state = "Expired", !.client = FALSE] ELSE session
    BY <1>5 DEF ReportWorkerSessions
  <2>2. CASE session' = session /\ joined = "with"
    <3>1. Believing' => Believing
      BY <2>1, <2>2 DEF Believing, Running
    <3>2. Starting' = Starting /\ Reporting' = Reporting
      BY <2>1 DEF Starting, Reporting, Todo
    <3>3. SessionOK'
      BY <2>2 DEF SessionOK, NoSession
    <3> QED
      BY <2>1, <2>2, <3>1, <3>2, <3>3 DEF Believed
  <2>3. CASE session' = session /\ ~(Running(session) /\ ~(session.state = "Attached" /\ session.client))
    <3>1. SessionOK'
      BY <2>3 DEF SessionOK, NoSession
    <3>2. Believing' => shielded'
      BY <2>1, <2>3 DEF Believing, Running
    <3> QED
      BY <2>1, <3>1, <3>2 DEF Believed
  <2>4. CASE session' = [session EXCEPT !.state = "Expired", !.client = FALSE]
    <3>1. session'.state = "Expired"
      BY <1>1, <2>4
    <3>2. SessionOK' /\ ~Believing'
      BY <3>1 DEF SessionOK, Believing, Running
    <3> QED
      BY <3>2 DEF Believed
  <2> QED
    BY <2>1, <2>2, <2>3, <2>4
<1>6. CASE \E r \in Runs : PumpTakes(r) \/ PumpForwarded(r)
  <2>1. UNCHANGED <<conn, link, joined, inbox, sessions, todo, session, shielded>>
    BY <1>6 DEF PumpTakes, PumpForwarded
  <2>2. SessionOK' /\ Believing' = Believing
    BY <2>1 DEF SessionOK, NoSession, Believing, Running
  <2>3. Starting' = Starting /\ Reporting' = Reporting
    BY <2>1 DEF Starting, Reporting, Todo
  <2> QED
    BY <2>1, <2>2, <2>3 DEF Believed
<1> QED
  BY <1>2, <1>3, <1>4, <1>5, <1>6

LEMMA DispatchStarts ==
  ASSUME Types, NEW c \in {"start", "close"}, Dispatch(c)
  PROVE  /\ Starting => Starting'
         /\ c = "start" /\ link => Starting'
<1>1. inbox \in Seq({"start", "close"}) /\ inbox' = IF link THEN Append(inbox, c) ELSE inbox
  BY DEF Dispatch, Types
<1>2. \A i \in DOMAIN inbox : i \in DOMAIN Append(inbox, c) /\ Append(inbox, c)[i] = inbox[i]
  BY <1>1
<1>3. Len(inbox) + 1 \in DOMAIN Append(inbox, c) /\ Append(inbox, c)[Len(inbox) + 1] = c
  BY <1>1
<1>4. CASE link
  <2>1. inbox' = Append(inbox, c)
    BY <1>1, <1>4
  <2>2. Starting => Starting'
    BY <1>2, <2>1 DEF Starting
  <2>3. c = "start" => Starting'
    BY <1>3, <2>1 DEF Starting
  <2> QED
    BY <2>2, <2>3
<1>5. CASE ~link
  BY <1>1, <1>5 DEF Starting
<1> QED
  BY <1>4, <1>5

LEMMA GatewayBelieves ==
  ASSUME Types, SessionOK, Believed, Gateway
  PROVE  SessionOK' /\ Believed'
<1>1. /\ UNCHANGED <<conn, link, joined, sessions, rt, todo, shielded>>
      /\ session \in [state : {"none", "Attached", "DetachedGracePeriod", "Recovering",
                               "Expired", "Exited"}, client : BOOLEAN, conn : 0 .. conn]
      /\ conn \in Nat \ {0}
  BY DEF Gateway, WorkerDisconnected, CreateSession, ReattachSession, DetachSession,
         Terminate, DeleteSession, Unused, Types
<1>2. Reporting' = Reporting
  BY <1>1 DEF Reporting, Todo
<1>3. CASE WorkerDisconnected \/ DeleteSession
  <2>1. session' = [state |-> "Recovering", client |-> FALSE, conn |-> 0] \/ session' = NoSession
    BY <1>3 DEF WorkerDisconnected, DeleteSession
  <2>2. SessionOK' /\ ~Believing'
    BY <2>1 DEF SessionOK, NoSession, Believing, Running
  <2> QED
    BY <2>2 DEF Believed
<1>4. CASE /\ link /\ Dispatch("start")
           /\ session' = [state |-> "Attached", client |-> TRUE, conn |-> conn]
  <2>1. SessionOK' /\ Starting'
    BY <1>4, DispatchStarts DEF SessionOK
  <2> QED
    BY <2>1 DEF Believed
<1>5. CASE /\ UNCHANGED <<inbox, used>>
           /\ Running(session) \/ session.state = "Recovering"
           /\ \/ session' = [session EXCEPT !.state = "Attached", !.client = TRUE]
              \/ session' = [session EXCEPT !.state = "DetachedGracePeriod", !.client = FALSE]
  <2>1. session'.state \in {"Attached", "DetachedGracePeriod"} /\ session'.conn = session.conn
    BY <1>1, <1>5
  <2>2. SessionOK'
    BY <2>1 DEF SessionOK
  <2>3. Believing' => Believing
    BY <1>1, <1>5, <2>1 DEF Believing, SessionOK
  <2>4. Starting' = Starting
    BY <1>5 DEF Starting
  <2> QED
    BY <1>1, <1>2, <2>2, <2>3, <2>4 DEF Believed
<1>6. CASE Terminate
  <2>1. UNCHANGED session /\ Dispatch("close")
    BY <1>6 DEF Terminate
  <2>2. SessionOK' /\ Believing' = Believing
    BY <1>1, <2>1 DEF SessionOK, NoSession, Believing, Running
  <2>3. Starting => Starting'
    BY <2>1, DispatchStarts
  <2> QED
    BY <1>1, <1>2, <2>2, <2>3 DEF Believed
<1>7. CASE DetachSession
  BY <1>5, <1>7 DEF DetachSession, Running
<1>8. CASE CreateSession \/ ReattachSession
  BY <1>4, <1>5, <1>8 DEF CreateSession, ReattachSession
<1> QED
  BY <1>3, <1>6, <1>7, <1>8 DEF Gateway

-----------------------------------------------------------------------------
(* The invariant.                                                          *)

LEMMA InitIInv ==
  ASSUME Init
  PROVE  IInv
<1>1. /\ conn = 1 /\ link = TRUE /\ joined = "no" /\ inbox = <<>> /\ sessions = 0
      /\ rt = [r \in Runs |-> NoRuntime] /\ todo = [t \in Threads |-> <<>>]
      /\ session = NoSession /\ shielded = FALSE
      /\ used = [runs |-> 0, commands |-> 0, restarts |-> 0]
  BY DEF Init
<1>2. \A t \in Threads : todo[t] = <<>> /\ Todo(t) = {}
  BY <1>1, Emptiness DEF Todo
<1>3. \A r \in Runs : rt[r] = NoRuntime /\ todo[r] = <<>>
  BY <1>1, <1>2, RunsAreThreads
<1>4. Types
  <2>1. /\ <<>> \in Seq({"start", "close"}) /\ <<>> \in Seq(StepSet)
        /\ 0 \in 0 .. MaxRuns /\ 0 \in 0 .. 0
    BY BoundsAssumption
  <2>2. /\ rt \in [Runs -> Runtime] /\ todo \in [Threads -> Seq(StepSet)]
    BY <1>1, <2>1, NoRuntimeIs
  <2>3. session \in [state : {"none", "Attached", "DetachedGracePeriod", "Recovering",
                              "Expired", "Exited"}, client : BOOLEAN, conn : 0 .. conn]
    BY <1>1 DEF NoSession
  <2>4. used \in [runs : 0 .. MaxRuns, commands : Nat, restarts : Nat] /\ sessions \in 0 .. used.runs
    BY <1>1, <2>1
  <2>5. /\ conn \in Nat \ {0} /\ (conn > 1 => conn <= MaxLinks)
        /\ inbox \in Seq({"start", "close"})
    BY <1>1, <2>1
  <2>6. /\ link \in BOOLEAN /\ shielded \in BOOLEAN
        /\ joined \in {"no", "registered", "with", "without", "reported"}
    BY <1>1
  <2> QED
    BY <2>2, <2>3, <2>4, <2>5, <2>6 DEF Types
<1>5. Observed
  BY <1>2, <1>3 DEF Observed, NoRuntime
<1>6. Uncreated
  BY <1>2, <1>3 DEF Uncreated
<1>7. Order
  <2>1. Len(<<>>) <= 7 /\ DOMAIN <<>> = {}
    OBVIOUS
  <2> QED
    BY <1>2, <2>1, RunsAreThreads DEF Order
<1>8. Throwing
  BY <1>2 DEF Throwing, Forwards
<1>9. HeldIsOwn /\ LiveIsHeld
  BY <1>1, <1>3 DEF HeldIsOwn, LiveIsHeld, NoRuntime
<1>10. SessionOK /\ Believed
  BY <1>1 DEF SessionOK, Believed, Believing, NoSession
<1> QED
  BY <1>4, <1>5, <1>6, <1>7, <1>8, <1>9, <1>10 DEF IInv

LEMMA NextIInv ==
  ASSUME IInv, [Next]_vars
  PROVE  IInv'
<1>1. Types /\ WorkerSide /\ SessionOK /\ Believed
  BY DEF IInv, WorkerSide
<1>2. Types' /\ WorkerSide' /\ SessionOK' /\ Believed'
  <2>1. CASE StartSession \/ StartFails \/ DuplicateStart \/ CloseSession
    BY <1>1, <2>1, TakeTypes, TakeKeeps, TakeBelieves
  <2>2. ASSUME NEW t \in Threads,
               \/ DisposeProcess(t) \/ ForwardExited(t) \/ DrainPumps(t) \/ NotifyTerminated(t)
               \/ t = Handler /\ ForwardStartFailed
               \/ t \in Runs /\ ProcessExits(t)
        PROVE  Types' /\ WorkerSide' /\ SessionOK' /\ Believed'
    <3>1. Types'
      BY <1>1, <2>2, ThreadTypes
    <3>2. WorkerSide'
      BY <1>1, <2>2, ThreadsKeep
    <3>3. SessionOK' /\ Believed'
      BY <1>1, <2>2, ThreadsBelieve
    <3> QED
      BY <3>1, <3>2, <3>3
  <2>3. CASE Drop \/ \E r \in Runs : PumpTakes(r) \/ PumpForwarded(r)
    <3>1. Types' /\ UNCHANGED <<sessions, todo, used>>
      BY <1>1, <2>3, PumpTypes
    <3>2. SameRuntimes /\ \A r \in Runs : rt'[r].terminated = rt[r].terminated
      BY <1>1, <2>3, PumpTypes DEF SameRuntimes
    <3>3. WorkerSide'
      BY <1>1, <3>1, <3>2, PumpKeeps
    <3>4. SessionOK' /\ Believed'
      BY <1>1, <2>3, LinksBelieve
    <3> QED
      BY <3>1, <3>3, <3>4
  <2>4. CASE Restart
    BY <1>1, <2>4, RestartTypes, RestartKeeps, LinksBelieve
  <2>5. CASE Register \/ TakeSnapshot \/ ReportWorkerSessions \/ Reconnect
    <3>1. Types' /\ WorkerSide'
      BY <1>1, <2>5, RemoteTypes, RemoteKeeps DEF Remote
    <3>2. SessionOK' /\ Believed'
      BY <1>1, <2>5, LinksBelieve
    <3> QED
      BY <3>1, <3>2
  <2>6. CASE Gateway
    BY <1>1, <2>6, RemoteTypes, RemoteKeeps, GatewayBelieves DEF Remote
  <2>7. CASE UNCHANGED vars
    <3>1. /\ UNCHANGED <<conn, link, joined, inbox, sessions, rt, todo, session, shielded, used>>
      BY <2>7 DEF vars
    <3>2. Types'
      BY <1>1, <3>1 DEF Types
    <3>3. WorkerSide'
      BY <1>1, <3>1, RemoteKeeps
    <3>4. SessionOK' /\ Believed'
      BY <1>1, <3>1 DEF SessionOK, NoSession, Believed, Believing, Running, Starting, Reporting, Todo
    <3> QED
      BY <3>2, <3>3, <3>4
  <2>8. CASE ForwardStartFailed
    BY <2>2, <2>8, RunsAreThreads
  <2>9. CASE \E r \in Runs : ProcessExits(r)
    BY <2>2, <2>9, RunsAreThreads
  <2>10. CASE \E t \in Threads : \/ DisposeProcess(t) \/ ForwardExited(t)
                                 \/ DrainPumps(t) \/ NotifyTerminated(t)
    BY <2>2, <2>10
  <2> QED
    BY <2>1, <2>3, <2>4, <2>5, <2>6, <2>7, <2>8, <2>9, <2>10 DEF Next, Worker
<1> QED
  BY <1>2 DEF IInv, WorkerSide

(* The worker's lists of steps, its map and what the gateway believes fit  *)
(* together in every reachable state.                                      *)
THEOREM Invariance == Spec => []IInv
<1>1. Init => IInv
  BY InitIInv
<1>2. IInv /\ [Next]_vars => IInv'
  BY NextIInv
<1> QED
  BY <1>1, <1>2, PTL DEF Spec

-----------------------------------------------------------------------------
(* The properties.                                                         *)

(* Types: among them that nothing is observed but what runs, and that a    *)
(* thread never has more to do than a failed start gives it.               *)
THEOREM TypeCorrect == Spec => []TypeOK
<1>1. IInv => TypeOK
  <2> SUFFICES ASSUME IInv PROVE TypeOK
    OBVIOUS
  <2>1. Types /\ Observed /\ Order /\ SessionOK
    BY DEF IInv
  <2>2. conn \in 1 .. MaxLinks \cup {1}
    <3>1. conn \in Nat \ {0} /\ (conn > 1 => conn <= MaxLinks) /\ MaxLinks \in Nat
      BY <2>1, BoundsAssumption DEF Types
    <3>2. CASE conn = 1
      BY <3>2
    <3>3. CASE conn # 1
      <4>1. conn > 1 /\ conn >= 1
        BY <3>1, <3>3
      <4> QED
        BY <3>1, <4>1
    <3> QED
      BY <3>2, <3>3
  <2>3. \A r \in Runs : rt[r].process = "alive" <=> rt[r].observed
    BY <2>1 DEF Observed
  <2>4. \A t \in Threads : Len(todo[t]) <= 7
    BY <2>1 DEF Order
  <2> QED
    BY <2>1, <2>2, <2>3, <2>4 DEF TypeOK, Types, SessionOK
<1> QED
  BY <1>1, Invariance, PTL

(* A shell that runs is the one its worker holds, or it is being closed:   *)
(* closing, failing, exiting and the removal of an entry that the observer *)
(* of another runtime causes lose no shell, wherever the link breaks.      *)
THEOREM LiveShellsAreHeld == Spec => []LiveShellIsHeld
<1>1. IInv => LiveShellIsHeld
  <2> SUFFICES ASSUME IInv, NEW r \in Runs, rt[r].process = "alive", sessions # r
               PROVE  BeingClosed(r)
    BY DEF LiveShellIsHeld
  <2>1. PICK t \in Threads : Step("dispose", r) \in Todo(t)
    BY DEF IInv, LiveIsHeld
  <2>2. \E i \in DOMAIN todo[t] : todo[t][i] = Step("dispose", r)
    BY <2>1 DEF Todo, Steps
  <2> QED
    BY <2>2 DEF BeingClosed
<1> QED
  BY <1>1, Invariance, PTL

(* What the worker holds is a shell that runs, or its own observer is on   *)
(* its way to remove it: the entry does not stay and refuse later starts.  *)
THEOREM HeldRuntimesAreLive == Spec => []HeldIsLive
<1>1. IInv => HeldIsLive
  <2> SUFFICES ASSUME IInv, sessions # 0, rt[sessions].process # "alive"
               PROVE  \E t \in Threads : \E i \in DOMAIN todo[t] : todo[t][i].do = "notify"
    BY DEF HeldIsLive
  <2>1. sessions \in Runs /\ sessions \in Threads
    BY HeldIsRun DEF IInv
  <2>2. Step("notify", sessions) \in Todo(sessions) /\ Step("notify", sessions).do = "notify"
    BY <2>1, StepIs DEF IInv, HeldIsOwn
  <2>3. \E i \in DOMAIN todo[sessions] : todo[sessions][i] = Step("notify", sessions)
    BY <2>2 DEF Todo, Steps
  <2> QED
    BY <2>1, <2>2, <2>3
<1> QED
  BY <1>1, Invariance, PTL

(* When all is quiet and the worker has reported, the gateway believes in  *)
(* no shell that is gone, unless the report passed over the session.       *)
THEOREM GhostsDoExpire == Spec => []GhostsExpire
<1>1. IInv => GhostsExpire
  <2> SUFFICES ASSUME IInv, Quiet, sessions = 0, Running(session), session.conn = conn
               PROVE  shielded
    BY DEF GhostsExpire
  <2>1. ~Starting
    BY DEF Quiet, Starting
  <2>2. \A t \in Threads : Todo(t) = {}
    BY Emptiness DEF Quiet, Todo
  <2>3. ~Reporting
    BY <2>2 DEF Reporting
  <2>4. Believing
    BY DEF Believing, Quiet
  <2> QED
    BY <2>1, <2>3, <2>4 DEF IInv, Believed
<1> QED
  BY <1>1, Invariance, PTL
=============================================================================
