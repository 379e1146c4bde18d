----------------------------- MODULE SessionLaunch -----------------------------
(***************************************************************************)
(* Creating a session.  The Console's new-session page carries a bootstrap *)
(* id in its address and sends it as clientRequestId, so that a reload or  *)
(* a second tab at the same address asks for the same session: in a tab    *)
(* session-bootstrap.ts shares the call that is under way, at the gateway  *)
(* SessionLaunchCoordinator shares the launch, for as long as it runs.     *)
(*                                                                         *)
(* The module follows one bootstrap id.                                    *)
(***************************************************************************)
EXTENDS Integers

CONSTANTS
  Tabs,         \* browser tabs at the page's address
  MaxLaunches,  \* bound: launches the gateway makes
  MaxRestarts   \* bound: restarts of the gateway

ASSUME BoundsAssumption == MaxLaunches \in Nat /\ MaxRestarts \in Nat

VARIABLES
  shown,      \* what each tab shows
  call,       \* pendingSessionCreations of each tab: its call of createSession
  launch,     \* the launches, in the order in which they began
  table,      \* _launches: the launch under the request's key, 0 for none
  restarts,   \* restarts so far
  told,       \* history: the launches whose failure each tab was told
  robbed      \* history: an entry was removed on behalf of an older launch

launchVars == <<shown, call, launch, table, restarts, told, robbed>>

Launches == 1 .. MaxLaunches
NoCall == [at |-> "none", of |-> 0]

(* A launch fails when no worker is there or the start command cannot be   *)
(* sent; it throws when the database fails outside the catch block.        *)
Settled == {"started", "failed", "threw"}

LaunchTypeOK ==
  /\ shown \in [Tabs -> {"elsewhere", "measuring", "creating", "error", "session"}]
  /\ call \in [Tabs -> [at : {"none", "sent", "waiting", "ok", "failed"},
                        of : 0 .. MaxLaunches]]
  /\ launch \in [Launches -> {"unused", "creating", "starting", "cut"} \cup Settled]
  /\ table \in 0 .. MaxLaunches
  /\ restarts \in 0 .. MaxRestarts
  /\ told \in [Tabs -> SUBSET Launches]
  /\ robbed \in BOOLEAN
  /\ table # 0 => launch[table] \notin {"unused", "cut"}
  /\ \A t \in Tabs : /\ shown[t] = "creating" => call[t] # NoCall
                     /\ call[t].at = "waiting" => call[t].of # 0

LaunchInit ==
  /\ shown = [t \in Tabs |-> "elsewhere"]
  /\ call = [t \in Tabs |-> NoCall]
  /\ launch = [n \in Launches |-> "unused"]
  /\ table = 0 /\ restarts = 0
  /\ told = [t \in Tabs |-> {}] /\ robbed = FALSE

-------------------------------------------------------------------------------
(* The page.  It is opened, also by going back to its address, left while  *)
(* its call goes on, or loaded anew, which drops the call.                 *)

Open(t) ==
  /\ shown[t] = "elsewhere"
  /\ shown' = [shown EXCEPT ![t] = "measuring"]
  /\ UNCHANGED <<call, launch, table, restarts, told, robbed>>

Leave(t) ==
  /\ shown[t] # "elsewhere"
  /\ shown' = [shown EXCEPT ![t] = "elsewhere"]
  /\ UNCHANGED <<call, launch, table, restarts, told, robbed>>

ReloadTab(t) ==
  /\ shown[t] \in {"measuring", "creating", "error"}
  /\ shown' = [shown EXCEPT ![t] = "measuring"]
  /\ call' = [call EXCEPT ![t] = NoCall]
  /\ UNCHANGED <<launch, table, restarts, told, robbed>>

(* startCreation, when the terminal is measured, and again after a failure *)
(* when its size changes; getOrStartSessionCreation.                       *)
StartCreation(t) ==
  /\ shown[t] \in {"measuring", "error"}
  /\ shown' = [shown EXCEPT ![t] = "creating"]
  /\ call' = [call EXCEPT ![t] = IF @ = NoCall THEN [at |-> "sent", of |-> 0] ELSE @]
  /\ UNCHANGED <<launch, table, restarts, told, robbed>>

(* The promise settles: it leaves the map, and the page that waits for it, *)
(* if one does, goes on.                                                   *)
Settle(t) ==
  /\ call[t].at \in {"ok", "failed"}
  /\ call' = [call EXCEPT ![t] = NoCall]
  /\ shown' = [shown EXCEPT ![t] =
       CASE @ # "creating" -> @
         [] @ = "creating" /\ call[t].at = "ok" -> "session"
         [] @ = "creating" /\ call[t].at = "failed" -> "error"]
  /\ UNCHANGED <<launch, table, restarts, told, robbed>>

(* The network fails the call; its waiter at the gateway is cancelled.     *)
NetworkFails(t) ==
  /\ call[t].at \in {"sent", "waiting"}
  /\ call' = [call EXCEPT ![t] = [@ EXCEPT !.at = "failed"]]
  /\ UNCHANGED <<shown, launch, table, restarts, told, robbed>>

-------------------------------------------------------------------------------
(* The gateway.                                                            *)

(* Mutant of CreateSession: the entry is looked for, but not shared.       *)
CreateSessionAlone(t) ==
  /\ call[t].at = "sent"
  /\ \E n \in Launches :
       /\ launch[n] = "unused" /\ \A m \in 1 .. n - 1 : launch[m] # "unused"
       /\ launch' = [launch EXCEPT ![n] = "creating"]
       /\ table' = n
       /\ call' = [call EXCEPT ![t] = [at |-> "waiting", of |-> n]]
  /\ UNCHANGED <<shown, restarts, told, robbed>>

(* CreateSessionAsync: GetOrAdd, and the Lazy runs its factory once.       *)
CreateSession(t) ==
  /\ call[t].at = "sent"
  /\ \/ /\ table # 0
        /\ call' = [call EXCEPT ![t] = [at |-> "waiting", of |-> table]]
        /\ UNCHANGED <<launch, table>>
     \/ /\ table = 0
        /\ \E n \in Launches :
             /\ launch[n] = "unused" /\ \A m \in 1 .. n - 1 : launch[m] # "unused"
             /\ launch' = [launch EXCEPT ![n] = "creating"]
             /\ table' = n
             /\ call' = [call EXCEPT ![t] = [at |-> "waiting", of |-> n]]
  /\ UNCHANGED <<shown, restarts, told, robbed>>

(* StartSessionAsync: the workspace and the session's record, then the     *)
(* command to the worker.                                                  *)
RecordCreated(n) ==
  /\ launch[n] = "creating"
  /\ launch' = [launch EXCEPT ![n] = "starting"]
  /\ UNCHANGED <<shown, call, table, restarts, told, robbed>>

CommandSent(n) ==
  /\ launch[n] = "starting"
  /\ launch' = [launch EXCEPT ![n] = "started"]
  /\ UNCHANGED <<shown, call, table, restarts, told, robbed>>

LaunchFails(n) ==
  /\ launch[n] \in {"creating", "starting"}
  /\ \E how \in {"failed", "threw"} : launch' = [launch EXCEPT ![n] = how]
  /\ UNCHANGED <<shown, call, table, restarts, told, robbed>>

(* Mutant of Forget: the entry of a launch that failed stays.              *)
ForgetNever(n) == UNCHANGED table

(* TryRemove(launchKey): whatever launch is under the key.                 *)
Forget(n) == table' = 0

(* AwaitLaunchAsync goes on.                                               *)
LaunchAwaited(t) ==
  LET n == call[t].of IN
  /\ call[t].at = "waiting" /\ launch[n] \in Settled
  /\ call' = [call EXCEPT ![t].at = IF launch[n] = "started" THEN "ok" ELSE "failed"]
  /\ told' = [told EXCEPT ![t] = IF launch[n] = "started" THEN @ ELSE @ \cup {n}]
  /\ IF launch[n] = "failed"
     THEN Forget(n) /\ robbed' = (robbed \/ table \notin {0, n})
     ELSE UNCHANGED <<table, robbed>>
  /\ UNCHANGED <<shown, launch, restarts>>

(* The table is lost with the process, and so are the launches under way.  *)
GatewayRestart ==
  /\ restarts < MaxRestarts
  /\ restarts' = restarts + 1
  /\ table' = 0
  /\ launch' = [n \in Launches |->
       IF launch[n] \in {"creating", "starting"} THEN "cut" ELSE launch[n]]
  /\ call' = [t \in Tabs |-> IF call[t].at = "waiting"
                             THEN [call[t] EXCEPT !.at = "failed"] ELSE call[t]]
  /\ UNCHANGED <<shown, told, robbed>>

-------------------------------------------------------------------------------
LaunchNext ==
  \/ \E t \in Tabs : \/ Open(t) \/ Leave(t) \/ ReloadTab(t) \/ StartCreation(t)
                     \/ Settle(t) \/ NetworkFails(t)
                     \/ CreateSession(t) \/ LaunchAwaited(t)
  \/ \E n \in Launches : RecordCreated(n) \/ CommandSent(n) \/ LaunchFails(n)
  \/ GatewayRestart

LaunchSpec == LaunchInit /\ [][LaunchNext]_launchVars

-------------------------------------------------------------------------------
(* The launches that have made a session which may have a shell.           *)
Alive == {n \in Launches : launch[n] \in {"creating", "starting", "started"}}

(* One bootstrap id makes one shell: reloads, second tabs and retries do   *)
(* not start another beside it.                                            *)
OneShellPerRequest == restarts = 0 => \A m, n \in Alive : m = n

(* The same, except after the waiter of a failed launch has removed the    *)
(* launch that a retry had stored under the key in the meantime.           *)
SharedLaunchIsSingle == robbed \/ OneShellPerRequest

(* A retry asks the worker again: a tab that was told of a launch's        *)
(* failure does not get the same failure from the table.  Except that of a *)
(* launch that threw, which no waiter removes.                             *)
RetryIsFresh ==
  \A t \in Tabs :
    call[t].at = "waiting" /\ launch[call[t].of] # "threw"
      => call[t].of \notin told[t]

================================================================================
