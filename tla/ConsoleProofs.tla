----------------------------- MODULE ConsoleProofs -----------------------------
(***************************************************************************)
(* Theorems about a browser that signs in and creates sessions: about      *)
(* ConsoleAuth, for any requests and for any lifetime of the token that is *)
(* longer than the timer's period, and about SessionLaunch, for any tabs   *)
(* and any number of launches and restarts.                                *)
(*                                                                         *)
(* ForcedOutHasCause is not inductive: that no request is refused needs    *)
(* to know how old a token can be, and that depends on the timer.  InTime  *)
(* says it: until a renewal is missed the token has at least the time left *)
(* that the timer has, and the rest of its life beyond one period, except  *)
(* while the renewal that the timer has just asked for is under way.       *)
(*                                                                         *)
(* That launches are single needs to know where the one launch is that may *)
(* still make a shell: under the key.  That a retry is fresh needs to know *)
(* that a failure somebody was told is not under the key.                  *)
(***************************************************************************)
EXTENDS ConsoleAuth, SessionLaunch, TLAPS

TokenInTime ==
  store # NoToken => \/ store >= Life - Period + timer
                     \/ timerCall = "valid" /\ store >= Life - Period

CallsInTime ==
  /\ timerCall # "refused"
  /\ \A a \in Apis : refresh[a] = "none"
  /\ \A r \in Requests : request[r] \in {"idle", "valid"}

InTime ==
  ~missed => ~forced /\ (page = "app" => store # NoToken) /\ TokenInTime /\ CallsInTime

IInv == TypeOK /\ InTime

-------------------------------------------------------------------------------
(* Every call has the instance its page was given.                         *)
LEMMA ApiOfType == \A r \in Requests : ApiOf(r) \in Apis
BY DEF ApiOf, Apis

LEMMA BearerType == Bearer \in Bearers
BY DEF Bearer, Bearers

(* The part of the type invariant that says which requests wait, and the   *)
(* parts that are about the calls and about the token.                     *)
Waits == \A r \in Requests : request[r] = "waiting" => refresh[ApiOf(r)] \in Bearers

CallTypes ==
  /\ timerCall \in {"none"} \cup Bearers
  /\ refresh \in [Apis -> {"none", "empty"} \cup Bearers]
  /\ request \in [Requests -> {"idle", "waiting", "retried"} \cup Bearers]
  /\ Waits

TokenTypes ==
  /\ store \in NoToken .. Life
  /\ timer \in Off .. Period
  /\ timer = Off <=> store = NoToken

OtherTypes ==
  /\ page \in {"app", "sign-in"}
  /\ login \in {"idle", "sent", "captcha"}
  /\ missed \in BOOLEAN /\ forced \in BOOLEAN

LEMMA TypeParts == TypeOK <=> CallTypes /\ TokenTypes /\ OtherTypes
BY DEF TypeOK, CallTypes, TokenTypes, OtherTypes, Waits

(* What happens to the token and the timer, whatever else a step does.     *)
TokenStep ==
  \/ Reset \/ SetAccessToken(Life) \/ UNCHANGED <<store, timer>>
  \/ store # NoToken /\ SetAccessToken(store)
  \/ store # NoToken /\ timer # 0 /\ store' = Aged /\ timer' = timer - 1
  \/ timer = 0 /\ timer' = Period /\ UNCHANGED store
  \/ store > 0 /\ store' = Aged /\ UNCHANGED timer

LEMMA TokenStepTypes == TypeOK /\ TokenStep => TokenTypes'
BY TimeAssumption DEF TypeOK, TokenStep, TokenTypes, Reset, SetAccessToken, Aged, NoToken, Off

(* Every action is one of these steps for the token.                       *)
LEMMA NextTokenTypes == TypeOK /\ [Next]_vars => TokenTypes'
<1> SUFFICES ASSUME TypeOK, [Next]_vars PROVE TokenStep
  BY TokenStepTypes
<1>1. CASE Submit \/ LoginRejected \/ CaptchaCloses \/ Navigate \/ TimerFails
  BY <1>1 DEF Submit, LoginRejected, CaptchaCloses, Navigate, TimerFails, TokenStep
<1>2. CASE LoginAccepted \/ SignOut \/ TimerFires \/ TimerOk
  BY <1>2 DEF LoginAccepted, SignOut, TimerFires, TimerOk, TokenStep
<1>3. CASE Reload \/ OAuthReturns
  BY <1>3, TimeAssumption DEF Reload, OAuthReturns, Load, NoToken, TokenStep
<1>4. ASSUME NEW r \in Requests, Send(r) \/ Handles(r) PROVE TokenStep
  BY <1>4 DEF Send, Handles, Answered, Unauthorized, Fail, TokenStep
<1>5. ASSUME NEW a \in Apis, Renews(a) PROVE TokenStep
  BY <1>5 DEF Renews, RefreshOk, RefreshFails, Fail, TokenStep
<1>6. CASE Tick \/ Sleep
  BY <1>6 DEF Tick, Sleep, TokenStep
<1>7. CASE UNCHANGED vars
  BY <1>7 DEF vars, TokenStep
<1> QED
  BY <1>1, <1>2, <1>3, <1>4, <1>5, <1>6, <1>7 DEF Next

LEMMA NextOtherTypes == TypeOK /\ [Next]_vars => OtherTypes'
<1> SUFFICES ASSUME TypeOK, [Next]_vars PROVE OtherTypes'
  OBVIOUS
<1>1. page' \in {"app", "sign-in"}
  BY DEF TypeOK, Next, vars, Submit, LoginAccepted, LoginRejected, CaptchaCloses, Reload,
         OAuthReturns, Load, SignOut, Navigate, Send, Handles, Answered, Unauthorized, Fail,
         Renews, RefreshOk, RefreshFails, TimerFires, TimerOk, TimerFails, Tick, Sleep
<1>2. login' \in {"idle", "sent", "captcha"}
  BY DEF TypeOK, Next, vars, Submit, LoginAccepted, LoginRejected, CaptchaCloses, Reload,
         OAuthReturns, Load, SignOut, Navigate, Send, Handles, Answered, Unauthorized, Fail,
         Renews, RefreshOk, RefreshFails, TimerFires, TimerOk, TimerFails, Tick, Sleep
<1>3. missed' \in BOOLEAN
  BY DEF TypeOK, Next, vars, Submit, LoginAccepted, LoginRejected, CaptchaCloses, Reload,
         OAuthReturns, Load, SignOut, Navigate, Send, Handles, Answered, Unauthorized,
         Renews, RefreshOk, RefreshFails, TimerFires, TimerOk, TimerFails, Tick, Sleep
<1>4. forced' \in BOOLEAN
  BY DEF TypeOK, Next, vars, Submit, LoginAccepted, LoginRejected, CaptchaCloses, Reload,
         OAuthReturns, Load, SignOut, Navigate, Send, Handles, Answered, Unauthorized, Fail,
         Renews, RefreshOk, RefreshFails, TimerFires, TimerOk, TimerFails, Tick, Sleep
<1> QED
  BY <1>1, <1>2, <1>3, <1>4 DEF OtherTypes

(* A request waits only for a renewal that is under way: it joins one or   *)
(* starts one, and all that wait go on when it ends.                       *)
LEMMA NextCallTypes == TypeOK /\ [Next]_vars => CallTypes'
<1> SUFFICES ASSUME TypeOK, [Next]_vars PROVE CallTypes'
  OBVIOUS
<1> USE ApiOfType, BearerType
<1>0. CallTypes
  BY TypeParts
<1>1. CASE UNCHANGED <<timerCall, refresh, request>>
  BY <1>0, <1>1 DEF CallTypes, Waits
<1>2. CASE TimerFires \/ TimerOk \/ TimerFails
  BY <1>0, <1>2 DEF TimerFires, TimerOk, TimerFails, CallTypes, Waits
<1>3. CASE Reload \/ OAuthReturns
  BY <1>3 DEF Reload, OAuthReturns, Load, CallTypes, Waits
<1>4. ASSUME NEW r \in Requests, Send(r) \/ Answered(r) PROVE CallTypes'
  BY <1>0, <1>4 DEF Send, Answered, CallTypes, Waits, Bearers
<1>5. ASSUME NEW r \in Requests, Unauthorized(r) PROVE CallTypes'
  <2> DEFINE a == ApiOf(r)
  <2>1. CASE refresh[a] \in Bearers \/ (refresh[a] = "none" /\ store # NoToken)
    <3>1. /\ request' = [request EXCEPT ![r] = "waiting"]
          /\ refresh' = [refresh EXCEPT ![a] = IF @ = "none" THEN Bearer ELSE @]
          /\ UNCHANGED timerCall
      BY <1>5, <2>1 DEF Unauthorized
    <3>2. refresh'[a] \in Bearers
      BY <1>0, <2>1, <3>1 DEF CallTypes, Bearers
    <3>3. Waits'
      BY <1>0, <3>1, <3>2 DEF CallTypes, Waits
    <3> QED
      BY <1>0, <3>1, <3>2, <3>3 DEF CallTypes
  <2>2. CASE ~(refresh[a] \in Bearers \/ (refresh[a] = "none" /\ store # NoToken))
    <3>1. /\ request' = [request EXCEPT ![r] = "idle"]
          /\ refresh' = [refresh EXCEPT ![a] = "empty"]
          /\ UNCHANGED timerCall
      BY <1>5, <2>2 DEF Unauthorized
    <3>2. \A q \in Requests : request[q] = "waiting" => ApiOf(q) # a
      BY <1>0, <2>2 DEF CallTypes, Waits
    <3> QED
      BY <1>0, <3>1, <3>2 DEF CallTypes, Waits
  <2> QED
    BY <2>1, <2>2
<1>6. ASSUME NEW a \in Apis, Renews(a) PROVE CallTypes'
  <2>1. /\ refresh' = [refresh EXCEPT ![a] = "none"]
        /\ UNCHANGED timerCall
        /\ \E next \in {"retried", "idle"} : Resume(Waiting(a), next)
    BY <1>6 DEF Renews, RefreshOk, RefreshFails
  <2>2. \A q \in Requests : /\ request'[q] \in {"retried", "idle", request[q]}
                            /\ request'[q] = "waiting" => /\ request[q] = "waiting"
                                                          /\ ApiOf(q) # a
    BY <2>1 DEF Resume, Waiting
  <2>3. request' \in [Requests -> {"idle", "waiting", "retried"} \cup Bearers]
    BY <1>0, <2>1, <2>2 DEF Resume, CallTypes
  <2> QED
    BY <1>0, <2>1, <2>2, <2>3 DEF CallTypes, Waits
<1> QED
  BY <1>1, <1>2, <1>3, <1>4, <1>5, <1>6
     DEF Next, vars, Handles, Submit, LoginAccepted, LoginRejected, CaptchaCloses, SignOut,
         Navigate, Tick, Sleep

LEMMA InitTypes == Init => TypeOK
<1> SUFFICES ASSUME Init PROVE TypeOK
  OBVIOUS
<1>1. CallTypes
  BY DEF Init, CallTypes, Waits
<1>2. TokenTypes
  BY TimeAssumption DEF Init, TokenTypes, NoToken, Off
<1>3. OtherTypes
  BY DEF Init, OtherTypes
<1> QED
  BY <1>1, <1>2, <1>3, TypeParts

LEMMA NextTypes == TypeOK /\ [Next]_vars => TypeOK'
<1> SUFFICES ASSUME TypeOK, [Next]_vars PROVE TypeOK'
  OBVIOUS
<1>1. CallTypes' /\ TokenTypes' /\ OtherTypes'
  BY NextCallTypes, NextTokenTypes, NextOtherTypes
<1> QED
  BY <1>1 DEF TypeOK, CallTypes, TokenTypes, OtherTypes, Waits

-------------------------------------------------------------------------------
(* A token that is there in time is valid.                                 *)
LEMMA InTimeIsValid ==
  ASSUME TypeOK, TokenInTime, store # NoToken
  PROVE  store > 0 /\ Bearer = "valid" /\ timer >= 0
BY TimeAssumption DEF TypeOK, TokenInTime, Bearer, NoToken, Off

(* A step that misses nothing keeps the token and the calls in time.       *)
LEMMA InTimeStep ==
  ASSUME TypeOK, [Next]_vars, ~missed', ~missed, ~forced,
         page = "app" => store # NoToken, TokenInTime, CallsInTime
  PROVE  ~forced' /\ (page' = "app" => store' # NoToken) /\ TokenInTime' /\ CallsInTime'
<1> DEFINE Goal == /\ ~forced' /\ (page' = "app" => store' # NoToken)
                   /\ TokenInTime' /\ CallsInTime'
<1>0. Life # NoToken /\ Life >= Life - Period + Period
  BY TimeAssumption DEF NoToken
<1>1. CASE Submit \/ LoginRejected \/ CaptchaCloses \/ UNCHANGED vars
  BY <1>1 DEF Submit, LoginRejected, CaptchaCloses, vars, TokenInTime, CallsInTime
<1>2. CASE Navigate
  BY <1>2 DEF Navigate, TokenInTime, CallsInTime
<1>3. CASE LoginAccepted \/ TimerOk
  BY <1>0, <1>3 DEF LoginAccepted, TimerOk, SetAccessToken, TokenInTime, CallsInTime
<1>4. CASE Reload \/ OAuthReturns
  <2>1. PICK t \in {NoToken, Life} : Load(t)
    BY <1>4 DEF Reload, OAuthReturns
  <2> QED
    BY <1>0, <2>1 DEF Load, Reset, SetAccessToken, TokenInTime, CallsInTime
<1>5. CASE SignOut
  BY <1>5 DEF SignOut, Reset, TokenInTime, CallsInTime
<1>6. ASSUME NEW r \in Requests, Send(r) PROVE Goal
  <2>1. Bearer = "valid"
    BY <1>6, InTimeIsValid DEF Send
  <2>2. CallsInTime'
    BY <1>6, <2>1 DEF Send, CallsInTime, TypeOK
  <2> QED
    BY <1>6, <2>2 DEF Send, TokenInTime
<1>7. ASSUME NEW r \in Requests, Answered(r) PROVE Goal
  <2>1. CallsInTime'
    BY <1>7 DEF Answered, CallsInTime, TypeOK
  <2> QED
    BY <1>7, <2>1 DEF Answered, TokenInTime
<1>8. ASSUME NEW r \in Requests, Unauthorized(r) PROVE FALSE
  BY <1>8 DEF Unauthorized, CallsInTime
<1>9. ASSUME NEW a \in Apis, Renews(a) PROVE FALSE
  BY <1>9 DEF Renews, RefreshOk, RefreshFails, CallsInTime, Bearers
<1>10. CASE TimerFires
  <2>1. store # NoToken
    BY <1>10 DEF TimerFires, TypeOK, Off
  <2>2. Bearer = "valid" /\ store >= Life - Period
    BY <1>10, <2>1, InTimeIsValid, TimeAssumption DEF TimerFires, TokenInTime, TypeOK, NoToken
  <2> QED
    BY <1>10, <2>2 DEF TimerFires, TokenInTime, CallsInTime
<1>11. CASE TimerFails
  BY <1>11 DEF TimerFails, CallsInTime, TypeOK, Bearers
<1>12. CASE Tick
  <2>1. store > 0 /\ store >= Life - Period + timer
    BY <1>12, InTimeIsValid DEF Tick, Quiet, TokenInTime
  <2>2. store' = store - 1 /\ timer' = timer - 1
    BY <1>12, <2>1 DEF Tick, Aged
  <2>3. TokenInTime' /\ store' # NoToken
    BY <2>1, <2>2, TimeAssumption DEF TokenInTime, TypeOK, NoToken, Off
  <2> QED
    BY <1>12, <2>3 DEF Tick, CallsInTime
<1>13. CASE Sleep
  BY <1>13 DEF Sleep
<1> QED
  BY <1>1, <1>2, <1>3, <1>4, <1>5, <1>6, <1>7, <1>8, <1>9, <1>10, <1>11, <1>12, <1>13
     DEF Next, Handles

(* What was missed stays missed.                                           *)
LEMMA MissedStays == TypeOK /\ [Next]_vars /\ missed => missed'
BY DEF TypeOK, Next, vars, Submit, LoginAccepted, LoginRejected, CaptchaCloses, Reload,
       OAuthReturns, Load, SignOut, Navigate, Send, Handles, Answered, Unauthorized,
       Renews, RefreshOk, RefreshFails, TimerFires, TimerOk, TimerFails, Tick, Sleep

LEMMA Invariance == Spec => []IInv
<1>1. Init => IInv
  <2> SUFFICES ASSUME Init PROVE IInv
    OBVIOUS
  <2>1. CallsInTime
    BY DEF Init, CallsInTime
  <2>2. store = NoToken /\ page = "sign-in" /\ ~forced
    BY DEF Init
  <2> QED
    BY <2>1, <2>2, InitTypes DEF IInv, InTime, TokenInTime
<1>2. IInv /\ [Next]_vars => IInv'
  <2> SUFFICES ASSUME IInv, [Next]_vars PROVE IInv'
    OBVIOUS
  <2>1. TypeOK /\ TypeOK'
    BY NextTypes DEF IInv
  <2>2. CASE missed'
    BY <2>1, <2>2 DEF IInv, InTime
  <2>3. CASE ~missed'
    <3>1. ~missed
      BY <2>1, <2>3, MissedStays
    <3> QED
      BY <2>1, <2>3, <3>1, InTimeStep DEF IInv, InTime
  <2> QED
    BY <2>2, <2>3
<1> QED
  BY <1>1, <1>2, PTL DEF Spec

(* The token, the timer and the calls keep their shape: a tab has a timer  *)
(* exactly when it has a token, and no request waits for a renewal that    *)
(* nobody has asked for.                                                   *)
THEOREM TypeCorrect == Spec => []TypeOK
<1>1. IInv => TypeOK
  BY DEF IInv
<1> QED
  BY <1>1, Invariance, PTL

(* For any lifetime longer than the timer's period: a request signs the    *)
(* user out only after a renewal has failed or has come late.              *)
THEOREM NobodyIsForcedOutEarly == Spec => []ForcedOutHasCause
<1>1. IInv => ForcedOutHasCause
  BY DEF IInv, InTime, ForcedOutHasCause
<1> QED
  BY <1>1, Invariance, PTL

-------------------------------------------------------------------------------
(* Creating a session: SessionLaunch.                                      *)

(* Until an entry is removed for an older launch or the table is lost, the *)
(* launch that has made a session, or may, is the one under the key.       *)
AliveIsShared == robbed \/ restarts > 0 \/ \A n \in Alive : n = table

(* A tab is told of failures only, and those that the waiters remove are   *)
(* no longer under the key.                                                *)
ToldIsForgotten ==
  \A t \in Tabs : \A n \in told[t] :
    launch[n] = "threw" \/ (launch[n] = "failed" /\ table # n)

SharedInv == LaunchTypeOK /\ AliveIsShared /\ ToldIsForgotten /\ RetryIsFresh

(* What the call of a tab can be: where it stands, and for which launch.   *)
CreationCalls == [at : {"none", "sent", "waiting", "ok", "failed"}, of : 0 .. MaxLaunches]

(* A call that waits, waits for a launch.                                  *)
LEMMA WaitsForLaunch ==
  ASSUME LaunchTypeOK, NEW t \in Tabs, call[t].at = "waiting"
  PROVE  call[t].of \in Launches
<1>1. call[t].of # 0
  BY DEF LaunchTypeOK
<1>2. call \in [Tabs -> CreationCalls]
  BY DEF LaunchTypeOK, CreationCalls
<1>3. call[t].of \in 0 .. MaxLaunches
  BY <1>2 DEF CreationCalls
<1> QED
  BY <1>1, <1>3, BoundsAssumption DEF Launches

LEMMA InitCreationType == LaunchInit => LaunchTypeOK
<1> SUFFICES ASSUME LaunchInit PROVE LaunchTypeOK
  OBVIOUS
<1>1. call \in [Tabs -> CreationCalls]
  BY BoundsAssumption DEF LaunchInit, NoCall, CreationCalls
<1>2. shown \in [Tabs -> {"elsewhere", "measuring", "creating", "error", "session"}]
  BY DEF LaunchInit
<1>3. \A t \in Tabs : shown[t] # "creating" /\ call[t].at # "waiting"
  BY DEF LaunchInit, NoCall
<1>4. launch \in [Launches -> {"unused", "creating", "starting", "cut"} \cup Settled]
  BY DEF LaunchInit
<1>5. told \in [Tabs -> SUBSET Launches]
  BY DEF LaunchInit
<1>6. robbed \in BOOLEAN
  BY DEF LaunchInit
<1>7. table \in 0 .. MaxLaunches /\ restarts \in 0 .. MaxRestarts /\ table = 0
  BY BoundsAssumption DEF LaunchInit
<1> QED
  BY <1>1, <1>2, <1>3, <1>4, <1>5, <1>6, <1>7 DEF LaunchTypeOK, CreationCalls

(* Every step keeps the shapes; a page that shows that it is creating has  *)
(* a call, because a settled promise wakes it whatever the outcome.        *)
LEMMA NextCreationType == LaunchTypeOK /\ [LaunchNext]_launchVars => LaunchTypeOK'
<1> SUFFICES ASSUME LaunchTypeOK, [LaunchNext]_launchVars PROVE LaunchTypeOK'
  OBVIOUS
<1> USE BoundsAssumption
<1>1. ASSUME NEW t \in Tabs, Open(t) PROVE LaunchTypeOK'
  BY <1>1 DEF LaunchTypeOK, Open
<1>2. ASSUME NEW t \in Tabs, Leave(t) PROVE LaunchTypeOK'
  <2>1. shown' \in [Tabs -> {"elsewhere", "measuring", "creating", "error", "session"}]
    BY <1>2 DEF LaunchTypeOK, Leave
  <2>2. \A u \in Tabs : shown'[u] = "creating" => shown[u] = "creating"
    BY <1>2 DEF LaunchTypeOK, Leave
  <2>3. UNCHANGED <<call, launch, table, restarts, told, robbed>>
    BY <1>2 DEF Leave
  <2>4. \A u \in Tabs : /\ shown'[u] = "creating" => call'[u] # NoCall
                        /\ call'[u].at = "waiting" => call'[u].of # 0
    BY <2>2, <2>3 DEF LaunchTypeOK
  <2> QED
    BY <2>1, <2>3, <2>4 DEF LaunchTypeOK
<1>3. ASSUME NEW t \in Tabs, ReloadTab(t) PROVE LaunchTypeOK'
  BY <1>3 DEF LaunchTypeOK, ReloadTab, NoCall
<1>4. ASSUME NEW t \in Tabs, StartCreation(t) PROVE LaunchTypeOK'
  BY <1>4 DEF LaunchTypeOK, StartCreation, NoCall
<1>5. ASSUME NEW t \in Tabs, Settle(t) PROVE LaunchTypeOK'
  BY <1>5 DEF LaunchTypeOK, Settle, NoCall
<1>6. ASSUME NEW t \in Tabs, NetworkFails(t) PROVE LaunchTypeOK'
  BY <1>6 DEF LaunchTypeOK, NetworkFails, NoCall
<1>7. ASSUME NEW t \in Tabs, CreateSession(t) PROVE LaunchTypeOK'
  <2>1. UNCHANGED <<shown, restarts, told, robbed>>
    BY <1>7 DEF CreateSession
  <2>2. table' \in 0 .. MaxLaunches
    BY <1>7 DEF LaunchTypeOK, CreateSession, Launches
  <2>3. call' \in [Tabs -> CreationCalls]
    <3>1. call' = [call EXCEPT ![t] = [at |-> "waiting", of |-> table']]
      BY <1>7 DEF CreateSession
    <3>2. [at |-> "waiting", of |-> table'] \in CreationCalls
      BY <2>2 DEF CreationCalls
    <3> QED
      BY <3>1, <3>2 DEF LaunchTypeOK, CreationCalls
  <2>4. launch' \in [Launches -> {"unused", "creating", "starting", "cut"} \cup Settled]
    BY <1>7 DEF LaunchTypeOK, CreateSession
  <2>5. table' # 0 => launch'[table'] \notin {"unused", "cut"}
    BY <1>7 DEF LaunchTypeOK, CreateSession
  <2>6. \A u \in Tabs \ {t} : call'[u] = call[u]
    BY <1>7 DEF LaunchTypeOK, CreateSession
  <2>7. call'[t] = [at |-> "waiting", of |-> table'] /\ table' # 0
    BY <1>7 DEF LaunchTypeOK, CreateSession, Launches
  <2>8. call'[t] # NoCall /\ call'[t].of # 0
    BY <2>7 DEF NoCall
  <2>9. \A u \in Tabs : /\ shown'[u] = "creating" => call'[u] # NoCall
                        /\ call'[u].at = "waiting" => call'[u].of # 0
    BY <2>1, <2>6, <2>8 DEF LaunchTypeOK
  <2> QED
    BY <2>1, <2>2, <2>3, <2>4, <2>5, <2>9 DEF LaunchTypeOK, CreationCalls
<1>8. ASSUME NEW t \in Tabs, LaunchAwaited(t) PROVE LaunchTypeOK'
  <2>1. UNCHANGED <<shown, launch, restarts>>
    BY <1>8 DEF LaunchAwaited
  <2>2. robbed' \in BOOLEAN
    BY <1>8 DEF LaunchTypeOK, LaunchAwaited
  <2>3. table' \in {0, table}
    BY <1>8 DEF LaunchAwaited, Forget
  <2>4. /\ call' \in [Tabs -> CreationCalls]
        /\ \A u \in Tabs : /\ shown[u] = "creating" => call'[u] # NoCall
                           /\ call'[u].at = "waiting" => call'[u].of # 0
    BY <1>8 DEF LaunchTypeOK, LaunchAwaited, NoCall, CreationCalls
  <2>5. told' \in [Tabs -> SUBSET Launches]
    <3>1. call[t].of \in Launches
      BY <1>8, WaitsForLaunch DEF LaunchAwaited
    <3> QED
      BY <1>8, <3>1 DEF LaunchTypeOK, LaunchAwaited
  <2> QED
    BY <2>1, <2>2, <2>3, <2>4, <2>5 DEF LaunchTypeOK, CreationCalls
<1>9. ASSUME NEW n \in Launches, RecordCreated(n) \/ CommandSent(n) \/ LaunchFails(n)
      PROVE LaunchTypeOK'
  <2>1. UNCHANGED <<shown, call, table, restarts, told, robbed>>
    BY <1>9 DEF RecordCreated, CommandSent, LaunchFails
  <2>2. launch' \in [Launches -> {"unused", "creating", "starting", "cut"} \cup Settled]
    BY <1>9 DEF LaunchTypeOK, RecordCreated, CommandSent, LaunchFails, Settled
  <2>3. launch'[n] \notin {"unused", "cut"} /\ \A m \in Launches \ {n} : launch'[m] = launch[m]
    BY <1>9 DEF LaunchTypeOK, RecordCreated, CommandSent, LaunchFails
  <2>4. table # 0 => launch'[table] \notin {"unused", "cut"}
    BY <2>3 DEF LaunchTypeOK, Launches
  <2> QED
    BY <2>1, <2>2, <2>4 DEF LaunchTypeOK
<1>10. CASE GatewayRestart
  <2>1. UNCHANGED <<shown, told, robbed>> /\ table' = 0 /\ restarts' \in 0 .. MaxRestarts
    BY <1>10 DEF LaunchTypeOK, GatewayRestart
  <2>2. launch' \in [Launches -> {"unused", "creating", "starting", "cut"} \cup Settled]
    BY <1>10 DEF LaunchTypeOK, GatewayRestart
  <2>3. ASSUME NEW u \in Tabs
        PROVE  /\ call'[u] \in CreationCalls /\ call'[u].at # "waiting"
               /\ shown[u] = "creating" => call'[u] # NoCall
    <3>0. call \in [Tabs -> CreationCalls]
      BY DEF LaunchTypeOK, CreationCalls
    <3>1. call[u] \in CreationCalls /\ (shown[u] = "creating" => call[u] # NoCall)
      BY <3>0 DEF LaunchTypeOK
    <3>2. call'[u] = IF call[u].at = "waiting" THEN [call[u] EXCEPT !.at = "failed"]
                                               ELSE call[u]
      BY <1>10 DEF GatewayRestart
    <3> QED
      BY <3>1, <3>2 DEF CreationCalls, NoCall
  <2>4. call' \in [Tabs -> CreationCalls]
    BY <1>10, <2>3 DEF GatewayRestart
  <2> QED
    BY <2>1, <2>2, <2>3, <2>4 DEF LaunchTypeOK, CreationCalls
<1>11. CASE UNCHANGED launchVars
  BY <1>11 DEF LaunchTypeOK, launchVars
<1> QED
  BY <1>1, <1>2, <1>3, <1>4, <1>5, <1>6, <1>7, <1>8, <1>9, <1>10, <1>11 DEF LaunchNext

(* The launches, their table and what the tabs were told change only in    *)
(* the gateway's steps; the page's steps only begin and end calls.         *)
PageStep(t) == Open(t) \/ Leave(t) \/ ReloadTab(t) \/ StartCreation(t)
               \/ Settle(t) \/ NetworkFails(t)

LEMMA PageStepKeeps ==
  ASSUME SharedInv, NEW t \in Tabs, PageStep(t)
  PROVE  /\ AliveIsShared' /\ ToldIsForgotten' /\ RetryIsFresh'
<1>1. UNCHANGED <<launch, table, restarts, told, robbed>>
  BY DEF PageStep, Open, Leave, ReloadTab, StartCreation, Settle, NetworkFails
<1>2. \A u \in Tabs : call'[u].at = "waiting" => call'[u] = call[u]
  BY DEF PageStep, Open, Leave, ReloadTab, StartCreation, Settle, NetworkFails,
         SharedInv, LaunchTypeOK, NoCall
<1> QED
  BY <1>1, <1>2 DEF SharedInv, AliveIsShared, ToldIsForgotten, RetryIsFresh, Alive

(* A launch goes on: it was under the key, or the key was robbed.          *)
LEMMA LaunchStepKeeps ==
  ASSUME SharedInv, NEW n \in Launches, RecordCreated(n) \/ CommandSent(n) \/ LaunchFails(n)
  PROVE  /\ AliveIsShared' /\ ToldIsForgotten' /\ RetryIsFresh'
<1>1. UNCHANGED <<call, table, restarts, told, robbed>>
  BY DEF RecordCreated, CommandSent, LaunchFails
<1>2. launch[n] \in {"creating", "starting"}
  BY DEF RecordCreated, CommandSent, LaunchFails
<1>3. \A m \in Launches \ {n} : launch'[m] = launch[m]
  BY DEF RecordCreated, CommandSent, LaunchFails, SharedInv, LaunchTypeOK
<1>4. Alive' \subseteq Alive
  BY <1>2, <1>3 DEF Alive
<1>5. \A t \in Tabs : n \notin told[t] /\ told[t] \subseteq Launches
  BY <1>2 DEF SharedInv, LaunchTypeOK, ToldIsForgotten
<1>6. AliveIsShared'
  BY <1>1, <1>4 DEF SharedInv, AliveIsShared
<1>7. ToldIsForgotten'
  BY <1>1, <1>3, <1>5 DEF SharedInv, ToldIsForgotten
<1>8. RetryIsFresh'
  <2> SUFFICES ASSUME NEW t \in Tabs, call[t].at = "waiting", call[t].of \in told[t]
               PROVE  launch'[call[t].of] = "threw"
    BY <1>1 DEF RetryIsFresh
  <2> QED
    BY <1>3, <1>5 DEF SharedInv, RetryIsFresh
<1> QED
  BY <1>6, <1>7, <1>8

(* A call joins the launch under the key, or begins one with a number that *)
(* nobody was told of.                                                     *)
LEMMA CreateSessionKeeps ==
  ASSUME SharedInv, NEW t \in Tabs, CreateSession(t)
  PROVE  /\ AliveIsShared' /\ ToldIsForgotten' /\ RetryIsFresh'
<1>1. UNCHANGED <<restarts, told, robbed>>
  BY DEF CreateSession
<1>2. CASE /\ table # 0
           /\ call' = [call EXCEPT ![t] = [at |-> "waiting", of |-> table]]
           /\ UNCHANGED <<launch, table>>
  <2>1. table \notin told[t] \/ launch[table] = "threw"
    BY DEF SharedInv, ToldIsForgotten
  <2>2. RetryIsFresh'
    BY <1>1, <1>2, <2>1 DEF SharedInv, LaunchTypeOK, RetryIsFresh
  <2> QED
    BY <1>1, <1>2, <2>2 DEF SharedInv, AliveIsShared, ToldIsForgotten, Alive
<1>3. ASSUME table = 0, NEW n \in Launches, launch[n] = "unused",
             launch' = [launch EXCEPT ![n] = "creating"],
             table' = n,
             call' = [call EXCEPT ![t] = [at |-> "waiting", of |-> n]]
      PROVE  /\ AliveIsShared' /\ ToldIsForgotten' /\ RetryIsFresh'
  <2>1. \A u \in Tabs : n \notin told[u]
    BY <1>3 DEF SharedInv, ToldIsForgotten
  <2>2. Alive' = Alive \cup {n}
    BY <1>3 DEF Alive, SharedInv, LaunchTypeOK
  <2>3. AliveIsShared'
    BY <1>1, <1>3, <2>2 DEF SharedInv, AliveIsShared, Alive, Launches
  <2>4. ToldIsForgotten'
    BY <1>1, <1>3, <2>1 DEF SharedInv, LaunchTypeOK, ToldIsForgotten
  <2>5. RetryIsFresh'
    BY <1>1, <1>3, <2>1 DEF SharedInv, LaunchTypeOK, RetryIsFresh
  <2> QED
    BY <2>3, <2>4, <2>5
<1> QED
  BY <1>2, <1>3 DEF CreateSession

(* A waiter hears the outcome: the failure it is told of leaves the table. *)
LEMMA LaunchAwaitedKeeps ==
  ASSUME SharedInv, NEW t \in Tabs, LaunchAwaited(t)
  PROVE  /\ AliveIsShared' /\ ToldIsForgotten' /\ RetryIsFresh'
<1> DEFINE n == call[t].of
<1>1. /\ call[t].at = "waiting" /\ launch[n] \in Settled
      /\ UNCHANGED <<shown, launch, restarts>>
  BY DEF LaunchAwaited
<1>2. /\ call' = [call EXCEPT ![t].at = IF launch[n] = "started" THEN "ok" ELSE "failed"]
      /\ told' = [told EXCEPT ![t] = IF launch[n] = "started" THEN @ ELSE @ \cup {n}]
  BY DEF LaunchAwaited
<1>3. table' = table \/ table' = 0
  BY DEF LaunchAwaited, Forget
<1>4. AliveIsShared'
  <2>1. CASE launch[n] # "failed"
    BY <1>1, <2>1 DEF LaunchAwaited, SharedInv, AliveIsShared, Alive
  <2>2. CASE launch[n] = "failed"
    BY <1>1, <2>2 DEF LaunchAwaited, SharedInv, AliveIsShared, Alive, Forget, Launches
  <2> QED
    BY <2>1, <2>2
<1>5. ToldIsForgotten'
  <2> SUFFICES ASSUME NEW u \in Tabs, NEW m \in told'[u]
               PROVE  launch[m] = "threw" \/ (launch[m] = "failed" /\ table' # m)
    BY <1>1 DEF ToldIsForgotten
  <2>1. CASE m \in told[u]
    BY <1>3, <2>1 DEF SharedInv, LaunchTypeOK, ToldIsForgotten, Launches
  <2>2. CASE m \notin told[u]
    <3>1. m = n /\ launch[n] \in {"failed", "threw"}
      BY <1>1, <1>2, <2>2 DEF SharedInv, LaunchTypeOK, Settled
    <3>2. launch[n] = "failed" => table' = 0
      BY DEF LaunchAwaited, Forget
    <3>3. n # 0
      BY <1>1, WaitsForLaunch DEF SharedInv, Launches
    <3> QED
      BY <3>1, <3>2, <3>3
  <2> QED
    BY <2>1, <2>2
<1>6. RetryIsFresh'
  BY <1>1, <1>2 DEF SharedInv, LaunchTypeOK, RetryIsFresh
<1> QED
  BY <1>4, <1>5, <1>6

LEMMA RestartKeeps ==
  ASSUME SharedInv, GatewayRestart
  PROVE  /\ AliveIsShared' /\ ToldIsForgotten' /\ RetryIsFresh'
<1>1. restarts' > 0 /\ UNCHANGED told /\ table' = 0
  BY DEF GatewayRestart, SharedInv, LaunchTypeOK
<1>2. \A t \in Tabs : call'[t].at # "waiting"
  BY DEF GatewayRestart, SharedInv, LaunchTypeOK
<1>3. ASSUME NEW t \in Tabs, NEW m \in told[t]
      PROVE  m # 0 /\ launch'[m] = launch[m]
  <2>1. m \in Launches
    BY DEF SharedInv, LaunchTypeOK
  <2>2. launch[m] \in {"failed", "threw"}
    BY DEF SharedInv, ToldIsForgotten
  <2> QED
    BY <2>1, <2>2 DEF GatewayRestart, Launches
<1> QED
  BY <1>1, <1>2, <1>3 DEF SharedInv, AliveIsShared, ToldIsForgotten, RetryIsFresh

LEMMA InitShared == LaunchInit => SharedInv
<1> SUFFICES ASSUME LaunchInit PROVE SharedInv
  OBVIOUS
<1>1. LaunchTypeOK
  BY InitCreationType
<1> QED
  BY <1>1 DEF LaunchInit, SharedInv, AliveIsShared, ToldIsForgotten, RetryIsFresh, Alive, NoCall

LEMMA NextShared == SharedInv /\ [LaunchNext]_launchVars => SharedInv'
<1> SUFFICES ASSUME SharedInv, [LaunchNext]_launchVars PROVE SharedInv'
  OBVIOUS
<1>1. LaunchTypeOK'
  BY NextCreationType DEF SharedInv
<1>2. ASSUME NEW t \in Tabs, PageStep(t) \/ CreateSession(t) \/ LaunchAwaited(t)
      PROVE  /\ AliveIsShared' /\ ToldIsForgotten' /\ RetryIsFresh'
  BY <1>2, PageStepKeeps, CreateSessionKeeps, LaunchAwaitedKeeps
<1>3. ASSUME NEW n \in Launches, RecordCreated(n) \/ CommandSent(n) \/ LaunchFails(n)
      PROVE  /\ AliveIsShared' /\ ToldIsForgotten' /\ RetryIsFresh'
  BY <1>3, LaunchStepKeeps
<1>4. CASE UNCHANGED launchVars
  BY <1>4 DEF launchVars, SharedInv, LaunchTypeOK, AliveIsShared, ToldIsForgotten,
             RetryIsFresh, Alive
<1> QED
  BY <1>1, <1>2, <1>3, <1>4, RestartKeeps DEF LaunchNext, PageStep, SharedInv

LEMMA SharedInvariance == LaunchSpec => []SharedInv
  BY InitShared, NextShared, PTL DEF LaunchSpec

(* The pages, the calls and the launches keep their shape, and a page that *)
(* shows that it is creating a session has a call that will tell it more.  *)
THEOREM CreationTypeCorrect == LaunchSpec => []LaunchTypeOK
<1>1. SharedInv => LaunchTypeOK
  BY DEF SharedInv
<1> QED
  BY <1>1, SharedInvariance, PTL

(* However tabs, reloads, retries and launches interleave, one bootstrap   *)
(* id has one launch that makes a shell, until a waiter removes a launch   *)
(* that is not its own or the gateway restarts.                            *)
THEOREM LaunchesAreShared == LaunchSpec => []SharedLaunchIsSingle
<1>1. SharedInv => SharedLaunchIsSingle
  BY DEF SharedInv, LaunchTypeOK, AliveIsShared, SharedLaunchIsSingle, OneShellPerRequest
<1> QED
  BY <1>1, SharedInvariance, PTL

(* A tab that was told that a launch failed does not wait for that launch  *)
(* again, unless it threw.                                                 *)
THEOREM RetriesAreFresh == LaunchSpec => []RetryIsFresh
<1>1. SharedInv => RetryIsFresh
  BY DEF SharedInv
<1> QED
  BY <1>1, SharedInvariance, PTL

================================================================================
