------------------------------ MODULE ConsoleAuth ------------------------------
(***************************************************************************)
(* Who is signed in to a tab of the browser Console.  auth-store.ts keeps  *)
(* the access token and renews it once a day; console-api.ts answers a 401 *)
(* with one renewal, shared by the requests of an API instance that wait   *)
(* for it, and one retry; main.tsx turns a query that still fails into a   *)
(* sign-out.  Timer, pages, sidebar and dialogs run into one another: any  *)
(* answer may come after another one has changed the token, or after the   *)
(* user has signed out or in.                                              *)
(***************************************************************************)
EXTENDS Integers

CONSTANTS
  Pollers,    \* queries that a page repeats, through the shared instance
  Sidebar,    \* queries of the sidebar, through an instance of its own
  Mutations,  \* what the user submits, through the shared instance
  Life,       \* how long an access token is valid, in time units
  Period      \* REFRESH_INTERVAL_MS, in the same units

ASSUME TimeAssumption == Life \in Nat /\ Period \in Nat /\ 0 < Period /\ Period < Life

VARIABLES
  page,       \* behind the sign-in guard, or at the sign-in form
  store,      \* the token in the store, as the time it has left
  timer,      \* refreshTimer, as the time until it fires
  timerCall,  \* the renewal that the timer has sent
  refresh,    \* refreshPromise of each API instance
  request,    \* the requests of the pages
  login,      \* the form's request
  missed,     \* history: a renewal failed, or came late
  forced      \* history: a failing request has signed the user out

vars == <<page, store, timer, timerCall, refresh, request, login, missed, forced>>

Requests == Pollers \cup Sidebar \cup Mutations
Apis == {"shared", "sidebar"}
ApiOf(r) == IF r \in Sidebar THEN "sidebar" ELSE "shared"

NoToken == -1
Off == -1

(* What a call carries: a token the gateway accepts, or one it does not.   *)
Bearers == {"valid", "refused"}
Bearer == IF store > 0 THEN "valid" ELSE "refused"

(* A request is idle, under way with its token, waits for a renewal, or is *)
(* under way again with the new token.  A refreshPromise is none, a call   *)
(* under way, or "empty": resolved without a token and never cleared.      *)
TypeOK ==
  /\ page \in {"app", "sign-in"}
  /\ store \in NoToken .. Life
  /\ timer \in Off .. Period
  /\ timerCall \in {"none"} \cup Bearers
  /\ refresh \in [Apis -> {"none", "empty"} \cup Bearers]
  /\ request \in [Requests -> {"idle", "waiting", "retried"} \cup Bearers]
  /\ login \in {"idle", "sent", "captcha"}
  /\ missed \in BOOLEAN /\ forced \in BOOLEAN
  /\ timer = Off <=> store = NoToken
  /\ \A r \in Requests : request[r] = "waiting" => refresh[ApiOf(r)] \in Bearers

Init ==
  /\ page = "sign-in" /\ store = NoToken /\ timer = Off /\ timerCall = "none"
  /\ refresh = [a \in Apis |-> "none"]
  /\ request = [r \in Requests |-> "idle"]
  /\ login = "idle"
  /\ missed = FALSE /\ forced = FALSE

(* Mutant of SetAccessToken: the running timer is kept, or none is.        *)
SetAccessTokenOnly(t) == store' = t /\ timer' = IF t = NoToken THEN Off ELSE timer

SetAccessToken(t) == store' = t /\ timer' = Period

(* Mutant of Reset: the interval goes on firing.                           *)
ResetStoreOnly == store' = NoToken /\ UNCHANGED timer

Reset == store' = NoToken /\ timer' = Off

-------------------------------------------------------------------------------
(* The form: password or code, the captcha that the gateway may ask for,   *)
(* and the return from an OAuth provider, which is a new page load.        *)

Submit ==
  /\ page = "sign-in" /\ login = "idle"
  /\ login' = "sent"
  /\ UNCHANGED <<page, store, timer, timerCall, refresh, request, missed, forced>>

LoginAccepted ==
  /\ login = "sent"
  /\ login' = "idle"
  /\ SetAccessToken(Life)
  /\ page' = "app"
  /\ UNCHANGED <<timerCall, refresh, request, missed, forced>>

LoginRejected ==
  /\ login = "sent"
  /\ login' \in IF page = "sign-in" THEN {"idle", "captcha"} ELSE {"idle"}
  /\ UNCHANGED <<page, store, timer, timerCall, refresh, request, missed, forced>>

CaptchaCloses ==
  /\ login = "captcha"
  /\ login' \in {"sent", "idle"}
  /\ UNCHANGED <<page, store, timer, timerCall, refresh, request, missed, forced>>

(* The page is loaded anew: no call of the old page is heard of again, and *)
(* the token is what the cookie holds, which lasts as long as the token    *)
(* and which another tab may have renewed or removed.                      *)
Load(t) ==
  /\ IF t = NoToken THEN Reset ELSE SetAccessToken(t)
  /\ page' = IF t = NoToken THEN "sign-in" ELSE "app"
  /\ timerCall' = "none" /\ login' = "idle"
  /\ refresh' = [a \in Apis |-> "none"]
  /\ request' = [r \in Requests |-> "idle"]
  /\ UNCHANGED forced

Reload ==
  \E t \in {store, NoToken, Life} \ {0} :
    /\ Load(t)
    /\ missed' = (missed \/ t = store)

OAuthReturns == page = "sign-in" /\ Load(Life) /\ UNCHANGED missed

SignOut ==
  /\ page = "app"
  /\ Reset
  /\ page' = "sign-in"
  /\ UNCHANGED <<timerCall, refresh, request, login, missed, forced>>

(* beforeLoad of the two routes, when the user navigates.                  *)
Navigate ==
  /\ page' = IF store = NoToken THEN "sign-in" ELSE "app"
  /\ page' # page
  /\ login' = IF page = "sign-in" /\ login = "captcha" THEN "idle" ELSE login
  /\ UNCHANGED <<store, timer, timerCall, refresh, request, missed, forced>>

-------------------------------------------------------------------------------
(* request() and requestVoid() of console-api.ts.                          *)

Send(r) ==
  /\ page = "app" /\ request[r] = "idle"
  /\ request' = [request EXCEPT ![r] = Bearer]
  /\ UNCHANGED <<page, store, timer, timerCall, refresh, login, missed, forced>>

(* An answer, or a failure that is not a 401.                              *)
Answered(r) ==
  /\ request[r] \in {"valid", "retried"}
  /\ request' = [request EXCEPT ![r] = "idle"]
  /\ UNCHANGED <<page, store, timer, timerCall, refresh, login, missed, forced>>

(* Mutant of Fail: the query cache does not hear of the error.             *)
FailQuietly(rs) == Reset /\ forced' = TRUE /\ UNCHANGED <<page, login>>

(* createConsoleApiError calls onUnauthorized; the query cache resets once *)
(* more and navigates, which a mutation does not.                          *)
Fail(rs) ==
  /\ Reset
  /\ forced' = TRUE
  /\ IF rs \subseteq Mutations
     THEN UNCHANGED <<page, login>>
     ELSE /\ page' = "sign-in"
          /\ UNCHANGED login

(* A 401 joins the renewal under way or starts one.  Without a token the   *)
(* renewal is over before refreshPromise is assigned: its finally block    *)
(* clears nothing, and the instance never asks again.                      *)
Unauthorized(r) ==
  LET a == ApiOf(r) IN
  /\ request[r] = "refused"
  /\ IF refresh[a] \in Bearers \/ (refresh[a] = "none" /\ store # NoToken)
     THEN /\ request' = [request EXCEPT ![r] = "waiting"]
          /\ refresh' = [refresh EXCEPT ![a] = IF @ = "none" THEN Bearer ELSE @]
          /\ UNCHANGED <<page, store, timer, login, forced>>
     ELSE /\ request' = [request EXCEPT ![r] = "idle"]
          /\ refresh' = [refresh EXCEPT ![a] = "empty"]
          /\ Fail({r})
  /\ UNCHANGED <<timerCall, missed>>

Waiting(a) == {r \in Requests : request[r] = "waiting" /\ ApiOf(r) = a}

(* Mutant of Resume: only one of the waiting requests goes on.             *)
ResumeOne(rs, next) ==
  rs # {} => \E q \in rs : request' = [request EXCEPT ![q] = next]

Resume(rs, next) ==
  request' = [r \in Requests |-> IF r \in rs THEN next ELSE request[r]]

RefreshOk(a) ==
  /\ refresh[a] = "valid"
  /\ refresh' = [refresh EXCEPT ![a] = "none"]
  /\ SetAccessToken(Life)
  /\ Resume(Waiting(a), "retried")
  /\ UNCHANGED <<page, timerCall, login, missed, forced>>

RefreshFails(a) ==
  /\ refresh[a] \in Bearers
  /\ refresh' = [refresh EXCEPT ![a] = "none"]
  /\ Resume(Waiting(a), "idle")
  /\ Fail(Waiting(a))
  /\ missed' = (missed \/ refresh[a] = "valid")
  /\ UNCHANGED timerCall

-------------------------------------------------------------------------------
(* refreshToken() of auth-store.ts, and the passage of time.               *)

TimerFires ==
  /\ timer = 0
  /\ timer' = Period
  /\ timerCall' = Bearer
  /\ UNCHANGED <<page, store, refresh, request, login, missed, forced>>

TimerOk ==
  /\ timerCall = "valid"
  /\ timerCall' = "none"
  /\ SetAccessToken(Life)
  /\ UNCHANGED <<page, refresh, request, login, missed, forced>>

TimerFails ==
  /\ timerCall # "none"
  /\ timerCall' = "none"
  /\ missed' = (missed \/ timerCall = "valid")
  /\ UNCHANGED <<page, store, timer, refresh, request, login, forced>>

(* Time passes in units that are long against any call.                    *)
Aged == IF store > 0 THEN store - 1 ELSE store
Quiet ==
  /\ timerCall = "none"
  /\ \A a \in Apis : refresh[a] \in {"none", "empty"}
  /\ \A r \in Requests : request[r] = "idle"
  /\ login # "sent"

Tick ==
  /\ Quiet /\ timer # 0 /\ store # NoToken
  /\ store' = Aged
  /\ timer' = timer - 1
  /\ UNCHANGED <<page, timerCall, refresh, request, login, missed, forced>>

(* The computer sleeps: timers do not run, tokens expire.                  *)
Sleep ==
  /\ Quiet /\ store > 0
  /\ store' = Aged
  /\ missed' = TRUE
  /\ UNCHANGED <<page, timer, timerCall, refresh, request, login, forced>>

-------------------------------------------------------------------------------
Handles(r) == Answered(r) \/ Unauthorized(r)
Renews(a) == RefreshOk(a) \/ RefreshFails(a)

Next ==
  \/ Submit \/ LoginAccepted \/ LoginRejected \/ CaptchaCloses
  \/ Reload \/ OAuthReturns \/ SignOut \/ Navigate
  \/ \E r \in Requests : Send(r) \/ Handles(r)
  \/ \E a \in Apis : Renews(a)
  \/ TimerFires \/ TimerOk \/ TimerFails
  \/ Tick \/ Sleep

(* A fetch ends, with an answer or an error; an overdue timer fires; the   *)
(* dashboard repeats its queries every ten seconds.  Nothing is assumed of *)
(* the user, or of what the answers say.                                   *)
Fairness ==
  /\ \A r \in Requests : WF_vars(Handles(r))
  /\ \A a \in Apis : WF_vars(Renews(a))
  /\ WF_vars(TimerFires)
  /\ WF_vars(TimerOk \/ TimerFails)
  /\ \A r \in Pollers : WF_vars(Send(r))

Spec == Init /\ [][Next]_vars /\ Fairness

-------------------------------------------------------------------------------
(* A user who works on stays signed in: a request signs the user out only  *)
(* after a renewal has failed, or has come late because the page was       *)
(* loaded anew or the computer slept.  No order of timers, renewals,       *)
(* sign-outs and late answers lets a token run out otherwise.              *)
ForcedOutHasCause == forced => missed

(* A request ends, also when it meets a renewal that others started, when  *)
(* the renewal fails, and when the user signs out in between.              *)
RequestsSettle == \A r \in Requests : request[r] # "idle" ~> request[r] = "idle"

(* A dashboard without a usable token does not stay on the screen: it goes *)
(* to the sign-in form, or gets a token again.                             *)
ExpiryIsNoticed == (page = "app" /\ store <= 0) ~> (page = "sign-in" \/ store > 0)

================================================================================
