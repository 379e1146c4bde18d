---------------------------- MODULE ConsoleTerminal ----------------------------
(***************************************************************************)
(* The terminal page of the browser Console: the connection that           *)
(* terminal-gateway.ts makes for a session, and the component              *)
(* terminal-view.tsx that owns it.  Every visit of a session runs an       *)
(* effect that calls connect(); leaving the page runs the effect's cleanup *)
(* while connect() may still be under way.  The component keeps its        *)
(* connection, its terminal and its session model in refs, and the router  *)
(* reuses the component when the next session's details are cached: then   *)
(* the handlers of the connection that was left still reach those refs.    *)
(*                                                                         *)
(* The gateway is modelled by what the page can observe of it.             *)
(***************************************************************************)
EXTENDS Integers, Sequences

CONSTANTS
  Sessions,   \* the sessions a user moves between
  Slots,      \* bound: connections that exist at one time
  MaxDrops    \* bound: connections lost to the network

ASSUME SlotsAssumption == Slots \in Nat \ {0} /\ MaxDrops \in Nat

VARIABLES
  shown,      \* the session the page shows, or "elsewhere"
  conn,       \* the hub connections, with the effect each belongs to
  inbox,      \* what the gateway has sent on each connection
  ref,        \* connectionRef of the component shown, 0 for null
  gone,       \* the session that sessionEnd says does not exist, if any
  latency,    \* what the page's header says of the connection
  probe,      \* the latency probe under way, over the page's connection
  existing,   \* the sessions the gateway has a record of
  drops       \* connections lost so far

vars == <<shown, conn, inbox, ref, gone, latency, probe, existing, drops>>

pageVars == <<shown, ref, gone, latency, probe>>
Conns == 1 .. Slots
Elsewhere == "elsewhere"

(* What the gateway sends: the end of the session (its exit or a start     *)
(* that failed), and the answer "ok", "gone" (session-not-found,           *)
(* session-expired) or "offline" (any other failure) to ReattachSession.   *)
(* The frames that clear the terminal and write to it change nothing else; *)
(* which connections can do so is the field "reaches".                     *)
Frames == {"exited", "ok", "gone", "offline"}

TypeOK ==
  /\ shown \in Sessions \cup {Elsewhere}
  /\ conn \in [Conns -> [session : Sessions \cup {Elsewhere},
                         isActive : BOOLEAN,
                         reaches : BOOLEAN,
                         connect : {"starting", "attaching", "resolved",
                                    "rejected", "handed", "orphan"},
                         link : {"starting", "up", "reconnecting", "closed",
                                 "stopped"},
                         invoke : {"idle", "sent", "served"},
                         attached : BOOLEAN]]
  /\ inbox \in [Conns -> Seq(Frames)]
  /\ ref \in 0 .. Slots
  /\ gone \in Sessions \cup {Elsewhere}
  /\ latency \in {"measuring", "live", "offline"}
  /\ probe \in {"none", "sent", "acked"}
  /\ existing \subseteq Sessions
  /\ drops \in 0 .. MaxDrops

(* A connection nobody needs any more: its slot can be taken again.        *)
Spent == [session |-> Elsewhere, isActive |-> FALSE, reaches |-> FALSE,
          connect |-> "handed", link |-> "stopped", invoke |-> "idle",
          attached |-> FALSE]

(* The hub connection that connect(sessionId, handlers) builds and starts. *)
Started(s) == [session |-> s, isActive |-> TRUE, reaches |-> TRUE,
               connect |-> "starting", link |-> "starting", invoke |-> "idle",
               attached |-> FALSE]

Init ==
  /\ shown = Elsewhere
  /\ conn = [c \in Conns |-> Spent]
  /\ inbox = [c \in Conns |-> <<>>]
  /\ ref = 0 /\ gone = Elsewhere /\ latency = "measuring" /\ probe = "none"
  /\ existing = Sessions
  /\ drops = 0

(* dispose() and connection.stop(): nothing more is heard on d, whatever   *)
(* the gateway still sends to it.                                          *)
Stopped(cs, d) ==
  [c \in Conns |-> IF c = d THEN [cs[c] EXCEPT !.link = "stopped",
                                               !.invoke = "idle",
                                               !.attached = FALSE,
                                               !.reaches = FALSE]
                            ELSE cs[c]]
Silenced(d) == [c \in Conns |-> IF c = d THEN <<>> ELSE inbox[c]]

Hears(c, frame) == inbox[c] # <<>> /\ Head(inbox[c]) = frame
Took(c) == [inbox EXCEPT ![c] = Tail(@)]

-------------------------------------------------------------------------------
(* Navigation.  The connect effect's cleanup, the other effects' cleanups, *)
(* and, when a session is shown next, a new connect().  The component is   *)
(* reused when it moves from one session straight to another whose details *)
(* an earlier visit has left in the query cache; otherwise a loading page  *)
(* replaces it for a moment, and its refs are gone.                        *)

(* Mutant of Left: the cleanup disposes of nothing.                        *)
LeftOpen(reused) ==
  [c \in Conns |-> [conn[c] EXCEPT !.isActive = FALSE, !.reaches = @ /\ reused]]

Left(reused) ==
  LET over(d) == [d EXCEPT !.isActive = FALSE, !.reaches = @ /\ reused]
      rest(d) == IF d.connect = "handed" /\ d.link = "stopped" THEN Spent ELSE d
  IN [c \in Conns |-> rest(over(Stopped(conn, ref)[c]))]

Navigated(to, reused) ==
  /\ shown' = to
  /\ ref' = 0
  /\ probe' = "none"
  /\ latency' = IF to = Elsewhere THEN "offline" ELSE "measuring"
  /\ gone' = IF reused THEN gone ELSE Elsewhere
  /\ UNCHANGED <<existing, drops>>

Show(s, reused) ==
  /\ s # shown
  /\ reused => shown # Elsewhere
  /\ Navigated(s, reused)
  /\ \E n \in Conns :
       /\ conn[n] = Spent /\ \A m \in 1 .. n - 1 : conn[m] # Spent
       /\ conn' = [Left(reused) EXCEPT ![n] = Started(s)]
       /\ inbox' = [Silenced(ref) EXCEPT ![n] = <<>>]

Leave ==
  /\ shown # Elsewhere
  /\ Navigated(Elsewhere, FALSE)
  /\ conn' = Left(FALSE)
  /\ inbox' = Silenced(ref)

(* isSessionGone: five seconds after the page learns that its session does *)
(* not exist any more it goes to the list of sessions.                     *)
IsSessionGone == gone = shown /\ shown # Elsewhere

Redirect == IsSessionGone /\ Leave

-------------------------------------------------------------------------------
(* connect(): start, then ReattachSession.                                 *)

Start(c) ==
  /\ conn[c].connect = "starting"
  /\ conn' = [conn EXCEPT ![c].connect = "attaching", ![c].link = "up",
                          ![c].invoke = "sent"]
  /\ UNCHANGED <<pageVars, existing, inbox, drops>>

StartFails(c) ==
  /\ conn[c].connect = "starting"
  /\ drops < MaxDrops
  /\ drops' = drops + 1
  /\ conn' = [Stopped(conn, c) EXCEPT ![c].connect = "rejected"]
  /\ UNCHANGED <<pageVars, existing, inbox>>

(* The answer to the first ReattachSession settles connect(); the answer   *)
(* to one that onreconnected made is looked at there, and a failure other  *)
(* than "gone" is ignored.                                                 *)
HearOk(c) ==
  /\ Hears(c, "ok")
  /\ inbox' = Took(c)
  /\ conn' = [conn EXCEPT
       ![c].invoke = "idle",
       ![c].connect = IF @ = "attaching" THEN "resolved" ELSE @]
  /\ UNCHANGED <<pageVars, existing, drops>>

HearOffline(c) ==
  /\ Hears(c, "offline")
  /\ IF conn[c].connect = "attaching"
     THEN /\ conn' = [Stopped(conn, c) EXCEPT ![c].connect = "rejected"]
          /\ inbox' = Silenced(c)
     ELSE /\ conn' = [conn EXCEPT ![c].invoke = "idle"]
          /\ inbox' = Took(c)
  /\ UNCHANGED <<pageVars, existing, drops>>

(* Mutant of Then: isActive is not looked at.                              *)
ThenUnchecked(c) ==
  /\ conn[c].connect = "resolved"
  /\ conn' = [conn EXCEPT ![c].connect = "handed"]
  /\ ref' = c /\ latency' = "measuring" /\ probe' = "none"
  /\ UNCHANGED <<shown, gone, inbox, existing, drops>>

(* Mutant of Then: the connection of an effect that is over is let be.     *)
ThenForgets(c) ==
  /\ conn[c].connect = "resolved"
  /\ conn' = [conn EXCEPT ![c].connect = "handed"]
  /\ IF conn[c].isActive
     THEN ref' = c /\ latency' = "measuring" /\ probe' = "none"
     ELSE UNCHANGED <<ref, latency, probe>>
  /\ UNCHANGED <<shown, gone, inbox, existing, drops>>

(* .then: the connection of an effect that is over is disposed of; any     *)
(* other becomes the page's, and its first latency probe is due.           *)
Then(c) ==
  /\ conn[c].connect = "resolved"
  /\ IF conn[c].isActive
     THEN /\ conn' = [conn EXCEPT ![c].connect = "handed"]
          /\ ref' = c
          /\ latency' = "measuring"
          /\ probe' = "none"
          /\ UNCHANGED inbox
     ELSE /\ conn' = [conn EXCEPT ![c] = Spent]
          /\ inbox' = Silenced(c)
          /\ UNCHANGED <<ref, latency, probe>>
  /\ UNCHANGED <<shown, gone, existing, drops>>

(* .catch: when connect() failed because the connection was lost during    *)
(* ReattachSession, nothing stops the hub connection, which reconnects.    *)
Catch(c) ==
  /\ conn[c].connect = "rejected"
  /\ conn' = [conn EXCEPT ![c] =
       CASE conn[c].link # "stopped" -> [@ EXCEPT !.connect = "orphan"]
         [] conn[c].link = "stopped" /\ conn[c].isActive ->
              [@ EXCEPT !.connect = "handed"]
         [] OTHER -> Spent]
  /\ latency' = IF conn[c].isActive THEN "offline" ELSE latency
  /\ UNCHANGED <<shown, ref, gone, probe, inbox, existing, drops>>

-------------------------------------------------------------------------------
(* The end of the session, as the handlers of c see it: onSessionExited,   *)
(* onSessionExpired (also for SessionStartFailed).  What they dispose of   *)
(* is the connection in the ref, whichever that is, if one is there.       *)

EndSeen(c, which) ==
  IF conn[c].reaches
  THEN /\ gone' = which
       /\ latency' = "offline"
       /\ ref' = 0
       /\ probe' = IF probe = "sent" THEN "none" ELSE probe
  ELSE UNCHANGED <<gone, latency, ref, probe>>

Disposed(c) == IF conn[c].reaches THEN ref ELSE 0

HearEnd(c) ==
  /\ Hears(c, "exited") /\ EndSeen(c, Elsewhere)
  /\ conn' = Stopped(conn, Disposed(c))
  /\ inbox' = [Silenced(Disposed(c)) EXCEPT
                 ![c] = IF c = Disposed(c) THEN <<>> ELSE Tail(inbox[c])]
  /\ UNCHANGED <<shown, existing, drops>>

(* Mutant of HearGone: the handler is called without the error code.       *)
HearGoneUntold(c) ==
  /\ Hears(c, "gone")
  /\ EndSeen(c, Elsewhere)
  /\ conn' = [Stopped(Stopped(conn, Disposed(c)), c) EXCEPT
                ![c].connect = IF @ = "attaching" THEN "resolved" ELSE @]
  /\ inbox' = [Silenced(Disposed(c)) EXCEPT ![c] = <<>>]
  /\ UNCHANGED <<shown, existing, drops>>

(* "gone": onSessionExpired, then connection.stop(); connect() answers     *)
(* with disconnectedConnection(), a connection that does nothing.          *)
HearGone(c) ==
  /\ Hears(c, "gone")
  /\ EndSeen(c, conn[c].session)
  /\ conn' = [Stopped(Stopped(conn, Disposed(c)), c) EXCEPT
                ![c].connect = IF @ = "attaching" THEN "resolved" ELSE @]
  /\ inbox' = [Silenced(Disposed(c)) EXCEPT ![c] = <<>>]
  /\ UNCHANGED <<shown, existing, drops>>

-------------------------------------------------------------------------------
(* Latency probes: one every fifteen seconds, settled once by the ack, by  *)
(* a failed call, by five seconds, or by the loss of the connection.       *)

(* Mutant of ProbeLatency: a failed call is not reported.                  *)
ProbeLatencyUncaught ==
  /\ ref # 0 /\ probe = "none"
  /\ CASE conn[ref].link = "stopped" -> latency' = "live" /\ UNCHANGED probe
       [] conn[ref].link = "up" /\ conn[ref].attached ->
            probe' = "sent" /\ UNCHANGED latency
       [] OTHER -> UNCHANGED <<latency, probe>>
  /\ UNCHANGED <<shown, ref, gone, conn, inbox, existing, drops>>

ProbeLatency ==
  /\ ref # 0 /\ probe = "none"
  /\ CASE conn[ref].link = "stopped" ->       \* disconnectedConnection()
            latency' = "live" /\ UNCHANGED probe
       [] conn[ref].link = "up" /\ conn[ref].attached ->
            probe' = "sent" /\ UNCHANGED latency
       [] OTHER -> latency' = "offline" /\ UNCHANGED probe
  /\ UNCHANGED <<shown, ref, gone, conn, inbox, existing, drops>>

LatencyProbeAck ==
  /\ probe = "sent"
  /\ probe' = "acked"
  /\ UNCHANGED <<shown, ref, gone, latency, conn, inbox, existing, drops>>

ProbeTimesOut ==
  /\ probe = "sent"
  /\ probe' = "none"
  /\ latency' = "offline"
  /\ UNCHANGED <<shown, ref, gone, conn, inbox, existing, drops>>

(* The continuation of measureLatency.                                     *)
ProbeSettles ==
  /\ probe = "acked"
  /\ probe' = "none"
  /\ latency' = "live"
  /\ UNCHANGED <<shown, ref, gone, conn, inbox, existing, drops>>

-------------------------------------------------------------------------------
(* The network.  A lost connection takes what was on its way with it;      *)
(* ReattachSession fails, which connect() reports and onreconnected        *)
(* ignores; pending probes are rejected.                                   *)

Drop(c) ==
  /\ conn[c].link = "up"
  /\ drops < MaxDrops
  /\ drops' = drops + 1
  /\ conn' = [conn EXCEPT
       ![c].link = "reconnecting",
       ![c].invoke = "idle", ![c].attached = FALSE,
       ![c].connect = IF @ = "attaching" THEN "rejected" ELSE @]
  /\ inbox' = [inbox EXCEPT ![c] = <<>>]
  /\ IF c = ref /\ probe = "sent"
     THEN probe' = "none" /\ latency' = "offline"
     ELSE UNCHANGED <<probe, latency>>
  /\ UNCHANGED <<shown, ref, gone, existing>>

Reconnect(c) ==
  /\ conn[c].link = "reconnecting"
  /\ conn' = [conn EXCEPT ![c].link = "up", ![c].invoke = "sent"]
  /\ UNCHANGED <<pageVars, inbox, existing, drops>>

(* withAutomaticReconnect makes four attempts and then closes.             *)
GiveUp(c) ==
  /\ conn[c].link = "reconnecting"
  /\ conn' = [conn EXCEPT ![c].link = "closed"]
  /\ UNCHANGED <<pageVars, inbox, existing, drops>>

-------------------------------------------------------------------------------
(* The gateway.  ReattachSession of a session whose shell is over starts a *)
(* new one, which fails when the worker is away; the frames of the replay  *)
(* precede the answer, and the session's own frames may come between.      *)

Send(c, f) == [inbox EXCEPT ![c] = Append(@, f)]

Attached(s, c, next) ==
  [d \in Conns |-> IF d = c THEN [conn[c] EXCEPT !.attached = TRUE, !.invoke = next]
                   ELSE [conn[d] EXCEPT !.attached = @ /\ conn[d].session # s]]

Attach(c) ==
  /\ conn[c].invoke = "sent" /\ conn[c].link = "up"
  /\ LET s == conn[c].session IN
     \/ /\ s \notin existing
        /\ inbox' = Send(c, "gone")
        /\ conn' = [conn EXCEPT ![c].invoke = "idle"]
     \/ /\ s \in existing
        /\ inbox' = Send(c, "offline")
        /\ conn' = Attached(s, c, "idle")
     \/ /\ s \in existing
        /\ conn' = Attached(s, c, "served")
        /\ UNCHANGED inbox
  /\ UNCHANGED <<pageVars, existing, drops>>

AnswerOk(c) ==
  /\ conn[c].invoke = "served" /\ conn[c].link = "up"
  /\ conn' = [conn EXCEPT ![c].invoke = "idle"]
  /\ inbox' = Send(c, "ok")
  /\ UNCHANGED <<pageVars, existing, drops>>

(* A session ends when its shell exits or cannot start; the connection     *)
(* attached to it is told and can use it no more.                          *)
SessionEnds(c) ==
  /\ conn[c].attached /\ conn[c].link = "up"
  /\ conn' = [conn EXCEPT ![c].attached = FALSE]
  /\ inbox' = Send(c, "exited")
  /\ UNCHANGED <<pageVars, existing, drops>>

Delete(s) ==
  /\ s \in existing
  /\ \A c \in Conns : conn[c].session = s => ~conn[c].attached
  /\ existing' = existing \ {s}
  /\ UNCHANGED <<pageVars, conn, inbox, drops>>

-------------------------------------------------------------------------------
Continues(c) == Start(c) \/ Then(c) \/ Catch(c)
HearsNext(c) == HearOk(c) \/ HearOffline(c) \/ HearEnd(c) \/ HearGone(c)
Serves(c) == Attach(c) \/ AnswerOk(c)

Next ==
  \/ \E s \in Sessions : \E reused \in BOOLEAN : Show(s, reused)
  \/ Leave
  \/ Redirect
  \/ \E c \in Conns : \/ Continues(c) \/ HearsNext(c) \/ Serves(c)
                      \/ StartFails(c) \/ Drop(c) \/ Reconnect(c) \/ GiveUp(c)
  \/ ProbeLatency \/ LatencyProbeAck \/ ProbeTimesOut \/ ProbeSettles
  \/ \E c \in Conns : SessionEnds(c)
  \/ \E s \in Sessions : Delete(s)

(* Fair is what does not depend on the user or on a failure: the answers   *)
(* of a connection that is up, callbacks, and the page's own timers.       *)
Fairness ==
  /\ \A c \in Conns : /\ WF_vars(Continues(c))
                      /\ WF_vars(HearsNext(c))
                      /\ WF_vars(Serves(c))
  /\ WF_vars(Redirect)
  /\ WF_vars(ProbeLatency)
  /\ WF_vars(ProbeSettles)

Spec == Init /\ [][Next]_vars /\ Fairness

-------------------------------------------------------------------------------
(* The connection the page types into, measures and disposes of belongs to *)
(* the visit under way: a connect() that ends after the user moved on does *)
(* not put the connection of the other session in its place.               *)
InstalledIsCurrent ==
  ref # 0 => /\ conn[ref].isActive
             /\ conn[ref].session = shown
             /\ conn[ref].connect = "handed"

(* A visit that is over gives its connection up, also when connect() ends  *)
(* after the user has left: it does not stay behind and take the session   *)
(* from other devices.  Except the orphan: a connection lost while         *)
(* connect() waits for ReattachSession is held by nobody and reconnects.   *)
LeftIsReleased ==
  \A c \in Conns :
    ~conn[c].isActive ~> \/ conn[c].link \in {"stopped", "closed"}
                         \/ conn[c].connect \in {"rejected", "orphan"}

(* Of the connections whose handlers reach the page and that can still     *)
(* hear something, only those whose connect() is not over can be of        *)
(* another session: once the page has taken or refused a connection, that  *)
(* session does not paint on, clear or end the page of the next one.       *)
OnlyPendingIntrude ==
  \A c \in Conns :
    conn[c].reaches /\ conn[c].connect = "handed" => conn[c].session = shown

(* A user who opens a session that does not exist is not left there: the   *)
(* page learns it and goes to the list, unless the answer is lost with the *)
(* connection, or a connection of another session reaches the page: its    *)
(* end would take the place of the notice.                                 *)
GoneIsLeft ==
  \A c \in Conns, s \in Sessions :
    (conn[c].isActive /\ conn[c].session = s /\ Hears(c, "gone"))
      ~> \/ shown # s
         \/ conn[c].link = "reconnecting"
         \/ \E d \in Conns : conn[d].reaches /\ conn[d].session # s

(* A page whose connection is lost says so: the probes fail, whatever was  *)
(* measured or acknowledged before the loss.                               *)
OutageIsShown ==
  \A c \in Conns :
    (ref = c /\ conn[c].link \in {"reconnecting", "closed"})
      ~> (latency = "offline" \/ ref # c \/ conn[c].link = "up")

================================================================================
