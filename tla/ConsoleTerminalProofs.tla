------------------------- MODULE ConsoleTerminalProofs -------------------------
(***************************************************************************)
(* Theorems about ConsoleTerminal, for any sessions, any number of         *)
(* connections and any number of losses.                                   *)
(*                                                                         *)
(* InstalledIsCurrent and OnlyPendingIntrude hold together, with four      *)
(* facts more: an effect that is active is the one of the session shown,   *)
(* there is at most one, a connection that was stopped reaches nothing,    *)
(* and a connection that was taken and still reaches the page is the one   *)
(* in the ref.                                                             *)
(***************************************************************************)
EXTENDS ConsoleTerminal, SequenceTheorems, TLAPS

Connections == [session : Sessions \cup {Elsewhere},
                isActive : BOOLEAN,
                reaches : BOOLEAN,
                connect : {"starting", "attaching", "resolved",
                           "rejected", "handed", "orphan"},
                link : {"starting", "up", "reconnecting", "closed", "stopped"},
                invoke : {"idle", "sent", "served"},
                attached : BOOLEAN]

ConnType == conn \in [Conns -> Connections]
InboxType == inbox \in [Conns -> Seq(Frames)]
PageType ==
  /\ shown \in Sessions \cup {Elsewhere}
  /\ ref \in 0 .. Slots
  /\ gone \in Sessions \cup {Elsewhere}
  /\ latency \in {"measuring", "live", "offline"}
  /\ probe \in {"none", "sent", "acked"}
RestType == existing \subseteq Sessions /\ drops \in 0 .. MaxDrops

LEMMA TypeParts ==
  /\ TypeOK <=> ConnType /\ InboxType /\ PageType /\ RestType
  /\ TypeOK' <=> ConnType' /\ InboxType' /\ PageType' /\ RestType'
BY DEF TypeOK, ConnType, Connections, InboxType, PageType, RestType

-------------------------------------------------------------------------------
(* What the helpers return.                                                *)

LEMMA SpentType == Spent \in Connections
BY DEF Spent, Connections

LEMMA StartedType == ASSUME NEW s \in Sessions PROVE Started(s) \in Connections
BY DEF Started, Connections

LEMMA StoppedType ==
  ASSUME NEW cs \in [Conns -> Connections], NEW d
  PROVE  Stopped(cs, d) \in [Conns -> Connections]
<1> DEFINE r(c) == IF c = d THEN [cs[c] EXCEPT !.link = "stopped", !.invoke = "idle",
                                           !.attached = FALSE, !.reaches = FALSE]
                          ELSE cs[c]
<1>1. ASSUME NEW c \in Conns PROVE r(c) \in Connections
  <2>1. cs[c] \in Connections
    OBVIOUS
  <2> QED
    BY <2>1 DEF Connections
<1>2. Stopped(cs, d) = [c \in Conns |-> r(c)]
  BY DEF Stopped
<1> HIDE DEF r
<1> QED
  BY <1>1, <1>2

LEMMA LeftType == ASSUME ConnType, NEW reused \in BOOLEAN PROVE Left(reused) \in [Conns -> Connections]
<1> DEFINE over(d) == [d EXCEPT !.isActive = FALSE, !.reaches = @ /\ reused]
           rest(d) == IF d.connect = "handed" /\ d.link = "stopped" THEN Spent ELSE d
<1>1. Left(reused) = [c \in Conns |-> rest(over(Stopped(conn, ref)[c]))]
  BY DEF Left
<1>2. Stopped(conn, ref) \in [Conns -> Connections]
  BY StoppedType DEF ConnType
<1>3. ASSUME NEW d \in Connections PROVE over(d) \in Connections
  BY DEF Connections
<1>4. ASSUME NEW d \in Connections PROVE rest(d) \in Connections
  BY SpentType
<1> HIDE DEF over, rest
<1> QED
  BY <1>1, <1>2, <1>3, <1>4

LEMMA SilencedType == ASSUME InboxType, NEW d PROVE Silenced(d) \in [Conns -> Seq(Frames)]
BY DEF InboxType, Silenced

LEMMA TookType ==
  ASSUME InboxType, NEW c \in Conns, NEW f, Hears(c, f)
  PROVE  Took(c) \in [Conns -> Seq(Frames)] /\ Tail(inbox[c]) \in Seq(Frames)
<1>1. inbox[c] \in Seq(Frames) /\ inbox[c] # <<>>
  BY DEF InboxType, Hears
<1>2. Tail(inbox[c]) \in Seq(Frames)
  BY <1>1
<1> QED
  BY <1>2 DEF InboxType, Took

LEMMA SendType ==
  ASSUME InboxType, NEW c \in Conns, NEW f \in Frames
  PROVE  Send(c, f) \in [Conns -> Seq(Frames)]
<1>1. Append(inbox[c], f) \in Seq(Frames)
  BY DEF InboxType
<1> QED
  BY <1>1 DEF InboxType, Send

-------------------------------------------------------------------------------
(* Type correctness, by the part of the state that a step changes.         *)

LEMMA NavigationTypes ==
  ASSUME TypeOK,
         (\E s \in Sessions : \E reused \in BOOLEAN : Show(s, reused)) \/ Leave \/ Redirect
  PROVE  TypeOK'
<1> USE TypeParts
<1>1. ASSUME NEW s \in Sessions, NEW reused \in BOOLEAN, Show(s, reused) PROVE TypeOK'
  <2>1. PICK n \in Conns : /\ conn' = [Left(reused) EXCEPT ![n] = Started(s)]
                          /\ inbox' = [Silenced(ref) EXCEPT ![n] = <<>>]
    BY <1>1 DEF Show
  <2>2. ConnType'
    BY <2>1, LeftType, StartedType DEF ConnType
  <2>3. InboxType'
    BY <2>1, SilencedType DEF InboxType
  <2>4. PageType' /\ RestType'
    BY <1>1, SlotsAssumption DEF Show, Navigated, PageType, RestType
  <2> QED
    BY <2>2, <2>3, <2>4
<1>2. CASE Leave
  <2>1. ConnType'
    BY <1>2, LeftType DEF Leave, ConnType
  <2>2. InboxType'
    BY <1>2, SilencedType DEF Leave, InboxType
  <2>3. PageType' /\ RestType'
    BY <1>2, SlotsAssumption DEF Leave, Navigated, PageType, RestType
  <2> QED
    BY <2>1, <2>2, <2>3
<1> QED
  BY <1>1, <1>2 DEF Redirect

LEMMA ConnectTypes ==
  ASSUME TypeOK, NEW c \in Conns,
         Start(c) \/ StartFails(c) \/ Then(c) \/ Catch(c) \/ Reconnect(c) \/ GiveUp(c) \/ Drop(c)
  PROVE  TypeOK'
<1> USE TypeParts
<1>0. conn[c] \in Connections
  BY DEF ConnType
<1>1. CASE Start(c) \/ Reconnect(c) \/ GiveUp(c)
  <2>1. \E r \in Connections : conn' = [conn EXCEPT ![c] = r]
    <3>1. [conn[c] EXCEPT !.connect = "attaching", !.link = "up", !.invoke = "sent"]
            \in Connections
      BY <1>0 DEF Connections
    <3>2. [conn[c] EXCEPT !.link = "up", !.invoke = "sent"] \in Connections
      BY <1>0 DEF Connections
    <3>3. [conn[c] EXCEPT !.link = "closed"] \in Connections
      BY <1>0 DEF Connections
    <3>4. CASE Start(c)
      BY <3>1, <3>4 DEF Start
    <3>5. CASE Reconnect(c)
      BY <3>2, <3>5 DEF Reconnect
    <3>6. CASE GiveUp(c)
      BY <3>3, <3>6 DEF GiveUp
    <3> QED
      BY <1>1, <3>4, <3>5, <3>6
  <2>2. ConnType'
    BY <2>1 DEF ConnType
  <2> QED
    BY <1>1, <2>2 DEF Start, Reconnect, GiveUp, pageVars, InboxType, PageType, RestType
<1>2. CASE StartFails(c)
  <2>1. ConnType'
    <3>1. Stopped(conn, c)[c] \in Connections
      BY StoppedType DEF ConnType
    <3>2. [Stopped(conn, c)[c] EXCEPT !.connect = "rejected"] \in Connections
      BY <3>1 DEF Connections
    <3> QED
      BY <1>2, <3>2, StoppedType DEF StartFails, ConnType
  <2> QED
    BY <1>2, <2>1, SlotsAssumption DEF StartFails, pageVars, InboxType, PageType, RestType
<1>3. CASE Then(c)
  <2>1. ConnType'
    BY <1>3, SpentType DEF Then, ConnType, Connections
  <2>2. InboxType'
    BY <1>3, SilencedType DEF Then, InboxType
  <2>3. PageType' /\ RestType'
    BY <1>3 DEF Then, PageType, RestType, Conns
  <2> QED
    BY <2>1, <2>2, <2>3
<1>4. CASE Catch(c)
  <2>1. ConnType'
    BY <1>4, SpentType DEF Catch, ConnType, Connections
  <2> QED
    BY <1>4, <2>1 DEF Catch, InboxType, PageType, RestType
<1>5. CASE Drop(c)
  <2>1. ConnType'
    <3>1. [conn[c] EXCEPT !.link = "reconnecting", !.invoke = "idle", !.attached = FALSE,
                          !.connect = IF @ = "attaching" THEN "rejected" ELSE @]
            \in Connections
      BY <1>0 DEF Connections
    <3> QED
      BY <1>5, <3>1 DEF Drop, ConnType
  <2>2. InboxType'
    BY <1>5 DEF Drop, InboxType
  <2>3. PageType' /\ RestType'
    BY <1>5, SlotsAssumption DEF Drop, PageType, RestType
  <2> QED
    BY <2>1, <2>2, <2>3
<1> QED
  BY <1>1, <1>2, <1>3, <1>4, <1>5

LEMMA EndSeenTypes ==
  ASSUME PageType, NEW c, NEW which \in Sessions \cup {Elsewhere},
         EndSeen(c, which), UNCHANGED shown
  PROVE  PageType'
BY SlotsAssumption DEF EndSeen, PageType

LEMMA HearTypes ==
  ASSUME TypeOK, NEW c \in Conns, HearsNext(c)
  PROVE  TypeOK'
<1> USE TypeParts
<1>0. conn \in [Conns -> Connections] /\ conn[c] \in Connections
  BY DEF ConnType
<1>1. CASE HearOk(c)
  <2>1. ConnType'
    <3> DEFINE r == [conn[c] EXCEPT !.invoke = "idle",
                       !.connect = IF @ = "attaching" THEN "resolved" ELSE @]
    <3>1. r \in Connections
      BY <1>0 DEF Connections
    <3>2. conn' = [conn EXCEPT ![c] = r]
      BY <1>0, <1>1 DEF HearOk
    <3> HIDE DEF r
    <3> QED
      BY <1>0, <3>1, <3>2 DEF ConnType
  <2>2. InboxType'
    BY <1>1, TookType DEF HearOk, InboxType
  <2> QED
    BY <1>1, <2>1, <2>2 DEF HearOk, pageVars, PageType, RestType
<1>2. CASE HearOffline(c)
  <2>1. ConnType'
    <3>1. Stopped(conn, c) \in [Conns -> Connections]
      BY <1>0, StoppedType
    <3>2. /\ [Stopped(conn, c)[c] EXCEPT !.connect = "rejected"] \in Connections
          /\ [conn[c] EXCEPT !.invoke = "idle"] \in Connections
      BY <1>0, <3>1 DEF Connections
    <3>3. \/ conn' = [Stopped(conn, c) EXCEPT ![c] =
                        [Stopped(conn, c)[c] EXCEPT !.connect = "rejected"]]
          \/ conn' = [conn EXCEPT ![c] = [conn[c] EXCEPT !.invoke = "idle"]]
      BY <1>0, <1>2, <3>1 DEF HearOffline
    <3> QED
      BY <1>0, <3>1, <3>2, <3>3 DEF ConnType
  <2>2. InboxType'
    BY <1>2, TookType, SilencedType DEF HearOffline, InboxType
  <2> QED
    BY <1>2, <2>1, <2>2 DEF HearOffline, pageVars, PageType, RestType
<1>3. CASE HearEnd(c)
  <2>1. ConnType'
    BY <1>3, StoppedType DEF HearEnd, ConnType
  <2>2. Tail(inbox[c]) \in Seq(Frames)
    BY <1>3, TookType DEF HearEnd
  <2>3. InboxType'
    BY <1>3, <2>2, SilencedType DEF HearEnd, InboxType
  <2>4. PageType'
    BY <1>3, EndSeenTypes DEF HearEnd
  <2> QED
    BY <1>3, <2>1, <2>3, <2>4 DEF HearEnd, RestType
<1>4. CASE HearGone(c)
  <2> DEFINE cs == Stopped(Stopped(conn, Disposed(c)), c)
             r == [cs[c] EXCEPT !.connect = IF @ = "attaching" THEN "resolved" ELSE @]
  <2>1. cs \in [Conns -> Connections]
    BY <1>0, StoppedType
  <2>2. ConnType'
    <3>1. conn' = [cs EXCEPT ![c] = r]
      BY <1>4, <2>1 DEF HearGone
    <3> HIDE DEF cs
    <3>2. r \in Connections
      BY <2>1 DEF Connections
    <3> HIDE DEF r
    <3> QED
      BY <2>1, <3>1, <3>2 DEF ConnType
  <2>3. InboxType'
    BY <1>4, SilencedType DEF HearGone, InboxType
  <2>4. conn[c].session \in Sessions \cup {Elsewhere}
    BY <1>0 DEF Connections
  <2>5. PageType'
    BY <1>4, <2>4, EndSeenTypes DEF HearGone
  <2> QED
    BY <1>4, <2>2, <2>3, <2>5 DEF HearGone, RestType
<1> QED
  BY <1>1, <1>2, <1>3, <1>4 DEF HearsNext

LEMMA ProbeTypes ==
  ASSUME TypeOK, ProbeLatency \/ LatencyProbeAck \/ ProbeTimesOut \/ ProbeSettles
  PROVE  TypeOK'
BY TypeParts DEF ProbeLatency, LatencyProbeAck, ProbeTimesOut, ProbeSettles,
                 ConnType, InboxType, PageType, RestType

LEMMA AttachedType ==
  ASSUME ConnType, NEW s, NEW c \in Conns, NEW next \in {"idle", "served"}
  PROVE  Attached(s, c, next) \in [Conns -> Connections]
<1> DEFINE r(d) == IF d = c THEN [conn[c] EXCEPT !.attached = TRUE, !.invoke = next]
                   ELSE [conn[d] EXCEPT !.attached = @ /\ conn[d].session # s]
<1>1. ASSUME NEW d \in Conns PROVE r(d) \in Connections
  <2>1. conn[c] \in Connections /\ conn[d] \in Connections
    BY DEF ConnType
  <2>2. [conn[c] EXCEPT !.attached = TRUE, !.invoke = next] \in Connections
    BY <2>1 DEF Connections
  <2> DEFINE b == conn[d].attached /\ conn[d].session # s
  <2>3. b \in BOOLEAN
    OBVIOUS
  <2> HIDE DEF b
  <2>4. [conn[d] EXCEPT !.attached = b] \in Connections
    BY <2>1, <2>3 DEF Connections
  <2> QED
    BY <2>2, <2>4 DEF b
<1>2. Attached(s, c, next) = [d \in Conns |-> r(d)]
  BY DEF Attached
<1> HIDE DEF r
<1> QED
  BY <1>1, <1>2

LEMMA GatewayTypes ==
  ASSUME TypeOK, NEW c \in Conns, Serves(c) \/ SessionEnds(c)
  PROVE  TypeOK'
<1> USE TypeParts
<1>0. conn \in [Conns -> Connections] /\ conn[c] \in Connections
  BY DEF ConnType
<1>3. /\ [conn[c] EXCEPT !.invoke = "idle"] \in Connections
      /\ [conn[c] EXCEPT !.attached = FALSE] \in Connections
  BY <1>0 DEF Connections
<1>1. CASE Attach(c)
  <2>1. ConnType'
    <3>1. \/ conn' = [conn EXCEPT ![c] = [conn[c] EXCEPT !.invoke = "idle"]]
          \/ \E next \in {"idle", "served"} :
               conn' = Attached(conn[c].session, c, next)
      BY <1>1 DEF Attach
    <3> QED
      BY <1>0, <1>3, <3>1, AttachedType DEF ConnType
  <2>2. InboxType'
    BY <1>1, SendType DEF Attach, InboxType, Frames
  <2> QED
    BY <1>1, <2>1, <2>2 DEF Attach, pageVars, PageType, RestType
<1>2. CASE AnswerOk(c) \/ SessionEnds(c)
  <2>1. ConnType'
    <3>1. \/ conn' = [conn EXCEPT ![c] = [conn[c] EXCEPT !.invoke = "idle"]]
          \/ conn' = [conn EXCEPT ![c] = [conn[c] EXCEPT !.attached = FALSE]]
      BY <1>2 DEF AnswerOk, SessionEnds
    <3> QED
      BY <1>0, <1>3, <3>1 DEF ConnType
  <2>2. InboxType'
    BY <1>2, SendType DEF AnswerOk, SessionEnds, InboxType, Frames
  <2> QED
    BY <1>2, <2>1, <2>2 DEF AnswerOk, SessionEnds, pageVars, PageType, RestType
<1> QED
  BY <1>1, <1>2 DEF Serves

LEMMA NextTypes == TypeOK /\ [Next]_vars => TypeOK'
<1> SUFFICES ASSUME TypeOK, [Next]_vars PROVE TypeOK'
  OBVIOUS
<1>1. CASE UNCHANGED vars
  BY <1>1, TypeParts DEF vars, ConnType, InboxType, PageType, RestType
<1>2. ASSUME NEW s \in Sessions, Delete(s) PROVE TypeOK'
  BY <1>2, TypeParts DEF Delete, pageVars, ConnType, InboxType, PageType, RestType
<1> QED
  BY <1>1, <1>2, NavigationTypes, ConnectTypes, HearTypes, ProbeTypes, GatewayTypes
     DEF Next, Continues

LEMMA InitTypes == Init => TypeOK
<1> SUFFICES ASSUME Init PROVE TypeOK
  OBVIOUS
<1>1. ConnType
  BY SpentType DEF Init, ConnType
<1>2. InboxType
  BY DEF Init, InboxType
<1>3. PageType /\ RestType
  BY SlotsAssumption DEF Init, PageType, RestType
<1> QED
  BY <1>1, <1>2, <1>3, TypeParts

-------------------------------------------------------------------------------
(* The strengthening.                                                      *)

ActiveIsShown == \A c \in Conns : conn[c].isActive => conn[c].session = shown
OneActive == \A c, d \in Conns : conn[c].isActive /\ conn[d].isActive => c = d
StoppedIsSilent == \A c \in Conns : conn[c].link = "stopped" => ~conn[c].reaches
TakenIsRef ==
  \A c \in Conns : conn[c].connect = "handed" /\ conn[c].reaches => c = ref

IInv ==
  /\ TypeOK
  /\ ActiveIsShown /\ OneActive /\ StoppedIsSilent /\ TakenIsRef /\ InstalledIsCurrent

(* What a step may do to a connection without making it the page's.        *)
Weaker(c) ==
  /\ conn'[c].session = conn[c].session \/ ~conn'[c].isActive
  /\ conn'[c].isActive => conn[c].isActive
  /\ conn'[c].reaches => conn[c].reaches
  /\ conn'[c].link = "stopped" => ~conn'[c].reaches
  /\ conn'[c].connect = "handed" /\ conn'[c].reaches => conn[c].connect = "handed"

(* Within a visit, a step that makes no connection the page's keeps the    *)
(* invariant if it keeps the one in the ref or silences it.                *)
LEMMA Steady ==
  ASSUME IInv, shown' = shown, \A c \in Conns : Weaker(c),
         \/ /\ ref' = ref
            /\ ref # 0 => /\ conn'[ref].isActive /\ conn'[ref].connect = "handed"
         \/ /\ ref' = 0
            /\ ref # 0 => ~conn'[ref].reaches
  PROVE  ActiveIsShown' /\ OneActive' /\ StoppedIsSilent' /\ TakenIsRef' /\ InstalledIsCurrent'
<1>1. ActiveIsShown'
  BY DEF IInv, ActiveIsShown, Weaker
<1>2. OneActive'
  BY DEF IInv, OneActive, Weaker
<1>3. StoppedIsSilent'
  BY DEF Weaker, StoppedIsSilent
<1>4. TakenIsRef'
  <2> SUFFICES ASSUME NEW c \in Conns, conn'[c].connect = "handed", conn'[c].reaches
               PROVE  c = ref'
    BY DEF TakenIsRef
  <2>1. c = ref
    BY DEF IInv, TakenIsRef, Weaker
  <2>2. c # 0
    BY DEF Conns
  <2> QED
    BY <2>1, <2>2
<1>5. InstalledIsCurrent'
  <2>1. ref # 0 => ref \in Conns
    BY SlotsAssumption DEF IInv, TypeOK, Conns
  <2> QED
    BY <1>1, <2>1 DEF IInv, InstalledIsCurrent, ActiveIsShown
<1> QED
  BY <1>1, <1>2, <1>3, <1>4, <1>5

(* Stopping silences one connection and changes nothing else the invariant *)
(* is about.                                                               *)
LEMMA StoppedFields ==
  ASSUME NEW cs \in [Conns -> Connections], NEW d, NEW c \in Conns
  PROVE  /\ Stopped(cs, d)[c].session = cs[c].session
         /\ Stopped(cs, d)[c].isActive = cs[c].isActive
         /\ Stopped(cs, d)[c].connect = cs[c].connect
         /\ c # d => Stopped(cs, d)[c] = cs[c]
         /\ c = d => ~Stopped(cs, d)[c].reaches /\ Stopped(cs, d)[c].link = "stopped"
BY DEF Stopped, Connections

(* A connection a step leaves as it was.                                   *)
LEMMA SameIsWeaker ==
  ASSUME StoppedIsSilent, NEW c \in Conns, conn'[c] = conn[c]
  PROVE  Weaker(c)
BY DEF Weaker, StoppedIsSilent

LEMMA RefIsHanded ==
  ASSUME IInv
  PROVE  ref # 0 => /\ ref \in Conns
                    /\ conn[ref].isActive
                    /\ conn[ref].connect = "handed"
BY SlotsAssumption DEF IInv, TypeOK, Conns, InstalledIsCurrent

Strengthening ==
  ActiveIsShown /\ OneActive /\ StoppedIsSilent /\ TakenIsRef /\ InstalledIsCurrent

LEMMA IInvParts == /\ IInv <=> TypeOK /\ Strengthening
                   /\ IInv' <=> TypeOK' /\ Strengthening'
BY DEF IInv, Strengthening

(* A step of one connection, which is either not the one in the ref or     *)
(* stays as the ref needs it.                                              *)
LEMMA OneConnection ==
  ASSUME IInv, NEW c \in Conns, NEW r, conn' = [conn EXCEPT ![c] = r],
         shown' = shown, ref' = ref, Weaker(c),
         c # ref \/ (r.isActive /\ r.connect = "handed")
  PROVE  Strengthening'
<1>1. \A d \in Conns : Weaker(d)
  <2> SUFFICES ASSUME NEW d \in Conns, d # c PROVE Weaker(d)
    OBVIOUS
  <2>1. conn'[d] = conn[d]
    BY DEF IInv, TypeOK
  <2> QED
    BY <2>1, SameIsWeaker DEF IInv
<1>2. ref # 0 => conn'[ref].isActive /\ conn'[ref].connect = "handed"
  <2>1. ref # 0 => conn'[ref] = IF ref = c THEN r ELSE conn[ref]
    BY RefIsHanded DEF IInv, TypeOK
  <2> QED
    BY <2>1, RefIsHanded
<1> QED
  BY <1>1, <1>2, Steady DEF Strengthening

LEMMA ConnectKeeps ==
  ASSUME IInv, NEW c \in Conns,
         Start(c) \/ StartFails(c) \/ Catch(c) \/ Reconnect(c) \/ GiveUp(c) \/ Drop(c)
  PROVE  Strengthening'
<1>0. conn \in [Conns -> Connections] /\ conn[c] \in Connections
  BY TypeParts DEF IInv, ConnType
<1>1. CASE Start(c)
  <2> DEFINE r == [conn[c] EXCEPT !.connect = "attaching", !.link = "up", !.invoke = "sent"]
  <2>1. conn' = [conn EXCEPT ![c] = r] /\ conn'[c] = r
    BY <1>0, <1>1 DEF Start
  <2>2. Weaker(c)
    BY <1>0, <2>1 DEF Weaker, Connections
  <2>3. c # ref
    BY <1>1, RefIsHanded, SlotsAssumption DEF Start, Conns
  <2> QED
    BY <1>1, <2>1, <2>2, <2>3, OneConnection DEF Start, pageVars
<1>2. CASE StartFails(c)
  <2> DEFINE s == Stopped(conn, c)
             r == [s[c] EXCEPT !.connect = "rejected"]
  <2>1. s \in [Conns -> Connections]
    BY <1>0, StoppedType
  <2>2. conn' = [s EXCEPT ![c] = r]
    BY <1>2 DEF StartFails
  <2>3. /\ s[c].session = conn[c].session /\ s[c].isActive = conn[c].isActive
        /\ ~s[c].reaches
    BY <1>0, StoppedFields
  <2>4. conn'[c] = r /\ r.session = conn[c].session /\ r.isActive = conn[c].isActive
        /\ ~r.reaches
    BY <2>1, <2>2, <2>3 DEF Connections
  <2> HIDE DEF r, s
  <2>5. Weaker(c)
    BY <2>4 DEF Weaker
  <2>6. conn' = [conn EXCEPT ![c] = r]
    <3>1. \A d \in Conns : d # c => s[d] = conn[d]
      BY <1>0, StoppedFields DEF s
    <3> QED
      BY <1>0, <2>1, <2>2, <3>1
  <2>7. c # ref
    BY <1>2, RefIsHanded, SlotsAssumption DEF StartFails, Conns
  <2> QED
    BY <1>2, <2>5, <2>6, <2>7, OneConnection DEF StartFails, pageVars
<1>3. CASE Catch(c)
  <2> DEFINE r == CASE conn[c].link # "stopped" -> [conn[c] EXCEPT !.connect = "orphan"]
                    [] conn[c].link = "stopped" /\ conn[c].isActive ->
                         [conn[c] EXCEPT !.connect = "handed"]
                    [] OTHER -> Spent
  <2>1. conn' = [conn EXCEPT ![c] = r] /\ conn'[c] = r
    BY <1>0, <1>3 DEF Catch
  <2>2. conn[c].link = "stopped" => ~conn[c].reaches
    BY DEF IInv, StoppedIsSilent
  <2>3. Weaker(c)
    <3>1. CASE conn[c].link # "stopped"
      <4>1. r = [conn[c] EXCEPT !.connect = "orphan"]
        BY <3>1
      <4> QED
        BY <1>0, <2>1, <3>1, <4>1 DEF Weaker, Connections
    <3>2. CASE conn[c].link = "stopped" /\ conn[c].isActive
      <4>1. r = [conn[c] EXCEPT !.connect = "handed"]
        BY <3>2
      <4> QED
        BY <1>0, <2>1, <2>2, <3>2, <4>1 DEF Weaker, Connections
    <3>3. CASE conn[c].link = "stopped" /\ ~conn[c].isActive
      <4>1. r = Spent
        BY <3>3
      <4> QED
        BY <2>1, <4>1 DEF Weaker, Spent
    <3> QED
      BY <3>1, <3>2, <3>3 DEF Connections
  <2>4. c # ref
    BY <1>3, RefIsHanded, SlotsAssumption DEF Catch, Conns
  <2> QED
    BY <1>3, <2>1, <2>3, <2>4, OneConnection DEF Catch
<1>4. CASE Reconnect(c)
  <2> DEFINE r == [conn[c] EXCEPT !.link = "up", !.invoke = "sent"]
  <2>1. conn' = [conn EXCEPT ![c] = r] /\ conn'[c] = r
    BY <1>0, <1>4 DEF Reconnect
  <2>2. Weaker(c) /\ r.isActive = conn[c].isActive /\ r.connect = conn[c].connect
    BY <1>0, <2>1 DEF Weaker, Connections
  <2> HIDE DEF r
  <2>3. c # ref \/ (r.isActive /\ r.connect = "handed")
    BY <2>2, RefIsHanded, SlotsAssumption DEF Conns
  <2>4. shown' = shown /\ ref' = ref
    BY <1>4 DEF Reconnect, pageVars
  <2> QED
    BY <2>1, <2>2, <2>3, <2>4, OneConnection
<1>5. CASE GiveUp(c)
  <2> DEFINE r == [conn[c] EXCEPT !.link = "closed"]
  <2>1. conn' = [conn EXCEPT ![c] = r] /\ conn'[c] = r
    BY <1>0, <1>5 DEF GiveUp
  <2>2. Weaker(c) /\ r.isActive = conn[c].isActive /\ r.connect = conn[c].connect
    BY <1>0, <2>1 DEF Weaker, Connections
  <2> HIDE DEF r
  <2>3. c # ref \/ (r.isActive /\ r.connect = "handed")
    BY <2>2, RefIsHanded, SlotsAssumption DEF Conns
  <2>4. shown' = shown /\ ref' = ref
    BY <1>5 DEF GiveUp, pageVars
  <2> QED
    BY <2>1, <2>2, <2>3, <2>4, OneConnection
<1>6. CASE Drop(c)
  <2> DEFINE r == [conn[c] EXCEPT !.link = "reconnecting", !.invoke = "idle",
                                  !.attached = FALSE,
                                  !.connect = IF @ = "attaching" THEN "rejected" ELSE @]
  <2>1. conn' = [conn EXCEPT ![c] = r] /\ conn'[c] = r
    BY <1>0, <1>6 DEF Drop
  <2>2. /\ Weaker(c) /\ r.isActive = conn[c].isActive
        /\ conn[c].connect = "handed" => r.connect = "handed"
    BY <1>0, <2>1 DEF Weaker, Connections
  <2> HIDE DEF r
  <2>3. c # ref \/ (r.isActive /\ r.connect = "handed")
    BY <2>2, RefIsHanded, SlotsAssumption DEF Conns
  <2>4. shown' = shown /\ ref' = ref
    BY <1>6 DEF Drop
  <2> QED
    BY <2>1, <2>2, <2>3, <2>4, OneConnection
<1> QED
  BY <1>1, <1>2, <1>3, <1>4, <1>5, <1>6

(* connect() ended well: only the connection of the visit under way is     *)
(* taken, and there was none before it.                                    *)
LEMMA ThenKeeps == ASSUME IInv, NEW c \in Conns, Then(c) PROVE Strengthening'
<1>0. conn \in [Conns -> Connections] /\ conn[c] \in Connections
  BY TypeParts DEF IInv, ConnType
<1>1. CASE ~conn[c].isActive
  <2>1. conn' = [conn EXCEPT ![c] = Spent] /\ conn'[c] = Spent
    BY <1>0, <1>1 DEF Then
  <2>2. Weaker(c)
    BY <2>1 DEF Weaker, Spent
  <2>3. c # ref
    BY <1>1, RefIsHanded, SlotsAssumption DEF Conns
  <2> QED
    BY <1>1, <2>1, <2>2, <2>3, OneConnection DEF Then
<1>2. CASE conn[c].isActive
  <2> DEFINE r == [conn[c] EXCEPT !.connect = "handed"]
  <2>1. conn' = [conn EXCEPT ![c] = r] /\ conn'[c] = r /\ ref' = c /\ shown' = shown
    BY <1>0, <1>2 DEF Then
  <2>2. /\ r.session = conn[c].session /\ r.isActive /\ r.reaches = conn[c].reaches
        /\ r.link = conn[c].link /\ r.connect = "handed"
    BY <1>0, <1>2 DEF Connections
  <2> HIDE DEF r
  <2>3. \A d \in Conns : d # c => conn'[d] = conn[d]
    BY <1>0, <2>1
  <2>4. ref = 0
    BY <1>2, RefIsHanded DEF Then, IInv, OneActive
  <2>5. ActiveIsShown'
    BY <1>2, <2>1, <2>2, <2>3 DEF IInv, ActiveIsShown
  <2>6. OneActive'
    BY <1>2, <2>1, <2>2, <2>3 DEF IInv, OneActive
  <2>7. StoppedIsSilent'
    BY <2>1, <2>2, <2>3 DEF IInv, StoppedIsSilent
  <2>8. TakenIsRef'
    <3> SUFFICES ASSUME NEW d \in Conns, d # c, conn[d].connect = "handed", conn[d].reaches
                 PROVE  FALSE
      BY <2>1, <2>3 DEF TakenIsRef
    <3> QED
      BY <2>4, SlotsAssumption DEF IInv, TakenIsRef, Conns
  <2>9. InstalledIsCurrent'
    BY <2>1, <2>2, <2>5 DEF InstalledIsCurrent, ActiveIsShown
  <2> QED
    BY <2>5, <2>6, <2>7, <2>8, <2>9 DEF Strengthening
<1> QED
  BY <1>0, <1>1, <1>2 DEF Connections

-------------------------------------------------------------------------------
(* What is heard.                                                          *)

LEMMA HearKeeps == ASSUME IInv, NEW c \in Conns, HearsNext(c) PROVE Strengthening'
<1>0. conn \in [Conns -> Connections] /\ conn[c] \in Connections
  BY TypeParts DEF IInv, ConnType
<1>1. CASE HearOk(c)
  <2> DEFINE r == [conn[c] EXCEPT !.invoke = "idle",
                                  !.connect = IF @ = "attaching" THEN "resolved" ELSE @]
  <2>1. conn' = [conn EXCEPT ![c] = r] /\ conn'[c] = r
    BY <1>0, <1>1 DEF HearOk
  <2>2. /\ r.session = conn[c].session /\ r.isActive = conn[c].isActive
        /\ r.reaches = conn[c].reaches /\ r.link = conn[c].link
        /\ r.connect = "handed" <=> conn[c].connect = "handed"
    BY <1>0 DEF Connections
  <2> HIDE DEF r
  <2>3. Weaker(c)
    BY <2>1, <2>2 DEF Weaker, IInv, StoppedIsSilent
  <2>4. c # ref \/ (r.isActive /\ r.connect = "handed")
    BY <2>2, RefIsHanded, SlotsAssumption DEF Conns
  <2>5. shown' = shown /\ ref' = ref
    BY <1>1 DEF HearOk, pageVars
  <2> QED
    BY <2>1, <2>3, <2>4, <2>5, OneConnection
<1>2. CASE HearOffline(c) /\ conn[c].connect = "attaching"
  <2> DEFINE s == Stopped(conn, c)
             r == [s[c] EXCEPT !.connect = "rejected"]
  <2>1. s \in [Conns -> Connections]
    BY <1>0, StoppedType
  <2>2. conn' = [s EXCEPT ![c] = r]
    BY <1>2 DEF HearOffline
  <2>3. /\ s[c].session = conn[c].session /\ s[c].isActive = conn[c].isActive
        /\ ~s[c].reaches
    BY <1>0, StoppedFields
  <2>4. conn'[c] = r /\ r.session = conn[c].session /\ r.isActive = conn[c].isActive
        /\ ~r.reaches
    BY <2>1, <2>2, <2>3 DEF Connections
  <2> HIDE DEF r, s
  <2>5. Weaker(c)
    BY <2>4 DEF Weaker
  <2>6. conn' = [conn EXCEPT ![c] = r]
    <3>1. \A d \in Conns : d # c => s[d] = conn[d]
      BY <1>0, StoppedFields DEF s
    <3> QED
      BY <1>0, <2>1, <2>2, <3>1
  <2>7. c # ref
    BY <1>2, RefIsHanded, SlotsAssumption DEF Conns
  <2> QED
    BY <1>2, <2>5, <2>6, <2>7, OneConnection DEF HearOffline, pageVars
<1>3. CASE HearOffline(c) /\ conn[c].connect # "attaching"
  <2> DEFINE r == [conn[c] EXCEPT !.invoke = "idle"]
  <2>1. conn' = [conn EXCEPT ![c] = r] /\ conn'[c] = r
    BY <1>0, <1>3 DEF HearOffline
  <2>2. /\ r.session = conn[c].session /\ r.isActive = conn[c].isActive
        /\ r.reaches = conn[c].reaches /\ r.link = conn[c].link
        /\ r.connect = conn[c].connect
    BY <1>0 DEF Connections
  <2> HIDE DEF r
  <2>3. Weaker(c)
    BY <2>1, <2>2 DEF Weaker, IInv, StoppedIsSilent
  <2>4. c # ref \/ (r.isActive /\ r.connect = "handed")
    BY <2>2, RefIsHanded, SlotsAssumption DEF Conns
  <2>5. shown' = shown /\ ref' = ref
    BY <1>3 DEF HearOffline, pageVars
  <2> QED
    BY <2>1, <2>3, <2>4, <2>5, OneConnection
<1>4. ASSUME NEW which, EndSeen(c, which) PROVE ref' = ref \/ (ref' = 0 /\ Disposed(c) = ref)
  BY <1>4 DEF EndSeen, Disposed
<1>5. CASE HearEnd(c)
  <2>1. conn' = Stopped(conn, Disposed(c)) /\ shown' = shown
    BY <1>5 DEF HearEnd
  <2>2. \A d \in Conns : Weaker(d)
    <3> SUFFICES ASSUME NEW d \in Conns PROVE Weaker(d)
      OBVIOUS
    <3>1. CASE d = Disposed(c)
      BY <1>0, <2>1, <3>1, StoppedFields DEF Weaker
    <3>2. CASE d # Disposed(c)
      BY <1>0, <2>1, <3>2, StoppedFields, SameIsWeaker DEF IInv
    <3> QED
      BY <3>1, <3>2
  <2>3. ref # 0 => \/ ref' = 0 /\ ~conn'[ref].reaches
                   \/ ref' = ref /\ conn'[ref].isActive /\ conn'[ref].connect = "handed"
    <3>1. ref # 0 => /\ conn'[ref].isActive = conn[ref].isActive
                     /\ conn'[ref].connect = conn[ref].connect
                     /\ Disposed(c) = ref => ~conn'[ref].reaches
      BY <1>0, <2>1, StoppedFields, RefIsHanded
    <3> QED
      BY <1>4, <1>5, <3>1, RefIsHanded DEF HearEnd
  <2>4. ref = 0 => ref' = 0
    BY <1>4, <1>5 DEF HearEnd
  <2> QED
    BY <2>1, <2>2, <2>3, <2>4, Steady DEF Strengthening
<1>6. CASE HearGone(c)
  <2> DEFINE s == Stopped(conn, Disposed(c))
             t == Stopped(s, c)
             r == [t[c] EXCEPT !.connect = IF @ = "attaching" THEN "resolved" ELSE @]
  <2>1. s \in [Conns -> Connections] /\ t \in [Conns -> Connections]
    BY <1>0, StoppedType
  <2>2. conn' = [t EXCEPT ![c] = r] /\ shown' = shown
    BY <1>6 DEF HearGone
  <2>3. ASSUME NEW d \in Conns
        PROVE  /\ s[d].session = conn[d].session /\ s[d].isActive = conn[d].isActive
               /\ s[d].connect = conn[d].connect
               /\ d # Disposed(c) => s[d] = conn[d]
               /\ d = Disposed(c) => ~s[d].reaches /\ s[d].link = "stopped"
    BY <1>0, StoppedFields
  <2>4. ASSUME NEW d \in Conns
        PROVE  /\ t[d].session = s[d].session /\ t[d].isActive = s[d].isActive
               /\ t[d].connect = s[d].connect
               /\ d # c => t[d] = s[d]
               /\ d = c => ~t[d].reaches
    BY <2>1, StoppedFields
  <2>5. /\ r.session = t[c].session /\ r.isActive = t[c].isActive /\ r.reaches = t[c].reaches
        /\ t[c].connect = "handed" => r.connect = "handed"
    BY <2>1 DEF Connections
  <2> HIDE DEF s, t, r
  <2>6. conn'[c] = r /\ \A d \in Conns : d # c => conn'[d] = t[d]
    BY <2>1, <2>2
  <2>7. \A d \in Conns : Weaker(d)
    <3> SUFFICES ASSUME NEW d \in Conns PROVE Weaker(d)
      OBVIOUS
    <3>1. CASE d = c
      BY <2>3, <2>4, <2>5, <2>6, <3>1 DEF Weaker
    <3>2. CASE d # c /\ d = Disposed(c)
      BY <2>3, <2>4, <2>6, <3>2 DEF Weaker
    <3>3. CASE d # c /\ d # Disposed(c)
      <4>1. conn'[d] = conn[d]
        BY <2>3, <2>4, <2>6, <3>3
      <4> QED
        BY <4>1, SameIsWeaker DEF IInv
    <3> QED
      BY <3>1, <3>2, <3>3
  <2>8. ref # 0 => /\ conn'[ref].isActive
                   /\ conn'[ref].connect = "handed"
                   /\ Disposed(c) = ref => ~conn'[ref].reaches
    <3> SUFFICES ASSUME ref # 0 PROVE /\ conn'[ref].isActive
                                      /\ conn'[ref].connect = "handed"
                                      /\ Disposed(c) = ref => ~conn'[ref].reaches
      OBVIOUS
    <3>1. ref \in Conns /\ conn[ref].isActive /\ conn[ref].connect = "handed"
      BY RefIsHanded
    <3>2. CASE ref = c
      BY <2>3, <2>4, <2>5, <2>6, <3>1, <3>2
    <3>3. CASE ref # c
      BY <2>3, <2>4, <2>6, <3>1, <3>3
    <3> QED
      BY <3>2, <3>3
  <2>9. ref' = ref \/ (ref' = 0 /\ Disposed(c) = ref)
    BY <1>4, <1>6 DEF HearGone
  <2> QED
    BY <2>2, <2>7, <2>8, <2>9, Steady DEF Strengthening
<1> QED
  BY <1>1, <1>2, <1>3, <1>5, <1>6 DEF HearsNext

-------------------------------------------------------------------------------
(* The gateway changes nothing that the page's connections are judged by.  *)

LEMMA GatewayKeeps ==
  ASSUME IInv, NEW c \in Conns, Serves(c) \/ SessionEnds(c) PROVE Strengthening'
<1>0. conn \in [Conns -> Connections]
  BY TypeParts DEF IInv, ConnType
<1> DEFINE Same(f) == \A d \in Conns : /\ f[d].session = conn[d].session
                                       /\ f[d].isActive = conn[d].isActive
                                       /\ f[d].reaches = conn[d].reaches
                                       /\ f[d].link = conn[d].link
                                       /\ f[d].connect = conn[d].connect
<1>1. \A s, next : Same(Attached(s, c, next))
  <2> SUFFICES ASSUME NEW s, NEW next, NEW d \in Conns
               PROVE  /\ Attached(s, c, next)[d].session = conn[d].session
                      /\ Attached(s, c, next)[d].isActive = conn[d].isActive
                      /\ Attached(s, c, next)[d].reaches = conn[d].reaches
                      /\ Attached(s, c, next)[d].link = conn[d].link
                      /\ Attached(s, c, next)[d].connect = conn[d].connect
    OBVIOUS
  <2>1. conn[c] \in Connections /\ conn[d] \in Connections
    BY <1>0
  <2> QED
    BY <2>1 DEF Attached, Connections
<1>2. /\ Same([conn EXCEPT ![c].invoke = "idle"])
      /\ Same([conn EXCEPT ![c].attached = FALSE])
  <2>1. conn[c] \in Connections
    BY <1>0
  <2>2. Same([conn EXCEPT ![c] = [conn[c] EXCEPT !.invoke = "idle"]])
    <3>1. LET e == [conn[c] EXCEPT !.invoke = "idle"] IN
            /\ e.session = conn[c].session /\ e.isActive = conn[c].isActive
            /\ e.reaches = conn[c].reaches /\ e.link = conn[c].link
            /\ e.connect = conn[c].connect
      BY <2>1 DEF Connections
    <3> QED
      BY <1>0, <3>1
  <2>3. Same([conn EXCEPT ![c] = [conn[c] EXCEPT !.attached = FALSE]])
    <3>1. LET e == [conn[c] EXCEPT !.attached = FALSE] IN
            /\ e.session = conn[c].session /\ e.isActive = conn[c].isActive
            /\ e.reaches = conn[c].reaches /\ e.link = conn[c].link
            /\ e.connect = conn[c].connect
      BY <2>1 DEF Connections
    <3> QED
      BY <1>0, <3>1
  <2> QED
    BY <2>2, <2>3
<1>3. Same(conn')
  <2>1. CASE Attach(c)
    <3>1. \/ conn' = [conn EXCEPT ![c].invoke = "idle"]
          \/ \E s, next : conn' = Attached(s, c, next)
      BY <2>1 DEF Attach
    <3> HIDE DEF Same
    <3> QED
      BY <1>1, <1>2, <3>1
  <2>2. CASE AnswerOk(c) \/ SessionEnds(c)
    <3> HIDE DEF Same
    <3> QED
      BY <1>2, <2>2 DEF AnswerOk, SessionEnds
  <2> QED
    BY <2>1, <2>2 DEF Serves
<1>4. shown' = shown /\ ref' = ref
  BY DEF Serves, Attach, AnswerOk, SessionEnds, pageVars
<1>5. \A d \in Conns : Weaker(d)
  BY <1>3 DEF Weaker, IInv, StoppedIsSilent
<1>6. ref # 0 => conn'[ref].isActive /\ conn'[ref].connect = "handed"
  BY <1>3, RefIsHanded
<1> QED
  BY <1>4, <1>5, <1>6, Steady DEF Strengthening

-------------------------------------------------------------------------------
(* Navigation ends every visit, and what was in the ref is disposed of.    *)

LEMMA LeftFields ==
  ASSUME IInv, NEW reused \in BOOLEAN, NEW c \in Conns
  PROVE  /\ ~Left(reused)[c].isActive
         /\ Left(reused)[c].link = "stopped" => ~Left(reused)[c].reaches
         /\ ~(Left(reused)[c].connect = "handed" /\ Left(reused)[c].reaches)
<1> DEFINE s == Stopped(conn, ref)[c]
           o == [s EXCEPT !.isActive = FALSE, !.reaches = @ /\ reused]
<1>0. conn \in [Conns -> Connections]
  BY TypeParts DEF IInv, ConnType
<1>1. Left(reused)[c] = IF o.connect = "handed" /\ o.link = "stopped" THEN Spent ELSE o
  BY DEF Left
<1>2. s \in Connections
  BY <1>0, StoppedType
<1>3. /\ s.connect = conn[c].connect
      /\ c # ref => s = conn[c]
      /\ c = ref => ~s.reaches /\ s.link = "stopped"
  BY <1>0, StoppedFields
<1>4. /\ ~o.isActive /\ o.link = s.link /\ o.connect = s.connect
      /\ o.reaches => s.reaches
  BY <1>2 DEF Connections
<1>5. s.link = "stopped" => ~s.reaches
  BY <1>3 DEF IInv, StoppedIsSilent
<1>6. ~(s.connect = "handed" /\ s.reaches)
  BY <1>3 DEF IInv, TakenIsRef
<1> HIDE DEF s, o
<1> QED
  BY <1>1, <1>4, <1>5, <1>6 DEF Spent

LEMMA NavigationKeeps ==
  ASSUME IInv,
         (\E s \in Sessions : \E reused \in BOOLEAN : Show(s, reused)) \/ Leave \/ Redirect
  PROVE  Strengthening'
<1>1. ASSUME NEW s \in Sessions, NEW reused \in BOOLEAN, Show(s, reused)
      PROVE  Strengthening'
  <2>1. PICK n \in Conns : conn' = [Left(reused) EXCEPT ![n] = Started(s)]
    BY <1>1 DEF Show
  <2>2. ref' = 0 /\ shown' = s
    BY <1>1 DEF Show, Navigated
  <2>3. Left(reused) \in [Conns -> Connections]
    BY LeftType, TypeParts DEF IInv
  <2>4. conn'[n] = Started(s) /\ \A c \in Conns : c # n => conn'[c] = Left(reused)[c]
    BY <2>1, <2>3
  <2>5. ActiveIsShown'
    BY <2>2, <2>4, LeftFields DEF ActiveIsShown, Started
  <2>6. OneActive'
    BY <2>4, LeftFields DEF OneActive
  <2>7. StoppedIsSilent'
    BY <2>4, LeftFields DEF StoppedIsSilent, Started
  <2>8. TakenIsRef'
    BY <2>4, LeftFields DEF TakenIsRef, Started
  <2>9. InstalledIsCurrent'
    BY <2>2 DEF InstalledIsCurrent
  <2> QED
    BY <2>5, <2>6, <2>7, <2>8, <2>9 DEF Strengthening
<1>2. CASE Leave
  <2>1. conn' = Left(FALSE) /\ ref' = 0
    BY <1>2 DEF Leave, Navigated
  <2> QED
    BY <2>1, LeftFields DEF Strengthening, ActiveIsShown, OneActive, StoppedIsSilent,
                            TakenIsRef, InstalledIsCurrent
<1> QED
  BY <1>1, <1>2 DEF Redirect

-------------------------------------------------------------------------------
LEMMA NextIInv == IInv /\ [Next]_vars => IInv'
<1> SUFFICES ASSUME IInv, [Next]_vars PROVE Strengthening'
  BY NextTypes, IInvParts
<1>1. ASSUME UNCHANGED <<shown, ref, conn>> PROVE Strengthening'
  BY <1>1, IInvParts DEF Strengthening, ActiveIsShown, OneActive, StoppedIsSilent,
                         TakenIsRef, InstalledIsCurrent
<1>2. CASE UNCHANGED vars
  BY <1>1, <1>2 DEF vars
<1>3. CASE ProbeLatency \/ LatencyProbeAck \/ ProbeTimesOut \/ ProbeSettles
  BY <1>1, <1>3 DEF ProbeLatency, LatencyProbeAck, ProbeTimesOut, ProbeSettles
<1>4. ASSUME NEW s \in Sessions, Delete(s) PROVE Strengthening'
  BY <1>1, <1>4 DEF Delete, pageVars
<1> QED
  BY <1>2, <1>3, <1>4, ConnectKeeps, ThenKeeps, HearKeeps, GatewayKeeps, NavigationKeeps
     DEF Next, Continues

LEMMA InitIInv == Init => IInv
BY InitTypes, SlotsAssumption
   DEF Init, IInv, Spent, ActiveIsShown, OneActive, StoppedIsSilent, TakenIsRef,
       InstalledIsCurrent, Conns

LEMMA Invariance == Spec => []IInv
<1> QED
  BY InitIInv, NextIInv, PTL DEF Spec

(* Every state is well-typed.                                              *)
THEOREM TypeCorrect == Spec => []TypeOK
<1>1. IInv => TypeOK
  BY DEF IInv
<1> QED
  BY <1>1, Invariance, PTL

(* The connection the page types into and disposes of is the one of the    *)
(* visit under way, whatever connect() calls of earlier visits still end.  *)
THEOREM InstalledStaysCurrent == Spec => []InstalledIsCurrent
<1>1. IInv => InstalledIsCurrent
  BY DEF IInv
<1> QED
  BY <1>1, Invariance, PTL

(* A connection that was taken or refused reaches the page only while its  *)
(* session is the one shown.                                               *)
THEOREM TakenNeverIntrudes == Spec => []OnlyPendingIntrude
<1>1. IInv => OnlyPendingIntrude
  BY SlotsAssumption DEF IInv, TakenIsRef, InstalledIsCurrent, OnlyPendingIntrude, Conns
<1> QED
  BY <1>1, Invariance, PTL

================================================================================
