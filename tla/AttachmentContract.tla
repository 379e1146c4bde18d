------------------------- MODULE AttachmentContract -------------------------
(***************************************************************************)
(* What the session coordinator promises when its operations take effect   *)
(* one at a time: who may hold a session's attachment, who may take it     *)
(* away, when a session may end, and what survives a gateway restart.  No  *)
(* database, no phases, no routing to the worker's connection.             *)
(***************************************************************************)
CONSTANTS Sessions, Clients, None

VARIABLE rec  \* rec[s]: state, attached client and pending replay of s

Gone == [state |-> "Absent", client |-> None, pending |-> FALSE]
Free(state) == [state |-> state, client |-> None, pending |-> FALSE]
Held(c, pending) == [state |-> "Attached", client |-> c, pending |-> pending]

Alive == {"Attached", "DetachedGracePeriod"}
Known == {s \in Sessions : rec[s].state # "Absent"}

Become(s, r) == rec' = [rec EXCEPT ![s] = r]
BecomeAll(S, r) == rec' = [s \in Sessions |-> IF s \in S THEN r ELSE rec[s]]

(* A fresh session is attached to its creator, if it has a connection.     *)
Open(s, c) == rec[s] = Gone /\ Become(s, Held(c, FALSE))

(* The last client to ask gets the attachment.                             *)
Attach(s, c) == s \in Known /\ Become(s, Held(c, rec[s].state # "Recovering"))

(* Only the holder, or anybody while there is none, detaches.              *)
Release(s, c) ==
  /\ s \in Known
  /\ rec[s].client \in {None, c}
  /\ Become(s, Free("DetachedGracePeriod"))

CompleteReplay(s, c) ==
  /\ rec[s].state = "Attached" /\ rec[s].client = c
  /\ Become(s, Held(c, FALSE))

End(s) == s \in Known /\ Become(s, Free("Exited"))

Forget(s) == Become(s, Gone)

(* The worker's link goes: its running sessions wait for it, held by none. *)
LoseWorker(S) ==
  /\ \A s \in S : rec[s].state \in Alive
  /\ BecomeAll(S, Free("Recovering"))

(* The worker is back: what waited for it is attached, to nobody.          *)
RegainWorker(S) ==
  /\ \A s \in S : rec[s].state = "Recovering"
  /\ BecomeAll(S, Free("Attached"))

(* Shells the worker lost end their sessions, except under a client.       *)
Expire(S) ==
  /\ \A s \in S : rec[s].state \in Alive \cup {"Recovering"} /\ rec[s].client = None
  /\ BecomeAll(S, Free("Expired"))

(* A gateway restart detaches every client, keeps every session whose      *)
(* shell may live, and forgets the sessions that had ended.                *)
Restart ==
  rec' = [s \in Sessions |->
    CASE rec[s].state \in Alive        -> Free("DetachedGracePeriod")
      [] rec[s].state = "Recovering"   -> Free("Recovering")
      [] OTHER                         -> Gone]

Init == rec = [s \in Sessions |-> Gone]

Next ==
  \/ \E s \in Sessions, c \in Clients :
       Attach(s, c) \/ Release(s, c) \/ CompleteReplay(s, c)
  \/ \E s \in Sessions : End(s) \/ Forget(s)
  \/ \E s \in Sessions, c \in Clients \cup {None} : Open(s, c)
  \/ \E S \in SUBSET Sessions : LoseWorker(S) \/ RegainWorker(S) \/ Expire(S)
  \/ Restart

Spec == Init /\ [][Next]_rec
=============================================================================
