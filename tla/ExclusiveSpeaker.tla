--------------------------- MODULE ExclusiveSpeaker ---------------------------
(***************************************************************************)
(* What the session supervisor of the native Qwen runtime promises, with   *)
(* everything it does to keep the promise left out: at any moment one      *)
(* session may own the speaker, only the owner holds devices, ownership is *)
(* passed on when the owner holds none any more and before the outcome of  *)
(* the session is published, and the outcome is published once.            *)
(*                                                                         *)
(* The promise is weaker for some devices: a droppable one may be          *)
(* abandoned by its owner instead of given back.  Nobody owns it then and  *)
(* nobody waits for its end.                                               *)
(***************************************************************************)
CONSTANTS
  Session,    \* session identifiers
  NoSession,  \* no session owns the speaker
  Device,     \* what an owner may hold: player, audio process, peer, capture
  Droppable   \* what an owner may abandon: peer, capture

Outcome == {"clean", "failed", "forced", "closed"}

VARIABLES
  owner,      \* the session that owns the speaker, or NoSession
  held,       \* the devices each session holds
  abandoned,  \* devices that may live on without an owner
  outcome     \* the published outcome of each session, "pending" before it

vars == <<owner, held, abandoned, outcome>>

Init ==
  /\ owner = NoSession
  /\ held = [s \in Session |-> {}]
  /\ abandoned = {}
  /\ outcome = [s \in Session |-> "pending"]

Acquire(s) ==
  /\ owner = NoSession
  /\ outcome[s] = "pending"
  /\ owner' = s
  /\ UNCHANGED <<held, abandoned, outcome>>

\* The owner, and nobody else, takes, gives back and abandons devices; it can
\* abandon only what it holds.
Use(s) ==
  /\ owner = s
  /\ held' \in [Session -> SUBSET Device]
  /\ \A t \in Session \ {s} : held'[t] = held[t]
  /\ \E left \in SUBSET ((held[s] \ held'[s]) \cap Droppable) : abandoned' = abandoned \cup left
  /\ UNCHANGED <<owner, outcome>>

Release(s) ==
  /\ owner = s
  /\ held[s] = {}
  /\ owner' = NoSession
  /\ UNCHANGED <<held, abandoned, outcome>>

Publish(s) ==
  /\ owner # s
  /\ held[s] = {}
  /\ outcome[s] = "pending"
  /\ outcome' \in {[outcome EXCEPT ![s] = o] : o \in Outcome}
  /\ UNCHANGED <<owner, held, abandoned>>

\* The identifier is used for a new session.
Renew(s) ==
  /\ owner # s
  /\ held[s] = {}
  /\ outcome' = [outcome EXCEPT ![s] = "pending"]
  /\ UNCHANGED <<owner, held, abandoned>>

\* An abandoned device ends by itself.
Expire ==
  /\ \E d \in abandoned : abandoned' = abandoned \ {d}
  /\ UNCHANGED <<owner, held, outcome>>

Next ==
  \/ \E s \in Session : Acquire(s) \/ Use(s) \/ Release(s) \/ Publish(s) \/ Renew(s)
  \/ Expire

Spec == Init /\ [][Next]_vars

===============================================================================
