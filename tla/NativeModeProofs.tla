---------------------------- MODULE NativeModeProofs ----------------------------
(***************************************************************************)
(* Proofs about the native mode: its sessions (NativeSession), the main    *)
(* loop that owns them (VoiceLoop) and the keyword monitor that lends them *)
(* the microphone (Vpm), for any number of sessions, reconnects, MCP       *)
(* generations, runs of the monitor and captures.                          *)
(*                                                                         *)
(* Sessions.  Everything rests on one inductive invariant, Inv.  The       *)
(* devices are exclusive because a device is held only by a worker, a      *)
(* worker runs only under a supervisor that has not cleared the slot yet,  *)
(* and the slot holds one session.  A peer or a capture a worker drops     *)
(* instead of waiting for its end is nobody's from then on: it is in       *)
(* strays, and the theorems say nothing of it.                             *)
(*                                                                         *)
(* Main loop.  It holds one turn at a time (OneTurn); so its sessions      *)
(* behave as NativeSession says, and what is proved there holds here; so   *)
(* none of them is orphaned or refused, and none opens the microphone      *)
(* before it was woken.                                                    *)
(*                                                                         *)
(* Keyword monitor.  The slots lead to the running monitor or nowhere, so  *)
(* who subscribes to its audio reaches its commands too; see VpmInv.       *)
(***************************************************************************)
EXTENDS VoiceLoop, Vpm, TLAPS

Inv ==
  /\ TypeOK
  /\ SlotOwned
  /\ WorkerSupervised
  /\ Lifecycle
  /\ EffectsRemembered

-------------------------------------------------------------------------------
\* Every step of a session, handle, task, worker or supervisor, keeps the types.
LEMMA HandleTypes ==
  ASSUME TypeOK, NEW s \in Session, Handle(s)
  PROVE  TypeOK'
<1> USE DEF TypeOK, taskVars, workerVars, supVars
<1>1. CASE Prepare(s)
  BY <1>1, ReconnectsAssumption DEF Prepare, TaskState, WorkerState, SupState, SetupPhase, Verdict, Terminal
<1>2. CASE Activate(s)
  BY <1>2 DEF Activate, Listening
<1>3. CASE Interrupt(s)
  BY <1>3 DEF Interrupt, Listening
<1>4. CASE RequestCancel(s)
  BY <1>4 DEF RequestCancel, SetupPhase
<1>5. CASE SendCancel(s)
  BY <1>5 DEF SendCancel
<1> QED
  BY <1>1, <1>2, <1>3, <1>4, <1>5 DEF Handle

\* The task of a turn keeps the types.
LEMMA TaskTypes ==
  ASSUME TypeOK, NEW s \in Session, TaskStep(s)
  PROVE  TypeOK'
<1> USE DEF TypeOK, handleVars, workerVars, supVars, TaskState
<1>1. CASE StartRun(s)
  BY <1>1 DEF StartRun
<1>2. CASE ToolsResolved(s)
  BY <1>2 DEF ToolsResolved
<1>3. CASE ToolsFailed(s)
  BY <1>3 DEF ToolsFailed, LeaveRun, Terminal
<1>4. CASE Claim(s)
  BY <1>4 DEF Claim, WorkerState, SupState
<1>5. CASE Refuse(s)
  BY <1>5 DEF Refuse, LeaveRun, SetupPhase, Terminal
<1>6. CASE RunReturns(s)
  BY <1>6 DEF RunReturns, LeaveRun
<1>7. CASE FinishTask(s)
  BY <1>7 DEF FinishTask
<1> QED
  BY <1>1, <1>2, <1>3, <1>4, <1>5, <1>6, <1>7 DEF TaskStep

\* A worker only takes and gives back devices.
LEMMA OwnedTypes ==
  ASSUME owned \in [Session -> SUBSET Device], NEW s \in Session
  PROVE  /\ \A d \in Device : /\ [owned EXCEPT ![s] = @ \cup {d}] \in [Session -> SUBSET Device]
                              /\ [owned EXCEPT ![s] = @ \ {d}] \in [Session -> SUBSET Device]
         /\ \A D : [owned EXCEPT ![s] = @ \ D] \in [Session -> SUBSET Device]
OBVIOUS

\* What a worker gives back it no longer holds, and what it drops becomes a stray.
GivesBack(s) ==
  \E D \in {Device, {"peer", "capture"}} :
  \E late \in SUBSET (owned[s] \cap D \cap Droppable) : GiveBack(s, D, late)

Giving(s) ==
  ConnectFailed(s) \/ PrewarmLost(s) \/ ReleaseTransport(s)
    \/ (\E clean \in BOOLEAN : ReleasePlayer(s, clean))

\* The steps that end a connection, the transport or the player are such.
LEMMA GivingGivesBack ==
  ASSUME TypeOK, NEW s \in Session, Giving(s)
  PROVE  GivesBack(s)
<1>1. "peer" \in Droppable /\ Droppable \subseteq {"peer", "capture"} /\ owned[s] \subseteq Device
  BY DroppableAssumption DEF TypeOK
<1>2. CASE ConnectFailed(s)
  <2>1. PICK late \in SUBSET (owned[s] \cap {"peer"}) : GiveBack(s, Device, late)
    BY <1>2 DEF ConnectFailed
  <2> QED
    BY <1>1, <2>1 DEF GivesBack
<1>3. CASE PrewarmLost(s)
  BY <1>1, <1>3 DEF PrewarmLost, GivesBack
<1>4. CASE ReleaseTransport(s)
  <2>1. PICK late \in SUBSET (owned[s] \cap Droppable) : GiveBack(s, {"peer", "capture"}, late)
    BY <1>4 DEF ReleaseTransport
  <2> QED
    BY <1>1, <2>1 DEF GivesBack
<1>5. ASSUME NEW clean \in BOOLEAN, ReleasePlayer(s, clean)
      PROVE  GivesBack(s)
  BY <1>5 DEF ReleasePlayer, GivesBack
<1> QED
  BY <1>2, <1>3, <1>4, <1>5 DEF Giving

LEMMA GivenBack ==
  ASSUME TypeOK, NEW s \in Session, GivesBack(s)
  PROVE  /\ owned' \in [Session -> SUBSET Device] /\ strays' \in SUBSET Droppable
         /\ owned'[s] \subseteq owned[s]
         /\ \A t \in Session \ {s} : owned'[t] = owned[t]
         /\ \E late \in SUBSET ((owned[s] \ owned'[s]) \cap Droppable) :
              strays' = strays \cup late
<1>0. PICK D \in {Device, {"peer", "capture"}} :
        \E late \in SUBSET (owned[s] \cap D \cap Droppable) : GiveBack(s, D, late)
  BY DEF GivesBack
<1>1. PICK late \in SUBSET (owned[s] \cap D \cap Droppable) : GiveBack(s, D, late)
  BY <1>0
<1>2. owned' = [owned EXCEPT ![s] = @ \ D] /\ strays' = strays \cup late
  BY <1>1 DEF GiveBack
<1>3. owned'[s] = owned[s] \ D
  BY <1>2 DEF TypeOK
<1> QED
  BY <1>1, <1>2, <1>3, OwnedTypes DEF TypeOK

\* The locals of the worker: what EndWorker, StayWorker and Retry assign.
LocalTypes ==
  /\ worker \in [Session -> WorkerState]
  /\ attempt \in [Session -> 0 .. Reconnects]
  /\ verdict \in [Session -> Verdict]
  /\ effects \in [Session -> BOOLEAN]

\* The ways a worker goes on or ends keep the types of its own variables.
LEMMA LocalsTyped ==
  ASSUME TypeOK, NEW s \in Session
  PROVE  /\ \A v \in Verdict : EndWorker(s, v) => LocalTypes'
         /\ \A w \in WorkerState : StayWorker(s, w) => LocalTypes'
         /\ Retry(s) => LocalTypes'
<1> USE DEF LocalTypes, WorkerTo, WorkerState
<1>1. ASSUME NEW v \in Verdict, EndWorker(s, v)
      PROVE  LocalTypes'
  BY <1>1, ReconnectsAssumption DEF EndWorker, TypeOK
<1>2. ASSUME NEW w \in WorkerState, StayWorker(s, w)
      PROVE  LocalTypes'
  BY <1>2 DEF StayWorker, TypeOK
<1>3. ASSUME Retry(s)
      PROVE  LocalTypes'
  <2>1. CASE effects[s]
    BY <1>1, <1>3, <2>1 DEF Retry, Verdict
  <2>2. CASE ~effects[s]
    BY <1>2, <1>3, <2>2 DEF Retry
  <2> QED
    BY <2>1, <2>2
<1> QED
  BY <1>1, <1>2, <1>3

\* The worker keeps the types.
LEMMA WorkerTypes ==
  ASSUME TypeOK, NEW s \in Session, WorkerStep(s) \/ WorkerEvent(s) \/ HandleInterrupt(s)
  PROVE  TypeOK'
<1>0. {"player", "aplay", "peer", "capture"} \subseteq Device
  BY DEF Device
<1>a. attempt[s] # Reconnects => attempt[s] + 1 \in 0 .. Reconnects
  BY ReconnectsAssumption DEF TypeOK
<1>l. LocalTypes' /\ UNCHANGED <<taskVars, slot, supVars>>
        /\ (phase \in [Session -> SetupPhase])' /\ (cancel \in [Session -> BOOLEAN])'
        /\ (activation \in [Session -> BOOLEAN])' /\ (interrupt \in [Session -> BOOLEAN])'
        /\ (owned \in [Session -> SUBSET Device])' /\ (strays \in SUBSET Droppable)'
      => TypeOK'
  BY DEF LocalTypes, TypeOK, taskVars, supVars
<1>g. Giving(s) => (owned \in [Session -> SUBSET Device])' /\ (strays \in SUBSET Droppable)'
  BY GivingGivesBack, GivenBack
<1> USE <1>0, OwnedTypes DEF TypeOK, taskVars, handleVars, workerVars, supVars, WorkerTo,
                             Teardown, OpenMicrophone
<1>1. CASE LoopTop(s)
  <2>1. LocalTypes'
    <3>1. CASE cancel[s]
      BY <1>1, <3>1, LocalsTyped DEF LoopTop, Verdict
    <3>2. CASE ~cancel[s]
      BY <1>1, <3>2, LocalsTyped DEF LoopTop, WorkerState
    <3> QED
      BY <3>1, <3>2
  <2> QED
    BY <1>1, <1>l, <2>1 DEF LoopTop
<1>2. CASE GateOpen(s)
  BY <1>2 DEF GateOpen, SetupPhase, WorkerState
<1>3. CASE GateClosed(s)
  <2>1. LocalTypes'
    BY <1>3, LocalsTyped DEF GateClosed
  <2> QED
    BY <1>3, <1>l, <2>1 DEF GateClosed, SetupPhase
<1>4. CASE CreatePeer(s) \/ Connected(s)
  <2>1. CASE CreatePeer(s)
    BY <2>1 DEF CreatePeer
  <2>2. CASE Connected(s)
    BY <2>2 DEF Connected, WorkerState
  <2> QED
    BY <1>4, <2>1, <2>2
<1>5. CASE ConnectFailed(s)
  <2>1. LocalTypes'
    BY <1>5, LocalsTyped DEF ConnectFailed
  <2> QED
    BY <1>5, <1>l, <1>g, <2>1 DEF ConnectFailed, Giving
<1>6. CASE SetupDone(s) \/ SetupFailed(s)
  BY <1>6 DEF SetupDone, SetupFailed, WorkerState, Verdict
<1>7. CASE CheckActivation(s)
  BY <1>7 DEF CheckActivation, WorkerState
<1>8. CASE EnterPrewarm(s)
  BY <1>8 DEF EnterPrewarm, WorkerState
<1>9. CASE PrewarmCancelled(s)
  BY <1>9 DEF PrewarmCancelled, WorkerState, Verdict
<1>10. CASE PrewarmActivated(s)
  BY <1>10 DEF PrewarmActivated, WorkerState
<1>11. CASE PrewarmLost(s)
  <2>1. LocalTypes'
    BY <1>11, LocalsTyped DEF PrewarmLost
  <2> QED
    BY <1>11, <1>l, <1>g, <2>1 DEF PrewarmLost, Giving
<1>12. CASE HandleInterrupt(s)
  BY <1>12 DEF HandleInterrupt
<1>13. CASE StartAplay(s)
  BY <1>13 DEF StartAplay
<1>14. CASE StartTool(s)
  BY <1>14 DEF StartTool
<1>15. ASSUME NEW v \in {"ok", "err"}, LiveEnds(s, v)
       PROVE  TypeOK'
  BY <1>15 DEF LiveEnds, WorkerState, Verdict
<1>16. CASE LiveCancelled(s)
  BY <1>15, <1>16 DEF LiveCancelled
<1>17. CASE ReleaseTransport(s)
  <2>1. LocalTypes'
    BY <1>17 DEF ReleaseTransport, LocalTypes, WorkerState, Verdict
  <2> QED
    BY <1>17, <1>l, <1>g, <2>1 DEF ReleaseTransport, Giving
<1>18. ASSUME NEW clean \in BOOLEAN, ReleasePlayer(s, clean)
       PROVE  TypeOK'
  <2>1. LocalTypes'
    <3>1. CASE verdict[s] = "err"
      BY <1>18, <3>1, LocalsTyped DEF ReleasePlayer
    <3>2. CASE verdict[s] # "err"
      BY <1>18, <3>2, LocalsTyped DEF ReleasePlayer, Verdict
    <3> QED
      BY <3>1, <3>2
  <2> QED
    BY <1>18, <1>l, <1>g, <2>1 DEF ReleasePlayer, Giving
<1>19. CASE BackoffElapsed(s)
  <2>1. LocalTypes'
    <3>1. CASE attempt[s] = Reconnects
      BY <1>19, <3>1, LocalsTyped DEF BackoffElapsed, Verdict
    <3>2. CASE attempt[s] # Reconnects
      <4>1. attempt[s] + 1 \in 0 .. Reconnects
        BY <1>a, <3>2
      <4> QED
        BY <1>19, <3>2, <4>1 DEF BackoffElapsed, LocalTypes, WorkerState
    <3> QED
      BY <3>1, <3>2
  <2> QED
    BY <1>19, <1>l, <2>1 DEF BackoffElapsed
<1>20. CASE BackoffCancelled(s)
  <2>1. LocalTypes'
    BY <1>20, LocalsTyped DEF BackoffCancelled, Verdict
  <2> QED
    BY <1>20, <1>l, <2>1 DEF BackoffCancelled
<1> QED
  BY <1>1, <1>2, <1>3, <1>4, <1>5, <1>6, <1>7, <1>8, <1>11, <1>12, <1>13, <1>14, <1>15,
     <1>16, <1>17, <1>18, <1>19, <1>20, <1>9, <1>10 DEF WorkerStep, WorkerEvent

\* The supervisor keeps the types.
LEMMA SupTypes ==
  ASSUME TypeOK, NEW s \in Session, SupStep(s)
  PROVE  TypeOK'
<1> USE DEF TypeOK, taskVars, handleVars, workerVars, supVars, SupState, Terminal, Verdict,
            Consume
<1>1. CASE WorkerJoined(s)
  BY <1>1 DEF WorkerJoined, FromWorker
<1>2. CASE SeeCancel(s) \/ GraceExpires(s)
  BY <1>2 DEF SeeCancel, GraceExpires
<1>3. CASE OverdueJoined(s)
  BY <1>3 DEF OverdueJoined
<1>4. CASE ClearActive(s)
  BY <1>4 DEF ClearActive
<1>5. CASE Report(s)
  BY <1>5 DEF Report
<1> QED
  BY <1>1, <1>2, <1>3, <1>4, <1>5 DEF SupStep

-------------------------------------------------------------------------------
(***************************************************************************)
(* What a step of the worker of s looks like from outside: the worker is   *)
(* alive before it, only its own cells change, and between attempts and    *)
(* when it ends it holds nothing and has forgotten the effects.            *)
(***************************************************************************)
Between == {"top", "gate", "backoff", "done"}

WorkerMove(s) ==
  /\ worker[s] \notin {"none", "done"}
  /\ worker'[s] # "none"
  /\ \A t \in Session \ {s} :
       worker'[t] = worker[t] /\ owned'[t] = owned[t] /\ effects'[t] = effects[t]
  /\ worker'[s] \in Between => owned'[s] = {}
  /\ effects'[s] => worker'[s] \in {"live", "teardown", "silencing"}
  /\ \E late \in SUBSET ((owned[s] \ owned'[s]) \cap Droppable) : strays' = strays \cup late
  /\ UNCHANGED <<task, slot, sup, outcome, terminal>>

\* Every worker step is such a move.
LEMMA WorkerMoves ==
  ASSUME Inv, NEW s \in Session, WorkerStep(s) \/ WorkerEvent(s) \/ HandleInterrupt(s)
  PROVE  WorkerMove(s)
<1>1. /\ worker \in [Session -> WorkerState]
      /\ owned \in [Session -> SUBSET Device]
      /\ effects \in [Session -> BOOLEAN]
      /\ effects[s] => worker[s] \in {"live", "teardown", "silencing"}
      /\ worker[s] \in Between => owned[s] = {}
  BY DEF Inv, TypeOK, EffectsRemembered, WorkerSupervised, Between
<1>2. ASSUME Retry(s)
      PROVE  /\ worker' = [worker EXCEPT ![s] = worker'[s]]
             /\ effects' = [effects EXCEPT ![s] = FALSE]
             /\ worker'[s] \in {"done", "backoff"}
  <2>1. CASE effects[s]
    BY <1>1, <1>2, <2>1 DEF Retry, EndWorker, WorkerTo
  <2>2. CASE ~effects[s]
    BY <1>1, <1>2, <2>2 DEF Retry, StayWorker, WorkerTo
  <2> QED
    BY <2>1, <2>2
<1>3. ASSUME NEW v, EndWorker(s, v)
      PROVE  /\ worker' = [worker EXCEPT ![s] = "done"]
             /\ effects' = [effects EXCEPT ![s] = FALSE]
  BY <1>3 DEF EndWorker, WorkerTo
<1>s. strays' = strays =>
        \E late \in SUBSET ((owned[s] \ owned'[s]) \cap Droppable) : strays' = strays \cup late
  <2>1. {} \in SUBSET ((owned[s] \ owned'[s]) \cap Droppable) /\ strays = strays \cup {}
    OBVIOUS
  <2> QED
    BY <2>1
<1>g. ASSUME Giving(s)
      PROVE  /\ \A t \in Session \ {s} : owned'[t] = owned[t]
             /\ \E late \in SUBSET ((owned[s] \ owned'[s]) \cap Droppable) :
                  strays' = strays \cup late
  BY <1>g, GivingGivesBack, GivenBack DEF Inv
<1> USE <1>1, <1>s DEF WorkerMove, Between, taskVars, handleVars, supVars, WorkerTo, Teardown,
                 OpenMicrophone
<1>4. CASE LoopTop(s)
  <2>1. CASE cancel[s]
    BY <1>3, <1>4, <2>1 DEF LoopTop
  <2>2. CASE ~cancel[s]
    BY <1>4, <2>2 DEF LoopTop, StayWorker
  <2> QED
    BY <2>1, <2>2
<1>5. CASE GateOpen(s)
  BY <1>5 DEF GateOpen
<1>6. CASE GateClosed(s)
  BY <1>2, <1>6 DEF GateClosed
<1>7. CASE CreatePeer(s) \/ Connected(s)
  BY <1>7 DEF CreatePeer, Connected
<1>8. CASE ConnectFailed(s)
  <2>1. owned'[s] = {}
    BY <1>8 DEF ConnectFailed, GiveBack
  <2> QED
    BY <1>2, <1>8, <1>g, <2>1 DEF ConnectFailed, Giving
<1>9. CASE SetupDone(s)
  BY <1>9 DEF SetupDone
<1>10. CASE SetupFailed(s)
  BY <1>10 DEF SetupFailed
<1>11. CASE CheckActivation(s)
  BY <1>11 DEF CheckActivation
<1>12. CASE EnterPrewarm(s)
  BY <1>12 DEF EnterPrewarm
<1>13. CASE PrewarmCancelled(s)
  BY <1>13 DEF PrewarmCancelled
<1>14. CASE PrewarmActivated(s)
  BY <1>14 DEF PrewarmActivated
<1>15. CASE PrewarmLost(s)
  <2>1. owned'[s] = {}
    BY <1>15 DEF PrewarmLost, GiveBack
  <2> QED
    BY <1>2, <1>15, <1>g, <2>1 DEF PrewarmLost, Giving
<1>16. CASE HandleInterrupt(s)
  BY <1>16 DEF HandleInterrupt
<1>17. CASE StartAplay(s)
  BY <1>17 DEF StartAplay
<1>18. CASE StartTool(s)
  BY <1>18 DEF StartTool
<1>19. ASSUME NEW v, LiveEnds(s, v)
       PROVE  WorkerMove(s)
  BY <1>19 DEF LiveEnds
<1>20. CASE LiveCancelled(s)
  BY <1>19, <1>20 DEF LiveCancelled
<1>21. CASE ReleaseTransport(s)
  BY <1>21, <1>g DEF ReleaseTransport, Giving
<1>22. ASSUME NEW clean \in BOOLEAN, ReleasePlayer(s, clean)
       PROVE  WorkerMove(s)
  <2>1. owned'[s] = {}
    BY <1>22 DEF ReleasePlayer, GiveBack
  <2>2. CASE verdict[s] = "err"
    BY <1>2, <1>22, <1>g, <2>1, <2>2 DEF ReleasePlayer, Giving
  <2>3. CASE verdict[s] # "err"
    BY <1>3, <1>22, <1>g, <2>1, <2>3 DEF ReleasePlayer, Giving
  <2> QED
    BY <2>2, <2>3
<1>23. CASE BackoffElapsed(s)
  <2>1. CASE attempt[s] = Reconnects
    BY <1>3, <1>23, <2>1 DEF BackoffElapsed
  <2>2. CASE attempt[s] # Reconnects
    BY <1>23, <2>2 DEF BackoffElapsed
  <2> QED
    BY <2>1, <2>2
<1>24. CASE BackoffCancelled(s)
  BY <1>3, <1>24 DEF BackoffCancelled
<1> QED
  BY <1>4, <1>5, <1>6, <1>7, <1>8, <1>9, <1>10, <1>11, <1>12, <1>13, <1>14, <1>15,
     <1>16, <1>17, <1>18, <1>19, <1>20, <1>21, <1>22, <1>23, <1>24
  DEF WorkerStep, WorkerEvent

\* Worker steps keep the invariant, because they are moves.
LEMMA WorkerKeepsInv ==
  ASSUME Inv, NEW s \in Session, WorkerStep(s) \/ WorkerEvent(s) \/ HandleInterrupt(s)
  PROVE  Inv'
<1>1. TypeOK'
  BY WorkerTypes DEF Inv
<1>2. WorkerMove(s)
  BY WorkerMoves
<1>3. SlotOwned'
  BY <1>2 DEF Inv, SlotOwned, WorkerMove
<1>4. WorkerSupervised'
  BY <1>2 DEF Inv, WorkerSupervised, WorkerMove, Lifecycle, Between
<1>5. Lifecycle'
  BY <1>2 DEF Inv, Lifecycle, WorkerSupervised, WorkerMove, Completed
<1>6. EffectsRemembered'
  BY <1>2 DEF Inv, EffectsRemembered, WorkerMove
<1> QED
  BY <1>1, <1>3, <1>4, <1>5, <1>6 DEF Inv

\* A call of the handle keeps it: it changes watch values only.
LEMMA HandleKeepsInv ==
  ASSUME Inv, NEW s \in Session, Handle(s)
  PROVE  Inv'
<1>1. TypeOK'
  BY HandleTypes DEF Inv
<1> USE DEF Inv, TypeOK, SlotOwned, WorkerSupervised, Lifecycle, EffectsRemembered, Completed
<1>2. CASE Prepare(s)
  <2>1. SlotOwned'
    BY <1>2 DEF Prepare
  <2>2. WorkerSupervised'
    BY <1>2 DEF Prepare
  <2>3. Lifecycle'
    BY <1>2 DEF Prepare
  <2>4. EffectsRemembered'
    BY <1>2 DEF Prepare
  <2> QED
    BY <1>1, <2>1, <2>2, <2>3, <2>4
<1>3. CASE Activate(s) \/ Interrupt(s) \/ RequestCancel(s) \/ SendCancel(s)
  <2>1. UNCHANGED <<task, slot, workerVars, supVars>>
    BY <1>3 DEF Activate, Interrupt, RequestCancel, SendCancel, taskVars
  <2> QED
    BY <1>1, <2>1 DEF workerVars, supVars
<1> QED
  BY <1>2, <1>3 DEF Handle

\* The claim is the only step that gives the slot away, and it finds it empty:
\* a session in the slot has not published its outcome.
LEMMA FreeSlotIsEmpty ==
  ASSUME Inv, SlotFree
  PROVE  slot = NoSession
<1>1. ASSUME slot \in Session
      PROVE  FALSE
  BY <1>1 DEF Inv, SlotFree, SlotOwned, Lifecycle, Completed
<1> QED
  BY <1>1 DEF Inv, TypeOK

\* The task keeps it: a claim needs a free slot.
LEMMA TaskKeepsInv ==
  ASSUME Inv, NEW s \in Session, TaskStep(s)
  PROVE  Inv'
<1>1. TypeOK'
  BY TaskTypes DEF Inv
<1> USE DEF Inv, TypeOK, SlotOwned, WorkerSupervised, Lifecycle, EffectsRemembered, Completed,
            handleVars, workerVars, supVars
<1>2. CASE StartRun(s)
  BY <1>1, <1>2 DEF StartRun
<1>3. CASE ToolsResolved(s)
  BY <1>1, <1>3 DEF ToolsResolved
<1>4. CASE ToolsFailed(s)
  BY <1>1, <1>4 DEF ToolsFailed, LeaveRun
<1>5. CASE Claim(s)
  <2>1. slot = NoSession
    BY <1>5, FreeSlotIsEmpty DEF Claim
  <2>2. SlotOwned'
    BY <1>5, <2>1, SlotAssumption DEF Claim
  <2>3. WorkerSupervised'
    BY <1>5 DEF Claim
  <2>4. Lifecycle'
    BY <1>5 DEF Claim
  <2>5. EffectsRemembered'
    BY <1>5 DEF Claim
  <2> QED
    BY <1>1, <2>2, <2>3, <2>4, <2>5
<1>6. CASE Refuse(s)
  BY <1>1, <1>6 DEF Refuse, LeaveRun
<1>7. CASE RunReturns(s)
  BY <1>1, <1>7 DEF RunReturns, LeaveRun
<1>8. CASE FinishTask(s)
  BY <1>1, <1>8 DEF FinishTask
<1> QED
  BY <1>2, <1>3, <1>4, <1>5, <1>6, <1>7, <1>8 DEF TaskStep

\* The supervisor keeps it: it clears the slot after the worker has been joined.
LEMMA SupKeepsInv ==
  ASSUME Inv, NEW s \in Session, SupStep(s)
  PROVE  Inv'
<1>1. TypeOK'
  BY SupTypes DEF Inv
<1> USE DEF Inv, TypeOK, SlotOwned, WorkerSupervised, Lifecycle, EffectsRemembered, Completed,
            taskVars, workerVars, Consume
<1>2. CASE WorkerJoined(s)
  BY <1>1, <1>2 DEF WorkerJoined, FromWorker
<1>3. CASE SeeCancel(s)
  BY <1>1, <1>3 DEF SeeCancel
<1>4. CASE GraceExpires(s)
  BY <1>1, <1>4 DEF GraceExpires
<1>5. CASE OverdueJoined(s)
  BY <1>1, <1>5 DEF OverdueJoined
<1>6. CASE ClearActive(s)
  <2>1. slot' = NoSession
    BY <1>6 DEF ClearActive
  <2>2. SlotOwned'
    BY <1>6, <2>1, SlotAssumption DEF ClearActive
  <2> QED
    BY <1>1, <1>6, <2>2 DEF ClearActive
<1>7. CASE Report(s)
  BY <1>1, <1>7 DEF Report
<1> QED
  BY <1>2, <1>3, <1>4, <1>5, <1>6, <1>7 DEF SupStep

\* So does a step of something else.
LEMMA StutterKeepsInv ==
  ASSUME Inv, UNCHANGED vars \/ StrayEnds
  PROVE  Inv'
BY DEF StrayEnds, Inv, TypeOK, SlotOwned, WorkerSupervised, Lifecycle, EffectsRemembered, Completed,
       vars, taskVars, handleVars, workerVars, supVars

\* Inv is an invariant.
THEOREM Invariant == Spec => []Inv
<1>1. Init => Inv
  <2> SUFFICES ASSUME Init
               PROVE  Inv
    OBVIOUS
  <2>1. TypeOK
    BY ReconnectsAssumption
    DEF Init, TypeOK, TaskState, WorkerState, SupState, SetupPhase, Verdict, Terminal
  <2>2. SlotOwned /\ WorkerSupervised
    BY SlotAssumption DEF Init, SlotOwned, WorkerSupervised
  <2>3. Lifecycle /\ EffectsRemembered
    BY DEF Init, Lifecycle, EffectsRemembered, Completed
  <2> QED
    BY <2>1, <2>2, <2>3 DEF Inv
<1>2. Inv /\ [Next]_vars => Inv'
  <2>1. ASSUME Inv, NEW s \in Session, Internal(s) \/ Handle(s)
        PROVE  Inv'
    BY <2>1, HandleKeepsInv, TaskKeepsInv, WorkerKeepsInv, SupKeepsInv DEF Internal
  <2> QED
    BY <2>1, StutterKeepsInv DEF Next
<1> QED
  BY <1>1, <1>2, PTL DEF Spec

-------------------------------------------------------------------------------
(***************************************************************************)
(* What follows.                                                           *)
(***************************************************************************)

\* The state of every session stays in its type.
THEOREM TypeCorrect == Spec => []TypeOK
BY Invariant, PTL DEF Inv

\* The slot belongs to exactly the session whose supervisor has not cleared it.
THEOREM SlotCorrect == Spec => []SlotOwned
BY Invariant, PTL DEF Inv

\* A worker runs only under a supervisor that still waits for it, however its
\* session was cancelled, forced or lost, and what a worker leaves behind is a
\* stray: between attempts, and when it is over, a session holds nothing.
THEOREM Supervised == Spec => []WorkerSupervised
BY Invariant, PTL DEF Inv

\* Every session goes through its stations in order and publishes one outcome,
\* from a supervisor that has joined its worker.
THEOREM StationsInOrder == Spec => []Lifecycle
BY Invariant, PTL DEF Inv

\* What a tool may have done is not forgotten before the attempt is over.
THEOREM EffectsKept == Spec => []EffectsRemembered
BY Invariant, PTL DEF Inv

\* However many sessions replace each other, and however late a cancelled worker
\* is, two sessions never hold devices at the same time: never two players or two
\* audio processes, and no peer or capture that is not a stray beside the owner's.
THEOREM Exclusive == Spec => []ExclusiveDevices
<1>1. Inv => ExclusiveDevices
  <2> SUFFICES ASSUME Inv, NEW s \in Session, NEW t \in Session,
                      s # t, owned[s] # {}, owned[t] # {}
               PROVE  FALSE
    BY DEF ExclusiveDevices
  <2>1. ASSUME NEW r \in Session, owned[r] # {}
        PROVE  slot = r
    <3>1. worker[r] \notin {"none", "done"}
      BY <2>1 DEF Inv, WorkerSupervised
    <3> QED
      BY <3>1 DEF Inv, WorkerSupervised, SlotOwned
  <2> QED
    BY <2>1
<1> QED
  BY <1>1, Invariant, PTL

\* Which step takes a device: a peer comes from connecting, a player or an aplay
\* only while the setup gate is open.
TakesWell(s) ==
  /\ "peer" \in owned'[s] \ owned[s] => worker[s] = "connecting"
  /\ owned'[s] \cap {"player", "aplay"} \subseteq owned[s] \/ phase[s] # "Cancelled"

\* A worker takes a device only through the open gate.
LEMMA WorkerTakesWell ==
  ASSUME Inv, NEW s \in Session, WorkerStep(s) \/ WorkerEvent(s) \/ HandleInterrupt(s)
  PROVE  TakesWell(s)
<1>1. phase \in [Session -> SetupPhase] /\ owned \in [Session -> SUBSET Device]
  BY DEF Inv, TypeOK
<1> USE <1>1 DEF TakesWell
<1>2. CASE LoopTop(s) \/ GateClosed(s) \/ SetupDone(s) \/ SetupFailed(s) \/ EnterPrewarm(s)
           \/ PrewarmCancelled(s) \/ StartTool(s) \/ BackoffElapsed(s) \/ BackoffCancelled(s)
  BY <1>2 DEF LoopTop, GateClosed, SetupDone, SetupFailed, EnterPrewarm, PrewarmCancelled,
              StartTool, BackoffElapsed, BackoffCancelled
<1>3. CASE GateOpen(s) \/ StartAplay(s)
  BY <1>3 DEF GateOpen, StartAplay
<1>4. CASE CreatePeer(s) \/ Connected(s)
  BY <1>4 DEF CreatePeer, Connected
<1>5. CASE HandleInterrupt(s)
  BY <1>5 DEF HandleInterrupt
<1>g. CASE Giving(s)
  <2>1. owned'[s] \subseteq owned[s]
    BY <1>g, GivingGivesBack, GivenBack DEF Inv
  <2> QED
    BY <2>1
<1>6. CASE CheckActivation(s)
  BY <1>6 DEF CheckActivation, OpenMicrophone
<1>7. CASE PrewarmActivated(s)
  BY <1>7 DEF PrewarmActivated, OpenMicrophone
<1>8. ASSUME NEW v, LiveEnds(s, v)
      PROVE  TakesWell(s)
  BY <1>8 DEF LiveEnds
<1>9. CASE LiveCancelled(s)
  BY <1>8, <1>9 DEF LiveCancelled
<1> QED
  BY <1>2, <1>3, <1>4, <1>5, <1>6, <1>7, <1>8, <1>9, <1>g DEF WorkerStep, WorkerEvent, Giving

\* Nobody else takes or gives back a device.
LEMMA OthersTakeNothing ==
  ASSUME Inv, NEW s \in Session, Handle(s) \/ TaskStep(s) \/ SupStep(s)
  PROVE  UNCHANGED <<owned, strays>>
BY DEF Handle, Prepare, LeaveRun, Activate, Interrupt, RequestCancel, SendCancel, TaskStep,
       StartRun, ToolsResolved, ToolsFailed, Claim, Refuse, RunReturns, FinishTask,
       SupStep, WorkerJoined, SeeCancel, GraceExpires, OverdueJoined, ClearActive,
       Report, Consume, workerVars

\* The same for every step of the system and every session.
LEMMA StepTakesWell ==
  ASSUME Inv, Next, NEW t \in Session
  PROVE  TakesWell(t)
<1>1. CASE StrayEnds
  BY <1>1 DEF StrayEnds, TakesWell
<1>2. ASSUME NEW s \in Session, Handle(s) \/ TaskStep(s) \/ SupStep(s)
      PROVE  TakesWell(t)
  BY <1>2, OthersTakeNothing DEF TakesWell
<1>3. ASSUME NEW s \in Session, WorkerStep(s) \/ WorkerEvent(s) \/ HandleInterrupt(s)
      PROVE  TakesWell(t)
  <2>1. CASE s = t
    BY <1>3, <2>1, WorkerTakesWell
  <2>2. CASE s # t
    BY <1>3, <2>2, WorkerMoves DEF WorkerMove, TakesWell
  <2> QED
    BY <2>1, <2>2
<1> QED
  BY <1>1, <1>2, <1>3 DEF Next, Internal

\* After the gate is closed no step gives the session a player or an aplay.
THEOREM GateHolds == Spec => CancelledStartsNoPlayer
<1>1. Inv /\ [Next]_vars =>
        [\A s \in Session :
           phase[s] = "Cancelled" /\ phase'[s] = "Cancelled" =>
             owned'[s] \cap {"player", "aplay"} \subseteq owned[s]]_vars
  BY StepTakesWell DEF TakesWell
<1> QED
  BY <1>1, Invariant, PTL DEF Spec, CancelledStartsNoPlayer

\* A session that remembers a tool effect is never in a state that connects.
THEOREM EffectsNotRepeated == Spec => NoReconnectAfterEffects
<1>1. Inv /\ [Next]_vars =>
        [\A s \in Session :
           effects[s] /\ effects'[s] => owned'[s] \cap {"peer"} \subseteq owned[s]]_vars
  <2>1. ASSUME Inv, Next, NEW s \in Session, effects[s]
        PROVE  "peer" \notin owned'[s] \ owned[s]
    BY <2>1, StepTakesWell DEF TakesWell, Inv, EffectsRemembered
  <2> QED
    BY <2>1
<1> QED
  BY <1>1, Invariant, PTL DEF Spec, NoReconnectAfterEffects

-------------------------------------------------------------------------------
(***************************************************************************)
(* Refinement: slot, owned, strays and terminal are owner, held, abandoned *)
(* and outcome of ExclusiveSpeaker.                                        *)
(***************************************************************************)
LEMMA HandleRefines ==
  ASSUME Inv, NEW s \in Session, Handle(s)
  PROVE  [Speaker!Next]_(Speaker!vars)
<1>1. CASE Prepare(s)
  <2>1. sup[s] \in {"none", "done"} /\ worker[s] \in {"none", "done"}
    BY <1>1 DEF Prepare, Inv, Lifecycle
  <2>2. slot # s /\ owned[s] = {}
    BY <2>1 DEF Inv, SlotOwned, WorkerSupervised
  <2>3. Speaker!Renew(s)
    BY <1>1, <2>2 DEF Prepare, Speaker!Renew
  <2> QED
    BY <2>3 DEF Speaker!Next
<1>2. CASE Activate(s) \/ Interrupt(s) \/ RequestCancel(s) \/ SendCancel(s)
  BY <1>2 DEF Activate, Interrupt, RequestCancel, SendCancel, workerVars, supVars, Speaker!vars
<1> QED
  BY <1>1, <1>2 DEF Handle

\* Claiming is the abstract acquisition, failing before it a publication; the rest
\* of the task stutters.
LEMMA TaskRefines ==
  ASSUME Inv, NEW s \in Session, TaskStep(s)
  PROVE  [Speaker!Next]_(Speaker!vars)
<1>1. CASE StartRun(s) \/ ToolsResolved(s) \/ RunReturns(s) \/ FinishTask(s)
  BY <1>1 DEF StartRun, ToolsResolved, RunReturns, FinishTask, workerVars, supVars, Speaker!vars
<1>2. CASE ToolsFailed(s) \/ Refuse(s)
  <2>1. task[s] \in {"resolving", "claiming"} /\ terminal' = [terminal EXCEPT ![s] = "closed"]
        /\ UNCHANGED <<slot, owned, strays>>
    BY <1>2 DEF ToolsFailed, Refuse, workerVars
  <2>2. sup[s] = "none" /\ worker[s] = "none" /\ terminal[s] = "pending"
    BY <2>1 DEF Inv, Lifecycle
  <2>3. slot # s /\ owned[s] = {}
    BY <2>2 DEF Inv, SlotOwned, WorkerSupervised
  <2>4. Speaker!Publish(s)
    BY <2>1, <2>2, <2>3 DEF Speaker!Publish, Speaker!Outcome
  <2> QED
    BY <2>4 DEF Speaker!Next
<1>3. CASE Claim(s)
  <2>1. slot = NoSession
    BY <1>3, FreeSlotIsEmpty DEF Claim
  <2>2. terminal[s] = "pending"
    BY <1>3 DEF Claim, Inv, Lifecycle
  <2>3. Speaker!Acquire(s)
    BY <1>3, <2>1, <2>2 DEF Claim, Speaker!Acquire
  <2> QED
    BY <2>3 DEF Speaker!Next
<1> QED
  BY <1>1, <1>2, <1>3 DEF TaskStep

\* What a worker takes and gives back is taken and given back by the owner.
LEMMA WorkerRefines ==
  ASSUME Inv, NEW s \in Session, WorkerStep(s) \/ WorkerEvent(s) \/ HandleInterrupt(s)
  PROVE  [Speaker!Next]_(Speaker!vars)
<1>1. WorkerMove(s)
  BY WorkerMoves
<1>2. slot = s
  BY <1>1 DEF WorkerMove, Inv, WorkerSupervised, SlotOwned
<1>3. (owned \in [Session -> SUBSET Device])'
  BY WorkerKeepsInv DEF Inv, TypeOK
<1>4. Speaker!Use(s)
  BY <1>1, <1>2, <1>3 DEF WorkerMove, Speaker!Use
<1> QED
  BY <1>4 DEF Speaker!Next

\* Clearing the slot is the abstract release, reporting the publication.
LEMMA SupRefines ==
  ASSUME Inv, NEW s \in Session, SupStep(s)
  PROVE  [Speaker!Next]_(Speaker!vars)
<1>1. CASE WorkerJoined(s) \/ SeeCancel(s) \/ GraceExpires(s) \/ OverdueJoined(s)
  BY <1>1 DEF WorkerJoined, SeeCancel, GraceExpires, OverdueJoined, Consume, workerVars,
              Speaker!vars
<1>2. CASE ClearActive(s)
  <2>1. slot = s /\ worker[s] = "done"
    BY <1>2 DEF ClearActive, Inv, SlotOwned, Lifecycle
  <2>2. owned[s] = {}
    BY <2>1 DEF Inv, WorkerSupervised
  <2>3. Speaker!Release(s)
    BY <1>2, <2>1, <2>2 DEF ClearActive, Speaker!Release, workerVars
  <2> QED
    BY <2>3 DEF Speaker!Next
<1>3. CASE Report(s)
  <2>1. slot # s /\ worker[s] = "done" /\ terminal[s] = "pending"
        /\ outcome[s] \in {"clean", "failed", "forced"}
    BY <1>3 DEF Report, Inv, SlotOwned, Lifecycle
  <2>2. owned[s] = {}
    BY <2>1 DEF Inv, WorkerSupervised
  <2>3. Speaker!Publish(s)
    BY <1>3, <2>1, <2>2 DEF Report, Speaker!Publish, Speaker!Outcome, workerVars
  <2> QED
    BY <2>3 DEF Speaker!Next
<1> QED
  BY <1>1, <1>2, <1>3 DEF SupStep

\* The supervisor, the task and the worker together implement exclusive ownership
\* of the speaker: nobody takes it from an owner, only the owner uses it, what is
\* published comes after everything was given back or abandoned, and only a peer or
\* a capture, and only one's own, can be abandoned.
THEOREM Refinement == Spec => ImplementsExclusiveSpeaker
<1>1. Init => Speaker!Init
  BY DEF Init, Speaker!Init
<1>2. Inv /\ [Next]_vars => [Speaker!Next]_(Speaker!vars)
  <2>1. ASSUME Inv, NEW s \in Session, Internal(s) \/ Handle(s)
        PROVE  [Speaker!Next]_(Speaker!vars)
    BY <2>1, HandleRefines, TaskRefines, WorkerRefines, SupRefines DEF Internal
  <2>2. UNCHANGED vars => UNCHANGED Speaker!vars
    BY DEF vars, workerVars, supVars, Speaker!vars
  <2>3. StrayEnds => Speaker!Expire
    BY DEF StrayEnds, Speaker!Expire, supVars
  <2> QED
    BY <2>1, <2>2, <2>3 DEF Next, Speaker!Next
<1> QED
  BY <1>1, <1>2, Invariant, PTL DEF Spec, ImplementsExclusiveSpeaker, Speaker!Spec


--------------------------------------------------------------------------------
(* The main loop *)

\* Where the loop is tells which one of its four turns there may be.
OneTurn ==
  /\ main \in MainState /\ resume \in {"age", "reap"}
  /\ active \in Turn /\ warm \in Turn /\ turn \in Turn /\ victim \in Turn
  /\ main \in {"starting", "preparing", "activating", "closing", "joining"} => active = NoSession
  /\ main \in {"starting", "activating", "closing", "joining"} \/ active # NoSession
       => warm = NoSession
  /\ turn # NoSession <=> main = "activating"
  /\ victim # NoSession <=> main \in {"closing", "joining"}

\* The active turn is one a wake word has activated.
ActiveAwoken ==
  /\ awoken \in [Session -> BOOLEAN]
  /\ active # NoSession => awoken[active]

\* Only a session that was woken may be told, or hold the microphone.
WokenOnly ==
  \A s \in Session : activation[s] \/ "capture" \in owned[s] => awoken[s]

LoopInv == OneTurn /\ ActiveAwoken /\ NoOrphan /\ WokenOnly

--------------------------------------------------------------------------------
\* The loop itself moves its turns as OneTurn says, whatever the sessions do.
LEMMA OneTurnKept ==
  ASSUME OneTurn, [LoopNext]_allVars
  PROVE  OneTurn'
<1> USE DEF OneTurn, MainState, Turn, turnVars
<1>1. CASE UNCHANGED allVars
  BY <1>1 DEF allVars, loopVars
<1>2. CASE Wake
  BY <1>2 DEF Wake, WakeInterrupts, WakeReplaces, loopVars
<1>3. CASE Tick
  BY <1>3, SlotAssumption DEF Tick, TickStarts, TickJoinsActive
<1>4. CASE MainStep
  <2>1. CASE Start \/ TakeWarm \/ SpawnCold \/ ActivateTurn
    BY <2>1, SlotAssumption DEF Start, TakeWarm, SpawnCold, ActivateTurn
  <2>2. CASE RetireSends \/ RetireJoins
    BY <2>2 DEF RetireSends, RetireJoins
  <2>3. CASE TickRotates \/ TickRetiresOld
    BY <2>3 DEF TickRotates, TickRetiresOld, Retire
  <2>4. CASE TickNotesGeneration \/ TickFindsYoung \/ TickReaps \/ TickRespawns \/ TickEnds
    BY <2>4, SlotAssumption
    DEF TickNotesGeneration, TickFindsYoung, TickReaps, TickRespawns, TickEnds
  <2> QED
    BY <1>4, <2>1, <2>2, <2>3, <2>4 DEF MainStep
<1>5. CASE McpReconnected
  BY <1>5 DEF McpReconnected
<1>6. CASE \E s \in Session : SessionStep(s)
  BY <1>6 DEF SessionStep, LoopFrame
<1>7. CASE StrayEnds /\ UNCHANGED loopVars
  BY <1>7 DEF loopVars
<1> QED
  BY <1>1, <1>2, <1>3, <1>4, <1>5, <1>6, <1>7 DEF LoopNext

\* What a step of the loop does to the sessions.
LEMMA LoopStepIsStep ==
  ASSUME OneTurn, [LoopNext]_allVars
  PROVE  [Next]_vars
<1>0. UNCHANGED sessionVars => UNCHANGED vars
  BY DEF sessionVars, vars, taskVars, handleVars, workerVars, supVars
<1>a. \A s \in Session : Handle(s) \/ Internal(s) => Next
  BY DEF Next
<1>1. CASE UNCHANGED allVars
  BY <1>0, <1>1 DEF allVars
<1>2. CASE Wake
  BY <1>0, <1>2, <1>a DEF Wake, WakeInterrupts, WakeReplaces, Handle
<1>3. CASE Tick
  BY <1>0, <1>3, <1>a DEF Tick, TickStarts, TickJoinsActive, Spawn, Handle
<1>4. CASE MainStep
  <2>1. CASE Start \/ SpawnCold \/ TickRespawns
    BY <1>a, <2>1 DEF Start, SpawnCold, TickRespawns, Spawn, Handle
  <2>2. CASE ActivateTurn
    <3>1. turn \in Session
      BY <2>2 DEF ActivateTurn, OneTurn, Turn
    <3> QED
      BY <1>a, <2>2, <3>1 DEF ActivateTurn, Handle
  <2>3. CASE RetireSends
    <3>1. victim \in Session
      BY <2>3 DEF RetireSends, OneTurn, Turn
    <3> QED
      BY <1>0, <1>a, <2>3, <3>1 DEF RetireSends, Handle
  <2>4. CASE TickRotates \/ TickRetiresOld
    <3>1. warm \in Session /\ RequestCancel(warm)
      BY <2>4 DEF TickRotates, TickRetiresOld, Retire, OneTurn, Turn
    <3> QED
      BY <1>a, <3>1 DEF Handle
  <2>5. CASE TakeWarm \/ RetireJoins \/ TickNotesGeneration \/ TickFindsYoung \/ TickReaps
             \/ TickEnds
    BY <1>0, <2>5 DEF TakeWarm, RetireJoins, TickNotesGeneration, TickFindsYoung, TickReaps,
                      TickEnds
  <2> QED
    BY <1>4, <2>1, <2>2, <2>3, <2>4, <2>5 DEF MainStep
<1>5. CASE McpReconnected
  BY <1>0, <1>5 DEF McpReconnected
<1>6. CASE \E s \in Session : SessionStep(s)
  BY <1>a, <1>6 DEF SessionStep
<1>7. CASE StrayEnds
  BY <1>7 DEF Next
<1> QED
  BY <1>1, <1>2, <1>3, <1>4, <1>5, <1>6, <1>7 DEF LoopNext

LEMMA OneTurnFirst == LoopInit => OneTurn
BY DEF LoopInit, OneTurn, MainState, Turn

LEMMA OneTurnAlways == LoopSpec => []OneTurn
BY OneTurnFirst, OneTurnKept, PTL DEF LoopSpec

\* The sessions of the loop behave as those of NativeSession, so every theorem about them holds:
\* the loop calls the handles as their owner may.
THEOREM LoopImplementsSessions == LoopSpec => Spec
<1>1. LoopInit => Init
  BY DEF LoopInit
<1>2. OneTurn /\ [LoopNext]_allVars => [Next]_vars
  BY LoopStepIsStep
<1> QED
  BY <1>1, <1>2, OneTurnAlways, PTL DEF LoopSpec, Spec

--------------------------------------------------------------------------------
\* A session about to be prepared holds nothing.
LEMMA BornEmpty ==
  ASSUME Inv, NEW s \in Session, task[s] \in {"unborn", "finished"}
  PROVE  owned[s] = {}
<1>1. sup[s] \in {"none", "done"}
  BY DEF Inv, Lifecycle
<1>2. worker[s] \in {"none", "done"}
  BY <1>1 DEF Inv, Lifecycle
<1> QED
  BY <1>2 DEF Inv, WorkerSupervised

\* What a session does by itself: it neither comes to life nor is told, and opens the microphone
\* only when it was told.
Quiet(s) ==
  /\ \A t \in Session : task'[t] \notin {"unborn", "finished"} => task[t] \notin {"unborn", "finished"}
  /\ \A t \in Session : activation'[t] => activation[t]
  /\ \A t \in Session : "capture" \in owned'[t] => "capture" \in owned[t] \/ activation[t]

LEMMA InternalQuiet ==
  ASSUME TypeOK, NEW s \in Session, Internal(s)
  PROVE  Quiet(s)
<1> USE DEF TypeOK, Quiet, taskVars, handleVars, workerVars, supVars
<1>1. CASE TaskStep(s)
  BY <1>1 DEF TaskStep, StartRun, ToolsResolved, ToolsFailed, Claim, Refuse, RunReturns, FinishTask,
              LeaveRun
<1>2. CASE WorkerStep(s)
  <2>0. UNCHANGED <<task, activation>>
    BY <1>2 DEF WorkerStep, LoopTop, GateOpen, GateClosed, CreatePeer, Connected, ConnectFailed, SetupDone,
                SetupFailed, CheckActivation, EnterPrewarm, PrewarmCancelled, PrewarmActivated,
                OpenMicrophone, LiveCancelled, LiveEnds, ReleaseTransport, ReleasePlayer,
                BackoffElapsed, BackoffCancelled
  <2>1. CASE GateOpen(s)
    BY <2>0, <2>1 DEF GateOpen
  <2>2. CASE CreatePeer(s) \/ Connected(s)
    BY <2>0, <2>2 DEF CreatePeer, Connected
  <2>3. CASE CheckActivation(s) \/ PrewarmActivated(s)
    BY <2>0, <2>3 DEF CheckActivation, PrewarmActivated, OpenMicrophone
  <2>4. CASE ConnectFailed(s) \/ ReleaseTransport(s) \/ (\E clean \in BOOLEAN : ReleasePlayer(s, clean))
    BY <2>0, <2>4, GivingGivesBack, GivenBack DEF Giving
  <2>5. CASE LoopTop(s) \/ GateClosed(s) \/ SetupDone(s) \/ SetupFailed(s) \/ EnterPrewarm(s)
             \/ PrewarmCancelled(s) \/ LiveCancelled(s) \/ BackoffElapsed(s) \/ BackoffCancelled(s)
    BY <2>0, <2>5 DEF LoopTop, GateClosed, SetupDone, SetupFailed, EnterPrewarm, PrewarmCancelled,
                      LiveCancelled, LiveEnds, BackoffElapsed, BackoffCancelled
  <2> QED
    BY <1>2, <2>1, <2>2, <2>3, <2>4, <2>5 DEF WorkerStep
<1>3. CASE WorkerEvent(s) \/ HandleInterrupt(s)
  BY <1>3, GivingGivesBack, GivenBack
  DEF Giving, WorkerEvent, PrewarmLost, StartAplay, StartTool, LiveEnds, HandleInterrupt
<1>4. CASE SupStep(s)
  BY <1>4 DEF SupStep, WorkerJoined, SeeCancel, GraceExpires, OverdueJoined, ClearActive, Report,
              Consume
<1> QED
  BY <1>1, <1>2, <1>3, <1>4 DEF Internal

\* A step that prepares session s, keeps every turn that still runs, and makes s one of them.
LEMMA SpawnKeeps ==
  ASSUME Inv, LoopInv, OneTurn', NEW s \in Session, Spawn(s), active' = NoSession,
         s \in {warm', turn'},
         {t \in {active, warm, turn, victim} \cap Session : ~Finished(t)} = {}
  PROVE  LoopInv'
<1>1. /\ task' = [task EXCEPT ![s] = "spawned"] /\ activation' = [activation EXCEPT ![s] = FALSE]
      /\ owned' = owned /\ owned[s] = {} /\ awoken' = [awoken EXCEPT ![s] = FALSE]
  BY BornEmpty DEF Spawn, Prepare
<1>2. NoOrphan'
  BY <1>1 DEF LoopInv, NoOrphan, Inv, TypeOK, Finished
<1>3. ActiveAwoken' /\ WokenOnly'
  BY <1>1 DEF LoopInv, ActiveAwoken, WokenOnly, Inv, TypeOK
<1> QED
  BY <1>2, <1>3 DEF LoopInv

LEMMA LoopInvKept ==
  ASSUME Inv, LoopInv, [LoopNext]_allVars
  PROVE  LoopInv'
<1>0. OneTurn'
  BY OneTurnKept DEF LoopInv
<1>a. UNCHANGED sessionVars /\ UNCHANGED awoken /\ ActiveAwoken' /\ NoOrphan' => LoopInv'
  BY <1>0 DEF LoopInv, WokenOnly, sessionVars
<1> USE DEF LoopInv, Inv, TypeOK
<1>1. CASE UNCHANGED allVars
  BY <1>0, <1>1, <1>a DEF allVars, loopVars, turnVars, sessionVars, ActiveAwoken, NoOrphan
<1>2. CASE WakeInterrupts
  BY <1>0, <1>2 DEF WakeInterrupts, Interrupt, loopVars, turnVars, ActiveAwoken, NoOrphan,
                    WokenOnly, taskVars, workerVars
<1>3. CASE WakeReplaces
  <2>1. active = NoSession \/ Finished(active)
    BY <1>3 DEF WakeReplaces, Interruptible, ActiveAwoken
  <2>2. ActiveAwoken' /\ NoOrphan'
    BY <1>3, <2>1, SlotAssumption DEF WakeReplaces, sessionVars, ActiveAwoken, NoOrphan, Finished
  <2> QED
    BY <1>3, <1>a, <2>2 DEF WakeReplaces
<1>4. CASE Start
  <2>1. PICK s \in Session : Spawn(s) /\ warm' = s
    BY <1>4 DEF Start
  <2>2. {t \in {active, warm, turn, victim} \cap Session : ~Finished(t)} = {} /\ active' = NoSession
    BY <1>4, SlotAssumption DEF Start, OneTurn
  <2> QED
    BY <1>0, <2>1, <2>2, SpawnKeeps
<1>5. CASE TakeWarm
  BY <1>0, <1>5, <1>a, SlotAssumption DEF TakeWarm, OneTurn, sessionVars, ActiveAwoken, NoOrphan
<1>6. CASE SpawnCold
  <2>1. PICK s \in Session : Spawn(s) /\ turn' = s
    BY <1>6 DEF SpawnCold
  <2>2. {t \in {active, warm, turn, victim} \cap Session : ~Finished(t)} = {} /\ active' = NoSession
    BY <1>6, SlotAssumption DEF SpawnCold, OneTurn
  <2> QED
    BY <1>0, <2>1, <2>2, SpawnKeeps
<1>7. CASE ActivateTurn
  <2>1. /\ turn \in Session /\ active' = turn /\ active = NoSession /\ victim' = victim /\ warm' = warm
        /\ awoken' = [awoken EXCEPT ![turn] = TRUE]
        /\ UNCHANGED <<task, owned>>
        /\ \A t \in Session \ {turn} : activation'[t] = activation[t]
    BY <1>7 DEF ActivateTurn, Activate, OneTurn, Turn, taskVars, workerVars
  <2>2. ActiveAwoken' /\ WokenOnly'
    BY <2>1 DEF ActiveAwoken, WokenOnly
  <2>3. NoOrphan'
    BY <2>1, SlotAssumption DEF NoOrphan
  <2> QED
    BY <1>0, <2>2, <2>3
<1>8. CASE TickJoinsActive
  <2>1. PICK s \in Session : Spawn(s) /\ warm' = s
    BY <1>8 DEF TickJoinsActive
  <2>2. {t \in {active, warm, turn, victim} \cap Session : ~Finished(t)} = {} /\ active' = NoSession
    BY <1>8, SlotAssumption DEF TickJoinsActive, OneTurn
  <2> QED
    BY <1>0, <2>1, <2>2, SpawnKeeps
<1>9. CASE TickStarts \/ TickNotesGeneration \/ TickFindsYoung \/ TickEnds
  BY <1>0, <1>9, <1>a DEF TickStarts, TickNotesGeneration, TickFindsYoung, TickEnds, turnVars,
                          sessionVars, ActiveAwoken, NoOrphan
<1>10. CASE RetireSends
  <2>1. UNCHANGED <<task, activation, owned, awoken, active, warm, turn, victim>>
    BY <1>10 DEF RetireSends, SendCancel, sessionVars, turnVars, taskVars, workerVars
  <2> QED
    BY <1>0, <2>1 DEF ActiveAwoken, NoOrphan, WokenOnly
<1>11. CASE RetireJoins
  <2>1. UNCHANGED <<task, awoken, active, warm, turn>> /\ Finished(victim)
    BY <1>11 DEF RetireJoins, sessionVars
  <2> QED
    BY <1>0, <1>11, <1>a, <2>1 DEF RetireJoins, ActiveAwoken, NoOrphan, Finished
<1>12. CASE TickRotates \/ TickRetiresOld
  <2>1. /\ UNCHANGED <<task, activation, owned, awoken, active, turn>>
        /\ victim' = warm /\ victim = NoSession
    BY <1>12 DEF TickRotates, TickRetiresOld, Retire, RequestCancel, OneTurn, taskVars, workerVars
  <2> QED
    BY <1>0, <2>1, SlotAssumption DEF ActiveAwoken, NoOrphan, WokenOnly
<1>13. CASE TickReaps
  BY <1>0, <1>13, <1>a DEF TickReaps, sessionVars, ActiveAwoken, NoOrphan, Finished
<1>14. CASE TickRespawns
  <2>1. PICK s \in Session : Spawn(s) /\ warm' = s
    BY <1>14 DEF TickRespawns
  <2>2. {t \in {active, warm, turn, victim} \cap Session : ~Finished(t)} = {} /\ active' = NoSession
    BY <1>14, SlotAssumption DEF TickRespawns, OneTurn
  <2> QED
    BY <1>0, <2>1, <2>2, SpawnKeeps
<1>15. CASE McpReconnected
  BY <1>0, <1>15, <1>a DEF McpReconnected, turnVars, sessionVars, ActiveAwoken, NoOrphan
<1>16. ASSUME NEW s \in Session, SessionStep(s)
       PROVE  LoopInv'
  <2>1. Quiet(s) /\ UNCHANGED <<awoken, active, warm, turn, victim>>
    BY <1>16, InternalQuiet DEF SessionStep, LoopFrame, turnVars
  <2> QED
    BY <1>0, <2>1 DEF Quiet, ActiveAwoken, NoOrphan, WokenOnly
<1>17. CASE StrayEnds /\ UNCHANGED loopVars
  BY <1>0, <1>17 DEF StrayEnds, taskVars, handleVars, loopVars, turnVars, ActiveAwoken, NoOrphan,
                     WokenOnly
<1> QED
  BY <1>1, <1>2, <1>3, <1>4, <1>5, <1>6, <1>7, <1>8, <1>9, <1>10, <1>11, <1>12, <1>13, <1>14,
     <1>15, <1>16, <1>17 DEF LoopNext, Wake, Tick, MainStep

LEMMA LoopInvFirst == LoopInit => LoopInv
<1> SUFFICES ASSUME LoopInit PROVE LoopInv
  OBVIOUS
<1>1. NoOrphan /\ ActiveAwoken /\ WokenOnly
  BY DEF LoopInit, Init, NoOrphan, ActiveAwoken, WokenOnly
<1> QED
  BY <1>1, OneTurnFirst DEF LoopInv

--------------------------------------------------------------------------------
\* The inductive invariant of the loop, beside that of its sessions.
THEOREM LoopInvariant == LoopSpec => [](Inv /\ LoopInv)
BY LoopInvFirst, LoopInvKept, LoopImplementsSessions, Invariant, PTL DEF LoopSpec

\* The loop never drops the handle of a session that still runs (main.rs, the wake and tick arms).
THEOREM NoneOrphaned == LoopSpec => []NoOrphan
BY LoopInvariant, PTL DEF LoopInv

\* Every session of the loop finds the slot free when it claims it: the one before it has been
\* joined (cancel_for_replacement).
THEOREM NoneRefused == LoopSpec => []NeverRefused
<1>1. Inv /\ LoopInv => NeverRefused
  <2> SUFFICES ASSUME Inv, LoopInv, NEW s \in Session, task[s] = "claiming", slot # NoSession
               PROVE  FALSE
    BY SlotAssumption DEF NeverRefused, SlotFree
  <2>1. slot \in Session /\ sup[slot] \in {"watching", "grace", "overdue", "clearing"}
    BY DEF Inv, TypeOK, SlotOwned
  <2>2. slot # s /\ task[slot] \notin {"unborn", "finished"}
    BY <2>1 DEF Inv, Lifecycle
  <2>3. s \in {active, warm, turn, victim} /\ slot \in {active, warm, turn, victim}
    BY <2>1, <2>2 DEF LoopInv, NoOrphan
  <2> QED
    BY <2>1, <2>2, <2>3, SlotAssumption DEF LoopInv, OneTurn
<1> QED
  BY <1>1, LoopInvariant, PTL

\* The microphone is open only in a session a wake word activated, however sessions are prewarmed,
\* reconnected, replaced and their numbers used again.
THEOREM WakeBeforeMicrophone == LoopSpec => []MicrophoneNeedsWake
<1>1. LoopInv => MicrophoneNeedsWake
  BY DEF LoopInv, WokenOnly, MicrophoneNeedsWake
<1> QED
  BY <1>1, LoopInvariant, PTL

--------------------------------------------------------------------------------
(***************************************************************************)
(* The keyword monitor.  Its slots are filled commands first and cleared   *)
(* audio first (SlotsLead), so a capture that finds the audio of a run     *)
(* also finds its commands.  Joined captures follow each other (InTurn).   *)
(* The run of a receiver is one that has begun, and never one that is      *)
(* still to fill its slots (Receivers).  Together they keep StartStands:   *)
(* ASR_START of a capture that streams from the running monitor is the     *)
(* last command in the channel or has been taken, and nothing undoes it.   *)
(***************************************************************************)
SlotsLead ==
  /\ mon # "start" => run \in Run
  /\ mon \in {"start", "command", "audio", "closeCommand", "sleep"} => audioTx = NoRun
  /\ mon \in {"open", "started", "feed", "forward", "stop", "closeAudio"} => audioTx = run
  /\ audioTx \in {run, NoRun} /\ commandTx \in {run, NoRun}
  /\ mon \in {"start", "command", "sleep"} => commandTx = NoRun
  /\ mon = "audio" => commandTx = run
  /\ audioTx # NoRun => commandTx = run

InTurn ==
  joined => \A c, d \in Capture : c < d => cap[c] = "done" \/ cap[d] = "none"

Receivers ==
  \A c \in Capture : cap[c] \in {"guard", "streaming"} =>
    /\ rx[c].run \in 1 .. run
    /\ mon \in {"command", "audio"} => rx[c].run # run

LastIsStart ==
  /\ commands # <<>> => commands[Len(commands)] = "ASR_START"
  /\ commands = <<>> => mon \notin {"open", "started"} /\ (mon \in {"feed", "forward"} => vpm = "ASR_START")

StartStands ==
  joined => \A c \in Capture : cap[c] = "streaming" /\ rx[c].run = audioTx => LastIsStart

VpmInv == VpmTypeOK /\ SlotsLead /\ InTurn /\ Receivers /\ StartStands

LEMMA AppendEnds ==
  ASSUME NEW S, NEW s \in Seq(S), NEW x \in S
  PROVE  /\ Append(s, x) \in Seq(S) /\ Append(s, x) # <<>>
         /\ Append(s, x)[Len(Append(s, x))] = x
<1>1. Append(s, x) \in Seq(S) /\ Len(Append(s, x)) = Len(s) + 1 /\ Len(s) \in Nat
  OBVIOUS
<1>2. Append(s, x)[Len(s) + 1] = x
  OBVIOUS
<1>3. Len(<<>>) = 0
  OBVIOUS
<1> QED
  BY <1>1, <1>2, <1>3

LEMMA VpmBounds ==
  MaxRuns \in Nat \ {0} /\ MaxCaptures \in Nat \ {0} /\ AudioCapacity \in Nat \ {0}
BY VpmAssumption

\* The types that the slots and the receivers share, apart from those of the rest.
ReceiverType == [run : Run \cup {NoRun}, pending : 0 .. AudioCapacity]
MonitorTypeOK ==
  /\ joined \in BOOLEAN /\ run \in 0 .. MaxRuns /\ vpm \in Status
  /\ mon \in {"start", "command", "audio", "open", "started", "feed", "forward", "stop",
              "closeAudio", "closeCommand", "clear", "sleep"}
  /\ commandTx \in Run \cup {NoRun} /\ audioTx \in Run \cup {NoRun}
  /\ events \in BOOLEAN /\ recent \in BOOLEAN
ChannelTypeOK ==
  /\ commands \in Seq({"ASR_START", "ASR_END"})
  /\ kwsq \in Seq({"Started", "Keyword"}) /\ wakes \in Nat
CaptureTypeOK ==
  /\ cap \in [Capture -> {"none", "guard", "streaming", "dropping", "done"}]
  /\ rx \in [Capture -> ReceiverType]

LEMMA TypesSplit ==
  /\ VpmTypeOK <=> MonitorTypeOK /\ ChannelTypeOK /\ CaptureTypeOK
  /\ VpmTypeOK' <=> MonitorTypeOK' /\ ChannelTypeOK' /\ CaptureTypeOK'
BY DEF VpmTypeOK, MonitorTypeOK, ChannelTypeOK, CaptureTypeOK, ReceiverType

LEMMA VpmFirst == VpmInit => VpmInv
<1> SUFFICES ASSUME VpmInit PROVE VpmInv
  OBVIOUS
<1>1. MonitorTypeOK
  <2>1. joined \in BOOLEAN
    BY DEF VpmInit
  <2>2. run = 0 /\ run \in 0 .. MaxRuns
    BY VpmBounds DEF VpmInit
  <2> QED
    BY <2>1, <2>2 DEF VpmInit, MonitorTypeOK, Status
<1>2. ChannelTypeOK
  BY DEF VpmInit, ChannelTypeOK
<1>3. CaptureTypeOK
  <2>1. NoReceiver \in ReceiverType
    BY VpmBounds DEF NoReceiver, ReceiverType
  <2> QED
    BY <2>1 DEF VpmInit, CaptureTypeOK
<1>4. SlotsLead /\ InTurn /\ Receivers /\ StartStands
  BY DEF VpmInit, SlotsLead, InTurn, Receivers, StartStands, NoRun
<1> QED
  BY <1>1, <1>2, <1>3, <1>4, TypesSplit DEF VpmInv

\* The monitor thread keeps the types.
LEMMA MonitorTypes ==
  ASSUME VpmTypeOK,
         Monitor \/ ArecordFails \/ DebounceEnds \/ Callback \/ Take
  PROVE  VpmTypeOK'
<1>0. MonitorTypeOK /\ ChannelTypeOK /\ CaptureTypeOK
  BY TypesSplit
<1> USE DEF program, slotVars, monVars
<1>1. MonitorTypeOK'
  <2> USE <1>0 DEF MonitorTypeOK
  <2>1. CASE Begins
    <3>1. run' \in 0 .. MaxRuns /\ (run' # 0 \/ run' = run)
      BY <2>1, VpmBounds DEF Begins, RunBegins
    <3>2. run \in Run \cup {NoRun}
      BY DEF Run, NoRun
    <3> QED
      BY <2>1, <3>1, <3>2 DEF Begins, RunBegins
  <2>2. CASE Open \/ Forward
    BY <2>2 DEF Open, Forward, Tell, Status
  <2>3. CASE Frame
    <3>1. vpm' \in Status
      BY <1>0, <2>3 DEF Frame, ChannelTypeOK, Status
    <3> QED
      BY <2>3, <3>1 DEF Frame
  <2>4. CASE Stop
    BY <2>4 DEF Stop, ClearAudio, Status
  <2>5. CASE ArecordFails \/ DebounceEnds \/ Callback \/ Take
    BY <2>5 DEF ArecordFails, DebounceEnds, Callback, Take
  <2> QED
    BY <2>1, <2>2, <2>3, <2>4, <2>5 DEF Monitor
<1>2. ChannelTypeOK'
  <2> USE <1>0 DEF ChannelTypeOK
  <2>1. CASE Begins
    <3>1. (commands' = <<>> \/ commands' = commands) /\ kwsq' = kwsq /\ wakes' = wakes
      BY <2>1 DEF Begins, RunBegins
    <3>2. <<>> \in Seq({"ASR_START", "ASR_END"})
      OBVIOUS
    <3>3. commands' \in Seq({"ASR_START", "ASR_END"})
      BY <3>1, <3>2
    <3> QED
      BY <3>1, <3>3
  <2>2. CASE Open \/ Stop \/ ArecordFails \/ DebounceEnds \/ Callback
    BY <2>2 DEF Open, Stop, ArecordFails, DebounceEnds, Callback
  <2>3. CASE Frame
    BY <2>3 DEF Frame
  <2>4. CASE Forward
    <3>1. \E event \in {"Started", "Keyword"} : kwsq' = Append(kwsq, event)
      BY <2>4 DEF Forward, Tell
    <3>2. kwsq' \in Seq({"Started", "Keyword"})
      BY <3>1, AppendEnds
    <3> QED
      BY <2>4, <3>2 DEF Forward, Tell
  <2>5. CASE Take
    BY <2>5 DEF Take
  <2> QED
    BY <2>1, <2>2, <2>3, <2>4, <2>5 DEF Monitor
<1>3. CaptureTypeOK'
  <2> USE <1>0 DEF CaptureTypeOK
  <2>1. CASE Frame
    <3>1. ASSUME NEW r \in ReceiverType, r.pending < AudioCapacity
          PROVE  [r EXCEPT !.pending = @ + 1] \in ReceiverType
      BY <3>1, VpmBounds DEF ReceiverType
    <3>2. rx' = rx \/ Broadcast
      BY <2>1 DEF Frame
    <3>3. Broadcast => rx' \in [Capture -> ReceiverType]
      BY <3>1 DEF Broadcast
    <3> QED
      BY <2>1, <3>2, <3>3 DEF Frame
  <2>2. CASE ~Frame
    BY <2>2 DEF Monitor, Begins, Open, Forward, Tell, Stop, ArecordFails, DebounceEnds, Callback, Take
  <2> QED
    BY <2>1, <2>2
<1> QED
  BY <1>1, <1>2, <1>3, TypesSplit

\* The captures keep the types.
LEMMA CaptureTypes ==
  ASSUME VpmTypeOK, NEW c \in Capture, Subscribe(c) \/ Held(c) \/ EndCapture(c)
  PROVE  VpmTypeOK'
<1>0. MonitorTypeOK /\ ChannelTypeOK /\ CaptureTypeOK
  BY TypesSplit
<1>1. UNCHANGED captureFrame
  BY DEF Subscribe, Held, StartGuard, Read, DropGuard, EndCapture
<1>2. MonitorTypeOK'
  BY <1>0, <1>1 DEF MonitorTypeOK, captureFrame, slotVars
<1>3. ChannelTypeOK'
  <2>1. commands' \in Seq({"ASR_START", "ASR_END"})
    <3>1. commands' = commands \/ \E status \in {"ASR_START", "ASR_END"} : commands' = Append(commands, status)
      BY DEF Subscribe, Held, StartGuard, Read, DropGuard, EndCapture, Request
    <3>2. commands \in Seq({"ASR_START", "ASR_END"})
      BY <1>0 DEF ChannelTypeOK
    <3>3. \A status \in {"ASR_START", "ASR_END"} : Append(commands, status) \in Seq({"ASR_START", "ASR_END"})
      BY <3>2, AppendEnds
    <3> QED
      BY <1>0, <3>1, <3>3 DEF ChannelTypeOK
  <2> QED
    BY <1>0, <1>1, <2>1 DEF ChannelTypeOK, captureFrame
<1>4. CaptureTypeOK'
  <2> USE <1>0 DEF CaptureTypeOK
  <2>1. [run |-> audioTx, pending |-> 0] \in ReceiverType /\ NoReceiver \in ReceiverType
    BY VpmBounds DEF ReceiverType, MonitorTypeOK, NoReceiver
  <2>2. CASE Subscribe(c)
    BY <2>1, <2>2 DEF Subscribe
  <2>3. CASE Read(c)
    <3>1. ASSUME NEW r \in ReceiverType, r.pending > 0
          PROVE  [r EXCEPT !.pending = @ - 1] \in ReceiverType
      BY <3>1, VpmBounds DEF ReceiverType
    <3>2. rx[c].pending > 0 => rx' = [rx EXCEPT ![c] = [rx[c] EXCEPT !.pending = @ - 1]]
      BY <2>3 DEF Read
    <3> QED
      BY <2>3, <3>1, <3>2 DEF Read
  <2>4. CASE StartGuard(c) \/ DropGuard(c) \/ EndCapture(c)
    BY <2>1, <2>4 DEF StartGuard, DropGuard, EndCapture
  <2> QED
    BY <2>2, <2>3, <2>4 DEF Held
<1> QED
  BY <1>2, <1>3, <1>4, TypesSplit

\* What the monitor and its surroundings leave of the captures: only chunks arrive.
LEMMA MonitorLeavesCaptures ==
  ASSUME VpmTypeOK, Monitor \/ ArecordFails \/ DebounceEnds \/ Callback \/ Take
  PROVE  /\ UNCHANGED <<joined, cap>>
         /\ \A c \in Capture : rx'[c].run = rx[c].run
<1>1. CASE Frame
  BY <1>1 DEF Frame, Broadcast, VpmTypeOK
<1>2. CASE Begins \/ Open \/ Forward \/ Stop \/ ArecordFails \/ DebounceEnds \/ Callback \/ Take
  BY <1>2 DEF Begins, Open, Forward, Tell, Stop, ArecordFails, DebounceEnds, Callback, Take, program
<1> QED
  BY <1>1, <1>2 DEF Monitor

\* The monitor fills and clears its slots in order.
LEMMA MonitorSlots ==
  ASSUME VpmTypeOK, SlotsLead, Monitor \/ ArecordFails \/ DebounceEnds \/ Callback \/ Take
  PROVE  SlotsLead'
<1> USE VpmAssumption DEF VpmTypeOK, SlotsLead, slotVars, monVars, Run, NoRun
<1>1. CASE Begins
  <2>1. run \in 0 .. MaxRuns /\ MaxRuns \in Nat
    BY VpmBounds
  <2>2. CASE mon = "start"
    BY <1>1, <2>1, <2>2 DEF Begins, RunBegins
  <2>3. CASE mon # "start"
    <3>1. run' = run /\ run \in Run /\ commandTx \in {run, NoRun}
      BY <1>1, <2>3 DEF Begins, RunBegins
    <3>2. CASE mon = "command"
      BY <1>1, <3>1, <3>2 DEF Begins, RunBegins
    <3>3. CASE mon = "audio"
      BY <1>1, <3>1, <3>3 DEF Begins, RunBegins
    <3> QED
      BY <1>1, <2>3, <3>2, <3>3 DEF Begins, RunBegins
  <2> QED
    BY <2>2, <2>3
<1>2. CASE Open \/ Forward \/ Frame
  BY <1>2 DEF Open, Forward, Tell, Frame
<1>3. CASE Stop
  BY <1>3 DEF Stop, ClearAudio
<1>4. CASE ArecordFails \/ DebounceEnds \/ Callback \/ Take
  BY <1>4 DEF ArecordFails, DebounceEnds, Callback, Take
<1> QED
  BY <1>1, <1>2, <1>3, <1>4 DEF Monitor

\* A run that begins is later than those of all receivers.
LEMMA MonitorReceivers ==
  ASSUME VpmTypeOK, SlotsLead, Receivers, Monitor \/ ArecordFails \/ DebounceEnds \/ Callback \/ Take
  PROVE  Receivers'
<1> USE DEF Receivers
<1>0. UNCHANGED cap /\ \A c \in Capture : rx'[c].run = rx[c].run
  BY MonitorLeavesCaptures
<1>1. CASE Begins
  BY <1>0, <1>1 DEF Begins, RunBegins, VpmTypeOK
<1>2. CASE ~Begins
  <2>1. run' = run /\ (mon' \in {"command", "audio"} => mon' = mon)
    BY <1>2 DEF Monitor, Open, Forward, Tell, Frame, Stop, ArecordFails, DebounceEnds, Callback, Take, monVars
  <2> QED
    BY <1>0, <2>1
<1> QED
  BY <1>1, <1>2

\* What the monitor takes from the channel is what the last capture asked for.
LEMMA MonitorStarts ==
  ASSUME VpmInv, Monitor \/ ArecordFails \/ DebounceEnds \/ Callback \/ Take
  PROVE  StartStands'
<1> SUFFICES ASSUME joined', NEW c \in Capture, cap'[c] = "streaming", rx'[c].run = audioTx'
             PROVE  LastIsStart'
  BY DEF StartStands
<1> USE DEF LastIsStart
<1>1. joined /\ cap[c] = "streaming" /\ rx[c].run = audioTx'
  BY MonitorLeavesCaptures DEF VpmInv
<1>2. rx[c].run \in 1 .. run /\ (mon \in {"command", "audio"} => rx[c].run # run)
  BY <1>1 DEF VpmInv, Receivers
<1>3. VpmTypeOK /\ SlotsLead /\ audioTx \in {run, NoRun}
  BY DEF VpmInv, SlotsLead
<1>4. audioTx' = audioTx \/ audioTx' = NoRun \/ (mon = "audio" /\ audioTx' = run)
  BY DEF Monitor, Begins, RunBegins, Open, Forward, Tell, Frame, Stop, ClearAudio, ArecordFails,
         DebounceEnds, Callback, Take, monVars, slotVars
<1>5. audioTx' = audioTx /\ audioTx = run /\ rx[c].run = audioTx
  BY <1>1, <1>2, <1>3, <1>4 DEF NoRun, VpmTypeOK
<1>6. LastIsStart
  BY <1>1, <1>5 DEF VpmInv, StartStands
<1>7. mon \notin {"start", "command", "audio"}
  BY <1>2, <1>3, <1>5 DEF SlotsLead, NoRun
<1> HIDE DEF LastIsStart
<1>8. CASE Begins
  BY <1>7, <1>8 DEF Begins, RunBegins
<1>9. CASE Open \/ Forward
  BY <1>6, <1>9 DEF LastIsStart, Open, Forward, Tell
<1>10. CASE Frame
  BY <1>6, <1>10 DEF LastIsStart, Frame
<1>11. CASE Stop
  BY <1>6, <1>11 DEF LastIsStart, Stop
<1>12. CASE ArecordFails \/ DebounceEnds \/ Callback \/ Take
  BY <1>6, <1>12 DEF LastIsStart, ArecordFails, DebounceEnds, Callback, Take, monVars
<1> QED
  BY <1>8, <1>9, <1>10, <1>11, <1>12 DEF Monitor

\* Joined captures stay in turn, and their receivers lead to the run that was there.
LEMMA CapturesInTurn ==
  ASSUME VpmInv, NEW c \in Capture, Subscribe(c) \/ Held(c) \/ EndCapture(c)
  PROVE  SlotsLead' /\ InTurn' /\ Receivers'
<1>0. VpmTypeOK /\ SlotsLead /\ InTurn /\ Receivers
  BY DEF VpmInv
<1>1. UNCHANGED captureFrame
  BY DEF Subscribe, Held, StartGuard, Read, DropGuard, EndCapture
<1>2. SlotsLead'
  BY <1>0, <1>1 DEF SlotsLead, captureFrame, slotVars
<1>3. Receivers'
  <2>1. CASE Subscribe(c)
    <3>1. CASE audioTx = NoRun
      BY <1>0, <1>1, <2>1, <3>1 DEF Subscribe, Receivers, VpmTypeOK, captureFrame
    <3>2. CASE audioTx # NoRun
      <4>1. mon \notin {"command", "audio"} /\ audioTx \in 1 .. run
        BY <1>0, <3>2 DEF SlotsLead, VpmTypeOK, Run, NoRun
      <4>2. rx' = [rx EXCEPT ![c] = [run |-> audioTx, pending |-> 0]] /\ cap' = [cap EXCEPT ![c] = "guard"]
        BY <2>1, <3>2 DEF Subscribe
      <4>3. mon' = mon /\ run' = run
        BY <1>1 DEF captureFrame
      <4>4. \A d \in Capture : rx'[d] = IF d = c THEN [run |-> audioTx, pending |-> 0] ELSE rx[d]
        BY <1>0, <4>2 DEF VpmTypeOK
      <4>5. \A d \in Capture : d # c => cap'[d] = cap[d]
        BY <1>0, <4>2 DEF VpmTypeOK
      <4> QED
        BY <1>0, <4>1, <4>3, <4>4, <4>5 DEF Receivers
    <3> QED
      BY <3>1, <3>2
  <2>2. CASE Held(c) \/ EndCapture(c)
    BY <1>0, <1>1, <2>2 DEF Held, StartGuard, Read, DropGuard, EndCapture, Receivers, VpmTypeOK, captureFrame
  <2> QED
    BY <2>1, <2>2
<1>4. InTurn'
  <2>1. CASE Subscribe(c)
    <3>1. cap[c] = "none" /\ (joined => \A d \in 1 .. c - 1 : cap[d] = "done")
      BY <2>1 DEF Subscribe, MayBegin
    <3>2. \E w : cap' = [cap EXCEPT ![c] = w]
      BY <2>1 DEF Subscribe
    <3>3. \A d \in Capture : d # c => cap'[d] = cap[d]
      BY <1>0, <3>2 DEF VpmTypeOK
    <3>4. joined' = joined
      BY <1>1 DEF captureFrame
    <3>5. SUFFICES ASSUME joined, NEW a \in Capture, NEW b \in Capture, a < b
                   PROVE  cap'[a] = "done" \/ cap'[b] = "none"
      BY <3>4 DEF InTurn
    <3>6. cap[a] = "done" \/ cap[b] = "none"
      BY <1>0, <3>5 DEF InTurn
    <3>7. CASE b = c
      <4>1. cap[a] = "done"
        BY <3>1, <3>5, <3>7, VpmBounds DEF Capture
      <4> QED
        BY <3>3, <3>5, <3>7, <4>1 DEF Capture
    <3>8. CASE b # c
      BY <3>1, <3>3, <3>6, <3>8
    <3> QED
      BY <3>7, <3>8
  <2>2. CASE Held(c) \/ EndCapture(c)
    BY <1>0, <1>1, <2>2
    DEF Held, StartGuard, Read, DropGuard, EndCapture, InTurn, VpmTypeOK, captureFrame
  <2> QED
    BY <2>1, <2>2
<1> QED
  BY <1>2, <1>3, <1>4

\* A joined capture is the only one that asks: what it asked for stands until it is dropped.
LEMMA CaptureStarts ==
  ASSUME VpmInv, NEW c \in Capture, Subscribe(c) \/ Held(c) \/ EndCapture(c)
  PROVE  StartStands'
<1> SUFFICES ASSUME joined', NEW d \in Capture, cap'[d] = "streaming", rx'[d].run = audioTx'
             PROVE  LastIsStart'
  BY DEF StartStands
<1>0. VpmTypeOK /\ SlotsLead /\ InTurn /\ Receivers
  BY DEF VpmInv
<1>1. UNCHANGED captureFrame
  BY DEF Subscribe, Held, StartGuard, Read, DropGuard, EndCapture
<1>2. joined /\ audioTx' = audioTx /\ mon' = mon /\ vpm' = vpm
  BY <1>1 DEF captureFrame, slotVars
<1>3. CASE Subscribe(c) \/ Read(c) \/ EndCapture(c)
  <2>1. cap[d] = "streaming" /\ rx[d].run = audioTx /\ commands' = commands
    <3>1. CASE Subscribe(c)
      <4>1. d # c
        BY <1>0, <3>1 DEF Subscribe, VpmTypeOK
      <4> QED
        BY <1>0, <1>2, <3>1, <4>1 DEF Subscribe, VpmTypeOK
    <3>2. CASE Read(c)
      <4>1. cap'[d] = "streaming" => cap[d] = "streaming"
        BY <1>0, <3>2 DEF Read, VpmTypeOK
      <4>2. rx'[d].run = rx[d].run
        <5>1. rx' = rx \/ rx' = [rx EXCEPT ![c] = [rx[c] EXCEPT !.pending = @ - 1]]
          BY <3>2 DEF Read
        <5>2. rx \in [Capture -> [run : Run \cup {NoRun}, pending : 0 .. AudioCapacity]]
          BY <1>0 DEF VpmTypeOK
        <5>3. \A r \in [run : Run \cup {NoRun}, pending : 0 .. AudioCapacity] :
                [r EXCEPT !.pending = @ - 1].run = r.run
          OBVIOUS
        <5> QED
          BY <5>1, <5>2, <5>3
      <4> QED
        BY <1>2, <3>2, <4>1, <4>2 DEF Read
    <3>3. CASE EndCapture(c)
      BY <1>0, <1>2, <3>3 DEF EndCapture, VpmTypeOK
    <3> QED
      BY <1>3, <3>1, <3>2, <3>3
  <2> QED
    BY <1>2, <2>1 DEF VpmInv, StartStands, LastIsStart
<1>4. CASE StartGuard(c)
  <2>1. c = d
    BY <1>0, <1>2, <1>4 DEF StartGuard, InTurn, VpmTypeOK, Capture
  <2>2. audioTx # NoRun /\ commandTx = run
    BY <1>0, <1>2, <1>4, <2>1 DEF StartGuard, Receivers, SlotsLead, NoRun, VpmTypeOK
  <2>3. commands' = Append(commands, "ASR_START")
    BY <1>0, <1>4, <2>2 DEF StartGuard, Request, SlotsLead
  <2> QED
    <3>1. commands \in Seq({"ASR_START", "ASR_END"})
      BY <1>0 DEF VpmTypeOK
    <3>2. commands' # <<>> /\ commands'[Len(commands')] = "ASR_START"
      BY <2>3, <3>1, AppendEnds
    <3> QED
      BY <3>2 DEF LastIsStart
<1>5. CASE DropGuard(c)
  BY <1>0, <1>2, <1>5 DEF DropGuard, InTurn, VpmTypeOK, Capture
<1> QED
  BY <1>3, <1>4, <1>5 DEF Held

LEMMA VpmNextInv ==
  ASSUME VpmInv, [VpmNext]_vpmVars
  PROVE  VpmInv'
<1>1. CASE UNCHANGED vpmVars
  BY <1>1 DEF VpmInv, VpmTypeOK, SlotsLead, InTurn, Receivers, StartStands, LastIsStart, vpmVars,
              monVars, slotVars
<1>2. CASE Monitor \/ ArecordFails \/ DebounceEnds \/ Callback \/ Take
  <2>1. VpmTypeOK' /\ SlotsLead' /\ Receivers' /\ StartStands'
    BY <1>2, MonitorTypes, MonitorSlots, MonitorReceivers, MonitorStarts DEF VpmInv
  <2>2. InTurn'
    BY <1>2, MonitorLeavesCaptures DEF VpmInv, InTurn
  <2> QED
    BY <2>1, <2>2 DEF VpmInv
<1>3. CASE \E c \in Capture : Subscribe(c) \/ Held(c) \/ EndCapture(c)
  <2>1. PICK c \in Capture : Subscribe(c) \/ Held(c) \/ EndCapture(c)
    BY <1>3
  <2> QED
    BY <2>1, CaptureTypes, CapturesInTurn, CaptureStarts DEF VpmInv
<1> QED
  BY <1>1, <1>2, <1>3 DEF VpmNext

(* The slots of the monitor lead to its running run or nowhere, joined captures follow each other, and
   the ASR_START of one that streams stands: for any number of runs, captures, and any capacities. *)
THEOREM VpmInvariant == VpmSpec => []VpmInv
BY VpmFirst, VpmNextInv, PTL DEF VpmSpec

(* A joined capture is never deaf, in whatever order the monitor starts, fails and stops around it
   (run_vpm_monitor's order of set_ and clear_). *)
THEOREM CaptureHeard == VpmSpec => []StreamingIsHeard
<1>1. VpmInv => StreamingIsHeard
  BY DEF VpmInv, StartStands, LastIsStart, StreamingIsHeard
<1> QED
  BY <1>1, VpmInvariant, PTL
================================================================================
