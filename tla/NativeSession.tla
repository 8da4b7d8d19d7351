---------------------------- MODULE NativeSession -----------------------------
(***************************************************************************)
(* One native Qwen voice session from prepare_session to its published     *)
(* outcome (qwen_voice.rs), for any number of sessions that share one      *)
(* QwenVoiceService.  A session has three concurrent actors:               *)
(*                                                                         *)
(*   - the task that awaits QwenSessionTurn::run                 (task)    *)
(*   - the supervisor spawned by run_prepared_supervised_session (sup)     *)
(*   - the worker, webrtc_session::run: up to Reconnects + 1 attempts,     *)
(*     each connecting, waiting for the wake word, talking, and            *)
(*     tearing down                                               (worker) *)
(*                                                                         *)
(* They meet in the `active` slot of the service, the setup-phase mutex,   *)
(* and the cancel, activation, interrupt and terminal watch channels.      *)
(* Whoever owns a SessionHandle may cancel, interrupt or activate.         *)
(*                                                                         *)
(* The network, the audio devices and every timeout are nondeterministic.  *)
(* A panic of a task is not modelled.                                      *)
(***************************************************************************)
EXTENDS Naturals

CONSTANTS
  Session,      \* session identifiers (next_session_id)
  NoSession,    \* the empty `active` slot
  Reconnects,   \* RECONNECT_ATTEMPTS
  Droppable     \* the devices a worker may let go of without having seen them end:
                \* a close or a join runs into its timeout, or is left out

ASSUME SlotAssumption == NoSession \notin Session
ASSUME ReconnectsAssumption == Reconnects \in Nat
ASSUME DroppableAssumption  == "peer" \in Droppable /\ Droppable \subseteq {"peer", "capture"}

Device == {"player", "aplay", "peer", "capture"}

TaskState   == {"unborn", "spawned", "resolving", "claiming", "waiting",
                "cleanup", "finished"}
WorkerState == {"none", "top", "gate", "connecting", "setup", "checking",
                "prewarmed", "live", "teardown", "silencing", "backoff", "done"}
SupState    == {"none", "watching", "grace", "overdue", "clearing",
                "reporting", "done"}
SetupPhase  == {"Connecting", "ResourcesOwned", "Cancelled"}
Verdict     == {"none", "ok", "late", "err"}
Terminal    == {"pending", "clean", "failed", "forced", "closed"}

VARIABLES
  task,        \* where QwenSessionTurn::run and its spawner are
  phase,       \* the setup-phase mutex
  cancel,      \* value of the cancel channel
  activation,  \* value of the activation channel
  interrupt,   \* an interrupt the session has not seen yet
  slot,        \* QwenVoiceService::active
  worker,      \* where the worker is
  attempt,     \* its connection attempt
  verdict,     \* result the worker carries through its teardown; "late": good
               \* until a step of the teardown failed
  effects,     \* a tool of this session may have had an effect
  owned,       \* devices the worker holds
  strays,      \* devices some worker dropped while they may still be alive
  sup,         \* where the supervisor is
  outcome,     \* what the supervisor will publish
  terminal     \* the terminal channel; "closed": sender dropped, no outcome

taskVars   == <<task>>
handleVars == <<phase, cancel, activation, interrupt>>
workerVars == <<worker, attempt, verdict, effects, owned, strays>>
supVars    == <<sup, outcome, terminal>>
vars == <<taskVars, handleVars, slot, workerVars, supVars>>

TypeOK ==
  /\ task \in [Session -> TaskState]
  /\ phase \in [Session -> SetupPhase]
  /\ cancel \in [Session -> BOOLEAN]
  /\ activation \in [Session -> BOOLEAN]
  /\ interrupt \in [Session -> BOOLEAN]
  /\ slot \in Session \cup {NoSession}
  /\ worker \in [Session -> WorkerState]
  /\ attempt \in [Session -> 0 .. Reconnects]
  /\ verdict \in [Session -> Verdict]
  /\ effects \in [Session -> BOOLEAN]
  /\ owned \in [Session -> SUBSET Device]
  /\ strays \in SUBSET Droppable
  /\ sup \in [Session -> SupState]
  /\ outcome \in [Session -> Terminal]
  /\ terminal \in [Session -> Terminal]

Init ==
  /\ task = [s \in Session |-> "unborn"]
  /\ phase = [s \in Session |-> "Connecting"]
  /\ cancel = [s \in Session |-> FALSE]
  /\ activation = [s \in Session |-> FALSE]
  /\ interrupt = [s \in Session |-> FALSE]
  /\ slot = NoSession
  /\ worker = [s \in Session |-> "none"]
  /\ attempt = [s \in Session |-> 0]
  /\ verdict = [s \in Session |-> "none"]
  /\ effects = [s \in Session |-> FALSE]
  /\ owned = [s \in Session |-> {}]
  /\ strays = {}
  /\ sup = [s \in Session |-> "none"]
  /\ outcome = [s \in Session |-> "pending"]
  /\ terminal = [s \in Session |-> "pending"]

-------------------------------------------------------------------------------
(***************************************************************************)
(* The handle.                                                             *)
(***************************************************************************)

\* SessionHandle::is_completed
Completed(s) == terminal[s] \notin {"pending", "closed"}

\* Receivers of the activation channel: run subscribes on its first poll, the
\* receiver moves into the worker and is dropped with it.
Listening(s) ==
  \/ task[s] \in {"resolving", "claiming"}
  \/ worker[s] \notin {"none", "done"}

\* prepare_session and the spawn of its task.  The code numbers sessions
\* without end; here the number of a finished session is used again, with every
\* cell back at its initial value.
Prepare(s) ==
  /\ task[s] \in {"unborn", "finished"}
  /\ task' = [task EXCEPT ![s] = "spawned"]
  /\ phase' = [phase EXCEPT ![s] = "Connecting"]
  /\ cancel' = [cancel EXCEPT ![s] = FALSE]
  /\ activation' = [activation EXCEPT ![s] = FALSE]
  /\ interrupt' = [interrupt EXCEPT ![s] = FALSE]
  /\ worker' = [worker EXCEPT ![s] = "none"]
  /\ attempt' = [attempt EXCEPT ![s] = 0]
  /\ verdict' = [verdict EXCEPT ![s] = "none"]
  /\ effects' = [effects EXCEPT ![s] = FALSE]
  /\ sup' = [sup EXCEPT ![s] = "none"]
  /\ outcome' = [outcome EXCEPT ![s] = "pending"]
  /\ terminal' = [terminal EXCEPT ![s] = "pending"]
  /\ UNCHANGED <<slot, owned, strays>>

\* SessionHandle::activate.  watch::Sender::send does not store the value
\* when the channel has no receiver.
Activate(s) ==
  /\ task[s] # "unborn"
  /\ activation' = [activation EXCEPT ![s] = @ \/ Listening(s)]
  /\ UNCHANGED <<taskVars, phase, cancel, interrupt, slot, workerVars, supVars>>

\* SessionHandle::interrupt.  send_modify stores it in any case; a receiver
\* subscribed later starts with everything seen.
Interrupt(s) ==
  /\ task[s] # "unborn"
  /\ interrupt' = [interrupt EXCEPT ![s] = @ \/ Listening(s)]
  /\ UNCHANGED <<taskVars, phase, cancel, activation, slot, workerVars, supVars>>

\* SessionHandle::request_cancel closes the setup gate ...
RequestCancel(s) ==
  /\ task[s] # "unborn"
  /\ phase' = [phase EXCEPT ![s] = "Cancelled"]
  /\ UNCHANGED <<taskVars, cancel, activation, interrupt, slot, workerVars, supVars>>

\* ... and then sends on the cancel channel.
SendCancel(s) ==
  /\ phase[s] = "Cancelled"
  /\ ~cancel[s]
  /\ cancel' = [cancel EXCEPT ![s] = TRUE]
  /\ UNCHANGED <<taskVars, phase, activation, interrupt, slot, workerVars, supVars>>

-------------------------------------------------------------------------------
(***************************************************************************)
(* The task: QwenSessionTurn::run up to the outcome, and its spawner.      *)
(***************************************************************************)

\* The first poll of run subscribes to the interrupt and activation channels.
StartRun(s) ==
  /\ task[s] = "spawned"
  /\ task' = [task EXCEPT ![s] = "resolving"]
  /\ UNCHANGED <<handleVars, slot, workerVars, supVars>>

ToolsResolved(s) ==
  /\ task[s] = "resolving"
  /\ task' = [task EXCEPT ![s] = "claiming"]
  /\ UNCHANGED <<handleVars, slot, workerVars, supVars>>

\* run leaves: nobody is left to read the wake-up channels.
LeaveRun(s) ==
  /\ task' = [task EXCEPT ![s] = "cleanup"]
  /\ activation' = [activation EXCEPT ![s] = FALSE]
  /\ interrupt' = [interrupt EXCEPT ![s] = FALSE]

\* native_tool_runtime fails: the control is dropped with its terminal sender.
ToolsFailed(s) ==
  /\ task[s] = "resolving"
  /\ LeaveRun(s)
  /\ terminal' = [terminal EXCEPT ![s] = "closed"]
  /\ UNCHANGED <<phase, cancel, slot, workerVars, sup, outcome>>

\* Mutant of SlotFree: a session being cancelled counts as over.
SlotFreeOnCancel == slot \notin {t \in Session : ~Completed(t) /\ ~cancel[t]}

SlotFree == slot \notin {t \in Session : ~Completed(t)}

Claim(s) ==
  /\ task[s] = "claiming"
  /\ SlotFree
  /\ slot' = s
  /\ task' = [task EXCEPT ![s] = "waiting"]
  /\ worker' = [worker EXCEPT ![s] = "top"]
  /\ sup' = [sup EXCEPT ![s] = "watching"]
  /\ UNCHANGED <<handleVars, attempt, verdict, effects, owned, strays, outcome, terminal>>

\* "already active": the waiter guard is dropped armed and closes the gate.
Refuse(s) ==
  /\ task[s] = "claiming"
  /\ ~SlotFree
  /\ LeaveRun(s)
  /\ phase' = [phase EXCEPT ![s] = "Cancelled"]
  /\ terminal' = [terminal EXCEPT ![s] = "closed"]
  /\ UNCHANGED <<cancel, slot, workerVars, sup, outcome>>

\* run returns with the outcome.
RunReturns(s) ==
  /\ task[s] = "waiting"
  /\ Completed(s)
  /\ LeaveRun(s)
  /\ UNCHANGED <<phase, cancel, slot, workerVars, supVars>>

\* LEDs off, status written.
FinishTask(s) ==
  /\ task[s] = "cleanup"
  /\ task' = [task EXCEPT ![s] = "finished"]
  /\ UNCHANGED <<handleVars, slot, workerVars, supVars>>

-------------------------------------------------------------------------------
(***************************************************************************)
(* The worker.                                                             *)
(***************************************************************************)

WorkerTo(s, w) == worker' = [worker EXCEPT ![s] = w]

\* The worker returns v; its locals go with it.
EndWorker(s, v) ==
  /\ WorkerTo(s, "done")
  /\ verdict' = [verdict EXCEPT ![s] = v]
  /\ attempt' = [attempt EXCEPT ![s] = 0]
  /\ effects' = [effects EXCEPT ![s] = FALSE]

StayWorker(s, w) ==
  /\ WorkerTo(s, w)
  /\ UNCHANGED <<verdict, attempt, effects>>

\* Mutant of Retry: reconnect whatever the tools did.
RetryAlways(s) == StayWorker(s, "backoff")

\* An attempt failed before the machine was shutting down: another one only if
\* no tool effect can be repeated.
Retry(s) ==
  IF effects[s]
    THEN EndWorker(s, "err")
    ELSE StayWorker(s, "backoff")

LoopTop(s) ==
  /\ worker[s] = "top"
  /\ IF cancel[s]
       THEN EndWorker(s, "ok")
       ELSE StayWorker(s, "gate")
  /\ UNCHANGED <<taskVars, handleVars, slot, owned, strays, supVars>>

\* setup_if_running: check and construction under the setup-phase lock.
GateOpen(s) ==
  /\ worker[s] = "gate"
  /\ phase[s] # "Cancelled"
  /\ ~cancel[s]
  /\ phase' = [phase EXCEPT ![s] = "ResourcesOwned"]
  /\ owned' = [owned EXCEPT ![s] = @ \cup {"player"}]
  /\ WorkerTo(s, "connecting")
  /\ UNCHANGED <<taskVars, cancel, activation, interrupt, slot, attempt, verdict,
                 effects, strays, supVars>>

GateClosed(s) ==
  /\ worker[s] = "gate"
  /\ phase[s] = "Cancelled" \/ cancel[s]
  /\ phase' = [phase EXCEPT ![s] = "Cancelled"]
  /\ Retry(s)
  /\ UNCHANGED <<taskVars, cancel, activation, interrupt, slot, owned, strays, supVars>>

\* connect_webrtc creates the peer ...
CreatePeer(s) ==
  /\ worker[s] = "connecting"
  /\ "peer" \notin owned[s]
  /\ owned' = [owned EXCEPT ![s] = @ \cup {"peer"}]
  /\ UNCHANGED <<taskVars, handleVars, slot, worker, attempt, verdict, effects, strays, supVars>>

\* ... and exchanges the descriptions.
Connected(s) ==
  /\ worker[s] = "connecting"
  /\ "peer" \in owned[s]
  /\ WorkerTo(s, "setup")
  /\ UNCHANGED <<taskVars, handleVars, slot, attempt, verdict, effects, owned, strays, supVars>>

\* The worker gives back its devices D; those in late were not seen to end.
GiveBack(s, D, late) ==
  /\ owned' = [owned EXCEPT ![s] = @ \ D]
  /\ strays' = strays \cup late

\* connect_webrtc failed or saw the cancellation; run_once shuts the player down.
\* If there was a peer already, its close has a timeout and the outcome of the
\* close is not looked at.
ConnectFailed(s) ==
  /\ worker[s] = "connecting"
  /\ \E late \in SUBSET (owned[s] \cap {"peer"}) : GiveBack(s, Device, late)
  /\ Retry(s)
  /\ UNCHANGED <<taskVars, handleVars, slot, supVars>>

SetupDone(s) ==
  /\ worker[s] = "setup"
  /\ ~cancel[s]
  /\ WorkerTo(s, "checking")
  /\ UNCHANGED <<taskVars, handleVars, slot, attempt, verdict, effects, owned, strays, supVars>>

Teardown(s, v) ==
  /\ WorkerTo(s, "teardown")
  /\ verdict' = [verdict EXCEPT ![s] = v]

SetupFailed(s) ==
  /\ worker[s] = "setup"
  /\ Teardown(s, "err")
  /\ UNCHANGED <<taskVars, handleVars, slot, attempt, effects, owned, strays, supVars>>

OpenMicrophone(s) ==
  /\ WorkerTo(s, "live")
  /\ owned' = [owned EXCEPT ![s] = @ \cup {"capture"}]
  /\ UNCHANGED <<taskVars, handleVars, slot, attempt, verdict, effects, strays, supVars>>

\* Mutant of CheckActivation: a prewarmed session starts to capture at once.
CheckNothing(s) ==
  /\ worker[s] = "checking"
  /\ OpenMicrophone(s)

\* wait_for_activation looks at the activation value once before it selects.
CheckActivation(s) ==
  /\ worker[s] = "checking"
  /\ activation[s]
  /\ OpenMicrophone(s)

EnterPrewarm(s) ==
  /\ worker[s] = "checking"
  /\ ~activation[s]
  /\ WorkerTo(s, "prewarmed")
  /\ UNCHANGED <<taskVars, handleVars, slot, attempt, verdict, effects, owned, strays, supVars>>

\* The select is biased: cancellation first.
PrewarmCancelled(s) ==
  /\ worker[s] = "prewarmed"
  /\ cancel[s]
  /\ Teardown(s, "ok")
  /\ UNCHANGED <<taskVars, handleVars, slot, attempt, effects, owned, strays, supVars>>

PrewarmActivated(s) ==
  /\ worker[s] = "prewarmed"
  /\ ~cancel[s]
  /\ activation[s]
  /\ OpenMicrophone(s)

\* The peer fails, the server reports an error or closes while prewarmed.  The
\* `?` leaves run_once and drops the attempt's resources: the player is stopped
\* and aborted, but nobody closes the peer, whose tasks are detached.
PrewarmLost(s) ==
  /\ worker[s] = "prewarmed"
  /\ GiveBack(s, Device, owned[s] \cap {"peer"})
  /\ Retry(s)
  /\ UNCHANGED <<taskVars, handleVars, slot, supVars>>

\* The event loop answers an interrupt: playback is flushed and aplay killed.
HandleInterrupt(s) ==
  /\ worker[s] = "live"
  /\ ~cancel[s]
  /\ interrupt[s]
  /\ interrupt' = [interrupt EXCEPT ![s] = FALSE]
  /\ owned' = [owned EXCEPT ![s] = @ \ {"aplay"}]
  /\ UNCHANGED <<taskVars, phase, cancel, activation, slot, worker, attempt, verdict,
                 effects, strays, supVars>>

\* Mutant of StartAplay: the player task does not look at the setup phase.
StartAplayUngated(s) ==
  /\ worker[s] \in {"live", "teardown", "silencing"}
  /\ "aplay" \notin owned[s]
  /\ owned' = [owned EXCEPT ![s] = @ \cup {"aplay"}]
  /\ UNCHANGED <<taskVars, handleVars, slot, worker, attempt, verdict, effects, strays, supVars>>

\* construct_player_if_running: until it is stopped the player task starts aplay
\* for queued audio, unless the session was cancelled meanwhile.
StartAplay(s) ==
  /\ worker[s] \in {"live", "teardown", "silencing"}
  /\ phase[s] # "Cancelled"
  /\ "aplay" \notin owned[s]
  /\ owned' = [owned EXCEPT ![s] = @ \cup {"aplay"}]
  /\ UNCHANGED <<taskVars, handleVars, slot, worker, attempt, verdict, effects, strays, supVars>>

StartTool(s) ==
  /\ worker[s] = "live"
  /\ effects' = [effects EXCEPT ![s] = TRUE]
  /\ UNCHANGED <<taskVars, handleVars, slot, worker, attempt, verdict, owned, strays, supVars>>

\* The event loop returns: cancelled, idle or ended by the model ("ok"), or an
\* error of the transport, the server, the capture or a deadline ("err").
LiveEnds(s, v) ==
  /\ worker[s] = "live"
  /\ Teardown(s, v)
  /\ UNCHANGED <<taskVars, handleVars, slot, attempt, effects, owned, strays, supVars>>

\* Mutant of LiveCancelled: a cancellation is not looked at after a tool started.
LiveCancelledBeforeTools(s) == cancel[s] /\ ~effects[s] /\ LiveEnds(s, "ok")

LiveCancelled(s) == cancel[s] /\ LiveEnds(s, "ok")

\* AttemptResources::teardown: capture aborted and joined, peer closed, writer,
\* RTCP and decoder tasks stopped.  The join and the close may fail or time out;
\* the teardown goes on and remembers the error ...
ReleaseTransport(s) ==
  /\ worker[s] = "teardown"
  /\ \E late \in SUBSET (owned[s] \cap Droppable) :
       /\ GiveBack(s, {"peer", "capture"}, late)
       /\ verdict' = [verdict EXCEPT ![s] = IF late = {} \/ @ = "err" THEN @ ELSE "late"]
  /\ WorkerTo(s, "silencing")
  /\ UNCHANGED <<taskVars, handleVars, slot, attempt, effects, supVars>>

\* ... then the player is drained or stopped, its aplay at the latest killed, and
\* wait_for_tool_idle awaited.  An error makes a good result bad; the machine is
\* shutting down then, so run does not reconnect.
ReleasePlayer(s, clean) ==
  /\ worker[s] = "silencing"
  /\ GiveBack(s, Device, {})
  /\ IF verdict[s] = "err"
       THEN Retry(s)
       ELSE EndWorker(s, IF verdict[s] = "ok" /\ clean THEN "ok" ELSE "err")
  /\ UNCHANGED <<taskVars, handleVars, slot, supVars>>

\* The backoff elapses; after the last attempt run fails.
BackoffElapsed(s) ==
  /\ worker[s] = "backoff"
  /\ IF attempt[s] = Reconnects
       THEN EndWorker(s, "err")
       ELSE /\ attempt' = [attempt EXCEPT ![s] = @ + 1]
            /\ WorkerTo(s, "top")
            /\ UNCHANGED <<verdict, effects>>
  /\ UNCHANGED <<taskVars, handleVars, slot, owned, strays, supVars>>

\* The backoff is cut short by the cancel channel, unless the change was
\* already seen while connecting; both are allowed here.
BackoffCancelled(s) ==
  /\ worker[s] = "backoff"
  /\ cancel[s]
  /\ EndWorker(s, "ok")
  /\ UNCHANGED <<taskVars, handleVars, slot, owned, strays, supVars>>

-------------------------------------------------------------------------------
(***************************************************************************)
(* The supervisor.                                                         *)
(***************************************************************************)

FromWorker(s) == IF verdict[s] = "ok" THEN "clean" ELSE "failed"

\* Awaiting the JoinHandle takes the worker's result.
Consume(s) ==
  /\ verdict' = [verdict EXCEPT ![s] = "none"]
  /\ UNCHANGED <<taskVars, handleVars, slot, worker, attempt, effects, owned, strays, terminal>>

\* Mutant of WorkerJoined: the outcome is published before the slot is cleared.
WorkerJoinedPublishes(s) ==
  /\ sup[s] \in {"watching", "grace"}
  /\ worker[s] = "done"
  /\ sup' = [sup EXCEPT ![s] = "clearing"]
  /\ terminal' = [terminal EXCEPT ![s] = FromWorker(s)]
  /\ verdict' = [verdict EXCEPT ![s] = "none"]
  /\ UNCHANGED <<taskVars, handleVars, slot, worker, attempt, effects, owned, strays, outcome>>

\* The worker ends while it is watched or within the grace period.
WorkerJoined(s) ==
  /\ sup[s] \in {"watching", "grace"}
  /\ worker[s] = "done"
  /\ sup' = [sup EXCEPT ![s] = "clearing"]
  /\ outcome' = [outcome EXCEPT ![s] = FromWorker(s)]
  /\ Consume(s)

SeeCancel(s) ==
  /\ sup[s] = "watching"
  /\ cancel[s]
  /\ sup' = [sup EXCEPT ![s] = "grace"]
  /\ UNCHANGED <<taskVars, handleVars, slot, workerVars, outcome, terminal>>

\* SESSION_CANCEL_TIMEOUT: only the outcome changes, the worker is still awaited.
GraceExpires(s) ==
  /\ sup[s] = "grace"
  /\ worker[s] # "done"
  /\ sup' = [sup EXCEPT ![s] = "overdue"]
  /\ UNCHANGED <<taskVars, handleVars, slot, workerVars, outcome, terminal>>

OverdueJoined(s) ==
  /\ sup[s] = "overdue"
  /\ worker[s] = "done"
  /\ sup' = [sup EXCEPT ![s] = "clearing"]
  /\ outcome' = [outcome EXCEPT ![s] = "forced"]
  /\ Consume(s)

\* clear_active_if_owned
ClearActive(s) ==
  /\ sup[s] = "clearing"
  /\ slot' = IF slot = s THEN NoSession ELSE slot
  /\ sup' = [sup EXCEPT ![s] = "reporting"]
  /\ UNCHANGED <<taskVars, handleVars, workerVars, outcome, terminal>>

Report(s) ==
  /\ sup[s] = "reporting"
  /\ terminal' = [terminal EXCEPT ![s] = outcome[s]]
  /\ outcome' = [outcome EXCEPT ![s] = "pending"]
  /\ sup' = [sup EXCEPT ![s] = "done"]
  /\ UNCHANGED <<taskVars, handleVars, slot, workerVars>>

-------------------------------------------------------------------------------
\* What was dropped may end by itself at any time, or never.
StrayEnds ==
  /\ \E d \in strays : strays' = strays \ {d}
  /\ UNCHANGED <<taskVars, handleVars, slot, worker, attempt, verdict, effects, owned, supVars>>

-------------------------------------------------------------------------------
TaskStep(s) ==
  \/ StartRun(s) \/ ToolsResolved(s) \/ ToolsFailed(s)
  \/ Claim(s) \/ Refuse(s) \/ RunReturns(s) \/ FinishTask(s)

\* Worker steps that the code bounds with a timeout or takes at once.
WorkerStep(s) ==
  \/ LoopTop(s) \/ GateOpen(s) \/ GateClosed(s)
  \/ CreatePeer(s) \/ Connected(s) \/ ConnectFailed(s) \/ SetupDone(s) \/ SetupFailed(s)
  \/ CheckActivation(s) \/ EnterPrewarm(s) \/ PrewarmCancelled(s) \/ PrewarmActivated(s)
  \/ LiveCancelled(s)
  \/ ReleaseTransport(s) \/ (\E clean \in BOOLEAN : ReleasePlayer(s, clean))
  \/ BackoffElapsed(s) \/ BackoffCancelled(s)

\* Worker steps that depend on the peer, the user or the model.
WorkerEvent(s) ==
  \/ PrewarmLost(s) \/ StartAplay(s) \/ StartTool(s)
  \/ (\E v \in {"ok", "err"} : LiveEnds(s, v))

SupStep(s) ==
  \/ WorkerJoined(s) \/ SeeCancel(s) \/ GraceExpires(s)
  \/ OverdueJoined(s) \/ ClearActive(s) \/ Report(s)

\* Everything a session does by itself.
Internal(s) ==
  TaskStep(s) \/ WorkerStep(s) \/ WorkerEvent(s) \/ HandleInterrupt(s) \/ SupStep(s)

\* What the owner of a handle does.
Handle(s) ==
  Prepare(s) \/ Activate(s) \/ Interrupt(s) \/ RequestCancel(s) \/ SendCancel(s)

Next ==
  \/ \E s \in Session : Internal(s) \/ Handle(s)
  \/ StrayEnds

\* What a session does by itself and without waiting for the outside.
Progress(s) == TaskStep(s) \/ WorkerStep(s) \/ SupStep(s)

Spec == Init /\ [][Next]_vars

\* The scheduler never stops serving a session that can go on.  Nothing is asked of
\* the peer, the user, the model or the owner of the handle.
FairSpec == Spec /\ \A s \in Session : WF_vars(Progress(s))

-------------------------------------------------------------------------------
(***************************************************************************)
(* Properties.                                                             *)
(***************************************************************************)

\* Two sessions never hold devices at the same time, so two never play at once: a
\* replacement waits until the worker it replaces has let go of player, aplay, peer
\* and microphone, however late that is (run_prepared_supervised_session,
\* clear_active_if_owned).  For the player and aplay that means ended; a peer or a
\* capture that was dropped instead is in strays and may live beside the owner.
ExclusiveDevices ==
  \A s, t \in Session : s # t => owned[s] = {} \/ owned[t] = {}

\* The slot holds exactly the session whose supervisor has not cleared it yet,
\* so a supervisor clears its own session and nobody else's.
SlotOwned ==
  \A s \in Session : slot = s <=> sup[s] \in {"watching", "grace", "overdue", "clearing"}

\* A worker runs only under a supervisor that still waits for it, and devices
\* are held only by a running worker: what outlives it is a stray.
WorkerSupervised ==
  \A s \in Session :
    /\ worker[s] \notin {"none", "done"} => sup[s] \in {"watching", "grace", "overdue"}
    /\ worker[s] \in {"none", "top", "gate", "backoff", "done"} => owned[s] = {}

\* The stations of a session follow each other: no supervisor before the claim,
\* none left when the task cleans up, and the outcome is published by a
\* supervisor that has joined the worker and cleared the slot.
Lifecycle ==
  \A s \in Session :
    /\ task[s] \in {"unborn", "spawned", "resolving", "claiming"} =>
         sup[s] = "none" /\ terminal[s] = "pending"
    /\ task[s] \in {"cleanup", "finished"} => sup[s] \in {"none", "done"}
    /\ sup[s] = "none" => worker[s] = "none"
    /\ sup[s] \in {"clearing", "reporting", "done"} => worker[s] = "done"
    /\ sup[s] \notin {"none", "done"} => terminal[s] = "pending"
    /\ sup[s] \in {"clearing", "reporting"} => outcome[s] \in {"clean", "failed", "forced"}
    /\ Completed(s) => sup[s] = "done"

\* What a tool may have done is remembered until the attempt that did it is over.
EffectsRemembered ==
  \A s \in Session : effects[s] => worker[s] \in {"live", "teardown", "silencing"}

\* Once request_cancel has closed the setup gate, neither a reconnecting attempt
\* nor a late block of audio starts a player (setup_if_running,
\* construct_player_if_running).
CancelledStartsNoPlayer ==
  [][\A s \in Session :
       phase[s] = "Cancelled" /\ phase'[s] = "Cancelled" =>
         owned'[s] \cap {"player", "aplay"} \subseteq owned[s]]_vars

\* A session that may have had a tool effect never connects again: a transparent
\* reconnect could repeat it (transparent_reconnect_allowed).
NoReconnectAfterEffects ==
  [][\A s \in Session :
       effects[s] /\ effects'[s] => owned'[s] \cap {"peer"} \subseteq owned[s]]_vars

\* Whatever the session is doing, cancelling it ends its task: SessionHandle::cancel
\* and the join of cancel_for_replacement return.
CancelEndsTask ==
  \A s \in Session : cancel[s] ~> task[s] \in {"unborn", "finished"}

\* The supervisor implements exclusive ownership of the speaker, up to the peers
\* and captures its workers abandon.
Speaker == INSTANCE ExclusiveSpeaker
             WITH owner <- slot, held <- owned, abandoned <- strays, outcome <- terminal
ImplementsExclusiveSpeaker == Speaker!Spec

===============================================================================
