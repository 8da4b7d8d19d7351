-------------------------------- MODULE Player --------------------------------
(***************************************************************************)
(* PcmPlayer: the event loop steers it through its handle, the decoder     *)
(* task pushes decoded blocks into its bounded queue, and the task         *)
(* run_player moves them into an aplay process, which it kills to flush    *)
(* what the user interrupted.  The three run on different threads.         *)
(*                                                                         *)
(* A block is the number of the response it belongs to.  The service sends *)
(* no audio of a response after the next one has begun.  control stands    *)
(* for control_tx and spawn_gate: stop and finish set both under the lock  *)
(* of the gate.                                                            *)
(***************************************************************************)
EXTENDS Integers, Sequences, FiniteSets

CONSTANTS
  Capacity,                    \* PLAYBACK_QUEUE_CAPACITY
  MaxResponses, MaxBlocks,     \* bounds on responses and on decoded blocks
  MaxInterrupts                \* bound on interruptions

ASSUME BoundAssumption ==
  /\ Capacity \in Nat \ {0} /\ MaxResponses \in Nat
  /\ MaxBlocks \in Nat /\ MaxInterrupts \in Nat

VARIABLES
  control, cancelled,              \* PlaybackControl; SetupPhase::Cancelled
  accepting, clear,                \* accepting_audio; clear_rx has an unseen generation
  steering, interrupts, joiner,    \* the event loop and its teardown
  resp, cut, cleared,              \* response begun; last one interrupted; and flushed (history)
  decoder, checked, blocks,        \* the decoder task and the block it let pass
  queue,                           \* audio_tx, audio_rx
  player, block, process,          \* run_player, the block it holds, its aplay
  late                             \* late blocks of each response (history)

loopVars    == <<control, accepting, clear, steering, interrupts, joiner, resp, cut>>
decoderVars == <<decoder, checked, blocks>>
playerVars  == <<player, block, process, late, cleared>>
vars == <<loopVars, cancelled, decoderVars, queue, playerVars>>

Response == 1 .. MaxResponses
None == 0
PlayerState == {"select", "spawning", "writing", "flushing", "draining", "closing",
                "done", "failed", "aborted"}
Ended == {"done", "failed", "aborted"}

PlayerTypeOK ==
  /\ control \in {"Running", "Drain", "Shutdown"}
  /\ cancelled \in BOOLEAN /\ accepting \in BOOLEAN /\ clear \in BOOLEAN
  /\ steering \in {"free", "interrupting"} /\ joiner \in {"none", "waiting"}
  /\ interrupts \in 0 .. MaxInterrupts /\ blocks \in 0 .. MaxBlocks
  /\ resp \in Response \cup {None} /\ cut \in 0 .. resp /\ cleared \in 0 .. cut
  /\ decoder \in {"running", "failed"} /\ checked \in Response \cup {None}
  /\ queue \in Seq(Response) /\ Len(queue) <= Capacity
  /\ player \in PlayerState /\ block \in Response \cup {None}
  /\ process \in BOOLEAN
  /\ late \in [Response -> Nat]

Init ==
  /\ control = "Running" /\ cancelled = FALSE /\ accepting = FALSE /\ clear = FALSE
  /\ steering = "free" /\ interrupts = 0 /\ joiner = "none"
  /\ resp = None /\ cut = 0 /\ cleared = 0
  /\ decoder = "running" /\ checked = None /\ blocks = 0
  /\ queue = <<>>
  /\ player = "select" /\ block = None /\ process = FALSE
  /\ late = [r \in Response |-> 0]
--------------------------------------------------------------------------------
(* The event loop, and the teardown after it. *)

Steers == steering = "free" /\ joiner = "none" /\ control = "Running"

KeepAccepting == UNCHANGED accepting                           \* mutant

CloseGate == accepting' = FALSE

(* interrupt_playback: close the gate, then bump the generation. *)
InterruptCloses ==
  /\ Steers /\ interrupts < MaxInterrupts
  /\ interrupts' = interrupts + 1
  /\ CloseGate
  /\ steering' = "interrupting"
  /\ UNCHANGED <<control, clear, joiner, resp, cut, cancelled, decoderVars, queue, playerVars>>

InterruptClears ==
  /\ steering = "interrupting" /\ steering' = "free"
  /\ clear' = TRUE /\ cut' = resp
  /\ UNCHANGED <<control, accepting, interrupts, joiner, resp, cancelled, decoderVars, queue,
                 playerVars>>

BeginResponse ==
  /\ Steers /\ resp < MaxResponses
  /\ resp' = resp + 1 /\ accepting' = TRUE
  /\ UNCHANGED <<control, clear, steering, interrupts, joiner, cut, cancelled, decoderVars, queue,
                 playerVars>>

(* shutdown: stop, then wait for the task. *)
Shutdown ==
  /\ steering = "free" /\ joiner = "none"
  /\ control' = "Shutdown" /\ joiner' = "waiting"
  /\ UNCHANGED <<accepting, clear, steering, interrupts, resp, cut, cancelled, decoderVars, queue,
                 playerVars>>

Finish ==
  /\ Steers
  /\ control' = "Drain" /\ joiner' = "waiting"
  /\ UNCHANGED <<accepting, clear, steering, interrupts, resp, cut, cancelled, decoderVars, queue,
                 playerVars>>

(* The wait timed out: the task is aborted, its child killed on drop. *)
Abort ==
  /\ joiner = "waiting" /\ player \notin Ended
  /\ player' = "aborted" /\ process' = FALSE /\ queue' = <<>>
  /\ UNCHANGED <<loopVars, cancelled, decoderVars, block, late, cleared>>

(* SessionHandle::request_cancel closes the setup gate of the session. *)
CancelSession ==
  /\ ~cancelled /\ cancelled' = TRUE
  /\ UNCHANGED <<loopVars, decoderVars, queue, playerVars>>
--------------------------------------------------------------------------------
(* The decoder: try_audio checks, then sends. *)

CheckAudio ==
  /\ decoder = "running" /\ checked = None /\ resp # None /\ blocks < MaxBlocks
  /\ IF control # "Running"
     THEN decoder' = "failed" /\ UNCHANGED <<checked, blocks>>
     ELSE accepting /\ checked' = resp /\ blocks' = blocks + 1 /\ UNCHANGED decoder
  /\ UNCHANGED <<loopVars, cancelled, queue, playerVars>>

Full == Len(queue) = Capacity

Closed ==
  player \in Ended \/ (control = "Drain" /\ player \in {"draining", "closing"})

SendAudio ==
  /\ checked # None /\ checked' = None
  /\ IF Full \/ Closed
     THEN decoder' = "failed" /\ UNCHANGED queue
     ELSE queue' = Append(queue, checked) /\ UNCHANGED decoder
  /\ UNCHANGED <<loopVars, cancelled, blocks, playerVars>>
--------------------------------------------------------------------------------
(* run_player.  Both of its selects are biased: clear, control, then audio. *)

(* Discard the queue and kill aplay, whose ALSA buffer cannot be recalled. *)
SeeClear ==
  /\ player \in {"select", "writing"} /\ clear
  /\ clear' = FALSE /\ cleared' = cut
  /\ queue' = <<>> /\ block' = None
  /\ process' = FALSE
  /\ player' = IF process THEN "flushing" ELSE "select"
  /\ UNCHANGED <<control, accepting, steering, interrupts, joiner, resp, cut, cancelled,
                 decoderVars, late>>

(* stop_child returns: the child is reaped, or a second has passed. *)
Flushed ==
  /\ player = "flushing" /\ player' = "select"
  /\ UNCHANGED <<loopVars, cancelled, decoderVars, queue, block, process, late, cleared>>

ControlShutdownOnly == control = "Shutdown"                    \* mutant

ControlChanged == control # "Running"

SeeControl ==
  /\ player \in {"select", "writing"} /\ ~clear /\ ControlChanged
  /\ player' = IF control = "Drain" THEN "draining" ELSE "closing"
  /\ block' = None
  /\ UNCHANGED <<loopVars, cancelled, decoderVars, queue, process, late, cleared>>

TakeAudio ==
  /\ player = "select" /\ ~clear /\ control = "Running" /\ queue # <<>>
  /\ block' = Head(queue) /\ queue' = Tail(queue)
  /\ player' = IF process THEN "writing" ELSE "spawning"
  /\ UNCHANGED <<loopVars, cancelled, decoderVars, process, late, cleared>>

MaySpawn == control = "Running" /\ ~cancelled

(* construct_player_if_running: the gate is checked and the child started under
   the lock that stop takes. *)
SpawnAplay ==
  /\ player = "spawning"
  /\ \/ MaySpawn /\ process' = TRUE /\ player' = "writing"
     \/ MaySpawn /\ player' = "failed" /\ UNCHANGED process
     \/ ~MaySpawn /\ player' = "closing" /\ UNCHANGED process
  /\ block' = IF player' = "writing" THEN block ELSE None
  /\ UNCHANGED <<loopVars, cancelled, decoderVars, queue, late, cleared>>

Plays(r) ==
  late' = IF r <= cleared THEN [late EXCEPT ![r] = @ + 1] ELSE late

WriteDone ==
  /\ player = "writing" /\ ~clear /\ control = "Running"
  /\ Plays(block)
  /\ player' = "select" /\ block' = None
  /\ UNCHANGED <<loopVars, cancelled, decoderVars, queue, process, cleared>>

(* The write fails or times out; the child dies with the task. *)
WriteFails ==
  /\ player \in {"writing", "draining"}
  /\ player = "draining" => process /\ queue # <<>>
  /\ player' = "failed" /\ block' = None /\ process' = FALSE /\ queue' = <<>>
  /\ UNCHANGED <<loopVars, cancelled, decoderVars, late, cleared>>

(* After a drain the queue is closed and emptied, into aplay if there is one. *)
DrainBlock ==
  /\ player = "draining" /\ queue # <<>>
  /\ queue' = Tail(queue)
  /\ IF process THEN Plays(Head(queue)) ELSE UNCHANGED <<late>>
  /\ UNCHANGED <<loopVars, cancelled, decoderVars, player, block, process, cleared>>

Drained ==
  /\ player = "draining" /\ queue = <<>>
  /\ player' = "closing"
  /\ UNCHANGED <<loopVars, cancelled, decoderVars, queue, block, process, late, cleared>>

(* drain_child or stop_child; drain_child may fail after killing the child. *)
CloseAplay ==
  /\ player = "closing"
  /\ player' \in {"done"} \cup (IF process /\ control = "Drain" THEN {"failed"} ELSE {})
  /\ process' = FALSE /\ queue' = <<>>
  /\ UNCHANGED <<loopVars, cancelled, decoderVars, block, late, cleared>>

PlayerStep ==
  \/ SeeClear \/ Flushed \/ SeeControl \/ TakeAudio \/ SpawnAplay
  \/ WriteDone \/ WriteFails \/ DrainBlock \/ Drained \/ CloseAplay

Steer == InterruptCloses \/ InterruptClears \/ BeginResponse \/ Shutdown \/ Finish \/ Abort

Next == Steer \/ CancelSession \/ CheckAudio \/ SendAudio \/ PlayerStep

Spec == Init /\ [][Next]_vars

(* Every await of run_player is bounded by a timeout; nothing is asked of the
   event loop, and the abort of the join is not relied on. *)
FairSpec == Spec /\ WF_vars(PlayerStep) /\ WF_vars(InterruptClears)
--------------------------------------------------------------------------------
(* Properties *)

(* After the flush of an interruption at most one block of the interrupted
   response is still played: the one the decoder had checked before the gate
   closed (try_audio, qwen_voice.rs:223-230). *)
OneLateBlock == \A r \in Response : late[r] <= 1

(* No aplay is started once stop or finish has returned or the session has been
   cancelled, whatever audio is still queued (construct_player_if_running). *)
NoPlayerAfterStop == [][process' /\ ~process => control = "Running" /\ ~cancelled]_vars

(* A player that is being joined ends by itself and leaves no process. *)
StopEndsPlayer == joiner = "waiting" ~> player \in Ended /\ ~process
================================================================================
