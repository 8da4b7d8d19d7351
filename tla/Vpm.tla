--------------------------------- MODULE Vpm ---------------------------------
(***************************************************************************)
(* The keyword monitor: a thread that runs the speaker's VPM library on    *)
(* the microphone, restarts it when it fails, forwards wake words to the   *)
(* main loop, and lends the microphone to the captures.  A capture         *)
(* subscribes to the monitor's broadcast of audio and asks, through a      *)
(* command channel, for ASR_START and, when it is dropped, for ASR_END;    *)
(* both ends are looked up in process-wide slots that each run of the      *)
(* monitor fills and clears.                                               *)
(***************************************************************************)
EXTENDS Integers, Sequences

CONSTANTS
  MaxRuns, MaxCaptures,       \* bounds on runs of the monitor and on captures
  EventCapacity,              \* of the channel to the main loop
  AudioCapacity               \* of the broadcast, ASR_AUDIO_BROADCAST_CAPACITY

Run == 1 .. MaxRuns
Capture == 1 .. MaxCaptures
NoRun == 0

ASSUME VpmAssumption ==
  {MaxRuns, MaxCaptures, EventCapacity, AudioCapacity} \subseteq Nat \ {0}

VARIABLES
  joined,                     \* is a capture joined before the next begins (native), or aborted
  mon, run,                   \* the monitor thread, and which run of it this is
  vpm,                        \* the status of the library
  commandTx, audioTx,         \* VPM_COMMAND_TX, VPM_ASR_AUDIO_TX: the run they lead to
  commands, events, recent,   \* command_rx; event_rx is not empty; last_event within the debounce
  kwsq, wakes,                \* kws_rx of the main loop, Keyword events it has taken
  cap, rx                     \* each capture: where it is; the run and the chunks of its receiver

slotVars == <<commandTx, audioTx>>
monVars == <<mon, run, vpm, slotVars, commands, events, recent>>
vpmVars == <<joined, monVars, kwsq, wakes, cap, rx>>

Status == {"off", "WAKEUP", "ASR_START", "ASR_END"}
NoReceiver == [run |-> NoRun, pending |-> 0]

VpmTypeOK ==
  /\ joined \in BOOLEAN /\ run \in 0 .. MaxRuns /\ vpm \in Status
  /\ mon \in {"start", "command", "audio", "open", "started", "feed", "forward", "stop",
              "closeAudio", "closeCommand", "clear", "sleep"}
  /\ {commandTx, audioTx} \subseteq Run \cup {NoRun}
  /\ commands \in Seq({"ASR_START", "ASR_END"}) /\ {events, recent} \subseteq BOOLEAN
  /\ kwsq \in Seq({"Started", "Keyword"}) /\ wakes \in Nat
  /\ cap \in [Capture -> {"none", "guard", "streaming", "dropping", "done"}]
  /\ rx \in [Capture -> [run : Run \cup {NoRun}, pending : 0 .. AudioCapacity]]

VpmInit ==
  /\ joined \in BOOLEAN
  /\ mon = "start" /\ run = 0 /\ vpm = "off" /\ commandTx = NoRun /\ audioTx = NoRun
  /\ commands = <<>> /\ events = FALSE /\ recent = FALSE /\ kwsq = <<>> /\ wakes = 0
  /\ cap = [c \in Capture |-> "none"] /\ rx = [c \in Capture |-> NoReceiver]

program == <<joined, kwsq, wakes, cap, rx>>
--------------------------------------------------------------------------------
(* run_vpm_monitor: the slots are filled one after the other, the events first. *)

AudioFirst ==
  \/ /\ mon = "start" /\ run < MaxRuns /\ run' = run + 1
     /\ audioTx' = run' /\ mon' = "command" /\ commands' = <<>> /\ events' = FALSE
     /\ UNCHANGED commandTx
  \/ /\ mon = "command" /\ commandTx' = run /\ mon' = "open"
     /\ UNCHANGED <<run, audioTx, commands, events>>
RunBegins ==
  \/ /\ mon = "start" /\ run < MaxRuns /\ run' = run + 1
     /\ mon' = "command" /\ commands' = <<>> /\ events' = FALSE /\ UNCHANGED slotVars
  \/ /\ mon = "command" /\ commandTx' = run /\ mon' = "audio"
     /\ UNCHANGED <<run, audioTx, commands, events>>
  \/ /\ mon = "audio" /\ audioTx' = run /\ mon' = "open"
     /\ UNCHANGED <<run, commandTx, commands, events>>
Begins == RunBegins /\ UNCHANGED <<vpm, recent, program>>

(* dlopen, vpm_init, vpm_start: any may fail; then the start status. *)
Open ==
  /\ mon = "open"
  /\ \/ mon' = "clear" /\ UNCHANGED <<vpm, recent>>
     \/ mon' = "started" /\ vpm' = "WAKEUP" /\ recent' = FALSE
  /\ UNCHANGED <<run, slotVars, commands, events, program>>

(* block_on(on_update): the monitor waits for room in the channel of the main loop. *)
Tell(event) ==
  /\ Len(kwsq) < EventCapacity /\ kwsq' = Append(kwsq, event) /\ mon' = "feed"
  /\ UNCHANGED <<joined, run, vpm, slotVars, commands, events, recent, wakes, cap, rx>>
Forward == (mon = "started" /\ Tell("Started")) \/ (mon = "forward" /\ Tell("Keyword"))

(* send_vpm_asr_audio: every receiver of the slot's run; one that is behind loses the oldest. *)
Broadcast ==
  rx' = [c \in Capture |->
    IF cap[c] \in {"guard", "streaming"} /\ rx[c].run = audioTx /\ rx[c].pending < AudioCapacity
    THEN [rx[c] EXCEPT !.pending = @ + 1] ELSE rx[c]]

(* One round of feed_vpm_audio: vpm_process may report a wake word, once or more, and while it is in
   ASR mode may yield audio; then all commands; then the first event unless it is debounced. *)
Frame ==
  /\ mon = "feed"
  /\ \/ vpm = "ASR_START" /\ Broadcast
     \/ UNCHANGED rx
  /\ vpm' = IF commands = <<>> THEN vpm ELSE commands[Len(commands)]
  /\ commands' = <<>> /\ events' = FALSE
  /\ \E woken \in BOOLEAN :
       IF (events \/ woken) /\ ~recent THEN mon' = "forward" /\ recent' = TRUE
                                       ELSE UNCHANGED <<mon, recent>>
  /\ UNCHANGED <<joined, run, slotVars, kwsq, wakes, cap>>

DebounceEnds ==
  /\ recent /\ recent' = FALSE
  /\ UNCHANGED <<mon, run, vpm, slotVars, commands, events, program>>

(* A callback of the library's own threads, between two frames. *)
Callback ==
  /\ mon \in {"started", "feed", "forward"} /\ ~events /\ events' = TRUE
  /\ UNCHANGED <<mon, run, vpm, slotVars, commands, recent, program>>

ArecordFails ==
  /\ mon = "feed" /\ mon' = "stop"
  /\ UNCHANGED <<run, vpm, slotVars, commands, events, recent, program>>

ClearAudio == audioTx' = NoRun

(* vpm_set_status(6), vpm_stop, vpm_release, clear_..._sender; clear_vpm_sender; a second's sleep *)
Stop ==
  /\ \/ mon = "stop" /\ mon' = "closeAudio" /\ vpm' = "off" /\ UNCHANGED slotVars
     \/ mon = "closeAudio" /\ mon' = "closeCommand" /\ ClearAudio /\ UNCHANGED <<vpm, commandTx>>
     \/ mon = "closeCommand" /\ mon' = "clear" /\ commandTx' = NoRun /\ UNCHANGED <<vpm, audioTx>>
     \/ mon = "clear" /\ mon' = "sleep" /\ ClearAudio /\ commandTx' = NoRun /\ UNCHANGED vpm
     \/ mon = "sleep" /\ mon' = "start" /\ UNCHANGED <<vpm, slotVars>>
  /\ UNCHANGED <<run, commands, events, recent, program>>
--------------------------------------------------------------------------------
(* The captures *)

(* request_vpm_status: lost when no monitor takes commands. *)
Request(status) ==
  commands' = IF commandTx = run /\ run # NoRun THEN Append(commands, status) ELSE commands

MayBegin(c) == \A d \in 1 .. c - 1 :
  IF joined THEN cap[d] = "done" ELSE cap[d] \in {"dropping", "done"}

captureFrame == <<joined, mon, run, vpm, slotVars, events, recent, kwsq, wakes>>

Subscribe(c) ==
  /\ cap[c] = "none" /\ MayBegin(c)
  /\ IF audioTx = NoRun THEN cap' = [cap EXCEPT ![c] = "done"] /\ UNCHANGED rx
     ELSE /\ cap' = [cap EXCEPT ![c] = "guard"]
          /\ rx' = [rx EXCEPT ![c] = [run |-> audioTx, pending |-> 0]]
  /\ UNCHANGED <<captureFrame, commands>>

StartGuard(c) ==
  /\ cap[c] = "guard" /\ cap' = [cap EXCEPT ![c] = "streaming"] /\ Request("ASR_START")
  /\ UNCHANGED <<captureFrame, rx>>

(* forward_vpm_audio, collect_vpm_...: a chunk is taken, or the broadcast is closed. *)
Read(c) ==
  /\ cap[c] = "streaming"
  /\ IF rx[c].pending > 0
     THEN rx' = [rx EXCEPT ![c].pending = @ - 1] /\ UNCHANGED cap
     ELSE rx[c].run # audioTx /\ cap' = [cap EXCEPT ![c] = "dropping"] /\ UNCHANGED rx
  /\ UNCHANGED <<captureFrame, commands>>

(* The capture has what it wants, times out, is cancelled or aborted. *)
EndCapture(c) ==
  /\ cap[c] = "streaming" /\ cap' = [cap EXCEPT ![c] = "dropping"]
  /\ UNCHANGED <<captureFrame, commands, rx>>

DropSilently(c) ==
  /\ cap[c] = "dropping" /\ cap' = [cap EXCEPT ![c] = "done"]
  /\ rx' = [rx EXCEPT ![c] = NoReceiver] /\ UNCHANGED <<captureFrame, commands>>
DropGuard(c) ==
  /\ cap[c] = "dropping" /\ cap' = [cap EXCEPT ![c] = "done"]
  /\ rx' = [rx EXCEPT ![c] = NoReceiver] /\ Request("ASR_END")
  /\ UNCHANGED captureFrame

(* The main loop takes an event. *)
Take ==
  /\ kwsq # <<>> /\ kwsq' = Tail(kwsq)
  /\ wakes' = IF Head(kwsq) = "Keyword" /\ wakes < MaxCaptures THEN wakes + 1 ELSE wakes
  /\ UNCHANGED <<joined, monVars, cap, rx>>
--------------------------------------------------------------------------------
Monitor == Begins \/ Open \/ Forward \/ Frame \/ Stop
Held(c) == StartGuard(c) \/ Read(c) \/ DropGuard(c)

VpmNext ==
  \/ Monitor \/ ArecordFails \/ DebounceEnds \/ Callback \/ Take
  \/ \E c \in Capture : Subscribe(c) \/ Held(c) \/ EndCapture(c)

(* The monitor thread, the capture tasks and the main loop go on; arecord yields frames or ends. *)
VpmSpec ==
  /\ VpmInit /\ [][VpmNext]_vpmVars
  /\ WF_vpmVars(Monitor) /\ WF_vpmVars(Take) /\ \A c \in Capture : WF_vpmVars(Held(c))
--------------------------------------------------------------------------------
(* A joined capture is never deaf: while its receiver leads to the running monitor and its request
   has been taken from the channel, the library is in ASR mode.  In particular a capture that begins
   between two slots of a starting or stopping monitor does not lose ASR_START and wait for audio
   that never comes (run_vpm_monitor's order of set_ and clear_). *)
StreamingIsHeard ==
  \A c \in Capture :
    joined /\ cap[c] = "streaming" /\ rx[c].run = audioTx /\ mon \in {"feed", "forward"} /\ commands = <<>>
      => vpm = "ASR_START"

(* When no capture is left the library leaves ASR mode, however captures overlapped and whichever run
   of the monitor took their requests. *)
Idle == \A c \in Capture : cap[c] \in {"none", "done"}
MicrophoneOff == <>[]Idle => <>[](vpm # "ASR_START")
================================================================================
