------------------------------- MODULE LegacyTurn -------------------------------
(***************************************************************************)
(* The wake arm of the main loop with the turns it starts and replaces:    *)
(* a legacy turn (recorder or VPM stream, ASR, LLM, answer, restore) is    *)
(* aborted without being joined, while the loop goes on to stop the        *)
(* recorder, interrupt the music and forget the conversation.  A native    *)
(* turn, NativeSession in detail, is here only its begin and its end; the  *)
(* loop never aborts one.                                                  *)
(*                                                                         *)
(* Abort: a task that is being polled on another thread goes on to its     *)
(* next await, "dying" allows that one step; then it is dropped, which     *)
(* runs the destructors of what it holds.  Tools run in the tool server    *)
(* and may outlive the turn that called them.                              *)
(***************************************************************************)
EXTENDS Music

CONSTANTS
  MaxTurns,                   \* bound on turns
  Settings                    \* runtime, pcm and mode the program may be started with

Main == 0
Turn == 1 .. MaxTurns
Reader == MaxTurns + 1
Nobody == -1

ASSUME TurnAssumption ==
  /\ MaxTurns \in Nat \ {0} /\ Caller = Turn \cup {Main}
  /\ Settings \subseteq [runtime : {"legacy", "native_qwen"}, pcm : {"alsa", "vpm_asr"}, mode : Mode]

VARIABLES
  runtime, pcm,               \* VoiceConfig.runtime, CaptureConfig.pcm
  mainAt, active, status,     \* the wake arm, active_turn, RuntimeStatus.active_turn
  pc, fate, preserve,         \* the task of each turn, preserve_active_status
  rec, lock,                  \* AudioRecorder: state and reader, which turn started it, its mutex
  vpm,                        \* the last VPM status requested
  control, calling, answer,   \* AgentControl.should_end and who set it; end_conversation calls; the reply
  history                     \* whose exchanges are in the history; of each, whether he was aborted before

mainVars == <<mainAt, active, status>>
turnVars == <<pc, fate, preserve>>
recVars  == <<rec, lock, vpm>>
agentVars == <<control, calling, answer, history>>
vars == <<runtime, pcm, mainVars, turnVars, recVars, agentVars, musicVars>>

Stage == {"none", "start", "record", "capture", "stop", "asr", "prompt", "llm", "speak", "reset",
          "cleanup", "restoring", "airplay", "native", "done"}
After == {"asr", "reset", "cleanup"}      \* where a turn goes when it has stopped the recorder

TurnTypeOK ==
  /\ MusicTypeOK
  /\ mainAt \in {"idle", "stopping", "killing", "music", "interrupting", "airplay", "aborting",
                 "reset", "spawn"}
  /\ active \in 0 .. MaxTurns /\ status \in BOOLEAN
  /\ pc \in [Turn -> [at : Stage, then : After]]
  /\ fate \in [Turn -> {"live", "dying", "doomed", "gone"}]
  /\ preserve \in [Turn -> BOOLEAN]
  /\ rec \in [state : {"Idle", "Recording"}, reader : 0 .. MaxTurns, ending : BOOLEAN, late : BOOLEAN]
  /\ lock \in Nobody .. Reader
  /\ vpm \in {"none", "ASR_START", "ASR_END"}
  /\ control \in [should_end : BOOLEAN, by : 0 .. MaxTurns, late : BOOLEAN]
  /\ calling \in [Turn -> BOOLEAN] /\ answer \in [Turn -> BOOLEAN]
  /\ history \subseteq [by : Turn, late : BOOLEAN]

Cleared == [should_end |-> FALSE, by |-> 0, late |-> FALSE]
Stopped == [state |-> "Idle", reader |-> 0, ending |-> FALSE, late |-> FALSE]

Init ==
  /\ MusicInit
  /\ \E s \in Settings : runtime = s.runtime /\ pcm = s.pcm /\ mode = s.mode
  /\ mainAt = "idle" /\ active = 0 /\ status = FALSE
  /\ pc = [t \in Turn |-> [at |-> "none", then |-> "asr"]]
  /\ fate = [t \in Turn |-> "live"] /\ preserve = [t \in Turn |-> FALSE]
  /\ rec = Stopped /\ lock = Nobody
  /\ vpm = "none"
  /\ control = Cleared /\ calling = [t \in Turn |-> FALSE]
  /\ answer = [t \in Turn |-> FALSE] /\ history = {}

Finished(t) == pc[t].at = "done" \/ fate[t] = "gone"
At(t, s) == pc[t].at = s /\ fate[t] \in {"live", "dying"} /\ Free(t)
Goes(t, s) ==
  /\ pc' = [pc EXCEPT ![t] = [at |-> s, then |-> "asr"]]
  /\ fate' = [fate EXCEPT ![t] = IF @ = "dying" THEN "doomed" ELSE @]
  /\ UNCHANGED preserve
(* What it does, it does after it was aborted. *)
Late(t) == fate[t] # "live"
keep == <<runtime, pcm, mainVars>>
--------------------------------------------------------------------------------
(* AudioRecorder *)

(* stop_recording in two steps, the second after the kill; at once when nothing is recorded *)
StopIdle == lock = Nobody /\ rec.state = "Idle" /\ UNCHANGED recVars
StopTakes(who) ==
  /\ lock = Nobody /\ rec.state = "Recording"
  /\ lock' = who /\ rec' = [rec EXCEPT !.reader = 0, !.ending = FALSE]
  /\ UNCHANGED vpm
StopEnds(who) ==
  /\ lock = who /\ lock' = Nobody
  /\ rec' = Stopped
  /\ UNCHANGED vpm

(* The reader sees the end of its input or 500 ms without any, waits for the mutex, kills. *)
ReaderEnds ==
  /\ rec.reader # 0
  /\ \/ ~rec.ending /\ rec' = [rec EXCEPT !.ending = TRUE] /\ UNCHANGED lock
     \/ rec.ending /\ lock = Nobody /\ lock' = Reader /\ UNCHANGED rec
     \/ lock = Reader /\ lock' = Nobody /\ rec' = Stopped
  /\ UNCHANGED <<vpm, keep, turnVars, agentVars, musicVars>>
--------------------------------------------------------------------------------
(* The wake arm *)

Main_(from, to) == mainAt = from /\ mainAt' = to
quiet == <<runtime, pcm, active, status, turnVars>>

Wake ==
  /\ mainAt = "idle" /\ mainAt' = "stopping"
  /\ \E t \in Turn : pc[t].at = "none"
  /\ active # 0 => runtime = "legacy" \/ Finished(active)
  /\ IF active = 0 THEN UNCHANGED <<fate, preserve>>
     ELSE /\ preserve' = [preserve EXCEPT ![active] = TRUE]
          /\ fate' = [fate EXCEPT ![active] = IF Finished(active) THEN @ ELSE "dying"]
  /\ active' = 0
  /\ UNCHANGED <<runtime, pcm, status, pc, recVars, agentVars, musicVars>>

StopNothing ==
  /\ Main_("stopping", "music") /\ UNCHANGED recVars
  /\ UNCHANGED <<quiet, agentVars, musicVars>>

StopRecorder ==
  /\ \/ Main_("stopping", "music") /\ StopIdle
     \/ Main_("stopping", "killing") /\ StopTakes(Main)
     \/ Main_("killing", "music") /\ StopEnds(Main)
  /\ UNCHANGED <<quiet, agentVars, musicVars>>

InterruptMusic ==
  /\ \/ /\ Main_("music", "airplay") /\ AnswersAtOnce /\ UNCHANGED musicVars
     \/ Main_("music", "interrupting") /\ InterruptBegins(Main)
     \/ Main_("interrupting", "airplay") /\ Free(Main) /\ UNCHANGED musicVars
  /\ UNCHANGED <<quiet, recVars, agentVars>>

(* With an AirPlay session or not; abort_current_output only when nothing was interrupted *)
InterruptAirPlay ==
  /\ \/ Main_("airplay", "reset") /\ SetDucked(TRUE)
     \/ /\ Main_("airplay", IF music.interruption # "no" THEN "reset" ELSE "aborting")
        /\ UNCHANGED musicVars
  /\ UNCHANGED <<quiet, recVars, agentVars>>

AbortOutput ==
  /\ Main_("aborting", "reset") /\ Killed
  /\ UNCHANGED <<quiet, recVars, agentVars>>

Forget == control' = Cleared /\ history' = {} /\ UNCHANGED <<calling, answer>>

ResetNothing ==
  /\ Main_("reset", "spawn") /\ UNCHANGED <<quiet, recVars, agentVars, musicVars>>

ResetConversation ==
  /\ Main_("reset", "spawn") /\ Forget
  /\ UNCHANGED <<quiet, recVars, musicVars>>

StartTurn ==
  /\ Main_("spawn", "idle") /\ status' = TRUE
  /\ LET t == CHOOSE t \in Turn : pc[t].at = "none" /\ \A u \in 1 .. t - 1 : pc[u].at # "none" IN
     /\ active' = t
     /\ pc' = [pc EXCEPT ![t].at = IF runtime = "legacy" THEN "start" ELSE "native"]
  /\ UNCHANGED <<runtime, pcm, fate, preserve, recVars, agentVars, musicVars>>

(* The arm of turn_check *)
TurnCheck ==
  /\ mainAt = "idle" /\ active # 0 /\ Finished(active)
  /\ active' = 0 /\ status' = FALSE
  /\ UNCHANGED <<runtime, pcm, mainAt, turnVars, recVars, agentVars, musicVars>>
--------------------------------------------------------------------------------
(* run_session *)

NativeEnds(t) ==
  /\ At(t, "native") /\ Goes(t, "done")
  /\ UNCHANGED <<keep, recVars, agentVars, musicVars>>

StartListening(t) ==
  /\ At(t, "start")
  /\ \/ Goes(t, "record")
     \/ Goes(t, "cleanup")          \* no streaming transcription
  /\ UNCHANGED <<keep, recVars, agentVars, musicVars>>

(* start_recording answers Ok to a caller that finds it Recording and drops its sender. *)
StartCapture(t) ==
  /\ At(t, "record") /\ Goes(t, "capture")
  /\ IF pcm = "vpm_asr" THEN vpm' = "ASR_START" /\ UNCHANGED <<rec, lock>>
     ELSE /\ lock = Nobody /\ UNCHANGED <<lock, vpm>>
          /\ IF rec.state = "Recording" THEN UNCHANGED rec
             ELSE rec' = [state |-> "Recording", reader |-> t, ending |-> FALSE, late |-> Late(t)]
  /\ UNCHANGED <<keep, agentVars, musicVars>>

(* An utterance, the idle timeout, or the end of the audio *)
Captured(t) ==
  /\ At(t, "capture")
  /\ \E next \in After :
       /\ pcm = "alsa" /\ next = "asr" => rec.reader = t
       /\ pcm = "alsa" /\ next = "cleanup" => rec.reader # t
       /\ pc' = [pc EXCEPT ![t] = IF pcm = "alsa" THEN [at |-> "stop", then |-> next]
                                                  ELSE [@ EXCEPT !.at = next]]
  /\ fate' = [fate EXCEPT ![t] = IF @ = "dying" THEN "doomed" ELSE @]
  /\ vpm' = IF pcm = "vpm_asr" THEN "ASR_END" ELSE vpm
  /\ UNCHANGED <<keep, preserve, rec, lock, agentVars, musicVars>>

TurnStops(t) ==
  /\ At(t, "stop")
  /\ \/ StopIdle /\ Goes(t, pc[t].then)
     \/ StopTakes(t) /\ UNCHANGED <<pc, fate, preserve>>
     \/ StopEnds(t) /\ Goes(t, pc[t].then)
  /\ UNCHANGED <<keep, agentVars, musicVars>>

Transcribed(t) ==
  /\ At(t, "asr")
  /\ \E next \in {"prompt", "reset", "cleanup"} : Goes(t, next)
  /\ UNCHANGED <<keep, recVars, agentVars, musicVars>>

(* AgentRuntime::run_turn *)
Prompt(t) ==
  /\ At(t, "prompt") /\ Goes(t, "llm")
  /\ control' = Cleared
  /\ UNCHANGED <<keep, recVars, calling, answer, history, musicVars>>

Waits(t) == At(t, "llm") /\ ~calling[t]

(* The model calls a tool of the tool server. *)
CallTool(t) ==
  /\ Waits(t) /\ fate[t] = "live" /\ UNCHANGED <<keep, turnVars, recVars, control, answer, history>>
  /\ \/ ToolStarts(t) /\ UNCHANGED calling
     \/ calling' = [calling EXCEPT ![t] = TRUE] /\ UNCHANGED musicVars

EndConversation(t) ==
  /\ calling[t] /\ calling' = [calling EXCEPT ![t] = FALSE]
  /\ control' = [should_end |-> TRUE, by |-> t, late |-> Late(t)]
  /\ UNCHANGED <<keep, turnVars, recVars, answer, history, musicVars>>

(* The last attempt fails; that another one follows changes nothing here. *)
AttemptFails(t) ==
  /\ Waits(t) /\ Goes(t, "cleanup")
  /\ UNCHANGED <<keep, recVars, agentVars, musicVars>>

(* An empty reply starts the next utterance whatever should_end says. *)
Reply(t) ==
  /\ Waits(t) /\ (Goes(t, "speak") \/ Goes(t, "start"))
  /\ history' = history \cup {[by |-> t, late |-> Late(t)]}
  /\ answer' = [answer EXCEPT ![t] = control.should_end]
  /\ UNCHANGED <<keep, recVars, control, calling, musicVars>>

SpeakOrEnd(t) ==
  /\ At(t, "speak")
  /\ \/ Goes(t, IF answer[t] THEN "reset" ELSE "start")
     \/ Goes(t, "done")
  /\ answer' = [answer EXCEPT ![t] = FALSE]
  /\ UNCHANGED <<keep, recVars, control, calling, history, musicVars>>

Speak(t) ==
  /\ At(t, "speak")
  /\ \/ Goes(t, IF answer[t] THEN "reset" ELSE "start")
     \/ Goes(t, "cleanup")
  /\ answer' = [answer EXCEPT ![t] = FALSE]
  /\ UNCHANGED <<keep, recVars, control, calling, history, musicVars>>

ResetSession(t) ==
  /\ At(t, "reset") /\ Goes(t, "cleanup") /\ Forget
  /\ UNCHANGED <<keep, recVars, musicVars>>

(* run_turn: restore the music, then AirPlay, then the status *)
RestoreMusic(t) ==
  /\ At(t, "cleanup") /\ RestoreBegins(t) /\ Goes(t, "airplay")
  /\ UNCHANGED <<keep, recVars, agentVars>>

TurnEnds(t) ==
  /\ At(t, "airplay") /\ SetDucked(FALSE) /\ Goes(t, "done")
  /\ status' = (status /\ preserve[t])
  /\ UNCHANGED <<runtime, pcm, mainAt, active, recVars, agentVars>>

DropUnguarded(t) ==
  /\ fate[t] \in {"dying", "doomed"} /\ pc[t].at # "done"
  /\ fate' = [fate EXCEPT ![t] = "gone"]
  /\ UNCHANGED <<keep, pc, preserve, recVars, agentVars, musicVars>>

(* The aborted task is dropped with its guards; a tool it waits for may go on. *)
Drop(t) ==
  /\ fate[t] \in {"dying", "doomed"} /\ pc[t].at # "done"
  /\ fate' = [fate EXCEPT ![t] = "gone"]
  /\ vpm' = IF pcm = "vpm_asr" /\ pc[t].at = "capture" THEN "ASR_END" ELSE vpm
  /\ lock' = IF lock = t THEN Nobody ELSE lock
  /\ UNCHANGED <<keep, pc, preserve, rec, control, answer, history, mode, music, ducked>>
  /\ \/ op[t].kind # "restore" /\ UNCHANGED <<op, calling, sound>>
     \/ Dropped(t) /\ calling' = [calling EXCEPT ![t] = FALSE]
--------------------------------------------------------------------------------
MainStep == \/ StopRecorder \/ InterruptMusic \/ InterruptAirPlay \/ AbortOutput
            \/ ResetConversation \/ StartTurn \/ TurnCheck

Listens(t) == StartListening(t) \/ StartCapture(t) \/ Captured(t) \/ TurnStops(t) \/ Transcribed(t)
Answers(t) == Prompt(t) \/ AttemptFails(t) \/ Reply(t) \/ Speak(t) \/ ResetSession(t)
CleansUp(t) == RestoreMusic(t) \/ TurnEnds(t)
TurnStep(t) == Listens(t) \/ Answers(t) \/ CleansUp(t) \/ NativeEnds(t)

Works(c) == OpGoesOn(c) /\ UNCHANGED <<keep, turnVars, recVars, agentVars>>

Next ==
  \/ Wake \/ MainStep \/ ReaderEnds
  \/ \E t \in Turn : TurnStep(t) \/ CallTool(t) \/ EndConversation(t) \/ Drop(t)
  \/ \E c \in Caller : Works(c)

(* The tasks are scheduled, device commands and kills end, the runtime drops what was aborted. *)
Fairness ==
  /\ WF_vars(MainStep) /\ WF_vars(ReaderEnds /\ lock = Reader)
  /\ \A t \in Turn : WF_vars(CleansUp(t)) /\ WF_vars(TurnStops(t)) /\ WF_vars(Drop(t))
  /\ \A c \in Caller : WF_vars(Works(c))

Spec == Init /\ [][Next]_vars /\ Fairness
--------------------------------------------------------------------------------
Over == mainAt = "idle" /\ active = 0 /\ \A t \in Turn : pc[t].at = "none" \/ Finished(t)

(* When no turn is left the VPM is out of its ASR state, and a recorder that still runs is one the last
   step of a turn started that was aborted before: stop_recording of the wake arm had come and gone. *)
MicrophoneReleased == Over => vpm # "ASR_START" /\ (rec.reader # 0 => rec.late)

(* When no legacy turn is left no interruption is recorded, AirPlay is not ducked, and the music a wake
   silenced plays again or is about to, unless it was given up: the device refused to take it back, the
   turn that had taken the record was aborted before the device had obeyed, the device was ducked twice,
   or the music was stopped or replaced between the command of the wake and its record. *)
SoundRestored ==
  Over /\ runtime = "legacy" =>
    /\ music.interruption = "no" /\ ~ducked
    /\ sound = "hushed" => \E c \in Caller : op[c].at = "resuming"

(* What a conversation is told or ended by is its own: whatever earlier turns did while they were live,
   ended or aborted since, is forgotten, and all that can be left of one is what it, or a tool it had
   called, did after the abort. *)
NothingLeaks ==
  \A t \in Turn : pc[t].at \in {"llm", "speak"} /\ fate[t] = "live" =>
    \A done \in history \cup {control} : done.by \in {t, 0} \/ done.late

(* A wake is always worked off: the loop never waits for ever on a recorder an aborted turn or an
   ending reader holds. *)
WakeServed == mainAt # "idle" ~> mainAt = "idle"
================================================================================
