--------------------------------- MODULE Music ---------------------------------
(***************************************************************************)
(* The music service and the AirPlay receiver.  The state of the service   *)
(* is behind a mutex that is not held while a device command runs, so an   *)
(* operation is a section before its command, the command, and a section   *)
(* after it; those of several callers interleave.  Which songs there are,  *)
(* and so whether the queue or the history of the service is empty, is     *)
(* left open, as is what HTTP says of them; the device takes or refuses a  *)
(* command, and what the wake does to its sound is kept in "sound".        *)
(***************************************************************************)
EXTENDS Integers

CONSTANT Caller           \* who operates the service: turns with their tools, the main loop

VARIABLES
  mode,                   \* MusicConfig.interruption
  music,                  \* MusicState
  op,                     \* each caller: its operation and where it is
  ducked,                 \* PlaybackState.ducked of AirPlay
  sound                   \* the music of the device: silenced by a wake, or silenced and given up

musicVars == <<mode, music, op, ducked, sound>>
rest == <<mode, ducked, sound>>

Mode == {"Pause", "Duck", "None"}
Kind == {"none", "query", "add", "random", "queued", "next", "pause", "resume", "stop", "interrupt", "restore"}
Resting == [kind |-> "none", at |-> "idle"]

MusicTypeOK ==
  /\ mode \in Mode
  /\ music \in [current : BOOLEAN, paused : BOOLEAN, interruption : Mode \cup {"no"}]
  /\ op \in [Caller -> [kind : Kind, at : {"idle", "resolving", "command", "resuming", "apply"}]]
  /\ ducked \in BOOLEAN /\ sound \in {"plain", "hushed", "left"}

Silent == [current |-> FALSE, paused |-> FALSE, interruption |-> "no"]

MusicInit ==
  /\ mode \in Mode /\ music = Silent /\ op = [c \in Caller |-> Resting]
  /\ ducked = FALSE /\ sound = "plain"

Free(c) == op[c] = Resting
Goto(c, kind, at) == op' = [op EXCEPT ![c] = [kind |-> kind, at |-> at]]
Ends(c) == op' = [op EXCEPT ![c] = Resting]
--------------------------------------------------------------------------------
(* The operations the tools call *)

(* play_query, add_to_queue, add_random and play_random ask the provider first. *)
Request(c) ==
  /\ Free(c) /\ \E kind \in {"query", "add", "random"} : Goto(c, kind, "resolving")
  /\ UNCHANGED <<rest, music>>

(* Nothing playable, or: with nothing current, what was added goes on to be played. *)
Resolved(c) ==
  /\ op[c].at = "resolving" /\ UNCHANGED rest
  /\ \/ Ends(c) /\ UNCHANGED music
     \/ op[c].kind = "query" /\ Goto(c, "query", "command") /\ UNCHANGED music
     \/ op[c].kind = "add" /\ ~music.current /\ Goto(c, "queued", "apply") /\ UNCHANGED music
     \/ /\ op[c].kind = "random" /\ Goto(c, "queued", "apply")
        /\ music' = [music EXCEPT !.current = FALSE, !.paused = FALSE]

(* next, previous: the state moves on before the device is asked to play. *)
Moved == [music EXCEPT !.current = TRUE, !.paused = FALSE]
PlayNext(c) == Free(c) /\ music' = Moved /\ Goto(c, "next", "command") /\ UNCHANGED rest

(* The queue, looked at in a section of its own, may be empty again. *)
PlayQueued(c) ==
  /\ op[c] = [kind |-> "queued", at |-> "apply"]
  /\ \/ Ends(c) /\ UNCHANGED music
     \/ music' = Moved /\ Goto(c, "next", "command")
  /\ UNCHANGED rest

PauseOrResume(c) ==
  /\ Free(c) /\ music.current
  /\ \E kind \in {"pause", "resume"} : Goto(c, kind, "command")
  /\ UNCHANGED <<rest, music>>

UndoPause(c, kind) ==
  /\ music' = [music EXCEPT !.interruption = "no"]
  /\ \/ music.interruption = "Pause" /\ Goto(c, kind, "resuming")
     \/ music.interruption # "Pause" /\ IF kind = "stop" THEN Goto(c, kind, "command") ELSE Ends(c)

(* restore_after_interruption takes the interruption, then resumes or unducks; stop begins with it. *)
Undo(c, kind) ==
  /\ music' = [music EXCEPT !.interruption = "no"]
  /\ \/ music.interruption \in {"Pause", "Duck"} /\ Goto(c, kind, "resuming")
     \/ /\ music.interruption \in {"None", "no"}
        /\ IF kind = "stop" THEN Goto(c, kind, "command") ELSE Ends(c)

StopMusic(c) == Free(c) /\ Undo(c, "stop") /\ UNCHANGED rest
--------------------------------------------------------------------------------
(* What the wake and the end of a turn call *)

(* interrupt_for_wake up to its command, unless it can answer at once *)
AnswersAtOnce == music.interruption # "no" \/ ~music.current \/ music.paused

InterruptBegins(c) ==
  /\ Free(c) /\ ~AnswersAtOnce
  /\ Goto(c, "interrupt", IF mode = "None" THEN "apply" ELSE "command")
  /\ UNCHANGED <<rest, music>>

RestoreBegins(c) == Free(c) /\ Undo(c, "restore") /\ UNCHANGED rest
--------------------------------------------------------------------------------
(* The device: duck_audio remembers the volume it finds, so one that is ducked again has forgotten its
   own; what is given up comes back with another song only, and a forgotten volume never. *)
Hushed == IF sound = "left" \/ (sound = "hushed" /\ mode = "Duck") THEN "left" ELSE "hushed"
Back == IF sound = "left" THEN "left" ELSE "plain"
Plays == IF mode = "Pause" THEN "plain" ELSE sound

(* Nothing is recorded any more that would bring the music back. *)
GivenUp == IF sound = "hushed" /\ music'.interruption = "no" THEN "left" ELSE sound

(* The section after a command that exited with 0.  Only Pause was taken to pause: a resume after
   an unduck finds paused as the user left it. *)
Unpaused == [music EXCEPT !.paused = @ /\ ~(mode = "Pause" /\ music.current)]
Interrupted == [music EXCEPT !.paused = @ \/ mode = "Pause", !.interruption = mode]
Applied(c) ==
  /\ \/ op[c].kind = "query" /\ music' = Moved /\ UNCHANGED sound
     \/ op[c].kind = "next" /\ UNCHANGED <<music, sound>>
     \/ op[c].kind = "pause" /\ music' = [music EXCEPT !.paused = TRUE] /\ UNCHANGED sound
     \/ op[c].kind = "resume" /\ music' = [music EXCEPT !.paused = FALSE] /\ UNCHANGED sound
     \/ op[c].kind = "stop" /\ music' = Silent /\ sound' = GivenUp
     \/ /\ op[c].kind = "interrupt"
        /\ music' = IF music.current THEN Interrupted ELSE music
        /\ sound' = GivenUp
  /\ op[c].at = "apply" /\ Ends(c) /\ UNCHANGED <<mode, ducked>>

(* run_shell: the command works or fails, which ends all but a stop. *)
CommandEnds(c) ==
  /\ op[c].at = "command"
  /\ \/ /\ Goto(c, op[c].kind, "apply")
        /\ \/ op[c].kind = "interrupt" /\ sound' = Hushed
           \/ op[c].kind \in {"query", "next"} /\ sound' = Plays
           \/ op[c].kind = "resume" /\ sound' = IF mode = "Pause" THEN Back ELSE sound
           \/ op[c].kind \in {"pause", "stop"} /\ UNCHANGED sound
     \/ op[c].kind # "stop" /\ Ends(c) /\ UNCHANGED sound
  /\ UNCHANGED <<mode, ducked, music>>

(* The resume or unduck of a restore, the section after it, and for a stop what is left of it *)
ResumeEnds(c) ==
  /\ op[c].at = "resuming"
  /\ \/ music' = Unpaused /\ sound' = Back
     \/ UNCHANGED music /\ sound' = GivenUp
  /\ IF op[c].kind = "stop" THEN Goto(c, "stop", "command") ELSE Ends(c)
  /\ UNCHANGED <<mode, ducked>>

(* The caller is dropped; its command is killed with its process group. *)
Dropped(c) == Ends(c) /\ sound' \in {GivenUp, IF op[c].at = "resuming" THEN Back ELSE GivenUp}

(* abort_current_output kills the player. *)
Killed == UNCHANGED <<mode, music, op, ducked>> /\ sound' = GivenUp
--------------------------------------------------------------------------------
(* AirPlay *)

SetDucked(duck) == ducked' = duck /\ UNCHANGED <<mode, music, op, sound>>
--------------------------------------------------------------------------------
ToolStarts(c) ==
  Request(c) \/ PlayNext(c) \/ PauseOrResume(c) \/ StopMusic(c)

OpGoesOn(c) == Resolved(c) \/ PlayQueued(c) \/ CommandEnds(c) \/ ResumeEnds(c) \/ Applied(c)
================================================================================
