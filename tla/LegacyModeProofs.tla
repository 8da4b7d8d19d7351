--------------------------- MODULE LegacyModeProofs ---------------------------
(***************************************************************************)
(* The legacy mode, proved: LegacyTurn (the tasks of the turns, the wake   *)
(* arm that aborts them, recorder, music and conversation) and Utterance   *)
(* (speech collector, capture and ASR).  For each of the two its types,    *)
(* its inductive invariant and the properties its run checks.              *)
(***************************************************************************)
EXTENDS LegacyTurn, Utterance, FiniteSetTheorems, WellFoundedInduction, TLAPS

(***************************************************************************)
(* The types, part by part.                                                *)
(***************************************************************************)
MainTypeOK ==
  /\ mainAt \in {"idle", "stopping", "killing", "music", "interrupting", "airplay", "aborting",
                 "reset", "spawn"}
  /\ active \in 0 .. MaxTurns /\ status \in BOOLEAN
TaskTypeOK ==
  /\ pc \in [Turn -> [at : Stage, then : After]]
  /\ fate \in [Turn -> {"live", "dying", "doomed", "gone"}]
  /\ preserve \in [Turn -> BOOLEAN]
RecorderTypeOK ==
  /\ rec \in [state : {"Idle", "Recording"}, reader : 0 .. MaxTurns, ending : BOOLEAN, late : BOOLEAN]
  /\ lock \in Nobody .. Reader
  /\ vpm \in {"none", "ASR_START", "ASR_END"}
AgentTypeOK ==
  /\ control \in [should_end : BOOLEAN, by : 0 .. MaxTurns, late : BOOLEAN]
  /\ calling \in [Turn -> BOOLEAN] /\ answer \in [Turn -> BOOLEAN]
  /\ history \subseteq [by : Turn, late : BOOLEAN]

LEMMA TypesSplit ==
  /\ TurnTypeOK <=> MusicTypeOK /\ MainTypeOK /\ TaskTypeOK /\ RecorderTypeOK /\ AgentTypeOK
  /\ TurnTypeOK' <=> MusicTypeOK' /\ MainTypeOK' /\ TaskTypeOK' /\ RecorderTypeOK' /\ AgentTypeOK'
BY DEF TurnTypeOK, MainTypeOK, TaskTypeOK, RecorderTypeOK, AgentTypeOK

LEMMA TurnNumbers ==
  /\ MaxTurns \in Nat \ {0}
  /\ \A t \in Turn : t \in Nat /\ t # Main /\ t # 0 /\ t \in 0 .. MaxTurns /\ t \in Nobody .. Reader
  /\ Nobody \in Nobody .. Reader /\ Main \in Nobody .. Reader /\ Reader \in Nobody .. Reader
  /\ Turn \subseteq Caller /\ Main \in Caller /\ \A c \in Caller : c \in Turn \/ c = Main
BY TurnAssumption DEF Turn, Main, Reader, Nobody

--------------------------------------------------------------------------------
(***************************************************************************)
(* The music service.  One operation of it changes only the entry of its   *)
(* caller, and only an interruption on its way can interrupt.              *)
(***************************************************************************)
Operates(c) == ToolStarts(c) \/ OpGoesOn(c) \/ InterruptBegins(c) \/ RestoreBegins(c)


\* Its caller goes on with it, begins one, or has ended it.
OpMoved(c) ==
  \/ op' = [op EXCEPT ![c] = Resting]
  \/ \E stage \in {"resolving", "command", "resuming", "apply"}, kind \in Kind :
       /\ op' = [op EXCEPT ![c] = [kind |-> kind, at |-> stage]]
       /\ kind = "interrupt" => op[c].kind = "interrupt" \/ InterruptBegins(c)

LEMMA OperationMoves ==
  ASSUME MusicTypeOK, NEW c \in Caller, Operates(c)
  PROVE  OpMoved(c)
<1> USE DEF OpMoved, Goto, Ends, Kind
<1>1. CASE Request(c)
  BY <1>1 DEF Request
<1>2. CASE PlayNext(c)
  BY <1>2 DEF PlayNext
<1>3. CASE PauseOrResume(c)
  BY <1>3 DEF PauseOrResume
<1>4. CASE StopMusic(c)
  BY <1>4 DEF StopMusic, Undo
<1>5. CASE Resolved(c)
  BY <1>5 DEF Resolved
<1>6. CASE PlayQueued(c)
  BY <1>6 DEF PlayQueued
<1>7. CASE CommandEnds(c)
  <2>1. op[c].kind \in Kind
    BY DEF MusicTypeOK
  <2> QED
    BY <1>7, <2>1 DEF CommandEnds
<1>8. CASE ResumeEnds(c)
  BY <1>8 DEF ResumeEnds
<1>9. CASE Applied(c)
  BY <1>9 DEF Applied
<1>10. CASE InterruptBegins(c)
  BY <1>10 DEF InterruptBegins
<1>11. CASE RestoreBegins(c)
  BY <1>11 DEF RestoreBegins, Undo
<1> QED
  BY <1>1, <1>2, <1>3, <1>4, <1>5, <1>6, <1>7, <1>8, <1>9, <1>10, <1>11
  DEF Operates, ToolStarts, OpGoesOn

\* Nothing but an interruption on its way interrupts; a restore takes the interruption.
MusicMoved(c) ==
  /\ music' \in [current : BOOLEAN, paused : BOOLEAN, interruption : Mode \cup {"no"}]
  /\ music'.interruption \in {music.interruption, "no"} \/ op[c].kind = "interrupt"
  /\ RestoreBegins(c) => music'.interruption = "no"
  /\ sound' \in {"plain", "hushed", "left"} /\ UNCHANGED <<mode, ducked>>

LEMMA MusicMoves ==
  ASSUME MusicTypeOK, NEW c \in Caller, Operates(c)
  PROVE  MusicMoved(c)
<1> DEFINE M == [current : BOOLEAN, paused : BOOLEAN, interruption : Mode \cup {"no"}]
<1>0. music \in M /\ mode \in Mode
  BY DEF MusicTypeOK
<1>a. UNCHANGED <<mode, ducked>> /\ sound' \in {"plain", "hushed", "left"}
  <2>1. UNCHANGED <<mode, ducked>> /\ sound' \in {sound, Hushed, Back, Plays, GivenUp}
    BY DEF Operates, ToolStarts, OpGoesOn, Request, PlayNext, PauseOrResume, StopMusic, Resolved, PlayQueued,
           CommandEnds, ResumeEnds, Applied, InterruptBegins, RestoreBegins, rest
  <2>2. sound \in {"plain", "hushed", "left"}
    BY DEF MusicTypeOK
  <2> QED
    BY <2>1, <2>2 DEF Hushed, Back, Plays, GivenUp
<1>b. Moved \in M /\ Moved.interruption = music.interruption
  BY <1>0 DEF Moved
<1>c. Unpaused \in M /\ Unpaused.interruption = music.interruption
  BY <1>0 DEF Unpaused
<1>d. Silent \in M /\ Silent.interruption = "no"
  BY DEF Silent
<1>e. ASSUME NEW kind, Undo(c, kind)
      PROVE  music' \in M /\ music'.interruption = "no"
  BY <1>0, <1>e DEF Undo
<1>1. CASE Request(c) \/ PauseOrResume(c) \/ InterruptBegins(c) \/ CommandEnds(c)
  <2>1. music' = music
    BY <1>1 DEF Request, PauseOrResume, InterruptBegins, CommandEnds
  <2>2. ~RestoreBegins(c) \/ music'.interruption = "no"
    BY <1>e DEF RestoreBegins
  <2> QED
    BY <1>0, <1>a, <2>1, <2>2 DEF MusicMoved
<1>2. CASE PlayNext(c) \/ PlayQueued(c) \/ ResumeEnds(c)
  <2>1. music' \in {music, Moved, Unpaused}
    BY <1>2 DEF PlayNext, PlayQueued, ResumeEnds
  <2>2. ~RestoreBegins(c) \/ music'.interruption = "no"
    BY <1>e DEF RestoreBegins
  <2> QED
    BY <1>0, <1>a, <1>b, <1>c, <2>1, <2>2 DEF MusicMoved
<1>3. CASE StopMusic(c) \/ RestoreBegins(c)
  BY <1>3, <1>a, <1>e DEF StopMusic, RestoreBegins, MusicMoved
<1>4. CASE Resolved(c)
  <2>1. music' = music \/ music' = [music EXCEPT !.current = FALSE, !.paused = FALSE]
    BY <1>4 DEF Resolved
  <2>2. ~RestoreBegins(c) \/ music'.interruption = "no"
    BY <1>e DEF RestoreBegins
  <2> QED
    BY <1>0, <1>a, <2>1, <2>2 DEF MusicMoved
<1>5. CASE Applied(c)
  <2>1. \/ music' \in {music, Moved, Silent, [music EXCEPT !.paused = TRUE], [music EXCEPT !.paused = FALSE]}
        \/ op[c].kind = "interrupt" /\ music' \in {music, Interrupted}
    BY <1>5 DEF Applied
  <2>a. Interrupted \in M
    BY <1>0 DEF Interrupted
  <2>2. ~RestoreBegins(c) \/ music'.interruption = "no"
    BY <1>e DEF RestoreBegins
  <2> QED
    BY <1>0, <1>a, <1>b, <1>d, <2>a, <2>1, <2>2 DEF MusicMoved
<1> QED
  BY <1>1, <1>2, <1>3, <1>4, <1>5 DEF Operates, ToolStarts, OpGoesOn

\* Music that a wake silenced is owed to the user: it is recorded, or about to be, or being taken back.
Owed ==
  \/ music.interruption # "no"
  \/ \E c \in Caller : op[c].at = "resuming" \/ (op[c].kind = "interrupt" /\ op[c].at = "apply")

Hush ==
  /\ music.interruption \in {"no", mode}
  /\ mode = "None" =>
       sound # "hushed" /\ \A c \in Caller : op[c].kind = "interrupt" => op[c].at # "command"
  /\ sound = "hushed" => Owed

\* An operation that is no reason of its own leaves what is owed.
LEMMA OwedStays ==
  ASSUME MusicTypeOK, NEW c \in Caller, Operates(c), Owed, music'.interruption = music.interruption,
         op[c].at # "resuming", ~(op[c].kind = "interrupt" /\ op[c].at = "apply")
  PROVE  Owed'
<1>1. \A d \in Caller \ {c} : op'[d] = op[d]
  BY OperationMoves DEF OpMoved, MusicTypeOK
<1> QED
  BY <1>1 DEF Owed

LEMMA OperationHush ==
  ASSUME MusicTypeOK, Hush, NEW c \in Caller, Operates(c)
  PROVE  Hush'
<1>0. mode' = mode /\ mode \in Mode /\ (\A d \in Caller \ {c} : op'[d] = op[d])
  BY OperationMoves, MusicMoves DEF OpMoved, MusicMoved, MusicTypeOK
<1>1. op'[c].kind = "interrupt" => op'[c].at # "command" \/ mode # "None"
  <2> USE DEF MusicTypeOK, Goto, Ends, Resting
  <2>1. CASE ToolStarts(c) \/ RestoreBegins(c)
    BY <2>1 DEF ToolStarts, Request, PlayNext, PauseOrResume, StopMusic, RestoreBegins, Undo
  <2>2. CASE Resolved(c) \/ PlayQueued(c)
    BY <2>2 DEF Resolved, PlayQueued
  <2>3. CASE CommandEnds(c) \/ ResumeEnds(c) \/ Applied(c)
    BY <2>3 DEF CommandEnds, ResumeEnds, Applied
  <2>4. CASE InterruptBegins(c)
    BY <2>4 DEF InterruptBegins
  <2> QED
    BY <2>1, <2>2, <2>3, <2>4 DEF Operates, OpGoesOn
<1>2. ASSUME sound' = GivenUp
      PROVE  sound' = "hushed" => sound = "hushed" /\ Owed'
  BY <1>2 DEF GivenUp, Owed
<1>3. music'.interruption \in {"no", mode}
  <2>0. music \in [current : BOOLEAN, paused : BOOLEAN, interruption : Mode \cup {"no"}]
    BY DEF MusicTypeOK
  <2>1. CASE op[c].kind = "interrupt" /\ Applied(c)
    <3>1. music' \in {music, Interrupted}
      BY <2>1 DEF Applied
    <3> QED
      BY <2>0, <3>1 DEF Interrupted, Hush
  <2>2. CASE op[c].kind # "interrupt" /\ Applied(c)
    BY <2>2, MusicMoves DEF MusicMoved, Hush
  <2>3. CASE ToolStarts(c) \/ InterruptBegins(c) \/ RestoreBegins(c)
    BY <2>0, <2>3
    DEF ToolStarts, Request, PlayNext, PauseOrResume, StopMusic, InterruptBegins, RestoreBegins, Undo, Moved, Hush
  <2>4. CASE Resolved(c) \/ PlayQueued(c) \/ CommandEnds(c) \/ ResumeEnds(c)
    <3>1. music' \in {music, Moved, Unpaused, [music EXCEPT !.current = FALSE, !.paused = FALSE]}
      BY <2>4 DEF Resolved, PlayQueued, CommandEnds, ResumeEnds
    <3> QED
      BY <2>0, <3>1 DEF Moved, Unpaused, Hush
  <2> QED
    BY <2>1, <2>2, <2>3, <2>4 DEF Operates, OpGoesOn
<1>4. (sound' = "hushed" => Owed') /\ (mode = "None" => sound' # "hushed")
  <2>1. CASE ToolStarts(c) /\ ~StopMusic(c)
    <3>1. sound' = sound /\ op[c] = Resting /\ music'.interruption = music.interruption
      BY <2>1 DEF ToolStarts, Request, PlayNext, PauseOrResume, rest, Free, Moved, MusicTypeOK
    <3> QED
      BY <3>1, OwedStays DEF Hush, Resting
  <2>2. CASE StopMusic(c) \/ RestoreBegins(c)
    <3>1. sound' = sound /\ op[c] = Resting /\ \E kind \in {"stop", "restore"} : Undo(c, kind)
      BY <2>2 DEF StopMusic, RestoreBegins, rest, Free
    <3>2. CASE music.interruption \in {"Pause", "Duck"}
      <4>1. op'[c].at = "resuming"
        BY <3>1, <3>2 DEF Undo, Goto, MusicTypeOK, Mode
      <4> QED
        BY <3>1, <4>1 DEF Hush, Owed
    <3>3. CASE music.interruption = "no"
      <4>1. music'.interruption = music.interruption
        BY <3>1, <3>3 DEF Undo, MusicTypeOK
      <4> QED
        BY <3>1, <4>1, OwedStays DEF Hush, Resting
    <3>4. CASE music.interruption = "None"
      BY <3>1, <3>4 DEF Hush
    <3> QED
      BY <3>2, <3>3, <3>4 DEF MusicTypeOK, Mode
  <2>3. CASE Resolved(c) \/ PlayQueued(c)
    <3>0. music' \in {music, Moved, [music EXCEPT !.current = FALSE, !.paused = FALSE]}
      BY <2>3 DEF Resolved, PlayQueued
    <3>1. sound' = sound /\ music'.interruption = music.interruption
      BY <2>3, <3>0 DEF Resolved, PlayQueued, rest, Moved, MusicTypeOK
    <3>2. op[c].at # "resuming" /\ ~(op[c].kind = "interrupt" /\ op[c].at = "apply")
      BY <2>3 DEF Resolved, PlayQueued
    <3> QED
      BY <3>1, <3>2, OwedStays DEF Hush
  <2>4. CASE CommandEnds(c)
    <3>1. op[c].at = "command" /\ music' = music
      BY <2>4 DEF CommandEnds
    <3>2. CASE op[c].kind = "interrupt" /\ Goto(c, op[c].kind, "apply") /\ sound' = Hushed
      <4>1. op'[c].kind = "interrupt" /\ op'[c].at = "apply" /\ mode # "None"
        BY <3>1, <3>2 DEF Goto, MusicTypeOK, Hush
      <4> QED
        BY <4>1 DEF Owed
    <3>3. CASE sound' \in {sound, Back, Plays}
      <4>1. sound' = "hushed" => sound = "hushed"
        BY <3>3 DEF Back, Plays
      <4> QED
        BY <3>1, <4>1, OwedStays DEF Hush
    <3> QED
      BY <2>4, <3>2, <3>3 DEF CommandEnds
  <2>5. CASE ResumeEnds(c)
    BY <1>2, <2>5 DEF ResumeEnds, Back, Hush
  <2>6. CASE Applied(c)
    <3>1. CASE sound' = GivenUp
      BY <1>2, <3>1 DEF Hush
    <3>2. CASE sound' # GivenUp
      <4>1. /\ sound' = sound /\ op[c].at = "apply" /\ op[c].kind # "interrupt"
            /\ music'.interruption = music.interruption
        BY <2>6, <3>2 DEF Applied, Moved, MusicTypeOK
      <4> QED
        BY <4>1, OwedStays DEF Hush
    <3> QED
      BY <3>1, <3>2
  <2>7. CASE InterruptBegins(c)
    <3>1. sound' = sound /\ op[c] = Resting /\ music' = music
      BY <2>7 DEF InterruptBegins, rest, Free
    <3> QED
      BY <3>1, OwedStays DEF Hush, Resting
  <2> QED
    BY <2>1, <2>2, <2>3, <2>4, <2>5, <2>6, <2>7 DEF Operates, OpGoesOn
<1> QED
  BY <1>0, <1>1, <1>3, <1>4 DEF Hush

\* So do the steps beside the operations: a drop, AirPlay, and the abort of what the device plays.
LEMMA OthersHush ==
  ASSUME MusicTypeOK, Hush, UNCHANGED <<mode, music>>,
         \/ UNCHANGED <<op, sound>>
         \/ op' = op /\ sound' = GivenUp
         \/ \E c \in Caller : /\ op' = [op EXCEPT ![c] = Resting]
                           /\ sound' \in {GivenUp, IF op[c].at = "resuming" THEN Back ELSE GivenUp}
  PROVE  Hush'
<1>1. CASE UNCHANGED <<op, sound>>
  BY <1>1 DEF Hush, Owed
<1>2. ASSUME sound' \in {GivenUp, Back}
      PROVE  sound' = "hushed" => sound = "hushed" /\ Owed'
  BY <1>2 DEF GivenUp, Back, Owed
<1>3. CASE op' = op /\ sound' = GivenUp
  BY <1>2, <1>3 DEF Hush
<1>4. ASSUME NEW c \in Caller, op' = [op EXCEPT ![c] = Resting], sound' \in {GivenUp, Back}
      PROVE  Hush'
  <2>1. \A d \in Caller : op'[d].kind = "interrupt" => op'[d] = op[d]
    BY <1>4 DEF MusicTypeOK, Resting
  <2> QED
    BY <1>2, <1>4, <2>1 DEF Hush
<1> QED
  BY <1>1, <1>3, <1>4

\* One operation keeps the types of the service.
LEMMA OperationTypes ==
  ASSUME MusicTypeOK, NEW c \in Caller, Operates(c)
  PROVE  MusicTypeOK'
<1>1. op' \in [Caller -> [kind : Kind, at : {"idle", "resolving", "command", "resuming", "apply"}]]
  BY OperationMoves DEF OpMoved, MusicTypeOK, Resting, Kind
<1> QED
  BY <1>1, MusicMoves DEF MusicMoved, MusicTypeOK

\* What the invariants of the turns need to know of an operation.
LEMMA OperationFacts ==
  ASSUME MusicTypeOK, NEW c \in Caller, Operates(c)
  PROVE  /\ MusicTypeOK' /\ ducked' = ducked
         /\ \A d \in Caller \ {c} : op'[d] = op[d]
         /\ op'[c].kind = "interrupt" => op[c].kind = "interrupt" \/ InterruptBegins(c)
         /\ OpGoesOn(c) => op[c] # Resting
         /\ music'.interruption \in {music.interruption, "no"} \/ op[c].kind = "interrupt"
         /\ RestoreBegins(c) => music'.interruption = "no"
<1>1. \A d \in Caller \ {c} : op'[d] = op[d]
  BY OperationMoves DEF OpMoved, MusicTypeOK
<1>2. op'[c].kind = "interrupt" => op[c].kind = "interrupt" \/ InterruptBegins(c)
  BY OperationMoves DEF OpMoved, MusicTypeOK, Resting
<1>3. OpGoesOn(c) => op[c] # Resting
  BY DEF OpGoesOn, Resolved, PlayQueued, CommandEnds, ResumeEnds, Applied, Resting
<1> QED
  BY <1>1, <1>2, <1>3, OperationTypes, MusicMoves DEF MusicMoved

--------------------------------------------------------------------------------
(***************************************************************************)
(* The steps of a turn, seen from outside.                                 *)
(***************************************************************************)
TurnActs(t) == TurnStep(t) \/ CallTool(t) \/ EndConversation(t) \/ Drop(t)

\* Its task goes on, which an aborted one does once, or is dropped; nothing of another task moves.
TaskMoved(t) ==
  /\ UNCHANGED <<runtime, pcm, mainAt, active>> /\ status' \in {status, FALSE}
  /\ preserve' = preserve
  /\ \/ /\ fate[t] \in {"live", "dying"}
        /\ \E stage \in Stage \ {"none", "native"}, then \in After :
             pc' = [pc EXCEPT ![t] = [at |-> stage, then |-> then]]
        /\ fate' = [fate EXCEPT ![t] = IF @ = "dying" THEN "doomed" ELSE @]
        /\ pc[t].at \notin {"none", "done"} /\ (pc[t].at = "llm" => ~calling[t])
     \/ UNCHANGED <<pc, fate>>
     \/ pc' = pc /\ fate' = [fate EXCEPT ![t] = "gone"] /\ fate[t] \in {"dying", "doomed"}

LEMMA GoesMoves ==
  ASSUME TaskTypeOK, NEW t \in Turn, NEW from, At(t, from), pc[t].at = from,
         from \notin {"none", "done"}, from = "llm" => ~calling[t],
         NEW to \in Stage \ {"none", "native"}, Goes(t, to),
         UNCHANGED <<runtime, pcm, mainAt, active>>, status' \in {status, FALSE}
  PROVE  TaskMoved(t)
BY DEF TaskMoved, Goes, At, After

LEMMA TurnMoves ==
  ASSUME TurnTypeOK, NEW t \in Turn, TurnActs(t)
  PROVE  TaskMoved(t)
<1>0. TaskTypeOK /\ MainTypeOK /\ pc[t] \in [at : Stage, then : After]
  BY TypesSplit DEF TaskTypeOK
<1> USE DEF Stage, keep, mainVars
<1>1. CASE NativeEnds(t) \/ StartListening(t) \/ Transcribed(t)
  <2>1. \E from \in {"native", "start", "asr"}, to \in Stage \ {"none", "native"} :
          At(t, from) /\ Goes(t, to)
    BY <1>1 DEF NativeEnds, StartListening, Transcribed
  <2> QED
    BY <1>0, <1>1, <2>1, GoesMoves DEF At, NativeEnds, StartListening, Transcribed
<1>2. CASE StartCapture(t)
  BY <1>0, <1>2, GoesMoves DEF At, StartCapture
<1>3. CASE Captured(t)
  <2>1. \E stage \in {"stop"} \cup After, then \in After : pc' = [pc EXCEPT ![t] = [at |-> stage, then |-> then]]
    <3>1. PICK next \in After :
            pc' = [pc EXCEPT ![t] = IF pcm = "alsa" THEN [at |-> "stop", then |-> next] ELSE [@ EXCEPT !.at = next]]
      BY <1>3 DEF Captured
    <3>2. [pc[t] EXCEPT !.at = next] = [at |-> next, then |-> pc[t].then] /\ pc[t].then \in After
      BY <1>0
    <3>3. CASE pcm = "alsa"
      BY <3>1, <3>3
    <3>4. CASE pcm # "alsa"
      BY <1>0, <3>1, <3>2, <3>4 DEF TaskTypeOK
    <3> QED
      BY <3>3, <3>4
  <2> QED
    BY <1>0, <1>3, <2>1 DEF TaskMoved, Captured, At, After
<1>4. CASE TurnStops(t)
  <2>1. CASE UNCHANGED <<pc, fate, preserve>>
    BY <1>4, <2>1 DEF TurnStops, TaskMoved
  <2>2. CASE Goes(t, pc[t].then)
    <3>1. pc[t].then \in Stage \ {"none", "native"}
      BY <1>0 DEF After
    <3> QED
      BY <1>0, <1>4, <2>2, <3>1, GoesMoves DEF TurnStops, At
  <2> QED
    BY <1>4, <2>1, <2>2 DEF TurnStops
<1>5. CASE Prompt(t) \/ AttemptFails(t) \/ Reply(t)
  BY <1>0, <1>5, GoesMoves DEF Prompt, AttemptFails, Reply, Waits, At
<1>6. CASE Speak(t) \/ ResetSession(t) \/ RestoreMusic(t)
  BY <1>0, <1>6, GoesMoves DEF Speak, ResetSession, RestoreMusic, At
<1>7. CASE TurnEnds(t)
  BY <1>0, <1>7, GoesMoves DEF TurnEnds, At, MainTypeOK
<1>8. CASE CallTool(t) \/ EndConversation(t)
  BY <1>8 DEF CallTool, EndConversation, TaskMoved, turnVars
<1>9. CASE Drop(t)
  BY <1>9 DEF Drop, TaskMoved
<1> QED
  BY <1>1, <1>2, <1>3, <1>4, <1>5, <1>6, <1>7, <1>8, <1>9
  DEF TurnActs, TurnStep, Listens, Answers, CleansUp

\* A step of a turn keeps the types of the tasks and of the loop.
LEMMA TurnTaskTypes ==
  ASSUME TurnTypeOK, NEW t \in Turn, TurnActs(t)
  PROVE  TaskTypeOK' /\ MainTypeOK'
<1>1. TaskTypeOK /\ MainTypeOK /\ TaskMoved(t)
  BY TypesSplit, TurnMoves
<1> QED
  <2>1. pc' \in [Turn -> [at : Stage, then : After]]
    BY <1>1 DEF TaskMoved, TaskTypeOK
  <2>2. fate' \in [Turn -> {"live", "dying", "doomed", "gone"}]
    BY <1>1 DEF TaskMoved, TaskTypeOK
  <2>3. MainTypeOK'
    BY <1>1 DEF TaskMoved, MainTypeOK
  <2> QED
    BY <1>1, <2>1, <2>2, <2>3 DEF TaskMoved, TaskTypeOK

\* The tools and the restore of a turn never interrupt.
LEMMA TurnsNeverInterrupt ==
  ASSUME MusicTypeOK, NEW c \in Caller, ToolStarts(c) \/ RestoreBegins(c)
  PROVE  op'[c].kind # "interrupt"
<1> USE DEF MusicTypeOK, Goto, Ends, Resting
<1>1. CASE Request(c)
  BY <1>1 DEF Request
<1>2. CASE PlayNext(c) \/ PauseOrResume(c)
  BY <1>2 DEF PlayNext, PauseOrResume
<1>3. CASE StopMusic(c) \/ RestoreBegins(c)
  BY <1>3 DEF StopMusic, RestoreBegins, Undo
<1> QED
  BY <1>1, <1>2, <1>3 DEF ToolStarts

\* What a step of a turn does to the music service and to AirPlay.
TurnSounds(t) ==
  /\ \A c \in Caller \ {t} : op'[c] = op[c]
  /\ op[t].kind # "interrupt" =>
       op'[t].kind # "interrupt" /\ music'.interruption \in {music.interruption, "no"}
  /\ RestoreMusic(t) => music'.interruption = "no"
  /\ ducked' \in {ducked, FALSE} /\ (TurnEnds(t) => ~ducked')

LEMMA TurnMusic ==
  ASSUME TurnTypeOK, NEW t \in Turn, TurnActs(t)
  PROVE  MusicTypeOK' /\ TurnSounds(t) /\ (Hush => Hush')
<1>0. MusicTypeOK /\ t \in Caller
  BY TypesSplit, TurnNumbers
<1>a. RestoreMusic(t) => RestoreBegins(t)
  BY DEF RestoreMusic
<1>b. TurnEnds(t) => SetDucked(FALSE)
  BY DEF TurnEnds
<1>c. RestoreBegins(t) => music'.interruption = "no"
  BY DEF RestoreBegins, Undo
<1>1. CASE ToolStarts(t) \/ RestoreBegins(t)
  <2>1. Operates(t)
    BY <1>1 DEF Operates
  <2> HIDE DEF Operates
  <2>2. MusicTypeOK' /\ ducked' = ducked /\ (\A d \in Caller \ {t} : op'[d] = op[d])
    BY <1>0, <2>1, OperationFacts
  <2>3. music'.interruption \in {music.interruption, "no"} \/ op[t].kind = "interrupt"
    BY <1>0, <2>1, OperationFacts
  <2>4. op'[t].kind # "interrupt"
    BY <1>0, <1>1, TurnsNeverInterrupt
  <2>5. Hush => Hush'
    BY <1>0, <2>1, OperationHush
  <2> QED
    BY <1>a, <1>b, <1>c, <2>2, <2>3, <2>4, <2>5 DEF TurnSounds, SetDucked
<1>2. CASE UNCHANGED musicVars
  <2>1. UNCHANGED <<mode, music, op, ducked, sound>>
    BY <1>2 DEF musicVars
  <2> QED
    BY <1>0, <1>a, <1>b, <1>c, <2>1, OthersHush DEF TurnSounds, SetDucked, MusicTypeOK
<1>3. CASE TurnEnds(t)
  <2>1. ducked' = FALSE /\ UNCHANGED <<mode, music, op, sound>>
    BY <1>3 DEF TurnEnds, SetDucked
  <2> QED
    BY <1>0, <1>a, <1>c, <2>1, OthersHush DEF TurnSounds, MusicTypeOK
<1>4. CASE Drop(t)
  <2>0. \/ UNCHANGED <<op, sound>>
        \/ /\ op' = [op EXCEPT ![t] = Resting]
           /\ sound' \in {GivenUp, IF op[t].at = "resuming" THEN Back ELSE GivenUp}
    BY <1>4 DEF Drop, Dropped, Ends
  <2>c. UNCHANGED <<mode, music, ducked>>
    BY <1>4 DEF Drop
  <2>1. (op' = op \/ op' = [op EXCEPT ![t] = Resting]) /\ UNCHANGED <<mode, music, ducked>>
    BY <2>0, <2>c
  <2>a. sound' \in {"plain", "hushed", "left"}
    BY <1>0, <2>0 DEF MusicTypeOK, GivenUp, Back
  <2>b. Hush => Hush'
    BY <1>0, <2>0, <2>1, OthersHush
  <2>2. op' \in [Caller -> [kind : Kind, at : {"idle", "resolving", "command", "resuming", "apply"}]]
    BY <1>0, <2>1 DEF MusicTypeOK, Resting, Kind
  <2>3. MusicTypeOK'
    BY <1>0, <2>1, <2>2, <2>a DEF MusicTypeOK
  <2>4. op[t].kind # "interrupt" => op'[t].kind # "interrupt"
    BY <1>0, <2>1 DEF MusicTypeOK, Resting
  <2>5. \A c \in Caller \ {t} : op'[c] = op[c]
    BY <1>0, <2>1 DEF MusicTypeOK
  <2> QED
    BY <1>a, <1>b, <1>c, <2>1, <2>3, <2>4, <2>5, <2>b DEF TurnSounds, SetDucked
<1> QED
  BY <1>1, <1>2, <1>3, <1>4
  DEF TurnActs, TurnStep, Listens, Answers, CleansUp, CallTool, EndConversation, NativeEnds, StartListening,
      StartCapture, Captured, TurnStops, Transcribed, Prompt, AttemptFails, Reply, Speak, ResetSession,
      RestoreMusic

\* What a step of a turn does to the recorder and the VPM.
TurnRecords(t) ==
  \/ UNCHANGED recVars
  \/ rec' = Stopped /\ vpm' = vpm
  \/ rec' = [rec EXCEPT !.reader = 0, !.ending = FALSE] /\ vpm' = vpm
  \/ StartCapture(t) /\ pcm = "vpm_asr" /\ vpm' = "ASR_START" /\ rec' = rec
  \/ StartCapture(t) /\ rec' = [state |-> "Recording", reader |-> t, ending |-> FALSE, late |-> Late(t)] /\ vpm' = vpm
  \/ Captured(t) /\ rec' = rec /\ vpm' = IF pcm = "vpm_asr" THEN "ASR_END" ELSE vpm
  \/ Drop(t) /\ rec' = rec /\ vpm' = IF pcm = "vpm_asr" /\ pc[t].at = "capture" THEN "ASR_END" ELSE vpm

LEMMA TurnRecorder ==
  ASSUME TurnTypeOK, NEW t \in Turn, TurnActs(t)
  PROVE  RecorderTypeOK' /\ TurnRecords(t)
<1>0. RecorderTypeOK
  BY TypesSplit
<1>1. lock' \in {lock, Nobody, t}
  BY DEF TurnActs, TurnStep, Listens, Answers, CleansUp, CallTool, EndConversation, NativeEnds,
         StartListening, StartCapture, Captured, TurnStops, Transcribed, Prompt, AttemptFails, Reply, Speak,
         ResetSession, RestoreMusic, TurnEnds, Drop, StopIdle, StopTakes, StopEnds, recVars
<1>2. TurnRecords(t)
  <2> USE DEF TurnRecords
  <2>1. CASE StartCapture(t)
    BY <2>1 DEF StartCapture, recVars
  <2>2. CASE Captured(t)
    BY <2>2 DEF Captured
  <2>3. CASE TurnStops(t)
    BY <2>3 DEF TurnStops, StopIdle, StopTakes, StopEnds
  <2>4. CASE Drop(t)
    BY <2>4 DEF Drop
  <2>5. CASE UNCHANGED recVars
    BY <2>5
  <2> QED
    BY <2>1, <2>2, <2>3, <2>4, <2>5
    DEF TurnActs, TurnStep, Listens, Answers, CleansUp, CallTool, EndConversation, NativeEnds,
        StartListening, Transcribed, Prompt, AttemptFails, Reply, Speak, ResetSession, RestoreMusic, TurnEnds
<1>3. lock' \in Nobody .. Reader
  BY <1>0, <1>1, TurnNumbers DEF RecorderTypeOK
<1>4. rec' \in [state : {"Idle", "Recording"}, reader : 0 .. MaxTurns, ending : BOOLEAN, late : BOOLEAN]
  <2>0. t \in 0 .. MaxTurns /\ 0 \in 0 .. MaxTurns
    BY TurnNumbers
  <2>1. rec' \in {rec, Stopped, [rec EXCEPT !.reader = 0, !.ending = FALSE],
                 [state |-> "Recording", reader |-> t, ending |-> FALSE, late |-> Late(t)]}
    BY <1>2 DEF TurnRecords, recVars
  <2> DEFINE R == [state : {"Idle", "Recording"}, reader : 0 .. MaxTurns, ending : BOOLEAN, late : BOOLEAN]
  <2>2. rec \in R
    BY <1>0 DEF RecorderTypeOK
  <2>3. Stopped \in R /\ [rec EXCEPT !.reader = 0, !.ending = FALSE] \in R
    BY <2>0, <2>2 DEF Stopped
  <2>4. [state |-> "Recording", reader |-> t, ending |-> FALSE, late |-> Late(t)] \in R
    BY <2>0 DEF Late
  <2> HIDE DEF R
  <2>5. rec' \in R
    BY <2>1, <2>2, <2>3, <2>4
  <2> QED
    BY <2>5 DEF R
<1>5. vpm' \in {"none", "ASR_START", "ASR_END"}
  BY <1>0, <1>2 DEF RecorderTypeOK, TurnRecords, recVars
<1> QED
  BY <1>2, <1>3, <1>4, <1>5 DEF RecorderTypeOK

\* What a step of a turn does to the agent: an exchange or an end of the conversation is its own.
TurnTalks(t) ==
  /\ calling' = calling \/ \E b \in BOOLEAN : calling' = [calling EXCEPT ![t] = b]
  /\ answer' = answer \/ \E b \in BOOLEAN : answer' = [answer EXCEPT ![t] = b]
  /\ calling'[t] => calling[t] \/ (pc[t].at = "llm" /\ pc' = pc)
  /\ history' \in {history, {}} \/ (history' = history \cup {[by |-> t, late |-> Late(t)]} /\ pc[t].at = "llm")
  /\ control' \in {control, Cleared} \/ (control' = [should_end |-> TRUE, by |-> t, late |-> Late(t)] /\ calling[t])

LEMMA TurnAgent ==
  ASSUME TurnTypeOK, NEW t \in Turn, TurnActs(t)
  PROVE  AgentTypeOK' /\ TurnTalks(t)
<1>0. AgentTypeOK
  BY TypesSplit
<1>1. TurnTalks(t)
  <2> USE <1>0 DEF TurnTalks, AgentTypeOK
  <2>1. CASE Prompt(t) \/ ResetSession(t)
    BY <2>1 DEF Prompt, ResetSession, Forget
  <2>2. CASE CallTool(t)
    BY <2>2 DEF CallTool, Waits, At, turnVars
  <2>3. CASE EndConversation(t)
    BY <2>3 DEF EndConversation
  <2>4. CASE Reply(t)
    <3>1. control.should_end \in BOOLEAN
      OBVIOUS
    <3> QED
      BY <2>4, <3>1 DEF Reply, Waits, At
  <2>5. CASE Speak(t)
    BY <2>5 DEF Speak
  <2>6. CASE Drop(t)
    BY <2>6 DEF Drop
  <2>7. CASE UNCHANGED agentVars
    BY <2>7 DEF agentVars
  <2> QED
    BY <2>1, <2>2, <2>3, <2>4, <2>5, <2>6, <2>7
    DEF TurnActs, TurnStep, Listens, Answers, CleansUp, NativeEnds, StartListening, StartCapture, Captured,
        TurnStops, Transcribed, AttemptFails, RestoreMusic, TurnEnds
<1>2. control' \in [should_end : BOOLEAN, by : 0 .. MaxTurns, late : BOOLEAN]
  <2>1. t \in 0 .. MaxTurns /\ 0 \in 0 .. MaxTurns
    BY TurnNumbers
  <2>2. control' \in {control, Cleared, [should_end |-> TRUE, by |-> t, late |-> Late(t)]}
    BY <1>1 DEF TurnTalks
  <2> DEFINE C == [should_end : BOOLEAN, by : 0 .. MaxTurns, late : BOOLEAN]
  <2>3. control \in C /\ Cleared \in C /\ [should_end |-> TRUE, by |-> t, late |-> Late(t)] \in C
    BY <1>0, <2>1 DEF AgentTypeOK, Cleared, Late
  <2> HIDE DEF C
  <2>4. control' \in C
    BY <2>2, <2>3
  <2> QED
    BY <2>4 DEF C
<1>3. history' \subseteq [by : Turn, late : BOOLEAN]
  <2>1. [by |-> t, late |-> Late(t)] \in [by : Turn, late : BOOLEAN]
    BY DEF Late
  <2> QED
    BY <1>0, <1>1, <2>1 DEF AgentTypeOK, TurnTalks
<1>4. calling' \in [Turn -> BOOLEAN] /\ answer' \in [Turn -> BOOLEAN]
  BY <1>0, <1>1 DEF AgentTypeOK, TurnTalks
<1> QED
  BY <1>1, <1>2, <1>3, <1>4 DEF AgentTypeOK

--------------------------------------------------------------------------------
(***************************************************************************)
(* The inductive invariant.                                                *)
(* Tasks: they start in order, while the wake arm is at work none is       *)
(* active, and a live one that runs is the active one.                     *)
(* Recorder: who may still read from the recorder is where he captures or  *)
(* stops, and a turn that started it live is the active one once the wake  *)
(* arm has stopped it; the VPM is in its ASR state for a capture that is   *)
(* not gone.                                                               *)
(* Sound: only the loop interrupts, and it waits for that; so from the     *)
(* restore of the active turn on nothing is interrupted or ducked, and     *)
(* what a wake silenced is owed as long as it is not given up.             *)
(* Conversation: an exchange or an end of the conversation is that of the  *)
(* active turn once the wake arm has reset, but for what was late.         *)
(***************************************************************************)
Begun(n) == \A t \in Turn : pc[t].at = "none" <=> t > n

Tasks ==
  /\ \E n \in 0 .. MaxTurns : Begun(n) /\ (mainAt # "idle" => n < MaxTurns)
  /\ mainAt # "idle" => active = 0
  /\ active # 0 => pc[active].at # "none" /\ fate[active] = "live"
  /\ \A t \in Turn : pc[t].at = "none" => fate[t] = "live"
  /\ \A t \in Turn : fate[t] = "live" => t = active \/ pc[t].at \in {"none", "done"}
  /\ \A t \in Turn : calling[t] => pc[t].at = "llm"
  /\ runtime = "legacy" => \A t \in Turn : pc[t].at # "native"

Recorder ==
  /\ rec.state = "Idle" => rec.reader = 0
  /\ rec.reader # 0 => pc[rec.reader].at \in {"capture", "stop"}
  /\ pcm \in {"alsa", "vpm_asr"}
  /\ pcm = "alsa" => vpm = "none"
  /\ pcm = "vpm_asr" => rec.reader = 0
  /\ vpm = "ASR_START" => \E t \in Turn : pc[t].at = "capture" /\ fate[t] # "gone"
  /\ rec.reader # 0 => rec.late \/ fate[rec.reader] = "live" \/ mainAt = "stopping"

Restored(stages) == mainAt = "idle" /\ (active # 0 => pc[active].at \in stages)

Sound ==
  /\ \A t \in Turn : op[t].kind # "interrupt"
  /\ op[Main] # Resting => mainAt = "interrupting"
  /\ runtime = "legacy" /\ Restored({"airplay", "done"}) => music.interruption = "no"
  /\ runtime = "legacy" /\ Restored({"done"}) => ~ducked
  /\ Hush

Conversation ==
  \A done \in history \cup {control} :
    done.by = 0 \/ done.late \/ done.by = active \/ (active = 0 /\ mainAt # "spawn")

LegacyInv == TurnTypeOK /\ Tasks /\ Recorder /\ Sound /\ Conversation

LEMMA LegacyFirst == Init => LegacyInv
<1> SUFFICES ASSUME Init PROVE LegacyInv
  OBVIOUS
<1> USE TurnNumbers DEF Init
<1>1. MusicTypeOK /\ music = Silent /\ op = [c \in Caller |-> Resting] /\ ducked = FALSE /\ sound = "plain"
  BY DEF MusicInit, MusicTypeOK, Silent, Resting, Kind
<1>2. MainTypeOK
  <2>1. 0 \in 0 .. MaxTurns
    OBVIOUS
  <2> QED
    BY <2>1 DEF MainTypeOK
<1>3. TaskTypeOK
  BY DEF TaskTypeOK, Stage, After
<1>4. RecorderTypeOK
  BY DEF RecorderTypeOK, Stopped
<1>5. AgentTypeOK
  BY DEF AgentTypeOK, Cleared
<1>6. Tasks
  <2>1. 0 \in 0 .. MaxTurns /\ Begun(0)
    BY DEF Begun, Turn
  <2> QED
    BY <2>1 DEF Tasks
<1>7. Recorder /\ Conversation
  BY TurnAssumption DEF Recorder, Conversation, Cleared, Stopped
<1>8. Sound
  BY <1>1 DEF Sound, Silent, Resting, Hush
<1> QED
  BY <1>1, <1>2, <1>3, <1>4, <1>5, <1>6, <1>7, <1>8, TypesSplit DEF LegacyInv

--------------------------------------------------------------------------------
(***************************************************************************)
(* The steps of a turn keep the invariant.                                 *)
(***************************************************************************)
LEMMA TurnTypes ==
  ASSUME TurnTypeOK, NEW t \in Turn, TurnActs(t)
  PROVE  TurnTypeOK'
BY TurnTaskTypes, TurnMusic, TurnRecorder, TurnAgent, TypesSplit

\* A step of a turn, task by task.
LEMMA OthersStay ==
  ASSUME TurnTypeOK, Tasks, NEW t \in Turn, TurnActs(t)
  PROVE  /\ \A u \in Turn \ {t} : pc'[u] = pc[u] /\ fate'[u] = fate[u] /\ calling'[u] = calling[u]
         /\ pc'[t].at = pc[t].at \/ (pc[t].at \notin {"none", "done"} /\ pc'[t].at \notin {"none", "native"})
         /\ pc[t].at \notin {"none", "done"} \/ (pc' = pc /\ fate' = fate) \/ fate[t] # "live"
         /\ fate'[t] = "live" <=> fate[t] = "live"
         /\ calling'[t] => pc'[t].at = "llm"
         /\ UNCHANGED <<runtime, pcm, mainAt, active>>
<1>0. TaskTypeOK /\ AgentTypeOK /\ TaskMoved(t) /\ TurnTalks(t)
  BY TypesSplit, TurnMoves, TurnAgent
<1>1. \A u \in Turn \ {t} : pc'[u] = pc[u] /\ fate'[u] = fate[u]
  BY <1>0 DEF TaskMoved, TaskTypeOK
<1>2. \A u \in Turn \ {t} : calling'[u] = calling[u]
  BY <1>0 DEF TurnTalks, AgentTypeOK
<1>3. fate'[t] = "live" <=> fate[t] = "live"
  BY <1>0 DEF TaskMoved, TaskTypeOK
<1>4. pc'[t].at = pc[t].at \/ (pc[t].at \notin {"none", "done"} /\ pc'[t].at \notin {"none", "native"})
  BY <1>0 DEF TaskMoved, TaskTypeOK
<1>5. pc[t].at \notin {"none", "done"} \/ (pc' = pc /\ fate' = fate) \/ fate[t] # "live"
  BY <1>0 DEF TaskMoved
<1>6. calling'[t] => pc'[t].at = "llm"
  BY <1>0 DEF TaskMoved, TurnTalks, Tasks, TaskTypeOK
<1> QED
  BY <1>0, <1>1, <1>2, <1>3, <1>4, <1>5, <1>6 DEF TaskMoved

LEMMA TurnKeepsTurns ==
  ASSUME TurnTypeOK, Tasks, NEW t \in Turn, TurnActs(t)
  PROVE  Tasks'
<1> USE DEF Tasks
<1>1. \A u \in Turn : pc'[u].at = "none" <=> pc[u].at = "none"
  BY OthersStay
<1>2. \A u \in Turn : fate'[u] = "live" <=> fate[u] = "live"
  BY OthersStay
<1>3. mainAt' = mainAt /\ active' = active /\ runtime' = runtime
  BY OthersStay
<1>4. active # 0 => active \in Turn
  BY TypesSplit DEF MainTypeOK, Turn
<1>5. \E n \in 0 .. MaxTurns : Begun(n)' /\ (mainAt' # "idle" => n < MaxTurns)
  BY <1>1, <1>3 DEF Begun
<1>6. \A u \in Turn : fate'[u] = "live" => u = active' \/ pc'[u].at \in {"none", "done"}
  BY <1>2, <1>3, OthersStay
<1>7. \A u \in Turn : calling'[u] => pc'[u].at = "llm"
  BY OthersStay
<1>8. runtime' = "legacy" => \A u \in Turn : pc'[u].at # "native"
  BY <1>3, OthersStay
<1> QED
  BY <1>1, <1>2, <1>3, <1>4, <1>5, <1>6, <1>7, <1>8

LEMMA TurnKeepsRecorder ==
  ASSUME TurnTypeOK, Tasks, Recorder, NEW t \in Turn, TurnActs(t)
  PROVE  Recorder'
<1>0. TaskTypeOK /\ RecorderTypeOK /\ RecorderTypeOK'
  BY TypesSplit, TurnTypes
<1>a. TurnRecords(t) /\ pcm' = pcm /\ t # 0
  BY TurnRecorder, OthersStay, TurnNumbers
<1>b. \A u \in Turn \ {t} : pc'[u] = pc[u] /\ fate'[u] = fate[u]
  BY OthersStay
<1>c. rec.reader \in Turn \cup {0} /\ rec'.reader \in Turn \cup {0}
  BY <1>0 DEF RecorderTypeOK, Turn
<1>d. \/ rec' = rec
      \/ rec'.reader = 0
      \/ /\ StartCapture(t) /\ rec'.reader = t /\ rec'.state = "Recording" /\ pcm # "vpm_asr"
         /\ rec'.late = Late(t)
  <2>1. Stopped.reader = 0 /\ [rec EXCEPT !.reader = 0, !.ending = FALSE].reader = 0
    BY <1>0 DEF Stopped, RecorderTypeOK
  <2>2. CASE StartCapture(t)
    <3>1. \/ rec' = rec
          \/ /\ rec' = [state |-> "Recording", reader |-> t, ending |-> FALSE, late |-> Late(t)]
             /\ pcm # "vpm_asr"
      BY <2>2 DEF StartCapture
    <3> QED
      BY <2>2, <3>1
  <2>3. CASE ~StartCapture(t)
    <3>1. rec' = rec \/ rec' = Stopped \/ rec' = [rec EXCEPT !.reader = 0, !.ending = FALSE]
      BY <1>a, <2>3 DEF TurnRecords, recVars
    <3> QED
      BY <2>1, <3>1
  <2> QED
    BY <2>2, <2>3
<1>1. rec'.state = "Idle" => rec'.reader = 0
  BY <1>d DEF Recorder
<1>2. pcm' = "alsa" => vpm' = "none"
  BY <1>a DEF TurnRecords, Recorder, recVars, StartCapture
<1>e. pcm' = "vpm_asr" => rec'.reader = 0
  BY <1>a, <1>d DEF Recorder
<1>3. rec'.reader # 0 => pc'[rec'.reader].at \in {"capture", "stop"}
  <2>1. CASE StartCapture(t)
    <3>1. pc'[t].at = "capture"
      BY <1>0, <2>1 DEF StartCapture, Goes, TaskTypeOK
    <3>2. rec' = rec \/ rec'.reader = t
      BY <2>1 DEF StartCapture
    <3> QED
      BY <1>b, <1>c, <3>1, <3>2 DEF Recorder
  <2>2. CASE ~StartCapture(t) /\ rec'.reader = rec.reader /\ rec.reader = t
    <3>1. pc[t].at \in {"capture", "stop"}
      BY <1>a, <2>2 DEF Recorder
    <3>2. rec.state # "Idle"
      BY <1>a, <2>2 DEF Recorder
    <3>3. CASE TurnStops(t)
      BY <1>0, <1>a, <2>2, <3>1, <3>2, <3>3 DEF TurnStops, StopIdle, StopTakes, StopEnds, Stopped
    <3>4. CASE Captured(t)
      <4>1. pcm = "alsa"
        BY <1>a, <2>2 DEF Recorder
      <4>2. pc'[t].at = "stop"
        BY <1>0, <3>4, <4>1 DEF Captured, TaskTypeOK
      <4> QED
        BY <2>2, <4>2
    <3>5. CASE pc' = pc
      BY <1>a, <2>2, <3>1, <3>5
    <3> QED
      BY <2>2, <3>1, <3>3, <3>4, <3>5
      DEF TurnActs, TurnStep, Listens, Answers, CleansUp, CallTool, EndConversation, NativeEnds,
          StartListening, Transcribed, Prompt, AttemptFails, Reply, Waits, Speak, ResetSession,
          RestoreMusic, TurnEnds, Drop, At, turnVars
  <2>3. CASE ~StartCapture(t) /\ rec'.reader = rec.reader /\ rec.reader # t
    BY <1>b, <1>c, <2>3 DEF Recorder
  <2>4. CASE rec'.reader = 0
    BY <2>4
  <2> QED
    BY <1>d, <2>1, <2>2, <2>3, <2>4
<1>3a. ASSUME vpm' = "ASR_START"
       PROVE  \E u \in Turn : pc'[u].at = "capture" /\ fate'[u] # "gone"
  <2>1. CASE StartCapture(t)
    <3>1. pc'[t].at = "capture" /\ fate'[t] # "gone"
      BY <1>0, <2>1 DEF StartCapture, Goes, At, TaskTypeOK
    <3> QED
      BY <3>1
  <2>2. CASE ~StartCapture(t)
    <3>1. vpm = "ASR_START" /\ pcm = "vpm_asr"
      BY <1>a, <1>3a, <2>2 DEF TurnRecords, Recorder, recVars
    <3>2. PICK u \in Turn : pc[u].at = "capture" /\ fate[u] # "gone"
      BY <3>1 DEF Recorder
    <3>3. CASE u # t
      BY <1>b, <3>2, <3>3
    <3>4. CASE u = t
      <4>1. ~Captured(t) /\ ~Drop(t)
        BY <1>3a, <3>1, <3>2, <3>4 DEF Captured, Drop
      <4>2. pc' = pc /\ fate' = fate
        BY <2>2, <3>2, <3>4, <4>1
        DEF TurnActs, TurnStep, Listens, Answers, CleansUp, CallTool, EndConversation, NativeEnds,
            StartListening, TurnStops, Transcribed, Prompt, AttemptFails, Reply, Waits, Speak, ResetSession,
            RestoreMusic, TurnEnds, At, turnVars
      <4> QED
        BY <3>2, <4>2
    <3> QED
      BY <3>3, <3>4
  <2> QED
    BY <2>1, <2>2
<1>4. rec'.reader # 0 => rec'.late \/ fate'[rec'.reader] = "live" \/ mainAt' = "stopping"
  <2>1. mainAt' = mainAt /\ (fate'[t] = "live" <=> fate[t] = "live")
    BY OthersStay
  <2>2. CASE rec' = rec
    BY <1>b, <1>c, <2>1, <2>2 DEF Recorder
  <2>3. CASE rec'.reader = t /\ rec'.late = Late(t)
    BY <2>1, <2>3 DEF Late
  <2> QED
    BY <1>d, <2>2, <2>3
<1> QED
  BY <1>1, <1>2, <1>3, <1>3a, <1>4, <1>a, <1>e DEF Recorder

\* The active turn ends its restore with nothing interrupted and ends with nothing ducked.
LEMMA TurnKeepsSound ==
  ASSUME TurnTypeOK, Tasks, Sound, NEW t \in Turn, TurnActs(t)
  PROVE  Sound'
<1>0. TurnSounds(t) /\ TaskTypeOK /\ Hush'
  BY TypesSplit, TurnMusic DEF Sound
<1>a. t \in Caller /\ Main \in Caller /\ t # Main /\ Turn \subseteq Caller
  BY TurnNumbers
<1>b. UNCHANGED <<runtime, mainAt, active>>
  BY OthersStay
<1>c. op[t].kind # "interrupt" /\ music'.interruption \in {music.interruption, "no"}
  BY <1>0 DEF Sound, TurnSounds
<1>d. \/ pc'[t].at = pc[t].at
      \/ pc[t].at = "native"
      \/ RestoreMusic(t) /\ pc'[t].at = "airplay"
      \/ TurnEnds(t) /\ pc[t].at = "airplay"
      \/ pc'[t].at \notin {"airplay", "done"}
  <2>a. ASSUME NEW to, Goes(t, to) PROVE pc'[t].at = to
    BY <1>0, <2>a DEF Goes, TaskTypeOK
  <2>b. pc[t].then \in After
    BY <1>0 DEF TaskTypeOK
  <2>1. CASE NativeEnds(t) \/ TurnEnds(t)
    BY <2>1 DEF NativeEnds, TurnEnds, At
  <2>2. CASE RestoreMusic(t)
    BY <2>2, <2>a DEF RestoreMusic
  <2>3. CASE TurnStops(t)
    <3>1. UNCHANGED pc \/ Goes(t, pc[t].then)
      BY <2>3 DEF TurnStops
    <3> QED
      BY <2>a, <2>b, <3>1 DEF After
  <2>4. CASE Captured(t)
    <3>1. PICK next \in After :
            pc' = [pc EXCEPT ![t] = IF pcm = "alsa" THEN [at |-> "stop", then |-> next] ELSE [@ EXCEPT !.at = next]]
      BY <2>4 DEF Captured
    <3>2. pc'[t].at \in {"stop", next}
      BY <1>0, <3>1 DEF TaskTypeOK
    <3> QED
      BY <3>1, <3>2 DEF After
  <2>5. CASE CallTool(t) \/ EndConversation(t) \/ Drop(t)
    BY <2>5 DEF CallTool, EndConversation, Drop, turnVars
  <2>6. CASE StartListening(t) \/ StartCapture(t) \/ Transcribed(t)
    BY <2>6, <2>a DEF StartListening, StartCapture, Transcribed
  <2>7. CASE Prompt(t) \/ AttemptFails(t) \/ Reply(t) \/ Speak(t) \/ ResetSession(t)
    BY <2>7, <2>a DEF Prompt, AttemptFails, Reply, Speak, ResetSession
  <2> QED
    BY <2>1, <2>2, <2>3, <2>4, <2>5, <2>6, <2>7 DEF TurnActs, TurnStep, Listens, Answers, CleansUp
<1>e. active = 0 \/ active = t \/ pc'[active] = pc[active]
  <2>1. active \in Turn \cup {0}
    BY TypesSplit DEF MainTypeOK, Turn
  <2> QED
    BY <2>1, OthersStay
<1>f. runtime = "legacy" => pc[t].at # "native"
  BY DEF Tasks
<1>1. \A u \in Turn : op'[u].kind # "interrupt"
  BY <1>0, <1>a, <1>c DEF Sound, TurnSounds
<1>2. op'[Main] # Resting => mainAt' = "interrupting"
  BY <1>0, <1>a, <1>b DEF Sound, TurnSounds
<1>3. ASSUME runtime' = "legacy", Restored({"airplay", "done"})' PROVE music'.interruption = "no"
  <2>1. CASE RestoreMusic(t)
    BY <1>0, <2>1 DEF TurnSounds
  <2>2. CASE ~RestoreMusic(t)
    <3>1. Restored({"airplay", "done"})
      BY <1>3, <1>b, <1>d, <1>e, <1>f, <2>2 DEF Restored
    <3> QED
      BY <1>3, <1>b, <1>c, <3>1 DEF Sound
  <2> QED
    BY <2>1, <2>2
<1>4. ASSUME runtime' = "legacy", Restored({"done"})' PROVE ~ducked'
  <2>1. CASE TurnEnds(t)
    BY <1>0, <2>1 DEF TurnSounds
  <2>2. CASE ~TurnEnds(t)
    <3>1. Restored({"done"})
      <4>1. pc'[t].at = "done" => pc[t].at = "done"
        BY <1>4, <1>b, <1>d, <1>f, <2>2
      <4> QED
        BY <1>4, <1>b, <1>e, <4>1 DEF Restored
    <3> QED
      BY <1>0, <1>4, <1>b, <3>1 DEF Sound, TurnSounds
  <2> QED
    BY <2>1, <2>2
<1> QED
  BY <1>0, <1>1, <1>2, <1>3, <1>4 DEF Sound

\* What a turn leaves in the history or in should_end while it is live it leaves as the active one.
LEMMA TurnKeepsConversation ==
  ASSUME TurnTypeOK, Tasks, Conversation, NEW t \in Turn, TurnActs(t)
  PROVE  Conversation'
<1>0. TurnTalks(t) /\ UNCHANGED <<mainAt, active>>
  BY TurnAgent, OthersStay
<1>1. pc[t].at = "llm" \/ calling[t] => t = active \/ Late(t)
  BY DEF Tasks, Late
<1>2. SUFFICES ASSUME NEW done \in history' \cup {control'}
               PROVE  done.by = 0 \/ done.late \/ done.by = active \/ (active = 0 /\ mainAt # "spawn")
  BY <1>0 DEF Conversation
<1>3. CASE done \in history \cup {control}
  BY <1>3 DEF Conversation
<1>4. CASE done = Cleared
  BY <1>4 DEF Cleared
<1>5. CASE done.by = t /\ done.late = Late(t) /\ (pc[t].at = "llm" \/ calling[t])
  BY <1>1, <1>5
<1> QED
  BY <1>0, <1>2, <1>3, <1>4, <1>5 DEF TurnTalks

LEMMA TurnKeepsInv ==
  ASSUME LegacyInv, NEW t \in Turn, TurnActs(t)
  PROVE  LegacyInv'
BY TurnTypes, TurnKeepsTurns, TurnKeepsRecorder, TurnKeepsSound, TurnKeepsConversation DEF LegacyInv

--------------------------------------------------------------------------------
(***************************************************************************)
(* The steps of the loop, of the reader and of the service.                *)
(***************************************************************************)

\* A wake aborts the active turn at most and leaves none active.
LEMMA WakeKeepsInv ==
  ASSUME LegacyInv, Wake
  PROVE  LegacyInv'
<1>0. /\ MusicTypeOK /\ MainTypeOK /\ TaskTypeOK /\ RecorderTypeOK /\ AgentTypeOK
      /\ Tasks /\ Recorder /\ Sound /\ Conversation
  BY TypesSplit DEF LegacyInv
<1>1. /\ mainAt = "idle" /\ mainAt' = "stopping" /\ active' = 0
      /\ UNCHANGED <<runtime, pcm, status, pc, recVars, agentVars, musicVars>>
      /\ \E t \in Turn : pc[t].at = "none"
  BY DEF Wake
<1>2. active # 0 => active \in Turn
  BY <1>0 DEF MainTypeOK, Turn
<1>3. /\ TaskTypeOK'
      /\ \A t \in Turn : fate'[t] = IF t = active /\ ~Finished(t) THEN "dying" ELSE fate[t]
  <2>1. CASE active = 0
    <3>1. UNCHANGED <<pc, fate, preserve>> /\ \A t \in Turn : t # active
      BY <2>1, <1>1, TurnNumbers DEF Wake
    <3> QED
      BY <1>0, <3>1 DEF TaskTypeOK
  <2>2. CASE active # 0
    <3>1. /\ preserve' = [preserve EXCEPT ![active] = TRUE]
          /\ fate' = [fate EXCEPT ![active] = IF Finished(active) THEN @ ELSE "dying"]
          /\ pc' = pc /\ active \in Turn
      BY <2>2, <1>1, <1>2 DEF Wake
    <3>2. preserve' \in [Turn -> BOOLEAN]
      BY <1>0, <3>1 DEF TaskTypeOK
    <3>3. fate' \in [Turn -> {"live", "dying", "doomed", "gone"}]
      BY <1>0, <3>1 DEF TaskTypeOK
    <3>4. \A t \in Turn : fate'[t] = IF t = active /\ ~Finished(t) THEN "dying" ELSE fate[t]
      BY <1>0, <3>1 DEF TaskTypeOK
    <3> QED
      BY <1>0, <3>1, <3>2, <3>3, <3>4 DEF TaskTypeOK
  <2> QED
    BY <2>1, <2>2
<1>4. TurnTypeOK'
  <2>1. MainTypeOK'
    <3>1. 0 \in 0 .. MaxTurns
      BY TurnNumbers
    <3> QED
      BY <1>0, <1>1, <3>1 DEF MainTypeOK
  <2>2. MusicTypeOK' /\ RecorderTypeOK' /\ AgentTypeOK'
    BY <1>0, <1>1 DEF MusicTypeOK, RecorderTypeOK, AgentTypeOK, musicVars, recVars, agentVars
  <2> QED
    BY <1>3, <2>1, <2>2, TypesSplit
<1>5. Tasks'
  <2>1. PICK n \in 0 .. MaxTurns : Begun(n)
    BY <1>0 DEF Tasks
  <2>2. n < MaxTurns /\ Begun(n)'
    BY <1>1, <2>1, TurnNumbers DEF Begun, Turn
  <2>3. \A t \in Turn : pc[t].at = "none" => fate'[t] = "live"
    <3>1. \A t \in Turn : pc[t].at = "none" => t # active
      BY <1>0, TurnNumbers DEF Tasks
    <3> QED
      BY <1>0, <1>3, <3>1 DEF Tasks
  <2>4. \A t \in Turn : fate'[t] = "live" => pc[t].at \in {"none", "done"}
    BY <1>0, <1>3 DEF Tasks, Finished
  <2>5. calling' = calling
    BY <1>1 DEF agentVars
  <2> QED
    BY <1>0, <1>1, <2>2, <2>3, <2>4, <2>5 DEF Tasks
<1>6. Recorder'
  BY <1>0, <1>1, <1>3 DEF Recorder, Finished, recVars
<1>7. Sound'
  <2>1. UNCHANGED <<mode, music, op, ducked, sound>>
    BY <1>1 DEF musicVars
  <2>2. Hush'
    BY <1>0, <2>1, OthersHush DEF Sound
  <2> QED
    BY <1>0, <1>1, <2>1, <2>2 DEF Sound, Restored
<1>8. Conversation'
  BY <1>1 DEF Conversation
<1> QED
  BY <1>4, <1>5, <1>6, <1>7, <1>8 DEF LegacyInv

\* What the wake arm does until it starts the turn: the tasks stay.
ArmStep == StopRecorder \/ InterruptMusic \/ InterruptAirPlay \/ AbortOutput \/ ResetConversation

LEMMA ArmMoves ==
  ASSUME LegacyInv, ArmStep
  PROVE  /\ mainAt \notin {"idle", "spawn"} /\ mainAt' # "idle" /\ UNCHANGED quiet /\ TurnTypeOK'
         /\ vpm' = vpm /\ (rec' = rec \/ rec'.reader = 0) /\ (mainAt = "stopping" => rec'.reader = 0) /\ Hush'
         /\ (\A t \in Turn : op'[t] = op[t]) /\ (op'[Main] # Resting => mainAt' = "interrupting")
         /\ calling' = calling
         /\ (history' = {} /\ control' = Cleared) \/ (UNCHANGED <<history, control>> /\ mainAt' # "spawn")
<1>0. /\ MusicTypeOK /\ MainTypeOK /\ TaskTypeOK /\ RecorderTypeOK /\ AgentTypeOK
      /\ Tasks /\ Recorder /\ Sound /\ Conversation
  BY TypesSplit DEF LegacyInv
<1> USE DEF Main_
<1>1. /\ mainAt \notin {"idle", "spawn"} /\ mainAt' # "idle" /\ mainAt' # "stopping" /\ UNCHANGED quiet
      /\ mainAt' \in {"killing", "music", "interrupting", "airplay", "aborting", "reset", "spawn"}
  BY DEF ArmStep, StopRecorder, InterruptMusic, InterruptAirPlay, AbortOutput, ResetConversation
<1>2. \/ UNCHANGED recVars /\ (mainAt = "stopping" => rec.state = "Idle")
      \/ StopTakes(Main) \/ StopEnds(Main)
  BY DEF ArmStep, StopRecorder, InterruptMusic, InterruptAirPlay, AbortOutput, ResetConversation, StopIdle
<1>3. \/ UNCHANGED agentVars /\ mainAt' # "spawn"
      \/ history' = {} /\ control' = Cleared /\ UNCHANGED <<calling, answer>>
  <2>1. CASE StopRecorder \/ InterruptMusic \/ AbortOutput
    BY <2>1 DEF StopRecorder, InterruptMusic, AbortOutput
  <2>2. CASE InterruptAirPlay
    BY <2>2 DEF InterruptAirPlay
  <2>3. CASE ResetConversation
    BY <2>3 DEF ResetConversation, Forget
  <2> QED
    BY <2>1, <2>2, <2>3 DEF ArmStep
<1>4. \/ UNCHANGED musicVars /\ (mainAt = "interrupting" => mainAt' = "interrupting" \/ Free(Main))
      \/ InterruptBegins(Main) /\ mainAt' = "interrupting"
      \/ SetDucked(TRUE) /\ mainAt = "airplay"
      \/ Killed /\ mainAt = "aborting"
  BY DEF ArmStep, StopRecorder, InterruptMusic, InterruptAirPlay, AbortOutput, ResetConversation
<1>5. /\ MusicTypeOK' /\ (\A t \in Turn : op'[t] = op[t]) /\ (op'[Main] # Resting => mainAt' = "interrupting")
      /\ Hush'
  <2>0. Hush
    BY <1>0 DEF Sound
  <2>1. CASE UNCHANGED musicVars /\ (mainAt = "interrupting" => mainAt' = "interrupting" \/ Free(Main))
    <3>1. UNCHANGED <<mode, music, op, ducked, sound>>
      BY <2>1 DEF musicVars
    <3> QED
      BY <1>0, <2>0, <2>1, <3>1, OthersHush DEF MusicTypeOK, Sound, Free
  <2>2. CASE InterruptBegins(Main) /\ mainAt' = "interrupting"
    <3>1. Main \in Caller /\ Operates(Main) /\ \A t \in Turn : t \in Caller \ {Main}
      BY <2>2, TurnNumbers DEF Operates
    <3> QED
      BY <1>0, <2>0, <2>2, <3>1, OperationFacts, OperationHush
  <2>3. CASE SetDucked(TRUE) /\ mainAt = "airplay"
    <3>1. UNCHANGED <<mode, music, op, sound>> /\ ducked' = TRUE
      BY <2>3 DEF SetDucked
    <3> QED
      BY <1>0, <2>0, <2>3, <3>1, OthersHush DEF MusicTypeOK, Sound
  <2>4. CASE Killed /\ mainAt = "aborting"
    <3>1. UNCHANGED <<mode, music, op, ducked>> /\ sound' = GivenUp
      BY <2>4 DEF Killed
    <3>2. MusicTypeOK'
      BY <1>0, <3>1 DEF MusicTypeOK, GivenUp
    <3> QED
      BY <1>0, <2>0, <2>4, <3>1, <3>2, OthersHush DEF Sound
  <2> QED
    BY <1>4, <2>1, <2>2, <2>3, <2>4
<1>6. RecorderTypeOK' /\ vpm' = vpm /\ (rec' = rec \/ rec'.reader = 0) /\ (mainAt = "stopping" => rec'.reader = 0)
  <2> DEFINE R == [state : {"Idle", "Recording"}, reader : 0 .. MaxTurns, ending : BOOLEAN, late : BOOLEAN]
  <2>1. rec \in R /\ 0 \in 0 .. MaxTurns
    BY <1>0, TurnNumbers DEF RecorderTypeOK
  <2>2. Stopped \in R /\ Stopped.reader = 0
    BY <2>1 DEF Stopped
  <2>3. [rec EXCEPT !.reader = 0, !.ending = FALSE] \in R /\ [rec EXCEPT !.reader = 0, !.ending = FALSE].reader = 0
    BY <2>1
  <2>4. rec' \in {rec, Stopped, [rec EXCEPT !.reader = 0, !.ending = FALSE]} /\ vpm' = vpm
    BY <1>2 DEF StopTakes, StopEnds, recVars
  <2>5. lock' \in {lock, Main, Nobody}
    BY <1>2 DEF StopTakes, StopEnds, recVars
  <2>6. lock' \in Nobody .. Reader
    BY <1>0, <2>5, TurnNumbers DEF RecorderTypeOK
  <2> HIDE DEF R
  <2>7. rec' \in R
    BY <2>1, <2>2, <2>3, <2>4
  <2>8. mainAt = "stopping" => rec'.reader = 0
    BY <1>0, <1>2, <2>2, <2>3 DEF StopTakes, StopEnds, recVars, Recorder
  <2> QED
    BY <1>0, <2>2, <2>3, <2>4, <2>6, <2>7, <2>8 DEF RecorderTypeOK, R
<1>7. AgentTypeOK'
  <2> DEFINE C == [should_end : BOOLEAN, by : 0 .. MaxTurns, late : BOOLEAN]
  <2>1. 0 \in 0 .. MaxTurns
    BY TurnNumbers
  <2>2. control \in C /\ Cleared \in C
    BY <1>0, <2>1 DEF AgentTypeOK, Cleared
  <2> HIDE DEF C
  <2>3. control' \in C
    BY <1>3, <2>2 DEF agentVars
  <2> QED
    BY <1>0, <1>3, <2>3 DEF AgentTypeOK, agentVars, C
<1>8. MainTypeOK' /\ TaskTypeOK'
  BY <1>0, <1>1 DEF MainTypeOK, TaskTypeOK, quiet, turnVars
<1> QED
  BY <1>1, <1>3, <1>5, <1>6, <1>7, <1>8, TypesSplit DEF agentVars

LEMMA ArmKeepsInv ==
  ASSUME LegacyInv, ArmStep
  PROVE  LegacyInv'
<1>0. Tasks /\ Recorder /\ Sound /\ Conversation /\ AgentTypeOK
  BY TypesSplit DEF LegacyInv
<1>1. UNCHANGED <<runtime, pcm, active, pc, fate, calling>> /\ active = 0
  BY <1>0, ArmMoves DEF quiet, turnVars, Tasks
<1>2. Tasks'
  BY <1>0, <1>1, ArmMoves DEF Tasks, Begun
<1>3. Recorder'
  <2>1. vpm' = vpm /\ (rec' = rec \/ rec'.reader = 0) /\ (mainAt = "stopping" => rec'.reader = 0)
    BY ArmMoves
  <2> QED
    BY <1>0, <1>1, <2>1 DEF Recorder
<1>4. Sound'
  BY <1>0, ArmMoves DEF Sound, Restored
<1>5. Conversation'
  <2>1. CASE history' = {} /\ control' = Cleared
    BY <2>1 DEF Conversation, Cleared
  <2>2. CASE UNCHANGED <<history, control>> /\ mainAt' # "spawn"
    BY <1>1, <2>2 DEF Conversation
  <2> QED
    BY <2>1, <2>2, ArmMoves
<1> QED
  BY <1>2, <1>3, <1>4, <1>5, ArmMoves DEF LegacyInv

\* The turn the loop starts is the next one.
LEMMA StartsNext ==
  ASSUME LegacyInv, StartTurn
  PROVE  \E n \in 0 .. MaxTurns - 1 :
           /\ n + 1 \in Turn /\ active' = n + 1 /\ Begun(n)
           /\ pc' = [pc EXCEPT ![n + 1].at = IF runtime = "legacy" THEN "start" ELSE "native"]
<1>0. Tasks /\ mainAt = "spawn"
  BY DEF LegacyInv, StartTurn, Main_
<1>1. PICK n \in 0 .. MaxTurns : Begun(n) /\ n < MaxTurns
  BY <1>0 DEF Tasks
<1>2. n \in 0 .. MaxTurns - 1 /\ n + 1 \in Turn
  BY <1>1, TurnNumbers DEF Turn
<1> DEFINE First(t) == pc[t].at = "none" /\ \A u \in 1 .. t - 1 : pc[u].at # "none"
           next == CHOOSE t \in Turn : First(t)
<1>3. First(n + 1)
  <2>1. pc[n + 1].at = "none"
    BY <1>1, <1>2 DEF Begun
  <2>2. \A u \in 1 .. n : pc[u].at # "none"
    <3>1. \A u \in 1 .. n : u \in Turn /\ ~(u > n)
      BY <1>2, TurnNumbers DEF Turn
    <3> QED
      BY <1>1, <3>1 DEF Begun
  <2>3. n + 1 - 1 = n
    BY <1>2
  <2> QED
    BY <2>1, <2>2, <2>3
<1>4. next \in Turn /\ First(next)
  BY <1>2, <1>3
<1>5. next = n + 1
  <2>1. next > n
    BY <1>1, <1>4 DEF Begun
  <2>2. ~(n + 1 \in 1 .. next - 1)
    BY <1>3, <1>4
  <2> QED
    BY <1>2, <1>4, <2>1, <2>2 DEF Turn
<1>6. active' = next /\ pc' = [pc EXCEPT ![next].at = IF runtime = "legacy" THEN "start" ELSE "native"]
  BY DEF StartTurn
<1> HIDE DEF next
<1> QED
  BY <1>1, <1>2, <1>5, <1>6

LEMMA StartKeepsInv ==
  ASSUME LegacyInv, StartTurn
  PROVE  LegacyInv'
<1>0. /\ MusicTypeOK /\ MainTypeOK /\ TaskTypeOK /\ RecorderTypeOK /\ AgentTypeOK
      /\ Tasks /\ Recorder /\ Sound /\ Conversation
  BY TypesSplit DEF LegacyInv
<1>1. /\ mainAt = "spawn" /\ mainAt' = "idle" /\ status' = TRUE
      /\ UNCHANGED <<runtime, pcm, fate, recVars, agentVars, musicVars>>
  BY DEF StartTurn, Main_
<1>a. preserve' = preserve
  BY DEF StartTurn
<1>2. PICK n \in 0 .. MaxTurns - 1 :
        /\ n + 1 \in Turn /\ active' = n + 1 /\ Begun(n)
        /\ pc' = [pc EXCEPT ![n + 1].at = IF runtime = "legacy" THEN "start" ELSE "native"]
  BY StartsNext
<1>3. /\ \A t \in Turn \ {n + 1} : pc'[t] = pc[t]
      /\ pc'[n + 1].at = IF runtime = "legacy" THEN "start" ELSE "native"
      /\ pc' \in [Turn -> [at : Stage, then : After]]
  BY <1>0, <1>2 DEF TaskTypeOK, Stage
<1>4. pc[n + 1].at = "none" /\ fate[n + 1] = "live" /\ active = 0
  BY <1>0, <1>1, <1>2, TurnNumbers DEF Begun, Tasks
<1>5. TurnTypeOK'
  <2>1. MainTypeOK'
    BY <1>1, <1>2, TurnNumbers DEF MainTypeOK
  <2>2. MusicTypeOK' /\ RecorderTypeOK' /\ AgentTypeOK'
    BY <1>0, <1>1 DEF MusicTypeOK, RecorderTypeOK, AgentTypeOK, musicVars, recVars, agentVars
  <2>3. TaskTypeOK'
    BY <1>0, <1>1, <1>3, <1>a DEF TaskTypeOK
  <2> QED
    BY <2>1, <2>2, <2>3, TypesSplit
<1>6. Tasks'
  <2>1. n + 1 \in 0 .. MaxTurns /\ Begun(n + 1)'
    <3>1. \A t \in Turn : pc'[t].at = "none" <=> t > n /\ t # n + 1
      BY <1>2, <1>3 DEF Begun
    <3>2. n + 1 \in 0 .. MaxTurns /\ \A t \in Turn : t > n /\ t # n + 1 <=> t > n + 1
      BY <1>2, TurnNumbers DEF Turn
    <3> QED
      BY <3>1, <3>2 DEF Begun
  <2>2. active' # 0 /\ pc'[active'].at # "none" /\ fate'[active'] = "live"
    BY <1>1, <1>2, <1>3, <1>4, TurnNumbers
  <2>3. \A t \in Turn : pc'[t].at = "none" => fate'[t] = "live"
    BY <1>0, <1>1, <1>3 DEF Tasks
  <2>4. \A t \in Turn : fate'[t] = "live" => t = active' \/ pc'[t].at \in {"none", "done"}
    BY <1>0, <1>1, <1>2, <1>3, <1>4, TurnNumbers DEF Tasks
  <2>5. \A t \in Turn : calling'[t] => pc'[t].at = "llm"
    BY <1>0, <1>1, <1>3, <1>4 DEF Tasks, agentVars
  <2>6. runtime' = "legacy" => \A t \in Turn : pc'[t].at # "native"
    BY <1>0, <1>1, <1>3 DEF Tasks
  <2> QED
    BY <1>1, <2>1, <2>2, <2>3, <2>4, <2>5, <2>6 DEF Tasks
<1>7. Recorder'
  <2>1. rec.reader # 0 => rec.reader \in Turn
    BY <1>0 DEF RecorderTypeOK, Turn
  <2>2. \A t \in Turn : pc[t].at \in {"capture", "stop"} => pc'[t] = pc[t]
    BY <1>3, <1>4
  <2> QED
    BY <1>0, <1>1, <2>1, <2>2 DEF Recorder, recVars
<1>8. Sound'
  <2>1. runtime = "legacy" => ~Restored({"airplay", "done"})' /\ ~Restored({"done"})'
    BY <1>2, <1>3, TurnNumbers DEF Restored
  <2>2. UNCHANGED <<mode, music, op, ducked, sound>>
    BY <1>1 DEF musicVars
  <2>3. Hush'
    BY <1>0, <2>2, OthersHush DEF Sound
  <2> QED
    BY <1>0, <1>1, <2>1, <2>2, <2>3 DEF Sound
<1>9. Conversation'
  <2>1. history' = history /\ control' = control
    BY <1>1 DEF agentVars
  <2>2. \A done \in history \cup {control} : done.by = 0 \/ done.late
    BY <1>0, <1>1, <1>4 DEF Conversation
  <2> QED
    BY <2>1, <2>2 DEF Conversation
<1> QED
  BY <1>5, <1>6, <1>7, <1>8, <1>9 DEF LegacyInv

\* The turn check forgets an ended turn.
LEMMA TurnCheckKeepsInv ==
  ASSUME LegacyInv, TurnCheck
  PROVE  LegacyInv'
<1>0. /\ MusicTypeOK /\ MainTypeOK /\ TaskTypeOK /\ RecorderTypeOK /\ AgentTypeOK
      /\ Tasks /\ Recorder /\ Sound /\ Conversation
  BY TypesSplit DEF LegacyInv
<1>1. /\ mainAt = "idle" /\ active # 0 /\ Finished(active) /\ active' = 0 /\ status' = FALSE
      /\ UNCHANGED <<runtime, pcm, mainAt, turnVars, recVars, agentVars, musicVars>>
  BY DEF TurnCheck
<1>2. UNCHANGED <<pc, fate, preserve, rec, vpm, control, calling, history, music, op, ducked, mode, sound>>
  BY <1>1 DEF turnVars, recVars, agentVars, musicVars
<1>3. pc[active].at = "done" /\ active \in Turn
  BY <1>0, <1>1 DEF Tasks, Finished, MainTypeOK, Turn
<1>4. TurnTypeOK'
  <2>1. MainTypeOK'
    <3>1. 0 \in 0 .. MaxTurns
      BY TurnNumbers
    <3> QED
      BY <1>0, <1>1, <3>1 DEF MainTypeOK
  <2>2. MusicTypeOK' /\ RecorderTypeOK' /\ AgentTypeOK' /\ TaskTypeOK'
    BY <1>0, <1>1 DEF MusicTypeOK, RecorderTypeOK, AgentTypeOK, TaskTypeOK, musicVars, recVars, agentVars,
                      turnVars
  <2> QED
    BY <2>1, <2>2, TypesSplit
<1>5. Tasks'
  BY <1>0, <1>1, <1>2, <1>3 DEF Tasks, Begun
<1>6. Recorder'
  BY <1>0, <1>1, <1>2 DEF Recorder
<1>7. Sound'
  <2>1. Restored({"airplay", "done"}) /\ Restored({"done"})
    BY <1>1, <1>3 DEF Restored
  <2>2. Hush'
    BY <1>0, <1>2, OthersHush DEF Sound
  <2> QED
    BY <1>0, <1>1, <1>2, <2>1, <2>2 DEF Sound
<1>8. Conversation'
  BY <1>0, <1>1, <1>2 DEF Conversation
<1> QED
  BY <1>4, <1>5, <1>6, <1>7, <1>8 DEF LegacyInv

\* The reader touches the recorder alone, and only to end what it records.
LEMMA ReaderKeepsInv ==
  ASSUME LegacyInv, ReaderEnds
  PROVE  LegacyInv'
<1>0. /\ MusicTypeOK /\ MainTypeOK /\ TaskTypeOK /\ RecorderTypeOK /\ AgentTypeOK
      /\ Tasks /\ Recorder /\ Sound /\ Conversation
  BY TypesSplit DEF LegacyInv
<1>1. UNCHANGED <<vpm, keep, turnVars, agentVars, musicVars>>
  BY DEF ReaderEnds
<1>2. UNCHANGED <<runtime, pcm, mainAt, active, status, pc, fate, preserve, control, calling, answer, history, music, op, ducked, mode, sound, vpm>>
  BY <1>1 DEF keep, mainVars, turnVars, agentVars, musicVars
<1>3. rec' \in {rec, Stopped, [rec EXCEPT !.ending = TRUE]} /\ lock' \in {lock, Reader, Nobody}
  BY DEF ReaderEnds
<1>4. RecorderTypeOK' /\ ((rec'.state = rec.state /\ rec'.reader = rec.reader /\ rec'.late = rec.late) \/ rec'.reader = 0)
  <2> DEFINE R == [state : {"Idle", "Recording"}, reader : 0 .. MaxTurns, ending : BOOLEAN, late : BOOLEAN]
  <2>1. rec \in R /\ 0 \in 0 .. MaxTurns
    BY <1>0, TurnNumbers DEF RecorderTypeOK
  <2>2. Stopped \in R /\ Stopped.reader = 0
    BY <2>1 DEF Stopped
  <2>3. /\ [rec EXCEPT !.ending = TRUE] \in R /\ [rec EXCEPT !.ending = TRUE].reader = rec.reader
        /\ [rec EXCEPT !.ending = TRUE].state = rec.state /\ [rec EXCEPT !.ending = TRUE].late = rec.late
    BY <2>1
  <2>4. lock' \in Nobody .. Reader
    BY <1>0, <1>3, TurnNumbers DEF RecorderTypeOK
  <2> HIDE DEF R
  <2>5. rec' \in R
    BY <1>3, <2>1, <2>2, <2>3
  <2> QED
    BY <1>0, <1>2, <1>3, <2>2, <2>3, <2>4, <2>5 DEF RecorderTypeOK, R
<1>5. TurnTypeOK'
  <2>1. MusicTypeOK' /\ MainTypeOK' /\ AgentTypeOK' /\ TaskTypeOK'
    BY <1>0, <1>2 DEF MusicTypeOK, MainTypeOK, AgentTypeOK, TaskTypeOK
  <2> QED
    BY <1>4, <2>1, TypesSplit
<1>6. Tasks'
  BY <1>0, <1>2 DEF Tasks, Begun
<1>7. Recorder'
  BY <1>0, <1>2, <1>4 DEF Recorder
<1>8. Sound'
  <2>1. Hush'
    BY <1>0, <1>2, OthersHush DEF Sound
  <2> QED
    BY <1>0, <1>2, <2>1 DEF Sound, Restored
<1>9. Conversation'
  BY <1>0, <1>2 DEF Conversation
<1> QED
  BY <1>5, <1>6, <1>7, <1>8, <1>9 DEF LegacyInv

\* An operation of the music service goes on: that of the loop while the loop waits for it.
LEMMA WorksKeepsInv ==
  ASSUME LegacyInv, NEW c \in Caller, Works(c)
  PROVE  LegacyInv'
<1>0. /\ MusicTypeOK /\ MainTypeOK /\ TaskTypeOK /\ RecorderTypeOK /\ AgentTypeOK
      /\ Tasks /\ Recorder /\ Sound /\ Conversation
  BY TypesSplit DEF LegacyInv
<1>1. UNCHANGED <<keep, turnVars, recVars, agentVars>> /\ OpGoesOn(c) /\ Operates(c)
  BY DEF Works, Operates
<1>2. UNCHANGED <<runtime, pcm, mainAt, active, status, pc, fate, preserve, rec, lock, vpm, control, calling, answer, history>>
  BY <1>1 DEF keep, mainVars, turnVars, agentVars, recVars
<1> HIDE DEF Works
<1>3. /\ MusicTypeOK' /\ ducked' = ducked
      /\ \A d \in Caller \ {c} : op'[d] = op[d]
      /\ op'[c].kind = "interrupt" => op[c].kind = "interrupt" \/ InterruptBegins(c)
      /\ op[c] # Resting
      /\ music'.interruption \in {music.interruption, "no"} \/ op[c].kind = "interrupt"
  BY <1>0, <1>1, OperationFacts
<1>4. TurnTypeOK'
  <2>1. RecorderTypeOK' /\ MainTypeOK' /\ AgentTypeOK' /\ TaskTypeOK'
    BY <1>0, <1>2 DEF RecorderTypeOK, MainTypeOK, AgentTypeOK, TaskTypeOK
  <2> QED
    BY <1>3, <2>1, TypesSplit
<1>5. Tasks'
  BY <1>0, <1>2 DEF Tasks, Begun
<1>6. Recorder'
  BY <1>0, <1>2 DEF Recorder
<1>7. Sound'
  <2>1. ~InterruptBegins(c)
    BY <1>3 DEF InterruptBegins, Free
  <2>2. \A t \in Turn : op'[t].kind # "interrupt"
    <3>1. \A t \in Turn : t = c \/ op'[t] = op[t]
      BY <1>3, TurnNumbers
    <3> QED
      BY <1>0, <1>3, <2>1, <3>1 DEF Sound
  <2>3. op'[Main] # Resting => mainAt' = "interrupting"
    <3>1. Main = c \/ op'[Main] = op[Main]
      BY <1>3, TurnNumbers
    <3> QED
      BY <1>0, <1>2, <1>3, <3>1 DEF Sound
  <2>4. mainAt = "idle" => op[c].kind # "interrupt"
    BY <1>0, <1>3, TurnNumbers DEF Sound
  <2>5. Hush'
    BY <1>0, <1>1, OperationHush DEF Sound
  <2> QED
    BY <1>0, <1>2, <1>3, <2>2, <2>3, <2>4, <2>5 DEF Sound, Restored
<1>8. Conversation'
  BY <1>0, <1>2 DEF Conversation
<1> QED
  BY <1>4, <1>5, <1>6, <1>7, <1>8 DEF LegacyInv

LEMMA StutterKeepsInv ==
  ASSUME LegacyInv, UNCHANGED vars
  PROVE  LegacyInv'
<1>1. UNCHANGED <<runtime, pcm, mainAt, active, status, pc, fate, preserve, rec, lock, vpm, control, calling, answer,
                  history, music, op, ducked, mode, sound>>
  BY DEF vars, mainVars, turnVars, recVars, agentVars, musicVars
<1>2. MusicTypeOK' /\ MainTypeOK' /\ TaskTypeOK' /\ RecorderTypeOK' /\ AgentTypeOK'
  BY <1>1, TypesSplit DEF LegacyInv, MusicTypeOK, MainTypeOK, TaskTypeOK, RecorderTypeOK, AgentTypeOK
<1>3. Tasks' /\ Recorder'
  BY <1>1 DEF LegacyInv, Tasks, Begun, Recorder
<1>4. Sound' /\ Conversation'
  <2>1. MusicTypeOK /\ Sound /\ Conversation
    BY TypesSplit DEF LegacyInv
  <2>2. Hush'
    BY <1>1, <2>1, OthersHush DEF Sound
  <2> QED
    BY <1>1, <2>1, <2>2 DEF Sound, Restored, Conversation
<1> QED
  BY <1>2, <1>3, <1>4, TypesSplit DEF LegacyInv

LEMMA LegacyNextInv == LegacyInv /\ [Next]_vars => LegacyInv'
<1> SUFFICES ASSUME LegacyInv, [Next]_vars PROVE LegacyInv'
  OBVIOUS
<1>1. CASE Wake
  BY <1>1, WakeKeepsInv
<1>2. CASE MainStep
  BY <1>2, ArmKeepsInv, StartKeepsInv, TurnCheckKeepsInv DEF MainStep, ArmStep
<1>3. CASE ReaderEnds
  BY <1>3, ReaderKeepsInv
<1>4. CASE \E t \in Turn : TurnStep(t) \/ CallTool(t) \/ EndConversation(t) \/ Drop(t)
  BY <1>4, TurnKeepsInv DEF TurnActs
<1>5. CASE \E c \in Caller : Works(c)
  BY <1>5, WorksKeepsInv
<1>6. CASE UNCHANGED vars
  BY <1>6, StutterKeepsInv
<1> QED
  BY <1>1, <1>2, <1>3, <1>4, <1>5, <1>6 DEF Next

--------------------------------------------------------------------------------
(***************************************************************************)
(* The theorems.                                                           *)
(***************************************************************************)

\* Whatever turns a wake aborts and wherever it catches them, their tasks, the recorder, the music and the
\* conversation stay as the inductive invariant says (main.rs, the wake arm and run_turn).
THEOREM LegacyInvariant == Spec => []LegacyInv
<1>1. Init => LegacyInv
  BY LegacyFirst
<1>2. LegacyInv /\ [Next]_vars => LegacyInv'
  BY LegacyNextInv
<1> QED
  BY <1>1, <1>2, PTL DEF Spec

\* When no turn is left nobody listens: the VPM has left its ASR state (run_session and VpmAsrSession's Drop),
\* and a recorder that still runs was started by a turn aborted before it started it.
THEOREM MicrophoneFreed == Spec => []MicrophoneReleased
<1>1. LegacyInv => MicrophoneReleased
  <2> SUFFICES ASSUME LegacyInv, Over PROVE vpm # "ASR_START" /\ (rec.reader # 0 => rec.late)
    BY DEF MicrophoneReleased
  <2>1. Recorder /\ RecorderTypeOK /\ mainAt = "idle" /\ \A t \in Turn : pc[t].at = "none" \/ Finished(t)
    BY TypesSplit DEF LegacyInv, Over
  <2>2. vpm # "ASR_START"
    BY <2>1 DEF Recorder, Finished
  <2>3. rec.reader # 0 => rec.reader \in Turn
    BY <2>1 DEF RecorderTypeOK, Turn
  <2> QED
    BY <2>1, <2>2, <2>3 DEF Recorder, Finished
<1> QED
  BY <1>1, LegacyInvariant, PTL

\* Of several turns, aborted or not, the last one leaves no interruption and AirPlay not ducked, and music a
\* wake silenced is on its way back or was given up (interrupt_for_wake, restore_after_interruption).
THEOREM SoundComesBack == Spec => []SoundRestored
<1>1. LegacyInv => SoundRestored
  <2> SUFFICES ASSUME LegacyInv, Over, runtime = "legacy"
               PROVE  /\ music.interruption = "no" /\ ~ducked
                      /\ sound = "hushed" => \E c \in Caller : op[c].at = "resuming"
    BY DEF SoundRestored
  <2>1. Sound /\ Hush /\ mainAt = "idle" /\ active = 0
    BY DEF LegacyInv, Over, Sound
  <2>2. music.interruption = "no" /\ ~ducked
    BY <2>1 DEF Sound, Restored
  <2>3. \A c \in Caller : op[c].kind # "interrupt"
    <3>1. op[Main].kind # "interrupt" /\ \A t \in Turn : op[t].kind # "interrupt"
      BY <2>1 DEF Sound, Resting
    <3>2. \A c \in Caller : c \in Turn \/ c = Main
      BY TurnNumbers
    <3> QED
      BY <3>1, <3>2
  <2>4. sound = "hushed" => Owed
    BY <2>1 DEF Hush
  <2>5. Owed => \E c \in Caller : op[c].at = "resuming"
    BY <2>2, <2>3 DEF Owed
  <2> QED
    BY <2>2, <2>4, <2>5
<1> QED
  BY <1>1, LegacyInvariant, PTL

\* A turn that is live when the model answers finds in the history and in should_end only what it put there,
\* and what others did after they were aborted (AgentControl, reset_session of the wake arm).
THEOREM OwnConversation == Spec => []NothingLeaks
<1>1. LegacyInv => NothingLeaks
  <2> SUFFICES ASSUME LegacyInv, NEW t \in Turn, pc[t].at \in {"llm", "speak"}, fate[t] = "live",
                      NEW done \in history \cup {control}
               PROVE  done.by \in {t, 0} \/ done.late
    BY DEF NothingLeaks
  <2>1. t = active /\ t # 0
    BY TurnNumbers DEF LegacyInv, Tasks
  <2> QED
    BY <2>1 DEF LegacyInv, Conversation
<1> QED
  BY <1>1, LegacyInvariant, PTL

--------------------------------------------------------------------------------
(***************************************************************************)
(* Utterance.  The collector, block by block: Pushes(c) is a recursive     *)
(* function, and what holds of all of its values is shown for the first    *)
(* one of which it might fail.                                             *)
(***************************************************************************)
LEMMA NatMin ==
  ASSUME NEW T \in SUBSET Nat, T # {}
  PROVE  \E x \in T : \A y \in T : x <= y
<1> DEFINE R == {ss \in Nat \X Nat : ss[1] < ss[2]}
<1>1. OpToRel(<, Nat) = R
  BY DEF OpToRel
<1>2. IsWellFoundedOn(R, Nat)
  BY <1>1, NatLessThanWellFounded
<1> HIDE DEF R
<1>3. PICK x \in T : \A y \in T : ~ (<<y, x>> \in R)
  BY <1>2, WFMin
<1>4. ASSUME NEW y \in T PROVE x <= y
  <2>1. x \in Nat /\ y \in Nat
    OBVIOUS
  <2>2. <<y, x>> \notin R
    BY <1>3
  <2>3. ~ (y < x)
    BY <2>1, <2>2 DEF R
  <2> QED
    BY <2>1, <2>3
<1> QED
  BY <1>4

\* The recursive definition has a solution, so Pushes(c) is one.
LEMMA PushesStepwise ==
  ASSUME NEW c
  PROVE  Pushes(c) = [i \in 0 .. ChunkBlocks |->
                        IF i = 0 THEN [vad |-> vad, events |-> <<>>]
                                 ELSE PushBlock(Pushes(c)[i - 1], Numbered(c)[i])]
<1> DEFINE Base == [vad |-> vad, events |-> <<>>]
           Step(s, i) == PushBlock(s, Numbered(c)[i])
           Run(f, n) == f = [i \in 0 .. n |-> IF i = 0 THEN Base ELSE Step(f[i - 1], i)]
           Stuck == {n \in Nat : ~ \E f : Run(f, n)}
<1>0. ChunkBlocks \in Nat
  BY UtteranceAssumption
<1>1. Stuck = {}
  <2> SUFFICES ASSUME Stuck # {} PROVE FALSE
    OBVIOUS
  <2>1. PICK n \in Stuck : \A m \in Stuck : n <= m
    <3>1. Stuck \in SUBSET Nat
      OBVIOUS
    <3> HIDE DEF Stuck
    <3> QED
      BY <3>1, NatMin
  <2> HIDE DEF Step, Base
  <2>2. CASE n = 0
    <3>1. Run([i \in 0 .. 0 |-> Base], 0)
      OBVIOUS
    <3> QED
      BY <2>2, <3>1
  <2>3. CASE n # 0
    <3>1. n \in Nat /\ n - 1 \in Nat /\ n - 1 \notin Stuck
      <4>1. n \in Nat
        OBVIOUS
      <4> HIDE DEF Stuck
      <4> QED
        BY <2>1, <2>3, <4>1
    <3>2. PICK g : Run(g, n - 1)
      BY <3>1
    <3> DEFINE f == [i \in 0 .. n |-> IF i = n THEN Step(g[n - 1], n) ELSE g[i]]
    <3>3. \A i \in 0 .. n - 1 : g[i] = IF i = 0 THEN Base ELSE Step(g[i - 1], i)
      BY <3>2
    <3>4. ASSUME NEW i \in 0 .. n PROVE f[i] = IF i = 0 THEN Base ELSE Step(f[i - 1], i)
      <4>1. CASE i = 0
        BY <2>3, <3>1, <3>3, <4>1
      <4>2. CASE i # 0 /\ i = n
        <5>1. f[i] = Step(g[n - 1], n) /\ f[i - 1] = g[n - 1]
          BY <3>1, <4>2
        <5> QED
          BY <4>2, <5>1
      <4>3. CASE i # 0 /\ i # n
        <5>1. f[i] = g[i] /\ f[i - 1] = g[i - 1] /\ i \in 0 .. n - 1
          BY <3>1, <4>3
        <5>2. g[i] = Step(g[i - 1], i)
          BY <3>3, <4>3, <5>1
        <5> QED
          BY <4>3, <5>1, <5>2
      <4> QED
        BY <4>1, <4>2, <4>3
    <3> HIDE DEF f
    <3>5. f = [i \in 0 .. n |-> f[i]]
      BY DEF f
    <3>6. Run(f, n)
      BY <3>4, <3>5
    <3> QED
      BY <3>6
  <2> QED
    BY <2>2, <2>3
<1>2. \E f : Run(f, ChunkBlocks)
  BY <1>0, <1>1
<1> QED
  BY <1>2, Zenon DEF Pushes

Collector(heard) == [inSpeech : BOOLEAN, cooling : BOOLEAN, preRoll : SUBSET heard,
                     utterance : SUBSET heard, voiced : Nat, silence : Nat]
SpeechEvent(heard) == [kind : {"start", "rejected", "utterance"}, blocks : SUBSET heard]
Held(v) == v.preRoll \cup v.utterance

\* At most one speech ends in a chunk: the cooldown outlives the chunk, or it has one block only.
OneAtATime == Cooldown \/ ChunkBlocks = 1

\* The collector and the events of a push: an end of speech is the last event, and then nothing is held.
Pushed(s, heard) ==
  /\ s \in [vad : Collector(heard), events : Seq(SpeechEvent(heard))]
  /\ OneAtATime => \A j \in 1 .. Len(s.events) : s.events[j].kind # "start" =>
       /\ j = Len(s.events) /\ Held(s.vad) = {} /\ ~s.vad.inSpeech
       /\ Cooldown => s.vad.cooling

LEMMA PushBlockPushes ==
  ASSUME NEW heard, NEW s, Pushed(s, heard), NEW b, b.id \in heard, ChunkBlocks = 1 => s.events = <<>>
  PROVE  Pushed(PushBlock(s, b), heard)
<1> DEFINE v == s.vad
           more == Continues(v, b)
<1>0. s = [vad |-> s.vad, events |-> s.events] /\ v \in Collector(heard) /\ s.events \in Seq(SpeechEvent(heard))
  BY DEF Pushed
<1>a. Rolled(v, b) \in SUBSET heard
  <2>1. v.preRoll \in SUBSET heard
    BY <1>0 DEF Collector
  <2> QED
    BY <2>1 DEF Rolled
<1>b. PreRolls(v, b) \in Collector(heard) /\ Begins(v, b) \in Collector(heard)
  <2> HIDE DEF v
  <2> QED
    BY <1>0, <1>a DEF PreRolls, Begins, Collector
<1>c. more \in Collector(heard)
  <2> HIDE DEF v
  <2>1. v.voiced \in Nat /\ v.silence \in Nat /\ v.utterance \in SUBSET heard
    BY <1>0 DEF Collector
  <2>2. /\ (IF b.voice THEN v.voiced + 1 ELSE v.voiced) \in Nat
        /\ (IF b.voice THEN 0 ELSE v.silence + 1) \in Nat
        /\ v.utterance \cup {b.id} \in SUBSET heard
    BY <2>1
  <2>3. more = [v EXCEPT !.utterance = v.utterance \cup {b.id},
                        !.voiced = IF b.voice THEN v.voiced + 1 ELSE v.voiced,
                        !.silence = IF b.voice THEN 0 ELSE v.silence + 1]
    BY DEF Continues
  <2> HIDE DEF more
  <2> QED
    BY <1>0, <2>2, <2>3 DEF Collector
<1>d. /\ Reset \in Collector(heard) /\ Held(Reset) = {} /\ ~Reset.inSpeech /\ Reset.cooling = Cooldown
      /\ Cooldown \in BOOLEAN
  BY UtteranceAssumption DEF Reset, Fresh, Collector, Held
<1>e. Verdict(more) \in SpeechEvent(heard)
  <2> HIDE DEF more
  <2> QED
    BY <1>c DEF Verdict, SpeechEvent, Collector
<1>f. ASSUME NEW w \in Collector(heard), NEW e \in SpeechEvent(heard)
      PROVE  /\ [vad |-> w, events |-> Append(s.events, e)] \in [vad : Collector(heard), events : Seq(SpeechEvent(heard))]
             /\ Len(Append(s.events, e)) = Len(s.events) + 1
             /\ Append(s.events, e)[Len(s.events) + 1] = e
             /\ \A j \in 1 .. Len(s.events) : Append(s.events, e)[j] = s.events[j]
             /\ Len(s.events) \in Nat
  <2> DEFINE E == SpeechEvent(heard)
  <2>1. s.events \in Seq(E) /\ e \in E
    BY <1>0, <1>f
  <2> HIDE DEF E
  <2>2. Append(s.events, e) \in Seq(E) /\ Len(s.events) \in Nat /\ Len(Append(s.events, e)) = Len(s.events) + 1
    BY <2>1
  <2>3. /\ Append(s.events, e)[Len(s.events) + 1] = e
        /\ \A j \in 1 .. Len(s.events) : Append(s.events, e)[j] = s.events[j]
    BY <2>1
  <2> QED
    BY <2>2, <2>3, <1>f DEF E
<1>g. OneAtATime /\ ~(~v.inSpeech /\ v.cooling) => \A j \in 1 .. Len(s.events) : s.events[j].kind = "start"
  <2> SUFFICES ASSUME OneAtATime, ~(~v.inSpeech /\ v.cooling), NEW j \in 1 .. Len(s.events), s.events[j].kind # "start"
               PROVE  FALSE
    OBVIOUS
  <2>1. ~v.inSpeech /\ (Cooldown => v.cooling)
    BY DEF Pushed
  <2>2. ChunkBlocks = 1
    BY <2>1 DEF OneAtATime
  <2> QED
    BY <2>2
<1>1. CASE ~v.inSpeech /\ v.cooling
  BY <1>1 DEF PushBlock
<1>2. CASE ~v.inSpeech /\ ~v.cooling /\ ~b.voice
  <2>1. PushBlock(s, b) = [vad |-> PreRolls(v, b), events |-> s.events]
    BY <1>0, <1>2 DEF PushBlock
  <2> HIDE DEF v
  <2> QED
    BY <1>0, <1>2, <1>b, <1>g, <2>1 DEF Pushed
<1>3. CASE ~v.inSpeech /\ ~v.cooling /\ b.voice
  <2> DEFINE e == [kind |-> "start", blocks |-> {}]
  <2>1. PushBlock(s, b) = [vad |-> Begins(v, b), events |-> Append(s.events, e)]
    BY <1>3 DEF PushBlock
  <2>2. e \in SpeechEvent(heard) /\ e.kind = "start"
    BY DEF SpeechEvent
  <2> HIDE DEF v, e
  <2>3. OneAtATime => \A j \in 1 .. Len(s.events) + 1 : Append(s.events, e)[j].kind = "start"
    BY <1>3, <1>b, <1>f, <1>g, <2>2
  <2> QED
    BY <1>b, <1>f, <2>1, <2>2, <2>3 DEF Pushed
<1>4. CASE v.inSpeech /\ ~Closes(more)
  <2>1. PushBlock(s, b) = [vad |-> more, events |-> s.events]
    BY <1>0, <1>4 DEF PushBlock
  <2> HIDE DEF v, more
  <2> QED
    BY <1>0, <1>4, <1>c, <1>g, <2>1 DEF Pushed
<1>5. CASE v.inSpeech /\ Closes(more)
  <2> DEFINE e == Verdict(more)
  <2>1. PushBlock(s, b) = [vad |-> Reset, events |-> Append(s.events, e)]
    BY <1>5 DEF PushBlock
  <2>2. e \in SpeechEvent(heard)
    BY <1>e
  <2> HIDE DEF v, e
  <2>3. OneAtATime => \A j \in 1 .. Len(s.events) + 1 : Append(s.events, e)[j].kind # "start" => j = Len(s.events) + 1
    BY <1>5, <1>d, <1>f, <1>g, <2>2
  <2> QED
    BY <1>d, <1>f, <2>1, <2>2, <2>3 DEF Pushed
<1> QED
  BY <1>1, <1>2, <1>3, <1>4, <1>5

\* A push: what it holds and decides is of what the collector held and of the chunk.
Ids(c) == {b.id : b \in Range(Numbered(c))}

LEMMA PushPushes ==
  ASSUME vad \in Collector(Block), NEW c \in Chunk
  PROVE  Pushed(Push(c), Held(vad) \cup Ids(c))
<1> DEFINE heard == Held(vad) \cup Ids(c)
           Bad == {n \in Nat : n <= ChunkBlocks /\ ~Pushed(Pushes(c)[n], heard)}
<1>0. ChunkBlocks \in Nat \ {0}
  BY UtteranceAssumption
<1>1. /\ Pushes(c)[0] = [vad |-> vad, events |-> <<>>]
      /\ \A i \in 1 .. ChunkBlocks : Pushes(c)[i] = PushBlock(Pushes(c)[i - 1], Numbered(c)[i])
  <2> DEFINE p == Pushes(c)
             Step(q, i) == PushBlock(q, Numbered(c)[i])
             Base == [vad |-> vad, events |-> <<>>]
  <2>1. p = [i \in 0 .. ChunkBlocks |-> IF i = 0 THEN Base ELSE Step(p[i - 1], i)]
    BY PushesStepwise
  <2> HIDE DEF p, Step, Base
  <2>2. p[0] = Base /\ \A i \in 1 .. ChunkBlocks : p[i] = Step(p[i - 1], i)
    BY <1>0, <2>1
  <2> QED
    BY <2>2 DEF p, Step, Base
<1>2. \A i \in 1 .. ChunkBlocks : Numbered(c)[i].id \in heard
  BY DEF Ids, Numbered, Chunk, Range
<1>3. Pushed(Pushes(c)[0], heard)
  <2>1. vad \in Collector(heard)
    BY DEF Collector, Held
  <2> HIDE DEF heard
  <2>2. [vad |-> vad, events |-> <<>>] \in [vad : Collector(heard), events : Seq(SpeechEvent(heard))]
    BY <2>1
  <2> QED
    BY <1>1, <2>2 DEF Pushed
<1> HIDE DEF heard
<1>4. Bad = {}
  <2> SUFFICES ASSUME Bad # {} PROVE FALSE
    OBVIOUS
  <2>1. PICK n \in Bad : \A m \in Bad : n <= m
    <3>1. Bad \in SUBSET Nat
      OBVIOUS
    <3> HIDE DEF Bad
    <3> QED
      BY <3>1, NatMin
  <2>2. n \in 1 .. ChunkBlocks
    BY <1>0, <1>3
  <2>3. Pushed(Pushes(c)[n - 1], heard)
    <3>1. n \in Nat /\ n - 1 \in Nat /\ n - 1 <= ChunkBlocks /\ ~(n <= n - 1)
      BY <1>0, <2>2
    <3> QED
      BY <2>1, <3>1
  <2>4. ChunkBlocks = 1 => Pushes(c)[n - 1].events = <<>>
    <3>1. ChunkBlocks = 1 => n - 1 = 0
      BY <2>2
    <3> QED
      BY <1>1, <3>1
  <2>5. Pushed(Pushes(c)[n], heard)
    <3>1. Pushes(c)[n] = PushBlock(Pushes(c)[n - 1], Numbered(c)[n]) /\ Numbered(c)[n].id \in heard
      BY <1>1, <1>2, <2>2
    <3> QED
      BY <2>3, <2>4, <3>1, PushBlockPushes
  <2> QED
    BY <2>5
<1>5. Pushed(Pushes(c)[ChunkBlocks], heard)
  BY <1>0, <1>4
<1> QED
  BY <1>5 DEF Push, heard

\* The blocks of a chunk are new, and blocks of the turn.
LEMMA IdsAreNew ==
  ASSUME chunks \in 0 .. MaxChunks, chunks < MaxChunks, NEW c \in Chunk
  PROVE  /\ Ids(c) \subseteq Block
         /\ \A b \in Ids(c) : b > chunks * ChunkBlocks /\ b <= (chunks + 1) * ChunkBlocks
         /\ chunks * ChunkBlocks \in Nat /\ (chunks + 1) * ChunkBlocks \in Nat
         /\ chunks * ChunkBlocks <= (chunks + 1) * ChunkBlocks
<1>1. ChunkBlocks \in Nat /\ MaxChunks \in Nat /\ chunks \in Nat /\ chunks + 1 <= MaxChunks
  BY UtteranceAssumption
<1>2. (chunks + 1) * ChunkBlocks = chunks * ChunkBlocks + ChunkBlocks
  BY <1>1
<1>3. chunks * ChunkBlocks \in Nat /\ MaxChunks * ChunkBlocks \in Nat
  BY <1>1
<1>4. (chunks + 1) * ChunkBlocks <= MaxChunks * ChunkBlocks
  <2>1. PICK d \in Nat : MaxChunks = chunks + 1 + d
    <3>1. MaxChunks - (chunks + 1) \in Nat /\ MaxChunks = chunks + 1 + (MaxChunks - (chunks + 1))
      BY <1>1
    <3> QED
      BY <3>1
  <2>2. (chunks + 1 + d) * ChunkBlocks = (chunks + 1) * ChunkBlocks + d * ChunkBlocks
    BY <1>1, <2>1
  <2>3. d * ChunkBlocks \in Nat
    BY <1>1, <2>1
  <2> QED
    BY <1>1, <1>2, <1>3, <2>1, <2>2, <2>3
<1>5. \A b \in Ids(c) : \E i \in 1 .. ChunkBlocks : b = chunks * ChunkBlocks + i
  BY DEF Ids, Numbered, Chunk, Range
<1> DEFINE k == chunks * ChunkBlocks
           l == (chunks + 1) * ChunkBlocks
           m == MaxChunks * ChunkBlocks
<1>6. k \in Nat /\ m \in Nat /\ l = k + ChunkBlocks /\ l <= m /\ \A b \in Ids(c) : \E i \in 1 .. ChunkBlocks : b = k + i
  BY <1>2, <1>3, <1>4, <1>5
<1>7. Block = 1 .. m
  BY DEF Block
<1> HIDE DEF k, l, m
<1>8. \A b \in Ids(c) : b \in 1 .. m /\ b > k /\ b <= l
  BY <1>1, <1>6
<1>9. l \in Nat /\ k <= l
  BY <1>1, <1>6
<1> QED
  BY <1>6, <1>7, <1>8, <1>9 DEF k, l

\* What the capture loop makes of the events: one Clear for a rejected speech.
LEMMA PushTaken ==
  ASSUME OneAtATime, NEW heard, NEW s, Pushed(s, heard)
  PROVE  /\ Taken(s.events) = s.events
         /\ \/ Clears(s.events) = <<>> /\ {e \in Range(s.events) : e.kind = "rejected"} = {}
            \/ Clears(s.events) = <<Clear>> /\ Held(s.vad) = {} /\ s.events # <<>> /\ Last(s.events).kind = "rejected"
<1> DEFINE ev == s.events
           E == SpeechEvent(heard)
<1>1. ev \in Seq(E)
  BY DEF Pushed
<1>2. \A j \in 1 .. Len(ev) : ev[j].kind # "start" => j = Len(ev) /\ Held(s.vad) = {}
  BY DEF Pushed
<1> HIDE DEF ev, E
<1>3. DOMAIN ev = 1 .. Len(ev) /\ Len(ev) \in Nat /\ Last(ev) = ev[Len(ev)]
  BY <1>1 DEF Last
<1>4. Taken(ev) = ev
  <2> DEFINE ends == {i \in DOMAIN ev : ev[i].kind = "utterance"}
  <2>1. ends = {} \/ (ends = {Len(ev)} /\ Len(ev) \in 1 .. Len(ev))
    <3>1. \A i \in ends : i = Len(ev) /\ Len(ev) \in 1 .. Len(ev)
      BY <1>2, <1>3
    <3> HIDE DEF ends
    <3> QED
      BY <3>1
  <2>2. CASE ends = {}
    BY <2>2 DEF Taken
  <2>3. CASE ends = {Len(ev)}
    <3>1. Min({Len(ev)}) = Len(ev)
      BY <1>3 DEF Min
    <3>2. Taken(ev) = SubSeq(ev, 1, Len(ev))
      BY <2>1, <2>3, <3>1 DEF Taken
    <3>3. SubSeq(ev, 1, Len(ev)) = ev
      BY <1>1
    <3> QED
      BY <3>2, <3>3
  <2> QED
    BY <2>1, <2>2, <2>3
<1>5. \/ Clears(ev) = <<>> /\ {e \in Range(ev) : e.kind = "rejected"} = {}
      \/ Clears(ev) = <<Clear>> /\ Held(s.vad) = {} /\ ev # <<>> /\ Last(ev).kind = "rejected"
  <2> DEFINE turned == {j \in DOMAIN ev : ev[j].kind = "rejected"}
  <2>1. turned = {} \/ (turned = {Len(ev)} /\ Len(ev) \in 1 .. Len(ev) /\ ev[Len(ev)].kind = "rejected")
    <3>1. \A i \in turned : i = Len(ev) /\ Len(ev) \in 1 .. Len(ev) /\ ev[Len(ev)].kind = "rejected"
      BY <1>2, <1>3
    <3> HIDE DEF turned
    <3> QED
      BY <3>1
  <2>2. CASE turned = {}
    <3>1. Cardinality(turned) = 0
      BY <2>2, FS_EmptySet
    <3>2. Clears(ev) = <<>>
      <4>1. Clears(ev) = [i \in 1 .. 0 |-> Clear]
        BY <3>1 DEF Clears
      <4>2. [i \in 1 .. 0 |-> Clear] = <<>>
        OBVIOUS
      <4> QED
        BY <4>1, <4>2
    <3>3. {e \in Range(ev) : e.kind = "rejected"} = {}
      BY <2>2 DEF Range
    <3> QED
      BY <3>2, <3>3
  <2>3. CASE turned = {Len(ev)} /\ Len(ev) \in 1 .. Len(ev) /\ ev[Len(ev)].kind = "rejected"
    <3>1. Cardinality(turned) = 1
      BY <2>3, FS_Singleton
    <3>2. Clears(ev) = [i \in 1 .. 1 |-> Clear]
      BY <3>1 DEF Clears
    <3>3. [i \in 1 .. 1 |-> Clear] = <<Clear>>
      OBVIOUS
    <3>4. ev # <<>> /\ Held(s.vad) = {} /\ Last(ev).kind = "rejected"
      <4>1. ev[Len(ev)].kind # "start" /\ Len(ev) # 0
        BY <1>3, <2>3
      <4>2. Len(<<>>) = 0
        OBVIOUS
      <4> QED
        BY <1>2, <1>3, <2>3, <4>1, <4>2
    <3> QED
      BY <3>2, <3>3, <3>4
  <2> QED
    BY <2>1, <2>2, <2>3
<1> QED
  BY <1>4, <1>5 DEF ev

--------------------------------------------------------------------------------
(***************************************************************************)
(* The inductive invariant of Utterance.                                   *)
(* Serialised: who has the serial lock has the slot, and a turn asks once. *)
(* Delivered: every block held or taken for the utterance is, or will be   *)
(* when the queue is worked off, in the stream's buffer, and none of a     *)
(* speech that was turned down; behind a commit comes nothing.             *)
(***************************************************************************)
Serialised ==
  /\ SlotIsTheRequests
  /\ serial # 0 => req[serial] \in {"post", "recv"}
  /\ \A t \in TurnId : t > turn \/ (t = turn /\ at \notin {"wait", "done"}) => req[t] = "none"

\* Once q is worked off, block b is in what was buf.
Arrives(q, buf, b) ==
  \/ b \in buf /\ \A j \in 1 .. Len(q) : q[j].kind # "clear"
  \/ \E i \in 1 .. Len(q) : q[i].kind = "append" /\ b \in q[i].blocks /\
       \A j \in i + 1 .. Len(q) : q[j].kind # "clear"

Complete(o) ==
  o.kind = "text" /\ o.whole =>
    o.from = turn /\ utterance \subseteq o.blocks /\ o.blocks \cap rejected = {}

Delivered ==
  /\ at \in {"connect", "listen"} => utterance = {}
  /\ at = "connect" => Held(vad) = {} /\ rejected = {} /\ queue = <<>> /\ stream = Down /\ result = None
  /\ at \in {"ask", "body"} => ~Streaming
  /\ \A b \in Held(vad) \cup utterance \cup rejected : b <= chunks * ChunkBlocks
  /\ stream.up =>
       /\ Streaming /\ at \in {"listen", "commit", "wait"}
       /\ \A b \in (IF at = "listen" THEN Held(vad) ELSE utterance) : Arrives(queue, stream.buffer, b)
       /\ \A b \in rejected : ~Arrives(queue, stream.buffer, b)
       /\ \A i \in 1 .. Len(queue) : queue[i].kind = "commit" => i = Len(queue) /\ at = "wait"
       /\ stream.committed => queue = <<>> /\ at = "wait"
  /\ result.whole => at = "wait" /\ Complete(result)
  /\ at = "done" /\ Streaming => Complete(outcome)

UtteranceInv == UtteranceTypeOK /\ Serialised /\ (OneAtATime => Delivered)

\* The queue from its two ends.
LEMMA ArrivesEmpty ==
  ASSUME NEW buf, NEW b
  PROVE  Arrives(<<>>, buf, b) <=> b \in buf
<1>1. Len(<<>>) = 0
  OBVIOUS
<1> QED
  BY <1>1 DEF Arrives

LEMMA ArrivesAppended ==
  ASSUME NEW C, NEW q \in Seq(C), NEW m \in C, NEW buf, NEW b
  PROVE  Arrives(Append(q, m), buf, b) <=>
           m.kind # "clear" /\ (Arrives(q, buf, b) \/ (m.kind = "append" /\ b \in m.blocks))
<1> DEFINE p == Append(q, m)
           n == Len(q)
<1>1. n \in Nat /\ Len(p) = n + 1 /\ p[n + 1] = m /\ \A i \in 1 .. n : p[i] = q[i]
  OBVIOUS
<1> HIDE DEF p, n
<1>2. 1 .. n + 1 = 1 .. n \cup {n + 1}
  BY <1>1
<1>3. \A i \in 1 .. n : i + 1 .. n + 1 = i + 1 .. n \cup {n + 1} /\ i + 1 .. n \subseteq 1 .. n
  BY <1>1
<1>4. n + 1 + 1 .. n + 1 = {}
  BY <1>1
<1>5. (\A j \in 1 .. Len(p) : p[j].kind # "clear") <=> m.kind # "clear" /\ \A j \in 1 .. n : q[j].kind # "clear"
  BY <1>1, <1>2
<1>6. ASSUME NEW i \in 1 .. n
      PROVE  (\A j \in i + 1 .. Len(p) : p[j].kind # "clear") <=>
               m.kind # "clear" /\ \A j \in i + 1 .. n : q[j].kind # "clear"
  BY <1>1, <1>3
<1>7. Arrives(p, buf, b) <=>
        \/ b \in buf /\ \A j \in 1 .. Len(p) : p[j].kind # "clear"
        \/ \E i \in 1 .. n : q[i].kind = "append" /\ b \in q[i].blocks /\ \A j \in i + 1 .. Len(p) : p[j].kind # "clear"
        \/ m.kind = "append" /\ b \in m.blocks
  BY <1>1, <1>2, <1>4 DEF Arrives
<1>8. Arrives(q, buf, b) <=>
        \/ b \in buf /\ \A j \in 1 .. n : q[j].kind # "clear"
        \/ \E i \in 1 .. n : q[i].kind = "append" /\ b \in q[i].blocks /\ \A j \in i + 1 .. n : q[j].kind # "clear"
  BY DEF Arrives, n
<1>9. m.kind = "append" => m.kind # "clear"
  OBVIOUS
<1> QED
  BY <1>5, <1>6, <1>7, <1>8, <1>9 DEF p

\* What the stream's buffer is when it has taken command m.
After_(m, buf) == CASE m.kind = "append" -> buf \cup m.blocks [] m.kind = "clear" -> {} [] OTHER -> buf

LEMMA ArrivesTaken ==
  ASSUME NEW C, NEW q \in Seq(C), q # <<>>, NEW buf, NEW b
  PROVE  Arrives(q, buf, b) <=> Arrives(Tail(q), After_(Head(q), buf), b)
<1> DEFINE p == Tail(q)
           m == Head(q)
           n == Len(p)
           new == After_(m, buf)
<1>1. /\ n \in Nat /\ Len(q) = n + 1 /\ q[1] = m /\ \A i \in 1 .. n : p[i] = q[i + 1]
      /\ p \in Seq(C)
  OBVIOUS
<1> HIDE DEF p, m, n, new
<1>2. 1 .. n + 1 = {1} \cup 2 .. n + 1
  BY <1>1
<1>3. \A k \in 1 .. n + 1 : (\A j \in k + 1 .. n + 1 : q[j].kind # "clear") <=> \A j \in k .. n : p[j].kind # "clear"
  <2> SUFFICES ASSUME NEW k \in 1 .. n + 1
               PROVE  (\A j \in k + 1 .. n + 1 : q[j].kind # "clear") <=> \A j \in k .. n : p[j].kind # "clear"
    OBVIOUS
  <2>1. ASSUME \A j \in k + 1 .. n + 1 : q[j].kind # "clear", NEW j \in k .. n PROVE p[j].kind # "clear"
    <3>1. j + 1 \in k + 1 .. n + 1 /\ j \in 1 .. n
      BY <1>1
    <3> QED
      BY <1>1, <2>1, <3>1
  <2>2. ASSUME \A j \in k .. n : p[j].kind # "clear", NEW j \in k + 1 .. n + 1 PROVE q[j].kind # "clear"
    <3>1. j - 1 \in k .. n /\ j - 1 \in 1 .. n /\ j - 1 + 1 = j
      BY <1>1
    <3> QED
      BY <1>1, <2>2, <3>1
  <2> QED
    BY <2>1, <2>2
<1>4. (\A j \in 2 .. n + 1 : q[j].kind # "clear") <=> \A j \in 1 .. n : p[j].kind # "clear"
  <2>1. 1 \in 1 .. n + 1 /\ 1 + 1 = 2
    BY <1>1
  <2> QED
    BY <1>3, <2>1
<1> DEFINE Clean == \A j \in 1 .. n : p[j].kind # "clear"
           From(k) == p[k].kind = "append" /\ b \in p[k].blocks /\ \A j \in k + 1 .. n : p[j].kind # "clear"
           Was(k) == q[k].kind = "append" /\ b \in q[k].blocks /\ \A j \in k + 1 .. n + 1 : q[j].kind # "clear"
<1>5. \A k \in 1 .. n : From(k) <=> Was(k + 1)
  <2> SUFFICES ASSUME NEW k \in 1 .. n PROVE From(k) <=> Was(k + 1)
    OBVIOUS
  <2>1. k + 1 \in 1 .. n + 1 /\ p[k] = q[k + 1]
    BY <1>1
  <2> QED
    BY <1>3, <2>1
<1>6. Was(1) <=> m.kind = "append" /\ b \in m.blocks /\ Clean
  BY <1>1, <1>4
<1>7. (\A j \in 1 .. n + 1 : q[j].kind # "clear") <=> m.kind # "clear" /\ Clean
  BY <1>1, <1>2, <1>4
<1>8. b \in new <=> (m.kind = "append" /\ (b \in buf \/ b \in m.blocks)) \/ (m.kind \notin {"append", "clear"} /\ b \in buf)
  BY DEF new, After_
<1>9. Arrives(p, new, b) <=> (b \in new /\ Clean) \/ \E k \in 1 .. n : From(k)
  BY DEF Arrives, n
<1>10. Arrives(q, buf, b) <=> (b \in buf /\ \A j \in 1 .. n + 1 : q[j].kind # "clear") \/ \E k \in 1 .. n + 1 : Was(k)
  BY <1>1 DEF Arrives
<1> HIDE DEF From, Was, Clean
<1>11. (\E k \in 1 .. n + 1 : Was(k)) <=> Was(1) \/ \E k \in 1 .. n : From(k)
  <2>1. ASSUME NEW k \in 1 .. n + 1, Was(k), k # 1 PROVE \E i \in 1 .. n : From(i)
    <3>1. k - 1 \in 1 .. n /\ k - 1 + 1 = k
      BY <1>1, <2>1
    <3> QED
      BY <1>5, <2>1, <3>1
  <2>2. ASSUME NEW k \in 1 .. n, From(k) PROVE \E i \in 1 .. n + 1 : Was(i)
    <3>1. k + 1 \in 1 .. n + 1
      BY <1>1
    <3> QED
      BY <1>5, <2>2, <3>1
  <2>3. 1 \in 1 .. n + 1
    BY <1>1
  <2> QED
    BY <2>1, <2>2, <2>3
<1> QED
  BY <1>6, <1>7, <1>8, <1>9, <1>10, <1>11 DEF p, m, new

--------------------------------------------------------------------------------
(***************************************************************************)
(* The types of Utterance.                                                 *)
(***************************************************************************)
PlaceTypes ==
  /\ provider \in Providers /\ turn \in TurnId
  /\ at \in {"connect", "listen", "commit", "wait", "ask", "body", "done"}
  /\ tries \in 0 .. Attempts
HearingTypes ==
  /\ chunks \in 0 .. MaxChunks /\ started \in BOOLEAN
  /\ vad \in Collector(Block)
  /\ {utterance, rejected} \subseteq SUBSET Block
Commands == [kind : {"append", "clear", "commit"}, blocks : SUBSET Block]
Streams == [up : BOOLEAN, sending : BOOLEAN, buffer : SUBSET Block, committed : BOOLEAN, delta : SUBSET Block]
StreamTypes == queue \in Seq(Commands) /\ stream \in Streams
ResultTypes == {result, outcome} \subseteq Outcome
AivsTypes ==
  /\ reply \in [TurnId -> Outcome]
  /\ {serial, slot} \subseteq 0 .. Turns /\ mailbox \in [TurnId -> 0 .. Turns] /\ cloud \subseteq TurnId
  /\ req \in [TurnId -> {"none", "queued", "post", "recv", "done"}]

LEMMA UtteranceTypesSplit ==
  /\ UtteranceTypeOK <=> PlaceTypes /\ HearingTypes /\ StreamTypes /\ ResultTypes /\ AivsTypes
  /\ UtteranceTypeOK' <=> PlaceTypes' /\ HearingTypes' /\ StreamTypes' /\ ResultTypes' /\ AivsTypes'
BY DEF UtteranceTypeOK, PlaceTypes, HearingTypes, StreamTypes, ResultTypes, AivsTypes, Collector, Commands,
       Streams

LEMMA Constants_ ==
  /\ ChunkBlocks \in Nat \ {0} /\ Attempts \in Nat \ {0} /\ MaxChunks \in Nat \ {0} /\ Turns \in Nat \ {0}
  /\ \A t \in TurnId : t \in Nat /\ t # 0 /\ t \in 0 .. Turns
  /\ 1 \in TurnId /\ 0 \in 0 .. Turns /\ 0 \in 0 .. Attempts /\ 0 \in 0 .. MaxChunks
  /\ \A t \in 0 .. Turns : t = 0 \/ t \in TurnId
BY UtteranceAssumption DEF TurnId

LEMMA Outcomes ==
  /\ None \in Outcome /\ Failed \in Outcome /\ Nothing("capture_error") \in Outcome /\ Nothing("idle") \in Outcome
  /\ \A t \in TurnId, b \in SUBSET Block, w \in BOOLEAN : Text(t, b, w) \in Outcome
BY DEF Outcome, None, Failed

\* Nothing but a text is whole.
LEMMA OnlyTextsAreWhole ==
  /\ ~None.whole /\ ~Failed.whole
  /\ \A o \in Outcome : o.whole \in BOOLEAN /\ (o.whole => o.kind = "text")
  /\ \A k : ~Nothing(k).whole
<1>1. \A k : Nothing(k).whole = FALSE
  BY DEF Nothing
<1>2. \A t, b, w : Text(t, b, w).whole = w /\ Text(t, b, w).kind = "text"
  BY DEF Text
<1>3. ASSUME NEW o \in Outcome PROVE o.whole \in BOOLEAN /\ (o.whole => o.kind = "text")
  <2>1. CASE \E k : o = Nothing(k)
    BY <1>1, <2>1
  <2>2. CASE \E t \in TurnId, b \in SUBSET Block, w \in BOOLEAN : o = Text(t, b, w)
    BY <1>2, <2>2
  <2>3. o \in {Nothing(k) : k \in {"none", "asr_error", "capture_error", "idle"}}
          \/ o \in {Text(t, b, w) : t \in TurnId, b \in SUBSET Block, w \in BOOLEAN}
    BY <1>3 DEF Outcome
  <2> QED
    BY <2>1, <2>2, <2>3
<1> QED
  BY <1>1, <1>3 DEF None, Failed

LEMMA FreshTypes ==
  /\ Fresh \in Collector(Block) /\ Held(Fresh) = {}
  /\ <<>> \in Seq(Commands) /\ Down \in Streams /\ ~Down.up /\ Down.buffer = {}
BY DEF Fresh, Collector, Held, Down, Streams

\* A turn that leaves drops its session.
LEMMA LeaveTypes ==
  ASSUME NEW o \in Outcome, Leave(o)
  PROVE  StreamTypes' /\ ResultTypes'
BY FreshTypes, Outcomes DEF Leave, StreamTypes, ResultTypes

LEMMA HeardTypes ==
  ASSUME UtteranceTypeOK, NEW c \in Chunk, NEW then, Heard(c, then)
  PROVE  /\ HearingTypes' /\ Appended(c) \in Commands
         /\ Clears(Taken(Push(c).events)) \in Seq(Commands)
<1>0. HearingTypes /\ PlaceTypes
  BY UtteranceTypesSplit
<1> DEFINE heard == Held(vad) \cup Ids(c)
           p == Push(c)
           ev == Taken(p.events)
<1>1. Pushed(p, heard)
  BY <1>0, PushPushes DEF HearingTypes
<1>2. chunks \in 0 .. MaxChunks /\ chunks < MaxChunks /\ chunks' = chunks + 1
  BY <1>0 DEF Heard, HearingTypes
<1>3. heard \subseteq Block /\ Ids(c) \subseteq Block
  BY <1>0, <1>2, IdsAreNew DEF HearingTypes, Held, Collector
<1>4. p.vad \in Collector(Block)
  <2>1. p.vad \in Collector(heard)
    BY <1>1 DEF Pushed
  <2> HIDE DEF heard, p
  <2> QED
    BY <1>3, <2>1 DEF Collector
<1>5. p.events \in Seq(SpeechEvent(heard))
  BY <1>1 DEF Pushed
<1>6. ev \in Seq(SpeechEvent(heard))
  <2> HIDE DEF heard, p
  <2> DEFINE E == SpeechEvent(heard)
             q == p.events
  <2>1. q \in Seq(E)
    BY <1>5
  <2> HIDE DEF E, q
  <2>2. Taken(q) \in Seq(E)
    <3> DEFINE ends == {i \in DOMAIN q : q[i].kind = "utterance"}
    <3>1. CASE ends = {}
      BY <2>1, <3>1 DEF Taken
    <3>2. CASE ends # {}
      <4>1. Min(ends) \in ends
        <5>1. ends \in SUBSET Nat
          BY <2>1
        <5> HIDE DEF ends
        <5>2. PICK x \in ends : \A y \in ends : x <= y
          BY <3>2, <5>1, NatMin
        <5> QED
          BY <5>2 DEF Min
      <4>2. Min(ends) \in 1 .. Len(q)
        BY <2>1, <4>1
      <4>3. Taken(q) = SubSeq(q, 1, Min(ends))
        BY <3>2 DEF Taken
      <4> HIDE DEF ends
      <4> QED
        BY <2>1, <4>2, <4>3
    <3> QED
      BY <3>1, <3>2
  <2> QED
    BY <2>2 DEF E, q
<1>7. \A e \in Range(ev) : e \in SpeechEvent(heard)
  <2> HIDE DEF ev, heard
  <2> QED
    BY <1>6 DEF Range
<1>8. \A e \in Range(ev) : e.blocks \in SUBSET Block
  <2> HIDE DEF ev, heard
  <2> QED
    BY <1>3, <1>7 DEF SpeechEvent
<1>9. ev # <<>> => Last(ev) \in Range(ev)
  <2> DEFINE E == SpeechEvent(heard)
  <2>1. ev \in Seq(E)
    BY <1>6
  <2> HIDE DEF ev, E
  <2> QED
    BY <2>1 DEF Last, Range
<1>10. rejected' \in SUBSET Block
  <2>1. rejected' = rejected \cup UNION {e.blocks : e \in {x \in Range(ev) : x.kind = "rejected"}}
    BY DEF Heard
  <2>2. rejected \in SUBSET Block
    BY <1>0 DEF HearingTypes
  <2> HIDE DEF ev
  <2> QED
    BY <1>8, <2>1, <2>2
<1>11. utterance' \in SUBSET Block
  <2>1. utterance' = utterance \/ (ev # <<>> /\ utterance' = Last(ev).blocks)
    BY DEF Heard
  <2>2. utterance \in SUBSET Block
    BY <1>0 DEF HearingTypes
  <2> HIDE DEF ev
  <2> QED
    BY <1>8, <1>9, <2>1, <2>2
<1>12. started' \in BOOLEAN
  BY <1>0 DEF Heard, StartedAfter, HearingTypes
<1>13. vad' = p.vad
  BY DEF Heard
<1>14. HearingTypes'
  <2>1. chunks' \in 0 .. MaxChunks
    BY <1>2, Constants_
  <2> QED
    BY <1>4, <1>10, <1>11, <1>12, <1>13, <2>1 DEF HearingTypes
<1>15. Appended(c) \in Commands /\ Clear \in Commands
  BY <1>3 DEF Appended, Clear, Commands, Ids
<1>16. Clears(ev) \in Seq(Commands)
  <2> DEFINE S == {j \in DOMAIN ev : ev[j].kind = "rejected"}
             n == Cardinality(S)
  <2>1. IsFiniteSet(S)
    <3> DEFINE E == SpeechEvent(heard)
    <3>1. ev \in Seq(E)
      BY <1>6
    <3> HIDE DEF ev, E
    <3>2. DOMAIN ev = 1 .. Len(ev) /\ Len(ev) \in Nat
      BY <3>1
    <3>3. IsFiniteSet(1 .. Len(ev))
      BY <3>2, FS_Interval
    <3>4. S \subseteq 1 .. Len(ev)
      BY <3>2
    <3> QED
      BY <3>3, <3>4, FS_Subset
  <2>2. n \in Nat
    BY <2>1, FS_CardinalityType
  <2>3. Clears(ev) = [i \in 1 .. n |-> Clear]
    BY DEF Clears
  <2> HIDE DEF n, ev
  <2> QED
    BY <1>15, <2>2, <2>3
<1> QED
  BY <1>14, <1>15, <1>16

LEMMA UtteranceFirst == UtteranceInit => UtteranceInv
<1> SUFFICES ASSUME UtteranceInit PROVE UtteranceInv
  OBVIOUS
<1>1. /\ provider \in Providers /\ turn = 1 /\ Begin
      /\ serial = 0 /\ slot = 0 /\ req = [t \in TurnId |-> "none"] /\ cloud = {}
      /\ mailbox = [t \in TurnId |-> 0] /\ reply = [t \in TurnId |-> None]
  BY DEF UtteranceInit
<1>2. PlaceTypes
  BY <1>1, Constants_ DEF PlaceTypes, Begin
<1>3. HearingTypes
  BY <1>1, Constants_, FreshTypes DEF HearingTypes, Begin
<1>4. StreamTypes /\ ResultTypes
  BY <1>1, FreshTypes, Outcomes DEF StreamTypes, ResultTypes, Begin
<1>5. AivsTypes
  BY <1>1, Constants_, Outcomes DEF AivsTypes
<1>6. Serialised
  BY <1>1, Constants_ DEF Serialised, SlotIsTheRequests
<1>7. Delivered
  BY <1>1, FreshTypes, OnlyTextsAreWhole DEF Delivered, Begin
<1> QED
  BY <1>2, <1>3, <1>4, <1>5, <1>6, <1>7, UtteranceTypesSplit DEF UtteranceInv

\* Every step keeps the types.
LEMMA UtteranceNextTypes ==
  ASSUME UtteranceTypeOK, UtteranceNext
  PROVE  UtteranceTypeOK'
<1>0. PlaceTypes /\ HearingTypes /\ StreamTypes /\ ResultTypes /\ AivsTypes
  BY UtteranceTypesSplit
<1>a. UNCHANGED captureVars => HearingTypes'
  BY <1>0 DEF captureVars, HearingTypes
<1>b. UNCHANGED <<queue, stream>> => StreamTypes'
  BY <1>0 DEF StreamTypes
<1>c. UNCHANGED <<result, outcome>> => ResultTypes'
  BY <1>0 DEF ResultTypes
<1>d. UNCHANGED aivsVars => AivsTypes'
  BY <1>0 DEF aivsVars, AivsTypes
<1>e. UNCHANGED <<provider, turn, at, tries>> => PlaceTypes'
  BY <1>0 DEF PlaceTypes
<1>f. UNCHANGED <<provider, turn, tries>> /\ at' \in {"connect", "listen", "commit", "wait", "ask", "body", "done"} => PlaceTypes'
  BY <1>0 DEF PlaceTypes
<1>g. \A o : Leave(o) => at' = "done"
  BY DEF Leave
<1>1. CASE NextTurn
  <2>1. /\ turn < Turns /\ turn' = turn + 1 /\ at' = "connect" /\ chunks' = 0 /\ vad' = Fresh /\ started' = FALSE
        /\ utterance' = {} /\ rejected' = {} /\ queue' = <<>> /\ stream' = Down /\ result' = None /\ tries' = 0
        /\ outcome' = None /\ UNCHANGED <<provider, aivsVars>>
    BY <1>1 DEF NextTurn
  <2>2. turn' \in TurnId
    BY <1>0, <2>1, Constants_ DEF PlaceTypes, TurnId
  <2>3. PlaceTypes'
    BY <1>0, <2>1, <2>2, Constants_ DEF PlaceTypes
  <2>4. HearingTypes' /\ StreamTypes' /\ ResultTypes'
    BY <2>1, Constants_, FreshTypes, Outcomes DEF HearingTypes, StreamTypes, ResultTypes
  <2> QED
    BY <1>d, <2>1, <2>3, <2>4, UtteranceTypesSplit
<1>2. CASE Connect
  <2>1. UNCHANGED <<provider, turn, captureVars, tries, aivsVars>> /\ at' \in {"listen", "done"}
    BY <1>2, <1>g DEF Connect
  <2>2. StreamTypes' /\ ResultTypes'
    <3>1. CASE stream' = [Down EXCEPT !.up = Streaming] /\ UNCHANGED <<queue, result, outcome>>
      BY <1>0, <1>c, <3>1 DEF StreamTypes, Down, Streams, Streaming
    <3>2. CASE Leave(Failed)
      BY <3>2, LeaveTypes, Outcomes
    <3> QED
      BY <1>2, <3>1, <3>2 DEF Connect
  <2> QED
    BY <1>a, <1>d, <1>f, <2>1, <2>2, UtteranceTypesSplit
<1>3. CASE \E c \in Chunk : Hear(c)
  <2>1. PICK c \in Chunk : Hear(c)
    BY <1>3
  <2>2. PICK then \in {"ask", "commit"} : Heard(c, then)
    BY <2>1 DEF Hear, HearBatch, HearStreaming
  <2>3. at' \in {"ask", "commit", "listen"}
    BY <2>2 DEF Heard
  <2>4. /\ UNCHANGED <<provider, turn, stream, result, tries, aivsVars, outcome>>
        /\ queue' = queue \/ queue' = queue \o Sent(c, Taken(Push(c).events))
    BY <2>1 DEF Hear, HearBatch, HearStreaming, realtimeVars
  <2>5. HearingTypes' /\ Appended(c) \in Commands /\ Clears(Taken(Push(c).events)) \in Seq(Commands)
    BY <2>2, HeardTypes
  <2>6. queue' \in Seq(Commands)
    <3> DEFINE m == Appended(c)
               l == Clears(Taken(Push(c).events))
    <3>1. Sent(c, Taken(Push(c).events)) = <<m>> \o l
      BY DEF Sent
    <3>2. m \in Commands /\ l \in Seq(Commands) /\ queue \in Seq(Commands)
      BY <1>0, <2>5 DEF StreamTypes
    <3> HIDE DEF m, l
    <3>3. <<m>> \o l \in Seq(Commands)
      BY <3>2
    <3>4. queue \o (<<m>> \o l) \in Seq(Commands)
      BY <3>2, <3>3
    <3> QED
      BY <2>4, <3>1, <3>2, <3>4
  <2>7. StreamTypes'
    BY <1>0, <2>4, <2>6 DEF StreamTypes
  <2> QED
    BY <1>c, <1>d, <1>f, <2>3, <2>4, <2>5, <2>7, UtteranceTypesSplit
<1>4. CASE CooldownEnds \/ Lagged
  <2>1. UNCHANGED <<provider, turn, at, started, utterance, rejected, realtimeVars, tries, aivsVars, outcome>>
    BY <1>4 DEF CooldownEnds, Lagged
  <2>2. chunks' \in 0 .. MaxChunks
    BY <1>0, <1>4, Constants_ DEF CooldownEnds, Lagged, HearingTypes
  <2>3. vad' \in Collector(Block)
    BY <1>0, <1>4 DEF CooldownEnds, Lagged, HearingTypes, Collector
  <2>4. HearingTypes'
    BY <1>0, <2>1, <2>2, <2>3 DEF HearingTypes
  <2> QED
    BY <1>b, <1>c, <1>d, <1>e, <2>1, <2>4, UtteranceTypesSplit DEF realtimeVars
<1>5. CASE CaptureFails \/ IdleTimeout \/ Transcript \/ Join
  <2>1. UNCHANGED <<provider, turn, captureVars, tries, aivsVars>>
    BY <1>5 DEF CaptureFails, IdleTimeout, Transcript, Join
  <2>2. \E o \in Outcome : Leave(o)
    BY <1>0, <1>5, Outcomes DEF CaptureFails, IdleTimeout, Transcript, Join, ResultTypes, AivsTypes, PlaceTypes
  <2>3. StreamTypes' /\ ResultTypes' /\ at' = "done"
    BY <1>g, <2>2, LeaveTypes
  <2> QED
    BY <1>a, <1>d, <1>f, <2>1, <2>3, UtteranceTypesSplit
<1>6. CASE Commit
  <2>1. UNCHANGED <<provider, turn, captureVars, tries, aivsVars>>
    BY <1>6 DEF Commit
  <2>2. CASE CommitWaits
    <3>1. [kind |-> "commit", blocks |-> {}] \in Commands
      BY DEF Commands
    <3>2. queue' \in Seq(Commands) /\ UNCHANGED <<stream, result, outcome>> /\ at' = "wait"
      BY <1>0, <2>2, <3>1 DEF CommitWaits, StreamTypes
    <3>3. StreamTypes'
      BY <1>0, <3>2 DEF StreamTypes
    <3> QED
      BY <1>a, <1>c, <1>d, <1>f, <2>1, <3>2, <3>3, UtteranceTypesSplit
  <2>3. CASE Leave(Failed)
    <3>1. StreamTypes' /\ ResultTypes' /\ at' = "done"
      BY <1>g, <2>3, LeaveTypes, Outcomes
    <3> QED
      BY <1>a, <1>d, <1>f, <2>1, <3>1, UtteranceTypesSplit
  <2> QED
    BY <1>6, <2>2, <2>3 DEF Commit
<1>7. CASE StreamSent
  <2>1. UNCHANGED <<provider, turn, at, captureVars, tries, aivsVars, outcome>> /\ queue # <<>> /\ queue' = Tail(queue)
    BY <1>7 DEF StreamSent
  <2>2. queue' \in Seq(Commands) /\ Head(queue) \in Commands
    BY <1>0, <2>1 DEF StreamTypes
  <2>3. stream' \in Streams /\ result' \in Outcome
    <3> DEFINE sent == [stream EXCEPT !.sending = FALSE]
    <3>1. \/ stream' = [sent EXCEPT !.buffer = @ \cup Head(queue).blocks] /\ UNCHANGED result
          \/ stream' = [sent EXCEPT !.buffer = {}] /\ UNCHANGED result
          \/ stream' = [sent EXCEPT !.committed = TRUE] /\ UNCHANGED result
          \/ StreamEnds(Failed)
      BY <1>7 DEF StreamSent
    <3>2. Head(queue).blocks \in SUBSET Block
      BY <2>2 DEF Commands
    <3>3. sent \in Streams /\ stream \in Streams /\ result \in Outcome
      BY <1>0 DEF StreamTypes, Streams, ResultTypes
    <3>4. StreamEnds(Failed) => stream' \in Streams /\ result' \in Outcome
      BY <3>3, Outcomes DEF Streams, StreamEnds
    <3> HIDE DEF sent
    <3> QED
      BY <3>1, <3>2, <3>3, <3>4 DEF Streams
  <2>4. StreamTypes' /\ ResultTypes'
    BY <1>0, <2>1, <2>2, <2>3 DEF StreamTypes, ResultTypes
  <2> QED
    BY <1>a, <1>d, <1>e, <2>1, <2>4, UtteranceTypesSplit
<1>12. CASE StreamTakes
  <2>1. UNCHANGED <<provider, turn, at, captureVars, queue, result, tries, aivsVars, outcome>>
    BY <1>12 DEF StreamTakes
  <2>2. stream' \in Streams
    BY <1>0, <1>12 DEF StreamTakes, StreamTypes, Streams
  <2>3. StreamTypes'
    BY <1>0, <2>1, <2>2 DEF StreamTypes
  <2> QED
    BY <1>a, <1>c, <1>d, <1>e, <2>1, <2>3, UtteranceTypesSplit
<1>8. CASE StreamMessage
  <2>1. UNCHANGED <<provider, turn, at, captureVars, queue, tries, aivsVars, outcome>>
    BY <1>8 DEF StreamMessage
  <2>2. stream.buffer \in SUBSET Block /\ stream.delta \in SUBSET Block /\ turn \in TurnId
    BY <1>0 DEF StreamTypes, Streams, PlaceTypes
  <2>3. stream' \in Streams /\ result' \in Outcome
    <3>1. \/ \E b \in stream.buffer : stream' = [stream EXCEPT !.delta = {x \in stream.buffer : x <= b}] /\ UNCHANGED result
          \/ \E r \in {Text(turn, stream.buffer, TRUE), Failed, Text(turn, stream.delta, FALSE)} : StreamEnds(r)
      BY <1>8 DEF StreamMessage
    <3>2. {Text(turn, stream.buffer, TRUE), Failed, Text(turn, stream.delta, FALSE)} \subseteq Outcome
      BY <2>2, Outcomes
    <3>3. CASE \E b \in stream.buffer : stream' = [stream EXCEPT !.delta = {x \in stream.buffer : x <= b}] /\ UNCHANGED result
      BY <1>0, <3>3 DEF StreamTypes, Streams, ResultTypes
    <3>4. CASE \E r \in Outcome : StreamEnds(r)
      BY <1>0, <3>4 DEF StreamTypes, Streams, ResultTypes, StreamEnds
    <3> QED
      BY <3>1, <3>2, <3>3, <3>4
  <2>4. StreamTypes' /\ ResultTypes'
    BY <1>0, <2>1, <2>3 DEF StreamTypes, ResultTypes
  <2> QED
    BY <1>a, <1>d, <1>e, <2>1, <2>4, UtteranceTypesSplit
<1>9. CASE AskOpenAi \/ BodyRead
  <2>1. UNCHANGED <<provider, turn, captureVars, aivsVars>>
    BY <1>9 DEF AskOpenAi, BodyRead
  <2>2. tries' \in 0 .. Attempts
    <3>1. tries' = tries \/ (tries < Attempts /\ tries' = tries + 1)
      BY <1>9 DEF AskOpenAi, BodyRead
    <3>2. tries \in 0 .. Attempts
      BY <1>0 DEF PlaceTypes
    <3> QED
      BY <3>1, <3>2, Constants_
  <2>3. Text(turn, utterance, TRUE) \in Outcome
    BY <1>0, Outcomes DEF PlaceTypes, HearingTypes
  <2>4. \/ at' \in {at, "ask", "body"} /\ UNCHANGED <<realtimeVars, outcome>>
        \/ \E o \in Outcome : Leave(o)
    BY <1>9, <2>3, Outcomes DEF AskOpenAi, BodyRead
  <2>5. StreamTypes' /\ ResultTypes' /\ at' \in {at, "ask", "body", "done"}
    BY <1>b, <1>c, <1>g, <2>4, LeaveTypes DEF realtimeVars
  <2>6. PlaceTypes'
    BY <1>0, <2>1, <2>2, <2>5 DEF PlaceTypes
  <2> QED
    BY <1>a, <1>d, <2>1, <2>5, <2>6, UtteranceTypesSplit
<1>10. CASE AskAivs
  <2>1. /\ UNCHANGED <<provider, turn, captureVars, realtimeVars, tries, serial, slot, cloud, mailbox, reply, outcome>>
        /\ at' = "wait" /\ req' = [req EXCEPT ![turn] = "queued"]
    BY <1>10 DEF AskAivs
  <2>2. AivsTypes'
    BY <1>0, <2>1 DEF AivsTypes
  <2> QED
    BY <1>a, <1>b, <1>c, <1>f, <2>1, <2>2, UtteranceTypesSplit DEF realtimeVars
<1>11. CASE \E t \in TurnId : Aivs(t) \/ CloudAnswers(t)
  <2>1. PICK t \in TurnId : Aivs(t) \/ CloudAnswers(t)
    BY <1>11
  <2>2. UNCHANGED <<provider, turn, at, captureVars, realtimeVars, tries, outcome>>
    BY <2>1 DEF Aivs, AivsEnters, AivsPosts, AivsReceives, CloudAnswers
  <2>a. ASSUME NEW o \in Outcome, AivsReturns(t, o)
        PROVE  /\ reply' \in [TurnId -> Outcome] /\ {serial', slot'} \subseteq 0 .. Turns
               /\ req' \in [TurnId -> {"none", "queued", "post", "recv", "done"}]
    BY <1>0, <2>a, Constants_ DEF AivsReturns, AivsTypes
  <2>3. AivsTypes'
    <3>1. CASE AivsEnters(t)
      <4>1. UNCHANGED <<cloud, mailbox>>
        BY <3>1 DEF AivsEnters
      <4>2. CASE AivsReturns(t, Failed)
        BY <1>0, <2>a, <4>1, <4>2, Outcomes DEF AivsTypes
      <4>3. CASE slot' = t /\ req' = [req EXCEPT ![t] = "post"] /\ UNCHANGED reply /\ serial' = t
        BY <1>0, <4>1, <4>3, Constants_ DEF AivsTypes
      <4> QED
        BY <3>1, <4>2, <4>3 DEF AivsEnters, AivsBegins
    <3>2. CASE AivsPosts(t)
      <4>1. cloud' \subseteq TurnId /\ UNCHANGED mailbox
        BY <1>0, <3>2 DEF AivsPosts, AivsTypes
      <4>2. CASE AivsReturns(t, Failed)
        BY <1>0, <2>a, <4>1, <4>2, Outcomes DEF AivsTypes
      <4>3. CASE req' = [req EXCEPT ![t] = "recv"] /\ UNCHANGED <<reply, slot, serial>>
        BY <1>0, <4>1, <4>3 DEF AivsTypes
      <4> QED
        BY <3>2, <4>2, <4>3 DEF AivsPosts
    <3>3. CASE AivsReceives(t)
      <4>1. UNCHANGED <<cloud, mailbox>>
        BY <3>3 DEF AivsReceives
      <4>2. (IF mailbox[t] = 0 THEN Failed ELSE Text(mailbox[t], {}, TRUE)) \in Outcome
        <5>1. mailbox[t] = 0 \/ mailbox[t] \in TurnId
          BY <1>0, Constants_ DEF AivsTypes
        <5> QED
          BY <5>1, Outcomes
      <4> QED
        BY <1>0, <2>a, <3>3, <4>1, <4>2 DEF AivsReceives, AivsTypes
    <3>4. CASE CloudAnswers(t)
      <4>1. cloud' \subseteq TurnId /\ UNCHANGED <<serial, slot, req, reply>>
        BY <1>0, <3>4 DEF CloudAnswers, AivsTypes
      <4>2. mailbox' \in [TurnId -> 0 .. Turns]
        BY <1>0, <3>4, Constants_ DEF CloudAnswers, AivsTypes
      <4> QED
        BY <1>0, <4>1, <4>2 DEF AivsTypes
    <3> QED
      BY <2>1, <3>1, <3>2, <3>3, <3>4 DEF Aivs
  <2> QED
    BY <1>a, <1>b, <1>c, <1>e, <2>2, <2>3, UtteranceTypesSplit DEF realtimeVars
<1> QED
  BY <1>1, <1>2, <1>3, <1>4, <1>5, <1>6, <1>7, <1>8, <1>9, <1>10, <1>11, <1>12 DEF UtteranceNext, Ask

\* A step that leaves the lock, the slot and the requests alone, and asks for nothing.
LEMMA SerialStays ==
  ASSUME UtteranceTypeOK, Serialised, UNCHANGED <<serial, slot, req>>,
         (turn' = turn /\ (at' \in {"wait", "done"} \/ at \notin {"wait", "done"})) \/ turn' = turn + 1
  PROVE  Serialised'
<1>1. \A t \in TurnId : t \in Nat
  BY Constants_
<1>2. turn \in Nat
  BY <1>1, UtteranceTypesSplit DEF PlaceTypes
<1>3. \A t \in TurnId : t > turn' \/ (t = turn' /\ at' \notin {"wait", "done"}) =>
        t > turn \/ (t = turn /\ at \notin {"wait", "done"})
  BY <1>1, <1>2
<1> QED
  BY <1>3 DEF Serialised, SlotIsTheRequests

\* The lock is free when a request enters, and free again when one is over.
LEMMA UtteranceNextSerial ==
  ASSUME UtteranceTypeOK, Serialised, UtteranceNext
  PROVE  Serialised'
<1>0. AivsTypes /\ PlaceTypes
  BY UtteranceTypesSplit
<1>1. CASE \/ NextTurn \/ Connect \/ (\E c \in Chunk : Hear(c)) \/ CooldownEnds \/ Lagged \/ CaptureFails
           \/ IdleTimeout \/ Commit \/ Transcript \/ StreamTakes \/ StreamSent \/ StreamMessage \/ AskOpenAi \/ BodyRead
           \/ Join
  <2>1. UNCHANGED <<serial, slot, req>>
    BY <1>1 DEF NextTurn, Connect, Hear, HearBatch, HearStreaming, CooldownEnds, Lagged, CaptureFails,
                IdleTimeout, Commit, Transcript, StreamTakes, StreamSent, StreamMessage, AskOpenAi, BodyRead, Join,
                aivsVars
  <2>2. (turn' = turn /\ (at' \in {"wait", "done"} \/ at \notin {"wait", "done"})) \/ turn' = turn + 1
    <3>1. CASE NextTurn
      BY <3>1 DEF NextTurn
    <3>2. CASE Connect \/ (\E c \in Chunk : Hear(c)) \/ CooldownEnds \/ Lagged \/ CaptureFails \/ IdleTimeout
      BY <3>2 DEF Connect, Hear, HearBatch, HearStreaming, Heard, CooldownEnds, Lagged, CaptureFails, IdleTimeout
    <3>3. CASE Commit \/ Transcript \/ StreamTakes \/ StreamSent \/ StreamMessage \/ AskOpenAi \/ BodyRead \/ Join
      BY <3>3 DEF Commit, CommitWaits, Transcript, Leave, StreamTakes, StreamSent, StreamMessage, AskOpenAi, BodyRead, Join
    <3> QED
      BY <1>1, <3>1, <3>2, <3>3
  <2> QED
    BY <2>1, <2>2, SerialStays
<1>2. CASE AskAivs
  <2>1. /\ at = "ask" /\ at' = "wait" /\ UNCHANGED <<turn, serial, slot>>
        /\ req' = [req EXCEPT ![turn] = "queued"]
    BY <1>2 DEF AskAivs
  <2>2. turn \in TurnId /\ req[turn] = "none"
    BY <1>0, <2>1 DEF Serialised, PlaceTypes
  <2>3. \A t \in TurnId : req'[t] = IF t = turn THEN "queued" ELSE req[t]
    BY <1>0, <2>1 DEF AivsTypes
  <2>4. serial # 0 => serial # turn /\ serial \in TurnId
    <3>1. serial # 0 => serial \in TurnId
      BY <1>0, Constants_ DEF AivsTypes
    <3> QED
      BY <2>2, <3>1 DEF Serialised
  <2>5. \A t \in TurnId : t > turn => t # turn
    BY Constants_
  <2> QED
    BY <2>1, <2>2, <2>3, <2>4, <2>5 DEF Serialised, SlotIsTheRequests
<1>3. CASE \E d \in TurnId : CloudAnswers(d)
  <2>1. UNCHANGED <<serial, slot, req, turn, at>>
    BY <1>3 DEF CloudAnswers
  <2> QED
    BY <2>1, SerialStays
<1>4. CASE \E t \in TurnId : Aivs(t)
  <2>1. PICK t \in TurnId : Aivs(t)
    BY <1>4
  <2>2. turn' = turn /\ at' = at /\ req[t] \in {"queued", "post", "recv"}
    BY <2>1 DEF Aivs, AivsEnters, AivsPosts, AivsReceives
  <2>3. \A u \in TurnId : u > turn \/ (u = turn /\ at \notin {"wait", "done"}) => u # t
    BY <2>2 DEF Serialised
  <2>4. \A u \in TurnId \ {t} : req[u] \notin {"post", "recv"}
    <3>1. serial = 0 \/ serial = t
      BY <2>1 DEF Aivs, AivsEnters, AivsPosts, AivsReceives, Serialised, SlotIsTheRequests
    <3> QED
      BY <3>1, Constants_ DEF Serialised, SlotIsTheRequests
  <2>5. \/ serial' = 0 /\ req' = [req EXCEPT ![t] = "done"]
        \/ \E r \in {"post", "recv"} : req' = [req EXCEPT ![t] = r] /\ slot' = t /\ serial' = t
    <3>1. CASE AivsEnters(t)
      BY <3>1 DEF AivsEnters, AivsBegins, AivsReturns
    <3>2. CASE AivsPosts(t)
      BY <3>2 DEF AivsPosts, AivsReturns, Serialised, SlotIsTheRequests
    <3>3. CASE AivsReceives(t)
      BY <3>3 DEF AivsReceives, AivsReturns
    <3> QED
      BY <2>1, <3>1, <3>2, <3>3 DEF Aivs
  <2>6. \A u \in TurnId \ {t} : req'[u] = req[u]
    BY <1>0, <2>5 DEF AivsTypes
  <2>7. \/ req'[t] = "done" /\ serial' = 0
        \/ req'[t] \in {"post", "recv"} /\ slot' = t /\ serial' = t
    <3>1. \A r : req' = [req EXCEPT ![t] = r] => req'[t] = r
      BY <1>0 DEF AivsTypes
    <3> QED
      BY <2>5, <3>1
  <2>8. SlotIsTheRequests'
    BY <2>4, <2>6, <2>7 DEF SlotIsTheRequests
  <2>9. serial' # 0 => req'[serial'] \in {"post", "recv"}
    BY <2>7
  <2> QED
    BY <2>2, <2>3, <2>6, <2>8, <2>9 DEF Serialised
<1> QED
  BY <1>1, <1>2, <1>3, <1>4 DEF UtteranceNext, Ask

--------------------------------------------------------------------------------
(***************************************************************************)
(* What the provider's task is sent adds up to what the collector holds.   *)
(***************************************************************************)

\* A chunk and, behind it, the Clear of a speech it turned down.
LEMMA HeardDelivers ==
  ASSUME UtteranceTypeOK, OneAtATime, Delivered, NEW c \in Chunk, Hear(c)
  PROVE  Delivered'
<1>0. /\ HearingTypes /\ StreamTypes /\ ResultTypes /\ vad \in Collector(Block) /\ queue \in Seq(Commands)
      /\ UtteranceTypeOK'
  BY UtteranceTypesSplit, UtteranceNextTypes DEF HearingTypes, StreamTypes, UtteranceNext
<1> DEFINE heard == Held(vad) \cup Ids(c)
           p == Push(c)
           ev == p.events
           old == chunks * ChunkBlocks
           new == (chunks + 1) * ChunkBlocks
<1>1. Pushed(p, heard)
  BY <1>0, PushPushes
<1>2. Taken(ev) = ev /\ p.vad \in Collector(heard) /\ ev \in Seq(SpeechEvent(heard))
  BY <1>1, PushTaken DEF Pushed
<1>3. PICK then \in {"ask", "commit"} : Heard(c, then) /\ (then = "ask" <=> ~Streaming)
  BY DEF Hear, HearBatch, HearStreaming
<1>a. at = "listen" /\ chunks < MaxChunks /\ chunks' = chunks + 1 /\ vad' = p.vad
  BY <1>3 DEF Heard
<1>b. rejected' = rejected \cup UNION {e.blocks : e \in {x \in Range(ev) : x.kind = "rejected"}}
  BY <1>2, <1>3 DEF Heard
<1>c. \/ at' = "listen" /\ utterance' = utterance
      \/ at' = then /\ ev # <<>> /\ Last(ev).kind = "utterance" /\ utterance' = Last(ev).blocks
  BY <1>2, <1>3 DEF Heard
<1>d. /\ UNCHANGED <<provider, turn, stream, result, outcome>>
      /\ \/ ~Streaming /\ queue' = queue
         \/ Streaming /\ queue' = queue \o (<<Appended(c)>> \o Clears(ev))
  BY <1>2 DEF Hear, HearBatch, HearStreaming, realtimeVars, Sent
<1>e. utterance = {} /\ result.whole = FALSE
  <2>1. result.whole \in BOOLEAN
    BY <1>0, OnlyTextsAreWhole DEF ResultTypes
  <2> QED
    BY <1>a, <2>1 DEF Delivered
<1>f. \A e \in Range(ev) : e.blocks \subseteq heard
  <2> DEFINE E == SpeechEvent(heard)
  <2>1. ev \in Seq(E) /\ \A e \in E : e.blocks \subseteq heard
    BY <1>2 DEF SpeechEvent
  <2> HIDE DEF ev, E
  <2> QED
    BY <2>1 DEF Range
<1>g. ev # <<>> => Last(ev) \in Range(ev)
  <2> DEFINE E == SpeechEvent(heard)
  <2>1. ev \in Seq(E)
    BY <1>2
  <2> HIDE DEF ev, E
  <2> QED
    BY <2>1 DEF Last, Range
<1>h. /\ \A b \in Ids(c) : b > old /\ b <= new
      /\ old \in Nat /\ new \in Nat /\ old <= new /\ Ids(c) \subseteq Block
  BY <1>0, <1>a, IdsAreNew DEF HearingTypes
<1>i. Held(p.vad) \subseteq heard
  <2> HIDE DEF heard, p
  <2> QED
    BY <1>2 DEF Held, Collector
<1>j. /\ \A b \in Held(vad) \cup rejected : b <= old
      /\ Held(vad) \subseteq Nat /\ rejected \subseteq Nat /\ Ids(c) \subseteq Nat
  <2>1. Block \subseteq Nat
    BY DEF Block
  <2>2. rejected \subseteq Block /\ Held(vad) \subseteq Block
    BY <1>0 DEF HearingTypes, Held, Collector
  <2> QED
    BY <1>h, <2>1, <2>2 DEF Delivered
<1> HIDE DEF p, ev, old, new
<1>4. utterance' \subseteq heard /\ Held(vad') \subseteq heard
  BY <1>a, <1>c, <1>e, <1>f, <1>g, <1>i
<1>5. \A b \in heard : b \in Nat /\ b <= new
  BY <1>h, <1>j
<1>6. \A b \in Held(vad') \cup utterance' \cup rejected' : b <= chunks' * ChunkBlocks
  <2>1. \A b \in rejected' : b \in rejected \/ b \in heard
    BY <1>b, <1>f
  <2>2. \A b \in Held(vad') \cup utterance' \cup rejected' : b <= new
    <3>1. \A b \in rejected : b <= new
      BY <1>h, <1>j
    <3> QED
      BY <1>4, <1>5, <2>1, <3>1
  <2> QED
    BY <1>a, <2>2 DEF new
<1> HIDE DEF heard
<1>7. at' \in {"listen", "ask", "commit"} /\ (at' = "ask" => ~Streaming')
  BY <1>3, <1>c, <1>d DEF Streaming
<1>8. at' = "listen" => utterance' = {}
  BY <1>3, <1>c, <1>e
<1>9. ASSUME stream'.up
      PROVE  /\ Streaming' /\ at' \in {"listen", "commit", "wait"}
             /\ \A b \in (IF at' = "listen" THEN Held(vad') ELSE utterance') : Arrives(queue', stream'.buffer, b)
             /\ \A b \in rejected' : ~Arrives(queue', stream'.buffer, b)
             /\ \A i \in 1 .. Len(queue') : queue'[i].kind = "commit" => i = Len(queue') /\ at' = "wait"
             /\ stream'.committed => queue' = <<>> /\ at' = "wait"
  <2>1. stream' = stream /\ stream.up /\ Streaming /\ Streaming'
    BY <1>9, <1>d DEF Delivered, Streaming
  <2>2. /\ \A b \in Held(vad) : Arrives(queue, stream.buffer, b)
        /\ \A b \in rejected : ~Arrives(queue, stream.buffer, b)
        /\ \A i \in 1 .. Len(queue) : queue[i].kind # "commit"
        /\ ~stream.committed
    BY <1>a, <2>1 DEF Delivered
  <2> DEFINE m == Appended(c)
             buf == stream.buffer
             q1 == Append(queue, m)
             q2 == Append(q1, Clear)
  <2>3. m \in Commands /\ m.kind = "append" /\ m.blocks = Ids(c) /\ Clear \in Commands /\ Clear.kind = "clear"
    BY <1>h DEF Appended, Ids, Clear, Commands
  <2> HIDE DEF m
  <2>4. q1 \in Seq(Commands) /\ q2 \in Seq(Commands)
    BY <1>0, <2>3
  <2>5. \A b : Arrives(q1, buf, b) <=> Arrives(queue, buf, b) \/ b \in Ids(c)
    BY <1>0, <2>3, ArrivesAppended
  <2> HIDE DEF buf
  <2>6. \A b : ~Arrives(q2, buf, b)
    <3>1. ASSUME NEW b PROVE ~Arrives(q2, buf, b)
      <4> HIDE DEF q1
      <4>1. Arrives(Append(q1, Clear), buf, b) => Clear.kind # "clear"
        BY <2>3, <2>4, ArrivesAppended
      <4> QED
        BY <2>3, <4>1
    <3> QED
      BY <3>1
  <2>7. /\ \A i \in 1 .. Len(q1) : q1[i].kind # "commit"
        /\ \A i \in 1 .. Len(q2) : q2[i].kind # "commit"
    <3>1. \A i \in 1 .. Len(q1) : q1[i].kind # "commit"
      <4>1. \A i \in 1 .. Len(q1) : q1[i] = IF i = Len(queue) + 1 THEN m ELSE queue[i]
        BY <1>0, <2>3
      <4>2. \A i \in 1 .. Len(q1) : i # Len(queue) + 1 => i \in 1 .. Len(queue)
        BY <1>0, <2>3
      <4> QED
        BY <2>2, <2>3, <4>1, <4>2
    <3> HIDE DEF q1
    <3>2. \A i \in 1 .. Len(q2) : q2[i] = IF i = Len(q1) + 1 THEN Clear ELSE q1[i]
      BY <2>3, <2>4
    <3>3. \A i \in 1 .. Len(q2) : i # Len(q1) + 1 => i \in 1 .. Len(q1)
      BY <2>3, <2>4
    <3> QED
      BY <2>3, <3>1, <3>2, <3>3
  <2>8. CASE Clears(ev) = <<>> /\ {e \in Range(ev) : e.kind = "rejected"} = {}
    <3>1. queue' = q1
      BY <1>0, <1>d, <2>1, <2>3, <2>8 DEF m
    <3>2. rejected' = rejected
      BY <1>b, <2>8
    <3>3. \A b \in heard : Arrives(q1, buf, b)
      BY <2>2, <2>5 DEF heard, buf
    <3>4. \A b \in rejected : ~Arrives(q1, buf, b)
      <4>1. \A b \in rejected : b \notin Ids(c)
        BY <1>h, <1>j
      <4> QED
        BY <2>2, <2>5, <4>1 DEF buf
    <3> QED
      BY <1>3, <1>4, <1>c, <2>1, <2>2, <2>7, <3>1, <3>2, <3>3, <3>4 DEF buf
  <2>9. CASE Clears(ev) = <<Clear>> /\ Held(p.vad) = {} /\ ev # <<>> /\ Last(ev).kind = "rejected"
    <3>1. queue' = q2
      <4>1. queue' = queue \o (<<m>> \o <<Clear>>)
        BY <1>d, <2>1, <2>9 DEF m
      <4>2. \A C : \A q \in Seq(C), x \in C, y \in C : q \o (<<x>> \o <<y>>) = Append(Append(q, x), y)
        <5> SUFFICES ASSUME NEW C, NEW q \in Seq(C), NEW x \in C, NEW y \in C
                     PROVE  q \o (<<x>> \o <<y>>) = Append(Append(q, x), y)
          OBVIOUS
        <5>1. <<x>> \in Seq(C) /\ <<y>> \in Seq(C)
          OBVIOUS
        <5>2. q \o (<<x>> \o <<y>>) = (q \o <<x>>) \o <<y>>
          BY <5>1
        <5>3. q \o <<x>> = Append(q, x) /\ Append(q, x) \in Seq(C)
          OBVIOUS
        <5>4. Append(q, x) \o <<y>> = Append(Append(q, x), y)
          BY <5>3
        <5> QED
          BY <5>2, <5>3, <5>4
      <4> QED
        BY <1>0, <2>3, <4>1, <4>2
    <3>2. at' = "listen" /\ Held(vad') = {}
      BY <1>a, <1>c, <2>9
    <3> QED
      BY <2>1, <2>2, <2>6, <2>7, <3>1, <3>2 DEF buf
  <2> QED
    BY <1>1, <2>8, <2>9, PushTaken DEF ev
<1>10. ~result'.whole
  BY <1>d, <1>e
<1> QED
  BY <1>6, <1>7, <1>8, <1>9, <1>10 DEF Delivered

\* A turn that has left its session is bound by what its command came out as.
LEMMA LeaveDelivers ==
  ASSUME UtteranceTypeOK, Delivered, NEW o, Leave(o), Streaming => Complete(o),
         UNCHANGED <<provider, turn, captureVars>>
  PROVE  Delivered'
<1>1. /\ at' = "done" /\ outcome' = o /\ queue' = <<>> /\ stream' = Down /\ result' = None
      /\ UNCHANGED <<provider, turn, chunks, vad, utterance, rejected>>
  BY DEF Leave, captureVars
<1>2. Streaming' => Complete(outcome)'
  BY <1>1 DEF Streaming, Complete
<1> QED
  BY <1>1, <1>2, FreshTypes, OnlyTextsAreWhole DEF Delivered

\* The task of the stream takes a command: it counts as queued until it is sent.
LEMMA TakesDelivers ==
  ASSUME UtteranceTypeOK, Delivered, StreamTakes
  PROVE  Delivered'
<1>1. stream \in Streams
  BY UtteranceTypesSplit DEF StreamTypes
<1>2. stream'.up = stream.up /\ stream'.buffer = stream.buffer /\ stream'.committed = stream.committed
  BY <1>1 DEF StreamTakes, Streams
<1>3. UNCHANGED <<provider, turn, at, chunks, vad, utterance, rejected, queue, result, outcome>>
  BY DEF StreamTakes, captureVars
<1>4. stream.up
  BY DEF StreamTakes
<1> DEFINE heard == IF at = "listen" THEN Held(vad) ELSE utterance
<1>5. /\ Streaming /\ at \in {"listen", "commit", "wait"}
      /\ \A b \in heard : Arrives(queue, stream.buffer, b)
      /\ \A b \in rejected : ~Arrives(queue, stream.buffer, b)
      /\ \A i \in 1 .. Len(queue) : queue[i].kind = "commit" => i = Len(queue) /\ at = "wait"
      /\ stream.committed => queue = <<>> /\ at = "wait"
  BY <1>4 DEF Delivered
<1>6. result'.whole => at' = "wait" /\ Complete(result)'
  BY <1>3 DEF Delivered, Complete
<1> QED
  BY <1>2, <1>3, <1>5, <1>6 DEF Delivered, Streaming

\* The websocket has taken a command.
LEMMA CommandDelivers ==
  ASSUME UtteranceTypeOK, Delivered, StreamSent
  PROVE  Delivered'
<1>0. queue \in Seq(Commands) /\ stream \in Streams /\ result \in Outcome
  BY UtteranceTypesSplit DEF StreamTypes, ResultTypes
<1>1. /\ stream.up /\ queue # <<>> /\ queue' = Tail(queue)
      /\ UNCHANGED <<provider, turn, at, captureVars, tries, aivsVars, outcome>>
  BY DEF StreamSent
<1>2. UNCHANGED <<provider, turn, at, chunks, vad, utterance, rejected, outcome>>
  BY <1>1 DEF captureVars
<1> DEFINE m == Head(queue)
           heard == IF at = "listen" THEN Held(vad) ELSE utterance
<1>3. /\ Streaming /\ at \in {"listen", "commit", "wait"}
      /\ \A b \in heard : Arrives(queue, stream.buffer, b)
      /\ \A b \in rejected : ~Arrives(queue, stream.buffer, b)
      /\ \A i \in 1 .. Len(queue) : queue[i].kind = "commit" => i = Len(queue) /\ at = "wait"
      /\ ~stream.committed
  BY <1>1 DEF Delivered
<1>4. /\ m = queue[1] /\ Len(queue) \in Nat /\ Len(queue) # 0 /\ Len(queue') = Len(queue) - 1
      /\ \A i \in 1 .. Len(queue') : queue'[i] = queue[i + 1] /\ i + 1 \in 1 .. Len(queue)
      /\ 1 \in 1 .. Len(queue) /\ m \in Commands /\ queue' \in Seq(Commands)
  BY <1>0, <1>1
<1>5. \A i \in 1 .. Len(queue') : queue'[i].kind = "commit" => i = Len(queue') /\ at = "wait"
  BY <1>3, <1>4
<1>6. CASE stream'.up
  <2>1. stream'.buffer = After_(m, stream.buffer) /\ result' = result
    <3> DEFINE sent == [stream EXCEPT !.sending = FALSE]
    <3>0. sent \in Streams /\ sent.buffer = stream.buffer /\ sent.committed = stream.committed
      BY <1>0 DEF Streams
    <3>1. ~StreamEnds(Failed)
      BY <1>0, <1>6 DEF StreamEnds, Streams
    <3>2. \/ m.kind = "append" /\ stream' = [sent EXCEPT !.buffer = @ \cup m.blocks] /\ UNCHANGED result
          \/ m.kind = "clear" /\ stream' = [sent EXCEPT !.buffer = {}] /\ UNCHANGED result
          \/ m.kind = "commit" /\ stream' = [sent EXCEPT !.committed = TRUE] /\ UNCHANGED result
      BY <3>1 DEF StreamSent
    <3> HIDE DEF sent, m
    <3> QED
      BY <3>0, <3>2 DEF After_, Streams
  <2>2. stream'.committed => queue' = <<>> /\ at = "wait"
    <3>1. stream'.committed => m.kind = "commit"
      <4>1. ~StreamEnds(Failed)
        BY <1>0, <1>6 DEF StreamEnds, Streams
      <4>2. [stream EXCEPT !.sending = FALSE].committed = stream.committed
        BY <1>0 DEF Streams
      <4>3. [stream EXCEPT !.sending = FALSE] \in Streams
        BY <1>0 DEF Streams
      <4> QED
        BY <1>3, <4>1, <4>2, <4>3 DEF StreamSent, Streams
    <3>2. m.kind = "commit" => Len(queue) = 1 /\ at = "wait"
      BY <1>3, <1>4
    <3>3. Len(queue') = 0 => queue' = <<>>
      BY <1>4
    <3> QED
      BY <1>4, <3>1, <3>2, <3>3
  <2>3. \A b : Arrives(queue', stream'.buffer, b) <=> Arrives(queue, stream.buffer, b)
    BY <1>0, <1>1, <2>1, ArrivesTaken
  <2>4. /\ \A b \in heard' : Arrives(queue', stream'.buffer, b)
        /\ \A b \in rejected' : ~Arrives(queue', stream'.buffer, b)
    BY <1>2, <1>3, <2>3
  <2>5. result'.whole => at' = "wait" /\ Complete(result)'
    BY <1>2, <2>1 DEF Delivered, Complete
  <2>6. at' = "done" /\ Streaming' => Complete(outcome)'
    BY <1>2, <1>3
  <2> HIDE DEF m
  <2> QED
    BY <1>2, <1>3, <1>5, <2>2, <2>4, <2>5, <2>6 DEF Delivered, Streaming
<1>7. CASE ~stream'.up
  <2>1. result' = result \/ result' = Failed
    BY DEF StreamSent, StreamEnds
  <2>2. result'.whole => at' = "wait" /\ Complete(result)'
    BY <1>2, <2>1, OnlyTextsAreWhole DEF Delivered, Complete
  <2> QED
    BY <1>2, <1>3, <1>7, <2>2 DEF Delivered, Streaming
<1> QED
  BY <1>6, <1>7

\* The provider answers: the whole buffer, when it has taken the commit and with it the whole queue.
LEMMA MessageDelivers ==
  ASSUME UtteranceTypeOK, Delivered, StreamMessage
  PROVE  Delivered'
<1>0. queue \in Seq(Commands) /\ stream \in Streams /\ result \in Outcome
  BY UtteranceTypesSplit DEF StreamTypes, ResultTypes
<1>1. stream.up /\ UNCHANGED <<provider, turn, at, captureVars, queue, tries, aivsVars, outcome>>
  BY DEF StreamMessage
<1>2. UNCHANGED <<provider, turn, at, chunks, vad, utterance, rejected, queue, outcome>>
  BY <1>1 DEF captureVars
<1> DEFINE heard == IF at = "listen" THEN Held(vad) ELSE utterance
<1>3. /\ Streaming /\ at \in {"listen", "commit", "wait"}
      /\ \A b \in heard : Arrives(queue, stream.buffer, b)
      /\ \A b \in rejected : ~Arrives(queue, stream.buffer, b)
      /\ \A i \in 1 .. Len(queue) : queue[i].kind = "commit" => i = Len(queue) /\ at = "wait"
      /\ stream.committed => queue = <<>> /\ at = "wait"
  BY <1>1 DEF Delivered
<1>4. CASE \E b : stream' = [stream EXCEPT !.delta = {x \in stream.buffer : x <= b}] /\ UNCHANGED result
  <2>1. stream'.up /\ stream'.buffer = stream.buffer /\ stream'.committed = stream.committed
    BY <1>0, <1>1, <1>4 DEF Streams
  <2>2. result' = result
    BY <1>4
  <2>3. result'.whole => at' = "wait" /\ Complete(result)'
    BY <1>2, <2>2 DEF Delivered, Complete
  <2> QED
    BY <1>2, <1>3, <2>1, <2>3 DEF Delivered, Streaming
<1>5. CASE \E r : StreamEnds(r) /\ (r.whole => stream.committed /\ r = Text(turn, stream.buffer, TRUE))
  <2>1. PICK r : StreamEnds(r) /\ (r.whole => stream.committed /\ r = Text(turn, stream.buffer, TRUE))
    BY <1>5
  <2>2. ~stream'.up
    BY <1>0, <2>1 DEF StreamEnds, Streams
  <2>3. r.whole => at = "wait" /\ Complete(r)
    <3>1. SUFFICES ASSUME r.whole PROVE at = "wait" /\ Complete(r)
      OBVIOUS
    <3>2. queue = <<>> /\ at = "wait" /\ r = Text(turn, stream.buffer, TRUE)
      BY <1>3, <2>1, <3>1
    <3>3. \A b : Arrives(queue, stream.buffer, b) <=> b \in stream.buffer
      BY <3>2, ArrivesEmpty
    <3>4. utterance \subseteq stream.buffer /\ stream.buffer \cap rejected = {}
      BY <1>3, <3>2, <3>3
    <3>5. r.from = turn /\ r.blocks = stream.buffer
      BY <3>2 DEF Text
    <3> QED
      BY <3>2, <3>4, <3>5 DEF Complete
  <2>4. result' = result \/ result' = r
    BY <2>1 DEF StreamEnds
  <2>5. result'.whole => at' = "wait" /\ Complete(result)'
    BY <1>2, <2>3, <2>4 DEF Delivered, Complete
  <2> QED
    BY <1>2, <1>3, <2>2, <2>5 DEF Delivered, Streaming
<1>6. Text(turn, stream.delta, FALSE).whole = FALSE
  BY DEF Text
<1> QED
  BY <1>4, <1>5, <1>6, OnlyTextsAreWhole DEF StreamMessage

LEMMA UtteranceNextDelivers ==
  ASSUME UtteranceTypeOK, OneAtATime, Delivered, UtteranceNext
  PROVE  Delivered'
<1>0. /\ queue \in Seq(Commands) /\ stream \in Streams /\ result \in Outcome /\ chunks \in Nat
      /\ vad \in Collector(Block)
  BY UtteranceTypesSplit DEF StreamTypes, ResultTypes, HearingTypes
<1>1. CASE NextTurn
  <2>1. /\ at' = "connect" /\ vad' = Fresh /\ utterance' = {} /\ rejected' = {}
        /\ queue' = <<>> /\ stream' = Down /\ result' = None
    BY <1>1 DEF NextTurn
  <2> QED
    BY <2>1, FreshTypes, OnlyTextsAreWhole DEF Delivered
<1>2. CASE Connect
  <2>1. UNCHANGED <<provider, turn, captureVars>> /\ at = "connect"
    BY <1>2 DEF Connect
  <2>2. UNCHANGED <<provider, turn, chunks, vad, utterance, rejected>>
    BY <2>1 DEF captureVars
  <2>3. utterance = {} /\ Held(vad) = {} /\ rejected = {} /\ queue = <<>> /\ result = None
    BY <2>1 DEF Delivered
  <2>4. CASE at' = "listen" /\ stream' = [Down EXCEPT !.up = Streaming] /\ UNCHANGED <<queue, result, outcome>>
    <3>1. stream'.up = Streaming /\ ~stream'.committed /\ Streaming' = Streaming
      BY <2>2, <2>4 DEF Down, Streaming
    <3>2. Len(queue') = 0
      BY <2>3, <2>4
    <3>3. ~result'.whole
      BY <2>3, <2>4, OnlyTextsAreWhole
    <3> QED
      BY <2>2, <2>3, <2>4, <3>1, <3>2, <3>3 DEF Delivered
  <2>5. CASE Leave(Failed)
    BY <2>1, <2>5, LeaveDelivers, OnlyTextsAreWhole DEF Complete
  <2> QED
    BY <1>2, <2>4, <2>5 DEF Connect
<1>3. CASE \E c \in Chunk : Hear(c)
  BY <1>3, HeardDelivers
<1>4. CASE CooldownEnds
  <2>1. /\ vad' = [vad EXCEPT !.cooling = FALSE]
        /\ UNCHANGED <<provider, turn, at, chunks, utterance, rejected, queue, stream, result, outcome>>
    BY <1>4 DEF CooldownEnds, realtimeVars
  <2>2. Held(vad') = Held(vad)
    BY <1>0, <2>1 DEF Held, Collector
  <2> QED
    BY <2>1, <2>2 DEF Delivered, Complete, Streaming
<1>5. CASE Lagged
  <2>1. /\ chunks' = chunks + 1
        /\ UNCHANGED <<provider, turn, at, vad, utterance, rejected, queue, stream, result, outcome>>
    BY <1>5 DEF Lagged, realtimeVars
  <2>2. chunks * ChunkBlocks \in Nat /\ (chunks + 1) * ChunkBlocks \in Nat /\ chunks * ChunkBlocks <= (chunks + 1) * ChunkBlocks
    <3>1. (chunks + 1) * ChunkBlocks = chunks * ChunkBlocks + ChunkBlocks /\ chunks * ChunkBlocks \in Nat
      BY <1>0, Constants_
    <3> DEFINE k == chunks * ChunkBlocks
               l == (chunks + 1) * ChunkBlocks
    <3>2. l = k + ChunkBlocks /\ k \in Nat
      BY <3>1
    <3> HIDE DEF k, l
    <3>3. k \in Nat /\ l \in Nat /\ k <= l
      BY <3>2, Constants_
    <3> QED
      BY <3>3 DEF k, l
  <2>3. Held(vad) \cup utterance \cup rejected \subseteq Nat
    BY UtteranceTypesSplit DEF HearingTypes, Held, Collector, Block
  <2>4. \A b \in Held(vad') \cup utterance' \cup rejected' : b <= chunks' * ChunkBlocks
    <3> DEFINE k == chunks * ChunkBlocks
               l == (chunks + 1) * ChunkBlocks
    <3>1. \A b \in Held(vad) \cup utterance \cup rejected : b <= k
      BY DEF Delivered
    <3>2. k \in Nat /\ l \in Nat /\ k <= l /\ chunks' * ChunkBlocks = l
      BY <2>1, <2>2
    <3> HIDE DEF k, l
    <3> QED
      BY <2>1, <2>3, <3>1, <3>2
  <2> QED
    BY <2>1, <2>4 DEF Delivered, Complete, Streaming
<1>6. CASE CaptureFails \/ IdleTimeout
  <2>1. \E k : Leave(Nothing(k)) /\ UNCHANGED <<provider, turn, captureVars>>
    BY <1>6 DEF CaptureFails, IdleTimeout
  <2> QED
    BY <2>1, LeaveDelivers, OnlyTextsAreWhole DEF Complete
<1>7. CASE Commit
  <2>1. UNCHANGED <<provider, turn, captureVars>>
    BY <1>7 DEF Commit
  <2>2. CASE Leave(Failed)
    BY <2>1, <2>2, LeaveDelivers, OnlyTextsAreWhole DEF Complete
  <2>3. CASE CommitWaits
    <3>1. UNCHANGED <<provider, turn, chunks, vad, utterance, rejected, stream, result, outcome>>
      BY <2>1, <2>3 DEF CommitWaits, captureVars
    <3> DEFINE m == [kind |-> "commit", blocks |-> {}]
    <3>2. at = "commit" /\ at' = "wait" /\ stream.up /\ queue' = Append(queue, m)
      BY <2>3 DEF CommitWaits
    <3>3. m \in Commands /\ m.kind = "commit"
      BY DEF Commands
    <3> HIDE DEF m
    <3>4. \A b : Arrives(queue', stream.buffer, b) <=> Arrives(queue, stream.buffer, b)
      BY <1>0, <3>2, <3>3, ArrivesAppended
    <3>5. \A i \in 1 .. Len(queue') : queue'[i].kind = "commit" => i = Len(queue')
      <4>1. \A i \in 1 .. Len(queue') : i = Len(queue') \/ (i \in 1 .. Len(queue) /\ queue'[i] = queue[i])
        BY <1>0, <3>2, <3>3
      <4> QED
        BY <3>2, <4>1 DEF Delivered
    <3>6. Streaming' /\ ~stream.committed /\ ~result.whole
      <4>1. result.whole \in BOOLEAN
        BY <1>0, OnlyTextsAreWhole
      <4> QED
        BY <3>1, <3>2, <4>1 DEF Delivered, Streaming
    <3>7. \A b \in utterance : Arrives(queue', stream'.buffer, b)
      BY <3>1, <3>2, <3>4 DEF Delivered
    <3>8. \A b \in rejected : ~Arrives(queue', stream'.buffer, b)
      BY <3>1, <3>2, <3>4 DEF Delivered
    <3> QED
      BY <3>1, <3>2, <3>5, <3>6, <3>7, <3>8 DEF Delivered
  <2> QED
    BY <1>7, <2>2, <2>3 DEF Commit
<1>8. CASE Transcript
  <2>1. /\ UNCHANGED <<provider, turn, captureVars>> /\ (Leave(Failed) \/ Leave(result))
    BY <1>8 DEF Transcript
  <2>2. Complete(Failed) /\ Complete(result)
    BY <1>0, OnlyTextsAreWhole DEF Delivered, Complete
  <2> QED
    BY <2>1, <2>2, LeaveDelivers
<1>9. CASE StreamTakes \/ StreamSent \/ StreamMessage
  BY <1>9, TakesDelivers, CommandDelivers, MessageDelivers
<1>10. CASE AskOpenAi \/ BodyRead \/ AskAivs
  <2>1. UNCHANGED <<provider, turn, captureVars>> /\ at \in {"ask", "body"} /\ ~Streaming
    BY <1>10 DEF AskOpenAi, BodyRead, AskAivs, Delivered
  <2>2. CASE \E o : Leave(o)
    BY <2>1, <2>2, LeaveDelivers
  <2>3. CASE at' \in {"ask", "body", "wait"} /\ UNCHANGED <<realtimeVars, outcome>>
    <3>1. UNCHANGED <<provider, turn, chunks, vad, utterance, rejected, queue, stream, result, outcome>>
      BY <2>1, <2>3 DEF captureVars, realtimeVars
    <3>2. ~stream.up /\ ~result.whole
      <4>1. result.whole \in BOOLEAN
        BY <1>0, OnlyTextsAreWhole
      <4> QED
        BY <2>1, <4>1 DEF Delivered
    <3> QED
      BY <2>1, <2>3, <3>1, <3>2 DEF Delivered, Streaming
  <2> QED
    BY <1>10, <2>1, <2>2, <2>3 DEF AskOpenAi, BodyRead, AskAivs
<1>11. CASE Join
  <2>1. UNCHANGED <<provider, turn, captureVars>> /\ Leave(reply[turn]) /\ ~Streaming
    BY <1>11 DEF Join, Streaming
  <2> QED
    BY <2>1, LeaveDelivers
<1>12. CASE \E t \in TurnId : Aivs(t) \/ CloudAnswers(t)
  <2>1. UNCHANGED <<provider, turn, at, chunks, vad, utterance, rejected, queue, stream, result, outcome>>
    BY <1>12 DEF Aivs, AivsEnters, AivsPosts, AivsReceives, CloudAnswers, captureVars, realtimeVars
  <2> QED
    BY <2>1 DEF Delivered, Complete, Streaming
<1> QED
  BY <1>1, <1>2, <1>3, <1>4, <1>5, <1>6, <1>7, <1>8, <1>9, <1>10, <1>11, <1>12 DEF UtteranceNext, Ask

LEMMA UtteranceNextInv == UtteranceInv /\ [UtteranceNext]_utteranceVars => UtteranceInv'
<1> SUFFICES ASSUME UtteranceInv, [UtteranceNext]_utteranceVars PROVE UtteranceInv'
  OBVIOUS
<1>1. CASE UtteranceNext
  <2>1. UtteranceTypeOK' /\ Serialised'
    BY <1>1, UtteranceNextTypes, UtteranceNextSerial DEF UtteranceInv
  <2>2. OneAtATime => Delivered'
    BY <1>1, UtteranceNextDelivers DEF UtteranceInv
  <2> QED
    BY <2>1, <2>2 DEF UtteranceInv, OneAtATime
<1>2. CASE UNCHANGED utteranceVars
  <2>1. UNCHANGED <<provider, turn, at, chunks, vad, started, utterance, rejected, queue, stream, result, tries,
                    serial, slot, req, cloud, mailbox, reply, outcome>>
    BY <1>2 DEF utteranceVars, captureVars, realtimeVars, aivsVars
  <2>2. UtteranceTypeOK'
    BY <2>1 DEF UtteranceInv, UtteranceTypeOK
  <2>3. Serialised'
    BY <2>1 DEF UtteranceInv, Serialised, SlotIsTheRequests
  <2>4. OneAtATime => Delivered'
    BY <2>1 DEF UtteranceInv, Delivered, Complete, Streaming
  <2> QED
    BY <2>2, <2>3, <2>4 DEF UtteranceInv, OneAtATime
<1> QED
  BY <1>1, <1>2

\* The inductive invariant of Utterance, its types included.
THEOREM UtteranceInvariant == UtteranceSpec => []UtteranceInv
<1>1. UtteranceInit => UtteranceInv
  BY UtteranceFirst
<1>2. UtteranceInv /\ [UtteranceNext]_utteranceVars => UtteranceInv'
  BY UtteranceNextInv
<1> QED
  BY <1>1, <1>2, PTL DEF UtteranceSpec

\* However many turns are aborted while their request runs on, the request that waits for a final result is
\* the one in the slot of the SDK's callback (the serial lock of transcribe_xiaomi_aivs_blocking, asr.rs).
THEOREM SlotKept == UtteranceSpec => []SlotIsTheRequests
<1>1. UtteranceInv => SlotIsTheRequests
  BY DEF UtteranceInv, Serialised
<1> QED
  BY <1>1, UtteranceInvariant, PTL

\* With a cooldown, or with chunks of one block, a complete realtime transcript is of the whole utterance and
\* of nothing that was turned down.  Without either it is not: a speech that ends and one that begins in the
\* same chunk share its append, and the Clear of the first takes the beginning of the second (vad.rs push,
\* capture.rs, RealtimeAsrAppender::clear of asr.rs).
THEOREM TranscriptKept ==
  ASSUME OneAtATime
  PROVE  UtteranceSpec => []TranscriptIsTheUtterance
<1>1. UtteranceInv => TranscriptIsTheUtterance
  <2> SUFFICES ASSUME UtteranceInv PROVE TranscriptIsTheUtterance
    OBVIOUS
  <2>1. at = "done" /\ Streaming => Complete(outcome)
    BY DEF UtteranceInv, Delivered
  <2> QED
    BY <2>1 DEF TranscriptIsTheUtterance, Complete, Streaming
<1> QED
  BY <1>1, UtteranceInvariant, PTL
================================================================================
