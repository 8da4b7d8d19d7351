------------------------------ MODULE VoiceLoop -------------------------------
(***************************************************************************)
(* The main loop of the agent in the native_qwen runtime (main.rs) over    *)
(* the sessions of NativeSession: one session is kept warm, the wake word  *)
(* promotes it to the active turn, a wake during the turn only interrupts  *)
(* it, and a tick joins finished sessions, rotates stale ones and          *)
(* respawns.  The loop is one task: it takes one event at a time, and      *)
(* while it awaits, every session goes on.                                 *)
(*                                                                         *)
(* The MCP reconnect appears as the generation it bumps.  The ages and     *)
(* intervals the loop compares with are nondeterministic.                  *)
(***************************************************************************)
EXTENDS NativeSession

CONSTANT MaxGeneration   \* bound on MCP reconnects
ASSUME GenerationAssumption == MaxGeneration \in Nat

VARIABLES
  main,        \* where the loop is
  active,      \* active_turn
  warm,        \* warm_native_turn
  turn,        \* the turn a wake is about to activate
  victim,      \* the warm turn a tick is cancelling
  resume,      \* where the tick goes on after the cancellation
  awoken,      \* ActiveTurn::activated
  generation,  \* AgentRuntime::native_mcp_generation
  lastSeen,    \* last_mcp_generation
  resolved     \* the generation each session resolved its tools at

sessionVars == <<task, phase, cancel, activation, interrupt, slot, worker, attempt,
                 verdict, effects, owned, strays, sup, outcome, terminal>>
turnVars == <<active, warm, turn, victim, resume>>
loopVars == <<main, turnVars, awoken, generation, lastSeen, resolved>>
allVars  == <<sessionVars, loopVars>>

MainState == {"starting", "idle", "preparing", "activating", "generation", "age",
              "closing", "joining", "reap", "respawn"}
Turn == Session \cup {NoSession}

LoopTypeOK ==
  /\ TypeOK
  /\ main \in MainState
  /\ active \in Turn /\ warm \in Turn /\ turn \in Turn /\ victim \in Turn
  /\ resume \in {"age", "reap"}
  /\ awoken \in [Session -> BOOLEAN]
  /\ generation \in 0 .. MaxGeneration
  /\ lastSeen \in 0 .. MaxGeneration
  /\ resolved \in [Session -> 0 .. MaxGeneration]

LoopInit ==
  /\ Init
  /\ main = "starting"
  /\ active = NoSession /\ warm = NoSession /\ turn = NoSession /\ victim = NoSession
  /\ resume = "age"
  /\ awoken = [s \in Session |-> FALSE]
  /\ generation = 0 /\ lastSeen = 0
  /\ resolved = [s \in Session |-> 0]

Finished(s) == task[s] = "finished"

\* spawn_native_session, under a number that no turn of the loop still uses.
Spawn(s) ==
  /\ s \notin {active, warm, turn, victim} \/ Finished(s)
  /\ Prepare(s)
  /\ awoken' = [awoken EXCEPT ![s] = FALSE]

-------------------------------------------------------------------------------
(***************************************************************************)
(* The wake word.                                                          *)
(***************************************************************************)
Start ==
  /\ main = "starting"
  /\ main' = "idle"
  /\ \E s \in Session : Spawn(s) /\ warm' = s
  /\ UNCHANGED <<active, turn, victim, resume, generation, lastSeen, resolved>>

\* interrupt_native
Interruptible == active # NoSession /\ ~Finished(active) /\ awoken[active]

WakeInterrupts ==
  /\ main = "idle"
  /\ active \in {s \in Session : ~Finished(s) /\ awoken[s]}
  /\ Interrupt(active)
  /\ UNCHANGED loopVars

\* The active turn, if any, is over: cancel_for_replacement returns at once.
\* Recorder, music, AirPlay, LEDs and the agent session are reset while the
\* other tasks go on.
WakeReplaces ==
  /\ main = "idle"
  /\ ~Interruptible
  /\ main' = "preparing"
  /\ active' = NoSession
  /\ UNCHANGED <<sessionVars, warm, turn, victim, resume, awoken, generation, lastSeen, resolved>>

TakeWarm ==
  /\ main = "preparing"
  /\ warm \in {s \in Session : ~Finished(s)}
  /\ main' = "activating"
  /\ turn' = warm
  /\ warm' = NoSession
  /\ UNCHANGED <<sessionVars, active, victim, resume, awoken, generation, lastSeen, resolved>>

\* No warm session, or it has died: it is joined and a new one spawned.
SpawnCold ==
  /\ main = "preparing"
  /\ warm \in {NoSession} \cup {s \in Session : Finished(s)}
  /\ main' = "activating"
  /\ warm' = NoSession
  /\ \E s \in Session : Spawn(s) /\ turn' = s
  /\ UNCHANGED <<active, victim, resume, generation, lastSeen, resolved>>

\* activate_native; the turn becomes the active one.
ActivateTurn ==
  /\ main = "activating"
  /\ Activate(turn)
  /\ awoken' = [awoken EXCEPT ![turn] = TRUE]
  /\ active' = turn
  /\ turn' = NoSession
  /\ main' = "idle"
  /\ UNCHANGED <<warm, victim, resume, generation, lastSeen, resolved>>

-------------------------------------------------------------------------------
(***************************************************************************)
(* The tick.                                                               *)
(***************************************************************************)

\* A finished turn is joined and a warm session prepared for the next wake.
TickJoinsActive ==
  /\ main = "idle"
  /\ active \in {s \in Session : Finished(s)}
  /\ main' = "generation"
  /\ active' = NoSession
  /\ \E s \in Session : Spawn(s) /\ warm' = s
  /\ UNCHANGED <<turn, victim, resume, generation, lastSeen, resolved>>

TickStarts ==
  /\ main = "idle"
  /\ active \notin {s \in Session : Finished(s)}
  /\ main' = "generation"
  /\ UNCHANGED <<sessionVars, turnVars, awoken, generation, lastSeen, resolved>>

\* cancel_for_replacement of the warm turn, in three steps: the gate ...
Retire(next) ==
  /\ victim' = warm
  /\ warm' = NoSession
  /\ resume' = next
  /\ main' = "closing"
  /\ RequestCancel(warm)
  /\ UNCHANGED <<active, turn, awoken, generation, resolved>>

\* Mutant of RetireSends: only the setup gate is closed.
RetireSendsNothing ==
  /\ main = "closing"
  /\ main' = "joining"
  /\ UNCHANGED <<sessionVars, turnVars, awoken, generation, lastSeen, resolved>>

\* ... the channel ...
RetireSends ==
  /\ main = "closing"
  /\ main' = "joining"
  /\ \/ SendCancel(victim)
     \/ cancel[victim] /\ UNCHANGED sessionVars
  /\ UNCHANGED <<turnVars, awoken, generation, lastSeen, resolved>>

\* Mutant of RetireJoins: the task is aborted, nobody waits for the outcome.
RetireDetaches ==
  /\ main = "joining"
  /\ main' = resume
  /\ victim' = NoSession
  /\ UNCHANGED <<sessionVars, active, warm, turn, resume, awoken, generation, lastSeen, resolved>>

\* ... and the outcome and the join of its task.
RetireJoins ==
  /\ main = "joining"
  /\ Finished(victim)
  /\ main' = resume
  /\ victim' = NoSession
  /\ UNCHANGED <<sessionVars, active, warm, turn, resume, awoken, generation, lastSeen, resolved>>

TickRotates ==
  /\ main = "generation"
  /\ generation # lastSeen
  /\ lastSeen' = generation
  /\ warm # NoSession
  /\ Retire("age")

\* Mutants of TickNotesGeneration: the generation is noted with a warm session
\* left alone, and the loop counts for itself instead of copying.
TickNotesOnly ==
  /\ main = "generation"
  /\ lastSeen' = generation
  /\ main' = "age"
  /\ UNCHANGED <<sessionVars, turnVars, awoken, generation, resolved>>

TickNotesGeneration ==
  /\ main = "generation"
  /\ generation = lastSeen \/ warm = NoSession
  /\ lastSeen' = generation
  /\ main' = "age"
  /\ UNCHANGED <<sessionVars, turnVars, awoken, generation, resolved>>

\* WARM_SESSION_MAX_AGE has passed.
TickRetiresOld ==
  /\ main = "age"
  /\ warm # NoSession
  /\ Retire("reap")
  /\ UNCHANGED lastSeen

TickFindsYoung ==
  /\ main = "age"
  /\ main' = "reap"
  /\ UNCHANGED <<sessionVars, turnVars, awoken, generation, lastSeen, resolved>>

TickReaps ==
  /\ main = "reap"
  /\ main' = "respawn"
  /\ warm' = IF warm # NoSession /\ Finished(warm) THEN NoSession ELSE warm
  /\ UNCHANGED <<sessionVars, active, turn, victim, resume, awoken, generation, lastSeen, resolved>>

\* Mutants of TickRespawns: one of the two turns is not looked at.
TickRespawnsOverWarm ==
  /\ main = "respawn"
  /\ active = NoSession
  /\ main' = "idle"
  /\ \E s \in Session : Spawn(s) /\ warm' = s
  /\ UNCHANGED <<active, turn, victim, resume, generation, lastSeen, resolved>>

TickRespawns ==
  /\ main = "respawn"
  /\ warm = NoSession /\ active = NoSession
  /\ main' = "idle"
  /\ \E s \in Session : Spawn(s) /\ warm' = s
  /\ UNCHANGED <<active, turn, victim, resume, generation, lastSeen, resolved>>

\* There is a turn, or WARM_RESPAWN_MIN_INTERVAL has not passed.
TickEnds ==
  /\ main = "respawn"
  /\ main' = "idle"
  /\ UNCHANGED <<sessionVars, turnVars, awoken, generation, lastSeen, resolved>>

-------------------------------------------------------------------------------
\* A session resolves its MCP client and tools on its first poll.
LoopFrame(s) ==
  /\ resolved' = IF task[s] = "spawned" /\ task'[s] = "resolving"
                   THEN [resolved EXCEPT ![s] = generation] ELSE resolved
  /\ UNCHANGED <<main, turnVars, awoken, generation, lastSeen>>

SessionStep(s) == Internal(s) /\ LoopFrame(s)

\* reconnect_native_mcp succeeded.
McpReconnected ==
  /\ generation < MaxGeneration
  /\ generation' = generation + 1
  /\ UNCHANGED <<sessionVars, main, turnVars, awoken, lastSeen, resolved>>

Wake == WakeInterrupts \/ WakeReplaces
Tick == TickStarts \/ TickJoinsActive

MainStep ==
  \/ Start \/ TakeWarm \/ SpawnCold \/ ActivateTurn
  \/ RetireSends \/ RetireJoins \/ TickRotates \/ TickNotesGeneration
  \/ TickRetiresOld \/ TickFindsYoung \/ TickReaps \/ TickRespawns \/ TickEnds

LoopNext ==
  \/ Wake \/ Tick \/ MainStep
  \/ McpReconnected
  \/ \E s \in Session : SessionStep(s)
  \/ StrayEnds /\ UNCHANGED loopVars

LoopSpec == LoopInit /\ [][LoopNext]_allVars

\* The loop runs; the interval keeps ticking and select! chooses at random among
\* the ready branches, so wakes cannot starve the tick.
LoopFairSpec ==
  /\ LoopSpec
  /\ WF_allVars(MainStep)
  /\ SF_allVars(Tick)
  /\ \A s \in Session : WF_allVars(Progress(s) /\ LoopFrame(s))

-------------------------------------------------------------------------------
(***************************************************************************)
(* Properties.                                                             *)
(***************************************************************************)

\* The loop never drops the handle of a session that still runs: every session
\* whose task is unfinished is the active, the warm, the promoted or the retiring
\* turn, so nothing talks to the user behind the loop's back.
NoOrphan ==
  \A s \in Session : task[s] \notin {"unborn", "finished"} => s \in {active, warm, turn, victim}

\* The loop never meets "native Qwen voice session is already active": every
\* session finds the slot free when it claims it.
NeverRefused == \A s \in Session : task[s] = "claiming" => SlotFree

\* A session opens the microphone only once a wake word activated it (README.md:112).
MicrophoneNeedsWake == \A s \in Session : "capture" \in owned[s] => awoken[s]

\* Whatever a session does, the loop gets back to its select: cancelling and joining
\* a session cannot block it for good.
LoopReturns == main # "idle" ~> main = "idle"

\* A warm session that resolved an older MCP client is rotated out or promoted.
StaleWarmRotated ==
  \A s \in Session :
    (warm = s /\ task[s] # "spawned" /\ resolved[s] # generation)
      ~> (warm # s \/ resolved[s] = generation)

\* A wake is answered: the activated session opens the microphone unless it ends
\* (main.rs:480-484: without a ready session "the next wake pays the cold-start
\* latency").
WakeOpensMicrophone ==
  \A s \in Session :
    awoken[s] ~> ("capture" \in owned[s] \/ task[s] \in {"cleanup", "finished"} \/ ~awoken[s])

===============================================================================
