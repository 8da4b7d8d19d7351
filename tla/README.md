# TLA+ verification of xiaoai-agent

`xiaoai-agent` (Rust, `src/xiaoai-agent/`) turns a Xiaomi speaker into a voice
assistant. This directory holds TLA+ modules translated from its source, TLC
configurations that check them on small instances, and TLAPS proofs.
Paths below are relative to `src/xiaoai-agent/src/` unless they start with `src/`.

## 1. Inventory of the system

| Part | State it keeps | Operations | What must hold |
|---|---|---|---|
| **Session supervisor** `qwen_voice.rs` (`QwenVoiceService`, `QwenSessionTurn`, `SessionHandle`, `run_prepared_supervised_session`) | the `active` slot, per session the setup-phase mutex, cancel / activation / interrupt / terminal watch channels | prepare, run, activate, interrupt, request_cancel, cancel | one session owns the speaker; its slot is released only after the worker has let go of every device; each session publishes one outcome; cancel always ends it |
| **Session worker** `qwen_voice/webrtc_session.rs` (`run`, `run_once`, `AttemptResources`) | attempt number, owned resources, "a tool may have had an effect" | connect, prewarm, activate, talk, teardown, reconnect with backoff | no resource is created after a cancellation closed the gate; no reconnect after an effect; what outlives an attempt is what its teardown gave up on |
| **WebRTC transport** `webrtc_session.rs` (peer, callbacks, Opus writer, decoder) | peer, data channel, track handles, writer, PCM buffers, last sequence number | connect, exchange SDP, encode, decode, stop | setup ends; writer and player end with the attempt; the uplink is the newest audio, the downlink is in order |
| **Event loop** `webrtc_session.rs` `run_event_loop`, `SessionMachine` | session state, active response, three deadlines, received / seen / pending calls, budget, end flag | service events, tool completions, deadlines, wake interruption, cancel | cut-off calls never run; a follow-up comes after every output; the session ends |
| **PCM player** `qwen_voice.rs` (`PcmPlayer`, `PcmPlayerHandle`, `run_player`) | bounded queue, control watch, clear generation, `accepting_audio`, the aplay child | try_audio, interrupt_playback, begin_response, finish, stop, shutdown | interrupted audio is not played again; a joined player ends without a process |
| **Native tools** `qwen_voice.rs` (`NativeToolRuntime`) | active calls, cleanup state | execute, cancel, wait_for_tool_idle | every call ends, dropped or not |
| **Main loop** `main.rs` | active turn, warm session, last MCP generation, timestamps | keyword arm, `turn_check` arm | no session is lost or refused; the microphone follows the wake word; stale warm sessions are rotated; never blocked |
| **MCP client** `mcp.rs`, `agent.rs` (reconnect) | routing table, poisoned / failed flags, service state, refresh state, generation, cached definitions | call, cancel, fail-close, wait_for_idle, tool-list refresh, reconnect | an ambiguous call closes the client; visible tools are routed; tools and client of one generation stay together |
| **Legacy turn** `main.rs` `run_session`, `run_turn`; `audio/record.rs` | recorder state, lock and child, VPM status | record, transcribe, LLM turn, speak, replaced by abort | one recorder, released; what an aborted turn leaves does not reach the next |
| **Speech capture and ASR** `capture.rs`, `vad.rs`, `asr.rs` | collector counters, command queue, AIVS slot | chunks, start and end of speech, requests with retries and deadlines | the transcript is the utterance; requests do not cross |
| **Agent runtime** `agent.rs` | history, end flag, tool server | run_turn, reset_session | the end flag belongs to the turn that set it |
| **Music / AirPlay** `music.rs`, `airplay.rs` | queue, paused, interruption; duck flag | play, pause, next, interrupt_for_wake, restore | an interruption is undone, once |
| **Keyword monitor** `monitor/kws.rs` | process-wide senders, command channel, vendor engine | run, restart, forward wake words, lend audio to captures | a capture is heard; ASR mode ends with the last capture |
| **Web UI** `web/` | agent.yaml and backup, save lock, restart flag, log ring | GET/PUT config, restart, status, logs | a save is atomic; saves serialise; no save after a restart is scheduled |
| **Others** `tools.rs`, `weather.rs`, `device.rs`, `shell.rs`, `config.rs`, `qwen_realtime.rs`, `mcp_legacy_sse.rs`, the probes | little or none | request/response I/O, validation, encodings | - |

### How the parts interact

The keyword monitor (a thread) sends wake events to the main loop. In the
`native_qwen` runtime the loop owns at most an active and a warm turn, each the
handle of a session and the task that awaits it. The task resolves the MCP tools,
then `run_prepared_supervised_session` claims the `active` slot and spawns the
supervisor, which spawns and watches the worker. The worker connects a peer, runs the event loop, which
owns the data channel, steers the player and starts tools; a writer and a decoder task on
other threads carry audio. All of it meets in watch channels, two mutexes
(setup phase, spawn gate), two atomics of the player, and the MCP generation, which the
loop polls. In the other runtimes the loop spawns a legacy turn, and replaces it by
aborting its task without joining it; recorder, music, conversation and VPM slots are
process-wide and outlive the turn. The web server shares only the configuration file and the
restart thread with the rest.

### What is hard

The list is `hazards` in `PROJECT.json`, each at its line. In short: three tasks per
session with cancellation at any await; two sessions overlapping during
replacement; activation of a session that is dying; retries after side effects;
deadlines disarmed by one event and needed by the next; answers, cancels and calls
of different responses crossing on the wire; check-then-act between decoder and event
loop; poisoned MCP clients with calls in flight; legacy turns aborted half-way; and crash
points of a configuration save.

## 2. Modules

`map` in `PROJECT.json` gives the lines behind every definition.

| Module | Models | Code |
|---|---|---|
| `ExclusiveSpeaker` | abstract: one owner, devices only with the owner, who may abandon a peer or a capture instead of ending it; outcome published once and after release | a statement of what the supervisor promises, hence not in the map |
| `NativeSession` | any number of sessions of one service: task, supervisor, worker, teardown, reconnect | `qwen_voice.rs`, `webrtc_session.rs` |
| `VoiceLoop` | the native part of the main loop over `NativeSession`, with the MCP generation | `main.rs` |
| `Conversation` | the event loop, `SessionMachine`, tools and budget, with the external Qwen service | `webrtc_session.rs`, `qwen_realtime.rs` |
| `Player` | `PcmPlayer`, its handle, `run_player`, the decoder that feeds it | `qwen_voice.rs` |
| `OpusAudio`, `WebRtc` | one attempt: peer, signalling, data channel, callbacks, writer, capture, decoder, teardown; `OpusAudio` is the audio of both directions | `webrtc_session.rs`, `qwen_voice.rs` |
| `ToolCalls` | calls of native conversations: MCP workers and generic supervisors | `mcp.rs`, `qwen_voice.rs` |
| `McpTools` | connections, routing, proxies, refreshes, reconnect, generation, snapshots | `mcp.rs`, `agent.rs` |
| `Music`, `LegacyTurn` | the wake arm, turns replaced by abort, recorder, VPM status, history, end flag; `Music` is the music service and AirPlay | `main.rs`, `agent.rs`, `music.rs`, `airplay.rs`, `device.rs`, `audio/record.rs`, `tools.rs` |
| `Utterance` | capture loop, speech collector, three ASR providers | `capture.rs`, `vad.rs`, `asr.rs` |
| `Vpm` | the VPM keyword monitor and the captures that borrow it | `monitor/kws.rs`, `capture.rs` |
| `ConfigStore` | form, save, restart, page, disk and power | `web/`, `config.rs`, `main.rs` |
| `MCVoiceLoop`, `MCMcpTools`, `MCLegacyTurn` | instances, symmetry and settings for TLC | - |
| `NativeModeProofs` | theorems about `NativeSession`, `VoiceLoop` and `Vpm` | - |
| `LegacyModeProofs` | theorems about `LegacyTurn` (with `Music`) and `Utterance` | - |
| `ConversationProofs`, `PlayerProofs`, `WebRtcProofs`, `ToolCallsProofs`, `McpToolsProofs`, `ConfigStoreProofs` | theorems about the module they are named after | - |

Everywhere, an action is one step between two awaits (or one critical section, or one
file-system call); a duration is abstracted, so a timer that is armed may fire at any
moment and every ratio of the configured times is covered; results of network, device and
vendor library are nondeterministic.

**NativeSession.** Each session has a position for its task, its worker and its
supervisor, and the values of its watch channels; sections under the setup-phase lock are
actions (`GateOpen`, `GateClosed`, `RequestCancel`). `owned` is what the worker holds
(player, aplay, peer, capture). What it lets go of without having seen the end becomes one of the `strays`:
the peer of an attempt that is lost while it waits for its activation and returns through `?` before the teardown
(`PrewarmLost`), a peer whose close fails or runs into its timeout after a failed connect (whose outcome is
ignored, `ConnectFailed`), and a peer or a capture the teardown gives up on (`ReleaseTransport`; the error makes a good
result bad, but the slot is released all the same). A stray may end by itself or never (`StrayEnds`, without
fairness). `Droppable` names the devices that may become strays. Player and aplay never do: their end is joined or
killed. Panics of tasks are not modelled.

**VoiceLoop** extends `NativeSession`: `LoopNext` is a step of the main loop or
of one session. An arm of its `select!` is split at its awaits (`main` says where it
is), and sessions go on between. Session numbers are reused once nothing refers to
them. The MCP reconnect is the generation it bumps (in detail: `McpTools`). `spawn_native_session` fails only
for a static configuration error, which `main` meets at start. The LEDs are left out, music and AirPlay
of the same arm are in `LegacyTurn`.

**Conversation.** The data channel is two FIFO queues; the select is biased as in the code. The
service is external and modelled from what the loop expects: it keeps order, cancels its response
when the user speaks or the client asks, and owes a response to an utterance or to
`response.create`. Its errors and a lost peer are `Breaks`. With `Prompt = TRUE` the link
catches up before the service creates a response: the client's events reach it within the time a model takes to begin an
answer. That is an assumption about the network; the theorems do not need it, `SessionEnds` does (below).
Two deadlines are armed anew while they run: a packet of audio that comes while an answer drains postpones the
drain (`Plays`, `SeeAudio`), an event while a response is awaited postpones the response deadline. `audio` says that a packet
has come since the loop last looked, `chatter` that an event nobody needs is on its way; such a deadline passes only when they are quiet (`Timely`, `Undisturbed`).

**Player.** Event loop, decoder and `run_player` interleave freely. Checking
the gate and sending the block are two actions, as in `try_audio`, and so are the two atomics
of `interrupt_playback`. `cleared` and `late` are history: the last response that was flushed and how
many of its blocks were played after that.

**WebRtc** follows `run_once` from the first device to the last join; callbacks of the peer
run beside it and may be late. `lost` marks an attempt that returned through the `?` mentioned
above. `overdue` holds what did not end within its timeout: the close of the peer (of a failed connect, where nobody looks, or of the
teardown, where it is reported) and the join of the capture. The server may send any number of messages, `MaxEvents` of them unread at
a time, and each starts the deadline of the wait it falls into anew. `OpusAudio` names a sample by its position on the 48 kHz line and a packet by its distance from the first one;
the decoder sees that distance modulo `SeqRange`. The codec, ICE and DTLS are external.

**ToolCalls.** A call is three actors: the future the event loop polls and may drop
(`caller`), the spawned worker that owns the request, and the client they share. Marking the client poisoned and telling
the calls in flight (`poisoned.store`, `cancel_all.send_replace`) are two steps (`Poison`, `TellsAll`), and so are a worker's look at the
cancellation channels and the poll that sends the request (`Looks`, `Establish`). A generic call is
a future, a supervisor and a tool. The client outlives conversations.

**McpTools.** Connections are numbered as they are made; a *pass* is one listing and
registration of tools, by a connection being made or by the task of a `list_changed` notification, in the steps the code
takes under its lock or between awaits. What makes a client ambiguous is one step here and the subject of `ToolCalls`.

**LegacyTurn.** An aborted task that is being polled goes on to its next await: `fate` is
"dying" for that step, then it is dropped with its guards (`Drop`). Music operations are split where the code
gives up its mutex for a device command, and continue when their caller is gone if they run in the tool server.
`sound` is what is heard of the music beside what `MusicState` records: "hushed" by a wake, and "left" once
nothing is recorded that would bring it back. `late`, of the recorder, an exchange of the history and the end flag, marks what a turn
did after it had been aborted.
The LEDs and the thinking sound are left out.

**Utterance.** One unit of time is a block of audio, audio is the set of numbers of its blocks, a
text is the audio it was made from. The RMS threshold is one bit per block. `Push` takes a chunk block by block: `Pushes(c)[i]` is
the collector after the first `i` of them. The provider's task takes a command of the bounded channel and sends it (`StreamTakes`, `StreamSent`); a
send ends when the provider reads, which it may never do, and then the channel fills up behind it (`Room`, `Stalled`).

**Vpm.** The process-wide slots are filled and cleared one at a time by each run of the
monitor and read by the captures. `joined` says whether captures follow each other (native mode) or may overlap after
an abort (legacy mode).

**ConfigStore.** Every fs call under the save lock is a step, each may fail, and power may be
lost between any two: what was not synced then reverts or is torn. A configuration is three fields, one per class of
validation the form and `AppConfig::load` tell apart.

## 3. Runs

| Run | Bounds | Checks |
|---|---|---|
| `NativeSession` | 2 sessions, 1 reconnect, the peer droppable | exclusive devices; no player after the gate closed; no reconnect after an effect; refinement of `ExclusiveSpeaker`; a cancelled session ends |
| `VoiceLoop` | 2 sessions, no reconnect, 1 generation, the peer droppable | no orphan, no refusal, microphone after wake; the loop returns; stale warm sessions rotated |
| `VoiceLoop_wake` | the same, no MCP reconnect | **violated**: a wake may leave a session that never opens the microphone |
| `Conversation` | 3 responses, 2 calls each, 2 utterances, 1 wake, budget of 1 iteration and 2 calls, grace 1, prompt link | cut-off calls never run; follow-up last; the session ends unless audio or events never cease |
| `Player` | queue of 2, 2 responses, 4 blocks, 2 interruptions | at most one late block; a joined player ends |
| `WebRtc` | 3 chunks, queue 2, buffer 4, frame 2, 11 packets, sequence numbers modulo 10, 2 unread events, any number of them | buffer is the newest audio; packets in order; setup ends once the server is silent; cancelled attempts end; of a returned attempt only what was given up is left |
| `ToolCalls` | 2 MCP calls, 1 generic, 2 conversations | ambiguous calls close the client; once the calls are told, only one that had looked before is sent; calls end |
| `McpTools` | 2 tools, 2 connections, 2 notifications, 2 changes, symmetric | visible tools are routed; a failed routing closes; a snapshot is not behind |
| `LegacyTurn` | 2 turns and the main loop as callers, 4 settings | microphone released, sound restored, unless an abort or the device undid it (below); what turns did while live does not leak; a wake is served |
| `Utterance` | 3 providers, 6 chunks of 2 blocks, 2 turns, 2 attempts | the transcript is the utterance; the AIVS slot is the request's; a committed utterance is answered unless the provider stops reading |
| `Vpm` | 2 runs of the monitor, 2 captures, events 1, broadcast 2 | a joined capture is heard; ASR mode ends |
| `ConfigStore` | 2 clients, 1 of them restarts, 1 secret, 2 saves, 2 boots | the file always loads; saves serialise; restart never tears a save; backup first; the gate opens again |

**Why the bounds suffice.** Two sessions give every overlap of the slot and of the main loop, which refers to at
most two live sessions at once; one reconnect gives a first and a last attempt. That a capture may be a stray as well
changes nothing in the order of steps, and the theorems cover it. In `VoiceLoop` a reconnect only
repeats positions a worker has passed already. Two utterances and three responses let an answer overlap the
speech that interrupts it and the follow-up of its tools; a budget of one iteration is exhausted in the second response
and a grace of one in the third. Queues and buffers of two are empty, half full, full and overrun. Eleven packets wrap the
sequence numbers of ten once. Two MCP calls give one that closes and one that waits for it, and a second conversation
meets what the first left. Two connections are one replaced and one that replaces it; two notifications
run into each other and into a reconnect. Two turns are one aborted and one that follows. Six chunks hold a
rejected noise, an utterance cut at its maximum length and a cooldown. Two runs of the monitor give
every state of the slots between them. Two clients are a save and one that waits for it, or a save and a restart.
What the theorems of section 4 state holds without these bounds.

**Fairness.** Ready tokio tasks are polled, threads run, and an await with a timeout ends: those steps are weakly
fair. Never fair: wakes, cancels, the user (except that one who speaks stops speaking), answers of a server, tools, the microphone,
a send to a peer that may not read, the end of a stray.
In particular: `VoiceLoop` has strong fairness for the tick, because the interval keeps ticking and `select!`
picks among ready branches at random; `Conversation` asks its loop, and of its deadlines those that nothing postpones; `ToolCalls` asks workers, supervisors and the teardown to go on but no tool to end;
`WebRtc` asks the attempt, a running callback, a stopped writer and a decoder whose track is closed;
`ConfigStore` the server on an accepted save and the sleeping restart thread; `LegacyTurn` the main loop, device commands and the drop of aborted
tasks; `Vpm` the monitor thread, the main loop and the captures; `Utterance` the ASR tasks with their deadlines, not the send to the provider, which has none, nor the reader of a response body.

`CHECK_DEADLOCK FALSE` stands where the modelled part really stops: a conversation or attempt that returned, a player that was
joined, the calls, turns, notifications, captures or saves of the bound used up.

### What the runs show

A wake word activates a session with `watch::Sender::send`. That stores nothing while nobody is
subscribed, and the session subscribes on its first poll: activation right after spawning may be lost
(`VoiceLoop_wake`, the one finding in `PROJECT.json`). The session then stays prewarmed, later wakes only interrupt
it, and the microphone never opens until the server has closed the session for being idle.

All other runs hold. Where a property is narrower than one might wish, the code is the reason:

- `OneLateBlock` allows one block of an interrupted answer after its flush: the one the decoder had checked before.
- `ExclusiveDevices` and `ImplementsExclusiveSpeaker` are about devices a worker holds. A stray peer (or capture) of one session may
  live beside the next owner: nobody waits for it.
- `NothingSentOnceAmbiguous` begins when the calls in flight are told, not when the client is marked, and excepts a worker that had
  looked before: until then, and by that worker, a request may still go to a client that is about to be closed.
- `SessionEnds` needs the prompt link. Without it a cancellation sent for a wake word may reach the next response and
  leave the session capturing with no deadline armed. It also excepts a peer that sends audio for ever while an answer drains, or
  events for ever while a response is awaited: each arms the deadline anew. TLC refutes it without either exception.
- `SetupEnds` speaks of a server and a peer that fall silent at some time. Each message starts the deadline of the setup anew, so from one
  that goes on for ever only a cancel gets the attempt back, which `CancelEndsAttempt` says without that condition.
- `NothingOutlives` excepts the peer of an attempt lost while it waited for activation (`?` before the teardown), and the peer and the
  microphone whose timeouts had run out (a result "ok" excludes both); what is left neither hears nor sounds (`NothingHeardOrPlayed`).
- `SoundRestored` is about the legacy runtime: a native conversation leaves AirPlay ducked and music interrupted until
  something else restores them. The record of the interruption and the ducking of AirPlay are always undone. The music itself is given up
  when the device refuses to take it back, when the turn that had taken the record is aborted before the device has obeyed, when the device is
  ducked twice and has forgotten its volume, or when the music is stopped or replaced between the command of a wake and its record.
- `MicrophoneReleased` excepts the recorder an aborted turn started in its last step, behind the `stop_recording` of the wake arm. Every other turn,
  aborted ones included, leaves none.
- `NothingLeaks` excepts what a turn, or a tool it had called, did after its abort. What it did before is forgotten, aborted or not.
- `StreamingIsHeard` is about captures that follow each other: with overlapping ones the end of the first turns off ASR mode
  under the second.
- `CommandAnswered` excepts an HTTP body that never ends and a provider that stops reading until the channel has no room for
  the commit: these waits have no deadline.
- `SlotIsTheRequests` says whose slot it is, not whose result arrives: a late result of an aborted dialog is delivered to whoever holds the slot.
- `RecoveryPoint` says that the copy precedes the replacement. The copy is not synced, so a power loss may still tear it.
- The tool budget is one of the session, and `end_conversation` may be carried out by the drain of another
  answer, before the farewell; both are listed as hazards without a property.
- A timeout that fits the form but no `Duration` keeps the agent from starting until the backup is restored (`RestoreBackup`).

## 4. Proofs

The theorems hold for every value of the constants; TLC checks the same properties on small
instances in the runs above. Each module has one inductive invariant, which TLC checked before it was proved, and, below its step, one case per
action or group of actions. The only assumptions are the named `ASSUME`s on constants in the
modules, which every run evaluates.

**NativeModeProofs**, sessions: any set of sessions, any number of reconnects. `Invariant`, then `TypeCorrect`, `SlotCorrect`, `Supervised`,
`StationsInOrder`, `EffectsKept` for its conjuncts, `Exclusive` (`ExclusiveDevices`), `GateHolds` (`CancelledStartsNoPlayer`),
`EffectsNotRepeated` (`NoReconnectAfterEffects`) and `Refinement` (`ImplementsExclusiveSpeaker`). `ExclusiveDevices` is not
inductive: that two workers never hold devices follows from the slot only if a session that has a worker owns
the slot, which is kept only because the supervisor clears it after the join, and because a worker holds devices only
between its gate and its teardown. All this holds for any `Droppable` devices: `Supervised`, `Exclusive` and `Refinement` speak of what is held, and
`Refinement` also shows that only the owner abandons devices, only droppable ones, and never player or aplay.

**NativeModeProofs**, main loop: any sessions, reconnects and generations. `LoopImplementsSessions` shows that the loop calls the handles as
`NativeSession` lets their owner, so all its theorems hold in the loop; it needs only that the
loop holds its turns one at a time (`OneTurn`). `LoopInvariant` adds who has been woken; from it `NoneOrphaned`, `NoneRefused`
and `WakeBeforeMicrophone`. A reused session number is what makes the last one more than a look at a flag.

**NativeModeProofs**, keyword monitor: any number of runs, captures and events, any broadcast capacity. `VpmInvariant` and `CaptureHeard`
(`StreamingIsHeard`). What is to be shown is that ASR_START of a capture that streams from the running monitor is the last
command in the channel or has been taken, and that nothing undoes it (`StartStands`). It rests on the order in which a run fills and
clears its slots, commands first and audio first (`SlotsLead`), on captures that follow each other when they are joined (`InTurn`), and on
receivers never being those of a run that is still to fill its slots (`Receivers`).

**ConversationProofs**: any budget, batch size, number of responses and utterances, with and without `Prompt`.
`ConversationInvariant`, `ConversationTypeCorrect` (the counters stay within the budget), `OnlyCompletedRun`
(`CancelledNeverRuns`), `CreateAfterOutputs` (`FollowUpLast`). A batch is collected or runs, never both
(`OneBatch`); the calls the service has made are those of its current response (`MadeByCurrent`); every `response.done`
on its way tells of a completed response and of its own calls (`DoneHonest`).

**PlayerProofs**: any capacity, any number of responses, blocks and interruptions. `PlayerInvariant`, `PlayerTypeCorrect`,
`LateBlockBound` (`OneLateBlock`), `StopHolds` (no aplay after stop). The invariant follows the late block, which is in one place: with
the decoder, in the queue, with `run_player`, or played.

**WebRtcProofs**: `InOrder` (`PlayedInOrder`) for any even range of sequence numbers up to 2^16, any number of packets and
any loss, repetition and reordering within half the range: a packet at most half a range back is late modulo
the range (`OldIsStale`), and only the decoder moves the newest packet. `NewestKept` (`BufferIsNewest`) for any number of chunks and any size of
queue, buffer and frame: one more chunk adds the three phases of the sample before it to the 48 kHz line and to the buffer (`LineGrows`,
`EndsExtended`), the trim and the encoder take from the old end (`EndsDropped`). It needs that nothing comes after the last
sample has been held, which holds because the capture task starts once and only its end closes the queue (`ClosedForGood`). `AttemptInvariant` says what an attempt holds at each station; from it `NothingHeldOnReturn`, the part of
`NothingOutlives` that needs no fairness (when `run_once` returns, not when the last callback has run): player and writer have been stopped, and a
peer or a capture is left only where `overdue` or `lost` says so. `NothingHeardOrPlayed` adds that after the return no audio moves in either direction, whatever
is left, and `WakeOpensCapture` is about the microphone and the wake word.

**ToolCallsProofs**: any calls and conversations. `ToolCallsInvariant`, `AmbiguityCloses` (`AmbiguousCloses`), `NothingSentAfter`
(`NothingSentOnceAmbiguous`). A worker that has not looked yet finds a cancellation before it once the calls have been told (`Warned`), whether it was
subscribed then or subscribes only now, and one worker closes the service (`OneCloser`).

**McpToolsProofs**: any tools, connections, notifications and changes. `McpToolsInvariant`, `McpTypeCorrect`, `VisibleIsRouted`
(`RoutedBeforeVisible`), `FailureCloses` (`FailedIsClosed`), `GenerationTells` (`SnapshotNotBehind`). `Routed` says of each
connection which proxies stand for it in the middle of a pass: those the last pass published while nobody holds the lock, afterwards
those of the pass that holds it; `Tokens` says what cancels a live connection exists since its installation.

**ConfigStoreProofs**: any clients, restarters and secrets, any number of saves, boots, power losses. `ConfigInvariant`,
`AlwaysLoads` (`FormalLoads`), `Serialised` (`SavesSerialise`), `RestartBetweenSaves` (`ExecNeverTears`), `BackedUp`
(`RecoveryPoint`). The candidate is complete, synced and loaded before it is renamed (`Candidate`), the backup holds what
it replaces (`Copied`), and a save is at most one step ahead of the answered ones (`OneAhead`).

**LegacyModeProofs**, turns: any number of turns, both runtimes, any wake. `LegacyInvariant`, `MicrophoneFreed` (`MicrophoneReleased`),
`SoundComesBack` (`SoundRestored`), `OwnConversation` (`NothingLeaks`). None of the three is inductive, because each speaks of the end while an abort
leaves tasks on the way there. `Tasks` says which turns can still act: the active one, and those aborted in the middle of a step (`fate` "dying").
`Recorder` says who may still hold the recorder or have the VPM in ASR mode: a turn in its capture that has not been dropped, or one that
started it after its abort (`late`). `Hush` says of music that is silenced and not given up that its return is owed (`Owed`): it is recorded, about to be, or under way. `Sound` says from which stage of the active turn on nothing is interrupted or ducked (`Restored`): the order
of `run_turn`'s cleanup, music before AirPlay, is in it,
and that only the wake arm interrupts, in one place.
`Conversation` says that what is in the history or has set the end flag is of the active turn or of an aborted one once the arm
has reset the session.

**LegacyModeProofs**, utterance: any number of chunks, turns, attempts, any chunk, pre-roll, silence and speech lengths.
`UtteranceInvariant`, `SlotKept` (`SlotIsTheRequests`), `TranscriptKept` (`TranscriptIsTheUtterance`). `Serialised` ties the slot of the AIVS callback to the
serial lock. `Delivered` says where the audio of an utterance is: once the queue to the provider's task has been worked off, every block the
collector holds or has given out is in its buffer and none of a rejected speech is (`Arrives`). It has to follow what a
chunk does to the collector block by block (`PushesStepwise`, by induction over the blocks of a chunk from `NatMin`, the least-number principle).
`TranscriptKept` has a hypothesis, `OneAtATime`: there is a cooldown, or a chunk is one block. It is no convenience. With `cooldown_s` = 0,
which the configuration accepts (`vad.rs:53`), a chunk of two blocks may end a rejected noise and begin the next speech; the Clear
that follows the chunk then takes the beginning of that speech, and TLC finds the utterance {4..8} with the text {5..8}. The
default is a cooldown, which the run has as well.

**Only model-checked**: all liveness, which is out of the prover's reach (`CancelEndsTask`, `LoopReturns`, `StaleWarmRotated`, `SessionEnds`,
`StopEndsPlayer`, `CallsEnd`, `SetupEnds`, `CancelEndsAttempt`, `NothingOutlives`, `WakeServed`, `CommandAnswered`,
`MicrophoneOff`, `GateReopens`). Every invariant and every action property of a run is a theorem.

## 5. Not modelled

- The probes and `mcp_legacy_sse.rs` (a thin transport worker whose failures are those of any transport in `ToolCalls`), the deployment files.
- I/O and data without state of its own: HTTP clients (weather, search, music catalogues), encodings of the
  realtime protocol, the JSON of tool results, the system prompt, shell and device command texts, request routing of the web server.
- The vendor libraries behind the VPM and Xiaomi ASR, the Opus codec, ICE and DTLS, and rmcp are external.
- The monitor that reads a FIFO instead of the VPM, LEDs, the thinking sound, the AirPlay protocol, the bounded log ring.
- Panics of tasks and the poisoning of mutexes.

## 6. Plan

Done: the abstract speaker and sessions, main loop, conversation, player, transport and audio, tool calls, MCP tools,
legacy turn with music, utterance and ASR, keyword monitor, configuration store, and the proofs above.

Left, most important first:

1. The generic tools against `LegacyTurn`'s turns, as `ToolCalls` does for native conversations.
2. An abstract specification of the legacy mode (one conversation, one recorder, sound given back) that `LegacyTurn` implements, as `ExclusiveSpeaker` is for the
   native one.
3. The bounded log of the web status and the FIFO monitor.
