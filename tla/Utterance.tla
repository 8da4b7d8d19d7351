------------------------------ MODULE Utterance ------------------------------
(***************************************************************************)
(* From the microphone to the text of a command, in a legacy turn: the     *)
(* capture loop reads audio chunk by chunk, the speech collector splits it *)
(* into blocks and decides where an utterance begins and ends, and an ASR  *)
(* provider turns it into text.  With openai_realtime every chunk goes to  *)
(* the provider's task as it is read and a rejected speech is cleared      *)
(* there; open_ai and xiaomi_aivs are given the utterance when it is over. *)
(* A turn may be aborted; the AIVS request it has begun runs on.           *)
(*                                                                         *)
(* One unit of time is a block of audio.  Audio is the numbers of its      *)
(* blocks in the turn, a text the audio it was made from.  A push is       *)
(* instantaneous: a cooldown that begins in it outlives it.                *)
(***************************************************************************)
EXTENDS Integers, SequencesExt

CONSTANTS
  Providers,                                        \* AsrConfig.provider may be any of these
  ChunkBlocks,                                      \* blocks in a chunk
  PreRoll, Silence, MinSpeech, MaxSpeech, Cooldown, \* CaptureConfig, in blocks; is there a cooldown?
  Attempts,                                         \* retries + 1
  Capacity,                                         \* of the command channel of the realtime task
  MaxChunks, Turns                                  \* bounds on the chunks of a turn and on turns

TurnId == 1 .. Turns
Block == 1 .. MaxChunks * ChunkBlocks
Chunk == [1 .. ChunkBlocks -> BOOLEAN]

ASSUME UtteranceAssumption ==
  /\ Providers \subseteq {"open_ai", "openai_realtime", "xiaomi_aivs"}
  /\ {ChunkBlocks, PreRoll, Attempts, Capacity, MaxChunks, Turns} \subseteq Nat \ {0}
  /\ {Silence, MinSpeech, MaxSpeech} \subseteq Nat /\ Cooldown \in BOOLEAN

VARIABLES
  provider, turn, at,         \* AsrClient, the turn and where it is
  chunks, vad, started,       \* chunks read, SpeechCollector, speech_started
  utterance, rejected,        \* what the capture returned; what the collector turned down
  queue, stream, result,      \* openai_realtime: commands, run_realtime_stream, its oneshot
  tries,                      \* open_ai: attempts begun
  serial, slot, req, cloud, mailbox, reply, \* xiaomi_aivs: lock, ASR_RESULT_TX, requests, dialogs
  outcome                     \* how the turn's command came out

captureVars == <<chunks, vad, started, utterance, rejected>>
realtimeVars == <<queue, stream, result>>
aivsVars == <<serial, slot, req, cloud, mailbox, reply>>
utteranceVars == <<provider, turn, at, captureVars, realtimeVars, tries, aivsVars, outcome>>

Text(t, blocks, whole) == [kind |-> "text", from |-> t, blocks |-> blocks, whole |-> whole]
Nothing(kind) == [kind |-> kind, from |-> 0, blocks |-> {}, whole |-> FALSE]
None == Nothing("none")
Failed == Nothing("asr_error")
Outcome == {Nothing(k) : k \in {"none", "asr_error", "capture_error", "idle"}}
             \cup {Text(t, b, w) : t \in TurnId, b \in SUBSET Block, w \in BOOLEAN}

(* SpeechCollector::new; utterance_ms is the length of the utterance, kept as such. *)
Fresh == [inSpeech |-> FALSE, cooling |-> FALSE, preRoll |-> {}, utterance |-> {},
          voiced |-> 0, silence |-> 0]
Down == [up |-> FALSE, sending |-> FALSE, buffer |-> {}, committed |-> FALSE, delta |-> {}]

UtteranceTypeOK ==
  /\ provider \in Providers /\ turn \in TurnId
  /\ at \in {"connect", "listen", "commit", "wait", "ask", "body", "done"}
  /\ chunks \in 0 .. MaxChunks /\ started \in BOOLEAN
  /\ vad \in [inSpeech : BOOLEAN, cooling : BOOLEAN, preRoll : SUBSET Block,
              utterance : SUBSET Block, voiced : Nat, silence : Nat]
  /\ {utterance, rejected} \subseteq SUBSET Block
  /\ queue \in Seq([kind : {"append", "clear", "commit"}, blocks : SUBSET Block])
  /\ stream \in [up : BOOLEAN, sending : BOOLEAN, buffer : SUBSET Block, committed : BOOLEAN,
                 delta : SUBSET Block]
  /\ {result, outcome} \subseteq Outcome /\ reply \in [TurnId -> Outcome]
  /\ tries \in 0 .. Attempts
  /\ {serial, slot} \subseteq 0 .. Turns /\ mailbox \in [TurnId -> 0 .. Turns] /\ cloud \subseteq TurnId
  /\ req \in [TurnId -> {"none", "queued", "post", "recv", "done"}]

Begin ==
  /\ at = "connect" /\ chunks = 0 /\ vad = Fresh /\ started = FALSE
  /\ utterance = {} /\ rejected = {}
  /\ queue = <<>> /\ stream = Down /\ result = None /\ tries = 0 /\ outcome = None

UtteranceInit ==
  /\ provider \in Providers /\ turn = 1 /\ Begin
  /\ serial = 0 /\ slot = 0 /\ req = [t \in TurnId |-> "none"] /\ cloud = {}
  /\ mailbox = [t \in TurnId |-> 0] /\ reply = [t \in TurnId |-> None]
--------------------------------------------------------------------------------
(* SpeechCollector::push *)

Rolled(v, b) == LET all == v.preRoll \cup {b.id} IN
  IF Cardinality(all) > PreRoll THEN all \ {Min(all)} ELSE all
PreRolls(v, b) == [v EXCEPT !.preRoll = Rolled(v, b)]
Begins(v, b) == [PreRolls(v, b) EXCEPT !.inSpeech = TRUE, !.utterance = Rolled(v, b), !.voiced = 1]
Continues(v, b) == [v EXCEPT !.utterance = @ \cup {b.id},
  !.voiced = IF b.voice THEN @ + 1 ELSE @, !.silence = IF b.voice THEN 0 ELSE @ + 1]
Closes(v) == v.silence >= Silence \/ Cardinality(v.utterance) >= MaxSpeech
Reset == [Fresh EXCEPT !.cooling = Cooldown]
Verdict(v) == [kind |-> IF v.voiced < MinSpeech THEN "rejected" ELSE "utterance",
               blocks |-> v.utterance]

PushBlock(s, b) ==
  LET v == s.vad
      more == Continues(v, b)
  IN CASE ~v.inSpeech /\ v.cooling -> s
       [] ~v.inSpeech /\ ~v.cooling /\ ~b.voice -> [s EXCEPT !.vad = PreRolls(v, b)]
       [] ~v.inSpeech /\ ~v.cooling /\ b.voice ->
            [vad |-> Begins(v, b), events |-> Append(s.events, [kind |-> "start", blocks |-> {}])]
       [] v.inSpeech /\ ~Closes(more) -> [s EXCEPT !.vad = more]
       [] OTHER -> [vad |-> Reset, events |-> Append(s.events, Verdict(more))]

Numbered(c) == [i \in DOMAIN c |-> [id |-> chunks * ChunkBlocks + i, voice |-> c[i]]]

(* The collector and its events after each block of the chunk *)
Pushes(c) ==
  LET after[i \in 0 .. ChunkBlocks] ==
        IF i = 0 THEN [vad |-> vad, events |-> <<>>] ELSE PushBlock(after[i - 1], Numbered(c)[i])
  IN after
Push(c) == Pushes(c)[ChunkBlocks]

CooldownEnds ==
  /\ at = "listen" /\ vad.cooling /\ vad' = [vad EXCEPT !.cooling = FALSE]
  /\ UNCHANGED <<provider, turn, at, chunks, started, utterance, rejected, realtimeVars, tries,
                 aivsVars, outcome>>
--------------------------------------------------------------------------------
(* The capture loops: record_utterance and, for openai_realtime, its streaming form *)

Leave(o) ==                   \* the turn is through with its command; a session is dropped
  /\ at' = "done" /\ outcome' = o
  /\ queue' = <<>> /\ stream' = Down /\ result' = None

Streaming == provider = "openai_realtime"
Appended(c) == [kind |-> "append", blocks |-> {b.id : b \in Range(Numbered(c))}]
Clear == [kind |-> "clear", blocks |-> {}]

(* The events of a push are taken in order, up to the utterance that ends the capture. *)
Taken(events) ==
  LET ends == {i \in DOMAIN events : events[i].kind = "utterance"}
  IN IF ends = {} THEN events ELSE SubSeq(events, 1, Min(ends))

Clears(events) == [i \in 1 .. Cardinality({j \in DOMAIN events : events[j].kind = "rejected"}) |-> Clear]
SentCleared(c, events) == Clears(events) \o <<Appended(c)>>
Sent(c, events) == <<Appended(c)>> \o Clears(events)

(* The command the task has taken to send it, the head of the queue, has left its channel. *)
Room == Len(queue) < Capacity + (IF stream.sending THEN 1 ELSE 0)

StartedAfter(events) == IF events = <<>> THEN started ELSE Last(events).kind = "start"

Heard(c, then) ==
  LET pushed == Push(c)
      events == Taken(pushed.events)
      ends == events # <<>> /\ Last(events).kind = "utterance"
  IN /\ at = "listen" /\ chunks < MaxChunks
     /\ chunks' = chunks + 1 /\ vad' = pushed.vad
     /\ started' = StartedAfter(events)
     /\ rejected' = rejected \cup UNION {e.blocks : e \in {x \in Range(events) : x.kind = "rejected"}}
     /\ utterance' = IF ends THEN Last(events).blocks ELSE utterance
     /\ at' = IF ends THEN then ELSE "listen"

HearBatch(c) ==
  /\ ~Streaming /\ Heard(c, "ask")
  /\ UNCHANGED <<provider, turn, realtimeVars, tries, aivsVars, outcome>>
HearStreaming(c) ==
  /\ Streaming /\ stream.up /\ Room /\ Heard(c, "commit")
  /\ queue' = queue \o Sent(c, Taken(Push(c).events))
  /\ UNCHANGED <<provider, turn, stream, result, tries, aivsVars, outcome>>
Hear(c) == HearBatch(c) \/ HearStreaming(c)

(* The broadcast of the VPM monitor drops chunks when the turn is slow. *)
Lagged ==
  /\ at = "listen" /\ chunks < MaxChunks /\ chunks' = chunks + 1
  /\ UNCHANGED <<provider, turn, at, vad, started, utterance, rejected, realtimeVars, tries,
                 aivsVars, outcome>>

(* The recorder or the monitor ends, or the session no longer takes audio. *)
CaptureFails ==
  /\ at = "listen" /\ Leave(Nothing("capture_error"))
  /\ UNCHANGED <<provider, turn, captureVars, tries, aivsVars>>

(* The timer is armed while no speech has started. *)
IdleTimeout ==
  /\ at = "listen" /\ ~started /\ Leave(Nothing("idle"))
  /\ UNCHANGED <<provider, turn, captureVars, tries, aivsVars>>
--------------------------------------------------------------------------------
(* openai_realtime *)

Connect ==
  /\ at = "connect"
  /\ \/ at' = "listen" /\ stream' = [Down EXCEPT !.up = Streaming] /\ UNCHANGED <<queue, result, outcome>>
     \/ Streaming /\ Leave(Failed)
  /\ UNCHANGED <<provider, turn, captureVars, tries, aivsVars>>

(* commit_and_transcribe: the command is sent without a deadline, its answer awaited with one. *)
CommitWaits ==
  /\ at = "commit" /\ stream.up /\ Room
  /\ queue' = Append(queue, [kind |-> "commit", blocks |-> {}]) /\ at' = "wait"
  /\ UNCHANGED <<stream, result, outcome>>
CommitOnly ==
  /\ CommitWaits
  /\ UNCHANGED <<provider, turn, captureVars, tries, aivsVars>>
Commit ==
  /\ \/ CommitWaits
     \/ at = "commit" /\ ~stream.up /\ Leave(Failed)
  /\ UNCHANGED <<provider, turn, captureVars, tries, aivsVars>>

Transcript ==
  /\ at = "wait" /\ Streaming
  /\ Leave(IF result = None THEN Failed ELSE result)       \* the oneshot, or the timeout
  /\ UNCHANGED <<provider, turn, captureVars, tries, aivsVars>>

StreamEnds(r) ==
  /\ result' = IF result = None THEN r ELSE result
  /\ stream' = [stream EXCEPT !.up = FALSE, !.sending = FALSE]

StreamTakes ==                \* clear forgets the deltas before it is sent
  /\ stream.up /\ ~stream.sending /\ queue # <<>>
  /\ stream' = [stream EXCEPT !.sending = TRUE, !.delta = IF Head(queue).kind = "clear" THEN {} ELSE @]
  /\ UNCHANGED <<provider, turn, at, captureVars, queue, result, tries, aivsVars, outcome>>

(* The websocket has taken the command: as late as the provider reads, for no send has a deadline. *)
StreamSent ==
  /\ stream.up /\ stream.sending /\ queue # <<>> /\ queue' = Tail(queue)
  /\ LET c == Head(queue)
         sent == [stream EXCEPT !.sending = FALSE]
     IN \/ c.kind = "append" /\ stream' = [sent EXCEPT !.buffer = @ \cup c.blocks] /\ UNCHANGED result
        \/ c.kind = "clear" /\ stream' = [sent EXCEPT !.buffer = {}] /\ UNCHANGED result
        \/ c.kind = "commit" /\ stream' = [sent EXCEPT !.committed = TRUE] /\ UNCHANGED result
        \/ StreamEnds(Failed)                               \* the websocket takes no more
  /\ UNCHANGED <<provider, turn, at, captureVars, tries, aivsVars, outcome>>

StreamMessage ==              \* not read while a command is being sent
  /\ stream.up /\ ~stream.sending
  /\ \/ \E b \in stream.buffer \ stream.delta :              \* transcription.delta
          stream' = [stream EXCEPT !.delta = {x \in stream.buffer : x <= b}] /\ UNCHANGED result
     \/ stream.committed /\ StreamEnds(Text(turn, stream.buffer, TRUE))
     \/ StreamEnds(Failed)                                  \* error, failed, close, unreadable
     \/ StreamEnds(IF stream.delta = {} THEN Failed ELSE Text(turn, stream.delta, FALSE))
  /\ UNCHANGED <<provider, turn, at, captureVars, queue, tries, aivsVars, outcome>>
--------------------------------------------------------------------------------
(* open_ai: transcribe_pcm; only the head of the answer has a deadline *)

AskOpenAi ==
  /\ provider = "open_ai" /\ at = "ask" /\ tries < Attempts /\ tries' = tries + 1
  /\ \/ at' = "body" /\ UNCHANGED <<realtimeVars, outcome>>
     \/ IF tries' < Attempts THEN UNCHANGED <<at, realtimeVars, outcome>> ELSE Leave(Failed)
  /\ UNCHANGED <<provider, turn, captureVars, aivsVars>>

BodyRead ==
  /\ at = "body"
  /\ \/ Leave(Text(turn, utterance, TRUE))
     \/ IF tries < Attempts THEN at' = "ask" /\ UNCHANGED <<realtimeVars, outcome>> ELSE Leave(Failed)
  /\ UNCHANGED <<provider, turn, captureVars, tries, aivsVars>>
--------------------------------------------------------------------------------
(* xiaomi_aivs: transcribe_xiaomi_aivs_blocking, on a thread an abort does not reach *)

AskAivs ==
  /\ provider = "xiaomi_aivs" /\ at = "ask"
  /\ at' = "wait" /\ req' = [req EXCEPT ![turn] = "queued"]
  /\ UNCHANGED <<provider, turn, captureVars, realtimeVars, tries, serial, slot, cloud, mailbox,
                 reply, outcome>>

AivsReturns(t, r) ==
  /\ req' = [req EXCEPT ![t] = "done"] /\ reply' = [reply EXCEPT ![t] = r]
  /\ slot' = 0 /\ serial' = 0

AivsBegins(t) ==              \* with the token read, or without
  \/ slot' = t /\ req' = [req EXCEPT ![t] = "post"] /\ UNCHANGED reply /\ serial' = t
  \/ AivsReturns(t, Failed)
AivsEntersUnserialised(t) ==
  /\ req[t] = "queued" /\ AivsBegins(t)
  /\ UNCHANGED <<provider, turn, at, captureVars, realtimeVars, tries, cloud, mailbox, outcome>>
AivsEnters(t) ==
  /\ req[t] = "queued" /\ serial = 0 /\ AivsBegins(t)
  /\ UNCHANGED <<provider, turn, at, captureVars, realtimeVars, tries, cloud, mailbox, outcome>>

AivsPosts(t) ==               \* Recognize, the audio, RecognizeStreamFinished: any may be refused
  /\ req[t] = "post"
  /\ \/ req' = [req EXCEPT ![t] = "recv"] /\ cloud' = cloud \cup {t} /\ UNCHANGED <<reply, slot, serial>>
     \/ AivsReturns(t, Failed) /\ cloud' \in {cloud, cloud \cup {t}}
  /\ UNCHANGED <<provider, turn, at, captureVars, realtimeVars, tries, mailbox, outcome>>

AivsReceives(t) ==            \* the first final result, or wait_after_finish_ms
  /\ req[t] = "recv"
  /\ AivsReturns(t, IF mailbox[t] = 0 THEN Failed ELSE Text(mailbox[t], {}, TRUE))
  /\ UNCHANGED <<provider, turn, at, captureVars, realtimeVars, tries, cloud, mailbox, outcome>>

(* handle_instruction: a final result names its dialog, the receiver is whoever is in the slot. *)
CloudAnswers(d) ==
  /\ d \in cloud /\ cloud' = cloud \ {d}
  /\ mailbox' = IF slot # 0 /\ mailbox[slot] = 0 THEN [mailbox EXCEPT ![slot] = d] ELSE mailbox
  /\ UNCHANGED <<provider, turn, at, captureVars, realtimeVars, tries, serial, slot, req, reply,
                 outcome>>

Join ==
  /\ at = "wait" /\ provider = "xiaomi_aivs" /\ req[turn] = "done" /\ Leave(reply[turn])
  /\ UNCHANGED <<provider, turn, captureVars, tries, aivsVars>>
--------------------------------------------------------------------------------
(* The turn is over, or aborted by a wake word: the next begins. *)
NextTurn ==
  /\ turn < Turns /\ turn' = turn + 1
  /\ at' = "connect" /\ chunks' = 0 /\ vad' = Fresh /\ started' = FALSE
  /\ utterance' = {} /\ rejected' = {}
  /\ queue' = <<>> /\ stream' = Down /\ result' = None /\ tries' = 0 /\ outcome' = None
  /\ UNCHANGED <<provider, aivsVars>>

Aivs(t) == AivsEnters(t) \/ AivsPosts(t) \/ AivsReceives(t)
Ask == AskOpenAi \/ AskAivs

UtteranceNext ==
  \/ NextTurn \/ Connect
  \/ (\E c \in Chunk : Hear(c)) \/ CooldownEnds \/ Lagged \/ CaptureFails \/ IdleTimeout
  \/ Commit \/ Transcript \/ StreamTakes \/ StreamSent \/ StreamMessage
  \/ Ask \/ BodyRead
  \/ (\E t \in TurnId : Aivs(t)) \/ Join \/ \E d \in TurnId : CloudAnswers(d)

(* The tasks of the program go on and its deadlines pass; what the microphone and a provider do, that it
   reads what it is sent included, is not assumed. *)
UtteranceFairness ==
  /\ WF_utteranceVars(Commit) /\ WF_utteranceVars(Transcript) /\ WF_utteranceVars(StreamTakes)
  /\ WF_utteranceVars(Ask) /\ WF_utteranceVars(Join)
  /\ \A t \in TurnId : WF_utteranceVars(Aivs(t))

UtteranceSpec == UtteranceInit /\ [][UtteranceNext]_utteranceVars /\ UtteranceFairness
--------------------------------------------------------------------------------
(* A complete transcript covers every block of the utterance the collector took, pre-roll included,
   and nothing of a speech it rejected: what the provider's task was sent, in order, adds up to
   what the collector heard (capture.rs append, push, clear; asr.rs Clear and Commit). *)
TranscriptIsTheUtterance ==
  at = "done" /\ outcome.kind = "text" /\ outcome.whole /\ outcome.from = turn
              /\ provider = "openai_realtime"
    => utterance \subseteq outcome.blocks /\ outcome.blocks \cap rejected = {}

(* The AIVS request that waits for a result is the one in the slot of the SDK's callback: requests
   of an aborted turn and of the next never take the slot from each other (the serial lock). *)
SlotIsTheRequests == \A t \in TurnId : req[t] \in {"post", "recv"} => slot = t /\ serial = t

(* The provider has stopped reading: a send that does not end, behind it a channel without room. *)
Stalled == at = "commit" /\ stream.up /\ stream.sending /\ ~Room

(* A turn that has its utterance gets a text or an error, unless the provider stops reading before the
   channel has taken the commit, the body of an open_ai answer never ends, or a wake word replaces the
   turn: these three waits have no deadline. *)
CommandAnswered ==
  \A t \in TurnId :
    (turn = t /\ at \in {"commit", "wait", "ask"}) ~> (turn # t \/ at \in {"done", "body"} \/ Stalled)
================================================================================
