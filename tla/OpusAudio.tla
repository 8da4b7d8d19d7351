----------------------------- MODULE OpusAudio -----------------------------
(***************************************************************************)
(* The two audio directions of one WebRTC attempt (webrtc_session.rs).     *)
(*                                                                         *)
(* Uplink: the capture task offers its PCM chunks to a bounded queue; the  *)
(* Opus writer takes them, upsamples 16 kHz to 48 kHz by interpolating     *)
(* from the previous sample, keeps the newest MaxBuffered samples and      *)
(* encodes one frame per tick.  Downlink: the decoder reads RTP packets,   *)
(* drops late and repeated ones by their 16 bit sequence number, conceals  *)
(* up to three missing packets and plays the rest.                         *)
(*                                                                         *)
(* One chunk holds one input sample, named by its number; an upsampled     *)
(* value is named by its position on the 48 kHz line.  Packets are named   *)
(* by their distance from the first one played, which is packet 1; the     *)
(* decoder sees it modulo SeqRange.                                        *)
(***************************************************************************)
EXTENDS Integers, Sequences, SequencesExt

CONSTANTS
  MaxChunks,      \* bound: chunks the microphone delivers
  QueueCapacity,  \* WEBRTC_AUDIO_QUEUE_CAPACITY
  MaxBuffered,    \* MAX_OPUS_BUFFERED_SAMPLES
  Frame,          \* OPUS_INPUT_SAMPLES
  MaxPackets,     \* bound: RTP packets of the remote track
  SeqRange        \* 2^16: the sequence numbers of RTP

ASSUME AudioAssumption ==
  {MaxChunks, QueueCapacity, MaxBuffered, Frame, MaxPackets} \subseteq Nat \ {0}

ASSUME SeqAssumption == SeqRange \in Nat \ {0} /\ SeqRange <= 65536 /\ SeqRange % 2 = 0

VARIABLES
  captured,  \* chunks the microphone has delivered
  pcm,       \* the queue of chunks between capture and writer
  taken,     \* the chunks the writer has upsampled, in order
  samples,   \* the writer's buffer of upsampled positions
  flushed,   \* the last sample has been held after the queue closed
  last,      \* the newest packet played, 0 before the first
  frames     \* packets played or concealed

uplink == <<captured, pcm, taken, samples, flushed>>
downlink == <<last, frames>>

AudioInit ==
  /\ captured = 0
  /\ pcm = <<>>
  /\ taken = <<>>
  /\ samples = <<>>
  /\ flushed = FALSE
  /\ last = 0
  /\ frames = 0

----------------------------------------------------------------------------
\* The positions between input sample k and the next one.
Phases(k) == <<3 * k, 3 * k + 1, 3 * k + 2>>

\* try_send: a full queue drops the newest chunk.
Offer(queue, chunk) ==
  IF Len(queue) < QueueCapacity THEN Append(queue, chunk) ELSE queue

\* The first sample only becomes the previous one.
Upsample(output, past) ==
  IF past = <<>> THEN output ELSE output \o Phases(Last(past))

Hold(output, past) ==
  IF past = <<>> THEN output ELSE output \o [i \in 1 .. 3 |-> 3 * Last(past)]

\* A slip: the newest go.
TrimNewest(output) == SubSeq(output, 1, IF Len(output) > MaxBuffered THEN MaxBuffered ELSE Len(output))

\* drain(..stale): the oldest go.
Trim(output) ==
  LET stale == IF Len(output) > MaxBuffered THEN Len(output) - MaxBuffered ELSE 0
  IN  SubSeq(output, stale + 1, Len(output))

Capture ==
  /\ captured < MaxChunks
  /\ captured' = captured + 1
  /\ pcm' = Offer(pcm, captured + 1)
  /\ UNCHANGED <<taken, samples, flushed, downlink>>

TakeChunk ==
  /\ pcm # <<>>
  /\ pcm' = Tail(pcm)
  /\ samples' = Trim(Upsample(samples, taken))
  /\ taken' = Append(taken, Head(pcm))
  /\ UNCHANGED <<captured, flushed, downlink>>

\* The queue is empty and its sender is gone.
Flush ==
  /\ pcm = <<>>
  /\ ~flushed
  /\ flushed' = TRUE
  /\ samples' = Hold(samples, taken)
  /\ UNCHANGED <<captured, pcm, taken, downlink>>

\* One tick: a frame of what is there, the rest silence.  The select is biased,
\* so the queue is empty.
EncodeFrame ==
  /\ pcm = <<>>
  /\ samples # <<>>
  /\ samples' = SubSeq(samples, Frame + 1, Len(samples))
  /\ UNCHANGED <<captured, pcm, taken, flushed, downlink>>

----------------------------------------------------------------------------
\* wrapping_sub of two sequence numbers.
Delta(i) == (i - last) % SeqRange

\* A slip: only a repeated packet is dropped.
OnlyRepeated(i) == last # 0 /\ Delta(i) = 0

\* Late or repeated: nothing is played for it.
Stale(i) == last # 0 /\ (Delta(i) = 0 \/ Delta(i) >= SeqRange \div 2)

Conceal(i) == IF last = 0 THEN 0 ELSE IF Delta(i) - 1 < 3 THEN Delta(i) - 1 ELSE 3

\* The network loses, repeats and reorders packets, but delays none by more
\* than half of the sequence numbers.
Arrivals == IF last = 0 THEN {1} ELSE last - SeqRange \div 2 .. MaxPackets

Play(i) ==
  /\ ~Stale(i)
  /\ frames' = frames + Conceal(i) + 1
  /\ last' = i
  /\ UNCHANGED uplink

----------------------------------------------------------------------------
\* What the microphone gave on the 48 kHz line, chunks the queue dropped left out: three
\* phases of every sample but the last, which is held when the queue has closed.
Line48(past) == [i \in 1 .. 3 * (Len(past) - 1) |-> (3 * past[(i - 1) \div 3 + 1]) + ((i - 1) % 3)]
Stream == Line48(taken) \o (IF flushed THEN [i \in 1 .. 3 |-> 3 * Last(taken)] ELSE <<>>)

\* The writer's buffer is always the newest part of what the microphone gave,
\* in order and without a gap: after a stall it is the old audio that is lost
\* (trim_stale_input).
BufferIsNewest == taken # <<>> => IsSuffix(samples, Stream)

\* A packet is never played after a newer one, across the wrap of the sequence
\* numbers and any loss (run_opus_decoder).
PlayedInOrder == [][last' # last => last' > last]_last

=============================================================================
