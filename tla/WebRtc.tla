------------------------------- MODULE WebRtc -------------------------------
(***************************************************************************)
(* One attempt to run a Qwen session over WebRTC (run_once of              *)
(* webrtc_session.rs): the peer is connected, session.update acknowledged, *)
(* the writer started, the wake word awaited, and in the end everything    *)
(* taken down.  Beside it run the callbacks of the peer (data channel,     *)
(* messages, state, remote track), the Opus writer, the capture task and   *)
(* the decoder.  The conversation itself is the module Conversation: here  *)
(* its event loop consumes events until it ends.                           *)
(***************************************************************************)
EXTENDS OpusAudio

CONSTANT MaxEvents   \* bound: events of the peer and the server that wait at a time

ASSUME WebRtcAssumption == MaxEvents \in Nat \ {0}

VARIABLES
  at,        \* where run_once is
  result,    \* what it returned: "none", "ok", "err"
  lost,      \* it returned through the `?` of wait_for_activation
  cancel, activated,  \* the watch channels of the session handle
  peer,      \* "none", "open", "closed"
  negotiated,         \* the remote description is set: the peer's callbacks may come
  rtcp,      \* the task that reads RTCP is running
  events,    \* event_rx
  channel,   \* the txt DataChannel: "none", "queued", "taken"
  track,     \* the remote track: "none", "arriving", "arrived"
  decoder, handle,    \* the decoder task; its handle is in audio_tasks_rx
  writer, stopWriter, \* the Opus writer; its cancel channel was set or dropped
  capture,   \* the capture task
  player,    \* the PcmPlayer: "none", "open", "closed"
  overdue    \* "peer", "capture": what did not end within its timeout of the teardown

signals == <<cancel, activated>>
peerVars == <<peer, negotiated, rtcp, overdue>>
remote == <<channel, track>>
decoding == <<decoder, handle>>
media == <<writer, stopWriter, capture>>
vars == <<at, result, lost, signals, peerVars, events, remote, decoding, media,
          player, uplink, downlink>>

\* A message as the client decodes it; "other" is a type it need not know.  An
\* AudioError and a failed or closed connection are one "fatal" event: they end every
\* wait alike.
Acknowledged == {"updated"}
ServerError == {"error"}
Message == Acknowledged \cup ServerError \cup {"other", "garbage"}
Event == Message \cup {"connection", "fatal"}

Init ==
  /\ AudioInit
  /\ at = "spawn" /\ result = "none" /\ lost = FALSE
  /\ cancel = FALSE /\ activated = FALSE
  /\ peer = "none" /\ negotiated = FALSE /\ rtcp = FALSE
  /\ events = <<>> /\ overdue = {}
  /\ channel = "none" /\ track = "none"
  /\ decoder = "none" /\ handle = FALSE
  /\ writer = "none" /\ stopWriter = FALSE /\ capture = "none"
  /\ player = "none"

RequestCancel == ~cancel /\ cancel' = TRUE /\ UNCHANGED activated
Activate == ~activated /\ activated' = TRUE /\ UNCHANGED cancel

\* What the owner of the session handle does.
Owner ==
  /\ RequestCancel \/ Activate
  /\ UNCHANGED <<at, result, lost, peerVars, events, remote, decoding, media, player,
                 uplink, downlink>>

----------------------------------------------------------------------------
(* The attempt: connecting.                                                *)

\* run_once holds nothing yet but the player, and with it ends.
Return(v) ==
  /\ at' = "done"
  /\ result' = v
  /\ player' = IF player = "open" THEN "closed" ELSE player

\* setup_if_running starts no player once the session is cancelled.
SpawnPlayer ==
  /\ at = "spawn"
  /\ \/ ~cancel /\ at' = "connect" /\ player' = "open" /\ UNCHANGED result
     \/ Return("err")
  /\ UNCHANGED <<lost, signals, peerVars, events, remote, decoding, media, uplink, downlink>>

\* peer.close() under its timeout: a peer that does not close is left as it is.
Close ==
  \/ peer' = "closed" /\ UNCHANGED overdue
  \/ peer' = "open" /\ overdue' = overdue \cup {"peer"}

\* The peer, its sender and the task that reads RTCP; new_peer_connection may fail,
\* or add_track, and the peer is closed.
CreatePeer ==
  /\ at = "connect"
  /\ \/ /\ peer' = "open" /\ rtcp' = TRUE
        /\ at' = "gather" /\ UNCHANGED <<result, player, overdue>>
     \/ UNCHANGED <<peer, rtcp, overdue>> /\ Return("err")
     \/ Close /\ UNCHANGED rtcp /\ Return("err")
  /\ UNCHANGED <<lost, signals, negotiated, events, remote, decoding, media, uplink, downlink>>

\* A slip: the error is returned as it comes.
ConnectAbandoned == UNCHANGED <<rtcp, peer, overdue>> /\ Return("err")

\* setup_result is an error: RTCP is stopped and the peer closed.
ConnectFails ==
  /\ rtcp' = FALSE
  /\ Close
  /\ Return("err")

\* cancellation_aware around an operation: a cancel or the deadline may end it
\* at any point.
Gather ==
  /\ at = "gather"
  /\ \/ ~cancel /\ at' = "sdp" /\ UNCHANGED <<result, player, rtcp, peer, overdue>>
     \/ ConnectFails
  /\ UNCHANGED <<lost, signals, negotiated, events, remote, decoding, media, uplink, downlink>>

ExchangeSdp ==
  /\ at = "sdp"
  /\ \/ ~cancel /\ at' = "txt" /\ negotiated' = TRUE /\ UNCHANGED <<result, player, rtcp, peer, overdue>>
     \/ UNCHANGED negotiated /\ ConnectFails
  /\ UNCHANGED <<lost, signals, events, remote, decoding, media, uplink, downlink>>

----------------------------------------------------------------------------
(* The callbacks of the peer.                                              *)

Teardown == {"stopCapture", "closePeer", "joinWriter", "stopPlayer"}
Over == Teardown \cup {"done"}

OnDataChannel ==
  /\ peer = "open" /\ negotiated
  /\ channel = "none"
  /\ channel' = "queued"
  /\ UNCHANGED <<at, result, lost, signals, peerVars, events, track, decoding, media, player,
                 uplink, downlink>>

\* A message of the txt channel, its text decoded by whoever takes it; bytes that
\* are no UTF-8 become an AudioError.
OnMessage(e) ==
  /\ channel # "none"
  /\ e \in Message \cup {"fatal"}

OnStateChange(e) == e \in {"fatal", "connection"}

\* Nobody reads event_rx from the teardown on: what comes then is not kept.
PeerEvent(e) ==
  /\ peer = "open" /\ negotiated
  /\ at \notin Over
  /\ Len(events) < MaxEvents
  /\ (OnMessage(e) \/ OnStateChange(e))
  /\ events' = Append(events, e)
  /\ UNCHANGED <<at, result, lost, signals, peerVars, remote, decoding, media, player,
                 uplink, downlink>>

\* The callback of a remote track is a task of its own: it may still be on its
\* way when the peer is closed.
TrackArrives ==
  /\ peer = "open" /\ negotiated
  /\ track = "none"
  /\ track' = "arriving"
  /\ UNCHANGED <<at, result, lost, signals, peerVars, events, channel, decoding, media, player,
                 uplink, downlink>>

OnTrack ==
  /\ track = "arriving"
  /\ track' = "arrived"
  /\ decoder' = "running"
  /\ handle' = TRUE
  /\ UNCHANGED <<at, result, lost, signals, peerVars, events, channel, media, player,
                 uplink, downlink>>

----------------------------------------------------------------------------
(* The attempt: setting the session up.                                    *)

Setup == {"txt", "first", "update", "updated"}

\* teardown_after(result, resources)
TearDown(v) == at' = "stopCapture" /\ result' = v /\ events' = <<>>
SetupFails == TearDown("err")

Fatal(e) == e = "fatal"

\* A slip: the waits of the setup end on a cancel only.
WithoutDeadline ==
  /\ at \in Setup
  /\ cancel
  /\ SetupFails
  /\ UNCHANGED <<lost, signals, peerVars, remote, decoding, media, player,
                 uplink, downlink>>

\* Cancelled, timed out, or the operation itself failed.
SetupEndsBadly ==
  /\ at \in Setup
  /\ SetupFails
  /\ UNCHANGED <<lost, signals, peerVars, remote, decoding, media, player,
                 uplink, downlink>>

TakeChannel ==
  /\ at = "txt"
  /\ ~cancel
  /\ channel = "queued"
  /\ channel' = "taken"
  /\ at' = "first"
  /\ UNCHANGED <<result, lost, signals, peerVars, events, track, decoding, media, player,
                 uplink, downlink>>

\* Any message the decoder of events accepts will do, an error too.
FirstEvent ==
  /\ at = "first"
  /\ ~cancel
  /\ events # <<>>
  /\ LET e == Head(events) IN
       \/ (Fatal(e) \/ e = "garbage") /\ SetupFails
       \/ e = "connection" /\ events' = Tail(events) /\ UNCHANGED <<at, result>>
       \/ /\ e \in Message \ {"garbage"}
          /\ events' = Tail(events) /\ at' = "update" /\ UNCHANGED result
  /\ UNCHANGED <<lost, signals, peerVars, remote, decoding, media, player,
                 uplink, downlink>>

SendUpdate ==
  /\ at = "update"
  /\ ~cancel
  /\ at' = "updated"
  /\ UNCHANGED <<result, lost, signals, peerVars, events, remote, decoding, media, player,
                 uplink, downlink>>

\* The writer is started before the wake word: the line is kept alive by silence.
SessionUpdated ==
  /\ at = "updated"
  /\ ~cancel
  /\ events # <<>>
  /\ LET e == Head(events) IN
       \/ (Fatal(e) \/ e = "garbage" \/ e \in ServerError) /\ SetupFails /\ UNCHANGED writer
       \/ /\ e \in {"connection", "other"}
          /\ events' = Tail(events) /\ UNCHANGED <<at, result, writer>>
       \/ /\ e \in Acknowledged
          /\ events' = Tail(events) /\ at' = "wait" /\ writer' = "running" /\ UNCHANGED result
  /\ UNCHANGED <<lost, signals, peerVars, remote, decoding, stopWriter, capture, player,
                 uplink, downlink>>

----------------------------------------------------------------------------
(* The attempt: waiting for the wake word, without a deadline.             *)

\* Looked at first, before a cancel.
Activated ==
  /\ at = "wait"
  /\ activated
  /\ at' = "live"
  /\ capture' = "running"
  /\ UNCHANGED <<result, lost, signals, peerVars, events, remote, decoding, writer, stopWriter,
                 player, uplink, downlink>>

\* A slip: the wait listens to the wake word and the peer only.
WaitUncancelled == FALSE

WaitCancelled ==
  /\ at = "wait"
  /\ cancel
  /\ TearDown("ok")
  /\ UNCHANGED <<lost, signals, peerVars, remote, decoding, media, player,
                 uplink, downlink>>

\* An event while waiting.  On an error the `?` drops what the attempt holds: the
\* player and the writer's cancel channel; the peer is not closed and the tasks
\* that read from it are left to themselves.
WaitEvent ==
  /\ at = "wait"
  /\ ~cancel /\ ~activated
  /\ events # <<>>
  /\ \/ /\ Head(events) \in {"connection", "other", "updated"}
        /\ events' = Tail(events)
        /\ UNCHANGED <<at, result, lost, stopWriter, player>>
     \/ /\ Fatal(Head(events)) \/ Head(events) \in ServerError \cup {"garbage"}
        /\ events' = <<>>
        /\ lost' = TRUE
        /\ stopWriter' = TRUE
        /\ Return("err")
  /\ UNCHANGED <<signals, peerVars, remote, decoding, writer, capture, uplink, downlink>>

----------------------------------------------------------------------------
(* The attempt: the conversation, and the teardown.                        *)

\* The event loop takes the messages; a cancel, which is looked at first, a failure or
\* its own decision ends it.
Loop ==
  /\ at = "live"
  /\ \/ /\ ~cancel /\ events # <<>> /\ ~Fatal(Head(events))
        /\ events' = Tail(events)
        /\ UNCHANGED <<at, result>>
     \/ \E v \in {"ok", "err"} : TearDown(v)
  /\ UNCHANGED <<lost, signals, peerVars, remote, decoding, media, player,
                 uplink, downlink>>

\* The writer is told to stop, the capture task aborted and joined, or left after the
\* timeout.
StopCapture ==
  /\ at = "stopCapture"
  /\ stopWriter' = TRUE
  /\ \/ capture' = (IF capture = "running" THEN "ended" ELSE capture) /\ UNCHANGED overdue
     \/ capture = "running" /\ overdue' = overdue \cup {"capture"} /\ UNCHANGED capture
  /\ at' = "closePeer"
  /\ UNCHANGED <<result, lost, signals, peer, negotiated, rtcp, events, remote, decoding, writer,
                 player, uplink, downlink>>

ClosePeer ==
  /\ at = "closePeer"
  /\ Close
  /\ at' = "joinWriter"
  /\ UNCHANGED <<result, lost, signals, negotiated, rtcp, events, remote, decoding, media,
                 player, uplink, downlink>>

\* Joined, or aborted after the timeout; then RTCP is stopped, and the decoder whose
\* handle is there aborted, its end awaited for as long as the timeout only.
JoinWriter ==
  /\ at = "joinWriter"
  /\ writer' = IF writer = "running" THEN "ended" ELSE writer
  /\ rtcp' = FALSE
  /\ handle' = FALSE
  /\ \/ UNCHANGED decoder
     \/ handle /\ decoder = "running" /\ decoder' = "ended"
  /\ at' = "stopPlayer"
  /\ UNCHANGED <<result, lost, signals, peer, negotiated, overdue, events, remote, stopWriter, capture,
                 player, uplink, downlink>>

\* The attempt failed if a step of the teardown did, the writer's and the player's own
\* included.
StopPlayer ==
  /\ at = "stopPlayer"
  /\ (overdue = {} /\ Return(result)) \/ Return("err")
  /\ UNCHANGED <<lost, signals, peerVars, events, remote, decoding, media, uplink, downlink>>

----------------------------------------------------------------------------
(* The tasks beside it.                                                    *)

\* A chunk, or the end of the task: the microphone failed or the writer is gone.
CaptureStep ==
  /\ capture = "running"
  /\ \/ writer = "running" /\ Capture /\ UNCHANGED capture
     \/ capture' = "ended" /\ UNCHANGED <<uplink, downlink>>
  /\ UNCHANGED <<at, result, lost, signals, peerVars, events, remote, decoding, writer,
                 stopWriter, player>>

WriterStep ==
  /\ writer = "running"
  /\ ~stopWriter
  /\ \/ TakeChunk
     \/ capture = "ended" /\ Flush
     \/ EncodeFrame
  /\ UNCHANGED <<at, result, lost, signals, peerVars, events, remote, decoding, media, player>>

\* Told to stop, or write_sample failed.
WriterEnds ==
  /\ writer = "running"
  /\ writer' = "ended"
  /\ UNCHANGED <<at, result, lost, signals, peerVars, events, remote, decoding, stopWriter,
                 capture, player, uplink, downlink>>

\* Played; a suppressed block is dropped without a word, a full queue or a closed
\* player ends the decoder.
Decode ==
  /\ decoder = "running"
  /\ peer = "open"
  /\ player = "open"
  /\ \E i \in Arrivals : Play(i)
  /\ UNCHANGED <<at, result, lost, signals, peerVars, events, remote, decoding, media, player>>

\* The track is closed, the payload cannot be decoded, or the player takes no more.
DecoderFails ==
  /\ decoder = "running"
  /\ decoder' = "ended"
  /\ events' = IF at \in Over THEN events ELSE Append(events, "fatal")
  /\ UNCHANGED <<at, result, lost, signals, peerVars, remote, handle, media, player,
                 uplink, downlink>>

----------------------------------------------------------------------------
Attempt ==
  \/ SpawnPlayer \/ CreatePeer \/ Gather \/ ExchangeSdp
  \/ TakeChannel \/ FirstEvent \/ SendUpdate \/ SessionUpdated \/ SetupEndsBadly
  \/ Activated \/ WaitCancelled \/ WaitEvent
  \/ Loop \/ StopCapture \/ ClosePeer \/ JoinWriter \/ StopPlayer

Callback ==
  OnDataChannel \/ (\E e \in Event : PeerEvent(e)) \/ TrackArrives \/ OnTrack

Task ==
  CaptureStep \/ WriterStep \/ WriterEnds \/ Decode \/ DecoderFails

Next == Owner \/ Attempt \/ Callback \/ Task

\* The attempt is one task and its waits have deadlines, but for the wake word; a
\* task that was told to stop, or whose track is closed, ends; a callback under
\* way is run.
Spec ==
  /\ Init /\ [][Next]_vars
  /\ WF_vars(Attempt)
  /\ WF_vars(OnTrack)
  /\ WF_vars(stopWriter /\ WriterEnds)
  /\ WF_vars(peer = "closed" /\ DecoderFails)

----------------------------------------------------------------------------
\* Once the peer and the server fall silent, setting up ends in the wait for the
\* wake word or with the attempt, whatever they left undone before (the deadlines
\* of connect_webrtc and of the waits before session.updated).  Every message
\* starts the deadline of such a wait anew: from a server that never stops, only a
\* cancel gets the attempt back.
Silence == [][\A e \in Event : ~PeerEvent(e)]_vars
SetupEnds ==
  <>Silence => ((at \in Setup \cup {"gather", "sdp"}) ~> (at \in {"wait", "live", "done"}))

\* A cancelled attempt comes to its end from wherever it is, the wait for the
\* wake word included, and however fast the server goes on sending.
CancelEndsAttempt == cancel ~> (at = "done")

\* Of an attempt that has returned no writer and no player is left, and its
\* microphone, its peer and the tasks that read from it only where their timeout
\* had run out, which a result "ok" excludes, or (the peer) where the attempt was
\* lost through the `?` of the wait.  A track whose callback was under way while
\* the decoders were stopped is no exception.
Gone ==
  /\ writer # "running" /\ player # "open"
  /\ capture = "running" => "capture" \in overdue
  /\ lost \/ (~rtcp /\ (peer = "open" \/ decoder = "running" => "peer" \in overdue))
  /\ result = "ok" => ~lost /\ overdue = {}
NothingOutlives == at = "done" ~> [](at = "done" /\ Gone)
=============================================================================
