---------------------------- MODULE Conversation ------------------------------
(***************************************************************************)
(* One live conversation of a native Qwen session: the select loop of      *)
(* run_event_loop, its deadlines, its function calls and their budget, the *)
(* SessionMachine it moves, and the Qwen service at the other end of the   *)
(* ordered "txt" DataChannel.                                              *)
(*                                                                         *)
(* A response is its number, a function call the pair of its response and  *)
(* its place in it.  Deadlines are armed or not: an armed one may pass at  *)
(* any moment, so every order of timers and events is explored.  Audio     *)
(* played arms the drain deadline again, and every event the response      *)
(* deadline; the events the loop has no other use for are "chatter".  The  *)
(* service is external: it keeps the order of its events, cancels its      *)
(* response when the user speaks or the client asks, and owes a response   *)
(* to a finished utterance or to response.create.                          *)
(***************************************************************************)
EXTENDS Integers, Sequences, FiniteSets, SequencesExt

CONSTANTS
  MaxIterations, MaxCalls, Grace,   \* max_tool_iterations, max_tool_calls, TOOL_BUDGET_EXHAUSTED_GRACE
  MaxResponses, MaxBatch,           \* bounds on responses, and on the calls of one
  MaxTurns, MaxWakes,               \* bounds on utterances and wake words
  Prompt                            \* the link catches up before a response is created

ASSUME BudgetAssumption ==
  /\ MaxIterations \in Nat \ {0} /\ MaxCalls \in Nat \ {0} /\ Grace \in Nat
  /\ MaxResponses \in Nat /\ MaxBatch \in Nat \ {0}
  /\ MaxTurns \in Nat /\ MaxWakes \in Nat /\ Prompt \in BOOLEAN

VARIABLES
  state, outcome,                        \* SessionMachine, and how the loop returned
  active,                                \* active_response
  respDl, idleDl, drainDl,               \* response, idle and drain deadlines: armed or not
  calls, seen, pending, waiting,         \* response_calls, seen_call_ids, pending_tools, waiting_for_tools
  iterations, toolCalls, refusals,       \* tool_iterations, tool_calls, budget_refusals
  endAfter,                              \* end_after_response
  accepting,                             \* PcmPlayerHandle::accepting_audio
  cancel, wake, wakes,                   \* cancel and interrupt signals not yet seen; wakes so far
  audio, chatter,                        \* audio activity not yet seen; an event to be ignored
  toClient, toServer,                    \* the DataChannel, one queue each way
  speaking, turns, current, made, spoken, owed, next, completed    \* the service

deadlines == <<respDl, idleDl, drainDl>>
tools   == <<calls, seen, pending, waiting, iterations, toolCalls, refusals, endAfter>>
signals == <<cancel, wake, wakes, audio, chatter>>
server  == <<speaking, turns, current, made, spoken, owed, next, completed>>
vars == <<state, outcome, active, deadlines, tools, accepting, signals, toClient, toServer,
          server>>

NoResponse == 0
Response == 1 .. MaxResponses
CallId == Response \X (1 .. MaxBatch)
SessionState == {"Ready", "Capturing", "Responding", "ShuttingDown"}
Outcome == {"running", "cancelled", "ended", "idle", "timeout", "broken", "protocol",
            "runaway", "rejected"}

SpeechEvent == [type : {"started", "stopped"}]
CreatedEvent == [type : {"created"}, resp : Response]
TranscriptEvent == [type : {"transcript"}, resp : Response]
CallEvent == [type : {"call"}, id : CallId]
DoneEvent == [type : {"canceled"}, resp : Response]
  \cup [type : {"completed"}, resp : Response, calls : SUBSET CallId, ends : BOOLEAN]
Event == SpeechEvent \cup CreatedEvent \cup TranscriptEvent \cup CallEvent \cup DoneEvent
Request == [type : {"cancel", "create"}] \cup [type : {"output"}, id : CallId]

ConvTypeOK ==
  /\ state \in SessionState /\ outcome \in Outcome
  /\ active \in Response \cup {NoResponse}
  /\ respDl \in BOOLEAN /\ idleDl \in BOOLEAN /\ drainDl \in BOOLEAN
  /\ calls \subseteq seen /\ pending \subseteq seen /\ seen \subseteq CallId
  /\ waiting \in BOOLEAN /\ endAfter \in BOOLEAN /\ accepting \in BOOLEAN
  /\ iterations \in 0 .. MaxIterations /\ toolCalls \in 0 .. MaxCalls
  /\ refusals \in 0 .. Grace
  /\ cancel \in BOOLEAN /\ wake \in BOOLEAN /\ wakes \in 0 .. MaxWakes
  /\ audio \in BOOLEAN /\ chatter \in BOOLEAN
  /\ toClient \in Seq(Event) /\ toServer \in Seq(Request)
  /\ speaking \in BOOLEAN /\ spoken \in BOOLEAN /\ owed \in BOOLEAN
  /\ turns \in 0 .. MaxTurns /\ current \in Response \cup {NoResponse}
  /\ made \subseteq CallId /\ next \in 1 .. MaxResponses + 1 /\ completed \subseteq Response

(* run_once enters the loop in Capturing, with the idle deadline armed. *)
Init ==
  /\ state = "Capturing" /\ outcome = "running"
  /\ active = NoResponse
  /\ respDl = FALSE /\ idleDl = TRUE /\ drainDl = FALSE
  /\ calls = {} /\ seen = {} /\ pending = {} /\ waiting = FALSE
  /\ iterations = 0 /\ toolCalls = 0 /\ refusals = 0 /\ endAfter = FALSE
  /\ accepting = FALSE
  /\ cancel = FALSE /\ wake = FALSE /\ wakes = 0 /\ audio = FALSE /\ chatter = FALSE
  /\ toClient = <<>> /\ toServer = <<>>
  /\ speaking = FALSE /\ turns = 0 /\ current = NoResponse /\ made = {} /\ spoken = FALSE
  /\ owed = FALSE /\ next = 1 /\ completed = {}

(* SessionMachine::transition, between the states of a live conversation. *)
Valid(from, to) ==
  \/ from = to
  \/ from = "Ready"      /\ to \in {"Capturing", "Responding", "ShuttingDown"}
  \/ from = "Capturing"  /\ to \in {"Responding", "ShuttingDown"}
  \/ from = "Responding" /\ to \in {"Capturing", "Ready", "ShuttingDown"}

(* state moves from one of the given states, else stays *)
MoveFrom(froms, to) ==
  /\ state' = IF state \in froms THEN to ELSE state
  /\ outcome' = IF Valid(state, state') THEN "running" ELSE "rejected"

Return(how) ==
  /\ outcome' = how
  /\ UNCHANGED <<state, active, deadlines, tools, accepting, signals, toClient, toServer,
                 server>>

Sends(requests) == toServer' = toServer \o requests
--------------------------------------------------------------------------------
(* Signals from the main loop and failures from outside.                    *)

(* SessionHandle::interrupt: the watch channel keeps one unseen change. *)
Interrupt ==
  /\ wakes < MaxWakes
  /\ wakes' = wakes + 1 /\ wake' = TRUE
  /\ UNCHANGED <<state, outcome, active, deadlines, tools, accepting, cancel, audio, chatter, toClient,
                 toServer, server>>

RequestCancel ==
  /\ ~cancel /\ cancel' = TRUE
  /\ UNCHANGED <<state, outcome, active, deadlines, tools, accepting, wake, wakes, audio, chatter,
                 toClient, toServer, server>>

(* run_opus_decoder has played a packet: the watch channel keeps one unseen change. *)
Plays ==
  /\ ~audio /\ audio' = TRUE
  /\ UNCHANGED <<state, outcome, active, deadlines, tools, accepting, cancel, wake, wakes, chatter,
                 toClient, toServer, server>>

(* A failed or closed peer, a decoder error, an error event, a response.done that
   failed, the end of the capture, or a send that a handler needs and that fails. *)
Breaks == Return("broken")
--------------------------------------------------------------------------------
(* The select loop.  It is biased: the cancel signal comes first, then the
   interrupt, the audio that is to drain, then everything else. *)

SeeCancel ==
  /\ cancel
  /\ state' = "ShuttingDown"
  /\ outcome' = IF Valid(state, "ShuttingDown") THEN "cancelled" ELSE "rejected"
  /\ active' = NoResponse
  /\ UNCHANGED <<deadlines, tools, accepting, signals, toClient, toServer, server>>

(* The cancel request is best effort: a failed send is ignored. *)
SeeInterrupt ==
  /\ wake /\ ~cancel
  /\ wake' = FALSE
  /\ accepting' = FALSE
  /\ drainDl' = FALSE /\ idleDl' = TRUE
  /\ MoveFrom({"Responding", "Ready"}, "Capturing")
  /\ IF state = "Responding"
     THEN /\ \/ active # NoResponse /\ Sends(<<[type |-> "cancel"]>>)
             \/ UNCHANGED toServer
          /\ active' = NoResponse /\ calls' = {} /\ respDl' = FALSE
     ELSE UNCHANGED <<toServer, active, calls, respDl>>
  /\ UNCHANGED <<seen, pending, waiting, iterations, toolCalls, refusals, endAfter, cancel, wakes,
                 audio, chatter, toClient, server>>

(* Audio still arrives: the drain deadline is armed anew. *)
SeeAudio ==
  /\ ~cancel /\ ~wake /\ drainDl
  /\ audio /\ audio' = FALSE
  /\ UNCHANGED <<state, outcome, active, deadlines, tools, accepting, cancel, wake, wakes, chatter,
                 toClient, toServer, server>>

Undisturbed == ~cancel /\ ~wake /\ ~(drainDl /\ audio)

ListenForever == state' = "Ready" /\ UNCHANGED idleDl          \* mutant

ListenAgain == state' = "Ready" /\ idleDl' = TRUE

(* The audio tail has been quiet long enough. *)
DrainPasses ==
  /\ Undisturbed /\ drainDl
  /\ drainDl' = FALSE
  /\ IF endAfter
     THEN state' = "ShuttingDown" /\ outcome' = "ended" /\ UNCHANGED idleDl
     ELSE IF Valid(state, "Ready")
     THEN ListenAgain /\ UNCHANGED outcome
     ELSE outcome' = "rejected" /\ UNCHANGED <<state, idleDl>>
  /\ UNCHANGED <<active, respDl, tools, accepting, signals, toClient, toServer, server>>

IdlePasses ==
  /\ Undisturbed /\ idleDl
  /\ state' = "ShuttingDown" /\ outcome' = "idle"
  /\ UNCHANGED <<active, deadlines, tools, accepting, signals, toClient, toServer, server>>

ResponsePasses ==
  /\ Undisturbed /\ respDl
  /\ Return("timeout")

AnyOf(c) == waiting                                            \* mutant

LastOf(c) == waiting /\ pending = {c}

(* A tool has an output; the last one of the batch asks for the follow-up. *)
ToolDone(c) ==
  LET output == [type |-> "output", id |-> c]
  IN /\ Undisturbed /\ c \in pending
     /\ pending' = pending \ {c}
     /\ IF LastOf(c)
        THEN /\ Sends(<<output, [type |-> "create"]>>)
             /\ waiting' = FALSE /\ active' = NoResponse /\ respDl' = TRUE
        ELSE /\ Sends(<<output>>)
             /\ UNCHANGED <<waiting, active, respDl>>
     /\ UNCHANGED <<state, outcome, idleDl, drainDl, calls, seen, iterations, toolCalls, refusals,
                    endAfter, accepting, signals, toClient, server>>
--------------------------------------------------------------------------------
(* Events of the service, in order. *)

Receive(type) ==
  /\ Undisturbed /\ toClient # <<>> /\ Head(toClient).type = type
  /\ toClient' = Tail(toClient)

Fail(how) ==
  /\ outcome' = how
  /\ UNCHANGED <<state, active, deadlines, tools, accepting>>

ofReceive == <<signals, toServer, server>>

ResponseCreated ==
  /\ Receive("created")
  /\ accepting' = TRUE
  /\ active' = Head(toClient).resp
  /\ MoveFrom({"Capturing", "Ready"}, "Responding")
  /\ idleDl' = FALSE /\ respDl' = TRUE
  /\ UNCHANGED <<drainDl, tools, ofReceive>>

Transcript ==
  /\ Receive("transcript")
  /\ active' = Head(toClient).resp
  /\ UNCHANGED <<state, outcome, deadlines, tools, accepting, ofReceive>>

SilenceTimers == drainDl' = FALSE /\ idleDl' = FALSE /\ respDl' = FALSE

SpeechStarted ==
  /\ Receive("started")
  /\ accepting' = FALSE
  /\ SilenceTimers
  /\ MoveFrom({"Responding", "Ready"}, "Capturing")
  /\ UNCHANGED <<active, tools, ofReceive>>

SpeechStopped ==
  /\ Receive("stopped")
  /\ respDl' = TRUE
  /\ UNCHANGED <<state, outcome, active, idleDl, drainDl, tools, accepting, ofReceive>>

CallAccepted(c) ==
  /\ ~waiting /\ pending = {}
  /\ active \in {NoResponse, c[1]}
  /\ c \notin seen

RunAtOnce(c) ==                                                \* mutant
  /\ active' = c[1]
  /\ seen' = seen \cup {c} /\ calls' = calls \cup {c}
  /\ pending' = pending \cup {c}

Remember(c) ==
  /\ active' = c[1]
  /\ seen' = seen \cup {c} /\ calls' = calls \cup {c}
  /\ UNCHANGED pending

FunctionCall ==
  LET c == Head(toClient).id
  IN /\ Receive("call")
     /\ IF CallAccepted(c)
        THEN /\ Remember(c)
             /\ UNCHANGED <<state, outcome, deadlines, waiting, iterations, toolCalls, refusals,
                            endAfter, accepting>>
        ELSE Fail("protocol")
     /\ UNCHANGED <<ofReceive>>

ResponseCanceled ==
  /\ Receive("canceled")
  /\ IF active \in {NoResponse, Head(toClient).resp}
     THEN /\ active' = NoResponse /\ calls' = {} /\ respDl' = FALSE
          /\ MoveFrom({"Responding"}, "Capturing")
     ELSE UNCHANGED <<state, outcome, active, calls, respDl>>
  /\ UNCHANGED <<idleDl, drainDl, seen, pending, waiting, iterations, toolCalls, refusals,
                 endAfter, accepting, ofReceive>>

DoneMatches(done) ==
  /\ active \in {NoResponse, done.resp}
  /\ done.calls = calls
  /\ Cardinality(calls) <= MaxCalls

BudgetExhausted ==
  \/ iterations >= MaxIterations
  \/ toolCalls + Cardinality(calls) > MaxCalls

(* response.done without a call: the answer is complete, its audio drains. *)
Answered(done) ==
  /\ done.calls = {}
  /\ MoveFrom({"Capturing"}, "Responding")
  /\ active' = NoResponse /\ respDl' = FALSE /\ drainDl' = TRUE
  /\ UNCHANGED <<idleDl, tools, accepting, toServer>>

(* The batch is started; end_conversation only marks the session. *)
StartTools(done) ==
  /\ done.calls # {} /\ ~BudgetExhausted
  /\ endAfter' = (endAfter \/ done.ends)
  /\ iterations' = iterations + 1
  /\ toolCalls' = toolCalls + Cardinality(calls)
  /\ waiting' = TRUE /\ respDl' = FALSE
  /\ pending' = pending \cup calls /\ calls' = {}
  /\ UNCHANGED <<state, outcome, active, idleDl, drainDl, seen, refusals, accepting, toServer>>

(* The batch is refused: each call gets an error as its output, and the model
   is asked for a direct answer. *)
RefuseTools(done) ==
  /\ done.calls # {} /\ BudgetExhausted
  /\ refusals < Grace
  /\ endAfter' = (endAfter \/ done.ends)
  /\ refusals' = refusals + 1
  /\ Sends([i \in 1 .. Cardinality(calls) |->
              [type |-> "output", id |-> SetToSeq(calls)[i]]] \o <<[type |-> "create"]>>)
  /\ calls' = {} /\ active' = NoResponse /\ respDl' = TRUE
  /\ UNCHANGED <<state, outcome, idleDl, drainDl, seen, pending, waiting, iterations, toolCalls,
                 accepting>>

Runaway(done) ==
  /\ done.calls # {} /\ BudgetExhausted
  /\ refusals >= Grace
  /\ Fail("runaway")
  /\ UNCHANGED toServer

ResponseCompleted ==
  LET done == Head(toClient)
  IN /\ Receive("completed")
     /\ IF DoneMatches(done)
        THEN Answered(done) \/ StartTools(done) \/ RefuseTools(done) \/ Runaway(done)
        ELSE Fail("protocol") /\ UNCHANGED toServer
     /\ UNCHANGED <<signals, server>>

(* An event of no use, which arms the response deadline anew like any other. *)
Ignore ==
  /\ Undisturbed /\ chatter /\ chatter' = FALSE
  /\ UNCHANGED <<state, outcome, active, deadlines, tools, accepting, cancel, wake, wakes, audio,
                 toClient, toServer, server>>

Reads ==
  \/ ResponseCreated \/ Transcript \/ SpeechStarted \/ SpeechStopped
  \/ FunctionCall \/ ResponseCanceled \/ ResponseCompleted

(* What chatter does not postpone *)
Timely ==
  \/ SeeCancel \/ SeeInterrupt \/ DrainPasses \/ IdlePasses
  \/ (\E c \in pending : ToolDone(c)) \/ Reads

Loop == Timely \/ SeeAudio \/ ResponsePasses \/ Ignore
--------------------------------------------------------------------------------
(* The Qwen service (external), as run_event_loop uses it. *)

client == <<state, outcome, active, deadlines, tools, accepting, signals>>
Emits(events) == toClient' = toClient \o events

CancelCurrent == IF current = NoResponse THEN <<>> ELSE <<[type |-> "canceled", resp |-> current]>>

UserSpeaks ==
  /\ ~speaking /\ turns < MaxTurns
  /\ speaking' = TRUE /\ turns' = turns + 1
  /\ Emits(<<[type |-> "started"]>> \o CancelCurrent)
  /\ current' = NoResponse /\ owed' = FALSE
  /\ UNCHANGED <<client, toServer, made, spoken, next, completed>>

(* An utterance is answered, or was noise. *)
UserStops ==
  /\ speaking /\ speaking' = FALSE
  /\ Emits(<<[type |-> "stopped"]>>)
  /\ owed' \in {owed, TRUE}
  /\ UNCHANGED <<client, toServer, turns, current, made, spoken, next, completed>>

Responds ==
  /\ owed /\ ~speaking /\ current = NoResponse /\ next \in Response
  /\ Prompt => toClient = <<>> /\ toServer = <<>> /\ ~wake
  /\ Emits(<<[type |-> "created", resp |-> next]>>)
  /\ current' = next /\ next' = next + 1 /\ owed' = FALSE /\ made' = {} /\ spoken' = FALSE
  /\ UNCHANGED <<client, toServer, speaking, turns, completed>>

CallsTool ==
  /\ current # NoResponse /\ Cardinality(made) < MaxBatch
  /\ LET c == <<current, Cardinality(made) + 1>>
     IN made' = made \cup {c} /\ Emits(<<[type |-> "call", id |-> c]>>)
  /\ UNCHANGED <<client, toServer, speaking, turns, current, spoken, owed, next, completed>>

Says ==
  /\ current # NoResponse /\ ~spoken /\ spoken' = TRUE
  /\ Emits(<<[type |-> "transcript", resp |-> current]>>)
  /\ UNCHANGED <<client, toServer, speaking, turns, current, made, owed, next, completed>>

Completes ==
  /\ current # NoResponse
  /\ \E ends \in {FALSE, made # {}} :
       Emits(<<[type |-> "completed", resp |-> current, calls |-> made, ends |-> ends]>>)
  /\ completed' = completed \cup {current} /\ current' = NoResponse
  /\ UNCHANGED <<client, toServer, speaking, turns, made, spoken, owed, next>>

Chatters ==
  /\ ~chatter /\ chatter' = TRUE
  /\ UNCHANGED <<state, outcome, active, deadlines, tools, accepting, cancel, wake, wakes, audio,
                 toClient, toServer, server>>

(* A cancel finds a response or comes too late; an output needs no answer; a
   create is owed a response. *)
ServesRequest ==
  /\ toServer # <<>> /\ toServer' = Tail(toServer)
  /\ LET r == Head(toServer).type
     IN /\ Emits(IF r = "cancel" THEN CancelCurrent ELSE <<>>)
        /\ current' = IF r = "cancel" THEN NoResponse ELSE current
        /\ owed' = (owed \/ r = "create")
  /\ UNCHANGED <<client, speaking, turns, made, spoken, next, completed>>

Service ==
  UserSpeaks \/ UserStops \/ Responds \/ CallsTool \/ Says \/ Completes \/ ServesRequest
    \/ Chatters

Next ==
  /\ outcome = "running"
  /\ Interrupt \/ RequestCancel \/ Plays \/ Breaks \/ Loop \/ Service

Spec == Init /\ [][Next]_vars

(* The select loop is one task and takes a branch that stays ready; armed deadlines pass, but the
   response deadline between two events only and the drain deadline between two packets; tools end by
   their own timeout.  A user who speaks stops speaking, and the service reports it. *)
FairSpec ==
  /\ Spec
  /\ WF_vars(outcome = "running" /\ Loop) /\ WF_vars(outcome = "running" /\ Timely)
  /\ WF_vars(outcome = "running" /\ UserStops)
--------------------------------------------------------------------------------
(* Properties *)

(* Only calls of a completed response run: what the user cut off has no effect. *)
CancelledNeverRuns == \A c \in pending : c[1] \in completed

(* The follow-up is asked for when every call of the batch has its output. *)
FollowUpLast ==
  [][toServer' # toServer /\ toServer' # <<>> /\ Last(toServer').type = "create"
       /\ Len(toServer') > Len(toServer)
     => pending' = {} /\ calls' = {}]_vars

(* A conversation ends: by cancellation, by its farewell, idle, or failing, unless the peer never stops
   sending audio while an answer drains, or the service events while a response is awaited: each of
   them arms the deadline anew. *)
SessionEnds ==
  <>(outcome # "running") \/ []<>(drainDl /\ audio) \/ []<>(respDl /\ chatter)
================================================================================
