-------------------------- MODULE ConversationProofs --------------------------
(***************************************************************************)
(* Proofs about Conversation for every budget and every bound, with and    *)
(* without a prompt link: the types, that only calls of completed          *)
(* responses run, and that the follow-up is asked for last.                *)
(***************************************************************************)
EXTENDS Conversation, SequenceTheorems, FiniteSetTheorems, TLAPS

\* Wherever Event is expanded its parts are.
USE DEF SpeechEvent, CreatedEvent, TranscriptEvent, CallEvent, DoneEvent

\* The conjuncts of ConvTypeOK about flags.
Flags ==
  /\ respDl \in BOOLEAN /\ idleDl \in BOOLEAN /\ drainDl \in BOOLEAN
  /\ waiting \in BOOLEAN /\ endAfter \in BOOLEAN /\ accepting \in BOOLEAN
  /\ cancel \in BOOLEAN /\ wake \in BOOLEAN /\ audio \in BOOLEAN /\ chatter \in BOOLEAN
  /\ speaking \in BOOLEAN /\ spoken \in BOOLEAN /\ owed \in BOOLEAN

\* A batch is collected or runs, never both.
OneBatch ==
  /\ pending # {} => waiting
  /\ waiting => calls = {}

\* The service attributes its calls to the response in progress.
MadeByCurrent == current # NoResponse => \A c \in made : c[1] = current

\* A response.done on its way tells of a completed response and of its own calls.
DoneHonest ==
  \A i \in 1 .. Len(toClient) :
    toClient[i].type = "completed" =>
      /\ toClient[i].resp \in completed
      /\ \A c \in toClient[i].calls : c[1] = toClient[i].resp

IInv ==
  ConvTypeOK /\ OneBatch /\ MadeByCurrent /\ DoneHonest /\ CancelledNeverRuns

--------------------------------------------------------------------------------
\* Every set of calls is finite.
LEMMA FiniteCalls ==
  ASSUME NEW S \in SUBSET CallId
  PROVE  IsFiniteSet(S) /\ Cardinality(S) \in Nat
<1>1. IsFiniteSet(Response) /\ IsFiniteSet(1 .. MaxBatch)
  BY FS_Interval, BudgetAssumption DEF Response
<1>2. IsFiniteSet(CallId)
  BY <1>1, FS_Product DEF CallId
<1> QED
  BY <1>2, FS_Subset, FS_CardinalityType

\* SetToSeq lists the members of a set of calls.
LEMMA CallsListed ==
  ASSUME NEW S \in SUBSET CallId
  PROVE  SetToSeq(S) \in [1 .. Cardinality(S) -> S]
<1>1. PICK f : f \in Bijection(1 .. Cardinality(S), S)
  BY FiniteCalls, FS_CardinalityType DEF ExistsBijection
<1>2. f \in [1 .. Cardinality(S) -> S] /\ IsInjective(f)
  BY <1>1 DEF Bijection, Injection
<1> QED
  BY <1>2 DEF SetToSeq

\* One more element at the end of a queue, and the rest behind its head.
LEMMA QueueGrows ==
  ASSUME NEW S, NEW q \in Seq(S), NEW e \in S
  PROVE  q \o <<e>> \in Seq(S)
OBVIOUS

\* What taking the head of a queue leaves.
LEMMA QueueShrinks ==
  ASSUME NEW S, NEW q \in Seq(S), q # <<>>
  PROVE  Tail(q) \in Seq(S) /\ Head(q) \in S /\ Len(Tail(q)) < Len(q) /\ q[1] = Head(q)
         /\ \A i \in 1 .. Len(Tail(q)) : Tail(q)[i] = q[i + 1] /\ i + 1 \in 1 .. Len(q)
         /\ 1 \in 1 .. Len(q)
OBVIOUS

\* The invariant holds when run_once enters the loop.
LEMMA Start == Init => IInv
<1> SUFFICES ASSUME Init PROVE IInv
  OBVIOUS
<1>0. toClient \in Seq(Event) /\ toServer \in Seq(Request)
  BY DEF Init
<1>z. 0 \in 0 .. MaxIterations /\ 0 \in 0 .. MaxCalls /\ 0 \in 0 .. Grace /\ 0 \in 0 .. MaxWakes
        /\ 0 \in 0 .. MaxTurns /\ 1 \in 1 .. MaxResponses + 1
  BY BudgetAssumption
<1>1. ConvTypeOK
  BY <1>0, <1>z DEF Init, ConvTypeOK, NoResponse, SessionState, Outcome
<1>2. OneBatch /\ MadeByCurrent /\ CancelledNeverRuns
  BY DEF Init, OneBatch, MadeByCurrent, CancelledNeverRuns, NoResponse
<1>3. DoneHonest
  BY DEF Init, DoneHonest
<1> QED
  BY <1>1, <1>2, <1>3 DEF IInv

--------------------------------------------------------------------------------
\* Types, action by action.
LEMMA SignalTypes ==
  ASSUME ConvTypeOK, Interrupt \/ RequestCancel \/ Breaks
  PROVE  ConvTypeOK'
<1> USE DEF ConvTypeOK, deadlines, tools, signals, server
<1>1. CASE Interrupt
  <2>1. wakes' \in 0 .. MaxWakes
    BY <1>1, BudgetAssumption DEF Interrupt
  <2> QED
    BY <1>1, <2>1 DEF Interrupt
<1>2. CASE RequestCancel
  BY <1>2 DEF RequestCancel
<1>3. CASE Breaks
  BY <1>3 DEF Breaks, Return, Outcome
<1> QED
  BY <1>1, <1>2, <1>3

\* What only postpones a deadline: audio played and seen, chatter sent and read.
Postpones == Plays \/ SeeAudio \/ Ignore \/ Chatters

LEMMA PostponesOnly ==
  ASSUME Postpones
  PROVE  UNCHANGED <<state, outcome, active, deadlines, tools, accepting, cancel, wake, wakes, toClient, toServer,
                     server>>
BY Zenon DEF Postpones, Plays, SeeAudio, Ignore, Chatters

LEMMA PostponesTypes ==
  ASSUME ConvTypeOK, Postpones
  PROVE  ConvTypeOK'
<1>1. audio' \in BOOLEAN /\ chatter' \in BOOLEAN
  BY Zenon DEF Postpones, Plays, SeeAudio, Ignore, Chatters, ConvTypeOK
<1>2. UNCHANGED <<state, outcome, active, deadlines, tools, accepting, cancel, wake, wakes, toClient, toServer,
                  server>>
  BY PostponesOnly
<1> QED
  BY <1>1, <1>2 DEF ConvTypeOK, deadlines, tools, server

\* A move of the state machine stays in its states.
LEMMA MoveTypes ==
  ASSUME state \in SessionState, NEW F, NEW to \in SessionState, MoveFrom(F, to)
  PROVE  state' \in SessionState /\ outcome' \in Outcome
BY DEF MoveFrom, Outcome

\* Signals seen and deadlines passed keep the types.
LEMMA TimerTypes ==
  ASSUME ConvTypeOK, SeeCancel \/ SeeInterrupt \/ DrainPasses \/ IdlePasses \/ ResponsePasses
  PROVE  ConvTypeOK'
<1> USE DEF ConvTypeOK, deadlines, tools, signals, server
<1>0. {"Ready", "Capturing", "Responding", "ShuttingDown"} \subseteq SessionState
  BY DEF SessionState
<1>1. CASE SeeCancel
  BY <1>0, <1>1 DEF SeeCancel, Outcome
<1>2. CASE SeeInterrupt
  <2>1. state' \in SessionState /\ outcome' \in Outcome
    BY <1>0, <1>2, MoveTypes DEF SeeInterrupt
  <2>2. toServer' \in Seq(Request)
    BY <1>2, QueueGrows DEF SeeInterrupt, Sends, Request
  <2> QED
    BY <1>2, <2>1, <2>2 DEF SeeInterrupt
<1>3. CASE DrainPasses
  <2>0. drainDl' = FALSE /\ UNCHANGED <<active, respDl, tools, accepting, signals, toClient,
                                        toServer, server>>
    BY <1>3, Zenon DEF DrainPasses
  <2>1. CASE endAfter
    <3>1. state' = "ShuttingDown" /\ outcome' = "ended" /\ idleDl' \in BOOLEAN
      BY <1>3, <2>1, Zenon DEF DrainPasses
    <3>2. Flags'
      BY <2>0, <3>1, Zenon DEF Flags
    <3>3. state' \in SessionState /\ outcome' \in Outcome
      BY <1>0, <3>1 DEF Outcome
    <3> QED
      BY <2>0, <3>2, <3>3, Zenon DEF Flags
  <2>2. CASE ~endAfter /\ Valid(state, "Ready")
    <3>1. state' = "Ready" /\ outcome' = outcome /\ idleDl' = TRUE
      BY <1>3, <2>2, Zenon DEF DrainPasses, ListenAgain
    <3>2. Flags'
      BY <2>0, <3>1, Zenon DEF Flags
    <3> QED
      BY <1>0, <2>0, <3>1, <3>2 DEF Flags
  <2>3. CASE ~endAfter /\ ~Valid(state, "Ready")
    <3>1. state' = state /\ outcome' = "rejected" /\ idleDl' \in BOOLEAN
      BY <1>3, <2>3, Zenon DEF DrainPasses
    <3>2. Flags'
      BY <2>0, <3>1, Zenon DEF Flags
    <3> QED
      BY <2>0, <3>1, <3>2 DEF Outcome, Flags
  <2> QED
    BY <2>1, <2>2, <2>3
<1>4. CASE IdlePasses
  BY <1>0, <1>4 DEF IdlePasses, Outcome
<1>5. CASE ResponsePasses
  BY <1>5 DEF ResponsePasses, Return, Outcome
<1> QED
  BY <1>1, <1>2, <1>3, <1>4, <1>5

\* A finished tool keeps the types.
LEMMA ToolTypes ==
  ASSUME ConvTypeOK, NEW c \in pending, ToolDone(c)
  PROVE  ConvTypeOK'
<1> USE DEF ConvTypeOK, deadlines, tools, signals, server
<1>1. [type |-> "output", id |-> c] \in Request /\ [type |-> "create"] \in Request
  BY DEF Request
<1>2. /\ <<[type |-> "output", id |-> c], [type |-> "create"]>> \in Seq(Request)
      /\ <<[type |-> "output", id |-> c]>> \in Seq(Request)
  BY <1>1
<1>3. pending' \subseteq seen'
  BY DEF ToolDone
<1>4. CASE LastOf(c)
  <2>1. toServer' = toServer \o <<[type |-> "output", id |-> c], [type |-> "create"]>>
    BY <1>4, Zenon DEF ToolDone, Sends
  <2>2. waiting' = FALSE /\ active' = NoResponse /\ respDl' = TRUE
        /\ UNCHANGED <<state, outcome, idleDl, drainDl, calls, seen, iterations, toolCalls,
                       refusals, endAfter, accepting, signals, toClient, server>>
    BY <1>4, Zenon DEF ToolDone
  <2>3. Flags'
    BY <2>2, Zenon DEF Flags
  <2> QED
    BY <1>2, <1>3, <2>1, <2>2, <2>3, ConcatProperties DEF Flags
<1>5. CASE ~LastOf(c)
  <2>1. toServer' = toServer \o <<[type |-> "output", id |-> c]>>
          /\ waiting' \in BOOLEAN /\ active' = active /\ respDl' \in BOOLEAN
    BY <1>5, Zenon DEF ToolDone, Sends
  <2> QED
    BY <1>2, <1>3, <2>1, ConcatProperties DEF ToolDone
<1> QED
  BY <1>4, <1>5

\* What a received event leaves alone, and the types of what it carries.
LEMMA ReceiveTypes ==
  ASSUME ConvTypeOK, NEW type, Receive(type)
  PROVE  /\ toClient' \in Seq(Event) /\ Head(toClient) \in Event
         /\ Head(toClient).type = type
         /\ type \in {"created", "transcript", "canceled"} => Head(toClient).resp \in Response
         /\ type = "call" => Head(toClient).id \in CallId
         /\ type = "completed" =>
              Head(toClient).resp \in Response /\ Head(toClient).calls \subseteq CallId
<1>1. toClient' \in Seq(Event) /\ Head(toClient) \in Event
  BY QueueShrinks DEF Receive, ConvTypeOK
<1> QED
  BY <1>1 DEF Receive, Event

\* So do the events that only tell: created, transcript, started, stopped.
LEMMA TellTypes ==
  ASSUME ConvTypeOK, ResponseCreated \/ Transcript \/ SpeechStarted \/ SpeechStopped
  PROVE  ConvTypeOK'
<1> USE DEF ConvTypeOK, deadlines, tools, signals, server, ofReceive
<1>0. {"Capturing", "Responding"} \subseteq SessionState
  BY DEF SessionState
<1>1. CASE ResponseCreated
  <2>1. Receive("created") /\ MoveFrom({"Capturing", "Ready"}, "Responding")
    BY <1>1 DEF ResponseCreated
  <2>2. state' \in SessionState /\ outcome' \in Outcome
    BY <1>0, <2>1, MoveTypes
  <2>3. toClient' \in Seq(Event) /\ Head(toClient).resp \in Response
    BY <2>1, ReceiveTypes
  <2>4. /\ accepting' = TRUE /\ idleDl' = FALSE /\ respDl' = TRUE /\ active' = Head(toClient).resp
        /\ UNCHANGED <<drainDl, tools, ofReceive>>
    BY <1>1, Zenon DEF ResponseCreated
  <2>5. Flags'
    BY <2>4, Zenon DEF Flags
  <2> QED
    BY <2>2, <2>3, <2>4, <2>5 DEF Flags
<1>2. CASE Transcript
  <2>1. Receive("transcript")
    BY <1>2 DEF Transcript
  <2>2. toClient' \in Seq(Event) /\ Head(toClient).resp \in Response
    BY <2>1, ReceiveTypes
  <2> QED
    BY <1>2, <2>2 DEF Transcript
<1>3. CASE SpeechStarted
  <2>1. Receive("started") /\ MoveFrom({"Responding", "Ready"}, "Capturing")
    BY <1>3 DEF SpeechStarted
  <2>2. state' \in SessionState /\ outcome' \in Outcome
    BY <1>0, <2>1, MoveTypes
  <2>3. toClient' \in Seq(Event)
    BY <2>1, ReceiveTypes
  <2>4. /\ accepting' = FALSE /\ drainDl' = FALSE /\ idleDl' = FALSE /\ respDl' = FALSE
        /\ UNCHANGED <<active, tools, ofReceive>>
    BY <1>3, Zenon DEF SpeechStarted, SilenceTimers
  <2>5. Flags'
    BY <2>4, Zenon DEF Flags
  <2> QED
    BY <2>2, <2>3, <2>4, <2>5 DEF Flags
<1>4. CASE SpeechStopped
  <2>1. Receive("stopped")
    BY <1>4 DEF SpeechStopped
  <2>2. toClient' \in Seq(Event)
    BY <2>1, ReceiveTypes
  <2>3. respDl' = TRUE
        /\ UNCHANGED <<state, outcome, active, idleDl, drainDl, tools, accepting, ofReceive>>
    BY <1>4, Zenon DEF SpeechStopped
  <2>4. Flags'
    BY <2>3, Zenon DEF Flags
  <2> QED
    BY <2>2, <2>3, <2>4 DEF Flags
<1> QED
  BY <1>1, <1>2, <1>3, <1>4

\* So do a call and a cancelled response.
LEMMA CallTypes ==
  ASSUME ConvTypeOK, FunctionCall \/ ResponseCanceled
  PROVE  ConvTypeOK'
<1> USE DEF ConvTypeOK, deadlines, tools, signals, server, ofReceive
<1>1. CASE FunctionCall
  <2>1. Receive("call")
    BY <1>1 DEF FunctionCall
  <2>2. toClient' \in Seq(Event) /\ Head(toClient).id \in CallId
    BY <2>1, ReceiveTypes
  <2>3. CASE CallAccepted(Head(toClient).id)
    <3>1. Head(toClient).id[1] \in Response
      BY <2>2 DEF CallId
    <3> QED
      BY <1>1, <2>2, <2>3, <3>1 DEF FunctionCall, Remember
  <2>4. CASE ~CallAccepted(Head(toClient).id)
    BY <1>1, <2>2, <2>4 DEF FunctionCall, Fail, Outcome
  <2> QED
    BY <2>3, <2>4
<1>2. CASE ResponseCanceled
  <2>1. Receive("canceled")
    BY <1>2 DEF ResponseCanceled
  <2>2. toClient' \in Seq(Event)
    BY <2>1, ReceiveTypes
  <2>3. CASE active \in {NoResponse, Head(toClient).resp}
    <3>1. MoveFrom({"Responding"}, "Capturing")
      BY <1>2, <2>3 DEF ResponseCanceled
    <3>2. state' \in SessionState /\ outcome' \in Outcome
      BY <3>1, MoveTypes DEF SessionState
    <3>3. /\ active' = NoResponse /\ calls' = {} /\ respDl' = FALSE
          /\ UNCHANGED <<idleDl, drainDl, seen, pending, waiting, iterations, toolCalls, refusals,
                         endAfter, accepting, ofReceive>>
      BY <1>2, <2>3, Zenon DEF ResponseCanceled
    <3>4. Flags'
      BY <3>3, Zenon DEF Flags
    <3> QED
      BY <2>2, <3>2, <3>3, <3>4 DEF Flags
  <2>4. CASE ~(active \in {NoResponse, Head(toClient).resp})
    BY <1>2, <2>2, <2>4 DEF ResponseCanceled
  <2> QED
    BY <2>3, <2>4
<1> QED
  BY <1>1, <1>2

\* So does a completed response; the budget keeps its counters in range.
LEMMA DoneTypes ==
  ASSUME ConvTypeOK, ResponseCompleted
  PROVE  ConvTypeOK'
<1> USE DEF ConvTypeOK, deadlines, tools, signals, server
<1> DEFINE done == Head(toClient)
<1>1. Receive("completed") /\ UNCHANGED <<signals, server>>
  BY DEF ResponseCompleted
<1>2. toClient' \in Seq(Event) /\ done.resp \in Response /\ done.calls \subseteq CallId
  BY <1>1, ReceiveTypes
<1>3. CASE DoneMatches(done) /\ Answered(done)
  <2>1. state' \in SessionState /\ outcome' \in Outcome
    BY <1>3, MoveTypes DEF Answered, SessionState
  <2>2. /\ active' = NoResponse /\ respDl' = FALSE /\ drainDl' = TRUE
        /\ UNCHANGED <<idleDl, tools, accepting, toServer>>
    BY <1>3, Zenon DEF Answered
  <2>3. Flags'
    BY <1>1, <2>2, Zenon DEF Flags
  <2> QED
    BY <1>1, <1>2, <2>1, <2>2, <2>3 DEF Flags
<1>4. CASE DoneMatches(done) /\ StartTools(done)
  <2>1. Cardinality(calls) \in Nat
    BY FiniteCalls
  <2>2. iterations' \in 0 .. MaxIterations /\ toolCalls' \in 0 .. MaxCalls
    <3>1. ~(iterations >= MaxIterations) /\ ~(toolCalls + Cardinality(calls) > MaxCalls)
      BY <1>4, Zenon DEF StartTools, BudgetExhausted
    <3>2. iterations' = iterations + 1 /\ toolCalls' = toolCalls + Cardinality(calls)
      BY <1>4, Zenon DEF StartTools
    <3> QED
      BY <2>1, <3>1, <3>2, BudgetAssumption
  <2>3. endAfter' \in BOOLEAN
    BY <1>4, Zenon DEF StartTools
  <2>4. calls' \subseteq seen' /\ pending' \subseteq seen' /\ seen' \subseteq CallId
    BY <1>4 DEF StartTools
  <2>5. waiting' = TRUE /\ respDl' = FALSE
        /\ UNCHANGED <<state, outcome, active, idleDl, drainDl, refusals, accepting, toServer>>
    BY <1>4, Zenon DEF StartTools
  <2>6. Flags'
    BY <1>1, <2>3, <2>5, Zenon DEF Flags
  <2> QED
    BY <1>1, <1>2, <2>2, <2>4, <2>5, <2>6 DEF Flags
<1>5. CASE DoneMatches(done) /\ RefuseTools(done)
  <2> DEFINE outputs == [i \in 1 .. Cardinality(calls) |->
                           [type |-> "output", id |-> SetToSeq(calls)[i]]]
  <2>1. Cardinality(calls) \in Nat
    BY FiniteCalls
  <2>2. \A i \in 1 .. Cardinality(calls) : SetToSeq(calls)[i] \in CallId
    BY CallsListed
  <2>3. outputs \in Seq(Request)
    BY <2>1, <2>2 DEF Request
  <2>4. <<[type |-> "create"]>> \in Seq(Request)
    BY DEF Request
  <2>5. toServer' \in Seq(Request)
    BY <1>5, <2>3, <2>4, ConcatProperties DEF RefuseTools, Sends
  <2>6. endAfter' \in BOOLEAN
    BY <1>5, Zenon DEF RefuseTools
  <2>7. refusals' \in 0 .. Grace
    BY <1>5, BudgetAssumption DEF RefuseTools
  <2>8. /\ calls' = {} /\ active' = NoResponse /\ respDl' = TRUE
        /\ UNCHANGED <<state, outcome, idleDl, drainDl, seen, pending, waiting, iterations,
                       toolCalls, accepting>>
    BY <1>5, Zenon DEF RefuseTools
  <2> QED
    BY <1>1, <1>2, <2>5, <2>6, <2>7, <2>8
<1>6. CASE (DoneMatches(done) /\ Runaway(done))
           \/ (~DoneMatches(done) /\ Fail("protocol") /\ UNCHANGED toServer)
  <2>1. outcome' \in Outcome
    BY <1>6 DEF Runaway, Fail, Outcome
  <2>2. UNCHANGED <<state, active, deadlines, tools, accepting, toServer>>
    BY <1>6, Zenon DEF Runaway, Fail
  <2> QED
    BY <1>1, <1>2, <2>1, <2>2
<1> QED
  BY <1>3, <1>4, <1>5, <1>6 DEF ResponseCompleted

--------------------------------------------------------------------------------
\* What the service does to the client's side: nothing.  Its events are well formed.
LEMMA CancelTypes ==
  ASSUME ConvTypeOK
  PROVE  CancelCurrent \in Seq(Event)
<1>1. CASE current = NoResponse
  BY <1>1 DEF CancelCurrent
<1>2. CASE current # NoResponse
  BY <1>2 DEF CancelCurrent, ConvTypeOK, Event
<1> QED
  BY <1>1, <1>2

\* The user and the requests served.
LEMMA SpeakTypes ==
  ASSUME ConvTypeOK, UserSpeaks \/ UserStops \/ ServesRequest
  PROVE  ConvTypeOK'
<1> USE DEF ConvTypeOK, deadlines, tools, signals, client
<1>1. CASE UserSpeaks
  <2>1. <<[type |-> "started"]>> \in Seq(Event)
    BY DEF Event
  <2>2. toClient' \in Seq(Event)
    BY <1>1, <2>1, CancelTypes, ConcatProperties DEF UserSpeaks, Emits
  <2>3. turns' \in 0 .. MaxTurns
    BY <1>1, BudgetAssumption DEF UserSpeaks
  <2>4. speaking' = TRUE /\ current' = NoResponse /\ owed' = FALSE
        /\ UNCHANGED <<client, toServer, made, spoken, next, completed>>
    BY <1>1, Zenon DEF UserSpeaks
  <2>5. Flags'
    BY <2>4, Zenon DEF Flags
  <2> QED
    BY <2>2, <2>3, <2>4, <2>5 DEF Flags
<1>2. CASE UserStops
  <2>1. toClient' \in Seq(Event)
    BY <1>2, QueueGrows DEF UserStops, Emits, Event
  <2>2. speaking' = FALSE /\ owed' \in BOOLEAN
        /\ UNCHANGED <<client, toServer, turns, current, made, spoken, next, completed>>
    BY <1>2, Zenon DEF UserStops
  <2>3. Flags'
    BY <2>2, Zenon DEF Flags
  <2> QED
    BY <2>1, <2>2, <2>3 DEF Flags
<1>3. CASE ServesRequest
  <2>1. toServer' \in Seq(Request)
    BY <1>3, QueueShrinks DEF ServesRequest
  <2>2. toClient' \in Seq(Event)
    BY <1>3, CancelTypes, ConcatProperties DEF ServesRequest, Emits
  <2>3. current' \in Response \cup {NoResponse}
    BY <1>3 DEF ServesRequest
  <2>4. owed' \in BOOLEAN
    BY <1>3, Zenon DEF ServesRequest
  <2>5. UNCHANGED <<client, speaking, turns, made, spoken, next, completed>>
    BY <1>3, Zenon DEF ServesRequest
  <2> QED
    BY <2>1, <2>2, <2>3, <2>4, <2>5
<1> QED
  BY <1>1, <1>2, <1>3

\* The responses of the service.
LEMMA AnswerTypes ==
  ASSUME ConvTypeOK, Responds \/ CallsTool \/ Says \/ Completes
  PROVE  ConvTypeOK'
<1> USE DEF ConvTypeOK, deadlines, tools, signals, client
<1>1. CASE Responds
  <2>1. toClient' \in Seq(Event)
    BY <1>1, QueueGrows DEF Responds, Emits, Event
  <2>2. next' \in 1 .. MaxResponses + 1
    BY <1>1, BudgetAssumption DEF Responds, Response
  <2>3. current' = next /\ next \in Response /\ owed' = FALSE /\ made' = {} /\ spoken' = FALSE
        /\ UNCHANGED <<client, toServer, speaking, turns, completed>>
    BY <1>1, Zenon DEF Responds
  <2>4. Flags'
    BY <2>3, Zenon DEF Flags
  <2> QED
    BY <2>1, <2>2, <2>3, <2>4 DEF Flags
<1>2. CASE CallsTool
  <2> DEFINE c == <<current, Cardinality(made) + 1>>
  <2>1. Cardinality(made) + 1 \in 1 .. MaxBatch /\ current \in Response
    BY <1>2, FiniteCalls, BudgetAssumption DEF CallsTool
  <2>2. c \in CallId
    BY <2>1 DEF CallId
  <2>3. [type |-> "call", id |-> c] \in Event
    BY <2>2 DEF Event
  <2>4. toClient' = toClient \o <<[type |-> "call", id |-> c]>> /\ made' = made \cup {c}
    BY <1>2 DEF CallsTool, Emits
  <2>5. toClient' \in Seq(Event) /\ made' \subseteq CallId
    BY <2>2, <2>3, <2>4, QueueGrows
  <2> QED
    BY <1>2, <2>5 DEF CallsTool
<1>3. CASE Says
  <2>1. toClient' \in Seq(Event)
    BY <1>3, QueueGrows DEF Says, Emits, Event
  <2> QED
    BY <1>3, <2>1 DEF Says
<1>4. CASE Completes
  <2>1. PICK ends \in {FALSE, made # {}} :
          toClient' = toClient \o <<[type |-> "completed", resp |-> current, calls |-> made,
                                     ends |-> ends]>>
    BY <1>4 DEF Completes, Emits
  <2>2. [type |-> "completed", resp |-> current, calls |-> made, ends |-> ends] \in Event
    BY <1>4 DEF Completes, Event
  <2>3. toClient' \in Seq(Event)
    BY <2>1, <2>2, QueueGrows
  <2> QED
    BY <1>4, <2>3 DEF Completes
<1> QED
  BY <1>1, <1>2, <1>3, <1>4

\* Every step keeps the types.
LEMMA ConvTypes ==
  ASSUME ConvTypeOK, [Next]_vars
  PROVE  ConvTypeOK'
<1>1. CASE UNCHANGED vars
  BY <1>1 DEF vars, deadlines, tools, signals, server, ConvTypeOK
<1>2. CASE Next
  <2>1. ASSUME NEW c \in pending, ToolDone(c) PROVE ConvTypeOK'
    BY <2>1, ToolTypes
  <2> QED
    BY <1>2, <2>1, SignalTypes, TimerTypes, TellTypes, CallTypes, DoneTypes, SpeakTypes,
       AnswerTypes, PostponesTypes DEF Next, Loop, Timely, Reads, Service, Postpones
<1> QED
  BY <1>1, <1>2

--------------------------------------------------------------------------------
\* The actions that touch no batch.
Bystander ==
  \/ Interrupt \/ RequestCancel \/ Breaks \/ SeeCancel
  \/ DrainPasses \/ IdlePasses \/ ResponsePasses
  \/ ResponseCreated \/ Transcript \/ SpeechStarted \/ SpeechStopped
  \/ Postpones \/ Service

\* None of them touches what is collected or running.
LEMMA BystanderKeeps ==
  ASSUME Bystander
  PROVE  UNCHANGED <<pending, waiting, calls>>
<1> USE DEF deadlines, tools, signals, server
<1>1. CASE Interrupt \/ RequestCancel \/ Breaks \/ SeeCancel
  BY <1>1, Zenon DEF Interrupt, RequestCancel, Breaks, Return, SeeCancel
<1>2. CASE DrainPasses \/ IdlePasses \/ ResponsePasses
  BY <1>2, Zenon DEF DrainPasses, IdlePasses, ResponsePasses, Return
<1>3. CASE ResponseCreated \/ Transcript \/ SpeechStarted \/ SpeechStopped
  BY <1>3, Zenon DEF ResponseCreated, Transcript, SpeechStarted, SpeechStopped
<1>4. CASE Service
  BY <1>4, Zenon DEF Service, UserSpeaks, UserStops, Responds, CallsTool, Says, Completes,
     ServesRequest, Chatters, client
<1>5. CASE Postpones
  BY <1>5, PostponesOnly, Zenon
<1> QED
  BY <1>1, <1>2, <1>3, <1>4, <1>5 DEF Bystander

\* What every step does, by what it does to the batch.
LEMMA NextCases ==
  Next => \/ Bystander \/ SeeInterrupt \/ (\E c \in pending : ToolDone(c))
          \/ FunctionCall \/ ResponseCanceled \/ ResponseCompleted
BY DEF Next, Loop, Timely, Reads, Bystander, Postpones

\* A batch is only collected when none runs: calls are accepted neither while
\* tools run nor before the follow-up has been asked for.
LEMMA BatchKept ==
  ASSUME ConvTypeOK, OneBatch, [Next]_vars
  PROVE  OneBatch'
<1> USE DEF deadlines, tools, signals, server
<1>1. CASE UNCHANGED vars
  BY <1>1, Zenon DEF vars, OneBatch
<1>2. CASE Bystander
  <2>1. UNCHANGED <<pending, waiting, calls>>
    BY <1>2, BystanderKeeps
  <2> QED
    BY <2>1, Zenon DEF OneBatch
<1>3. CASE SeeInterrupt
  <2>1. UNCHANGED <<pending, waiting>> /\ (calls' = {} \/ calls' = calls)
    BY <1>3, Zenon DEF SeeInterrupt
  <2> QED
    BY <2>1, Zenon DEF OneBatch
<1>4. ASSUME NEW c \in pending, ToolDone(c) PROVE OneBatch'
  <2>1. CASE LastOf(c)
    <3>1. pending' = pending \ {c} /\ waiting' = FALSE /\ pending = {c}
      BY <1>4, <2>1, Zenon DEF ToolDone, LastOf
    <3> QED
      BY <3>1 DEF OneBatch
  <2>2. CASE ~LastOf(c)
    <3>1. pending' = pending \ {c} /\ UNCHANGED <<waiting, calls>>
      BY <1>4, <2>2, Zenon DEF ToolDone
    <3> QED
      BY <3>1, Zenon DEF OneBatch
  <2> QED
    BY <2>1, <2>2
<1>5. CASE FunctionCall
  <2>1. CASE CallAccepted(Head(toClient).id)
    <3>1. ~waiting /\ pending = {} /\ UNCHANGED <<pending, waiting>>
      BY <1>5, <2>1, Zenon DEF FunctionCall, CallAccepted, Remember
    <3> QED
      BY <3>1, Zenon DEF OneBatch
  <2>2. CASE ~CallAccepted(Head(toClient).id)
    <3>1. UNCHANGED <<pending, waiting, calls>>
      BY <1>5, <2>2, Zenon DEF FunctionCall, Fail
    <3> QED
      BY <3>1, Zenon DEF OneBatch
  <2> QED
    BY <2>1, <2>2
<1>6. CASE ResponseCanceled
  <2>1. UNCHANGED <<pending, waiting>> /\ (calls' = {} \/ calls' = calls)
    BY <1>6, Zenon DEF ResponseCanceled
  <2> QED
    BY <2>1, Zenon DEF OneBatch
<1>7. CASE ResponseCompleted
  <2>1. CASE \E done : StartTools(done)
    <3>1. waiting' = TRUE /\ calls' = {}
      BY <2>1, Zenon DEF StartTools
    <3> QED
      BY <3>1, Zenon DEF OneBatch
  <2>2. CASE ~(\E done : StartTools(done))
    <3>1. UNCHANGED <<pending, waiting>> /\ (calls' = {} \/ calls' = calls)
      BY <1>7, <2>2, Zenon DEF ResponseCompleted, Answered, RefuseTools, Runaway, Fail
    <3> QED
      BY <3>1, Zenon DEF OneBatch
  <2> QED
    BY <2>1, <2>2
<1> QED
  BY <1>1, <1>2, <1>3, <1>4, <1>5, <1>6, <1>7, NextCases

--------------------------------------------------------------------------------
\* Whatever the client does, the service's own state stays, and no event is added.
LEMMA ClientKeeps ==
  ASSUME Interrupt \/ RequestCancel \/ Plays \/ Breaks \/ Loop
  PROVE  UNCHANGED server /\ (toClient' = toClient \/ \E type : Receive(type))
<1> USE DEF deadlines, tools, signals, ofReceive
<1>1. CASE Interrupt \/ RequestCancel \/ Breaks \/ SeeCancel \/ SeeInterrupt
  BY <1>1, Zenon DEF Interrupt, RequestCancel, Breaks, Return, SeeCancel, SeeInterrupt
<1>2. CASE DrainPasses \/ IdlePasses \/ ResponsePasses
  BY <1>2, Zenon DEF DrainPasses, IdlePasses, ResponsePasses, Return
<1>3. ASSUME NEW c \in pending, ToolDone(c) PROVE UNCHANGED server /\ toClient' = toClient
  BY <1>3, Zenon DEF ToolDone
<1>4. CASE ResponseCreated \/ Transcript \/ SpeechStarted \/ SpeechStopped
  BY <1>4, Zenon DEF ResponseCreated, Transcript, SpeechStarted, SpeechStopped
<1>5. CASE FunctionCall \/ ResponseCanceled \/ ResponseCompleted
  BY <1>5, Zenon DEF FunctionCall, ResponseCanceled, ResponseCompleted
<1>6. CASE Postpones
  BY <1>6, PostponesOnly, Zenon
<1> QED
  BY <1>1, <1>2, <1>3, <1>4, <1>5, <1>6 DEF Loop, Timely, Reads, Postpones

\* The service starts each response without a call.
LEMMA MadeKept ==
  ASSUME ConvTypeOK, MadeByCurrent, [Next]_vars
  PROVE  MadeByCurrent'
<1>1. CASE UNCHANGED vars
  <2>1. UNCHANGED <<current, made>>
    BY <1>1, Zenon DEF vars, server
  <2> QED
    BY <2>1, Zenon DEF MadeByCurrent
<1>2. CASE Interrupt \/ RequestCancel \/ Plays \/ Breaks \/ Loop
  <2>1. UNCHANGED <<current, made>>
    BY <1>2, ClientKeeps, Zenon DEF server
  <2> QED
    BY <2>1, Zenon DEF MadeByCurrent
<1>3. CASE UserSpeaks \/ Completes
  <2>1. current' = NoResponse
    BY <1>3, Zenon DEF UserSpeaks, Completes
  <2> QED
    BY <2>1, Zenon DEF MadeByCurrent
<1>4. CASE ServesRequest
  <2>1. (current' = NoResponse \/ current' = current) /\ made' = made
    BY <1>4, Zenon DEF ServesRequest
  <2> QED
    BY <2>1, Zenon DEF MadeByCurrent
<1>5. CASE UserStops \/ Says
  <2>1. UNCHANGED <<current, made>>
    BY <1>5, Zenon DEF UserStops, Says
  <2> QED
    BY <2>1, Zenon DEF MadeByCurrent
<1>6. CASE Responds
  BY <1>6 DEF Responds, MadeByCurrent
<1>7. CASE CallsTool
  <2>1. current' = current /\ current # NoResponse
        /\ made' = made \cup {<<current, Cardinality(made) + 1>>}
    BY <1>7, Zenon DEF CallsTool
  <2> QED
    BY <2>1 DEF MadeByCurrent
<1>8. CASE Chatters
  <2>1. UNCHANGED <<current, made>>
    BY <1>8, Zenon DEF Chatters, server
  <2> QED
    BY <2>1, Zenon DEF MadeByCurrent
<1> QED
  BY <1>1, <1>2, <1>3, <1>4, <1>5, <1>6, <1>7, <1>8 DEF Next, Service

\* What one event on its way to the client may say, once the given responses have completed.
Honest(e, done) ==
  e.type = "completed" => e.resp \in done /\ \A c \in e.calls : c[1] = e.resp

\* A queue of honest events, extended by honest ones, or without its head, is one.
LEMMA HonestGrows ==
  ASSUME NEW q \in Seq(Event), NEW more \in Seq(Event), NEW D, NEW E, D \subseteq E,
         \A i \in 1 .. Len(q) : Honest(q[i], D),
         \A i \in 1 .. Len(more) : Honest(more[i], E)
  PROVE  \A i \in 1 .. Len(q \o more) : Honest((q \o more)[i], E)
<1> SUFFICES ASSUME NEW i \in 1 .. Len(q \o more) PROVE Honest((q \o more)[i], E)
  OBVIOUS
<1>1. CASE i \in 1 .. Len(q)
  <2>1. (q \o more)[i] = q[i]
    BY <1>1, ConcatProperties
  <2> QED
    BY <1>1, <2>1 DEF Honest
<1>2. CASE i \notin 1 .. Len(q)
  <2>1. i - Len(q) \in 1 .. Len(more) /\ (q \o more)[i] = more[i - Len(q)]
    BY <1>2, ConcatProperties
  <2> QED
    BY <2>1
<1> QED
  BY <1>1, <1>2

\* The service tells of a completion when it happens, with the calls it made for it.
LEMMA DoneKept ==
  ASSUME ConvTypeOK, MadeByCurrent, DoneHonest, [Next]_vars
  PROVE  DoneHonest' /\ completed \subseteq completed'
<1>a. \A i \in 1 .. Len(toClient) : Honest(toClient[i], completed)
  BY DEF DoneHonest, Honest
<1>b. ASSUME NEW more \in Seq(Event), toClient' = toClient \o more, completed \subseteq completed',
             \A i \in 1 .. Len(more) : Honest(more[i], completed')
      PROVE  DoneHonest'
  <2>1. \A i \in 1 .. Len(toClient \o more) : Honest((toClient \o more)[i], completed')
    BY <1>a, <1>b, HonestGrows DEF ConvTypeOK
  <2> QED
    BY <1>b, <2>1 DEF DoneHonest, Honest
<1>c. ASSUME NEW more \in Seq(Event), toClient' = toClient \o more, completed' = completed,
             \A i \in 1 .. Len(more) : more[i].type # "completed"
      PROVE  DoneHonest' /\ completed \subseteq completed'
  BY <1>b, <1>c DEF Honest
<1>e. ASSUME NEW e \in Event, toClient' = toClient \o <<e>>, e.type # "completed",
             completed' = completed
      PROVE  DoneHonest' /\ completed \subseteq completed'
  <2>1. <<e>> \in Seq(Event) /\ \A i \in 1 .. Len(<<e>>) : <<e>>[i].type # "completed"
    BY <1>e
  <2> QED
    BY <1>c, <1>e, <2>1
<1>1. CASE UNCHANGED <<toClient, completed>>
  BY <1>1 DEF DoneHonest
<1>2. CASE UNCHANGED server /\ \E type : Receive(type)
  <2>1. toClient # <<>> /\ toClient' = Tail(toClient) /\ completed' = completed
    BY <1>2, Zenon DEF Receive, server
  <2>2. \A i \in 1 .. Len(Tail(toClient)) :
          Tail(toClient)[i] = toClient[i + 1] /\ i + 1 \in 1 .. Len(toClient)
    BY <2>1, QueueShrinks DEF ConvTypeOK
  <2> QED
    BY <2>1, <2>2 DEF DoneHonest
<1>d. CancelCurrent \in Seq(Event) /\ \A i \in 1 .. Len(CancelCurrent) : CancelCurrent[i].type # "completed"
  <2>1. CASE current = NoResponse
    BY <2>1 DEF CancelCurrent
  <2>2. CASE current # NoResponse
    BY <2>2, CancelTypes DEF CancelCurrent
  <2> QED
    BY <2>1, <2>2
<1>3. CASE UserSpeaks
  <2> DEFINE more == <<[type |-> "started"]>> \o CancelCurrent
  <2>1. <<[type |-> "started"]>> \in Seq(Event)
    BY DEF Event
  <2>2. more \in Seq(Event) /\ \A i \in 1 .. Len(more) : more[i].type # "completed"
    BY <1>d, <2>1, ConcatProperties
  <2>3. toClient' = toClient \o more /\ completed' = completed
    BY <1>3, Zenon DEF UserSpeaks, Emits
  <2> QED
    BY <1>c, <2>2, <2>3
<1>4. CASE ServesRequest
  <2>1. completed' = completed
    BY <1>4, Zenon DEF ServesRequest
  <2>2. CASE Head(toServer).type = "cancel"
    <3>1. toClient' = toClient \o CancelCurrent
      BY <1>4, <2>2, Zenon DEF ServesRequest, Emits
    <3> QED
      BY <1>c, <1>d, <2>1, <3>1
  <2>3. CASE Head(toServer).type # "cancel"
    <3>1. toClient' = toClient \o <<>>
      BY <1>4, <2>3, Zenon DEF ServesRequest, Emits
    <3>2. toClient' = toClient
      BY <3>1 DEF ConvTypeOK
    <3> QED
      BY <1>1, <2>1, <3>2
  <2> QED
    BY <2>2, <2>3
<1>5. CASE UserStops \/ Responds \/ Says
  <2>1. completed' = completed
    BY <1>5, Zenon DEF UserStops, Responds, Says
  <2>2. CASE UserStops
    <3>1. toClient' = toClient \o <<[type |-> "stopped"]>>
      BY <2>2, Zenon DEF UserStops, Emits
    <3>2. [type |-> "stopped"] \in Event
      BY DEF Event
    <3> QED
      BY <1>e, <2>1, <3>1, <3>2
  <2>3. CASE Responds
    <3>1. toClient' = toClient \o <<[type |-> "created", resp |-> next]>> /\ next \in Response
      BY <2>3, Zenon DEF Responds, Emits
    <3>2. [type |-> "created", resp |-> next] \in Event
      BY <3>1 DEF Event
    <3> QED
      BY <1>e, <2>1, <3>1, <3>2
  <2>4. CASE Says
    <3>1. toClient' = toClient \o <<[type |-> "transcript", resp |-> current]>>
          /\ current # NoResponse
      BY <2>4, Zenon DEF Says, Emits
    <3>2. [type |-> "transcript", resp |-> current] \in Event
      BY <3>1 DEF Event, ConvTypeOK
    <3> QED
      BY <1>e, <2>1, <3>1, <3>2
  <2> QED
    BY <1>5, <2>2, <2>3, <2>4
<1>6. CASE CallsTool
  <2>1. completed' = completed
    BY <1>6, Zenon DEF CallsTool
  <2>2. <<current, Cardinality(made) + 1>> \in CallId
    <3>1. current # NoResponse /\ Cardinality(made) < MaxBatch
      BY <1>6, Zenon DEF CallsTool
    <3>2. current \in Response \cup {NoResponse} /\ made \in SUBSET CallId
      BY Zenon DEF ConvTypeOK
    <3>3. Cardinality(made) + 1 \in 1 .. MaxBatch
      BY <3>1, <3>2, FiniteCalls, BudgetAssumption
    <3> QED
      BY <3>1, <3>2, <3>3 DEF CallId
  <2>3. [type |-> "call", id |-> <<current, Cardinality(made) + 1>>] \in Event
    BY <2>2 DEF Event
  <2>4. toClient' = toClient \o <<[type |-> "call", id |-> <<current, Cardinality(made) + 1>>]>>
    BY <1>6, Zenon DEF CallsTool, Emits
  <2> QED
    BY <1>e, <2>1, <2>3, <2>4
<1>7. CASE Completes
  <2>1. PICK ends \in {FALSE, made # {}} :
          toClient' = toClient \o <<[type |-> "completed", resp |-> current, calls |-> made,
                                     ends |-> ends]>>
    BY <1>7 DEF Completes, Emits
  <2> DEFINE e == [type |-> "completed", resp |-> current, calls |-> made, ends |-> ends]
  <2>2. e \in Event
    BY <1>7, <2>1 DEF Completes, Event, ConvTypeOK
  <2>3. current # NoResponse /\ completed' = completed \cup {current}
    BY <1>7, Zenon DEF Completes
  <2>4. Honest(e, completed')
    BY <2>3 DEF Honest, MadeByCurrent
  <2>5. toClient' = toClient \o <<e>>
    BY <2>1
  <2> HIDE DEF e
  <2>6. <<e>> \in Seq(Event) /\ \A i \in 1 .. Len(<<e>>) : Honest(<<e>>[i], completed')
    BY <2>2, <2>4
  <2>7. completed \subseteq completed'
    BY <2>3
  <2> QED
    BY <1>b, <2>5, <2>6, <2>7
<1>8. CASE UNCHANGED vars
  BY <1>1, <1>8, Zenon DEF vars, server
<1>9. CASE Interrupt \/ RequestCancel \/ Plays \/ Breaks \/ Loop
  BY <1>1, <1>2, <1>9, ClientKeeps DEF server
<1>10. CASE Chatters
  BY <1>1, <1>10, Zenon DEF Chatters, server
<1> QED
  BY <1>3, <1>4, <1>5, <1>6, <1>7, <1>8, <1>9, <1>10 DEF Next, Service

--------------------------------------------------------------------------------
\* Only the completion of a response starts its calls; a response that has
\* completed stays so.
LEMMA RunsKept ==
  ASSUME ConvTypeOK, DoneHonest, CancelledNeverRuns, completed \subseteq completed', [Next]_vars
  PROVE  CancelledNeverRuns'
<1> USE DEF deadlines, tools, signals, server
<1>1. CASE pending' \subseteq pending
  BY <1>1 DEF CancelledNeverRuns
<1>2. CASE Bystander
  <2>1. UNCHANGED <<pending, waiting, calls>>
    BY <1>2, BystanderKeeps
  <2> QED
    BY <1>1, <2>1
<1>3. CASE UNCHANGED vars
  BY <1>1, <1>3 DEF vars
<1>4. CASE SeeInterrupt
  BY <1>1, <1>4 DEF SeeInterrupt
<1>5. ASSUME NEW c \in pending, ToolDone(c) PROVE CancelledNeverRuns'
  BY <1>1, <1>5 DEF ToolDone
<1>6. CASE FunctionCall
  <2>1. pending' = pending
    BY <1>6, Zenon DEF FunctionCall, Remember, Fail
  <2> QED
    BY <1>1, <2>1
<1>7. CASE ResponseCanceled
  BY <1>1, <1>7 DEF ResponseCanceled
<1>8. CASE ResponseCompleted
  <2> DEFINE done == Head(toClient)
  <2>1. CASE DoneMatches(done) /\ StartTools(done)
    <3>1. pending' = pending \cup calls /\ done.calls = calls
      BY <2>1, Zenon DEF StartTools, DoneMatches
    <3>2. done.type = "completed" /\ toClient # <<>>
      BY <1>8, Zenon DEF ResponseCompleted, Receive
    <3>3. 1 \in 1 .. Len(toClient) /\ toClient[1] = done
      BY <3>2, QueueShrinks DEF ConvTypeOK
    <3>4. done.resp \in completed /\ \A c \in done.calls : c[1] = done.resp
      BY <3>2, <3>3 DEF DoneHonest
    <3> QED
      BY <3>1, <3>4 DEF CancelledNeverRuns
  <2>2. CASE ~(DoneMatches(done) /\ StartTools(done))
    <3>1. pending' = pending
      BY <1>8, <2>2, Zenon DEF ResponseCompleted, Answered, RefuseTools, Runaway, Fail
    <3> QED
      BY <1>1, <3>1
  <2> QED
    BY <2>1, <2>2
<1> QED
  BY <1>2, <1>3, <1>4, <1>5, <1>6, <1>7, <1>8, NextCases

\* The invariant is inductive.
LEMMA Step == IInv /\ [Next]_vars => IInv'
<1> SUFFICES ASSUME IInv, [Next]_vars PROVE IInv'
  OBVIOUS
<1>1. ConvTypeOK'
  BY ConvTypes DEF IInv
<1>2. OneBatch'
  BY BatchKept DEF IInv
<1>3. MadeByCurrent'
  BY MadeKept DEF IInv
<1>4. DoneHonest' /\ completed \subseteq completed'
  BY DoneKept DEF IInv
<1>5. CancelledNeverRuns'
  BY <1>4, RunsKept DEF IInv
<1> QED
  BY <1>1, <1>2, <1>3, <1>4, <1>5 DEF IInv

\* In every reachable state of a conversation of any length the invariant holds.
THEOREM ConversationInvariant == Spec => []IInv
<1>1. Init => IInv
  BY Start
<1>2. IInv /\ [Next]_vars => IInv'
  BY Step
<1> QED
  BY <1>1, <1>2, PTL DEF Spec

\* The variables of run_event_loop and of the service keep their types: the
\* counters of the budget never exceed it (webrtc_session.rs:53-60 and 1245-1281).
THEOREM ConversationTypeCorrect == Spec => []ConvTypeOK
<1>1. IInv => ConvTypeOK
  BY DEF IInv
<1> QED
  BY <1>1, ConversationInvariant, PTL

\* A call of a response that was cancelled, by the user's speech, by a wake word
\* or by both at once, never runs: tools start at response.done only
\* (webrtc_session.rs:1280-1287).
THEOREM OnlyCompletedRun == Spec => []CancelledNeverRuns
<1>1. IInv => CancelledNeverRuns
  BY DEF IInv
<1> QED
  BY <1>1, ConversationInvariant, PTL

\* The last request a step adds is a response.create only if no call of the batch
\* is collected or running any more.
LEMMA CreateLast ==
  ASSUME IInv, Next, toServer' # toServer, toServer' # <<>>, Last(toServer').type = "create",
         Len(toServer') > Len(toServer)
  PROVE  pending' = {} /\ calls' = {}
<1> USE DEF deadlines, tools, signals, server
<1>0. toServer \in Seq(Request) /\ toServer' \in Seq(Request)
  BY ConvTypes DEF IInv, ConvTypeOK
<1>1. CASE UNCHANGED toServer
  BY <1>1
<1>2. CASE SeeInterrupt
  <2>1. toServer' = toServer \o <<[type |-> "cancel"]>>
    BY <1>2, Zenon DEF SeeInterrupt, Sends
  <2>2. Last(toServer') = [type |-> "cancel"]
    BY <1>0, <2>1 DEF Last
  <2> QED
    BY <2>2
<1>3. ASSUME NEW c \in pending, ToolDone(c) PROVE pending' = {} /\ calls' = {}
  <2>1. CASE LastOf(c)
    <3>1. pending' = pending \ {c} /\ pending = {c} /\ calls' = calls /\ waiting
      BY <1>3, <2>1, Zenon DEF ToolDone, LastOf
    <3> QED
      BY <3>1 DEF IInv, OneBatch
  <2>2. CASE ~LastOf(c)
    <3>1. toServer' = toServer \o <<[type |-> "output", id |-> c]>>
      BY <1>3, <2>2, Zenon DEF ToolDone, Sends
    <3>2. Last(toServer') = [type |-> "output", id |-> c]
      BY <1>0, <3>1 DEF Last
    <3> QED
      BY <3>2
  <2> QED
    BY <2>1, <2>2
<1>4. CASE ResponseCompleted
  <2> DEFINE done == Head(toClient)
  <2>1. DoneMatches(done) /\ RefuseTools(done)
    BY <1>1, <1>4, Zenon DEF ResponseCompleted, Answered, StartTools, Runaway
  <2>2. calls # {} /\ calls' = {} /\ pending' = pending
    BY <2>1, Zenon DEF RefuseTools, DoneMatches
  <2> QED
    BY <2>2 DEF IInv, OneBatch
<1>5. CASE ServesRequest
  <2>1. toServer # <<>> /\ toServer' = Tail(toServer)
    BY <1>5, Zenon DEF ServesRequest
  <2>2. Len(Tail(toServer)) < Len(toServer)
    BY <1>0, <2>1, QueueShrinks
  <2> QED
    BY <1>0, <2>1, <2>2
<1>6. CASE Interrupt \/ RequestCancel \/ Breaks \/ SeeCancel
  BY <1>1, <1>6, Zenon DEF Interrupt, RequestCancel, Breaks, Return, SeeCancel
<1>7. CASE DrainPasses \/ IdlePasses \/ ResponsePasses
  BY <1>1, <1>7, Zenon DEF DrainPasses, IdlePasses, ResponsePasses, Return
<1>8. CASE ResponseCreated \/ Transcript \/ SpeechStarted \/ SpeechStopped
  BY <1>1, <1>8, Zenon DEF ResponseCreated, Transcript, SpeechStarted, SpeechStopped, ofReceive
<1>9. CASE FunctionCall \/ ResponseCanceled
  BY <1>1, <1>9, Zenon DEF FunctionCall, ResponseCanceled, ofReceive
<1>10. CASE UserSpeaks \/ UserStops \/ Responds \/ CallsTool \/ Says \/ Completes
  BY <1>1, <1>10, Zenon DEF UserSpeaks, UserStops, Responds, CallsTool, Says, Completes
<1>11. CASE Postpones
  BY <1>1, <1>11, PostponesOnly, Zenon
<1> QED
  BY <1>2, <1>3, <1>4, <1>5, <1>6, <1>7, <1>8, <1>9, <1>10, <1>11
  DEF Next, Loop, Timely, Reads, Service, Postpones

\* The follow-up to a batch is requested after the output of every one of its
\* calls, whatever the order in which the tools finish (webrtc_session.rs:1152-1170).
THEOREM CreateAfterOutputs == Spec => FollowUpLast
<1> DEFINE Added == toServer' # toServer /\ toServer' # <<>> /\ Last(toServer').type = "create"
                      /\ Len(toServer') > Len(toServer)
                    => pending' = {} /\ calls' = {}
<1>1. IInv /\ [Next]_vars => [Added]_vars
  BY CreateLast
<1> QED
  BY <1>1, ConversationInvariant, PTL DEF Spec, FollowUpLast
================================================================================
