---------------------------- MODULE ToolCallsProofs ----------------------------
(***************************************************************************)
(* Proofs about ToolCalls for any set of calls and any number of           *)
(* conversations: a request whose effect is unknown closes the client, and *)
(* once the calls are told of it, only one that was being handed over      *)
(* still leaves.                                                           *)
(***************************************************************************)
EXTENDS ToolCalls, TLAPS

Typed ==
  /\ poisoned \in BOOLEAN /\ cancelAll \in BOOLEAN
  /\ service \in {"OPEN", "CLOSING", "CLOSED", "CLOSE_FAILED"}
  /\ caller \in [McpCall -> {"idle", "checked", "waiting", "inline", "returned", "dropping", "dropped"}]
  /\ unseen \in [McpCall -> BOOLEAN]
  /\ worker \in [McpCall -> WorkerState]
  /\ outcome \in [McpCall -> Outcome]
  /\ sent \subseteq McpCall

\* Once the calls are told, every worker that has not handed its request over has a cancellation
\* before it, and will see it when it looks the next time.
Warned ==
  /\ cancelAll => poisoned
  /\ \A c \in McpCall : worker[c] = "stored" \/ caller[c] = "dropping" => poisoned
  /\ \A c \in McpCall : cancelAll /\ worker[c] \in {"establishing", "looked"} => unseen[c]

\* A call has no worker before it is spawned, and one that ended there has sent nothing.
BeforeSpawn ==
  \A c \in McpCall :
    /\ caller[c] \in {"idle", "checked"} => worker[c] = "none"
    /\ caller[c] = "inline" => worker[c] \in {"stored", "poisoned", "closing", "awaiting"}
    /\ worker[c] \in {"none", "spawned", "establishing", "looked"} \/ caller[c] = "inline" => c \notin sent

\* One worker closes the service, and it is closed once.
OneCloser ==
  /\ \A c \in McpCall : worker[c] = "closing" => service = "CLOSING"
  /\ \A c, d \in McpCall : worker[c] = "closing" /\ worker[d] = "closing" => c = d

IInv == Typed /\ Warned /\ BeforeSpawn /\ OneCloser /\ AmbiguousCloses

--------------------------------------------------------------------------------
\* What NothingSentOnceAmbiguous says of a step.
LateOnesStop ==
  \A c \in McpCall : cancelAll /\ c \notin sent /\ worker[c] # "looked"
                       => c \notin sent' /\ worker'[c] # "looked"

LEMMA Begins == Init => IInv
<1> SUFFICES ASSUME Init PROVE IInv
  OBVIOUS
<1>1. Typed
  BY DEF Init, Typed, WorkerState, Outcome
<1>2. Warned /\ BeforeSpawn /\ OneCloser /\ AmbiguousCloses
  BY DEF Init, Warned, BeforeSpawn, OneCloser, AmbiguousCloses
<1> QED
  BY <1>1, <1>2 DEF IInv

\* The steps of the caller.
LEMMA CallerKeeps ==
  ASSUME IInv, NEW c \in McpCall, CallerStep(c)
  PROVE  IInv' /\ LateOnesStop
<1> USE DEF IInv, clientVars
<1>0. UNCHANGED <<sent, service>>
  BY DEF CallerStep, LoopStep, CallFailed, CallPoisoned, CallChecked, Spawn, Return, Drop, DropTells
<1>a. \A d \in McpCall : worker'[d] = "looked" => worker[d] = "looked"
  BY DEF CallerStep, LoopStep, CallFailed, CallPoisoned, CallChecked, Spawn, Return, Drop, DropTells, Typed
<1>b. LateOnesStop
  BY <1>0, <1>a DEF LateOnesStop
<1>1. CASE CallFailed(c)
  <2>1. worker[c] = "none" /\ c \notin sent
    BY <1>1 DEF CallFailed, BeforeSpawn
  <2>2. Typed'
    BY <1>1 DEF CallFailed, Poison, Typed, WorkerState
  <2>3. Warned' /\ BeforeSpawn' /\ OneCloser' /\ AmbiguousCloses'
    BY <1>0, <1>1, <2>1 DEF CallFailed, Poison, Typed, Warned, BeforeSpawn, OneCloser, AmbiguousCloses
  <2> QED
    BY <1>b, <2>2, <2>3
<1>2. CASE CallPoisoned(c)
  <2>1. worker[c] = "none" /\ c \notin sent
    BY <1>2 DEF CallPoisoned, BeforeSpawn
  <2> QED
    BY <1>0, <1>b, <1>2, <2>1 DEF CallPoisoned, Typed, Warned, BeforeSpawn, OneCloser, AmbiguousCloses,
                            Outcome
<1>3. CASE CallChecked(c)
  BY <1>0, <1>b, <1>3 DEF CallChecked, Typed, Warned, BeforeSpawn, OneCloser, AmbiguousCloses
<1>4. CASE Spawn(c)
  <2>1. worker[c] = "none" /\ c \notin sent
    BY <1>4 DEF Spawn, BeforeSpawn
  <2>2. Typed'
    BY <1>4 DEF Spawn, Typed, WorkerState
  <2>3. Warned' /\ BeforeSpawn' /\ OneCloser' /\ AmbiguousCloses'
    BY <1>0, <1>4, <2>1 DEF Spawn, Typed, Warned, BeforeSpawn, OneCloser, AmbiguousCloses
  <2> QED
    BY <1>b, <2>2, <2>3
<1>5. CASE Return(c)
  BY <1>0, <1>b, <1>5 DEF Return, Typed, Warned, BeforeSpawn, OneCloser, AmbiguousCloses
<1>6. CASE Drop(c)
  BY <1>0, <1>b, <1>6 DEF Drop, Poison, Typed, Warned, BeforeSpawn, OneCloser, AmbiguousCloses
<1>7. CASE DropTells(c)
  BY <1>0, <1>b, <1>7 DEF DropTells, CancelAll, Typed, Warned, BeforeSpawn, OneCloser, AmbiguousCloses
<1> QED
  BY <1>1, <1>2, <1>3, <1>4, <1>5, <1>6, <1>7 DEF CallerStep, LoopStep

\* What the end of a worker means for the invariant.
LEMMA EndsKeeps ==
  ASSUME IInv, NEW c \in McpCall, NEW result \in Outcome, Ends(c, result),
         UNCHANGED <<poisoned, cancelAll, unseen, sent>>,
         service' \in {"OPEN", "CLOSING", "CLOSED", "CLOSE_FAILED"},
         worker[c] # "none",
         service' = service \/ worker[c] = "closing",
         c \notin sent \/ result \notin {"timeout", "cancelled"} \/ service' = "CLOSED"
  PROVE  IInv' /\ LateOnesStop
<1> USE DEF IInv
<1>1. /\ worker' = [worker EXCEPT ![c] = "done"]
      /\ outcome' = [outcome EXCEPT ![c] = result]
      /\ (caller[c] # "inline" /\ caller' = caller) \/ (caller[c] = "inline" /\ caller' = [caller EXCEPT ![c] = "returned"])
  BY DEF Ends
<1>2. Typed'
  BY <1>1 DEF Typed, WorkerState
<1>3. Warned' /\ BeforeSpawn'
  BY <1>1 DEF Typed, Warned, BeforeSpawn
<1>4. OneCloser'
  BY <1>1 DEF Typed, OneCloser
<1>5. AmbiguousCloses'
  BY <1>1 DEF Typed, OneCloser, AmbiguousCloses
<1>6. LateOnesStop
  BY <1>1 DEF Typed, LateOnesStop
<1> QED
  BY <1>2, <1>3, <1>4, <1>5, <1>6

\* The steps of the worker; only Establish sends, and a worker that was told looks in vain.
LEMMA WorkerKeeps ==
  ASSUME IInv, NEW c \in McpCall, WorkerStep(c)
  PROVE  IInv' /\ LateOnesStop
<1> USE DEF IInv
<1>a. {"settled", "timeout", "cancelled", "failClosed", "cleanup"} \subseteq Outcome
      /\ ClosedOutcome(c) \in Outcome
  BY DEF Outcome, ClosedOutcome, Typed
<1>1. CASE WorkerStarts(c)
  <2>0. c \notin sent /\ UNCHANGED <<poisoned, cancelAll, unseen, sent, service>>
    BY <1>1 DEF WorkerStarts, BeforeSpawn
  <2>1. CASE Ends(c, "cancelled")
    BY <1>1, <1>a, <2>0, <2>1, EndsKeeps DEF WorkerStarts, Typed
  <2>2. CASE ~cancelAll /\ worker' = [worker EXCEPT ![c] = "establishing"]
             /\ UNCHANGED <<outcome, caller>>
    BY <1>1, <2>0, <2>2 DEF WorkerStarts, Typed, WorkerState, Warned, BeforeSpawn, OneCloser,
                            AmbiguousCloses, LateOnesStop
  <2> QED
    BY <1>1, <2>1, <2>2 DEF WorkerStarts, SeenCancelled
<1>8. CASE Looks(c)
  <2>1. ~cancelAll
    BY <1>8 DEF Looks, Told, Warned
  <2>2. c \notin sent
    BY <1>8 DEF Looks, BeforeSpawn
  <2> QED
    BY <1>8, <2>1, <2>2
    DEF Looks, clientVars, Typed, WorkerState, Warned, BeforeSpawn, OneCloser, AmbiguousCloses, LateOnesStop
<1>2. CASE Establish(c)
  <2>2. caller[c] # "idle" /\ caller[c] # "checked"
    BY <1>2 DEF Establish, BeforeSpawn
  <2>3. caller[c] # "inline"
    BY <1>2 DEF Establish, Typed, BeforeSpawn
  <2> QED
    BY <1>2, <2>2, <2>3
    DEF Establish, clientVars, Typed, WorkerState, Warned, BeforeSpawn, OneCloser, AmbiguousCloses,
        LateOnesStop
<1>3. CASE Answer(c)
  BY <1>3, <1>a, EndsKeeps DEF Answer, Typed
<1>4. CASE Interrupted(c)
  <2>1. PICK result \in Outcome : Poisons(c, result)
    BY <1>4, <1>a DEF Interrupted
  <2> QED
    BY <1>4, <2>1
    DEF Interrupted, Poisons, Poison, Typed, WorkerState, Warned, BeforeSpawn, OneCloser,
        AmbiguousCloses, LateOnesStop
<1>9. CASE TellsAll(c)
  BY <1>9 DEF TellsAll, CancelAll, Typed, WorkerState, Warned, BeforeSpawn, OneCloser, AmbiguousCloses,
              LateOnesStop
<1>5. CASE ClaimClose(c)
  <2>0. UNCHANGED <<poisoned, cancelAll, unseen, sent>> /\ worker[c] = "poisoned"
    BY <1>5 DEF ClaimClose
  <2>1. CASE service = "OPEN" /\ service' = "CLOSING" /\ UNCHANGED <<outcome, caller>>
             /\ worker' = [worker EXCEPT ![c] = "closing"]
    BY <2>0, <2>1 DEF Typed, WorkerState, Warned, BeforeSpawn, OneCloser, AmbiguousCloses, LateOnesStop
  <2>2. CASE worker' = [worker EXCEPT ![c] = "awaiting"] /\ UNCHANGED <<outcome, caller, service>>
    BY <2>0, <2>2 DEF Typed, WorkerState, Warned, BeforeSpawn, OneCloser, AmbiguousCloses, LateOnesStop
  <2>3. CASE service = "CLOSED" /\ Ends(c, ClosedOutcome(c)) /\ UNCHANGED service
    BY <1>a, <2>0, <2>3, EndsKeeps DEF Typed
  <2>4. CASE Ends(c, "cleanup") /\ UNCHANGED service
    BY <1>a, <2>0, <2>4, EndsKeeps DEF Typed
  <2> QED
    BY <1>5, <2>0, <2>1, <2>2, <2>3, <2>4 DEF ClaimClose
<1>6. CASE CloseEnds(c)
  <2>0. UNCHANGED <<poisoned, cancelAll, unseen, sent>> /\ worker[c] = "closing"
    BY <1>6 DEF CloseEnds
  <2>1. CASE service' = "CLOSED" /\ Ends(c, ClosedOutcome(c))
    BY <1>a, <2>0, <2>1, EndsKeeps
  <2>2. CASE service' = "CLOSE_FAILED" /\ Ends(c, "cleanup")
    BY <1>a, <2>0, <2>2, EndsKeeps
  <2> QED
    BY <1>6, <2>0, <2>1, <2>2 DEF CloseEnds
<1>7. CASE AwaitClose(c)
  <2>0. UNCHANGED <<poisoned, cancelAll, unseen, sent, service>> /\ worker[c] = "awaiting"
    BY <1>7 DEF AwaitClose
  <2>1. CASE service = "CLOSED" /\ Ends(c, ClosedOutcome(c))
    BY <1>a, <2>0, <2>1, EndsKeeps DEF Typed
  <2>2. CASE Ends(c, "cleanup")
    BY <1>a, <2>0, <2>2, EndsKeeps DEF Typed
  <2> QED
    BY <1>7, <2>0, <2>1, <2>2 DEF AwaitClose
<1> QED
  BY <1>1, <1>2, <1>3, <1>4, <1>5, <1>6, <1>7, <1>8, <1>9 DEF WorkerStep

\* The conversation ends: a close that was polled by the event loop goes.
LEMMA EndKeeps ==
  ASSUME IInv, EndConversation
  PROVE  IInv' /\ LateOnesStop
<1> USE DEF IInv
<1>0. /\ UNCHANGED <<sent, service, outcome, poisoned, cancelAll, unseen>>
      /\ caller' = [c \in McpCall |-> IF caller[c] = "inline" THEN "dropped" ELSE caller[c]]
      /\ worker' = [c \in McpCall |-> IF caller[c] = "inline" THEN "done" ELSE worker[c]]
  BY DEF EndConversation, clientVars
<1>1. Typed'
  BY <1>0 DEF Typed, WorkerState
<1>2. Warned' /\ LateOnesStop
  BY <1>0 DEF Typed, Warned, LateOnesStop
<1>3. BeforeSpawn' /\ OneCloser' /\ AmbiguousCloses'
  BY <1>0 DEF Typed, BeforeSpawn, OneCloser, AmbiguousCloses
<1> QED
  BY <1>1, <1>2, <1>3

\* Nothing else touches the calls of the MCP client.
LEMMA Apart ==
  ASSUME NEW g \in GenericCall,
         RoutingFails \/ StartGeneric(g) \/ ToolFinishes(g) \/ GenericStep(g)
           \/ WaitGeneric \/ WaitMcp \/ NextConversation
  PROVE  UNCHANGED <<poisoned, cancelAll, service, mcpVars>>
BY DEF RoutingFails, StartGeneric, ToolFinishes, GenericStep, WaitGeneric, WaitMcp,
       NextConversation, SupervisorSeesCancel, GraceOver, ToolAborted, SupervisorEnds,
       GenericReturns, GenericDeadline, GenericCleanupTimeout, clientVars

LEMMA StepKeeps ==
  ASSUME IInv, [Next]_vars
  PROVE  IInv' /\ LateOnesStop
<1>0. UNCHANGED <<poisoned, cancelAll, service, mcpVars>> => IInv' /\ LateOnesStop
  BY DEF mcpVars, IInv, Typed, Warned, BeforeSpawn, OneCloser, AmbiguousCloses, LateOnesStop
<1>1. RoutingFails \/ WaitGeneric \/ WaitMcp \/ NextConversation
        => UNCHANGED <<poisoned, cancelAll, service, mcpVars>>
  BY DEF RoutingFails, WaitGeneric, WaitMcp, NextConversation, clientVars
<1>2. UNCHANGED vars => UNCHANGED <<poisoned, cancelAll, service, mcpVars>>
  BY DEF vars, clientVars
<1> QED
  BY <1>0, <1>1, <1>2, Apart, CallerKeeps, WorkerKeeps, EndKeeps DEF Next

--------------------------------------------------------------------------------
\* The inductive invariant.
THEOREM ToolCallsInvariant == Spec => []IInv
BY Begins, StepKeeps, PTL DEF Spec

\* A request that was sent and ended without an answer leaves the service closed
\* (fail_close_native_mcp), whichever of the calls in flight gets to close it.
THEOREM AmbiguityCloses == Spec => []AmbiguousCloses
BY ToolCallsInvariant, PTL DEF IInv

\* Once the calls are told of an ambiguous one, none that has not looked by then ever sends its
\* request, for any calls in flight and about to be spawned (NativeMcpClient::call,
\* run_native_mcp_call).
THEOREM NothingSentAfter == Spec => NothingSentOnceAmbiguous
<1>1. IInv /\ [Next]_vars => [LateOnesStop]_vars
  BY StepKeeps
<1> QED
  BY <1>1, ToolCallsInvariant, PTL DEF Spec, NothingSentOnceAmbiguous, LateOnesStop

================================================================================
