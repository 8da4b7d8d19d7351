------------------------------- MODULE ToolCalls -------------------------------
(***************************************************************************)
(* The tool calls of native conversations.  A call of an MCP tool goes     *)
(* through NativeMcpClient: a spawned worker owns the request, and one     *)
(* that ends without an answer closes the client for good, because the     *)
(* effect of the request is unknown.  Any other tool is a generic call: a  *)
(* supervisor task watches the task that runs the tool.                    *)
(*                                                                         *)
(* The futures of the calls are polled and dropped by the event loop, the  *)
(* workers and supervisors run on other threads.  The client outlives the  *)
(* conversation, so one conversation may follow another.  Every duration   *)
(* is abstracted: a timer that is armed may fire at any moment.            *)
(***************************************************************************)
EXTENDS Integers, FiniteSets

CONSTANTS
  McpCall, GenericCall,  \* the calls ever made, each at most once
  Conversations          \* bound on conversations

ASSUME CallsAssumption ==
  /\ IsFiniteSet(McpCall) /\ IsFiniteSet(GenericCall)
  /\ McpCall \cap GenericCall = {}
  /\ Conversations \in Nat

VARIABLES
  failed, poisoned, cancelAll, service, active,  \* NativeMcpRouting.failed, NativeMcpState
  caller, stop, unseen, worker, outcome,         \* NativeMcpCall, run_native_mcp_call
  sent,                                          \* requests handed to the transport (history)
  gcaller, gcancel, supervisor, tool, gactive,   \* GenericToolCall, start_generic_call
  session, conversations                         \* the conversation, how many have begun

clientVars  == <<failed, poisoned, cancelAll, service, active>>
mcpVars     == <<caller, stop, unseen, worker, outcome, sent>>
genericVars == <<gcaller, gcancel, supervisor, tool, gactive>>
sessionVars == <<session, conversations>>
vars == <<clientVars, mcpVars, genericVars, sessionVars>>

(* "settled": an answer, or an error of the tool or of the transport. *)
Outcome == {"none", "settled", "timeout", "cancelled", "failClosed", "cleanup"}
WorkerState == {"none", "spawned", "establishing", "looked", "sent", "stored", "poisoned", "closing",
                "awaiting", "done"}

ToolTypeOK ==
  /\ failed \in BOOLEAN /\ poisoned \in BOOLEAN /\ cancelAll \in BOOLEAN
  /\ service \in {"OPEN", "CLOSING", "CLOSED", "CLOSE_FAILED"}
  /\ active \in Nat
  /\ caller \in [McpCall -> {"idle", "checked", "waiting", "inline", "returned", "dropping", "dropped"}]
  /\ stop \in [McpCall -> BOOLEAN] /\ unseen \in [McpCall -> BOOLEAN]
  /\ worker \in [McpCall -> WorkerState]
  /\ outcome \in [McpCall -> Outcome]
  /\ sent \subseteq McpCall
  /\ gcaller \in [GenericCall -> {"idle", "waiting", "cleanup", "returned", "dropped"}]
  /\ gcancel \in [GenericCall -> BOOLEAN]
  /\ supervisor \in [GenericCall -> {"none", "watching", "grace", "aborting", "done"}]
  /\ tool \in [GenericCall -> {"none", "running", "ended"}]
  /\ gactive \in Nat
  /\ session \in {"talking", "generic", "mcp", "clean", "failed"}
  /\ conversations \in 0 .. Conversations

Init ==
  /\ failed = FALSE /\ poisoned = FALSE /\ cancelAll = FALSE
  /\ service = "OPEN" /\ active = 0
  /\ caller = [c \in McpCall |-> "idle"] /\ worker = [c \in McpCall |-> "none"]
  /\ stop = [c \in McpCall |-> FALSE] /\ unseen = [c \in McpCall |-> FALSE]
  /\ outcome = [c \in McpCall |-> "none"] /\ sent = {}
  /\ gcaller = [g \in GenericCall |-> "idle"] /\ supervisor = [g \in GenericCall |-> "none"]
  /\ gcancel = [g \in GenericCall |-> FALSE] /\ tool = [g \in GenericCall |-> "none"]
  /\ gactive = 0
  /\ session = "talking" /\ conversations = 1
--------------------------------------------------------------------------------
(* Shared pieces. *)

(* poisoned.store(true) and, after it, cancel_all.send_replace(true): every receiver has a version
   it has not seen.  Other threads run between the two. *)
Poison == poisoned' = TRUE

CancelAll ==
  /\ cancelAll' = TRUE
  /\ unseen' = [c \in McpCall |-> TRUE]

Ends(c, result) ==
  /\ worker' = [worker EXCEPT ![c] = "done"]
  /\ outcome' = [outcome EXCEPT ![c] = result]
  /\ active' = IF caller[c] = "inline" THEN active ELSE active - 1
  /\ caller' = IF caller[c] = "inline" THEN [caller EXCEPT ![c] = "returned"] ELSE caller

(* What the end of fail_close_native_mcp makes of a call: its own outcome or a cleanup error. *)
ClosedOutcome(c) == IF outcome[c] = "none" THEN "failClosed" ELSE outcome[c]

(* The event loop polls one future at a time, and a poll runs to its next await: no other one is in
   the middle of NativeMcpClient::call or of fail_close_native_mcp. *)
InPoll(c) == caller[c] = "checked" \/ (caller[c] = "inline" /\ worker[c] = "stored")
Polls == session = "talking" /\ \A c \in McpCall : ~InPoll(c)

(* A refresh of the tool list fails: routing is closed and the transport cancelled. *)
RoutingFails ==
  /\ ~failed /\ failed' = TRUE
  /\ UNCHANGED <<poisoned, cancelAll, service, active, mcpVars, genericVars, sessionVars>>
--------------------------------------------------------------------------------
(* NativeMcpClient::call.  Nothing is awaited between the check and the spawn, but workers of
   other calls run meanwhile. *)

CallFailed(c) ==
  /\ Polls /\ caller[c] = "idle" /\ failed
  /\ caller' = [caller EXCEPT ![c] = "inline"]
  /\ worker' = [worker EXCEPT ![c] = "stored"]
  /\ Poison
  /\ UNCHANGED <<failed, cancelAll, service, active, stop, unseen, outcome, sent, genericVars,
                 sessionVars>>

CallPoisoned(c) ==
  /\ Polls /\ caller[c] = "idle" /\ ~failed /\ poisoned
  /\ caller' = [caller EXCEPT ![c] = "returned"]
  /\ outcome' = [outcome EXCEPT ![c] = "failClosed"]
  /\ UNCHANGED <<clientVars, stop, unseen, worker, sent, genericVars, sessionVars>>

CallChecked(c) ==
  /\ Polls /\ caller[c] = "idle" /\ ~failed /\ ~poisoned
  /\ caller' = [caller EXCEPT ![c] = "checked"]
  /\ UNCHANGED <<clientVars, stop, unseen, worker, outcome, sent, genericVars, sessionVars>>

Spawn(c) ==
  /\ caller[c] = "checked"
  /\ caller' = [caller EXCEPT ![c] = "waiting"]
  /\ worker' = [worker EXCEPT ![c] = "spawned"]
  /\ unseen' = [unseen EXCEPT ![c] = FALSE]
  /\ active' = active + 1
  /\ UNCHANGED <<failed, poisoned, cancelAll, service, stop, outcome, sent, genericVars,
                 sessionVars>>

(* NativeMcpCall::wait returns; cancel_tx is taken, its drop does nothing more. *)
Return(c) ==
  /\ Polls /\ caller[c] = "waiting" /\ worker[c] = "done"
  /\ caller' = [caller EXCEPT ![c] = "returned"]
  /\ UNCHANGED <<clientVars, stop, unseen, worker, outcome, sent, genericVars, sessionVars>>
--------------------------------------------------------------------------------
(* run_native_mcp_call *)

ForgetBorrow(c) == FALSE                                       \* mutant: start without borrow()

SeenCancelled(c) == cancelAll

WorkerStarts(c) ==
  /\ worker[c] = "spawned"
  /\ \/ /\ SeenCancelled(c) /\ Ends(c, "cancelled")
     \/ /\ ~SeenCancelled(c)
        /\ worker' = [worker EXCEPT ![c] = "establishing"]
        /\ UNCHANGED <<active, outcome, caller>>
  /\ UNCHANGED <<failed, poisoned, cancelAll, service, stop, unseen, sent, genericVars,
                 sessionVars>>

Told(c) == stop[c] \/ unseen[c]

(* The first select is biased: it looks for a cancellation and at the deadline, and then polls the
   future that hands the request over, whatever other threads do meanwhile.  A look after which the
   queue of the transport is full changes nothing: the select waits, and looks again. *)
Looks(c) ==
  /\ worker[c] = "establishing" /\ ~Told(c)
  /\ worker' = [worker EXCEPT ![c] = "looked"]
  /\ UNCHANGED <<clientVars, caller, stop, unseen, outcome, sent, genericVars, sessionVars>>

(* The transport takes the request; one that is closed does not. *)
Establish(c) ==
  /\ worker[c] = "looked" /\ service # "CLOSED"
  /\ worker' = [worker EXCEPT ![c] = "sent"]
  /\ sent' = sent \cup {c}
  /\ UNCHANGED <<clientVars, caller, stop, unseen, outcome, genericVars, sessionVars>>

(* An answer, or an error of the tool or of the transport: the client stays open.  The second select
   is biased too, but no request can leave between its look and the answer. *)
Answer(c) ==
  /\ \/ worker[c] = "looked" /\ Ends(c, "settled")
     \/ worker[c] = "sent" /\ ~Told(c) /\ Ends(c, "settled")
  /\ UNCHANGED <<failed, poisoned, cancelAll, service, stop, unseen, sent, genericVars,
                 sessionVars>>

(* The deadline, or a cancellation: fail_close_native_mcp begins. *)
Poisons(c, result) ==
  /\ outcome' = [outcome EXCEPT ![c] = result]
  /\ worker' = [worker EXCEPT ![c] = "stored"]
  /\ Poison

Interrupted(c) ==
  /\ worker[c] \in {"establishing", "sent"}
  /\ Poisons(c, IF Told(c) THEN "cancelled" ELSE "timeout")
  /\ UNCHANGED <<failed, cancelAll, service, active, caller, stop, unseen, sent, genericVars,
                 sessionVars>>

(* After this it may spend a second on the cancel notification. *)
TellsAll(c) ==
  /\ worker[c] = "stored"
  /\ CancelAll
  /\ worker' = [worker EXCEPT ![c] = "poisoned"]
  /\ UNCHANGED <<failed, poisoned, service, active, caller, stop, outcome, sent, genericVars,
                 sessionVars>>

ClaimWithoutWaiting(c) ==                                      \* mutant: CLOSING is taken for CLOSED
  /\ worker[c] = "poisoned"
  /\ IF service = "OPEN"
       THEN service' = "CLOSING" /\ worker' = [worker EXCEPT ![c] = "closing"]
            /\ UNCHANGED <<active, outcome, caller>>
       ELSE Ends(c, ClosedOutcome(c)) /\ UNCHANGED service
  /\ UNCHANGED <<failed, poisoned, cancelAll, stop, unseen, sent, genericVars, sessionVars>>

(* The compare_exchange on service_state. *)
ClaimClose(c) ==
  /\ worker[c] = "poisoned"
  /\ \/ /\ service = "OPEN" /\ service' = "CLOSING"
        /\ worker' = [worker EXCEPT ![c] = "closing"]
        /\ UNCHANGED <<active, outcome, caller>>
     \/ /\ service = "CLOSING" /\ worker' = [worker EXCEPT ![c] = "awaiting"]
        /\ UNCHANGED <<active, outcome, caller, service>>
     \/ /\ service = "CLOSED" /\ Ends(c, ClosedOutcome(c)) /\ UNCHANGED service
     \/ /\ service = "CLOSE_FAILED" /\ Ends(c, "cleanup") /\ UNCHANGED service
  /\ UNCHANGED <<failed, poisoned, cancelAll, stop, unseen, sent, genericVars, sessionVars>>

CloseEnds(c) ==
  /\ worker[c] = "closing"
  /\ \/ service' = "CLOSED" /\ Ends(c, ClosedOutcome(c))
     \/ service' = "CLOSE_FAILED" /\ Ends(c, "cleanup")
  /\ UNCHANGED <<failed, poisoned, cancelAll, stop, unseen, sent, genericVars, sessionVars>>

AwaitForever(c) ==                                             \* mutant: no timeout of its own
  /\ worker[c] = "awaiting" /\ service # "CLOSING"
  /\ Ends(c, IF service = "CLOSED" THEN ClosedOutcome(c) ELSE "cleanup")
  /\ UNCHANGED <<failed, poisoned, cancelAll, service, stop, unseen, sent, genericVars,
                 sessionVars>>

AwaitClose(c) ==
  /\ worker[c] = "awaiting"
  /\ \/ service = "CLOSED" /\ Ends(c, ClosedOutcome(c))
     \/ service # "CLOSED" /\ Ends(c, "cleanup")
  /\ UNCHANGED <<failed, poisoned, cancelAll, service, stop, unseen, sent, genericVars,
                 sessionVars>>
--------------------------------------------------------------------------------
(* Generic calls *)

StartGeneric(g) ==
  /\ Polls /\ gcaller[g] = "idle"
  /\ gcaller' = [gcaller EXCEPT ![g] = "waiting"]
  /\ supervisor' = [supervisor EXCEPT ![g] = "watching"]
  /\ tool' = [tool EXCEPT ![g] = "running"]
  /\ gactive' = gactive + 1
  /\ UNCHANGED <<gcancel, clientVars, mcpVars, sessionVars>>

ToolFinishes(g) ==
  /\ tool[g] = "running"
  /\ tool' = [tool EXCEPT ![g] = "ended"]
  /\ UNCHANGED <<gcaller, gcancel, supervisor, gactive, clientVars, mcpVars, sessionVars>>

SupervisorSeesCancel(g) ==
  /\ supervisor[g] = "watching" /\ gcancel[g]
  /\ supervisor' = [supervisor EXCEPT ![g] = "grace"]
  /\ UNCHANGED <<gcaller, gcancel, tool, gactive, clientVars, mcpVars, sessionVars>>

(* The grace period is over: the task is aborted, and stops at its next await; every tool of the
   program awaits. *)
GraceOver(g) ==
  /\ supervisor[g] = "grace" /\ tool[g] = "running"
  /\ supervisor' = [supervisor EXCEPT ![g] = "aborting"]
  /\ UNCHANGED <<gcaller, gcancel, tool, gactive, clientVars, mcpVars, sessionVars>>

ToolAborted(g) ==
  /\ supervisor[g] = "aborting" /\ tool[g] = "running"
  /\ tool' = [tool EXCEPT ![g] = "ended"]
  /\ UNCHANGED <<gcaller, gcancel, supervisor, gactive, clientVars, mcpVars, sessionVars>>

(* The supervisor has joined the task: ActiveGenericToolCall is dropped. *)
SupervisorEnds(g) ==
  /\ supervisor[g] \in {"watching", "grace", "aborting"} /\ tool[g] # "running"
  /\ supervisor' = [supervisor EXCEPT ![g] = "done"]
  /\ gactive' = gactive - 1
  /\ UNCHANGED <<gcaller, gcancel, tool, clientVars, mcpVars, sessionVars>>

GenericReturns(g) ==
  /\ Polls /\ gcaller[g] \in {"waiting", "cleanup"} /\ supervisor[g] = "done"
  /\ gcaller' = [gcaller EXCEPT ![g] = "returned"]
  /\ UNCHANGED <<gcancel, supervisor, tool, gactive, clientVars, mcpVars, sessionVars>>

GenericDeadline(g) ==
  /\ Polls /\ gcaller[g] = "waiting"
  /\ gcaller' = [gcaller EXCEPT ![g] = "cleanup"]
  /\ gcancel' = [gcancel EXCEPT ![g] = TRUE]
  /\ UNCHANGED <<supervisor, tool, gactive, clientVars, mcpVars, sessionVars>>

GenericCleanupTimeout(g) ==
  /\ Polls /\ gcaller[g] = "cleanup"
  /\ gcaller' = [gcaller EXCEPT ![g] = "returned"]
  /\ UNCHANGED <<gcancel, supervisor, tool, gactive, clientVars, mcpVars, sessionVars>>
--------------------------------------------------------------------------------
(* The conversation ends: its pending futures are dropped by the event loop, between two of their
   polls, and wait_for_tool_idle looks at what they leave behind. *)

EndConversation ==
  /\ Polls /\ session' = "generic"
  /\ caller' = [c \in McpCall |-> IF caller[c] = "inline" THEN "dropped" ELSE caller[c]]
  /\ worker' = [c \in McpCall |-> IF caller[c] = "inline" THEN "done" ELSE worker[c]]
  /\ gcaller' = [g \in GenericCall |->
                   IF gcaller[g] \in {"waiting", "cleanup"} THEN "dropped" ELSE gcaller[g]]
  /\ gcancel' = [g \in GenericCall |-> gcancel[g] \/ gcaller[g] = "waiting"]
  /\ UNCHANGED <<clientVars, stop, unseen, outcome, sent, supervisor, tool, gactive, conversations>>

(* NativeMcpCall::drop, one call after the other: the client is poisoned, then the workers are told,
   the call's own by its cancel_tx as well. *)
Drop(c) ==
  /\ session = "generic" /\ caller[c] = "waiting" /\ \A d \in McpCall : caller[d] # "dropping"
  /\ caller' = [caller EXCEPT ![c] = "dropping"]
  /\ Poison
  /\ UNCHANGED <<failed, cancelAll, service, active, stop, unseen, worker, outcome, sent, genericVars,
                 sessionVars>>

DropTells(c) ==
  /\ caller[c] = "dropping"
  /\ caller' = [caller EXCEPT ![c] = "dropped"]
  /\ stop' = [stop EXCEPT ![c] = TRUE]
  /\ CancelAll
  /\ UNCHANGED <<failed, poisoned, service, active, worker, outcome, sent, genericVars, sessionVars>>

McpIdle == active = 0 /\ (poisoned => service = "CLOSED")

WaitGeneric ==
  /\ session = "generic" /\ \A c \in McpCall : caller[c] \notin {"waiting", "dropping"}
  /\ \/ gactive = 0 /\ session' = "mcp"
     \/ gactive # 0 /\ session' = "failed"     \* GENERIC_TOOL_CLEANUP_TIMEOUT
  /\ UNCHANGED <<conversations, clientVars, mcpVars, genericVars>>

WaitMcp ==
  /\ session = "mcp"
  /\ \/ McpIdle /\ session' = "clean"
     \/ ~McpIdle /\ session' = "failed"        \* CLOSE_FAILED or NATIVE_MCP_CLEANUP_TIMEOUT
  /\ UNCHANGED <<conversations, clientVars, mcpVars, genericVars>>

NextConversation ==
  /\ session \in {"clean", "failed"} /\ conversations < Conversations
  /\ session' = "talking" /\ conversations' = conversations + 1
  /\ UNCHANGED <<clientVars, mcpVars, genericVars>>
--------------------------------------------------------------------------------
LoopStep(c) == Spawn(c) \/ Return(c) \/ Drop(c) \/ DropTells(c)
CallerStep(c) == CallFailed(c) \/ CallPoisoned(c) \/ CallChecked(c) \/ LoopStep(c)
WorkerStep(c) == \/ WorkerStarts(c) \/ Looks(c) \/ Establish(c) \/ Answer(c) \/ Interrupted(c)
                 \/ TellsAll(c) \/ ClaimClose(c) \/ CloseEnds(c) \/ AwaitClose(c)
GenericStep(g) == \/ SupervisorSeesCancel(g) \/ GraceOver(g) \/ ToolAborted(g)
                  \/ SupervisorEnds(g) \/ GenericReturns(g) \/ GenericDeadline(g)
                  \/ GenericCleanupTimeout(g)

Next ==
  \/ RoutingFails
  \/ \E c \in McpCall : CallerStep(c) \/ WorkerStep(c)
  \/ \E g \in GenericCall : StartGeneric(g) \/ ToolFinishes(g) \/ GenericStep(g)
  \/ EndConversation \/ WaitGeneric \/ WaitMcp \/ NextConversation

(* Spawned tasks are polled and their timers fire; the event loop polls what it holds and a
   teardown under way goes on.  A tool owes nothing, and a conversation need not end. *)
Fairness ==
  /\ \A c \in McpCall : WF_vars(WorkerStep(c)) /\ WF_vars(LoopStep(c))
  /\ \A g \in GenericCall : WF_vars(GenericStep(g))
  /\ WF_vars(WaitGeneric \/ WaitMcp)

Spec == Init /\ [][Next]_vars /\ Fairness
--------------------------------------------------------------------------------
(* A request that was sent and ended without an answer may have had its effect: when its call
   reports a timeout or a cancellation, the service it went to is closed. *)
AmbiguousCloses ==
  \A c \in sent : worker[c] = "done" /\ outcome[c] \in {"timeout", "cancelled"}
                    => service = "CLOSED"

(* Once the calls in flight have been told that one was ambiguous or dropped, no request leaves but
   that of a worker that had looked before and is handing it over: no other worker gets that far any
   more, though its call had passed the checks before, or is spawned and subscribes only now. *)
NothingSentOnceAmbiguous ==
  [][\A c \in McpCall : cancelAll /\ c \notin sent /\ worker[c] # "looked"
                          => c \notin sent' /\ worker'[c] # "looked"]_vars

(* Every call that was started ends, answered or not, dropped or not. *)
CallsEnd ==
  /\ \A c \in McpCall : worker[c] # "none" ~> worker[c] = "done"
  /\ \A g \in GenericCall : supervisor[g] # "none" ~> supervisor[g] = "done"
================================================================================
