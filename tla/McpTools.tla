------------------------------- MODULE McpTools -------------------------------
(***************************************************************************)
(* Which Home Assistant tools the program knows.  Every connection to the  *)
(* MCP server has a routing table, the names that take the direct path of  *)
(* NativeMcpClient, and registers proxies with the tool server, from which *)
(* the definitions offered to the model are loaded.  A connection lists    *)
(* the tools when it is made and again on every list_changed notification; *)
(* rmcp runs each notification in a task of its own.  A client that failed *)
(* is replaced by a new connection while the program goes on; sessions     *)
(* read a snapshot of generation and client, and definitions cached per    *)
(* generation.                                                             *)
(*                                                                         *)
(* Connections are numbered in the order they are made.  A pass is one     *)
(* listing and registration of tools, by a connection being made or by a   *)
(* task of a notification.  What makes a client ambiguous is the subject   *)
(* of ToolCalls and here one step.  The tool server runs in the process    *)
(* and does not fail.                                                      *)
(***************************************************************************)
EXTENDS Integers, FiniteSets

CONSTANTS
  Tool,                 \* names a server may offer
  MaxConnections,       \* bound on connections
  Note,                 \* list_changed notifications
  MaxChanges            \* bound on changes of the list of the server

ASSUME ToolsAssumption ==
  /\ MaxConnections \in Nat \ {0} /\ MaxChanges \in Nat
  /\ Note \cap Int = {}

Connection == 1 .. MaxConnections
Nobody == 0
Pass == Connection \cup Note

VARIABLES
  offered, changes,                  \* the list of the server, how often it changed
  link, failed, token, routing,      \* each connection: transport, NativeMcpRouting
  poisoned,                          \* NativeMcpState.poisoned
  refresh, lock, managed,            \* NativeMcpHandler.refresh_state, managed_tools
  stage, conn, list,                 \* each pass: where it is, its connection, what it still adds
  proxies,                           \* the tool server: whose proxy a name is
  made, client, generation, agent,   \* connections made, AgentRuntime, reconnect_native_mcp
  cache,                             \* tool_definitions
  session                            \* the snapshot a session resolves

serverVars == <<offered, changes>>
connVars   == <<link, failed, token, routing, poisoned>>
passVars   == <<refresh, lock, managed, stage, conn, list>>
agentVars  == <<made, client, generation, agent>>
sessVars   == <<cache, session>>
vars == <<serverVars, connVars, passVars, proxies, agentVars, sessVars>>

Stage == {"none", "serving", "installing", "listing", "waiting", "routing", "publishing",
          "registered", "noted", "marking", "leaving", "failing", "done"}

McpTypeOK ==
  /\ offered \subseteq Tool /\ changes \in 0 .. MaxChanges
  /\ link \in [Connection -> {"none", "live", "closed"}]
  /\ failed \in [Connection -> BOOLEAN] /\ token \in [Connection -> BOOLEAN]
  /\ poisoned \in [Connection -> BOOLEAN]
  /\ routing \in [Connection -> SUBSET Tool] /\ managed \in [Connection -> SUBSET Tool]
  /\ refresh \in [Connection -> {"IDLE", "RUNNING", "PENDING"}]
  /\ lock \in [Connection -> Pass \cup {Nobody}]
  /\ \A k \in Connection, p \in Pass :
       lock[k] = p <=> conn[p] = k /\ stage[p] \in {"routing", "publishing"}
  /\ stage \in [Pass -> Stage] /\ conn \in [Pass -> Connection]
  /\ list \in [Pass -> [all : SUBSET Tool, left : SUBSET Tool]]
  /\ proxies \in [Tool -> Connection \cup {Nobody}]
  /\ made \in Connection /\ client \in Connection \cup {Nobody} /\ generation \in Nat
  /\ agent \in {"booting", "preloading", "idle", "removing", "connecting", "storing", "bumping"}
  /\ cache \in [generation : Nat \cup {-1}, names : SUBSET Tool]
  /\ session \in [at : {"none", "generation", "client", "ready"}, generation : Nat,
                  client : Connection \cup {Nobody}, names : SUBSET Tool]

Empty == [all |-> {}, left |-> {}]

Init ==
  /\ offered \in SUBSET Tool /\ changes = 0
  /\ link = [k \in Connection |-> "none"] /\ failed = [k \in Connection |-> FALSE]
  /\ token = [k \in Connection |-> FALSE] /\ poisoned = [k \in Connection |-> FALSE]
  /\ routing = [k \in Connection |-> {}] /\ managed = [k \in Connection |-> {}]
  /\ refresh = [k \in Connection |-> "IDLE"] /\ lock = [k \in Connection |-> Nobody]
  /\ stage = [p \in Pass |-> IF p = 1 THEN "serving" ELSE "none"]
  /\ conn = [p \in Pass |-> IF p \in Connection THEN p ELSE 1]
  /\ list = [p \in Pass |-> Empty]
  /\ proxies = [t \in Tool |-> Nobody]
  /\ made = 1 /\ client = Nobody /\ generation = 0 /\ agent = "booting"
  /\ cache = [generation |-> -1, names |-> {}]
  /\ session = [at |-> "none", generation |-> 0, client |-> Nobody, names |-> {}]

Visible == {t \in Tool : proxies[t] # Nobody}
Go(p, s) == stage' = [stage EXCEPT ![p] = s]
Leave(p) == lock' = IF lock[conn[p]] = p THEN [lock EXCEPT ![conn[p]] = Nobody] ELSE lock
--------------------------------------------------------------------------------
(* The server *)

ListChanges ==
  /\ changes < MaxChanges /\ changes' = changes + 1
  /\ \E s \in SUBSET Tool : s # offered /\ offered' = s
  /\ \E n \in Note :
       /\ stage[n] = "none"
       /\ \E k \in Connection : link[k] = "live" /\ conn' = [conn EXCEPT ![n] = k]
       /\ Go(n, "noted")
  /\ UNCHANGED <<connVars, refresh, lock, managed, list, proxies, agentVars, sessVars>>

(* A call ends ambiguously: poisoned, and the service closed. *)
CallPoisons(k) ==
  /\ k = client /\ link[k] = "live"
  /\ poisoned' = [poisoned EXCEPT ![k] = TRUE]
  /\ link' = [link EXCEPT ![k] = "closed"]
  /\ UNCHANGED <<serverVars, failed, token, routing, passVars, proxies, agentVars, sessVars>>
--------------------------------------------------------------------------------
(* on_tool_list_changed *)

(* The first compare_exchange; a second one, of its own, marks the running refresh. *)
Notified(n) ==
  LET k == conn[n] IN
  /\ n \in Note /\ stage[n] = "noted"
  /\ \/ failed[k] /\ Go(n, "done") /\ UNCHANGED refresh
     \/ /\ ~failed[k] /\ refresh[k] = "IDLE"
        /\ refresh' = [refresh EXCEPT ![k] = "RUNNING"] /\ Go(n, "listing")
     \/ ~failed[k] /\ refresh[k] = "RUNNING" /\ Go(n, "marking") /\ UNCHANGED refresh
     \/ ~failed[k] /\ refresh[k] = "PENDING" /\ Go(n, "done") /\ UNCHANGED refresh
  /\ UNCHANGED <<serverVars, connVars, lock, managed, conn, list, proxies, agentVars, sessVars>>

MarkPending(n) ==
  LET k == conn[n] IN
  /\ n \in Note /\ stage[n] = "marking" /\ Go(n, "done")
  /\ refresh' = IF refresh[k] = "RUNNING" THEN [refresh EXCEPT ![k] = "PENDING"] ELSE refresh
  /\ UNCHANGED <<serverVars, connVars, lock, managed, conn, list, proxies, agentVars, sessVars>>

(* After a successful pass: finish, or go round once more for what came meanwhile. *)
RefreshDone(n) ==
  LET k == conn[n] IN
  /\ n \in Note /\ stage[n] = "registered"
  /\ \/ /\ refresh[k] = "RUNNING"
        /\ refresh' = [refresh EXCEPT ![k] = "IDLE"] /\ Go(n, "leaving")
     \/ /\ refresh[k] # "RUNNING"
        /\ refresh' = [refresh EXCEPT ![k] = "RUNNING"] /\ Go(n, "listing")
  /\ UNCHANGED <<serverVars, connVars, lock, managed, conn, list, proxies, agentVars, sessVars>>

(* The drop of NativeRefreshGuard *)
GuardDropped(n) ==
  /\ n \in Note /\ stage[n] = "leaving" /\ Go(n, "done")
  /\ refresh' = [refresh EXCEPT ![conn[n]] = "IDLE"]
  /\ UNCHANGED <<serverVars, connVars, lock, managed, conn, list, proxies, agentVars, sessVars>>
--------------------------------------------------------------------------------
(* The steps every pass takes: list_all_tools, then replace_tools *)

ListTools(p) ==
  /\ stage[p] = "listing" /\ link[conn[p]] = "live"
  /\ list' = [list EXCEPT ![p] = [all |-> offered, left |-> offered]]
  /\ Go(p, "waiting")
  /\ UNCHANGED <<serverVars, connVars, refresh, lock, managed, conn, proxies, agentVars, sessVars>>

(* Under the lock: the proxies of the pass before go first. *)
DrainManaged(p) ==
  LET k == conn[p] IN
  /\ stage[p] = "waiting" /\ lock[k] = Nobody
  /\ lock' = [lock EXCEPT ![k] = p]
  /\ proxies' = [t \in Tool |-> IF t \in managed[k] THEN Nobody ELSE proxies[t]]
  /\ managed' = [managed EXCEPT ![k] = {}]
  /\ Go(p, "routing")
  /\ UNCHANGED <<serverVars, connVars, refresh, conn, list, agentVars, sessVars>>

RouteOnce(p) ==
  /\ stage[p] = "routing"
  /\ routing' = [routing EXCEPT ![conn[p]] = IF @ = {} THEN list[p].all ELSE @]
  /\ Go(p, "publishing")
  /\ UNCHANGED <<serverVars, link, failed, token, poisoned, refresh, lock, managed, conn, list,
                 proxies, agentVars, sessVars>>

Route(p) ==
  /\ stage[p] = "routing"
  /\ routing' = [routing EXCEPT ![conn[p]] = list[p].all]
  /\ Go(p, "publishing")
  /\ UNCHANGED <<serverVars, link, failed, token, poisoned, refresh, lock, managed, conn, list,
                 proxies, agentVars, sessVars>>

Publish(p) ==
  /\ stage[p] = "publishing"
  /\ \E t \in list[p].left :
       /\ proxies' = [proxies EXCEPT ![t] = conn[p]]
       /\ list' = [list EXCEPT ![p].left = @ \ {t}]
  /\ UNCHANGED <<serverVars, connVars, refresh, lock, managed, stage, conn, agentVars, sessVars>>

Published(p) ==
  /\ stage[p] = "publishing" /\ list[p].left = {}
  /\ managed' = [managed EXCEPT ![conn[p]] = list[p].all]
  /\ list' = [list EXCEPT ![p] = Empty]
  /\ Leave(p) /\ Go(p, "registered")
  /\ UNCHANGED <<serverVars, connVars, refresh, conn, proxies, agentVars, sessVars>>

(* A listing that fails or takes too long, and for a connection being made any await up to its
   startup deadline.  fail_closed_and_cancel first marks the routing. *)
PassFails(p) ==
  LET k == conn[p] IN
  /\ \/ stage[p] = "listing"
     \/ p \in Connection /\ stage[p] \in {"waiting", "routing", "publishing"}
  /\ failed' = [failed EXCEPT ![k] = TRUE]
  /\ list' = [list EXCEPT ![p] = Empty]
  /\ Leave(p) /\ Go(p, "failing")
  /\ UNCHANGED <<serverVars, link, token, routing, poisoned, refresh, managed, conn, proxies,
                 agentVars, sessVars>>

(* ... then cancels the service with the token it finds; a notification drops its guard, a
   connection being made is closed. *)
PassCancels(p) ==
  LET k == conn[p] IN
  /\ stage[p] = "failing"
  /\ token' = [token EXCEPT ![k] = FALSE]
  /\ link' = IF token[k] \/ p \in Connection THEN [link EXCEPT ![k] = "closed"] ELSE link
  /\ refresh' = IF p \in Note THEN [refresh EXCEPT ![k] = "IDLE"] ELSE refresh
  /\ Go(p, "done")
  /\ UNCHANGED <<serverVars, failed, routing, poisoned, lock, managed, conn, list, proxies,
                 agentVars, sessVars>>
--------------------------------------------------------------------------------
(* connect_native_handler *)

(* The handshake; from here on notifications may come. *)
Serve(k) ==
  /\ k \in Connection /\ stage[k] = "serving"
  /\ \/ link' = [link EXCEPT ![k] = "live"] /\ Go(k, "installing")
     \/ link' = [link EXCEPT ![k] = "closed"] /\ Go(k, "done")
  /\ UNCHANGED <<serverVars, failed, token, routing, poisoned, refresh, lock, managed, conn, list,
                 proxies, agentVars, sessVars>>

InstallBlindly(k) ==
  /\ k \in Connection /\ stage[k] = "installing"
  /\ token' = [token EXCEPT ![k] = TRUE] /\ Go(k, "listing")
  /\ UNCHANGED <<serverVars, link, failed, routing, poisoned, refresh, lock, managed, conn, list,
                 proxies, agentVars, sessVars>>

(* install_service_cancellation looks at failed again under the lock of the slot. *)
InstallToken(k) ==
  /\ k \in Connection /\ stage[k] = "installing"
  /\ IF failed[k] THEN link' = [link EXCEPT ![k] = "closed"] /\ UNCHANGED token
                  ELSE token' = [token EXCEPT ![k] = TRUE] /\ UNCHANGED link
  /\ Go(k, "listing")
  /\ UNCHANGED <<serverVars, failed, routing, poisoned, refresh, lock, managed, conn, list,
                 proxies, agentVars, sessVars>>
--------------------------------------------------------------------------------
(* AgentRuntime *)

Connected(k) == stage[k] = "registered"

(* new: the first connection, then the definitions are preloaded. *)
Boot ==
  /\ agent = "booting" /\ stage[1] \in {"registered", "done"}
  /\ client' = IF Connected(1) THEN 1 ELSE Nobody
  /\ agent' = "preloading"
  /\ UNCHANGED <<serverVars, connVars, passVars, proxies, made, generation, sessVars>>

Preload ==
  /\ agent = "preloading" /\ agent' = "idle"
  /\ cache' = [generation |-> generation, names |-> Visible]
  /\ UNCHANGED <<serverVars, connVars, passVars, proxies, made, client, generation, session>>

NeedsReconnect == client \in Connection => poisoned[client] \/ failed[client]

(* Single-flight; the main loop asks for it while no turn is active. *)
Reconnect ==
  /\ agent = "idle" /\ NeedsReconnect /\ made < MaxConnections
  /\ agent' = "removing"
  /\ UNCHANGED <<serverVars, connVars, passVars, proxies, made, client, generation, sessVars>>

RemoveStale ==
  /\ agent = "removing"
  /\ LET stale == UNION {routing[k] : k \in {client} \cap Connection}
     IN proxies' = [t \in Tool |-> IF t \in stale THEN Nobody ELSE proxies[t]]
  /\ agent' = "connecting" /\ made' = made + 1
  /\ stage' = [stage EXCEPT ![made + 1] = "serving"]
  /\ UNCHANGED <<serverVars, connVars, refresh, lock, managed, conn, list, client, generation,
                 sessVars>>

ConnectEnds ==
  /\ agent = "connecting"
  /\ \/ Connected(made) /\ agent' = "storing"
     \/ stage[made] = "done" /\ agent' = "idle"
  /\ UNCHANGED <<serverVars, connVars, passVars, proxies, made, client, generation, sessVars>>

StoreClient ==
  /\ agent = "storing" /\ agent' = "bumping"
  /\ client' = made
  /\ UNCHANGED <<serverVars, connVars, passVars, proxies, made, generation, sessVars>>

KeepGeneration ==
  /\ agent = "bumping" /\ agent' = "idle"
  /\ UNCHANGED <<serverVars, connVars, passVars, proxies, made, client, generation, sessVars>>

BumpGeneration ==
  /\ agent = "bumping" /\ agent' = "idle"
  /\ generation' = generation + 1
  /\ UNCHANGED <<serverVars, connVars, passVars, proxies, made, client, sessVars>>
--------------------------------------------------------------------------------
(* A session resolves its tools (native_tool_runtime): the generation, then the client, then the
   definitions of that generation. *)

ReadGeneration ==
  /\ agent \notin {"booting", "preloading"} /\ session.at \in {"none", "ready"}
  /\ session' = [at |-> "generation", generation |-> generation, client |-> Nobody, names |-> {}]
  /\ UNCHANGED <<serverVars, connVars, passVars, proxies, agentVars, cache>>

ReadClient ==
  /\ session.at = "generation"
  /\ session' = [session EXCEPT !.at = "client", !.client = client]
  /\ UNCHANGED <<serverVars, connVars, passVars, proxies, agentVars, cache>>

LoadDefinitions ==
  LET hit == cache.generation = session.generation
      names == IF hit THEN cache.names ELSE Visible
  IN
  /\ session.at = "client"
  /\ cache' = [generation |-> session.generation, names |-> names]
  /\ session' = [session EXCEPT !.at = "ready", !.names = names]
  /\ UNCHANGED <<serverVars, connVars, passVars, proxies, agentVars>>
--------------------------------------------------------------------------------
PassStep(p) == \/ ListTools(p) \/ DrainManaged(p) \/ Route(p) \/ Publish(p) \/ Published(p)
               \/ PassFails(p) \/ PassCancels(p)
NoteStep(n) == Notified(n) \/ MarkPending(n) \/ RefreshDone(n) \/ GuardDropped(n)
AgentStep == \/ Boot \/ Preload \/ Reconnect \/ RemoveStale \/ ConnectEnds \/ StoreClient
             \/ BumpGeneration

Next ==
  \/ ListChanges
  \/ \E k \in Connection : CallPoisons(k) \/ Serve(k) \/ InstallToken(k)
  \/ \E p \in Pass : PassStep(p) \/ NoteStep(p)
  \/ AgentStep
  \/ ReadGeneration \/ ReadClient \/ LoadDefinitions

Spec == Init /\ [][Next]_vars
--------------------------------------------------------------------------------
(* A proxy of the connection in use is routed by it, so a call takes the direct path and never the generic
   one with its own timeout (comment mcp.rs:208-210); in every step of a refresh, of a replacement of the
   connection and of their overlap. *)
RoutedBeforeVisible ==
  \A t \in Tool : proxies[t] = client /\ client # Nobody => t \in routing[client]

(* A connection whose routing has failed is closed as soon as the passes that failed it and the
   installation of its token are over, whichever came first. *)
FailedIsClosed ==
  \A k \in Connection :
    failed[k] /\ stage[k] # "installing"
      /\ (\A p \in Pass : conn[p] = k => stage[p] # "failing") => link[k] # "live"

(* A session that carries the current generation carries the current client: the main loop
   tells by the generation alone which warm sessions to rotate. *)
SnapshotNotBehind ==
  session.at = "ready" /\ session.generation = generation /\ agent = "idle"
    => session.client = client
================================================================================
