---------------------------- MODULE McpToolsProofs -----------------------------
(***************************************************************************)
(* Proofs about McpTools for any set of tools, any number of connections,  *)
(* of notifications and of changes of the server's list: the tools of the  *)
(* connection in use are routed by it, a connection whose routing failed   *)
(* is closed, and the generation tells a session that it is behind.        *)
(***************************************************************************)
EXTENDS McpTools, TLAPS

\* Connections are made one after the other; the client is one that was made to the end.
Stations ==
  /\ \A k \in Connection : conn[k] = k
  /\ \A k \in Connection : k > made => link[k] = "none"
  /\ \A p \in Pass : conn[p] > made => stage[p] = "none"
  /\ agent = "removing" => made < MaxConnections
  /\ client \in Connection => stage[client] = "registered"
  /\ agent = "storing" => stage[made] = "registered"

\* What cancels a live connection is there from the installation of its token on.
Tokens == \A k \in Connection : link[k] = "live" /\ stage[k] # "installing" => token[k]

\* The proxies of a connection that has not failed are those its last pass published, and those
\* a pass under way has published so far; all of them are routed.
Routed ==
  /\ \A p \in Pass : list[p].left \subseteq list[p].all
  /\ \A k \in Connection, t \in Tool :
       stage[k] \notin {"failing", "done"} /\ proxies[t] = k =>
         /\ t \in routing[k]
         /\ lock[k] = Nobody => t \in managed[k]
         /\ lock[k] # Nobody => stage[lock[k]] = "publishing" /\ t \in list[lock[k]].all
  /\ \A p \in Pass : stage[p] = "publishing" => routing[conn[p]] = list[p].all

\* A session that has read its client holds the one of its generation, unless it is a new one
\* whose generation is not counted yet.
Fresh ==
  /\ session.generation <= generation
  /\ session.at # "none" => agent \notin {"booting", "preloading"}
  /\ session.at \in {"client", "ready"} /\ session.generation = generation /\ agent # "bumping"
       => session.client = client

IInv == McpTypeOK /\ Stations /\ Tokens /\ Routed /\ Fresh /\ FailedIsClosed

--------------------------------------------------------------------------------
\* A notification is no connection, and nobody is neither.
LEMMA NotesApart == Note \cap Connection = {} /\ Nobody \notin Pass /\ Nobody \notin Connection
BY ToolsAssumption DEF Connection, Nobody, Pass

\* The types the stations need.
LEMMA StationTypes ==
  ASSUME IInv
  PROVE  /\ made \in 1 .. MaxConnections /\ MaxConnections \in Nat
         /\ Connection \subseteq Pass /\ Connection = 1 .. MaxConnections
         /\ conn \in [Pass -> Connection] /\ stage \in [Pass -> Stage]
         /\ link \in [Connection -> {"none", "live", "closed"}]
BY ToolsAssumption DEF IInv, McpTypeOK, Connection, Pass

\* The connection a reconnect is about to make is new.
LEMMA NextIsNew ==
  ASSUME IInv, agent = "removing"
  PROVE  made + 1 \in Connection /\ stage[made + 1] = "none" /\ link[made + 1] = "none"
<1>1. made + 1 \in Connection
  BY StationTypes DEF IInv, Stations
<1> QED
  BY <1>1, StationTypes DEF IInv, Stations

\* A pass under way goes on, and may change the link of its own connection.
Moves(p) ==
  /\ UNCHANGED <<conn, made, agent, client>>
  /\ stage[p] # "none" /\ (p \in Connection => stage[p] # "registered")
  /\ \A q \in Pass : q # p => stage'[q] = stage[q]
  /\ \A k \in Connection : k # conn[p] => link'[k] = link[k]

LEMMA MovesStations ==
  ASSUME IInv, NEW p \in Pass, Moves(p)
  PROVE  Stations'
<1>1. Stations
  BY DEF IInv
<1>2. conn[p] <= made /\ (agent = "storing" => p # made) /\ (client \in Connection => p # client)
  BY <1>1, StationTypes DEF Moves, Stations
<1> QED
  BY <1>1, <1>2, StationTypes DEF Moves, Stations

LEMMA PassMoves ==
  ASSUME IInv, NEW p \in Pass,
         Serve(p) \/ InstallToken(p) \/ PassStep(p) \/ NoteStep(p)
  PROVE  Moves(p)
<1> USE StationTypes, NotesApart DEF agentVars, connVars, Moves, Go
<1>1. CASE Serve(p) \/ InstallToken(p)
  <2>1. conn[p] = p
    BY <1>1 DEF Serve, InstallToken, IInv, Stations
  <2> QED
    BY <1>1, <2>1 DEF Serve, InstallToken
<1>2. CASE ListTools(p) \/ DrainManaged(p) \/ Route(p)
  BY <1>2 DEF ListTools, DrainManaged, Route
<1>3. CASE Publish(p) \/ Published(p)
  BY <1>3 DEF Publish, Published
<1>4. CASE PassFails(p) \/ PassCancels(p)
  BY <1>4 DEF PassFails, PassCancels
<1>5. CASE NoteStep(p)
  BY <1>5 DEF NoteStep, Notified, MarkPending, RefreshDone, GuardDropped
<1> QED
  BY <1>1, <1>2, <1>3, <1>4, <1>5 DEF PassStep

\* The lock is still held by whom it was.
SameHolders ==
  /\ UNCHANGED <<lock, conn>>
  /\ stage' \in [Pass -> Stage]
  /\ \A p \in Pass : stage'[p] \in {"routing", "publishing"} <=> stage[p] \in {"routing", "publishing"}

LEMMA SameHoldersTypes ==
  ASSUME IInv, SameHolders
  PROVE  /\ (\A k \in Connection, p \in Pass :
               lock[k] = p <=> conn[p] = k /\ stage[p] \in {"routing", "publishing"})'
         /\ (stage \in [Pass -> Stage])' /\ (conn \in [Pass -> Connection])'
         /\ (lock \in [Connection -> Pass \cup {Nobody}])'
BY DEF IInv, McpTypeOK, SameHolders

LEMMA ServeTypes ==
  ASSUME IInv, NEW k \in Connection, Serve(k)
  PROVE  McpTypeOK'
<1>1. SameHolders
  BY StationTypes DEF Serve, Go, SameHolders, Stage
<1>2. link' \in [Connection -> {"none", "live", "closed"}]
  BY StationTypes DEF Serve
<1> QED
  BY <1>1, <1>2, SameHoldersTypes DEF Serve, McpTypeOK, IInv, serverVars, agentVars, sessVars

LEMMA InstallTypes ==
  ASSUME IInv, NEW k \in Connection, InstallToken(k)
  PROVE  McpTypeOK'
<1>1. SameHolders
  BY StationTypes DEF InstallToken, Go, SameHolders, Stage
<1>2. link' \in [Connection -> {"none", "live", "closed"}]
  BY StationTypes DEF InstallToken
<1>3. token' \in [Connection -> BOOLEAN]
  <2>1. token \in [Connection -> BOOLEAN]
    BY DEF IInv, McpTypeOK
  <2> QED
    BY <2>1 DEF InstallToken
<1> QED
  BY <1>1, <1>2, <1>3, SameHoldersTypes
  DEF InstallToken, McpTypeOK, IInv, serverVars, agentVars, sessVars

LEMMA PublishTypes ==
  ASSUME IInv, NEW p \in Pass, Publish(p)
  PROVE  McpTypeOK'
<1>1. PICK t \in list[p].left : /\ proxies' = [proxies EXCEPT ![t] = conn[p]]
                                /\ list' = [list EXCEPT ![p].left = @ \ {t}]
  BY DEF Publish
<1>2. t \in Tool /\ conn[p] \in Connection
  <2>1. list[p] \in [all : SUBSET Tool, left : SUBSET Tool]
    BY DEF IInv, McpTypeOK
  <2> QED
    BY <2>1, StationTypes
<1>3. proxies' \in [Tool -> Connection \cup {Nobody}]
  BY <1>1, <1>2 DEF IInv, McpTypeOK
<1>4. list' \in [Pass -> [all : SUBSET Tool, left : SUBSET Tool]]
  <2>1. list \in [Pass -> [all : SUBSET Tool, left : SUBSET Tool]]
    BY DEF IInv, McpTypeOK
  <2> QED
    BY <1>1, <2>1
<1>5. UNCHANGED <<serverVars, connVars, refresh, lock, managed, stage, conn, agentVars, sessVars>>
  BY DEF Publish
<1> QED
  BY <1>3, <1>4, <1>5 DEF McpTypeOK, IInv, serverVars, connVars, agentVars, sessVars

LEMMA NotedTypes ==
  ASSUME IInv, NEW p \in Pass, Notified(p) \/ RefreshDone(p)
  PROVE  McpTypeOK'
<1>1. SameHolders
  <2>1. \E s \in Stage \ {"routing", "publishing"} :
          stage' \in {stage, [stage EXCEPT ![p] = s]} /\ stage[p] \notin {"routing", "publishing"}
    BY DEF Notified, RefreshDone, Go, Stage
  <2>2. UNCHANGED <<lock, conn>>
    BY DEF Notified, RefreshDone
  <2> QED
    BY <2>1, <2>2, StationTypes DEF SameHolders
<1>2. refresh' \in [Connection -> {"IDLE", "RUNNING", "PENDING"}]
  <2>1. refresh \in [Connection -> {"IDLE", "RUNNING", "PENDING"}]
    BY DEF IInv, McpTypeOK
  <2> QED
    BY <2>1 DEF Notified, RefreshDone
<1> QED
  BY <1>1, <1>2, SameHoldersTypes
  DEF Notified, RefreshDone, McpTypeOK, IInv, serverVars, connVars, agentVars, sessVars

LEMMA RemoveTypes ==
  ASSUME IInv, RemoveStale
  PROVE  McpTypeOK'
<1>1. agent = "removing" /\ made + 1 \in Connection /\ stage[made + 1] = "none"
  BY NextIsNew DEF RemoveStale
<1>2. SameHolders
  BY <1>1, StationTypes DEF RemoveStale, SameHolders, Stage
<1>3. proxies' \in [Tool -> Connection \cup {Nobody}]
  BY DEF RemoveStale, IInv, McpTypeOK
<1> QED
  BY <1>1, <1>2, <1>3, SameHoldersTypes
  DEF RemoveStale, McpTypeOK, IInv, serverVars, connVars, sessVars

LEMMA BootTypes ==
  ASSUME IInv, Boot
  PROVE  McpTypeOK'
<1>1. client' \in Connection \cup {Nobody} /\ agent' = "preloading"
  BY ToolsAssumption DEF Boot, Connection
<1> QED
  BY <1>1 DEF Boot, McpTypeOK, IInv, serverVars, connVars, passVars, sessVars

Session == [at : {"none", "generation", "client", "ready"}, generation : Nat,
            client : Connection \cup {Nobody}, names : SUBSET Tool]

LEMMA SessionTypes ==
  ASSUME IInv, ReadClient \/ LoadDefinitions
  PROVE  McpTypeOK'
<1>1. session \in Session /\ client \in Connection \cup {Nobody} /\ Visible \subseteq Tool
      /\ cache \in [generation : Nat \cup {-1}, names : SUBSET Tool]
  BY DEF IInv, McpTypeOK, Session, Visible
<1>2. UNCHANGED <<serverVars, connVars, passVars, proxies, agentVars>>
  BY DEF ReadClient, LoadDefinitions
<1>3. CASE ReadClient
  <2>1. session' \in Session /\ UNCHANGED cache
    BY <1>1, <1>3 DEF ReadClient, Session
  <2> QED
    BY <1>2, <2>1 DEF McpTypeOK, IInv, Session, serverVars, connVars, passVars, agentVars
<1>4. CASE LoadDefinitions
  <2>1. PICK names \in SUBSET Tool :
          /\ cache' = [generation |-> session.generation, names |-> names]
          /\ session' = [session EXCEPT !.at = "ready", !.names = names]
    BY <1>1, <1>4 DEF LoadDefinitions
  <2>2. session' \in Session /\ cache' \in [generation : Nat \cup {-1}, names : SUBSET Tool]
    BY <1>1, <2>1 DEF Session
  <2> QED
    BY <1>2, <2>2 DEF McpTypeOK, IInv, Session, serverVars, connVars, passVars, agentVars
<1> QED
  BY <1>3, <1>4

\* A change of the list starts the task of a notification of a live connection.
LEMMA Picked ==
  ASSUME ListChanges
  PROVE  \E n \in Note, k \in Connection :
           /\ stage[n] = "none" /\ link[k] = "live" /\ conn' = [conn EXCEPT ![n] = k]
           /\ Go(n, "noted")
BY DEF ListChanges

LEMMA PickedApart ==
  ASSUME IInv, ListChanges
  PROVE  /\ \A p \in Pass : /\ stage'[p] = "failing" <=> stage[p] = "failing"
                            /\ stage[p] = "failing" => conn'[p] = conn[p]
         /\ \A j \in Connection : stage'[j] = stage[j]
<1>1. PICK n \in Note, k \in Connection :
        stage[n] = "none" /\ conn' = [conn EXCEPT ![n] = k] /\ stage' = [stage EXCEPT ![n] = "noted"]
  BY Picked DEF Go
<1> QED
  BY <1>1, StationTypes, NotesApart

LEMMA PassKeepsStations ==
  ASSUME IInv, NEW p \in Pass,
         Serve(p) \/ InstallToken(p) \/ PassStep(p) \/ NoteStep(p)
  PROVE  Stations'
BY PassMoves, MovesStations

\* Connections, their passes and the client keep step with each other.
LEMMA StationsKept ==
  ASSUME IInv, [Next]_vars
  PROVE  Stations'
<1>0. Stations
  BY DEF IInv
<1>1. ASSUME NEW p \in Pass, Serve(p) \/ InstallToken(p) \/ PassStep(p) \/ NoteStep(p)
      PROVE  Stations'
  BY <1>1, PassKeepsStations
<1>2. CASE ListChanges
  <2>1. PICK n \in Note, k \in Connection :
          /\ stage[n] = "none" /\ link[k] = "live" /\ conn' = [conn EXCEPT ![n] = k]
          /\ stage' = [stage EXCEPT ![n] = "noted"]
    BY <1>2, Picked DEF Go
  <2>2. n \notin Connection /\ k <= made
    BY <1>0, <2>1, NotesApart, StationTypes DEF Stations
  <2>3. UNCHANGED <<link, made, agent, client>>
    BY <1>2 DEF ListChanges, connVars, agentVars
  <2>4. \A j \in Connection : stage'[j] = stage[j] /\ conn'[j] = conn[j]
    BY <2>1, <2>2, StationTypes
  <2>5. \A p \in Pass : conn'[p] > made => stage'[p] = "none"
    BY <1>0, <2>1, <2>2, StationTypes DEF Stations
  <2> QED
    BY <1>0, <2>3, <2>4, <2>5, StationTypes DEF Stations
<1>3. ASSUME NEW k \in Connection, CallPoisons(k)
      PROVE  Stations'
  BY <1>0, <1>3, StationTypes DEF CallPoisons, Stations, passVars, agentVars
<1>4. CASE RemoveStale
  <2>1. agent = "removing" /\ made + 1 \in Connection /\ stage[made + 1] = "none"
    BY <1>4, NextIsNew DEF RemoveStale
  <2>2. /\ UNCHANGED <<link, conn, client>> /\ agent' = "connecting" /\ made' = made + 1
        /\ stage' = [stage EXCEPT ![made + 1] = "serving"]
    BY <1>4 DEF RemoveStale, connVars
  <2>3. conn[made + 1] = made + 1 /\ client # made + 1
    BY <1>0, <2>1 DEF Stations
  <2>4. \A p \in Pass : conn[p] > made + 1 => stage'[p] = "none"
    BY <1>0, <2>1, <2>2, <2>3, StationTypes DEF Stations
  <2> QED
    BY <1>0, <2>1, <2>2, <2>3, <2>4, StationTypes DEF Stations
<1>5. CASE Boot \/ Preload \/ Reconnect
  BY <1>0, <1>5, StationTypes, ToolsAssumption
  DEF Boot, Preload, Reconnect, Connected, Stations, connVars, passVars, Connection, Nobody
<1>6. CASE ConnectEnds \/ StoreClient \/ BumpGeneration
  BY <1>0, <1>6, StationTypes
  DEF ConnectEnds, StoreClient, BumpGeneration, Connected, Stations, connVars, passVars
<1>7. CASE UNCHANGED vars \/ ReadGeneration \/ ReadClient \/ LoadDefinitions
  BY <1>0, <1>7 DEF ReadGeneration, ReadClient, LoadDefinitions, Stations, vars, connVars,
                    passVars, agentVars
<1> QED
  BY <1>1, <1>2, <1>3, <1>4, <1>5, <1>6, <1>7, StationTypes DEF Next, AgentStep

\* A live connection keeps its token, or is cancelled with it.
LEMMA TokensKept ==
  ASSUME IInv, [Next]_vars
  PROVE  Tokens'
<1> USE NotesApart DEF serverVars, connVars, passVars, agentVars, sessVars,
             Tokens, Stations, McpTypeOK, Go, IInv, Pass
<1>1. CASE UNCHANGED vars
  BY <1>1 DEF vars
<1>2. CASE ListChanges
  BY <1>2 DEF ListChanges
<1>3. ASSUME NEW k \in Connection, CallPoisons(k)
      PROVE  Tokens'
  BY <1>3 DEF CallPoisons
<1>4. ASSUME NEW k \in Connection, Serve(k)
      PROVE  Tokens'
  BY <1>4 DEF Serve
<1>5. ASSUME NEW k \in Connection, InstallToken(k)
      PROVE  Tokens'
  BY <1>5 DEF InstallToken
<1>6. ASSUME NEW p \in Pass, ListTools(p)
      PROVE  Tokens'
  BY <1>6 DEF ListTools
<1>7. ASSUME NEW p \in Pass, DrainManaged(p)
      PROVE  Tokens'
  BY <1>7 DEF DrainManaged
<1>8. ASSUME NEW p \in Pass, Route(p)
      PROVE  Tokens'
  BY <1>8 DEF Route
<1>9. ASSUME NEW p \in Pass, Publish(p)
      PROVE  Tokens'
  BY <1>9 DEF Publish
<1>10. ASSUME NEW p \in Pass, Published(p)
      PROVE  Tokens'
  BY <1>10 DEF Published
<1>11. ASSUME NEW p \in Pass, PassFails(p)
      PROVE  Tokens'
  BY <1>11 DEF PassFails
<1>12. ASSUME NEW p \in Pass, PassCancels(p)
      PROVE  Tokens'
  BY <1>12 DEF PassCancels
<1>13. ASSUME NEW p \in Pass, Notified(p)
      PROVE  Tokens'
  BY <1>13 DEF Notified
<1>14. ASSUME NEW p \in Pass, MarkPending(p)
      PROVE  Tokens'
  BY <1>14 DEF MarkPending
<1>15. ASSUME NEW p \in Pass, RefreshDone(p)
      PROVE  Tokens'
  BY <1>15 DEF RefreshDone
<1>16. ASSUME NEW p \in Pass, GuardDropped(p)
      PROVE  Tokens'
  BY <1>16 DEF GuardDropped
<1>17. CASE Boot
  BY <1>17 DEF Boot
<1>18. CASE Preload
  BY <1>18 DEF Preload
<1>19. CASE Reconnect
  BY <1>19 DEF Reconnect
<1>20. CASE RemoveStale
  <2>1. stage[made + 1] = "none" /\ link[made + 1] = "none" /\ made + 1 \in Connection
    BY <1>20, NextIsNew DEF RemoveStale
  <2> QED
    BY <1>20, <2>1 DEF RemoveStale
<1>21. CASE ConnectEnds
  BY <1>21 DEF ConnectEnds
<1>22. CASE StoreClient
  BY <1>22 DEF StoreClient
<1>23. CASE BumpGeneration
  BY <1>23 DEF BumpGeneration
<1>24. CASE ReadGeneration
  BY <1>24 DEF ReadGeneration
<1>25. CASE ReadClient
  BY <1>25 DEF ReadClient
<1>26. CASE LoadDefinitions
  BY <1>26 DEF LoadDefinitions
<1> QED
  BY <1>1, <1>2, <1>3, <1>4, <1>5, <1>6, <1>7, <1>8, <1>9, <1>10, <1>11, <1>12, <1>13,
     <1>14, <1>15, <1>16, <1>17, <1>18, <1>19, <1>20, <1>21, <1>22, <1>23, <1>24, <1>25, <1>26
  DEF Next, PassStep, NoteStep, AgentStep

\* What a session has read is told apart by the generation.
LEMMA FreshKept ==
  ASSUME IInv, [Next]_vars
  PROVE  Fresh'
<1> USE NotesApart DEF serverVars, connVars, passVars, agentVars, sessVars,
             Fresh, McpTypeOK, IInv
<1>1. CASE UNCHANGED vars
  BY <1>1 DEF vars
<1>2. CASE ListChanges
  BY <1>2 DEF ListChanges
<1>3. ASSUME NEW k \in Connection, CallPoisons(k)
      PROVE  Fresh'
  BY <1>3 DEF CallPoisons
<1>4. ASSUME NEW k \in Connection, Serve(k)
      PROVE  Fresh'
  BY <1>4 DEF Serve
<1>5. ASSUME NEW k \in Connection, InstallToken(k)
      PROVE  Fresh'
  BY <1>5 DEF InstallToken
<1>6. ASSUME NEW p \in Pass, ListTools(p)
      PROVE  Fresh'
  BY <1>6 DEF ListTools
<1>7. ASSUME NEW p \in Pass, DrainManaged(p)
      PROVE  Fresh'
  BY <1>7 DEF DrainManaged
<1>8. ASSUME NEW p \in Pass, Route(p)
      PROVE  Fresh'
  BY <1>8 DEF Route
<1>9. ASSUME NEW p \in Pass, Publish(p)
      PROVE  Fresh'
  BY <1>9 DEF Publish
<1>10. ASSUME NEW p \in Pass, Published(p)
      PROVE  Fresh'
  BY <1>10 DEF Published
<1>11. ASSUME NEW p \in Pass, PassFails(p)
      PROVE  Fresh'
  BY <1>11 DEF PassFails
<1>12. ASSUME NEW p \in Pass, PassCancels(p)
      PROVE  Fresh'
  BY <1>12 DEF PassCancels
<1>13. ASSUME NEW p \in Pass, Notified(p)
      PROVE  Fresh'
  BY <1>13 DEF Notified
<1>14. ASSUME NEW p \in Pass, MarkPending(p)
      PROVE  Fresh'
  BY <1>14 DEF MarkPending
<1>15. ASSUME NEW p \in Pass, RefreshDone(p)
      PROVE  Fresh'
  BY <1>15 DEF RefreshDone
<1>16. ASSUME NEW p \in Pass, GuardDropped(p)
      PROVE  Fresh'
  BY <1>16 DEF GuardDropped
<1>17. CASE Boot
  BY <1>17 DEF Boot
<1>18. CASE Preload
  BY <1>18 DEF Preload
<1>19. CASE Reconnect
  BY <1>19 DEF Reconnect
<1>20. CASE RemoveStale
  BY <1>20 DEF RemoveStale
<1>21. CASE ConnectEnds
  BY <1>21 DEF ConnectEnds
<1>22. CASE StoreClient
  BY <1>22 DEF StoreClient
<1>23. CASE BumpGeneration
  BY <1>23 DEF BumpGeneration
<1>24. CASE ReadGeneration
  BY <1>24 DEF ReadGeneration
<1>25. CASE ReadClient
  BY <1>25 DEF ReadClient
<1>26. CASE LoadDefinitions
  BY <1>26 DEF LoadDefinitions
<1> QED
  BY <1>1, <1>2, <1>3, <1>4, <1>5, <1>6, <1>7, <1>8, <1>9, <1>10, <1>11, <1>12, <1>13,
     <1>14, <1>15, <1>16, <1>17, <1>18, <1>19, <1>20, <1>21, <1>22, <1>23, <1>24, <1>25, <1>26
  DEF Next, PassStep, NoteStep, AgentStep

\* A connection whose routing failed does not stay open.
LEMMA ClosedKept ==
  ASSUME IInv, [Next]_vars
  PROVE  FailedIsClosed'
<1> USE NotesApart DEF serverVars, connVars, passVars, agentVars, sessVars,
             FailedIsClosed, Tokens, Stations, McpTypeOK, Go, IInv, Pass
<1>1. CASE UNCHANGED vars
  BY <1>1 DEF vars
<1>2. CASE ListChanges
  <2>2. \A p \in Pass : /\ stage'[p] = "failing" <=> stage[p] = "failing"
                        /\ stage[p] = "failing" => conn'[p] = conn[p]
    BY <1>2, PickedApart
  <2>3. \A j \in Connection : stage'[j] = stage[j]
    BY <1>2, PickedApart
  <2>4. UNCHANGED <<failed, link>>
    BY <1>2 DEF ListChanges
  <2>5. FailedIsClosed
    OBVIOUS
  <2> HIDE DEF McpTypeOK, Stations, Tokens, Go, IInv, Pass
  <2> QED
    BY <2>2, <2>3, <2>4, <2>5
<1>3. ASSUME NEW k \in Connection, CallPoisons(k)
      PROVE  FailedIsClosed'
  BY <1>3 DEF CallPoisons
<1>4. ASSUME NEW k \in Connection, Serve(k)
      PROVE  FailedIsClosed'
  BY <1>4 DEF Serve
<1>5. ASSUME NEW k \in Connection, InstallToken(k)
      PROVE  FailedIsClosed'
  BY <1>5 DEF InstallToken
<1>6. ASSUME NEW p \in Pass, ListTools(p)
      PROVE  FailedIsClosed'
  BY <1>6 DEF ListTools
<1>7. ASSUME NEW p \in Pass, DrainManaged(p)
      PROVE  FailedIsClosed'
  BY <1>7 DEF DrainManaged
<1>8. ASSUME NEW p \in Pass, Route(p)
      PROVE  FailedIsClosed'
  BY <1>8 DEF Route
<1>9. ASSUME NEW p \in Pass, Publish(p)
      PROVE  FailedIsClosed'
  BY <1>9 DEF Publish
<1>10. ASSUME NEW p \in Pass, Published(p)
      PROVE  FailedIsClosed'
  BY <1>10 DEF Published
<1>11. ASSUME NEW p \in Pass, PassFails(p)
      PROVE  FailedIsClosed'
  BY <1>11 DEF PassFails
<1>12. ASSUME NEW p \in Pass, PassCancels(p)
      PROVE  FailedIsClosed'
  BY <1>12 DEF PassCancels
<1>13. ASSUME NEW p \in Pass, Notified(p)
      PROVE  FailedIsClosed'
  BY <1>13 DEF Notified
<1>14. ASSUME NEW p \in Pass, MarkPending(p)
      PROVE  FailedIsClosed'
  BY <1>14 DEF MarkPending
<1>15. ASSUME NEW p \in Pass, RefreshDone(p)
      PROVE  FailedIsClosed'
  BY <1>15 DEF RefreshDone
<1>16. ASSUME NEW p \in Pass, GuardDropped(p)
      PROVE  FailedIsClosed'
  BY <1>16 DEF GuardDropped
<1>17. CASE Boot
  BY <1>17 DEF Boot
<1>18. CASE Preload
  BY <1>18 DEF Preload
<1>19. CASE Reconnect
  BY <1>19 DEF Reconnect
<1>20. CASE RemoveStale
  <2>1. UNCHANGED <<connVars, conn>> /\ stage' = [stage EXCEPT ![made + 1] = "serving"]
    BY <1>20 DEF RemoveStale
  <2>2. stage[made + 1] = "none" /\ made + 1 \in Connection
    BY <1>20, NextIsNew DEF RemoveStale
  <2> QED
    BY <2>1, <2>2
<1>21. CASE ConnectEnds
  BY <1>21 DEF ConnectEnds
<1>22. CASE StoreClient
  BY <1>22 DEF StoreClient
<1>23. CASE BumpGeneration
  BY <1>23 DEF BumpGeneration
<1>24. CASE ReadGeneration
  BY <1>24 DEF ReadGeneration
<1>25. CASE ReadClient
  BY <1>25 DEF ReadClient
<1>26. CASE LoadDefinitions
  BY <1>26 DEF LoadDefinitions
<1> QED
  BY <1>1, <1>2, <1>3, <1>4, <1>5, <1>6, <1>7, <1>8, <1>9, <1>10, <1>11, <1>12, <1>13,
     <1>14, <1>15, <1>16, <1>17, <1>18, <1>19, <1>20, <1>21, <1>22, <1>23, <1>24, <1>25, <1>26
  DEF Next, PassStep, NoteStep, AgentStep

\* What is visible of a connection in use is routed, through every step of a pass.
LEMMA RoutedKept ==
  ASSUME IInv, [Next]_vars
  PROVE  Routed'
<1> USE NotesApart DEF serverVars, connVars, passVars, agentVars, sessVars,
             Routed, Stations, McpTypeOK, Go, Leave, IInv, Pass, Empty, Nobody, Connection
<1>1. CASE UNCHANGED vars
  BY <1>1 DEF vars
<1>2. CASE ListChanges
  BY <1>2 DEF ListChanges
<1>3. ASSUME NEW k \in Connection, CallPoisons(k)
      PROVE  Routed'
  BY <1>3 DEF CallPoisons
<1>4. ASSUME NEW k \in Connection, Serve(k)
      PROVE  Routed'
  <2>1. UNCHANGED <<routing, managed, lock, list, proxies, conn>>
    BY <1>4 DEF Serve
  <2>2. /\ stage[k] \notin {"publishing", "failing", "done"}
        /\ stage'[k] # "publishing"
        /\ \A q \in Pass \ {k} : stage'[q] = stage[q]
    BY <1>4 DEF Serve
  <2>3. \A j \in Connection : lock[j] # Nobody => lock[j] \in Pass
    OBVIOUS
  <2>4. Routed
    OBVIOUS
  <2>5. Connection \subseteq Pass
    OBVIOUS
  <2> HIDE DEF McpTypeOK, Stations, Go, Leave, IInv, Pass, Connection, Nobody, Empty
  <2> QED
    BY <2>1, <2>2, <2>3, <2>4, <2>5
<1>5. ASSUME NEW k \in Connection, InstallToken(k)
      PROVE  Routed'
  BY <1>5 DEF InstallToken
<1>6. ASSUME NEW p \in Pass, ListTools(p)
      PROVE  Routed'
  BY <1>6 DEF ListTools
<1>7. ASSUME NEW p \in Pass, DrainManaged(p)
      PROVE  Routed'
  BY <1>7 DEF DrainManaged
<1>8. ASSUME NEW p \in Pass, Route(p)
      PROVE  Routed'
  BY <1>8 DEF Route
<1>9. ASSUME NEW p \in Pass, Publish(p)
      PROVE  Routed'
  BY <1>9 DEF Publish
<1>10. ASSUME NEW p \in Pass, Published(p)
      PROVE  Routed'
  BY <1>10 DEF Published
<1>11. ASSUME NEW p \in Pass, PassFails(p)
      PROVE  Routed'
  BY <1>11 DEF PassFails
<1>12. ASSUME NEW p \in Pass, PassCancels(p)
      PROVE  Routed'
  BY <1>12 DEF PassCancels
<1>13. ASSUME NEW p \in Pass, Notified(p)
      PROVE  Routed'
  <2>1. UNCHANGED <<routing, managed, lock, list, proxies, conn>>
    BY <1>13 DEF Notified
  <2>2. /\ stage[p] \notin {"publishing", "failing", "done"}
        /\ stage'[p] # "publishing"
        /\ \A q \in Pass \ {p} : stage'[q] = stage[q]
    BY <1>13 DEF Notified
  <2>3. \A j \in Connection : lock[j] # Nobody => lock[j] \in Pass
    OBVIOUS
  <2>4. Routed
    OBVIOUS
  <2>5. Connection \subseteq Pass
    OBVIOUS
  <2> HIDE DEF McpTypeOK, Stations, Go, Leave, IInv, Pass, Connection, Nobody, Empty
  <2> QED
    BY <2>1, <2>2, <2>3, <2>4, <2>5
<1>14. ASSUME NEW p \in Pass, MarkPending(p)
      PROVE  Routed'
  BY <1>14 DEF MarkPending
<1>15. ASSUME NEW p \in Pass, RefreshDone(p)
      PROVE  Routed'
  <2>1. UNCHANGED <<routing, managed, lock, list, proxies, conn>>
    BY <1>15 DEF RefreshDone
  <2>2. /\ stage[p] \notin {"publishing", "failing", "done"}
        /\ stage'[p] # "publishing"
        /\ \A q \in Pass \ {p} : stage'[q] = stage[q]
    BY <1>15 DEF RefreshDone
  <2>3. \A j \in Connection : lock[j] # Nobody => lock[j] \in Pass
    OBVIOUS
  <2>4. Routed
    OBVIOUS
  <2>5. Connection \subseteq Pass
    OBVIOUS
  <2> HIDE DEF McpTypeOK, Stations, Go, Leave, IInv, Pass, Connection, Nobody, Empty
  <2> QED
    BY <2>1, <2>2, <2>3, <2>4, <2>5
<1>16. ASSUME NEW p \in Pass, GuardDropped(p)
      PROVE  Routed'
  BY <1>16 DEF GuardDropped
<1>17. CASE Boot
  BY <1>17 DEF Boot
<1>18. CASE Preload
  BY <1>18 DEF Preload
<1>19. CASE Reconnect
  BY <1>19 DEF Reconnect
<1>20. CASE RemoveStale
  <2>1. UNCHANGED <<routing, managed, lock, list, conn>>
        /\ stage' = [stage EXCEPT ![made + 1] = "serving"]
        /\ \A t \in Tool : proxies'[t] \in {proxies[t], Nobody}
    BY <1>20 DEF RemoveStale
  <2>2. stage[made + 1] = "none" /\ made + 1 \in Connection
    BY <1>20, NextIsNew DEF RemoveStale
  <2> QED
    BY <2>1, <2>2
<1>21. CASE ConnectEnds
  BY <1>21 DEF ConnectEnds
<1>22. CASE StoreClient
  BY <1>22 DEF StoreClient
<1>23. CASE BumpGeneration
  BY <1>23 DEF BumpGeneration
<1>24. CASE ReadGeneration
  BY <1>24 DEF ReadGeneration
<1>25. CASE ReadClient
  BY <1>25 DEF ReadClient
<1>26. CASE LoadDefinitions
  BY <1>26 DEF LoadDefinitions
<1> QED
  BY <1>1, <1>2, <1>3, <1>4, <1>5, <1>6, <1>7, <1>8, <1>9, <1>10, <1>11, <1>12, <1>13,
     <1>14, <1>15, <1>16, <1>17, <1>18, <1>19, <1>20, <1>21, <1>22, <1>23, <1>24, <1>25, <1>26
  DEF Next, PassStep, NoteStep, AgentStep

\* Every variable stays in its type.
LEMMA TypesKept ==
  ASSUME IInv, [Next]_vars
  PROVE  McpTypeOK'
<1> USE NotesApart DEF serverVars, connVars, passVars, agentVars, sessVars,
             Stations, McpTypeOK, Go, Leave, IInv, Pass, Empty, Stage, Nobody, Connection, Visible
<1>1. CASE UNCHANGED vars
  BY <1>1 DEF vars
<1>2. CASE ListChanges
  <2>1. PICK n \in Note, k \in Connection :
          stage[n] = "none" /\ conn' = [conn EXCEPT ![n] = k] /\ Go(n, "noted")
    BY <1>2, Picked
  <2>2. /\ stage' \in [Pass -> Stage] /\ conn' \in [Pass -> Connection]
        /\ \A p \in Pass : stage'[p] \in {"routing", "publishing"} <=> stage[p] \in {"routing", "publishing"}
        /\ \A p \in Pass : stage[p] \in {"routing", "publishing"} => conn'[p] = conn[p]
    BY <2>1
  <2>3. offered' \subseteq Tool /\ changes' \in 0 .. MaxChanges
    BY <1>2, ToolsAssumption DEF ListChanges
  <2> QED
    BY <1>2, <2>2, <2>3 DEF ListChanges
<1>3. ASSUME NEW k \in Connection, CallPoisons(k)
      PROVE  McpTypeOK'
  BY <1>3 DEF CallPoisons
<1>4. ASSUME NEW k \in Connection, Serve(k)
      PROVE  McpTypeOK'
  BY <1>4, ServeTypes
<1>5. ASSUME NEW k \in Connection, InstallToken(k)
      PROVE  McpTypeOK'
  BY <1>5, InstallTypes
<1>6. ASSUME NEW p \in Pass, ListTools(p)
      PROVE  McpTypeOK'
  BY <1>6 DEF ListTools
<1>7. ASSUME NEW p \in Pass, DrainManaged(p)
      PROVE  McpTypeOK'
  BY <1>7 DEF DrainManaged
<1>8. ASSUME NEW p \in Pass, Route(p)
      PROVE  McpTypeOK'
  BY <1>8 DEF Route
<1>9. ASSUME NEW p \in Pass, Publish(p)
      PROVE  McpTypeOK'
  BY <1>9, PublishTypes
<1>10. ASSUME NEW p \in Pass, Published(p)
      PROVE  McpTypeOK'
  BY <1>10 DEF Published
<1>11. ASSUME NEW p \in Pass, PassFails(p)
      PROVE  McpTypeOK'
  BY <1>11 DEF PassFails
<1>12. ASSUME NEW p \in Pass, PassCancels(p)
      PROVE  McpTypeOK'
  BY <1>12 DEF PassCancels
<1>13. ASSUME NEW p \in Pass, Notified(p)
      PROVE  McpTypeOK'
  BY <1>13, NotedTypes
<1>14. ASSUME NEW p \in Pass, MarkPending(p)
      PROVE  McpTypeOK'
  BY <1>14 DEF MarkPending
<1>15. ASSUME NEW p \in Pass, RefreshDone(p)
      PROVE  McpTypeOK'
  BY <1>15, NotedTypes
<1>16. ASSUME NEW p \in Pass, GuardDropped(p)
      PROVE  McpTypeOK'
  BY <1>16 DEF GuardDropped
<1>17. CASE Boot
  BY <1>17, BootTypes
<1>18. CASE Preload
  BY <1>18 DEF Preload
<1>19. CASE Reconnect
  BY <1>19 DEF Reconnect
<1>20. CASE RemoveStale
  BY <1>20, RemoveTypes
<1>21. CASE ConnectEnds
  BY <1>21 DEF ConnectEnds
<1>22. CASE StoreClient
  BY <1>22 DEF StoreClient
<1>23. CASE BumpGeneration
  BY <1>23 DEF BumpGeneration
<1>24. CASE ReadGeneration
  BY <1>24 DEF ReadGeneration
<1>25. CASE ReadClient
  BY <1>25, SessionTypes
<1>26. CASE LoadDefinitions
  BY <1>26, SessionTypes
<1> QED
  BY <1>1, <1>2, <1>3, <1>4, <1>5, <1>6, <1>7, <1>8, <1>9, <1>10, <1>11, <1>12, <1>13,
     <1>14, <1>15, <1>16, <1>17, <1>18, <1>19, <1>20, <1>21, <1>22, <1>23, <1>24, <1>25, <1>26
  DEF Next, PassStep, NoteStep, AgentStep

\* The program starts.
LEMMA Begins == Init => IInv
<1> SUFFICES ASSUME Init PROVE IInv
  OBVIOUS
<1>1. McpTypeOK
  <2>1. /\ stage \in [Pass -> Stage] /\ conn \in [Pass -> Connection] /\ made \in Connection
        /\ \A p \in Pass : stage[p] \notin {"routing", "publishing"}
    <3>1. 1 \in Connection
      BY ToolsAssumption DEF Connection
    <3>2. stage = [p \in Pass |-> IF p = 1 THEN "serving" ELSE "none"]
      BY DEF Init
    <3>3. conn = [p \in Pass |-> IF p \in Connection THEN p ELSE 1]
      BY DEF Init
    <3>4. stage \in [Pass -> Stage] /\ \A p \in Pass : stage[p] \notin {"routing", "publishing"}
      BY <3>2 DEF Stage
    <3> QED
      BY <3>1, <3>3, <3>4 DEF Init
  <2>2. /\ list \in [Pass -> [all : SUBSET Tool, left : SUBSET Tool]]
        /\ proxies \in [Tool -> Connection \cup {Nobody}]
        /\ lock \in [Connection -> Pass \cup {Nobody}]
        /\ \A k \in Connection, p \in Pass : lock[k] # p
    BY NotesApart DEF Init, Empty
  <2>3. session \in [at : {"none", "generation", "client", "ready"}, generation : Nat,
                     client : Connection \cup {Nobody}, names : SUBSET Tool]
        /\ cache \in [generation : Nat \cup {-1}, names : SUBSET Tool]
    BY DEF Init
  <2> QED
    BY <2>1, <2>2, <2>3, ToolsAssumption DEF Init, McpTypeOK
<1>2. Stations
  BY ToolsAssumption, NotesApart DEF Init, Stations, Connection, Pass, Nobody
<1>3. Tokens /\ Routed /\ Fresh /\ FailedIsClosed
  BY NotesApart DEF Init, Tokens, Routed, Fresh, FailedIsClosed, Empty, Connection, Pass
<1> QED
  BY <1>1, <1>2, <1>3 DEF IInv

--------------------------------------------------------------------------------
\* The inductive invariant.
THEOREM McpToolsInvariant == Spec => []IInv
<1>1. IInv /\ [Next]_vars => IInv'
  BY TypesKept, StationsKept, TokensKept, RoutedKept, FreshKept, ClosedKept DEF IInv
<1> QED
  BY <1>1, Begins, PTL DEF Spec

\* The types, for any number of connections: one pass at a time holds the lock of a connection.
THEOREM McpTypeCorrect == Spec => []McpTypeOK
BY McpToolsInvariant, PTL DEF IInv

\* A proxy of the connection in use is routed by it (replace_tools, remove_native_tools), through
\* refreshes, replacements and their overlap.
THEOREM VisibleIsRouted == Spec => []RoutedBeforeVisible
<1>1. IInv => RoutedBeforeVisible
  <2> SUFFICES ASSUME IInv, NEW t \in Tool, proxies[t] = client, client # Nobody
               PROVE  t \in routing[client]
    BY DEF RoutedBeforeVisible
  <2>1. client \in Connection /\ stage[client] = "registered"
    BY DEF IInv, McpTypeOK, Stations
  <2> QED
    BY <2>1 DEF IInv, Routed
<1> QED
  BY <1>1, McpToolsInvariant, PTL

\* A connection whose routing failed is closed, whichever of the failing pass and the installation
\* of its token comes first (install_service_cancellation, fail_closed_and_cancel).
THEOREM FailureCloses == Spec => []FailedIsClosed
BY McpToolsInvariant, PTL DEF IInv

\* A session that carries the current generation carries the current client.
THEOREM GenerationTells == Spec => []SnapshotNotBehind
<1>1. IInv => SnapshotNotBehind
  BY DEF IInv, Fresh, SnapshotNotBehind
<1> QED
  BY <1>1, McpToolsInvariant, PTL

================================================================================
