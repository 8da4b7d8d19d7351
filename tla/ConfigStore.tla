------------------------------ MODULE ConfigStore ------------------------------
(***************************************************************************)
(* The web configuration of the agent: the store that validates a form,    *)
(* writes it beside agent.yaml and renames it over it, the gate that closes *)
(* saving once a restart is scheduled, the thread that replaces the         *)
(* process, the page of each client, and the disk under power loss.         *)
(*                                                                          *)
(* A configuration is abstracted to three of its fields: the voice runtime  *)
(* (the form refuses the unknown one, AppConfig::load refuses native_qwen   *)
(* without an API key), an idle timeout (the huge one is finite and greater *)
(* than zero, so it passes every check, and panics in main), and one secret.*)
(* Every fs call under the lock is a step of its own, because the process   *)
(* and the power can go between any two.                                    *)
(***************************************************************************)
EXTENDS Naturals, FiniteSets

CONSTANTS Client,      \* browsers with the page open
          Restarter,   \* those whose user also clicks restart
          Secret,      \* API keys
          MaxSaves,    \* bound on the saves that reach the disk
          MaxBoots     \* bound on the starts of the process

VARIABLES formal,      \* agent.yaml
          backup,      \* agent.yaml.bak and whether it has reached the disk
          temps,       \* the temporary files: name -> text and durability
          reverts,     \* what agent.yaml may read after a power loss
          proc,        \* the agent process: up or down
          running,     \* the configuration it started with
          boots,       \* its started_at
          flag,        \* restart_required
          gate,        \* OperationState.restart_scheduled
          armed,       \* the restart thread sleeps (ProcessRestarter.scheduled)
          counter,     \* TEMP_COUNTER
          lock,        \* the client whose request holds ConfigStore.operation
          cand,        \* what that request is saving: its form, name and text
          pc, form, before,  \* the page of a client
          saves, expected  \* history: saves begun, what their answers make of the file

disk == <<formal, backup, temps, reverts>>
memory == <<flag, gate, armed, counter, lock, cand>>
page == <<pc, form, before>>
history == <<saves, expected>>
vars == <<disk, proc, running, boots, memory, page, history>>

Missing == "missing"  \* no secret
None == "none"        \* no client

ASSUME ClientAssumption == None \notin Client

Unreadable(r) == [runtime |-> r, timeout |-> "usual", secret |-> Missing]
NoFile == Unreadable("no file")
Torn == Unreadable("torn")  \* a file that was only partly written
NoSave == [client |-> None, form |-> NoFile, name |-> 0, text |-> NoFile, at |-> "none"]

Config == [runtime : {"legacy", "native_qwen"}, timeout : {"usual", "huge"},
           secret : Secret \cup {Missing}]

\* validate_update refuses the form before the disk is touched: a choice outside
\* its list, a number outside its range.
UnknownChoice(u) == u.runtime = "bogus"
OutOfRange(u) == u.timeout = "nan"
Refused(u) == UnknownChoice(u) \/ OutOfRange(u)

\* AppConfig::load: the text parses, and QwenRealtimeConfig::validate accepts it.
Validates(c) == c.runtime = "native_qwen" => c.secret # Missing
Loads(text) == text \in Config /\ Validates(text)

\* main: Duration::from_secs_f64 panics on a timeout no Duration can hold.
Starts(text) == Loads(text) /\ text.timeout # "huge"

\* apply_secret: keep, clear or replace.
ApplySecret(mode, old) == CASE mode = "keep"  -> old
                            [] mode = "clear" -> Missing
                            [] OTHER          -> mode

\* apply_update_to_yaml: the plain fields of the form replace those on disk, the
\* secrets do what the form says of each.
SetFields(u, text) == [text EXCEPT !.runtime = u.runtime, !.timeout = u.timeout]
Apply(u, text) == [SetFields(u, text) EXCEPT !.secret = ApplySecret(u.secret, @)]

\* EditableConfig::from_app and renderConfig: secrets come back as a status and
\* the form starts with every one of them on keep.
Shown(text) == [runtime |-> text.runtime, timeout |-> text.timeout, secret |-> "keep"]

\* readForm: the form as it was loaded, with at most one field edited.
Edits(f) == {[f EXCEPT !.runtime = r] : r \in {"legacy", "native_qwen", "bogus"}}
       \cup {[f EXCEPT !.timeout = t] : t \in {"usual", "huge", "nan"}}
       \cup {[f EXCEPT !.secret = s] : s \in Secret \cup {"clear"}}

ConfigTypeOK ==
  /\ formal \in Config
  /\ backup.text \in Config \cup {NoFile, Torn} /\ backup.durable \in BOOLEAN
  /\ DOMAIN temps \subseteq 0..MaxSaves
  /\ \A n \in DOMAIN temps : temps[n].text \in Config \cup {Torn}
  /\ proc \in {"up", "down"} /\ boots \in 1..MaxBoots
  /\ running \in Config /\ lock \in Client \cup {None}
  /\ flag \in BOOLEAN /\ gate \in BOOLEAN /\ armed \in BOOLEAN
  /\ \A c \in Client : before[c] \in 0..MaxBoots

Init ==
  /\ formal = [runtime |-> "legacy", timeout |-> "usual", secret |-> Missing]
  /\ running = formal /\ expected = formal
  /\ backup = [text |-> NoFile, durable |-> TRUE]
  /\ temps = <<>> /\ reverts = {}
  /\ proc = "up" /\ boots = 1
  /\ flag = FALSE /\ gate = FALSE /\ armed = FALSE /\ counter = 0
  /\ lock = None /\ cand = NoSave
  /\ pc = [c \in Client |-> "idle"] /\ form = [c \in Client |-> Shown(formal)]
  /\ before = [c \in Client |-> 0]
  /\ saves = 0

Set(f, c, v) == [f EXCEPT ![c] = v]

Answer(c) == pc' = Set(pc, c, "idle")

Saving(at) == proc = "up" /\ cand.at = at
Goto(at) == cand' = [cand EXCEPT !.at = at]
saveFrame == <<proc, running, boots, flag, gate, armed, counter, lock, page, history>>

(********************************** mutants *********************************)

\* sync_all left out.
SkipSync ==
  /\ Saving("sync") /\ Goto("load")
  /\ UNCHANGED <<disk, saveFrame>>

\* The candidate is made from the configuration in memory, not from the file.
BeginFromRunning(c) ==
  /\ pc[c] = "put" /\ proc = "up" /\ lock = None /\ ~gate
  /\ lock' = c /\ counter' = counter + 1
  /\ \E u \in Edits(form[c]) :
       /\ ~Refused(u)
       /\ cand' = [client |-> c, form |-> u, name |-> counter,
                   text |-> Apply(u, running), at |-> "create"]
  /\ pc' = Set(pc, c, "saving") /\ saves' = saves + 1
  /\ UNCHANGED <<disk, proc, running, boots, flag, gate, armed, form, before,
                 expected>>

\* save does not look at the gate.
BeginUngated(c) ==
  /\ pc[c] = "put" /\ proc = "up" /\ lock = None
  /\ lock' = c /\ counter' = counter + 1
  /\ \E u \in Edits(form[c]) :
       /\ ~Refused(u)
       /\ cand' = [client |-> c, form |-> u, name |-> counter,
                   text |-> Apply(u, formal), at |-> "create"]
  /\ pc' = Set(pc, c, "saving") /\ saves' = saves + 1
  /\ UNCHANGED <<disk, proc, running, boots, flag, gate, armed, form, before,
                 expected>>

\* A failed backup is only logged.
CopyBestEffort ==
  /\ Saving("copy")
  /\ backup' \in {[text |-> formal, durable |-> FALSE], backup, [text |-> Torn, durable |-> FALSE]}
  /\ Goto("rename")
  /\ UNCHANGED <<formal, temps, reverts, saveFrame>>

\* The gate is closed before the thread is known to exist.
ScheduleEagerly(c) ==
  /\ pc[c] = "post" /\ proc = "up" /\ lock = None
  /\ \/ boots < MaxBoots /\ ~gate /\ ~armed /\ gate' = TRUE /\ armed' = TRUE
        /\ pc' = Set(pc, c, "poll") /\ UNCHANGED before
     \/ Answer(c) /\ gate' = TRUE /\ UNCHANGED <<armed, before>>
  /\ UNCHANGED <<disk, proc, running, boots, flag, counter, lock, cand, form, saves, expected>>

(*************************** the page of a client ***************************)

\* loadConfig -> get_config -> ConfigStore::load, which waits for the lock.
Reload(c) ==
  /\ pc[c] = "idle" /\ proc = "up" /\ lock = None /\ Loads(formal)
  /\ form' = Set(form, c, Shown(formal))
  /\ UNCHANGED <<disk, proc, running, boots, memory, pc, before, history>>

\* saveConfig: the whole form goes out in one PUT, and the page is busy. What was
\* edited is chosen when the server takes it.
Submit(c) ==
  /\ pc[c] = "idle" /\ proc = "up" /\ saves < MaxSaves
  /\ pc' = Set(pc, c, "put")
  /\ UNCHANGED <<disk, proc, running, boots, memory, form, before, history>>

\* restartAgent: confirm, then a fresh /api/status for the baseline.
ClickRestart(c) ==
  /\ pc[c] = "idle" /\ c \in Restarter
  /\ pc' = Set(pc, c, "baseline")
  /\ UNCHANGED <<disk, proc, running, boots, memory, form, before, saves, expected>>

Baseline(c) ==
  /\ pc[c] = "baseline" /\ proc = "up"
  /\ before' = Set(before, c, boots)
  /\ pc' = Set(pc, c, "post")
  /\ UNCHANGED <<disk, proc, running, boots, memory, form, history>>

\* The poll after the 202: another started_at is taken for the restart.
PollRestarted(c) ==
  /\ pc[c] = "poll" /\ proc = "up" /\ boots # before[c]
  /\ pc' = Set(pc, c, "restarted")
  /\ UNCHANGED <<disk, proc, running, boots, memory, form, before, history>>

\* The 30 s deadline, an aborted fetch or a failed baseline; also the user who
\* has read the message and goes on.
GiveUp(c) ==
  /\ pc[c] \in {"baseline", "post", "poll", "restarted"}
  /\ pc' = Set(pc, c, "idle") /\ before' = Set(before, c, 0)
  /\ UNCHANGED <<disk, proc, running, boots, memory, form, saves, expected>>

(****************************** put_config, save ****************************)

\* save: the lock, then the gate, then validate_update; none touches the disk.
RejectSave(c) ==
  /\ pc[c] = "put" /\ proc = "up" /\ lock = None
  /\ gate \/ \E u \in Edits(form[c]) : Refused(u)
  /\ Answer(c)
  /\ UNCHANGED <<disk, proc, running, boots, memory, form, before, history>>

\* save_locked up to the name of the temporary file.
BeginSave(c) ==
  /\ pc[c] = "put" /\ proc = "up" /\ lock = None /\ ~gate
  /\ lock' = c /\ counter' = counter + 1
  /\ \E u \in Edits(form[c]) :
       /\ ~Refused(u)
       /\ cand' = [client |-> c, form |-> u, name |-> counter,
                   text |-> Apply(u, formal), at |-> "create"]
  /\ pc' = Set(pc, c, "saving") /\ saves' = saves + 1
  /\ UNCHANGED <<disk, proc, running, boots, flag, gate, armed, form, before,
                 expected>>

\* open with create_new: an abandoned file of that name is an error.
CreateTemp ==
  /\ Saving("create")
  /\ \/ /\ cand.name \notin DOMAIN temps
        /\ temps' = [n \in DOMAIN temps \cup {cand.name} |->
                       IF n = cand.name THEN [text |-> Torn, durable |-> FALSE] ELSE temps[n]]
        /\ Goto("write")
     \/ Goto("fail") /\ UNCHANGED temps
  /\ UNCHANGED <<formal, backup, reverts, saveFrame>>

WriteTemp ==
  /\ Saving("write")
  /\ \/ temps' = [temps EXCEPT ![cand.name].text = cand.text] /\ Goto("sync")
     \/ Goto("fail") /\ UNCHANGED temps
  /\ UNCHANGED <<formal, backup, reverts, saveFrame>>

SyncTemp ==
  /\ Saving("sync")
  /\ \/ temps' = [temps EXCEPT ![cand.name].durable = TRUE] /\ Goto("load")
     \/ Goto("fail") /\ UNCHANGED temps
  /\ UNCHANGED <<formal, backup, reverts, saveFrame>>

\* AppConfig::load of the temporary file.
LoadTemp ==
  /\ Saving("load")
  /\ IF Loads(temps[cand.name].text) THEN Goto("copy") ELSE Goto("fail")
  /\ UNCHANGED <<disk, saveFrame>>

\* fs::copy truncates agent.yaml.bak before it writes, and does not sync it.
CopyBackup ==
  /\ Saving("copy")
  /\ \/ backup' = [text |-> formal, durable |-> FALSE] /\ Goto("rename")
     \/ backup' \in {backup, [text |-> Torn, durable |-> FALSE]} /\ Goto("fail")
  /\ UNCHANGED <<formal, temps, reverts, saveFrame>>

\* replace_formal_file on unix. The name reaches the disk later, so a power loss
\* may bring the old file back, and an unsynced one may read as anything.
Rename ==
  /\ Saving("rename")
  /\ \/ /\ formal' = temps[cand.name].text
        /\ reverts' = reverts \cup {formal}
                      \cup (IF temps[cand.name].durable THEN {} ELSE {Torn})
        /\ temps' = [n \in DOMAIN temps \ {cand.name} |-> temps[n]]
        /\ Goto("finish")
     \/ Goto("fail") /\ UNCHANGED <<formal, reverts, temps>>
  /\ UNCHANGED <<backup, saveFrame>>

\* restart_required, the answer and the end of the guard.
FinishSave ==
  /\ Saving("finish")
  /\ flag' = TRUE /\ lock' = None /\ cand' = NoSave
  /\ Answer(cand.client) /\ form' = Set(form, cand.client, Shown(cand.text))
  /\ expected' = Apply(cand.form, expected)
  /\ UNCHANGED <<disk, proc, running, boots, gate, armed, counter, before,
                 saves>>

\* The error path: remove_file, whose own failure is ignored.
FailSave ==
  /\ Saving("fail")
  /\ temps' \in {temps, [n \in DOMAIN temps \ {cand.name} |-> temps[n]]}
  /\ lock' = None /\ cand' = NoSave /\ Answer(cand.client)
  /\ UNCHANGED <<formal, backup, reverts, proc, running, boots, flag, gate, armed,
                 counter, form, before, history>>

(*********************************** restart ********************************)

\* ConfigStore::schedule_restart over ProcessRestarter::schedule_restart: the
\* claim, the thread, and the gate only once the thread exists.
ScheduleRestart(c) ==
  /\ pc[c] = "post" /\ proc = "up" /\ lock = None
  /\ \/ boots < MaxBoots /\ ~gate /\ ~armed /\ gate' = TRUE /\ armed' = TRUE
        /\ pc' = Set(pc, c, "poll") /\ UNCHANGED before
     \* already scheduled, or no thread
     \/ Answer(c) /\ UNCHANGED <<gate, armed, before>>
  /\ UNCHANGED <<disk, proc, running, boots, flag, counter, lock, cand, form, saves, expected>>

\* A process comes up from agent.yaml, or does not; its requests are gone.
Start(text) ==
  /\ boots < MaxBoots
  /\ flag' = FALSE /\ gate' = FALSE /\ armed' = FALSE /\ counter' = 0
  /\ lock' = None /\ cand' = NoSave
  /\ pc' = [c \in Client |-> IF pc[c] \in {"put", "saving", "post"} THEN "idle" ELSE pc[c]]
  /\ expected' = text
  /\ IF Starts(text) THEN proc' = "up" /\ running' = text /\ boots' = boots + 1
                     ELSE proc' = "down" /\ UNCHANGED <<running, boots>>
  /\ UNCHANGED <<form, before, saves>>

\* The xiaoai-restart thread: exec keeps the pid, or exit(1).
Exec ==
  /\ proc = "up" /\ armed
  /\ Start(formal)
  /\ UNCHANGED disk

Exit ==
  /\ proc = "up" /\ armed
  /\ Start(NoFile)
  /\ UNCHANGED disk

(****************************** the disk and power **************************)

\* The kernel writes back names and data it was never asked to sync.
Writeback ==
  /\ reverts # {} \/ ~backup.durable
  /\ reverts' = {} /\ backup' = [backup EXCEPT !.durable = TRUE]
  /\ UNCHANGED <<formal, temps, proc, running, boots, memory, page, history>>

\* The speaker loses power, or its owner pulls the plug, and boots again.
PowerLoss ==
  /\ formal' \in {formal} \cup reverts
  /\ backup' \in {backup, IF backup.durable THEN backup ELSE [backup EXCEPT !.text = Torn]}
  /\ reverts' = {} /\ UNCHANGED temps
  /\ Start(formal')

\* README: when the agent does not start, copy agent.yaml.bak back over SSH.
RestoreBackup ==
  /\ proc = "down" /\ ~Starts(formal) /\ Loads(backup.text)
  /\ formal' = backup.text /\ expected' = backup.text
  /\ UNCHANGED <<backup, temps, reverts, proc, running, boots, memory, page, saves>>

Next ==
  \/ \E c \in Client : \/ Reload(c) \/ Submit(c) \/ ClickRestart(c)
                       \/ Baseline(c) \/ PollRestarted(c) \/ GiveUp(c)
                       \/ RejectSave(c) \/ BeginSave(c) \/ ScheduleRestart(c)
  \/ CreateTemp \/ WriteTemp \/ SyncTemp \/ LoadTemp \/ CopyBackup \/ Rename
  \/ FinishSave \/ FailSave
  \/ Exec \/ Exit \/ Writeback \/ PowerLoss \/ RestoreBackup

Spec == Init /\ [][Next]_vars

\* The server goes on with what it accepted and the restart thread wakes up.
Server == \/ CreateTemp \/ WriteTemp \/ SyncTemp \/ LoadTemp \/ CopyBackup \/ Rename
          \/ FinishSave \/ FailSave
ConfigFairSpec == Spec /\ WF_vars(Server) /\ WF_vars(Exec \/ Exit)

(********************************* properties *******************************)

\* At every instant, and after any loss of power, agent.yaml is one complete
\* configuration that AppConfig::load accepts: a crash between two fs calls, a
\* failed call or two clients whose edits are each valid alone never tear it.
FormalLoads == \A text \in {formal} \cup reverts : Loads(text)

\* Saves are serialised: what is on disk between requests is what the answered
\* saves make of each other in order, each applied to the result of the last,
\* so a secret one client replaced outlives the keep of a form loaded earlier.
\* (A save the process died in before the answer may or may not be on disk.)
SavesSerialise == proc = "up" /\ lock = None => formal = expected

\* A save replaces agent.yaml only when agent.yaml.bak holds what it replaces.
RecoveryPoint == [][formal' # formal /\ proc' = "up" /\ boots' = boots => backup.text = formal]_vars

\* The restart thread never replaces the process in the middle of a save.
ExecNeverTears == armed => cand = NoSave

\* A gate that was closed opens again: saving is refused only until the process
\* is replaced or gone, also when the thread could not be started.
GateReopens == gate ~> ~gate
=============================================================================
