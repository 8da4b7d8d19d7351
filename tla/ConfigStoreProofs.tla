--------------------------- MODULE ConfigStoreProofs ---------------------------
(***************************************************************************)
(* Proofs about ConfigStore for every set of clients, restarters and       *)
(* secrets, and any number of saves, restarts, power losses: agent.yaml    *)
(* always loads, saves serialise, each leaves the file it replaces in      *)
(* agent.yaml.bak, and the restart never falls into one.                   *)
(***************************************************************************)
EXTENDS ConfigStore, TLAPS

Text == Config \cup {NoFile, Torn}
File == [text : Text, durable : BOOLEAN]

\* What a page may hold before an edit, and what a PUT may carry.
Form == [runtime : {"legacy", "native_qwen"}, timeout : {"usual", "huge"},
         secret : Secret \cup {"keep", "clear"}]

Step == {"none", "create", "write", "sync", "load", "copy", "rename", "finish", "fail"}

Save == [client : Client \cup {None}, form : Form \cup {NoFile}, name : Nat,
         text : Config \cup {NoFile}, at : Step]

\* The types the other parts need.
Typed ==
  /\ formal \in Config /\ boots \in Nat /\ counter \in Nat
  /\ backup \in File
  /\ \A n \in DOMAIN temps : temps[n] \in File
  /\ cand \in Save
  /\ form \in [Client -> Form]

\* The lock is held exactly while something is being saved, by a living process.
Held ==
  /\ lock = None => cand = NoSave
  /\ cand.at = "none" => cand = NoSave
  /\ cand.at # "none" => cand.client \in Client /\ cand.form \in Form /\ cand.text \in Config

\* The restart thread sleeps behind a closed gate, and no save is under way.
Asleep == armed => gate /\ cand = NoSave

\* The temporary file holds what is saved, and is synced and loaded in that order.
Candidate ==
  /\ cand.at \in {"write", "sync", "load", "copy", "rename"} => cand.name \in DOMAIN temps
  /\ cand.at \in {"load", "copy", "rename"} => temps[cand.name].durable
  /\ cand.at \in {"sync", "load", "copy", "rename"} => temps[cand.name].text = cand.text
  /\ cand.at \in {"copy", "rename"} => Loads(temps[cand.name].text)

\* A file is copied before it is replaced.
Copied == Saving("rename") => backup.text = formal

\* The save under way is one step ahead of the answered ones, once it is renamed.
OneAhead ==
  proc = "up" =>
    /\ cand.at # "finish" => formal = expected
    /\ cand.at = "finish" => formal = Apply(cand.form, expected)
    /\ cand.at \notin {"none", "finish", "fail"} => cand.text = Apply(cand.form, formal)

IInv ==
  /\ Typed /\ Held /\ Asleep /\ Candidate /\ Copied /\ OneAhead /\ FormalLoads

--------------------------------------------------------------------------------
\* An accepted form applied to a configuration gives a configuration.
LEMMA ApplyType ==
  ASSUME NEW text \in Config, NEW f \in Form, NEW u \in Edits(f), ~Refused(u)
  PROVE  u \in Form /\ Apply(u, text) \in Config
<1>1. u \in Form
  BY DEF Edits, Form, Refused, UnknownChoice, OutOfRange
<1>2. ApplySecret(u.secret, text.secret) \in Secret \cup {Missing}
  BY <1>1 DEF ApplySecret, Form, Config
<1>3. SetFields(u, text) \in Config /\ SetFields(u, text).secret = text.secret
  BY <1>1 DEF SetFields, Form, Config
<1>4. Apply(u, text) = [SetFields(u, text) EXCEPT !.secret = ApplySecret(u.secret, text.secret)]
  BY <1>3 DEF Apply
<1> QED
  BY <1>1, <1>2, <1>3, <1>4 DEF Config

\* What the page shows of a configuration is a form.
LEMMA ShownType ==
  ASSUME NEW text \in Config
  PROVE  Shown(text) \in Form
BY DEF Shown, Form, Config

\* The first start.
LEMMA Begins == Init => IInv
<1> SUFFICES ASSUME Init PROVE IInv
  OBVIOUS
<1>1. formal \in Config /\ Loads(formal)
  BY DEF Init, Config, Loads, Validates
<1>2. NoSave \in Save
  BY DEF NoSave, Save, Step
<1>3. backup \in File
  BY DEF Init, Text, File
<1>4. form \in [Client -> Form]
  BY <1>1, ShownType DEF Init
<1>5. Typed
  BY <1>1, <1>2, <1>3, <1>4 DEF Init, Typed
<1>6. Held /\ Asleep /\ Candidate /\ Copied /\ OneAhead
  BY DEF Init, NoSave, Held, Asleep, Candidate, Copied, OneAhead, Saving
<1>7. FormalLoads
  BY <1>1 DEF Init, FormalLoads
<1> QED
  BY <1>5, <1>6, <1>7 DEF IInv

\* Steps of the pages, and of requests that do not reach the disk.
Untouched ==
  /\ UNCHANGED <<formal, backup, temps, reverts, proc, boots, counter, lock, cand, expected>>
  /\ form' \in [Client -> Form]
  /\ armed' => gate' /\ (armed \/ lock = None)

LEMMA UntouchedKeeps ==
  ASSUME IInv, Untouched
  PROVE  IInv'
<1>1. Typed' /\ Held' /\ Candidate' /\ Copied' /\ OneAhead' /\ FormalLoads'
  BY DEF IInv, Untouched, Typed, Held, Candidate, Copied, OneAhead, FormalLoads, Saving
<1>2. Asleep'
  BY DEF IInv, Untouched, Asleep, Held
<1> QED
  BY <1>1, <1>2 DEF IInv

LEMMA PageKeeps ==
  ASSUME IInv, NEW c \in Client,
         Reload(c) \/ Submit(c) \/ ClickRestart(c) \/ Baseline(c) \/ PollRestarted(c)
           \/ GiveUp(c) \/ RejectSave(c) \/ ScheduleRestart(c)
  PROVE  IInv'
<1> USE DEF memory, disk, page, history, IInv, Asleep
<1>t. form \in [Client -> Form] /\ (Loads(formal) => Shown(formal) \in Form)
  BY ShownType DEF Typed, Loads
<1>1. CASE Reload(c)
  BY <1>1, <1>t, UntouchedKeeps DEF Reload, Untouched, Set
<1>2. CASE Submit(c)
  BY <1>2, <1>t, UntouchedKeeps DEF Submit, Untouched
<1>3. CASE ClickRestart(c)
  BY <1>3, <1>t, UntouchedKeeps DEF ClickRestart, Untouched
<1>4. CASE Baseline(c)
  BY <1>4, <1>t, UntouchedKeeps DEF Baseline, Untouched
<1>5. CASE PollRestarted(c)
  BY <1>5, <1>t, UntouchedKeeps DEF PollRestarted, Untouched
<1>6. CASE GiveUp(c)
  BY <1>6, <1>t, UntouchedKeeps DEF GiveUp, Untouched
<1>7. CASE RejectSave(c)
  BY <1>7, <1>t, UntouchedKeeps DEF RejectSave, Untouched
<1>8. CASE ScheduleRestart(c)
  BY <1>8, <1>t, UntouchedKeeps DEF ScheduleRestart, Untouched
<1> QED
  BY <1>1, <1>2, <1>3, <1>4, <1>5, <1>6, <1>7, <1>8

LEMMA BeginKeeps ==
  ASSUME IInv, NEW c \in Client, BeginSave(c)
  PROVE  IInv' /\ UNCHANGED formal
<1> USE DEF IInv
<1>0. PICK u \in Edits(form[c]) :
        /\ ~Refused(u)
        /\ cand' = [client |-> c, form |-> u, name |-> counter,
                    text |-> Apply(u, formal), at |-> "create"]
  BY DEF BeginSave
<1>1. u \in Form /\ Apply(u, formal) \in Config
  BY <1>0, ApplyType DEF Typed
<1>2. UNCHANGED <<formal, backup, temps, reverts, proc, boots, gate, armed, form, expected>>
      /\ lock' = c /\ counter' = counter + 1 /\ ~gate /\ lock = None /\ proc = "up"
  BY DEF BeginSave, disk
<1>3. cand' \in Save /\ cand'.at = "create" /\ cand'.client = c /\ cand'.form = u
      /\ cand'.text = Apply(u, formal)
  BY <1>0, <1>1 DEF Save, Step, Typed
<1>4. Typed'
  BY <1>2, <1>3 DEF Typed
<1>5. Held'
  BY <1>1, <1>2, <1>3, ClientAssumption DEF Held
<1>6. Asleep' /\ Candidate' /\ Copied' /\ FormalLoads'
  BY <1>2, <1>3 DEF Asleep, Candidate, Copied, Saving, FormalLoads
<1>7. OneAhead'
  <2>1. formal = expected
    BY <1>2 DEF OneAhead, Held, NoSave
  <2> QED
    BY <1>2, <1>3, <2>1 DEF OneAhead
<1> QED
  BY <1>2, <1>4, <1>5, <1>6, <1>7

\* A step of the save under way moves on, without touching agent.yaml.
LEMMA MovesOn ==
  ASSUME IInv, NEW at \in Step, cand.at # "none", Goto(at)
  PROVE  /\ cand' \in Save /\ cand'.at = at
         /\ cand'.client = cand.client /\ cand'.form = cand.form
         /\ cand'.name = cand.name /\ cand'.text = cand.text
BY DEF IInv, Typed, Goto, Save, Step

LEMMA SavingKeeps ==
  ASSUME IInv,
         CreateTemp \/ WriteTemp \/ SyncTemp \/ LoadTemp \/ CopyBackup
  PROVE  IInv' /\ UNCHANGED formal
<1> USE DEF IInv
<1>0. /\ UNCHANGED <<formal, reverts, proc, boots, gate, armed, counter, lock, form, expected>>
      /\ proc = "up" /\ cand.at \notin {"none", "finish", "fail", "rename"}
  BY DEF CreateTemp, WriteTemp, SyncTemp, LoadTemp, CopyBackup, disk, saveFrame, page, history,
         Saving
<1>a. PICK at \in Step : Goto(at) /\ at # "none" /\ at # "finish"
  BY DEF CreateTemp, WriteTemp, SyncTemp, LoadTemp, CopyBackup, Step
<1>b. /\ cand' \in Save /\ cand'.at = at
      /\ cand'.client = cand.client /\ cand'.form = cand.form
      /\ cand'.name = cand.name /\ cand'.text = cand.text
  BY <1>0, <1>a, MovesOn
<1>g. \A v \in Step : Goto(v) => cand'.at = v
  BY <1>0, MovesOn
<1>c. cand # NoSave /\ lock # None /\ ~armed
  BY <1>0 DEF NoSave, Held, Asleep
<1>d. Held' /\ Asleep' /\ FormalLoads' /\ OneAhead'
  BY <1>0, <1>a, <1>b, <1>c DEF Held, Asleep, FormalLoads, OneAhead
<1>1. CASE CreateTemp
  <2>1. Typed'
    <3>1. [text |-> Torn, durable |-> FALSE] \in File
      BY DEF Text, File
    <3>2. \A n \in DOMAIN temps' : temps'[n] \in File
      BY <1>1, <3>1 DEF CreateTemp, Typed
    <3> QED
      BY <1>0, <1>1, <1>b, <3>2 DEF CreateTemp, Typed
  <2>2. Candidate' /\ Copied'
    BY <1>0, <1>1, <1>b, <1>g DEF CreateTemp, Candidate, Copied, Saving, Step
  <2> QED
    BY <1>0, <1>d, <2>1, <2>2
<1>2. CASE WriteTemp
  <2>0. cand.at = "write" /\ cand.name \in DOMAIN temps /\ cand.text \in Text
    BY <1>2 DEF WriteTemp, Saving, Candidate, Held, Text
  <2>1. Typed'
    BY <1>0, <1>2, <1>b, <2>0 DEF WriteTemp, Typed, File
  <2>2. Candidate' /\ Copied'
    BY <1>0, <1>2, <1>b, <1>g, <2>0 DEF WriteTemp, Candidate, Copied, Saving, Typed, File, Step
  <2> QED
    BY <1>0, <1>d, <2>1, <2>2
<1>3. CASE SyncTemp
  <2>0. cand.at = "sync" /\ cand.name \in DOMAIN temps
    BY <1>3 DEF SyncTemp, Saving, Candidate
  <2>1. Typed'
    BY <1>0, <1>3, <1>b, <2>0 DEF SyncTemp, Typed, File
  <2>2. Candidate' /\ Copied'
    BY <1>0, <1>3, <1>b, <1>g, <2>0 DEF SyncTemp, Candidate, Copied, Saving, Typed, File, Step
  <2> QED
    BY <1>0, <1>d, <2>1, <2>2
<1>4. CASE LoadTemp
  <2>1. Typed'
    BY <1>0, <1>4, <1>b DEF LoadTemp, disk, Typed
  <2>2. Candidate' /\ Copied'
    BY <1>0, <1>4, <1>b, <1>g DEF LoadTemp, disk, Candidate, Copied, Saving, Step
  <2> QED
    BY <1>0, <1>d, <2>1, <2>2
<1>5. CASE CopyBackup
  <2>1. Typed'
    <3>1. /\ [text |-> formal, durable |-> FALSE] \in File
          /\ [text |-> Torn, durable |-> FALSE] \in File
      BY DEF Typed, Text, File
    <3>2. backup' \in File
      BY <1>5, <3>1 DEF CopyBackup, Typed
    <3> QED
      BY <1>0, <1>5, <1>b, <3>2 DEF CopyBackup, Typed
  <2>2. Candidate' /\ Copied'
    BY <1>0, <1>5, <1>b, <1>g DEF CopyBackup, Candidate, Copied, Saving, Step
  <2> QED
    BY <1>0, <1>d, <2>1, <2>2
<1> QED
  BY <1>1, <1>2, <1>3, <1>4, <1>5

LEMMA RenameKeeps ==
  ASSUME IInv, Rename
  PROVE  IInv' /\ (formal' # formal => backup.text = formal)
<1> USE DEF IInv
<1>0. /\ UNCHANGED <<backup, proc, boots, gate, armed, counter, lock, form, expected>>
      /\ proc = "up" /\ cand.at = "rename"
  BY DEF Rename, saveFrame, page, history, Saving
<1>a. PICK at \in {"finish", "fail"} : Goto(at)
  BY DEF Rename
<1>b. /\ cand' \in Save /\ cand'.at = at
      /\ cand'.client = cand.client /\ cand'.form = cand.form
      /\ cand'.name = cand.name /\ cand'.text = cand.text
  BY <1>0, <1>a, MovesOn DEF Step
<1>c. cand # NoSave /\ lock # None /\ ~armed
  BY <1>0 DEF NoSave, Held, Asleep
<1>d. Held' /\ Asleep' /\ Candidate' /\ Copied'
  BY <1>0, <1>a, <1>b, <1>c DEF Held, Asleep, Candidate, Copied, Saving
<1>e. backup.text = formal
  BY <1>0 DEF Copied, Saving
<1>1. CASE UNCHANGED <<formal, reverts, temps>> /\ at = "fail"
  BY <1>0, <1>1, <1>b, <1>d, <1>e DEF Typed, FormalLoads, OneAhead
<1>2. CASE at = "finish" /\ formal' = temps[cand.name].text
           /\ reverts' = reverts \cup {formal}
                         \cup (IF temps[cand.name].durable THEN {} ELSE {Torn})
           /\ temps' = [n \in DOMAIN temps \ {cand.name} |-> temps[n]]
  <2>1. Loads(formal') /\ formal' = cand.text /\ reverts' = reverts \cup {formal}
    BY <1>0, <1>2 DEF Candidate
  <2>2. Typed'
    BY <1>0, <1>2, <1>b, <2>1 DEF Typed, Loads
  <2>3. FormalLoads'
    BY <2>1 DEF FormalLoads
  <2>4. OneAhead'
    BY <1>0, <1>2, <1>b, <2>1 DEF OneAhead
  <2> QED
    BY <1>d, <1>e, <2>2, <2>3, <2>4
<1> QED
  <2>1. (UNCHANGED <<formal, reverts, temps>> /\ Goto("fail"))
        \/ (/\ Goto("finish") /\ formal' = temps[cand.name].text
            /\ reverts' = reverts \cup {formal}
                          \cup (IF temps[cand.name].durable THEN {} ELSE {Torn})
            /\ temps' = [n \in DOMAIN temps \ {cand.name} |-> temps[n]])
    BY DEF Rename
  <2>2. \A v \in Step : Goto(v) => cand'.at = v
    BY <1>0, MovesOn
  <2> QED
    BY <1>1, <1>2, <1>b, <2>1, <2>2 DEF Step

\* The request is answered, well or badly.
LEMMA EndKeeps ==
  ASSUME IInv, FinishSave \/ FailSave
  PROVE  IInv' /\ UNCHANGED formal
<1> USE DEF IInv
<1>0. /\ UNCHANGED <<formal, backup, reverts, proc, boots, gate, armed, counter>>
      /\ lock' = None /\ cand' = NoSave /\ proc = "up" /\ cand.at \in {"finish", "fail"}
  BY DEF FinishSave, FailSave, disk, Saving
<1>1. NoSave \in Save /\ NoSave.at = "none"
  BY DEF NoSave, Save, Step
<1>2. form' \in [Client -> Form]
  BY <1>0, ShownType DEF FinishSave, FailSave, Set, Typed, Held
<1>3. \A n \in DOMAIN temps' : temps'[n] \in File
  BY DEF FinishSave, FailSave, disk, Typed
<1>4. Typed'
  BY <1>0, <1>1, <1>2, <1>3 DEF Typed
<1>5. formal = expected'
  BY <1>0 DEF FinishSave, FailSave, OneAhead, Saving, history
<1>6. Held' /\ Asleep' /\ Candidate' /\ Copied' /\ OneAhead' /\ FormalLoads'
  BY <1>0, <1>1, <1>5 DEF Held, Asleep, Candidate, Copied, OneAhead, FormalLoads, Saving
<1> QED
  BY <1>0, <1>4, <1>6

\* The process is replaced, killed or comes back: what it was doing is forgotten.
LEMMA StartKeeps ==
  ASSUME IInv, NEW text, Start(text), proc' = "up" => formal' = text, UNCHANGED temps,
         formal' \in {formal} \cup reverts, reverts' \subseteq reverts,
         backup' \in File
  PROVE  IInv' /\ (proc' = "up" => boots' # boots)
<1> USE DEF IInv
<1>1. NoSave \in Save /\ NoSave.at = "none"
  BY DEF NoSave, Save, Step
<1>2. formal' \in Config /\ boots' \in Nat /\ 0 \in Nat /\ UNCHANGED form
  BY DEF FormalLoads, Loads, Start, Typed
<1>3. Typed'
  BY <1>1, <1>2 DEF Start, Typed
<1>4. Held' /\ Asleep' /\ Candidate' /\ Copied' /\ OneAhead'
  BY <1>1 DEF Start, Held, Asleep, Candidate, Copied, OneAhead, Saving
<1>5. FormalLoads'
  BY DEF FormalLoads
<1>6. proc' = "up" => boots' # boots
  BY DEF Start, Typed
<1> QED
  BY <1>3, <1>4, <1>5, <1>6

LEMMA WorldKeeps ==
  ASSUME IInv, Exec \/ Exit \/ Writeback \/ PowerLoss \/ RestoreBackup
  PROVE  IInv' /\ (formal' # formal /\ proc' = "up" => boots' # boots)
<1> USE DEF IInv
<1>1. CASE Exec
  BY <1>1, StartKeeps DEF Exec, disk, Typed
<1>2. CASE Exit
  <2>1. proc' # "up"
    BY <1>2 DEF Exit, Start, Starts, Loads, NoFile, Unreadable, Config
  <2> QED
    BY <1>2, <2>1, StartKeeps DEF Exit, disk, Typed
<1>3. CASE PowerLoss
  <2>1. backup' \in File
    BY <1>3 DEF PowerLoss, Typed, Text, File
  <2>2. Start(formal') /\ UNCHANGED temps /\ formal' \in {formal} \cup reverts /\ reverts' = {}
    BY <1>3 DEF PowerLoss
  <2> QED
    BY <2>1, <2>2, StartKeeps
<1>4. CASE Writeback
  <2>1. /\ UNCHANGED <<formal, temps, proc, boots, gate, armed, counter, lock, cand, form, expected>>
        /\ reverts' = {} /\ backup' \in File
        /\ backup'.text = backup.text
    BY <1>4 DEF Writeback, memory, page, history, Typed, File
  <2> QED
    BY <2>1 DEF Typed, Held, Asleep, Candidate, Copied, OneAhead, FormalLoads, Saving
<1>5. CASE RestoreBackup
  <2>1. /\ UNCHANGED <<backup, temps, reverts, proc, boots, gate, armed, counter, lock, cand, form>>
        /\ proc = "down" /\ formal' = backup.text /\ Loads(formal')
    BY <1>5 DEF RestoreBackup, memory, page
  <2> QED
    BY <2>1 DEF Typed, Held, Asleep, Candidate, Copied, OneAhead, FormalLoads, Saving, Loads
<1> QED
  BY <1>1, <1>2, <1>3, <1>4, <1>5

\* Every step keeps the invariant, and replaces agent.yaml only when it is in the backup.
LEMMA StepKeeps ==
  ASSUME IInv, [Next]_vars
  PROVE  IInv' /\ (formal' # formal /\ proc' = "up" /\ boots' = boots => backup.text = formal)
<1>1. CASE UNCHANGED vars
  BY <1>1 DEF IInv, vars, disk, memory, page, history, Typed, Held, Asleep, Candidate, Copied,
              OneAhead, FormalLoads, Saving
<1>2. CASE Next
  <2>1. ASSUME NEW c \in Client,
               Reload(c) \/ Submit(c) \/ ClickRestart(c) \/ Baseline(c) \/ PollRestarted(c)
                 \/ GiveUp(c) \/ RejectSave(c) \/ ScheduleRestart(c)
        PROVE  UNCHANGED formal
    BY <2>1 DEF Reload, Submit, ClickRestart, Baseline, PollRestarted, GiveUp, RejectSave,
                ScheduleRestart, disk
  <2> QED
    BY <1>2, <2>1, PageKeeps, BeginKeeps, SavingKeeps, RenameKeeps, EndKeeps, WorldKeeps DEF Next
<1> QED
  BY <1>1, <1>2

--------------------------------------------------------------------------------
\* The inductive invariant.
THEOREM ConfigInvariant == Spec => []IInv
BY Begins, StepKeeps, PTL DEF Spec

\* agent.yaml is one complete configuration the program accepts at every instant, whatever
\* fails, whoever saves, and whenever the power goes (save_locked, replace_formal_file).
THEOREM AlwaysLoads == Spec => []FormalLoads
BY ConfigInvariant, PTL DEF IInv

\* Answered saves are applied to each other's results, in order (save under the lock).
THEOREM Serialised == Spec => []SavesSerialise
<1>1. IInv => SavesSerialise
  BY DEF IInv, Held, OneAhead, SavesSerialise, NoSave
<1> QED
  BY <1>1, ConfigInvariant, PTL

\* The thread that replaces the process never falls into a save (schedule_restart).
THEOREM RestartBetweenSaves == Spec => []ExecNeverTears
<1>1. IInv => ExecNeverTears
  BY DEF IInv, Asleep, ExecNeverTears
<1> QED
  BY <1>1, ConfigInvariant, PTL

\* A save leaves what it replaces in agent.yaml.bak (save_locked).
THEOREM BackedUp == Spec => RecoveryPoint
<1>1. IInv /\ [Next]_vars
        => [formal' # formal /\ proc' = "up" /\ boots' = boots => backup.text = formal]_vars
  BY StepKeeps
<1> QED
  BY <1>1, ConfigInvariant, PTL DEF Spec, RecoveryPoint

================================================================================
