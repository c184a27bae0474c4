-------------------------- MODULE RuntimeActivation --------------------------
(***************************************************************************)
(* The inference runtime manager at one Docker target                      *)
(* (cli_tools/inference_runtime_manager): the edits of workflow.py, the    *)
(* activation with rollback of installer/upload.py and worker.py, and the  *)
(* receipts of installer/pending.py that say which saved changes are not   *)
(* live yet.                                                               *)
(*                                                                         *)
(* One operator works at one terminal.  Every request to the target may    *)
(* fail, Ctrl-C may come at any of them, and the terminal may be closed.   *)
(* A recipe stands for its Compose service and its model, which one alias  *)
(* names one to one; a bundle is a downloaded version of a recipe's model. *)
(***************************************************************************)
EXTENDS Naturals, Sequences, FiniteSets, SequencesExt

CONSTANTS
  Aliases,   (* stable service aliases                                      *)
  Recipes,   (* reviewed recipes                                            *)
  AliasOf,   (* AliasOf[r]: the alias a recipe serves                       *)
  Tuned,     (* recipes whose service takes the saved runtime option        *)
  Options,   (* values of that option                                       *)
  Groups,    (* sets of aliases whose option one menu entry changes         *)
  LlmGroups, (* those of them that the LLM menu changes                     *)
  Families,  (* sets of recipes that share a runtime image                  *)
  Versions,  (* versions of the downloaded model of a recipe                *)
  MaxOps,    (* operations the operator begins                              *)
  None, Untracked, Unconfirmed

Bundles == Recipes \X Versions

RuntimeAssumption ==
  /\ IsFiniteSet(Aliases) /\ AliasOf \in [Recipes -> Aliases] /\ Tuned \subseteq Recipes
  /\ LlmGroups \subseteq Groups /\ Groups \subseteq SUBSET Aliases
  /\ Families \subseteq SUBSET Recipes
  /\ MaxOps \in Nat
  /\ None \notin Recipes \cup Options /\ None \notin Bundles

VARIABLES
  saved,     (* deployment.json: the recipe of an alias, enabled or not     *)
  option,    (* config.json: the runtime option of each alias               *)
  receipts,  (* deployment-changes.json: what was last confirmed            *)
  stock,     (* version of a recipe's model in the local store              *)
  held,      (* bundles published on the target                             *)
  link,      (* models/active/<alias>                                       *)
  box,       (* the container of each service                               *)
  pc,        (* next step of the operation, "idle" when there is none       *)
  job,       (* what the operation read when it began, and its progress     *)
  told,      (* what the last operation told the operator                   *)
  ops        (* operations begun                                            *)

localVars == <<saved, option, stock>>
targetVars == <<held, link, box>>
vars == <<saved, option, receipts, stock, held, link, box, pc, job, told, ops>>

Of(a) == {r \in Recipes : AliasOf[r] = a}

Off == [on |-> FALSE, rec |-> None, opt |-> None]

Snapshots ==
  {Off} \cup [on : {TRUE}, rec : Recipes, opt : Options \cup {None}]

(* What a saved choice asks for, with o as the runtime option. *)
Snapshot(choice, o) ==
  IF choice.on
  THEN [on |-> TRUE, rec |-> choice.rec, opt |-> IF choice.rec \in Tuned THEN o ELSE None]
  ELSE Off

Absent == [state |-> "none", loaded |-> None, opt |-> None, image |-> "none"]

NoJob ==
  [guided |-> FALSE,       (* guided_models puts the saved choices back     *)
   before |-> <<>>,        (* the choices before the edit                   *)
   option |-> <<>>,        (* the options before the edit                   *)
   todo |-> <<>>,          (* aliases still to be activated                 *)
   done |-> <<>>,          (* aliases whose service was recreated           *)
   off |-> {},             (* disabled aliases still to be stopped          *)
   unsent |-> {},          (* aliases whose bundle is still to be sent      *)
   seen |-> [a \in Aliases |-> {}],     (* services seen running            *)
   ran |-> [r \in Recipes |-> None],    (* and what each had loaded then    *)
   was |-> None,           (* link of the alias before its activation       *)
   redo |-> <<>>]          (* services to be put back after a failure       *)

NewJob == [NoJob EXCEPT !.before = saved, !.option = option]

Silent ==
  [what |-> "nothing", alias |-> None, was |-> None, seen |-> {}, ran |-> NoJob.ran]

Deployments == [Aliases -> [rec : Recipes, on : BOOLEAN]]
Links == Bundles \cup {None}
Containers ==
  [state : {"none", "stopped", "up", "healthy"}, loaded : Links, opt : Options \cup {None},
   image : {"none", "older", "current", "rollback"}]
Jobs ==
  [guided : BOOLEAN, before : Deployments \cup {<<>>}, option : [Aliases -> Options] \cup {<<>>},
   todo : Seq(Aliases), done : Seq(Aliases), off : SUBSET Aliases, unsent : SUBSET Aliases,
   seen : [Aliases -> SUBSET Recipes], ran : [Recipes -> Links], was : Links, redo : Seq(Aliases)]

TypeOK ==
  /\ saved \in Deployments
  /\ option \in [Aliases -> Options]
  /\ receipts \in [Aliases -> Snapshots \cup {Untracked, Unconfirmed}]
  /\ stock \in [Recipes -> Versions]
  /\ held \subseteq Bundles /\ link \in [Aliases -> Links] /\ box \in [Recipes -> Containers]
  /\ pc \in {"idle", "plan", "send", "read", "stop", "link", "start", "record",
             "undoStop", "undoLink", "undoStart", "mark", "remake",
             "update", "unmark", "revert"}
  /\ job \in Jobs /\ (pc = "idle" <=> job.before = <<>>)
  /\ ops \in 0..MaxOps

Running(a) == {r \in Of(a) : box[r].state \in {"up", "healthy"}}

(* runtime_settings_match and active_identity, asked of a running service.  *)
SettingsMatch(r, o) == box[r].opt = IF r \in Tuned THEN o ELSE None
ActiveIdentity(a) == IF link[a] = None THEN None ELSE link[a][1]

Pending ==
  {a \in Aliases : receipts[a] # Untracked /\ receipts[a] # Snapshot(saved[a], option[a])}

(* remember_before_edit keeps the first comparison point of an alias. *)
Remembered(as, o) ==
  [a \in Aliases |->
    IF a \in as /\ receipts[a] = Untracked THEN Snapshot(saved[a], o[a]) ELSE receipts[a]]

Confirmed(as, o) ==
  [a \in Aliases |-> IF a \in as THEN Snapshot(saved[a], o[a]) ELSE receipts[a]]

-----------------------------------------------------------------------------
(* The target.                                                              *)

HasOwnModel(r) == box[r].loaded # None /\ box[r].loaded[1] = r
Fits(a, r) == ActiveIdentity(a) = r /\ Running(a) \subseteq {r}

Started(r, o, image) ==
  [state |-> "healthy", loaded |-> link[AliasOf[r]],
   opt |-> IF r \in Tuned THEN o ELSE None, image |-> image]

(* compose up --force-recreate --wait: healthy, or an error that leaves the *)
(* container running without health, stopped, or not replaced at all.  A    *)
(* service starts only with its own model, and with the alias's port free.  *)
Recreated(r, o, image) ==
  /\ Fits(AliasOf[r], r)
  /\ box' = [box EXCEPT ![r] = Started(r, o, image)]

NotRecreated(r, o, image) ==
  \/ UNCHANGED box
  \/ box' = [box EXCEPT ![r].state = "stopped"]
  \/ /\ Running(AliasOf[r]) \subseteq {r} /\ link[AliasOf[r]] # None
     /\ box' = [box EXCEPT ![r] = [Started(r, o, image) EXCEPT !.state = "up"]]

(* compose up --wait: a container that runs with this configuration stays.  *)
Resumed(r, o) ==
  IF r \in Running(AliasOf[r]) /\ SettingsMatch(r, o) /\ box[r].image = "current"
  THEN /\ HasOwnModel(r) /\ Running(AliasOf[r]) \subseteq {r}
       /\ box' = [box EXCEPT ![r].state = "healthy"]
  ELSE Recreated(r, o, "current")

Stopped(rs) ==
  [r \in Recipes |->
    IF r \in rs /\ box[r].state \in {"up", "healthy"}
    THEN [box[r] EXCEPT !.state = "stopped"] ELSE box[r]]

-----------------------------------------------------------------------------
(* Edits, made at a prompt.                                                 *)

(* Mutant: declining "apply now" does not return.                           *)
PostponedGoesOn == pc' = "plan" /\ job' = NoJob

Begin ==
  /\ pc = "idle" /\ ops < MaxOps
  /\ ops' = ops + 1 /\ told' = Silent
  /\ UNCHANGED targetVars

Postponed == pc' = "idle" /\ job' = NoJob

Provision(as) == pc' = "plan" /\ job' = [NewJob EXCEPT !.todo = SetToSeq(as)]

(* assign_models: only a model whose bundle the target has may be assigned. *)
Assign(a, r, on) ==
  /\ Begin /\ r \in Of(a) /\ <<r, stock[r]>> \in held
  /\ saved' = [saved EXCEPT ![a] = [rec |-> r, on |-> on]]
  /\ receipts' = Remembered({a}, option)
  /\ \/ Postponed
     \/ Provision({a})
  /\ UNCHANGED <<option, stock>>

ToggleService(a) ==
  /\ Begin
  /\ saved' = [saved EXCEPT ![a].on = ~@]
  /\ receipts' = Remembered({a}, option)
  /\ \/ Postponed
     \/ Provision({a})
  /\ UNCHANGED <<option, stock>>

(* guided_models: the model may be downloaded anew; unless the operator     *)
(* keeps it for later, the choice is saved and activated, and any exception *)
(* puts the previous choices back.                                          *)
Guided(a, r) ==
  /\ Begin /\ r \in Of(a)
  /\ \E v \in Versions : stock' = [stock EXCEPT ![r] = v]
  /\ \/ Postponed /\ UNCHANGED <<saved, receipts>>
     \/ /\ saved' = [saved EXCEPT ![a] = [rec |-> r, on |-> TRUE]]
        /\ receipts' = Remembered({a}, option)
        /\ pc' = "plan" /\ job' = [NewJob EXCEPT !.guided = TRUE, !.todo = <<a>>]
  /\ UNCHANGED option

(* Saving an option: it may be applied at once to the enabled services that *)
(* wait for it, and a failure then recreates those of undo with the old one.*)
SaveOption(group, o, remembered, undo) ==
  LET targets == {a \in group : /\ saved[a].on /\ saved[a].rec \in Tuned
                                /\ remembered[a] # Snapshot(saved[a], o)}
  IN /\ Begin
     /\ option' = [a \in Aliases |-> IF a \in group THEN o ELSE option[a]]
     /\ receipts' = remembered
     /\ \/ Postponed
        \/ /\ targets # {} /\ pc' = "plan"
           /\ job' = [NewJob EXCEPT !.todo = SetToSeq(targets), !.redo = SetToSeq(targets \cap undo)]
     /\ UNCHANGED <<saved, stock>>

RuntimeConfiguration(group, o) ==
  group \notin LlmGroups /\ SaveOption(group, o, Remembered(Aliases, option), group)

(* The LLM menu recreates only a service it saw running.                    *)
LlmConfiguration(group, o) ==
  /\ group \in LlmGroups
  /\ SaveOption(group, o, Remembered(group, option), {a \in group : saved[a].rec \in Running(a)})

ApplyAssignments ==
  /\ Begin /\ Pending # {}
  /\ Provision(Pending)
  /\ UNCHANGED <<saved, option, receipts, stock>>

(* runtime_updates: after the new image is on the target, the enabled       *)
(* services that run are recreated.  One with another model stops it all.   *)
RuntimeUpdate(family) ==
  LET affected == {a \in Aliases : /\ saved[a].on /\ saved[a].rec \in family
                                   /\ saved[a].rec \in Running(a)}
  IN /\ Begin /\ affected # {}
     /\ \A a \in affected : ActiveIdentity(a) = saved[a].rec
     /\ pc' = "update" /\ job' = [NewJob EXCEPT !.todo = SetToSeq(affected)]
     /\ UNCHANGED <<saved, option, receipts, stock>>

-----------------------------------------------------------------------------
(* provision.                                                               *)

Cur == Head(job.todo)
Wanted == saved[Cur].rec

(* Mutant: the running container's settings are not compared.               *)
UnchangedWhateverOptions(a) ==
  LET r == saved[a].rec IN
  /\ Running(a) = {r} /\ box[r].state = "healthy" /\ box[r].image = "current"
  /\ ActiveIdentity(a) = r

(* A healthy service with this recipe, image, option and link is left alone *)
(* and its state recorded as applied; so is a disabled one that is stopped. *)
Unchanged(a) ==
  LET r == saved[a].rec IN
  /\ Running(a) = {r} /\ box[r].state = "healthy" /\ box[r].image = "current"
  /\ SettingsMatch(r, option[a]) /\ ActiveIdentity(a) = r

Plan ==
  LET as == Range(job.todo)
      changed == {a \in as : saved[a].on /\ ~Unchanged(a)}
      disabled == {a \in as : ~saved[a].on /\ Running(a) # {}}
  IN /\ pc = "plan" /\ pc' = "send"
     /\ receipts' = Confirmed(as \ (changed \cup disabled), option)
     /\ job' = [job EXCEPT !.todo = SetToSeq(changed), !.off = disabled, !.unsent = changed,
                           !.seen = [a \in Aliases |-> Running(a)],
                           !.ran = [r \in Recipes |-> box[r].loaded]]
     /\ UNCHANGED <<localVars, targetVars, told, ops>>

(* transfer: the worker stages the files, verifies them and renames.        *)
Transfer ==
  /\ pc = "send"
  /\ IF job.unsent = {}
     THEN pc' = "read" /\ UNCHANGED <<held, job>>
     ELSE \E a \in job.unsent :
            /\ held' = held \cup {<<saved[a].rec, stock[saved[a].rec]>>}
            /\ job' = [job EXCEPT !.unsent = @ \ {a}]
            /\ UNCHANGED pc
  /\ UNCHANGED <<localVars, receipts, link, box, told, ops>>

ReadActive ==
  /\ pc = "read" /\ job.todo # <<>> /\ pc' = "stop"
  /\ job' = [job EXCEPT !.was = link[Cur]]
  /\ UNCHANGED <<localVars, receipts, targetVars, told, ops>>

StopAlternatives ==
  /\ pc = "stop" /\ pc' = "link"
  /\ box' = Stopped(Of(Cur) \ {Wanted})
  /\ UNCHANGED <<localVars, receipts, held, link, job, told, ops>>

Activate ==
  /\ pc = "link" /\ pc' = "start"
  /\ <<Wanted, stock[Wanted]>> \in held
  /\ link' = [link EXCEPT ![Cur] = <<Wanted, stock[Wanted]>>]
  /\ UNCHANGED <<localVars, receipts, held, box, job, told, ops>>

Start ==
  /\ pc = "start" /\ pc' = "record"
  /\ Recreated(Wanted, option[Cur], "current")
  /\ UNCHANGED <<localVars, receipts, held, link, job, told, ops>>

RecordApplied ==
  /\ pc = "record" /\ pc' = "read"
  /\ receipts' = Confirmed({Cur}, option)
  /\ job' = [job EXCEPT !.todo = Tail(@), !.done = Append(@, Cur)]
  /\ UNCHANGED <<localVars, targetVars, told, ops>>

StopDisabled(a) ==
  /\ pc = "read" /\ job.todo = <<>> /\ a \in job.off /\ Running(a) # {}
  /\ box' = Stopped(Of(a))
  /\ UNCHANGED <<localVars, receipts, held, link, pc, job, told, ops>>

RecordDisabled(a) ==
  /\ pc = "read" /\ job.todo = <<>> /\ a \in job.off /\ Running(a) = {}
  /\ receipts' = Confirmed({a}, option)
  /\ job' = [job EXCEPT !.off = @ \ {a}]
  /\ UNCHANGED <<localVars, targetVars, pc, told, ops>>

Ended(what) ==
  told' = [Silent EXCEPT !.what = what]

Provisioned ==
  /\ pc = "read" /\ job.todo = <<>> /\ job.off = {}
  /\ pc' = "idle" /\ job' = NoJob /\ Ended("applied")
  /\ UNCHANGED <<localVars, receipts, targetVars, ops>>

-----------------------------------------------------------------------------
(* Failures.                                                                *)

(* What the callers of provision do with its exception.                     *)
Raise ==
  /\ saved' = IF job.guided THEN job.before ELSE saved
  /\ pc' = IF job.redo = <<>> THEN "idle" ELSE "mark"
  /\ job' = IF job.redo = <<>> THEN NoJob ELSE job

(* An error or Ctrl-C outside the activation of a recipe.                   *)
ProvisionFails ==
  /\ pc \in {"plan", "send", "read", "record"}
  /\ Raise /\ Ended("failed")
  /\ UNCHANGED <<option, receipts, stock, targetVars, ops>>

ActivationFails ==
  /\ pc \in {"stop", "link", "start"} /\ pc' = "undoStop"
  /\ IF pc = "start" THEN NotRecreated(Wanted, option[Cur], "current") ELSE UNCHANGED box
  /\ UNCHANGED <<localVars, receipts, held, link, job, told, ops>>

(* Mutant: the rollback leaves the new model linked.                        *)
UndoLinkKeepsNew ==
  /\ pc = "undoLink" /\ pc' = "undoStart"
  /\ UNCHANGED <<localVars, receipts, targetVars, job, told, ops>>

UndoStop ==
  /\ pc = "undoStop" /\ pc' = "undoLink"
  /\ box' = Stopped({Wanted})
  /\ UNCHANGED <<localVars, receipts, held, link, job, told, ops>>

UndoLink ==
  /\ pc = "undoLink" /\ pc' = "undoStart"
  /\ link' = [link EXCEPT ![Cur] = job.was]
  /\ UNCHANGED <<localVars, receipts, held, box, job, told, ops>>

(* "activation failed; previous service restored"                           *)
UndoStart ==
  /\ pc = "undoStart"
  /\ IF job.seen[Cur] = {}
     THEN UNCHANGED box
     ELSE \E r \in job.seen[Cur] : Resumed(r, option[Cur])
  /\ told' = [what |-> "restored", alias |-> Cur, was |-> job.was, seen |-> job.seen[Cur],
              ran |-> job.ran]
  /\ Raise
  /\ UNCHANGED <<option, receipts, stock, held, link, ops>>

(* "activation and rollback failed", or Ctrl-C during the rollback          *)
UndoFails ==
  /\ pc \in {"undoStop", "undoLink", "undoStart"}
  /\ IF pc = "undoStart" /\ job.seen[Cur] # {}
     THEN \E r \in job.seen[Cur] : NotRecreated(r, option[Cur], "current")
     ELSE UNCHANGED box
  /\ Raise /\ Ended("failed")
  /\ UNCHANGED <<option, receipts, stock, held, link, ops>>

(* After a failed application of an option, the saved recipe is recreated   *)
(* with the previous option: unconfirmed until it is healthy.               *)
MarkUnconfirmed ==
  /\ pc = "mark" /\ pc' = "remake"
  /\ receipts' = [receipts EXCEPT ![Head(job.redo)] = Unconfirmed]
  /\ UNCHANGED <<localVars, targetVars, job, told, ops>>

Remake ==
  LET a == Head(job.redo) IN
  /\ pc = "remake"
  /\ Recreated(saved[a].rec, job.option[a], "current")
  /\ receipts' = Confirmed({a}, job.option)
  /\ IF Len(job.redo) = 1
     THEN pc' = "idle" /\ job' = NoJob /\ Ended("reverted")
     ELSE pc' = "mark" /\ job' = [job EXCEPT !.redo = Tail(@)] /\ UNCHANGED told
  /\ UNCHANGED <<localVars, held, link, ops>>

RemakeFails ==
  LET a == Head(job.redo) IN
  /\ pc = "remake" /\ pc' = "idle" /\ job' = NoJob /\ Ended("failed")
  /\ \/ NotRecreated(saved[a].rec, job.option[a], "current")
     \/ Recreated(saved[a].rec, job.option[a], "current")
  /\ UNCHANGED <<localVars, receipts, held, link, ops>>

(* runtime_updates.                                                         *)
UpdateService ==
  /\ pc = "update"
  /\ IF job.todo = <<>>
     THEN /\ receipts' = Confirmed(Range(job.done), option)
          /\ pc' = "idle" /\ job' = NoJob /\ Ended("applied") /\ UNCHANGED box
     ELSE /\ Recreated(Wanted, option[Cur], "current")
          /\ job' = [job EXCEPT !.todo = Tail(@), !.done = Append(@, Cur)]
          /\ UNCHANGED <<receipts, pc, told>>
  /\ UNCHANGED <<localVars, held, link, ops>>

(* A failure brings back the previous image, the service in progress first. *)
UpdateFails ==
  /\ pc = "update" /\ job.todo # <<>>
  /\ \/ /\ NotRecreated(Wanted, option[Cur], "current")
        /\ pc' = "unmark" /\ job' = [job EXCEPT !.redo = <<Cur>> \o Reverse(job.done)]
     \/ /\ job.done # <<>> /\ UNCHANGED box
        /\ pc' = "unmark" /\ job' = [job EXCEPT !.redo = Reverse(job.done)]
  /\ Ended("failed")
  /\ UNCHANGED <<localVars, receipts, held, link, ops>>

RevertMark ==
  /\ pc = "unmark" /\ pc' = "revert"
  /\ receipts' = [receipts EXCEPT ![Head(job.redo)] = Unconfirmed]
  /\ UNCHANGED <<localVars, targetVars, job, told, ops>>

RevertService ==
  LET a == Head(job.redo) IN
  /\ pc = "revert"
  /\ Recreated(saved[a].rec, option[a], "rollback")
  /\ receipts' = Confirmed({a}, option)
  /\ IF Len(job.redo) = 1
     THEN pc' = "idle" /\ job' = NoJob
     ELSE pc' = "unmark" /\ job' = [job EXCEPT !.redo = Tail(@)]
  /\ UNCHANGED <<localVars, held, link, told, ops>>

RevertFails ==
  LET a == Head(job.redo) IN
  /\ pc = "revert" /\ pc' = "idle" /\ job' = NoJob
  /\ NotRecreated(saved[a].rec, option[a], "rollback")
  /\ UNCHANGED <<localVars, receipts, held, link, told, ops>>

(* The terminal is closed.                                                  *)
Killed ==
  /\ pc # "idle" /\ pc' = "idle" /\ job' = NoJob /\ told' = Silent
  /\ UNCHANGED <<localVars, receipts, targetVars, ops>>

-----------------------------------------------------------------------------
Init ==
  /\ saved \in [Aliases -> [rec : Recipes, on : {TRUE}]]
  /\ \A a \in Aliases : saved[a].rec \in Of(a)
  /\ \E o \in Options : option = [a \in Aliases |-> o]
  /\ receipts = [a \in Aliases |-> Untracked]
  /\ \E v \in Versions : stock = [r \in Recipes |-> v]
  /\ held = {<<r, stock[r]>> : r \in Recipes}
  /\ link = [a \in Aliases |-> <<saved[a].rec, stock[saved[a].rec]>>]
  /\ \E up \in SUBSET Aliases :
       box = [r \in Recipes |->
               IF AliasOf[r] \in up /\ saved[AliasOf[r]].rec = r
               THEN Started(r, option[AliasOf[r]], "older") ELSE Absent]
  /\ pc = "idle" /\ job = NoJob /\ told = Silent /\ ops = 0

Next ==
  \/ \E a \in Aliases, r \in Recipes, on \in BOOLEAN : Assign(a, r, on)
  \/ \E a \in Aliases : ToggleService(a) \/ StopDisabled(a) \/ RecordDisabled(a)
  \/ \E a \in Aliases, r \in Recipes : Guided(a, r)
  \/ \E g \in Groups, o \in Options : RuntimeConfiguration(g, o) \/ LlmConfiguration(g, o)
  \/ \E f \in Families : RuntimeUpdate(f)
  \/ ApplyAssignments
  \/ Plan \/ Transfer \/ ReadActive \/ StopAlternatives \/ Activate \/ Start
  \/ RecordApplied \/ Provisioned
  \/ ProvisionFails \/ ActivationFails \/ UndoStop \/ UndoLink \/ UndoStart \/ UndoFails
  \/ MarkUnconfirmed \/ Remake \/ RemakeFails
  \/ UpdateService \/ UpdateFails \/ RevertMark \/ RevertService \/ RevertFails
  \/ Killed

Spec == Init /\ [][Next]_vars

-----------------------------------------------------------------------------
(* What the target runs is what a snapshot says.                            *)
Live(a, snapshot) ==
  IF snapshot.on
  THEN /\ Running(a) = {snapshot.rec} /\ box[snapshot.rec].state = "healthy"
       /\ box[snapshot.rec].opt = snapshot.opt /\ HasOwnModel(snapshot.rec)
       /\ ActiveIdentity(a) = snapshot.rec
  ELSE Running(a) = {}

(* "Record only service states confirmed by a successful operation": when   *)
(* an operation changes a receipt, the target runs exactly what the receipt *)
(* says, whatever failed or was interrupted before, so a change that is not *)
(* live stays pending.                                                      *)
ReceiptsEarnedStep ==
  pc # "idle" =>
    \A a \in Aliases :
      (receipts'[a] # receipts[a] /\ receipts'[a] # Unconfirmed) => Live(a, receipts[a])'

ReceiptsEarned == [][ReceiptsEarnedStep]_vars

(* "activation failed; previous service restored" is true: the alias has    *)
(* the link it had before, and of its services exactly those run that ran   *)
(* before, healthy, on that model or on the one they have had all along.    *)
RestoredMeansBefore ==
  told.what = "restored" /\ pc = "idle" =>
    /\ link[told.alias] = told.was
    /\ Running(told.alias) = told.seen
    /\ \A r \in told.seen : box[r].state = "healthy" /\ box[r].loaded \in {told.was, told.ran[r]}

-----------------------------------------------------------------------------
(* The inductive invariant: an alias runs one service at most, and during a *)
(* rollback none but what was seen before; what a confirmation is about     *)
(* still runs.                                                              *)
Confirmable(a) == Live(a, Snapshot(saved[a], option[a]))

OwnChoices ==
  /\ \A a \in Aliases : saved[a].rec \in Of(a)
  /\ pc # "idle" => \A a \in Aliases : job.before[a].rec \in Of(a)

OneService ==
  /\ \A a \in Aliases : \A r, s \in Running(a) : r = s
  /\ \A r \in Recipes : box[r].state = "healthy" => HasOwnModel(r)

AtService == {"stop", "link", "start", "record", "undoStop", "undoLink", "undoStart"}
Activating == {"send", "read", "update"} \cup AtService

(* What an operation works on is enabled, what it stops is not.             *)
Underway ==
  /\ pc # "idle" => job.option \in [Aliases -> Options]
  /\ pc \in Activating => \A a \in Range(job.todo) \cup Range(job.done) : saved[a].on
  /\ \A a \in Range(job.redo) : saved[a].on
  /\ \A a \in job.off : ~saved[a].on
  /\ job.guided => job.redo = <<>>
  /\ pc \in {"idle", "plan"} => job.done = <<>>
  /\ pc = "update" => ~job.guided
  /\ pc \in {"mark", "remake", "unmark", "revert"} => job.redo # <<>>
  /\ pc \in {"unmark", "revert"} => told.what = "failed"
  /\ pc \in AtService => job.todo # <<>>

Confirming == pc = "update" => \A a \in Range(job.done) : Confirmable(a)

(* An alias that is still as it was seen when the operation began, and one  *)
(* of which only the new recipe is not.                                     *)
Untouched(a) == Running(a) = job.seen[a] /\ \A r \in Running(a) : box[r].loaded = job.ran[r]
Leftover(a) ==
  \A r \in Running(a) \ {saved[a].rec} : r \in job.seen[a] /\ box[r].loaded = job.ran[r]

(* The alias whose service is being activated, or put back.                 *)
Serving(a) ==
  /\ pc = "record" => Confirmable(a)
  /\ pc \in {"stop", "link", "undoStart"} => link[a] = job.was
  /\ pc \in {"link", "start"} => Running(a) \subseteq {saved[a].rec}
  /\ pc \in {"undoStop", "undoLink", "undoStart"} => Leftover(a)
  /\ pc \in {"undoLink", "undoStart"} => saved[a].rec \notin Running(a)

Rollback ==
  /\ \A a \in Aliases : job.seen[a] \subseteq Of(a) /\ \A r, s \in job.seen[a] : r = s
  /\ pc \in Activating => \A i, j \in 1..Len(job.todo) : job.todo[i] = job.todo[j] => i = j
  /\ pc \in {"send", "read", "stop"} => \A a \in Range(job.todo) : Untouched(a)
  /\ pc \in AtService =>
       /\ \A a \in Range(Tail(job.todo)) : Untouched(a)
       /\ \A a \in Aliases : a = Cur => Serving(a)

IInv ==
  /\ TypeOK /\ OwnChoices /\ OneService /\ Underway /\ Confirming /\ Rollback
  /\ RestoredMeansBefore
=============================================================================
