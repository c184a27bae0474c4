----------------------------- MODULE PythonRelease -----------------------------
(***************************************************************************)
(* Signed tags of the two Python distributions, the tooling SDK and the    *)
(* stack setup that locks it (cli_tools/platform_release/                  *)
(* python_releases.py, manager.py).  The commits of the default branch all *)
(* carry the version to be released, so both distributions have one tag    *)
(* each; a signed object is the pair of its signer and its commit.         *)
(***************************************************************************)
EXTENDS Naturals

CONSTANTS
  Operators,
  LastCommit,  (* bound: commits on the default branch                      *)
  MaxRuns,     (* bound: commands started                                   *)
  None

Targets == {"tooling", "setup"}
Commits == 1..LastCommit
Objects == Operators \X Commits

PythonAssumption == LastCommit \in Nat \ {0} /\ MaxRuns \in Nat /\ None \notin Objects

VARIABLES
  tip,        (* commit of the default branch                               *)
  ci,         (* Required CI of a commit                                    *)
  tag,        (* the remote tag of a distribution                           *)
  workflow,   (* the publication workflow of that tag                       *)
  assets,     (* its GitHub Release has the checksummed wheel and archive   *)
  clone,      (* the tags of an operator's clone                            *)
  run,        (* the command an operator runs                               *)
  told,       (* distributions the last command verified                    *)
  started,
  approvals   (* history: commits confirmed after they were checked         *)

vars == <<tip, ci, tag, workflow, assets, clone, run, told, started, approvals>>
branchVars == <<tip, ci>>
remoteVars == <<tag, workflow, assets>>
githubVars == <<branchVars, remoteVars>>

NoRun == [step |-> "idle", verify |-> FALSE, target |-> "tooling", commit |-> 1]

Runs ==
  [step : {"idle", "checkout", "remote", "check", "confirm", "again", "tag", "push", "object",
           "workflow", "assets"},
   verify : BOOLEAN, target : Targets, commit : Commits]

TypeOK ==
  /\ tip \in Commits /\ ci \in [Commits -> {"pending", "success", "failure"}]
  /\ tag \in [Targets -> Objects \cup {None}]
  /\ workflow \in [Targets -> {"none", "running", "success", "failure"}]
  /\ assets \in [Targets -> BOOLEAN]
  /\ clone \in [Operators -> [Targets -> Objects \cup {None}]]
  /\ run \in [Operators -> Runs]
  /\ told \in [Operators -> SUBSET Targets] /\ started \in 0..MaxRuns
  /\ approvals \subseteq Operators \X Targets \X Commits

-----------------------------------------------------------------------------
Target(p) == run[p].target
Remote(p) == tag[Target(p)]
Local(p) == clone[p][Target(p)]

Step(p, from, to) == run[p].step = from /\ run' = [run EXCEPT ![p].step = to]
Stop(p) == run' = [run EXCEPT ![p] = NoRun]

(* required_ci on the exact commit.                                         *)
Passed(c) == ci[c] = "success"

(* published_sdk: the setup locks the wheel of the published SDK.           *)
SdkPublished(t) == t = "setup" => assets["tooling"]

Start(p, t, c) ==
  /\ run[p] = NoRun /\ started < MaxRuns /\ started' = started + 1 /\ c <= tip
  /\ \E verify \in BOOLEAN :
       run' = [run EXCEPT ![p] = [step |-> "checkout", verify |-> verify, target |-> t, commit |-> c]]
  /\ told' = [told EXCEPT ![p] = {}]
  /\ UNCHANGED <<githubVars, clone, approvals>>

(* reviewed_checkout: every remote tag comes along, unless one differs from *)
(* a tag of the clone.                                                      *)
ReviewedCheckout(p) ==
  /\ Step(p, "checkout", IF run[p].verify THEN "object" ELSE "remote")
  /\ \A t \in Targets : None \in {tag[t], clone[p][t]} \/ tag[t] = clone[p][t]
  /\ clone' = [clone EXCEPT ![p] = [t \in Targets |-> IF tag[t] = None THEN @[t] ELSE tag[t]]]
  /\ UNCHANGED <<githubVars, told, started, approvals>>

NotTagged(p, from, to) ==
  /\ Step(p, from, to) /\ Remote(p) = None
  /\ UNCHANGED <<githubVars, clone, told, started, approvals>>

(* check_python.                                                            *)
CheckPython(p) ==
  /\ Step(p, "check", "confirm")
  /\ Passed(run[p].commit) /\ SdkPublished(Target(p))
  /\ UNCHANGED <<githubVars, clone, told, started, approvals>>

Confirm(p) ==
  /\ Step(p, "confirm", "again")
  /\ approvals' = approvals \cup {<<p, Target(p), run[p].commit>>}
  /\ UNCHANGED <<githubVars, clone, told, started>>

(* Mutant: a tag left behind by an earlier run is pushed as it is.          *)
ReuseAnyTag(p) ==
  /\ Step(p, "tag", "push")
  /\ IF Local(p) = None
     THEN clone' = [clone EXCEPT ![p][Target(p)] = <<p, run[p].commit>>]
     ELSE UNCHANGED clone
  /\ UNCHANGED <<githubVars, told, started, approvals>>

(* publish_python: a tag that an earlier run left behind must target the    *)
(* reviewed commit.                                                         *)
SignOrReuse(p) ==
  /\ Step(p, "tag", "push")
  /\ \/ Local(p) = None /\ clone' = [clone EXCEPT ![p][Target(p)] = <<p, run[p].commit>>]
     \/ Local(p) # None /\ Local(p)[2] = run[p].commit /\ UNCHANGED clone
  /\ Remote(p) \in {None, clone'[p][Target(p)]}
  /\ UNCHANGED <<githubVars, told, started, approvals>>

(* The push that creates the tag starts its workflow; its answer may be     *)
(* lost all the same.                                                       *)
Push(p) ==
  /\ run[p].step = "push" /\ Stop(p)
  /\ Remote(p) \in {None, Local(p)}
  /\ tag' = [tag EXCEPT ![Target(p)] = Local(p)]
  /\ workflow' = [workflow EXCEPT ![Target(p)] = IF Remote(p) = None THEN "running" ELSE @]
  /\ UNCHANGED <<branchVars, assets, clone, told, started, approvals>>

(* verify_python: the tag, its workflow run, its assets.                    *)
VerifyTag(p) ==
  /\ Step(p, "object", "workflow")
  /\ Local(p) # None /\ Local(p)[2] = run[p].commit /\ Remote(p) = Local(p)
  /\ UNCHANGED <<githubVars, clone, told, started, approvals>>

VerifyWorkflow(p) ==
  /\ Step(p, "workflow", "assets")
  /\ workflow[Target(p)] = "success" /\ Remote(p)[2] = run[p].commit
  /\ UNCHANGED <<githubVars, clone, told, started, approvals>>

VerifyAssets(p) ==
  /\ run[p].step = "assets" /\ Stop(p)
  /\ assets[Target(p)] /\ SdkPublished(Target(p))
  /\ told' = [told EXCEPT ![p] = {Target(p)}]
  /\ UNCHANGED <<githubVars, clone, started, approvals>>

GiveUp(p) ==
  /\ run[p] # NoRun /\ Stop(p)
  /\ UNCHANGED <<githubVars, clone, told, started, approvals>>

-----------------------------------------------------------------------------
(* GitHub.                                                                  *)

operatorVars == <<clone, run, told, started, approvals>>

BranchAdvances ==
  /\ tip < LastCommit /\ tip' = tip + 1
  /\ UNCHANGED <<ci, remoteVars, operatorVars>>

CiRuns(c) ==
  /\ c <= tip
  /\ ci' = [ci EXCEPT ![c] = IF @ = "pending" THEN "success" ELSE "pending"]
     \/ ci' = [ci EXCEPT ![c] = "failure"]
  /\ UNCHANGED <<tip, remoteVars, operatorVars>>

WorkflowRuns(t) ==
  /\ workflow[t] = "running"
  /\ \/ /\ workflow' = [workflow EXCEPT ![t] = "success"]
        /\ assets' = [assets EXCEPT ![t] = TRUE]
     \/ workflow' = [workflow EXCEPT ![t] = "failure"] /\ UNCHANGED assets
  /\ UNCHANGED <<branchVars, tag, operatorVars>>

-----------------------------------------------------------------------------
Init ==
  /\ tip = 1 /\ ci = [c \in Commits |-> "pending"]
  /\ tag = [t \in Targets |-> None] /\ workflow = [t \in Targets |-> "none"]
  /\ assets = [t \in Targets |-> FALSE]
  /\ clone = [p \in Operators |-> [t \in Targets |-> None]]
  /\ run = [p \in Operators |-> NoRun] /\ told = [p \in Operators |-> {}]
  /\ started = 0 /\ approvals = {}

Next ==
  \/ \E p \in Operators :
       \/ \E t \in Targets, c \in Commits : Start(p, t, c)
       \/ ReviewedCheckout(p) \/ NotTagged(p, "remote", "check") \/ CheckPython(p) \/ Confirm(p)
       \/ NotTagged(p, "again", "tag") \/ SignOrReuse(p) \/ Push(p)
       \/ VerifyTag(p) \/ VerifyWorkflow(p) \/ VerifyAssets(p) \/ GiveUp(p)
  \/ BranchAdvances
  \/ \E c \in Commits : CiRuns(c)
  \/ \E t \in Targets : WorkflowRuns(t)

Spec == Init /\ [][Next]_vars

-----------------------------------------------------------------------------
(* A tag is pushed once and for all, for a commit its signer confirmed      *)
(* after checking it - in this run or in the one that left the signed tag   *)
(* behind - and a setup tag only after the SDK it locks was published       *)
(* (publish_python, verify_tag).                                            *)
TagsAreEarnedStep ==
  \A t \in Targets : tag'[t] # tag[t] =>
    /\ tag[t] = None /\ tag'[t] # None
    /\ \E p \in Operators : tag'[t] = clone[p][t] /\ <<p, t, tag'[t][2]>> \in approvals
                            /\ run[p].commit = tag'[t][2]
    /\ t = "setup" => assets["tooling"]

TagsAreEarned == [][TagsAreEarnedStep]_vars

-----------------------------------------------------------------------------
(* The inductive invariant: what a run has checked and asked before the     *)
(* push, which nothing takes back.                                          *)
Checked(p) ==
  /\ run[p].step \in {"confirm", "again", "tag", "push"} => SdkPublished(Target(p))
  /\ run[p].step \in {"again", "tag", "push"} => <<p, Target(p), run[p].commit>> \in approvals
  /\ run[p].step = "push" => Local(p) # None /\ Local(p)[2] = run[p].commit

IInv == TypeOK /\ \A p \in Operators : Checked(p)
===============================================================================
