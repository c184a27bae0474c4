-------------------------- MODULE ReleasePublication --------------------------
(***************************************************************************)
(* One platform release, from preparation to verified publication          *)
(* (cli_tools/platform_release/main.py): operators with a clone each, and  *)
(* the GitHub repository they share with its workflows.                    *)
(*                                                                         *)
(* The default branch is linear: commit 0 carries the VERSION of the       *)
(* published release, and the commits from the merge of the release PR on  *)
(* carry the new one.  A signed tag object is the pair of its signer and   *)
(* its commit.  Any command may fail: GiveUp ends the operator's run.      *)
(***************************************************************************)
EXTENDS Naturals

CONSTANTS
  Operators,
  LastCommit,   (* bound: commits on the default branch                     *)
  MaxRuns,      (* bound: commands an operator starts                       *)
  None

Commits == 0..LastCommit
Objects == Operators \X Commits

ReleaseAssumption ==
  LastCommit \in Nat \ {0} /\ MaxRuns \in Nat /\ None \notin Commits /\ None \notin Objects

VARIABLES
  tip,          (* commit of the default branch                             *)
  merge,        (* commit that merged the release PR, 0 before              *)
  pr,           (* the release PR                                           *)
  ci,           (* latest Required CI on the head of the PR                 *)
  preparing,    (* Prepare Release PR runs that have not ended              *)
  staging,      (* refs/tags/release-staging/TAG                            *)
  final,        (* refs/tags/TAG                                            *)
  dispatched,   (* objects the tag creation workflow was asked to create    *)
  verifying,    (* Verify Platform Release, for the final tag               *)
  publishing,   (* the publication run that carries the tag's artifact      *)
  release,      (* the GitHub Release                                       *)
  local,        (* the tag in an operator's clone                           *)
  run,          (* the command an operator runs (NoRun: none)               *)
  told,         (* what the last command reported                           *)
  started,      (* commands started                                         *)
  approvals     (* history: what operators confirmed after passing checks   *)

prVars == <<tip, merge, pr, ci, preparing>>
tagVars == <<staging, final, dispatched>>
workflowVars == <<verifying, publishing, release>>
githubVars == <<prVars, tagVars, workflowVars>>
operatorVars == <<local, run, told, started, approvals>>
vars == <<tip, merge, pr, ci, preparing, staging, final, dispatched, verifying, publishing,
          release, local, run, told, started, approvals>>

Advice == {"nothing", "prepare", "check", "merge", "resolve", "publish", "partial", "recheck",
           "published", "dispatched", "verified"}

Runs ==
  [step : {"idle", "fetch", "gate", "refs", "check", "confirm", "again", "sign", "stage", "push",
           "dispatch", "tag", "evidence", "release", "preview", "answer", "inspect", "advise"},
   command : {"none", "prepare", "publish", "status", "continue"},
   checkout : Commits \cup {None},   (* commit of the isolated release worktree      *)
   reviewed : Commits \cup {None},   (* --reviewed-commit                            *)
   phrase : Commits \cup {None},     (* commit named by --confirm                    *)
   passed : Commits \cup {None},     (* commit on which the checks passed            *)
   attempt : 0..2]                   (* fresh validations after a stale target       *)

NoRun ==
  [step |-> "idle", command |-> "none", checkout |-> None, reviewed |-> None, phrase |-> None,
   passed |-> None, attempt |-> 0]

TypeOK ==
  /\ tip \in Commits /\ merge \in 0..tip
  /\ pr \in {"none", "draft", "open", "merged", "closed"}
  /\ ci \in {"none", "pending", "success", "failure"} /\ preparing \in 0..2
  /\ staging \in Objects \cup {None} /\ final \in Objects \cup {None} /\ dispatched \subseteq Objects
  /\ verifying \in {"none", "pending", "success", "failure"}
  /\ publishing \in {"none", "running", "success", "failure", "expired"}
  /\ release \in {"missing", "draft", "published"}
  /\ local \in [Operators -> Objects \cup {None}] /\ run \in [Operators -> Runs]
  /\ told \in [Operators -> Advice] /\ started \in 0..MaxRuns /\ approvals \subseteq Objects

-----------------------------------------------------------------------------
(* What the tool reads.                                                     *)

IsNew(c) == merge # 0 /\ c >= merge
Current(p) == run[p].checkout = tip
Published == release = "published"

(* _release_pr_gate: the target is the merge of the release PR, whose head  *)
(* passed.                                                                  *)
MergedAndGreen(p) == merge = run[p].checkout /\ merge # 0 /\ ci = "success"

Goto(p, step) == run' = [run EXCEPT ![p].step = step] /\ UNCHANGED <<told, started>>

End(p, word) ==
  run' = [run EXCEPT ![p] = NoRun] /\ told' = [told EXCEPT ![p] = word] /\ UNCHANGED started

-----------------------------------------------------------------------------
(* Starting a command.                                                      *)

Start(p, command, first, c, confirm) ==
  /\ run[p] = NoRun /\ started < MaxRuns
  /\ started' = started + 1 /\ told' = [told EXCEPT ![p] = "nothing"]
  /\ run' = [run EXCEPT ![p] = [NoRun EXCEPT !.step = first, !.command = command,
                                             !.reviewed = c, !.phrase = confirm]]
  /\ UNCHANGED <<githubVars, local, approvals>>

Prepare(p) == Start(p, "prepare", "fetch", None, None)

(* release-manager asks for a reviewed commit, and refuses one that is not  *)
(* the tip; platform-release does not ask.                                  *)
Publish(p) == \E c, confirm \in {None, tip} : Start(p, "publish", "fetch", c, confirm)

Inspection(p) ==
  \E command \in {"status", "continue"} : Start(p, command, "inspect", None, None)

(* _release_checkout and _fetch_target: all remote tags come along, and one *)
(* that differs from a local tag blocks the fetch.                          *)
ReleaseCheckout(p) ==
  /\ run[p].step = "fetch"
  /\ final = None \/ local[p] \in {None, final}
  /\ local' = [local EXCEPT ![p] = IF final = None THEN @ ELSE final]
  /\ run' = [run EXCEPT ![p].checkout = tip,
                        ![p].step = IF run[p].command = "prepare" THEN "preview" ELSE "gate"]
  /\ UNCHANGED <<githubVars, told, started, approvals>>

(* Mutant: the validated and confirmed run goes on at the new tip.          *)
RevalidateKeepsApproval(p) ==
  run' = IF run[p].step = "stage" \/ run[p].step = "again"
         THEN [run EXCEPT ![p].step = "sign", ![p].attempt = @ + 1, ![p].checkout = tip]
         ELSE [run EXCEPT ![p].step = "fetch", ![p].attempt = @ + 1]

Revalidate(p) ==
  run' = [run EXCEPT ![p].step = "fetch", ![p].attempt = @ + 1, ![p].passed = None,
                     ![p].checkout = None]

(* prepare: the version is free, nobody prepares it, and the checkout names *)
(* the published release as its predecessor.                                *)
MayPrepare(p) ==
  /\ ~Published /\ ~IsNew(run[p].checkout)
  /\ local[p] = None /\ final = None /\ staging = None /\ pr = "none"

(* StaleTargetError in _execute: validated anew on a fresh checkout, unless *)
(* the confirmation was given in advance.                                   *)
Stale(p) ==
  /\ run[p].step \in {"gate", "preview", "answer", "again", "stage"}
  /\ run[p].step = "gate" => run[p].reviewed \in {None, run[p].checkout}
  /\ run[p].step = "preview" => MayPrepare(p)
  /\ ~Current(p) /\ run[p].phrase = None /\ run[p].attempt < 2
  /\ Revalidate(p)
  /\ UNCHANGED <<githubVars, local, told, started, approvals>>

(* Refusals, declined prompts, failed commands, timeouts, Ctrl-C, and the   *)
(* stale targets that are not tried again.                                  *)
GiveUp(p) ==
  /\ run[p] # NoRun /\ End(p, "nothing")
  /\ UNCHANGED <<githubVars, local, approvals>>

Step(p, from, to) == run[p].step = from /\ Goto(p, to)

-----------------------------------------------------------------------------
(* prepare.                                                                 *)

Preview(p) ==
  /\ Step(p, "preview", "answer")
  /\ MayPrepare(p) /\ Current(p)
  /\ UNCHANGED <<githubVars, local, approvals>>

DispatchPreparation(p) ==
  /\ run[p].step = "answer" /\ Current(p) /\ preparing < 2
  /\ preparing' = preparing + 1
  /\ End(p, "dispatched")
  /\ UNCHANGED <<tip, merge, pr, ci, tagVars, workflowVars, local, approvals>>

-----------------------------------------------------------------------------
(* publish.                                                                 *)

Gate(p) ==
  /\ Step(p, "gate", "refs")
  /\ run[p].reviewed \in {None, run[p].checkout}
  /\ Current(p) /\ IsNew(run[p].checkout) /\ ~Published /\ MergedAndGreen(p)
  /\ UNCHANGED <<githubVars, local, approvals>>

NoTagYet(p) ==
  /\ Step(p, "refs", "check")
  /\ local[p] = None /\ final = None /\ staging = None
  /\ UNCHANGED <<githubVars, local, approvals>>

Checks(p) ==
  /\ run[p].step = "check"
  /\ run' = [run EXCEPT ![p].step = "confirm", ![p].passed = run[p].checkout]
  /\ UNCHANGED <<githubVars, local, told, started, approvals>>

(* The operator answers with the exact commit.                              *)
Confirm(p) ==
  /\ Step(p, "confirm", "again")
  /\ run[p].phrase \in {None, run[p].checkout}
  /\ approvals' = approvals \cup ({<<p, run[p].checkout>>} \cap {<<p, run[p].passed>>})
  /\ UNCHANGED <<githubVars, local>>

Again(p) ==
  /\ Step(p, "again", "sign")
  /\ Current(p) /\ MergedAndGreen(p)
  /\ UNCHANGED <<githubVars, local, approvals>>

(* git tag never replaces a tag; the checks that follow may still fail, and *)
(* leave the signed tag in the clone.                                       *)
Sign(p) ==
  /\ Step(p, "sign", "stage")
  /\ local[p] = None /\ local' = [local EXCEPT ![p] = <<p, run[p].checkout>>]
  /\ UNCHANGED <<githubVars, approvals>>

Stage(p) ==
  /\ Step(p, "stage", "push")
  /\ Current(p) /\ final = None /\ staging = None
  /\ UNCHANGED <<githubVars, local, approvals>>

(* Without --force an existing tag is not replaced.  GiveUp may follow the  *)
(* push: its answer is lost, or the dispatch fails.                         *)
Push(p) ==
  /\ Step(p, "push", "dispatch")
  /\ staging = None /\ staging' = local[p]
  /\ UNCHANGED <<prVars, final, dispatched, workflowVars, local, approvals>>

Dispatch(p) ==
  /\ Step(p, "dispatch", "tag")
  /\ dispatched' = dispatched \cup {local[p]}
  /\ UNCHANGED <<prVars, staging, final, workflowVars, local, approvals>>

-----------------------------------------------------------------------------
(* Waiting for the publication.                                             *)

WaitForTag(p) ==
  /\ Step(p, "tag", "evidence")
  /\ final # None /\ (run[p].command = "publish" => final = local[p])
  /\ UNCHANGED <<githubVars, local, approvals>>

(* _verify_workflows: the verification of the tag's commit, then the        *)
(* publication run whose artifact names the tag.                            *)
WorkflowsVerified(p) ==
  /\ Step(p, "evidence", "release")
  /\ verifying = "success" /\ publishing = "success" /\ local[p][2] = final[2]
  /\ UNCHANGED <<githubVars, local, approvals>>

ReleaseSeen(p) ==
  /\ run[p].step = "release" /\ Published
  /\ End(p, "verified")
  /\ UNCHANGED <<githubVars, local, approvals>>

-----------------------------------------------------------------------------
(* inspect_progress: the references, and a while later the PR, its checks   *)
(* and the GitHub Release.  A remote object that differs stops everything.  *)

(* Mutant: a remote tag that differs from the local one goes unnoticed.     *)
AgreeUnchecked(p) == TRUE

Agree(p) == local[p] # None => \A o \in {final, staging} : o \in {None, local[p]}

InspectRefs(p) ==
  /\ run[p].step = "inspect" /\ Agree(p)
  /\ IF run[p].command = "continue" /\ final # None
     THEN local[p] # None /\ Goto(p, "tag")
     ELSE Goto(p, "advise")
  /\ UNCHANGED <<githubVars, local, approvals>>

NextAction(p) ==
  IF Published THEN "published"
  ELSE IF final # None THEN "recheck"
  ELSE IF local[p] # None \/ staging # None THEN "partial"
  ELSE CASE pr = "draft" \/ (pr = "open" /\ ci = "failure") -> "check"
         [] pr = "open" /\ ci # "failure" -> "merge"
         [] pr = "merged" -> (IF ci = "success" THEN "publish" ELSE "resolve")
         [] OTHER -> "prepare"

Advise(p) ==
  /\ run[p].step = "advise" /\ End(p, NextAction(p))
  /\ UNCHANGED <<githubVars, local, approvals>>

(* The operator fetches the final tag apart, as continue asks.              *)
FetchTag(p) ==
  /\ run[p] = NoRun /\ local[p] = None /\ final # None
  /\ local' = [local EXCEPT ![p] = final]
  /\ UNCHANGED <<githubVars, run, told, started, approvals>>

-----------------------------------------------------------------------------
(* GitHub and its users.                                                    *)

BranchAdvances ==
  /\ tip < LastCommit /\ tip' = tip + 1
  /\ UNCHANGED <<merge, pr, ci, preparing, tagVars, workflowVars, operatorVars>>

PreparationEnds ==
  /\ preparing > 0 /\ preparing' = preparing - 1
  /\ IF pr = "none" THEN pr' = "draft" /\ ci' = "pending" ELSE UNCHANGED <<pr, ci>>
  /\ UNCHANGED <<tip, merge, tagVars, workflowVars, operatorVars>>

(* Review, CI runs and reruns, new heads (whose CI is pending), merging.    *)
Review ==
  /\ \/ pr = "draft" /\ pr' = "open" /\ UNCHANGED <<ci, tip, merge>>
     \/ pr \in {"draft", "open"} /\ pr' = "closed" /\ UNCHANGED <<ci, tip, merge>>
     \/ ci = "pending" /\ ci' \in {"success", "failure"} /\ UNCHANGED <<pr, tip, merge>>
     \/ ci \in {"success", "failure"} /\ ci' = "pending" /\ UNCHANGED <<pr, tip, merge>>
     \/ /\ pr = "open" /\ tip < LastCommit /\ pr' = "merged"
        /\ tip' = tip + 1 /\ merge' = tip + 1 /\ UNCHANGED ci
  /\ UNCHANGED <<preparing, tagVars, workflowVars, operatorVars>>

(* Create Platform Release Tag: an approved run makes the staged object     *)
(* final.                                                                   *)
TagCreated(o) ==
  /\ o \in dispatched /\ o = staging /\ final = None
  /\ final' = o /\ verifying' = "pending"
  /\ UNCHANGED <<prVars, staging, dispatched, publishing, release, operatorVars>>

WorkflowProgress ==
  /\ \/ /\ verifying = "pending" /\ verifying' \in {"success", "failure"}
        /\ UNCHANGED <<publishing, release>>
     \/ /\ verifying = "success" /\ publishing = "none" /\ publishing' = "running"
        /\ release' = "draft" /\ UNCHANGED verifying
     \/ /\ publishing = "running"
        /\ \/ publishing' = "success" /\ release' = "published"
           \/ publishing' = "failure" /\ UNCHANGED release
        /\ UNCHANGED verifying
     \/ publishing = "success" /\ publishing' = "expired" /\ UNCHANGED <<verifying, release>>
  /\ UNCHANGED <<prVars, tagVars, operatorVars>>

-----------------------------------------------------------------------------
Init ==
  /\ tip = 0 /\ merge = 0 /\ preparing = 0
  /\ \/ pr = "none" /\ ci = "none"
     \/ pr = "open" /\ ci = "success"
  /\ staging = None /\ final = None /\ dispatched = {}
  /\ verifying = "none" /\ publishing = "none" /\ release = "missing"
  /\ local = [p \in Operators |-> None] /\ run = [p \in Operators |-> NoRun]
  /\ told = [p \in Operators |-> "nothing"] /\ started = 0 /\ approvals = {}

Next ==
  \/ \E p \in Operators :
       \/ Prepare(p) \/ Inspection(p) \/ ReleaseCheckout(p) \/ Stale(p) \/ GiveUp(p)
       \/ Publish(p)
       \/ Preview(p) \/ DispatchPreparation(p)
       \/ Gate(p) \/ NoTagYet(p) \/ Checks(p) \/ Confirm(p) \/ Again(p) \/ Sign(p)
       \/ Stage(p) \/ Push(p) \/ Dispatch(p)
       \/ WaitForTag(p) \/ WorkflowsVerified(p) \/ ReleaseSeen(p)
       \/ InspectRefs(p) \/ Advise(p) \/ FetchTag(p)
  \/ BranchAdvances \/ PreparationEnds \/ Review \/ WorkflowProgress
  \/ \E o \in Objects : TagCreated(o)

Spec == Init /\ [][Next]_vars

-----------------------------------------------------------------------------
(* "Publication verified" is said of the tag the operator holds: that very  *)
(* object is final, verified and published (continue_release,               *)
(* _wait_for_publication).                                                  *)
VerifiedIsPublished ==
  \A p \in Operators :
    told[p] = "verified" =>
      final # None /\ final = local[p] /\ verifying = "success" /\ Published

(* What enters staging is signed for the merge of the release PR by an      *)
(* operator who confirmed that very commit after the checks passed on it,   *)
(* and it is never replaced, whatever main and other operators did during   *)
(* the checks (publish, _execute, _dispatch_tag_creation); what is said to  *)
(* be verified is published.                                                *)
ReleasesAreAuthorisedStep ==
  /\ staging' # staging => staging = None /\ staging' \in approvals /\ staging'[2] = merge
  /\ VerifiedIsPublished'

ReleasesAreAuthorised == [][ReleasesAreAuthorisedStep]_vars

-----------------------------------------------------------------------------
(* The inductive invariant: what a run has established by the step it is    *)
(* at, and that the release PR is merged once.                              *)
Target(p) == merge # 0 /\ run[p].checkout = merge
Holds(p) == final # None /\ final = local[p]

CommandFits(p) ==
  /\ run[p].step = "fetch" => run[p].command \in {"prepare", "publish"}
  /\ run[p].step \in {"preview", "answer"} => run[p].command = "prepare"
  /\ run[p].step \in {"gate", "refs", "check", "confirm", "again", "sign", "stage", "push",
                     "dispatch"} => run[p].command = "publish"

Established(p) ==
  /\ run[p].step \in {"refs", "check", "confirm", "again", "sign", "stage", "push"} => Target(p)
  /\ run[p].step = "confirm" => run[p].passed = run[p].checkout
  /\ run[p].step \in {"again", "sign", "stage", "push", "dispatch"} =>
       <<p, run[p].checkout>> \in approvals
  /\ run[p].step \in {"stage", "push", "dispatch"} => local[p] = <<p, run[p].checkout>>
  /\ run[p].step = "tag" /\ run[p].command # "publish" => Holds(p)
  /\ run[p].step \in {"evidence", "release"} => Holds(p)
  /\ run[p].step = "release" => verifying = "success"

Verified(p) ==
  /\ run[p].step # "idle" => told[p] = "nothing"
  /\ told[p] = "verified" => Holds(p) /\ verifying = "success" /\ Published

IInv ==
  /\ TypeOK
  /\ merge # 0 => pr = "merged"
  /\ Published => publishing \in {"success", "expired"}
  /\ \A p \in Operators : CommandFits(p) /\ Established(p) /\ Verified(p)
===============================================================================
