-------------------------- MODULE DirectoryInspection ---------------------------
(***************************************************************************)
(* Reading the directory through a temporary Pod (cli_tools/               *)
(* ldap_directory: main.py).                                               *)
(*                                                                         *)
(* A run creates a Pod, then a policy that the Pod owns and that confines  *)
(* its traffic to the directory, waits for the Pod, runs the worker in it  *)
(* and deletes both in a "finally" clause.  A request may fail, with or    *)
(* without effect; the creation of the Pod may take effect after it was    *)
(* given up.  Ctrl-C ends a request, and during the cleanup the command.   *)
(* What kubectl started in the Pod does not end with kubectl.  Names are   *)
(* fresh for each run.                                                     *)
(***************************************************************************)
EXTENDS Naturals

CONSTANT MaxRuns     (* bound: runs                                          *)
InspectionAssumption == MaxRuns \in Nat

VARIABLES
  pod,         (* the Pod of each run                                       *)
  policy,      (* the runs whose policy exists                              *)
  worker,      (* the runs whose worker is at work                          *)
  late,        (* the runs whose Pod may still come                         *)
  run,         (* the run under way                                         *)
  told,        (* what the last one ended with                              *)
  named,       (* what was reported as left behind: kind and run            *)
  unanswered,  (* history: runs that never learned of their Pod             *)
  cut          (* history: runs that were ended in their cleanup            *)

vars == <<pod, policy, worker, late, run, told, named, unanswered, cut>>
Runs == 1..MaxRuns
Alive == {"created", "ready"}

TypeOK ==
  /\ pod \in [Runs -> {"absent", "ended", "leaving"} \cup Alive]
  /\ policy \subseteq Runs /\ worker \subseteq Runs /\ late \subseteq Runs
  /\ unanswered \subseteq Runs /\ cut \subseteq Runs
  /\ run \in [n : 0..MaxRuns,
              step : {"idle", "pod", "policy", "wait", "exec", "answer", "dropPod", "dropPolicy"}]
  /\ told \in {"none", "shown", "failed", "cancelled"}
  /\ named \subseteq {"pod", "policy"} \X Runs

-----------------------------------------------------------------------------
At(step) == run.step = step
To(step) == run' = [run EXCEPT !.step = step]
(* An exception of the body leads to the cleanup; what the user hears of it  *)
(* depends on which it was.                                                  *)
Raise == \E answer \in {"failed", "cancelled"} : To("dropPod") /\ told' = answer
End == run' = [run EXCEPT !.step = "idle"]
Cluster == <<pod, policy, worker, late>>
Notes == <<named, unanswered, cut>>

(* The target and the image were chosen and the live settings read.          *)
Start ==
  /\ At("idle") /\ run.n < MaxRuns /\ told' = "none"
  /\ run' = [n |-> run.n + 1, step |-> "pod"] /\ UNCHANGED <<Cluster, Notes>>

CreatePod ==
  LET n == run.n
      created == pod' = [pod EXCEPT ![n] = "created"]
  IN /\ At("pod") /\ UNCHANGED <<policy, worker, named, cut>>
     /\ \/ created /\ To("policy") /\ UNCHANGED <<late, told, unanswered>>
        \/ /\ Raise /\ unanswered' = unanswered \cup {n}
           /\ \/ created /\ UNCHANGED late
              \/ UNCHANGED pod /\ late' \in {late, late \cup {n}}

CreatePolicyHoping ==   (* as if its failure did not matter                   *)
  At("policy") /\ policy' \in {policy, policy \cup {run.n}} /\ To("wait")
  /\ UNCHANGED <<pod, worker, late, told, Notes>>
(* The Pod's uid makes it the owner.                                        *)
CreatePolicy ==
  /\ At("policy") /\ UNCHANGED <<pod, worker, late, Notes>>
  /\ \/ policy' = policy \cup {run.n} /\ To("wait") /\ UNCHANGED told
     \/ policy' \in {policy, policy \cup {run.n}} /\ Raise

WaitReady ==
  /\ At("wait") /\ UNCHANGED <<Cluster, Notes>>
  /\ (pod[run.n] = "ready" /\ To("exec") /\ UNCHANGED told) \/ Raise

Execute ==
  /\ At("exec") /\ UNCHANGED <<pod, policy, late, Notes>>
  /\ \/ pod[run.n] = "ready" /\ worker' = worker \cup {run.n} /\ To("answer") /\ UNCHANGED told
     \/ UNCHANGED worker /\ Raise
(* Its output, or a time limit, a lost connection or Ctrl-C.                 *)
Answer ==
  /\ At("answer") /\ UNCHANGED <<Cluster, Notes>>
  /\ \/ run.n \notin worker /\ To("dropPod") /\ told' = "shown"
     \/ Raise

-----------------------------------------------------------------------------
(* The cleanup asks for both deletions, whatever becomes of the first; an    *)
(* object that does not exist is no error.                                   *)
CleanupNeeded(kind) == named' = named \cup {<<kind, run.n>>}
LeaveIf(n) == pod' = [pod EXCEPT ![n] = IF @ = "absent" THEN @ ELSE "leaving"]
DropPodSilently ==      (* as if a failed deletion were not reported          *)
  /\ At("dropPod") /\ UNCHANGED <<policy, worker, late, told, Notes>>
  /\ (LeaveIf(run.n) \/ UNCHANGED pod) /\ To("dropPolicy")
DropPod ==
  /\ At("dropPod") /\ UNCHANGED <<policy, worker, late, told, unanswered, cut>>
  /\ \/ LeaveIf(run.n) /\ To("dropPolicy") /\ UNCHANGED named
     \/ (LeaveIf(run.n) \/ UNCHANGED pod) /\ CleanupNeeded("pod") /\ To("dropPolicy")
DropPolicy ==
  /\ At("dropPolicy") /\ UNCHANGED <<pod, worker, late, told, unanswered, cut>>
  /\ \/ policy' = policy \ {run.n} /\ End /\ UNCHANGED named
     \/ policy' \in {policy, policy \ {run.n}} /\ CleanupNeeded("policy") /\ End

(* Ctrl-C during the cleanup, or the end of the process at any time.         *)
CutShort ==
  /\ ~At("idle") /\ End /\ told' = "cancelled" /\ cut' = cut \cup {run.n}
  /\ UNCHANGED <<named, unanswered>>
  /\ \/ UNCHANGED Cluster
     \/ At("pod") /\ late' = late \cup {run.n} /\ UNCHANGED <<pod, policy, worker>>
     \/ At("policy") /\ policy' = policy \cup {run.n} /\ UNCHANGED <<pod, worker, late>>
     \/ /\ At("exec") /\ pod[run.n] = "ready" /\ worker' = worker \cup {run.n}
        /\ UNCHANGED <<pod, policy, late>>
     \/ At("dropPod") /\ LeaveIf(run.n) /\ UNCHANGED <<policy, worker, late>>
     \/ At("dropPolicy") /\ policy' = policy \ {run.n} /\ UNCHANGED <<pod, worker, late>>

-----------------------------------------------------------------------------
(* The cluster.  The Pod's deadline ends it, but only a deletion removes it;  *)
(* the garbage collector removes the policy of a Pod that is gone.           *)
Own == UNCHANGED <<run, told, Notes>>
Land(n) ==
  /\ n \in late /\ late' = late \ {n} /\ pod' = [pod EXCEPT ![n] = "created"]
  /\ UNCHANGED <<policy, worker>> /\ Own
PodMoves(n) ==
  /\ \/ pod[n] = "created" /\ pod' = [pod EXCEPT ![n] = "ready"]
     \/ pod[n] \in Alive /\ pod' = [pod EXCEPT ![n] = "ended"]
     \/ pod[n] = "leaving" /\ pod' = [pod EXCEPT ![n] = "absent"]
  /\ worker' = IF pod'[n] = "ready" THEN worker ELSE worker \ {n}
  /\ UNCHANGED <<policy, late>> /\ Own
WorkerEnds(n) ==
  /\ n \in worker /\ worker' = worker \ {n} /\ UNCHANGED <<pod, policy, late>> /\ Own
Collect(n) ==
  /\ n \in policy /\ pod[n] = "absent" /\ policy' = policy \ {n}
  /\ UNCHANGED <<pod, worker, late>> /\ Own

Init ==
  /\ pod = [n \in Runs |-> "absent"] /\ policy = {} /\ worker = {} /\ late = {}
  /\ run = [n |-> 0, step |-> "idle"] /\ told = "none"
  /\ named = {} /\ unanswered = {} /\ cut = {}

Next ==
  \/ Start \/ CreatePod \/ CreatePolicy \/ WaitReady \/ Execute \/ Answer
  \/ DropPod \/ DropPolicy \/ CutShort
  \/ \E n \in Runs : Land(n) \/ PodMoves(n) \/ WorkerEnds(n) \/ Collect(n)

Spec == Init /\ [][Next]_vars

-----------------------------------------------------------------------------
(* The worker is confined wherever it is at work, also when nobody waits    *)
(* for it any more; unless its Pod is being deleted, or the operator was     *)
(* told that the Pod could not be.                                           *)
WorkerConfined ==
  \A n \in worker : n \in policy \/ pod[n] = "leaving" \/ <<"pod", n>> \in named

(* A Pod that a finished run leaves behind was reported, unless the run was  *)
(* cut short or never learned whether there was one.                         *)
LeftoversNamed ==
  \A n \in 1..run.n :
    /\ n < run.n \/ At("idle")
    /\ pod[n] \notin {"absent", "leaving"}
    => <<"pod", n>> \in named \/ n \in cut \cup unanswered

-----------------------------------------------------------------------------
(* Why they are: a worker was started in a Pod with its policy; a Pod still *)
(* to come has no worker and its run never learned of it; later runs have    *)
(* nothing; and who is about to remove a policy has dealt with the Pod.      *)
WorkersLive ==
  \A n \in worker : pod[n] \in {"ready", "leaving"} /\ n \notin late \cup unanswered /\ n <= run.n
PodsToCome ==
  \A n \in late :
    /\ pod[n] = "absent" /\ n \in cut \cup unanswered
    /\ n < run.n \/ run.step \in {"dropPod", "dropPolicy", "idle"}
StepsKnow ==
  /\ ~At("idle") => run.n \in Runs \ cut
  /\ run.step \in {"wait", "exec", "answer"} => run.n \in policy
  /\ run.step \in {"policy", "wait", "exec", "answer"} =>
       pod[run.n] \in {"created", "ready", "ended"} /\ run.n \notin late \cup unanswered
  /\ At("pod") => pod[run.n] = "absent" /\ run.n \notin late \cup policy \cup worker \cup unanswered
  /\ At("dropPolicy") =>
       \/ pod[run.n] \in {"absent", "leaving"}
       \/ <<"pod", run.n>> \in named \/ run.n \in unanswered
NothingAhead ==
  \A n \in Runs : n > run.n =>
    pod[n] = "absent" /\ n \notin late \cup policy \cup worker \cup unanswered \cup cut
IInv ==
  /\ TypeOK /\ WorkersLive /\ PodsToCome /\ StepsKnow /\ NothingAhead
  /\ WorkerConfined /\ LeftoversNamed
=============================================================================
