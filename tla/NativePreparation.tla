--------------------------- MODULE NativePreparation ----------------------------
(***************************************************************************)
(* Preparing a native credential in a temporary Pod                        *)
(* (cli_tools/openbao_stack_setup: native.py).                             *)
(*                                                                         *)
(* A run creates a policy that denies the Pod all traffic, then the Pod,   *)
(* waits for it, looks at everything again and runs one command in it; in  *)
(* the end it deletes what it knows to be its own.  Requests fail, are     *)
(* lost before or after their effect, or take effect after they were given *)
(* up; the run may be killed.  Administrators may change or delete the     *)
(* objects, and recreate the namespace.  Names are fresh for each run.     *)
(***************************************************************************)
EXTENDS Naturals

CONSTANTS
  MaxRuns,     (* bound: runs                                               *)
  MaxEdits     (* bound: changes by administrators                          *)

NativeAssumption == {MaxRuns, MaxEdits} \subseteq Nat

VARIABLES
  pod,         (* the Pod of each run                                       *)
  policy,      (* the deny policy of each run                               *)
  allows,      (* does another policy let traffic to the Pods through?      *)
  space,       (* the namespace's uid: how often it was recreated           *)
  late,        (* runs whose request for a Pod may still take effect        *)
  bared,       (* history: runs whose policy an administrator took away     *)
  run,         (* the run under way: its number, step and what it owns      *)
  told,        (* what the last one ended with                              *)
  edits

vars == <<pod, policy, allows, space, late, bared, run, told, edits>>
outside == <<allows, space, bared, edits>>

Runs == 1..MaxRuns
Idle == [n |-> 0, step |-> "idle", space |-> 0, owned |-> {}, attempted |-> FALSE, good |-> FALSE]

RunRecord ==
  [n : 0..MaxRuns,
   step : {"idle", "check", "policy", "pod", "ready", "space", "denied", "allowed", "exec",
           "clean", "absent", "lift"},
   space : 0..MaxEdits,                        (* namespace_uid              *)
   owned : SUBSET {"pod", "network_policy"},   (* uids it knows              *)
   attempted : BOOLEAN,                        (* pod_attempted              *)
   good : BOOLEAN]                             (* output decoded             *)

TypeOK ==
  /\ pod \in [Runs -> {"absent", "created", "altered", "running", "ended", "leaving"}]
  /\ policy \in [Runs -> {"absent", "denies", "altered"}]
  /\ allows \in BOOLEAN /\ space \in 0..MaxEdits /\ late \subseteq Runs /\ bared \subseteq Runs
  /\ run \in RunRecord
  /\ told \in {"none", "prepared", "failed", "uncertain", "incomplete"}
  /\ edits \in 0..MaxEdits

-----------------------------------------------------------------------------
At(step) == run.step = step
To(step) == run' = [run EXCEPT !.step = step]
Fail == To("clean")                    (* the exception, and the "finally"   *)
Reads == UNCHANGED <<pod, policy, late, told, outside>>

(* Reading the namespace, and the policies that select the Pod-to-be.        *)
Start ==
  /\ At("idle") /\ run.n < MaxRuns /\ told' = "none"
  /\ \/ run' = [Idle EXCEPT !.n = run.n + 1, !.step = "check", !.space = space]
     \/ run' = [Idle EXCEPT !.n = run.n + 1, !.step = "clean"]
  /\ UNCHANGED <<pod, policy, late, outside>>
CheckPolicies == At("check") /\ Reads /\ ((~allows /\ To("policy")) \/ Fail)

(* The answer is compared with what was sent, once its uid is noted.         *)
CreatePolicy ==
  /\ At("policy") /\ UNCHANGED <<pod, late, told, outside>>
  /\ \/ /\ policy' = [policy EXCEPT ![run.n] = "denies"]
        /\ \/ \E next \in {"pod", "clean"} :
                run' = [run EXCEPT !.owned = {"network_policy"}, !.step = next]
           \/ Fail
     \/ UNCHANGED policy /\ Fail

(* Whatever the answer, the attempt has been noted.                          *)
CreatePod ==
  LET attempt == [run EXCEPT !.attempted = TRUE]
      failed == run' = [attempt EXCEPT !.step = "clean"]
      created == pod' = [pod EXCEPT ![run.n] = "created"]
  IN /\ At("pod") /\ UNCHANGED <<policy, told, outside>>
     /\ \/ /\ created /\ UNCHANGED late
           /\ run' = [attempt EXCEPT !.owned = @ \cup {"pod"}, !.step = "ready"]
        \/ created /\ failed /\ UNCHANGED late
        \/ UNCHANGED pod /\ failed /\ late' \in {late, late \cup {run.n}}

(* _verify_pod, _verify_policy.                                              *)
AsSubmitted(n) == pod[n] \in {"created", "running", "ended"}
Denies(n) == policy[n] = "denies"

(* The Pod runs as it was submitted, the namespace is the one it was, and   *)
(* the policies still deny all traffic.  Any reading may fail.               *)
Ready ==
  /\ At("ready") /\ Reads
  /\ \/ AsSubmitted(run.n) /\ pod[run.n] = "running" /\ To("space")
     \/ Fail
SameSpace == At("space") /\ Reads /\ ((space = run.space /\ To("denied")) \/ Fail)
StillDenied == At("denied") /\ Reads /\ ((Denies(run.n) /\ To("allowed")) \/ Fail)
NoneAllows == At("allowed") /\ Reads /\ ((~allows /\ To("exec")) \/ Fail)

(* The private command: its output is complete and decoded, or hidden.       *)
Execute ==
  /\ At("exec") /\ Reads
  /\ \/ pod[run.n] = "running" /\ run' = [run EXCEPT !.good = TRUE, !.step = "clean"]
     \/ Fail

-----------------------------------------------------------------------------
(* _cleanup: a Pod whose creation is uncertain keeps its policy; otherwise  *)
(* the Pod goes first, and the policy once the Pod is known to be gone.      *)
End(answer) == run' = [Idle EXCEPT !.n = run.n] /\ told' = answer
Verdict == IF run.good THEN "prepared" ELSE "failed"

(* Only what is owned counts.                                                *)
CleanOwned ==
  /\ At("clean") /\ "pod" \notin run.owned /\ UNCHANGED <<pod, policy, late, outside>>
  /\ IF "network_policy" \in run.owned THEN To("lift") /\ UNCHANGED told ELSE End(Verdict)

CleanUncreated ==
  /\ At("clean") /\ "pod" \notin run.owned /\ UNCHANGED <<pod, policy, late, outside>>
  /\ IF run.attempted THEN End("uncertain")
     ELSE IF "network_policy" \in run.owned THEN To("lift") /\ UNCHANGED told
     ELSE End(Verdict)

DeletePod ==
  LET n == run.n
      effect == pod' = [pod EXCEPT ![n] = "leaving"]
  IN /\ At("clean") /\ "pod" \in run.owned /\ UNCHANGED <<policy, late, outside>>
     /\ \/ pod[n] = "absent" /\ To("lift") /\ UNCHANGED <<pod, told>>
        \/ pod[n] # "absent" /\ effect /\ To("absent") /\ UNCHANGED told
        \/ pod[n] # "absent" /\ effect /\ End("incomplete")
        \/ UNCHANGED pod /\ End("incomplete")
PodAbsent ==
  /\ At("absent") /\ UNCHANGED <<pod, policy, late, outside>>
  /\ \/ pod[run.n] = "absent" /\ To("lift") /\ UNCHANGED told
     \/ End("incomplete")
LiftPolicy ==
  /\ At("lift") /\ UNCHANGED <<pod, late, outside>>
  /\ \/ policy' = [policy EXCEPT ![run.n] = "absent"] /\ End(Verdict)
     \/ policy' \in {policy, [policy EXCEPT ![run.n] = "absent"]} /\ End("incomplete")

Kill ==
  /\ ~At("idle") /\ End("none") /\ UNCHANGED <<pod, policy, outside>>
  /\ late' \in (IF At("pod") THEN {late, late \cup {run.n}} ELSE {late})

-----------------------------------------------------------------------------
(* The cluster: requests that were given up, and the life of a Pod.          *)
Land(n) ==
  /\ n \in late /\ late' = late \ {n} /\ pod' = [pod EXCEPT ![n] = "created"]
  /\ UNCHANGED <<policy, run, told, outside>>
PodMoves(n) ==
  /\ \/ pod[n] = "created" /\ pod' = [pod EXCEPT ![n] = "running"]
     \/ pod[n] = "running" /\ pod' = [pod EXCEPT ![n] = "ended"]
     \/ pod[n] = "leaving" /\ pod' = [pod EXCEPT ![n] = "absent"]
  /\ UNCHANGED <<policy, late, run, told, outside>>

(* Administrators.                                                           *)
Edit == edits < MaxEdits /\ edits' = edits + 1 /\ UNCHANGED <<late, run, told>>
EditPod(n) ==
  /\ Edit /\ pod[n] \in {"created", "running"}
  /\ pod' \in {[pod EXCEPT ![n] = "altered"], [pod EXCEPT ![n] = "leaving"]}
  /\ UNCHANGED <<policy, allows, space, bared>>
EditPolicy(n) ==
  /\ Edit /\ policy[n] = "denies" /\ bared' = bared \cup {n}
  /\ policy' \in {[policy EXCEPT ![n] = "altered"], [policy EXCEPT ![n] = "absent"]}
  /\ UNCHANGED <<pod, allows, space>>
EditAllows == Edit /\ allows' = ~allows /\ UNCHANGED <<pod, policy, space, bared>>
RecreateNamespace ==
  /\ Edit /\ space' = space + 1 /\ bared' = bared \cup 1..run.n
  /\ pod' = [n \in Runs |-> "absent"] /\ policy' = [n \in Runs |-> "absent"]
  /\ UNCHANGED allows

Init ==
  /\ pod = [n \in Runs |-> "absent"] /\ policy = [n \in Runs |-> "absent"]
  /\ allows = FALSE /\ space = 0 /\ late = {} /\ bared = {}
  /\ run = Idle /\ told = "none" /\ edits = 0

Next ==
  \/ Start \/ CheckPolicies \/ CreatePolicy \/ CreatePod
  \/ Ready \/ SameSpace \/ StillDenied \/ NoneAllows \/ Execute
  \/ CleanUncreated \/ DeletePod \/ PodAbsent \/ LiftPolicy \/ Kill
  \/ \E n \in Runs : Land(n) \/ PodMoves(n) \/ EditPod(n) \/ EditPolicy(n)
  \/ EditAllows \/ RecreateNamespace

Spec == Init /\ [][Next]_vars

-----------------------------------------------------------------------------
(* While a temporary Pod exists, however late it came, its policy is in     *)
(* force, unless an administrator took it away; and a run that does not     *)
(* complain of its cleanup leaves no Pod, and none to come.                  *)
PodNeverBare ==
  /\ \A n \in Runs \ bared : pod[n] # "absent" => policy[n] = "denies"
  /\ At("idle") /\ told \in {"prepared", "failed"} => pod[run.n] = "absent" /\ run.n \notin late

-----------------------------------------------------------------------------
(* Why it is not: the same of a Pod still to come; a run that owns its Pod, *)
(* or never asked for one, has none to come; and later runs have nothing.    *)
PolicyFirst ==
  \A n \in Runs \ bared :
    \/ pod[n] # "absent" \/ n \in late \/ (n = run.n /\ At("pod"))
    => policy[n] = "denies"
PodsKnown ==
  /\ ~At("idle") /\ ~run.attempted => pod[run.n] = "absent" /\ run.n \notin late
  /\ run.step \in {"check", "policy", "pod"} => ~run.attempted /\ "pod" \notin run.owned
  /\ "pod" \in run.owned => run.n \notin late
  /\ At("absent") => run.n \notin late
  /\ At("lift") => pod[run.n] = "absent" /\ run.n \notin late
  /\ ~At("idle") \/ told # "none" => run.n \in Runs
  /\ \A n \in Runs : n > run.n => pod[n] = "absent" /\ n \notin late
EditsCount == space <= edits
IInv == TypeOK /\ PolicyFirst /\ PodsKnown /\ EditsCount /\ PodNeverBare
=============================================================================
