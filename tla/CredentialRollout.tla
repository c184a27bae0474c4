--------------------------- MODULE CredentialRollout ----------------------------
(***************************************************************************)
(* Rolling a workload out to a changed credential (api/kubernetes.py:      *)
(* reconcile_workload).                                                    *)
(*                                                                         *)
(* A Job writes the hash of the credential into an annotation of the       *)
(* workload's pod template and comes again until it finds it there with    *)
(* the rollout finished.  Several Jobs, each with an annotation of its     *)
(* own, share one workload.  Its controller follows the template at its    *)
(* own pace and writes its status when it likes; administrators scale the  *)
(* workload or undo a rollout.  The controller is modelled from what the   *)
(* fields of the status mean; a workload that is absent is an error.       *)
(***************************************************************************)
EXTENDS Naturals, FiniteSets

CONSTANTS
  Purposes,    (* the annotations, and the Jobs that write them             *)
  Digests,
  Slots,       (* places for pods                                           *)
  MaxChanges,  (* bound: generations of the workload                        *)
  MaxRuns,     (* bound: runs of Jobs                                       *)
  None

Templates == [Purposes -> Digests \cup {None}]
Pod == [template : Templates, ready : BOOLEAN]
RolloutAssumption ==
  /\ None \notin Digests \cup Pod /\ IsFiniteSet(Slots) /\ {MaxChanges, MaxRuns} \subseteq Nat
  /\ MaxChanges > 0

VARIABLES
  kind,        (* "Deployment" or "DaemonSet"                               *)
  workload,    (* its generation, replicas and template                     *)
  seen,        (* what of it the controller has read                        *)
  pods,        (* the template each was made from, and whether it is ready  *)
  status,      (* what the controller wrote last                            *)
  want,        (* the hash each Job's credential has in its current run     *)
  step,        (* each Job's                                                *)
  told,        (* what its last run ended with                              *)
  runs

vars == <<kind, workload, seen, pods, status, want, step, told, runs>>

Workload == [generation : 1..MaxChanges, replicas : 0..Cardinality(Slots), template : Templates]
Count == 0..Cardinality(Slots)

TypeOK ==
  /\ kind \in {"Deployment", "DaemonSet"} /\ workload \in Workload /\ seen \in Workload
  /\ pods \in [Slots -> Pod \cup {None}]
  /\ status \in [observed : 0..MaxChanges, updated : Count, replicas : Count, available : Count]
  /\ want \in Templates /\ step \in [Purposes -> {"idle", "read", "patch"}]
  /\ told \in [Purposes -> {"none", "ready", "rolling", "failed"}] /\ runs \in 0..MaxRuns

-----------------------------------------------------------------------------
To(p, to) == step' = [step EXCEPT ![p] = to]
End(p, answer) == To(p, "idle") /\ told' = [told EXCEPT ![p] = answer]
Others == UNCHANGED <<kind, seen, pods, status>>

Start(p) ==
  /\ step[p] = "idle" /\ runs < MaxRuns /\ runs' = runs + 1 /\ To(p, "read")
  /\ \E d \in Digests : want' = [want EXCEPT ![p] = d]
  /\ told' = [told EXCEPT ![p] = "none"] /\ UNCHANGED workload /\ Others

(* Every pod that is wanted is of this generation and available, and, of a  *)
(* Deployment, none is left of an earlier one.                               *)
WorkloadReadyUnobserved ==   (* as if the status were always of today       *)
  /\ status.updated = workload.replicas /\ status.available = workload.replicas
  /\ kind = "Deployment" => status.replicas = status.updated
WorkloadReady ==
  /\ status.observed >= workload.generation
  /\ status.updated = workload.replicas /\ status.available = workload.replicas
  /\ kind = "Deployment" => status.replicas = status.updated

(* One reading decides; a patch is not waited for.                           *)
Read(p) ==
  /\ step[p] = "read" /\ UNCHANGED <<workload, want, runs>> /\ Others
  /\ \/ End(p, "failed")
     \/ /\ workload.template[p] = want[p]
        /\ End(p, IF WorkloadReady THEN "ready" ELSE "rolling")
     \/ workload.template[p] # want[p] /\ To(p, "patch") /\ UNCHANGED told

Change(new) ==
  /\ workload.generation < MaxChanges
  /\ workload' = [new EXCEPT !.generation = workload.generation + 1]
(* The patch is a merge: other annotations stay.                            *)
Annotate(p) ==
  IF workload.template[p] = want[p] THEN UNCHANGED workload
  ELSE Change([workload EXCEPT !.template[p] = want[p]])
Patch(p) ==
  /\ step[p] = "patch" /\ UNCHANGED <<want, runs>> /\ Others
  /\ \/ Annotate(p) /\ (End(p, "rolling") \/ End(p, "failed"))
     \/ UNCHANGED workload /\ End(p, "failed")

-----------------------------------------------------------------------------
(* The controller.  A node of a DaemonSet has one pod at a time.            *)
Jobs == UNCHANGED <<want, step, told, runs>>
Standing == {s \in Slots : pods[s] # None}
Current == {s \in Standing : pods[s].template = seen.template}

Observe ==
  /\ seen # workload /\ seen' = workload /\ UNCHANGED <<kind, workload, pods, status>> /\ Jobs
AddPod(s) ==
  /\ pods[s] = None
  /\ Cardinality(IF kind = "Deployment" THEN Current ELSE Standing) < seen.replicas
  /\ pods' = [pods EXCEPT ![s] = [template |-> seen.template, ready |-> FALSE]]
  /\ UNCHANGED <<kind, workload, seen, status>> /\ Jobs
RemovePod(s) ==
  /\ s \in Standing /\ (s \notin Current \/ Cardinality(Standing) > seen.replicas)
  /\ pods' = [pods EXCEPT ![s] = None]
  /\ UNCHANGED <<kind, workload, seen, status>> /\ Jobs
PodTurns(s) ==
  /\ s \in Standing /\ pods' = [pods EXCEPT ![s].ready = ~@]
  /\ UNCHANGED <<kind, workload, seen, status>> /\ Jobs
WriteStatus ==
  /\ status' = [observed |-> seen.generation, updated |-> Cardinality(Current),
                replicas |-> Cardinality(Standing),
                available |-> Cardinality({s \in Standing : pods[s].ready})]
  /\ status' # status /\ UNCHANGED <<kind, workload, seen, pods>> /\ Jobs

(* Administrators scale a Deployment or undo a rollout; the nodes stay.      *)
Scale ==
  /\ kind = "Deployment"
  /\ \E n \in Count \ {workload.replicas} : Change([workload EXCEPT !.replicas = n])
  /\ Others /\ Jobs
Undo ==
  /\ \E s \in Standing :
       /\ pods[s].template # workload.template
       /\ Change([workload EXCEPT !.template = pods[s].template])
  /\ Others /\ Jobs

Init ==
  /\ kind \in {"Deployment", "DaemonSet"}
  /\ \E n \in 1..Cardinality(Slots), t \in Templates :
       workload = [generation |-> 1, replicas |-> n, template |-> t]
  /\ seen = workload /\ pods = [s \in Slots |-> None]
  /\ status = [observed |-> 0, updated |-> 0, replicas |-> 0, available |-> 0]
  /\ want = [p \in Purposes |-> None] /\ step = [p \in Purposes |-> "idle"]
  /\ told = [p \in Purposes |-> "none"] /\ runs = 0

Next ==
  \/ \E p \in Purposes : Start(p) \/ Read(p) \/ Patch(p)
  \/ Observe \/ WriteStatus \/ Scale \/ Undo
  \/ \E s \in Slots : AddPod(s) \/ RemovePod(s) \/ PodTurns(s)

Spec == Init /\ [][Next]_vars

-----------------------------------------------------------------------------
(* At the moment a Job is told that its credential is rolled out, no pod    *)
(* made with another one stands, whatever the other Jobs and administrators  *)
(* did and however late the status is.                                      *)
ReadyMeansRolledStep ==
  \A p \in Purposes :
    told'[p] = "ready" /\ told[p] # "ready"
    => \A s \in Standing : pods[s].template[p] = want[p]

-----------------------------------------------------------------------------
(* Why it does: generations tell workloads apart, no status is ahead of     *)
(* what the controller has read, and a status that counts only pods of the  *)
(* template it has read stays true of every pod until it reads another.      *)
GenerationsTell ==
  /\ status.observed <= seen.generation /\ seen.generation <= workload.generation
  /\ seen.generation = workload.generation => seen = workload
CountsAreOf ==
  /\ status.observed = seen.generation /\ status.updated = seen.replicas
  /\ kind = "Deployment" => status.replicas = status.updated
CountsStand == CountsAreOf => \A s \in Standing : pods[s].template = seen.template
NodesStand ==
  kind = "DaemonSet" =>
    workload.replicas = seen.replicas /\ Cardinality(Standing) <= seen.replicas
IInv == TypeOK /\ GenerationsTell /\ CountsStand /\ NodesStand
=============================================================================
