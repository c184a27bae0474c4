----------------------------- MODULE SnapshotJob -----------------------------
(***************************************************************************)
(* One-shot Kubernetes Jobs with an immutable input snapshot               *)
(* (src/k8s_stack_tooling/api/jobs.py): require_configmap_versions,        *)
(* submit_snapshot_job, wait_for_job and read_job_summary.                 *)
(*                                                                         *)
(* A caller submits once, so the caller's name stands for the uid of the   *)
(* ConfigMap and of the Job it creates.  A request that ends in an error   *)
(* may have been refused, applied without an answer, or be applied later:  *)
(* the latter stays in "late".                                             *)
(***************************************************************************)
EXTENDS Integers, FiniteSets

CONSTANTS
  Callers,      (* processes that submit one Job each                       *)
  Names,        (* object names                                             *)
  NameOf,       (* NameOf[c]: the explicit name of c's Job and snapshot     *)
  Inputs,       (* input ConfigMaps every caller reviewed                   *)
  MaxWait,      (* polls that fit in the seconds given to wait_for_job      *)
  MaxAttempts,  (* pods the Job controller starts for one Job               *)
  Absent

Snapshot == [creator : Callers, owner : Callers \cup {Absent}]

CallerAssumption ==
  /\ NameOf \in [Callers -> Names]
  /\ Absent \notin Callers \cup Snapshot
  /\ MaxWait \in Nat /\ MaxAttempts \in Nat

VARIABLES
  snapshot,   (* snapshot[n]: the ConfigMap named n                         *)
  job,        (* job[n]: uid of the Job named n                             *)
  status,     (* status[c]: what became of the Job with uid c, even deleted *)
  pods,       (* pods, each owned by the Job it was started for             *)
  edited,     (* inputs changed since the callers reviewed them             *)
  pc,         (* next step of each caller                                   *)
  unverified, (* unverified[c]: inputs c has still to compare               *)
  result,     (* result[c]: the Submission returned to c                    *)
  removed,    (* removed[c]: whether c's snapshot was deleted while its Job   *)
              (* was not: an orphan, before the handover, or an owned one     *)
  late,       (* writes that reach the API server after c gave up on them   *)
  waitLeft,   (* waitLeft[c]: remaining budget of wait_for_job              *)
  waited,     (* waited[c]: what wait_for_job returned                      *)
  listed,     (* listed[c]: the pod whose log c is about to read            *)
  summary     (* summary[c]: uid of the Job whose log c was given           *)

submitVars == <<unverified, result>>
waitVars == <<waitLeft, waited>>
logVars == <<listed, summary>>
clusterVars == <<snapshot, job, status, pods, removed, late>>
vars == <<clusterVars, edited, pc, submitVars, waitVars, logVars>>

Pod == [job : Callers, attempt : 1..MaxAttempts]
Phases == {"snapshot", "job", "ownership"}
Submission == [status : {"none", "rejected", "submitted", "uncertain"},
               phase : Phases \cup {"none", "complete"},
               uid : Callers \cup {Absent}]

NoSubmission == [status |-> "none", phase |-> "none", uid |-> Absent]

TypeOK ==
  /\ snapshot \in [Names -> Snapshot \cup {Absent}]
  /\ job \in [Names -> Callers \cup {Absent}]
  /\ status \in [Callers -> {"none", "active", "complete", "failed"}]
  /\ pods \subseteq Pod
  /\ edited \subseteq Inputs
  /\ pc \in [Callers -> Phases \cup {"start", "verify", "submitted", "wait", "list", "log", "end"}]
  /\ unverified \in [Callers -> SUBSET Inputs]
  /\ result \in [Callers -> Submission]
  /\ removed \in [Callers -> {"no", "orphan", "owned"}]
  /\ late \subseteq Phases \X Callers
  /\ waitLeft \in [Callers -> 0..MaxWait]
  /\ waited \in [Callers -> {"none", "complete", "failed", "timeout", "uncertain"}]
  /\ listed \in [Callers -> Pod \cup {Absent}]
  /\ summary \in [Callers -> Callers \cup {Absent}]

Init ==
  /\ snapshot = [n \in Names |-> Absent]
  /\ job = [n \in Names |-> Absent]
  /\ status = [c \in Callers |-> "none"]
  /\ pods = {}
  /\ edited = {}
  /\ pc = [c \in Callers |-> "start"]
  /\ unverified = [c \in Callers |-> {}]
  /\ result = [c \in Callers |-> NoSubmission]
  /\ removed = [c \in Callers |-> "no"]
  /\ late = {}
  /\ waitLeft = [c \in Callers |-> 0]
  /\ waited = [c \in Callers |-> "none"]
  /\ listed = [c \in Callers |-> Absent]
  /\ summary = [c \in Callers |-> Absent]

Goto(c, from, to) == pc[c] = from /\ pc' = [pc EXCEPT ![c] = to]

-----------------------------------------------------------------------------
(* The API server.                                                         *)

OwnSnapshot(c) == snapshot[NameOf[c]] # Absent /\ snapshot[NameOf[c]].creator = c

(* Creating an object whose name exists is refused.                        *)
ApplySnapshot(c) ==
  /\ snapshot[NameOf[c]] = Absent
  /\ snapshot' = [snapshot EXCEPT ![NameOf[c]] = [creator |-> c, owner |-> Absent]]
  /\ UNCHANGED <<job, status, pods, removed>>

ApplyJob(c) ==
  /\ job[NameOf[c]] = Absent
  /\ job' = [job EXCEPT ![NameOf[c]] = c]
  /\ status' = [status EXCEPT ![c] = "active"]
  /\ UNCHANGED <<snapshot, pods, removed>>

(* The patch names the uid and resourceVersion of the created snapshot.    *)
ApplyOwnership(c) ==
  /\ OwnSnapshot(c)
  /\ snapshot' = [snapshot EXCEPT ![NameOf[c]].owner = c]
  /\ UNCHANGED <<job, status, pods, removed>>

Apply(phase, c) ==
  \/ phase = "snapshot" /\ ApplySnapshot(c)
  \/ phase = "job" /\ ApplyJob(c)
  \/ phase = "ownership" /\ ApplyOwnership(c)

LateWrite ==
  \E w \in late :
    /\ late' = late \ {w}
    /\ \/ Apply(w[1], w[2])
       \/ UNCHANGED <<snapshot, job, status, pods, removed>>
    /\ UNCHANGED <<edited, pc, submitVars, waitVars, logVars>>

(* The Job controller starts pods and records the outcome.                 *)
StartPod(c) ==
  \E a \in 1..MaxAttempts :
    /\ job[NameOf[c]] = c /\ status[c] = "active"
    /\ a = 1 \/ [job |-> c, attempt |-> a - 1] \in pods
    /\ pods' = pods \cup {[job |-> c, attempt |-> a]}
    /\ UNCHANGED <<snapshot, job, status, late, removed, edited, pc, submitVars, waitVars, logVars>>

FinishJob(c) ==
  /\ job[NameOf[c]] = c /\ status[c] = "active"
  /\ \E o \in {"complete", "failed"} : status' = [status EXCEPT ![c] = o]
  /\ UNCHANGED <<snapshot, job, pods, late, removed, edited, pc, submitVars, waitVars, logVars>>

(* A Job is deleted by its TTL or an operator; its pods follow later, and  *)
(* its snapshot when the handover was made.                                *)
DeleteJob(n) ==
  /\ job[n] # Absent
  /\ job' = [job EXCEPT ![n] = Absent]
  /\ UNCHANGED <<snapshot, status, pods, late, removed, edited, pc, submitVars, waitVars, logVars>>

Deleted(c) == status[c] # "none" /\ job[NameOf[c]] # c

DeletePod ==
  \E pod \in pods :
    /\ Deleted(pod.job)
    /\ pods' = pods \ {pod}
    /\ UNCHANGED <<snapshot, job, status, late, removed, edited, pc, submitVars, waitVars, logVars>>

(* A snapshot is an object of its own: anyone may delete it at any moment, *)
(* before a Job owns it, before one was even created, or under a Job.      *)
DeleteSnapshot(n) ==
  LET c == snapshot[n].creator IN
    /\ snapshot[n] # Absent
    /\ snapshot' = [snapshot EXCEPT ![n] = Absent]
    /\ removed' = [removed EXCEPT ![c] =
         IF Deleted(c) THEN @ ELSE IF snapshot[n].owner = Absent THEN "orphan" ELSE "owned"]
    /\ UNCHANGED <<job, status, pods, late, edited, pc, submitVars, waitVars, logVars>>

(* An input changes while a caller may still compare it.                    *)
EditInput(i) ==
  /\ \E c \in Callers : pc[c] = "start" \/ i \in unverified[c]
  /\ edited' = edited \cup {i}
  /\ UNCHANGED <<clusterVars, pc, submitVars, waitVars, logVars>>

-----------------------------------------------------------------------------
(* The caller.                                                             *)

Submit(c) ==
  /\ Goto(c, "start", "verify")
  /\ unverified' = [unverified EXCEPT ![c] = Inputs]
  /\ UNCHANGED <<clusterVars, edited, result, waitVars, logVars>>

VerifyInput(c) ==
  \E i \in unverified[c] :
    /\ pc[c] = "verify"
    /\ i \notin edited
    /\ unverified' = [unverified EXCEPT ![c] = @ \ {i}]
    /\ UNCHANGED <<clusterVars, edited, pc, result, waitVars, logVars>>

(* An input changed, or could not be read: JobError.                       *)
RejectInput(c) ==
  /\ unverified[c] # {}
  /\ Goto(c, "verify", "end")
  /\ result' = [result EXCEPT ![c] = [NoSubmission EXCEPT !.status = "rejected"]]
  /\ unverified' = [unverified EXCEPT ![c] = {}]
  /\ UNCHANGED <<clusterVars, edited, waitVars, logVars>>

(* The preflight is not atomic with the writes that follow it.             *)
EndPreflight(c) ==
  /\ unverified[c] = {}
  /\ Goto(c, "verify", "snapshot")
  /\ UNCHANGED <<clusterVars, edited, submitVars, waitVars, logVars>>

NextPhase(phase) ==
  CASE phase = "snapshot" -> "job" [] phase = "job" -> "ownership" [] OTHER -> "submitted"

(* The uid of the Job is known once its creation was answered.             *)
KnownUid(c, phase) == IF phase = "ownership" THEN c ELSE Absent

(* A write that is answered leads to the next one.                         *)
WriteAnswered(c) ==
  \E phase \in Phases :
    /\ Goto(c, phase, NextPhase(phase))
    /\ Apply(phase, c)
    /\ result' = [result EXCEPT ![c] =
         IF phase = "ownership"
         THEN [status |-> "submitted", phase |-> "complete", uid |-> c]
         ELSE @]
    /\ UNCHANGED <<late, edited, unverified, waitVars, logVars>>

(* As if a name that exists counted as created.                            *)
WriteUncertainContinues(c) ==
  \E phase \in Phases :
    /\ Goto(c, phase, NextPhase(phase))
    /\ UNCHANGED <<clusterVars, edited, submitVars, waitVars, logVars>>

(* As if the ownership patch were best effort.                             *)
WriteUncertainIsSubmitted(c) ==
  \E phase \in Phases :
    /\ Goto(c, phase, "submitted")
    /\ result' = [result EXCEPT ![c] =
         IF phase = "ownership"
         THEN [status |-> "submitted", phase |-> "complete", uid |-> c]
         ELSE [status |-> "uncertain", phase |-> phase, uid |-> KnownUid(c, phase)]]
    /\ late' = late \cup {<<phase, c>>}
    /\ UNCHANGED <<snapshot, job, status, pods, removed, edited, unverified, waitVars, logVars>>

(* Any error, and an answer without uid, ends the submission as uncertain. *)
WriteUncertain(c) ==
  \E phase \in Phases :
    /\ Goto(c, phase, "submitted")
    /\ result' = [result EXCEPT ![c] =
         [status |-> "uncertain", phase |-> phase, uid |-> KnownUid(c, phase)]]
    /\ \/ Apply(phase, c) /\ late' = late
       \/ UNCHANGED <<snapshot, job, status, pods, removed>> /\ late' = late \cup {<<phase, c>>}
    /\ UNCHANGED <<edited, unverified, waitVars, logVars>>

StartWait(c) ==
  /\ result[c].uid # Absent
  /\ Goto(c, "submitted", "wait")
  /\ waitLeft' = [waitLeft EXCEPT ![c] = MaxWait]
  /\ UNCHANGED <<clusterVars, edited, submitVars, waited, logVars>>

WaitReturns(c, outcome) ==
  /\ Goto(c, "wait", "list")
  /\ waited' = [waited EXCEPT ![c] = outcome]
  /\ waitLeft' = [waitLeft EXCEPT ![c] = 0]
  /\ UNCHANGED <<clusterVars, edited, submitVars, logVars>>

(* The Job is looked up by name; another uid under that name, and a        *)
(* missing Job, end the wait without a verdict, and so may any request.    *)
PollOther(c) == waitLeft[c] > 0 /\ job[NameOf[c]] # result[c].uid /\ WaitReturns(c, "uncertain")

PollFails(c) == waitLeft[c] > 0 /\ WaitReturns(c, "uncertain")

PollFinished(c) ==
  /\ waitLeft[c] > 0
  /\ job[NameOf[c]] = result[c].uid
  /\ status[job[NameOf[c]]] \in {"complete", "failed"}
  /\ WaitReturns(c, status[job[NameOf[c]]])

(* As if the deadline were not checked before a poll.                      *)
PollActiveUnbounded(c) ==
  /\ pc[c] = "wait"
  /\ job[NameOf[c]] = result[c].uid
  /\ status[job[NameOf[c]]] = "active"
  /\ waitLeft' = [waitLeft EXCEPT ![c] = @ - 1]
  /\ UNCHANGED <<clusterVars, edited, pc, submitVars, waited, logVars>>

PollActive(c) ==
  /\ pc[c] = "wait" /\ waitLeft[c] > 0
  /\ job[NameOf[c]] = result[c].uid
  /\ status[job[NameOf[c]]] = "active"
  /\ waitLeft' = [waitLeft EXCEPT ![c] = @ - 1]
  /\ UNCHANGED <<clusterVars, edited, pc, submitVars, waited, logVars>>

WaitTimeout(c) == waitLeft[c] = 0 /\ WaitReturns(c, "timeout")

(* The pods are selected by the Job's name; the owner reference decides.   *)
NamedPods(c) == {pod \in pods : NameOf[pod.job] = NameOf[c]}

(* As if the Job's name were taken for its identity.                       *)
ListPodsByName(c) ==
  /\ \E pod \in NamedPods(c) :
       /\ NamedPods(c) = {pod}
       /\ listed' = [listed EXCEPT ![c] = pod]
  /\ Goto(c, "list", "log")
  /\ UNCHANGED <<clusterVars, edited, submitVars, waitVars, summary>>

ListPods(c) ==
  /\ \E pod \in NamedPods(c) :
       /\ NamedPods(c) = {pod}
       /\ pod.job = result[c].uid
       /\ listed' = [listed EXCEPT ![c] = pod]
  /\ Goto(c, "list", "log")
  /\ UNCHANGED <<clusterVars, edited, submitVars, waitVars, summary>>

ReadLog(c) ==
  /\ listed[c] \in pods
  /\ Goto(c, "log", "end")
  /\ summary' = [summary EXCEPT ![c] = listed[c].job]
  /\ listed' = [listed EXCEPT ![c] = Absent]
  /\ UNCHANGED <<clusterVars, edited, submitVars, waitVars>>

(* No single owned pod, a failed request, an oversized or unreadable log.  *)
LogUnavailable(c) ==
  /\ pc[c] \in {"list", "log"}
  /\ pc' = [pc EXCEPT ![c] = "end"]
  /\ listed' = [listed EXCEPT ![c] = Absent]
  /\ UNCHANGED <<clusterVars, edited, submitVars, waitVars, summary>>

-----------------------------------------------------------------------------
Submitting(c) ==
  \/ VerifyInput(c)
  \/ RejectInput(c)
  \/ EndPreflight(c)
  \/ WriteAnswered(c)
  \/ WriteUncertain(c)

Waiting(c) ==
  \/ PollOther(c)
  \/ PollFinished(c)
  \/ PollActive(c)
  \/ WaitTimeout(c)

Reading(c) ==
  \/ ListPods(c)
  \/ ReadLog(c)
  \/ LogUnavailable(c)

Cluster ==
  \/ LateWrite
  \/ DeletePod
  \/ \E c \in Callers : StartPod(c) \/ FinishJob(c)
  \/ \E n \in Names : DeleteJob(n) \/ DeleteSnapshot(n)
  \/ \E i \in Inputs : EditInput(i)

Next ==
  \/ Cluster
  \/ \E c \in Callers :
       Submit(c) \/ StartWait(c) \/ PollFails(c) \/ Submitting(c) \/ Waiting(c) \/ Reading(c)

Spec == Init /\ [][Next]_vars

-----------------------------------------------------------------------------
(* A running Job reads, under its own name, the snapshot of its own        *)
(* submission, however late its creation is applied and whoever else uses  *)
(* the name, unless that snapshot was deleted by hand: nothing binds a Job *)
(* to it then, and the name may stand for that of another submission.  The *)
(* ownership patch never adopts a snapshot of another submission, not even *)
(* when the name was deleted and reused in between.                        *)
JobReadsOwnSnapshot ==
  /\ \A c \in Callers : job[NameOf[c]] = c => OwnSnapshot(c) \/ removed[c] # "no"
  /\ \A n \in Names : snapshot[n] # Absent => snapshot[n].owner \in {Absent, snapshot[n].creator}

(* What submit_snapshot_job returns bounds what exists: "submitted" means  *)
(* a complete submission, whose snapshot was there to be handed over and   *)
(* stands until it, or its Job, is deleted; uncertain at "snapshot" that   *)
(* no Job will ever run, at "ownership" that one was created.              *)
(* wait_for_job reports an outcome, and read_job_summary a log, only of    *)
(* the Job it was asked about, whoever reuses its name.                    *)
AnswersAreTrue ==
  \A c \in Callers :
    /\ result[c].status = "submitted" =>
         /\ removed[c] # "orphan"
         /\ Deleted(c) \/ removed[c] = "owned" \/ (OwnSnapshot(c) /\ snapshot[NameOf[c]].owner = c)
    /\ result[c].status = "uncertain" /\ result[c].phase = "snapshot" => status[c] = "none"
    /\ result[c].status = "uncertain" /\ result[c].phase = "ownership" => status[c] # "none"
    /\ waited[c] \in {"complete", "failed"} => status[c] = waited[c]
    /\ summary[c] \in {Absent, c}
-----------------------------------------------------------------------------
(* Why the two hold, part by part: the inductive invariant of the proof.   *)
(* A caller's steps and its Job: none before its creation was asked for,   *)
(* and it is asked for under the caller's own snapshot, which is created   *)
(* once: what was deleted does not come back.                              *)
StepsBelong ==
  \A c \in Callers :
    /\ pc[c] \in {"start", "verify", "snapshot"} => removed[c] = "no" /\ ~OwnSnapshot(c)
    /\ removed[c] # "no" => ~OwnSnapshot(c)
    /\ pc[c] \in {"start", "verify", "snapshot", "job"} => status[c] = "none"
    /\ pc[c] = "job" => OwnSnapshot(c) \/ removed[c] # "no"
    /\ pc[c] = "ownership" => status[c] # "none"

(* What a caller was told concerns its own Job, and so does the pod it     *)
(* chose to read.                                                          *)
ResultsBelong ==
  \A c \in Callers :
    /\ result[c].status \in {"submitted", "uncertain"} =>
         pc[c] \in {"submitted", "wait", "list", "log", "end"}
    /\ result[c].status = "submitted" => status[c] # "none"
    /\ result[c].uid \in {Absent, c}
    /\ pc[c] = "wait" => result[c].uid = c
    /\ pc[c] = "log" => listed[c] \in Pod /\ listed[c].job = c

(* A late write is the one its caller is uncertain about; a late creation  *)
(* of a Job finds the snapshot it was meant for, unless it was deleted.    *)
LateWritesBelong ==
  \A phase \in Phases, c \in Callers :
    <<phase, c>> \in late =>
      /\ result[c].status = "uncertain" /\ result[c].phase = phase
      /\ phase = "snapshot" => removed[c] = "no" /\ ~OwnSnapshot(c)
      /\ phase = "job" => status[c] = "none" /\ (OwnSnapshot(c) \/ removed[c] # "no")

(* Job and snapshot stand under their own name, and the Job's status was   *)
(* recorded.                                                               *)
JobsBelong ==
  \A n \in Names :
    /\ job[n] # Absent => NameOf[job[n]] = n /\ status[job[n]] # "none"
    /\ snapshot[n] # Absent => NameOf[snapshot[n].creator] = n

IInv ==
  /\ TypeOK /\ StepsBelong /\ ResultsBelong /\ LateWritesBelong /\ JobsBelong
  /\ JobReadsOwnSnapshot /\ AnswersAreTrue
=============================================================================
