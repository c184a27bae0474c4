--------------------------- MODULE ClusterProofs ---------------------------
(* Proofs about seven of the components of MCCluster: what their Jobs and    *)
(* commands leave in the cluster, for any number of them and of objects.     *)
(* Each has an inductive invariant of its own, the IInv of its module; a     *)
(* behaviour is one of a single component, so they are kept side by side.    *)
(* A lemma named after an action states that the action keeps the invariant  *)
(* of its component.  The components' variables have the names that MCCluster *)
(* gives them.                                                               *)
EXTENDS MCCluster, FiniteSetTheorems, TLAPS

-----------------------------------------------------------------------------
(* The snapshot Jobs: s1 snapshots, s2 Jobs, s3 their outcomes, s4 pods, s5 *)
(* edited inputs; of a caller s6 the step, s7 the inputs to compare, s8 the *)
(* submission, s10 and s11 the wait, s12 the chosen pod, s13 the summary;   *)
(* s9 requests on their way; s14 whose snapshot was deleted by hand.        *)

(* The invariant holds before anybody submits.                              *)
LEMMA JobInit == Job!Init => Job!IInv
<1> SUFFICES ASSUME Job!Init PROVE Job!IInv
  OBVIOUS
<1>1. /\ \A c \in Callers : NameOf[c] \in SnapshotNames /\ c # None
      /\ MaxWait \in Nat
  BY JobAssumption DEF Job!CallerAssumption
<1>2. Job!TypeOK
  BY <1>1 DEF Job!Init, Job!TypeOK, Job!NoSubmission, Job!Submission
<1>3. Job!StepsBelong /\ Job!LateWritesBelong /\ Job!JobsBelong /\ Job!JobReadsOwnSnapshot
  BY <1>1
    DEF Job!Init, Job!StepsBelong, Job!LateWritesBelong, Job!JobsBelong, Job!JobReadsOwnSnapshot,
     Job!OwnSnapshot
<1>4. Job!ResultsBelong /\ Job!AnswersAreTrue
  BY DEF Job!Init, Job!ResultsBelong, Job!AnswersAreTrue, Job!NoSubmission
<1> QED BY <1>2, <1>3, <1>4 DEF Job!IInv

(* A snapshot that its caller has just created, with no owner yet.          *)
LEMMA SnapshotMade ==
  ASSUME Job!TypeOK, NEW c \in Callers, Job!ApplySnapshot(c)
  PROVE
      /\ s1' \in [SnapshotNames -> Job!Snapshot \cup {None}] /\ UNCHANGED <<s2, s3, s4, s14>>
      /\ \A n \in SnapshotNames : s1'[n] = IF n = NameOf[c] THEN [creator |-> c, owner |-> None]
         ELSE s1[n]
      /\ [creator |-> c, owner |-> None] \in Job!Snapshot
         /\ [creator |-> c, owner |-> None] # None /\ NameOf[c] \in SnapshotNames
      /\ s1[NameOf[c]] = None
      /\ \A d \in Callers : Job!OwnSnapshot(d)' <=> Job!OwnSnapshot(d) \/ d = c
<1>1. [creator |-> c, owner |-> None] \in Job!Snapshot
      /\ [creator |-> c, owner |-> None] # None /\ NameOf[c] \in SnapshotNames
  BY JobAssumption DEF Job!CallerAssumption, Job!Snapshot
<1>2. s1 \in [SnapshotNames -> Job!Snapshot \cup {None}]
  BY DEF Job!TypeOK
<1>3. NameOf[c] \in SnapshotNames /\ s1' = [s1 EXCEPT ![NameOf[c]] = [creator |-> c, owner |-> None]]
  BY <1>1 DEF Job!ApplySnapshot
<1>4. /\ s1' \in [SnapshotNames -> Job!Snapshot \cup {None}] /\ s1[NameOf[c]] = None
      /\ \A n \in SnapshotNames : s1'[n] = IF n = NameOf[c] THEN [creator |-> c, owner |-> None]
         ELSE s1[n]
  BY <1>1, <1>2, <1>3 DEF Job!ApplySnapshot
<1>5. \A d \in Callers : NameOf[d] \in SnapshotNames
  BY JobAssumption DEF Job!CallerAssumption
<1>6. \A d \in Callers : Job!OwnSnapshot(d)' <=> Job!OwnSnapshot(d) \/ d = c
  BY <1>1, <1>4, <1>5 DEF Job!OwnSnapshot
<1> QED
  BY <1>1, <1>4, <1>6 DEF Job!ApplySnapshot

(* A snapshot that its caller's Job owns.                                   *)
LEMMA SnapshotOwned ==
  ASSUME Job!TypeOK, NEW c \in Callers, Job!ApplyOwnership(c)
  PROVE
      /\ s1' \in [SnapshotNames -> Job!Snapshot \cup {None}] /\ UNCHANGED <<s2, s3, s4, s14>>
      /\ \A n \in SnapshotNames : s1'[n] = IF n = NameOf[c] THEN [creator |-> c, owner |-> c] ELSE s1[n]
      /\ [creator |-> c, owner |-> c] \in Job!Snapshot /\ [creator |-> c, owner |-> c] # None
         /\ NameOf[c] \in SnapshotNames
      /\ Job!OwnSnapshot(c)
<1>1. [creator |-> c, owner |-> c] \in Job!Snapshot /\ [creator |-> c, owner |-> c] # None
      /\ NameOf[c] \in SnapshotNames
  BY JobAssumption DEF Job!CallerAssumption, Job!Snapshot
<1>2. s1 \in [SnapshotNames -> Job!Snapshot \cup {None}]
  BY DEF Job!TypeOK
<1>3. PICK r \in Callers \cup {None} : s1[NameOf[c]] = [creator |-> c, owner |-> r]
  BY <1>1, <1>2 DEF Job!ApplyOwnership, Job!OwnSnapshot, Job!Snapshot
<1>4. [s1[NameOf[c]] EXCEPT !.owner = c] = [creator |-> c, owner |-> c]
  BY <1>3
<1>5. s1' = [s1 EXCEPT ![NameOf[c]] = [creator |-> c, owner |-> c]]
  BY <1>4 DEF Job!ApplyOwnership
<1> QED
  BY <1>1, <1>2, <1>5 DEF Job!ApplyOwnership

(* A new pod names its Job, and nothing else is touched.                    *)
LEMMA JobStartPodKeeps == ASSUME Job!IInv, NEW c \in Callers, Job!StartPod(c) PROVE Job!IInv'
<1>1. Job!TypeOK'
  BY DEF Job!IInv, Job!TypeOK, Job!submitVars, Job!waitVars, Job!logVars, Job!Pod, Job!StartPod
<1>2. Job!StepsBelong' /\ Job!ResultsBelong' /\ Job!LateWritesBelong' /\ Job!JobsBelong'
      /\ Job!JobReadsOwnSnapshot' /\ Job!AnswersAreTrue'
  BY DEF Job!IInv, Job!StepsBelong, Job!ResultsBelong, Job!LateWritesBelong, Job!JobsBelong,
     Job!JobReadsOwnSnapshot, Job!AnswersAreTrue, Job!submitVars, Job!waitVars, Job!logVars,
     Job!OwnSnapshot, Job!StartPod, Job!Deleted
<1> QED BY <1>1, <1>2 DEF Job!IInv

(* A Job ends once; what is known of its caller's writes stands.            *)
LEMMA JobFinishJobKeeps == ASSUME Job!IInv, NEW c \in Callers, Job!FinishJob(c) PROVE Job!IInv'
<1>1. Job!TypeOK'
  BY DEF Job!IInv, Job!TypeOK, Job!submitVars, Job!waitVars, Job!logVars, Job!FinishJob
<1>2. Job!StepsBelong'
  BY DEF Job!IInv, Job!StepsBelong, Job!OwnSnapshot, Job!FinishJob
<1>3. Job!ResultsBelong'
  BY DEF Job!IInv, Job!ResultsBelong, Job!submitVars, Job!logVars, Job!FinishJob
<1>4. Job!LateWritesBelong'
  BY DEF Job!IInv, Job!LateWritesBelong, Job!submitVars, Job!OwnSnapshot, Job!FinishJob
<1>5. Job!JobsBelong'
  BY DEF Job!IInv, Job!JobsBelong, Job!FinishJob
<1>6. Job!AnswersAreTrue'
  BY DEF Job!IInv, Job!AnswersAreTrue, Job!submitVars, Job!waitVars, Job!logVars,
     Job!OwnSnapshot, Job!FinishJob, Job!Deleted
<1>7. Job!JobReadsOwnSnapshot'
  BY DEF Job!IInv, Job!JobReadsOwnSnapshot, Job!OwnSnapshot, Job!FinishJob
<1> QED BY <1>1, <1>2, <1>3, <1>4, <1>5, <1>6, <1>7 DEF Job!IInv

(* A deletion undoes a submission, and nobody is told otherwise.            *)
LEMMA JobDeleteJobKeeps == ASSUME Job!IInv, NEW n \in SnapshotNames, Job!DeleteJob(n) PROVE Job!IInv'
<1>1. Job!TypeOK'
  BY DEF Job!IInv, Job!TypeOK, Job!submitVars, Job!waitVars, Job!logVars, Job!DeleteJob
<1>2. Job!JobsBelong'
  BY DEF Job!IInv, Job!JobsBelong, Job!DeleteJob
<1>3. Job!JobReadsOwnSnapshot'
  BY JobAssumption
    DEF Job!IInv, Job!JobReadsOwnSnapshot, Job!CallerAssumption, Job!OwnSnapshot, Job!DeleteJob
<1>4. Job!AnswersAreTrue'
  BY JobAssumption
    DEF Job!IInv, Job!AnswersAreTrue, Job!CallerAssumption, Job!submitVars, Job!waitVars,
     Job!logVars, Job!OwnSnapshot, Job!DeleteJob, Job!Deleted
<1>5. Job!StepsBelong' /\ Job!ResultsBelong' /\ Job!LateWritesBelong'
  BY DEF Job!IInv, Job!StepsBelong, Job!ResultsBelong, Job!LateWritesBelong, Job!submitVars,
     Job!logVars, Job!OwnSnapshot, Job!DeleteJob
<1> QED BY <1>1, <1>2, <1>3, <1>4, <1>5 DEF Job!IInv

(* A pod goes; who has chosen it still holds one of its own Job.            *)
LEMMA JobDeletePodKeeps == ASSUME Job!IInv, Job!DeletePod PROVE Job!IInv'
<1>1. Job!TypeOK'
  BY DEF Job!IInv, Job!TypeOK, Job!submitVars, Job!waitVars, Job!logVars, Job!DeletePod
<1>2. Job!StepsBelong' /\ Job!ResultsBelong' /\ Job!LateWritesBelong' /\ Job!JobsBelong'
      /\ Job!JobReadsOwnSnapshot' /\ Job!AnswersAreTrue'
  BY DEF Job!IInv, Job!StepsBelong, Job!ResultsBelong, Job!LateWritesBelong, Job!JobsBelong,
     Job!JobReadsOwnSnapshot, Job!AnswersAreTrue, Job!submitVars, Job!waitVars, Job!logVars,
     Job!OwnSnapshot, Job!Deleted, Job!DeletePod
<1> QED BY <1>1, <1>2 DEF Job!IInv

(* A snapshot that is deleted is counted as such while its Job is not.      *)
LEMMA JobDeleteSnapshotKeeps ==
  ASSUME Job!IInv, NEW n \in SnapshotNames, Job!DeleteSnapshot(n)
  PROVE  Job!IInv'
<1> DEFINE r == s1[n].creator
<1>1. r \in Callers /\ NameOf[r] = n /\ Job!OwnSnapshot(r) /\ s14[r] = "no"
  <2>1. s1[n] \in Job!Snapshot /\ s1[n] # None
    BY DEF Job!IInv, Job!TypeOK, Job!DeleteSnapshot
  <2>2. r \in Callers /\ NameOf[r] = n
    BY <2>1 DEF Job!IInv, Job!JobsBelong, Job!Snapshot
  <2> QED
    BY <2>1, <2>2 DEF Job!IInv, Job!StepsBelong, Job!OwnSnapshot
<1>2. /\ s1' \in [SnapshotNames -> Job!Snapshot \cup {None}] /\ s1'[n] = None
      /\ \A m \in SnapshotNames : m # n => s1'[m] = s1[m]
      /\ s14' \in [Callers -> {"no", "orphan", "owned"}]
      /\ s14'[r] = IF Job!Deleted(r) THEN s14[r] ELSE IF s1[n].owner = None THEN "orphan" ELSE "owned"
      /\ \A c \in Callers : c # r => s14'[c] = s14[c]
      /\ UNCHANGED <<s2, s3, s4, s5, s6, s7, s8, s9, s10, s11, s12, s13>>
  BY <1>1 DEF Job!IInv, Job!TypeOK, Job!DeleteSnapshot, Job!submitVars, Job!waitVars, Job!logVars
<1>3. \A c \in Callers : NameOf[c] \in SnapshotNames
  BY JobAssumption DEF Job!CallerAssumption
<1>4. \A c \in Callers : Job!OwnSnapshot(c)' <=> Job!OwnSnapshot(c) /\ c # r
  <2> TAKE c \in Callers
  <2>1. CASE NameOf[c] = n
    BY <1>1, <1>2, <1>3, <2>1 DEF Job!OwnSnapshot
  <2>2. CASE NameOf[c] # n
    BY <1>1, <1>2, <1>3, <2>2 DEF Job!OwnSnapshot
  <2> QED BY <2>1, <2>2
<1>5. \A c \in Callers : Job!OwnSnapshot(c)' => s1'[NameOf[c]] = s1[NameOf[c]]
  BY <1>1, <1>2, <1>3, <1>4 DEF Job!OwnSnapshot
<1>6. \A c \in Callers : Job!Deleted(c)' <=> Job!Deleted(c)
  BY <1>2 DEF Job!Deleted
<1>7. Job!TypeOK'
  BY <1>2 DEF Job!IInv, Job!TypeOK
<1>8. Job!StepsBelong'
  <2> SUFFICES ASSUME NEW c \in Callers
               PROVE /\ s6[c] \in {"start", "verify", "snapshot"} => s14'[c] = "no" /\ ~Job!OwnSnapshot(c)'
                     /\ s14'[c] # "no" => ~Job!OwnSnapshot(c)'
                     /\ s6[c] \in {"start", "verify", "snapshot", "job"} => s3[c] = "none"
                     /\ s6[c] = "job" => Job!OwnSnapshot(c)' \/ s14'[c] # "no"
                     /\ s6[c] = "ownership" => s3[c] # "none"
    BY <1>2 DEF Job!StepsBelong
  <2>1. CASE c = r
    BY <1>1, <1>2, <1>4, <2>1 DEF Job!IInv, Job!StepsBelong, Job!Deleted
  <2>2. CASE c # r
    BY <1>2, <1>4, <2>2 DEF Job!IInv, Job!StepsBelong
  <2> QED BY <2>1, <2>2
<1>9. Job!LateWritesBelong'
  <2> SUFFICES ASSUME NEW phase \in Job!Phases, NEW c \in Callers, <<phase, c>> \in s9
               PROVE /\ s8[c].status = "uncertain" /\ s8[c].phase = phase
                     /\ phase = "snapshot" => s14'[c] = "no" /\ ~Job!OwnSnapshot(c)'
                     /\ phase = "job" => s3[c] = "none" /\ (Job!OwnSnapshot(c)' \/ s14'[c] # "no")
    BY <1>2 DEF Job!LateWritesBelong
  <2>1. CASE c = r
    BY <1>1, <1>2, <1>4, <2>1 DEF Job!IInv, Job!LateWritesBelong, Job!Deleted
  <2>2. CASE c # r
    BY <1>2, <1>4, <2>2 DEF Job!IInv, Job!LateWritesBelong
  <2> QED BY <2>1, <2>2
<1>10. Job!JobsBelong' /\ Job!ResultsBelong'
  BY <1>2 DEF Job!IInv, Job!JobsBelong, Job!ResultsBelong
<1>11. Job!JobReadsOwnSnapshot'
  <2>1. \A c \in Callers : s2[NameOf[c]] = c => Job!OwnSnapshot(c)' \/ s14'[c] # "no"
    <3> SUFFICES ASSUME NEW c \in Callers, s2[NameOf[c]] = c
                 PROVE Job!OwnSnapshot(c)' \/ s14'[c] # "no"
      OBVIOUS
    <3>1. CASE c = r
      BY <1>1, <1>2, <3>1 DEF Job!Deleted
    <3>2. CASE c # r
      BY <1>2, <1>4, <3>2 DEF Job!IInv, Job!JobReadsOwnSnapshot
    <3> QED BY <3>1, <3>2
  <2>2. \A m \in SnapshotNames : s1'[m] # None => s1'[m].owner \in {None, s1'[m].creator}
    BY <1>2 DEF Job!IInv, Job!JobReadsOwnSnapshot
  <2> QED BY <1>2, <2>1, <2>2 DEF Job!JobReadsOwnSnapshot
<1>12. Job!AnswersAreTrue'
  <2>1. \A c \in Callers : s8[c].status = "submitted" =>
          /\ s14'[c] # "orphan"
          /\ Job!Deleted(c)' \/ s14'[c] = "owned" \/ (Job!OwnSnapshot(c)' /\ s1'[NameOf[c]].owner = c)
    <3> SUFFICES ASSUME NEW c \in Callers, s8[c].status = "submitted"
                 PROVE /\ s14'[c] # "orphan"
                       /\ Job!Deleted(c)' \/ s14'[c] = "owned"
                          \/ (Job!OwnSnapshot(c)' /\ s1'[NameOf[c]].owner = c)
      OBVIOUS
    <3>1. CASE c = r
      <4>1. c # None
        BY JobAssumption DEF Job!CallerAssumption
      <4> QED
        BY <1>1, <1>2, <1>6, <3>1, <4>1 DEF Job!IInv, Job!AnswersAreTrue
    <3>2. CASE c # r
      BY <1>2, <1>4, <1>5, <1>6, <3>2 DEF Job!IInv, Job!AnswersAreTrue
    <3> QED BY <3>1, <3>2
  <2> QED BY <1>2, <2>1 DEF Job!IInv, Job!AnswersAreTrue
<1> QED BY <1>7, <1>8, <1>9, <1>10, <1>11, <1>12 DEF Job!IInv

(* An edit concerns the comparison of the inputs alone.                     *)
LEMMA JobEditInputKeeps == ASSUME Job!IInv, NEW i \in Inputs, Job!EditInput(i) PROVE Job!IInv'
<1>1. Job!TypeOK'
  BY DEF Job!IInv, Job!TypeOK, Job!submitVars, Job!waitVars, Job!logVars, Job!clusterVars,
     Job!EditInput
<1>2. Job!StepsBelong' /\ Job!ResultsBelong' /\ Job!LateWritesBelong' /\ Job!JobsBelong'
      /\ Job!JobReadsOwnSnapshot' /\ Job!AnswersAreTrue'
  BY DEF Job!IInv, Job!StepsBelong, Job!ResultsBelong, Job!LateWritesBelong, Job!JobsBelong,
     Job!JobReadsOwnSnapshot, Job!AnswersAreTrue, Job!submitVars, Job!waitVars, Job!logVars,
     Job!clusterVars, Job!OwnSnapshot, Job!Deleted, Job!EditInput
<1> QED BY <1>1, <1>2 DEF Job!IInv

(* The preflight begins with everything to compare.                         *)
LEMMA JobSubmitKeeps == ASSUME Job!IInv, NEW c \in Callers, Job!Submit(c) PROVE Job!IInv'
<1>1. Job!TypeOK'
  BY DEF Job!IInv, Job!TypeOK, Job!waitVars, Job!logVars, Job!clusterVars, Job!Goto, Job!Submit
<1>2. Job!StepsBelong'
  BY DEF Job!IInv, Job!StepsBelong, Job!clusterVars, Job!Goto, Job!OwnSnapshot, Job!Submit
<1>3. Job!ResultsBelong'
  BY DEF Job!IInv, Job!ResultsBelong, Job!logVars, Job!clusterVars, Job!Goto, Job!Submit
<1>4. Job!LateWritesBelong' /\ Job!JobsBelong' /\ Job!JobReadsOwnSnapshot' /\ Job!AnswersAreTrue'
  BY DEF Job!IInv, Job!LateWritesBelong, Job!JobsBelong, Job!JobReadsOwnSnapshot,
     Job!AnswersAreTrue, Job!waitVars, Job!logVars, Job!clusterVars, Job!Goto, Job!OwnSnapshot,
     Job!Deleted, Job!Submit
<1> QED BY <1>1, <1>2, <1>3, <1>4 DEF Job!IInv

(* An input that is as it was leaves one less to compare.                   *)
LEMMA JobVerifyInputKeeps ==
  ASSUME Job!IInv, NEW c \in Callers, Job!VerifyInput(c)
  PROVE  Job!IInv'
<1>1. Job!TypeOK'
  BY DEF Job!IInv, Job!TypeOK, Job!waitVars, Job!logVars, Job!clusterVars, Job!VerifyInput
<1>2. Job!StepsBelong' /\ Job!ResultsBelong' /\ Job!LateWritesBelong' /\ Job!JobsBelong'
      /\ Job!JobReadsOwnSnapshot' /\ Job!AnswersAreTrue'
  BY DEF Job!IInv, Job!StepsBelong, Job!ResultsBelong, Job!LateWritesBelong, Job!JobsBelong,
     Job!JobReadsOwnSnapshot, Job!AnswersAreTrue, Job!waitVars, Job!logVars, Job!clusterVars,
     Job!OwnSnapshot, Job!Deleted, Job!VerifyInput
<1> QED BY <1>1, <1>2 DEF Job!IInv

(* A rejection comes before the first write.                                *)
LEMMA JobRejectInputKeeps ==
  ASSUME Job!IInv, NEW c \in Callers, Job!RejectInput(c)
  PROVE  Job!IInv'
<1>1. Job!TypeOK'
  BY DEF Job!IInv, Job!TypeOK, Job!waitVars, Job!logVars, Job!clusterVars, Job!Submission,
     Job!NoSubmission, Job!Goto, Job!RejectInput
<1>2. Job!StepsBelong'
  BY DEF Job!IInv, Job!StepsBelong, Job!clusterVars, Job!Goto, Job!OwnSnapshot, Job!RejectInput
<1>3. Job!ResultsBelong'
  BY DEF Job!IInv, Job!ResultsBelong, Job!logVars, Job!clusterVars, Job!NoSubmission, Job!Goto,
     Job!RejectInput
<1>4. Job!LateWritesBelong'
  BY DEF Job!IInv, Job!ResultsBelong, Job!LateWritesBelong, Job!clusterVars, Job!Goto,
     Job!OwnSnapshot, Job!RejectInput
<1>5. Job!AnswersAreTrue'
  BY DEF Job!IInv, Job!AnswersAreTrue, Job!waitVars, Job!logVars, Job!clusterVars, Job!Goto,
     Job!OwnSnapshot, Job!Deleted, Job!RejectInput
<1>6. Job!JobsBelong' /\ Job!JobReadsOwnSnapshot'
  BY DEF Job!IInv, Job!JobsBelong, Job!JobReadsOwnSnapshot, Job!clusterVars, Job!Goto,
     Job!OwnSnapshot, Job!RejectInput
<1> QED BY <1>1, <1>2, <1>3, <1>4, <1>5, <1>6 DEF Job!IInv

(* The first write is due, and no Job stands of this caller.                *)
LEMMA JobEndPreflightKeeps ==
  ASSUME Job!IInv, NEW c \in Callers, Job!EndPreflight(c)
  PROVE  Job!IInv'
<1>1. Job!TypeOK'
  BY DEF Job!IInv, Job!TypeOK, Job!submitVars, Job!waitVars, Job!logVars, Job!clusterVars,
     Job!Phases, Job!Goto, Job!EndPreflight
<1>2. Job!StepsBelong'
  BY DEF Job!IInv, Job!StepsBelong, Job!clusterVars, Job!Goto, Job!OwnSnapshot, Job!EndPreflight
<1>3. Job!ResultsBelong'
  BY DEF Job!IInv, Job!ResultsBelong, Job!submitVars, Job!logVars, Job!clusterVars, Job!Goto,
     Job!EndPreflight
<1>4. Job!LateWritesBelong' /\ Job!JobsBelong' /\ Job!JobReadsOwnSnapshot' /\ Job!AnswersAreTrue'
  BY DEF Job!IInv, Job!LateWritesBelong, Job!JobsBelong, Job!JobReadsOwnSnapshot,
     Job!AnswersAreTrue, Job!submitVars, Job!waitVars, Job!logVars, Job!clusterVars, Job!Goto,
     Job!OwnSnapshot, Job!Deleted, Job!EndPreflight
<1> QED BY <1>1, <1>2, <1>3, <1>4 DEF Job!IInv

(* A caller that has its Job's uid waits for that one.                      *)
LEMMA JobStartWaitKeeps == ASSUME Job!IInv, NEW c \in Callers, Job!StartWait(c) PROVE Job!IInv'
<1>1. Job!TypeOK'
  BY JobAssumption
    DEF Job!IInv, Job!TypeOK, Job!CallerAssumption, Job!submitVars, Job!logVars, Job!clusterVars,
     Job!Goto, Job!StartWait
<1>2. Job!StepsBelong'
  BY DEF Job!IInv, Job!StepsBelong, Job!clusterVars, Job!Goto, Job!OwnSnapshot, Job!StartWait
<1>3. Job!ResultsBelong'
  BY DEF Job!IInv, Job!ResultsBelong, Job!submitVars, Job!logVars, Job!clusterVars, Job!Goto,
     Job!StartWait
<1>4. Job!LateWritesBelong' /\ Job!JobsBelong' /\ Job!JobReadsOwnSnapshot' /\ Job!AnswersAreTrue'
  BY DEF Job!IInv, Job!LateWritesBelong, Job!JobsBelong, Job!JobReadsOwnSnapshot,
     Job!AnswersAreTrue, Job!submitVars, Job!logVars, Job!clusterVars, Job!Goto, Job!OwnSnapshot,
     Job!Deleted, Job!StartWait
<1> QED BY <1>1, <1>2, <1>3, <1>4 DEF Job!IInv

(* Another Job under the name ends the wait without a verdict.              *)
LEMMA JobPollOtherKeeps == ASSUME Job!IInv, NEW c \in Callers, Job!PollOther(c) PROVE Job!IInv'
<1>1. Job!TypeOK'
  BY JobAssumption
    DEF Job!IInv, Job!TypeOK, Job!CallerAssumption, Job!submitVars, Job!logVars, Job!clusterVars,
     Job!Goto, Job!WaitReturns, Job!PollOther
<1>2. Job!StepsBelong'
  BY DEF Job!IInv, Job!StepsBelong, Job!clusterVars, Job!Goto, Job!OwnSnapshot, Job!WaitReturns,
     Job!PollOther
<1>3. Job!ResultsBelong'
  BY DEF Job!IInv, Job!ResultsBelong, Job!submitVars, Job!logVars, Job!clusterVars, Job!Goto,
     Job!WaitReturns, Job!PollOther
<1>4. Job!AnswersAreTrue'
  BY DEF Job!IInv, Job!AnswersAreTrue, Job!submitVars, Job!logVars, Job!clusterVars, Job!Goto,
     Job!OwnSnapshot, Job!Deleted, Job!WaitReturns, Job!PollOther
<1>5. Job!LateWritesBelong' /\ Job!JobsBelong' /\ Job!JobReadsOwnSnapshot'
  BY DEF Job!IInv, Job!LateWritesBelong, Job!JobsBelong, Job!JobReadsOwnSnapshot, Job!submitVars,
     Job!clusterVars, Job!Goto, Job!OwnSnapshot, Job!WaitReturns, Job!PollOther
<1> QED BY <1>1, <1>2, <1>3, <1>4, <1>5 DEF Job!IInv

(* A failed request does, too.                                              *)
LEMMA JobPollFailsKeeps == ASSUME Job!IInv, NEW c \in Callers, Job!PollFails(c) PROVE Job!IInv'
<1>1. Job!TypeOK'
  BY JobAssumption
    DEF Job!IInv, Job!TypeOK, Job!CallerAssumption, Job!submitVars, Job!logVars, Job!clusterVars,
     Job!Goto, Job!WaitReturns, Job!PollFails
<1>2. Job!StepsBelong'
  BY DEF Job!IInv, Job!StepsBelong, Job!clusterVars, Job!Goto, Job!OwnSnapshot, Job!WaitReturns,
     Job!PollFails
<1>3. Job!ResultsBelong'
  BY DEF Job!IInv, Job!ResultsBelong, Job!submitVars, Job!logVars, Job!clusterVars, Job!Goto,
     Job!WaitReturns, Job!PollFails
<1>4. Job!AnswersAreTrue'
  BY DEF Job!IInv, Job!AnswersAreTrue, Job!submitVars, Job!logVars, Job!clusterVars, Job!Goto,
     Job!OwnSnapshot, Job!Deleted, Job!WaitReturns, Job!PollFails
<1>5. Job!LateWritesBelong' /\ Job!JobsBelong' /\ Job!JobReadsOwnSnapshot'
  BY DEF Job!IInv, Job!LateWritesBelong, Job!JobsBelong, Job!JobReadsOwnSnapshot, Job!submitVars,
     Job!clusterVars, Job!Goto, Job!OwnSnapshot, Job!WaitReturns, Job!PollFails
<1> QED BY <1>1, <1>2, <1>3, <1>4, <1>5 DEF Job!IInv

(* The outcome is that of the Job with the caller's uid.                    *)
LEMMA JobPollFinishedKeeps ==
  ASSUME Job!IInv, NEW c \in Callers, Job!PollFinished(c)
  PROVE  Job!IInv'
<1>1. Job!TypeOK'
  BY JobAssumption
    DEF Job!IInv, Job!TypeOK, Job!CallerAssumption, Job!submitVars, Job!logVars, Job!clusterVars,
     Job!Goto, Job!WaitReturns, Job!PollFinished
<1>2. Job!StepsBelong'
  BY DEF Job!IInv, Job!StepsBelong, Job!clusterVars, Job!Goto, Job!OwnSnapshot, Job!WaitReturns,
     Job!PollFinished
<1>3. Job!ResultsBelong'
  BY DEF Job!IInv, Job!ResultsBelong, Job!submitVars, Job!logVars, Job!clusterVars, Job!Goto,
     Job!WaitReturns, Job!PollFinished
<1>4. Job!AnswersAreTrue'
  BY DEF Job!IInv, Job!ResultsBelong, Job!AnswersAreTrue, Job!submitVars, Job!logVars,
     Job!clusterVars, Job!Goto, Job!OwnSnapshot, Job!Deleted, Job!WaitReturns, Job!PollFinished
<1>5. Job!LateWritesBelong' /\ Job!JobsBelong' /\ Job!JobReadsOwnSnapshot'
  BY DEF Job!IInv, Job!LateWritesBelong, Job!JobsBelong, Job!JobReadsOwnSnapshot, Job!submitVars,
     Job!clusterVars, Job!Goto, Job!OwnSnapshot, Job!WaitReturns, Job!PollFinished
<1> QED BY <1>1, <1>2, <1>3, <1>4, <1>5 DEF Job!IInv

(* A poll that finds the Job at work costs one of the wait.                 *)
LEMMA JobPollActiveKeeps == ASSUME Job!IInv, NEW c \in Callers, Job!PollActive(c) PROVE Job!IInv'
<1>1. Job!TypeOK'
  BY JobAssumption
    DEF Job!IInv, Job!TypeOK, Job!CallerAssumption, Job!submitVars, Job!logVars, Job!clusterVars,
     Job!PollActive
<1>2. Job!StepsBelong' /\ Job!ResultsBelong' /\ Job!LateWritesBelong' /\ Job!JobsBelong'
      /\ Job!JobReadsOwnSnapshot' /\ Job!AnswersAreTrue'
  BY DEF Job!IInv, Job!StepsBelong, Job!ResultsBelong, Job!LateWritesBelong, Job!JobsBelong,
     Job!JobReadsOwnSnapshot, Job!AnswersAreTrue, Job!submitVars, Job!logVars, Job!clusterVars,
     Job!OwnSnapshot, Job!Deleted, Job!PollActive
<1> QED BY <1>1, <1>2 DEF Job!IInv

(* The time limit is no verdict.                                            *)
LEMMA JobWaitTimeoutKeeps ==
  ASSUME Job!IInv, NEW c \in Callers, Job!WaitTimeout(c)
  PROVE  Job!IInv'
<1>1. Job!TypeOK'
  BY DEF Job!IInv, Job!TypeOK, Job!submitVars, Job!logVars, Job!clusterVars, Job!Goto,
     Job!WaitReturns, Job!WaitTimeout
<1>2. Job!StepsBelong'
  BY DEF Job!IInv, Job!StepsBelong, Job!clusterVars, Job!Goto, Job!OwnSnapshot, Job!WaitReturns,
     Job!WaitTimeout
<1>3. Job!ResultsBelong'
  BY DEF Job!IInv, Job!ResultsBelong, Job!submitVars, Job!logVars, Job!clusterVars, Job!Goto,
     Job!WaitReturns, Job!WaitTimeout
<1>4. Job!AnswersAreTrue'
  BY DEF Job!IInv, Job!AnswersAreTrue, Job!submitVars, Job!logVars, Job!clusterVars, Job!Goto,
     Job!OwnSnapshot, Job!Deleted, Job!WaitReturns, Job!WaitTimeout
<1>5. Job!LateWritesBelong' /\ Job!JobsBelong' /\ Job!JobReadsOwnSnapshot'
  BY DEF Job!IInv, Job!LateWritesBelong, Job!JobsBelong, Job!JobReadsOwnSnapshot, Job!submitVars,
     Job!clusterVars, Job!Goto, Job!OwnSnapshot, Job!WaitReturns, Job!WaitTimeout
<1> QED BY <1>1, <1>2, <1>3, <1>4, <1>5 DEF Job!IInv

(* The one pod of the name is chosen only as the Job's own.                 *)
LEMMA JobListPodsKeeps == ASSUME Job!IInv, NEW c \in Callers, Job!ListPods(c) PROVE Job!IInv'
<1>1. Job!TypeOK'
  BY DEF Job!IInv, Job!TypeOK, Job!submitVars, Job!waitVars, Job!clusterVars, Job!Goto,
     Job!NamedPods, Job!ListPods
<1>2. Job!StepsBelong'
  BY DEF Job!IInv, Job!StepsBelong, Job!clusterVars, Job!Goto, Job!OwnSnapshot, Job!ListPods
<1>3. Job!ResultsBelong'
  BY JobAssumption
    DEF Job!IInv, Job!TypeOK, Job!ResultsBelong, Job!CallerAssumption, Job!submitVars,
     Job!clusterVars, Job!Pod, Job!Goto, Job!NamedPods, Job!ListPods
<1>4. Job!LateWritesBelong' /\ Job!JobsBelong' /\ Job!JobReadsOwnSnapshot' /\ Job!AnswersAreTrue'
  BY DEF Job!IInv, Job!LateWritesBelong, Job!JobsBelong, Job!JobReadsOwnSnapshot,
     Job!AnswersAreTrue, Job!submitVars, Job!waitVars, Job!clusterVars, Job!Goto,
     Job!OwnSnapshot, Job!Deleted, Job!ListPods
<1> QED BY <1>1, <1>2, <1>3, <1>4 DEF Job!IInv

(* A log is of the pod that was chosen, and that of the caller's Job.       *)
LEMMA JobReadLogKeeps == ASSUME Job!IInv, NEW c \in Callers, Job!ReadLog(c) PROVE Job!IInv'
<1>1. Job!TypeOK'
  BY DEF Job!IInv, Job!TypeOK, Job!submitVars, Job!waitVars, Job!clusterVars, Job!Pod, Job!Goto,
     Job!ReadLog
<1>2. Job!StepsBelong'
  BY DEF Job!IInv, Job!StepsBelong, Job!clusterVars, Job!Goto, Job!OwnSnapshot, Job!ReadLog
<1>3. Job!ResultsBelong'
  BY DEF Job!IInv, Job!TypeOK, Job!ResultsBelong, Job!submitVars, Job!clusterVars, Job!Goto,
     Job!ReadLog
<1>4. Job!AnswersAreTrue'
  BY DEF Job!IInv, Job!ResultsBelong, Job!AnswersAreTrue, Job!submitVars, Job!waitVars,
     Job!clusterVars, Job!Goto, Job!OwnSnapshot, Job!Deleted, Job!ReadLog
<1>5. Job!LateWritesBelong' /\ Job!JobsBelong' /\ Job!JobReadsOwnSnapshot'
  BY DEF Job!IInv, Job!LateWritesBelong, Job!JobsBelong, Job!JobReadsOwnSnapshot, Job!submitVars,
     Job!clusterVars, Job!Goto, Job!OwnSnapshot, Job!ReadLog
<1> QED BY <1>1, <1>2, <1>3, <1>4, <1>5 DEF Job!IInv

(* No log is no summary.                                                    *)
LEMMA JobLogUnavailableKeeps ==
  ASSUME Job!IInv, NEW c \in Callers, Job!LogUnavailable(c)
  PROVE  Job!IInv'
<1>1. Job!TypeOK'
  BY DEF Job!IInv, Job!TypeOK, Job!submitVars, Job!waitVars, Job!clusterVars, Job!LogUnavailable
<1>2. Job!StepsBelong'
  BY DEF Job!IInv, Job!StepsBelong, Job!clusterVars, Job!OwnSnapshot, Job!LogUnavailable
<1>3. Job!ResultsBelong'
  BY DEF Job!IInv, Job!TypeOK, Job!ResultsBelong, Job!submitVars, Job!clusterVars,
     Job!LogUnavailable
<1>4. Job!LateWritesBelong' /\ Job!JobsBelong' /\ Job!JobReadsOwnSnapshot' /\ Job!AnswersAreTrue'
  BY DEF Job!IInv, Job!LateWritesBelong, Job!JobsBelong, Job!JobReadsOwnSnapshot,
     Job!AnswersAreTrue, Job!submitVars, Job!waitVars, Job!clusterVars, Job!OwnSnapshot,
     Job!Deleted, Job!LogUnavailable
<1> QED BY <1>1, <1>2, <1>3, <1>4 DEF Job!IInv

(* The answered creation of a snapshot leads to the Job's, under it.        *)
LEMMA JobAnsweredSnapshotKeeps ==
  ASSUME Job!IInv, NEW c \in Callers, Job!Goto(c, "snapshot", "job"), Job!ApplySnapshot(c),
         s8' = s8, s9' = s9, UNCHANGED <<s5, s7, Job!waitVars, Job!logVars>>
  PROVE  Job!IInv'
<1>1. /\ s1' \in [SnapshotNames -> Job!Snapshot \cup {None}] /\ UNCHANGED <<s2, s3, s4, s14>>
      /\ \A n \in SnapshotNames : s1'[n] = IF n = NameOf[c] THEN [creator |-> c, owner |-> None]
         ELSE s1[n]
      /\ [creator |-> c, owner |-> None] \in Job!Snapshot
         /\ [creator |-> c, owner |-> None] # None /\ NameOf[c] \in SnapshotNames
      /\ s1[NameOf[c]] = None
      /\ \A d \in Callers : Job!OwnSnapshot(d)' <=> Job!OwnSnapshot(d) \/ d = c
  BY SnapshotMade DEF Job!IInv
<1>2. Job!TypeOK'
  BY <1>1 DEF Job!IInv, Job!TypeOK, Job!waitVars, Job!logVars, Job!Phases, Job!Goto
<1>9. s14[c] = "no" /\ \A phase \in Job!Phases : <<phase, c>> \notin s9
  BY DEF Job!IInv, Job!StepsBelong, Job!ResultsBelong, Job!LateWritesBelong, Job!Goto
<1>3. Job!StepsBelong'
  BY <1>1, <1>9
    DEF Job!IInv, Job!TypeOK, Job!StepsBelong, Job!Goto
<1>4. Job!ResultsBelong'
  BY <1>1 DEF Job!IInv, Job!ResultsBelong, Job!logVars, Job!Goto
<1>5. Job!LateWritesBelong'
  BY <1>1, <1>9
    DEF Job!IInv, Job!LateWritesBelong, Job!Goto
<1>6. Job!JobReadsOwnSnapshot'
  BY JobAssumption, <1>1
    DEF Job!IInv, Job!JobReadsOwnSnapshot, Job!CallerAssumption, Job!Goto, Job!OwnSnapshot
<1>7. Job!AnswersAreTrue'
  BY JobAssumption, <1>1
    DEF Job!IInv, Job!AnswersAreTrue, Job!CallerAssumption, Job!waitVars, Job!logVars, Job!Goto,
     Job!OwnSnapshot, Job!Deleted
<1>8. Job!JobsBelong'
  BY <1>1 DEF Job!IInv, Job!JobsBelong, Job!Goto
<1> QED BY <1>1, <1>2, <1>3, <1>4, <1>5, <1>6, <1>7, <1>8 DEF Job!IInv

(* A snapshot was created, its caller is uncertain, and no Job will be.     *)
LEMMA JobUnansweredSnapshotKeeps ==
  ASSUME Job!IInv, NEW c \in Callers, Job!Goto(c, "snapshot", "submitted"), Job!ApplySnapshot(c),
         s8' = [s8 EXCEPT ![c] = [status |-> "uncertain", phase |-> "snapshot",
         uid |-> Job!KnownUid(c, "snapshot")]],
         s9' = s9, UNCHANGED <<s5, s7, Job!waitVars, Job!logVars>>
  PROVE  Job!IInv'
<1>1. /\ s1' \in [SnapshotNames -> Job!Snapshot \cup {None}] /\ UNCHANGED <<s2, s3, s4, s14>>
      /\ \A n \in SnapshotNames : s1'[n] = IF n = NameOf[c] THEN [creator |-> c, owner |-> None]
         ELSE s1[n]
      /\ [creator |-> c, owner |-> None] \in Job!Snapshot
         /\ [creator |-> c, owner |-> None] # None /\ NameOf[c] \in SnapshotNames
      /\ s1[NameOf[c]] = None
      /\ \A d \in Callers : Job!OwnSnapshot(d)' <=> Job!OwnSnapshot(d) \/ d = c
  BY SnapshotMade DEF Job!IInv
<1>2. Job!TypeOK'
  BY <1>1
    DEF Job!IInv, Job!TypeOK, Job!waitVars, Job!logVars, Job!Submission, Job!Goto, Job!KnownUid
<1>9. s14[c] = "no" /\ \A phase \in Job!Phases : <<phase, c>> \notin s9
  BY DEF Job!IInv, Job!StepsBelong, Job!ResultsBelong, Job!LateWritesBelong, Job!Goto
<1>3. Job!StepsBelong'
  BY <1>1, <1>9
    DEF Job!IInv, Job!TypeOK, Job!StepsBelong, Job!Goto
<1>4. Job!ResultsBelong'
  BY <1>1 DEF Job!IInv, Job!TypeOK, Job!ResultsBelong, Job!logVars, Job!Goto, Job!KnownUid
<1>5. Job!LateWritesBelong'
  BY <1>1, <1>9
    DEF Job!IInv, Job!LateWritesBelong, Job!Goto
<1>6. Job!JobReadsOwnSnapshot'
  BY JobAssumption, <1>1
    DEF Job!IInv, Job!JobReadsOwnSnapshot, Job!CallerAssumption, Job!Goto, Job!OwnSnapshot
<1>7. Job!AnswersAreTrue'
  BY JobAssumption, <1>1
    DEF Job!IInv, Job!StepsBelong, Job!AnswersAreTrue, Job!CallerAssumption, Job!waitVars,
     Job!logVars, Job!Goto, Job!OwnSnapshot, Job!Deleted
<1>8. Job!JobsBelong'
  BY <1>1 DEF Job!IInv, Job!JobsBelong, Job!Goto
<1> QED BY <1>1, <1>2, <1>3, <1>4, <1>5, <1>6, <1>7, <1>8 DEF Job!IInv

(* A late snapshot finds its caller uncertain of it.                        *)
LEMMA JobLateSnapshotKeeps ==
  ASSUME Job!IInv, NEW c \in Callers, <<"snapshot", c>> \in s9, s9' = s9 \ {<<"snapshot", c>>},
         Job!ApplySnapshot(c), UNCHANGED <<s5, s6, Job!submitVars, Job!waitVars, Job!logVars>>
  PROVE  Job!IInv'
<1>1. /\ s1' \in [SnapshotNames -> Job!Snapshot \cup {None}] /\ UNCHANGED <<s2, s3, s4, s14>>
      /\ \A n \in SnapshotNames : s1'[n] = IF n = NameOf[c] THEN [creator |-> c, owner |-> None]
         ELSE s1[n]
      /\ [creator |-> c, owner |-> None] \in Job!Snapshot
         /\ [creator |-> c, owner |-> None] # None /\ NameOf[c] \in SnapshotNames
      /\ s1[NameOf[c]] = None
      /\ \A d \in Callers : Job!OwnSnapshot(d)' <=> Job!OwnSnapshot(d) \/ d = c
  BY SnapshotMade DEF Job!IInv
<1>2. Job!TypeOK'
  BY <1>1 DEF Job!IInv, Job!TypeOK, Job!submitVars, Job!waitVars, Job!logVars
<1>9. s14[c] = "no" /\ s6[c] \notin {"start", "verify", "snapshot"}
  BY DEF Job!IInv, Job!ResultsBelong, Job!LateWritesBelong, Job!Phases
<1>3. Job!StepsBelong'
  BY <1>1, <1>9
    DEF Job!IInv, Job!TypeOK, Job!StepsBelong
<1>4. Job!LateWritesBelong'
  BY <1>1, <1>9
    DEF Job!IInv, Job!LateWritesBelong, Job!submitVars
<1>5. Job!JobReadsOwnSnapshot'
  BY JobAssumption, <1>1
    DEF Job!IInv, Job!JobReadsOwnSnapshot, Job!CallerAssumption, Job!OwnSnapshot
<1>6. Job!AnswersAreTrue'
  BY JobAssumption, <1>1
    DEF Job!IInv, Job!AnswersAreTrue, Job!CallerAssumption, Job!submitVars, Job!waitVars,
     Job!logVars, Job!OwnSnapshot, Job!Deleted
<1>7. Job!ResultsBelong' /\ Job!JobsBelong'
  BY <1>1 DEF Job!IInv, Job!ResultsBelong, Job!JobsBelong, Job!submitVars, Job!logVars
<1> QED BY <1>1, <1>2, <1>3, <1>4, <1>5, <1>6, <1>7 DEF Job!IInv

(* The answered creation of a Job stands under the caller's snapshot.       *)
LEMMA JobAnsweredJobKeeps ==
  ASSUME Job!IInv, NEW c \in Callers, Job!Goto(c, "job", "ownership"), Job!ApplyJob(c), s8' = s8,
         s9' = s9, UNCHANGED <<s5, s7, Job!waitVars, Job!logVars>>
  PROVE  Job!IInv'
<1>1. Job!TypeOK'
  BY DEF Job!IInv, Job!TypeOK, Job!waitVars, Job!logVars, Job!Phases, Job!Goto, Job!ApplyJob
<1>2. Job!StepsBelong'
  BY DEF Job!IInv, Job!TypeOK, Job!StepsBelong, Job!Goto, Job!OwnSnapshot, Job!ApplyJob
<1>3. Job!ResultsBelong'
  BY DEF Job!IInv, Job!ResultsBelong, Job!logVars, Job!Goto, Job!ApplyJob
<1>4. Job!LateWritesBelong'
  BY DEF Job!IInv, Job!ResultsBelong, Job!LateWritesBelong, Job!Goto, Job!OwnSnapshot,
     Job!ApplyJob
<1>5. Job!JobsBelong'
  BY DEF Job!IInv, Job!TypeOK, Job!JobsBelong, Job!Goto, Job!ApplyJob
<1>6. Job!JobReadsOwnSnapshot'
  BY DEF Job!IInv, Job!StepsBelong, Job!JobReadsOwnSnapshot, Job!Goto, Job!OwnSnapshot,
     Job!ApplyJob
<1>7. Job!AnswersAreTrue'
  BY DEF Job!IInv, Job!StepsBelong, Job!ResultsBelong, Job!AnswersAreTrue, Job!waitVars,
     Job!logVars, Job!Goto, Job!OwnSnapshot, Job!ApplyJob, Job!Deleted
<1> QED BY <1>1, <1>2, <1>3, <1>4, <1>5, <1>6, <1>7 DEF Job!IInv

(* A Job was created and its caller is uncertain whether.                   *)
LEMMA JobUnansweredJobKeeps ==
  ASSUME Job!IInv, NEW c \in Callers, Job!Goto(c, "job", "submitted"), Job!ApplyJob(c),
         s8' = [s8 EXCEPT ![c] = [status |-> "uncertain", phase |-> "job",
         uid |-> Job!KnownUid(c, "job")]],
         s9' = s9, UNCHANGED <<s5, s7, Job!waitVars, Job!logVars>>
  PROVE  Job!IInv'
<1>1. Job!TypeOK'
  BY DEF Job!IInv, Job!TypeOK, Job!waitVars, Job!logVars, Job!Submission, Job!Goto, Job!ApplyJob,
     Job!KnownUid
<1>2. Job!StepsBelong'
  BY DEF Job!IInv, Job!TypeOK, Job!StepsBelong, Job!Goto, Job!OwnSnapshot, Job!ApplyJob
<1>3. Job!ResultsBelong'
  BY DEF Job!IInv, Job!TypeOK, Job!ResultsBelong, Job!logVars, Job!Goto, Job!ApplyJob,
     Job!KnownUid
<1>4. Job!LateWritesBelong'
  BY DEF Job!IInv, Job!ResultsBelong, Job!LateWritesBelong, Job!Goto, Job!OwnSnapshot,
     Job!ApplyJob
<1>5. Job!JobsBelong'
  BY DEF Job!IInv, Job!TypeOK, Job!JobsBelong, Job!Goto, Job!ApplyJob
<1>6. Job!JobReadsOwnSnapshot'
  BY DEF Job!IInv, Job!StepsBelong, Job!JobReadsOwnSnapshot, Job!Goto, Job!OwnSnapshot,
     Job!ApplyJob
<1>7. Job!AnswersAreTrue'
  BY DEF Job!IInv, Job!StepsBelong, Job!ResultsBelong, Job!AnswersAreTrue, Job!waitVars,
     Job!logVars, Job!Goto, Job!OwnSnapshot, Job!ApplyJob, Job!Deleted
<1> QED BY <1>1, <1>2, <1>3, <1>4, <1>5, <1>6, <1>7 DEF Job!IInv

(* A late Job finds the snapshot it was meant for, unless that was deleted  *)
(* by hand.                                                                 *)
LEMMA JobLateJobKeeps ==
  ASSUME Job!IInv, NEW c \in Callers, <<"job", c>> \in s9, s9' = s9 \ {<<"job", c>>},
         Job!ApplyJob(c), UNCHANGED <<s5, s6, Job!submitVars, Job!waitVars, Job!logVars>>
  PROVE  Job!IInv'
<1>1. Job!TypeOK'
  BY DEF Job!IInv, Job!TypeOK, Job!submitVars, Job!waitVars, Job!logVars, Job!ApplyJob
<1>2. Job!StepsBelong'
  BY JobAssumption
    DEF Job!IInv, Job!TypeOK, Job!StepsBelong, Job!ResultsBelong, Job!LateWritesBelong,
     Job!OwnSnapshot, Job!ApplyJob
<1>3. Job!ResultsBelong'
  BY DEF Job!IInv, Job!ResultsBelong, Job!submitVars, Job!logVars, Job!ApplyJob
<1>4. Job!LateWritesBelong'
  BY DEF Job!IInv, Job!LateWritesBelong, Job!submitVars, Job!OwnSnapshot, Job!ApplyJob
<1>5. Job!JobsBelong'
  BY DEF Job!IInv, Job!TypeOK, Job!JobsBelong, Job!ApplyJob
<1>6. Job!JobReadsOwnSnapshot'
  BY DEF Job!IInv, Job!TypeOK, Job!LateWritesBelong, Job!JobReadsOwnSnapshot, Job!OwnSnapshot,
     Job!ApplyJob
<1>7. Job!AnswersAreTrue'
  BY DEF Job!IInv, Job!TypeOK, Job!LateWritesBelong, Job!AnswersAreTrue, Job!submitVars,
     Job!waitVars, Job!logVars, Job!OwnSnapshot, Job!ApplyJob, Job!Deleted
<1> QED BY <1>1, <1>2, <1>3, <1>4, <1>5, <1>6, <1>7 DEF Job!IInv

(* The answered patch completes the submission.                             *)
LEMMA JobAnsweredOwnershipKeeps ==
  ASSUME Job!IInv, NEW c \in Callers, Job!Goto(c, "ownership", "submitted"),
         Job!ApplyOwnership(c),
         s8' = [s8 EXCEPT ![c] = [status |-> "submitted", phase |-> "complete", uid |-> c]],
         s9' = s9, UNCHANGED <<s5, s7, Job!waitVars, Job!logVars>>
  PROVE  Job!IInv'
<1>1. /\ s1' \in [SnapshotNames -> Job!Snapshot \cup {None}] /\ UNCHANGED <<s2, s3, s4, s14>>
      /\ \A n \in SnapshotNames : s1'[n] = IF n = NameOf[c] THEN [creator |-> c, owner |-> c] ELSE s1[n]
      /\ [creator |-> c, owner |-> c] \in Job!Snapshot /\ [creator |-> c, owner |-> c] # None
         /\ NameOf[c] \in SnapshotNames
      /\ Job!OwnSnapshot(c)
  BY SnapshotOwned DEF Job!IInv
<1>2. Job!TypeOK'
  BY <1>1 DEF Job!IInv, Job!TypeOK, Job!waitVars, Job!logVars, Job!Submission, Job!Goto
<1>3. Job!StepsBelong'
  BY JobAssumption, <1>1
    DEF Job!IInv, Job!StepsBelong, Job!CallerAssumption, Job!Goto, Job!OwnSnapshot
<1>4. Job!ResultsBelong'
  BY <1>1 DEF Job!IInv, Job!TypeOK, Job!StepsBelong, Job!ResultsBelong, Job!logVars, Job!Goto
<1>5. Job!LateWritesBelong'
  BY JobAssumption, <1>1
    DEF Job!IInv, Job!ResultsBelong, Job!LateWritesBelong, Job!CallerAssumption, Job!Goto,
     Job!OwnSnapshot
<1>6. Job!JobReadsOwnSnapshot'
  BY JobAssumption, <1>1
    DEF Job!IInv, Job!JobReadsOwnSnapshot, Job!CallerAssumption, Job!Goto, Job!OwnSnapshot
<1>7. Job!AnswersAreTrue'
  <2>1. s14'[c] = "no" /\ Job!OwnSnapshot(c)' /\ s1'[NameOf[c]].owner = c
    BY JobAssumption, <1>1
      DEF Job!IInv, Job!StepsBelong, Job!CallerAssumption, Job!OwnSnapshot, Job!ApplyOwnership
  <2>2. s8'[c].status = "submitted" /\ \A d \in Callers : d # c => s8'[d] = s8[d]
    BY DEF Job!IInv, Job!TypeOK
  <2>3. \A d \in Callers : d # c => (Job!OwnSnapshot(d) => Job!OwnSnapshot(d)' /\ s1'[NameOf[d]] = s1[NameOf[d]])
    BY JobAssumption, <1>1 DEF Job!CallerAssumption, Job!OwnSnapshot
  <2>4. UNCHANGED <<s2, s3, s11, s13, s14>>
    BY <1>1 DEF Job!ApplyOwnership, Job!waitVars, Job!logVars
  <2> SUFFICES ASSUME NEW d \in Callers
               PROVE /\ s8'[d].status = "submitted" =>
                          /\ s14'[d] # "orphan"
                          /\ Job!Deleted(d)' \/ s14'[d] = "owned"
                             \/ (Job!OwnSnapshot(d)' /\ s1'[NameOf[d]].owner = d)
                     /\ s8'[d].status = "uncertain" /\ s8'[d].phase = "snapshot" => s3'[d] = "none"
                     /\ s8'[d].status = "uncertain" /\ s8'[d].phase = "ownership" => s3'[d] # "none"
                     /\ s11'[d] \in {"complete", "failed"} => s3'[d] = s11'[d]
                     /\ s13'[d] \in {None, d}
    BY DEF Job!AnswersAreTrue
  <2>5. CASE d = c
    BY <2>1, <2>2, <2>4, <2>5 DEF Job!IInv, Job!AnswersAreTrue
  <2>6. CASE d # c
    BY <2>2, <2>3, <2>4, <2>6 DEF Job!IInv, Job!AnswersAreTrue, Job!Deleted
  <2> QED BY <2>5, <2>6
<1>8. Job!JobsBelong'
  BY <1>1 DEF Job!IInv, Job!JobsBelong, Job!Goto
<1> QED BY <1>1, <1>2, <1>3, <1>4, <1>5, <1>6, <1>7, <1>8 DEF Job!IInv

(* The patch was made and its caller is uncertain whether.                  *)
LEMMA JobUnansweredOwnershipKeeps ==
  ASSUME Job!IInv, NEW c \in Callers, Job!Goto(c, "ownership", "submitted"),
         Job!ApplyOwnership(c),
         s8' = [s8 EXCEPT ![c] = [status |-> "uncertain", phase |-> "ownership",
         uid |-> Job!KnownUid(c, "ownership")]],
         s9' = s9, UNCHANGED <<s5, s7, Job!waitVars, Job!logVars>>
  PROVE  Job!IInv'
<1>1. /\ s1' \in [SnapshotNames -> Job!Snapshot \cup {None}] /\ UNCHANGED <<s2, s3, s4, s14>>
      /\ \A n \in SnapshotNames : s1'[n] = IF n = NameOf[c] THEN [creator |-> c, owner |-> c] ELSE s1[n]
      /\ [creator |-> c, owner |-> c] \in Job!Snapshot /\ [creator |-> c, owner |-> c] # None
         /\ NameOf[c] \in SnapshotNames
      /\ Job!OwnSnapshot(c)
  BY SnapshotOwned DEF Job!IInv
<1>2. Job!TypeOK'
  BY <1>1
    DEF Job!IInv, Job!TypeOK, Job!waitVars, Job!logVars, Job!Submission, Job!Goto, Job!KnownUid
<1>3. Job!StepsBelong'
  BY JobAssumption, <1>1
    DEF Job!IInv, Job!StepsBelong, Job!CallerAssumption, Job!Goto, Job!OwnSnapshot
<1>4. Job!ResultsBelong'
  BY <1>1 DEF Job!IInv, Job!TypeOK, Job!ResultsBelong, Job!logVars, Job!Goto, Job!KnownUid
<1>5. Job!LateWritesBelong'
  BY JobAssumption, <1>1
    DEF Job!IInv, Job!ResultsBelong, Job!LateWritesBelong, Job!CallerAssumption, Job!Goto,
     Job!OwnSnapshot
<1>6. Job!JobReadsOwnSnapshot'
  BY JobAssumption, <1>1
    DEF Job!IInv, Job!JobReadsOwnSnapshot, Job!CallerAssumption, Job!Goto, Job!OwnSnapshot
<1>7. Job!AnswersAreTrue'
  BY JobAssumption, <1>1
    DEF Job!IInv, Job!StepsBelong, Job!AnswersAreTrue, Job!CallerAssumption, Job!waitVars,
     Job!logVars, Job!Goto, Job!OwnSnapshot, Job!Deleted
<1>8. Job!JobsBelong'
  BY <1>1 DEF Job!IInv, Job!JobsBelong, Job!Goto
<1> QED BY <1>1, <1>2, <1>3, <1>4, <1>5, <1>6, <1>7, <1>8 DEF Job!IInv

(* A late patch adopts the snapshot of its own caller or none.              *)
LEMMA JobLateOwnershipKeeps ==
  ASSUME Job!IInv, NEW c \in Callers, <<"ownership", c>> \in s9, s9' = s9 \ {<<"ownership", c>>},
         Job!ApplyOwnership(c), UNCHANGED <<s5, s6, Job!submitVars, Job!waitVars, Job!logVars>>
  PROVE  Job!IInv'
<1>1. /\ s1' \in [SnapshotNames -> Job!Snapshot \cup {None}] /\ UNCHANGED <<s2, s3, s4, s14>>
      /\ \A n \in SnapshotNames : s1'[n] = IF n = NameOf[c] THEN [creator |-> c, owner |-> c] ELSE s1[n]
      /\ [creator |-> c, owner |-> c] \in Job!Snapshot /\ [creator |-> c, owner |-> c] # None
         /\ NameOf[c] \in SnapshotNames
      /\ Job!OwnSnapshot(c)
  BY SnapshotOwned DEF Job!IInv
<1>2. Job!TypeOK'
  BY <1>1 DEF Job!IInv, Job!TypeOK, Job!submitVars, Job!waitVars, Job!logVars
<1>3. Job!StepsBelong'
  BY JobAssumption, <1>1 DEF Job!IInv, Job!StepsBelong, Job!CallerAssumption, Job!OwnSnapshot
<1>4. Job!LateWritesBelong'
  BY JobAssumption, <1>1
    DEF Job!IInv, Job!LateWritesBelong, Job!CallerAssumption, Job!submitVars, Job!OwnSnapshot
<1>5. Job!JobReadsOwnSnapshot'
  BY JobAssumption, <1>1
    DEF Job!IInv, Job!JobReadsOwnSnapshot, Job!CallerAssumption, Job!OwnSnapshot
<1>6. Job!AnswersAreTrue'
  BY JobAssumption, <1>1
    DEF Job!IInv, Job!AnswersAreTrue, Job!CallerAssumption, Job!submitVars, Job!waitVars,
     Job!logVars, Job!OwnSnapshot, Job!Deleted
<1>7. Job!ResultsBelong' /\ Job!JobsBelong'
  BY <1>1 DEF Job!IInv, Job!ResultsBelong, Job!JobsBelong, Job!submitVars, Job!logVars
<1> QED BY <1>1, <1>2, <1>3, <1>4, <1>5, <1>6, <1>7 DEF Job!IInv

(* A request on its way changes nothing yet; its caller is uncertain of it. *)
LEMMA JobPostponedKeeps ==
  ASSUME Job!IInv, NEW c \in Callers, NEW phase \in Job!Phases, Job!Goto(c, phase, "submitted"),
         UNCHANGED <<s1, s2, s3, s4, s14>>,
         s8' = [s8 EXCEPT ![c] = [status |-> "uncertain", phase |-> phase,
         uid |-> Job!KnownUid(c, phase)]],
         s9' = s9 \cup {<<phase, c>>}, UNCHANGED <<s5, s7, Job!waitVars, Job!logVars>>
  PROVE  Job!IInv'
<1>1. Job!TypeOK'
  BY DEF Job!IInv, Job!TypeOK, Job!waitVars, Job!logVars, Job!Submission, Job!Goto, Job!KnownUid
<1>2. Job!StepsBelong'
  BY DEF Job!IInv, Job!StepsBelong, Job!Goto, Job!OwnSnapshot
<1>3. Job!ResultsBelong'
  BY DEF Job!IInv, Job!TypeOK, Job!ResultsBelong, Job!logVars, Job!Goto, Job!KnownUid
<1>4. Job!LateWritesBelong'
  BY DEF Job!IInv, Job!TypeOK, Job!StepsBelong, Job!ResultsBelong, Job!LateWritesBelong,
     Job!Phases, Job!Goto, Job!OwnSnapshot
<1>5. Job!AnswersAreTrue'
  BY DEF Job!IInv, Job!StepsBelong, Job!AnswersAreTrue, Job!waitVars, Job!logVars, Job!Goto,
     Job!OwnSnapshot, Job!Deleted
<1>6. Job!JobsBelong' /\ Job!JobReadsOwnSnapshot'
  BY DEF Job!IInv, Job!JobsBelong, Job!JobReadsOwnSnapshot, Job!Goto, Job!OwnSnapshot
<1> QED BY <1>1, <1>2, <1>3, <1>4, <1>5, <1>6 DEF Job!IInv

(* A request that is lost leaves everything as it is.                       *)
LEMMA JobLostKeeps ==
  ASSUME Job!IInv, NEW w \in s9, s9' = s9 \ {w}, UNCHANGED <<s1, s2, s3, s4, s14>>,
         UNCHANGED <<s5, s6, Job!submitVars, Job!waitVars, Job!logVars>>
  PROVE  Job!IInv'
<1>1. Job!TypeOK'
  BY DEF Job!IInv, Job!TypeOK, Job!submitVars, Job!waitVars, Job!logVars
<1>2. Job!LateWritesBelong'
  BY DEF Job!IInv, Job!LateWritesBelong, Job!submitVars, Job!OwnSnapshot
<1>3. Job!StepsBelong' /\ Job!ResultsBelong' /\ Job!JobsBelong' /\ Job!JobReadsOwnSnapshot'
      /\ Job!AnswersAreTrue'
  BY DEF Job!IInv, Job!StepsBelong, Job!ResultsBelong, Job!JobsBelong, Job!JobReadsOwnSnapshot,
     Job!AnswersAreTrue, Job!submitVars, Job!waitVars, Job!logVars, Job!OwnSnapshot, Job!Deleted
<1> QED BY <1>1, <1>2, <1>3 DEF Job!IInv
(* Any answered write.                                                      *)
LEMMA JobWriteAnsweredKeeps ==
  ASSUME Job!IInv, NEW c \in Callers, Job!WriteAnswered(c)
  PROVE  Job!IInv'
<1>1. PICK phase \in Job!Phases :
        /\ Job!Goto(c, phase, Job!NextPhase(phase)) /\ Job!Apply(phase, c)
        /\ s8' = [s8 EXCEPT ![c] =
             IF phase = "ownership"
             THEN [status |-> "submitted", phase |-> "complete", uid |-> c]
             ELSE @]
        /\ UNCHANGED <<s9, s5, s7, Job!waitVars, Job!logVars>>
  BY DEF Job!WriteAnswered
<1>2. [s8 EXCEPT ![c] = s8[c]] = s8
  BY DEF Job!IInv, Job!TypeOK
<1>3. CASE phase = "snapshot"
  BY <1>1, <1>2, <1>3, JobAnsweredSnapshotKeeps DEF Job!NextPhase, Job!Apply
<1>4. CASE phase = "job"
  BY <1>1, <1>2, <1>4, JobAnsweredJobKeeps DEF Job!NextPhase, Job!Apply
<1>5. CASE phase = "ownership"
  BY <1>1, <1>5, JobAnsweredOwnershipKeeps DEF Job!NextPhase, Job!Apply
<1> QED BY <1>3, <1>4, <1>5 DEF Job!Phases

(* Any write without an answer, applied now or later.                       *)
LEMMA JobWriteUncertainKeeps ==
  ASSUME Job!IInv, NEW c \in Callers, Job!WriteUncertain(c)
  PROVE  Job!IInv'
<1>1. PICK phase \in Job!Phases :
        /\ Job!Goto(c, phase, "submitted")
        /\ s8' = [s8 EXCEPT ![c] =
             [status |-> "uncertain", phase |-> phase, uid |-> Job!KnownUid(c, phase)]]
        /\ \/ Job!Apply(phase, c) /\ s9' = s9
           \/ UNCHANGED <<s1, s2, s3, s4, s14>> /\ s9' = s9 \cup {<<phase, c>>}
        /\ UNCHANGED <<s5, s7, Job!waitVars, Job!logVars>>
  BY DEF Job!WriteUncertain
<1>2. CASE UNCHANGED <<s1, s2, s3, s4, s14>> /\ s9' = s9 \cup {<<phase, c>>}
  BY <1>1, <1>2, JobPostponedKeeps
<1>3. CASE Job!Apply(phase, c) /\ s9' = s9 /\ phase = "snapshot"
  BY <1>1, <1>3, JobUnansweredSnapshotKeeps DEF Job!Apply
<1>4. CASE Job!Apply(phase, c) /\ s9' = s9 /\ phase = "job"
  BY <1>1, <1>4, JobUnansweredJobKeeps DEF Job!Apply
<1>5. CASE Job!Apply(phase, c) /\ s9' = s9 /\ phase = "ownership"
  BY <1>1, <1>5, JobUnansweredOwnershipKeeps DEF Job!Apply
<1> QED BY <1>1, <1>2, <1>3, <1>4, <1>5 DEF Job!Phases

(* A write that arrives after its caller gave up on it, or never.           *)
LEMMA JobLateWriteKeeps == ASSUME Job!IInv, Job!LateWrite PROVE Job!IInv'
<1>1. PICK w \in s9 :
        /\ s9' = s9 \ {w}
        /\ Job!Apply(w[1], w[2]) \/ UNCHANGED <<s1, s2, s3, s4, s14>>
        /\ UNCHANGED <<s5, s6, Job!submitVars, Job!waitVars, Job!logVars>>
  BY DEF Job!LateWrite
<1>2. PICK phase \in Job!Phases, c \in Callers : w = <<phase, c>>
  BY DEF Job!IInv, Job!TypeOK
<1>3. CASE UNCHANGED <<s1, s2, s3, s4, s14>>
  BY <1>1, <1>3, JobLostKeeps
<1>4. CASE Job!Apply(phase, c) /\ phase = "snapshot"
  BY <1>1, <1>2, <1>4, JobLateSnapshotKeeps DEF Job!Apply
<1>5. CASE Job!Apply(phase, c) /\ phase = "job"
  BY <1>1, <1>2, <1>5, JobLateJobKeeps DEF Job!Apply
<1>6. CASE Job!Apply(phase, c) /\ phase = "ownership"
  BY <1>1, <1>2, <1>6, JobLateOwnershipKeeps DEF Job!Apply
<1> QED BY <1>1, <1>2, <1>3, <1>4, <1>5, <1>6 DEF Job!Phases

(* Any step of a caller, or of the cluster.                                 *)
LEMMA JobNext == ASSUME Job!IInv, Job!Next PROVE Job!IInv'
<1>1. ASSUME NEW c \in Callers, Job!Submitting(c) PROVE Job!IInv'
  BY <1>1, JobVerifyInputKeeps, JobRejectInputKeeps, JobEndPreflightKeeps, JobWriteAnsweredKeeps,
     JobWriteUncertainKeeps DEF Job!Submitting
<1>2. ASSUME NEW c \in Callers, Job!Waiting(c) PROVE Job!IInv'
  BY <1>2, JobPollOtherKeeps, JobPollFinishedKeeps, JobPollActiveKeeps, JobWaitTimeoutKeeps
    DEF Job!Waiting
<1>3. ASSUME NEW c \in Callers, Job!Reading(c) PROVE Job!IInv'
  BY <1>3, JobListPodsKeeps, JobReadLogKeeps, JobLogUnavailableKeeps DEF Job!Reading
<1>4. CASE Job!Cluster
  BY <1>4, JobLateWriteKeeps, JobDeletePodKeeps, JobStartPodKeeps, JobFinishJobKeeps,
     JobDeleteJobKeeps, JobDeleteSnapshotKeeps, JobEditInputKeeps DEF Job!Cluster
<1> QED BY <1>1, <1>2, <1>3, <1>4, JobSubmitKeeps, JobStartWaitKeeps, JobPollFailsKeeps
          DEF Job!Next

-----------------------------------------------------------------------------
(* The maintenance page: s1 the lock, s2 Base's image, s3 the backend, s4   *)
(* its routes, s5 those of others, s6 one elsewhere, s7 what is served, s8  *)
(* the operators, s9 and s10 their bounds.                                  *)

(* Nothing is there, nobody at work.                                        *)
LEMMA SwitchInit == Maintenance!Init => Maintenance!IInv
<1>1. Maintenance!Idle \in Maintenance!Operation
  BY DEF Maintenance!Idle, Maintenance!Operation, Maintenance!Scopes
<1>2. Maintenance!Idle.step = "idle"
  BY DEF Maintenance!Idle
<1> SUFFICES ASSUME Maintenance!Init PROVE Maintenance!IInv OBVIOUS
<1>3. SwitchOps \in Nat /\ SwitchEdits \in Nat
  BY SwitchAssumption DEF Maintenance!SwitchAssumption
<1>6. s8 \in [Operators -> Maintenance!Operation] /\ s7 \subseteq SwitchProducts
  BY <1>1 DEF Maintenance!Init
<1>7. s9 \in 0..SwitchOps /\ s10 \in 0..SwitchEdits
  BY <1>3 DEF Maintenance!Init
<1>8. /\ s4 \subseteq Maintenance!Scopes /\ s5 \subseteq s4 /\ s6 \in BOOLEAN
      /\ s1 \in Operators \cup {None} /\ s2 \in Images /\ s3 \in Maintenance!Backend \cup {None}
  BY DEF Maintenance!Init
<1>4. Maintenance!TypeOK
  BY <1>6, <1>7, <1>8 DEF Maintenance!TypeOK
<1>5. Maintenance!WorkersHold /\ Maintenance!StepsStand /\ Maintenance!BackendStands
  BY <1>2
    DEF Maintenance!Init, Maintenance!WorkersHold, Maintenance!StepsStand,
     Maintenance!BackendStands, Maintenance!At
<1> QED
  BY <1>4, <1>5 DEF Maintenance!IInv

(* What Verify and Release leave in the operator's record. *)
LEMMA VerifyRecords ==
  ASSUME s8 \in [Operators -> Maintenance!Operation], NEW o \in Operators,
         NEW step \in {"verify", "idleness"},
         NEW hosts, hosts \subseteq SwitchProducts, NEW maintained, maintained \subseteq SwitchProducts,
         Maintenance!Verify(o, hosts, maintained, step)
  PROVE  \E r \in Maintenance!Operation : s8' = [s8 EXCEPT ![o] = r] /\ r.step = step
<1> DEFINE r == [[[s8[o] EXCEPT !.pending = hosts] EXCEPT !.maintained = maintained] EXCEPT
    !.step = step]
<1>1. r \in Maintenance!Operation /\ r.step = step
  BY DEF Maintenance!Operation
<1>2. s8' = [s8 EXCEPT ![o] = r]
  BY DEF Maintenance!Verify
<1> QED
  BY <1>1, <1>2

(* An operator that gives up is an operator all the same.                   *)
LEMMA ReleaseRecords ==
  ASSUME s8 \in [Operators -> Maintenance!Operation], NEW o \in Operators, Maintenance!Release(o)
  PROVE  \E r \in Maintenance!Operation : s8' = [s8 EXCEPT ![o] = r] /\ r.step = "release"
<1> DEFINE r == [s8[o] EXCEPT !.step = "release"]
<1>1. r \in Maintenance!Operation /\ r.step = "release"
  BY DEF Maintenance!Operation
<1>2. s8' = [s8 EXCEPT ![o] = r]
  BY DEF Maintenance!Release, Maintenance!To
<1> QED
  BY <1>1, <1>2

(* Only one lock is created, and by one operator.                           *)
LEMMA SwitchAcquireKeeps ==
  ASSUME Maintenance!IInv, NEW o \in Operators, NEW command \in {"on", "off"},
         NEW scope \in Maintenance!Scopes, Maintenance!Acquire(o,command,scope)
  PROVE  Maintenance!IInv'
<1>1. {[Maintenance!Idle EXCEPT !.step = "contract", !.command = command, !.scope = scope],
      [Maintenance!Idle EXCEPT !.step = "dead"]} \subseteq Maintenance!Operation
  BY DEF Maintenance!Idle, Maintenance!Operation, Maintenance!Scopes
<1>2. [Maintenance!Idle EXCEPT !.step = "contract", !.command = command,
      !.scope = scope].step = "contract"
      /\ [Maintenance!Idle EXCEPT !.step = "dead"].step = "dead"
  BY DEF Maintenance!Idle
<1>3. Maintenance!TypeOK'
  BY SwitchAssumption, <1>1
    DEF Maintenance!IInv, Maintenance!TypeOK, Maintenance!SwitchAssumption, Maintenance!cluster,
     Maintenance!Acquire
<1>4. Maintenance!WorkersHold'
  BY SwitchAssumption
    DEF Maintenance!IInv, Maintenance!TypeOK, Maintenance!WorkersHold,
     Maintenance!SwitchAssumption, Maintenance!Acquire
<1>5. Maintenance!StepsStand'
  BY SwitchAssumption, <1>2
    DEF Maintenance!IInv, Maintenance!TypeOK, Maintenance!WorkersHold, Maintenance!StepsStand,
     Maintenance!SwitchAssumption, Maintenance!At, Maintenance!Acquire
<1>6. Maintenance!BackendStands'
  BY DEF Maintenance!IInv, Maintenance!BackendStands, Maintenance!cluster, Maintenance!Acquire
<1> QED BY <1>1, <1>2, <1>3, <1>4, <1>5, <1>6 DEF Maintenance!IInv

(* Base's image is read before the backend is looked at.                    *)
LEMMA SwitchContractKeeps ==
  ASSUME Maintenance!IInv, NEW o \in Operators, Maintenance!Contract(o)
  PROVE  Maintenance!IInv'
<1>1. Maintenance!TypeOK'
  BY DEF Maintenance!IInv, Maintenance!TypeOK, Maintenance!Backend, Maintenance!cluster,
     Maintenance!Operation, Maintenance!To, Maintenance!Release, Maintenance!Unheld,
     Maintenance!Contract
<1>2. Maintenance!WorkersHold'
  BY DEF Maintenance!IInv, Maintenance!TypeOK, Maintenance!WorkersHold, Maintenance!At,
     Maintenance!To, Maintenance!Release, Maintenance!Unheld, Maintenance!Contract
<1>3. Maintenance!StepsStand'
  BY DEF Maintenance!IInv, Maintenance!TypeOK, Maintenance!StepsStand, Maintenance!cluster,
     Maintenance!Operation, Maintenance!At, Maintenance!To, Maintenance!Release,
     Maintenance!Contract, Maintenance!References, Maintenance!NoReferences
<1>4. Maintenance!BackendStands'
  BY DEF Maintenance!IInv, Maintenance!BackendStands, Maintenance!cluster, Maintenance!Release,
     Maintenance!Contract
<1> QED BY <1>1, <1>2, <1>3, <1>4 DEF Maintenance!IInv

(* The route that is read decides what comes next.                          *)
LEMMA SwitchLookKeeps ==
  ASSUME Maintenance!IInv, NEW o \in Operators, Maintenance!Look(o)
  PROVE  Maintenance!IInv'
<1>1. Maintenance!TypeOK'
  BY DEF Maintenance!IInv, Maintenance!TypeOK, Maintenance!cluster, Maintenance!Operation,
     Maintenance!At, Maintenance!To, Maintenance!Release, Maintenance!Unheld, Maintenance!Look
<1>2. Maintenance!WorkersHold'
  BY DEF Maintenance!IInv, Maintenance!TypeOK, Maintenance!WorkersHold, Maintenance!At,
     Maintenance!To, Maintenance!Release, Maintenance!Unheld, Maintenance!Look
<1>3. Maintenance!StepsStand'
  BY DEF Maintenance!IInv, Maintenance!TypeOK, Maintenance!StepsStand, Maintenance!cluster,
     Maintenance!Operation, Maintenance!At, Maintenance!To, Maintenance!Release,
     Maintenance!Look, Maintenance!References, Maintenance!NoReferences
<1>4. Maintenance!BackendStands'
  BY DEF Maintenance!IInv, Maintenance!BackendStands, Maintenance!cluster, Maintenance!Release,
     Maintenance!Look
<1> QED BY <1>1, <1>2, <1>3, <1>4 DEF Maintenance!IInv

(* A backend is used as it is.                                              *)
LEMMA SwitchUseBackendKeeps ==
  ASSUME Maintenance!IInv, NEW o \in Operators, Maintenance!UseBackend(o)
  PROVE  Maintenance!IInv'
<1>1. Maintenance!TypeOK'
  BY DEF Maintenance!IInv, Maintenance!TypeOK, Maintenance!cluster, Maintenance!Operation,
     Maintenance!To, Maintenance!Release, Maintenance!Unheld, Maintenance!UseBackend
<1>2. Maintenance!WorkersHold'
  BY DEF Maintenance!IInv, Maintenance!TypeOK, Maintenance!WorkersHold, Maintenance!At,
     Maintenance!To, Maintenance!Release, Maintenance!Unheld, Maintenance!UseBackend
<1>3. Maintenance!StepsStand'
  BY DEF Maintenance!IInv, Maintenance!TypeOK, Maintenance!StepsStand, Maintenance!cluster,
     Maintenance!Operation, Maintenance!At, Maintenance!To, Maintenance!Release,
     Maintenance!UseBackend, Maintenance!References, Maintenance!NoReferences
<1>4. Maintenance!BackendStands'
  BY DEF Maintenance!IInv, Maintenance!BackendStands, Maintenance!cluster, Maintenance!Release,
     Maintenance!UseBackend
<1> QED BY <1>1, <1>2, <1>3, <1>4 DEF Maintenance!IInv

(* A backend is created with an image of Base.                              *)
LEMMA SwitchCreateBackendKeeps ==
  ASSUME Maintenance!IInv, NEW o \in Operators, Maintenance!CreateBackend(o)
  PROVE  Maintenance!IInv'
<1>1. s8[o].image \in Images
  BY DEF Maintenance!IInv, Maintenance!StepsStand, Maintenance!CreateBackend, Maintenance!At
<1>2. [image |-> s8[o].image, owned |-> TRUE, ready |-> FALSE] \in Maintenance!Backend
  BY <1>1 DEF Maintenance!Backend
<1>3. UNCHANGED <<s1, s9, s2, s4, s5, s6, s7, s10>>
  BY DEF Maintenance!CreateBackend, Maintenance!Unheld
<1>4. s3' \in Maintenance!Backend \cup {None}
  BY <1>2 DEF Maintenance!IInv, Maintenance!TypeOK, Maintenance!CreateBackend, Maintenance!Command
<1>5. s8' \in [Operators -> Maintenance!Operation]
  BY DEF Maintenance!IInv, Maintenance!TypeOK, Maintenance!Operation, Maintenance!CreateBackend,
     Maintenance!Command, Maintenance!To, Maintenance!Release
<1>6. Maintenance!TypeOK'
  BY <1>3, <1>4, <1>5 DEF Maintenance!IInv, Maintenance!TypeOK
<1>7. Maintenance!WorkersHold'
  BY DEF Maintenance!IInv, Maintenance!TypeOK, Maintenance!WorkersHold, Maintenance!At,
     Maintenance!To, Maintenance!Release, Maintenance!Unheld, Maintenance!Command,
     Maintenance!CreateBackend
<1>8. Maintenance!StepsStand'
  BY DEF Maintenance!IInv, Maintenance!TypeOK, Maintenance!StepsStand, Maintenance!Operation,
     Maintenance!At, Maintenance!To, Maintenance!Release, Maintenance!Command,
     Maintenance!CreateBackend, Maintenance!References, Maintenance!NoReferences
<1>9. Maintenance!BackendStands'
  BY DEF Maintenance!IInv, Maintenance!TypeOK, Maintenance!BackendStands, Maintenance!Release,
     Maintenance!CreateBackend
<1> QED BY <1>1, <1>2, <1>3, <1>4, <1>5, <1>6, <1>7, <1>8, <1>9 DEF Maintenance!IInv

(* A route is created only after its backend was seen ready.                *)
LEMMA SwitchReadyKeeps ==
  ASSUME Maintenance!IInv, NEW o \in Operators, Maintenance!Ready(o)
  PROVE  Maintenance!IInv'
<1>1. Maintenance!TypeOK'
  BY DEF Maintenance!IInv, Maintenance!TypeOK, Maintenance!Backend, Maintenance!cluster,
     Maintenance!Operation, Maintenance!To, Maintenance!Release, Maintenance!Unheld,
     Maintenance!Ready
<1>2. Maintenance!WorkersHold'
  BY DEF Maintenance!IInv, Maintenance!TypeOK, Maintenance!WorkersHold, Maintenance!At,
     Maintenance!To, Maintenance!Release, Maintenance!Unheld, Maintenance!Ready
<1>3. Maintenance!StepsStand'
  BY DEF Maintenance!IInv, Maintenance!TypeOK, Maintenance!StepsStand, Maintenance!cluster,
     Maintenance!Operation, Maintenance!At, Maintenance!To, Maintenance!Release,
     Maintenance!Ready, Maintenance!References, Maintenance!NoReferences
<1>4. Maintenance!BackendStands'
  BY DEF Maintenance!IInv, Maintenance!BackendStands, Maintenance!cluster, Maintenance!Release,
     Maintenance!Ready
<1> QED BY <1>1, <1>2, <1>3, <1>4 DEF Maintenance!IInv

(* The backend seen under the lock is still there when its route comes.     *)
LEMMA SwitchCreateRouteKeeps ==
  ASSUME Maintenance!IInv, NEW o \in Operators, Maintenance!CreateRoute(o)
  PROVE  Maintenance!IInv'
<1>1. Maintenance!TypeOK'
  BY DEF Maintenance!IInv, Maintenance!TypeOK, Maintenance!Operation, Maintenance!To,
     Maintenance!Release, Maintenance!Unheld, Maintenance!Command, Maintenance!Verify,
     Maintenance!CreateRoute
<1>2. Maintenance!WorkersHold'
  BY DEF Maintenance!IInv, Maintenance!TypeOK, Maintenance!WorkersHold, Maintenance!At,
     Maintenance!To, Maintenance!Release, Maintenance!Unheld, Maintenance!Command,
     Maintenance!Verify, Maintenance!CreateRoute
<1>3. Maintenance!StepsStand'
  BY DEF Maintenance!IInv, Maintenance!TypeOK, Maintenance!WorkersHold, Maintenance!StepsStand,
     Maintenance!Operation, Maintenance!At, Maintenance!To, Maintenance!Release,
     Maintenance!Command, Maintenance!Verify, Maintenance!CreateRoute
<1>4. Maintenance!BackendStands'
  BY DEF Maintenance!IInv, Maintenance!TypeOK, Maintenance!StepsStand, Maintenance!BackendStands,
     Maintenance!Release, Maintenance!Verify, Maintenance!CreateRoute
<1> QED BY <1>1, <1>2, <1>3, <1>4 DEF Maintenance!IInv

(* A route less needs no backend.                                           *)
LEMMA SwitchRemoveRouteKeeps ==
  ASSUME Maintenance!IInv, NEW o \in Operators, Maintenance!RemoveRoute(o)
  PROVE  Maintenance!IInv'
<1>1. Maintenance!TypeOK'
  BY DEF Maintenance!IInv, Maintenance!TypeOK, Maintenance!Operation, Maintenance!To,
     Maintenance!Release, Maintenance!Unheld, Maintenance!Command, Maintenance!RemoveRoute
<1>2. Maintenance!WorkersHold'
  BY DEF Maintenance!IInv, Maintenance!TypeOK, Maintenance!WorkersHold, Maintenance!At,
     Maintenance!To, Maintenance!Release, Maintenance!Unheld, Maintenance!Command,
     Maintenance!RemoveRoute
<1>3. Maintenance!StepsStand'
  BY DEF Maintenance!IInv, Maintenance!TypeOK, Maintenance!StepsStand, Maintenance!Operation,
     Maintenance!At, Maintenance!To, Maintenance!Release, Maintenance!Command,
     Maintenance!RemoveRoute, Maintenance!References, Maintenance!NoReferences
<1>4. Maintenance!BackendStands'
  BY DEF Maintenance!IInv, Maintenance!TypeOK, Maintenance!BackendStands, Maintenance!Release,
     Maintenance!Command, Maintenance!RemoveRoute
<1> QED BY <1>1, <1>2, <1>3, <1>4 DEF Maintenance!IInv

(* An inventory only reads.                                                 *)
LEMMA SwitchInventoryKeeps ==
  ASSUME Maintenance!IInv, NEW o \in Operators, Maintenance!Inventory(o)
  PROVE  Maintenance!IInv'
<1>1. UNION {Maintenance!Hosts(s) : s \in Maintenance!References.known} \in SUBSET SwitchProducts
  BY DEF Maintenance!IInv, Maintenance!TypeOK, Maintenance!Hosts, Maintenance!Scopes,
     Maintenance!References
<1>2. Maintenance!Hosts(s8[o].scope) \in SUBSET SwitchProducts
  BY DEF Maintenance!IInv, Maintenance!TypeOK, Maintenance!Hosts, Maintenance!Scopes,
     Maintenance!Operation
<1>3. \E r \in Maintenance!Operation :
        s8' = [s8 EXCEPT ![o] = r] /\ r.step \in {"release", "verify", "idleness"}
  BY <1>1, <1>2, VerifyRecords, ReleaseRecords
    DEF Maintenance!IInv, Maintenance!TypeOK, Maintenance!Inventory
<1>4. Maintenance!At(o, "inventory") /\ UNCHANGED <<Maintenance!cluster, s1, s9>>
  BY DEF Maintenance!Inventory, Maintenance!Unheld
<1>5. Maintenance!TypeOK'
  BY <1>3, <1>4 DEF Maintenance!IInv, Maintenance!TypeOK, Maintenance!cluster
<1>6. Maintenance!WorkersHold'
  BY <1>3, <1>4 DEF Maintenance!IInv, Maintenance!TypeOK, Maintenance!WorkersHold, Maintenance!At
<1>7. Maintenance!StepsStand'
  BY <1>3, <1>4
    DEF Maintenance!IInv, Maintenance!TypeOK, Maintenance!StepsStand, Maintenance!cluster,
     Maintenance!At, Maintenance!NoReferences, Maintenance!References
<1>8. Maintenance!BackendStands'
  BY <1>4 DEF Maintenance!IInv, Maintenance!BackendStands, Maintenance!cluster
<1> QED BY <1>1, <1>2, <1>3, <1>4, <1>5, <1>6, <1>7, <1>8 DEF Maintenance!IInv

(* A host that answers is not asked again.                                  *)
LEMMA SwitchVerifyHostKeeps ==
  ASSUME Maintenance!IInv, NEW o \in Operators, NEW h \in SwitchProducts, Maintenance!VerifyHost(o, h)
  PROVE  Maintenance!IInv'
<1>1. Maintenance!TypeOK'
  BY DEF Maintenance!IInv, Maintenance!TypeOK, Maintenance!cluster, Maintenance!Operation,
     Maintenance!Unheld, Maintenance!VerifyHost
<1>2. Maintenance!WorkersHold'
  BY DEF Maintenance!IInv, Maintenance!TypeOK, Maintenance!WorkersHold, Maintenance!Unheld,
     Maintenance!VerifyHost
<1>3. Maintenance!StepsStand'
  BY DEF Maintenance!IInv, Maintenance!TypeOK, Maintenance!StepsStand, Maintenance!cluster,
     Maintenance!At, Maintenance!References, Maintenance!NoReferences, Maintenance!VerifyHost
<1>4. Maintenance!BackendStands'
  BY DEF Maintenance!IInv, Maintenance!BackendStands, Maintenance!cluster, Maintenance!VerifyHost
<1> QED BY <1>1, <1>2, <1>3, <1>4 DEF Maintenance!IInv

(* The verification ends, and nothing is changed by it.                     *)
LEMMA SwitchVerifiedKeeps ==
  ASSUME Maintenance!IInv, NEW o \in Operators, Maintenance!Verified(o)
  PROVE  Maintenance!IInv'
<1>1. Maintenance!TypeOK'
  BY DEF Maintenance!IInv, Maintenance!TypeOK, Maintenance!cluster, Maintenance!Scopes,
     Maintenance!Operation, Maintenance!To, Maintenance!Release, Maintenance!Unheld,
     Maintenance!Verify, Maintenance!Next3, Maintenance!Verified
<1>2. Maintenance!WorkersHold'
  BY DEF Maintenance!IInv, Maintenance!TypeOK, Maintenance!WorkersHold, Maintenance!To,
     Maintenance!Release, Maintenance!Unheld, Maintenance!Verify, Maintenance!Next3,
     Maintenance!Verified
<1>3. Maintenance!StepsStand'
  BY DEF Maintenance!IInv, Maintenance!TypeOK, Maintenance!StepsStand, Maintenance!cluster,
     Maintenance!Operation, Maintenance!At, Maintenance!To, Maintenance!Release,
     Maintenance!Verify, Maintenance!References, Maintenance!NoReferences, Maintenance!Next3,
     Maintenance!Verified
<1>4. Maintenance!BackendStands'
  BY DEF Maintenance!IInv, Maintenance!BackendStands, Maintenance!cluster, Maintenance!Release,
     Maintenance!Verify, Maintenance!Verified
<1> QED BY <1>1, <1>2, <1>3, <1>4 DEF Maintenance!IInv

(* A deletion is due only when nothing refers to the backend.               *)
LEMMA SwitchRecheckKeeps ==
  ASSUME Maintenance!IInv, NEW o \in Operators, Maintenance!Recheck(o)
  PROVE  Maintenance!IInv'
<1>1. Maintenance!TypeOK'
  BY DEF Maintenance!IInv, Maintenance!TypeOK, Maintenance!cluster, Maintenance!Operation,
     Maintenance!To, Maintenance!Release, Maintenance!Unheld, Maintenance!Recheck
<1>2. Maintenance!WorkersHold'
  BY DEF Maintenance!IInv, Maintenance!TypeOK, Maintenance!WorkersHold, Maintenance!At,
     Maintenance!To, Maintenance!Release, Maintenance!Unheld, Maintenance!Recheck
<1>3. Maintenance!StepsStand'
  BY DEF Maintenance!IInv, Maintenance!TypeOK, Maintenance!StepsStand, Maintenance!cluster,
     Maintenance!Operation, Maintenance!At, Maintenance!To, Maintenance!Release,
     Maintenance!References, Maintenance!NoReferences, Maintenance!Recheck
<1>4. Maintenance!BackendStands'
  BY DEF Maintenance!IInv, Maintenance!BackendStands, Maintenance!cluster, Maintenance!Release,
     Maintenance!Recheck
<1> QED BY <1>1, <1>2, <1>3, <1>4 DEF Maintenance!IInv

(* The backend goes when nothing has come to refer to it.                   *)
LEMMA SwitchDeleteBackendKeeps ==
  ASSUME Maintenance!IInv, NEW o \in Operators, Maintenance!DeleteBackend(o)
  PROVE  Maintenance!IInv'
<1>1. Maintenance!TypeOK'
  BY DEF Maintenance!IInv, Maintenance!TypeOK, Maintenance!Operation, Maintenance!To,
     Maintenance!Release, Maintenance!Unheld, Maintenance!Command, Maintenance!DeleteBackend
<1>2. Maintenance!WorkersHold'
  BY DEF Maintenance!IInv, Maintenance!TypeOK, Maintenance!WorkersHold, Maintenance!At,
     Maintenance!To, Maintenance!Release, Maintenance!Unheld, Maintenance!Command,
     Maintenance!DeleteBackend
<1>3. Maintenance!StepsStand'
  BY DEF Maintenance!IInv, Maintenance!TypeOK, Maintenance!WorkersHold, Maintenance!StepsStand,
     Maintenance!Operation, Maintenance!At, Maintenance!To, Maintenance!Release,
     Maintenance!Command, Maintenance!DeleteBackend
<1>4. Maintenance!BackendStands'
  BY DEF Maintenance!IInv, Maintenance!TypeOK, Maintenance!StepsStand, Maintenance!BackendStands,
     Maintenance!Release, Maintenance!References, Maintenance!NoReferences,
     Maintenance!DeleteBackend
<1> QED BY <1>1, <1>2, <1>3, <1>4 DEF Maintenance!IInv

(* Who gives up the lock has finished its work.                             *)
LEMMA SwitchUnlockKeeps ==
  ASSUME Maintenance!IInv, NEW o \in Operators, Maintenance!Unlock(o)
  PROVE  Maintenance!IInv'
<1>1. Maintenance!TypeOK'
  BY DEF Maintenance!IInv, Maintenance!TypeOK, Maintenance!cluster, Maintenance!Scopes,
     Maintenance!Idle, Maintenance!Operation, Maintenance!Unlock
<1>2. Maintenance!WorkersHold'
  BY DEF Maintenance!IInv, Maintenance!TypeOK, Maintenance!WorkersHold, Maintenance!Idle,
     Maintenance!Unlock
<1>3. Maintenance!StepsStand'
  BY DEF Maintenance!IInv, Maintenance!TypeOK, Maintenance!StepsStand, Maintenance!cluster,
     Maintenance!Idle, Maintenance!At, Maintenance!References, Maintenance!NoReferences,
     Maintenance!Unlock
<1>4. Maintenance!BackendStands'
  BY DEF Maintenance!IInv, Maintenance!BackendStands, Maintenance!cluster, Maintenance!Unlock
<1> QED BY <1>1, <1>2, <1>3, <1>4 DEF Maintenance!IInv

(* A dead operator keeps the lock and does no more.                         *)
LEMMA SwitchKillKeeps ==
  ASSUME Maintenance!IInv, NEW o \in Operators, Maintenance!Kill(o)
  PROVE  Maintenance!IInv'
<1>1. Maintenance!TypeOK'
  BY DEF Maintenance!IInv, Maintenance!TypeOK, Maintenance!cluster, Maintenance!Scopes,
     Maintenance!Idle, Maintenance!Operation, Maintenance!Kill
<1>2. Maintenance!WorkersHold'
  BY DEF Maintenance!IInv, Maintenance!TypeOK, Maintenance!WorkersHold, Maintenance!Kill
<1>3. Maintenance!StepsStand'
  BY DEF Maintenance!IInv, Maintenance!TypeOK, Maintenance!StepsStand, Maintenance!cluster,
     Maintenance!At, Maintenance!References, Maintenance!NoReferences, Maintenance!Kill
<1>4. Maintenance!BackendStands'
  BY DEF Maintenance!IInv, Maintenance!BackendStands, Maintenance!cluster, Maintenance!Kill
<1> QED BY <1>1, <1>2, <1>3, <1>4 DEF Maintenance!IInv

(* A lock is cleared by hand only of one that is not at work.               *)
LEMMA SwitchClearLockKeeps ==
  ASSUME Maintenance!IInv, Maintenance!ClearLock
  PROVE  Maintenance!IInv'
<1>1. Maintenance!TypeOK'
  BY DEF Maintenance!IInv, Maintenance!TypeOK, Maintenance!cluster, Maintenance!Scopes,
     Maintenance!Idle, Maintenance!Operation, Maintenance!ClearLock
<1>2. Maintenance!WorkersHold'
  BY DEF Maintenance!IInv, Maintenance!TypeOK, Maintenance!WorkersHold, Maintenance!Idle,
     Maintenance!ClearLock
<1>3. Maintenance!StepsStand'
  BY DEF Maintenance!IInv, Maintenance!TypeOK, Maintenance!StepsStand, Maintenance!cluster,
     Maintenance!Idle, Maintenance!At, Maintenance!References, Maintenance!NoReferences,
     Maintenance!ClearLock
<1>4. Maintenance!BackendStands'
  BY DEF Maintenance!IInv, Maintenance!BackendStands, Maintenance!cluster, Maintenance!ClearLock
<1> QED BY <1>1, <1>2, <1>3, <1>4 DEF Maintenance!IInv

(* What the proxy serves matters to nobody's knowledge.                     *)
LEMMA SwitchConvergeKeeps ==
  ASSUME Maintenance!IInv, NEW p \in SwitchProducts, Maintenance!Converge(p)
  PROVE  Maintenance!IInv'
<1>1. Maintenance!TypeOK'
  BY DEF Maintenance!IInv, Maintenance!TypeOK, Maintenance!Converge
<1>2. Maintenance!WorkersHold' /\ Maintenance!StepsStand' /\ Maintenance!BackendStands'
  BY DEF Maintenance!IInv, Maintenance!WorkersHold, Maintenance!StepsStand,
     Maintenance!BackendStands, Maintenance!At, Maintenance!References, Maintenance!NoReferences,
     Maintenance!Converge
<1> QED BY <1>1, <1>2 DEF Maintenance!IInv

(* Base approves another image of its own.                                  *)
LEMMA SwitchApproveKeeps ==
  ASSUME Maintenance!IInv, NEW i \in Images, Maintenance!Approve(i)
  PROVE  Maintenance!IInv'
<1>1. Maintenance!TypeOK'
  BY SwitchAssumption
    DEF Maintenance!IInv, Maintenance!TypeOK, Maintenance!SwitchAssumption, Maintenance!Edit,
     Maintenance!Approve
<1>2. Maintenance!WorkersHold' /\ Maintenance!StepsStand' /\ Maintenance!BackendStands'
  BY DEF Maintenance!IInv, Maintenance!WorkersHold, Maintenance!StepsStand,
     Maintenance!BackendStands, Maintenance!At, Maintenance!References, Maintenance!NoReferences,
     Maintenance!Edit, Maintenance!Approve
<1> QED BY <1>1, <1>2 DEF Maintenance!IInv

(* A backend turns ready or not and stays.                                  *)
LEMMA SwitchTurnReadyKeeps ==
  ASSUME Maintenance!IInv, Maintenance!TurnReady
  PROVE  Maintenance!IInv'
<1>1. s3 \in Maintenance!Backend /\ s3' \in Maintenance!Backend /\ s3' # None
  BY SwitchAssumption
    DEF Maintenance!IInv, Maintenance!TypeOK, Maintenance!TurnReady, Maintenance!Backend,
     Maintenance!SwitchAssumption
<1>2. Maintenance!TypeOK'
  BY <1>1 DEF Maintenance!IInv, Maintenance!TypeOK, Maintenance!TurnReady
<1>3. Maintenance!StepsStand'
  BY <1>1
    DEF Maintenance!IInv, Maintenance!TypeOK, Maintenance!StepsStand, Maintenance!At,
     Maintenance!References, Maintenance!NoReferences, Maintenance!TurnReady
<1>4. Maintenance!BackendStands'
  BY <1>1
    DEF Maintenance!IInv, Maintenance!TypeOK, Maintenance!BackendStands, Maintenance!TurnReady
<1>5. Maintenance!WorkersHold'
  BY DEF Maintenance!IInv, Maintenance!WorkersHold, Maintenance!TurnReady
<1> QED BY <1>1, <1>2, <1>3, <1>4, <1>5 DEF Maintenance!IInv

(* Another writer's backend comes while nobody is at work.                  *)
LEMMA SwitchOtherBackendKeeps ==
  ASSUME Maintenance!IInv, Maintenance!OtherBackend
  PROVE  Maintenance!IInv'
<1>1. Maintenance!TypeOK'
  BY SwitchAssumption
    DEF Maintenance!IInv, Maintenance!TypeOK, Maintenance!Backend, Maintenance!SwitchAssumption,
     Maintenance!Edit, Maintenance!OtherBackend
<1>2. Maintenance!StepsStand'
  BY DEF Maintenance!IInv, Maintenance!TypeOK, Maintenance!StepsStand, Maintenance!At,
     Maintenance!References, Maintenance!NoReferences, Maintenance!Edit, Maintenance!OtherBackend
<1>3. Maintenance!BackendStands'
  BY DEF Maintenance!IInv, Maintenance!TypeOK, Maintenance!BackendStands, Maintenance!OtherBackend
<1>4. Maintenance!WorkersHold'
  BY DEF Maintenance!IInv, Maintenance!WorkersHold, Maintenance!Edit, Maintenance!OtherBackend
<1> QED BY <1>1, <1>2, <1>3, <1>4 DEF Maintenance!IInv

(* Another writer's route comes to a backend, while nobody is at work.      *)
LEMMA SwitchOtherRouteKeeps ==
  ASSUME Maintenance!IInv, NEW s \in Maintenance!Scopes, Maintenance!OtherRoute(s)
  PROVE  Maintenance!IInv'
<1>1. Maintenance!TypeOK'
  BY SwitchAssumption
    DEF Maintenance!IInv, Maintenance!TypeOK, Maintenance!SwitchAssumption, Maintenance!Edit,
     Maintenance!OtherRoute
<1>2. Maintenance!StepsStand'
  BY SwitchAssumption
    DEF Maintenance!IInv, Maintenance!TypeOK, Maintenance!WorkersHold, Maintenance!StepsStand,
     Maintenance!SwitchAssumption, Maintenance!At, Maintenance!Edit, Maintenance!OtherRoute
<1>3. Maintenance!BackendStands'
  BY DEF Maintenance!IInv, Maintenance!TypeOK, Maintenance!BackendStands, Maintenance!OtherRoute
<1>4. Maintenance!WorkersHold'
  BY DEF Maintenance!IInv, Maintenance!WorkersHold, Maintenance!Edit, Maintenance!OtherRoute
<1> QED BY <1>1, <1>2, <1>3, <1>4 DEF Maintenance!IInv

(* So does a route of another namespace.                                    *)
LEMMA SwitchAlienRouteKeeps ==
  ASSUME Maintenance!IInv, Maintenance!AlienRoute
  PROVE  Maintenance!IInv'
<1>1. Maintenance!TypeOK'
  BY SwitchAssumption
    DEF Maintenance!IInv, Maintenance!TypeOK, Maintenance!SwitchAssumption, Maintenance!Edit,
     Maintenance!AlienRoute
<1>2. Maintenance!StepsStand'
  BY SwitchAssumption
    DEF Maintenance!IInv, Maintenance!TypeOK, Maintenance!WorkersHold, Maintenance!StepsStand,
     Maintenance!SwitchAssumption, Maintenance!At, Maintenance!Edit, Maintenance!AlienRoute
<1>3. Maintenance!BackendStands'
  BY DEF Maintenance!IInv, Maintenance!TypeOK, Maintenance!BackendStands, Maintenance!AlienRoute
<1>4. Maintenance!WorkersHold'
  BY DEF Maintenance!IInv, Maintenance!WorkersHold, Maintenance!Edit, Maintenance!AlienRoute
<1> QED BY <1>1, <1>2, <1>3, <1>4 DEF Maintenance!IInv
(* Any step of an operator, or around it.                                   *)
LEMMA SwitchNext == ASSUME Maintenance!IInv, Maintenance!Next PROVE Maintenance!IInv'
  BY SwitchAcquireKeeps, SwitchContractKeeps, SwitchLookKeeps, SwitchUseBackendKeeps,
     SwitchCreateBackendKeeps, SwitchReadyKeeps, SwitchCreateRouteKeeps, SwitchRemoveRouteKeeps,
     SwitchInventoryKeeps, SwitchVerifyHostKeeps, SwitchVerifiedKeeps, SwitchRecheckKeeps,
     SwitchDeleteBackendKeeps, SwitchUnlockKeeps, SwitchKillKeeps, SwitchClearLockKeeps,
     SwitchConvergeKeeps, SwitchApproveKeeps, SwitchTurnReadyKeeps, SwitchOtherBackendKeeps,
     SwitchOtherRouteKeeps, SwitchAlienRouteKeeps DEF Maintenance!Next

-----------------------------------------------------------------------------
(* The database: s1 the lock, s2 the lent privileges, s3 the users, s4 the  *)
(* containers, s5 what the Jobs were told, s6 the bound, s7 who may have    *)
(* left a privilege, s8 a lost session.                                     *)

(* A container that is not there is a container's record.                   *)
LEMMA IdleRecord ==
  /\ Database!Idle \in Database!Container /\ Database!Idle.step = "idle"
  /\ Database!Idle.pid = FALSE /\ Database!Idle.term = FALSE /\ Database!Idle.stop = "no"
BY DEF Database!Idle, Database!Container

(* A Job's product is one of the products.                                  *)
LEMMA OwnProduct ==
  ASSUME NEW j \in DatabaseJobs
  PROVE  ProductOf[j] \in Database!Products
BY DEF Database!Products

(* A database without Jobs at work meets the invariant.                     *)
LEMMA DatabaseInit == Database!Init => Database!IInv
<1> SUFFICES ASSUME Database!Init PROVE Database!IInv OBVIOUS
<1>1. s6 \in 0..DatabaseRuns
  BY DatabaseAssumption DEF Database!Init, Database!ProvisioningAssumption
<1>2. Database!TypeOK
  BY <1>1, IdleRecord DEF Database!Init, Database!TypeOK
<1>3. Database!LentIsTaken /\ Database!SignalArrives
  BY IdleRecord DEF Database!Init, Database!LentIsTaken, Database!SignalArrives
<1>4. Database!HolderKnows
  BY IdleRecord DEF Database!Init, Database!HolderKnows, Database!At, Database!Listed
<1> QED
  BY <1>2, <1>3, <1>4 DEF Database!IInv

(* What the end of a session leaves: an idle container, an answer that only *)
(* a verified one has from now on, and no lock of its own.                  *)
LEMMA Ended ==
  ASSUME Database!IInv, NEW j \in DatabaseJobs, NEW answer \in {"none", "verified", "failed",
         "unrevoked"},
         Database!End(j, answer)
  PROVE  /\ s4' \in [DatabaseJobs -> Database!Container]
            /\ \A i \in DatabaseJobs : s4'[i] = IF i = j THEN Database!Idle ELSE s4[i]
         /\ s5' \in [DatabaseJobs -> {"none", "verified", "failed", "unrevoked"}]
         /\ \A i \in DatabaseJobs : s5'[i] = "verified" =>
            (i = j /\ answer = "verified") \/ (i # j /\ s5[i] = "verified")
         /\ s1' \in DatabaseJobs \cup {None} /\ (s1 # j => s1' = s1)
<1>1. s4' \in [DatabaseJobs -> Database!Container]
      /\ \A i \in DatabaseJobs : s4'[i] = IF i = j THEN Database!Idle ELSE s4[i]
  BY IdleRecord DEF Database!IInv, Database!TypeOK, Database!End
<1>4. PICK w \in {"none", "verified", "failed", "unrevoked"} :
        (w = "verified" => answer = "verified") /\ s5' = [s5 EXCEPT ![j] = w]
  BY DEF Database!End
<1>5. s5 \in [DatabaseJobs -> {"none", "verified", "failed", "unrevoked"}]
  BY DEF Database!IInv, Database!TypeOK
<1>6. s5' \in [DatabaseJobs -> {"none", "verified", "failed", "unrevoked"}]
  BY <1>4, <1>5
<1>7. \A i \in DatabaseJobs : s5'[i] = IF i = j THEN w ELSE s5[i]
  BY <1>4, <1>5
<1>2. \A i \in DatabaseJobs :
        s5'[i] = "verified" => (i = j /\ answer = "verified") \/ (i # j /\ s5[i] = "verified")
  BY <1>4, <1>5
<1>3. s1' \in DatabaseJobs \cup {None} /\ (s1 # j => s1' = s1)
  BY DEF Database!IInv, Database!TypeOK, Database!End
<1> QED
  BY <1>1, <1>6, <1>2, <1>3

(* A session ends where no privilege depends on it, or with word of it.     *)
LEMMA DatabaseEndKeeps ==
  ASSUME Database!IInv, NEW j \in DatabaseJobs,
         NEW answer \in {"none", "verified", "failed", "unrevoked"}, Database!End(j, answer),
         UNCHANGED <<s3, s6, s8>>, s2' \subseteq s2, s7' \subseteq DatabaseJobs,
         s2' = {} \/ s7' # {} \/ (s7' = s7 /\ s4[j].step \notin Database!Armed),
         answer = "verified" => s8 \/ s3[ProductOf[j]] = {"owner"}
  PROVE  Database!IInv'
<1>1.
      /\ s4' \in [DatabaseJobs -> Database!Container]
         /\ \A i \in DatabaseJobs : s4'[i] = IF i = j THEN Database!Idle ELSE s4[i]
      /\ s5' \in [DatabaseJobs -> {"none", "verified", "failed", "unrevoked"}]
      /\ \A i \in DatabaseJobs : s5'[i] = "verified" =>
            (i = j /\ answer = "verified") \/ (i # j /\ s5[i] = "verified")
      /\ s1' \in DatabaseJobs \cup {None} /\ (s1 # j => s1' = s1)
  BY Ended
<1>2. Database!TypeOK'
  BY <1>1 DEF Database!IInv, Database!TypeOK
<1>3. Database!LentIsTaken'
  BY <1>1 DEF Database!IInv, Database!LentIsTaken, Database!Clean, Database!Armed
<1>4. Database!HolderKnows'
  BY DatabaseAssumption, IdleRecord, <1>1
    DEF Database!IInv, Database!HolderKnows, Database!ProvisioningAssumption, Database!Clean,
     Database!Armed, Database!At, Database!Listed
<1>5. Database!SignalArrives'
  BY IdleRecord, <1>1 DEF Database!IInv, Database!SignalArrives
<1> QED BY <1>1, <1>2, <1>3, <1>4, <1>5 DEF Database!IInv

(* A child that nobody has cancelled looks at its identity.                 *)
LEMMA DatabaseWantedKeeps ==
  ASSUME Database!IInv, NEW j \in DatabaseJobs, Database!Go(j, "cancel"), s4[j].stop = "no",
         Database!To(j, "identity"), Database!Silent, Database!Still
  PROVE  Database!IInv'
<1>1. Database!TypeOK'
  BY DEF Database!IInv, Database!TypeOK, Database!To, Database!Silent, Database!Still,
     Database!Container
<1>2. Database!LentIsTaken'
  BY DEF Database!IInv, Database!LentIsTaken, Database!Clean, Database!Armed, Database!At,
     Database!To, Database!Go, Database!Still
<1>3. Database!HolderKnows'
  BY DEF Database!IInv, Database!HolderKnows, Database!At, Database!To, Database!Go,
     Database!Silent, Database!Still, Database!Listed
<1>4. Database!SignalArrives'
  BY DEF Database!IInv, Database!SignalArrives, Database!At, Database!To, Database!Go
<1> QED BY <1>1, <1>2, <1>3, <1>4 DEF Database!IInv

(* A preflight that fits comes before the first privilege.                  *)
LEMMA DatabaseForeseenKeeps ==
  ASSUME Database!IInv, NEW j \in DatabaseJobs, Database!Go(j, "preflight"), Database!InventoryFits(j),
         Database!To(j, "alter"), Database!Silent, Database!Still
  PROVE  Database!IInv'
<1>1. Database!TypeOK'
  BY DEF Database!IInv, Database!TypeOK, Database!Armed, Database!To, Database!Silent,
     Database!Still, Database!Container
<1>2. Database!LentIsTaken'
  BY DEF Database!IInv, Database!LentIsTaken, Database!Clean, Database!Armed, Database!At,
     Database!To, Database!Go, Database!Still
<1>3. Database!HolderKnows'
  BY DEF Database!IInv, Database!HolderKnows, Database!At, Database!To, Database!Go,
     Database!Silent, Database!Still, Database!Listed
<1>4. Database!SignalArrives'
  BY DEF Database!IInv, Database!SignalArrives, Database!To
<1> QED BY <1>1, <1>2, <1>3, <1>4 DEF Database!IInv

(* An inventory that fits leaves no other product's user.                   *)
LEMMA DatabaseSurveyedKeeps ==
  ASSUME Database!IInv, NEW j \in DatabaseJobs, Database!Go(j, "inventory"), Database!InventoryFits(j),
         Database!To(j, "mutate"), Database!Silent, Database!Still
  PROVE  Database!IInv'
<1>1. Database!TypeOK'
  BY DEF Database!IInv, Database!TypeOK, Database!Armed, Database!To, Database!Silent,
     Database!Still, Database!Container
<1>2. Database!LentIsTaken'
  BY DEF Database!IInv, Database!LentIsTaken, Database!Armed, Database!At, Database!To,
     Database!Go
<1>3. Database!HolderKnows'
  BY DEF Database!IInv, Database!HolderKnows, Database!At, Database!To, Database!Go,
     Database!Silent, Database!Still, Database!Listed, Database!InventoryFits
<1>4. Database!SignalArrives'
  BY DEF Database!IInv, Database!SignalArrives, Database!To
<1> QED BY <1>1, <1>2, <1>3, <1>4 DEF Database!IInv

(* What is probed is granted by the owner and nobody else.                  *)
LEMMA DatabaseUnverifiedKeeps ==
  ASSUME Database!IInv, NEW j \in DatabaseJobs, Database!Go(j, "verify"), s2 = {},
         s3[ProductOf[j]] = {"owner"}, Database!To(j, "probe"), Database!Silent, Database!Still
  PROVE  Database!IInv'
<1>1. Database!TypeOK'
  BY DEF Database!IInv, Database!TypeOK, Database!To, Database!Silent, Database!Still,
     Database!Container
<1>2. Database!LentIsTaken'
  BY DEF Database!IInv, Database!LentIsTaken, Database!Still
<1>3. Database!HolderKnows'
  BY DEF Database!IInv, Database!HolderKnows, Database!SignalArrives, Database!At, Database!To,
     Database!Go, Database!Silent, Database!Still, Database!Listed
<1>4. Database!SignalArrives'
  BY DEF Database!IInv, Database!SignalArrives, Database!To
<1> QED BY <1>1, <1>2, <1>3, <1>4 DEF Database!IInv

(* What was found of the user is noted.                                     *)
LEMMA DatabaseIdentifiedKeeps ==
  ASSUME Database!IInv, NEW j \in DatabaseJobs, Database!Go(j, "identity"),
         s4' = [s4 EXCEPT ![j].exists = s3[ProductOf[j]] # None, ![j].step = "preflight"],
         Database!Silent, Database!Still
  PROVE  Database!IInv'
<1>1. Database!TypeOK'
  BY DEF Database!IInv, Database!TypeOK, Database!At, Database!Go, Database!Container
<1>2. Database!LentIsTaken'
  BY DEF Database!IInv, Database!TypeOK, Database!LentIsTaken, Database!Clean, Database!Armed,
     Database!At, Database!Go, Database!Still
<1>3. Database!HolderKnows'
  BY DEF Database!IInv, Database!TypeOK, Database!HolderKnows, Database!At, Database!Go,
     Database!Silent, Database!Still, Database!Listed
<1>4. Database!SignalArrives'
  BY DEF Database!IInv, Database!TypeOK, Database!SignalArrives, Database!At, Database!Go
<1> QED BY <1>1, <1>2, <1>3, <1>4 DEF Database!IInv

(* The trap takes back whatever is lent.                                    *)
LEMMA DatabaseTrappedKeeps ==
  ASSUME Database!IInv, NEW j \in DatabaseJobs, s4[j].step \in Database!Armed,
         Database!To(j, "cleanAdmin"), Database!Silent, UNCHANGED <<s3, s6, s8>>,
         s2' \subseteq s2, s2' # {} => s7' = s7, s7' \subseteq s7
  PROVE  Database!IInv'
<1>1. Database!TypeOK'
  BY DEF Database!IInv, Database!TypeOK, Database!Clean, Database!Armed, Database!To,
     Database!Silent, Database!Container
<1>2. Database!LentIsTaken'
  BY DEF Database!IInv, Database!LentIsTaken, Database!Clean, Database!Armed, Database!To
<1>3. Database!HolderKnows'
  BY DEF Database!IInv, Database!HolderKnows, Database!Clean, Database!Armed, Database!At,
     Database!To, Database!Silent, Database!Listed
<1>4. Database!SignalArrives'
  BY DEF Database!IInv, Database!SignalArrives, Database!To
<1> QED BY <1>1, <1>2, <1>3, <1>4 DEF Database!IInv

(* The first privilege is lent with the trap set.                           *)
LEMMA DatabaseAlterableKeeps ==
  ASSUME Database!IInv, NEW j \in DatabaseJobs, NEW next \in {"grant", "cleanAdmin"},
         Database!Go(j, "alter"), s2' = s2 \cup {"createrole"}, Database!To(j, next),
         Database!Silent, UNCHANGED <<s3, s6, s7, s8>>
  PROVE  Database!IInv'
<1>1. Database!TypeOK'
  BY DEF Database!IInv, Database!TypeOK, Database!Clean, Database!Armed, Database!To,
     Database!Silent, Database!Container
<1>2. Database!LentIsTaken'
  BY DEF Database!IInv, Database!TypeOK, Database!LentIsTaken, Database!Clean, Database!Armed,
     Database!At, Database!To, Database!Go
<1>3. Database!HolderKnows'
  BY DEF Database!IInv, Database!HolderKnows, Database!At, Database!To, Database!Go,
     Database!Silent, Database!Listed
<1>4. Database!SignalArrives'
  BY DEF Database!IInv, Database!SignalArrives, Database!To
<1> QED BY <1>1, <1>2, <1>3, <1>4 DEF Database!IInv

(* So is the second.                                                        *)
LEMMA DatabaseGrantableKeeps ==
  ASSUME Database!IInv, NEW j \in DatabaseJobs, NEW next \in {"inventory", "cleanAdmin"},
         Database!Go(j, "grant"), s2' = s2 \cup {"admin"}, Database!To(j, next), Database!Silent,
         UNCHANGED <<s3, s6, s7, s8>>
  PROVE  Database!IInv'
<1>1. Database!TypeOK'
  BY DEF Database!IInv, Database!TypeOK, Database!Clean, Database!Armed, Database!To,
     Database!Silent, Database!Container
<1>2. Database!LentIsTaken'
  BY DEF Database!IInv, Database!TypeOK, Database!LentIsTaken, Database!Clean, Database!Armed,
     Database!To
<1>3. Database!HolderKnows'
  BY DEF Database!IInv, Database!HolderKnows, Database!At, Database!To, Database!Go,
     Database!Silent, Database!Listed
<1>4. Database!SignalArrives'
  BY DEF Database!IInv, Database!SignalArrives, Database!To
<1> QED BY <1>1, <1>2, <1>3, <1>4 DEF Database!IInv

(* A user is created when no other product has one.                         *)
LEMMA DatabaseCreatedKeeps ==
  ASSUME Database!IInv, NEW j \in DatabaseJobs, NEW next \in {"regrant", "cleanAdmin"},
         Database!Go(j, "mutate"), s3[ProductOf[j]] = None,
         s3' = [s3 EXCEPT ![ProductOf[j]] = {"admin"}], Database!To(j, next), Database!Silent,
         UNCHANGED <<s2, s6, s7, s8>>
  PROVE  Database!IInv'
<1>1. {"owner"} # None /\ {"admin"} # {}
  BY DatabaseAssumption DEF Database!ProvisioningAssumption, Database!Granters
<1>2. \A p \in Database!Products : s3'[p] = IF p = ProductOf[j] THEN {"admin"} ELSE s3[p]
  BY DEF Database!IInv, Database!TypeOK
<1>3. Database!TypeOK'
  BY OwnProduct
    DEF Database!IInv, Database!TypeOK, Database!Granters, Database!Clean, Database!Armed,
     Database!To, Database!Silent, Database!Container
<1>4. Database!LentIsTaken'
  BY DEF Database!IInv, Database!LentIsTaken, Database!Clean, Database!Armed, Database!To
<1>5. Database!HolderKnows'
  BY <1>1
    DEF Database!IInv, Database!TypeOK, Database!HolderKnows, Database!At, Database!To,
     Database!Go, Database!Silent, Database!Listed
<1>6. Database!SignalArrives'
  BY DEF Database!IInv, Database!SignalArrives, Database!To
<1> QED BY <1>1, <1>2, <1>3, <1>4, <1>5, <1>6 DEF Database!IInv

(* An existing user is left as it is.                                       *)
LEMMA DatabaseUncreatedKeeps ==
  ASSUME Database!IInv, NEW j \in DatabaseJobs, Database!Go(j, "mutate"), Database!To(j, "regrant"),
         Database!Silent, Database!Still
  PROVE  Database!IInv'
<1>1. Database!TypeOK'
  BY DEF Database!IInv, Database!TypeOK, Database!Clean, Database!Armed, Database!To,
     Database!Silent, Database!Still, Database!Container
<1>2. Database!LentIsTaken'
  BY DEF Database!IInv, Database!LentIsTaken, Database!Armed, Database!To, Database!Still
<1>3. Database!HolderKnows'
  BY DEF Database!IInv, Database!HolderKnows, Database!At, Database!To, Database!Go,
     Database!Silent, Database!Still, Database!Listed
<1>4. Database!SignalArrives'
  BY DEF Database!IInv, Database!SignalArrives, Database!To
<1> QED BY <1>1, <1>2, <1>3, <1>4 DEF Database!IInv

(* The owner's grant is to the Job's own user.                              *)
LEMMA DatabaseGrantedKeeps ==
  ASSUME Database!IInv, NEW j \in DatabaseJobs, NEW next \in {"revokeAdmin", "cleanAdmin"},
         Database!Go(j, "regrant"), s3[ProductOf[j]] # None,
         s3' = [s3 EXCEPT ![ProductOf[j]] = @ \cup {"owner"}], Database!To(j, next),
         Database!Silent, UNCHANGED <<s2, s6, s7, s8>>
  PROVE  Database!IInv'
<1>1. Database!TypeOK'
  BY OwnProduct
    DEF Database!IInv, Database!TypeOK, Database!Granters, Database!Clean, Database!Armed,
     Database!To, Database!Silent, Database!Container
<1>2. Database!LentIsTaken'
  BY DEF Database!IInv, Database!LentIsTaken, Database!Clean, Database!Armed, Database!To
<1>3. Database!HolderKnows'
  BY OwnProduct
    DEF Database!IInv, Database!TypeOK, Database!HolderKnows, Database!At, Database!To,
     Database!Go, Database!Silent, Database!Listed
<1>4. Database!SignalArrives'
  BY DEF Database!IInv, Database!SignalArrives, Database!To
<1> QED BY <1>1, <1>2, <1>3, <1>4 DEF Database!IInv

(* Both privileges are taken back before the verification.                  *)
LEMMA DatabaseRevokedKeeps ==
  ASSUME Database!IInv, NEW j \in DatabaseJobs, Database!Go(j, "revokeCreate"), ~s4[j].refused,
         Database!Elevate(s2 \ {"createrole"}), Database!To(j, "verify"), Database!Silent,
         UNCHANGED <<s3, s6, s8>>
  PROVE  Database!IInv'
<1>1. Database!TypeOK'
  BY DEF Database!IInv, Database!TypeOK, Database!To, Database!Silent, Database!Elevate,
     Database!Container
<1>2. Database!LentIsTaken'
  BY DEF Database!IInv, Database!LentIsTaken, Database!At, Database!To, Database!Go,
     Database!Elevate
<1>3. Database!HolderKnows'
  BY DEF Database!IInv, Database!HolderKnows, Database!At, Database!To, Database!Go,
     Database!Silent, Database!Listed
<1>4. Database!SignalArrives'
  BY DEF Database!IInv, Database!SignalArrives, Database!To
<1> QED BY <1>1, <1>2, <1>3, <1>4 DEF Database!IInv

(* The grants of the revoked privilege go with it.                          *)
LEMMA DatabaseAdminGoneKeeps ==
  ASSUME Database!IInv, NEW j \in DatabaseJobs, NEW next,
         Database!Go(j, "revokeAdmin") \/ Database!At(j, "cleanAdmin"),
         next = IF Database!At(j, "cleanAdmin") THEN "cleanCreate" ELSE "revokeCreate",
         NEW refused \in BOOLEAN, Database!Elevate(s2 \ {"admin"}),
         s3' = [p \in Database!Products |-> IF s3[p] = None THEN None ELSE s3[p] \ {"admin"}],
         s4' = [s4 EXCEPT ![j].step = next, ![j].refused = refused], Database!Silent,
         UNCHANGED <<s6, s8>>
  PROVE  Database!IInv'
<1>1. next \in Database!Armed
  BY DEF Database!Armed, Database!Clean
<1>2. [s4[j] EXCEPT !.step = next, !.refused = refused] \in Database!Container
  <2>1. s4[j] \in Database!Container
    BY DEF Database!IInv, Database!TypeOK
  <2> QED BY ONLY <1>1, <2>1, refused \in BOOLEAN DEF Database!Container
<1>3. s4' = [s4 EXCEPT ![j] = [s4[j] EXCEPT !.step = next, !.refused = refused]]
  OBVIOUS
<1>4. Database!TypeOK'
  BY <1>2 DEF Database!IInv, Database!TypeOK, Database!Silent, Database!Elevate
<1>5. Database!LentIsTaken'
  BY DEF Database!IInv, Database!TypeOK, Database!LentIsTaken, Database!Clean, Database!Armed,
     Database!Elevate
<1>6. Database!HolderKnows'
  BY OwnProduct
    DEF Database!IInv, Database!TypeOK, Database!HolderKnows, Database!At, Database!Go,
     Database!Silent, Database!Listed
<1>7. Database!SignalArrives'
  BY DEF Database!IInv, Database!TypeOK, Database!SignalArrives
<1> QED BY <1>1, <1>2, <1>3, <1>4, <1>5, <1>6, <1>7 DEF Database!IInv

(* A refused revocation is remembered for the end of the trap.              *)
LEMMA DatabaseAdminKeptKeeps ==
  ASSUME Database!IInv, NEW j \in DatabaseJobs, NEW next,
         Database!Go(j, "revokeAdmin") \/ Database!At(j, "cleanAdmin"),
         next = IF Database!At(j, "cleanAdmin") THEN "cleanCreate" ELSE "revokeCreate",
         s4' = [s4 EXCEPT ![j].step = next, ![j].refused = TRUE], Database!Silent, Database!Still
  PROVE  Database!IInv'
<1>1. next \in Database!Armed
  BY DEF Database!Armed, Database!Clean
<1>2. [s4[j] EXCEPT !.step = next, !.refused = TRUE] \in Database!Container
  <2>1. s4[j] \in Database!Container
    BY DEF Database!IInv, Database!TypeOK
  <2> QED BY ONLY <1>1, <2>1 DEF Database!Container
<1>3. s4' = [s4 EXCEPT ![j] = [s4[j] EXCEPT !.step = next, !.refused = TRUE]]
  OBVIOUS
<1>4. Database!TypeOK'
  BY <1>2 DEF Database!IInv, Database!TypeOK, Database!Silent, Database!Still
<1>5. Database!LentIsTaken'
  BY DEF Database!IInv, Database!TypeOK, Database!LentIsTaken, Database!Clean, Database!Armed
<1>6. Database!HolderKnows'
  BY DEF Database!IInv, Database!TypeOK, Database!HolderKnows, Database!At, Database!Go,
     Database!Silent, Database!Still, Database!Listed
<1>7. Database!SignalArrives'
  BY DEF Database!IInv, Database!TypeOK, Database!SignalArrives
<1> QED BY <1>1, <1>2, <1>3, <1>4, <1>5, <1>6, <1>7 DEF Database!IInv

(* A trap that was refused nothing leaves no privilege.                     *)
LEMMA DatabaseCleanedKeeps ==
  ASSUME Database!IInv, NEW j \in DatabaseJobs, Database!At(j, "cleanCreate"), ~s4[j].refused,
         Database!Elevate(s2 \ {"createrole"}), Database!End(j, "failed"),
         UNCHANGED <<s3, s6, s8>>
  PROVE  Database!IInv'
<1>1.
      /\ s4' \in [DatabaseJobs -> Database!Container]
         /\ \A i \in DatabaseJobs : s4'[i] = IF i = j THEN Database!Idle ELSE s4[i]
      /\ s5' \in [DatabaseJobs -> {"none", "verified", "failed", "unrevoked"}]
      /\ \A i \in DatabaseJobs : s5'[i] = "verified" =>
            (i = j /\ "failed" = "verified") \/ (i # j /\ s5[i] = "verified")
      /\ s1' \in DatabaseJobs \cup {None} /\ (s1 # j => s1' = s1)
  BY Ended
<1>2. Database!TypeOK'
  BY <1>1 DEF Database!IInv, Database!TypeOK, Database!Elevate
<1>3. Database!LentIsTaken'
  BY <1>1 DEF Database!IInv, Database!LentIsTaken, Database!At, Database!Elevate
<1>4. Database!HolderKnows'
  BY IdleRecord, <1>1 DEF Database!IInv, Database!HolderKnows, Database!At, Database!Listed
<1>5. Database!SignalArrives'
  BY IdleRecord, <1>1 DEF Database!IInv, Database!SignalArrives
<1> QED BY <1>1, <1>2, <1>3, <1>4, <1>5 DEF Database!IInv

(* A signal that is heard leads to the trap.                                *)
LEMMA DatabaseHeardKeeps ==
  ASSUME Database!IInv, NEW j \in DatabaseJobs, s4[j].term,
         s4[j].step \in Database!Armed \ Database!Clean,
         s4' = [s4 EXCEPT ![j].step = "cleanAdmin", ![j].term = FALSE], Database!Silent,
         Database!Still
  PROVE  Database!IInv'
<1>1. Database!TypeOK'
  BY DEF Database!IInv, Database!TypeOK, Database!Container
<1>2. Database!LentIsTaken'
  BY DEF Database!IInv, Database!TypeOK, Database!LentIsTaken, Database!Clean, Database!Armed
<1>3. Database!HolderKnows'
  BY DEF Database!IInv, Database!TypeOK, Database!HolderKnows, Database!Armed, Database!At,
     Database!Silent, Database!Still, Database!Listed
<1>4. Database!SignalArrives'
  BY DEF Database!IInv, Database!TypeOK, Database!SignalArrives
<1> QED BY <1>1, <1>2, <1>3, <1>4 DEF Database!IInv

(* A signal is sent to a child that has made itself known.                  *)
LEMMA DatabaseSendTermKeeps ==
  ASSUME Database!IInv, NEW j \in DatabaseJobs, Database!SendTerm(j)
  PROVE  Database!IInv'
<1>1. \E term \in BOOLEAN : term = (s4[j].pid /\ s4[j].step \notin Database!Clean)
  OBVIOUS
<1>2. PICK term \in BOOLEAN : term = (s4[j].pid /\ s4[j].step \notin Database!Clean)
  OBVIOUS
<1>3. [s4[j] EXCEPT !.stop = "sent", !.term = term] \in Database!Container
  BY DEF Database!IInv, Database!TypeOK, Database!Container
<1>4. s4' = [s4 EXCEPT ![j] = [s4[j] EXCEPT !.stop = "sent", !.term = term]]
  BY <1>2 DEF Database!SendTerm
<1>5. Database!Silent /\ Database!Still
  BY DEF Database!SendTerm
<1>6. Database!TypeOK'
  BY <1>3, <1>4, <1>5 DEF Database!IInv, Database!TypeOK, Database!Silent, Database!Still
<1>7. Database!LentIsTaken'
  BY DEF Database!IInv, Database!TypeOK, Database!LentIsTaken, Database!Still, Database!SendTerm
<1>8. Database!HolderKnows'
  BY DEF Database!IInv, Database!TypeOK, Database!HolderKnows, Database!At, Database!Silent,
     Database!Still, Database!Listed, Database!SendTerm
<1>9. Database!SignalArrives'
  BY <1>2, <1>4
    DEF Database!IInv, Database!TypeOK, Database!SignalArrives, Database!Container,
     Database!Clean
<1> QED BY <1>1, <1>2, <1>3, <1>4, <1>5, <1>6, <1>7, <1>8, <1>9 DEF Database!IInv

(* Word is left before the signal.                                          *)
LEMMA DatabaseStopKeeps ==
  ASSUME Database!IInv, NEW j \in DatabaseJobs, Database!Stop(j)
  PROVE  Database!IInv'
<1>1. Database!TypeOK'
  BY DEF Database!IInv, Database!TypeOK, Database!Silent, Database!Still, Database!Stop,
     Database!Container
<1>2. Database!LentIsTaken'
  BY DEF Database!IInv, Database!LentIsTaken, Database!Still, Database!Stop
<1>3. Database!HolderKnows'
  BY DEF Database!IInv, Database!HolderKnows, Database!At, Database!Silent, Database!Still,
     Database!Listed, Database!Stop
<1>4. Database!SignalArrives'
  BY DEF Database!IInv, Database!SignalArrives, Database!Stop
<1> QED BY <1>1, <1>2, <1>3, <1>4 DEF Database!IInv

(* A new child has neither lock nor privilege.                              *)
LEMMA DatabaseStartKeeps ==
  ASSUME Database!IInv, NEW j \in DatabaseJobs, Database!Start(j)
  PROVE  Database!IInv'
<1>1. Database!TypeOK'
  <2>1. s6' \in 0..DatabaseRuns
    BY DatabaseAssumption
      DEF Database!IInv, Database!TypeOK, Database!ProvisioningAssumption, Database!Start
  <2>2. s4' \in [DatabaseJobs -> Database!Container]
    BY DEF Database!IInv, Database!TypeOK, Database!To, Database!Start, Database!Container
  <2> QED BY <2>1, <2>2 DEF Database!IInv, Database!TypeOK, Database!database, Database!Start
<1>2. Database!LentIsTaken'
  BY DEF Database!IInv, Database!LentIsTaken, Database!database, Database!Clean, Database!Armed,
     Database!At, Database!To, Database!Start
<1>3. Database!HolderKnows'
  BY DEF Database!IInv, Database!HolderKnows, Database!SignalArrives, Database!database,
     Database!At, Database!To, Database!Start, Database!Listed
<1>4. Database!SignalArrives'
  BY DEF Database!IInv, Database!SignalArrives, Database!To, Database!Start
<1> QED BY <1>1, <1>2, <1>3, <1>4 DEF Database!IInv

(* Only a free lock is taken, so nobody else is past it.                    *)
LEMMA DatabaseTakeLockKeeps ==
  ASSUME Database!IInv, NEW j \in DatabaseJobs, Database!TakeLock(j)
  PROVE  Database!IInv'
<1>1. Database!TypeOK'
  BY DEF Database!IInv, Database!TypeOK, Database!To, Database!Still, Database!TakeLock,
     Database!Container
<1>2. Database!LentIsTaken'
  BY DEF Database!IInv, Database!LentIsTaken, Database!Clean, Database!Armed, Database!At,
     Database!To, Database!Still, Database!TakeLock
<1>3. Database!HolderKnows'
  BY DatabaseAssumption
    DEF Database!IInv, Database!TypeOK, Database!HolderKnows, Database!ProvisioningAssumption,
     Database!At, Database!To, Database!Still, Database!TakeLock, Database!Listed
<1>4. Database!SignalArrives'
  BY DEF Database!IInv, Database!SignalArrives, Database!To, Database!TakeLock
<1> QED BY <1>1, <1>2, <1>3, <1>4 DEF Database!IInv

(* The child makes itself known before it looks.                            *)
LEMMA DatabaseWritePidKeeps ==
  ASSUME Database!IInv, NEW j \in DatabaseJobs, Database!WritePid(j)
  PROVE  Database!IInv'
<1>1. Database!TypeOK'
  BY DEF Database!IInv, Database!TypeOK, Database!At, Database!WritePid, Database!Container
<1>2. Database!LentIsTaken'
  BY DEF Database!IInv, Database!TypeOK, Database!LentIsTaken, Database!Clean, Database!Armed,
     Database!At, Database!Still, Database!WritePid
<1>3. Database!HolderKnows'
  BY DEF Database!IInv, Database!TypeOK, Database!HolderKnows, Database!At, Database!Silent,
     Database!Still, Database!WritePid, Database!Listed
<1>4. Database!SignalArrives'
  BY DEF Database!IInv, Database!TypeOK, Database!SignalArrives, Database!WritePid
<1> QED BY <1>1, <1>2, <1>3, <1>4 DEF Database!IInv

(* After a lost session nothing is claimed of the holder.                   *)
LEMMA DatabaseLoseSessionKeeps == ASSUME Database!IInv, Database!LoseSession PROVE Database!IInv'
<1>1. Database!TypeOK'
  BY DEF Database!IInv, Database!TypeOK, Database!LoseSession
<1>2. Database!HolderKnows'
  BY DEF Database!IInv, Database!HolderKnows, Database!LoseSession
<1>3. Database!LentIsTaken' /\ Database!SignalArrives'
  BY DEF Database!IInv, Database!LentIsTaken, Database!SignalArrives, Database!LoseSession
<1> QED BY <1>1, <1>2, <1>3 DEF Database!IInv

(* A child without the lock has done nothing.                               *)
LEMMA DatabaseNoLockKeeps ==
  ASSUME Database!IInv, NEW j \in DatabaseJobs, Database!NoLock(j)
  PROVE  Database!IInv'
  BY DatabaseEndKeeps
    DEF Database!NoLock, Database!Still, Database!At, Database!Armed, Database!Clean,
     Database!IInv, Database!TypeOK

(* One that is cancelled in time ends, any other goes on.                   *)
LEMMA DatabaseSeeCancelKeeps ==
  ASSUME Database!IInv, NEW j \in DatabaseJobs, Database!SeeCancel(j)
  PROVE  Database!IInv'
<1>1. CASE s4[j].stop = "no"
  BY <1>1, DatabaseWantedKeeps DEF Database!SeeCancel
<1>2. CASE s4[j].stop # "no"
  BY <1>2, DatabaseEndKeeps
    DEF Database!SeeCancel, Database!Still, Database!Go, Database!At, Database!Armed,
     Database!Clean, Database!IInv, Database!TypeOK
<1> QED BY <1>1, <1>2

(* A command that fails before the trap is set ends the session.            *)
LEMMA DatabaseFailKeeps ==
  ASSUME Database!IInv, NEW j \in DatabaseJobs, s4[j].step \notin Database!Armed, Database!Fail(j),
         Database!Still
  PROVE  Database!IInv'
  BY DatabaseEndKeeps DEF Database!Fail, Database!Still, Database!IInv, Database!TypeOK

(* Either the user is as it should be, or the Job fails with nothing lent.  *)
LEMMA DatabaseCheckIdentityKeeps ==
  ASSUME Database!IInv, NEW j \in DatabaseJobs, Database!CheckIdentity(j)
  PROVE  Database!IInv'
<1>1. CASE Database!Fail(j)
  BY <1>1, DatabaseFailKeeps
    DEF Database!CheckIdentity, Database!Go, Database!At, Database!Armed, Database!Clean
<1> QED BY <1>1, DatabaseIdentifiedKeeps DEF Database!CheckIdentity

(* A preflight that does not fit lends nothing.                             *)
LEMMA DatabasePreflightKeeps ==
  ASSUME Database!IInv, NEW j \in DatabaseJobs, Database!Preflight(j)
  PROVE  Database!IInv'
<1>1. CASE Database!Fail(j)
  BY <1>1, DatabaseFailKeeps
    DEF Database!Preflight, Database!Go, Database!At, Database!Armed, Database!Clean
<1> QED BY <1>1, DatabaseForeseenKeeps DEF Database!Preflight

(* One that fails after it runs the trap.                                   *)
LEMMA DatabaseTrapKeeps ==
  ASSUME Database!IInv, NEW j \in DatabaseJobs, s4[j].step \in Database!Armed, Database!Fail(j),
         UNCHANGED <<s3, s6, s8>>,
         s2' \subseteq s2, s2' # {} => s7' = s7, s7' \subseteq s7
  PROVE  Database!IInv'
  BY DatabaseTrappedKeeps DEF Database!Fail, Database!Silent

(* The first privilege is lent, answered or not, or is not.                 *)
LEMMA DatabaseAlterKeeps ==
  ASSUME Database!IInv, NEW j \in DatabaseJobs, Database!Alter(j)
  PROVE  Database!IInv'
<1>1. CASE UNCHANGED s2 /\ Database!Fail(j)
  BY <1>1, DatabaseTrapKeeps
    DEF Database!Alter, Database!Lend, Database!Go, Database!At, Database!Armed
<1> QED BY <1>1, DatabaseAlterableKeeps DEF Database!Alter, Database!Lend

(* So is the second.                                                        *)
LEMMA DatabaseGrantKeeps ==
  ASSUME Database!IInv, NEW j \in DatabaseJobs, Database!Grant(j)
  PROVE  Database!IInv'
<1>1. CASE UNCHANGED s2 /\ Database!Fail(j)
  BY <1>1, DatabaseTrapKeeps
    DEF Database!Grant, Database!Lend, Database!Go, Database!At, Database!Armed
<1> QED BY <1>1, DatabaseGrantableKeeps DEF Database!Grant, Database!Lend

(* An inventory that does not fit leads to the trap.                        *)
LEMMA DatabaseInventoryKeeps ==
  ASSUME Database!IInv, NEW j \in DatabaseJobs, Database!Inventory(j)
  PROVE  Database!IInv'
<1>1. CASE Database!Fail(j)
  BY <1>1, DatabaseTrapKeeps
    DEF Database!Inventory, Database!Still, Database!Go, Database!At, Database!Armed
<1> QED BY <1>1, DatabaseSurveyedKeeps DEF Database!Inventory

(* The user is created or left, or the trap runs with either.               *)
LEMMA DatabaseMutateKeeps ==
  ASSUME Database!IInv, NEW j \in DatabaseJobs, Database!Mutate(j)
  PROVE  Database!IInv'
<1> DEFINE created == /\ s3[ProductOf[j]] = None
                      /\ s3' = [s3 EXCEPT ![ProductOf[j]] = {"admin"}]
<1>1. /\ Database!Go(j, "mutate") /\ UNCHANGED <<s2, s6, s7, s8>>
      /\ created \/ UNCHANGED s3
      /\ (Database!To(j, "regrant") /\ Database!Silent) \/ Database!Fail(j)
  BY DEF Database!Mutate
<1>2. Database!Fail(j) => Database!To(j, "cleanAdmin") /\ Database!Silent
  BY <1>1 DEF Database!Fail, Database!Silent, Database!Go, Database!At, Database!Armed
<1>3. CASE created
  BY <1>1, <1>2, <1>3, DatabaseCreatedKeeps
<1>4. CASE UNCHANGED s3 /\ Database!Fail(j)
  BY <1>1, <1>4, DatabaseTrapKeeps DEF Database!Go, Database!At, Database!Armed
<1>5. CASE UNCHANGED s3 /\ Database!To(j, "regrant") /\ Database!Silent
  BY <1>1, <1>5, DatabaseUncreatedKeeps DEF Database!Still
<1> QED BY <1>1, <1>3, <1>4, <1>5

(* The owner grants or the trap runs.                                       *)
LEMMA DatabaseRegrantKeeps ==
  ASSUME Database!IInv, NEW j \in DatabaseJobs, Database!Regrant(j)
  PROVE  Database!IInv'
<1>1. CASE UNCHANGED s3 /\ Database!Fail(j)
  BY <1>1, DatabaseTrapKeeps DEF Database!Regrant, Database!Go, Database!At, Database!Armed
<1> QED BY <1>1, DatabaseGrantedKeeps DEF Database!Regrant

(* The privilege goes, or its revocation is refused.                        *)
LEMMA DatabaseRevokeAdminKeeps ==
  ASSUME Database!IInv, NEW j \in DatabaseJobs, Database!RevokeAdmin(j)
  PROVE  Database!IInv'
<1> DEFINE next == IF Database!At(j, "cleanAdmin") THEN "cleanCreate" ELSE "revokeCreate"
           gone == /\ Database!Elevate(s2 \ {"admin"})
                   /\ s3' = [p \in Database!Products |->
                        IF s3[p] = None THEN None ELSE s3[p] \ {"admin"}]
<1>1. /\ Database!Go(j, "revokeAdmin") \/ Database!At(j, "cleanAdmin")
      /\ Database!Silent /\ UNCHANGED <<s6, s8>>
  BY DEF Database!RevokeAdmin
<1>2. CASE gone /\ \E refused \in BOOLEAN :
             s4' = [s4 EXCEPT ![j].step = next, ![j].refused = refused]
  BY <1>1, <1>2, DatabaseAdminGoneKeeps
<1>3. CASE /\ UNCHANGED <<s2, s3, s7>>
           /\ s4' = [s4 EXCEPT ![j].step = next, ![j].refused = TRUE]
  BY <1>1, <1>3, DatabaseAdminKeptKeeps DEF Database!Still
<1> QED BY <1>2, <1>3 DEF Database!RevokeAdmin

(* The other one goes, or the trap tries again.                             *)
LEMMA DatabaseRevokeCreateKeeps ==
  ASSUME Database!IInv, NEW j \in DatabaseJobs, Database!RevokeCreate(j)
  PROVE  Database!IInv'
<1>1. CASE Database!Fail(j)
  BY <1>1, DatabaseTrapKeeps
    DEF Database!RevokeCreate, Database!Elevate, Database!Go, Database!At, Database!Armed
<1> QED BY <1>1, DatabaseRevokedKeeps DEF Database!RevokeCreate

(* The trap ends with nothing lent, or says that something is.              *)
LEMMA DatabaseCleanCreateKeeps ==
  ASSUME Database!IInv, NEW j \in DatabaseJobs, Database!CleanCreate(j)
  PROVE  Database!IInv'
<1>1. CASE /\ s2' \in {s2, s2 \ {"createrole"}} /\ s7' = s7 \cup {j}
           /\ Database!End(j, "unrevoked")
  <2>1. s7' \subseteq DatabaseJobs /\ s7' # {} /\ s2' \subseteq s2
    BY <1>1 DEF Database!IInv, Database!TypeOK
  <2> QED BY <1>1, <2>1, DatabaseEndKeeps DEF Database!CleanCreate
<1> QED BY <1>1, DatabaseCleanedKeeps DEF Database!CleanCreate

(* The verification reads what was granted.                                 *)
LEMMA DatabaseVerifyKeeps ==
  ASSUME Database!IInv, NEW j \in DatabaseJobs, Database!Verify(j)
  PROVE  Database!IInv'
<1>1. CASE Database!Fail(j)
  BY <1>1, DatabaseFailKeeps
    DEF Database!Verify, Database!Go, Database!At, Database!Armed, Database!Clean
<1> QED BY <1>1, DatabaseUnverifiedKeeps DEF Database!Verify

(* A Job is told that it is verified while its user is so.                  *)
LEMMA DatabaseProbeKeeps ==
  ASSUME Database!IInv, NEW j \in DatabaseJobs, Database!Probe(j)
  PROVE  Database!IInv'
<1>1. CASE Database!Fail(j)
  BY <1>1, DatabaseFailKeeps
    DEF Database!Probe, Database!Go, Database!At, Database!Armed, Database!Clean
<1>2. CASE Database!End(j, "verified")
  <2>1. s8 \/ s3[ProductOf[j]] = {"owner"}
    BY DEF Database!Probe, Database!Go, Database!IInv, Database!TypeOK, Database!HolderKnows
  <2>2. s4[j].step \notin Database!Armed /\ s7 \subseteq DatabaseJobs
    BY DEF Database!Probe, Database!Go, Database!At, Database!Armed, Database!Clean,
       Database!IInv, Database!TypeOK
  <2> QED BY <1>2, <2>1, <2>2, DatabaseEndKeeps DEF Database!Probe, Database!Still
<1> QED BY <1>1, <1>2 DEF Database!Probe

(* A signal ends the child, by way of the trap if something may be lent.    *)
LEMMA DatabaseHearTermKeeps ==
  ASSUME Database!IInv, NEW j \in DatabaseJobs, Database!HearTerm(j)
  PROVE  Database!IInv'
<1>1. CASE s4[j].step \in Database!Armed
  BY <1>1, DatabaseHeardKeeps DEF Database!HearTerm
<1>2. CASE s4[j].step \notin Database!Armed
  BY <1>2, DatabaseEndKeeps DEF Database!HearTerm, Database!Still, Database!IInv, Database!TypeOK
<1> QED BY <1>1, <1>2

(* A killed child leaves word of what it may have lent.                     *)
LEMMA DatabaseKillKeeps ==
  ASSUME Database!IInv, NEW j \in DatabaseJobs, Database!Kill(j)
  PROVE  Database!IInv'
<1>1. s7' \subseteq DatabaseJobs /\ (s7' # {} \/ (s7' = s7 /\ s4[j].step \notin Database!Armed))
  BY DEF Database!Kill, Database!IInv, Database!TypeOK
<1> QED BY <1>1, DatabaseEndKeeps DEF Database!Kill

(* Any step of a Job, or the loss of the session.                           *)
LEMMA DatabaseNext == ASSUME Database!IInv, Database!Next PROVE Database!IInv'
  BY DatabaseStartKeeps, DatabaseTakeLockKeeps, DatabaseNoLockKeeps, DatabaseWritePidKeeps,
     DatabaseSeeCancelKeeps, DatabaseCheckIdentityKeeps, DatabasePreflightKeeps,
     DatabaseAlterKeeps, DatabaseGrantKeeps, DatabaseInventoryKeeps, DatabaseMutateKeeps,
     DatabaseRegrantKeeps, DatabaseRevokeAdminKeeps, DatabaseRevokeCreateKeeps,
     DatabaseCleanCreateKeeps, DatabaseVerifyKeeps, DatabaseProbeKeeps, DatabaseStopKeeps,
     DatabaseSendTermKeeps, DatabaseHearTermKeeps, DatabaseKillKeeps, DatabaseLoseSessionKeeps
    DEF Database!Next

(* The component counts as everyone does.                                  *)
LEMMA DatabaseCounts == \A S : Database!Cardinality(S) = Cardinality(S)
  BY DEF Database!Cardinality, Cardinality, Database!IsFiniteSet, IsFiniteSet

(* Lent privileges have a child that takes them back, and at most one       *)
(* product's user is listed.                                                *)
LEMMA DatabaseHolds == ASSUME Database!IInv PROVE Database!ElevationEnds /\ Database!OneConsumer
<1>1. Database!ElevationEnds
  BY DEF Database!IInv, Database!TypeOK, Database!LentIsTaken, Database!ElevationEnds,
     Database!Armed, Database!Clean
<1>2. ASSUME ~s8 PROVE Database!Cardinality({p \in Database!Products : Database!Listed(p)}) <= 1
  <2> DEFINE some == {p \in Database!Products : Database!Listed(p)}
  <2>1. \A p, q \in some : p = q
    BY <1>2 DEF Database!IInv, Database!HolderKnows
  <2>2. CASE some = {}
    BY <2>2, DatabaseCounts, FS_EmptySet
  <2>3. CASE some # {}
    <3>1. PICK p \in some : TRUE
      BY <2>3
    <3>2. some = {p}
      BY <2>1, <3>1
    <3> QED BY <3>2, DatabaseCounts, FS_Singleton
  <2> QED BY <2>2, <2>3
<1> QED BY <1>1, <1>2 DEF Database!IInv, Database!HolderKnows, Database!OneConsumer

(* No step takes a Job that was told to stop from its preflight to the      *)
(* first privilege: only Preflight would, and the signal is before it.      *)
LEMMA StopIsHeard == ASSUME Database!IInv, Database!Next PROVE Database!StopIsHeardStep
<1> SUFFICES ASSUME NEW j \in DatabaseJobs, s4[j].stop = "sent", Database!At(j, "preflight")
             PROVE  s4'[j].step # "alter"
  BY DEF Database!StopIsHeardStep
<1>1. s4[j].term /\ s4[j].step = "preflight" /\ s4 \in [DatabaseJobs -> Database!Container]
  BY DEF Database!IInv, Database!TypeOK, Database!SignalArrives, Database!At
<1>2. Database!Idle.step # "alter"
  BY IdleRecord
<1>3. ASSUME NEW i \in DatabaseJobs, NEW s, s4' = [s4 EXCEPT ![i].step = s], s # "alter" \/ i # j
      PROVE  s4'[j].step # "alter"
  BY <1>1, <1>3
<1>4. ASSUME NEW i \in DatabaseJobs, NEW answer, Database!End(i, answer) PROVE s4'[j].step # "alter"
  BY <1>1, <1>2, <1>4 DEF Database!End
<1>5. ASSUME NEW i \in DatabaseJobs, Database!Fail(i) PROVE s4'[j].step # "alter"
  BY <1>3, <1>4, <1>5 DEF Database!Fail, Database!To
<1>6. ASSUME NEW i \in DatabaseJobs,
      Database!Start(i) \/ Database!TakeLock(i) \/ Database!NoLock(i) \/ Database!SeeCancel(i)
      PROVE  s4'[j].step # "alter"
  BY <1>3, <1>4, <1>6
    DEF Database!Start, Database!TakeLock, Database!NoLock, Database!SeeCancel, Database!To
<1>7. ASSUME NEW i \in DatabaseJobs,
      Database!WritePid(i) \/ Database!CheckIdentity(i) PROVE s4'[j].step # "alter"
  <2>1. CASE i = j
    BY <1>1, <1>7, <2>1 DEF Database!WritePid, Database!CheckIdentity, Database!Go, Database!At
  <2>2. CASE i # j /\ ~Database!Fail(i)
    BY <1>1, <1>7, <2>2 DEF Database!WritePid, Database!CheckIdentity
  <2> QED BY <1>5, <2>1, <2>2
<1>8. ASSUME NEW i \in DatabaseJobs, Database!Preflight(i) PROVE s4'[j].step # "alter"
  BY <1>1, <1>3, <1>5, <1>8 DEF Database!Preflight, Database!Go, Database!To
<1>9. ASSUME NEW i \in DatabaseJobs,
      Database!Alter(i) \/ Database!Grant(i) \/ Database!Inventory(i) \/ Database!Mutate(i)
      \/ Database!Regrant(i)
      PROVE  s4'[j].step # "alter"
  BY <1>3, <1>5, <1>9
    DEF Database!Alter, Database!Grant, Database!Lend, Database!Inventory, Database!Mutate,
     Database!Regrant, Database!To
<1>10. ASSUME NEW i \in DatabaseJobs, Database!RevokeAdmin(i) PROVE s4'[j].step # "alter"
  <2>1. i # j
    BY <1>1, <1>10 DEF Database!RevokeAdmin, Database!Go, Database!At
  <2> QED BY <1>1, <1>10, <2>1 DEF Database!RevokeAdmin
<1>11. ASSUME NEW i \in DatabaseJobs,
       Database!RevokeCreate(i) \/ Database!CleanCreate(i) \/ Database!Verify(i)
       \/ Database!Probe(i)
       PROVE  s4'[j].step # "alter"
  BY <1>3, <1>4, <1>5, <1>11
    DEF Database!RevokeCreate, Database!CleanCreate, Database!Verify, Database!Probe, Database!To
<1>12. ASSUME NEW i \in DatabaseJobs,
       Database!Stop(i) \/ Database!SendTerm(i) \/ Database!HearTerm(i) \/ Database!Kill(i)
       PROVE  s4'[j].step # "alter"
  <2>1. CASE Database!Stop(i) \/ Database!SendTerm(i)
    <3>1. i # j
      BY <1>1, <2>1 DEF Database!Stop, Database!SendTerm
    <3> QED BY <1>1, <2>1, <3>1 DEF Database!Stop, Database!SendTerm
  <2>2. CASE Database!HearTerm(i)
    <3>1. CASE i = j
      BY <1>1, <1>4, <2>2, <3>1 DEF Database!HearTerm, Database!Armed, Database!Clean
    <3>2. CASE i # j
      BY <1>1, <1>4, <2>2, <3>2 DEF Database!HearTerm
    <3> QED BY <3>1, <3>2
  <2>3. CASE Database!Kill(i)
    BY <1>4, <2>3 DEF Database!Kill
  <2> QED BY <1>12, <2>1, <2>2, <2>3
<1>13. CASE Database!LoseSession
  BY <1>1, <1>13 DEF Database!LoseSession
<1> QED BY <1>6, <1>7, <1>8, <1>9, <1>10, <1>11, <1>12, <1>13 DEF Database!Next

-----------------------------------------------------------------------------
(* The native inspection: s1 Pods, s2 policies, s3 other policies, s4 the   *)
(* namespace, s5 requests on their way, s6 policies taken away, s7 the run, *)
(* s8 its answer, s9 the bound.                                             *)

(* There is no Pod and no run.                                              *)
LEMMA NativeInit == Native!Init => Native!IInv
<1> SUFFICES ASSUME Native!Init PROVE Native!IInv OBVIOUS
<1>1. NativeRuns \in Nat /\ NativeEdits \in Nat
  BY NativeAssumption DEF Native!NativeAssumption
<1>2. s7 = [n |-> 0, step |-> "idle", space |-> 0, owned |-> {}, attempted |-> FALSE,
      good |-> FALSE]
  BY DEF Native!Init, Native!Idle
<1>3. s7 \in Native!RunRecord
  BY <1>1, <1>2 DEF Native!RunRecord
<1>6. s1 \in [Native!Runs -> {"absent"}] /\ s2 \in [Native!Runs -> {"absent"}] /\ s3 \in BOOLEAN
  BY DEF Native!Init
<1>7. s4 \in 0..NativeEdits /\ s9 \in 0..NativeEdits /\ s5 = {} /\ s6 = {} /\ s8 = "none"
  BY <1>1 DEF Native!Init
<1>4. Native!TypeOK
  BY <1>3, <1>6, <1>7 DEF Native!TypeOK
<1>5. Native!PolicyFirst /\ Native!PodsKnown /\ Native!EditsCount /\ Native!PodNeverBare
  BY <1>2
    DEF Native!Init, Native!PolicyFirst, Native!PodsKnown, Native!EditsCount,
     Native!PodNeverBare, Native!At
<1> QED
  BY <1>4, <1>5 DEF Native!IInv

(* An idle run is a run's record, with the number of the last.              *)
LEMMA NativeEnd ==
  ASSUME Native!IInv, NEW answer, Native!End(answer)
  PROVE  s7' = [n |-> s7.n, step |-> "idle", space |-> 0, owned |-> {}, attempted |-> FALSE,
         good |-> FALSE] /\ s7' \in Native!RunRecord /\ s8' = answer
<1>1. s7' = [n |-> s7.n, step |-> "idle", space |-> 0, owned |-> {}, attempted |-> FALSE,
      good |-> FALSE] /\ s8' = answer
  BY DEF Native!End, Native!Idle
<1>2. s7.n \in 0..NativeRuns /\ 0 \in 0..NativeEdits
  BY NativeAssumption DEF Native!NativeAssumption, Native!IInv, Native!TypeOK, Native!RunRecord
<1> QED
  BY <1>1, <1>2 DEF Native!RunRecord

(* A run starts with a number that nothing has.                             *)
LEMMA NativeStartKeeps == ASSUME Native!IInv, Native!Start PROVE Native!IInv'
<1>1. /\ Native!At("idle") /\ s7.n < NativeRuns /\ s8' = "none"
      /\ UNCHANGED <<s1, s2, s5, Native!outside>>
  BY DEF Native!Start
<1>2. s7.n \in Nat /\ s7.n + 1 \in Native!Runs /\ s7.n + 1 \in 0..NativeRuns
      /\ s4 \in 0..NativeEdits /\ 0 \in 0..NativeEdits
  BY <1>1, NativeAssumption
    DEF Native!IInv, Native!TypeOK, Native!RunRecord, Native!Runs, Native!NativeAssumption
<1>3. s7' \in {[n |-> s7.n + 1, step |-> "check", space |-> s4, owned |-> {},
      attempted |-> FALSE, good |-> FALSE],
               [n |-> s7.n + 1, step |-> "clean", space |-> 0, owned |-> {},
               attempted |-> FALSE, good |-> FALSE]}
  BY DEF Native!Start, Native!Idle
<1>4. {[n |-> s7.n + 1, step |-> "check", space |-> s4, owned |-> {}, attempted |-> FALSE,
      good |-> FALSE],
        [n |-> s7.n + 1, step |-> "clean", space |-> 0, owned |-> {}, attempted |-> FALSE,
        good |-> FALSE]} \subseteq Native!RunRecord
  BY <1>2 DEF Native!RunRecord
<1>5. s7' \in Native!RunRecord
  BY <1>3, <1>4
<1>6. Native!TypeOK'
  BY <1>1, <1>5 DEF Native!IInv, Native!TypeOK, Native!outside
<1>7. Native!PolicyFirst'
  BY <1>1, <1>3 DEF Native!IInv, Native!PolicyFirst, Native!outside, Native!At
<1>8. Native!PodsKnown'
  BY <1>1, <1>2, <1>3 DEF Native!IInv, Native!PodsKnown, Native!Runs
<1>9. Native!PodNeverBare'
  BY <1>1 DEF Native!IInv, Native!PodNeverBare, Native!outside
<1>10. Native!EditsCount'
  BY <1>1 DEF Native!IInv, Native!EditsCount, Native!outside
<1> QED BY <1>1, <1>2, <1>3, <1>4, <1>5, <1>6, <1>7, <1>8, <1>9, <1>10 DEF Native!IInv

(* The policies are read before anything is created.                        *)
LEMMA NativeCheckPoliciesKeeps == ASSUME Native!IInv, Native!CheckPolicies PROVE Native!IInv'
<1>1. Native!TypeOK'
  BY DEF Native!IInv, Native!TypeOK, Native!outside, Native!RunRecord, Native!To, Native!Fail,
     Native!Reads, Native!CheckPolicies
<1>2. Native!PolicyFirst'
  BY DEF Native!IInv, Native!TypeOK, Native!PolicyFirst, Native!outside, Native!RunRecord,
     Native!At, Native!To, Native!Fail, Native!Reads, Native!CheckPolicies
<1>3. Native!PodsKnown'
  BY DEF Native!IInv, Native!TypeOK, Native!PodsKnown, Native!RunRecord, Native!At, Native!To,
     Native!Fail, Native!Reads, Native!CheckPolicies
<1>4. Native!PodNeverBare'
  BY DEF Native!IInv, Native!TypeOK, Native!PodNeverBare, Native!outside, Native!RunRecord,
     Native!At, Native!To, Native!Fail, Native!Reads, Native!CheckPolicies
<1>5. Native!EditsCount'
  BY DEF Native!IInv, Native!EditsCount, Native!outside, Native!Reads, Native!CheckPolicies
<1> QED BY <1>1, <1>2, <1>3, <1>4, <1>5 DEF Native!IInv

(* The policy comes before the attempt at the Pod.                          *)
LEMMA NativeCreatePolicyKeeps == ASSUME Native!IInv, Native!CreatePolicy PROVE Native!IInv'
<1>1. /\ Native!At("policy") /\ UNCHANGED <<s1, s5, s8, Native!outside>>
      /\ s2' \in {s2, [s2 EXCEPT ![s7.n] = "denies"]}
  BY DEF Native!CreatePolicy
<1>2. s7 \in Native!RunRecord
  BY DEF Native!IInv, Native!TypeOK
<1>3. \/ s7' = [s7 EXCEPT !.step = "clean"]
      \/ /\ s2' = [s2 EXCEPT ![s7.n] = "denies"]
         /\ \E next \in {"pod", "clean"} :
              s7' = [s7 EXCEPT !.owned = {"network_policy"}, !.step = next]
  BY DEF Native!CreatePolicy, Native!Fail, Native!To
<1>4. ASSUME NEW next \in {"pod", "clean"},
             s7' = [s7 EXCEPT !.owned = {"network_policy"}, !.step = next]
      PROVE  /\ s7' \in Native!RunRecord
             /\ s7'.n = s7.n /\ s7'.attempted = s7.attempted /\ "pod" \notin s7'.owned
             /\ s7'.step = next
  BY ONLY <1>2, <1>4 DEF Native!RunRecord
<1>5. s7' \in Native!RunRecord
  <2>1. CASE s7' = [s7 EXCEPT !.step = "clean"]
    BY ONLY <1>2, <2>1 DEF Native!RunRecord
  <2> QED BY <1>3, <1>4, <2>1
<1>6. /\ s7'.n = s7.n /\ s7'.attempted = s7.attempted
      /\ "pod" \in s7'.owned => "pod" \in s7.owned
      /\ s7'.step = "clean" \/ (s7'.step = "pod" /\ s2' = [s2 EXCEPT ![s7.n] = "denies"])
  <2>1. CASE s7' = [s7 EXCEPT !.step = "clean"]
    BY ONLY <1>2, <2>1 DEF Native!RunRecord
  <2> QED BY <1>3, <1>4, <2>1
<1>7. Native!TypeOK'
  BY <1>1, <1>5 DEF Native!IInv, Native!TypeOK, Native!outside
<1>8. Native!PolicyFirst'
  BY NativeAssumption, <1>1, <1>6
    DEF Native!IInv, Native!TypeOK, Native!PolicyFirst, Native!NativeAssumption, Native!outside,
     Native!At
<1>9. Native!PodsKnown'
  BY <1>1, <1>6 DEF Native!IInv, Native!PodsKnown, Native!At
<1>10. Native!PodNeverBare'
  BY NativeAssumption, <1>1, <1>6
    DEF Native!IInv, Native!TypeOK, Native!PodNeverBare, Native!NativeAssumption, Native!outside,
     Native!At
<1>11. Native!EditsCount'
  BY <1>1 DEF Native!IInv, Native!EditsCount, Native!outside
<1> QED BY <1>1, <1>2, <1>3, <1>4, <1>5, <1>6, <1>7, <1>8, <1>9, <1>10, <1>11 DEF Native!IInv

(* A Pod, or a request for one, comes after its policy.                     *)
LEMMA NativeCreatePodKeeps == ASSUME Native!IInv, Native!CreatePod PROVE Native!IInv'
<1>1. /\ Native!At("pod") /\ UNCHANGED <<s2, s8, Native!outside>>
      /\ s5' \in {s5, s5 \cup {s7.n}} /\ s1' \in {s1, [s1 EXCEPT ![s7.n] = "created"]}
  BY DEF Native!CreatePod
<1>2. s7 \in Native!RunRecord
  BY DEF Native!IInv, Native!TypeOK
<1>3. [s7 EXCEPT !.attempted = TRUE] \in Native!RunRecord
  BY <1>2 DEF Native!RunRecord
<1>4. [[s7 EXCEPT !.attempted = TRUE] EXCEPT !.owned = @ \cup {"pod"},
      !.step = "ready"] \in Native!RunRecord
      /\ [[s7 EXCEPT !.attempted = TRUE] EXCEPT !.step = "clean"] \in Native!RunRecord
  BY <1>3 DEF Native!RunRecord
<1>5. /\ s7' \in {[[s7 EXCEPT !.attempted = TRUE] EXCEPT !.owned = @ \cup {"pod"},
         !.step = "ready"],
         [[s7 EXCEPT !.attempted = TRUE] EXCEPT !.step = "clean"]}
      /\ s5' = s5 \/ s7' = [[s7 EXCEPT !.attempted = TRUE] EXCEPT !.step = "clean"]
  BY DEF Native!CreatePod
<1>6. s7' \in Native!RunRecord
  BY <1>4, <1>5
<1>7. s7'.n = s7.n /\ s7'.attempted /\ s7'.step \in {"ready", "clean"}
      /\ ("pod" \in s7'.owned => "pod" \in s7.owned \/ s5' = s5)
  BY <1>2, <1>5 DEF Native!RunRecord
<1>8. s7.n \in Native!Runs /\ s7.n \in Nat
  BY <1>1 DEF Native!IInv, Native!PodsKnown, Native!At, Native!Runs
<1>9. Native!TypeOK'
  BY <1>1, <1>6, <1>8 DEF Native!IInv, Native!TypeOK, Native!outside
<1>10. Native!PolicyFirst'
  BY <1>1, <1>7 DEF Native!IInv, Native!TypeOK, Native!PolicyFirst, Native!outside
<1>11. Native!PodsKnown'
  BY <1>1, <1>7, <1>8 DEF Native!IInv, Native!TypeOK, Native!PodsKnown, Native!At
<1>12. Native!PodNeverBare'
  BY NativeAssumption, <1>1, <1>2, <1>7
    DEF Native!IInv, Native!TypeOK, Native!PolicyFirst, Native!PodNeverBare,
     Native!NativeAssumption, Native!outside, Native!At
<1>13. Native!EditsCount'
  BY <1>1 DEF Native!IInv, Native!EditsCount, Native!outside
<1> QED BY <1>1, <1>2, <1>3, <1>4, <1>5, <1>6, <1>7, <1>8, <1>9, <1>10, <1>11, <1>12, <1>13
          DEF Native!IInv

(* A reading of the Pod changes nothing.                                    *)
LEMMA NativeReadyKeeps == ASSUME Native!IInv, Native!Ready PROVE Native!IInv'
<1>1. Native!TypeOK'
  BY DEF Native!IInv, Native!TypeOK, Native!outside, Native!RunRecord, Native!To, Native!Fail,
     Native!Reads, Native!Ready
<1>2. Native!PolicyFirst'
  BY DEF Native!IInv, Native!TypeOK, Native!PolicyFirst, Native!outside, Native!RunRecord,
     Native!At, Native!To, Native!Fail, Native!Reads, Native!Ready
<1>3. Native!PodsKnown'
  BY DEF Native!IInv, Native!TypeOK, Native!PodsKnown, Native!RunRecord, Native!At, Native!To,
     Native!Fail, Native!Reads, Native!Ready
<1>4. Native!PodNeverBare'
  BY DEF Native!IInv, Native!TypeOK, Native!PodNeverBare, Native!outside, Native!RunRecord,
     Native!At, Native!To, Native!Fail, Native!Reads, Native!Ready
<1>5. Native!EditsCount'
  BY DEF Native!IInv, Native!EditsCount, Native!outside, Native!Reads, Native!Ready
<1> QED BY <1>1, <1>2, <1>3, <1>4, <1>5 DEF Native!IInv

(* Nor does one of the namespace.                                           *)
LEMMA NativeSameSpaceKeeps == ASSUME Native!IInv, Native!SameSpace PROVE Native!IInv'
<1>1. Native!TypeOK'
  BY DEF Native!IInv, Native!TypeOK, Native!outside, Native!RunRecord, Native!To, Native!Fail,
     Native!Reads, Native!SameSpace
<1>2. Native!PolicyFirst'
  BY DEF Native!IInv, Native!TypeOK, Native!PolicyFirst, Native!outside, Native!RunRecord,
     Native!At, Native!To, Native!Fail, Native!Reads, Native!SameSpace
<1>3. Native!PodsKnown'
  BY DEF Native!IInv, Native!TypeOK, Native!PodsKnown, Native!RunRecord, Native!At, Native!To,
     Native!Fail, Native!Reads, Native!SameSpace
<1>4. Native!PodNeverBare'
  BY DEF Native!IInv, Native!TypeOK, Native!PodNeverBare, Native!outside, Native!RunRecord,
     Native!At, Native!To, Native!Fail, Native!Reads, Native!SameSpace
<1>5. Native!EditsCount'
  BY DEF Native!IInv, Native!EditsCount, Native!outside, Native!Reads, Native!SameSpace
<1> QED BY <1>1, <1>2, <1>3, <1>4, <1>5 DEF Native!IInv

(* Nor does one of the policy.                                              *)
LEMMA NativeStillDeniedKeeps == ASSUME Native!IInv, Native!StillDenied PROVE Native!IInv'
<1>1. Native!TypeOK'
  BY DEF Native!IInv, Native!TypeOK, Native!outside, Native!RunRecord, Native!To, Native!Fail,
     Native!Reads, Native!StillDenied
<1>2. Native!PolicyFirst'
  BY DEF Native!IInv, Native!TypeOK, Native!PolicyFirst, Native!outside, Native!RunRecord,
     Native!At, Native!To, Native!Fail, Native!Reads, Native!StillDenied
<1>3. Native!PodsKnown'
  BY DEF Native!IInv, Native!TypeOK, Native!PodsKnown, Native!RunRecord, Native!At, Native!To,
     Native!Fail, Native!Reads, Native!StillDenied
<1>4. Native!PodNeverBare'
  BY DEF Native!IInv, Native!TypeOK, Native!PodNeverBare, Native!outside, Native!RunRecord,
     Native!At, Native!To, Native!Fail, Native!Reads, Native!StillDenied
<1>5. Native!EditsCount'
  BY DEF Native!IInv, Native!EditsCount, Native!outside, Native!Reads, Native!StillDenied
<1> QED BY <1>1, <1>2, <1>3, <1>4, <1>5 DEF Native!IInv

(* Nor does one of the other policies.                                      *)
LEMMA NativeNoneAllowsKeeps == ASSUME Native!IInv, Native!NoneAllows PROVE Native!IInv'
<1>1. Native!TypeOK'
  BY DEF Native!IInv, Native!TypeOK, Native!outside, Native!RunRecord, Native!To, Native!Fail,
     Native!Reads, Native!NoneAllows
<1>2. Native!PolicyFirst'
  BY DEF Native!IInv, Native!TypeOK, Native!PolicyFirst, Native!outside, Native!RunRecord,
     Native!At, Native!To, Native!Fail, Native!Reads, Native!NoneAllows
<1>3. Native!PodsKnown'
  BY DEF Native!IInv, Native!TypeOK, Native!PodsKnown, Native!RunRecord, Native!At, Native!To,
     Native!Fail, Native!Reads, Native!NoneAllows
<1>4. Native!PodNeverBare'
  BY DEF Native!IInv, Native!TypeOK, Native!PodNeverBare, Native!outside, Native!RunRecord,
     Native!At, Native!To, Native!Fail, Native!Reads, Native!NoneAllows
<1>5. Native!EditsCount'
  BY DEF Native!IInv, Native!EditsCount, Native!outside, Native!Reads, Native!NoneAllows
<1> QED BY <1>1, <1>2, <1>3, <1>4, <1>5 DEF Native!IInv

(* The private command leads to the cleanup, whatever it answers.           *)
LEMMA NativeExecuteKeeps == ASSUME Native!IInv, Native!Execute PROVE Native!IInv'
<1>1. UNCHANGED <<s1, s2, s5, s8, Native!outside>> /\ Native!At("exec")
  BY DEF Native!Execute, Native!Reads
<1>2. s7' \in Native!RunRecord
  <2>1. s7 \in Native!RunRecord
    BY DEF Native!IInv, Native!TypeOK
  <2>2. s7' \in {[s7 EXCEPT !.good = TRUE, !.step = "clean"], [s7 EXCEPT !.step = "clean"]}
    BY DEF Native!Execute, Native!Fail, Native!To
  <2> QED BY ONLY <2>1, <2>2 DEF Native!RunRecord
<1>3. s7'.n = s7.n /\ s7'.attempted = s7.attempted /\ s7'.owned = s7.owned /\ s7'.step = "clean"
  BY DEF Native!IInv, Native!TypeOK, Native!RunRecord, Native!Execute, Native!Fail, Native!To
<1>4. Native!TypeOK'
  BY <1>1, <1>2 DEF Native!IInv, Native!TypeOK, Native!outside
<1>5. Native!PolicyFirst'
  BY <1>1, <1>3 DEF Native!IInv, Native!PolicyFirst, Native!outside, Native!At
<1>6. Native!PodsKnown'
  BY <1>1, <1>3 DEF Native!IInv, Native!PodsKnown, Native!At
<1>7. Native!PodNeverBare'
  BY <1>1, <1>3 DEF Native!IInv, Native!PodNeverBare, Native!outside, Native!At
<1>8. Native!EditsCount'
  BY <1>1 DEF Native!IInv, Native!EditsCount, Native!outside
<1> QED BY <1>1, <1>2, <1>3, <1>4, <1>5, <1>6, <1>7, <1>8 DEF Native!IInv

(* A Pod whose creation is uncertain keeps its policy.                      *)
LEMMA NativeCleanUncreatedKeeps == ASSUME Native!IInv, Native!CleanUncreated PROVE Native!IInv'
<1>1. Native!TypeOK'
  BY NativeEnd
    DEF Native!IInv, Native!TypeOK, Native!outside, Native!RunRecord, Native!To, Native!Verdict,
     Native!CleanUncreated
<1>2. Native!PolicyFirst'
  BY NativeEnd
    DEF Native!IInv, Native!TypeOK, Native!PolicyFirst, Native!outside, Native!RunRecord,
     Native!At, Native!To, Native!CleanUncreated
<1>3. Native!PodsKnown'
  BY NativeEnd
    DEF Native!IInv, Native!TypeOK, Native!PodsKnown, Native!RunRecord, Native!At, Native!To,
     Native!CleanUncreated
<1>4. Native!PodNeverBare'
  BY NativeEnd
    DEF Native!IInv, Native!TypeOK, Native!PodsKnown, Native!PodNeverBare, Native!outside,
     Native!RunRecord, Native!At, Native!To, Native!CleanUncreated
<1>5. Native!EditsCount'
  BY DEF Native!IInv, Native!EditsCount, Native!outside, Native!CleanUncreated
<1> QED BY <1>1, <1>2, <1>3, <1>4, <1>5 DEF Native!IInv

(* A Pod that is known is deleted, or the user hears that it is not.        *)
LEMMA NativeDeletePodKeeps == ASSUME Native!IInv, Native!DeletePod PROVE Native!IInv'
<1>1. Native!TypeOK'
  BY NativeEnd
    DEF Native!IInv, Native!TypeOK, Native!outside, Native!RunRecord, Native!To, Native!DeletePod
<1>2. Native!PolicyFirst'
  BY NativeAssumption, NativeEnd
    DEF Native!IInv, Native!TypeOK, Native!PolicyFirst, Native!NativeAssumption, Native!outside,
     Native!RunRecord, Native!At, Native!To, Native!DeletePod
<1>3. Native!PodsKnown'
  BY NativeAssumption, NativeEnd
    DEF Native!IInv, Native!TypeOK, Native!PolicyFirst, Native!PodsKnown, Native!EditsCount,
     Native!PodNeverBare, Native!NativeAssumption, Native!outside, Native!RunRecord, Native!At,
     Native!To, Native!DeletePod
<1>4. Native!PodNeverBare'
  BY NativeAssumption, NativeEnd
    DEF Native!IInv, Native!TypeOK, Native!PodNeverBare, Native!NativeAssumption, Native!outside,
     Native!RunRecord, Native!At, Native!To, Native!DeletePod
<1>5. Native!EditsCount'
  BY DEF Native!IInv, Native!EditsCount, Native!outside, Native!DeletePod
<1> QED BY <1>1, <1>2, <1>3, <1>4, <1>5 DEF Native!IInv

(* The policy is due when the Pod is gone, with none to come.               *)
LEMMA NativePodAbsentKeeps == ASSUME Native!IInv, Native!PodAbsent PROVE Native!IInv'
<1>1. Native!TypeOK'
  BY NativeEnd
    DEF Native!IInv, Native!TypeOK, Native!outside, Native!RunRecord, Native!To, Native!PodAbsent
<1>2. Native!PolicyFirst'
  BY NativeEnd
    DEF Native!IInv, Native!TypeOK, Native!PolicyFirst, Native!outside, Native!RunRecord,
     Native!At, Native!To, Native!PodAbsent
<1>3. Native!PodsKnown'
  BY NativeEnd
    DEF Native!IInv, Native!TypeOK, Native!PodsKnown, Native!RunRecord, Native!At, Native!To,
     Native!PodAbsent
<1>4. Native!PodNeverBare'
  BY NativeEnd
    DEF Native!IInv, Native!TypeOK, Native!PodNeverBare, Native!outside, Native!RunRecord,
     Native!At, Native!To, Native!PodAbsent
<1>5. Native!EditsCount'
  BY DEF Native!IInv, Native!EditsCount, Native!outside, Native!PodAbsent
<1> QED BY <1>1, <1>2, <1>3, <1>4, <1>5 DEF Native!IInv

(* The policy goes after its Pod.                                           *)
LEMMA NativeLiftPolicyKeeps == ASSUME Native!IInv, Native!LiftPolicy PROVE Native!IInv'
<1>1. Native!TypeOK'
  BY NativeEnd DEF Native!IInv, Native!TypeOK, Native!outside, Native!Verdict, Native!LiftPolicy
<1>2. Native!PolicyFirst'
  BY NativeEnd
    DEF Native!IInv, Native!TypeOK, Native!PolicyFirst, Native!PodsKnown, Native!outside,
     Native!At, Native!LiftPolicy
<1>3. Native!PodsKnown'
  BY NativeEnd DEF Native!IInv, Native!PodsKnown, Native!At, Native!LiftPolicy
<1>4. Native!PodNeverBare'
  BY NativeEnd
    DEF Native!IInv, Native!TypeOK, Native!PodsKnown, Native!PodNeverBare, Native!outside,
     Native!LiftPolicy
<1>5. Native!EditsCount'
  BY DEF Native!IInv, Native!EditsCount, Native!outside, Native!LiftPolicy
<1> QED BY <1>1, <1>2, <1>3, <1>4, <1>5 DEF Native!IInv

(* Whatever a killed run has begun keeps its policy.                        *)
LEMMA NativeKillKeeps == ASSUME Native!IInv, Native!Kill PROVE Native!IInv'
<1>1. Native!TypeOK'
  BY NativeEnd DEF Native!IInv, Native!TypeOK, Native!PodsKnown, Native!outside, Native!Kill
<1>2. Native!PolicyFirst'
  BY NativeEnd DEF Native!IInv, Native!PolicyFirst, Native!outside, Native!At, Native!Kill
<1>3. Native!PodsKnown'
  BY NativeEnd DEF Native!IInv, Native!PodsKnown, Native!RunRecord, Native!At, Native!Kill
<1>4. Native!PodNeverBare'
  BY NativeEnd DEF Native!IInv, Native!PodNeverBare, Native!outside, Native!Kill
<1>5. Native!EditsCount'
  BY DEF Native!IInv, Native!EditsCount, Native!outside, Native!Kill
<1> QED BY <1>1, <1>2, <1>3, <1>4, <1>5 DEF Native!IInv

(* A late Pod finds the policy of its run.                                  *)
LEMMA NativeLandKeeps ==
  ASSUME Native!IInv, NEW n \in Native!Runs, Native!Land(n)
  PROVE  Native!IInv'
<1>1. Native!TypeOK'
  BY DEF Native!IInv, Native!TypeOK, Native!outside, Native!Land
<1>2. Native!PolicyFirst'
  BY DEF Native!IInv, Native!PolicyFirst, Native!outside, Native!At, Native!Land
<1>3. Native!PodsKnown'
  BY DEF Native!IInv, Native!PodsKnown, Native!At, Native!Land
<1>4. Native!PodNeverBare'
  BY DEF Native!IInv, Native!PolicyFirst, Native!PodNeverBare, Native!outside, Native!At,
     Native!Land
<1>5. Native!EditsCount'
  BY DEF Native!IInv, Native!EditsCount, Native!outside, Native!Land
<1> QED BY <1>1, <1>2, <1>3, <1>4, <1>5 DEF Native!IInv

(* A Pod runs, ends or goes under its policy.                               *)
LEMMA NativePodMovesKeeps ==
  ASSUME Native!IInv, NEW n \in Native!Runs, Native!PodMoves(n)
  PROVE  Native!IInv'
<1>1. Native!TypeOK'
  BY DEF Native!IInv, Native!TypeOK, Native!outside, Native!PodMoves
<1>2. Native!PolicyFirst'
  BY DEF Native!IInv, Native!TypeOK, Native!PolicyFirst, Native!outside, Native!At,
     Native!PodMoves
<1>3. Native!PodsKnown'
  BY DEF Native!IInv, Native!TypeOK, Native!PodsKnown, Native!At, Native!PodMoves
<1>4. Native!PodNeverBare'
  BY NativeAssumption
    DEF Native!IInv, Native!TypeOK, Native!PodsKnown, Native!EditsCount, Native!PodNeverBare,
     Native!NativeAssumption, Native!outside, Native!At, Native!PodMoves
<1>5. Native!EditsCount'
  BY DEF Native!IInv, Native!EditsCount, Native!outside, Native!PodMoves
<1> QED BY <1>1, <1>2, <1>3, <1>4, <1>5 DEF Native!IInv

(* An administrator alters a Pod or deletes it.                             *)
LEMMA NativeEditPodKeeps ==
  ASSUME Native!IInv, NEW n \in Native!Runs, Native!EditPod(n)
  PROVE  Native!IInv'
<1>1. Native!TypeOK'
  BY NativeAssumption
    DEF Native!IInv, Native!TypeOK, Native!NativeAssumption, Native!Edit, Native!EditPod
<1>2. Native!PolicyFirst'
  BY DEF Native!IInv, Native!TypeOK, Native!PolicyFirst, Native!At, Native!Edit, Native!EditPod
<1>3. Native!PodsKnown'
  BY DEF Native!IInv, Native!TypeOK, Native!PodsKnown, Native!At, Native!Edit, Native!EditPod
<1>4. Native!EditsCount'
  BY DEF Native!IInv, Native!TypeOK, Native!EditsCount, Native!Edit, Native!EditPod
<1>5. Native!PodNeverBare'
  BY DEF Native!IInv, Native!TypeOK, Native!PodsKnown, Native!PodNeverBare, Native!At,
     Native!Edit, Native!EditPod
<1> QED BY <1>1, <1>2, <1>3, <1>4, <1>5 DEF Native!IInv

(* A policy that is taken away is remembered.                               *)
LEMMA NativeEditPolicyKeeps ==
  ASSUME Native!IInv, NEW n \in Native!Runs, Native!EditPolicy(n)
  PROVE  Native!IInv'
<1>1. s2' \in [Native!Runs -> {"absent", "denies", "altered"}]
  BY DEF Native!IInv, Native!TypeOK, Native!EditPolicy
<1>2. s9' \in 0..NativeEdits
  BY NativeAssumption
    DEF Native!NativeAssumption, Native!IInv, Native!TypeOK, Native!EditPolicy, Native!Edit
<1>3. Native!TypeOK'
  BY <1>2 DEF Native!IInv, Native!TypeOK, Native!Edit, Native!EditPolicy
<1>4. Native!PolicyFirst'
  BY <1>1 DEF Native!IInv, Native!PolicyFirst, Native!At, Native!Edit, Native!EditPolicy
<1>5. Native!EditsCount'
  BY DEF Native!IInv, Native!TypeOK, Native!EditsCount, Native!Edit, Native!EditPolicy
<1>6. Native!PodNeverBare'
  BY <1>1 DEF Native!IInv, Native!PodNeverBare, Native!At, Native!Edit, Native!EditPolicy
<1>7. Native!PodsKnown'
  BY DEF Native!IInv, Native!PodsKnown, Native!At, Native!Edit, Native!EditPolicy
<1> QED BY <1>1, <1>2, <1>3, <1>4, <1>5, <1>6, <1>7 DEF Native!IInv

(* Other policies are no part of what is claimed.                           *)
LEMMA NativeEditAllowsKeeps == ASSUME Native!IInv, Native!EditAllows PROVE Native!IInv'
<1>1. Native!TypeOK'
  BY NativeAssumption
    DEF Native!IInv, Native!TypeOK, Native!NativeAssumption, Native!Edit, Native!EditAllows
<1>2. Native!EditsCount'
  BY DEF Native!IInv, Native!TypeOK, Native!EditsCount, Native!Edit, Native!EditAllows
<1>3. Native!PolicyFirst' /\ Native!PodsKnown' /\ Native!PodNeverBare'
  BY DEF Native!IInv, Native!PolicyFirst, Native!PodsKnown, Native!PodNeverBare, Native!At,
     Native!Edit, Native!EditAllows
<1> QED BY <1>1, <1>2, <1>3 DEF Native!IInv

(* With the namespace go all Pods and policies of the runs so far.          *)
LEMMA NativeRecreateNamespaceKeeps ==
  ASSUME Native!IInv, Native!RecreateNamespace
  PROVE  Native!IInv'
<1>1. s7.n \in 0..NativeRuns /\ 1..s7.n \subseteq Native!Runs
  BY NativeAssumption
    DEF Native!NativeAssumption, Native!IInv, Native!TypeOK, Native!RunRecord, Native!Runs
<1>2. s4' \in 0..NativeEdits /\ s9' \in 0..NativeEdits
  BY NativeAssumption
    DEF Native!NativeAssumption, Native!IInv, Native!TypeOK, Native!EditsCount,
     Native!RecreateNamespace, Native!Edit
<1>3. Native!TypeOK'
  BY <1>1, <1>2 DEF Native!IInv, Native!TypeOK, Native!Edit, Native!RecreateNamespace
<1>4. Native!PolicyFirst'
  BY DEF Native!IInv, Native!TypeOK, Native!PolicyFirst, Native!PodsKnown, Native!Runs,
     Native!RunRecord, Native!Edit, Native!RecreateNamespace
<1>5. Native!PodsKnown'
  BY DEF Native!IInv, Native!PodsKnown, Native!At, Native!Edit, Native!RecreateNamespace
<1>6. Native!EditsCount'
  BY DEF Native!IInv, Native!TypeOK, Native!EditsCount, Native!Edit, Native!RecreateNamespace
<1>7. Native!PodNeverBare'
  BY DEF Native!IInv, Native!PodsKnown, Native!PodNeverBare, Native!At, Native!Edit,
     Native!RecreateNamespace
<1> QED BY <1>1, <1>2, <1>3, <1>4, <1>5, <1>6, <1>7 DEF Native!IInv

(* Any step of a run, of the cluster or of an administrator.                *)
LEMMA NativeNext == ASSUME Native!IInv, Native!Next PROVE Native!IInv'
  BY NativeStartKeeps, NativeCheckPoliciesKeeps, NativeCreatePolicyKeeps, NativeCreatePodKeeps,
     NativeReadyKeeps, NativeSameSpaceKeeps, NativeStillDeniedKeeps, NativeNoneAllowsKeeps,
     NativeExecuteKeeps, NativeCleanUncreatedKeeps, NativeDeletePodKeeps, NativePodAbsentKeeps,
     NativeLiftPolicyKeeps, NativeKillKeeps, NativeLandKeeps, NativePodMovesKeeps,
     NativeEditPodKeeps, NativeEditPolicyKeeps, NativeEditAllowsKeeps,
     NativeRecreateNamespaceKeeps DEF Native!Next

-----------------------------------------------------------------------------
(* The directory inspection: s1 Pods, s2 policies, s3 workers, s4 requests  *)
(* on their way, s5 the run, s6 its answer, s7 what was named, s8 runs      *)
(* without answer, s9 runs cut short.                                       *)

(* There is no Pod and no run.                                              *)
LEMMA InspectionInit == Inspection!Init => Inspection!IInv
  
    BY InspectionAssumption
      DEF Inspection!Init, Inspection!InspectionAssumption, Inspection!IInv, Inspection!At,
       Inspection!TypeOK, Inspection!WorkersLive, Inspection!PodsToCome, Inspection!StepsKnow,
       Inspection!NothingAhead, Inspection!WorkerConfined, Inspection!LeftoversNamed

(* A run starts with a number that nothing has.                             *)
LEMMA InspectionStartKeeps == ASSUME Inspection!IInv, Inspection!Start PROVE Inspection!IInv'
<1>1. s5.n \in 0..InspectionRuns /\ s5.n \in Nat /\ 1..s5.n \subseteq Inspection!Runs
      /\ \A m \in Inspection!Runs : m \in Nat
  BY InspectionAssumption
    DEF Inspection!IInv, Inspection!TypeOK, Inspection!Runs, Inspection!InspectionAssumption
<1>2. s5'.n = s5.n + 1 /\ s5'.step = "pod" /\ UNCHANGED <<Inspection!Cluster, Inspection!Notes>>
  BY DEF Inspection!Start
<1>3. Inspection!TypeOK'
  BY InspectionAssumption
    DEF Inspection!IInv, Inspection!TypeOK, Inspection!InspectionAssumption, Inspection!Cluster,
     Inspection!Notes, Inspection!Start
<1>4. Inspection!WorkersLive'
  BY <1>1, <1>2
    DEF Inspection!IInv, Inspection!TypeOK, Inspection!WorkersLive, Inspection!Cluster,
     Inspection!Notes
<1>5. Inspection!PodsToCome'
  BY <1>1, <1>2
    DEF Inspection!IInv, Inspection!TypeOK, Inspection!PodsToCome, Inspection!NothingAhead,
     Inspection!Cluster, Inspection!Notes
<1>6. Inspection!StepsKnow'
  BY InspectionAssumption, <1>1
    DEF Inspection!IInv, Inspection!StepsKnow, Inspection!NothingAhead,
     Inspection!InspectionAssumption, Inspection!Runs, Inspection!Cluster, Inspection!Notes,
     Inspection!Start
<1>7. Inspection!NothingAhead'
  BY DEF Inspection!IInv, Inspection!TypeOK, Inspection!NothingAhead, Inspection!Runs,
     Inspection!Cluster, Inspection!Notes, Inspection!Start
<1>8. Inspection!LeftoversNamed'
  BY DEF Inspection!IInv, Inspection!TypeOK, Inspection!LeftoversNamed, Inspection!At,
     Inspection!Cluster, Inspection!Notes, Inspection!Start
<1>9. Inspection!WorkerConfined'
  BY DEF Inspection!IInv, Inspection!WorkerConfined, Inspection!Cluster, Inspection!Notes,
     Inspection!Start
<1> QED BY <1>1, <1>2, <1>3, <1>4, <1>5, <1>6, <1>7, <1>8, <1>9 DEF Inspection!IInv

(* A Pod is created, or its run never learns whether.                       *)
LEMMA InspectionCreatePodKeeps ==
  ASSUME Inspection!IInv, Inspection!CreatePod
  PROVE  Inspection!IInv'
<1>1. s5.n \in 0..InspectionRuns /\ s5.n \in Nat /\ 1..s5.n \subseteq Inspection!Runs
      /\ \A m \in Inspection!Runs : m \in Nat
  BY InspectionAssumption
    DEF Inspection!IInv, Inspection!TypeOK, Inspection!Runs, Inspection!InspectionAssumption
<1>2. s5'.n = s5.n /\ s5'.step # "idle" /\ s8 \subseteq s8' /\ UNCHANGED <<s7, s9>>
  BY DEF Inspection!IInv, Inspection!TypeOK, Inspection!CreatePod, Inspection!Raise, Inspection!To
<1>3. \A m \in Inspection!Runs : m # s5.n => s1'[m] = s1[m]
  BY DEF Inspection!IInv, Inspection!TypeOK, Inspection!CreatePod
<1>4. Inspection!TypeOK'
  BY DEF Inspection!IInv, Inspection!TypeOK, Inspection!StepsKnow, Inspection!Alive,
     Inspection!At, Inspection!To, Inspection!Raise, Inspection!CreatePod
<1>5. Inspection!WorkersLive'
  BY DEF Inspection!IInv, Inspection!TypeOK, Inspection!WorkersLive, Inspection!StepsKnow,
     Inspection!To, Inspection!Raise, Inspection!CreatePod
<1>6. Inspection!PodsToCome'
  BY DEF Inspection!IInv, Inspection!TypeOK, Inspection!PodsToCome, Inspection!StepsKnow,
     Inspection!At, Inspection!To, Inspection!Raise, Inspection!CreatePod
<1>7. Inspection!StepsKnow'
  BY DEF Inspection!IInv, Inspection!TypeOK, Inspection!StepsKnow, Inspection!At, Inspection!To,
     Inspection!Raise, Inspection!CreatePod
<1>8. Inspection!NothingAhead'
  BY DEF Inspection!IInv, Inspection!TypeOK, Inspection!NothingAhead, Inspection!To,
     Inspection!Raise, Inspection!CreatePod
<1>9. Inspection!WorkerConfined'
  BY DEF Inspection!IInv, Inspection!TypeOK, Inspection!WorkersLive, Inspection!StepsKnow,
     Inspection!WorkerConfined, Inspection!LeftoversNamed, Inspection!CreatePod
<1>10. Inspection!LeftoversNamed'
  BY <1>1, <1>2, <1>3 DEF Inspection!IInv, Inspection!LeftoversNamed, Inspection!At
<1> QED BY <1>1, <1>2, <1>3, <1>4, <1>5, <1>6, <1>7, <1>8, <1>9, <1>10 DEF Inspection!IInv

(* The policy comes before the worker.                                      *)
LEMMA InspectionCreatePolicyKeeps ==
  ASSUME Inspection!IInv, Inspection!CreatePolicy
  PROVE  Inspection!IInv'
<1>1. Inspection!TypeOK'
  BY DEF Inspection!IInv, Inspection!TypeOK, Inspection!StepsKnow, Inspection!At, Inspection!To,
     Inspection!Raise, Inspection!Notes, Inspection!CreatePolicy
<1>2. Inspection!WorkersLive'
  BY DEF Inspection!IInv, Inspection!TypeOK, Inspection!WorkersLive, Inspection!To,
     Inspection!Raise, Inspection!Notes, Inspection!CreatePolicy
<1>3. Inspection!PodsToCome'
  BY DEF Inspection!IInv, Inspection!TypeOK, Inspection!PodsToCome, Inspection!At, Inspection!To,
     Inspection!Raise, Inspection!Notes, Inspection!CreatePolicy
<1>4. Inspection!StepsKnow'
  BY DEF Inspection!IInv, Inspection!TypeOK, Inspection!StepsKnow, Inspection!At, Inspection!To,
     Inspection!Raise, Inspection!Notes, Inspection!CreatePolicy
<1>5. Inspection!NothingAhead'
  BY DEF Inspection!IInv, Inspection!TypeOK, Inspection!NothingAhead, Inspection!To,
     Inspection!Raise, Inspection!Notes, Inspection!CreatePolicy
<1>6. Inspection!WorkerConfined'
  BY DEF Inspection!IInv, Inspection!WorkerConfined, Inspection!Notes, Inspection!CreatePolicy
<1>7. Inspection!LeftoversNamed'
  BY DEF Inspection!IInv, Inspection!TypeOK, Inspection!LeftoversNamed, Inspection!At,
     Inspection!To, Inspection!Raise, Inspection!Notes, Inspection!CreatePolicy
<1> QED BY <1>1, <1>2, <1>3, <1>4, <1>5, <1>6, <1>7 DEF Inspection!IInv

(* A wait changes nothing.                                                  *)
LEMMA InspectionWaitReadyKeeps ==
  ASSUME Inspection!IInv, Inspection!WaitReady
  PROVE  Inspection!IInv'
<1>1. Inspection!TypeOK'
  BY DEF Inspection!IInv, Inspection!TypeOK, Inspection!To, Inspection!Raise, Inspection!Cluster,
     Inspection!Notes, Inspection!WaitReady
<1>2. Inspection!WorkersLive'
  BY DEF Inspection!IInv, Inspection!TypeOK, Inspection!WorkersLive, Inspection!To,
     Inspection!Raise, Inspection!Cluster, Inspection!Notes, Inspection!WaitReady
<1>3. Inspection!PodsToCome'
  BY DEF Inspection!IInv, Inspection!TypeOK, Inspection!PodsToCome, Inspection!At, Inspection!To,
     Inspection!Raise, Inspection!Cluster, Inspection!Notes, Inspection!WaitReady
<1>4. Inspection!StepsKnow'
  BY DEF Inspection!IInv, Inspection!TypeOK, Inspection!StepsKnow, Inspection!At, Inspection!To,
     Inspection!Raise, Inspection!Cluster, Inspection!Notes, Inspection!WaitReady
<1>5. Inspection!NothingAhead'
  BY DEF Inspection!IInv, Inspection!TypeOK, Inspection!NothingAhead, Inspection!To,
     Inspection!Raise, Inspection!Cluster, Inspection!Notes, Inspection!WaitReady
<1>6. Inspection!LeftoversNamed'
  BY DEF Inspection!IInv, Inspection!TypeOK, Inspection!LeftoversNamed, Inspection!At,
     Inspection!To, Inspection!Raise, Inspection!Cluster, Inspection!Notes, Inspection!WaitReady
<1>7. Inspection!WorkerConfined'
  BY DEF Inspection!IInv, Inspection!WorkerConfined, Inspection!Cluster, Inspection!Notes,
     Inspection!WaitReady
<1> QED BY <1>1, <1>2, <1>3, <1>4, <1>5, <1>6, <1>7 DEF Inspection!IInv

(* A worker starts in a ready Pod that has its policy.                      *)
LEMMA InspectionExecuteKeeps == ASSUME Inspection!IInv, Inspection!Execute PROVE Inspection!IInv'
<1>1. Inspection!TypeOK'
  BY DEF Inspection!IInv, Inspection!TypeOK, Inspection!StepsKnow, Inspection!At, Inspection!To,
     Inspection!Raise, Inspection!Notes, Inspection!Execute
<1>2. Inspection!WorkersLive'
  BY DEF Inspection!IInv, Inspection!TypeOK, Inspection!WorkersLive, Inspection!StepsKnow,
     Inspection!At, Inspection!To, Inspection!Raise, Inspection!Notes, Inspection!Execute
<1>3. Inspection!PodsToCome'
  BY DEF Inspection!IInv, Inspection!TypeOK, Inspection!PodsToCome, Inspection!At, Inspection!To,
     Inspection!Raise, Inspection!Notes, Inspection!Execute
<1>4. Inspection!StepsKnow'
  BY DEF Inspection!IInv, Inspection!TypeOK, Inspection!StepsKnow, Inspection!At, Inspection!To,
     Inspection!Raise, Inspection!Notes, Inspection!Execute
<1>5. Inspection!NothingAhead'
  BY DEF Inspection!IInv, Inspection!TypeOK, Inspection!NothingAhead, Inspection!To,
     Inspection!Raise, Inspection!Notes, Inspection!Execute
<1>6. Inspection!WorkerConfined'
  BY DEF Inspection!IInv, Inspection!StepsKnow, Inspection!WorkerConfined, Inspection!At,
     Inspection!Notes, Inspection!Execute
<1>7. Inspection!LeftoversNamed'
  BY DEF Inspection!IInv, Inspection!TypeOK, Inspection!LeftoversNamed, Inspection!At,
     Inspection!To, Inspection!Raise, Inspection!Notes, Inspection!Execute
<1> QED BY <1>1, <1>2, <1>3, <1>4, <1>5, <1>6, <1>7 DEF Inspection!IInv

(* The answer comes when the worker has ended, or is not waited for.        *)
LEMMA InspectionAnswerKeeps == ASSUME Inspection!IInv, Inspection!Answer PROVE Inspection!IInv'
<1>1. Inspection!TypeOK'
  BY DEF Inspection!IInv, Inspection!TypeOK, Inspection!To, Inspection!Raise, Inspection!Cluster,
     Inspection!Notes, Inspection!Answer
<1>2. Inspection!WorkersLive'
  BY DEF Inspection!IInv, Inspection!TypeOK, Inspection!WorkersLive, Inspection!To,
     Inspection!Raise, Inspection!Cluster, Inspection!Notes, Inspection!Answer
<1>3. Inspection!PodsToCome'
  BY DEF Inspection!IInv, Inspection!TypeOK, Inspection!PodsToCome, Inspection!To,
     Inspection!Raise, Inspection!Cluster, Inspection!Notes, Inspection!Answer
<1>4. Inspection!StepsKnow'
  BY DEF Inspection!IInv, Inspection!TypeOK, Inspection!StepsKnow, Inspection!At, Inspection!To,
     Inspection!Raise, Inspection!Notes, Inspection!Answer
<1>5. Inspection!NothingAhead'
  BY DEF Inspection!IInv, Inspection!TypeOK, Inspection!NothingAhead, Inspection!To,
     Inspection!Raise, Inspection!Cluster, Inspection!Notes, Inspection!Answer
<1>6. Inspection!LeftoversNamed'
  BY DEF Inspection!IInv, Inspection!TypeOK, Inspection!LeftoversNamed, Inspection!At,
     Inspection!To, Inspection!Raise, Inspection!Cluster, Inspection!Notes, Inspection!Answer
<1>7. Inspection!WorkerConfined'
  BY DEF Inspection!IInv, Inspection!WorkerConfined, Inspection!Cluster, Inspection!Notes,
     Inspection!Answer
<1> QED BY <1>1, <1>2, <1>3, <1>4, <1>5, <1>6, <1>7 DEF Inspection!IInv

(* The Pod is deleted, or named to the operator.                            *)
LEMMA InspectionDropPodKeeps == ASSUME Inspection!IInv, Inspection!DropPod PROVE Inspection!IInv'
<1>1. s5.n \in 0..InspectionRuns /\ s5.n \in Nat /\ 1..s5.n \subseteq Inspection!Runs
      /\ \A m \in Inspection!Runs : m \in Nat
  BY InspectionAssumption
    DEF Inspection!IInv, Inspection!TypeOK, Inspection!Runs, Inspection!InspectionAssumption
<1>2. s5'.n = s5.n /\ s5'.step = "dropPolicy" /\ UNCHANGED <<s2, s3, s4, s8, s9>>
  BY DEF Inspection!IInv, Inspection!TypeOK, Inspection!DropPod, Inspection!To
<1>3. \A m \in Inspection!Runs : <<"pod", m>> \in s7 => <<"pod", m>> \in s7'
  BY DEF Inspection!DropPod, Inspection!CleanupNeeded
<1>4. \A m \in Inspection!Runs : s1'[m] = s1[m] \/ (m = s5.n /\ s1'[m] \in {"leaving", "absent"})
  BY DEF Inspection!IInv, Inspection!TypeOK, Inspection!DropPod, Inspection!LeaveIf
<1>5. Inspection!TypeOK'
  BY DEF Inspection!IInv, Inspection!TypeOK, Inspection!StepsKnow, Inspection!At, Inspection!To,
     Inspection!CleanupNeeded, Inspection!LeaveIf, Inspection!DropPod
<1>6. Inspection!WorkersLive'
  BY DEF Inspection!IInv, Inspection!TypeOK, Inspection!WorkersLive, Inspection!To,
     Inspection!LeaveIf, Inspection!DropPod
<1>7. Inspection!PodsToCome'
  BY DEF Inspection!IInv, Inspection!TypeOK, Inspection!PodsToCome, Inspection!To,
     Inspection!LeaveIf, Inspection!DropPod
<1>8. Inspection!StepsKnow'
  BY DEF Inspection!IInv, Inspection!TypeOK, Inspection!StepsKnow, Inspection!At, Inspection!To,
     Inspection!CleanupNeeded, Inspection!LeaveIf, Inspection!DropPod
<1>9. Inspection!NothingAhead'
  BY DEF Inspection!IInv, Inspection!TypeOK, Inspection!NothingAhead, Inspection!To,
     Inspection!LeaveIf, Inspection!DropPod
<1>10. Inspection!WorkerConfined'
  BY <1>3
    DEF Inspection!IInv, Inspection!TypeOK, Inspection!WorkerConfined, Inspection!LeaveIf,
     Inspection!DropPod
<1>11. Inspection!LeftoversNamed'
  BY <1>1, <1>2, <1>3, <1>4 DEF Inspection!IInv, Inspection!LeftoversNamed, Inspection!At
<1> QED BY <1>1, <1>2, <1>3, <1>4, <1>5, <1>6, <1>7, <1>8, <1>9, <1>10, <1>11 DEF Inspection!IInv

(* The policy goes after its Pod was dealt with.                            *)
LEMMA InspectionDropPolicyKeeps ==
  ASSUME Inspection!IInv, Inspection!DropPolicy
  PROVE  Inspection!IInv'
<1>1. s5.n \in 0..InspectionRuns /\ s5.n \in Nat /\ 1..s5.n \subseteq Inspection!Runs
      /\ \A m \in Inspection!Runs : m \in Nat
  BY InspectionAssumption
    DEF Inspection!IInv, Inspection!TypeOK, Inspection!Runs, Inspection!InspectionAssumption
<1>2. \A m \in Inspection!Runs : m # s5.n => (m \in s2' <=> m \in s2)
  BY DEF Inspection!IInv, Inspection!DropPolicy
<1>3. \A m \in Inspection!Runs : <<"pod", m>> \in s7 => <<"pod", m>> \in s7'
  BY DEF Inspection!DropPolicy, Inspection!CleanupNeeded
<1>4. Inspection!At("dropPolicy") /\ UNCHANGED <<s1, s3>>
  BY DEF Inspection!DropPolicy
<1>5. \A m \in s3 : m # s5.n => (m \in s2' \/ s1'[m] = "leaving" \/ <<"pod", m>> \in s7')
  BY <1>2, <1>3, <1>4 DEF Inspection!IInv, Inspection!TypeOK, Inspection!WorkerConfined
<1>6. s5.n \in s3 => (s5.n \in s2' \/ s1'[s5.n] = "leaving" \/ <<"pod", s5.n>> \in s7')
  BY <1>3, <1>4
    DEF Inspection!IInv, Inspection!TypeOK, Inspection!WorkersLive, Inspection!StepsKnow
<1>7. Inspection!TypeOK'
  BY DEF Inspection!IInv, Inspection!TypeOK, Inspection!StepsKnow, Inspection!At, Inspection!End,
     Inspection!CleanupNeeded, Inspection!DropPolicy
<1>8. Inspection!WorkersLive'
  BY DEF Inspection!IInv, Inspection!TypeOK, Inspection!WorkersLive, Inspection!End,
     Inspection!DropPolicy
<1>9. Inspection!PodsToCome'
  BY DEF Inspection!IInv, Inspection!TypeOK, Inspection!PodsToCome, Inspection!End,
     Inspection!DropPolicy
<1>10. Inspection!StepsKnow'
  BY DEF Inspection!IInv, Inspection!TypeOK, Inspection!StepsKnow, Inspection!At, Inspection!End,
     Inspection!DropPolicy
<1>11. Inspection!NothingAhead'
  BY DEF Inspection!IInv, Inspection!TypeOK, Inspection!NothingAhead, Inspection!End,
     Inspection!DropPolicy
<1>12. Inspection!WorkerConfined'
  BY <1>4, <1>5, <1>6 DEF Inspection!WorkerConfined
<1>13. Inspection!LeftoversNamed'
  BY DEF Inspection!IInv, Inspection!TypeOK, Inspection!StepsKnow, Inspection!LeftoversNamed,
     Inspection!End, Inspection!CleanupNeeded, Inspection!DropPolicy
<1> QED BY <1>1, <1>2, <1>3, <1>4, <1>5, <1>6, <1>7, <1>8, <1>9, <1>10, <1>11, <1>12, <1>13
          DEF Inspection!IInv

(* A run that is cut short is remembered, with what it had begun.           *)
LEMMA InspectionCutShortKeeps ==
  ASSUME Inspection!IInv, Inspection!CutShort
  PROVE  Inspection!IInv'
<1>1. s5.n \in 0..InspectionRuns /\ s5.n \in Nat /\ 1..s5.n \subseteq Inspection!Runs
      /\ \A m \in Inspection!Runs : m \in Nat
  BY InspectionAssumption
    DEF Inspection!IInv, Inspection!TypeOK, Inspection!Runs, Inspection!InspectionAssumption
<1>2. s5'.n = s5.n /\ s5'.step = "idle" /\ s9' = s9 \cup {s5.n} /\ UNCHANGED <<s7, s8>>
  BY DEF Inspection!IInv, Inspection!CutShort, Inspection!End
<1>3. \A m \in Inspection!Runs : m # s5.n => s1'[m] = s1[m]
  BY DEF Inspection!IInv, Inspection!TypeOK, Inspection!CutShort, Inspection!LeaveIf,
     Inspection!Cluster
<1>4. \A m \in Inspection!Runs : m # s5.n => (m \in s2' <=> m \in s2) /\ (m \in s3' <=> m \in s3)
  BY DEF Inspection!IInv, Inspection!CutShort, Inspection!Cluster
<1>5. s5.n \in s3' => s5.n \in s3 \/ (s5.n \in s2 /\ Inspection!At("exec"))
  BY DEF Inspection!IInv, Inspection!StepsKnow, Inspection!At, Inspection!CutShort,
     Inspection!Cluster
<1>6. s5.n \in s2 /\ s5.n \notin s2' => Inspection!At("dropPolicy") /\ s1' = s1
  BY DEF Inspection!IInv, Inspection!CutShort, Inspection!Cluster, Inspection!At
<1>7. s1[s5.n] = "leaving" => s1'[s5.n] = "leaving"
  BY DEF Inspection!IInv, Inspection!TypeOK, Inspection!CutShort, Inspection!Cluster,
     Inspection!LeaveIf
<1>8. s5.n \in Inspection!Runs
  BY DEF Inspection!CutShort, Inspection!IInv, Inspection!StepsKnow
<1>9. s1' \in [Inspection!Runs -> {"absent", "ended", "leaving"} \cup Inspection!Alive]
  BY DEF Inspection!IInv, Inspection!TypeOK, Inspection!CutShort, Inspection!Cluster,
     Inspection!LeaveIf
<1>10. s2' \subseteq Inspection!Runs /\ s3' \subseteq Inspection!Runs
       /\ s4' \subseteq Inspection!Runs
  BY <1>8 DEF Inspection!IInv, Inspection!TypeOK, Inspection!CutShort, Inspection!Cluster
<1>11. s9' \subseteq Inspection!Runs /\ s8' \subseteq Inspection!Runs
       /\ s5' = [s5 EXCEPT !.step = "idle"] /\ s6' = "cancelled" /\ s7' = s7
  BY <1>8 DEF Inspection!IInv, Inspection!TypeOK, Inspection!CutShort, Inspection!End
<1>12. \A m \in s3' : m # s5.n => (m \in s2' \/ s1'[m] = "leaving" \/ <<"pod", m>> \in s7')
  BY <1>2, <1>3, <1>4, <1>10 DEF Inspection!IInv, Inspection!WorkerConfined
<1>13. s5.n \in s3 => (s5.n \in s2' \/ s1'[s5.n] = "leaving" \/ <<"pod", s5.n>> \in s7')
  BY <1>2, <1>6, <1>7
    DEF Inspection!IInv, Inspection!WorkersLive, Inspection!StepsKnow, Inspection!WorkerConfined
<1>14. s5.n \notin s3 /\ s5.n \in s3' => s5.n \in s2'
  BY <1>5, <1>6 DEF Inspection!At
<1>15. Inspection!TypeOK'
  BY <1>9, <1>10, <1>11 DEF Inspection!IInv, Inspection!TypeOK
<1>16. Inspection!WorkersLive'
  BY DEF Inspection!IInv, Inspection!TypeOK, Inspection!WorkersLive, Inspection!StepsKnow,
     Inspection!At, Inspection!End, Inspection!Cluster, Inspection!LeaveIf, Inspection!CutShort
<1>17. Inspection!PodsToCome'
  BY DEF Inspection!IInv, Inspection!TypeOK, Inspection!PodsToCome, Inspection!StepsKnow,
     Inspection!End, Inspection!Cluster, Inspection!LeaveIf, Inspection!CutShort
<1>18. Inspection!StepsKnow'
  BY DEF Inspection!IInv, Inspection!StepsKnow, Inspection!At, Inspection!End, Inspection!CutShort
<1>19. Inspection!NothingAhead'
  BY DEF Inspection!IInv, Inspection!TypeOK, Inspection!NothingAhead, Inspection!End,
     Inspection!Cluster, Inspection!LeaveIf, Inspection!CutShort
<1>20. Inspection!WorkerConfined'
  BY <1>12, <1>13, <1>14 DEF Inspection!WorkerConfined
<1>21. Inspection!LeftoversNamed'
  BY <1>1, <1>2, <1>3 DEF Inspection!IInv, Inspection!LeftoversNamed
<1> QED BY <1>1, <1>2, <1>3, <1>4, <1>5, <1>6, <1>7, <1>8, <1>9, <1>10, <1>11, <1>12, <1>13,
           <1>14, <1>15, <1>16, <1>17, <1>18, <1>19, <1>20, <1>21 DEF Inspection!IInv

(* A late Pod is of a run that never learned of it.                         *)
LEMMA InspectionLandKeeps ==
  ASSUME Inspection!IInv, NEW n \in Inspection!Runs, Inspection!Land(n)
  PROVE  Inspection!IInv'
<1>1. Inspection!TypeOK'
  BY DEF Inspection!IInv, Inspection!TypeOK, Inspection!Alive, Inspection!Notes, Inspection!Own,
     Inspection!Land
<1>2. Inspection!WorkersLive'
  BY DEF Inspection!IInv, Inspection!WorkersLive, Inspection!Notes, Inspection!Own,
     Inspection!Land
<1>3. Inspection!PodsToCome'
  BY DEF Inspection!IInv, Inspection!PodsToCome, Inspection!Notes, Inspection!Own, Inspection!Land
<1>4. Inspection!StepsKnow'
  BY DEF Inspection!IInv, Inspection!PodsToCome, Inspection!StepsKnow, Inspection!At,
     Inspection!Notes, Inspection!Own, Inspection!Land
<1>5. Inspection!NothingAhead'
  BY DEF Inspection!IInv, Inspection!NothingAhead, Inspection!Notes, Inspection!Own,
     Inspection!Land
<1>6. Inspection!WorkerConfined'
  BY DEF Inspection!IInv, Inspection!TypeOK, Inspection!PodsToCome, Inspection!WorkerConfined,
     Inspection!Notes, Inspection!Own, Inspection!Land
<1>7. Inspection!LeftoversNamed'
  BY DEF Inspection!IInv, Inspection!PodsToCome, Inspection!LeftoversNamed, Inspection!At,
     Inspection!Notes, Inspection!Own, Inspection!Land
<1> QED BY <1>1, <1>2, <1>3, <1>4, <1>5, <1>6, <1>7 DEF Inspection!IInv

(* A Pod that is not ready any more has no worker.                          *)
LEMMA InspectionPodMovesKeeps ==
  ASSUME Inspection!IInv, NEW n \in Inspection!Runs, Inspection!PodMoves(n)
  PROVE  Inspection!IInv'
<1>1. s5.n \in 0..InspectionRuns /\ s5.n \in Nat /\ 1..s5.n \subseteq Inspection!Runs
      /\ \A m \in Inspection!Runs : m \in Nat
  BY InspectionAssumption
    DEF Inspection!IInv, Inspection!TypeOK, Inspection!Runs, Inspection!InspectionAssumption
<1>2. UNCHANGED <<s5, s7, s9, s8>>
  BY DEF Inspection!PodMoves, Inspection!Own, Inspection!Notes
<1>3. \A m \in Inspection!Runs : s1'[m] \notin {"absent", "leaving"} => s1[m] \notin {"absent",
      "leaving"}
  BY DEF Inspection!IInv, Inspection!TypeOK, Inspection!PodMoves, Inspection!Alive
<1>4. Inspection!TypeOK'
  BY DEF Inspection!IInv, Inspection!TypeOK, Inspection!Alive, Inspection!Notes, Inspection!Own,
     Inspection!PodMoves
<1>5. Inspection!WorkersLive'
  BY DEF Inspection!IInv, Inspection!TypeOK, Inspection!WorkersLive, Inspection!Notes,
     Inspection!Own, Inspection!PodMoves
<1>6. Inspection!PodsToCome'
  BY DEF Inspection!IInv, Inspection!TypeOK, Inspection!PodsToCome, Inspection!Alive,
     Inspection!Notes, Inspection!Own, Inspection!PodMoves
<1>7. Inspection!StepsKnow'
  BY DEF Inspection!IInv, Inspection!TypeOK, Inspection!StepsKnow, Inspection!Alive,
     Inspection!At, Inspection!Notes, Inspection!Own, Inspection!PodMoves
<1>8. Inspection!NothingAhead'
  BY DEF Inspection!IInv, Inspection!TypeOK, Inspection!NothingAhead, Inspection!Alive,
     Inspection!Notes, Inspection!Own, Inspection!PodMoves
<1>9. Inspection!WorkerConfined'
  BY DEF Inspection!IInv, Inspection!TypeOK, Inspection!WorkerConfined, Inspection!Notes,
     Inspection!Own, Inspection!PodMoves
<1>10. Inspection!LeftoversNamed'
  BY <1>1, <1>2, <1>3 DEF Inspection!IInv, Inspection!LeftoversNamed, Inspection!At
<1> QED BY <1>1, <1>2, <1>3, <1>4, <1>5, <1>6, <1>7, <1>8, <1>9, <1>10 DEF Inspection!IInv

(* A worker less needs no policy.                                           *)
LEMMA InspectionWorkerEndsKeeps ==
  ASSUME Inspection!IInv, NEW n \in Inspection!Runs, Inspection!WorkerEnds(n)
  PROVE  Inspection!IInv'
<1>1. Inspection!TypeOK'
  BY DEF Inspection!IInv, Inspection!TypeOK, Inspection!Notes, Inspection!Own,
     Inspection!WorkerEnds
<1>2. Inspection!WorkersLive'
  BY DEF Inspection!IInv, Inspection!WorkersLive, Inspection!Notes, Inspection!Own,
     Inspection!WorkerEnds
<1>3. Inspection!StepsKnow'
  BY DEF Inspection!IInv, Inspection!StepsKnow, Inspection!At, Inspection!Notes, Inspection!Own,
     Inspection!WorkerEnds
<1>4. Inspection!NothingAhead'
  BY DEF Inspection!IInv, Inspection!NothingAhead, Inspection!Notes, Inspection!Own,
     Inspection!WorkerEnds
<1>5. Inspection!WorkerConfined'
  BY DEF Inspection!IInv, Inspection!WorkerConfined, Inspection!Notes, Inspection!Own,
     Inspection!WorkerEnds
<1>6. Inspection!PodsToCome' /\ Inspection!LeftoversNamed'
  BY DEF Inspection!IInv, Inspection!PodsToCome, Inspection!LeftoversNamed, Inspection!At,
     Inspection!Notes, Inspection!Own, Inspection!WorkerEnds
<1> QED BY <1>1, <1>2, <1>3, <1>4, <1>5, <1>6 DEF Inspection!IInv

(* A policy is collected when its Pod is gone, and the worker with it.      *)
LEMMA InspectionCollectKeeps ==
  ASSUME Inspection!IInv, NEW n \in Inspection!Runs, Inspection!Collect(n)
  PROVE  Inspection!IInv'
<1>1. Inspection!TypeOK'
  BY DEF Inspection!IInv, Inspection!TypeOK, Inspection!Notes, Inspection!Own, Inspection!Collect
<1>2. Inspection!StepsKnow'
  BY DEF Inspection!IInv, Inspection!StepsKnow, Inspection!At, Inspection!Notes, Inspection!Own,
     Inspection!Collect
<1>3. Inspection!NothingAhead'
  BY DEF Inspection!IInv, Inspection!NothingAhead, Inspection!Notes, Inspection!Own,
     Inspection!Collect
<1>4. Inspection!WorkerConfined'
  BY DEF Inspection!IInv, Inspection!WorkersLive, Inspection!WorkerConfined, Inspection!Notes,
     Inspection!Own, Inspection!Collect
<1>5. Inspection!WorkersLive' /\ Inspection!PodsToCome' /\ Inspection!LeftoversNamed'
  BY DEF Inspection!IInv, Inspection!WorkersLive, Inspection!PodsToCome,
     Inspection!LeftoversNamed, Inspection!At, Inspection!Notes, Inspection!Own,
     Inspection!Collect
<1> QED BY <1>1, <1>2, <1>3, <1>4, <1>5 DEF Inspection!IInv

(* Any step of a run, of the cluster or of the worker.                      *)
LEMMA InspectionNext == ASSUME Inspection!IInv, Inspection!Next PROVE Inspection!IInv'
  BY InspectionStartKeeps, InspectionCreatePodKeeps, InspectionCreatePolicyKeeps,
     InspectionWaitReadyKeeps, InspectionExecuteKeeps, InspectionAnswerKeeps,
     InspectionDropPodKeeps, InspectionDropPolicyKeeps, InspectionCutShortKeeps,
     InspectionLandKeeps, InspectionPodMovesKeeps, InspectionWorkerEndsKeeps,
     InspectionCollectKeeps DEF Inspection!Next

-----------------------------------------------------------------------------
(* The rollouts: s1 the kind, s2 the workload, s3 what the controller has   *)
(* read of it, s4 pods, s5 the status, s6 the digests wanted, s7 the Jobs'  *)
(* steps, s8 their answers, s9 the bound.                                   *)

(* The component counts as everyone does.                                  *)
LEMMA RolloutCounts ==
  \A S : /\ Rollout!IsFiniteSet(S) <=> IsFiniteSet(S)
         /\ Rollout!Cardinality(S) = Cardinality(S)
  BY DEF Rollout!IsFiniteSet, IsFiniteSet, Rollout!Cardinality, Cardinality

(* What is counted of the pods: some of the slots; all the standing ones    *)
(* are current as soon as there are as many of both.                         *)
LEMMA PodsCounted ==
  /\ Rollout!Standing \subseteq Slots /\ Rollout!Current \subseteq Rollout!Standing
     /\ Rollout!IsFiniteSet(Rollout!Standing)
  /\ Rollout!Cardinality(Rollout!Standing) \in Rollout!Count
     /\ Rollout!Cardinality(Rollout!Current) \in Rollout!Count
  /\ Rollout!Cardinality({s \in Rollout!Standing : s4[s].ready}) \in Rollout!Count
  /\ Rollout!Cardinality(Rollout!Current) <= Rollout!Cardinality(Rollout!Standing)
  /\ Rollout!Cardinality(Rollout!Current) = Rollout!Cardinality(Rollout!Standing)
     => Rollout!Current = Rollout!Standing
<1>1. Rollout!Standing \subseteq Slots /\ Rollout!Current \subseteq Rollout!Standing
      /\ Rollout!IsFiniteSet(Slots)
  BY RolloutAssumption DEF Rollout!Standing, Rollout!Current, Rollout!RolloutAssumption
<1>2. \A S \in SUBSET Slots : Rollout!IsFiniteSet(S) /\ Rollout!Cardinality(S) \in Rollout!Count
  BY <1>1, RolloutCounts, FS_Subset, FS_CardinalityType DEF Rollout!Count
<1>3. {s \in Rollout!Standing : s4[s].ready} \in SUBSET Slots /\ Rollout!Standing \in SUBSET Slots
      /\ Rollout!Current \in SUBSET Slots
  BY <1>1
<1>4. Rollout!IsFiniteSet(Rollout!Standing)
  BY <1>2, <1>3
<1>5. /\ Rollout!Cardinality(Rollout!Current) <= Rollout!Cardinality(Rollout!Standing)
      /\ Rollout!Cardinality(Rollout!Current) = Rollout!Cardinality(Rollout!Standing)
         => Rollout!Current = Rollout!Standing
  BY <1>1, <1>4, RolloutCounts, FS_Subset
<1> QED BY <1>1, <1>2, <1>3, <1>4, <1>5

(* A standing pod was made from a template.                                 *)
LEMMA PodsMade ==
  ASSUME Rollout!TypeOK
  PROVE  \A s \in Rollout!Standing : s4[s] \in Rollout!Pod /\ s4[s].template \in Rollout!Templates
  BY DEF Rollout!TypeOK, Rollout!Standing, Rollout!Pod

(* At first nothing stands, and the controller has read the workload.       *)
LEMMA RolloutInit == Rollout!Init => Rollout!IInv
<1> SUFFICES ASSUME Rollout!Init PROVE Rollout!IInv OBVIOUS
<1>1. MaxChanges \in Nat /\ RolloutRuns \in Nat /\ 1 \in 1..MaxChanges /\ 0 \in 0..MaxChanges
  BY RolloutAssumption DEF Rollout!RolloutAssumption
<1>2. Rollout!Standing = {} /\ Rollout!Cardinality(Slots) \in Nat /\ 0 \in Rollout!Count
  BY RolloutAssumption, RolloutCounts, FS_CardinalityType
    DEF Rollout!Init, Rollout!Standing, Rollout!RolloutAssumption, Rollout!Count
<1>3. PICK n \in 1..Rollout!Cardinality(Slots), t \in Rollout!Templates :
        s2 = [generation |-> 1, replicas |-> n, template |-> t]
  BY DEF Rollout!Init
<1>4. s2 \in Rollout!Workload /\ s2.generation = 1 /\ s3 = s2
  BY <1>1, <1>2, <1>3 DEF Rollout!Workload, Rollout!Init
<1>5. s5 \in [observed : 0..MaxChanges, updated : Rollout!Count, replicas : Rollout!Count,
      available : Rollout!Count]
      /\ s5.observed = 0
  BY <1>1, <1>2 DEF Rollout!Init
<1>6. s6 \in Rollout!Templates /\ s4 \in [Slots -> Rollout!Pod \cup {None}]
  BY DEF Rollout!Init, Rollout!Templates
<1>7. s7 \in [Purposes -> {"idle", "read", "patch"}] /\ s9 \in 0..RolloutRuns
      /\ s8 \in [Purposes -> {"none", "ready", "rolling", "failed"}]
      /\ s1 \in {"Deployment", "DaemonSet"}
  BY <1>1 DEF Rollout!Init
<1>8. Rollout!TypeOK
  BY <1>4, <1>5, <1>6, <1>7 DEF Rollout!TypeOK
<1>9. Rollout!GenerationsTell /\ Rollout!CountsStand
  BY <1>2, <1>4, <1>5 DEF Rollout!GenerationsTell, Rollout!CountsStand
<1>10. Rollout!NodesStand
  BY <1>2, <1>4, RolloutCounts, FS_EmptySet DEF Rollout!NodesStand, Rollout!Workload
<1> QED BY <1>8, <1>9, <1>10 DEF Rollout!IInv

(* A step that leaves the workload and its pods alone.                       *)
LEMMA RolloutJobsKeep ==
  ASSUME Rollout!IInv, UNCHANGED <<s1, s2, s3, s4, s5>>,
         s6' \in Rollout!Templates, s7' \in [Purposes -> {"idle", "read", "patch"}],
         s8' \in [Purposes -> {"none", "ready", "rolling", "failed"}], s9' \in 0..RolloutRuns
  PROVE  Rollout!IInv'
<1>1. Rollout!TypeOK'
  BY DEF Rollout!IInv, Rollout!TypeOK
<1>2. Rollout!Standing' = Rollout!Standing
  BY DEF Rollout!Standing
<1>3. Rollout!GenerationsTell' /\ Rollout!CountsStand' /\ Rollout!NodesStand'
  BY <1>2
    DEF Rollout!IInv, Rollout!GenerationsTell, Rollout!CountsStand, Rollout!CountsAreOf,
     Rollout!NodesStand
<1> QED BY <1>1, <1>3 DEF Rollout!IInv

(* A Job starts with a digest that it wants.                                *)
LEMMA RolloutStartKeeps ==
  ASSUME Rollout!IInv, NEW p \in Purposes, Rollout!Start(p)
  PROVE  Rollout!IInv'
<1>1. PICK d \in Digests : s6' = [s6 EXCEPT ![p] = d]
  BY DEF Rollout!Start
<1>2. s6' \in Rollout!Templates
  BY <1>1 DEF Rollout!IInv, Rollout!TypeOK, Rollout!Templates
<1>3. s9' \in 0..RolloutRuns
  BY RolloutAssumption DEF Rollout!RolloutAssumption, Rollout!Start, Rollout!IInv, Rollout!TypeOK
<1> QED BY <1>2, <1>3, RolloutJobsKeep
          DEF Rollout!Start, Rollout!To, Rollout!Others, Rollout!IInv, Rollout!TypeOK

(* A reading changes nothing but what its Job knows.                        *)
LEMMA RolloutReadKeeps ==
  ASSUME Rollout!IInv, NEW p \in Purposes, Rollout!Read(p)
  PROVE  Rollout!IInv'
<1>1. s7' \in [Purposes -> {"idle", "read", "patch"}]
  BY DEF Rollout!Read, Rollout!End, Rollout!To, Rollout!IInv, Rollout!TypeOK
<1>2. s8' \in [Purposes -> {"none", "ready", "rolling", "failed"}]
  BY DEF Rollout!Read, Rollout!End, Rollout!IInv, Rollout!TypeOK
<1> QED BY <1>1, <1>2, RolloutJobsKeep
          DEF Rollout!Read, Rollout!Others, Rollout!IInv, Rollout!TypeOK

(* A change of the workload is a generation ahead of what was read.         *)
LEMMA RolloutChangeKeeps ==
  ASSUME Rollout!IInv, NEW new \in Rollout!Workload, Rollout!Change(new),
         s1 = "DaemonSet" => new.replicas = s2.replicas,
         UNCHANGED <<s1, s3, s4, s5, s6, s9>>,
         s7' \in [Purposes -> {"idle", "read", "patch"}],
         s8' \in [Purposes -> {"none", "ready", "rolling", "failed"}]
  PROVE  Rollout!IInv'
<1>1. s2 \in Rollout!Workload /\ s3 \in Rollout!Workload /\ s2.generation < MaxChanges
      /\ s2' = [new EXCEPT !.generation = s2.generation + 1]
      /\ MaxChanges \in Nat
  BY RolloutAssumption DEF Rollout!IInv, Rollout!TypeOK, Rollout!Change, Rollout!RolloutAssumption
<1>2. s2.generation + 1 \in 1..MaxChanges
  BY <1>1 DEF Rollout!Workload
<1>3. s2' \in Rollout!Workload /\ s2'.generation = s2.generation + 1
      /\ s2'.replicas = new.replicas
  BY <1>1, <1>2 DEF Rollout!Workload
<1>4. Rollout!TypeOK'
  BY <1>3 DEF Rollout!IInv, Rollout!TypeOK
<1>5. Rollout!Standing' = Rollout!Standing
  BY DEF Rollout!Standing
<1>6. Rollout!CountsStand' /\ Rollout!NodesStand'
  BY <1>3, <1>5 DEF Rollout!IInv, Rollout!CountsStand, Rollout!CountsAreOf, Rollout!NodesStand
<1>7. s5.observed \in Nat /\ s3.generation \in Nat /\ s2.generation \in Nat
  BY <1>1 DEF Rollout!IInv, Rollout!TypeOK, Rollout!Workload
<1>8. Rollout!GenerationsTell'
  BY <1>3, <1>7 DEF Rollout!IInv, Rollout!GenerationsTell
<1> QED BY <1>4, <1>6, <1>8 DEF Rollout!IInv

(* A patch makes a new generation or changes nothing.                       *)
LEMMA RolloutPatchKeeps ==
  ASSUME Rollout!IInv, NEW p \in Purposes, Rollout!Patch(p)
  PROVE  Rollout!IInv'
<1> DEFINE new == [s2 EXCEPT !.template[p] = s6[p]]
<1>1. s2 \in Rollout!Workload /\ s6[p] \in Digests \cup {None}
  BY DEF Rollout!IInv, Rollout!TypeOK, Rollout!Templates
<1>2. new \in Rollout!Workload /\ new.replicas = s2.replicas
  BY <1>1 DEF Rollout!Workload, Rollout!Templates
<1>3. s7' \in [Purposes -> {"idle", "read", "patch"}]
  BY DEF Rollout!Patch, Rollout!End, Rollout!To, Rollout!IInv, Rollout!TypeOK
<1>4. s8' \in [Purposes -> {"none", "ready", "rolling", "failed"}]
  BY DEF Rollout!Patch, Rollout!End, Rollout!IInv, Rollout!TypeOK
<1>5. UNCHANGED <<s1, s3, s4, s5, s6, s9>> /\ (UNCHANGED s2 \/ Rollout!Change(new))
  BY DEF Rollout!Patch, Rollout!Annotate, Rollout!Others
<1>6. CASE Rollout!Change(new)
  BY <1>2, <1>3, <1>4, <1>5, <1>6, RolloutChangeKeeps
<1>7. CASE UNCHANGED s2
  BY <1>3, <1>4, <1>5, <1>7, RolloutJobsKeep DEF Rollout!IInv, Rollout!TypeOK
<1> QED BY <1>5, <1>6, <1>7

(* So does a new scale, of a Deployment.                                    *)
LEMMA RolloutScaleKeeps == ASSUME Rollout!IInv, Rollout!Scale PROVE Rollout!IInv'
<1>1. PICK n \in Rollout!Count \ {s2.replicas} : Rollout!Change([s2 EXCEPT !.replicas = n])
  BY DEF Rollout!Scale
<1>2. [s2 EXCEPT !.replicas = n] \in Rollout!Workload
  BY DEF Rollout!IInv, Rollout!TypeOK, Rollout!Workload, Rollout!Count
<1> QED BY <1>1, <1>2, RolloutChangeKeeps
          DEF Rollout!Scale, Rollout!Others, Rollout!Jobs, Rollout!IInv, Rollout!TypeOK

(* And so does the template of an earlier pod.                              *)
LEMMA RolloutUndoKeeps == ASSUME Rollout!IInv, Rollout!Undo PROVE Rollout!IInv'
<1>1. PICK s \in Rollout!Standing : Rollout!Change([s2 EXCEPT !.template = s4[s].template])
  BY DEF Rollout!Undo
<1>2. [s2 EXCEPT !.template = s4[s].template] \in Rollout!Workload
      /\ [s2 EXCEPT !.template = s4[s].template].replicas = s2.replicas
  BY PodsMade DEF Rollout!IInv, Rollout!TypeOK, Rollout!Workload
<1> QED BY <1>1, <1>2, RolloutChangeKeeps
          DEF Rollout!Undo, Rollout!Others, Rollout!Jobs, Rollout!IInv, Rollout!TypeOK

(* Once the controller has read another generation, no status is of it.     *)
LEMMA RolloutObserveKeeps == ASSUME Rollout!IInv, Rollout!Observe PROVE Rollout!IInv'
<1>1. Rollout!TypeOK'
  BY DEF Rollout!IInv, Rollout!TypeOK, Rollout!Observe, Rollout!Jobs
<1>2. Rollout!Standing' = Rollout!Standing
  BY DEF Rollout!Standing, Rollout!Observe
<1>3. s2 \in Rollout!Workload /\ s3 \in Rollout!Workload /\ s5.observed \in Nat
  BY DEF Rollout!IInv, Rollout!TypeOK
<1>4. s5.observed < s2.generation
  BY <1>3 DEF Rollout!IInv, Rollout!GenerationsTell, Rollout!Observe, Rollout!Workload
<1>5. Rollout!GenerationsTell' /\ Rollout!CountsStand'
  BY <1>3, <1>4
    DEF Rollout!GenerationsTell, Rollout!CountsStand, Rollout!CountsAreOf, Rollout!Observe,
     Rollout!Workload
<1>6. Rollout!NodesStand'
  BY <1>2 DEF Rollout!IInv, Rollout!NodesStand, Rollout!Observe
<1> QED BY <1>1, <1>5, <1>6 DEF Rollout!IInv

(* A pod is added with the template that the controller has read.           *)
LEMMA RolloutAddPodKeeps ==
  ASSUME Rollout!IInv, NEW s \in Slots, Rollout!AddPod(s)
  PROVE  Rollout!IInv'
<1>1. [template |-> s3.template, ready |-> FALSE] \in Rollout!Pod
      /\ s3.template \in Rollout!Templates
  BY DEF Rollout!IInv, Rollout!TypeOK, Rollout!Workload, Rollout!Pod
<1>2. [template |-> s3.template, ready |-> FALSE] # None
  BY <1>1, RolloutAssumption DEF Rollout!RolloutAssumption
<1>3. /\ s4 \in [Slots -> Rollout!Pod \cup {None}]
      /\ s4' = [s4 EXCEPT ![s] = [template |-> s3.template, ready |-> FALSE]]
      /\ s4[s] = None /\ UNCHANGED <<s1, s2, s3, s5, s6, s7, s8, s9>>
  BY DEF Rollout!AddPod, Rollout!Jobs, Rollout!IInv, Rollout!TypeOK
<1>4. Rollout!TypeOK'
  BY <1>1, <1>3 DEF Rollout!IInv, Rollout!TypeOK
<1>5. Rollout!Standing' = Rollout!Standing \cup {s} /\ s \notin Rollout!Standing
  BY <1>2, <1>3 DEF Rollout!Standing
<1>6. Rollout!GenerationsTell' /\ Rollout!CountsStand'
  BY <1>3, <1>5
    DEF Rollout!IInv, Rollout!GenerationsTell, Rollout!CountsStand, Rollout!CountsAreOf,
     Rollout!Standing
<1>7. ASSUME s1 = "DaemonSet" PROVE Rollout!Cardinality(Rollout!Standing') <= s3.replicas
  <2>1. Rollout!Cardinality(Rollout!Standing) < s3.replicas
    BY <1>7 DEF Rollout!AddPod
  <2>2. Rollout!Cardinality(Rollout!Standing') = Rollout!Cardinality(Rollout!Standing) + 1
    BY <1>5, PodsCounted, RolloutCounts, FS_AddElement
  <2>3. Rollout!Cardinality(Rollout!Standing) \in Nat /\ s3.replicas \in Nat
    BY PodsCounted, RolloutCounts, FS_CardinalityType
      DEF Rollout!IInv, Rollout!TypeOK, Rollout!Workload
  <2> QED BY <2>1, <2>2, <2>3
<1>8. Rollout!NodesStand'
  BY <1>3, <1>7 DEF Rollout!IInv, Rollout!NodesStand
<1> QED BY <1>4, <1>6, <1>8 DEF Rollout!IInv

(* A pod less leaves the others as they are.                                *)
LEMMA RolloutRemovePodKeeps ==
  ASSUME Rollout!IInv, NEW s \in Slots, Rollout!RemovePod(s)
  PROVE  Rollout!IInv'
<1>1. /\ s4 \in [Slots -> Rollout!Pod \cup {None}] /\ s4' = [s4 EXCEPT ![s] = None]
      /\ UNCHANGED <<s1, s2, s3, s5, s6, s7, s8, s9>>
  BY DEF Rollout!RemovePod, Rollout!Jobs, Rollout!IInv, Rollout!TypeOK
<1>2. Rollout!TypeOK'
  BY <1>1 DEF Rollout!IInv, Rollout!TypeOK
<1>3. Rollout!Standing' \subseteq Rollout!Standing /\ \A t \in Rollout!Standing' : s4'[t] = s4[t]
  BY <1>1 DEF Rollout!Standing
<1>4. Rollout!GenerationsTell' /\ Rollout!CountsStand'
  BY <1>1, <1>3
    DEF Rollout!IInv, Rollout!GenerationsTell, Rollout!CountsStand, Rollout!CountsAreOf
<1>5. /\ Rollout!Cardinality(Rollout!Standing') <= Rollout!Cardinality(Rollout!Standing)
         /\ Rollout!Cardinality(Rollout!Standing') \in Nat
      /\ Rollout!Cardinality(Rollout!Standing) \in Nat /\ s3.replicas \in Nat
  BY <1>3, PodsCounted, RolloutCounts, FS_Subset, FS_CardinalityType
    DEF Rollout!IInv, Rollout!TypeOK, Rollout!Workload
<1>6. Rollout!NodesStand'
  BY <1>1, <1>5 DEF Rollout!IInv, Rollout!NodesStand
<1> QED BY <1>2, <1>4, <1>6 DEF Rollout!IInv

(* A pod turns ready or not, and keeps its template.                        *)
LEMMA RolloutPodTurnsKeeps ==
  ASSUME Rollout!IInv, NEW s \in Slots, Rollout!PodTurns(s)
  PROVE  Rollout!IInv'
<1>1. PICK new \in Rollout!Pod : s4' = [s4 EXCEPT ![s] = new] /\ new.template = s4[s].template
  <2>1. s4[s] \in Rollout!Pod
    BY PodsMade DEF Rollout!PodTurns, Rollout!IInv
  <2>2. [s4[s] EXCEPT !.ready = ~s4[s].ready] \in Rollout!Pod
    <3>1. PICK turned \in BOOLEAN : turned = ~s4[s].ready
      BY <2>1 DEF Rollout!Pod
    <3>2. [s4[s] EXCEPT !.ready = turned] \in Rollout!Pod
      BY <2>1 DEF Rollout!Pod
    <3> QED BY <3>1, <3>2
  <2>3. [s4[s] EXCEPT !.ready = ~s4[s].ready].template = s4[s].template
    BY <2>1 DEF Rollout!Pod
  <2>4. s4' = [s4 EXCEPT ![s] = [s4[s] EXCEPT !.ready = ~s4[s].ready]]
    BY DEF Rollout!PodTurns
  <2> QED BY <2>2, <2>3, <2>4
<1>2. /\ s4 \in [Slots -> Rollout!Pod \cup {None}] /\ s \in Rollout!Standing
      /\ UNCHANGED <<s1, s2, s3, s5, s6, s7, s8, s9>>
  BY DEF Rollout!PodTurns, Rollout!Jobs, Rollout!IInv, Rollout!TypeOK
<1>3. Rollout!TypeOK'
  BY <1>1, <1>2 DEF Rollout!IInv, Rollout!TypeOK
<1>4. Rollout!Standing' = Rollout!Standing
      /\ \A t \in Rollout!Standing : s4'[t].template = s4[t].template
  BY <1>1, <1>2, RolloutAssumption DEF Rollout!Standing, Rollout!RolloutAssumption
<1>5. Rollout!GenerationsTell' /\ Rollout!CountsStand' /\ Rollout!NodesStand'
  BY <1>2, <1>4
    DEF Rollout!IInv, Rollout!GenerationsTell, Rollout!CountsStand, Rollout!CountsAreOf,
     Rollout!NodesStand
<1> QED BY <1>3, <1>5 DEF Rollout!IInv

(* A status that counts as many current pods as there are, and as there     *)
(* should be, was written when all were.                                     *)
LEMMA RolloutWriteStatusKeeps == ASSUME Rollout!IInv, Rollout!WriteStatus PROVE Rollout!IInv'
<1>1. /\ UNCHANGED <<s1, s2, s3, s4, s6, s7, s8, s9>>
      /\ s5' = [observed |-> s3.generation, updated |-> Rollout!Cardinality(Rollout!Current),
                    replicas |-> Rollout!Cardinality(Rollout!Standing),
                    available |-> Rollout!Cardinality({s \in Rollout!Standing : s4[s].ready})]
  BY DEF Rollout!WriteStatus, Rollout!Jobs
<1>2. s3.generation \in 0..MaxChanges /\ s3.replicas \in Nat
  BY DEF Rollout!IInv, Rollout!TypeOK, Rollout!Workload
<1>3. Rollout!TypeOK'
  BY <1>1, <1>2, PodsCounted DEF Rollout!IInv, Rollout!TypeOK
<1>4. Rollout!Standing' = Rollout!Standing
  BY <1>1 DEF Rollout!Standing
<1>5. Rollout!GenerationsTell' /\ Rollout!NodesStand'
  BY <1>1, <1>2, <1>4 DEF Rollout!IInv, Rollout!GenerationsTell, Rollout!NodesStand
<1>6. ASSUME Rollout!CountsAreOf' PROVE Rollout!Current = Rollout!Standing
  <2>1. Rollout!Cardinality(Rollout!Current) = s3.replicas
        /\ (s1 = "Deployment"
           => Rollout!Cardinality(Rollout!Standing) = Rollout!Cardinality(Rollout!Current))
    BY <1>1, <1>6 DEF Rollout!CountsAreOf
  <2>2. CASE s1 = "Deployment"
    BY <2>1, <2>2, PodsCounted
  <2>3. CASE s1 = "DaemonSet"
    <3>1. Rollout!Cardinality(Rollout!Standing) <= s3.replicas
      BY <2>3 DEF Rollout!IInv, Rollout!NodesStand
    <3>2. Rollout!Cardinality(Rollout!Standing) \in Nat
      BY PodsCounted, RolloutCounts, FS_CardinalityType
    <3> QED BY <1>2, <2>1, <3>1, <3>2, PodsCounted
  <2> QED BY <2>2, <2>3 DEF Rollout!IInv, Rollout!TypeOK
<1>7. Rollout!CountsStand'
  BY <1>1, <1>4, <1>6 DEF Rollout!CountsStand, Rollout!Current
<1> QED BY <1>3, <1>5, <1>7 DEF Rollout!IInv

(* Any step of a Job, the controller or an administrator.                   *)
LEMMA RolloutNext == ASSUME Rollout!IInv, Rollout!Next PROVE Rollout!IInv'
  BY RolloutStartKeeps, RolloutReadKeeps, RolloutPatchKeeps, RolloutObserveKeeps,
     RolloutWriteStatusKeeps, RolloutScaleKeeps, RolloutUndoKeeps, RolloutAddPodKeeps,
     RolloutRemovePodKeeps, RolloutPodTurnsKeeps DEF Rollout!Next

(* Only a reading tells a Job "ready"; at that moment the template is the   *)
(* one the controller has read and the counts are of it.                    *)
LEMMA ReadyIsRolled == ASSUME Rollout!IInv, Rollout!Next PROVE Rollout!ReadyMeansRolledStep
<1> SUFFICES ASSUME NEW p \in Purposes, s8'[p] = "ready", s8[p] # "ready"
             PROVE  \A s \in Rollout!Standing : s4[s].template[p] = s6[p]
  BY DEF Rollout!ReadyMeansRolledStep
<1>1. s8 \in [Purposes -> {"none", "ready", "rolling", "failed"}]
  BY DEF Rollout!IInv, Rollout!TypeOK
<1>2. ~(\E q \in Purposes : Rollout!Start(q) \/ Rollout!Patch(q))
  BY <1>1 DEF Rollout!Start, Rollout!Patch, Rollout!End
<1>3. s8' # s8
  OBVIOUS
<1>4. PICK q \in Purposes : Rollout!Read(q)
  BY <1>2, <1>3
    DEF Rollout!Next, Rollout!Observe, Rollout!WriteStatus, Rollout!Scale, Rollout!Undo,
     Rollout!AddPod, Rollout!RemovePod, Rollout!PodTurns, Rollout!Jobs
<1>5. s2.template[p] = s6[p] /\ Rollout!WorkloadReady
  <2>1. q = p
    BY <1>1, <1>4 DEF Rollout!Read, Rollout!End
  <2> QED BY <1>1, <1>4, <2>1 DEF Rollout!Read, Rollout!End
<1>6. s3 = s2 /\ Rollout!CountsAreOf
  <2>1. s5.observed \in Nat /\ s3.generation \in Nat /\ s2.generation \in Nat
    BY DEF Rollout!IInv, Rollout!TypeOK, Rollout!Workload
  <2>2. s3.generation = s2.generation /\ s5.observed = s3.generation
    BY <1>5, <2>1 DEF Rollout!WorkloadReady, Rollout!IInv, Rollout!GenerationsTell
  <2> QED BY <1>5, <2>2
            DEF Rollout!WorkloadReady, Rollout!IInv, Rollout!GenerationsTell, Rollout!CountsAreOf
<1> QED BY <1>5, <1>6 DEF Rollout!IInv, Rollout!CountsStand

-----------------------------------------------------------------------------
(* The observation of a gateway: s1 the scenario, s2 the catalog, s3 the    *)
(* inventory, s4 the trusted roots, s5 who serves, s6 what each replica     *)
(* loaded, s7 who is healthy, s8 the signers, s9 the status; of a run s10   *)
(* the step, s11 the revision expected, s12 its current copies, s13 the     *)
(* members it read, s14 the roots, s15 who is still to be sampled, s16 the  *)
(* revisions seen, s17 whether all were ready, s18 the signers verified,    *)
(* s19 its document; as history s20 what it could have seen, s21 the        *)
(* members at its second look, s22 who had started before it.               *)

(* What the other runs have is theirs.                                      *)
Apart(r) ==
  \A q \in Observations \ {r} :
    /\ s11'[q] = s11[q] /\ s13'[q] = s13[q] /\ s14'[q] = s14[q]
    /\ s15'[q] = s15[q] /\ s16'[q] = s16[q] /\ s17'[q] = s17[q]
    /\ s18'[q] = s18[q] /\ s19'[q] = s19[q] /\ s20'[q] = s20[q]
    /\ s21'[q] = s21[q] /\ s22'[q] = s22[q]

(* What a run knows stands as long as nothing that it is about changes.     *)
LEMMA GatewayKnowsKeeps ==
  ASSUME NEW q \in Observations, Observe!Knows(q), Observe!World,
         s10'[q] = s10[q], s11'[q] = s11[q], s13'[q] = s13[q],
         s14'[q] = s14[q], s15'[q] = s15[q], s16'[q] = s16[q],
         s17'[q] = s17[q], s18'[q] = s18[q], s19'[q] = s19[q],
         s20'[q] = s20[q], s21'[q] = s21[q], s22'[q] = s22[q],
         s12'[q] \subseteq s12[q],
         s9' = s9 \/ "status" \notin s12'[q]
  PROVE  Observe!Knows(q)'
<1>1. /\ UNCHANGED <<s1, s2, s3, s4, s5, s6, s7, s8>>
      /\ Observe!Members(s13[q])' = Observe!Members(s13[q])
      /\ Observe!Sampled(q)' = Observe!Sampled(q)
  BY DEF Observe!World, Observe!inputVars, Observe!gatewayVars, Observe!Members,
     Observe!Services, Observe!HasProxy, Observe!Sampled
<1>2. Observe!ReadsStand(q)' /\ Observe!OwnDocument(q)'
  BY <1>1 DEF Observe!Knows, Observe!ReadsStand, Observe!OwnDocument
<1>3. Observe!Watched(q)'
  BY <1>1 DEF Observe!Knows, Observe!Watched, Observe!Present
<1>4. Observe!Samples(q)'
  BY <1>1 DEF Observe!Knows, Observe!Samples, Observe!Evident, Observe!IsReady
<1>5. Observe!SecondLook(q)' /\ Observe!Signed(q)'
  BY <1>1 DEF Observe!Knows, Observe!SecondLook, Observe!Signed
<1>6. Observe!Claims(q)'
  BY <1>1 DEF Observe!Knows, Observe!Claims
<1>7. Observe!InputsMet(q)' /\ Observe!StatusEarlier(q)'
  BY DEF Observe!Knows, Observe!InputsMet, Observe!StatusEarlier
<1> QED BY <1>2, <1>3, <1>4, <1>5, <1>6, <1>7 DEF Observe!Knows

(* A step of one run.                                                       *)
LEMMA GatewayOneKeeps ==
  ASSUME Observe!IInv, NEW r \in Observations, s10[r] \notin Observe!Final, NEW to,
         s10' = [s10 EXCEPT ![r] = to],
         Observe!World, Apart(r), s9' = s9,
         \A q \in Observations \ {r} : s12'[q] = s12[q],
         Observe!TypeOK', Observe!Knows(r)'
  PROVE  Observe!IInv'
<1>1. s10 \in [Observations -> Observe!Steps] /\ (s9 # None => s9.run \in Observations)
  BY DEF Observe!IInv, Observe!TypeOK, Observe!Snapshot
<1>2. Observe!StatusEnded'
  BY <1>1 DEF Observe!IInv, Observe!StatusEnded
<1>3. ASSUME NEW q \in Observations \ {r} PROVE Observe!Knows(q)'
  BY <1>1, GatewayKnowsKeeps DEF Apart, Observe!IInv
<1> QED BY <1>2, <1>3 DEF Observe!IInv

(* Before a run starts it has looked at nothing and knows nothing.          *)
LEMMA ObserveInit == Observe!Init => Observe!IInv
<1> SUFFICES ASSUME Observe!Init PROVE Observe!IInv OBVIOUS
<1>1. Observe!TypeOK
  <2>1. Observe!Unseen \in Observe!Witness
        /\ Observe!Nobody \in [Observe!Services -> SUBSET Replicas]
    BY DEF Observe!Unseen, Observe!Witness, Observe!Nobody
  <2>2. s1 \in ObservedScenarios /\ "inventory" \in Observe!Steps
    BY DEF Observe!Init, Observe!Steps
  <2> QED BY <2>1, <2>2 DEF Observe!Init, Observe!TypeOK
<1>2. ASSUME NEW r \in Observations PROVE Observe!Knows(r)
  <2>1. Observe!Members(s13[r]) \subseteq s15[r]
    BY DEF Observe!Init, Observe!Members, Observe!Nobody
  <2> QED BY <2>1
            DEF Observe!Init, Observe!Knows, Observe!ReadsStand, Observe!OwnDocument,
             Observe!Watched, Observe!Samples, Observe!SecondLook, Observe!Signed,
             Observe!Claims, Observe!InputsMet, Observe!StatusEarlier, Observe!Early,
             Observe!Before, Observe!Sampling, Observe!Fallible, Observe!Judging, Observe!Final
<1> QED BY <1>1, <1>2 DEF Observe!IInv, Observe!StatusEnded, Observe!Init

-----------------------------------------------------------------------------
(* The history of a run only grows, and has what is the case.               *)
Grows(r) ==
  /\ s20[r].loaded \subseteq s20'[r].loaded
  /\ s20[r].ready \subseteq s20'[r].ready
  /\ s20[r].signed \subseteq s20'[r].signed
  /\ s20[r].inputs => s20'[r].inputs

(* A change around the gateway makes copies old; what a run has seen        *)
(* remains.                                                                 *)
LEMMA GatewaySurroundKeeps ==
  ASSUME Observe!IInv, UNCHANGED s1, Observe!Outside, Observe!TypeOK',
         \A r \in Observations : s12'[r] \subseteq s12[r],
         \A r \in Observations : Observe!ReadsStand(r)' /\ Observe!Watched(r)' /\ Grows(r)
  PROVE  Observe!IInv'
<1>1. /\ UNCHANGED <<s9, s10, s11, s13, s14, s15, s16, s17, s18,
                     s19, s21, s22>>
      /\ \A r \in Observations : Observe!Members(s13[r])' = Observe!Members(s13[r])
         /\ Observe!Sampled(r)' = Observe!Sampled(r)
  BY DEF Observe!Outside, Observe!sampleVars, Observe!historyVars, Observe!Members,
     Observe!Services, Observe!HasProxy, Observe!Sampled
<1>2. ASSUME NEW r \in Observations PROVE Observe!Knows(r)'
  <2>1. Observe!Knows(r)
    BY DEF Observe!IInv
  <2>2. Observe!OwnDocument(r)' /\ Observe!SecondLook(r)'
    BY <1>1, <2>1 DEF Observe!Knows, Observe!OwnDocument, Observe!SecondLook
  <2>3. Observe!Samples(r)'
    <3>1. \A p \in Replicas : (Observe!Evident(r, p) => Observe!Evident(r, p)')
            /\ (Observe!IsReady(r, p) => Observe!IsReady(r, p)')
      BY <1>1 DEF Observe!Evident, Observe!IsReady, Grows
    <3>2. Observe!Members(s13[r]) \subseteq Replicas
          /\ (s15[r] # {} => Observe!Sampled(r) \in Replicas)
      BY DEF Observe!IInv, Observe!TypeOK, Observe!Members, Observe!Sampled
    <3> QED BY <1>1, <2>1, <3>1, <3>2 DEF Observe!Knows, Observe!Samples
  <2>4. Observe!Signed(r)'
    BY <1>1, <2>1 DEF Observe!Knows, Observe!Signed, Grows
  <2>5. Observe!Claims(r)' /\ Observe!InputsMet(r)'
    BY <1>1, <2>1 DEF Observe!Knows, Observe!Claims, Observe!InputsMet, Grows
  <2>6. Observe!StatusEarlier(r)'
    BY <1>1, <2>1 DEF Observe!Knows, Observe!StatusEarlier
  <2> QED BY <2>2, <2>3, <2>4, <2>5, <2>6 DEF Observe!Knows
<1> QED BY <1>1, <1>2 DEF Observe!IInv, Observe!StatusEnded

(* The history of a run that samples has what is the case after a change.   *)
LEMMA WatchTells ==
  ASSUME Observe!IInv, Observe!Watch, Observe!Outside, s7' \subseteq Replicas
  PROVE  /\ s20' \in [Observations -> Observe!Witness]
         /\ \A r \in Observations : Observe!Watched(r)' /\ Grows(r)
<1>1. s20 \in [Observations -> Observe!Witness] /\ UNCHANGED <<s10, s11, s19>>
  BY DEF Observe!IInv, Observe!TypeOK, Observe!Outside
<1>2. ASSUME NEW r \in Observations
      PROVE  s20'[r] \in Observe!Witness /\ Observe!Watched(r)' /\ Grows(r)
  <2>1. s20[r] \in Observe!Witness
    BY <1>1
  <2>2. CASE s10[r] \notin Observe!Sampling
    BY <1>1, <2>1, <2>2 DEF Observe!Watch, Observe!Watched, Grows
  <2>3. CASE s10[r] \in Observe!Sampling
    <3>1. PICK w : w = [loaded |-> s20[r].loaded \cup Observe!Present(r)'.loaded,
                        ready |-> s20[r].ready \cup Observe!Present(r)'.ready,
                        signed |-> s20[r].signed \cup Observe!Present(r)'.signed,
                        inputs |-> s20[r].inputs \/ Observe!Present(r)'.inputs]
      OBVIOUS
    <3>2. s20'[r] = w
      BY <2>3, <3>1 DEF Observe!Watch
    <3>3. /\ w.loaded = s20[r].loaded \cup Observe!Present(r)'.loaded
          /\ w.ready = s20[r].ready \cup Observe!Present(r)'.ready
          /\ w.signed = s20[r].signed \cup Observe!Present(r)'.signed
          /\ w.inputs <=> (s20[r].inputs \/ Observe!Present(r)'.inputs)
      BY <3>1
    <3>4. /\ Observe!Present(r)'.loaded \subseteq Replicas
          /\ Observe!Present(r)'.ready \subseteq Replicas
          /\ Observe!Present(r)'.signed \subseteq Replicas
          /\ Observe!Present(r)'.inputs \in BOOLEAN
      BY DEF Observe!Present
    <3>5. w \in Observe!Witness
      BY <2>1, <3>1, <3>4 DEF Observe!Witness
    <3> QED BY <3>2, <3>3, <3>5 DEF Observe!Watched, Grows
  <2> QED BY <2>2, <2>3
<1>3. s20' = [r \in Observations |-> s20'[r]]
  BY DEF Observe!Watch
<1> QED BY <1>2, <1>3

(* An input that changes is current in no run.                              *)
LEMMA GatewayUpdateInputKeeps == ASSUME Observe!IInv, Observe!UpdateInput PROVE Observe!IInv'
<1>1. /\ Observe!Outside /\ Observe!Watch /\ UNCHANGED <<s1, Observe!gatewayVars>>
      /\ s2' \in Policies /\ s3' \in Policies /\ s4' \subseteq ProxySigners
  BY DEF Observe!UpdateInput, Observe!IInv, Observe!TypeOK
<1>2. PICK o \in {"catalog", "inventory", "trust"} :
        /\ Observe!Written(o) /\ (o # "catalog" => s2' = s2)
        /\ (o # "inventory" => s3' = s3) /\ (o # "trust" => s4' = s4)
  BY DEF Observe!UpdateInput
<1>3. /\ s12' = [r \in Observations |-> s12[r] \ {o}]
      /\ UNCHANGED <<s11, s19, s14>>
  BY <1>1, <1>2 DEF Observe!Written, Observe!Outside, Observe!sampleVars
<1>4. ASSUME NEW r \in Observations PROVE Observe!ReadsStand(r)'
  <2>1. Observe!ReadsStand(r)
    BY DEF Observe!IInv, Observe!Knows
  <2> QED BY <1>2, <1>3, <2>1 DEF Observe!ReadsStand
<1>5. s20' \in [Observations -> Observe!Witness]
      /\ \A r \in Observations : Observe!Watched(r)' /\ Grows(r)
  <2>1. s7' \subseteq Replicas
    BY <1>1 DEF Observe!gatewayVars, Observe!IInv, Observe!TypeOK
  <2> QED BY <1>1, <2>1, WatchTells
<1>6. Observe!TypeOK'
  <2>1. s12' \in [Observations -> SUBSET Observe!Objects]
    BY <1>3 DEF Observe!IInv, Observe!TypeOK
  <2> QED BY <1>1, <1>5, <2>1
            DEF Observe!IInv, Observe!TypeOK, Observe!Outside, Observe!gatewayVars,
             Observe!sampleVars, Observe!historyVars, Observe!Services, Observe!HasProxy
<1> QED BY <1>1, <1>3, <1>4, <1>5, <1>6, GatewaySurroundKeeps

(* A replica that loads a policy, or turns healthy or not.                  *)
LEMMA GatewayChangeReplicaKeeps ==
  ASSUME Observe!IInv, NEW p \in Replicas, Observe!ChangeReplica(p)
  PROVE  Observe!IInv'
<1>1. /\ Observe!Outside /\ Observe!Watch
      /\ UNCHANGED <<s1, s2, s3, s4, s5, s12>>
  BY DEF Observe!ChangeReplica, Observe!inputVars
<1>2. /\ s6' \in [Replicas -> SUBSET Policies] /\ s7' \subseteq Replicas
      /\ s8' \in [Replicas -> ProxySigners \cup {None}]
  <2>1. /\ s6 \in [Replicas -> SUBSET Policies] /\ s7 \subseteq Replicas
        /\ s8 \in [Replicas -> ProxySigners \cup {None}]
    BY DEF Observe!IInv, Observe!TypeOK
  <2>2. \/ /\ \E m \in SUBSET Policies : s6' = [s6 EXCEPT ![p] = m]
           /\ UNCHANGED <<s7, s8>>
        \/ s7' \in {s7 \ {p}, s7 \cup {p}} /\ UNCHANGED <<s6, s8>>
        \/ /\ \E c \in ProxySigners \cup {None} : s8' = [s8 EXCEPT ![p] = c]
           /\ UNCHANGED <<s6, s7>>
    BY DEF Observe!ChangeReplica
  <2> QED BY <2>1, <2>2
<1>3. s20' \in [Observations -> Observe!Witness]
      /\ \A r \in Observations : Observe!Watched(r)' /\ Grows(r)
  BY <1>1, <1>2, WatchTells
<1>4. ASSUME NEW r \in Observations PROVE Observe!ReadsStand(r)'
  BY <1>1 DEF Observe!IInv, Observe!Knows, Observe!ReadsStand, Observe!Outside, Observe!sampleVars
<1>5. Observe!TypeOK'
  BY <1>1, <1>2, <1>3
    DEF Observe!IInv, Observe!TypeOK, Observe!Outside, Observe!sampleVars, Observe!historyVars,
     Observe!Services, Observe!HasProxy
<1> QED BY <1>1, <1>3, <1>4, <1>5, GatewaySurroundKeeps

(* A Service that serves one replica more or less.                          *)
LEMMA GatewayChangeServiceKeeps ==
  ASSUME Observe!IInv, NEW s \in Observe!Services, NEW p \in Replicas, Observe!ChangeService(s, p)
  PROVE  Observe!IInv'
<1>1. /\ Observe!Outside
      /\ UNCHANGED <<s1, s2, s3, s4, s6, s7, s8, s12, s20>>
  BY DEF Observe!ChangeService, Observe!inputVars
<1>2. s5' \in [Observe!Services -> SUBSET Replicas]
  BY DEF Observe!ChangeService, Observe!IInv, Observe!TypeOK
<1>3. ASSUME NEW r \in Observations
      PROVE  Observe!ReadsStand(r)' /\ Observe!Watched(r)' /\ Grows(r)
  <2>1. Observe!ReadsStand(r) /\ Observe!Watched(r)
    BY DEF Observe!IInv, Observe!Knows
  <2> QED BY <1>1, <2>1
            DEF Observe!ReadsStand, Observe!Watched, Grows, Observe!Present, Observe!Outside,
             Observe!sampleVars
<1>4. Observe!TypeOK'
  BY <1>1, <1>2
    DEF Observe!IInv, Observe!TypeOK, Observe!Outside, Observe!sampleVars, Observe!historyVars,
     Observe!Services, Observe!HasProxy
<1> QED BY <1>1, <1>3, <1>4, GatewaySurroundKeeps

-----------------------------------------------------------------------------
(* Steps of one run.                                                        *)
LEMMA GatewaySamplingKeeps ==
  ASSUME Observe!IInv, NEW r \in Observations, s10[r] \in Observe!Sampling,
         NEW to \in Observe!Sampling \ {"compare"},
         s10' = [s10 EXCEPT ![r] = to], Observe!Quiet, UNCHANGED s19, Apart(r),
         s11[r] = s19[r].catalog,
         s12' \in [Observations -> SUBSET Observe!Objects],
         \A q \in Observations \ {r} : s12'[q] = s12[q],
         s12'[r] \subseteq s12[r] \cup {"trust"},
         "trust" \in s12'[r] => s4 = s14'[r],
         s13' \in [Observations -> [Observe!Services -> SUBSET Replicas]],
         s14' \in [Observations -> (SUBSET ProxySigners) \cup {None}],
         s15' \in [Observations -> SUBSET Replicas],
         s16' \in [Observations -> SUBSET (Policies \cup {None})],
         s17' \in [Observations -> BOOLEAN],
         s18' \in [Observations -> SUBSET Replicas], s21' \in [Observations -> SUBSET Replicas],
         Observe!Samples(r)', Observe!SecondLook(r)', Observe!Signed(r)'
  PROVE  Observe!IInv'
<1>1. /\ UNCHANGED <<s1, s2, s3, s4, s5, s6, s7, s8>>
      /\ UNCHANGED <<s9, s11, s20, s22, s19>>
      /\ Observe!World
  BY DEF Observe!Quiet, Observe!World, Observe!inputVars, Observe!gatewayVars
<1>2. s10 \in [Observations -> Observe!Steps] /\ Observe!Sampling \subseteq Observe!Steps
      /\ s10'[r] = to
  BY DEF Observe!IInv, Observe!TypeOK, Observe!Steps
<1>3. Observe!TypeOK'
  <2>1. s10' \in [Observations -> Observe!Steps]
    BY <1>2
  <2> QED BY <1>1, <2>1 DEF Observe!IInv, Observe!TypeOK, Observe!Services, Observe!HasProxy
<1>4. Observe!Knows(r)
  BY DEF Observe!IInv
<1>5. to \notin Observe!Judging /\ to # "start" /\ to \notin {"inventory"} \cup Observe!Final
      /\ s10[r] \notin {"inventory"} \cup Observe!Final
  BY DEF Observe!Sampling, Observe!Fallible, Observe!Judging, Observe!Final
<1>6. Observe!ReadsStand(r)'
  BY <1>1, <1>4 DEF Observe!Knows, Observe!ReadsStand
<1>7. Observe!OwnDocument(r)'
  BY <1>1, <1>2, <1>4, <1>5 DEF Observe!Knows, Observe!OwnDocument
<1>8. Observe!Watched(r)'
  BY <1>1, <1>4 DEF Observe!Knows, Observe!Watched, Observe!Present
<1>9. Observe!Claims(r)'
  BY <1>1, <1>2, <1>4, <1>5 DEF Observe!Knows, Observe!Claims
<1>10. Observe!InputsMet(r)'
  BY <1>2, <1>5 DEF Observe!InputsMet, Observe!Judging
<1>11. Observe!StatusEarlier(r)'
  BY <1>1, <1>4 DEF Observe!Knows, Observe!StatusEarlier
<1>12. Observe!Knows(r)'
  BY <1>6, <1>7, <1>8, <1>9, <1>10, <1>11 DEF Observe!Knows
<1> QED BY <1>1, <1>3, <1>5, <1>12, GatewayOneKeeps

(* The catalog and the inventory that a run compares are the same revision. *)
LEMMA GatewayCompareInputsKeeps ==
  ASSUME Observe!IInv, NEW r \in Observations, Observe!CompareInputs(r)
  PROVE  Observe!IInv'
<1>1. /\ s10[r] = "compare" /\ s10' = [s10 EXCEPT ![r] = "members"] /\ s10'[r] = "members"
      /\ s11[r] = s19[r].catalog /\ Observe!Quiet
      /\ UNCHANGED <<s12, s19, s21, s13, s14, s15, s16, s17,
                     s18>>
      /\ UNCHANGED <<s11, s20, s22, s1, s4>>
  BY DEF Observe!CompareInputs, Observe!Goto, Observe!IInv, Observe!TypeOK, Observe!sampleVars,
     Observe!Quiet, Observe!World, Observe!inputVars
<1>2. Observe!Knows(r)
  BY DEF Observe!IInv
<1>3. Observe!Members(s13[r])' = Observe!Members(s13[r])
  BY <1>1 DEF Observe!Members, Observe!Services, Observe!HasProxy
<1>4. {"compare", "members"} \subseteq Observe!Sampling \cap Observe!Early
  BY DEF Observe!Sampling, Observe!Fallible, Observe!Early
<1>5. Observe!Samples(r)'
  BY <1>1, <1>2, <1>3, <1>4 DEF Observe!Knows, Observe!Samples, Observe!Evident, Observe!IsReady
<1>6. Observe!SecondLook(r)' /\ Observe!Signed(r)'
  BY <1>1, <1>2, <1>3, <1>4 DEF Observe!Knows, Observe!SecondLook, Observe!Signed
<1>7. Apart(r)
  BY <1>1 DEF Apart
<1>8. Observe!Services' = Observe!Services /\ Observe!TypeOK /\ Observe!ReadsStand(r)
  BY <1>1, <1>2 DEF Observe!Services, Observe!HasProxy, Observe!IInv, Observe!Knows
<1>9. /\ s12' \in [Observations -> SUBSET Observe!Objects]
      /\ s13' \in [Observations -> [Observe!Services -> SUBSET Replicas]]
      /\ s14' \in [Observations -> (SUBSET ProxySigners) \cup {None}]
      /\ s15' \in [Observations -> SUBSET Replicas]
      /\ s16' \in [Observations -> SUBSET (Policies \cup {None})]
      /\ s17' \in [Observations -> BOOLEAN]
      /\ s18' \in [Observations -> SUBSET Replicas] /\ s21' \in [Observations -> SUBSET Replicas]
  BY <1>1, <1>8 DEF Observe!TypeOK
<1>10. "trust" \in s12'[r] => s4 = s14'[r]
  BY <1>1, <1>8 DEF Observe!ReadsStand
<1> QED BY <1>1, <1>4, <1>5, <1>6, <1>7, <1>9, <1>10, GatewaySamplingKeeps

(* The members of one Service more are still to be sampled.                 *)
LEMMA GatewayFirstMembersKeeps ==
  ASSUME Observe!IInv, NEW r \in Observations, NEW s \in Observe!Services,
         NEW from \in {"members", "proxyMembers"},
         NEW to \in {"proxyMembers", "next", "trust"}, Observe!FirstMembers(r, s, from, to)
  PROVE  Observe!IInv'
<1>1. /\ s10[r] = from /\ s10' = [s10 EXCEPT ![r] = to] /\ s10'[r] = to
      /\ s13' = [s13 EXCEPT ![r][s] = s5[s]]
      /\ s15' = [s15 EXCEPT ![r] = @ \cup s5[s]] /\ Observe!Quiet
      /\ UNCHANGED <<s12, s14, s16, s17, s18, s19, s21>>
      /\ UNCHANGED <<s11, s20, s22, s1, s4>>
  BY DEF Observe!FirstMembers, Observe!Goto, Observe!IInv, Observe!TypeOK, Observe!Quiet,
     Observe!World, Observe!inputVars
<1>2. Observe!Knows(r) /\ Observe!Services' = Observe!Services /\ Observe!TypeOK
  BY <1>1 DEF Observe!IInv, Observe!Services, Observe!HasProxy
<1>3. /\ s13 \in [Observations -> [Observe!Services -> SUBSET Replicas]]
      /\ s5[s] \in SUBSET Replicas
      /\ s15 \in [Observations -> SUBSET Replicas]
  BY <1>2 DEF Observe!TypeOK
<1>4. /\ s13'[r] = [s13[r] EXCEPT ![s] = s5[s]]
      /\ s15'[r] = s15[r] \cup s5[s]
      /\ s13' \in [Observations -> [Observe!Services -> SUBSET Replicas]]
      /\ s15' \in [Observations -> SUBSET Replicas]
      /\ \A q \in Observations \ {r} : s13'[q] = s13[q] /\ s15'[q] = s15[q]
  BY <1>1, <1>3
<1>5. Observe!Members(s13[r])' \subseteq Observe!Members(s13[r]) \cup s5[s]
  BY <1>2, <1>3, <1>4 DEF Observe!Members
<1>6. /\ from \in Observe!Early /\ from \in Observe!Sampling
      /\ to \in Observe!Sampling \ {"compare"}
      /\ to \in Observe!Early \cup {"next"} /\ from \notin Observe!Final
  BY DEF Observe!Sampling, Observe!Fallible, Observe!Early, Observe!Final
<1>7. Observe!Members(s13[r])' \subseteq s15'[r]
  BY <1>1, <1>2, <1>4, <1>5, <1>6 DEF Observe!Knows, Observe!Samples
<1>8. Observe!Samples(r)'
  BY <1>1, <1>7 DEF Observe!Samples
<1>9. Observe!SecondLook(r)'
  BY <1>1, <1>2, <1>6 DEF Observe!Knows, Observe!SecondLook
<1>10. Observe!Signed(r)'
  BY <1>1, <1>2, <1>6 DEF Observe!Knows, Observe!Signed
<1>11. Apart(r)
  BY <1>1, <1>4 DEF Apart
<1>12. s11[r] = s19[r].catalog
  BY <1>1, <1>2, <1>6 DEF Observe!Knows, Observe!OwnDocument
<1>13. /\ s12' \in [Observations -> SUBSET Observe!Objects]
       /\ s14' \in [Observations -> (SUBSET ProxySigners) \cup {None}]
       /\ s16' \in [Observations -> SUBSET (Policies \cup {None})]
       /\ s17' \in [Observations -> BOOLEAN]
       /\ s18' \in [Observations -> SUBSET Replicas] /\ s21' \in [Observations -> SUBSET Replicas]
  BY <1>1, <1>2 DEF Observe!TypeOK
<1>14. "trust" \in s12'[r] => s4 = s14'[r]
  BY <1>1, <1>2 DEF Observe!Knows, Observe!ReadsStand
<1> QED BY <1>1, <1>4, <1>6, <1>8, <1>9, <1>10, <1>11, <1>12, <1>13, <1>14, GatewaySamplingKeeps

(* The gateway's members, and the proxy's if there is one.                  *)
LEMMA GatewayReadMembersKeeps ==
  ASSUME Observe!IInv, NEW r \in Observations, Observe!ReadMembers(r)
  PROVE  Observe!IInv'
<1>1. "api" \in Observe!Services /\ (Observe!HasProxy => "proxy" \in Observe!Services)
  BY DEF Observe!Services
<1> QED BY <1>1, GatewayFirstMembersKeeps DEF Observe!ReadMembers

(* The roots that a run reads are the ones that are trusted.                *)
LEMMA GatewayReadTrustKeeps ==
  ASSUME Observe!IInv, NEW r \in Observations, Observe!ReadTrust(r)
  PROVE  Observe!IInv'
<1>1. /\ s10[r] = "trust" /\ s10' = [s10 EXCEPT ![r] = "next"] /\ s10'[r] = "next"
      /\ Observe!Quiet
      /\ UNCHANGED <<s13, s15, s16, s17, s18, s19, s21>>
      /\ UNCHANGED <<s11, s20, s22, s1, s4>>
  BY DEF Observe!ReadTrust, Observe!Goto, Observe!IInv, Observe!TypeOK, Observe!Quiet,
     Observe!World, Observe!inputVars
<1>2. Observe!Knows(r) /\ Observe!Services' = Observe!Services /\ Observe!TypeOK
  BY <1>1 DEF Observe!IInv, Observe!Services, Observe!HasProxy
<1>3. /\ s12 \in [Observations -> SUBSET Observe!Objects] /\ s4 \subseteq ProxySigners
      /\ s14 \in [Observations -> (SUBSET ProxySigners) \cup {None}]
  BY <1>2 DEF Observe!TypeOK
<1>4. /\ s12' \in [Observations -> SUBSET Observe!Objects]
      /\ s12'[r] \subseteq s12[r] \cup {"trust"}
      /\ s14' \in [Observations -> (SUBSET ProxySigners) \cup {None}]
      /\ \A q \in Observations \ {r} : s12'[q] = s12[q] /\ s14'[q] = s14[q]
      /\ "trust" \in s12'[r] => s4 = s14'[r]
  <2>1. CASE s14' = Observe!Note(s14, r, s4) /\ Observe!Hold(r, "trust")
    BY <1>3, <2>1 DEF Observe!Note, Observe!Hold, Observe!Objects
  <2>2. CASE UNCHANGED <<s14, s12>>
    BY <1>2, <1>3, <2>2 DEF Observe!Knows, Observe!ReadsStand
  <2> QED BY <2>1, <2>2 DEF Observe!ReadTrust
<1>5. "trust" \in Observe!Early \cap (Observe!Sampling \ {"compare"})
      /\ "next" \in Observe!Sampling
  BY DEF Observe!Sampling, Observe!Fallible, Observe!Early
<1>6. Observe!Members(s13[r])' = Observe!Members(s13[r])
  BY <1>1, <1>2 DEF Observe!Members
<1>7. Observe!Samples(r)'
  BY <1>1, <1>2, <1>5, <1>6 DEF Observe!Knows, Observe!Samples
<1>8. Observe!SecondLook(r)'
  BY <1>1, <1>2, <1>5, <1>6 DEF Observe!Knows, Observe!SecondLook
<1>9. Observe!Signed(r)'
  BY <1>1, <1>2, <1>5 DEF Observe!Knows, Observe!Signed
<1>10. Apart(r)
  BY <1>1, <1>4 DEF Apart
<1>11. s11[r] = s19[r].catalog
  BY <1>1, <1>2, <1>5 DEF Observe!Knows, Observe!OwnDocument
<1>12. /\ s13' \in [Observations -> [Observe!Services -> SUBSET Replicas]]
       /\ s15' \in [Observations -> SUBSET Replicas]
       /\ s16' \in [Observations -> SUBSET (Policies \cup {None})]
       /\ s17' \in [Observations -> BOOLEAN]
       /\ s18' \in [Observations -> SUBSET Replicas] /\ s21' \in [Observations -> SUBSET Replicas]
  BY <1>1, <1>2 DEF Observe!TypeOK
<1> QED BY <1>1, <1>4, <1>5, <1>7, <1>8, <1>9, <1>10, <1>11, <1>12, GatewaySamplingKeeps

(* A step of a sample.                                                      *)
LEMMA GatewaySampleKeeps ==
  ASSUME Observe!IInv, NEW r \in Observations, s10[r] \in {"next", "config", "signer"},
         NEW to \in {"next", "config", "signer", "again"}, s10' = [s10 EXCEPT ![r] = to],
         Observe!SampleStep(r), s15' \in [Observations -> SUBSET Replicas],
         s16' \in [Observations -> SUBSET (Policies \cup {None})],
         s17' \in [Observations -> BOOLEAN],
         s18' \in [Observations -> SUBSET Replicas],
         \A q \in Observations \ {r} : /\ s15'[q] = s15[q] /\ s16'[q] = s16[q]
                                       /\ s17'[q] = s17[q] /\ s18'[q] = s18[q],
         Observe!Samples(r)', Observe!Signed(r)'
  PROVE  Observe!IInv'
<1>1. /\ Observe!Quiet /\ UNCHANGED <<s12, s13, s14, s19, s21>>
      /\ UNCHANGED <<s11, s20, s22, s1, s4>>
  BY DEF Observe!SampleStep, Observe!Quiet, Observe!World, Observe!inputVars
<1>2. Observe!Knows(r) /\ Observe!Services' = Observe!Services /\ Observe!TypeOK /\ s10'[r] = to
  BY <1>1 DEF Observe!IInv, Observe!Services, Observe!HasProxy, Observe!TypeOK
<1>3. /\ s10[r] \in Observe!Sampling \ {"compare"} /\ to \in Observe!Sampling \ {"compare"}
  BY DEF Observe!Sampling, Observe!Fallible
<1>4. Observe!Members(s13[r])' = Observe!Members(s13[r])
  BY <1>1, <1>2 DEF Observe!Members
<1>5. Observe!SecondLook(r)'
  BY <1>1, <1>2, <1>3, <1>4 DEF Observe!Knows, Observe!SecondLook
<1>6. Apart(r)
  BY <1>1 DEF Apart
<1>7. s11[r] = s19[r].catalog
  BY <1>2, <1>3 DEF Observe!Knows, Observe!OwnDocument
<1>8. /\ s13' \in [Observations -> [Observe!Services -> SUBSET Replicas]]
      /\ s21' \in [Observations -> SUBSET Replicas]
      /\ s12' \in [Observations -> SUBSET Observe!Objects]
      /\ s14' \in [Observations -> (SUBSET ProxySigners) \cup {None}]
  BY <1>1, <1>2 DEF Observe!TypeOK
<1>9. "trust" \in s12'[r] => s4 = s14'[r]
  BY <1>1, <1>2 DEF Observe!Knows, Observe!ReadsStand
<1> QED BY <1>1, <1>3, <1>5, <1>6, <1>7, <1>8, <1>9, GatewaySamplingKeeps

(* What a sample step has of its run.                                       *)
LEMMA AtSample ==
  ASSUME Observe!IInv, NEW r \in Observations, s10[r] \in {"next", "config", "signer"}
  PROVE  /\ s10[r] \in Observe!Sampling /\ s10[r] \notin Observe!Early /\ s11[r] \in Policies
         /\ None \notin Policies
         /\ Observe!Members(s13[r]) \subseteq Replicas /\ s15[r] \subseteq Replicas
         /\ s15[r] # {} => Observe!Sampled(r) \in s15[r]
         /\ \A p \in Observe!Members(s13[r]) \ s15[r] : Observe!Evident(r, p)
            /\ Observe!IsReady(r, p)
         /\ Observe!Present(r).loaded \subseteq s20[r].loaded
         /\ Observe!Present(r).ready \subseteq s20[r].ready
         /\ Observe!Present(r).signed \subseteq s20[r].signed
<1>1. Observe!Knows(r) /\ Observe!TypeOK
  BY DEF Observe!IInv
<1>2. s10[r] \in Observe!Sampling \ {"compare"} /\ s10[r] \notin Observe!Early
      /\ s10[r] \notin {"inventory"} \cup Observe!Final
  BY DEF Observe!Sampling, Observe!Fallible, Observe!Early, Observe!Before, Observe!Final
<1>3. s11[r] \in Policies /\ None \notin Policies
  BY <1>1, <1>2, ObserveAssumption
    DEF Observe!TypeOK, Observe!Knows, Observe!OwnDocument, Observe!ObserveAssumption
<1>4. Observe!Members(s13[r]) \subseteq Replicas /\ s15[r] \subseteq Replicas
  BY <1>1 DEF Observe!TypeOK, Observe!Members
<1>5. s15[r] # {} => Observe!Sampled(r) \in s15[r]
  BY DEF Observe!Sampled
<1> QED BY <1>1, <1>2, <1>3, <1>4, <1>5 DEF Observe!Knows, Observe!Samples, Observe!Watched

(* A replica that was not ready spoils the run.                             *)
LEMMA GatewaySampleReadyKeeps ==
  ASSUME Observe!IInv, NEW r \in Observations, Observe!SampleReady(r)
  PROVE  Observe!IInv'
<1>1. /\ s10[r] = "next" /\ s10' = [s10 EXCEPT ![r] = "config"] /\ s10'[r] = "config"
      /\ s15[r] # {} /\ s17' = [s17 EXCEPT ![r] = @ /\ Observe!Sampled(r) \in s7]
      /\ UNCHANGED <<s15, s16, s18>> /\ Observe!SampleStep(r)
      /\ UNCHANGED <<s13, s14, s12, s11, s20, s1, s4>>
  BY DEF Observe!SampleReady, Observe!Goto, Observe!SampleStep, Observe!Quiet, Observe!World,
     Observe!inputVars, Observe!IInv, Observe!TypeOK
<1>2. Observe!Knows(r) /\ Observe!Services' = Observe!Services /\ Observe!TypeOK
  BY <1>1 DEF Observe!IInv, Observe!Services, Observe!HasProxy
<1>3. /\ s17' \in [Observations -> BOOLEAN] /\ \A q \in Observations \ {r} : s17'[q] = s17[q]
      /\ s17'[r] => s17[r] /\ Observe!Sampled(r) \in s7
  <2>1. s17 \in [Observations -> BOOLEAN]
    BY <1>2 DEF Observe!TypeOK
  <2> QED BY <1>1, <2>1
<1>4. Observe!Members(s13[r])' = Observe!Members(s13[r])
      /\ Observe!Sampled(r)' = Observe!Sampled(r)
  BY <1>1, <1>2 DEF Observe!Members, Observe!Sampled
<1>5. Observe!Samples(r)'
  <2>1. \A p \in Observe!Members(s13[r])' \ s15'[r] : Observe!Evident(r, p)'
          /\ Observe!IsReady(r, p)'
    BY <1>1, <1>3, <1>4, AtSample DEF Observe!Evident, Observe!IsReady
  <2>2. Observe!Sampled(r) \in s7 => Observe!Sampled(r) \in s20[r].ready
    BY <1>1, AtSample DEF Observe!Present
  <2>3. Observe!IsReady(r, Observe!Sampled(r))'
    BY <1>1, <1>3, <1>4, <2>2 DEF Observe!IsReady
  <2>4. "config" \notin Observe!Early
    BY DEF Observe!Early, Observe!Before
  <2> QED BY <1>1, <2>1, <2>3, <2>4 DEF Observe!Samples
<1>6. Observe!Signed(r)'
  <2>1. {"next", "config"} \subseteq Observe!Sampling \ Observe!Early
    BY DEF Observe!Sampling, Observe!Fallible, Observe!Early, Observe!Before
  <2> QED BY <1>1, <1>2, <2>1 DEF Observe!Knows, Observe!Signed
<1>7. /\ s15' \in [Observations -> SUBSET Replicas] /\ s18' \in [Observations -> SUBSET Replicas]
      /\ s16' \in [Observations -> SUBSET (Policies \cup {None})]
  BY <1>1, <1>2 DEF Observe!TypeOK
<1> QED BY <1>1, <1>3, <1>5, <1>6, <1>7, GatewaySampleKeeps

(* A revision that a replica's markers come to is all that they show.       *)
LEMMA OnlyOne ==
  ASSUME NEW S
  PROVE  /\ Observe!OnlyRevision(S) \in Policies \cup {None}
         /\ Observe!OnlyRevision(S) # None => S = {Observe!OnlyRevision(S)}
  BY DEF Observe!OnlyRevision

(* What a replica shows of its revision is one that it did load.            *)
LEMMA GatewaySampleConfigKeeps ==
  ASSUME Observe!IInv, NEW r \in Observations, Observe!SampleConfig(r)
  PROVE  Observe!IInv'
<1>1. PICK to \in {"next", "signer"}, v \in {Observe!RuntimeRevision(Observe!Sampled(r)), None} :
        /\ s10[r] = "config" /\ s10' = [s10 EXCEPT ![r] = to] /\ s10'[r] = to
        /\ s16' = [s16 EXCEPT ![r] = @ \cup {v}]
        /\ IF to = "signer" THEN UNCHANGED s15 ELSE Observe!Leave(r)
        /\ UNCHANGED <<s17, s18>> /\ Observe!SampleStep(r)
        /\ UNCHANGED <<s13, s14, s12, s11, s20, s1, s4>>
  BY DEF Observe!SampleConfig, Observe!Goto, Observe!SampleStep, Observe!Quiet, Observe!World,
     Observe!inputVars, Observe!IInv, Observe!TypeOK
<1>2. Observe!Knows(r) /\ Observe!Services' = Observe!Services /\ Observe!TypeOK
  BY <1>1 DEF Observe!IInv, Observe!Services, Observe!HasProxy
<1>3. v \in Policies \cup {None}
  BY OnlyOne DEF Observe!RuntimeRevision
<1>4. /\ s16' \in [Observations -> SUBSET (Policies \cup {None})]
      /\ s16'[r] = s16[r] \cup {v}
      /\ \A q \in Observations \ {r} : s16'[q] = s16[q]
  <2>1. s16 \in [Observations -> SUBSET (Policies \cup {None})]
    BY <1>2 DEF Observe!TypeOK
  <2> QED BY <1>1, <1>3, <2>1
<1>5. /\ s15' \in [Observations -> SUBSET Replicas]
      /\ s15'[r] = IF to = "signer" THEN s15[r] ELSE s15[r] \ {Observe!Sampled(r)}
      /\ \A q \in Observations \ {r} : s15'[q] = s15[q]
  <2>1. s15 \in [Observations -> SUBSET Replicas]
    BY <1>2 DEF Observe!TypeOK
  <2> QED BY <1>1, <2>1 DEF Observe!Leave
<1>6. Observe!Members(s13[r])' = Observe!Members(s13[r])
      /\ (to = "signer" => Observe!Sampled(r)' = Observe!Sampled(r))
  BY <1>1, <1>2 DEF Observe!Members, Observe!Sampled
<1>7. PICK one \in s15[r] : one = Observe!Sampled(r) /\ Observe!IsReady(r, one)
  BY <1>1, <1>2, AtSample DEF Observe!Knows, Observe!Samples
<1>8. Observe!Evident(r, one)' /\ Observe!IsReady(r, one)'
  <2>1. Observe!IsReady(r, one)'
    BY <1>1, <1>7 DEF Observe!IsReady
  <2>2. CASE v # s11[r]
    BY <1>1, <1>4, <2>1, <2>2 DEF Observe!Evident
  <2>3. CASE v = s11[r]
    <3>1. s6[one] = {s11[r]}
      BY <1>1, <1>7, <2>3, AtSample, OnlyOne DEF Observe!RuntimeRevision
    <3>2. one \in s20[r].loaded
      BY <1>1, <1>7, <3>1, AtSample DEF Observe!Present
    <3> QED BY <1>1, <2>1, <3>2 DEF Observe!Evident
  <2> QED BY <2>2, <2>3
<1>9. Observe!Samples(r)'
  <2>1. ASSUME NEW p, Observe!Evident(r, p), Observe!IsReady(r, p)
        PROVE  Observe!Evident(r, p)' /\ Observe!IsReady(r, p)'
    BY <1>1, <1>4, <2>1 DEF Observe!Evident, Observe!IsReady
  <2>2. \A p \in Observe!Members(s13[r])' \ s15'[r] :
          p = one \/ (Observe!Evident(r, p) /\ Observe!IsReady(r, p))
    BY <1>1, <1>5, <1>6, <1>7, AtSample
  <2>3. \A p \in Observe!Members(s13[r])' \ s15'[r] : Observe!Evident(r, p)'
          /\ Observe!IsReady(r, p)'
    BY <1>8, <2>1, <2>2
  <2>4. to = "signer" => s15'[r] # {} /\ Observe!Evident(r, Observe!Sampled(r))'
          /\ Observe!IsReady(r, Observe!Sampled(r))'
    <3>1. ASSUME to = "signer" PROVE Observe!Sampled(r)' = one
      BY <1>6, <1>7, <3>1
    <3> QED BY <1>5, <1>7, <1>8, <3>1 DEF Observe!Evident, Observe!IsReady
  <2>5. to \notin Observe!Early
    BY DEF Observe!Early, Observe!Before
  <2> QED BY <1>1, <2>3, <2>4, <2>5 DEF Observe!Samples
<1>10. Observe!Signed(r)'
  <2>1. {"next", "config", "signer"} \subseteq Observe!Sampling \ Observe!Early
    BY DEF Observe!Sampling, Observe!Fallible, Observe!Early, Observe!Before
  <2> QED BY <1>1, <1>2, <2>1 DEF Observe!Knows, Observe!Signed
<1>11. s18' \in [Observations -> SUBSET Replicas] /\ s17' \in [Observations -> BOOLEAN]
  BY <1>1, <1>2 DEF Observe!TypeOK
<1>12. \A q \in Observations \ {r} : s17'[q] = s17[q] /\ s18'[q] = s18[q]
  BY <1>1
<1> QED BY <1>1, <1>4, <1>5, <1>9, <1>10, <1>11, <1>12, GatewaySampleKeeps

(* A signer is noted as verified when the roots vouch for it.               *)
LEMMA GatewaySampleSignerKeeps ==
  ASSUME Observe!IInv, NEW r \in Observations, Observe!SampleSigner(r)
  PROVE  Observe!IInv'
<1>1. /\ s10[r] = "signer" /\ s10' = [s10 EXCEPT ![r] = "next"] /\ s10'[r] = "next"
      /\ Observe!Leave(r)
      /\ UNCHANGED <<s16, s17>> /\ Observe!SampleStep(r)
      /\ UNCHANGED <<s13, s14, s12, s11, s20, s1, s4>>
  BY DEF Observe!SampleSigner, Observe!Goto, Observe!SampleStep, Observe!Quiet, Observe!World,
     Observe!inputVars, Observe!IInv, Observe!TypeOK
<1>2. Observe!Knows(r) /\ Observe!Services' = Observe!Services /\ Observe!TypeOK
  BY <1>1 DEF Observe!IInv, Observe!Services, Observe!HasProxy
<1>3. PICK one \in s15[r] : one = Observe!Sampled(r) /\ Observe!IsReady(r, one)
      /\ Observe!Evident(r, one)
  BY <1>1, <1>2, AtSample DEF Observe!Knows, Observe!Samples
<1>4. /\ s15' \in [Observations -> SUBSET Replicas] /\ s15'[r] = s15[r] \ {one}
      /\ \A q \in Observations \ {r} : s15'[q] = s15[q]
  <2>1. s15 \in [Observations -> SUBSET Replicas]
    BY <1>2 DEF Observe!TypeOK
  <2> QED BY <1>1, <1>3, <2>1 DEF Observe!Leave
<1>5. one \in Replicas
  BY <1>1, <1>3, AtSample
<1>6. /\ s18' \in [Observations -> SUBSET Replicas]
      /\ \A q \in Observations \ {r} : s18'[q] = s18[q]
      /\ \/ s18'[r] = s18[r]
         \/ s18'[r] = s18[r] \cup {one} /\ Observe!SignerVerifies(r, one)
  <2>1. s18 \in [Observations -> SUBSET Replicas]
    BY <1>2 DEF Observe!TypeOK
  <2>2. s18' = s18 \/
        (s18' = [s18 EXCEPT ![r] = @ \cup {one}] /\ Observe!SignerVerifies(r, one))
    BY <1>3 DEF Observe!SampleSigner
  <2> QED BY <1>5, <2>1, <2>2
<1>7. Observe!Members(s13[r])' = Observe!Members(s13[r])
  BY <1>1, <1>2 DEF Observe!Members
<1>8. Observe!Samples(r)'
  <2>1. \A p \in Observe!Members(s13[r]) \ s15'[r] : Observe!Evident(r, p)
          /\ Observe!IsReady(r, p)
    BY <1>1, <1>3, <1>4, AtSample
  <2>2. "next" \notin Observe!Early
    BY DEF Observe!Early, Observe!Before
  <2> QED BY <1>1, <1>7, <2>1, <2>2 DEF Observe!Samples, Observe!Evident, Observe!IsReady
<1>9. Observe!Signed(r)'
  <2>1. {"next", "signer"} \subseteq Observe!Sampling \ Observe!Early
    BY DEF Observe!Sampling, Observe!Fallible, Observe!Early, Observe!Before
  <2>2. "trust" \in s12[r] /\ Observe!SignerVerifies(r, one) => one \in s20[r].signed
    BY <1>1, <1>2, <1>5, AtSample
      DEF Observe!SignerVerifies, Observe!Knows, Observe!ReadsStand, Observe!Present
  <2>3. s14[r] = None => ~Observe!SignerVerifies(r, one)
    BY DEF Observe!SignerVerifies
  <2> QED BY <1>1, <1>2, <1>6, <2>1, <2>2, <2>3 DEF Observe!Knows, Observe!Signed
<1>10. s17' \in [Observations -> BOOLEAN]
       /\ s16' \in [Observations -> SUBSET (Policies \cup {None})]
  BY <1>1, <1>2 DEF Observe!TypeOK
<1>11. \A q \in Observations \ {r} : s16'[q] = s16[q] /\ s17'[q] = s17[q]
  BY <1>1
<1> QED BY <1>1, <1>4, <1>6, <1>8, <1>9, <1>10, <1>11, GatewaySampleKeeps

(* All that were members have been sampled.                                 *)
LEMMA GatewayEndSamplesKeeps ==
  ASSUME Observe!IInv, NEW r \in Observations, Observe!EndSamples(r)
  PROVE  Observe!IInv'
<1>1. /\ s10[r] = "next" /\ s10' = [s10 EXCEPT ![r] = "again"] /\ s10'[r] = "again"
      /\ s15[r] = {} /\ UNCHANGED <<s15, s16, s17, s18>> /\ Observe!SampleStep(r)
      /\ UNCHANGED <<s13, s14, s12, s11, s20, s1, s4>>
  BY DEF Observe!EndSamples, Observe!Goto, Observe!SampleStep, Observe!Quiet, Observe!World,
     Observe!inputVars, Observe!IInv, Observe!TypeOK
<1>2. Observe!Knows(r) /\ Observe!Services' = Observe!Services /\ Observe!TypeOK
  BY <1>1 DEF Observe!IInv, Observe!Services, Observe!HasProxy
<1>3. {"next", "again"} \subseteq Observe!Sampling \ Observe!Early
  BY DEF Observe!Sampling, Observe!Fallible, Observe!Early, Observe!Before
<1>4. Observe!Members(s13[r])' = Observe!Members(s13[r])
  BY <1>1, <1>2 DEF Observe!Members
<1>5. Observe!Samples(r)'
  BY <1>1, <1>2, <1>3, <1>4 DEF Observe!Knows, Observe!Samples, Observe!Evident, Observe!IsReady
<1>6. Observe!Signed(r)'
  BY <1>1, <1>2, <1>3 DEF Observe!Knows, Observe!Signed
<1>7. /\ s15' \in [Observations -> SUBSET Replicas] /\ s18' \in [Observations -> SUBSET Replicas]
      /\ s16' \in [Observations -> SUBSET (Policies \cup {None})]
      /\ s17' \in [Observations -> BOOLEAN]
  BY <1>1, <1>2 DEF Observe!TypeOK
<1> QED BY <1>1, <1>5, <1>6, <1>7, GatewaySampleKeeps

(* The last looks of a run: at the members, and at the trust.               *)
LEMMA GatewayLastLooksKeep ==
  ASSUME Observe!IInv, NEW r \in Observations, s10[r] \in {"again", "proxyAgain", "retrust"},
         NEW to \in {"proxyAgain", "retrust", "conclude"}, s10' = [s10 EXCEPT ![r] = to],
         Observe!Quiet,
         UNCHANGED <<s12, Observe!sampleVars, s19>>, s21' \in [Observations -> SUBSET Replicas],
         \A q \in Observations \ {r} : s21'[q] = s21[q], s21'[r] # {},
         s21'[r] \subseteq Observe!Members(s13[r]),
         to = "conclude" => Observe!TrustStood(r)
  PROVE  Observe!IInv'
<1>1. /\ UNCHANGED <<s12, s13, s14, s15, s16, s17, s18, s19>>
      /\ UNCHANGED <<s11, s20, s22, s1, s4>>
  BY DEF Observe!sampleVars, Observe!Quiet, Observe!World, Observe!inputVars
<1>2. Observe!Knows(r) /\ Observe!Services' = Observe!Services /\ Observe!TypeOK /\ s10'[r] = to
  BY <1>1 DEF Observe!IInv, Observe!Services, Observe!HasProxy, Observe!TypeOK
<1>3. /\ s10[r] \in Observe!Sampling \ {"compare"} /\ s10[r] \notin Observe!Early
      /\ to \in Observe!Sampling \ {"compare"} /\ to \notin Observe!Early
  BY DEF Observe!Sampling, Observe!Fallible, Observe!Early, Observe!Before
<1>4. Observe!Members(s13[r])' = Observe!Members(s13[r])
  BY <1>1, <1>2 DEF Observe!Members
<1>5. Observe!Samples(r)'
  BY <1>1, <1>2, <1>3, <1>4 DEF Observe!Knows, Observe!Samples, Observe!Evident, Observe!IsReady
<1>6. Observe!SecondLook(r)'
  BY <1>1, <1>2, <1>3, <1>4 DEF Observe!SecondLook
<1>7. Observe!Signed(r)'
  BY <1>1, <1>2, <1>3 DEF Observe!Knows, Observe!Signed, Observe!TrustStood
<1>8. Apart(r)
  BY <1>1 DEF Apart
<1>9. s11[r] = s19[r].catalog
  BY <1>2, <1>3 DEF Observe!Knows, Observe!OwnDocument
<1>10. /\ s13' \in [Observations -> [Observe!Services -> SUBSET Replicas]]
       /\ s15' \in [Observations -> SUBSET Replicas]
       /\ s16' \in [Observations -> SUBSET (Policies \cup {None})]
       /\ s17' \in [Observations -> BOOLEAN]
       /\ s18' \in [Observations -> SUBSET Replicas]
       /\ s12' \in [Observations -> SUBSET Observe!Objects]
       /\ s14' \in [Observations -> (SUBSET ProxySigners) \cup {None}]
  BY <1>1, <1>2 DEF Observe!TypeOK
<1>11. "trust" \in s12'[r] => s4 = s14'[r]
  BY <1>1, <1>2 DEF Observe!Knows, Observe!ReadsStand
<1> QED BY <1>1, <1>3, <1>5, <1>6, <1>7, <1>8, <1>9, <1>10, <1>11, GatewaySamplingKeeps

(* The second membership is the first one again.                            *)
LEMMA GatewaySecondMembersKeeps ==
  ASSUME Observe!IInv, NEW r \in Observations, NEW s \in Observe!Services,
         NEW from \in {"again", "proxyAgain"},
         NEW to \in {"proxyAgain", "retrust"}, Observe!SecondMembers(r, s, from, to)
  PROVE  Observe!IInv'
<1>1. /\ s10[r] = from /\ s10' = [s10 EXCEPT ![r] = to] /\ Observe!Quiet
      /\ UNCHANGED <<s12, Observe!sampleVars, s19>>
      /\ s5[s] # {} /\ s5[s] = s13[r][s]
      /\ s21' = [s21 EXCEPT ![r] = @ \cup s5[s]]
  BY DEF Observe!SecondMembers, Observe!SameMembers, Observe!Goto
<1>2. s21 \in [Observations -> SUBSET Replicas] /\ s5[s] \subseteq Replicas /\ Observe!Knows(r)
  BY DEF Observe!IInv, Observe!TypeOK
<1>3. /\ s21' \in [Observations -> SUBSET Replicas] /\ s21'[r] = s21[r] \cup s5[s]
      /\ \A q \in Observations \ {r} : s21'[q] = s21[q]
  BY <1>1, <1>2
<1>4. s5[s] \subseteq Observe!Members(s13[r])
  BY <1>1 DEF Observe!Members
<1>5. from \in Observe!Sampling
  BY DEF Observe!Sampling, Observe!Fallible
<1>6. s21[r] \subseteq Observe!Members(s13[r])
  BY <1>1, <1>2, <1>5 DEF Observe!Knows, Observe!SecondLook
<1> QED BY <1>1, <1>3, <1>4, <1>6, GatewayLastLooksKeep

(* The gateway's members again, and the proxy's if there is one.            *)
LEMMA GatewayReadMembersAgainKeeps ==
  ASSUME Observe!IInv, NEW r \in Observations, Observe!ReadMembersAgain(r)
  PROVE  Observe!IInv'
<1>1. "api" \in Observe!Services /\ (Observe!HasProxy => "proxy" \in Observe!Services)
  BY DEF Observe!Services
<1> QED BY <1>1, GatewaySecondMembersKeeps DEF Observe!ReadMembersAgain

(* The roots are the ones that the signers were checked with.               *)
LEMMA GatewayRecheckTrustKeeps ==
  ASSUME Observe!IInv, NEW r \in Observations, Observe!RecheckTrust(r)
  PROVE  Observe!IInv'
<1>1. /\ s10[r] = "retrust" /\ s10' = [s10 EXCEPT ![r] = "conclude"] /\ Observe!Quiet
      /\ Observe!TrustStood(r)
      /\ UNCHANGED <<s12, Observe!sampleVars, s19>> /\ s21' = s21
  BY DEF Observe!RecheckTrust, Observe!Goto
<1>2. s21 \in [Observations -> SUBSET Replicas] /\ Observe!Knows(r)
      /\ "retrust" \in Observe!Sampling
  BY DEF Observe!IInv, Observe!TypeOK, Observe!Sampling, Observe!Fallible
<1> QED BY <1>1, <1>2, GatewayLastLooksKeep DEF Observe!Knows, Observe!SecondLook

(* What a run has when it leaves its samples.                               *)
LEMMA GatewayJudgingKeeps ==
  ASSUME Observe!IInv, NEW r \in Observations, s10[r] \in Observe!Sampling \cup Observe!Judging,
         NEW to \in Observe!Judging \cup {"failed"}, s10' = [s10 EXCEPT ![r] = to], Observe!Quiet,
         UNCHANGED <<s12, Observe!sampleVars, s21>>,
         s19' \in [Observations -> Observe!Snapshot \cup {None}],
         \A q \in Observations \ {r} : s19'[q] = s19[q],
         s19'[r].run = s19[r].run, s19'[r].catalog = s19[r].catalog,
         s19'[r] # None, Observe!Claims(r)', Observe!InputsMet(r)'
  PROVE  Observe!IInv'
<1>1. /\ UNCHANGED <<s12, s13, s14, s15, s16, s17, s18, s21>>
      /\ UNCHANGED <<s1, s2, s3, s4, s5, s6, s7, s8>>
      /\ UNCHANGED <<s9, s11, s20, s22>> /\ Observe!World
  BY DEF Observe!sampleVars, Observe!Quiet, Observe!World, Observe!inputVars, Observe!gatewayVars
<1>2. Observe!Knows(r) /\ Observe!Services' = Observe!Services /\ Observe!TypeOK /\ s10'[r] = to
  BY <1>1 DEF Observe!IInv, Observe!Services, Observe!HasProxy, Observe!TypeOK
<1>3. /\ s10[r] \notin Observe!Final /\ s10[r] # "inventory" /\ to \notin Observe!Sampling
      /\ to \notin Observe!Early
      /\ to \notin {"next", "config", "signer", "again", "proxyAgain", "retrust", "conclude",
                    "start",
                    "inventory"}
      /\ to \in Observe!Steps
  BY DEF Observe!Sampling, Observe!Fallible, Observe!Judging, Observe!Final, Observe!Early,
     Observe!Before, Observe!Steps
<1>4. Observe!ReadsStand(r)'
  BY <1>1, <1>2 DEF Observe!Knows, Observe!ReadsStand
<1>5. Observe!OwnDocument(r)'
  BY <1>1, <1>2, <1>3 DEF Observe!Knows, Observe!OwnDocument
<1>6. Observe!Watched(r)' /\ Observe!Samples(r)' /\ Observe!SecondLook(r)'
  BY <1>2, <1>3 DEF Observe!Watched, Observe!Samples, Observe!SecondLook
<1>7. Observe!Signed(r)'
  BY <1>1, <1>2, <1>3 DEF Observe!Knows, Observe!Signed
<1>8. Observe!StatusEarlier(r)'
  BY <1>1, <1>2 DEF Observe!Knows, Observe!StatusEarlier
<1>9. Observe!Knows(r)'
  BY <1>4, <1>5, <1>6, <1>7, <1>8 DEF Observe!Knows
<1>10. Observe!TypeOK'
  <2>1. s10' \in [Observations -> Observe!Steps]
    BY <1>2, <1>3 DEF Observe!TypeOK
  <2> QED BY <1>1, <1>2, <2>1 DEF Observe!TypeOK
<1>11. Apart(r)
  BY <1>1 DEF Apart
<1> QED BY <1>1, <1>3, <1>9, <1>10, <1>11, GatewayOneKeeps

(* Inputs of which a sampling run has current copies have met.              *)
LEMMA InputsStand ==
  ASSUME Observe!IInv, NEW r \in Observations, s10[r] \in Observe!Sampling,
         {"catalog", "inventory"} \subseteq s12[r]
  PROVE  s20[r].inputs
<1>1. Observe!ReadsStand(r) /\ Observe!Watched(r)
  BY DEF Observe!IInv, Observe!Knows
<1> QED BY <1>1 DEF Observe!ReadsStand, Observe!Watched, Observe!Present

(* What is concluded is what every sampled member showed.                   *)
LEMMA GatewayConcludeKeeps ==
  ASSUME Observe!IInv, NEW r \in Observations, Observe!Conclude(r)
  PROVE  Observe!IInv'
<1>1. /\ s10[r] = "conclude" /\ s10' = [s10 EXCEPT ![r] = "recatalog"] /\ s10'[r] = "recatalog"
      /\ Observe!Quiet /\ UNCHANGED <<s12, Observe!sampleVars, s21>>
      /\ UNCHANGED <<s20, s12, s21>>
  BY DEF Observe!Conclude, Observe!Goto, Observe!IInv, Observe!TypeOK, Observe!Quiet
<1>2. Observe!Knows(r) /\ Observe!TypeOK /\ "conclude" \in Observe!Sampling
  BY DEF Observe!IInv, Observe!Sampling, Observe!Fallible
<1>3. s19 \in [Observations -> Observe!Snapshot \cup {None}] /\ s19[r] \in Observe!Snapshot
      /\ s19[r] # None
  BY <1>1, <1>2 DEF Observe!TypeOK, Observe!Knows, Observe!OwnDocument
<1>4. PICK f : f = [e \in Observe!Endpoints |-> Observe!Judged(r, e)]
  OBVIOUS
<1>5. f \in [Observe!Endpoints -> Observe!State]
  BY <1>4 DEF Observe!Judged, Observe!State
<1>6. PICK d : d = [s19[r] EXCEPT !.applied = Observe!Proved(r), !.state = f, !.signers = s18[r]]
  OBVIOUS
<1>7. /\ d \in Observe!Snapshot /\ d.applied = Observe!Proved(r) /\ d.state = f
      /\ d.signers = s18[r]
      /\ d.run = s19[r].run /\ d.catalog = s19[r].catalog
  <2>1. Observe!Proved(r) \in Policies \cup {None} /\ s18[r] \in SUBSET Replicas
    BY <1>2, OnlyOne DEF Observe!Proved, Observe!TypeOK
  <2> QED BY <1>3, <1>5, <1>6, <2>1 DEF Observe!Snapshot
<1>8. s19' = [s19 EXCEPT ![r] = d]
  BY <1>4, <1>6 DEF Observe!Conclude
<1>9. /\ s19'[r] = d /\ s19' \in [Observations -> Observe!Snapshot \cup {None}]
      /\ \A q \in Observations \ {r} : s19'[q] = s19[q]
  BY <1>3, <1>7, <1>8
<1>10. d # None
  BY <1>7, ObserveAssumption DEF Observe!ObserveAssumption
<1>11. ASSUME NEW e \in Observe!Endpoints, f[e] = "available"
       PROVE  /\ d.applied = d.catalog
              /\ s21[r] # {} /\ s21[r] \subseteq s20[r].loaded \cap s20[r].ready
  <2>1. Observe!Proved(r) # None /\ Observe!Proved(r) = s11[r] /\ s17[r]
    BY <1>4, <1>11 DEF Observe!Judged
  <2>2. s16[r] = {s11[r]}
    BY <2>1, OnlyOne DEF Observe!Proved
  <2>3. s11[r] = s19[r].catalog
    BY <1>1, <1>2 DEF Observe!Knows, Observe!OwnDocument
  <2>4. \A p \in Observe!Members(s13[r]) : Observe!Evident(r, p) /\ Observe!IsReady(r, p)
    BY <1>1, <1>2 DEF Observe!Knows, Observe!Samples
  <2>5. s21[r] # {} /\ s21[r] \subseteq Observe!Members(s13[r])
    BY <1>1, <1>2 DEF Observe!Knows, Observe!SecondLook
  <2> QED BY <1>7, <2>1, <2>2, <2>3, <2>4, <2>5 DEF Observe!Evident, Observe!IsReady
<1>12. s18[r] \subseteq s20[r].signed
  BY <1>1, <1>2 DEF Observe!Knows, Observe!Signed
<1>13. Observe!Claims(r)'
  <2>1. "recatalog" \notin {"start"} \cup Observe!Sampling
    BY DEF Observe!Sampling, Observe!Fallible
  <2> QED BY <1>1, <1>7, <1>9, <1>11, <1>12, <2>1 DEF Observe!Claims
<1>14. Observe!InputsMet(r)'
  BY <1>1, <1>2, InputsStand DEF Observe!InputsMet
<1> QED BY <1>1, <1>2, <1>7, <1>9, <1>10, <1>13, <1>14, GatewayJudgingKeeps DEF Observe!Judging

(* A run that breaks off claims nothing.                                    *)
LEMMA GatewayInconclusiveKeeps ==
  ASSUME Observe!IInv, NEW r \in Observations, Observe!Inconclusive(r)
  PROVE  Observe!IInv'
<1>1. /\ s10[r] \in Observe!Sampling /\ s10' = [s10 EXCEPT ![r] = "recatalog"]
      /\ s10'[r] = "recatalog"
      /\ Observe!Quiet /\ UNCHANGED <<s12, Observe!sampleVars, s21>>
      /\ UNCHANGED <<s20, s12, s21, s19>>
  BY DEF Observe!Inconclusive, Observe!IInv, Observe!TypeOK, Observe!Quiet, Observe!Sampling
<1>2. Observe!Knows(r) /\ Observe!TypeOK
  BY DEF Observe!IInv
<1>3. s19 \in [Observations -> Observe!Snapshot \cup {None}] /\ s19[r] # None
  BY <1>1, <1>2 DEF Observe!TypeOK, Observe!Knows, Observe!OwnDocument
<1>4. Observe!Claims(r)'
  <2>1. "recatalog" \notin {"start"} \cup Observe!Sampling
    BY DEF Observe!Sampling, Observe!Fallible
  <2> QED BY <1>1, <1>2, <2>1 DEF Observe!Knows, Observe!Claims
<1>5. Observe!InputsMet(r)'
  BY <1>1, <1>2, InputsStand DEF Observe!InputsMet
<1> QED BY <1>1, <1>3, <1>4, <1>5, GatewayJudgingKeeps DEF Observe!Judging

(* The inputs are looked at again before the status is published.           *)
LEMMA GatewayRecheckInputKeeps ==
  ASSUME Observe!IInv, NEW r \in Observations, Observe!RecheckInput(r)
  PROVE  Observe!IInv'
<1>1. PICK to \in {"reinventory", "publish"} :
        /\ s10[r] \in Observe!Judging /\ s10' = [s10 EXCEPT ![r] = to] /\ s10'[r] = to
        /\ (to = "reinventory" => s10[r] = "recatalog" /\ "catalog" \in s12[r])
        /\ (to = "publish" => s10[r] = "reinventory" /\ "inventory" \in s12[r])
        /\ Observe!Quiet /\ UNCHANGED <<s12, Observe!sampleVars, s21>>
        /\ UNCHANGED <<s20, s12, s21, s19>>
  BY DEF Observe!RecheckInput, Observe!Goto, Observe!InputStood, Observe!IInv, Observe!TypeOK,
     Observe!Quiet, Observe!Judging
<1>2. Observe!Knows(r) /\ Observe!TypeOK
  BY DEF Observe!IInv
<1>3. s19 \in [Observations -> Observe!Snapshot \cup {None}] /\ s19[r] # None
  BY <1>1, <1>2 DEF Observe!TypeOK, Observe!Knows, Observe!OwnDocument
<1>4. to \in Observe!Judging /\ to \notin {"start"} \cup Observe!Sampling
  BY DEF Observe!Sampling, Observe!Fallible, Observe!Judging
<1>5. Observe!Claims(r)'
  BY <1>1, <1>2, <1>4 DEF Observe!Knows, Observe!Claims
<1>6. Observe!InputsMet(r)'
  BY <1>1, <1>2 DEF Observe!Knows, Observe!InputsMet
<1> QED BY <1>1, <1>3, <1>4, <1>5, <1>6, GatewayJudgingKeeps

(* A run that has ended knows nothing.                                      *)
LEMMA EndedKnows ==
  ASSUME Observe!IInv, NEW r \in Observations, s10'[r] \in Observe!Final, Observe!World,
         s12'[r] \subseteq s12[r],
         UNCHANGED <<s11, Observe!sampleVars, s19>>
  PROVE  Observe!Knows(r)'
<1>1. Observe!Knows(r) /\ UNCHANGED <<s2, s3, s4, s14, s18>>
  BY DEF Observe!IInv, Observe!World, Observe!inputVars, Observe!sampleVars
<1>2. s10'[r] \notin {"start"} \cup Observe!Sampling \cup Observe!Judging \cup Observe!Early
  BY DEF Observe!Final, Observe!Sampling, Observe!Fallible, Observe!Judging, Observe!Early,
     Observe!Before
<1>3. s10'[r] \notin {"next", "config", "signer", "again", "proxyAgain", "retrust", "conclude"}
  BY DEF Observe!Final
<1> QED BY <1>1, <1>2, <1>3
          DEF Observe!Knows, Observe!ReadsStand, Observe!OwnDocument, Observe!Watched,
           Observe!Samples, Observe!SecondLook, Observe!Signed, Observe!Claims,
           Observe!InputsMet, Observe!StatusEarlier, Observe!Judging, Observe!Final

(* A run that fails publishes nothing.                                      *)
LEMMA GatewayFailKeeps ==
  ASSUME Observe!IInv, NEW r \in Observations, Observe!Fail(r)
  PROVE  Observe!IInv'
<1>1. /\ s10[r] \notin Observe!Final /\ s10' = [s10 EXCEPT ![r] = "failed"]
      /\ s10'[r] = "failed" /\ Observe!World
      /\ UNCHANGED <<s12, s19, s21, s13, s14, s15, s16, s17,
                     s18>>
      /\ UNCHANGED <<s9, s11, s20, s22, s1, s2, s3, s4,
                     Observe!sampleVars>>
      /\ UNCHANGED <<s5, s6, s7, s8>>
  BY DEF Observe!Fail, Observe!Final, Observe!IInv, Observe!TypeOK, Observe!sampleVars,
     Observe!Quiet, Observe!World, Observe!inputVars, Observe!gatewayVars
<1>2. Observe!Knows(r)'
  BY <1>1, EndedKnows DEF Observe!Final
<1>3. Observe!TypeOK'
  <2>1. s10' \in [Observations -> Observe!Steps]
    BY <1>1 DEF Observe!IInv, Observe!TypeOK, Observe!Steps
  <2> QED BY <1>1, <2>1 DEF Observe!IInv, Observe!TypeOK, Observe!Services, Observe!HasProxy
<1>4. Apart(r)
  BY <1>1 DEF Apart
<1> QED BY <1>1, <1>2, <1>3, <1>4, GatewayOneKeeps

(* Whoever publishes makes every other copy of the status old.              *)
LEMMA GatewayPublishKeeps ==
  ASSUME Observe!IInv, NEW r \in Observations, Observe!Publish(r)
  PROVE  Observe!IInv'
<1>1. PICK end \in Observe!Final :
        /\ s10[r] = "publish" /\ s10' = [s10 EXCEPT ![r] = end] /\ s9' = s19[r]
        /\ s12' = [q \in Observations |-> s12[q] \ {"status"}] /\ Observe!World
        /\ UNCHANGED <<s11, s19, s20, Observe!sampleVars, Observe!historyVars>>
  BY DEF Observe!Publish, Observe!Goto, Observe!Written, Observe!Final
<1>2. /\ UNCHANGED <<s11, s13, s14, s15, s16, s17, s18, s19, s20,
                     s21, s22>>
      /\ UNCHANGED <<s1, s2, s3, s4, s5, s6, s7, s8>>
  BY <1>1
    DEF Observe!sampleVars, Observe!historyVars, Observe!World, Observe!inputVars,
     Observe!gatewayVars
<1>3. Observe!Knows(r) /\ Observe!TypeOK /\ s10 \in [Observations -> Observe!Steps]
  BY DEF Observe!IInv, Observe!TypeOK
<1>4. s19[r] \in Observe!Snapshot /\ s19[r].run = r
  BY <1>1, <1>3 DEF Observe!TypeOK, Observe!Knows, Observe!OwnDocument, Observe!Judging
<1>5. Observe!StatusEnded'
  BY <1>1, <1>3, <1>4 DEF Observe!StatusEnded
<1>6. Observe!TypeOK'
  <2>1. s10' \in [Observations -> Observe!Steps]
        /\ s12' \in [Observations -> SUBSET Observe!Objects]
    BY <1>1, <1>3 DEF Observe!Final, Observe!Steps, Observe!TypeOK
  <2> QED BY <1>1, <1>2, <1>3, <1>4, <2>1 DEF Observe!TypeOK, Observe!Services, Observe!HasProxy
<1>7. Observe!Knows(r)'
  BY <1>1, <1>3, EndedKnows
<1>8. ASSUME NEW q \in Observations \ {r} PROVE Observe!Knows(q)'
  <2>1. s10'[q] = s10[q] /\ s12'[q] \subseteq s12[q] /\ "status" \notin s12'[q]
    BY <1>1, <1>3
  <2>2. Observe!Knows(q)
    BY DEF Observe!IInv
  <2> QED BY <1>1, <1>2, <2>1, <2>2, GatewayKnowsKeeps
<1> QED BY <1>5, <1>6, <1>7, <1>8 DEF Observe!IInv

-----------------------------------------------------------------------------
(* What a run reads before it observes.                                     *)
LEMMA GatewayEarlyKeeps ==
  ASSUME Observe!IInv, NEW r \in Observations, s10[r] \in Observe!Before,
         NEW to \in {"previous", "catalog", "start"},
         s10' = [s10 EXCEPT ![r] = to], Observe!World,
         UNCHANGED <<s9, Observe!sampleVars, s20, Observe!historyVars>>,
         s11' \in [Observations -> Policies \cup {None}],
         s12' \in [Observations -> SUBSET Observe!Objects],
         s19' \in [Observations -> Observe!Snapshot \cup {None}],
         \A q \in Observations \ {r} : /\ s11'[q] = s11[q] /\ s12'[q] = s12[q]
                                       /\ s19'[q] = s19[q],
         s11'[r] # None, to = "start" => s19'[r] # None,
         s19'[r] # None => s19'[r].run = r,
         Observe!ReadsStand(r)', Observe!Claims(r)'
  PROVE  Observe!IInv'
<1>1. /\ UNCHANGED <<s13, s14, s15, s16, s17, s18, s20, s21, s22>>
      /\ UNCHANGED <<s1, s2, s3, s4, s5, s6, s7, s8, s9>>
  BY DEF Observe!sampleVars, Observe!historyVars, Observe!World, Observe!inputVars,
     Observe!gatewayVars
<1>2. Observe!Knows(r) /\ Observe!Services' = Observe!Services /\ Observe!TypeOK /\ s10'[r] = to
  BY <1>1 DEF Observe!IInv, Observe!Services, Observe!HasProxy, Observe!TypeOK
<1>3. /\ s10[r] \notin Observe!Final /\ s10[r] \in Observe!Early
      /\ to \notin Observe!Sampling \cup Observe!Judging /\ to \in Observe!Early
      /\ to \in Observe!Steps
  BY DEF Observe!Sampling, Observe!Fallible, Observe!Judging, Observe!Final, Observe!Early,
     Observe!Before, Observe!Steps
<1>4. Observe!Members(s13[r])' = Observe!Members(s13[r])
  BY <1>1, <1>2 DEF Observe!Members
<1>5. Observe!OwnDocument(r)'
  BY <1>2, <1>3 DEF Observe!OwnDocument
<1>6. Observe!Watched(r)' /\ Observe!InputsMet(r)' /\ Observe!StatusEarlier(r)'
  BY <1>2, <1>3 DEF Observe!Watched, Observe!InputsMet, Observe!StatusEarlier
<1>7. Observe!Samples(r)'
  BY <1>1, <1>2, <1>3, <1>4 DEF Observe!Knows, Observe!Samples
<1>8. Observe!SecondLook(r)' /\ Observe!Signed(r)'
  BY <1>1, <1>2, <1>3 DEF Observe!Knows, Observe!SecondLook, Observe!Signed
<1>9. Observe!Knows(r)'
  BY <1>5, <1>6, <1>7, <1>8 DEF Observe!Knows
<1>10. Observe!TypeOK'
  <2>1. s10' \in [Observations -> Observe!Steps]
    BY <1>2, <1>3 DEF Observe!TypeOK
  <2> QED BY <1>1, <1>2, <2>1 DEF Observe!TypeOK
<1>11. Apart(r)
  BY <1>1 DEF Apart
<1> QED BY <1>1, <1>3, <1>9, <1>10, <1>11, GatewayOneKeeps

(* The copy of the inventory is current.                                    *)
LEMMA GatewayReadInventoryKeeps ==
  ASSUME Observe!IInv, NEW r \in Observations, Observe!ReadInventory(r)
  PROVE  Observe!IInv'
<1>1. /\ s10[r] = "inventory" /\ s10' = [s10 EXCEPT ![r] = "previous"] /\ s10'[r] = "previous"
      /\ s11' = [s11 EXCEPT ![r] = s3]
      /\ s12' = [s12 EXCEPT ![r] = @ \cup {"inventory"}] /\ Observe!World
      /\ UNCHANGED <<s9, Observe!sampleVars, s19, s20, Observe!historyVars>>
      /\ UNCHANGED <<s2, s3, s4, s14, s19>>
  BY DEF Observe!ReadInventory, Observe!Goto, Observe!Note, Observe!Hold, Observe!IInv,
     Observe!TypeOK, Observe!World, Observe!inputVars, Observe!sampleVars
<1>2. Observe!TypeOK /\ Observe!Knows(r) /\ s3 \in Policies /\ s3 # None
  BY ObserveAssumption DEF Observe!IInv, Observe!TypeOK, Observe!ObserveAssumption
<1>3. /\ s11' \in [Observations -> Policies \cup {None}]
      /\ s12' \in [Observations -> SUBSET Observe!Objects]
      /\ s11'[r] = s3 /\ s12'[r] = s12[r] \cup {"inventory"}
      /\ s19' \in [Observations -> Observe!Snapshot \cup {None}]
      /\ \A q \in Observations \ {r} : s11'[q] = s11[q] /\ s12'[q] = s12[q]
  BY <1>1, <1>2 DEF Observe!TypeOK, Observe!Objects
<1>4. Observe!ReadsStand(r)'
  BY <1>1, <1>2, <1>3 DEF Observe!Knows, Observe!ReadsStand
<1>5. Observe!Claims(r)'
  BY <1>1 DEF Observe!Claims, Observe!Sampling, Observe!Fallible, Observe!Judging
<1>6. s19'[r] # None => s19'[r].run = r
  BY <1>1, <1>2 DEF Observe!Knows, Observe!OwnDocument
<1> QED BY <1>1, <1>2, <1>3, <1>4, <1>5, <1>6, GatewayEarlyKeeps DEF Observe!Before

(* The copy of the status is current, and its run has ended.                *)
LEMMA GatewayReadPreviousKeeps ==
  ASSUME Observe!IInv, NEW r \in Observations, Observe!ReadPrevious(r)
  PROVE  Observe!IInv'
<1>1. /\ s10[r] = "previous" /\ s10' = [s10 EXCEPT ![r] = "catalog"] /\ s10'[r] = "catalog"
      /\ s12' = [s12 EXCEPT ![r] = @ \cup {"status"}] /\ Observe!World
      /\ UNCHANGED <<s9, Observe!sampleVars, s20, Observe!historyVars>>
      /\ UNCHANGED <<s2, s3, s4, s14, s19, s11>>
  BY DEF Observe!ReadPrevious, Observe!Goto, Observe!Hold, Observe!IInv, Observe!TypeOK,
     Observe!World, Observe!inputVars, Observe!sampleVars
<1>2. Observe!TypeOK /\ Observe!Knows(r)
  BY DEF Observe!IInv
<1>3. /\ s11' \in [Observations -> Policies \cup {None}]
      /\ s12' \in [Observations -> SUBSET Observe!Objects]
      /\ s12'[r] = s12[r] \cup {"status"}
      /\ s19' \in [Observations -> Observe!Snapshot \cup {None}]
      /\ \A q \in Observations \ {r} : s12'[q] = s12[q]
  BY <1>1, <1>2 DEF Observe!TypeOK, Observe!Objects
<1>4. Observe!ReadsStand(r)'
  BY <1>1, <1>2, <1>3 DEF Observe!Knows, Observe!ReadsStand
<1>5. Observe!Claims(r)'
  BY <1>1 DEF Observe!Claims, Observe!Sampling, Observe!Fallible, Observe!Judging
<1>6. (s19'[r] # None => s19'[r].run = r) /\ s11'[r] # None
  BY <1>1, <1>2 DEF Observe!Knows, Observe!OwnDocument, Observe!Final
<1> QED BY <1>1, <1>3, <1>4, <1>5, <1>6, GatewayEarlyKeeps DEF Observe!Before

(* The document of a run begins with the catalog.                           *)
LEMMA GatewayReadCatalogKeeps ==
  ASSUME Observe!IInv, NEW r \in Observations, Observe!ReadCatalog(r)
  PROVE  Observe!IInv'
<1>1. PICK d : d = Observe!Blank(r, s2)
  OBVIOUS
<1>2. /\ s10[r] = "catalog" /\ s10' = [s10 EXCEPT ![r] = "start"] /\ s10'[r] = "start"
      /\ s12' = [s12 EXCEPT ![r] = @ \cup {"catalog"}] /\ Observe!World
      /\ s19' = [s19 EXCEPT ![r] = d]
      /\ UNCHANGED <<s9, Observe!sampleVars, s20, Observe!historyVars>>
      /\ UNCHANGED <<s2, s3, s4, s14, s11>>
  BY <1>1
    DEF Observe!ReadCatalog, Observe!Goto, Observe!Note, Observe!Hold, Observe!IInv,
     Observe!TypeOK, Observe!World, Observe!inputVars, Observe!sampleVars
<1>3. Observe!TypeOK /\ Observe!Knows(r)
  BY DEF Observe!IInv
<1>4. /\ d \in Observe!Snapshot /\ d.run = r /\ d.catalog = s2 /\ d.signers = {}
      /\ \A e \in Observe!Endpoints : d.state[e] = "unknown"
  BY <1>1, <1>3 DEF Observe!Blank, Observe!Snapshot, Observe!State, Observe!TypeOK
<1>5. /\ s11' \in [Observations -> Policies \cup {None}]
      /\ s12' \in [Observations -> SUBSET Observe!Objects]
      /\ s12'[r] = s12[r] \cup {"catalog"} /\ s19'[r] = d
      /\ s19' \in [Observations -> Observe!Snapshot \cup {None}]
      /\ \A q \in Observations \ {r} : s12'[q] = s12[q] /\ s19'[q] = s19[q]
  BY <1>2, <1>3, <1>4 DEF Observe!TypeOK, Observe!Objects
<1>6. Observe!ReadsStand(r)'
  BY <1>2, <1>3, <1>4, <1>5 DEF Observe!Knows, Observe!ReadsStand
<1>7. Observe!Claims(r)'
  BY <1>2, <1>4, <1>5 DEF Observe!Claims, Observe!Judging
<1>8. s11'[r] # None
  BY <1>2, <1>3 DEF Observe!Knows, Observe!OwnDocument, Observe!Final
<1>9. d # None
  BY <1>4, ObserveAssumption DEF Observe!ObserveAssumption
<1> QED BY <1>2, <1>4, <1>5, <1>6, <1>7, <1>8, <1>9, GatewayEarlyKeeps DEF Observe!Before

(* The history begins with what is the case, and with who has started.      *)
LEMMA GatewayStartObservationKeeps ==
  ASSUME Observe!IInv, NEW r \in Observations, Observe!StartObservation(r)
  PROVE  Observe!IInv'
<1>1. PICK w, others : /\ w = Observe!Present(r)
                       /\ others = {q \in Observations \ {r} : s10[q] \notin Observe!Before}
  OBVIOUS
<1>2. /\ s10[r] = "start" /\ s10' = [s10 EXCEPT ![r] = "compare"] /\ s10'[r] = "compare"
      /\ Observe!World
      /\ s20' = [s20 EXCEPT ![r] = w] /\ s22' = [s22 EXCEPT ![r] = others]
      /\ UNCHANGED <<s9, s11, s12, s19, s21, s13, s14, s15,
                     s16, s17, s18>>
      /\ UNCHANGED <<s1, s2, s3, s4, s5, s6, s7, s8>>
  BY <1>1
    DEF Observe!StartObservation, Observe!Goto, Observe!Note, Observe!Before, Observe!IInv,
     Observe!TypeOK, Observe!World, Observe!inputVars, Observe!gatewayVars, Observe!sampleVars
<1>3. Observe!TypeOK /\ Observe!Knows(r) /\ Observe!Services' = Observe!Services
      /\ Observe!StatusEnded
  BY <1>2 DEF Observe!IInv, Observe!Services, Observe!HasProxy
<1>4. /\ w \in Observe!Witness /\ others \in SUBSET Observations
  BY <1>1, <1>3 DEF Observe!Present, Observe!Witness, Observe!TypeOK
<1>5. /\ s20' \in [Observations -> Observe!Witness]
      /\ s22' \in [Observations -> SUBSET Observations]
      /\ s20'[r] = w /\ s22'[r] = others
      /\ \A q \in Observations \ {r} : s20'[q] = s20[q] /\ s22'[q] = s22[q]
  BY <1>2, <1>3, <1>4 DEF Observe!TypeOK
<1>6. /\ "start" \in Observe!Early /\ "compare" \in Observe!Early
      /\ "compare" \in Observe!Sampling /\ "compare" \in Observe!Steps
      /\ "compare" \notin Observe!Judging /\ "start" \notin Observe!Final
  BY DEF Observe!Early, Observe!Before, Observe!Sampling, Observe!Fallible, Observe!Judging,
     Observe!Final, Observe!Steps
<1>7. Observe!TypeOK'
  <2>1. s10' \in [Observations -> Observe!Steps]
    BY <1>2, <1>3, <1>6 DEF Observe!TypeOK
  <2> QED BY <1>2, <1>3, <1>5, <2>1 DEF Observe!TypeOK
<1>8. Observe!Members(s13[r])' = Observe!Members(s13[r])
  BY <1>2, <1>3 DEF Observe!Members
<1>9. Observe!ReadsStand(r)' /\ Observe!OwnDocument(r)'
  BY <1>2, <1>3, <1>6 DEF Observe!Knows, Observe!ReadsStand, Observe!OwnDocument, Observe!Final
<1>10. Observe!Watched(r)'
  <2>1. Observe!Present(r)' = w
    BY <1>1, <1>2 DEF Observe!Present
  <2> QED BY <1>5, <2>1 DEF Observe!Watched
<1>11. Observe!Samples(r)'
  BY <1>2, <1>3, <1>6, <1>8 DEF Observe!Knows, Observe!Samples
<1>12. Observe!SecondLook(r)' /\ Observe!Signed(r)'
  BY <1>2, <1>3, <1>6 DEF Observe!Knows, Observe!SecondLook, Observe!Signed
<1>13. Observe!Claims(r)' /\ Observe!InputsMet(r)'
  BY <1>2, <1>3, <1>6 DEF Observe!Knows, Observe!Claims, Observe!InputsMet
<1>14. Observe!StatusEarlier(r)'
  <2>1. s9 # None => s9.run \in Observations /\ s10[s9.run] \in Observe!Final
    BY <1>3 DEF Observe!StatusEnded, Observe!TypeOK, Observe!Snapshot
  <2>2. s9 # None => s9.run \in others
    BY <1>1, <1>2, <1>6, <2>1 DEF Observe!Final, Observe!Before
  <2> QED BY <1>2, <1>5, <2>2 DEF Observe!StatusEarlier
<1>15. Observe!Knows(r)'
  BY <1>9, <1>10, <1>11, <1>12, <1>13, <1>14 DEF Observe!Knows
<1>16. Apart(r)
  BY <1>2, <1>5 DEF Apart
<1> QED BY <1>2, <1>6, <1>7, <1>15, <1>16, GatewayOneKeeps

(* Every step of the runs and of what they observe.                         *)
LEMMA ObserveNext == ASSUME Observe!IInv, Observe!Next PROVE Observe!IInv'
<1>1. CASE Observe!Surroundings
  BY <1>1, GatewayUpdateInputKeeps, GatewayChangeReplicaKeeps, GatewayChangeServiceKeeps
    DEF Observe!Surroundings
<1>2. CASE \E r \in s1.runs : Observe!Run(r)
  <2>1. s1.runs \subseteq Observations
    BY ObserveAssumption DEF Observe!IInv, Observe!TypeOK, Observe!ObserveAssumption
  <2>2. PICK r \in Observations : Observe!Run(r)
    BY <1>2, <2>1
  <2> QED BY <2>2, GatewayReadInventoryKeeps, GatewayReadPreviousKeeps, GatewayReadCatalogKeeps,
             GatewayStartObservationKeeps, GatewayCompareInputsKeeps, GatewayReadMembersKeeps,
             GatewayReadTrustKeeps, GatewaySampleReadyKeeps, GatewaySampleConfigKeeps,
             GatewaySampleSignerKeeps, GatewayEndSamplesKeeps, GatewayReadMembersAgainKeeps,
             GatewayRecheckTrustKeeps, GatewayConcludeKeeps, GatewayInconclusiveKeeps,
             GatewayRecheckInputKeeps, GatewayPublishKeeps, GatewayFailKeeps DEF Observe!Run
<1> QED BY <1>1, <1>2 DEF Observe!Next

(* Nothing but a publication changes the status.                            *)
LEMMA QuietSteps ==
  ASSUME Observe!Next, s1.runs \subseteq Observations
  PROVE  s9' = s9 \/ (\E r \in Observations : Observe!Publish(r))
<1>1. CASE Observe!Surroundings
  BY <1>1
    DEF Observe!Surroundings, Observe!UpdateInput, Observe!ChangeReplica, Observe!ChangeService,
     Observe!Outside
<1>2. ASSUME NEW r \in s1.runs, Observe!Run(r)
      PROVE  s9' = s9 \/ Observe!Publish(r)
  <2>1. CASE Observe!ReadInventory(r)
    BY <2>1 DEF Observe!ReadInventory, Observe!Quiet, Observe!World
  <2>2. CASE Observe!ReadPrevious(r)
    BY <2>2 DEF Observe!ReadPrevious, Observe!Quiet, Observe!World
  <2>3. CASE Observe!ReadCatalog(r)
    BY <2>3 DEF Observe!ReadCatalog, Observe!Quiet, Observe!World
  <2>4. CASE Observe!StartObservation(r)
    BY <2>4 DEF Observe!StartObservation, Observe!Quiet, Observe!World
  <2>5. CASE Observe!CompareInputs(r)
    BY <2>5 DEF Observe!CompareInputs, Observe!Quiet, Observe!World
  <2>6. CASE Observe!ReadMembers(r)
    BY <2>6 DEF Observe!ReadMembers, Observe!FirstMembers, Observe!Quiet, Observe!World
  <2>7. CASE Observe!ReadTrust(r)
    BY <2>7 DEF Observe!ReadTrust, Observe!Quiet, Observe!World
  <2>8. CASE Observe!SampleReady(r)
    BY <2>8 DEF Observe!SampleReady, Observe!SampleStep, Observe!Quiet, Observe!World
  <2>9. CASE Observe!SampleConfig(r)
    BY <2>9 DEF Observe!SampleConfig, Observe!SampleStep, Observe!Quiet, Observe!World
  <2>10. CASE Observe!SampleSigner(r)
    BY <2>10 DEF Observe!SampleSigner, Observe!SampleStep, Observe!Quiet, Observe!World
  <2>11. CASE Observe!EndSamples(r)
    BY <2>11 DEF Observe!EndSamples, Observe!SampleStep, Observe!Quiet, Observe!World
  <2>12. CASE Observe!ReadMembersAgain(r)
    BY <2>12 DEF Observe!ReadMembersAgain, Observe!SecondMembers, Observe!Quiet, Observe!World
  <2>13. CASE Observe!RecheckTrust(r)
    BY <2>13 DEF Observe!RecheckTrust, Observe!Quiet, Observe!World
  <2>14. CASE Observe!Conclude(r)
    BY <2>14 DEF Observe!Conclude, Observe!Quiet, Observe!World
  <2>15. CASE Observe!Inconclusive(r)
    BY <2>15 DEF Observe!Inconclusive, Observe!Quiet, Observe!World
  <2>16. CASE Observe!RecheckInput(r)
    BY <2>16 DEF Observe!RecheckInput, Observe!Quiet, Observe!World
  <2>17. CASE Observe!Fail(r)
    BY <2>17 DEF Observe!Fail, Observe!Quiet, Observe!World
  <2> QED BY <1>2, <2>1, <2>2, <2>3, <2>4, <2>5, <2>6, <2>7, <2>8, <2>9, <2>10, <2>11, <2>12,
             <2>13, <2>14, <2>15, <2>16, <2>17 DEF Observe!Run
<1> QED BY <1>1, <1>2 DEF Observe!Next

(* A status is published by a run that knows it to be so.                   *)
LEMMA PublishedKnown ==
  ASSUME Observe!IInv, NEW r \in Observations, Observe!Publish(r)
  PROVE  Observe!StatusIsWitnessedStep
<1>1. /\ s10[r] = "publish" /\ s9' = s19[r] /\ "status" \in s12[r]
      /\ Observe!Knows(r) /\ Observe!TypeOK
  BY DEF Observe!Publish, Observe!Goto, Observe!MayPatch, Observe!IInv
<1>2. s19[r] # None /\ s19[r].run = r
  BY <1>1 DEF Observe!Knows, Observe!OwnDocument, Observe!Judging
<1>3. ASSUME NEW q \in Observations, Observe!Published(q) PROVE q = r
  <2>1. Observe!Knows(q) /\ s19[q] = s19[r]
    BY <1>1, <1>3 DEF Observe!IInv, Observe!Published
  <2> QED BY <1>2, <2>1 DEF Observe!Knows, Observe!OwnDocument
<1>4. /\ (\E e \in Observe!Endpoints : s9'.state[e] = "available") =>
           /\ s9'.applied = s9'.catalog
           /\ s21[r] # {} /\ s21[r] \subseteq s20[r].loaded \cap s20[r].ready
      /\ s9'.signers \subseteq s20[r].signed
  BY <1>1 DEF Observe!Knows, Observe!Claims, Observe!Judging
<1>5. s20[r].inputs
  BY <1>1 DEF Observe!Knows, Observe!InputsMet
<1>6. s9 # None => s9.run \in s22[s9'.run]
  BY <1>1, <1>2 DEF Observe!Knows, Observe!StatusEarlier, Observe!Judging
<1> QED BY <1>3, <1>4, <1>5, <1>6 DEF Observe!StatusIsWitnessedStep

(* A step that changes the status leaves one that is witnessed.             *)
LEMMA ObserveIsWitnessed == ASSUME Observe!IInv, Observe!Next PROVE Observe!StatusIsWitnessedStep
<1>1. s1.runs \subseteq Observations
  BY ObserveAssumption DEF Observe!IInv, Observe!TypeOK, Observe!ObserveAssumption
<1>2. s9' = s9 \/ \E r \in Observations : Observe!Publish(r)
  BY <1>1, QuietSteps
<1>3. CASE s9' = s9
  BY <1>3 DEF Observe!StatusIsWitnessedStep, Observe!Published
<1> QED BY <1>2, <1>3, PublishedKnown

-----------------------------------------------------------------------------
(* The seven components side by side.                                       *)
IInv ==
  /\ part = "job" => Job!IInv
  /\ part = "maintenance" => Maintenance!IInv
  /\ part = "database" => Database!IInv
  /\ part = "native" => Native!IInv
  /\ part = "inspection" => Inspection!IInv
  /\ part = "rollout" => Rollout!IInv
  /\ part = "observe" => Observe!IInv

(* Each component's invariant is about its own state: where that stays, so   *)
(* does what is said of it.                                                  *)
LEMMA JobStays ==
  ASSUME Job!IInv, UNCHANGED vars
  PROVE  Job!IInv'
  BY DEF vars, Job!IInv, Job!TypeOK, Job!StepsBelong, Job!ResultsBelong, Job!LateWritesBelong,
     Job!JobsBelong, Job!JobReadsOwnSnapshot, Job!AnswersAreTrue, Job!OwnSnapshot, Job!Deleted

(* The maintenance page's.                                                   *)
LEMMA SwitchStays ==
  ASSUME Maintenance!IInv, UNCHANGED vars
  PROVE  Maintenance!IInv'
  BY DEF vars, Maintenance!IInv, Maintenance!TypeOK, Maintenance!WorkersHold,
     Maintenance!StepsStand, Maintenance!BackendStands, Maintenance!At,
     Maintenance!NoReferences, Maintenance!References

(* The database's.                                                           *)
LEMMA DatabaseStays ==
  ASSUME Database!IInv, UNCHANGED vars
  PROVE  Database!IInv'
  BY DEF vars, Database!IInv, Database!TypeOK, Database!LentIsTaken, Database!HolderKnows,
     Database!SignalArrives, Database!At, Database!Listed

(* The native inspection's.                                                  *)
LEMMA NativeStays ==
  ASSUME Native!IInv, UNCHANGED vars
  PROVE  Native!IInv'
  BY DEF vars, Native!IInv, Native!TypeOK, Native!PolicyFirst, Native!PodsKnown,
     Native!EditsCount, Native!PodNeverBare, Native!At

(* The directory inspection's.                                               *)
LEMMA InspectionStays ==
  ASSUME Inspection!IInv, UNCHANGED vars
  PROVE  Inspection!IInv'
  BY DEF vars, Inspection!IInv, Inspection!TypeOK, Inspection!WorkersLive,
     Inspection!PodsToCome, Inspection!StepsKnow, Inspection!NothingAhead,
     Inspection!WorkerConfined, Inspection!LeftoversNamed, Inspection!At

(* The rollouts'.                                                            *)
LEMMA RolloutStays ==
  ASSUME Rollout!IInv, UNCHANGED vars
  PROVE  Rollout!IInv'
  BY DEF vars, Rollout!IInv, Rollout!TypeOK, Rollout!GenerationsTell, Rollout!CountsStand,
     Rollout!CountsAreOf, Rollout!NodesStand, Rollout!Standing

(* The observation's.                                                        *)
LEMMA GatewayStays ==
  ASSUME Observe!IInv, UNCHANGED vars
  PROVE  Observe!IInv'
<1>1. UNCHANGED <<s1, s2, s3, s4, s5, s6, s7, s8, s9, s10, s11, s12, s13, s14, s15, s16, s17,
                  s18, s19, s20, s21, s22>>
  BY DEF vars
<1>2. Observe!TypeOK'
  BY <1>1 DEF Observe!IInv, Observe!TypeOK, Observe!Services, Observe!HasProxy
<1>3. ASSUME NEW r \in Observations PROVE Observe!Knows(r)'
  BY <1>1, <1>3, GatewayKnowsKeeps
     DEF Observe!IInv, Observe!World, Observe!inputVars, Observe!gatewayVars
<1> QED BY <1>1, <1>2, <1>3 DEF Observe!IInv, Observe!StatusEnded

(* Whichever component is at work begins with its invariant.                 *)
LEMMA ClusterInit == Init => IInv
  BY JobInit, SwitchInit, DatabaseInit, NativeInit, InspectionInit, RolloutInit, ObserveInit
  DEF Init, IInv

(* A step is one of the component at work, which keeps its invariant.        *)
LEMMA ClusterNext == ASSUME IInv, Next PROVE IInv'
<1>1. part' = part
  BY DEF Next
<1>2. part = "job" => Job!Next
  BY DEF Next
<1>3. part = "maintenance" => Maintenance!Next
  BY DEF Next
<1>4. part = "database" => Database!Next
  BY DEF Next
<1>5. part = "native" => Native!Next
  BY DEF Next
<1>6. part = "inspection" => Inspection!Next
  BY DEF Next
<1>7. part = "rollout" => Rollout!Next
  BY DEF Next
<1>8. part = "observe" => Observe!Next
  BY DEF Next
<1> QED BY <1>1, <1>2, <1>3, <1>4, <1>5, <1>6, <1>7, <1>8, JobNext, SwitchNext, DatabaseNext,
           NativeNext, InspectionNext, RolloutNext, ObserveNext DEF IInv

(* No step at all keeps it, too.                                             *)
LEMMA ClusterStays == ASSUME IInv, UNCHANGED vars PROVE IInv'
<1>1. part' = part
  BY DEF vars
<1> QED BY <1>1, JobStays, SwitchStays, DatabaseStays, NativeStays, InspectionStays, RolloutStays,
           GatewayStays DEF IInv

-----------------------------------------------------------------------------
(* The invariants of the components hold of every behaviour.                 *)
THEOREM ClusterInvariant == Spec => []IInv
<1>1. IInv /\ [Next]_vars => IInv'
  BY ClusterNext, ClusterStays
<1> QED BY ClusterInit, <1>1, PTL DEF Spec

(* What submit_snapshot_job, wait_for_job and read_job_summary answer bounds *)
(* what there is: a running Job reads the snapshot of its own submission, and *)
(* no caller hears of another's Job, however many share a name and however   *)
(* late the writes arrive; what a caller submits after its snapshot was      *)
(* deleted by hand is exempt.                                                *)
THEOREM SnapshotAnswers == Spec => []AnswersAreTrue
<1>1. IInv => AnswersAreTrue
  BY DEF IInv, Job!IInv, AnswersAreTrue
<1> QED BY ClusterInvariant, <1>1, PTL

(* The maintenance backend stands as long as a route refers to it, whatever  *)
(* commands of any number of operators fail, and at whatever point.          *)
THEOREM MaintenanceBackend == Spec => []BackendStands
<1>1. IInv => BackendStands
  BY DEF IInv, Maintenance!IInv, BackendStands
<1> QED BY ClusterInvariant, <1>1, PTL

(* The Pod of a native preparation is not without its policy, unless an      *)
(* administrator took that away, the Pod is being deleted, or the run        *)
(* reported it as left; of a directory inspection the Pod comes before its   *)
(* policy, and it is the worker that is not run in it without.  What a       *)
(* finished inspection leaves behind it names, but for a run whose creation  *)
(* was never answered or that was cut short.                                 *)
THEOREM TemporaryPods == Spec => []PodsAreConfined
<1>1. IInv => PodsAreConfined
  BY DEF IInv, Native!IInv, Inspection!IInv, PodsAreConfined
<1> QED BY ClusterInvariant, <1>1, PTL

(* The privileges that a provisioning Job lends itself end with it or with a *)
(* report of them, unless a child was killed or its revocation was refused;  *)
(* while the lock holds, of the users with the membership there is one       *)
(* product's at most (a user that an interrupted Job left without it may     *)
(* stand beside); and a Job that was told to stop in time lends nothing.     *)
THEOREM ProvisioningGuards == Spec => InstanceIsGuarded
<1> DEFINE Guarded == part = "database" => Database!ElevationEnds /\ Database!OneConsumer
<1>1. IInv => Guarded
  BY DatabaseHolds DEF IInv
<1>2. ASSUME IInv, Guarded', Next
      PROVE  part = "database" => Database!InstanceIsGuardedStep
  BY <1>2, StopIsHeard DEF IInv, Next, Database!InstanceIsGuardedStep
<1>3. IInv /\ Guarded' /\ [Next]_vars
      => [part = "database" => Database!InstanceIsGuardedStep]_vars
  BY <1>2
<1> HIDE DEF Guarded
<1> QED BY ClusterInvariant, <1>1, <1>3, PTL DEF Spec, InstanceIsGuarded

(* A Job is told that its credential is rolled out only when every pod that  *)
(* stands was made with it, however many Jobs annotate the same workload.    *)
THEOREM RolloutAnswers == Spec => ReadyMeansRolled
<1>1. ASSUME IInv, Next
      PROVE  part = "rollout" => Rollout!ReadyMeansRolledStep
  BY <1>1, ReadyIsRolled DEF IInv, Next
<1>2. IInv /\ [Next]_vars => [part = "rollout" => Rollout!ReadyMeansRolledStep]_vars
  BY <1>1
<1> QED BY ClusterInvariant, <1>2, PTL DEF Spec, ReadyMeansRolled

(* A status that calls an endpoint available comes from a run during which    *)
(* every replica that served at its end did load the catalog's policy and    *)
(* was ready; its signers were presented and vouched for; its inputs were,   *)
(* together, the ones of some moment of the run; and an older observation    *)
(* never replaces a newer one, however many runs overlap.                    *)
THEOREM StatusesWitnessed == Spec => StatusIsWitnessed
<1>1. ASSUME IInv, Next PROVE part = "observe" => Observe!StatusIsWitnessedStep
  <2>1. part = "observe" => Observe!Next
    BY <1>1 DEF Next
  <2> QED BY <1>1, <2>1, ObserveIsWitnessed DEF IInv
<1>2. IInv /\ [Next]_vars => [part = "observe" => Observe!StatusIsWitnessedStep]_vars
  BY <1>1
<1> QED BY ClusterInvariant, <1>2, PTL DEF Spec, StatusIsWitnessed
=============================================================================
