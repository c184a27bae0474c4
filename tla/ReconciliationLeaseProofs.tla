---------------------- MODULE ReconciliationLeaseProofs ----------------------
(* Proofs about ReconciliationLease, for any number of processes, any lock *)
(* terms and any waits.                                                    *)
EXTENDS ReconciliationLease, TLAPS

(* Ages never leave their range and never decrease.                        *)
LEMMA OlderRange ==
  \A n \in 0..MaxAge : Older(n) \in 0..MaxAge /\ n <= Older(n)
BY TimeAssumption DEF Older

LEMMA OlderLeaseType == \A l \in Lease : OlderLease(l) \in Lease
BY OlderRange DEF OlderLease, Lease

LEMMA AcquiredType ==
  ASSUME TypeOK, NEW p \in Procs
  PROVE  Acquired(p) \in Lease
BY HolderAssumption, TimeAssumption DEF TypeOK, Acquired, Lease

LEMMA ReleasedType ==
  ASSUME TypeOK, NEW p \in Procs
  PROVE  Released(p) \in Lease
BY DEF TypeOK, Released, Lease

LEMMA FreeLeaseType == FreeLease \in Lease
BY TimeAssumption DEF FreeLease, Lease

LEMMA InitInv == Init => IInv
<1> SUFFICES ASSUME Init PROVE IInv
  OBVIOUS
<1>1. TypeOK
  BY FreeLeaseType, TimeAssumption DEF Init, TypeOK, Steps, Ended
<1>2. HeldUntilExpiry /\ FreshIsCurrent /\ DecisionStands
  BY DEF Init, HeldUntilExpiry, FreshIsCurrent, DecisionStands, Operating
<1> QED
  BY <1>1, <1>2 DEF IInv

(* The type invariant is inductive by itself.                              *)
LEMMA TypeStep == TypeOK /\ [Next]_vars => TypeOK'
<1> SUFFICES ASSUME TypeOK, [Next]_vars PROVE TypeOK'
  OBVIOUS
<1>1. CASE Tick
  BY <1>1, OlderRange, OlderLeaseType DEF TypeOK, Tick
<1>2. ASSUME NEW p \in Procs, Acquisition(p) PROVE TypeOK'
  <2> USE DEF TypeOK, Goto, Put, Get, Steps, Ended
  <2>1. CASE ReadLease(p)
    BY <2>1 DEF ReadLease
  <2>2. CASE DecideTake(p)
    BY <2>2, TimeAssumption DEF DecideTake
  <2>3. CASE DecideRefuse(p)
    BY <2>3 DEF DecideRefuse
  <2>4. CASE ReplaceAccepted(p)
    BY <2>4, AcquiredType DEF ReplaceAccepted
  <2>5. CASE ReplaceConflict(p)
    BY <2>5 DEF ReplaceConflict
  <2>6. CASE AcquireFails(p)
    BY <2>6, AcquiredType DEF AcquireFails
  <2>7. CASE Retry(p)
    BY <2>7 DEF Retry
  <2>8. CASE GiveUp(p)
    BY <2>8 DEF GiveUp
  <2> QED
    BY <1>2, <2>1, <2>2, <2>3, <2>4, <2>5, <2>6, <2>7, <2>8 DEF Acquisition
<1>3. ASSUME NEW p \in Procs, Release(p) PROVE TypeOK'
  <2> USE DEF TypeOK, Goto, Put, Get, Steps, Ended
  <2>1. CASE ReleaseRead(p)
    BY <2>1, TimeAssumption DEF ReleaseRead
  <2>2. CASE ReleaseAccepted(p)
    BY <2>2, ReleasedType DEF ReleaseAccepted
  <2>3. CASE ReleaseFails(p)
    BY <2>3 DEF ReleaseFails
  <2> QED
    BY <1>3, <2>1, <2>2, <2>3 DEF Release
<1>4. ASSUME NEW p \in Procs, Environment(p) PROVE TypeOK'
  BY <1>4, TimeAssumption
     DEF TypeOK, Environment, Start, FinishOperation, Crash, NextRun, Goto, Steps, Ended
<1>5. CASE UNCHANGED vars
  BY <1>5 DEF TypeOK, vars
<1> QED
  BY <1>1, <1>2, <1>3, <1>4, <1>5 DEF Next

-----------------------------------------------------------------------------
(* A PUT is accepted only from a copy that is still the stored object, so  *)
(* no process inside its term can be overruled by it.                      *)
LEMMA AcquiringOverrulesNobody ==
  ASSUME IInv, NEW p \in Procs, pc[p] = "replace", fresh[p],
         NEW q \in Procs, q # p
  PROVE  ~(Operating(q) /\ stamp[q] < Duration[q])
<1> SUFFICES ASSUME Operating(q), stamp[q] < Duration[q] PROVE FALSE
  OBVIOUS
<1>1. lease = Acquired(q) /\ seen[p] = lease /\ Takeable(p)
  BY DEF IInv, HeldUntilExpiry, FreshIsCurrent, DecisionStands
<1>2. lease.holder = Holder[q] /\ lease.age = stamp[q] /\ lease.duration = Duration[q]
  BY <1>1 DEF Acquired
<1>3. Holder[q] # None /\ Holder[q] # Holder[p]
  BY HolderAssumption
<1>4. stamp[q] \in Int /\ Duration[q] \in Int
  BY TimeAssumption DEF IInv, TypeOK
<1> QED
  BY <1>1, <1>2, <1>3, <1>4 DEF Takeable, Expired

LEMMA ReleasingOverrulesNobody ==
  ASSUME IInv, NEW p \in Procs, pc[p] = "releaseReplace", fresh[p],
         NEW q \in Procs, q # p
  PROVE  ~(Operating(q) /\ stamp[q] < Duration[q])
<1> SUFFICES ASSUME Operating(q), stamp[q] < Duration[q] PROVE FALSE
  OBVIOUS
<1>1. lease = Acquired(q) /\ lease.holder = Holder[p]
  BY DEF IInv, HeldUntilExpiry, FreshIsCurrent, DecisionStands
<1> QED
  BY <1>1, HolderAssumption DEF Acquired

(* Time passes for the stored object and for every copy of it alike.       *)
LEMMA TickInv == IInv /\ Tick => HeldUntilExpiry' /\ FreshIsCurrent' /\ DecisionStands'
<1> SUFFICES ASSUME IInv, Tick PROVE HeldUntilExpiry' /\ FreshIsCurrent' /\ DecisionStands'
  OBVIOUS
<1> USE DEF IInv, Tick
<1>1. HeldUntilExpiry'
  <2> SUFFICES ASSUME NEW p \in Procs, Operating(p)', (stamp[p] < Duration[p])'
               PROVE  (lease = Acquired(p))'
    BY DEF HeldUntilExpiry
  <2>1. Operating(p) /\ stamp'[p] = Older(stamp[p]) /\ stamp[p] \in 0..MaxAge
    BY DEF Operating, TypeOK
  <2>2. stamp[p] < Duration[p]
    BY <2>1, OlderRange, TimeAssumption
  <2>3. lease = Acquired(p)
    BY <2>1, <2>2 DEF HeldUntilExpiry
  <2> QED
    BY <2>1, <2>3 DEF Acquired, OlderLease
<1>2. FreshIsCurrent'
  BY DEF FreshIsCurrent
<1>3. DecisionStands'
  <2> SUFFICES ASSUME NEW p \in Procs, fresh[p]
               PROVE  /\ pc[p] = "replace" => Takeable(p)'
                      /\ pc[p] = "releaseReplace" => seen'[p].holder = Holder[p]
    BY DEF DecisionStands
  <2>1. seen[p] \in Lease /\ seen'[p] = OlderLease(seen[p])
    BY DEF TypeOK
  <2>2. /\ seen'[p].holder = seen[p].holder
        /\ seen'[p].duration = seen[p].duration
        /\ seen'[p].age = Older(seen[p].age)
        /\ seen[p].age \in 0..MaxAge /\ seen[p].duration \in 0..MaxAge
    BY <2>1 DEF OlderLease, Lease
  <2>3. seen[p].age <= seen'[p].age /\ seen'[p].age \in 0..MaxAge
    BY <2>2, OlderRange
  <2>4. Takeable(p) => Takeable(p)'
    BY <2>2, <2>3, TimeAssumption DEF Takeable, Expired
  <2> QED
    BY <2>2, <2>4 DEF DecisionStands
<1> QED
  BY <1>1, <1>2, <1>3

LEMMA AcquisitionInv ==
  ASSUME IInv, TypeOK', NEW p \in Procs, Acquisition(p)
  PROVE  HeldUntilExpiry' /\ FreshIsCurrent' /\ DecisionStands'
<1> USE DEF IInv, HeldUntilExpiry, FreshIsCurrent, DecisionStands, Operating,
            Takeable, Acquired, Goto, TypeOK
<1>1. CASE ReadLease(p)
  BY <1>1 DEF ReadLease, Get
<1>2. CASE DecideTake(p)
  BY <1>2 DEF DecideTake
<1>3. CASE DecideRefuse(p)
  BY <1>3 DEF DecideRefuse
<1>4. CASE ReplaceAccepted(p)
  <2>1. \A q \in Procs : q # p => ~(Operating(q) /\ stamp[q] < Duration[q])
    BY <1>4, AcquiringOverrulesNobody DEF ReplaceAccepted
  <2> QED
    BY <1>4, <2>1 DEF ReplaceAccepted, Put
<1>5. CASE ReplaceConflict(p)
  BY <1>5 DEF ReplaceConflict
<1>6. CASE AcquireFails(p)
  <2>1. CASE UNCHANGED <<lease, fresh>>
    BY <1>6, <2>1 DEF AcquireFails
  <2>2. CASE Goto(p, "replace", "failed") /\ fresh[p] /\ Put(Acquired(p))
    <3>1. \A q \in Procs : q # p => ~(Operating(q) /\ stamp[q] < Duration[q])
      BY <2>2, AcquiringOverrulesNobody
    <3> QED
      BY <1>6, <2>2, <3>1 DEF AcquireFails, Put
  <2> QED
    BY <1>6, <2>1, <2>2 DEF AcquireFails
<1>7. CASE Retry(p)
  BY <1>7 DEF Retry
<1>8. CASE GiveUp(p)
  BY <1>8 DEF GiveUp
<1> QED
  BY <1>1, <1>2, <1>3, <1>4, <1>5, <1>6, <1>7, <1>8 DEF Acquisition

LEMMA ReleaseInv ==
  ASSUME IInv, TypeOK', NEW p \in Procs, Release(p)
  PROVE  HeldUntilExpiry' /\ FreshIsCurrent' /\ DecisionStands'
<1> USE DEF IInv, HeldUntilExpiry, FreshIsCurrent, DecisionStands, Operating,
            Takeable, Acquired, Goto, TypeOK
<1>1. CASE ReleaseRead(p)
  BY <1>1 DEF ReleaseRead, Get
<1>2. CASE ReleaseAccepted(p)
  <2>1. \A q \in Procs : q # p => ~(Operating(q) /\ stamp[q] < Duration[q])
    BY <1>2, ReleasingOverrulesNobody DEF ReleaseAccepted
  <2> QED
    BY <1>2, <2>1 DEF ReleaseAccepted, Put
<1>3. CASE ReleaseFails(p)
  BY <1>3 DEF ReleaseFails
<1> QED
  BY <1>1, <1>2, <1>3 DEF Release

LEMMA EnvironmentInv ==
  ASSUME IInv, TypeOK', NEW p \in Procs, Environment(p)
  PROVE  HeldUntilExpiry' /\ FreshIsCurrent' /\ DecisionStands'
BY DEF IInv, HeldUntilExpiry, FreshIsCurrent, DecisionStands, Operating, Takeable,
       Acquired, Goto, TypeOK, Environment, Start, FinishOperation, Crash, NextRun, Ended

LEMMA StepInv == IInv /\ [Next]_vars => IInv'
<1> SUFFICES ASSUME IInv, [Next]_vars PROVE IInv'
  OBVIOUS
<1>1. TypeOK'
  BY TypeStep DEF IInv
<1>2. CASE UNCHANGED vars
  BY <1>1, <1>2 DEF IInv, vars, HeldUntilExpiry, FreshIsCurrent, DecisionStands,
                    Operating, Takeable, Acquired
<1>3. CASE Next
  BY <1>1, <1>3, TickInv, AcquisitionInv, ReleaseInv, EnvironmentInv DEF Next, IInv
<1> QED
  BY <1>2, <1>3

-----------------------------------------------------------------------------
(* Every reachable state is well typed.                                    *)
THEOREM TypeCorrect == Spec => []TypeOK
<1>1. IInv => TypeOK
  BY DEF IInv
<1> QED
  BY <1>1, InitInv, StepInv, PTL DEF Spec

(* A command whose term has not run out owns the Lease, whatever the other *)
(* commands, their crashes and their lost responses do.                    *)
THEOREM LeaseHeldUntilExpiry == Spec => []HeldUntilExpiry
<1>1. IInv => HeldUntilExpiry
  BY DEF IInv
<1> QED
  BY <1>1, InitInv, StepInv, PTL DEF Spec

(* Mutual exclusion of the commands that are inside their terms.           *)
THEOREM MutualExclusionWithinTerm == Spec => []ExclusiveWithinTerm
<1>1. HeldUntilExpiry => ExclusiveWithinTerm
  BY HolderAssumption DEF HeldUntilExpiry, ExclusiveWithinTerm, Acquired
<1> QED
  BY <1>1, LeaseHeldUntilExpiry, PTL

-----------------------------------------------------------------------------
(* The refinement.  TermLeft and InTerm, without their definitions' cases.  *)
LEMMA TermLeftValue ==
  ASSUME TypeOK
  PROVE  /\ TermLeft \in Nat
         /\ Expired(lease) <=> TermLeft = 0
         /\ ~Expired(lease) => TermLeft = lease.duration - lease.age
<1>1. lease.age \in 0..MaxAge /\ lease.duration \in 0..MaxAge
  BY DEF TypeOK, Lease
<1> QED
  BY <1>1, TimeAssumption DEF TermLeft, Expired

LEMMA InTermOwns ==
  ASSUME IInv, NEW p \in InTerm
  PROVE  /\ lease = Acquired(p) /\ ~Expired(lease)
         /\ \A q \in InTerm : q = p
<1>1. p \in Procs /\ stamp[p] < Duration[p] /\ lease = Acquired(p)
  BY DEF InTerm, IInv, HeldUntilExpiry
<1>2. stamp[p] \in Int /\ Duration[p] \in Int /\ Holder[p] # None
  BY <1>1, HolderAssumption, TimeAssumption DEF IInv, TypeOK
<1>3. ASSUME NEW q \in InTerm PROVE q = p
  <2>1. q \in Procs /\ lease = Acquired(q)
    BY DEF InTerm, IInv, HeldUntilExpiry
  <2> QED
    BY <2>1, <1>1, HolderAssumption DEF Acquired
<1> QED
  BY <1>1, <1>2, <1>3 DEF Acquired, Expired

(* A PUT of an acquisition that the API server accepts grants the lock.     *)
LEMMA PutAcquires ==
  ASSUME IInv, TypeOK', NEW p \in Procs, pc[p] = "replace", fresh[p], Put(Acquired(p)),
         stamp' = stamp, NEW target \in {"operating", "failed"},
         pc' = [pc EXCEPT ![p] = target]
  PROVE  Lock!Acquire(p)
<1>1. InTerm = {}
  <2> SUFFICES ASSUME NEW q \in InTerm PROVE FALSE
    OBVIOUS
  <2>1. q \in Procs /\ Operating(q) /\ stamp[q] < Duration[q]
    BY DEF InTerm
  <2>2. q # p
    BY <2>1 DEF Operating
  <2> QED
    BY <2>1, <2>2, AcquiringOverrulesNobody
<1>2. TermLeft = 0 \/ lease.holder = Holder[p]
  <2>1. Takeable(p) /\ seen[p] = lease
    BY DEF IInv, DecisionStands, FreshIsCurrent
  <2> QED
    BY <2>1 DEF Takeable, Expired, TermLeft
<1>3. lease' = Acquired(p) /\ lease'.holder = Holder[p] /\ lease'.age = stamp[p]
      /\ lease'.duration = Duration[p]
  BY DEF Put, Acquired
<1>4. stamp[p] \in Nat /\ Duration[p] \in Nat /\ Holder[p] # None
  <2>1. stamp[p] \in 0..MaxAge /\ Duration[p] \in 1..MaxAge
    BY TimeAssumption DEF IInv, TypeOK
  <2>2. Holder[p] # None
    BY HolderAssumption
  <2> QED
    BY <2>1, <2>2, TimeAssumption
<1>5. TermLeft' = IF stamp[p] < Duration[p] THEN Duration[p] - stamp[p] ELSE 0
  BY <1>3, <1>4 DEF TermLeft, Expired
<1>6. TermLeft' \in 0..Duration[p] /\ (TermLeft' > 0 <=> stamp[p] < Duration[p])
  BY <1>4, <1>5
<1>7. \A q \in Procs : q # p => pc'[q] = pc[q]
  BY DEF IInv, TypeOK
<1>8. InTerm' \in {{}, IF TermLeft' > 0 THEN {p} ELSE {}}
  <2>1. \A q \in Procs : q # p => q \notin InTerm'
    BY <1>1, <1>7 DEF InTerm, Operating
  <2>2. pc'[p] = target
    BY DEF IInv, TypeOK
  <2>3. CASE target = "operating" /\ stamp[p] < Duration[p]
    BY <1>6, <2>1, <2>2, <2>3 DEF InTerm, Operating
  <2>4. CASE ~(target = "operating" /\ stamp[p] < Duration[p])
    BY <2>1, <2>2, <2>4 DEF InTerm, Operating
  <2> QED
    BY <2>3, <2>4
<1> QED
  BY <1>1, <1>2, <1>3, <1>6, <1>8 DEF Lock!Acquire

(* A step of a process that does not write the Lease can only end its own   *)
(* time inside the term.                                                    *)
LEMMA LocalStepLeaves ==
  ASSUME IInv, NEW p \in Procs, lease' = lease,
         \A q \in Procs : q # p => pc'[q] = pc[q] /\ stamp'[q] = stamp[q],
         Operating(p)' => Operating(p) /\ stamp'[p] = stamp[p]
  PROVE  Lock!Leave(p) \/ UNCHANGED Lock!lockVars
<1>1. TermLeft' = TermLeft
  BY DEF TermLeft, Expired
<1>2. \A q \in Procs : q # p => (q \in InTerm' <=> q \in InTerm)
  BY DEF InTerm, Operating
<1>3. p \in InTerm' => p \in InTerm
  BY DEF InTerm, Operating
<1>4. InTerm \subseteq Procs /\ InTerm' \subseteq Procs
  BY DEF InTerm
<1>5. CASE p \in InTerm'
  <2>1. InTerm' = InTerm
    BY <1>2, <1>3, <1>4, <1>5
  <2> QED
    BY <1>1, <2>1 DEF Lock!lockVars
<1>6. CASE p \notin InTerm'
  <2>1. InTerm' = InTerm \ {p}
    BY <1>2, <1>4, <1>6
  <2> QED
    BY <1>1, <2>1 DEF Lock!Leave
<1> QED
  BY <1>5, <1>6

LEMMA TickPasses == IInv /\ IInv' /\ Tick => Lock!Tick
<1> SUFFICES ASSUME IInv, IInv', Tick PROVE Lock!Tick
  OBVIOUS
<1>1. lease \in Lease /\ lease' = OlderLease(lease)
  BY DEF IInv, TypeOK, Tick
<1>2. /\ lease'.holder = lease.holder /\ lease'.duration = lease.duration
      /\ lease'.age = Older(lease.age)
      /\ lease.age \in 0..MaxAge /\ lease.duration \in 0..MaxAge
  BY <1>1 DEF OlderLease, Lease
<1>3. TermLeft' = IF TermLeft > 0 THEN TermLeft - 1 ELSE 0
  BY <1>2, TimeAssumption DEF TermLeft, Expired, Older
<1>4. ASSUME NEW p \in Procs
      PROVE  p \in InTerm' <=> (p \in InTerm /\ TermLeft' > 0)
  <2>1. pc' = pc /\ stamp'[p] = Older(stamp[p]) /\ stamp[p] \in 0..MaxAge
        /\ Duration[p] \in 0..MaxAge /\ Holder[p] # None
    BY HolderAssumption, TimeAssumption DEF IInv, TypeOK, Tick
  <2>2. p \in InTerm => lease.age = stamp[p] /\ lease.duration = Duration[p]
                        /\ lease.holder = Holder[p]
    BY InTermOwns DEF Acquired
  <2>3. p \in InTerm => TermLeft = Duration[p] - stamp[p] /\ stamp[p] < Duration[p]
    BY <2>1, <2>2 DEF TermLeft, Expired, InTerm
  <2>4. p \in InTerm' => p \in InTerm
    BY <2>1, TimeAssumption DEF InTerm, Operating, Older
  <2>5. p \in InTerm => (p \in InTerm' <=> TermLeft' > 0)
    BY <1>3, <2>1, <2>3, TimeAssumption DEF InTerm, Operating, Older
  <2> QED
    BY <2>4, <2>5
<1>5. InTerm' = IF TermLeft' > 0 THEN InTerm ELSE {}
  BY <1>4 DEF InTerm
<1> QED
  BY <1>2, <1>3, <1>5 DEF Lock!Tick

LEMMA AcquisitionRefines ==
  ASSUME IInv, TypeOK', NEW p \in Procs, Acquisition(p)
  PROVE  Lock!Acquire(p) \/ Lock!Leave(p) \/ UNCHANGED Lock!lockVars
<1> USE DEF Goto
<1>1. CASE ReplaceAccepted(p)
  BY <1>1, PutAcquires DEF ReplaceAccepted
<1>2. CASE AcquireFails(p) /\ ~UNCHANGED <<lease, fresh>>
  BY <1>2, PutAcquires DEF AcquireFails
<1>3. CASE \/ ReadLease(p) \/ DecideTake(p) \/ DecideRefuse(p) \/ ReplaceConflict(p)
           \/ (AcquireFails(p) /\ UNCHANGED <<lease, fresh>>) \/ Retry(p) \/ GiveUp(p)
  <2>1. lease' = lease
    BY <1>3 DEF ReadLease, DecideTake, DecideRefuse, ReplaceConflict, Retry, GiveUp
  <2>2. \A q \in Procs : q # p => pc'[q] = pc[q] /\ stamp'[q] = stamp[q]
    BY <1>3 DEF ReadLease, DecideTake, DecideRefuse, ReplaceConflict, AcquireFails, Retry,
                GiveUp, IInv, TypeOK
  <2>3. ~Operating(p)'
    BY <1>3 DEF ReadLease, DecideTake, DecideRefuse, ReplaceConflict, AcquireFails, Retry,
                GiveUp, IInv, TypeOK, Operating
  <2> QED
    BY <2>1, <2>2, <2>3, LocalStepLeaves
<1> QED
  BY <1>1, <1>2, <1>3 DEF Acquisition

LEMMA ReleaseRefines ==
  ASSUME IInv, TypeOK', NEW p \in Procs, Release(p)
  PROVE  Lock!Release(p) \/ Lock!Leave(p) \/ UNCHANGED Lock!lockVars
<1> USE DEF Goto
<1>1. CASE ReleaseAccepted(p)
  <2>1. pc[p] = "releaseReplace" /\ fresh[p] /\ lease' = Released(p) /\ stamp' = stamp
    BY <1>1 DEF ReleaseAccepted, Put
  <2>2. lease.holder = Holder[p]
    BY <2>1 DEF IInv, FreshIsCurrent, DecisionStands
  <2>3. lease'.holder = None
    BY <2>1 DEF Released, IInv, TypeOK, Lease
  <2>4. TermLeft' = 0
    BY <2>3 DEF TermLeft, Expired
  <2>5. p \notin InTerm
    BY <2>1 DEF InTerm, Operating
  <2>6. \A q \in Procs : Operating(q)' <=> Operating(q)
    BY <1>1 DEF ReleaseAccepted, Operating, IInv, TypeOK
  <2>7. InTerm' = InTerm
    BY <2>1, <2>6 DEF InTerm
  <2> QED
    BY <2>2, <2>3, <2>4, <2>5, <2>7 DEF Lock!Release
<1>2. CASE ReleaseRead(p) \/ ReleaseFails(p)
  <2>1. lease' = lease /\ ~Operating(p)'
    BY <1>2 DEF ReleaseRead, ReleaseFails, IInv, TypeOK, Operating
  <2>2. \A q \in Procs : q # p => pc'[q] = pc[q] /\ stamp'[q] = stamp[q]
    BY <1>2 DEF ReleaseRead, ReleaseFails, IInv, TypeOK
  <2> QED
    BY <2>1, <2>2, LocalStepLeaves
<1> QED
  BY <1>1, <1>2 DEF Release

LEMMA EnvironmentRefines ==
  ASSUME IInv, NEW p \in Procs, Environment(p)
  PROVE  Lock!Leave(p) \/ UNCHANGED Lock!lockVars
<1>1. lease' = lease /\ stamp' = stamp /\ (Operating(p)' => Operating(p))
  BY DEF Environment, Start, FinishOperation, Crash, NextRun, Goto, Operating, IInv, TypeOK,
         Ended
<1>2. \A q \in Procs : q # p => pc'[q] = pc[q]
  BY DEF Environment, Start, FinishOperation, Crash, NextRun, Goto, IInv, TypeOK
<1> QED
  BY <1>1, <1>2, LocalStepLeaves

(* What the commands see of the Lease is a lock that is granted for a term: *)
(* it is never taken from an owner that is inside, and released by no one   *)
(* else.                                                                    *)
THEOREM LeaseImplementsTermLock == Spec => ImplementsTermLock
<1>1. Init => Lock!Init
  BY DEF Init, Lock!Init, FreeLease, TermLeft, Expired, InTerm, Operating
<1>2. IInv /\ IInv' /\ [Next]_vars => [Lock!Next]_(Lock!lockVars)
  <2> SUFFICES ASSUME IInv, IInv', [Next]_vars
               PROVE  Lock!Next \/ UNCHANGED Lock!lockVars
    OBVIOUS
  <2>1. TypeOK'
    BY DEF IInv
  <2>2. CASE Tick
    BY <2>2, TickPasses DEF Lock!Next
  <2>3. ASSUME NEW p \in Procs, Acquisition(p) PROVE Lock!Next \/ UNCHANGED Lock!lockVars
    BY <2>1, <2>3, AcquisitionRefines DEF Lock!Next
  <2>4. ASSUME NEW p \in Procs, Release(p) PROVE Lock!Next \/ UNCHANGED Lock!lockVars
    BY <2>1, <2>4, ReleaseRefines DEF Lock!Next
  <2>5. ASSUME NEW p \in Procs, Environment(p) PROVE Lock!Next \/ UNCHANGED Lock!lockVars
    BY <2>5, EnvironmentRefines DEF Lock!Next
  <2>6. CASE UNCHANGED vars
    BY <2>6 DEF vars, Lock!lockVars, TermLeft, Expired, InTerm, Operating
  <2> QED
    BY <2>2, <2>3, <2>4, <2>5, <2>6 DEF Next
<1> QED
  BY <1>1, <1>2, InitInv, StepInv, PTL DEF Spec, ImplementsTermLock, Lock!Spec
=============================================================================
