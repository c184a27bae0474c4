------------------------- MODULE ReconciliationLease -------------------------
(***************************************************************************)
(* The Kubernetes Lease that serialises the reconciliation commands of the *)
(* operations image (src/k8s_stack_tooling/api/kubernetes.py):             *)
(* reconciliation_lock, _try_acquire_lease, _lease_expired, _release_lease *)
(* and run_with_reconciliation_lock.                                       *)
(*                                                                         *)
(* The Lease object lives in the API server; a process works on the copy   *)
(* its last GET returned, and a PUT carries that copy's resourceVersion.   *)
(* Times are kept as ages that grow with Tick and stop at MaxAge, so that  *)
(* time itself is not bounded; a resourceVersion is kept as one bit per    *)
(* process, "nothing was written since my read".                           *)
(***************************************************************************)
EXTENDS Integers

CONSTANTS
  Procs,              (* running instances of a reconciliation command      *)
  Pods,               (* pod names                                          *)
  None,               (* holder_identity of a free Lease                    *)
  Holder,             (* Holder[p]: the POD_NAME of p                       *)
  Duration,           (* Duration[p]: the lease_duration_seconds p writes   *)
  Wait,               (* Wait[p]: RECONCILE_LOCK_WAIT_SECONDS of p          *)
  FailIfUnavailable,  (* processes with RECONCILE_LOCK_FAIL_IF_UNAVAILABLE  *)
  MaxAge              (* ages are not told apart above MaxAge               *)

ASSUME HolderAssumption ==
  /\ None \notin Pods
  /\ Holder \in [Procs -> Pods]
  /\ \A p, q \in Procs : Holder[p] = Holder[q] => p = q

ASSUME TimeAssumption ==
  /\ MaxAge \in Nat
  /\ Duration \in [Procs -> 1..MaxAge]
  /\ Wait \in [Procs -> Nat]

VARIABLES
  lease,     (* the object in the API server                               *)
  pc,        (* where each process is                                      *)
  seen,      (* seen[p]: the copy of the Lease p read last                 *)
  fresh,     (* fresh[p]: seen[p] still has the current resourceVersion    *)
  stamp,     (* stamp[p]: age of the "now" p stamps, or stamped, its PUT   *)
  waitLeft   (* waitLeft[p]: time until p's deadline                       *)

vars == <<lease, pc, seen, fresh, stamp, waitLeft>>

Lease == [holder : Pods \cup {None}, age : 0..MaxAge, duration : 0..MaxAge]

Ended == {"skipped", "failed", "done", "crashed"}
Steps == {"idle", "read", "decide", "replace", "refused", "operating",
          "releaseRead", "releaseReplace"}

TypeOK ==
  /\ lease \in Lease
  /\ pc \in [Procs -> Steps \cup Ended]
  /\ seen \in [Procs -> Lease]
  /\ fresh \in [Procs -> BOOLEAN]
  /\ stamp \in [Procs -> 0..MaxAge]
  /\ waitLeft \in [Procs -> Nat]

(* The chart creates the Lease without holder; its missing renew time is   *)
(* an age no duration exceeds.                                             *)
FreeLease == [holder |-> None, age |-> MaxAge, duration |-> 0]

Init ==
  /\ lease = FreeLease
  /\ pc = [p \in Procs |-> "idle"]
  /\ seen = [p \in Procs |-> FreeLease]
  /\ fresh = [p \in Procs |-> FALSE]
  /\ stamp = [p \in Procs |-> 0]
  /\ waitLeft = [p \in Procs |-> 0]

-----------------------------------------------------------------------------
Older(age) == IF age < MaxAge THEN age + 1 ELSE age
OlderLease(l) == [l EXCEPT !.age = Older(@)]

(* A slip in the clock arithmetic: the last unit of the term is not granted. *)
ExpiredEarly(l) == l.holder = None \/ l.age + 1 >= l.duration

Expired(l) == l.holder = None \/ l.age >= l.duration

Goto(p, from, to) == pc[p] = from /\ pc' = [pc EXCEPT ![p] = to]

(* A PUT that the API server accepts: everybody else's copy is now stale.  *)
Put(l) == lease' = l /\ fresh' = [q \in Procs |-> FALSE]

Start(p) ==
  /\ Goto(p, "idle", "read")
  /\ waitLeft' = [waitLeft EXCEPT ![p] = Wait[p]]
  /\ UNCHANGED <<lease, seen, fresh, stamp>>

(* GET of the Lease, by _try_acquire_lease and by _release_lease.          *)
Get(p) ==
  /\ seen' = [seen EXCEPT ![p] = lease]
  /\ fresh' = [fresh EXCEPT ![p] = TRUE]

ReadLease(p) ==
  /\ Goto(p, "read", "decide")
  /\ Get(p)
  /\ UNCHANGED <<lease, stamp, waitLeft>>

(* The Lease is free, one's own, or out of its term.                       *)
Takeable(p) ==
  \/ seen[p].holder \in {None, Holder[p]}
  \/ Expired(seen[p])

(* "now" is taken after the GET, and is what the PUT will carry.           *)
DecideTake(p) ==
  /\ Takeable(p)
  /\ Goto(p, "decide", "replace")
  /\ stamp' = [stamp EXCEPT ![p] = 0]
  /\ UNCHANGED <<lease, seen, fresh, waitLeft>>

DecideRefuse(p) ==
  /\ ~Takeable(p)
  /\ Goto(p, "decide", "refused")
  /\ UNCHANGED <<lease, seen, fresh, stamp, waitLeft>>

Acquired(p) == [holder |-> Holder[p], age |-> stamp[p], duration |-> Duration[p]]

(* A PUT without resourceVersion, as a patch would be.                     *)
ReplaceUnconditional(p) ==
  /\ Goto(p, "replace", "operating")
  /\ Put(Acquired(p))
  /\ UNCHANGED <<seen, stamp, waitLeft>>

ReplaceAccepted(p) ==
  /\ fresh[p]
  /\ Goto(p, "replace", "operating")
  /\ Put(Acquired(p))
  /\ UNCHANGED <<seen, stamp, waitLeft>>

ReplaceConflict(p) ==
  /\ ~fresh[p]
  /\ Goto(p, "replace", "refused")
  /\ UNCHANGED <<lease, seen, fresh, stamp, waitLeft>>

(* Any other API failure of the acquisition ends the command; the PUT may  *)
(* have been applied although its response is lost.                        *)
AcquireFails(p) ==
  /\ \/ Goto(p, "read", "failed") /\ UNCHANGED <<lease, fresh>>
     \/ Goto(p, "replace", "failed") /\ UNCHANGED <<lease, fresh>>
     \/ Goto(p, "replace", "failed") /\ fresh[p] /\ Put(Acquired(p))
  /\ UNCHANGED <<seen, stamp, waitLeft>>

RetryPastDeadline(p) ==
  /\ Goto(p, "refused", "read")
  /\ UNCHANGED <<lease, seen, fresh, stamp, waitLeft>>

Retry(p) ==
  /\ waitLeft[p] > 0
  /\ Goto(p, "refused", "read")
  /\ UNCHANGED <<lease, seen, fresh, stamp, waitLeft>>

GiveUp(p) ==
  /\ waitLeft[p] = 0
  /\ Goto(p, "refused", IF p \in FailIfUnavailable THEN "failed" ELSE "skipped")
  /\ UNCHANGED <<lease, seen, fresh, stamp, waitLeft>>

(* The operation returns or raises: the finally clause releases the Lease. *)
FinishOperation(p) ==
  /\ Goto(p, "operating", "releaseRead")
  /\ UNCHANGED <<lease, seen, fresh, stamp, waitLeft>>

(* A release that does not look who holds the Lease.                       *)
ReleaseReadUnchecked(p) ==
  /\ Goto(p, "releaseRead", "releaseReplace")
  /\ Get(p)
  /\ stamp' = [stamp EXCEPT ![p] = 0]
  /\ UNCHANGED <<lease, waitLeft>>

ReleaseRead(p) ==
  /\ Goto(p, "releaseRead",
          IF lease.holder = Holder[p] THEN "releaseReplace" ELSE "done")
  /\ Get(p)
  /\ stamp' = [stamp EXCEPT ![p] = 0]
  /\ UNCHANGED <<lease, waitLeft>>

Released(p) == [seen[p] EXCEPT !.holder = None, !.age = stamp[p]]

ReleaseAccepted(p) ==
  /\ fresh[p]
  /\ Goto(p, "releaseReplace", "done")
  /\ Put(Released(p))
  /\ UNCHANGED <<seen, stamp, waitLeft>>

(* A conflict or another API failure is only logged; a PUT that is applied *)
(* without an answer is ReleaseAccepted.                                   *)
ReleaseFails(p) ==
  /\ \/ Goto(p, "releaseRead", "done")
     \/ Goto(p, "releaseReplace", "done")
  /\ UNCHANGED <<lease, seen, fresh, stamp, waitLeft>>

(* The pod is killed at any point.                                         *)
Crash(p) ==
  /\ pc[p] \in Steps \ {"idle"}
  /\ pc' = [pc EXCEPT ![p] = "crashed"]
  /\ UNCHANGED <<lease, seen, fresh, stamp, waitLeft>>

(* The next period of a sidecar, or a restarted container, under the same  *)
(* POD_NAME.                                                               *)
NextRun(p) ==
  /\ pc[p] \in Ended
  /\ pc' = [pc EXCEPT ![p] = "idle"]
  /\ UNCHANGED <<lease, seen, fresh, stamp, waitLeft>>

Tick ==
  /\ lease' = OlderLease(lease)
  /\ seen' = [p \in Procs |-> OlderLease(seen[p])]
  /\ stamp' = [p \in Procs |-> Older(stamp[p])]
  /\ waitLeft' = [p \in Procs |-> IF waitLeft[p] > 0 THEN waitLeft[p] - 1 ELSE 0]
  /\ UNCHANGED <<pc, fresh>>

-----------------------------------------------------------------------------
Acquisition(p) ==
  \/ ReadLease(p)
  \/ DecideTake(p)
  \/ DecideRefuse(p)
  \/ ReplaceAccepted(p)
  \/ ReplaceConflict(p)
  \/ AcquireFails(p)
  \/ Retry(p)
  \/ GiveUp(p)

Release(p) ==
  \/ ReleaseRead(p)
  \/ ReleaseAccepted(p)
  \/ ReleaseFails(p)

Environment(p) ==
  \/ Start(p)
  \/ FinishOperation(p)
  \/ Crash(p)
  \/ NextRun(p)

Next ==
  \/ Tick
  \/ \E p \in Procs : Acquisition(p) \/ Release(p) \/ Environment(p)

(* A process that runs keeps executing its loop, and time passes.  Nothing *)
(* is assumed about the operation, about crashes or about the next run.    *)
Fairness ==
  /\ WF_vars(Tick)
  /\ \A p \in Procs : WF_vars(Acquisition(p)) /\ WF_vars(Release(p))

Spec == Init /\ [][Next]_vars
FairSpec == Spec /\ Fairness

-----------------------------------------------------------------------------
Operating(p) == pc[p] \in {"operating", "releaseRead"}

(* run_with_reconciliation_lock: a process whose Lease term has not run    *)
(* out by its own stamp owns the Lease, with the term it stamped, until it *)
(* starts to release it.                                                   *)
HeldUntilExpiry ==
  \A p \in Procs :
    Operating(p) /\ stamp[p] < Duration[p] => lease = Acquired(p)

(* Two commands work at the same time only when the term of one of them    *)
(* has run out.                                                            *)
ExclusiveWithinTerm ==
  \A p, q \in Procs :
    /\ p # q
    /\ Operating(p) /\ stamp[p] < Duration[p]
    /\ Operating(q) /\ stamp[q] < Duration[q]
    => FALSE

(* For its users the Lease is a TermLock: no PUT based on a stale read gets *)
(* through, no release hits another holder's Lease, and who is inside the   *)
(* term it stamped owns the Lease for exactly what is left of that term.    *)
InTerm == {p \in Procs : Operating(p) /\ stamp[p] < Duration[p]}

TermLeft == IF Expired(lease) THEN 0 ELSE lease.duration - lease.age

Lock == INSTANCE TermLock WITH owner <- lease.holder, left <- TermLeft, inTerm <- InTerm

ImplementsTermLock == Lock!Spec

(* reconciliation_lock decides within its wait: the loop ends with the     *)
(* Lease or without it.                                                    *)
AcquisitionEnds ==
  \A p \in Procs : pc[p] = "read" ~> pc[p] \in Ended \cup {"operating"}

(* The inductive strengthening: a copy marked fresh is the stored object,  *)
(* so what a process concluded from it still holds when its PUT arrives.   *)
FreshIsCurrent == \A p \in Procs : fresh[p] => seen[p] = lease

DecisionStands ==
  \A p \in Procs :
    fresh[p] =>
      /\ pc[p] = "replace" => Takeable(p)
      /\ pc[p] = "releaseReplace" => seen[p].holder = Holder[p]

IInv == TypeOK /\ HeldUntilExpiry /\ FreshIsCurrent /\ DecisionStands

(* The docstring of run_with_reconciliation_lock, "Run an operation only   *)
(* while holding its configured reconciliation Lease": the Lease is never  *)
(* renewed while the operation runs.                                       *)
OnlyWhileHolding ==
  \A p \in Procs : pc[p] = "operating" => lease.holder = Holder[p]
=============================================================================
