------------------------------ MODULE TermLock ------------------------------
(***************************************************************************)
(* What the commands may rely on when they run under the reconciliation    *)
(* Lease, without its object, reads, conflicts and retries: a lock that is *)
(* granted for a term, that nobody else takes before the term is over, and *)
(* whose owner knows by itself, at every moment, whether it still is       *)
(* inside.  ReconciliationLease is shown to implement it.                  *)
(***************************************************************************)
EXTENDS Integers

CONSTANTS Procs, Pods, None, Holder, Duration

VARIABLES
  owner,    (* the pod the lock is granted to, None when it is free         *)
  left,     (* what is left of the term, 0 when the lock may be taken       *)
  inTerm    (* processes that work and whose term is not over               *)

lockVars == <<owner, left, inTerm>>

Init == owner = None /\ left = 0 /\ inTerm = {}

(* The request may take part of the term, or all of it, to arrive; and its  *)
(* answer may be lost, so that nobody works in the term.                    *)
Acquire(p) ==
  /\ left = 0 \/ owner = Holder[p]
  /\ inTerm = {}
  /\ owner' = Holder[p]
  /\ left' \in 0..Duration[p]
  /\ inTerm' \in {{}, IF left' > 0 THEN {p} ELSE {}}

(* The operation ended, or its pod did.                                     *)
Leave(p) ==
  /\ inTerm' = inTerm \ {p}
  /\ UNCHANGED <<owner, left>>

Release(p) ==
  /\ owner = Holder[p] /\ p \notin inTerm
  /\ owner' = None /\ left' = 0
  /\ UNCHANGED inTerm

Tick ==
  /\ left' = (IF left > 0 THEN left - 1 ELSE 0)
  /\ inTerm' = IF left' > 0 THEN inTerm ELSE {}
  /\ UNCHANGED owner

Next == Tick \/ \E p \in Procs : Acquire(p) \/ Leave(p) \/ Release(p)

Spec == Init /\ [][Next]_lockVars

(* Who is inside its term is alone there, and the lock is its own.          *)
OwnedAlone ==
  /\ \A p \in inTerm : owner = Holder[p] /\ left > 0
  /\ \A p, q \in inTerm : p = q
=============================================================================
