------------------------ MODULE MCReconciliationLease ------------------------
(* Two pods with different lock terms; p1 tries once and skips, p2 waits   *)
(* and then fails.                                                         *)
EXTENDS ReconciliationLease, TLC

CONSTANTS p1, p2, a, b

MCHolder == (p1 :> a) @@ (p2 :> b)
MCDuration == (p1 :> 2) @@ (p2 :> 1)
MCWait == (p1 :> 0) @@ (p2 :> 2)
=============================================================================
