-------------------------- MODULE MCTrustPublication --------------------------
(* A growing archive, expiring roots, and promotions to two Studio pods    *)
(* that honour their required version or do not.                           *)
EXTENDS TrustPublication, TLC

CONSTANTS initializer, stager, promoter, v1, v2, v3, active

MCArchiveScenario ==
  [publishers |-> {initializer, stager}, attempts |-> 1, versions |-> {v1, v2, v3},
   states |-> States, expirable |-> {}, pods |-> {}, gated |-> TRUE]
MCExpiryScenario ==
  [publishers |-> {initializer, stager}, attempts |-> 2, versions |-> {v1, v2},
   states |-> {active}, expirable |-> {v1, v2}, pods |-> {}, gated |-> TRUE]
MCPromotionScenario(gated) ==
  [publishers |-> {stager, promoter}, attempts |-> 1, versions |-> {v1, v2},
   states |-> {active}, expirable |-> {}, pods |-> Pods, gated |-> gated]

MCScenarios ==
  {MCArchiveScenario, MCExpiryScenario, MCPromotionScenario(TRUE), MCPromotionScenario(FALSE)}

MCSymmetry == Permutations(Pods) \cup Permutations(Versions)
=============================================================================
