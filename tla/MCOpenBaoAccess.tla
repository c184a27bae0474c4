---------------------------- MODULE MCOpenBaoAccess ----------------------------
(* A role of Base and one of an add-on, two records, four identities.      *)
EXTENDS OpenBaoAccess, TLC

CONSTANTS keycloak, reader

MCSymmetry == Permutations(Policies) \cup Permutations(Records)
=============================================================================
