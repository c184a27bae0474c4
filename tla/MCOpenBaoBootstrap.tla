-------------------------- MODULE MCOpenBaoBootstrap --------------------------
(* Two terminals; one password of the catalog, one of a selected add-on.   *)
EXTENDS OpenBaoBootstrap, TLC

CONSTANTS core, addon

MCSelections == {{core}, {core, addon}}

MCSymmetry == Permutations(Operators)
=============================================================================
