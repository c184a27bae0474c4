--------------------------- MODULE MCOpenRouterSync ---------------------------
(* The operator cancels while replaced files are put back.                  *)
EXTENDS OpenRouterSync

CONSTANTS m1, m2, m3
===============================================================================
