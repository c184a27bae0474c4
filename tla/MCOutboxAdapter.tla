--------------------------- MODULE MCOutboxAdapter ---------------------------
(* Records in one scope or two, with and without crowded windows.          *)
EXTENDS OutboxAdapter, TLC

CONSTANTS r1, r2, r3, p1, p2

MCOneScope == [r \in Records |-> 1]
MCTwoScopes == [r \in Records |-> IF r = r3 THEN 2 ELSE 1]
MCTimes == [r \in Records |-> IF r = r1 THEN 0 ELSE 1]
MCDenseTimes == [r \in Records |-> CASE r = r1 -> 0 [] r = r2 -> 1 [] OTHER -> 2]
MCNoLogOnly == [q \in Policies |-> {}]
MCLogOnly == (p1 :> {r1}) @@ (p2 :> {})
=============================================================================
