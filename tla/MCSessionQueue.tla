--------------------------- MODULE MCSessionQueue ---------------------------
(* Three tasks of one key with two priorities, one of another, one without. *)
EXTENDS SessionQueue, TLC

CONSTANTS a1, a2, a3, b1, n1, a, b, w1, w2

KeyOf == [t \in Tasks |-> CASE t \in {a1, a2, a3} -> a [] t = b1 -> b [] OTHER -> NoKey]
PrioOf == [t \in Tasks |-> IF t \in {a3, n1} THEN 1 ELSE 2]
=============================================================================
