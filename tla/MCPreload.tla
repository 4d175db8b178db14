----------------------------- MODULE MCPreload -----------------------------
(* Two hosts that hold one big model or two small ones.  Durations are in   *)
(* tenths of a second: the first job asks for a keep_alive that rounds to   *)
(* nothing, the second for one that rounds up to a second.                  *)
EXTENDS Preload, TLC

CONSTANTS small, big

ModelOf == [j \in Jobs |-> IF j = 2 THEN big ELSE small]
SizeOf == [m \in Models |-> IF m = big THEN 9 ELSE 4]
VramOf == [h \in Hosts |-> 10]
KeepOf == [j \in Jobs |-> IF j = 1 THEN 3 ELSE 8]
BudgetsOf == {10, -1}
Negative == -1
=============================================================================
