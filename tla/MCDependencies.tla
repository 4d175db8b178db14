--------------------------- MODULE MCDependencies ---------------------------
(* A batch: second depends on first, third is labelled after first; and a  *)
(* job submitted by itself with the idempotency_key of second.              *)
EXTENDS Dependencies, TLC

CONSTANTS w1, w2, user, batcher, first, second, third, other, group1, key1, agent

IdemOf == [j \in Jobs |-> IF j \in {second, other} THEN key1 ELSE NoKey]
Keyless == [j \in Jobs |-> NoKey]
DelayOf == [j \in Jobs |-> IF j = second THEN 1 ELSE 0]
DepsOf == [j \in Jobs |-> CASE j = second -> {first}
                            [] OTHER -> {}]
GroupOf == [j \in Jobs |-> IF j \in {first, third} THEN group1 ELSE NoKey]
RankOf == [j \in Jobs |-> IF j = third THEN 1 ELSE 0]
PlaceOf == [j \in Jobs |-> CASE j = third -> 0 [] j = second -> 1
                             [] j = first -> 2 [] OTHER -> 3]
ItemsOf == <<second, first, third>>
\* first and other belong to a session with one slot; third starts by a rate.
DimsOf == [j \in Jobs |-> IF j \in {first, other} THEN {agent}
                         ELSE IF j = third THEN {group1} ELSE {}]
SessionOf == [j \in Jobs |-> IF j \in {first, other} THEN agent ELSE NoKey]
Limits == [k \in {agent} |-> 1]
Bursts == [k \in {group1} |-> 1]
UserCancels == [c \in Callers |-> IF c = user THEN {first} ELSE {}]
=============================================================================
