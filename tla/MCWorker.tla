------------------------------ MODULE MCWorker ------------------------------
(* Small instances of Worker for TLC.                                      *)
EXTENDS Worker, TLC

CONSTANTS j1, j2, j3, w1, w2, c1, c2, submitter

NoKeys == [j \in Jobs |-> NoKey]
DueAtOnce == [j \in Jobs |-> 0]
DueLater == [j \in Jobs |-> 1]
InSubmitter == [c \in Callers |-> submitter]
InW1 == [c \in Callers |-> w1]
Symmetric == Permutations(Workers)
=============================================================================
