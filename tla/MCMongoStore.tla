---------------------------- MODULE MCMongoStore ----------------------------
(* MongoStore for TLC: CorrJobs are enqueued with one correlation id, the  *)
(* others with one idempotency key.  Two jobs of one kind differ in their  *)
(* id alone, and so do two clients.                                        *)
EXTENDS MongoStore, TLC

CONSTANTS j1, j2, j3, j4, a, b, order1, retry1, CorrJobs,
  MaxToken   \* bound: claims in a behaviour

CorrOf == [j \in Jobs |-> IF j \in CorrJobs THEN order1 ELSE NoKey]
IdemOf == [j \in Jobs |-> IF j \in CorrJobs THEN NoKey ELSE retry1]
DelayOf == [j \in Jobs |-> 0]

BoundedNext == MongoNext /\ nextToken' =< MaxToken
BoundedSpec == MongoInit /\ [][BoundedNext]_mongoVars
Symmetric ==
  Permutations(Clients) \cup Permutations(CorrJobs)
    \cup Permutations(Jobs \ CorrJobs)
=============================================================================
