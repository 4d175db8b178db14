-------------------------- MODULE MongoStoreProofs --------------------------
(***************************************************************************)
(* What the keys of the job table guarantee, for any jobs and keys, and    *)
(* that the Mongo store, whose enqueue, reclaim and delete are several     *)
(* server calls, makes only the steps of the atomic table and answers      *)
(* concurrent enqueues alike.                                              *)
(***************************************************************************)
EXTENDS MongoStore, JobStoreProofs

-----------------------------------------------------------------------------
(* How the status of a row moves.                                          *)

\* An insert: the row was never there, and no row had one of its keys.
Inserted(k) ==
  /\ rows[k].status = "new" /\ rows'[k].status = "queued"
  /\ SameCorr(k) \cup SameIdem(k) = {}
  /\ \A i \in Jobs \ {k} : rows'[i].status = rows[i].status

Moves(k) ==
  \/ rows'[k].status = rows[k].status
  \/ Inserted(k)
  \/ /\ Exists(k)
     /\ \/ rows'[k].status = "deleted"
        \/ rows'[k].status \in JobStatus
     /\ rows[k].status = "completed"
          => rows'[k].status \notin {"queued", "processing"}

LEMMA OneRowMoves ==
  ASSUME StoreInv, NEW j \in Jobs, NEW s,
         rows[j].status \in JobStatus, s \in JobStatus \cup {rows[j].status},
         rows[j].status = "completed" => s \notin {"queued", "processing"},
         \A k \in Jobs : rows'[k].status = IF k = j THEN s ELSE rows[k].status
  PROVE  \A k \in Jobs : Moves(k)
BY DEF Moves, Exists

LEMMA JobOpMoves ==
  ASSUME StoreInv, NEW j \in Jobs, JobOp(j)
  PROVE  \A k \in Jobs : Moves(k)
<1>0. /\ rows \in [Jobs -> Row] /\ rows[j] \in Row
      /\ \A k \in Jobs : DOMAIN rows[k] = DOMAIN rows[j]
  BY DEF StoreInv, StoreTypeOK, Row
<1>1. ASSUME UNCHANGED rows PROVE \A k \in Jobs : Moves(k)
  BY <1>1 DEF Moves
<1>2. CASE Enqueue(j)
  <2>1. /\ rows'[j].status = "queued"
        /\ \A k \in Jobs \ {j} : rows'[k] = rows[k]
    BY <1>0, <1>2 DEF Enqueue, Absent
  <2> QED  BY <1>2, <2>1 DEF Enqueue, Inserted, Moves
<1>3. CASE Claim(j)
  <2>1. \A k \in Jobs :
          rows'[k].status = IF k = j THEN "processing" ELSE rows[k].status
    BY <1>0, <1>3 DEF Claim, Row
  <2>2. rows[j].status = "queued"
    BY <1>3 DEF Claim, Claimable
  <2> QED  BY <2>1, <2>2, OneRowMoves DEF JobStatus
<1>4. ASSUME NEW t, Heartbeat(j, t)
      PROVE  \A k \in Jobs : Moves(k)
  <2>1. \A k \in Jobs : rows'[k].status = rows[k].status
    BY <1>0, <1>4 DEF Heartbeat, Row
  <2> QED  BY <2>1 DEF Moves
<1>5. ASSUME NEW s \in Terminal, Exists(j), rows' = WithResult(j, s)
      PROVE  \A k \in Jobs : Moves(k)
  <2>1. \A k \in Jobs : rows'[k].status = IF k = j THEN s ELSE rows[k].status
    BY <1>0, <1>5 DEF WithResult, Row
  <2> QED  BY <1>5, <2>1, OneRowMoves DEF Exists, JobStatus, Terminal
<1>6. ASSUME NEW t, NEW s \in {"completed", "failed"}, SetResultOwned(j, t, s)
      PROVE  \A k \in Jobs : Moves(k)
  BY <1>5, <1>6 DEF SetResultOwned, Owns, Exists, JobStatus, Terminal
<1>7. CASE UpdateStatus(j, "cancelled")
  <2>1. CASE Exists(j)
    <3>1. \A k \in Jobs :
            rows'[k].status = IF k = j THEN "cancelled" ELSE rows[k].status
      BY <1>0, <1>7, <2>1 DEF UpdateStatus, Row
    <3> QED  BY <2>1, <3>1, OneRowMoves DEF Exists, JobStatus, Terminal
  <2> QED  BY <1>1, <1>7, <2>1 DEF UpdateStatus
<1>8. ASSUME NEW s \in {"failed", "cancelled"}, SetResult(j, s)
      PROVE  \A k \in Jobs : Moves(k)
  BY <1>1, <1>5, <1>8 DEF SetResult, Terminal
<1>9. CASE Requeue(j, {"failed", "cancelled"})
  <2>1. \A k \in Jobs :
          rows'[k].status = IF k = j THEN "queued" ELSE rows[k].status
    BY <1>0, <1>9 DEF Requeue, Row
  <2>2. rows[j].status \in {"failed", "cancelled"}
    BY <1>9 DEF Requeue
  <2> QED  BY <2>1, <2>2, OneRowMoves DEF JobStatus, Terminal
<1>10. CASE MarkPublished(j)
  <2>1. \A k \in Jobs : rows'[k].status = rows[k].status
    BY <1>0, <1>10 DEF MarkPublished, Row
  <2> QED  BY <2>1 DEF Moves
<1> QED
  BY <1>2, <1>3, <1>4, <1>6, <1>7, <1>8, <1>9, <1>10 DEF JobOp

LEMMA StoreMoves ==
  ASSUME StoreInv, [StoreNext]_storeVars
  PROVE  \A k \in Jobs : Moves(k)
<1>0. rows \in [Jobs -> Row]
  BY DEF StoreInv, StoreTypeOK
<1>1. ASSUME NEW S \in SUBSET Jobs, Reclaim(S)
      PROVE  \A k \in Jobs : Moves(k)
  <2>1. \A k \in Jobs :
          rows'[k].status = IF k \in S THEN "queued" ELSE rows[k].status
    BY <1>0, <1>1 DEF Reclaim, ReclaimRows, Row
  <2>2. \A k \in S : rows[k].status = "processing"
    BY <1>1 DEF Reclaim, Stale
  <2> QED  BY <2>1, <2>2 DEF Moves, Exists, JobStatus
<1>2. ASSUME NEW S \in SUBSET Jobs, Delete(S)
      PROVE  \A k \in Jobs : Moves(k)
  BY <1>0, <1>2 DEF Delete, Absent, Moves
<1>3. CASE Tick
  <2>1. \A k \in Jobs : rows'[k].status = rows[k].status
    BY <1>0, <1>3 DEF Tick, Row
  <2> QED  BY <2>1 DEF Moves
<1>4. CASE UNCHANGED storeVars
  BY <1>4 DEF storeVars, Moves
<1> QED  BY <1>1, <1>2, <1>3, <1>4, JobOpMoves DEF StoreNext

LEMMA StatusKnown ==
  ASSUME StoreInv, NEW k \in Jobs
  PROVE  rows[k].status \in JobStatus \cup {"new", "deleted"}
BY DEF StoreInv, StoreTypeOK, Row, RowStatus

-----------------------------------------------------------------------------
(* The keys of the table.                                                  *)

LEMMA KeysStep ==
  ASSUME StoreInv, KeysUnique, [StoreNext]_storeVars
  PROVE  KeysUnique'
<1>1. \A k \in Jobs : Moves(k)
  BY StoreMoves
<1>2. \A k \in Jobs : Exists(k)' => Exists(k) \/ Inserted(k)
  BY <1>1 DEF Moves, Exists, JobStatus, Terminal
<1>3. \A k \in Jobs : Inserted(k) =>
        /\ ~Exists(k)
        /\ \A i \in Jobs \ {k} : /\ Exists(i)' => Exists(i)
                                 /\ ~Inserted(i)
  BY DEF Inserted, Exists, JobStatus, Terminal
<1>4. \A j, k \in Jobs : Inserted(j) /\ Exists(k) =>
        /\ Corr[k] = Corr[j] => Corr[j] = NoKey
        /\ Idem[k] = Idem[j] => Idem[j] = NoKey
  BY DEF Inserted, SameCorr, SameIdem
<1> QED
  BY <1>2, <1>3, <1>4 DEF KeysUnique

\* One correlation_id, or one idempotency_key, has at most one row, whatever is
\* called in whatever order.
THEOREM OneRowPerKey == StoreSpec => []KeysUnique
<1>1. StoreInit => KeysUnique
  BY DEF StoreInit, KeysUnique, Exists, Absent, JobStatus, Terminal
<1>2. StoreInv /\ KeysUnique /\ [StoreNext]_storeVars => KeysUnique'
  BY KeysStep
<1> QED  BY <1>1, <1>2, StoreInvariant, PTL DEF StoreSpec

\* A completed job is not brought back to the queue.
THEOREM CompletedForGood == StoreSpec => NeverRerunCompleted
<1>1. StoreInv /\ [StoreNext]_storeVars
        => [\A j \in Jobs : rows[j].status = "completed"
              => rows'[j].status \notin {"queued", "processing"}]_storeVars
  BY StoreMoves DEF Moves, Inserted
<1> QED  BY <1>1, StoreInvariant, PTL DEF StoreSpec, NeverRerunCompleted

-----------------------------------------------------------------------------
(* The Mongo store makes the steps of the table.                           *)

LEMMA MongoAllowed == [MongoNext]_mongoVars => [StoreNext]_storeVars
<1> SUFFICES ASSUME [MongoNext]_mongoVars PROVE [StoreNext]_storeVars
  OBVIOUS
<1>1. ASSUME NEW c \in Clients, ScanStale(c) \/ ScanDelete(c)
      PROVE  UNCHANGED storeVars
  BY <1>1 DEF ScanStale, ScanDelete
<1>2. ASSUME NEW c \in Clients, NEW j \in Jobs,
             EnqueueCall(c, j) \/ EnqueueStep(c, j)
      PROVE  Enqueue(j) \/ UNCHANGED storeVars
  BY <1>2
  DEF EnqueueCall, EnqueueStep, FindCorr, FindIdem, Insert, RefindCorr, RefindIdem
<1>3. ASSUME NEW c \in Clients, NEW j \in Jobs, ReclaimOne(c, j) \/ DeleteOne(c, j)
      PROVE  Reclaim({j}) \/ Delete({j}) \/ UNCHANGED storeVars
  BY <1>3 DEF ReclaimOne, DeleteOne
<1>4. ASSUME NEW j \in Jobs, UpdateOne(j) PROVE JobOp(j)
  BY <1>4 DEF UpdateOne, JobOp
<1>5. \A j \in Jobs : {j} \in SUBSET Jobs
  OBVIOUS
<1> QED
  BY <1>1, <1>2, <1>3, <1>4, <1>5
  DEF MongoNext, StoreNext, JobOp, mongoVars, storeVars

\* Enqueue, reclaim and delete, call by call and interleaved with anything, change
\* the collection only as the atomic operations of the table may.
THEOREM MongoImplementsStore == MongoSpec => ImplementsStore
<1>1. MongoInit => StoreInit
  BY DEF MongoInit
<1> QED  BY <1>1, MongoAllowed, PTL DEF MongoSpec, ImplementsStore, StoreSpec

-----------------------------------------------------------------------------
(* What enqueue returns.                                                   *)

Kin(j, k) ==
  \/ j = k
  \/ Corr[j] # NoKey /\ Corr[j] = Corr[k]
  \/ Idem[j] # NoKey /\ Idem[j] = Idem[k]

SomeDeleted == \E k \in Jobs : rows[k].status = "deleted"

Steps == {"idle", "corr", "idem", "insert", "recorr", "reidem", "reclaim", "delete"}

MTyped ==
  /\ op \in [Clients -> [pc : Steps, job : Jobs \cup {NoKey}, cands : SUBSET Jobs]]
  /\ ret \in [Jobs -> Jobs \cup {Pending, Raised}]

\* A returned id is that of a row with the same key, which is there unless it was
\* deleted; nothing else makes an enqueue raise.
Returned ==
  \A j \in Jobs :
    /\ ret[j] \in Jobs => Kin(j, ret[j]) /\ rows[ret[j]].status # "new"
    /\ ret[j] = Raised => SomeDeleted

\* After a refused insert a row with the key is there, unless one was deleted.
Refused ==
  \A c \in Clients, j \in Jobs :
    /\ At(c, "recorr", j) => SomeDeleted \/ SameCorr(j) \cup SameIdem(j) # {}
    /\ At(c, "reidem", j) => SomeDeleted \/ SameIdem(j) # {}

MInv == StoreInv /\ KeysUnique /\ MTyped /\ Returned /\ Refused

\* What the table's own steps keep.
LEMMA TableKeeps ==
  ASSUME MInv, [StoreNext]_storeVars
  PROVE  /\ SomeDeleted => SomeDeleted'
         /\ \A k \in Jobs : rows[k].status # "new" => rows'[k].status # "new"
         /\ \A k \in Jobs : Exists(k) => Exists(k)' \/ SomeDeleted'
         /\ \A j \in Jobs : SameCorr(j) # {} => SameCorr(j)' # {} \/ SomeDeleted'
         /\ \A j \in Jobs : SameIdem(j) # {} => SameIdem(j)' # {} \/ SomeDeleted'
<1>1. \A k \in Jobs : Moves(k)
  BY StoreMoves DEF MInv
<1>2. \A k \in Jobs : rows[k].status = "deleted" => rows'[k].status = "deleted"
  BY <1>1 DEF Moves, Inserted, Exists, JobStatus, Terminal
<1>3. \A k \in Jobs : rows[k].status # "new" => rows'[k].status # "new"
  BY <1>1 DEF Moves, Inserted, Exists, JobStatus, Terminal
<1>4. \A k \in Jobs : Exists(k) => Exists(k)' \/ SomeDeleted'
  BY <1>1 DEF Moves, Inserted, Exists, SomeDeleted, JobStatus, Terminal
<1> QED  BY <1>2, <1>3, <1>4 DEF SomeDeleted, SameCorr, SameIdem

\* Steps that return nothing and leave every enqueue where it is.
LEMMA KeptInv ==
  ASSUME MInv, [StoreNext]_storeVars, ret' = ret, MTyped',
         \A c \in Clients, j \in Jobs :
           /\ At(c, "recorr", j)' => At(c, "recorr", j)
           /\ At(c, "reidem", j)' => At(c, "reidem", j)
  PROVE  MInv'
<1>1. StoreInv' /\ KeysUnique'
  BY NextInv, KeysStep DEF MInv
<1>2. Returned'
  BY TableKeeps DEF MInv, Returned, MTyped, Kin
<1>3. Refused'
  BY TableKeeps DEF MInv, Refused
<1> QED  BY <1>1, <1>2, <1>3 DEF MInv

\* The enqueue of j returns k.
LEMMA ReturnInv ==
  ASSUME MInv, [StoreNext]_storeVars, NEW c \in Clients, NEW j \in Jobs,
         NEW k \in Jobs \cup {Raised}, Return(c, j, k),
         k \in Jobs => Kin(j, k) /\ rows'[k].status # "new",
         k = Raised => SomeDeleted'
  PROVE  MInv'
<1>1. MTyped'
  BY DEF MInv, MTyped, Return, Idle, Steps
<1>2. \A i \in Jobs : ret'[i] = IF i = j THEN k ELSE ret[i]
  BY DEF MInv, MTyped, Return
<1>3. \A d \in Clients : op'[d] = IF d = c THEN Idle ELSE op[d]
  BY DEF MInv, MTyped, Return
<1>4. StoreInv' /\ KeysUnique'
  BY NextInv, KeysStep DEF MInv
<1>5. Returned'
  BY <1>2, TableKeeps, AnswerAssumption DEF MInv, Returned, MTyped, Kin
<1>6. Refused'
  BY <1>3, TableKeeps DEF MInv, Refused, At, Idle
<1> QED  BY <1>1, <1>4, <1>5, <1>6 DEF MInv

LEMMA EnqueueInv ==
  ASSUME MInv, [StoreNext]_storeVars, NEW c \in Clients, NEW j \in Jobs,
         EnqueueStep(c, j)
  PROVE  MInv'
<1>0. /\ \A k \in SameCorr(j) \cup SameIdem(j) :
           k \in Jobs /\ Kin(j, k) /\ rows[k].status # "new"
      /\ op[c] \in [pc : Steps, job : Jobs \cup {NoKey}, cands : SUBSET Jobs]
  BY DEF SameCorr, SameIdem, Kin, Exists, JobStatus, Terminal, MInv, MTyped
<1>1. ASSUME NEW k \in SameCorr(j) \cup SameIdem(j), Return(c, j, k),
             UNCHANGED storeVars
      PROVE  MInv'
  BY <1>0, <1>1, ReturnInv, AnswerAssumption DEF storeVars
<1>2. ASSUME NEW p \in {"idem", "insert", "recorr", "reidem"}, Step(c, p),
             At(c, "corr", j) \/ At(c, "idem", j) \/ At(c, "insert", j)
               \/ At(c, "recorr", j),
             UNCHANGED <<storeVars, ret>>,
             p = "recorr" => SameCorr(j) \cup SameIdem(j) # {},
             p = "reidem" => SomeDeleted \/ SameIdem(j) # {}
      PROVE  MInv'
  <2>1. MTyped'
    BY <1>0, <1>2 DEF MInv, MTyped, Step, Steps
  <2>2. /\ op'[c].pc = p /\ op'[c].job = j
        /\ \A d \in Clients \ {c} : op'[d] = op[d]
    BY <1>0, <1>2 DEF MInv, MTyped, Step, At
  <2>3. UNCHANGED <<rows, ret>>
    BY <1>2 DEF storeVars
  <2>4. StoreInv' /\ KeysUnique'
    BY NextInv, KeysStep DEF MInv
  <2>5. Returned'
    BY <2>3 DEF MInv, Returned, SomeDeleted, Kin
  <2>6. Refused'
    BY <1>2, <2>2, <2>3 DEF MInv, Refused, At, SomeDeleted, SameCorr, SameIdem, Exists
  <2> QED  BY <2>1, <2>4, <2>5, <2>6 DEF MInv
<1>3. CASE FindCorr(c, j)
  BY <1>1, <1>2, <1>3 DEF FindCorr
<1>4. CASE FindIdem(c, j)
  BY <1>1, <1>2, <1>4 DEF FindIdem
<1>5. CASE Insert(c, j)
  <2>1. ASSUME Enqueue(j), Return(c, j, j) PROVE MInv'
    <3>1. rows'[j].status = "queued"
      BY <2>1 DEF Enqueue, Absent, MInv, StoreInv, StoreTypeOK
    <3> QED  BY <2>1, <3>1, ReturnInv, AnswerAssumption DEF Kin
  <2> QED  BY <1>2, <1>5, <2>1 DEF Insert
<1>6. CASE RefindCorr(c, j)
  BY <1>1, <1>2, <1>6 DEF RefindCorr, MInv, Refused
<1>7. CASE RefindIdem(c, j)
  <2>1. ASSUME SameIdem(j) = {}, Return(c, j, Raised) PROVE MInv'
    <3>1. SomeDeleted /\ SomeDeleted'
      BY <1>7, <2>1, TableKeeps DEF RefindIdem, MInv, Refused
    <3> QED  BY <2>1, <3>1, ReturnInv, AnswerAssumption
  <2> QED  BY <1>1, <1>7, <2>1 DEF RefindIdem
<1> QED  BY <1>3, <1>4, <1>5, <1>6, <1>7 DEF EnqueueStep

LEMMA MongoInv == MInv /\ [MongoNext]_mongoVars => MInv'
<1> SUFFICES ASSUME MInv, [MongoNext]_mongoVars PROVE MInv'
  OBVIOUS
<1>0. /\ [StoreNext]_storeVars
      /\ \A c \in Clients :
           op[c] \in [pc : Steps, job : Jobs \cup {NoKey}, cands : SUBSET Jobs]
  BY MongoAllowed DEF MInv, MTyped
<1>1. ASSUME NEW c \in Clients,
             NEW r \in [pc : Steps, job : Jobs \cup {NoKey}, cands : SUBSET Jobs],
             r.pc \notin {"recorr", "reidem"},
             op' = [op EXCEPT ![c] = r], ret' = ret
      PROVE  MInv'
  <2>1. MTyped'
    BY <1>1 DEF MInv, MTyped
  <2>2. \A d \in Clients : op'[d] = IF d = c THEN r ELSE op[d]
    BY <1>1 DEF MInv, MTyped
  <2> QED  BY <1>0, <1>1, <2>1, <2>2, KeptInv DEF At
<1>2. ASSUME NEW c \in Clients, ScanStale(c) \/ ScanDelete(c)
      PROVE  MInv'
  <2>1. PICK S \in SUBSET Jobs, p \in {"reclaim", "delete"} :
          /\ op' = [op EXCEPT ![c] = [pc |-> p, job |-> NoKey, cands |-> S]]
          /\ ret' = ret
    BY <1>2 DEF ScanStale, ScanDelete
  <2> QED  BY <1>1, <2>1 DEF Steps
<1>3. ASSUME NEW c \in Clients, NEW j \in Jobs, EnqueueCall(c, j)
      PROVE  MInv'
  BY <1>1, <1>3 DEF EnqueueCall, Steps
<1>4. ASSUME NEW c \in Clients, NEW j \in Jobs,
             ReclaimOne(c, j) \/ DeleteOne(c, j)
      PROVE  MInv'
  <2> DEFINE r == IF op[c].cands \ {j} = {} THEN Idle
                  ELSE [op[c] EXCEPT !.cands = op[c].cands \ {j}]
  <2>1. op' = [op EXCEPT ![c] = r] /\ ret' = ret
    BY <1>4 DEF ReclaimOne, DeleteOne, Take
  <2>2. /\ r \in [pc : Steps, job : Jobs \cup {NoKey}, cands : SUBSET Jobs]
        /\ r.pc \notin {"recorr", "reidem"}
    BY <1>0, <1>4 DEF ReclaimOne, DeleteOne, Idle, Steps
  <2> QED  BY <1>1, <2>1, <2>2
<1>5. ASSUME UNCHANGED <<op, ret>> PROVE MInv'
  BY <1>0, <1>5, KeptInv DEF MInv, MTyped, At
<1> QED
  BY <1>0, <1>2, <1>3, <1>4, <1>5, EnqueueInv DEF MongoNext, UpdateOne, mongoVars

\* Enqueues that share a key return one id, and none raises, unless a row was
\* deleted meanwhile.
THEOREM OneAnswerPerKey == MongoSpec => []EnqueuesAgree
<1>1. MongoInit => MInv
  <2> SUFFICES ASSUME MongoInit PROVE MInv
    OBVIOUS
  <2>1. StoreInv
    BY InitInv DEF MongoInit
  <2>2. KeysUnique
    BY DEF MongoInit, StoreInit, KeysUnique, Exists, Absent, JobStatus, Terminal
  <2>3. MTyped
    BY DEF MongoInit, MTyped, Idle, Steps
  <2>4. \A c \in Clients : op[c].pc = "idle"
    BY DEF MongoInit, Idle
  <2>5. \A j \in Jobs : ret[j] = Pending /\ Pending # Raised
    BY DEF MongoInit, Pending, Raised
  <2> QED
    BY <2>1, <2>2, <2>3, <2>4, <2>5, AnswerAssumption
    DEF MInv, Returned, Refused, At
<1>2. MInv => EnqueuesAgree
  <2> SUFFICES ASSUME MInv, \A j \in Jobs : rows[j].status # "deleted"
               PROVE  OneIdPerKey /\ \A j \in Jobs : ret[j] # Raised
    BY DEF EnqueuesAgree
  <2>1. \A j \in Jobs : ret[j] \in Jobs => Kin(j, ret[j]) /\ Exists(ret[j])
    BY StatusKnown DEF MInv, Returned, Exists
  <2>2. ASSUME NEW j \in Jobs, NEW k \in Jobs, ret[j] \in Jobs, ret[k] \in Jobs,
               \/ Corr[j] # NoKey /\ Corr[j] = Corr[k]
               \/ Idem[j] # NoKey /\ Idem[j] = Idem[k]
        PROVE  ret[j] = ret[k]
    <3>1. \/ Corr[ret[j]] # NoKey /\ Corr[ret[j]] = Corr[ret[k]]
          \/ Idem[ret[j]] # NoKey /\ Idem[ret[j]] = Idem[ret[k]]
      BY <2>1, <2>2, OneKeyAssumption DEF Kin
    <3> QED  BY <2>1, <2>2, <3>1 DEF MInv, KeysUnique
  <2> QED  BY <2>2 DEF OneIdPerKey, MInv, Returned, SomeDeleted
<1> QED  BY <1>1, <1>2, MongoInv, PTL DEF MongoSpec
=============================================================================
