----------------------------- MODULE MongoStore -----------------------------
(***************************************************************************)
(* MongoJobStore: the operations of JobStore over a server whose only      *)
(* atomic unit is one document.  enqueue, reclaim_stale_leases and         *)
(* delete_jobs are several server calls each, and calls of other clients   *)
(* come between them; every other operation is one conditional update.     *)
(***************************************************************************)
EXTENDS JobStore

CONSTANT Clients   \* threads and processes using the collection

VARIABLES
  op,   \* op[c]: the operation c is in the middle of
  ret   \* ret[j]: what the enqueue of j returned, or raised

mongoVars == <<storeVars, op, ret>>

Idle == [pc |-> "idle", job |-> NoKey, cands |-> {}]
Pending == "pending"   \* the enqueue has not returned
Raised == "raised"     \* the DuplicateKeyError reached the caller

ASSUME AnswerAssumption == Pending \notin Jobs /\ Raised \notin Jobs

At(c, pc, j) == op[c].pc = pc /\ op[c].job = j
Step(c, pc) == op' = [op EXCEPT ![c].pc = pc]

Return(c, j, k) ==
  /\ ret' = [ret EXCEPT ![j] = k]
  /\ op' = [op EXCEPT ![c] = Idle]

-----------------------------------------------------------------------------
(* enqueue: two lookups, an insert that the unique indexes may refuse, and *)
(* after a refusal the two lookups again.                                  *)

EnqueueCall(c, j) ==
  /\ op[c] = Idle
  /\ rows[j].status = "new" /\ ret[j] = Pending
  /\ \A d \in Clients : op[d].job # j
  /\ op' = [op EXCEPT ![c] = [pc |-> "corr", job |-> j, cands |-> {}]]
  /\ UNCHANGED <<storeVars, ret>>

FindCorr(c, j) ==
  /\ At(c, "corr", j)
  /\ \/ \E k \in SameCorr(j) : Return(c, j, k)
     \/ SameCorr(j) = {} /\ Step(c, "idem") /\ UNCHANGED ret
  /\ UNCHANGED storeVars

FindIdem(c, j) ==
  /\ At(c, "idem", j)
  /\ \/ \E k \in SameIdem(j) : Return(c, j, k)
     \/ SameIdem(j) = {} /\ Step(c, "insert") /\ UNCHANGED ret
  /\ UNCHANGED storeVars

\* Mutant: the indexes on the keys are not unique.
InsertAnyway(c, j) ==
  /\ At(c, "insert", j)
  /\ rows' = [rows EXCEPT ![j] = [Absent("queued") EXCEPT !.delay = Delay[j]]]
  /\ UNCHANGED nextToken
  /\ Return(c, j, j)

Insert(c, j) ==
  /\ At(c, "insert", j)
  /\ \/ Enqueue(j) /\ Return(c, j, j)
     \/ /\ SameCorr(j) \cup SameIdem(j) # {}    \* DuplicateKeyError
        /\ Step(c, "recorr")
        /\ UNCHANGED <<storeVars, ret>>

\* Mutant: after a refused insert the caller's own id is returned.
RefindCorrOwnId(c, j) ==
  /\ At(c, "recorr", j)
  /\ Return(c, j, j)
  /\ UNCHANGED storeVars

RefindCorr(c, j) ==
  /\ At(c, "recorr", j)
  /\ \/ \E k \in SameCorr(j) : Return(c, j, k)
     \/ SameCorr(j) = {} /\ Step(c, "reidem") /\ UNCHANGED ret
  /\ UNCHANGED storeVars

RefindIdem(c, j) ==
  /\ At(c, "reidem", j)
  /\ \/ \E k \in SameIdem(j) : Return(c, j, k)
     \/ SameIdem(j) = {} /\ Return(c, j, Raised)
  /\ UNCHANGED storeVars

-----------------------------------------------------------------------------
(* The cursor of reclaim_stale_leases and the documents of delete_many.    *)

ScanStale(c) ==
  /\ op[c] = Idle
  /\ \E S \in SUBSET {j \in Jobs : Stale(j)} :
       /\ S # {} /\ Cardinality(S) =< ReclaimLimit
       /\ op' = [op EXCEPT ![c] =
                   [pc |-> "reclaim", job |-> NoKey, cands |-> S]]
  /\ UNCHANGED <<storeVars, ret>>

\* delete_jobs filters on status or age; which documents match is left open.
ScanDelete(c) ==
  /\ op[c] = Idle
  /\ \E S \in SUBSET {j \in Jobs : Exists(j)} :
       /\ S # {}
       /\ op' = [op EXCEPT ![c] =
                   [pc |-> "delete", job |-> NoKey, cands |-> S]]
  /\ UNCHANGED <<storeVars, ret>>

Take(c, j) ==
  LET rest == op[c].cands \ {j} IN
  /\ j \in op[c].cands
  /\ op' = [op EXCEPT ![c] =
              IF rest = {} THEN Idle ELSE [op[c] EXCEPT !.cands = rest]]
  /\ UNCHANGED ret

\* Mutant: the update filters on the id only.
ReclaimOneUnfiltered(c, j) ==
  /\ op[c].pc = "reclaim" /\ Take(c, j)
  /\ IF Exists(j) THEN rows' = ReclaimRows({j}) ELSE UNCHANGED rows
  /\ UNCHANGED nextToken

\* The filter is applied again to the one document, with the now of the scan:
\* a lease that ran out later than that is left for the next reclaim.
ReclaimOne(c, j) ==
  /\ op[c].pc = "reclaim" /\ Take(c, j)
  /\ Reclaim({j}) \/ UNCHANGED storeVars

DeleteOne(c, j) ==
  /\ op[c].pc = "delete" /\ Take(c, j)
  /\ IF Exists(j) THEN Delete({j}) ELSE UNCHANGED storeVars

-----------------------------------------------------------------------------

\* The operations that are one update_one or find_one_and_update, with the
\* filter and the $set of JobStore's WHERE and SET.
UpdateOne(j) ==
  /\ \/ Claim(j)
     \/ \E t \in 1 .. nextToken - 1 :
          \/ Heartbeat(j, t)
          \/ \E s \in {"completed", "failed"} : SetResultOwned(j, t, s)
     \/ UpdateStatus(j, "cancelled")
     \/ \E s \in {"failed", "cancelled"} : SetResult(j, s)
     \/ Requeue(j, {"failed", "cancelled"})
     \/ MarkPublished(j)
  /\ UNCHANGED <<op, ret>>

MongoInit ==
  /\ StoreInit
  /\ op = [c \in Clients |-> Idle]
  /\ ret = [j \in Jobs |-> Pending]

EnqueueStep(c, j) ==
  \/ FindCorr(c, j) \/ FindIdem(c, j) \/ Insert(c, j)
  \/ RefindCorr(c, j) \/ RefindIdem(c, j)

MongoNext ==
  \/ \E c \in Clients : ScanStale(c) \/ ScanDelete(c)
  \/ \E c \in Clients, j \in Jobs :
       \/ EnqueueCall(c, j) \/ EnqueueStep(c, j)
       \/ ReclaimOne(c, j) \/ DeleteOne(c, j)
  \/ \E j \in Jobs : UpdateOne(j)
  \/ Tick /\ UNCHANGED <<op, ret>>

MongoSpec == MongoInit /\ [][MongoNext]_mongoVars

-----------------------------------------------------------------------------

\* The step-by-step Mongo operations implement the atomic ones: every change
\* of the collection is one that JobStore allows from the same rows.
ImplementsStore == StoreSpec

\* What every enqueue of one key returned is one id.
OneIdPerKey ==
  \A j, k \in Jobs :
    /\ \/ Corr[j] # NoKey /\ Corr[j] = Corr[k]
       \/ Idem[j] # NoKey /\ Idem[j] = Idem[k]
    /\ ret[j] \in Jobs /\ ret[k] \in Jobs
    => ret[j] = ret[k]

\* Concurrent enqueues with one correlation_id (or one idempotency_key) all
\* return, and return one id, unless a row was deleted meanwhile: whichever
\* lookup or refused insert each went through.
EnqueuesAgree ==
  (\A j \in Jobs : rows[j].status # "deleted")
    => OneIdPerKey /\ \A j \in Jobs : ret[j] # Raised
=============================================================================
