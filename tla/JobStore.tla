------------------------------ MODULE JobStore ------------------------------
(***************************************************************************)
(* The job table behind hoglah's JobStore protocol.  SQLiteJobStore runs   *)
(* every operation under one lock and commits before it returns, so each   *)
(* is one action here.  The lock is per process: across processes on one   *)
(* file, claim, heartbeat, set_result and requeue are single UPDATEs that  *)
(* carry their own condition, and enqueue falls back on the unique indexes *)
(* when its lookups were too early.  The clients that call the operations  *)
(* are in other modules; StoreNext lets any caller make any call the       *)
(* program makes, with any lease token issued so far.                      *)
(*                                                                         *)
(* Time is relative: a row holds the ticks left until run_at and until     *)
(* lease_expires_at, and Tick counts both down.                            *)
(***************************************************************************)
EXTENDS Integers, FiniteSets

CONSTANTS
  Jobs,         \* job ids; new_job_id never returns the same id twice
  Corr,         \* Corr[j]: correlation_id enqueue is given with j, or NoKey
  Idem,         \* Idem[j]: idempotency_key enqueue is given with j, or NoKey
  NoKey,        \* the absent key
  Delay,        \* Delay[j]: ticks from enqueue to run_at; 0: due at once
  LeaseTicks,   \* lease_seconds, in ticks
  ReclaimLimit  \* the limit of reclaim_stale_leases

\* The bridge enqueues under a correlation_id and refuses messages that carry an
\* idempotency_key; submit passes an idempotency_key only.
ASSUME OneKeyAssumption == \A j \in Jobs : Corr[j] = NoKey \/ Idem[j] = NoKey
ASSUME DelayAssumption == Delay \in [Jobs -> Nat]
ASSUME LeaseAssumption == LeaseTicks \in Nat
ASSUME LimitAssumption == ReclaimLimit \in Nat \ {0}

VARIABLES
  rows,      \* the jobs table
  nextToken  \* lease tokens 1 .. nextToken - 1 have been issued

storeVars == <<rows, nextToken>>

Terminal == {"completed", "failed", "cancelled"}
JobStatus == {"queued", "processing"} \cup Terminal

\* "new" and "deleted" stand for the absence of a row: before the job's insert
\* and after its delete.
RowStatus == JobStatus \cup {"new", "deleted"}

NoToken == 0    \* lease_token IS NULL
Lapsed == -1    \* lease_expires_at IS NULL, or is before now
NoResult == "none"

Row == [status : RowStatus,
        delay : Nat,
        lease : {Lapsed} \cup Nat,
        token : Nat,
        result : {NoResult} \cup Terminal,
        published : BOOLEAN]

Absent(s) == [status |-> s, delay |-> 0, lease |-> Lapsed, token |-> NoToken,
              result |-> NoResult, published |-> FALSE]

Exists(j) == rows[j].status \in JobStatus
Due(j) == rows[j].delay = 0

-----------------------------------------------------------------------------
(* Enqueue.  The lookups by key, the insert and the UNIQUE indexes.        *)

SameCorr(j) == {k \in Jobs : Exists(k) /\ Corr[k] = Corr[j] /\ Corr[j] # NoKey}

SameIdem(j) == {k \in Jobs : Exists(k) /\ Idem[k] = Idem[j] /\ Idem[j] # NoKey}

Enqueue(j) ==
  /\ rows[j].status = "new"
  /\ SameCorr(j) \cup SameIdem(j) = {}
  /\ rows' = [rows EXCEPT ![j] = [Absent("queued") EXCEPT !.delay = Delay[j]]]
  /\ UNCHANGED nextToken

-----------------------------------------------------------------------------
(* Leases.                                                                 *)

Claimable(j) == rows[j].status = "queued" /\ Due(j)

\* Mutant: the token is not fresh for each claim.
ClaimSameToken(j) ==
  /\ Claimable(j)
  /\ rows' = [rows EXCEPT ![j].status = "processing",
                          ![j].lease = LeaseTicks,
                          ![j].token = nextToken]
  /\ UNCHANGED nextToken

Claim(j) ==
  /\ Claimable(j)
  /\ rows' = [rows EXCEPT ![j].status = "processing",
                          ![j].lease = LeaseTicks,
                          ![j].token = nextToken]
  /\ nextToken' = nextToken + 1

\* Mutant: the conditional updates test the token only.
OwnsByToken(j, t) == Exists(j) /\ rows[j].token = t

Owns(j, t) == rows[j].status = "processing" /\ rows[j].token = t

Heartbeat(j, t) ==
  /\ Owns(j, t)
  /\ rows' = [rows EXCEPT ![j].lease = LeaseTicks]
  /\ UNCHANGED nextToken

\* Mutant: any row without a lease counts as stale.
StaleAnyStatus(j) == Exists(j) /\ rows[j].lease = Lapsed

Stale(j) == rows[j].status = "processing" /\ rows[j].lease = Lapsed

\* Mutant: the reclaim leaves the lease columns alone.
ReclaimKeepingToken(S) ==
  [j \in Jobs |-> IF j \in S THEN [rows[j] EXCEPT !.status = "queued"]
                             ELSE rows[j]]

ReclaimRows(S) ==
  [j \in Jobs |-> IF j \in S
                  THEN [rows[j] EXCEPT !.status = "queued",
                                       !.lease = Lapsed,
                                       !.token = NoToken]
                  ELSE rows[j]]

\* What the protocol promises: only stale rows go back to the queue.
Reclaim(S) ==
  /\ \A j \in S : Stale(j)
  /\ rows' = ReclaimRows(S)
  /\ UNCHANGED nextToken

\* SQLite: all of them, up to the LIMIT.  ORDER BY updated_at decides which
\* rows a LIMIT keeps; here it may be any.
ReclaimStale(S) ==
  LET stale == {j \in Jobs : Stale(j)} IN
  /\ \/ S = stale /\ Cardinality(stale) =< ReclaimLimit
     \/ Cardinality(stale) > ReclaimLimit /\ Cardinality(S) = ReclaimLimit
  /\ Reclaim(S)

-----------------------------------------------------------------------------
(* Status, results, requeue, deletion.                                     *)

\* UPDATE ... WHERE id = ?: a missing row is left alone.  Lease and result
\* columns keep their values.
UpdateStatus(j, s) ==
  /\ rows' = IF Exists(j) THEN [rows EXCEPT ![j].status = s] ELSE rows
  /\ UNCHANGED nextToken

WithResult(j, s) ==
  [rows EXCEPT ![j].status = s,
               ![j].result = s,
               ![j].lease = Lapsed,
               ![j].token = NoToken]

\* set_result with a lease token; it returns FALSE exactly when ~Owns(j, t).
SetResultOwned(j, t, s) ==
  /\ Owns(j, t)
  /\ rows' = WithResult(j, s)
  /\ UNCHANGED nextToken

\* set_result without a token: unconditional on any row there is.
SetResult(j, s) ==
  /\ rows' = IF Exists(j) THEN WithResult(j, s) ELSE rows
  /\ UNCHANGED nextToken

\* Mutant: the status test before the update is gone.
RequeueAnything(j, from) ==
  /\ Exists(j)
  /\ rows' = [rows EXCEPT ![j] = Absent("queued")]
  /\ UNCHANGED nextToken

Requeue(j, from) ==
  /\ rows[j].status \in from
  /\ rows' = [rows EXCEPT ![j].status = "queued",
                          ![j].result = NoResult,
                          ![j].lease = Lapsed,
                          ![j].token = NoToken,
                          ![j].published = FALSE]
  /\ UNCHANGED nextToken

\* delete_job, and delete_jobs with any status or age filter.
Delete(S) ==
  /\ S # {}
  /\ \A j \in S : Exists(j)
  /\ rows' = [j \in Jobs |-> IF j \in S THEN Absent("deleted") ELSE rows[j]]
  /\ UNCHANGED nextToken

MarkPublished(j) ==
  /\ rows' = IF Exists(j) THEN [rows EXCEPT ![j].published = TRUE] ELSE rows
  /\ UNCHANGED nextToken

\* The passage of time, which changes what now compares to.
Tick ==
  /\ rows' = [j \in Jobs |->
                [rows[j] EXCEPT
                   !.delay = IF @ > 0 THEN @ - 1 ELSE 0,
                   !.lease = IF @ > Lapsed THEN @ - 1 ELSE Lapsed]]
  /\ UNCHANGED nextToken

-----------------------------------------------------------------------------

StoreInit ==
  /\ rows = [j \in Jobs |-> Absent("new")]
  /\ nextToken = NoToken + 1

JobOp(j) ==
  \/ Enqueue(j)
  \/ Claim(j)
  \/ \E t \in 1 .. nextToken - 1 :
       \/ Heartbeat(j, t)
       \/ \E s \in {"completed", "failed"} : SetResultOwned(j, t, s)
  \/ UpdateStatus(j, "cancelled")
  \/ \E s \in {"failed", "cancelled"} : SetResult(j, s)
  \/ Requeue(j, {"failed", "cancelled"})
  \/ MarkPublished(j)

StoreNext ==
  \/ \E j \in Jobs : JobOp(j)
  \/ \E S \in SUBSET Jobs : Reclaim(S) \/ Delete(S)
  \/ Tick

StoreSpec == StoreInit /\ [][StoreNext]_storeVars

-----------------------------------------------------------------------------
(* What the table guarantees its callers, whatever they call.              *)

StoreTypeOK ==
  /\ rows \in [Jobs -> Row]
  /\ nextToken \in Nat \ {0}

\* A lease token names one claim: it was issued, and no two rows hold the same
\* one, so a worker holding it can touch at most the row it claimed.
TokensUnique ==
  /\ \A j \in Jobs : rows[j].token < nextToken
  /\ \A j, k \in Jobs : rows[j].token = rows[k].token /\ j # k
                          => rows[j].token = NoToken

\* A processing row has an owner, and no row a worker could claim, or that was
\* completed or failed, still carries one.  (A cancelled row may, between
\* cancel's two writes.)
LeaseMatchesStatus ==
  \A j \in Jobs :
    /\ rows[j].status = "processing" => rows[j].token # NoToken
    /\ rows[j].status \notin {"processing", "cancelled"}
         => rows[j].token = NoToken

\* The result column agrees with the status column: a job waiting to run or
\* running has none, a completed or failed one has its own.
ResultMatchesStatus ==
  \A j \in Jobs :
    /\ rows[j].status \in {"queued", "processing"} => rows[j].result = NoResult
    /\ rows[j].status \in {"completed", "failed"}
         => rows[j].result = rows[j].status

StoreInv ==
  StoreTypeOK /\ TokensUnique /\ LeaseMatchesStatus /\ ResultMatchesStatus

\* Two rows never carry the same correlation_id or idempotency_key: a message
\* or a submit that is delivered twice makes one job.
KeysUnique ==
  \A j, k \in Jobs :
    Exists(j) /\ Exists(k) /\ j # k
      => /\ Corr[j] = Corr[k] => Corr[j] = NoKey
         /\ Idem[j] = Idem[k] => Idem[j] = NoKey

\* A completed job stays completed until someone cancels, fails or deletes it
\* by id: no claim, reclaim or requeue brings it back, so it is never run again
\* with its result standing.
NeverRerunCompleted ==
  [][\A j \in Jobs :
       rows[j].status = "completed"
         => rows'[j].status \notin {"queued", "processing"}]_storeVars
=============================================================================
