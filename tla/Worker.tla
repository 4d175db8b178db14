------------------------------- MODULE Worker -------------------------------
(***************************************************************************)
(* hoglah processes sharing one job table: the worker loop that reclaims,  *)
(* lists and dispatches, one asyncio task per job with its heartbeat and   *)
(* its cancel watch, the client calls of other threads (submit, cancel,    *)
(* remove, requeue, clear), process crash, shutdown and restart.           *)
(*                                                                         *)
(* A worker is single threaded: code between two awaits runs to its end    *)
(* before another task of the same loop does (LoopFree), while other       *)
(* processes and the client threads interleave between any two calls it    *)
(* makes to the store.                                                     *)
(*                                                                         *)
(* Left out: the dispatch gates for dependencies, labels, fairness slots   *)
(* and rates (a gated row waits for a later poll), callbacks and the       *)
(* messaging bridge (see Bridge), store errors of the poll itself, which   *)
(* the loop logs before it tries again.                                    *)
(***************************************************************************)
EXTENDS JobStore

CONSTANTS
  Workers,       \* processes started with start_worker=True
  Callers,       \* threads that call cancel, remove, ...
  Home,          \* Home[c]: the process c runs in; a worker or a submitter
  Concurrency,   \* config.concurrency: permits of a worker's semaphore
  PollLimit,     \* the limit of the poll's list call
  HbTicks,       \* heartbeat_interval_seconds, in ticks
  RequeueFrom,   \* {"failed"}, or with "cancelled" for allow_cancelled
  Calls,         \* which client calls are made besides submit
  FaultKinds,    \* which faults happen
  MaxFaults,     \* bound: faults in a behaviour
  MaxRequeues    \* bound: requeues of one job

ASSUME ConcurrencyAssumption == Concurrency \in Nat \ {0}
ASSUME PollLimitAssumption == PollLimit \in Nat \ {0}
ASSUME HeartbeatAssumption == HbTicks \in 1 .. LeaseTicks
ASSUME RequeueAssumption == RequeueFrom \subseteq {"failed", "cancelled"}
ASSUME BoundsAssumption == MaxFaults \in Nat /\ MaxRequeues \in Nat

VARIABLES
  phase,     \* phase[w]: "up", "draining" (close() called) or "down"
  loop,      \* loop[w]: the store call the poll makes next
  batch,     \* batch[w]: listed jobs the poll has still to go through
  task,      \* task[w][j]: the _process_job task of j in w's _inflight
  api,       \* api[c]: the cancel or remove that c is in the middle of
  outfile,   \* outfile[j]: the status in <output_dir>/<j>.json
  faults,    \* faults left
  accepted,  \* history: worker results of j the store accepted
  requeued   \* history: requeues of j

procVars == <<phase, loop, batch>>
ghostVars == <<faults, accepted, requeued>>
vars == <<storeVars, procVars, task, api, outfile, ghostVars>>

Off == -1
NoTask == [pc |-> "none", tok |-> NoToken, out |-> NoResult,
           hb |-> Off, cw |-> FALSE, intr |-> FALSE]

\* Where a task is: in the store calls before the model call, awaiting the
\* call, in the straight code after it, or in the handler of an exception.
Sync == {"claimed", "computed", "checked", "stored",
         "failing", "failchecked", "failed"}
Task == [pc : {"none", "spawned", "running"} \cup Sync,
         tok : Nat,
         out : {NoResult} \cup Terminal,
         hb : {Off} \cup Nat,    \* ticks to the next heartbeat
         cw : BOOLEAN,           \* the cancel watch is running
         intr : BOOLEAN]         \* task.cancel has been requested

Idle == [pc |-> "idle", job |-> NoKey, del |-> FALSE]
ApiCall == [pc : {"idle", "read", "flagged", "recorded", "delivered",
                  "removing"},
            job : Jobs \cup {NoKey},
            del : BOOLEAN]   \* the call is remove

Alive(w) == phase[w] # "down"
At(w, j, pc) == Alive(w) /\ task[w][j].pc = pc
LoopFree(w) == \A j \in Jobs : task[w][j].pc \notin Sync
Inflight(w) == {j \in Jobs : task[w][j].pc # "none"}

Goto(w, j, pc) == task' = [task EXCEPT ![w][j].pc = pc]
End(w, j) == task' = [task EXCEPT ![w][j] = NoTask]

-----------------------------------------------------------------------------
(* The poll of _worker_loop.                                               *)

\* Mutant: leases are reclaimed at start-up only.
PollReclaimSkipped(w) ==
  /\ phase[w] = "up" /\ LoopFree(w) /\ batch[w] = {} /\ loop[w] = "reclaim"
  /\ loop' = [loop EXCEPT ![w] = "list"]
  /\ UNCHANGED <<storeVars, phase, batch, task, api, outfile, ghostVars>>

PollReclaim(w) ==
  /\ phase[w] = "up" /\ LoopFree(w) /\ batch[w] = {} /\ loop[w] = "reclaim"
  /\ \E S \in SUBSET Jobs : ReclaimStale(S)
  /\ loop' = [loop EXCEPT ![w] = "list"]
  /\ UNCHANGED <<phase, batch, task, api, outfile, ghostVars>>

\* The snapshot that the rest of the iteration works from, however long its
\* waits on the semaphore take.
PollList(w) ==
  LET due == {j \in Jobs : Claimable(j)} IN
  /\ phase[w] = "up" /\ LoopFree(w) /\ batch[w] = {} /\ loop[w] = "list"
  /\ \E S \in SUBSET due :
       /\ \/ S = due /\ Cardinality(due) =< PollLimit
          \/ Cardinality(due) > PollLimit /\ Cardinality(S) = PollLimit
       /\ batch' = [batch EXCEPT ![w] = S]
  /\ loop' = [loop EXCEPT ![w] = "reclaim"]
  /\ UNCHANGED <<storeVars, phase, task, api, outfile, ghostVars>>

\* One listed row: skipped when its task is in flight, otherwise the loop
\* waits for a permit and spawns the task.
Dispatch(w, j) ==
  /\ Alive(w) /\ LoopFree(w) /\ j \in batch[w]
  /\ batch' = [batch EXCEPT ![w] = @ \ {j}]
  /\ \/ j \in Inflight(w) /\ UNCHANGED task
     \/ /\ j \notin Inflight(w)
        /\ Cardinality(Inflight(w)) < Concurrency
        /\ Goto(w, j, "spawned")
  /\ UNCHANGED <<storeVars, phase, loop, api, outfile, ghostVars>>

-----------------------------------------------------------------------------
(* _process_job.                                                           *)

TryClaim(w, j) ==
  /\ At(w, j, "spawned") /\ LoopFree(w)
  /\ \/ /\ Claim(j)
        /\ task' = [task EXCEPT ![w][j].pc = "claimed",
                                ![w][j].tok = nextToken]
     \/ ~Claimable(j) /\ End(w, j) /\ UNCHANGED storeVars
  /\ UNCHANGED <<procVars, api, outfile, ghostVars>>

\* Mutant: the heartbeat task is not started.
BeginWithoutHeartbeat(w, j) ==
  /\ At(w, j, "claimed")
  /\ IF Exists(j) /\ rows[j].status # "cancelled"
     THEN task' = [task EXCEPT ![w][j].pc = "running", ![w][j].cw = TRUE]
     ELSE End(w, j)
  /\ UNCHANGED <<storeVars, procVars, api, outfile, ghostVars>>

\* The row is read after the claim; heartbeat and cancel watch start and the
\* task awaits the model call.
Begin(w, j) ==
  /\ At(w, j, "claimed")
  /\ IF Exists(j) /\ rows[j].status # "cancelled"
     THEN task' = [task EXCEPT ![w][j].pc = "running",
                               ![w][j].hb = HbTicks,
                               ![w][j].cw = TRUE]
     ELSE End(w, j)
  /\ UNCHANGED <<storeVars, procVars, api, outfile, ghostVars>>

\* _execute_with_retries returns, also when a cancel was requested too late
\* to be delivered at this await.
Finish(w, j) ==
  /\ At(w, j, "running") /\ LoopFree(w)
  /\ \E s \in {"completed", "failed"} :
       task' = [task EXCEPT ![w][j].pc = "computed", ![w][j].out = s]
  /\ UNCHANGED <<storeVars, procVars, api, outfile, ghostVars>>

\* CancelledError at the await: the task ends and writes nothing.
Interrupted(w, j) ==
  /\ At(w, j, "running") /\ LoopFree(w) /\ task[w][j].intr
  /\ End(w, j)
  /\ UNCHANGED <<storeVars, procVars, api, outfile, ghostVars>>

RecheckStatus(w, j) ==
  /\ At(w, j, "computed")
  /\ IF rows[j].status = "cancelled" THEN End(w, j) ELSE Goto(w, j, "checked")
  /\ UNCHANGED <<storeVars, procVars, api, outfile, ghostVars>>

\* Mutant: a refused result is delivered all the same.
StoreResultUnchecked(w, j) ==
  LET me == task[w][j] IN
  /\ At(w, j, "checked")
  /\ \/ SetResultOwned(j, me.tok, me.out)
     \/ ~Owns(j, me.tok) /\ UNCHANGED storeVars
  /\ Goto(w, j, "stored")
  /\ UNCHANGED <<procVars, api, outfile, ghostVars>>

StoreResult(w, j) ==
  LET me == task[w][j] IN
  /\ At(w, j, "checked")
  /\ \/ /\ SetResultOwned(j, me.tok, me.out)
        /\ Goto(w, j, "stored")
        /\ accepted' = [accepted EXCEPT ![j] = @ + 1]
     \/ /\ ~Owns(j, me.tok)
        /\ End(w, j)
        /\ UNCHANGED <<storeVars, accepted>>
  /\ UNCHANGED <<procVars, api, outfile, faults, requeued>>

\* Mutant: what is delivered is read back from the row.
DeliverRowStatus(w, j) ==
  /\ At(w, j, "stored")
  /\ outfile' = [outfile EXCEPT ![j] = rows[j].status]
  /\ End(w, j)
  /\ UNCHANGED <<storeVars, procVars, api, ghostVars>>

DeliverResult(w, j) ==
  /\ At(w, j, "stored")
  /\ outfile' = [outfile EXCEPT ![j] = task[w][j].out]
  /\ End(w, j)
  /\ UNCHANGED <<storeVars, procVars, api, ghostVars>>

\* The handler of an unexpected exception: the same status check, then a
\* FAILED result, under the lease token if the claim returned one.
FailRecheck(w, j) ==
  /\ At(w, j, "failing")
  /\ IF rows[j].status = "cancelled"
     THEN End(w, j)
     ELSE Goto(w, j, "failchecked")
  /\ UNCHANGED <<storeVars, procVars, api, outfile, ghostVars>>

\* What set_result returns is not looked at: the handler goes on to deliver.
FailStore(w, j) ==
  LET tok == task[w][j].tok IN
  /\ At(w, j, "failchecked")
  /\ \/ /\ tok # NoToken
        /\ SetResultOwned(j, tok, "failed")
        /\ accepted' = [accepted EXCEPT ![j] = @ + 1]
     \/ tok # NoToken /\ ~Owns(j, tok) /\ UNCHANGED <<storeVars, accepted>>
     \/ tok = NoToken /\ SetResult(j, "failed") /\ UNCHANGED accepted
  /\ Goto(w, j, "failed")
  /\ UNCHANGED <<procVars, api, outfile, faults, requeued>>

FailDeliver(w, j) ==
  /\ At(w, j, "failed")
  /\ outfile' = [outfile EXCEPT ![j] = "failed"]
  /\ End(w, j)
  /\ UNCHANGED <<storeVars, procVars, api, ghostVars>>

-----------------------------------------------------------------------------
(* The side tasks of a running job.  They share the worker's loop.         *)

\* Mutant: a lost lease ends the heartbeat but not the model call.
HeartbeatStepQuiet(w, j) ==
  LET tok == task[w][j].tok IN
  /\ At(w, j, "running") /\ LoopFree(w) /\ task[w][j].hb = 0
  /\ \/ Heartbeat(j, tok) /\ task' = [task EXCEPT ![w][j].hb = HbTicks]
     \/ /\ ~Owns(j, tok)
        /\ task' = [task EXCEPT ![w][j].hb = Off]
        /\ UNCHANGED storeVars
  /\ UNCHANGED <<procVars, api, outfile, ghostVars>>

HeartbeatStep(w, j) ==
  LET tok == task[w][j].tok IN
  /\ At(w, j, "running") /\ LoopFree(w) /\ task[w][j].hb = 0
  /\ \/ /\ Heartbeat(j, tok)
        /\ task' = [task EXCEPT ![w][j].hb = HbTicks]
     \/ /\ ~Owns(j, tok)
        /\ task' = [task EXCEPT ![w][j].hb = Off, ![w][j].intr = TRUE]
        /\ UNCHANGED storeVars
  /\ UNCHANGED <<procVars, api, outfile, ghostVars>>

\* A look that finds the job queued or processing changes nothing.
CancelWatchStep(w, j) ==
  /\ At(w, j, "running") /\ LoopFree(w) /\ task[w][j].cw
  /\ rows[j].status \notin {"queued", "processing"}
  /\ task' = [task EXCEPT ![w][j].cw = FALSE,
                          ![w][j].intr = @ \/ rows[j].status = "cancelled"]
  /\ UNCHANGED <<storeVars, procVars, api, outfile, ghostVars>>

-----------------------------------------------------------------------------
(* Client calls.  cancel reads the row, writes the status, writes the      *)
(* result, delivers it and interrupts the local task: five steps that      *)
(* nothing holds together.  remove is a cancel followed by delete_job.     *)

Call(c, pc, j) == api[c].pc = pc /\ api[c].job = j
HomeUp(c) == Home[c] \in Workers => Alive(Home[c])
Step(c, pc) == api' = [api EXCEPT ![c].pc = pc]
Return(c) == api' = [api EXCEPT ![c] = Idle]

CancelRead(c, j) ==
  /\ api[c].pc = "idle" /\ HomeUp(c)
  /\ \E del \in BOOLEAN :
       /\ (IF del THEN "remove" ELSE "cancel") \in Calls
       /\ IF rows[j].status \in {"queued", "processing"}
          THEN api' = [api EXCEPT ![c] =
                         [pc |-> "read", job |-> j, del |-> del]]
          ELSE /\ del /\ Exists(j)    \* cancel returns False
               /\ api' = [api EXCEPT ![c] =
                            [pc |-> "removing", job |-> j, del |-> del]]
  /\ UNCHANGED <<storeVars, procVars, task, outfile, ghostVars>>

CancelStatus(c, j) ==
  /\ Call(c, "read", j)
  /\ UpdateStatus(j, "cancelled")
  /\ Step(c, "flagged")
  /\ UNCHANGED <<procVars, task, outfile, ghostVars>>

\* Mutant: only the status of a cancelled job is written.
CancelResultSkipped(c, j) ==
  /\ Call(c, "flagged", j)
  /\ Step(c, "recorded")
  /\ UNCHANGED <<storeVars, procVars, task, outfile, ghostVars>>

CancelResult(c, j) ==
  /\ Call(c, "flagged", j)
  /\ SetResult(j, "cancelled")
  /\ Step(c, "recorded")
  /\ UNCHANGED <<procVars, task, outfile, ghostVars>>

CancelDeliver(c, j) ==
  /\ Call(c, "recorded", j)
  /\ outfile' = [outfile EXCEPT ![j] = "cancelled"]
  /\ Step(c, "delivered")
  /\ UNCHANGED <<storeVars, procVars, task, ghostVars>>

CancelInterrupt(c, j) ==
  /\ Call(c, "delivered", j)
  /\ IF Home[c] \in Workers /\ j \in Inflight(Home[c])
     THEN task' = [task EXCEPT ![Home[c]][j].intr = TRUE]
     ELSE UNCHANGED task
  /\ IF api[c].del THEN Step(c, "removing") ELSE Return(c)
  /\ UNCHANGED <<storeVars, procVars, outfile, ghostVars>>

RemoveRow(c, j) ==
  /\ Call(c, "removing", j)
  /\ IF Exists(j) THEN Delete({j}) ELSE UNCHANGED storeVars
  /\ Return(c)
  /\ UNCHANGED <<procVars, task, outfile, ghostVars>>

Submit(j) ==
  /\ Enqueue(j)
  /\ UNCHANGED <<procVars, task, api, outfile, ghostVars>>

RequeueJob(j) ==
  /\ requeued[j] < MaxRequeues
  /\ Requeue(j, RequeueFrom)
  /\ requeued' = [requeued EXCEPT ![j] = @ + 1]
  /\ UNCHANGED <<procVars, task, api, outfile, faults, accepted>>

\* clear() with a status or age filter, which may match running jobs.
Clear(S) ==
  /\ "clear" \in Calls
  /\ Delete(S)
  /\ UNCHANGED <<procVars, task, api, outfile, ghostVars>>

-----------------------------------------------------------------------------
(* Failures.                                                               *)

Fault(kind) ==
  /\ kind \in FaultKinds /\ faults > 0
  /\ faults' = faults - 1
  /\ UNCHANGED <<accepted, requeued>>

Stopped(w) ==
  /\ task' = [task EXCEPT ![w] = [j \in Jobs |-> NoTask]]
  /\ phase' = [phase EXCEPT ![w] = "down"]
  /\ loop' = [loop EXCEPT ![w] = "reclaim"]
  /\ batch' = [batch EXCEPT ![w] = {}]
  /\ api' = [c \in Callers |-> IF Home[c] = w THEN Idle ELSE api[c]]

Crash(w) ==
  /\ Alive(w) /\ Fault("crash")
  /\ Stopped(w)
  /\ UNCHANGED <<storeVars, outfile>>

\* A store call of a task raises: before the claim, at either read of the row,
\* or at set_result.  In the handler itself the error is swallowed.
StoreError(w, j) ==
  /\ \/ At(w, j, "spawned") /\ LoopFree(w) /\ Goto(w, j, "failing")
     \/ \E pc \in {"claimed", "computed", "checked", "stored"} :
          At(w, j, pc) /\ Goto(w, j, "failing")
     \/ \E pc \in {"failing", "failchecked"} : At(w, j, pc) /\ End(w, j)
  /\ Fault("store_error")
  /\ UNCHANGED <<storeVars, procVars, api, outfile>>

\* A store error in a side task ends its loop, which catches only cancellation.
SideTaskError(w, j) ==
  /\ At(w, j, "running") /\ LoopFree(w)
  /\ \/ task[w][j].hb = 0 /\ task' = [task EXCEPT ![w][j].hb = Off]
     \/ task[w][j].cw /\ task' = [task EXCEPT ![w][j].cw = FALSE]
  /\ Fault("side_error")
  /\ UNCHANGED <<storeVars, procVars, api, outfile>>

\* close(): the loop stops after the row it is waiting for a permit for.
Close(w) ==
  /\ phase[w] = "up" /\ Fault("shutdown")
  /\ phase' = [phase EXCEPT ![w] = "draining"]
  /\ \E S \in SUBSET batch[w] :
       /\ S # {} => Cardinality(S) = 1
                    /\ Cardinality(Inflight(w)) >= Concurrency
       /\ batch' = [batch EXCEPT ![w] = S]
  /\ UNCHANGED <<storeVars, loop, task, api, outfile>>

\* The drain window is over: stragglers are cancelled at their await and their
\* rows left processing.
Drained(w) ==
  /\ phase[w] = "draining" /\ batch[w] = {}
  /\ \A j \in Inflight(w) : task[w][j].pc = "running"
  /\ Stopped(w)
  /\ UNCHANGED <<storeVars, outfile, ghostVars>>

\* _recover_interrupted_jobs, then the worker thread.
Restart(w) ==
  /\ phase[w] = "down"
  /\ \E S \in SUBSET Jobs : ReclaimStale(S)
  /\ phase' = [phase EXCEPT ![w] = "up"]
  /\ UNCHANGED <<loop, batch, task, api, outfile, ghostVars>>

\* Time passes.  A tick is longer than a stretch of straight code, and a
\* heartbeat that is due is sent before the next tick.
TickClock ==
  /\ \A w \in Workers, j \in Jobs :
       Alive(w) => task[w][j].pc \notin Sync /\ task[w][j].hb # 0
  /\ Tick
  /\ task' = [w \in Workers |-> [j \in Jobs |->
                [task[w][j] EXCEPT !.hb = IF @ > 0 THEN @ - 1 ELSE @]]]
  /\ UNCHANGED <<procVars, api, outfile, ghostVars>>

-----------------------------------------------------------------------------

Init ==
  /\ StoreInit
  /\ phase = [w \in Workers |-> "up"]
  /\ loop = [w \in Workers |-> "reclaim"]
  /\ batch = [w \in Workers |-> {}]
  /\ task = [w \in Workers |-> [j \in Jobs |-> NoTask]]
  /\ api = [c \in Callers |-> Idle]
  /\ outfile = [j \in Jobs |-> NoResult]
  /\ faults = MaxFaults
  /\ accepted = [j \in Jobs |-> 0]
  /\ requeued = [j \in Jobs |-> 0]

\* The straight code of a task.
TaskStep(w, j) ==
  \/ TryClaim(w, j) \/ Begin(w, j)
  \/ RecheckStatus(w, j) \/ StoreResult(w, j) \/ DeliverResult(w, j)
  \/ FailRecheck(w, j) \/ FailStore(w, j) \/ FailDeliver(w, j)

SideStep(w, j) == HeartbeatStep(w, j) \/ CancelWatchStep(w, j)

CallStep(c, j) ==
  \/ CancelStatus(c, j) \/ CancelResult(c, j) \/ CancelDeliver(c, j)
  \/ CancelInterrupt(c, j) \/ RemoveRow(c, j)

WorkerNext(w) ==
  \/ PollReclaim(w) \/ PollList(w)
  \/ \E j \in Jobs :
       \/ Dispatch(w, j) \/ TaskStep(w, j) \/ SideStep(w, j)
       \/ Finish(w, j) \/ Interrupted(w, j)
       \/ StoreError(w, j) \/ SideTaskError(w, j)
  \/ Crash(w) \/ Close(w) \/ Drained(w) \/ Restart(w)

ClientNext ==
  \/ \E j \in Jobs :
       Submit(j) \/ RequeueJob(j) \/ \E c \in Callers : CancelRead(c, j)
  \/ \E j \in Jobs, c \in Callers : CallStep(c, j)
  \/ \E S \in SUBSET Jobs : Clear(S)

Next == (\E w \in Workers : WorkerNext(w)) \/ ClientNext \/ TickClock

Spec == Init /\ [][Next]_vars

\* The asyncio ready queue (first in, first out), the thread scheduler and the
\* process supervisor keep everything moving, except the model call: nothing
\* makes Finish happen.
Moving ==
  /\ \A w \in Workers :
       /\ WF_vars(PollReclaim(w) \/ PollList(w))
       /\ WF_vars(Drained(w) \/ Restart(w))
       /\ \A j \in Jobs :
            /\ WF_vars(Dispatch(w, j))
            /\ WF_vars(TaskStep(w, j))
            /\ WF_vars(HeartbeatStep(w, j))
            /\ WF_vars(CancelWatchStep(w, j))
            /\ WF_vars(Interrupted(w, j))
  /\ \A c \in Callers : WF_vars(\E j \in Jobs : CallStep(c, j))
  /\ WF_vars(TickClock)

HangingSpec == Spec /\ Moving

\* The same where every model call returns (a timeout_seconds bounds it).
FairSpec ==
  Spec /\ Moving /\ \A w \in Workers, j \in Jobs : WF_vars(Finish(w, j))

-----------------------------------------------------------------------------
(* Properties.                                                             *)

TypeOK ==
  /\ StoreTypeOK
  /\ phase \in [Workers -> {"up", "draining", "down"}]
  /\ loop \in [Workers -> {"reclaim", "list"}]
  /\ batch \in [Workers -> SUBSET Jobs]
  /\ task \in [Workers -> [Jobs -> Task]]
  /\ api \in [Callers -> ApiCall]
  /\ outfile \in [Jobs -> {NoResult} \cup Terminal]
  /\ faults \in Nat
  /\ accepted \in [Jobs -> Nat]
  /\ requeued \in [Jobs -> Nat]

\* The lease token is a fence: whatever was reclaimed, requeued or cancelled
\* meanwhile, at most one of the tasks working on a job, in all processes, is
\* one whose result set_result would accept.
CanStore(w, j) == task[w][j].tok # NoToken /\ Owns(j, task[w][j].tok)
FencedOwner ==
  \A j \in Jobs : \A v, w \in Workers :
    CanStore(v, j) /\ CanStore(w, j) => v = w

\* A submitted job gets at most one worker result, and one more each time it
\* is requeued, however many workers executed it.
AcceptedOnce == \A j \in Jobs : accepted[j] =< 1 + requeued[j]

\* No two processes call the model for one job at the same time, as long as
\* heartbeats run: not across a crash, a shutdown or a reclaim.
SingleExecution ==
  \A j \in Jobs : \A v, w \in Workers :
    task[v][j].pc = "running" /\ task[w][j].pc = "running" => v = w

\* Outside the two writes of a cancel, a terminal row holds the result its
\* status announces, whoever raced whom to write it.
Cancelling(j) == \E c \in Callers : Call(c, "flagged", j)
TerminalHasItsResult ==
  \A j \in Jobs :
    rows[j].status \in Terminal /\ ~Cancelling(j)
      => rows[j].result = rows[j].status

\* A cancelled job leaves that status only by an explicit requeue or delete:
\* no late worker, heartbeat, reclaim or error handler overwrites it.
CancelSticks ==
  [][\A j \in Jobs :
       rows[j].status = "cancelled" /\ rows'[j].status # "cancelled"
         => \/ rows'[j].status = "deleted"
            \/ requeued'[j] > requeued[j]]_vars

\* Nobody is between two steps on j.
Settled(j) ==
  /\ rows[j].status \in Terminal
  /\ \A w \in Workers : task[w][j].pc = "none"
  /\ \A c \in Callers : api[c].job # j

\* Once everyone is done with a job that was never cancelled or requeued, its
\* output file carries the status its row does.  Only a worker that died
\* between the two leaves the row without a file.
OutputMatchesRow ==
  \A j \in Jobs :
    Settled(j) /\ rows[j].status # "cancelled" /\ requeued[j] = 0
      => \/ outfile[j] = rows[j].status
         \/ outfile[j] = NoResult /\ faults < MaxFaults

\* A lease nobody keeps alive is noticed: a processing row whose owner is gone
\* does not stay as it is.
Orphan(j) ==
  /\ rows[j].status = "processing"
  /\ \A w \in Workers : task[w][j].tok # rows[j].token
OrphansRecovered == \A j \in Jobs : Orphan(j) ~> ~Orphan(j)

\* A worker whose job was cancelled, deleted or handed to another worker stops
\* its model call, even one that would never return.
LostLease(w, j) == task[w][j].pc = "running" /\ ~Owns(j, task[w][j].tok)
LosersStop == \A w \in Workers, j \in Jobs : LostLease(w, j) ~> ~LostLease(w, j)

\* Every queued job is eventually brought to a terminal status or deleted,
\* across crashes, shutdowns and store errors.
QueuedSettles ==
  \A j \in Jobs : rows[j].status = "queued"
                    ~> rows[j].status \in Terminal \cup {"deleted"}
=============================================================================
