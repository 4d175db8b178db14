# Hoglah, in TLA+

Hoglah is a job queue for language-model calls: a library whose client submits
jobs to a table in SQLite or MongoDB, worker processes that claim and run them,
and bridges that take jobs from Kafka, RabbitMQ or Redis Streams and send the
results back. This directory holds a TLA+ specification of the parts of it
that are concurrent or must survive a crash, the TLC configurations that check
them on small instances, and TLAPS proofs of the central results for every
number of jobs, workers and callers.

Paths below are relative to `src/src/hoglah/` in the mapped tree, unless they
start with `docs/`. `PROJECT.json` maps each definition to its lines.

## How to run

    tlc -workers 2 -config MCWorker_races.cfg MCWorker
    tlapm WorkerProofs.tla

Each run takes between seconds and two minutes, and so does each proof module.


## 1. Inventory

### The job table (`store.py`, `mongo_store.py`) -- modelled

*State.* One row per job: status (queued, processing, completed, failed,
cancelled), run_at, lease token and expiry, result, the `published` flag of the
outbox, and the two optional keys, correlation_id and idempotency_key.

*Operations.* enqueue (returns an existing row's id under either key), claim,
heartbeat, set_result with or without a token, update_status, requeue,
reclaim_stale_leases, delete_job(s), mark_published, and queries.

*Interaction.* Every other component meets in this table and nowhere else.

*Hard.* SQLite has one lock per process and conditional updates across
processes. MongoDB is atomic per document only, so enqueue, reclaim and
delete_jobs are several calls that others interleave with.

*Correct when* a token names one claim; exactly the running rows are owned;
result and status agree; one key has one row; a completed job does not run
again; and the Mongo store cannot be told from the SQLite one.

### Worker and client (`client.py`) -- modelled

*State.* Per process: the batch that the poll listed, a semaphore, the in-flight
asyncio tasks, each with a heartbeat and a cancel watch.

*Operations.* Poll (reclaim, list, dispatch), `_process_job` (claim, re-read,
model call, re-check, set_result, deliver, or the exception handler), heartbeat,
cancel watch, submit, cancel, remove, requeue, clear, close, start-up recovery.

*Hard.* Cancel is five separate steps in a caller's thread and meets a worker
between any two of its own; a lease lapses under a worker that still computes;
a process dies anywhere; a store call fails in the middle; a model call hangs.

*Correct when* one result per submission is accepted, from the holder of the
lease; nobody runs a job twice at once; a cancel is not overwritten; output
files agree with rows; orphaned rows are picked up; losers stop; queued jobs
settle.

### Messaging bridge and transports (`kafka_bridge.py`, `rabbitmq.py`, `redis_streams.py`) -- modelled

*State.* What the broker considers unacknowledged and delivered, the consumer
thread, one publisher thread per result, the outbox drain at start-up.

*Operations.* Consume (poll, parse, enqueue, read back, ack or nack), publish and
mark, republish_unpublished, start and stop.

*Hard.* Acknowledgements mean different things: a Kafka commit covers all earlier
offsets; RabbitMQ returns messages when the connection closes; Redis keeps a
pending list that is drained first after a start. Crashes between enqueue and
ack, and between publish and mark.

*Correct when* a valid message that will not come again has a job; only poison
goes to the dead letters; the outbox flag does not lie; a correlation id gets one
answer; each message is eventually answered.

### Dependencies, labels and batches (`client.py`, `labels.py`, `batch.py`) -- modelled

*State.* `depends_on` and a label in each job's request; per worker the listed rows
that it is going through; per caller the cancel or the batch that it is in.

*Operations.* The poll's gates (`_eval_depends_on`, `eval_label_group`, the cycle
walk), `_fail_blocked_dependency`, cancel with its cascade (`_fail_dependents`),
remove, `submit_batch` with its order and its roll-back.

*Interaction.* Only through the job table: nothing in the store knows of an order.
Workers, cascades and roll-backs all claim, cancel and delete the same rows.

*Hard.* Each gate is several reads of rows that others change; a worker claims a
child that a cascade has just read as queued; a delayed child is not claimable; a
roll-back removes jobs that already run.

*Correct when* a job starts only after what it depends on, and the label phases
before it, completed; nobody is failed without a reason; a failed batch leaves
nothing; and every job settles.

### Fairness slots and rates (`client.py:1877-1961`) -- modelled

*State.* The jobs a process holds slots for, a snapshot of the processing rows,
token buckets. *Operations.* Session order of the list, reserve, release, refill.
*Hard.* A reservation outlives a wait for a permit, a lost claim and a cancel.
*Correct when* no slot is kept without a job and no limit is passed.

### Session priority queue (`priority_queue.py`) -- modelled

*State.* A heap, the busy keys, worker threads. *Operations.* submit, claim,
release, close. *Hard.* Tasks of busy keys are skipped and put back; the key is
freed in a critical section of its own; a task may end its thread. *Correct when*
one task per key runs at a time and in order, and what was accepted runs.

### Backend pool and preloader (`dispatch.py`, `preload.py`) -- modelled

*State.* Calls in progress and models served recently per host, failure
cool-downs; the preloader's plan, observed sizes, memory caps.
*Operations.* lease and release, `plan_actions`, a tick with its RPCs.
*Hard.* The plan is older than the world by several awaits; Ollama loads and
drops models by itself; calls end in four ways. *Correct when* loads are the calls
in progress, warmth does not pile calls up, and a plan neither overfills a host
nor drops what is needed.

### Retries and streaming (`client.py`, `models.py`, `streaming.py`) -- modelled

*State.* The attempt, a stream file with a writer's position, a follower's offset.
*Operations.* Attempt, error class and retry decision, timeout, chunk, finish,
cancel from the worker's process or another, the follower's reads.
*Hard.* Truncation under a reader or under the writer; a row and a file that end at
different moments. *Correct when* the follower is told no end that does not come,
hears all of an undisturbed output, and ends; retries leave the host that failed.

### Messaging submitter (`messaging_submitter.py`) -- modelled

*State.* A read position in the log of results, or a queue of replies.
*Operations.* publish, await, deadline. *Hard.* The answer may come before the wait,
after the deadline, or between others'. *Correct when* it is never passed by.


## 2. Modules

    JobStore ------- JobStoreProofs
     |---- MongoStore ---- MCMongoStore      implements JobStore (checked and proved)
     |       \---- MongoStoreProofs
     |---- Worker -------- MCWorker          implements JobStore (proved)
     |       \---- WorkerProofs
     |---- Bridge -------- MCBridge          implements JobStore (proved)
     |       \---- BridgeProofs
     \---- Slots
             \---- Dependencies -- MCDependencies    implements JobStore (proved)
             |       \---- DependenciesProofs
    Filter --/                                      (Preload uses it too)
    Pool
     |---- Preload ------- MCPreload
     |---- Execution ----- MCExecution
     \---- PoolProofs      (extends Preload and Execution)
    KeyedQueue  <--  SessionQueue -- MCSessionQueue  implements KeyedQueue
                       \---- SessionQueueProofs        (checked and proved)
    Submitter ------ MCSubmitter
     \---- SubmitterProofs

`JobStore` is both the model of the SQLite store and the abstract specification
of the JobStore protocol: `StoreNext` lets anybody make any call at any time,
with any token issued so far. `MongoStore` refines it; `Worker`, `Bridge` and
`Dependencies` call its actions. `Pool` is the shared part of `Preload` and
`Execution`, `KeyedQueue` the abstract specification of `SessionQueue`.

A worker process appears in four modules, each with the rest of it reduced to what
the module's questions need: `Worker` (claims, leases, crashes), `Dependencies`
(which row is dispatched), `Execution` (the model call and its stream) and
`Preload` (the hosts).

### JobStore

A row is a record with exactly the columns that some decision reads. Time is
relative (`delay`, `lease` count down at each `Tick`), which keeps the state space
finite. A missing row has the status `new` or `deleted`; ids are never reused.
Tokens are numbers in the order they are issued, where the code draws a uuid:
all that matters is that each is fresh. Each operation is one action; those whose
`WHERE` clause did not match are no step at all, and the callers test the same
condition (`Owns`) to learn what the call returned. `ReclaimStale` is the call
with its `LIMIT`; `Reclaim`, any set of stale rows, is what the protocol promises
and what the Mongo store is held to.

### MongoStore

The multi-call operations, one action per server call. `op[c]` is the call a
client is in. The unique indexes are the guard of the insert. Single-document
operations are JobStore's own actions (`UpdateOne`). Expiry is tested again for
each document with the `now` of the scan, so a document may also be left alone.

### Worker

| model | code |
|---|---|
| `PollReclaim`, `PollList`, `Dispatch` | one iteration of `_worker_loop`; the listed batch is a snapshot that outlives waits on the semaphore |
| `TryClaim` ... `DeliverResult` | `_process_job` between its store calls; `Finish` is the end of `_execute_with_retries` |
| `FailRecheck`, `FailStore`, `FailDeliver` | its handler for unexpected exceptions |
| `HeartbeatStep`, `CancelWatchStep`, `Interrupted` | the two side tasks and the CancelledError they cause |
| `CancelRead` ... `CancelInterrupt`, `RemoveRow` | cancel and remove, step by step, in a thread of any process |
| `Crash`, `StoreError`, `SideTaskError`, `Close`, `Drained`, `Restart` | process failure, a raising store call, shutdown with its drain window, `_recover_interrupted_jobs` |

A worker is one thread with an event loop: code without an await cannot be
interrupted by another task of the same process, although other processes and
client threads interleave with each store call in it. `LoopFree` says so.
`TickClock` waits for straight-line code and for a due heartbeat: a heartbeat
interval is shorter than the lease by configuration, and a tick stands for
seconds. A suspended host is covered by the dead heartbeat (`SideTaskError`).

Left out of it: the dispatch gates, which are in `Dependencies`, callbacks, and
errors of the poll's own store calls, which are logged before the loop tries again.

### Bridge

The worker shrinks to the calls `Claim`, `SetResultOwned`, and the delivery, with the
handler for a call that raises: `WorkError`, at any of them; `FailRecheck` and `FailStore`, what the
handler writes, if the table takes it; and `DeliverJob`, for a stored result and for the handler's
failure alike. `disowned` records the jobs for which a refused failure went on to its delivery.
The transport is chosen in `Init`; `Upcoming`, `Dispose` and the reset of `fetched`
in `Stop` are the only places where it matters. `Dispose(m)` removes all offsets
up to `m` on Kafka, where a commit is a position. A message is a number, in
broker order, and its content the key it carries, or none if it does not
parse. `GetHasKey` tells the SQLite store from the Mongo store, whose
`get` drops the column that the bridge compares.

### Dependencies and Slots

| model | code |
|---|---|
| `Poll`, `StartRow`, `ReadDep`, `ReadPeers`, `TakeSlots`, `Dispatch` | the pass of `_worker_loop` over its rows: `_fairness_order`, `_dispatch_gate`, `_try_reserve_job`, the semaphore |
| `FailClaim`, `FailStore` | `_fail_blocked_dependency`: claim, then a failure under the token |
| `TaskClaim`, `TaskEnd` | `_process_job` and the done callback that frees the slots |
| `ReadRow`, `WriteStatus`, `WriteResult` | `_cancel_one` |
| `ListChildren`, `NextChild`, `ClaimChild`, `FailChild` | `_fail_dependents`; its recursion is the stack in `call[c]` |
| `SubmitItem`, `ItemRefused`, `RollBack`, `EndCall` | `submit_batch`, and the `remove` of each enqueued id when an item is refused |
| `TopologicalNames` | the order of `batch.py`, a walk written as a recursive function whose step is `Walked`; `Filter` has the list comprehension |

`listed` is the poll's snapshot and `gate` the row in hand, so that everything a
gate has read is one store call old when the next is read. The ghosts `finished`
and `doomed` say what has ever been true of a row, which is what properties about
rows that others delete or cancel need.

`Slots` keeps a process's reservations (`reserved`), the snapshot of other
processes' running jobs (`elsewhere`) and the buckets. A key stands for a model, a
session or a tag; a rate refills one token a tick.

### SessionQueue and KeyedQueue

Each critical section of the code is one action. The refinement mapping takes
the heap for `pending` and the tasks whose call is in progress for `running`; the
busy set, the worker threads and the interval between a call's end and its release
have no counterpart in `KeyedQueue`.

### Pool, Preload and Execution

`Pool` has one action per way in which a lease ends: `Served`, `Failed` and
`Abandoned` (a CancelledError is no Exception, so no cool-down). `Preload`'s
planner is a chain of pure functions (`Refreshes`, `Preloads`, `Unloads`, `Plan`) of the
demand and of the hosts' views, as in `plan_actions`; the tick has a step per await.
Memory is counted in units, a keep_alive in parts of a second (`Second`), which `Rounded` makes
whole; `Loads` is what Ollama may do to make room.

`Execution` has a stream file as a sequence of lines; a writer is a position in
it, which is what makes a truncation under its hands leave a hole (`Written`).
The follower's offset counts lines. `Errors` are records of the facts that
`classify_error` looks for.

### Submitter

One module for the three transports: a log and a position (Kafka, Redis), or a
queue of one's own (RabbitMQ). The bridge and its worker are the action `Answer`.


## 3. Runs

Names and properties are in `PROJECT.json`; each property has a comment that
says what it is about.

| run | instance | shows |
|---|---|---|
| store | 4 jobs, 2 with one correlation id and 2 with one idempotency key, 2 clients, 2 claims | multi-call Mongo operations implement the atomic table; its invariants under arbitrary calls; racing enqueues agree |
| races | 2 workers, a remote caller with cancel and clear; 1 requeue; 1 crash or dead side task | fencing, one accepted result, no overwritten cancel, files agree with rows |
| exclusion | the same with the caller in a worker's process, remove as well, crash or shutdown | one model call at a time |
| losers | model calls that may hang, cancel, requeue of cancelled jobs | who lost the lease stops |
| progress | 2 delayed jobs, one worker, permit, poll limit and reclaim limit 1; 2 faults of any of four kinds | orphans are recovered, queued jobs settle |
| bridge | 3 messages (one poison) on each broker; 2 events out of crash, store, ack, publish, worker and connection errors, cancel, requeue, delete; batch and prefetch 1 | nothing lost, no false dead letter, honest flags and one answer (but for refused failures, section 6), every message answered |
| dependencies | a batch of 3 (a dependency, delayed, and a label), a fourth job with the idempotency key of one of them, one slot for two jobs, a rate; a refused item at any place, a cancel of the first job | no early start, phases in order, slots, reasons for failures, roll-back, everything settles |
| sessionQueue | 3 tasks of one key in two priorities, one of another, one without; 2 threads, one of which a task may end; close at any time | implements the keyed queue, accepted tasks run |
| hosts | 2 hosts, a model that fills one and a model of which two fit; 2 jobs, one failure; with and without a memory budget; keep_alive negative in the configuration, 0.3 s and 0.8 s in the jobs | loads, spill-over, sound plans |
| execution | 2 jobs of one model on 2 hosts, one streamed with a timeout and one retry; 2 chunks; a cancel from either process | the follower's truth and end, retries move on |
| submitter | one client of each transport, 2 submits each | no answer is passed by |
| kafkaSkips | one store error on Kafka | a violation, section 6 |

*Why these bounds are enough.* The races are between two writers of one row: the
task, and one of a second task, a caller, a reclaim or a restart. Jobs influence each
other only through permits and limits (run `progress`, where all of them are
one for two jobs), through keys (runs `store` and `bridge`) and through dependencies
and slots (run `dependencies`). One requeue makes a third claim possible after a
crash and its reclaim, so a token can be outlived twice. Three messages put
poison between two valid ones: the shortest log in which a Kafka commit can pass
over one of them. Three tasks of one key are one that runs, one that is next and
one of another priority that must not overtake or be overtaken. One retry and two
chunks make a file that was truncated both shorter and as long as what the
follower has read. One worker is enough in `dependencies`, for its task, its gate,
the canceller and the batch already interleave; what two workers add is a lost
claim, which the cascade's claim of the same row brings as well.

Bounds: `MaxToken` (claims) in MCMongoStore, `MaxFaults` and `MaxRequeues` in
Worker, `MaxEvents` in Bridge, `MaxCalls` (cancels) in Dependencies, `MaxKilled` in
SessionQueue, `MaxFaults` in Preload, `MaxChunks` in Execution, `MaxCalls` and
`MaxAnswers` in Submitter. All guard actions that the environment takes, never a
step the code owes, except for `MaxToken`, which occurs in a safety run only.
In the run `bridge` every transport crashes, and each other fault happens on those
where it is handled differently (`FaultsOf`); a store error on Kafka has the
run `kafkaSkips` to itself, and the worker's errors, like those of publishing, which are the
same on all transports, are left to Redis. `CHECK_DEADLOCK FALSE` is set
where the system really stops: all jobs are settled, all messages
answered, and nobody calls; `hosts` does not stop, as the preloader goes on. Workers
are symmetric in `races`, and clients and jobs of one kind in `store`: neither run
checks liveness.


## 4. Fairness

Worker, `Moving`: each poll, task, side task, caller and restart is weakly fair.
The asyncio ready queue is first in, first out, threads are scheduled by the
system, and a process that went down is assumed to be started again, as the
README's deployment does. `HangingSpec` is that much. `FairSpec` adds
`Finish`, the end of the model call: the code bounds it when `timeout_seconds` is
set, and otherwise not at all. `LosersStop` therefore is checked under
`HangingSpec`; `OrphansRecovered` does not hold under it (section 6).
Faults and client calls have no fairness.

Bridge, `FairSpec`: the consumer thread, start-up, time with the poll, and for
each job its own threads. The conditions are per thread: a consumer
that is busy with one message cannot excuse a stuck publisher.

Dependencies, `FairSpec`: the poll, callers, the batch and time are weakly fair. Tasks
are strongly fair, because they share the event loop with the poll: a task is
disabled while a pass is between two awaits, and the loop sleeps after every pass, so
a task is ready again and again rather than all the time.

SessionQueue, `FairSpec`: each thread; every call ends. Execution, `FairSpec`: the
worker's own steps with its timers, the second step of a cancel, the follower. Nothing makes
a call return: `EverybodyEnds` is about jobs with a timeout and rests on it.
Preload, Submitter and MongoStore are checked for safety only.


## 5. Proofs

`JobStoreProofs`: `StoreInvariant`, that is `StoreSpec => []StoreInv`. `StoreInv`
conjoins types, unique tokens, lease/status and result/status agreement, and is
inductive as it stands. The argument is by row: each operation writes a row that
is sound by itself (`RowSound`) and whose token is the old one, the next
one or none (`OneRowStep`, `ManyRowStep`).

`MongoStoreProofs`: keys, and the Mongo store.

- `OneRowPerKey` (`KeysUnique`) and `CompletedForGood` (`NeverRerunCompleted`) hold of
  every system that uses the table. Both come from one lemma, `StoreMoves`: how a row's
  status may move in a step. Only an insert brings a row into existence, and no row
  has its keys then.
- `MongoImplementsStore`: a server call of a multi-call operation is a step of the
  table or none.
- `OneAnswerPerKey` (`EnqueuesAgree`), with `Returned`: an id that was returned is that
  of a row with the same key, which is there unless it was deleted; and `Refused`:
  after a refused insert the row that refused it is there, unless it was deleted.

`WorkerProofs`: the system of workers and callers.

- `WorkerImplementsStore`: `Spec => StoreSpec`, so every theorem about the table
  holds of the system. The step lemma needs to know that a worker's result is one
  of completed and failed (`OutKnown`) and that a token that owns a row was issued.
- `WorkerTypes`: `Spec => []TypeOK`.
- `Fenced`: `Spec => []FencedOwner`. It follows from `TaskTokens`: a task that holds
  a token holds an issued one, and no two tasks of all processes hold the same.
- `AtMostOneResult`: `Spec => []AcceptedOnce`. `AcceptedOnce` alone is not inductive:
  nothing in it keeps a job that already has its result from being claimed.
  `Owed` adds that a job which is not over has had at most as many results as
  requeues; for that the proof shows that nothing but a requeue brings a terminal
  row back (`NoRevivalOps`, `NoRevivalSets`).

These four rest on the single invariant `IInv == StoreInv /\ TypeOK /\ TaskTokens /\
OutKnown /\ Owed`. The assumptions are those of the modules: `Delay` and
`LeaseTicks` natural numbers, limits and concurrency positive, the heartbeat interval
between 1 and the lease, no job with both keys, `RequeueFrom` failed and
perhaps cancelled. There is no finiteness assumption.

Four more results of the same system each need a premise about the faults that
may occur, which the run of the property meets as well:

- `CancelIsFinal` (`CancelSticks`) and `OutputIsResult` (`OutputMatchesRow`) need
  `StoreWorks`, no raising store call: the handler of unexpected exceptions
  writes without a token when it never got one, and delivers a failure that
  the row refused (section 6). `NoHandler` then keeps every task out of that handler. For the
  files, `FilesAgree` says of each job how file, row and the task that is between the two stand;
  `CallsKnown`, that a call is about a job that was submitted.
- `ResultsRecorded` (`TerminalHasItsResult`) needs `CallersStay`, callers that do not die with
  a worker: the status and the result of a cancel are two writes, and a
  process that dies between them leaves a cancelled row without a result. `Recorded`: a
  cancelled row that nobody is in the middle of cancelling has the cancel's result.
- `OneExecution` (`SingleExecution`) needs `LeasesLast`: no raising store call, no dead
  heartbeat, and only failed jobs requeued. Its invariant `SInv` is that a task which calls the model
  owns its row's lease, and that this lease lasts at least until the next heartbeat (`Kept`);
  that time waits for a due heartbeat (`TickClock`) makes it inductive.
  A requeue of a cancelled job gives a row back that its worker, which has yet to notice the cancel,
  still works on.

`BridgeProofs`: for any messages, jobs, transports and bounds.

- `BridgeTypes` and `BridgeImplementsStore`, from `BInv`: the table's invariant, the
  types, a stored task knows its result, a busy consumer has a message.
- `NoMessageLost`: `NoSkips => (Spec => []NothingLost)`. `NoSkips` says that no store
  call fails on Kafka; the run `kafkaSkips` shows that it is needed. `NothingLost` is
  not inductive, because a Kafka commit also disposes of earlier messages. `KafkaInv`
  adds that messages were fetched in order and that each fetched one but the
  one in hand has been handled; `ConsHandled`, that what the consumer is about to ack
  or reject is.
- `DeadLettersArePoison`: `GetHasKey => (Spec => []OnlyPoisonDeadLettered)`, with
  `JobInHand`: the consumer's row was inserted, so that a row it no longer finds was
  deleted, which is for good (`DeletedForever`). `GetHasKey` is needed: section 6
  has what the Mongo store does.

- `AnsweredOnce` (`OneAnswer`) and `MarkedWasSent` (`PublishedWasSent`), which need no premise about
  faults because they name what breaks the plain statement: a client that meddled with the job, and a
  failure of the worker's handler that the table refused (section 6). The invariant `AInv` is
  about results on their way. While nobody has cancelled or requeued a job, all that was sent, is
  being sent or is in its row is one result, or the refused failure, of which there is none
  beside a row that says failed itself (`Agreed`). A publisher that is about to mark has sent
  (`MarkedLast`); a flagged row had some result sent, and is still terminal unless somebody meddled
  or the failure was refused (`MarkSent`); a cancel under way counts as meddling. `Handling`: a handler
  without a token has no request to deliver with, and its row is as it was listed, or gone, unless
  somebody meddled; its unconditional write is a first result. The lemmas go by kinds of steps:
  those that say nothing new (`QuietStep`), a first result (`FirstResult`), a refused failure
  (`RefusedAgrees`), and a result that is passed on (`PassedOn`).

`DependenciesProofs`: for any graph, labels, limits, workers and callers.

- `DependenciesUseStore`: `Spec => StoreSpec`.
- `NoEarly` (`NoEarlyStart`). The gate reads one dependency after another, so the
  invariant speaks of the row in the gate: what it has read, its `todo` aside,
  has finished (`Passed`), and what is completed has finished (`Recorded`).
  `finished` only grows, which is what makes the earlier reads count.
- `SlotsKept` (`SlotsHeld`), with `GateFirst`: a row that is in the gate has no task, so
  that the end of a task frees no slot that the gate holds.

These are the conjuncts of `DInv`. The set of jobs is assumed finite, for the counts of
slots; `Place` is injective. On top of it:

- `BatchRemoved` (`FailedBatchLeavesNothing`), with `BatchHeld`: an item that is in
  the table is among those enqueued, which are still to be removed, or is the one being removed.
- `PhasesKept`: `Spec /\ [][LabelsInOrder]_vars => []PhasesInOrder`. The gate looks at the
  peers that there are, so that a peer with an earlier label that is submitted
  after the look is not waited for. `LabelsInOrder` says that nobody submits in this order; the
  batch of the run does not. `PeersPassed` is to labels what `Passed` is to dependencies.
- `DependenciesTypes` (`TypeOK`). That the order of a batch is a sequence of jobs takes a proof
  of its own, for it is the value of a recursive function: `Fold` says that a fold of bounded
  length exists and stays in its set, by the least step at which it would not; `KeptHas`
  and `WalkGoesOn` that a comprehension and one step of Kahn's walk keep their promises.
  `OrderIs` concludes that the order has items, each once, and each after those it
  depends on.
- `NeverForNothing`: `Spec /\ [][SinglesInOrder]_vars => NeverFailedForNothing`. The statement is about
  a step, the reason is many steps old: `GateReason` says what a row that is about to be failed
  has against it (a dependency that is missing for good, or an ancestor that failed, or a cycle,
  by `WalkIn`), `CallReason` that a cancel is of a job that somebody asked for, is doomed as soon
  as its cascade begins, and is an ancestor of all that the stack holds. An item's missing
  dependency is no longer to come because the batch is in order (`Ahead`, from `OrderIs`). For other jobs
  `SinglesInOrder` says so: none is submitted after one that waits for it. The
  store draws an id when the job is enqueued (`store.py:355`), so a caller can hardly name
  one before; `submit_batch` draws all of a batch's ids first (`batch.py:108`), which is why its
  items need the order instead. A caller that chooses its own `job_id` (`client.py:517`) could
  break the premise, and its row would be failed as if its dependency were lost.
  `RInv`, which conjoins these, was checked on the run's instance before it was proved.

`SessionQueueProofs`: `QueueTypes` and `QueueRefines` (`Spec => ImplementsKeyedQueue`), for
any tasks, keys, priorities and threads. `KeysHeld` is the invariant of the busy set: a
thread between its claim and its release keeps its key busy, alone, so that
freeing it frees nobody else's. `OnePlace` and `Numbered`: a task is in the heap, with
one thread, or ended, and an accepted one has its number.

`SubmitterProofs`: `NoAnswerSkipped` (`AnswerAhead`). The position is taken when nobody
knows the id yet (`Unseen`), and what was answered was sent (`AnsweredWasSent`).

`PoolProofs`: the pool under its two users, for any hosts, models and finitely many jobs.

- `LoadsCounted` (`LoadsAreCalls`) and `WarmthSpills` (`SpillsOver`) of the whole of Preload. The
  second needs that the least loaded host exists (`LeastLoadedIs`), which rests on the
  well-foundedness of the natural numbers.
- `RetriesElsewhere` (`RetriesMoveOn`) of Execution, with `Avoided`: the pool's
  cool-down of a host for a job's model lasts at least as long as what that job has against the
  host. The pool forgets at a success, and so does the job.
- `ExecutionTypes` (`ExecTypeOK`) and `FollowersHear` (`FollowerTruth`), from `EInv`. Neither the
  types nor the follower's claim is inductive: both need to know where the worker, its
  position in the file, the file and the follower's offset stand to each other. `Shape` has the
  ranges. `EJobs` has, for each job: how attempt, lease, cancel and row go together
  (`Settled`); that a file holds lines of this job only, and a done line is an end that the job comes to
  or a cancel (`InFile`); that what the follower was told is such an end too (`InView`); and of a first
  attempt that nobody cancelled, that the file is the sequence of the chunks sent, followed by
  the done line if there is one, that the writer is at its end, and that the follower has heard just
  what is before its offset (`FirstTry`). The last is what makes "all of it" true: whatever
  ends the follower was read after the whole text. `EInv` was checked on the run's instance as well.
- `PreloadTypes` (`TypeOK`) and `PlansAreSound` (`PlanIsSound`) of Preload, for any budgets, sizes,
  margins and limits on plans. A plan is what four recursive functions compute; for each, `Fold` gives
  a value and `FoldStays` keeps it among `Plans`: an action list in which a host that gets a model gets
  nothing else (`Alone`), the model was in no host's memory and fits (`Fitting`), and nothing is
  dropped that the queue needs. `KeepIs` goes through `keep_alive_for`, whose result is positive but for
  short durations (`BriefFor`). `PreInv` then follows the plan through the tick, while jobs, Ollama
  and failures go on: `Owed` says that the remainder of a plan is still sound, which `Alone`
  makes inductive, for a failed action teaches the planner a cap of its own host only; `Stages`,
  that a plan is made of all hosts' views and of the jobs that were due. That sizes seen in the last
  answer do not spoil the estimate needs that a model of that answer is not loaded anew
  (`AskHostStep`). `PreInv` was checked on the run's instance before it was proved.

*Model-checked only.* Liveness (`OrphansRecovered`, `QueuedSettles`, `LosersStop`,
`EveryMessageAnswered`, `EverySettles`, `EveryTaskEnds`, `EverybodyEnds`), which is out of
TLAPS' reach here. Every invariant and every action property that a run checks is
stated by a theorem, some under a premise that the theorem names.

## 6. Where code and documentation disagree

`kafkaSkips` is a run: a message whose handling raised is not polled again, and the
next commit covers it, although the documentation calls the bridge crash-safe and
its messages redelivered.

### Known divergences

These were met while the models were written. They are behaviours that the properties
above leave out, each by a premise that this list makes explicit. The
modules can show the first five when the named constant is changed.

- *A late cancel overwrites a result.* `cancel` reads, then writes unconditionally
  (`client.py:942`); a result stored in between is replaced by the cancellation,
  although "terminal is terminal" (`docs/ai-user-guide.md:384`). `CancelSticks` is about the other
  direction only.
- *A dead heartbeat makes two runs.* One raising `store.heartbeat` ends the heartbeat
  loop (`client.py:1403`) of a job that goes on; its lease lapses and a second worker runs it.
  `SingleExecution` is checked without `side_error`; the fencing token keeps one result out.
- *A hung call stops the poll.* The poll awaits a permit inside its pass
  (`client.py:1187`), so behind a model call that hangs on the last permit no stale
  lease is reclaimed and nothing is listed. `OrphansRecovered` fails under `HangingSpec`.
- *The Mongo store dead-letters valid messages.* Its `get` returns no correlation_id
  (`mongo_store.py:87-114`), which the bridge compares after its enqueue
  (`kafka_bridge.py:567`). With `GetHasKey = FALSE`, `OnlyPoisonDeadLettered` fails.
- *Waiting rows hide the row they wait for.* The poll's limit (`client.py:1124`: 50 with affinity
  reordering, preloading or a fairness limit, else 10) counts rows that the gates will skip. With a `PollLimit` below the number of waiting
  rows of higher priority, `EverySettles` fails.
- *A roll-back removes an earlier job.* When an item of a failed batch repeated the
  idempotency key of an earlier job, `submit_batch` removes that job
  (`client.py:800`). `NeverFailedForNothing` and `FailedBatchLeavesNothing` count it as asked for.
- *A delayed dependent is not failed by the cascade*, whose claim needs a due row
  (`client.py:988`); the poll fails it when it is due. Two delayed jobs that depend on each
  other make the cascade recurse without end (`client.py:971-991`): the instances have no
  such pair, and a cycle that is due is failed by the gate.
- *Slot limits hold per process.* Two workers can pass one limit by snapshots that lack
  each other's claims (`client.py:1890`); `SlotsHeld` says so.
- *A preload may reach a busy host.* The load is looked at when the plan is made
  (`client.py:1721`), not when the RPC is sent, although ADR-024
  (`docs/architecture-decisions.md:33`) wants idle hosts.
- *A refused failure is published.* If a call raises after `set_result` stored the result, as the read
  at `client.py:1304` may, the handler's own `set_result` is refused, which nobody looks at
  (`client.py:1366`); the failure is delivered all the same (`client.py:1377`), and
  publishing it marks the row, whose "completed" then is never sent. If the process dies before the mark, the
  drain of the next start sends "completed" as well: two answers, although
  `kafka_bridge.py:641` has a re-emit as "a duplicate, de-duped downstream by correlation_id".
  So does a failure that is refused because the lease was lost. `disowned` in `OneAnswer` and
  `PublishedWasSent` is this; without it, `bridge` violates both.
- *Store errors in the worker.* The same delivery writes an output file that the row does not
  have, and a handler that never got a token may overwrite a cancel that came after its check.
  The runs of Worker that would meet either have no `store_error`.
- *Streams.* A file that was truncated and has grown past the follower's offset is not seen as
  truncated (`streaming.py:125`), so after a retry a follower may hear parts of two
  attempts; `FollowerTruth` asks for the text of first attempts only. A remote cancel truncates
  the file under the worker's writer (`client.py:2016-2019`), whose next line is lost
  with the hole before it. A follower can be told "completed" before the row says so, and
  a cancel may then win the row.
- *Late answers.* After a deadline, or a publish that raised though the request went out
  (`messaging_submitter.py:193`), the job runs all the same; a caller that submits again
  runs it twice.
- *Affinity.* Aged rows are ordered by loaded model before age (`affinity.py:63`), so under a
  lasting overload an aged row of another model is never first, although the docstring
  says that aging prevents starvation.
- *A short keep_alive becomes 0.* `format_keep_alive` rounds (`preload.py:39`), so that half a second or less,
  as "0.3s" in a job or in the configuration, comes to 0, which tells Ollama to drop the model
  that was to be kept; where a preload would say 0 it sends `preload_keep_alive` as it
  is (`preload.py:370`), perhaps "-1". The docstrings say "Never returns 0 or -1"
  (`preload.py:36`) and "Never 0 or -1" (`preload.py:130`). `PlanKeepsFinitely` excepts these durations,
  and the run has a job that asks for one.
- *A long queue hides a model.* Store-wide demand is read with a limit of 500 rows
  (`client.py:1641`); what only rows after those need may be unloaded. `PlanKeepsWanted` is about
  lists that fit.
- *Time-outs have no cool-down.* An attempt that times out cancels its call, which the pool
  does not count as a failure of the host (`dispatch.py:134-142`); and a success that began before
  a failure clears its cool-down. `RetriesMoveOn` therefore is about errors, and
  up to the next success there.


## 7. Not modelled

- *Routing of backends* (`routing.py`): a table from a backend's name to its adapter, fixed when the
  client is made. It has no state that changes.
- *Affinity reordering* (`affinity.py`): on by default (`config.py:267`), and a change of order only,
  among the listed rows that have no label. No safety property of Dependencies depends on the
  order of the list, and `EverySettles` holds whatever it is while all rows fit into one listing.
- *Model adapters* (`adapters.py`, `cli_adapters.py`, the OpenAI and Ollama protocols): I/O and
  wire formats; the worker sees an answer, an error or nothing.
- *Tracing, metrics and manifests*: nothing in the life cycle of a job reads them back.
- *Command line, web and configuration*: front ends that call the client, and
  validation of values. The web server follows streams as `Execution`'s follower does.
- Parts of modelled components, named in their `note` in `PROJECT.json`: `wait` and its
  variants, callbacks, statistics, the schema migration, the parsing and building of messages,
  model aliases and sizes on disk.

## 8. Plan

Done: all the components above that have state of their own. What is left, in order of
what is at stake:

1. Two workers in `dependencies`, beside a smaller batch, for the claim that one loses
   between gate and task.
2. Affinity's reordering over Dependencies' list, with its skip counters, and the property
   that an aged row of a model that is not loaded is reached.
3. `wait` and callbacks, which observe rows and may miss a requeue.
