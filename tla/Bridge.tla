------------------------------- MODULE Bridge -------------------------------
(***************************************************************************)
(* The messaging bridge: a consumer thread that turns broker messages into *)
(* jobs, the publisher threads that send a result back, and the outbox     *)
(* drain that the client runs before its worker starts.  They meet the     *)
(* worker and the client calls in the job table only, so the worker is     *)
(* reduced here to the store calls it makes for a job and the delivery     *)
(* that follows (Worker has the rest), in one process that may crash.      *)
(*                                                                         *)
(* The three transports differ in what an acknowledgement covers and in    *)
(* when a message that was not acknowledged comes again.                   *)
(***************************************************************************)
EXTENDS JobStore

CONSTANTS
  Messages,    \* messages 1 .. Messages are in the broker, in this order;
               \* one that arrives later is one that is polled later
  MsgKey,      \* MsgKey[m]: m's correlation id; NoKey: m does not parse
  Transports,  \* which of "kafka", "rabbitmq", "redis" are considered
  Prefetch,    \* rabbitmq_prefetch
  GetHasKey,   \* the store's get returns correlation_id with a row
  Batch,       \* the batch of republish_unpublished
  Calls,       \* Calls[j]: which client calls are made for j
  FaultKinds,  \* FaultKinds[t]: which faults happen on transport t
  MaxEvents    \* bound: client calls and faults in a behaviour

Log == 1 .. Messages

ASSUME MessagesAssumption == Messages \in Nat
ASSUME KeysAssumption == MsgKey \in [Log -> {Corr[j] : j \in Jobs} \cup {NoKey}]
ASSUME TransportsAssumption == Transports \subseteq {"kafka", "rabbitmq", "redis"}
ASSUME PrefetchAssumption == Prefetch \in Nat \ {0}
ASSUME BatchAssumption == Batch \in Nat \ {0}
ASSUME BudgetAssumption == MaxEvents \in Nat

VARIABLES
  transport,  \* the broker of this deployment; never changes
  unacked,    \* messages that neither ack nor nack has disposed of
  fetched,    \* those delivered to the consumer: since it started, and on
              \* Redis, whose pending list survives it, in earlier lives too
  recovered,  \* Redis: the pending list was drained since the start
  dead,       \* messages in the dead-letter queue
  replies,    \* <<j, result>> for the result messages the broker confirmed
  phase,      \* "down", "priming" (the drain), "recovering" or "up"
  cons,       \* the consumer thread
  outbox,     \* the pass of republish_unpublished in progress
  work,       \* work[j]: the worker's task of j
  pubs,       \* the publisher threads
  flagged,    \* jobs between the two writes of a cancel
  budget,     \* client calls and faults left
  owed,       \* history: since the start, an error or a cancel has left
              \* something that only the next start makes up for
  meddled,    \* history: jobs cancelled or requeued by a client
  disowned    \* history: jobs whose worker went on to deliver a failure that
              \* the table had refused

brokerVars == <<transport, unacked, fetched, recovered, dead>>
procVars == <<phase, cons, outbox, work, pubs>>
markVars == <<flagged, meddled, disowned>>
vars == <<storeVars, brokerVars, replies, procVars, markVars, budget, owed>>

Consumer == [pc : {"poll", "parsed", "enqueued", "accept", "reject", "lost"},
             msg : {0} \cup Log,
             job : Jobs \cup {NoKey}]
Polling == [pc |-> "poll", msg |-> 0, job |-> NoKey]

\* A result on its way: to be produced, then marked published in the store.
Publication == [job : Jobs, result : Terminal, pc : {"produce", "mark"}]
Publish(j, r) == [job |-> j, result |-> r, pc |-> "produce"]

NoPass == [pc |-> "list", todo |-> {}, full |-> FALSE, removed |-> FALSE]
Pass == [pc : {"list", "emit"}, todo : SUBSET Publication,
         full : BOOLEAN, removed : BOOLEAN]

\* In hand from the claim to the delivery, or in the handler of an exception.
NoWork == [pc |-> "idle", tok |-> NoToken, out |-> NoResult, req |-> FALSE]
Work == [pc : {"idle", "held", "stored", "failing", "failchecked", "failed"},
         tok : Nat,
         out : {NoResult} \cup Terminal,
         req : BOOLEAN]   \* the handler, or the delivery, has the request

IsFirst(m, S) == m \in S /\ \A k \in S : m =< k
Poison(m) == MsgKey[m] = NoKey

\* An error the code logs and goes on from; what it leaves undone waits for
\* the next start.
Error(kind) ==
  /\ kind \in FaultKinds[transport] /\ budget > 0
  /\ budget' = budget - 1
  /\ owed' = TRUE

-----------------------------------------------------------------------------
(* Ingress: _consume_loop and _handle_message.                             *)

Pending == unacked \cap fetched

\* The message the transport hands out next.
Upcoming(m) ==
  \/ /\ transport = "kafka"
     /\ IsFirst(m, unacked \ fetched)
  \/ /\ transport = "rabbitmq"
     /\ Cardinality(Pending) < Prefetch
     /\ IsFirst(m, unacked \ fetched)
  \/ /\ transport = "redis"
     /\ IF recovered \/ Pending = {}
        THEN IsFirst(m, unacked \ fetched)
        ELSE IsFirst(m, Pending)

Poll(m) ==
  /\ phase = "up" /\ cons.pc = "poll"
  /\ m \in unacked /\ Upcoming(m)
  /\ fetched' = fetched \cup {m}
  /\ recovered' = (recovered \/ m \notin fetched)
  /\ cons' = [Polling EXCEPT !.pc = IF Poison(m) THEN "reject" ELSE "parsed",
                             !.msg = m]
  /\ UNCHANGED <<storeVars, transport, unacked, dead, replies, phase,
                 outbox, work, pubs, markVars, budget, owed>>

\* enqueue returns the row that has the correlation id, or makes one.
EnqueueMsg ==
  /\ cons.pc = "parsed"
  /\ \E j \in Jobs :
       /\ Corr[j] = MsgKey[cons.msg]
       /\ \/ Exists(j) /\ UNCHANGED storeVars
          \/ Enqueue(j)
       /\ cons' = [cons EXCEPT !.pc = "enqueued", !.job = j]
  /\ UNCHANGED <<brokerVars, replies, phase, outbox, work, pubs, markVars,
                 budget, owed>>

\* Mutant: a job that the worker has already taken is rejected.
CheckRowQueued ==
  /\ cons.pc = "enqueued"
  /\ cons' = [cons EXCEPT !.pc = IF rows[cons.job].status = "queued"
                                 THEN "accept" ELSE "reject"]
  /\ UNCHANGED <<storeVars, brokerVars, replies, phase, outbox, work, pubs,
                 markVars, budget, owed>>

\* The row is read back and must carry this message's correlation id.
CheckRow ==
  /\ cons.pc = "enqueued"
  /\ cons' = [cons EXCEPT !.pc = IF Exists(cons.job) /\ GetHasKey
                                 THEN "accept" ELSE "reject"]
  /\ UNCHANGED <<storeVars, brokerVars, replies, phase, outbox, work, pubs,
                 markVars, budget, owed>>

\* What the broker takes as handled.  A Kafka commit covers every earlier
\* offset as well.
Dispose(m) ==
  unacked' = unacked \ (IF transport = "kafka" THEN 1 .. m ELSE {m})

Ack ==
  /\ cons.pc = "accept"
  /\ Dispose(cons.msg)
  /\ cons' = Polling
  /\ UNCHANGED <<storeVars, transport, fetched, recovered, dead, replies,
                 phase, outbox, work, pubs, markVars, budget, owed>>

Nack ==
  /\ cons.pc = "reject"
  /\ dead' = dead \cup {cons.msg}
  /\ Dispose(cons.msg)
  /\ cons' = Polling
  /\ UNCHANGED <<storeVars, transport, fetched, recovered, replies, phase,
                 outbox, work, pubs, markVars, budget, owed>>

\* Mutant: a message that could not be handled is acknowledged.
HandleErrorAcked ==
  /\ cons.pc \in {"parsed", "enqueued"} /\ Error("store_error")
  /\ Dispose(cons.msg)
  /\ cons' = Polling
  /\ UNCHANGED <<storeVars, transport, fetched, recovered, dead, replies, phase,
                 outbox, work, pubs, markVars>>

\* enqueue, get, ack or nack raises, the last possibly after the dead letter
\* was written: the message stays unacknowledged.
HandleError ==
  /\ \/ cons.pc \in {"parsed", "enqueued"} /\ Error("store_error")
        /\ UNCHANGED dead
     \/ cons.pc = "accept" /\ Error("ack_error") /\ UNCHANGED dead
     \/ /\ cons.pc = "reject" /\ Error("ack_error")
        /\ \/ UNCHANGED dead
           \/ transport # "rabbitmq" /\ dead' = dead \cup {cons.msg}
  /\ cons' = Polling
  /\ UNCHANGED <<storeVars, transport, unacked, fetched, recovered,
                 replies, phase, outbox, work, pubs, markVars>>

\* RabbitMQ drops the consumer's connection, which nothing reopens: the broker
\* takes its messages back and every later poll raises.
ConnectionLost ==
  /\ transport = "rabbitmq" /\ phase = "up" /\ cons.pc = "poll"
  /\ Error("conn_lost")
  /\ cons' = [cons EXCEPT !.pc = "lost"]
  /\ fetched' = {}
  /\ UNCHANGED <<storeVars, transport, unacked, recovered, dead, replies,
                 phase, outbox, work, pubs, markVars>>

Ingress == \/ \E m \in Log : Poll(m)
           \/ EnqueueMsg \/ CheckRow \/ Ack \/ Nack

-----------------------------------------------------------------------------
(* The worker's calls for one job, and _deliver.                           *)

StartJob(j) ==
  /\ phase = "up" /\ work[j].pc = "idle"
  /\ Claim(j)
  /\ work' = [work EXCEPT ![j] = [NoWork EXCEPT !.pc = "held",
                                                !.tok = nextToken]]
  /\ UNCHANGED <<brokerVars, replies, phase, cons, outbox, pubs, markVars,
                 budget, owed>>

\* Mutant: the result is delivered before it is stored.
StoreJobLate(j) ==
  /\ work[j].pc = "held" /\ Owns(j, work[j].tok)
  /\ \E s \in {"completed", "failed"} :
       work' = [work EXCEPT ![j].pc = "stored", ![j].out = s, ![j].req = TRUE]
  /\ UNCHANGED <<storeVars, brokerVars, replies, phase, cons, outbox, pubs,
                 markVars, budget, owed>>

StoreJob(j) ==
  /\ work[j].pc = "held"
  /\ \/ \E s \in {"completed", "failed"} :
          /\ SetResultOwned(j, work[j].tok, s)
          /\ work' = [work EXCEPT ![j].pc = "stored", ![j].out = s,
                                  ![j].req = TRUE]
     \/ /\ ~Owns(j, work[j].tok)
        /\ work' = [work EXCEPT ![j] = NoWork]
        /\ UNCHANGED storeVars
  /\ UNCHANGED <<brokerVars, replies, phase, cons, outbox, pubs, markVars,
                 budget, owed>>

\* publish_result starts a thread for a job that came through the bridge, if it
\* is given the request.
DeliverJob(j) ==
  /\ work[j].pc \in {"stored", "failed"}
  /\ pubs' = IF Corr[j] = NoKey \/ ~work[j].req THEN pubs
             ELSE pubs \cup {Publish(j, work[j].out)}
  /\ work' = [work EXCEPT ![j] = NoWork]
  /\ UNCHANGED <<storeVars, brokerVars, replies, phase, cons, outbox,
                 markVars, budget, owed>>

\* The claim raises, or a call after it: the read of the row, without which there
\* is no request, or a later one, up to the read that follows set_result.  The
\* handler swallows the errors of its own calls.
WorkError(j) ==
  /\ \/ /\ phase = "up" /\ work[j].pc = "idle" /\ Claimable(j)
        /\ work' = [work EXCEPT ![j] = [NoWork EXCEPT !.pc = "failing"]]
     \/ /\ work[j].pc = "held"
        /\ \E req \in BOOLEAN :
             work' = [work EXCEPT ![j].pc = "failing", ![j].req = req]
     \/ /\ work[j].pc = "stored"
        /\ work' = [work EXCEPT ![j].pc = "failing"]
     \/ /\ work[j].pc \in {"failing", "failchecked"}
        /\ work' = [work EXCEPT ![j] = NoWork]
  /\ Error("work_error")
  /\ UNCHANGED <<storeVars, brokerVars, replies, phase, cons, outbox, pubs,
                 markVars>>

FailRecheck(j) ==
  /\ work[j].pc = "failing"
  /\ work' = IF rows[j].status = "cancelled" THEN [work EXCEPT ![j] = NoWork]
             ELSE [work EXCEPT ![j].pc = "failchecked"]
  /\ UNCHANGED <<storeVars, brokerVars, replies, phase, cons, outbox, pubs,
                 markVars, budget, owed>>

\* What set_result returns is not looked at: a failure that was refused, because
\* the row already has its result or is gone, is delivered all the same.
FailStore(j) ==
  LET tok == work[j].tok IN
  /\ work[j].pc = "failchecked"
  /\ \/ /\ tok # NoToken /\ SetResultOwned(j, tok, "failed")
        /\ UNCHANGED disowned
     \/ /\ tok # NoToken /\ ~Owns(j, tok)
        /\ disowned' = IF work[j].req THEN disowned \cup {j} ELSE disowned
        /\ UNCHANGED storeVars
     \/ /\ tok = NoToken /\ SetResult(j, "failed")
        /\ UNCHANGED disowned
  /\ work' = [work EXCEPT ![j].pc = "failed", ![j].out = "failed"]
  /\ UNCHANGED <<brokerVars, replies, phase, cons, outbox, pubs, flagged,
                 meddled, budget, owed>>

\* The poll's reclaim.  Heartbeats keep the leases of jobs in hand alive.
ReclaimJobs ==
  /\ phase = "up"
  /\ \E j \in Jobs : Stale(j)
  /\ \E S \in SUBSET Jobs : ReclaimStale(S)
  /\ UNCHANGED <<brokerVars, replies, procVars, markVars, budget, owed>>

Lapse ==
  /\ \E j \in Jobs : rows[j].status = "processing" /\ ~Stale(j)
  /\ \A j \in Jobs : work[j].pc \notin {"held", "failing", "failchecked"}
  /\ Tick
  /\ UNCHANGED <<brokerVars, replies, procVars, markVars, budget, owed>>

WorkerStep(j) ==
  \/ StartJob(j) \/ StoreJob(j) \/ DeliverJob(j)
  \/ FailRecheck(j) \/ FailStore(j)

-----------------------------------------------------------------------------
(* Egress: _publish_now, in a publisher thread or in the outbox drain.     *)

Produced(p) == replies' = replies \cup {<<p.job, p.result>>}

\* Mutant: the row's result is read again when it is sent.
ProduceRowResult(p) ==
  /\ p \in pubs /\ p.pc = "produce"
  /\ replies' = replies \cup {<<p.job, rows[p.job].result>>}
  /\ pubs' = (pubs \ {p}) \cup {[p EXCEPT !.pc = "mark"]}
  /\ UNCHANGED <<storeVars, brokerVars, phase, cons, outbox, work, markVars,
                 budget, owed>>

Produce(p) ==
  /\ p \in pubs /\ p.pc = "produce"
  /\ Produced(p)
  /\ pubs' = (pubs \ {p}) \cup {[p EXCEPT !.pc = "mark"]}
  /\ UNCHANGED <<storeVars, brokerVars, phase, cons, outbox, work, markVars,
                 budget, owed>>

Mark(p) ==
  /\ p \in pubs /\ p.pc = "mark"
  /\ MarkPublished(p.job)
  /\ pubs' = pubs \ {p}
  /\ UNCHANGED <<brokerVars, replies, phase, cons, outbox, work, markVars,
                 budget, owed>>

\* Mutant: the row is marked although the broker did not confirm.
PublishErrorMarked(p) ==
  /\ p \in pubs
  /\ Error("publish_error")
  /\ MarkPublished(p.job)
  /\ pubs' = pubs \ {p}
  /\ UNCHANGED <<brokerVars, replies, phase, cons, outbox, work, markVars>>

PublishError(p) ==
  /\ p \in pubs
  /\ Error("publish_error")
  /\ pubs' = pubs \ {p}
  /\ UNCHANGED <<storeVars, brokerVars, replies, phase, cons, outbox, work,
                 markVars>>

Unpublished ==
  {j \in Jobs : /\ rows[j].status \in Terminal
                /\ rows[j].result # NoResult
                /\ ~rows[j].published
                /\ Corr[j] # NoKey}

\* One batch of rows and their results is read; no row ends the drain, and
\* so do a batch that got nowhere and a batch that was not full.
DrainDone == phase' = "recovering" /\ outbox' = NoPass

OutboxList ==
  /\ phase = "priming" /\ outbox.pc = "list" /\ Unpublished # {}
  /\ \E S \in SUBSET Unpublished :
       /\ \/ S = Unpublished /\ Cardinality(S) =< Batch
          \/ Cardinality(Unpublished) > Batch /\ Cardinality(S) = Batch
       /\ outbox' = [pc |-> "emit",
                     todo |-> {Publish(j, rows[j].result) : j \in S},
                     full |-> Cardinality(S) = Batch,
                     removed |-> FALSE]
  /\ UNCHANGED <<storeVars, brokerVars, replies, phase, cons, work, pubs,
                 markVars, budget, owed>>

\* One row after the other.
Current(p) ==
  /\ phase = "priming" /\ p \in outbox.todo
  /\ \A q \in outbox.todo : q.pc = "mark" => q = p

OutboxProduce(p) ==
  /\ Current(p) /\ p.pc = "produce"
  /\ Produced(p)
  /\ outbox' = [outbox EXCEPT !.todo = (@ \ {p}) \cup {[p EXCEPT !.pc = "mark"]}]
  /\ UNCHANGED <<storeVars, brokerVars, phase, cons, work, pubs, markVars,
                 budget, owed>>

OutboxMark(p) ==
  /\ Current(p) /\ p.pc = "mark"
  /\ MarkPublished(p.job)
  /\ outbox' = [outbox EXCEPT !.todo = @ \ {p}, !.removed = TRUE]
  /\ UNCHANGED <<brokerVars, replies, phase, cons, work, pubs, markVars,
                 budget, owed>>

OutboxError(p) ==
  /\ Current(p)
  /\ Error("publish_error")
  /\ outbox' = [outbox EXCEPT !.todo = @ \ {p}]
  /\ UNCHANGED <<storeVars, brokerVars, replies, phase, cons, work, pubs,
                 markVars>>

\* Mutant: one batch is all that is read.
OutboxOneBatch ==
  /\ phase = "priming"
  /\ \/ outbox.pc = "list" /\ Unpublished = {}
     \/ outbox.pc = "emit" /\ outbox.todo = {}
  /\ DrainDone
  /\ UNCHANGED <<storeVars, brokerVars, replies, cons, work, pubs, markVars,
                 budget, owed>>

OutboxDone ==
  /\ phase = "priming"
  /\ \/ outbox.pc = "list" /\ Unpublished = {}
     \/ /\ outbox.pc = "emit" /\ outbox.todo = {}
        /\ ~outbox.removed \/ ~outbox.full
  /\ DrainDone
  /\ UNCHANGED <<storeVars, brokerVars, replies, cons, work, pubs, markVars,
                 budget, owed>>

\* The list call raises: the start goes on without the rest of the drain.
DrainError ==
  /\ phase = "priming" /\ outbox.pc = "list"
  /\ Error("store_error")
  /\ DrainDone
  /\ UNCHANGED <<storeVars, brokerVars, replies, cons, work, pubs, markVars>>

OutboxNextPass ==
  /\ phase = "priming" /\ outbox.pc = "emit" /\ outbox.todo = {}
  /\ outbox.removed /\ outbox.full
  /\ outbox' = NoPass
  /\ UNCHANGED <<storeVars, brokerVars, replies, phase, cons, work, pubs,
                 markVars, budget, owed>>

\* _recover_interrupted_jobs follows, then worker and consumer start.
Recover ==
  /\ phase = "recovering"
  /\ \E S \in SUBSET Jobs : ReclaimStale(S)
  /\ phase' = "up"
  /\ UNCHANGED <<brokerVars, replies, cons, outbox, work, pubs, markVars,
                 budget, owed>>

Drain ==
  \/ OutboxList \/ OutboxDone \/ OutboxNextPass \/ Recover
  \/ \E p \in outbox.todo : OutboxProduce(p) \/ OutboxMark(p)

-----------------------------------------------------------------------------
(* Client calls, stops and starts.                                         *)

ClientCall(j, kind) ==
  /\ kind \in Calls[j] /\ budget > 0
  /\ budget' = budget - 1

\* cancel: two writes.  Its delivery passes no request, so that nothing is
\* published.
CancelStatus(j) ==
  /\ ClientCall(j, "cancel")
  /\ rows[j].status \in {"queued", "processing"}
  /\ UpdateStatus(j, "cancelled")
  /\ flagged' = flagged \cup {j}
  /\ meddled' = meddled \cup {j}
  /\ UNCHANGED <<brokerVars, replies, procVars, disowned, owed>>

CancelResult(j) ==
  /\ j \in flagged
  /\ SetResult(j, "cancelled")
  /\ flagged' = flagged \ {j}
  /\ owed' = (owed \/ phase # "down")
  /\ UNCHANGED <<brokerVars, replies, procVars, meddled, disowned, budget>>

RequeueJob(j) ==
  /\ ClientCall(j, "requeue")
  /\ Requeue(j, {"failed"})
  /\ meddled' = meddled \cup {j}
  /\ UNCHANGED <<brokerVars, replies, procVars, flagged, disowned, owed>>

RemoveJob(j) ==
  /\ ClientCall(j, "delete")
  /\ Delete({j})
  /\ UNCHANGED <<brokerVars, replies, procVars, markVars, owed>>

\* A crash, or stop() when its waiting times are over: the consumer, the
\* publisher threads and the drain are gone.  Redis keeps the pending list.
Stop ==
  /\ phase # "down"
  /\ "crash" \in FaultKinds[transport] /\ budget > 0
  /\ budget' = budget - 1
  /\ phase' = "down"
  /\ cons' = Polling
  /\ outbox' = NoPass
  /\ work' = [j \in Jobs |-> NoWork]
  /\ pubs' = {}
  /\ fetched' = IF transport = "redis" THEN fetched ELSE {}
  /\ recovered' = FALSE
  /\ owed' = FALSE
  /\ UNCHANGED <<storeVars, transport, unacked, dead, replies, markVars>>

\* The client's start-up primes the bridge before anything else runs.
Start ==
  /\ phase = "down"
  /\ phase' = "priming"
  /\ UNCHANGED <<storeVars, brokerVars, replies, cons, outbox, work, pubs,
                 markVars, budget, owed>>

-----------------------------------------------------------------------------

Init ==
  /\ StoreInit
  /\ transport \in Transports
  /\ unacked = Log
  /\ fetched = {}
  /\ recovered = FALSE
  /\ dead = {}
  /\ replies = {}
  /\ phase = "down"
  /\ cons = Polling
  /\ outbox = NoPass
  /\ work = [j \in Jobs |-> NoWork]
  /\ pubs = {}
  /\ flagged = {}
  /\ budget = MaxEvents
  /\ owed = FALSE
  /\ meddled = {}
  /\ disowned = {}

Egress(j) == \E p \in pubs : p.job = j /\ (Produce(p) \/ Mark(p))

Next ==
  \/ Ingress \/ HandleError \/ ConnectionLost
  \/ \E j \in Jobs :
       \/ WorkerStep(j) \/ WorkError(j) \/ Egress(j)
       \/ CancelStatus(j) \/ CancelResult(j) \/ RequeueJob(j) \/ RemoveJob(j)
  \/ ReclaimJobs \/ Lapse
  \/ \E p \in pubs : PublishError(p)
  \/ Drain \/ DrainError
  \/ \E p \in outbox.todo : OutboxError(p)
  \/ Stop \/ Start

Spec == Init /\ [][Next]_vars

\* The consumer thread runs, a process that went down is started again, time
\* passes and the poll comes round, and everything that is under way for a job
\* goes on: its model call returns, its publisher and its canceller run.
FairSpec ==
  /\ Spec
  /\ WF_vars(Ingress)
  /\ WF_vars(Start \/ Drain)
  /\ WF_vars(ReclaimJobs \/ Lapse)
  /\ \A j \in Jobs : WF_vars(WorkerStep(j) \/ Egress(j) \/ CancelResult(j))

-----------------------------------------------------------------------------
(* Properties.                                                             *)

TypeOK ==
  /\ StoreTypeOK
  /\ transport \in Transports
  /\ unacked \subseteq Log
  /\ fetched \subseteq Log
  /\ recovered \in BOOLEAN
  /\ dead \subseteq Log
  /\ replies \subseteq Jobs \X Terminal
  /\ phase \in {"down", "priming", "recovering", "up"}
  /\ cons \in Consumer
  /\ outbox \in Pass
  /\ work \in [Jobs -> Work]
  /\ pubs \subseteq Publication
  /\ flagged \subseteq Jobs
  /\ budget \in Nat
  /\ owed \in BOOLEAN
  /\ meddled \subseteq Jobs
  /\ disowned \subseteq Jobs

JobsOf(m) == {j \in Jobs : Corr[j] = MsgKey[m]}
Known(m) == \E j \in JobsOf(m) : rows[j].status # "new"

\* A valid message the broker will not deliver again has become a job: across
\* crashes between enqueue and ack, failed acks and failed store calls.
NothingLost ==
  \A m \in Log : ~Poison(m) /\ m \notin unacked => Known(m)

\* Only poison is dead-lettered, or a message whose job was deleted under the
\* consumer's hands.
OnlyPoisonDeadLettered ==
  \A m \in dead :
    Poison(m) \/ \E j \in JobsOf(m) : rows[j].status = "deleted"

\* The outbox flag tells the truth: a row marked published had its present
\* result confirmed by the broker, so what the next start skips was sent.  After
\* a cancel or a requeue some result of the job was; and where the worker's
\* handler delivered a failure that the table had refused, that failure was.
PublishedWasSent ==
  \A j \in Jobs :
    rows[j].published =>
      \/ <<j, rows[j].result>> \in replies
      \/ j \in meddled /\ \E r \in Terminal : <<j, r>> \in replies
      \/ j \in disowned /\ <<j, "failed">> \in replies

\* Whoever waits for a correlation id is told one result, however often it is
\* sent: no crash makes a job run again whose result went out.  Two are sent only
\* if a client meddled with the job, or if the worker's handler delivered a
\* failure that the table had refused, and then one of them is that failure.
OneAnswer ==
  \A x, y \in replies :
    x[1] = y[1] /\ x[1] \notin meddled =>
      x = y \/ (x[1] \in disowned /\ "failed" \in {x[2], y[2]})

\* Every message is disposed of, and a valid one answered with a result of its
\* job, unless the job is deleted or an error or a cancel since the last start
\* left the answer, or the message itself, for the next start.  What an earlier
\* life left behind is made up for.  In particular no message keeps the
\* consumer from those behind it, and no row the drain from those after it.
Answered(m) ==
  \E j \in JobsOf(m) :
    \/ rows[j].status = "deleted"
    \/ \E r \in Terminal : <<j, r>> \in replies
AllAnswered ==
  \A m \in Log : m \notin unacked /\ (Poison(m) \/ Answered(m))
EveryMessageAnswered == []<>(AllAnswered \/ owed)
=============================================================================
