---------------------------- MODULE BridgeProofs ----------------------------
(***************************************************************************)
(* The messaging bridge, for any messages, jobs, transports and bounds: it *)
(* keeps its types, uses the job table as JobStore allows, loses nothing   *)
(* unless a store call fails on Kafka, dead-letters nothing but poison     *)
(* unless the store's get returns no key, answers with one result and      *)
(* marks a row published only after its result was sent, both but for the  *)
(* failures that a worker's handler delivers although they were refused.   *)
(***************************************************************************)
EXTENDS Bridge, JobStoreProofs

\* A worker's task that has stored its result knows which.
WorkOut ==
  \A j \in Jobs : work[j].pc \in {"stored", "failed"} => work[j].out \in Terminal

\* A consumer that is busy is busy with a message.
Busy == cons.pc \notin {"poll", "lost"}
ConsMsg == Busy => cons.msg \in Log

BInv == StoreInv /\ TypeOK /\ WorkOut /\ ConsMsg

LEMMA InitBInv == Init => BInv
<1> SUFFICES ASSUME Init PROVE BInv
  OBVIOUS
<1>1. StoreInv
  BY InitInv DEF Init
<1>2. TypeOK
  BY <1>1, BudgetAssumption
  DEF Init, StoreInv, TypeOK, Work, NoWork, NoToken, NoResult, Consumer,
      Polling, Pass, NoPass
<1>3. WorkOut
  BY DEF Init, WorkOut, NoWork
<1>4. ConsMsg
  BY DEF Init, ConsMsg, Busy, Polling
<1> QED
  BY <1>1, <1>2, <1>3, <1>4 DEF BInv

\* Every step of the bridge, its worker and its clients is a step of the job
\* table, or leaves it alone.
LEMMA StepAllowed ==
  ASSUME BInv, [Next]_vars
  PROVE  [StoreNext]_storeVars
<1>1. CASE Ingress \/ HandleError \/ ConnectionLost
  <2>1. CASE EnqueueMsg
    BY <2>1 DEF EnqueueMsg, StoreNext, JobOp
  <2> QED
    BY <1>1, <2>1
    DEF Ingress, Poll, CheckRow, Ack, Nack, HandleError, ConnectionLost,
        storeVars
<1>2. ASSUME NEW j \in Jobs, WorkerStep(j)
      PROVE  [StoreNext]_storeVars
  <2>1. CASE StartJob(j)
    BY <2>1 DEF StartJob, StoreNext, JobOp
  <2>2. ASSUME NEW s \in {"completed", "failed"},
               SetResultOwned(j, work[j].tok, s)
        PROVE  [StoreNext]_storeVars
    <3>1. work[j].tok \in 1 .. nextToken - 1
      BY <2>2
      DEF BInv, StoreInv, StoreTypeOK, TokensUnique, LeaseMatchesStatus,
          SetResultOwned, Owns, Row, NoToken
    <3> QED BY <2>2, <3>1 DEF StoreNext, JobOp
  <2>3. CASE StoreJob(j)
    BY <2>2, <2>3 DEF StoreJob, storeVars
  <2>4. CASE DeliverJob(j)
    BY <2>4 DEF DeliverJob, storeVars
  <2>5. CASE FailRecheck(j)
    BY <2>5 DEF FailRecheck, storeVars
  <2>6. CASE FailStore(j)
    <3>1. CASE SetResult(j, "failed")
      BY <3>1 DEF StoreNext, JobOp
    <3>2. CASE SetResultOwned(j, work[j].tok, "failed")
      BY <2>2, <3>2
    <3> QED BY <2>6, <3>1, <3>2 DEF FailStore, storeVars
  <2> QED BY <1>2, <2>1, <2>3, <2>4, <2>5, <2>6 DEF WorkerStep
<1>3. ASSUME NEW j \in Jobs, Egress(j)
      PROVE  [StoreNext]_storeVars
  <2>1. CASE MarkPublished(j)
    BY <2>1 DEF StoreNext, JobOp
  <2> QED BY <1>3, <2>1 DEF Egress, Produce, Mark, storeVars
<1>4. ASSUME NEW j \in Jobs,
             \/ CancelStatus(j) \/ CancelResult(j)
             \/ RequeueJob(j) \/ RemoveJob(j)
      PROVE  [StoreNext]_storeVars
  <2>1. CASE CancelStatus(j) \/ CancelResult(j)
    BY <2>1 DEF CancelStatus, CancelResult, StoreNext, JobOp
  <2>2. CASE RequeueJob(j)
    <3>1. Requeue(j, {"failed", "cancelled"})
      BY <2>2 DEF RequeueJob, Requeue
    <3> QED BY <3>1 DEF StoreNext, JobOp
  <2>3. CASE RemoveJob(j)
    BY <2>3 DEF RemoveJob, StoreNext
  <2> QED BY <1>4, <2>1, <2>2, <2>3
<1>5. CASE ReclaimJobs \/ Lapse \/ Recover
  BY <1>5 DEF ReclaimJobs, Lapse, Recover, ReclaimStale, StoreNext
<1>6. CASE Drain \/ DrainError
  <2>1. ASSUME NEW p \in outbox.todo, OutboxMark(p)
        PROVE  [StoreNext]_storeVars
    <3>1. p.job \in Jobs /\ MarkPublished(p.job)
      BY <2>1 DEF OutboxMark, BInv, TypeOK, Pass, Publication
    <3> QED BY <3>1 DEF StoreNext, JobOp
  <2> QED
    BY <1>5, <1>6, <2>1
    DEF Drain, OutboxList, OutboxDone, OutboxNextPass, OutboxProduce,
        DrainError, storeVars
<1>7. CASE \/ \E p \in pubs : PublishError(p)
           \/ \E p \in outbox.todo : OutboxError(p)
           \/ \E j \in Jobs : WorkError(j)
           \/ Stop \/ Start \/ UNCHANGED vars
  BY <1>7 DEF PublishError, OutboxError, WorkError, Stop, Start, vars, storeVars
<1> QED
  BY <1>1, <1>2, <1>3, <1>4, <1>5, <1>6, <1>7 DEF Next

LEMMA StoreInvStep ==
  ASSUME BInv, [Next]_vars
  PROVE  StoreInv'
  BY StepAllowed, NextInv DEF BInv

LEMMA ErrorTypes ==
  ASSUME BInv, NEW kind, Error(kind)
  PROVE  budget' \in Nat /\ owed' \in BOOLEAN
  BY DEF Error, BInv, TypeOK

LEMMA CallTypes ==
  ASSUME BInv, NEW j \in Jobs, NEW kind, ClientCall(j, kind)
  PROVE  budget' \in Nat
  BY DEF ClientCall, BInv, TypeOK

LEMMA IngressTypes ==
  ASSUME BInv, StoreTypeOK',
         Ingress \/ HandleError \/ ConnectionLost
  PROVE  TypeOK' /\ WorkOut' /\ ConsMsg'
<1> USE DEF BInv, TypeOK, WorkOut, ConsMsg, Busy, brokerVars, markVars,
            Consumer, Polling
<1>1. ASSUME NEW m \in Log, Poll(m)
      PROVE  TypeOK' /\ WorkOut' /\ ConsMsg'
  BY <1>1 DEF Poll
<1>2. CASE EnqueueMsg
  <2>1. cons' \in Consumer
    BY <1>2 DEF EnqueueMsg
  <2> QED BY <1>2, <2>1 DEF EnqueueMsg
<1>3. CASE CheckRow
  BY <1>3 DEF CheckRow
<1>4. CASE Ack \/ Nack
  <2>1. unacked' \subseteq Log /\ dead' \subseteq Log
    BY <1>4 DEF Ack, Nack, Dispose
  <2> QED BY <1>4, <2>1 DEF Ack, Nack
<1>5. CASE HandleError
  <2>1. budget' \in Nat /\ owed' \in BOOLEAN
    BY <1>5, ErrorTypes DEF HandleError
  <2>2. dead' \subseteq Log
    BY <1>5 DEF HandleError
  <2> QED BY <1>5, <2>1, <2>2 DEF HandleError
<1>6. CASE ConnectionLost
  <2>1. budget' \in Nat /\ owed' \in BOOLEAN
    BY <1>6, ErrorTypes DEF ConnectionLost
  <2> QED BY <1>6, <2>1 DEF ConnectionLost
<1> QED
  BY <1>1, <1>2, <1>3, <1>4, <1>5, <1>6 DEF Ingress

LEMMA WorkTypes ==
  ASSUME BInv, StoreTypeOK', NEW j \in Jobs,
         WorkerStep(j) \/ WorkError(j) \/ ReclaimJobs \/ Lapse
  PROVE  TypeOK' /\ WorkOut' /\ ConsMsg'
<1> USE DEF BInv, TypeOK, WorkOut, ConsMsg, Busy, brokerVars, markVars,
            procVars, NoWork, Work, NoToken, NoResult
<1>1. CASE StartJob(j)
  <2>1. work' \in [Jobs -> Work] /\ WorkOut'
    BY <1>1 DEF StartJob, StoreTypeOK
  <2> QED BY <1>1, <2>1 DEF StartJob
<1>2. CASE StoreJob(j)
  <2>1. ASSUME work' = [work EXCEPT ![j] = NoWork]
        PROVE  work' \in [Jobs -> Work] /\ WorkOut'
    BY <2>1
  <2>2. ASSUME NEW s \in {"completed", "failed"},
               work' = [work EXCEPT ![j].pc = "stored", ![j].out = s, ![j].req = TRUE]
        PROVE  work' \in [Jobs -> Work] /\ WorkOut'
    <3>1. s \in Terminal
      BY DEF Terminal
    <3>2. work'[j].out = s /\ \A k \in Jobs : k # j => work'[k] = work[k]
      BY <2>2
    <3>3. [work[j] EXCEPT !.pc = "stored", !.out = s, !.req = TRUE] \in Work
      BY <3>1
    <3>4. work' = [work EXCEPT ![j] =
                     [work[j] EXCEPT !.pc = "stored", !.out = s, !.req = TRUE]]
      BY <2>2
    <3>5. work' \in [Jobs -> Work]
      BY <3>3, <3>4
    <3> QED BY <3>1, <3>2, <3>5
  <2>3. work' \in [Jobs -> Work] /\ WorkOut'
    BY <1>2, <2>1, <2>2 DEF StoreJob
  <2> QED BY <1>2, <2>3 DEF StoreJob
<1>3. CASE DeliverJob(j)
  <2>1. work' \in [Jobs -> Work] /\ WorkOut'
    BY <1>3 DEF DeliverJob
  <2>2. pubs' \subseteq Publication
    BY <1>3 DEF DeliverJob, Publication, Publish
  <2> QED BY <1>3, <2>1, <2>2 DEF DeliverJob
<1>4. CASE ReclaimJobs \/ Lapse
  BY <1>4 DEF ReclaimJobs, Lapse
<1>5. CASE FailRecheck(j)
  <2>1. work' \in [Jobs -> Work] /\ WorkOut'
    BY <1>5 DEF FailRecheck
  <2> QED BY <1>5, <2>1 DEF FailRecheck
<1>6. CASE FailStore(j)
  <2>1. work' \in [Jobs -> Work] /\ WorkOut'
    BY <1>6 DEF FailStore, Terminal
  <2>2. disowned' \subseteq Jobs
    BY <1>6 DEF FailStore
  <2> QED BY <1>6, <2>1, <2>2 DEF FailStore
<1>7. CASE WorkError(j)
  <2>1. PICK w \in Work : w.pc \in {"idle", "failing"} /\ work' = [work EXCEPT ![j] = w]
    <3>1. NoWork \in Work /\ [NoWork EXCEPT !.pc = "failing"] \in Work
      OBVIOUS
    <3>2. ASSUME NEW req \in BOOLEAN
          PROVE  [work[j] EXCEPT !.pc = "failing", !.req = req] \in Work
      OBVIOUS
    <3>3. [work[j] EXCEPT !.pc = "failing"] \in Work
      OBVIOUS
    <3>4. CASE work' = [work EXCEPT ![j] = NoWork]
      BY <3>1, <3>4
    <3>5. CASE work' = [work EXCEPT ![j] = [NoWork EXCEPT !.pc = "failing"]]
      BY <3>1, <3>5
    <3>6. ASSUME NEW req \in BOOLEAN,
                 work' = [work EXCEPT ![j].pc = "failing", ![j].req = req]
          PROVE  \E w \in Work : /\ w.pc \in {"idle", "failing"}
                                 /\ work' = [work EXCEPT ![j] = w]
      BY <3>2, <3>6
    <3>7. CASE work' = [work EXCEPT ![j].pc = "failing"]
      BY <3>3, <3>7
    <3> QED BY <1>7, <3>4, <3>5, <3>6, <3>7 DEF WorkError
  <2>2. work' \in [Jobs -> Work] /\ WorkOut'
    BY <2>1
  <2>3. budget' \in Nat /\ owed' \in BOOLEAN
    BY <1>7, ErrorTypes DEF WorkError
  <2> QED BY <1>7, <2>2, <2>3 DEF WorkError
<1> QED
  BY <1>1, <1>2, <1>3, <1>4, <1>5, <1>6, <1>7 DEF WorkerStep

\* Publishing a result that was on its way.
LEMMA PublicationTypes ==
  ASSUME NEW p \in Publication
  PROVE  /\ <<p.job, p.result>> \in Jobs \X Terminal
         /\ [p EXCEPT !.pc = "mark"] \in Publication
  BY DEF Publication

LEMMA EgressTypes ==
  ASSUME BInv, StoreTypeOK', NEW p \in pubs,
         Produce(p) \/ Mark(p) \/ PublishError(p)
  PROVE  TypeOK' /\ WorkOut' /\ ConsMsg'
<1> USE DEF BInv, TypeOK, WorkOut, ConsMsg, Busy, brokerVars, markVars
<1>1. p \in Publication
  OBVIOUS
<1>2. CASE Produce(p)
  <2>1. replies' \subseteq Jobs \X Terminal /\ pubs' \subseteq Publication
    BY <1>1, <1>2, PublicationTypes DEF Produce, Produced
  <2> QED BY <1>2, <2>1 DEF Produce
<1>3. CASE Mark(p)
  BY <1>3 DEF Mark
<1>4. CASE PublishError(p)
  <2>1. budget' \in Nat /\ owed' \in BOOLEAN
    BY <1>4, ErrorTypes DEF PublishError
  <2> QED BY <1>4, <2>1 DEF PublishError
<1> QED
  BY <1>2, <1>3, <1>4

\* A row that waits in the outbox has a result.
LEMMA UnpublishedResult ==
  ASSUME BInv, NEW j \in Unpublished
  PROVE  j \in Jobs /\ rows[j].result \in Terminal
  BY DEF BInv, TypeOK, StoreTypeOK, Unpublished, Row

LEMMA DrainTypes ==
  ASSUME BInv, StoreTypeOK',
         \/ Drain \/ DrainError
         \/ \E p \in outbox.todo : OutboxError(p)
  PROVE  TypeOK' /\ WorkOut' /\ ConsMsg'
<1> USE DEF BInv, TypeOK, WorkOut, ConsMsg, Busy, brokerVars, markVars, Pass,
            NoPass
<1>1. CASE OutboxList
  <2>1. outbox' \in Pass
    <3>1. PICK S \in SUBSET Unpublished :
            outbox' = [pc |-> "emit",
                       todo |-> {Publish(j, rows[j].result) : j \in S},
                       full |-> Cardinality(S) = Batch,
                       removed |-> FALSE]
      BY <1>1 DEF OutboxList
    <3>2. {Publish(j, rows[j].result) : j \in S} \in SUBSET Publication
      BY UnpublishedResult DEF Publish, Publication
    <3>3. (Cardinality(S) = Batch) \in BOOLEAN
      OBVIOUS
    <3> QED BY <3>1, <3>2, <3>3
  <2> QED BY <1>1, <2>1 DEF OutboxList
<1>2. CASE OutboxDone
  BY <1>2 DEF OutboxDone, DrainDone
<1>3. CASE OutboxNextPass
  BY <1>3 DEF OutboxNextPass
<1>4. CASE Recover
  BY <1>4 DEF Recover
<1>5. CASE DrainError
  <2>1. budget' \in Nat /\ owed' \in BOOLEAN
    BY <1>5, ErrorTypes DEF DrainError
  <2> QED BY <1>5, <2>1 DEF DrainError, DrainDone
<1>6. ASSUME NEW p \in outbox.todo, OutboxProduce(p)
      PROVE  TypeOK' /\ WorkOut' /\ ConsMsg'
  <2>1. p \in Publication
    OBVIOUS
  <2>2. replies' \subseteq Jobs \X Terminal
    BY <1>6, <2>1, PublicationTypes DEF OutboxProduce, Produced
  <2>3. (outbox.todo \ {p}) \cup {[p EXCEPT !.pc = "mark"]}
          \in SUBSET Publication
    BY <2>1, PublicationTypes
  <2>4. outbox' \in Pass
    BY <1>6, <2>3 DEF OutboxProduce
  <2> QED BY <1>6, <2>2, <2>4 DEF OutboxProduce
<1>7. ASSUME NEW p \in outbox.todo, OutboxMark(p)
      PROVE  TypeOK' /\ WorkOut' /\ ConsMsg'
  <2>1. outbox' \in Pass
    BY <1>7 DEF OutboxMark
  <2> QED BY <1>7, <2>1 DEF OutboxMark
<1>8. ASSUME NEW p \in outbox.todo, OutboxError(p)
      PROVE  TypeOK' /\ WorkOut' /\ ConsMsg'
  <2>1. budget' \in Nat /\ owed' \in BOOLEAN
    BY <1>8, ErrorTypes DEF OutboxError
  <2>2. outbox' \in Pass
    BY <1>8 DEF OutboxError
  <2> QED BY <1>8, <2>1, <2>2 DEF OutboxError
<1> QED
  BY <1>1, <1>2, <1>3, <1>4, <1>5, <1>6, <1>7, <1>8 DEF Drain

LEMMA ClientTypes ==
  ASSUME BInv, StoreTypeOK',
         \/ Stop \/ Start
         \/ \E j \in Jobs : \/ CancelStatus(j) \/ CancelResult(j)
                            \/ RequeueJob(j) \/ RemoveJob(j)
  PROVE  TypeOK' /\ WorkOut' /\ ConsMsg'
<1> USE DEF BInv, TypeOK, WorkOut, ConsMsg, Busy, brokerVars, markVars,
            procVars
<1>1. ASSUME NEW j \in Jobs, CancelStatus(j)
      PROVE  TypeOK' /\ WorkOut' /\ ConsMsg'
  BY <1>1, CallTypes DEF CancelStatus
<1>2. ASSUME NEW j \in Jobs, CancelResult(j)
      PROVE  TypeOK' /\ WorkOut' /\ ConsMsg'
  BY <1>2 DEF CancelResult
<1>3. ASSUME NEW j \in Jobs, RequeueJob(j)
      PROVE  TypeOK' /\ WorkOut' /\ ConsMsg'
  BY <1>3, CallTypes DEF RequeueJob
<1>4. ASSUME NEW j \in Jobs, RemoveJob(j)
      PROVE  TypeOK' /\ WorkOut' /\ ConsMsg'
  BY <1>4, CallTypes DEF RemoveJob
<1>5. CASE Stop
  <2>1. work' \in [Jobs -> Work] /\ WorkOut'
    BY <1>5 DEF Stop, NoWork, Work, NoToken, NoResult
  <2>2. cons' \in Consumer /\ ConsMsg'
    BY <1>5 DEF Stop, Consumer, Polling
  <2>3. outbox' \in Pass
    BY <1>5 DEF Stop, Pass, NoPass
  <2>4. fetched' \subseteq Log /\ budget' \in Nat
    BY <1>5 DEF Stop
  <2> QED BY <1>5, <2>1, <2>2, <2>3, <2>4 DEF Stop
<1>6. CASE Start
  BY <1>6 DEF Start
<1> QED
  BY <1>1, <1>2, <1>3, <1>4, <1>5, <1>6

LEMMA BInvStep == BInv /\ [Next]_vars => BInv'
<1> SUFFICES ASSUME BInv, [Next]_vars PROVE BInv'
  OBVIOUS
<1>1. StoreInv' /\ StoreTypeOK'
  BY StoreInvStep DEF StoreInv
<1>2. CASE UNCHANGED vars
  BY <1>1, <1>2
  DEF vars, BInv, TypeOK, WorkOut, ConsMsg, Busy, brokerVars, markVars,
      procVars
<1>3. SUFFICES ASSUME Next PROVE TypeOK' /\ WorkOut' /\ ConsMsg'
  BY <1>1, <1>2 DEF BInv
<1>4. CASE Ingress \/ HandleError \/ ConnectionLost
  BY <1>1, <1>4, IngressTypes
<1>5. ASSUME NEW j \in Jobs, WorkerStep(j) \/ WorkError(j)
      PROVE  TypeOK' /\ WorkOut' /\ ConsMsg'
  BY <1>1, <1>5, WorkTypes
<1>6. CASE ReclaimJobs \/ Lapse
  <2>1. PICK j \in Jobs : TRUE
    BY <1>6 DEF ReclaimJobs, Lapse
  <2> QED BY <1>1, <1>6, WorkTypes
<1>7. ASSUME NEW p \in pubs, Produce(p) \/ Mark(p) \/ PublishError(p)
      PROVE  TypeOK' /\ WorkOut' /\ ConsMsg'
  BY <1>1, <1>7, EgressTypes
<1>8. CASE Drain \/ DrainError \/ \E p \in outbox.todo : OutboxError(p)
  BY <1>1, <1>8, DrainTypes
<1>9. ASSUME NEW j \in Jobs,
             \/ CancelStatus(j) \/ CancelResult(j)
             \/ RequeueJob(j) \/ RemoveJob(j)
      PROVE  TypeOK' /\ WorkOut' /\ ConsMsg'
  BY <1>1, <1>9, ClientTypes
<1>10. CASE Stop \/ Start
  BY <1>1, <1>10, ClientTypes
<1> QED
  BY <1>3, <1>4, <1>5, <1>6, <1>7, <1>8, <1>9, <1>10 DEF Next, Egress

\* The bridge, its worker and its clients, on any transport and across crashes,
\* make only the steps the job table's specification allows, so StoreInvariant
\* holds of them.
THEOREM BridgeImplementsStore == Spec => StoreSpec
<1>1. Init => StoreInit
  BY DEF Init
<1>2. BInv /\ [Next]_vars => [StoreNext]_storeVars
  BY StepAllowed
<1> QED
  BY InitBInv, BInvStep, <1>1, <1>2, PTL DEF Spec, StoreSpec

\* Every variable of the bridge keeps its type; in particular only terminal
\* results are ever published.
THEOREM BridgeTypes == Spec => []TypeOK
<1>1. BInv => TypeOK
  BY DEF BInv
<1> QED
  BY InitBInv, BInvStep, <1>1, PTL DEF Spec

\* Every other action leaves the consumer and the broker alone.
LEMMA WhoConsumes ==
  ASSUME [Next]_vars
  PROVE  \/ Ingress \/ HandleError \/ ConnectionLost \/ Stop
         \/ UNCHANGED <<brokerVars, cons>>
<1>1. ASSUME NEW j \in Jobs,
             \/ WorkerStep(j) \/ WorkError(j) \/ Egress(j)
             \/ CancelStatus(j) \/ CancelResult(j) \/ RequeueJob(j) \/ RemoveJob(j)
      PROVE  UNCHANGED <<brokerVars, cons>>
  BY <1>1
  DEF WorkerStep, StartJob, StoreJob, DeliverJob, FailRecheck, FailStore,
      WorkError, Egress, Produce, Mark, CancelStatus, CancelResult, RequeueJob,
      RemoveJob, brokerVars, procVars
<1>2. CASE Drain \/ DrainError
  BY <1>2
  DEF Drain, OutboxList, OutboxDone, OutboxNextPass, OutboxProduce,
      OutboxMark, Recover, DrainError, brokerVars
<1>3. CASE \/ ReclaimJobs \/ Lapse \/ Start \/ UNCHANGED vars
           \/ \E p \in pubs : PublishError(p)
           \/ \E p \in outbox.todo : OutboxError(p)
  BY <1>3
  DEF ReclaimJobs, Lapse, Start, vars, PublishError, OutboxError, brokerVars,
      procVars
<1> QED
  BY <1>1, <1>2, <1>3 DEF Next

-----------------------------------------------------------------------------
(* No message is lost.                                                     *)

\* A failing store call leaves a message behind that Kafka will not repeat.
NoSkips == "store_error" \notin FaultKinds["kafka"]

Handled(m) == Poison(m) \/ Known(m)

\* What the consumer has got through with can be acknowledged, and on Kafka,
\* where acknowledging a message covers those before it, so can they: what was
\* fetched was fetched in order, and all of it but the message in hand has been
\* handled.
ConsHandled == cons.pc \in {"enqueued", "accept", "reject"} => Handled(cons.msg)
FetchedInOrder ==
  \A m \in fetched, k \in Log : k < m => k \in fetched \/ k \notin unacked
FetchedHandled ==
  \A m \in fetched : Handled(m) \/ (cons.pc = "parsed" /\ m = cons.msg)
KafkaInv ==
  transport = "kafka"
    => /\ Busy => cons.msg \in fetched
       /\ FetchedInOrder
       /\ FetchedHandled

LInv == BInv /\ NothingLost /\ ConsHandled /\ KafkaInv

\* A job that was ever enqueued stays known.
LEMMA KnownForever ==
  ASSUME StoreTypeOK, [StoreNext]_storeVars,
         NEW j \in Jobs, rows[j].status # "new"
  PROVE  rows'[j].status # "new"
<1>0. rows \in [Jobs -> Row] /\ rows[j] \in Row
  BY DEF StoreTypeOK
<1> USE DEF Row
<1>1. ASSUME NEW k \in Jobs, JobOp(k)
      PROVE  rows'[j].status # "new"
  <2>1. CASE \/ Enqueue(k) \/ Claim(k)
             \/ \E t \in 1 .. nextToken - 1 : Heartbeat(k, t)
    BY <1>0, <2>1 DEF Enqueue, Claim, Heartbeat, Absent
  <2>2. CASE \/ UpdateStatus(k, "cancelled")
             \/ Requeue(k, {"failed", "cancelled"})
             \/ MarkPublished(k)
    BY <1>0, <2>2 DEF UpdateStatus, Requeue, MarkPublished
  <2>3. ASSUME NEW s \in {"completed", "failed", "cancelled"},
               rows' = WithResult(k, s)
        PROVE  rows'[j].status # "new"
    BY <1>0, <2>3 DEF WithResult
  <2>4. ASSUME NEW t \in 1 .. nextToken - 1,
               NEW s \in {"completed", "failed"}, SetResultOwned(k, t, s)
        PROVE  rows'[j].status # "new"
    BY <2>3, <2>4 DEF SetResultOwned
  <2>5. ASSUME NEW s \in {"failed", "cancelled"}, SetResult(k, s)
        PROVE  rows'[j].status # "new"
    BY <2>3, <2>5 DEF SetResult
  <2> QED BY <1>1, <2>1, <2>2, <2>4, <2>5 DEF JobOp
<1>2. ASSUME NEW S \in SUBSET Jobs, Reclaim(S) \/ Delete(S)
      PROVE  rows'[j].status # "new"
  <2>1. CASE Reclaim(S)
    BY <1>0, <2>1 DEF Reclaim, ReclaimRows
  <2>2. CASE Delete(S)
    BY <2>2 DEF Delete, Absent
  <2> QED BY <1>2, <2>1, <2>2
<1>3. CASE Tick
  <2> DEFINE delay == IF rows[j].delay > 0 THEN rows[j].delay - 1 ELSE 0
             lease == IF rows[j].lease > Lapsed THEN rows[j].lease - 1
                      ELSE Lapsed
  <2>1. rows'[j] = [rows[j] EXCEPT !.delay = delay, !.lease = lease]
    BY <1>0, <1>3 DEF Tick
  <2> HIDE DEF delay, lease
  <2> QED BY <1>0, <2>1
<1>4. CASE UNCHANGED storeVars
  BY <1>4 DEF storeVars
<1> QED
  BY <1>1, <1>2, <1>3, <1>4 DEF StoreNext

LEMMA HandledForever ==
  ASSUME BInv, [Next]_vars, NEW m \in Log, Handled(m)
  PROVE  Handled(m)'
<1>1. ASSUME NEW j \in Jobs, rows[j].status # "new"
      PROVE  rows'[j].status # "new"
  BY <1>1, KnownForever, StepAllowed DEF BInv, StoreInv
<1> QED
  BY <1>1 DEF Handled, Poison, Known, JobsOf

LEMMA InitLInv == Init => LInv
<1> SUFFICES ASSUME Init PROVE LInv
  OBVIOUS
<1>1. BInv
  BY InitBInv
<1>2. NothingLost /\ ConsHandled /\ KafkaInv
  BY DEF Init, NothingLost, ConsHandled, KafkaInv, FetchedInOrder,
         FetchedHandled, Polling, Busy
<1> QED
  BY <1>1, <1>2 DEF LInv

\* Steps of others preserve it.
LEMMA ElsewhereStep ==
  ASSUME LInv, [Next]_vars, UNCHANGED <<brokerVars, cons>>
  PROVE  NothingLost' /\ ConsHandled' /\ KafkaInv'
<1> USE DEF brokerVars
<1>1. \A m \in Log : Handled(m) => Handled(m)'
  BY HandledForever DEF LInv
<1>2. fetched \subseteq Log /\ (Busy => cons.msg \in Log)
  BY DEF LInv, BInv, TypeOK, ConsMsg
<1>3. NothingLost'
  BY <1>1 DEF LInv, NothingLost, Handled, Poison
<1>4. ConsHandled'
  BY <1>1, <1>2 DEF LInv, ConsHandled, Busy
<1>5. KafkaInv'
  BY <1>1, <1>2 DEF LInv, KafkaInv, FetchedInOrder, FetchedHandled, Busy
<1> QED
  BY <1>3, <1>4, <1>5

\* The consumer's own steps do, and a stop.
LEMMA ConsumerStep ==
  ASSUME NoSkips, LInv, Ingress \/ HandleError \/ ConnectionLost \/ Stop
  PROVE  NothingLost' /\ ConsHandled' /\ KafkaInv'
<1>0. /\ \A m \in Log : Handled(m) => Handled(m)'
      /\ fetched \subseteq Log /\ unacked \subseteq Log
      /\ Busy => cons.msg \in Log
      /\ NothingLost /\ ConsHandled /\ KafkaInv
  BY HandledForever DEF LInv, BInv, TypeOK, ConsMsg, Next
<1>1. ASSUME NEW m \in Log, Poll(m)
      PROVE  NothingLost' /\ ConsHandled' /\ KafkaInv'
  <2>1. NothingLost'
    BY <1>0, <1>1 DEF Poll, NothingLost, Handled, Poison
  <2>2. cons'.msg = m /\ cons'.pc = (IF Poison(m) THEN "reject" ELSE "parsed")
    BY <1>1 DEF Poll, Polling
  <2>3. ConsHandled'
    BY <2>2 DEF ConsHandled, Handled, Poison
  <2>4. KafkaInv'
    <3> SUFFICES ASSUME transport = "kafka"
                 PROVE  /\ cons'.msg \in fetched'
                        /\ FetchedInOrder'
                        /\ FetchedHandled'
      BY <1>1 DEF Poll, KafkaInv
    <3>1. FetchedInOrder'
      BY <1>0, <1>1 DEF Poll, Upcoming, IsFirst, KafkaInv, FetchedInOrder, Log
    <3>2. ASSUME NEW k \in fetched
          PROVE  Handled(k)'
      BY <1>0, <1>1, <3>2 DEF Poll, KafkaInv, FetchedHandled
    <3>3. Poison(m) => Handled(m)'
      BY DEF Handled, Poison
    <3> QED BY <1>1, <2>2, <3>1, <3>2, <3>3 DEF Poll, FetchedHandled
  <2> QED BY <2>1, <2>3, <2>4
<1>2. CASE EnqueueMsg
  <2>1. cons.msg \in Log /\ cons'.pc = "enqueued" /\ cons'.msg = cons.msg
    BY <1>0, <1>2 DEF EnqueueMsg, Busy, LInv, BInv, TypeOK, Consumer
  <2>2. Handled(cons.msg)'
    <3>1. PICK j \in Jobs : /\ Corr[j] = MsgKey[cons.msg]
                            /\ (Exists(j) /\ UNCHANGED storeVars) \/ Enqueue(j)
      BY <1>2 DEF EnqueueMsg
    <3>2. rows'[j].status # "new"
      BY <3>1 DEF Exists, JobStatus, Terminal, storeVars, Enqueue, Absent,
                  LInv, BInv, TypeOK, StoreTypeOK
    <3> QED BY <2>1, <3>1, <3>2 DEF Handled, Known, JobsOf
  <2>3. UNCHANGED <<transport, unacked, fetched>>
    BY <1>2 DEF EnqueueMsg, brokerVars
  <2>4. NothingLost'
    BY <1>0, <2>3 DEF NothingLost, Handled, Poison
  <2>5. KafkaInv'
    BY <1>0, <1>2, <2>1, <2>2, <2>3
    DEF EnqueueMsg, KafkaInv, FetchedInOrder, FetchedHandled, Busy
  <2> QED BY <2>1, <2>2, <2>4, <2>5 DEF ConsHandled
<1>3. CASE CheckRow
  <2>1. /\ cons.pc = "enqueued" /\ cons'.msg = cons.msg
        /\ cons'.pc \in {"accept", "reject"}
        /\ UNCHANGED <<transport, unacked, fetched>>
    BY <1>3 DEF CheckRow, brokerVars, LInv, BInv, TypeOK, Consumer
  <2>2. NothingLost'
    BY <1>0, <2>1 DEF NothingLost, Handled, Poison
  <2>3. ConsHandled'
    BY <1>0, <2>1 DEF ConsHandled, Busy
  <2>4. KafkaInv'
    BY <1>0, <2>1 DEF KafkaInv, FetchedInOrder, FetchedHandled, Busy
  <2> QED BY <2>2, <2>3, <2>4
<1>4. CASE Ack \/ Nack
  <2>1. /\ cons.pc \in {"accept", "reject"} /\ cons' = Polling
        /\ Dispose(cons.msg)
        /\ UNCHANGED <<transport, fetched>>
    BY <1>4 DEF Ack, Nack
  <2>2. cons.msg \in Log /\ Handled(cons.msg)
    BY <1>0, <2>1 DEF Busy, ConsHandled
  <2>3. ASSUME NEW m \in Log, m \notin unacked'
        PROVE  Handled(m)'
    <3>1. CASE m \notin unacked
      BY <1>0, <3>1 DEF NothingLost, Handled
    <3>2. CASE m \in unacked /\ transport # "kafka"
      BY <1>0, <2>1, <2>2, <2>3, <3>2 DEF Dispose
    <3>3. CASE m \in unacked /\ transport = "kafka"
      <4>1. m =< cons.msg
        BY <2>1, <2>3, <3>3 DEF Dispose
      <4>2. m \in fetched
        BY <1>0, <2>1, <2>2, <3>3, <4>1
        DEF KafkaInv, FetchedInOrder, Busy, Log
      <4> QED BY <1>0, <2>1, <3>3, <4>2 DEF KafkaInv, FetchedHandled
    <3> QED BY <3>1, <3>2, <3>3
  <2>4. NothingLost'
    BY <2>3 DEF NothingLost, Handled, Poison
  <2>5. KafkaInv'
    BY <1>0, <2>1
    DEF KafkaInv, FetchedInOrder, FetchedHandled, Busy, Polling, Dispose
  <2> QED BY <2>1, <2>4, <2>5 DEF ConsHandled, Polling
<1>5. CASE HandleError
  <2>1. cons' = Polling /\ UNCHANGED <<transport, unacked, fetched>>
    BY <1>5 DEF HandleError
  <2>2. NothingLost'
    BY <1>0, <2>1 DEF NothingLost, Handled, Poison
  <2>3. transport = "kafka" => cons.pc # "parsed"
    BY <1>5 DEF HandleError, Error, NoSkips
  <2>4. KafkaInv'
    BY <1>0, <2>1, <2>3
    DEF KafkaInv, FetchedInOrder, FetchedHandled, Busy, Polling
  <2> QED BY <2>1, <2>2, <2>4 DEF ConsHandled, Polling
<1>6. CASE ConnectionLost
  <2>1. /\ cons'.pc = "lost" /\ transport = "rabbitmq"
        /\ UNCHANGED <<transport, unacked>>
    BY <1>6 DEF ConnectionLost, LInv, BInv, TypeOK, Consumer
  <2>2. NothingLost'
    BY <1>0, <2>1 DEF NothingLost, Handled, Poison
  <2> QED BY <2>1, <2>2 DEF ConsHandled, KafkaInv
<1>7. CASE Stop
  <2>1. /\ cons' = Polling /\ UNCHANGED <<transport, unacked>>
        /\ transport = "kafka" => fetched' = {}
    BY <1>7 DEF Stop
  <2>2. NothingLost'
    BY <1>0, <2>1 DEF NothingLost, Handled, Poison
  <2> QED
    BY <2>1, <2>2
    DEF ConsHandled, KafkaInv, FetchedInOrder, FetchedHandled, Busy, Polling
<1> QED
  BY <1>1, <1>2, <1>3, <1>4, <1>5, <1>6, <1>7 DEF Ingress

\* A valid message that the broker will not deliver again has become a job,
\* on any transport and across crashes between enqueue and acknowledgement,
\* as long as no store call fails on Kafka.
THEOREM NoMessageLost == NoSkips => (Spec => []NothingLost)
<1> SUFFICES ASSUME NoSkips PROVE Spec => []NothingLost
  OBVIOUS
<1>1. LInv /\ [Next]_vars => LInv'
  <2> SUFFICES ASSUME LInv, [Next]_vars PROVE LInv'
    OBVIOUS
  <2>1. BInv'
    BY BInvStep DEF LInv
  <2> QED BY <2>1, WhoConsumes, ElsewhereStep, ConsumerStep DEF LInv
<1>2. LInv => NothingLost
  BY DEF LInv
<1> QED
  BY InitLInv, <1>1, <1>2, PTL DEF Spec

-----------------------------------------------------------------------------
(* Nothing but poison is dead-lettered.                                    *)

\* The reason for which a message may be rejected.
Rejectable(m) == Poison(m) \/ \E j \in JobsOf(m) : rows[j].status = "deleted"

\* The consumer holds the job of its message, which exists or is deleted, and
\* rejects for a reason.
JobInHand ==
  /\ cons.pc = "enqueued"
       => cons.job \in JobsOf(cons.msg) /\ rows[cons.job].status # "new"
  /\ cons.pc = "reject" => Rejectable(cons.msg)

DInv == BInv /\ OnlyPoisonDeadLettered /\ JobInHand

\* A deleted job's id is never used again.
LEMMA DeletedForever ==
  ASSUME StoreTypeOK, [StoreNext]_storeVars,
         NEW j \in Jobs, rows[j].status = "deleted"
  PROVE  rows'[j].status = "deleted"
<1>0. /\ rows \in [Jobs -> Row] /\ rows[j] \in Row /\ ~Exists(j)
      /\ rows[j].status \notin {"new", "queued", "processing", "failed",
                                "cancelled"}
  BY DEF StoreTypeOK, Exists, JobStatus, Terminal
<1>1. ASSUME NEW k \in Jobs, JobOp(k)
      PROVE  rows'[j] = rows[j]
  <2>1. CASE k = j
    <3>1. \A t \in 1 .. nextToken - 1 :
            ~Heartbeat(k, t) /\ \A s : ~SetResultOwned(k, t, s)
      BY <1>0, <2>1 DEF Heartbeat, SetResultOwned, Owns
    <3>2. ~Enqueue(k) /\ ~Claim(k) /\ ~Requeue(k, {"failed", "cancelled"})
      BY <1>0, <2>1 DEF Enqueue, Claim, Claimable, Requeue
    <3> QED
      BY <1>0, <1>1, <2>1, <3>1, <3>2
      DEF JobOp, UpdateStatus, SetResult, MarkPublished
  <2>2. CASE k # j
    BY <1>0, <1>1, <2>2
    DEF JobOp, Enqueue, Claim, Heartbeat, SetResultOwned, UpdateStatus,
        SetResult, Requeue, MarkPublished, WithResult
  <2> QED BY <2>1, <2>2
<1>2. ASSUME NEW S \in SUBSET Jobs, Reclaim(S) \/ Delete(S)
      PROVE  rows'[j] = rows[j]
  <2>1. j \notin S
    BY <1>0, <1>2 DEF Reclaim, Stale, Delete
  <2> QED BY <1>2, <2>1 DEF Reclaim, ReclaimRows, Delete
<1>3. CASE Tick
  <2> DEFINE delay == IF rows[j].delay > 0 THEN rows[j].delay - 1 ELSE 0
             lease == IF rows[j].lease > Lapsed THEN rows[j].lease - 1
                      ELSE Lapsed
  <2>1. rows'[j] = [rows[j] EXCEPT !.delay = delay, !.lease = lease]
    BY <1>0, <1>3 DEF Tick
  <2> HIDE DEF delay, lease
  <2> QED BY <1>0, <2>1 DEF Row
<1>4. CASE UNCHANGED storeVars
  BY <1>4 DEF storeVars
<1> QED
  BY <1>1, <1>2, <1>3, <1>4 DEF StoreNext

LEMMA InitDInv == Init => DInv
<1> SUFFICES ASSUME Init PROVE DInv
  OBVIOUS
<1>1. BInv
  BY InitBInv
<1>2. OnlyPoisonDeadLettered /\ JobInHand
  BY DEF Init, OnlyPoisonDeadLettered, JobInHand, Polling
<1> QED
  BY <1>1, <1>2 DEF DInv

LEMMA DInvStep ==
  ASSUME GetHasKey, DInv, [Next]_vars
  PROVE  OnlyPoisonDeadLettered' /\ JobInHand'
<1>0. /\ StoreTypeOK /\ [StoreNext]_storeVars
      /\ dead \subseteq Log /\ cons \in Consumer
      /\ Busy => cons.msg \in Log
      /\ \A m \in dead : Rejectable(m)
      /\ JobInHand
  BY StepAllowed
  DEF DInv, BInv, TypeOK, ConsMsg, OnlyPoisonDeadLettered, Rejectable
<1>1. ASSUME NEW m \in Log, Rejectable(m)
      PROVE  Rejectable(m)'
  BY <1>0, <1>1, DeletedForever DEF Rejectable, Poison, JobsOf
<1>2. ASSUME \A m \in dead' : m \in dead \/ (cons.pc = "reject" /\ m = cons.msg)
      PROVE  OnlyPoisonDeadLettered'
  <2>1. ASSUME NEW m \in dead'
        PROVE  m \in Log /\ Rejectable(m)
    BY <1>0, <1>2, <2>1 DEF JobInHand, Busy
  <2> QED BY <1>1, <2>1 DEF OnlyPoisonDeadLettered, Rejectable
<1>3. CASE UNCHANGED <<dead, cons>>
  <2>1. ASSUME cons.pc = "enqueued", cons.job \in JobsOf(cons.msg),
               rows[cons.job].status # "new"
        PROVE  rows'[cons.job].status # "new"
    BY <1>0, <2>1, KnownForever DEF JobsOf
  <2>2. JobInHand'
    BY <1>0, <1>1, <1>3, <2>1 DEF JobInHand, JobsOf, Busy
  <2> QED BY <1>2, <1>3, <2>2
<1>4. ASSUME NEW m \in Log, Poll(m)
      PROVE  OnlyPoisonDeadLettered' /\ JobInHand'
  <2>1. dead' = dead /\ cons'.msg = m
        /\ cons'.pc = (IF Poison(m) THEN "reject" ELSE "parsed")
    BY <1>4 DEF Poll, Polling
  <2>2. JobInHand'
    BY <2>1 DEF JobInHand, Rejectable, Poison
  <2> QED BY <1>2, <2>1, <2>2
<1>5. CASE EnqueueMsg
  <2>1. PICK j \in Jobs :
          /\ Corr[j] = MsgKey[cons.msg]
          /\ (Exists(j) /\ UNCHANGED storeVars) \/ Enqueue(j)
          /\ cons' = [cons EXCEPT !.pc = "enqueued", !.job = j]
    BY <1>5 DEF EnqueueMsg
  <2>2. cons'.pc = "enqueued" /\ cons'.msg = cons.msg /\ cons'.job = j
    BY <1>0, <2>1 DEF Consumer
  <2>3. rows'[j].status # "new"
    BY <1>0, <2>1 DEF Exists, JobStatus, Terminal, storeVars, Enqueue, Absent,
                      StoreTypeOK
  <2>4. JobInHand'
    BY <2>1, <2>2, <2>3 DEF JobInHand, JobsOf
  <2>5. dead' = dead
    BY <1>5 DEF EnqueueMsg, brokerVars
  <2> QED BY <1>2, <2>4, <2>5
<1>6. CASE CheckRow
  <2>1. /\ cons.pc = "enqueued" /\ cons'.msg = cons.msg
        /\ cons'.pc = (IF Exists(cons.job) THEN "accept" ELSE "reject")
        /\ dead' = dead /\ rows' = rows
    BY <1>0, <1>6 DEF CheckRow, brokerVars, storeVars, Consumer
  <2>2. ~Exists(cons.job) => Rejectable(cons.msg)
    <3> SUFFICES ASSUME ~Exists(cons.job) PROVE Rejectable(cons.msg)
      OBVIOUS
    <3>1. cons.job \in JobsOf(cons.msg) /\ rows[cons.job].status # "new"
      BY <1>0, <2>1 DEF JobInHand
    <3>2. rows[cons.job].status \in RowStatus
      BY <1>0, <3>1 DEF JobsOf, StoreTypeOK, Row
    <3> QED BY <3>1, <3>2 DEF Rejectable, Exists, RowStatus
  <2>3. JobInHand'
    BY <2>1, <2>2 DEF JobInHand, Rejectable, Poison, JobsOf
  <2> QED BY <1>2, <2>1, <2>3
<1>7. CASE Ack \/ Nack \/ HandleError \/ ConnectionLost \/ Stop
  <2>1. /\ cons'.pc \in {"poll", "lost"}
        /\ \A m \in dead' : m \in dead \/ (cons.pc = "reject" /\ m = cons.msg)
    BY <1>0, <1>7 DEF Ack, Nack, HandleError, ConnectionLost, Stop, Polling,
                      Consumer
  <2> QED BY <1>2, <2>1 DEF JobInHand
<1> QED
  BY <1>3, <1>4, <1>5, <1>6, <1>7, WhoConsumes DEF Ingress, brokerVars

\* On a store whose get returns the correlation id, only poison is
\* dead-lettered, or a message whose job was deleted while it was handled.
THEOREM DeadLettersArePoison ==
  GetHasKey => (Spec => []OnlyPoisonDeadLettered)
<1> SUFFICES ASSUME GetHasKey PROVE Spec => []OnlyPoisonDeadLettered
  OBVIOUS
<1>1. DInv /\ [Next]_vars => DInv'
  BY BInvStep, DInvStep DEF DInv
<1>2. DInv => OnlyPoisonDeadLettered
  BY DEF DInv
<1> QED
  BY InitDInv, <1>1, <1>2, PTL DEF Spec

-----------------------------------------------------------------------------
(* One answer, and the outbox flag.                                        *)

Live == {"new", "queued", "processing"}

\* r is the result of j somewhere: in the table, in the hands of the worker, of
\* a publisher or of the drain, or with whoever waits for it.
Says(j, r) ==
  \/ <<j, r>> \in replies
  \/ \E p \in pubs \cup outbox.todo : p.job = j /\ p.result = r
  \/ work[j].pc \in {"stored", "failed"} /\ work[j].req /\ work[j].out = r
  \/ rows[j].status \in Terminal /\ rows[j].result = r

\* A job that no client cancelled or requeued has one result, and none before it
\* is stored.  Beside it there may be the failure that the table refused, but
\* not if the table itself says that the job failed.
Agreed(j) ==
  /\ \A r, s \in Terminal :
       Says(j, r) /\ Says(j, s) => r = s \/ (j \in disowned /\ "failed" \in {r, s})
  /\ rows[j].status \in Live
       => \A r \in Terminal : Says(j, r) => j \in disowned /\ r = "failed"
  /\ rows[j].status \in Terminal /\ rows[j].result = "failed"
       => \A r \in Terminal : Says(j, r) => r = "failed"
  /\ rows[j].status # "cancelled"
Agreement == \A j \in Jobs : j \notin meddled => Agreed(j)

\* What is to be marked was sent, and a marked row of such a job is terminal.
MarkedLast ==
  \A p \in pubs \cup outbox.todo : p.pc = "mark" => <<p.job, p.result>> \in replies
MarkSent(j) ==
  rows[j].published =>
    /\ rows[j].status # "deleted"
    /\ \E r \in Terminal : <<j, r>> \in replies
    /\ j \notin meddled \cup disowned => rows[j].status \in Terminal

\* The handler has no token only if the claim raised: then the row is as it was
\* listed, or gone, and there is no request to deliver with.
Handling(j) ==
  /\ work[j].pc \in {"held", "stored"} => work[j].tok # NoToken
  /\ work[j].pc \in {"failing", "failchecked"} /\ work[j].tok = NoToken
       => ~work[j].req /\ (j \notin meddled => rows[j].status \in Live \cup {"deleted"})

AInv ==
  /\ Agreement /\ MarkedLast /\ flagged \subseteq meddled
  /\ \A j \in Jobs : MarkSent(j) /\ Handling(j)

\* A step that brings no result of the job that was not there.
NoNews(j) ==
  /\ \A r \in Terminal : Says(j, r)' => Says(j, r)
  /\ rows'[j].status \in Live => rows[j].status \in Live
  /\ rows'[j].status \in Terminal /\ rows'[j].result = "failed"
       => rows[j].status \in Terminal /\ rows[j].result = "failed"
  /\ rows'[j].status = "cancelled" => rows[j].status = "cancelled"

LEMMA AgreementStep ==
  ASSUME Agreement, meddled \subseteq meddled', disowned \subseteq disowned',
         \A j \in Jobs : j \notin meddled' => NoNews(j) \/ Agreed(j)'
  PROVE  Agreement'
<1> SUFFICES ASSUME NEW j \in Jobs, j \notin meddled', NoNews(j)
             PROVE  Agreed(j)'
  BY DEF Agreement
<1>1. Agreed(j)
  BY DEF Agreement
<1> QED  BY <1>1 DEF Agreed, NoNews

\* What becomes of the worker's task of a job, if it does not come to say a result.
QuietWork(k) ==
  \/ work'[k] = work[k]
  \/ work'[k].pc \notin {"stored", "failed"} /\ Handling(k)'

LEMMA EndedQuietly ==
  ASSUME NEW k, work'[k] = NoWork
  PROVE  QuietWork(k)
BY DEF QuietWork, NoWork, Handling

\* What the steps of the table that involve no result do to a row.
RowQuiet(k) ==
  \/ /\ rows'[k].status = rows[k].status /\ rows'[k].result = rows[k].result
     /\ rows'[k].published = rows[k].published
  \/ /\ rows[k].status \in Live /\ rows'[k].status \in Live
     /\ rows'[k].published => rows[k].published
  \/ rows'[k].status = "deleted" /\ ~rows'[k].published

LEMMA QuietRows ==
  ASSUME StoreTypeOK,
         \/ \E j \in Jobs : Enqueue(j) \/ Claim(j) \/ Delete({j})
         \/ \E S \in SUBSET Jobs : Reclaim(S)
         \/ Tick
         \/ UNCHANGED storeVars,
         NEW k \in Jobs
  PROVE  RowQuiet(k)
<1> USE DEF RowQuiet, Live
<1>0. rows \in [Jobs -> Row] /\ rows[k] \in Row
  BY DEF StoreTypeOK
<1>1. ASSUME NEW j \in Jobs, Enqueue(j)
      PROVE  RowQuiet(k)
  BY <1>0, <1>1 DEF Enqueue, Absent
<1>2. ASSUME NEW j \in Jobs, Claim(j)
      PROVE  RowQuiet(k)
  BY <1>0, <1>2 DEF Claim, Claimable, Row
<1>3. ASSUME NEW j \in Jobs, Delete({j})
      PROVE  RowQuiet(k)
  BY <1>0, <1>3 DEF Delete, Absent
<1>4. ASSUME NEW S \in SUBSET Jobs, Reclaim(S)
      PROVE  RowQuiet(k)
  BY <1>0, <1>4 DEF Reclaim, ReclaimRows, Stale, Row
<1>5. CASE Tick
  BY <1>0, <1>5 DEF Tick, Row
<1>6. CASE UNCHANGED storeVars
  BY <1>6 DEF storeVars
<1> QED  BY <1>1, <1>2, <1>3, <1>4, <1>5, <1>6

\* A step that neither stores a result nor sends one, and starts no publication.
LEMMA QuietStep ==
  ASSUME AInv, \A k \in Jobs : RowQuiet(k) /\ QuietWork(k),
         UNCHANGED <<replies, flagged, meddled, disowned>>,
         \A p \in pubs' \cup outbox'.todo : p \in pubs \cup outbox.todo
  PROVE  AInv'
<1>1. ASSUME NEW j \in Jobs
      PROVE  NoNews(j)
  <2>1. RowQuiet(j) /\ QuietWork(j)
    OBVIOUS
  <2> QED  BY <2>1 DEF NoNews, Says, RowQuiet, QuietWork, Live, Terminal
<1>2. ASSUME NEW j \in Jobs
      PROVE  MarkSent(j)' /\ Handling(j)'
  <2>1. RowQuiet(j) /\ QuietWork(j) /\ MarkSent(j) /\ Handling(j)
    BY DEF AInv
  <2>2. MarkSent(j)'
    BY <2>1 DEF MarkSent, RowQuiet, Live, Terminal
  <2>3. Handling(j)'
    BY <2>1 DEF Handling, RowQuiet, QuietWork, Live
  <2> QED  BY <2>2, <2>3
<1>3. Agreement'
  BY <1>1, AgreementStep DEF AInv
<1>4. MarkedLast'
  BY DEF AInv, MarkedLast
<1> QED  BY <1>2, <1>3, <1>4 DEF AInv

\* A result is stored for a job that has none.
LEMMA FirstResult ==
  ASSUME BInv, AInv, NEW j \in Jobs, NEW s \in {"completed", "failed"},
         rows' = WithResult(j, s), j \notin meddled => rows[j].status \in Live,
         work'[j].out = s, Handling(j)', \A k \in Jobs : k # j => work'[k] = work[k],
         UNCHANGED <<replies, flagged, meddled, disowned, pubs, outbox>>
  PROVE  AInv'
<1>1. /\ rows'[j].status = s /\ rows'[j].result = s
      /\ rows'[j].published = rows[j].published
      /\ \A k \in Jobs : k # j => rows'[k] = rows[k]
  BY DEF BInv, TypeOK, StoreTypeOK, WithResult, Row
<1>2. ASSUME NEW k \in Jobs, k # j
      PROVE  NoNews(k) /\ MarkSent(k)' /\ Handling(k)'
  <2>1. rows'[k] = rows[k] /\ work'[k] = work[k]
    BY <1>1, <1>2
  <2> QED  BY <2>1 DEF NoNews, Says, MarkSent, Handling, AInv
<1>3. MarkSent(j)'
  BY <1>1 DEF MarkSent, AInv, Terminal
<1>4. ASSUME j \notin meddled
      PROVE  Agreed(j)'
  <2>1. \A r \in Terminal : Says(j, r) => j \in disowned /\ r = "failed"
    BY <1>4 DEF AInv, Agreement, Agreed
  <2>2. \A r \in Terminal : Says(j, r)' => Says(j, r) \/ r = s
    BY <1>1 DEF Says
  <2>3. \A r \in Terminal : Says(j, r)' => r = s \/ (j \in disowned /\ r = "failed")
    BY <2>1, <2>2
  <2> QED  BY <1>1, <2>3 DEF Agreed, Live
<1>5. Agreement'
  BY <1>2, <1>4, AgreementStep DEF AInv
<1>6. MarkedLast'
  BY DEF AInv, MarkedLast
<1> QED  BY <1>2, <1>3, <1>5, <1>6 DEF AInv

\* The worker stores the result of the job.
LEMMA StoreJobAgrees ==
  ASSUME BInv, AInv, NEW j \in Jobs, StoreJob(j)
  PROVE  AInv'
<1>0. /\ StoreTypeOK /\ work \in [Jobs -> Work]
      /\ UNCHANGED <<replies, flagged, meddled, disowned, pubs, outbox>>
  BY DEF BInv, TypeOK, StoreJob, markVars
<1>1. CASE UNCHANGED storeVars /\ work' = [work EXCEPT ![j] = NoWork]
  <2>1. \A k \in Jobs : QuietWork(k)
    BY <1>0, <1>1, EndedQuietly DEF QuietWork
  <2> QED  BY <1>0, <1>1, <2>1, QuietRows, QuietStep
<1>2. ASSUME NEW s \in {"completed", "failed"},
             SetResultOwned(j, work[j].tok, s),
             work' = [work EXCEPT ![j].pc = "stored", ![j].out = s, ![j].req = TRUE]
      PROVE  AInv'
  <2>1. rows[j].status \in Live /\ rows' = WithResult(j, s)
    BY <1>2 DEF SetResultOwned, Owns, Live
  <2>2. /\ work'[j].pc = "stored" /\ work'[j].out = s /\ work'[j].tok = work[j].tok
        /\ \A k \in Jobs : k # j => work'[k] = work[k]
    BY <1>0, <1>2 DEF Work
  <2>3. Handling(j)'
    BY <2>2 DEF AInv, Handling, StoreJob
  <2> QED  BY <1>0, <2>1, <2>2, <2>3, FirstResult
<1> QED  BY <1>1, <1>2 DEF StoreJob

\* A failure that the table did not take is delivered, if there is a request.
LEMMA RefusedAgrees ==
  ASSUME BInv, AInv, NEW j \in Jobs,
         UNCHANGED <<rows, replies, flagged, meddled, pubs, outbox>>,
         work' = [work EXCEPT ![j].pc = "failed", ![j].out = "failed"],
         disowned \subseteq disowned', work[j].req => j \in meddled \cup disowned'
  PROVE  AInv'
<1>1. /\ work'[j].pc = "failed" /\ work'[j].out = "failed"
      /\ work'[j].req = work[j].req
      /\ \A k \in Jobs : k # j => work'[k] = work[k]
  BY DEF BInv, TypeOK, Work
<1>2. ASSUME NEW k \in Jobs
      PROVE  MarkSent(k)' /\ Handling(k)'
  <2>1. MarkSent(k)'
    BY DEF MarkSent, AInv
  <2>2. Handling(k)'
    BY <1>1 DEF Handling, AInv
  <2> QED  BY <2>1, <2>2
<1>3. ASSUME NEW k \in Jobs, k # j \/ ~work[j].req
      PROVE  NoNews(k)
  BY <1>1, <1>3 DEF NoNews, Says
<1>4. ASSUME work[j].req, j \notin meddled
      PROVE  Agreed(j)'
  <2>1. Agreed(j) /\ j \in disowned'
    BY <1>4 DEF AInv, Agreement
  <2>2. \A r \in Terminal : Says(j, r)' => Says(j, r) \/ r = "failed"
    BY <1>1 DEF Says
  <2> QED  BY <2>1, <2>2 DEF Agreed
<1>5. Agreement'
  BY <1>3, <1>4, AgreementStep DEF AInv
<1>6. MarkedLast'
  BY DEF AInv, MarkedLast
<1> QED  BY <1>2, <1>5, <1>6 DEF AInv

\* The handler's own failure is stored, or refused and yet delivered.
LEMMA FailStoreAgrees ==
  ASSUME BInv, AInv, NEW j \in Jobs, FailStore(j)
  PROVE  AInv'
<1> DEFINE tok == work[j].tok
<1>0. /\ work[j].pc = "failchecked" /\ work \in [Jobs -> Work]
      /\ work' = [work EXCEPT ![j].pc = "failed", ![j].out = "failed"]
      /\ UNCHANGED <<replies, flagged, meddled, pubs, outbox>>
  BY DEF BInv, TypeOK, FailStore
<1>1. /\ work'[j].out = "failed" /\ work'[j].pc = "failed"
      /\ \A k \in Jobs : k # j => work'[k] = work[k]
  BY <1>0 DEF Work
<1>2. Handling(j)'
  BY <1>1 DEF Handling
<1>3. ASSUME rows' = WithResult(j, "failed"), disowned' = disowned,
             j \notin meddled => rows[j].status \in Live
      PROVE  AInv'
  BY <1>0, <1>1, <1>2, <1>3, FirstResult
<1>4. CASE SetResultOwned(j, tok, "failed") /\ disowned' = disowned
  BY <1>3, <1>4 DEF SetResultOwned, Owns, Live
<1>5. CASE /\ UNCHANGED storeVars
           /\ disowned' = IF work[j].req THEN disowned \cup {j} ELSE disowned
  BY <1>0, <1>5, RefusedAgrees DEF storeVars
<1>6. CASE tok = NoToken /\ SetResult(j, "failed") /\ disowned' = disowned
  <2>1. ~work[j].req /\ (j \notin meddled => rows[j].status \in Live \cup {"deleted"})
    BY <1>0, <1>6 DEF AInv, Handling
  <2>2. CASE Exists(j)
    <3>1. j \notin meddled => rows[j].status \in Live
      BY <2>1, <2>2 DEF Exists, JobStatus, Terminal
    <3> QED  BY <1>3, <1>6, <2>2, <3>1 DEF SetResult
  <2>3. CASE ~Exists(j)
    BY <1>0, <1>6, <2>1, <2>3, RefusedAgrees DEF SetResult
  <2> QED  BY <2>2, <2>3
<1> QED  BY <1>4, <1>5, <1>6 DEF FailStore

\* A result goes from hand to hand, or out.
LEMMA PassedOn ==
  ASSUME BInv, AInv, UNCHANGED <<rows, flagged, meddled, disowned>>,
         NEW j \in Jobs, NEW s \in Terminal, Says(j, s),
         \A x \in replies' : x \in replies \/ x = <<j, s>>,
         replies \subseteq replies',
         \A p \in pubs' \cup outbox'.todo :
           \/ p \in pubs \cup outbox.todo
           \/ /\ p.job = j /\ p.result = s
              /\ p.pc = "mark" => <<j, s>> \in replies',
         \A k \in Jobs : QuietWork(k)
  PROVE  AInv'
<1>1. ASSUME NEW k \in Jobs
      PROVE  NoNews(k)
  BY DEF NoNews, Says, QuietWork
<1>2. ASSUME NEW k \in Jobs
      PROVE  MarkSent(k)' /\ Handling(k)'
  BY DEF MarkSent, Handling, QuietWork, AInv
<1>3. Agreement'
  BY <1>1, AgreementStep DEF AInv
<1>4. MarkedLast'
  BY DEF AInv, MarkedLast
<1> QED  BY <1>2, <1>3, <1>4 DEF AInv

LEMMA PublicationFields ==
  ASSUME NEW p \in Publication
  PROVE  LET q == [p EXCEPT !.pc = "mark"] IN
         /\ p.job \in Jobs /\ p.result \in Terminal
         /\ q.job = p.job /\ q.result = p.result
BY DEF Publication

LEMMA PublisherAgrees ==
  ASSUME BInv, AInv,
         \/ \E j \in Jobs : DeliverJob(j)
         \/ \E p \in pubs : Produce(p)
         \/ \E p \in outbox.todo : OutboxProduce(p)
  PROVE  AInv'
<1>0. /\ pubs \subseteq Publication /\ outbox \in Pass
      /\ work \in [Jobs -> Work] /\ WorkOut
  BY DEF BInv, TypeOK
<1>1. ASSUME NEW j \in Jobs, DeliverJob(j)
      PROVE  AInv'
  <2>0. CASE pubs' = pubs
    <3>1. \A k \in Jobs : QuietWork(k)
      BY <1>0, <1>1, EndedQuietly DEF DeliverJob, QuietWork
    <3>2. UNCHANGED <<storeVars, flagged, meddled, disowned, replies, outbox>>
      BY <1>1 DEF DeliverJob, markVars
    <3> QED  BY <2>0, <3>1, <3>2, QuietRows, QuietStep DEF BInv, TypeOK
  <2> SUFFICES ASSUME pubs' # pubs PROVE AInv'
    BY <2>0
  <2>1. work[j].out \in Terminal /\ Says(j, work[j].out)
    BY <1>0, <1>1 DEF DeliverJob, WorkOut, Says
  <2>2. \A p \in pubs' :
          \/ p \in pubs
          \/ p.job = j /\ p.result = work[j].out /\ p.pc = "produce"
    BY <1>1 DEF DeliverJob, Publish
  <2>3. \A k \in Jobs : QuietWork(k)
    BY <1>0, <1>1, EndedQuietly DEF DeliverJob, QuietWork
  <2>4. UNCHANGED <<rows, flagged, meddled, disowned, replies, outbox>>
    BY <1>1 DEF DeliverJob, markVars, storeVars
  <2> DEFINE s == work[j].out
  <2>5. \A p \in pubs' \cup outbox'.todo :
          \/ p \in pubs \cup outbox.todo
          \/ p.job = j /\ p.result = s /\ (p.pc = "mark" => <<j, s>> \in replies')
    BY <2>2, <2>4
  <2>6. \A x \in replies' : x \in replies \/ x = <<j, s>>
    BY <2>4
  <2>7. replies \subseteq replies'
    BY <2>4
  <2> HIDE DEF s
  <2>8. s \in Terminal /\ Says(j, s)
    BY <2>1 DEF s
  <2> QED  BY <2>3, <2>4, <2>5, <2>6, <2>7, <2>8, PassedOn
<1>2. ASSUME NEW p \in pubs, Produce(p)
      PROVE  AInv'
  <2>1. p \in Publication
    BY <1>0
  <2>2. Says(p.job, p.result)
    BY DEF Says
  <2>3. /\ UNCHANGED <<rows, flagged, meddled, disowned, work, outbox>>
        /\ replies' = replies \cup {<<p.job, p.result>>}
        /\ \A q \in pubs' : q \in pubs \/ q = [p EXCEPT !.pc = "mark"]
    BY <1>2 DEF Produce, Produced, markVars, storeVars
  <2>4. \A k \in Jobs : QuietWork(k)
    BY <2>3 DEF QuietWork
  <2> QED  BY <2>1, <2>2, <2>3, <2>4, PassedOn, PublicationFields
<1>3. ASSUME NEW p \in outbox.todo, OutboxProduce(p)
      PROVE  AInv'
  <2>1. p \in Publication
    BY <1>0 DEF Pass
  <2>2. Says(p.job, p.result)
    BY DEF Says
  <2>3. /\ UNCHANGED <<rows, flagged, meddled, disowned, work, pubs>>
        /\ replies' = replies \cup {<<p.job, p.result>>}
        /\ \A q \in outbox'.todo : q \in outbox.todo \/ q = [p EXCEPT !.pc = "mark"]
    BY <1>0, <1>3 DEF OutboxProduce, Produced, markVars, storeVars, Pass
  <2>4. \A k \in Jobs : QuietWork(k)
    BY <2>3 DEF QuietWork
  <2> QED  BY <2>1, <2>2, <2>3, <2>4, PassedOn, PublicationFields
<1> QED  BY <1>1, <1>2, <1>3

\* A batch of the drain takes its results from the table.
LEMMA ListAgrees ==
  ASSUME BInv, AInv, OutboxList
  PROVE  AInv'
<1>1. PICK S \in SUBSET Unpublished :
        outbox'.todo = {Publish(j, rows[j].result) : j \in S}
  BY DEF OutboxList
<1>2. UNCHANGED <<rows, flagged, meddled, disowned, replies, work, pubs>>
  BY DEF OutboxList, markVars, storeVars
<1>3. ASSUME NEW p \in outbox'.todo
      PROVE  p.pc = "produce" /\ rows[p.job].status \in Terminal
             /\ rows[p.job].result = p.result
  <2>1. PICK j \in S : p = Publish(j, rows[j].result)
    BY <1>1
  <2> QED  BY <2>1 DEF Publish, Unpublished
<1>4. ASSUME NEW k \in Jobs
      PROVE  NoNews(k) /\ MarkSent(k)' /\ Handling(k)'
  <2>1. NoNews(k)
    BY <1>2, <1>3 DEF NoNews, Says
  <2> QED  BY <1>2, <2>1 DEF MarkSent, Handling, AInv
<1>5. Agreement'
  BY <1>2, <1>4, AgreementStep DEF AInv
<1>6. MarkedLast'
  BY <1>2, <1>3 DEF AInv, MarkedLast
<1> QED  BY <1>2, <1>4, <1>5, <1>6 DEF AInv

\* A row is marked after its result was sent.
LEMMA MarkAgrees ==
  ASSUME BInv, AInv,
         \/ \E p \in pubs : Mark(p)
         \/ \E p \in outbox.todo : OutboxMark(p)
  PROVE  AInv'
<1>1. PICK p \in pubs \cup outbox.todo :
        p.pc = "mark" /\ MarkPublished(p.job)
  BY DEF Mark, OutboxMark
<1>2. p \in Publication /\ rows \in [Jobs -> Row]
  BY DEF BInv, TypeOK, Pass, StoreTypeOK
<1>3. p.job \in Jobs /\ p.result \in Terminal /\ <<p.job, p.result>> \in replies
  BY <1>1, <1>2 DEF Publication, AInv, MarkedLast
<1>4. /\ UNCHANGED <<flagged, meddled, disowned, replies, work>>
      /\ \A q \in pubs' \cup outbox'.todo : q \in pubs \cup outbox.todo
  BY DEF Mark, OutboxMark, markVars, BInv, TypeOK, Pass
<1>5. \A k \in Jobs :
        /\ rows'[k].status = rows[k].status /\ rows'[k].result = rows[k].result
        /\ rows'[k].published => rows[k].published \/ (k = p.job /\ Exists(k))
  BY <1>1, <1>2, <1>3 DEF MarkPublished, Row
<1>6. ASSUME NEW k \in Jobs
      PROVE  NoNews(k)
  BY <1>4, <1>5 DEF NoNews, Says
<1>7. ASSUME NEW k \in Jobs
      PROVE  MarkSent(k)' /\ Handling(k)'
  <2>0. Handling(k)'
    BY <1>4, <1>5 DEF Handling, AInv
  <2>1. CASE k = p.job /\ Exists(k)
    <3>1. k \notin meddled \cup disowned => rows[k].status \in Terminal
      BY <1>3, <2>1 DEF AInv, Agreement, Agreed, Says, Live, Exists, JobStatus
    <3>2. rows[k].status # "deleted"
      BY <2>1 DEF Exists, JobStatus, Terminal
    <3> QED  BY <1>3, <1>4, <1>5, <2>0, <2>1, <3>1, <3>2 DEF MarkSent
  <2>2. CASE ~(k = p.job /\ Exists(k))
    BY <1>4, <1>5, <2>0, <2>2 DEF MarkSent, AInv
  <2> QED  BY <2>1, <2>2
<1>8. Agreement'
  BY <1>4, <1>6, AgreementStep DEF AInv
<1>9. MarkedLast'
  BY <1>4 DEF AInv, MarkedLast
<1> QED  BY <1>4, <1>7, <1>8, <1>9 DEF AInv

\* A client that cancels or requeues a job takes it out of the agreement.
LEMMA MeddlerAgrees ==
  ASSUME BInv, AInv, NEW j \in Jobs,
         CancelStatus(j) \/ CancelResult(j) \/ RequeueJob(j)
  PROVE  AInv'
<1>1. /\ UNCHANGED <<replies, pubs, outbox, work, disowned>>
      /\ meddled \subseteq meddled' /\ j \in meddled'
      /\ flagged' \subseteq meddled'
  BY DEF CancelStatus, CancelResult, RequeueJob, procVars, AInv
<1>2. rows \in [Jobs -> Row]
  BY DEF BInv, TypeOK, StoreTypeOK
<1>3. \A k \in Jobs : k # j => rows'[k] = rows[k]
  BY <1>2
  DEF CancelStatus, CancelResult, RequeueJob, UpdateStatus, SetResult, WithResult,
      Requeue
<1>4. rows'[j].published => rows[j].published /\ rows'[j].status # "deleted"
  BY <1>2
  DEF AInv, MarkSent, CancelStatus, CancelResult, RequeueJob, UpdateStatus, SetResult, WithResult,
      Requeue, Row
<1>5. ASSUME NEW k \in Jobs, k # j
      PROVE  NoNews(k)
  BY <1>1, <1>3, <1>5 DEF NoNews, Says
<1>6. ASSUME NEW k \in Jobs
      PROVE  MarkSent(k)' /\ Handling(k)'
  <2>1. MarkSent(k)'
    BY <1>1, <1>3, <1>4 DEF MarkSent, AInv
  <2>2. Handling(k)'
    BY <1>1, <1>3 DEF Handling, AInv
  <2> QED  BY <2>1, <2>2
<1>7. Agreement'
  BY <1>1, <1>5, AgreementStep DEF AInv
<1>8. MarkedLast'
  BY <1>1 DEF AInv, MarkedLast
<1> QED  BY <1>1, <1>6, <1>7, <1>8 DEF AInv

LEMMA AInvStep ==
  ASSUME BInv, AInv, [Next]_vars
  PROVE  AInv'
<1>0. StoreTypeOK /\ outbox \in Pass /\ work \in [Jobs -> Work]
  BY DEF BInv, TypeOK
<1>1. CASE Ingress \/ HandleError \/ ConnectionLost
  <2>1. /\ UNCHANGED <<replies, flagged, meddled, disowned, pubs, outbox>>
        /\ \A k \in Jobs : QuietWork(k)
    BY <1>1
    DEF QuietWork, Ingress, Poll, EnqueueMsg, CheckRow, Ack, Nack, HandleError,
        ConnectionLost, markVars
  <2>2. UNCHANGED storeVars \/ \E j \in Jobs : Enqueue(j)
    BY <1>1
    DEF Ingress, Poll, EnqueueMsg, CheckRow, Ack, Nack, HandleError, ConnectionLost
  <2> QED  BY <1>0, <2>1, <2>2, QuietRows, QuietStep
<1>2. ASSUME NEW j \in Jobs, WorkerStep(j)
      PROVE  AInv'
  <2>1. CASE StartJob(j)
    <3>1. UNCHANGED <<replies, flagged, meddled, disowned, pubs, outbox>>
      BY <2>1 DEF StartJob, markVars
    <3>2. work'[j].pc = "held" /\ work'[j].tok # NoToken
      BY <1>0, <2>1 DEF StartJob, NoWork, StoreTypeOK, NoToken
    <3>3. \A k \in Jobs : QuietWork(k)
      BY <1>0, <2>1, <3>2 DEF StartJob, QuietWork, Handling
    <3> QED  BY <1>0, <2>1, <3>1, <3>3, QuietRows, QuietStep DEF StartJob
  <2>2. CASE FailRecheck(j)
    <3>1. /\ UNCHANGED <<replies, flagged, meddled, disowned, pubs, outbox>>
          /\ UNCHANGED storeVars
      BY <2>2 DEF FailRecheck, markVars
    <3>2. CASE work' = [work EXCEPT ![j] = NoWork]
      <4>1. \A k \in Jobs : QuietWork(k)
        BY <1>0, <3>2, EndedQuietly DEF QuietWork
      <4> QED  BY <1>0, <3>1, <4>1, QuietRows, QuietStep
    <3>3. CASE work' = [work EXCEPT ![j].pc = "failchecked"]
      <4>1. QuietWork(j)
        BY <1>0, <2>2, <3>1, <3>3
        DEF FailRecheck, QuietWork, Handling, AInv, storeVars, Work
      <4>2. \A k \in Jobs : QuietWork(k)
        BY <1>0, <3>3, <4>1 DEF QuietWork
      <4> QED  BY <1>0, <3>1, <4>2, QuietRows, QuietStep
    <3> QED  BY <2>2, <3>2, <3>3 DEF FailRecheck
  <2> QED
    BY <1>2, <2>1, <2>2, StoreJobAgrees, FailStoreAgrees, PublisherAgrees
    DEF WorkerStep
<1>3. CASE \/ ReclaimJobs \/ Lapse \/ Recover \/ Start
           \/ \E j \in Jobs : RemoveJob(j)
           \/ UNCHANGED vars
  <2>1. /\ UNCHANGED <<replies, flagged, meddled, disowned, pubs, outbox>>
        /\ \A k \in Jobs : QuietWork(k)
    BY <1>3
    DEF QuietWork, ReclaimJobs, Lapse, Recover, Start, RemoveJob, vars, markVars, procVars
  <2>2. \/ UNCHANGED storeVars \/ Tick
        \/ \E S \in SUBSET Jobs : Reclaim(S)
        \/ \E j \in Jobs : Delete({j})
    BY <1>3
    DEF ReclaimJobs, Lapse, Recover, Start, RemoveJob, vars, ReclaimStale
  <2> QED  BY <1>0, <2>1, <2>2, QuietRows, QuietStep
<1>4. ASSUME UNCHANGED <<replies, flagged, meddled, disowned>>, UNCHANGED storeVars,
             \A p \in pubs' : p \in pubs, \A p \in outbox'.todo : p \in outbox.todo,
             \A k \in Jobs : work'[k] = work[k] \/ work'[k] = NoWork
      PROVE  AInv'
  <2>1. \A k \in Jobs : QuietWork(k)
    BY <1>4, EndedQuietly DEF QuietWork
  <2> QED  BY <1>0, <1>4, <2>1, QuietRows, QuietStep
<1>5. CASE OutboxDone \/ DrainError \/ OutboxNextPass
  BY <1>4, <1>5 DEF OutboxDone, DrainError, DrainDone, OutboxNextPass, markVars, NoPass
<1>6. CASE Stop
  BY <1>4, <1>6 DEF Stop, markVars, NoPass
<1>7. ASSUME NEW p, PublishError(p) \/ (p \in outbox.todo /\ OutboxError(p))
      PROVE  AInv'
  <2>1. CASE PublishError(p)
    BY <1>4, <2>1 DEF PublishError, markVars
  <2>2. CASE OutboxError(p)
    <3>1. outbox'.todo = outbox.todo \ {p}
      BY <1>0, <2>2 DEF OutboxError, Pass
    <3> QED  BY <1>4, <2>2, <3>1 DEF OutboxError, markVars
  <2> QED  BY <1>7, <2>1, <2>2
<1>8. ASSUME NEW j \in Jobs, WorkError(j)
      PROVE  AInv'
  <2>1. /\ UNCHANGED <<replies, flagged, meddled, disowned, pubs, outbox>>
        /\ UNCHANGED storeVars
    BY <1>8 DEF WorkError, markVars
  <2>2. \A k \in Jobs : k # j => work'[k] = work[k]
    BY <1>0, <1>8 DEF WorkError
  <2>3. ASSUME work[j].pc = "idle"
        PROVE  QuietWork(j)
    <3>1. /\ work'[j].pc = "failing" /\ ~work'[j].req
          /\ rows'[j].status = "queued"
      BY <1>0, <1>8, <2>1, <2>3 DEF WorkError, NoWork, Claimable, storeVars
    <3> QED  BY <3>1 DEF QuietWork, Handling, Live
  <2>4. ASSUME work[j].pc \in {"held", "stored"}
        PROVE  QuietWork(j)
    <3>1. work'[j].pc = "failing" /\ work'[j].tok = work[j].tok
      BY <1>0, <1>8, <2>4 DEF WorkError, Work
    <3> QED  BY <2>4, <3>1 DEF QuietWork, Handling, AInv
  <2>5. ASSUME work[j].pc \in {"failing", "failchecked"}
        PROVE  QuietWork(j)
    BY <1>0, <1>8, <2>5, EndedQuietly DEF WorkError
  <2>6. \A k \in Jobs : QuietWork(k)
    BY <1>8, <2>2, <2>3, <2>4, <2>5 DEF WorkError, QuietWork
  <2> QED  BY <1>0, <2>1, <2>6, QuietRows, QuietStep
<1> QED
  BY <1>1, <1>2, <1>3, <1>5, <1>6, <1>7, <1>8, PublisherAgrees, ListAgrees, MarkAgrees,
     MeddlerAgrees
  DEF Next, Egress, Drain

LEMMA InitAInv == Init => AInv
<1> SUFFICES ASSUME Init PROVE AInv
  OBVIOUS
<1>1. ASSUME NEW j \in Jobs
      PROVE  Agreed(j) /\ MarkSent(j) /\ Handling(j)
  BY DEF Init, StoreInit, Absent, NoPass, NoWork, Agreed, MarkSent, Handling, Says,
         Terminal
<1> QED  BY <1>1 DEF Init, NoPass, AInv, Agreement, MarkedLast

LEMMA AgreementHolds == Spec => [](BInv /\ AInv)
  BY InitBInv, BInvStep, InitAInv, AInvStep, PTL DEF Spec

\* Whoever waits for a correlation id is told one result, on any transport and
\* across crashes, restarts and failed publications, unless a client cancelled
\* or requeued the job, or the worker's handler delivered a failure that the table
\* had refused: then there may be two, and one of them is that failure.
THEOREM AnsweredOnce == Spec => []OneAnswer
<1>1. BInv /\ AInv => OneAnswer
  <2> SUFFICES ASSUME BInv, AInv, NEW x \in replies, NEW y \in replies,
                      x[1] = y[1], x[1] \notin meddled
               PROVE  x = y \/ (x[1] \in disowned /\ "failed" \in {x[2], y[2]})
    BY DEF OneAnswer
  <2>1. x \in Jobs \X Terminal /\ y \in Jobs \X Terminal
    BY DEF BInv, TypeOK
  <2>2. Says(x[1], x[2]) /\ Says(x[1], y[2])
    BY <2>1 DEF Says
  <2> QED  BY <2>1, <2>2 DEF AInv, Agreement, Agreed
<1> QED  BY <1>1, AgreementHolds, PTL

\* A row marked published had its present result confirmed by the broker, so
\* what the next start skips was sent; after a cancel or a requeue some result of
\* the job was, and where the worker's handler delivered a failure that the table
\* had refused, that failure.
THEOREM MarkedWasSent == Spec => []PublishedWasSent
<1>1. BInv /\ AInv => PublishedWasSent
  <2> SUFFICES ASSUME BInv, AInv, NEW j \in Jobs, rows[j].published
               PROVE  \/ <<j, rows[j].result>> \in replies
                      \/ j \in meddled /\ \E r \in Terminal : <<j, r>> \in replies
                      \/ j \in disowned /\ <<j, "failed">> \in replies
    BY DEF PublishedWasSent
  <2>1. PICK r \in Terminal : <<j, r>> \in replies
    BY DEF AInv, MarkSent
  <2>2. CASE j \in meddled
    BY <2>1, <2>2
  <2>3. CASE j \notin meddled /\ rows[j].status \in Terminal
    <3>1. rows[j].status \in {"completed", "failed"}
      BY <2>3 DEF AInv, Agreement, Agreed, Terminal
    <3>2. rows[j].result \in Terminal
      BY <3>1 DEF BInv, StoreInv, ResultMatchesStatus, Terminal
    <3>3. Says(j, r) /\ Says(j, rows[j].result) /\ Agreed(j)
      BY <2>1, <2>3, <3>2 DEF Says, AInv, Agreement
    <3>4. r = rows[j].result \/ (j \in disowned /\ "failed" \in {r, rows[j].result})
      BY <3>2, <3>3 DEF Agreed
    <3>5. rows[j].result = "failed" => r = "failed"
      BY <2>3, <3>3 DEF Agreed
    <3> QED  BY <2>1, <3>4, <3>5
  <2>4. CASE j \notin meddled /\ rows[j].status \notin Terminal
    <3>1. j \in disowned
      BY <2>4 DEF AInv, MarkSent
    <3>2. rows[j].status \in Live
      BY <2>4
      DEF BInv, TypeOK, StoreTypeOK, Row, RowStatus, JobStatus, Live, AInv, MarkSent
    <3>3. r = "failed"
      BY <2>1, <2>4, <3>2 DEF AInv, Agreement, Agreed, Says
    <3> QED  BY <2>1, <3>1, <3>3
  <2> QED  BY <2>2, <2>3, <2>4
<1> QED  BY <1>1, AgreementHolds, PTL
=============================================================================
