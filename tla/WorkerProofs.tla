---------------------------- MODULE WorkerProofs ----------------------------
(***************************************************************************)
(* Workers, callers, crashes and restarts, for any numbers of each and any *)
(* bounds: every step is one the job table allows (so StoreInv carries     *)
(* over), the lease token is a fence, and a job gets one worker result per *)
(* submission or requeue.  Then what also needs something of the           *)
(* environment, stated as the theorem's premise: a cancel that sticks, the *)
(* result of a terminal row, its output file, one model call at a time.    *)
(***************************************************************************)
EXTENDS Worker, JobStoreProofs

\* Tokens of tasks were issued, and a task shares its token with no other task
\* on the same job.
TaskTokens ==
  /\ \A w \in Workers, j \in Jobs : task[w][j].tok < nextToken
  /\ \A j \in Jobs : \A v, w \in Workers :
       task[v][j].tok = task[w][j].tok /\ task[v][j].tok # NoToken => v = w

\* A task past its model call has a result to store.
OutKnown ==
  \A w \in Workers, j \in Jobs :
    task[w][j].pc \in {"computed", "checked", "stored"}
      => task[w][j].out \in {"completed", "failed"}

\* AcceptedOnce, with the result still owed to a job that is not over.
Owed ==
  \A j \in Jobs :
    /\ accepted[j] =< 1 + requeued[j]
    /\ rows[j].status \notin Terminal \cup {"deleted"}
         => accepted[j] =< requeued[j]

IInv == StoreInv /\ TypeOK /\ TaskTokens /\ OutKnown /\ Owed

\* What StoreInv says of the token of an owned row.
LEMMA OwnedToken ==
  ASSUME StoreInv, NEW j \in Jobs, NEW t, Owns(j, t)
  PROVE  t \in 1 .. nextToken - 1 /\ t # NoToken
  BY DEF StoreInv, StoreTypeOK, TokensUnique, LeaseMatchesStatus, Owns, Row,
         NoToken

\* The workers' way of reclaiming is one the protocol allows.
LEMMA ReclaimAllowed ==
  ASSUME NEW S \in SUBSET Jobs, ReclaimStale(S)
  PROVE  StoreNext
  BY DEF ReclaimStale, StoreNext

LEMMA HbIsNat == HbTicks \in Nat
  BY HeartbeatAssumption, LeaseAssumption

LEMMA InitIInv == Init => IInv
<1> SUFFICES ASSUME Init PROVE IInv
  OBVIOUS
<1>1. StoreInv
  BY InitInv DEF Init
<1>2. TypeOK
  BY <1>1, BoundsAssumption
  DEF Init, StoreInv, TypeOK, Task, NoTask, NoToken, NoResult, Off, ApiCall,
      Idle
<1>3. TaskTokens /\ OutKnown
  BY DEF Init, StoreInit, TaskTokens, OutKnown, NoTask, NoToken
<1>4. Owed
  BY DEF Init, StoreInit, Owed, Absent
<1> QED
  BY <1>1, <1>2, <1>3, <1>4 DEF IInv

\* Every step of the system is a step of the job table, or leaves it alone.
LEMMA StepAllowed ==
  ASSUME IInv, [Next]_vars
  PROVE  [StoreNext]_storeVars
<1>1. ASSUME NEW w \in Workers, WorkerNext(w)
      PROVE  [StoreNext]_storeVars
  <2>1. CASE PollReclaim(w) \/ Restart(w)
    BY <2>1, ReclaimAllowed DEF PollReclaim, Restart
  <2>2. CASE \/ PollList(w) \/ Crash(w) \/ Close(w) \/ Drained(w)
             \/ \E j \in Jobs : \/ Dispatch(w, j) \/ Finish(w, j)
                                \/ Interrupted(w, j) \/ StoreError(w, j)
                                \/ SideTaskError(w, j)
    BY <2>2 DEF PollList, Crash, Close, Drained, Dispatch, Finish,
                Interrupted, StoreError, SideTaskError, storeVars
  <2>3. ASSUME NEW j \in Jobs, TaskStep(w, j)
        PROVE  [StoreNext]_storeVars
    <3>1. CASE TryClaim(w, j)
      BY <3>1 DEF TryClaim, StoreNext, JobOp
    <3>2. CASE StoreResult(w, j)
      <4>1. task[w][j].out \in {"completed", "failed"}
        BY <3>2 DEF StoreResult, At, IInv, OutKnown
      <4>2. CASE SetResultOwned(j, task[w][j].tok, task[w][j].out)
        <5>1. task[w][j].tok \in 1 .. nextToken - 1
          BY <4>2, OwnedToken DEF IInv, SetResultOwned
        <5> QED BY <4>1, <4>2, <5>1 DEF StoreNext, JobOp
      <4> QED BY <3>2, <4>2 DEF StoreResult, storeVars
    <3>3. CASE FailStore(w, j)
      <4>1. CASE SetResultOwned(j, task[w][j].tok, "failed")
        <5>1. task[w][j].tok \in 1 .. nextToken - 1
          BY <4>1, OwnedToken DEF IInv, SetResultOwned
        <5> QED BY <4>1, <5>1 DEF StoreNext, JobOp
      <4>2. CASE SetResult(j, "failed")
        BY <4>2 DEF StoreNext, JobOp
      <4> QED BY <3>3, <4>1, <4>2 DEF FailStore, storeVars
    <3>4. CASE \/ Begin(w, j) \/ RecheckStatus(w, j) \/ DeliverResult(w, j)
               \/ FailRecheck(w, j) \/ FailDeliver(w, j)
      BY <3>4 DEF Begin, RecheckStatus, DeliverResult, FailRecheck,
                  FailDeliver, storeVars
    <3> QED BY <2>3, <3>1, <3>2, <3>3, <3>4 DEF TaskStep
  <2>4. ASSUME NEW j \in Jobs, SideStep(w, j)
        PROVE  [StoreNext]_storeVars
    <3>1. CASE Heartbeat(j, task[w][j].tok)
      <4>1. task[w][j].tok \in 1 .. nextToken - 1
        BY <3>1, OwnedToken DEF IInv, Heartbeat
      <4> QED BY <3>1, <4>1 DEF StoreNext, JobOp
    <3> QED BY <2>4, <3>1
            DEF SideStep, HeartbeatStep, CancelWatchStep, storeVars
  <2> QED BY <1>1, <2>1, <2>2, <2>3, <2>4 DEF WorkerNext
<1>2. CASE ClientNext
  <2>1. ASSUME NEW j \in Jobs, Submit(j) \/ RequeueJob(j)
        PROVE  [StoreNext]_storeVars
    <3>1. CASE Submit(j)
      BY <3>1 DEF Submit, StoreNext, JobOp
    <3>2. CASE RequeueJob(j)
      <4>1. Requeue(j, {"failed", "cancelled"})
        BY <3>2, RequeueAssumption DEF RequeueJob, Requeue
      <4> QED BY <4>1 DEF StoreNext, JobOp
    <3> QED BY <2>1, <3>1, <3>2
  <2>2. ASSUME NEW j \in Jobs, NEW c \in Callers,
               CancelRead(c, j) \/ CallStep(c, j)
        PROVE  [StoreNext]_storeVars
    <3>1. CASE CancelStatus(c, j)
      BY <3>1 DEF CancelStatus, StoreNext, JobOp
    <3>2. CASE CancelResult(c, j)
      BY <3>2 DEF CancelResult, StoreNext, JobOp
    <3>3. CASE RemoveRow(c, j)
      BY <3>3 DEF RemoveRow, StoreNext
    <3> QED BY <2>2, <3>1, <3>2, <3>3
            DEF CallStep, CancelRead, CancelDeliver, CancelInterrupt, storeVars
  <2>3. ASSUME NEW S \in SUBSET Jobs, Clear(S)
        PROVE  [StoreNext]_storeVars
    BY <2>3 DEF Clear, StoreNext
  <2> QED BY <1>2, <2>1, <2>2, <2>3 DEF ClientNext
<1>3. CASE TickClock
  BY <1>3 DEF TickClock, StoreNext
<1>4. CASE UNCHANGED vars
  BY <1>4 DEF vars, storeVars
<1> QED
  BY <1>1, <1>2, <1>3, <1>4 DEF Next

\* The store's half of the invariant follows from the store's own proof.
LEMMA StoreInvStep ==
  ASSUME IInv, [Next]_vars
  PROVE  StoreInv' /\ StoreTypeOK' /\ nextToken' \in {nextToken, nextToken + 1}
<1>1. StoreInv'
  BY StepAllowed, NextInv DEF IInv
<1>2. nextToken' \in {nextToken, nextToken + 1}
  BY StepAllowed
  DEF StoreNext, JobOp, Enqueue, Claim, Heartbeat, Reclaim, UpdateStatus,
      SetResultOwned, SetResult, Requeue, Delete, MarkPublished, Tick, storeVars
<1> QED
  BY <1>1, <1>2 DEF StoreInv

\* Replacing one task by one that is well formed, holds its token, none, or
\* the one just issued, and knows its result if it is past the model call.
OneTask(w, j, t) ==
  /\ task' = [task EXCEPT ![w][j] = t]
  /\ t \in Task
  /\ \/ t.tok = NoToken
     \/ t.tok = task[w][j].tok
     \/ t.tok = nextToken /\ nextToken' = nextToken + 1
  /\ t.pc \in {"computed", "checked", "stored"}
       => t.out \in {"completed", "failed"}

TaskInv == task \in [Workers -> [Jobs -> Task]] /\ TaskTokens /\ OutKnown

LEMMA OneTaskStep ==
  ASSUME TaskInv, nextToken \in Nat \ {0},
         nextToken' \in {nextToken, nextToken + 1},
         NEW w \in Workers, NEW j \in Jobs, NEW t, OneTask(w, j, t)
  PROVE  TaskInv'
<1>0. task \in [Workers -> [Jobs -> Task]]
  BY DEF TaskInv
<1>1. task' \in [Workers -> [Jobs -> Task]]
  BY <1>0 DEF OneTask
<1>2. \A v \in Workers, k \in Jobs :
        task'[v][k] = IF v = w /\ k = j THEN t ELSE task[v][k]
  BY <1>0 DEF OneTask
<1>3. \A v \in Workers, k \in Jobs : task[v][k].tok \in Nat
  BY <1>0 DEF Task
<1>4. TaskTokens'
  BY <1>2, <1>3 DEF OneTask, TaskInv, TaskTokens, NoToken
<1>5. OutKnown'
  BY <1>2 DEF OneTask, TaskInv, OutKnown
<1> QED
  BY <1>1, <1>4, <1>5 DEF TaskInv

\* Steps that leave the tasks alone, but for the token counter.
LEMMA NoTaskStep ==
  ASSUME TaskInv, nextToken \in Nat \ {0},
         nextToken' \in {nextToken, nextToken + 1},
         UNCHANGED task
  PROVE  TaskInv'
  BY DEF TaskInv, TaskTokens, OutKnown, Task

\* Tasks keep their form, their tokens and their results in every step.
LEMMA TaskInvStep ==
  ASSUME IInv, [Next]_vars
  PROVE  TaskInv'
<1>0. /\ TaskInv
      /\ nextToken \in Nat \ {0}
      /\ nextToken' \in {nextToken, nextToken + 1}
      /\ task \in [Workers -> [Jobs -> Task]]
  BY StoreInvStep DEF IInv, TaskInv, TypeOK, StoreTypeOK
<1>1. ASSUME NEW w \in Workers, NEW j \in Jobs, NEW t, OneTask(w, j, t)
      PROVE  TaskInv'
  BY <1>0, <1>1, OneTaskStep
<1>2. CASE UNCHANGED task
  BY <1>0, <1>2, NoTaskStep
<1>3. ASSUME NEW w \in Workers, NEW j \in Jobs, End(w, j)
      PROVE  TaskInv'
  <2>1. OneTask(w, j, NoTask)
    BY <1>3 DEF End, OneTask, NoTask, Task, NoToken, NoResult, Off
  <2> QED BY <1>1, <2>1
<1>4. ASSUME NEW w \in Workers, NEW j \in Jobs,
             NEW pc \in {"spawned", "checked", "stored", "failing",
                         "failchecked", "failed"},
             pc \in {"checked", "stored"}
               => task[w][j].pc \in {"computed", "checked"},
             Goto(w, j, pc)
      PROVE  TaskInv'
  <2> DEFINE t == [task[w][j] EXCEPT !.pc = pc]
  <2>1. task[w][j] \in Task
    BY <1>0
  <2>2. OneTask(w, j, t)
    BY <1>0, <1>4, <2>1 DEF Goto, OneTask, Task, Sync, TaskInv, OutKnown
  <2> QED BY <1>1, <2>2
<1>5. ASSUME NEW w \in Workers, WorkerNext(w)
      PROVE  TaskInv'
  <2>1. CASE PollReclaim(w) \/ PollList(w) \/ Restart(w) \/ Close(w)
    BY <1>2, <2>1 DEF PollReclaim, PollList, Restart, Close
  <2>2. CASE Stopped(w)
    <3>1. task' = [task EXCEPT ![w] = [j \in Jobs |-> NoTask]]
      BY <2>2 DEF Stopped
    <3>2. NoTask \in Task
      BY DEF NoTask, Task, NoToken, NoResult, Off
    <3>3. task' \in [Workers -> [Jobs -> Task]]
      BY <1>0, <3>1, <3>2
    <3>4. \A v \in Workers, k \in Jobs :
            task'[v][k] = IF v = w THEN NoTask ELSE task[v][k]
      BY <1>0, <3>1
    <3>5. \A v \in Workers, k \in Jobs : task[v][k].tok \in Nat
      BY <1>0 DEF Task
    <3>6. TaskTokens'
      BY <1>0, <3>4, <3>5 DEF TaskInv, TaskTokens, NoTask, NoToken
    <3>7. OutKnown'
      BY <1>0, <3>4 DEF TaskInv, OutKnown, NoTask
    <3> QED BY <3>3, <3>6, <3>7 DEF TaskInv
  <2>3. ASSUME NEW j \in Jobs,
               \/ Dispatch(w, j) \/ TaskStep(w, j) \/ SideStep(w, j)
               \/ Finish(w, j) \/ Interrupted(w, j)
               \/ StoreError(w, j) \/ SideTaskError(w, j)
        PROVE  TaskInv'
    <3>0. task[w][j] \in Task
      BY <1>0
    <3>1. CASE Dispatch(w, j)
      BY <1>2, <1>4, <3>1 DEF Dispatch
    <3>2. CASE TryClaim(w, j)
      <4>1. CASE Claim(j)
        <5> DEFINE t == [task[w][j] EXCEPT !.pc = "claimed", !.tok = nextToken]
        <5>1. nextToken' = nextToken + 1
          BY <4>1 DEF Claim
        <5>2. CASE task' = [task EXCEPT ![w][j].pc = "claimed",
                                        ![w][j].tok = nextToken]
          <6>1. task' = [task EXCEPT ![w][j] = t]
            BY <1>0, <5>2
          <6>2. t \in Task /\ t.tok = nextToken /\ t.pc = "claimed"
            BY <1>0, <3>0 DEF Task, Sync
          <6>3. OneTask(w, j, t)
            BY <5>1, <6>1, <6>2 DEF OneTask
          <6> QED BY <1>1, <6>3
        <5> QED BY <1>3, <3>2, <5>2 DEF TryClaim
      <4> QED BY <1>3, <3>2, <4>1 DEF TryClaim
    <3>3. CASE Begin(w, j)
      <4> DEFINE t == [task[w][j] EXCEPT !.pc = "running", !.hb = HbTicks,
                                         !.cw = TRUE]
      <4>1. t \in Task /\ t.tok = task[w][j].tok /\ t.pc = "running"
        BY <3>0, HbIsNat DEF Task, Off
      <4>2. CASE task' = [task EXCEPT ![w][j] = t]
        <5>1. OneTask(w, j, t)
          BY <4>1, <4>2 DEF OneTask
        <5> QED BY <1>1, <5>1
      <4>3. CASE End(w, j)
        BY <1>3, <4>3
      <4>4. ASSUME task' = [task EXCEPT ![w][j].pc = "running",
                                        ![w][j].hb = HbTicks,
                                        ![w][j].cw = TRUE]
            PROVE  task' = [task EXCEPT ![w][j] = t]
        BY <1>0, <4>4
      <4> QED BY <3>3, <4>2, <4>3, <4>4 DEF Begin
    <3>4. CASE Finish(w, j)
      <4>1. PICK s \in {"completed", "failed"} :
              task' = [task EXCEPT ![w][j].pc = "computed", ![w][j].out = s]
        BY <3>4 DEF Finish
      <4> DEFINE t == [task[w][j] EXCEPT !.pc = "computed", !.out = s]
      <4>2. t \in Task /\ t.tok = task[w][j].tok /\ t.out = s
        BY <3>0 DEF Task, Sync, Terminal
      <4>3. task' = [task EXCEPT ![w][j] = t]
        BY <1>0, <4>1
      <4>4. OneTask(w, j, t)
        BY <4>2, <4>3 DEF OneTask
      <4> QED BY <1>1, <4>4
    <3>5. CASE Interrupted(w, j)
      BY <1>3, <3>5 DEF Interrupted
    <3>6. CASE RecheckStatus(w, j) \/ StoreResult(w, j)
      BY <1>3, <1>4, <3>6 DEF RecheckStatus, StoreResult, At
    <3>7. CASE DeliverResult(w, j) \/ FailDeliver(w, j)
      BY <1>3, <3>7 DEF DeliverResult, FailDeliver
    <3>8. CASE FailRecheck(w, j) \/ FailStore(w, j) \/ StoreError(w, j)
      BY <1>3, <1>4, <3>8 DEF FailRecheck, FailStore, StoreError
    <3>9. CASE SideStep(w, j) \/ SideTaskError(w, j)
      <4>1. ASSUME NEW h \in {Off, HbTicks, task[w][j].hb},
                   NEW c \in BOOLEAN, NEW i \in BOOLEAN,
                   task' = [task EXCEPT ![w][j].hb = h, ![w][j].cw = c,
                                        ![w][j].intr = i]
            PROVE  TaskInv'
        <5> DEFINE t == [task[w][j] EXCEPT !.hb = h, !.cw = c, !.intr = i]
        <5>1. /\ t \in Task /\ t.tok = task[w][j].tok
              /\ t.pc = task[w][j].pc /\ t.out = task[w][j].out
          <6>1. h \in {Off} \cup Nat
            BY <3>0, HbIsNat DEF Task
          <6> QED BY <3>0, <6>1 DEF Task
        <5>2. task' = [task EXCEPT ![w][j] = t]
          BY <1>0, <4>1
        <5>3. OneTask(w, j, t)
          BY <1>0, <5>1, <5>2 DEF OneTask, TaskInv, OutKnown
        <5> QED BY <1>1, <5>3
      <4>2. /\ task[w][j].hb \in {Off, HbTicks, task[w][j].hb}
            /\ task[w][j].cw \in BOOLEAN /\ task[w][j].intr \in BOOLEAN
        BY <3>0 DEF Task
      <4>3. CASE HeartbeatStep(w, j)
        <5>1. CASE task' = [task EXCEPT ![w][j].hb = HbTicks]
          <6>1. task' = [task EXCEPT ![w][j].hb = HbTicks,
                                     ![w][j].cw = task[w][j].cw,
                                     ![w][j].intr = task[w][j].intr]
            BY <1>0, <3>0, <5>1 DEF Task
          <6> QED BY <4>1, <4>2, <6>1
        <5>2. CASE task' = [task EXCEPT ![w][j].hb = Off, ![w][j].intr = TRUE]
          <6>1. task' = [task EXCEPT ![w][j].hb = Off,
                                     ![w][j].cw = task[w][j].cw,
                                     ![w][j].intr = TRUE]
            BY <1>0, <3>0, <5>2 DEF Task
          <6> QED BY <4>1, <4>2, <6>1
        <5> QED BY <4>3, <5>1, <5>2 DEF HeartbeatStep
      <4>4. CASE CancelWatchStep(w, j)
        <5> DEFINE i == task[w][j].intr \/ rows[j].status = "cancelled"
        <5>1. task' = [task EXCEPT ![w][j].hb = task[w][j].hb,
                                   ![w][j].cw = FALSE,
                                   ![w][j].intr = i]
          BY <1>0, <3>0, <4>4 DEF Task, CancelWatchStep
        <5>2. i \in BOOLEAN
          BY <4>2
        <5> HIDE DEF i
        <5> QED BY <4>1, <4>2, <5>1, <5>2
      <4>5. CASE SideTaskError(w, j)
        <5>1. CASE task' = [task EXCEPT ![w][j].hb = Off]
          <6>1. task' = [task EXCEPT ![w][j].hb = Off,
                                     ![w][j].cw = task[w][j].cw,
                                     ![w][j].intr = task[w][j].intr]
            BY <1>0, <3>0, <5>1 DEF Task
          <6> QED BY <4>1, <4>2, <6>1
        <5>2. CASE task' = [task EXCEPT ![w][j].cw = FALSE]
          <6>1. task' = [task EXCEPT ![w][j].hb = task[w][j].hb,
                                     ![w][j].cw = FALSE,
                                     ![w][j].intr = task[w][j].intr]
            BY <1>0, <3>0, <5>2 DEF Task
          <6> QED BY <4>1, <4>2, <6>1
        <5> QED BY <4>5, <5>1, <5>2 DEF SideTaskError
      <4> QED BY <3>9, <4>3, <4>4, <4>5 DEF SideStep
    <3> QED
      BY <2>3, <3>1, <3>2, <3>3, <3>4, <3>5, <3>6, <3>7, <3>8, <3>9
      DEF TaskStep
  <2> QED
    BY <1>5, <2>1, <2>2, <2>3 DEF WorkerNext, Crash, Drained
<1>6. CASE ClientNext
  <2>1. ASSUME NEW c \in Callers, NEW j \in Jobs, CancelInterrupt(c, j)
        PROVE  TaskInv'
    <3>1. CASE UNCHANGED task
      BY <1>2, <3>1
    <3>2. CASE /\ Home[c] \in Workers
               /\ task' = [task EXCEPT ![Home[c]][j].intr = TRUE]
      <4> DEFINE w == Home[c]
                 t == [task[w][j] EXCEPT !.intr = TRUE]
      <4>1. task[w][j] \in Task
        BY <1>0, <3>2
      <4>2. /\ t \in Task /\ t.tok = task[w][j].tok
            /\ t.pc = task[w][j].pc /\ t.out = task[w][j].out
        BY <4>1 DEF Task
      <4>3. OneTask(w, j, t)
        BY <1>0, <3>2, <4>2 DEF OneTask, TaskInv, OutKnown
      <4> QED BY <1>1, <3>2, <4>3
    <3> QED BY <2>1, <3>1, <3>2 DEF CancelInterrupt
  <2> QED
    BY <1>2, <1>6, <2>1
    DEF ClientNext, Submit, RequeueJob, CancelRead, CallStep, CancelStatus,
        CancelResult, CancelDeliver, RemoveRow, Clear
<1>7. CASE TickClock
  <2> DEFINE later(t) == [t EXCEPT !.hb = IF @ > 0 THEN @ - 1 ELSE @]
  <2>1. ASSUME NEW t \in Task
        PROVE  /\ later(t) \in Task /\ later(t).tok = t.tok
               /\ later(t).pc = t.pc /\ later(t).out = t.out
    <3>1. (IF t.hb > 0 THEN t.hb - 1 ELSE t.hb) \in {Off} \cup Nat
      BY DEF Task, Off
    <3> QED BY <3>1 DEF Task
  <2>2. task' = [w \in Workers |-> [j \in Jobs |-> later(task[w][j])]]
    BY <1>7 DEF TickClock
  <2> HIDE DEF later
  <2>3. task' \in [Workers -> [Jobs -> Task]]
    BY <1>0, <2>1, <2>2
  <2>4. \A w \in Workers, j \in Jobs :
          /\ task'[w][j].tok = task[w][j].tok
          /\ task'[w][j].pc = task[w][j].pc
          /\ task'[w][j].out = task[w][j].out
    BY <1>0, <2>1, <2>2
  <2>5. \A w \in Workers, j \in Jobs : task[w][j].tok \in Nat
    BY <1>0 DEF Task
  <2>6. TaskTokens'
    BY <1>0, <2>4, <2>5 DEF TaskInv, TaskTokens
  <2>7. OutKnown'
    BY <1>0, <2>4 DEF TaskInv, OutKnown
  <2> QED BY <2>3, <2>6, <2>7 DEF TaskInv
<1>8. CASE UNCHANGED vars
  BY <1>2, <1>8 DEF vars
<1> QED
  BY <1>5, <1>6, <1>7, <1>8 DEF Next

\* The variables no other lemma types.
LEMMA OtherTypesStep ==
  ASSUME IInv, [Next]_vars
  PROVE  /\ phase' \in [Workers -> {"up", "draining", "down"}]
         /\ loop' \in [Workers -> {"reclaim", "list"}]
         /\ batch' \in [Workers -> SUBSET Jobs]
         /\ api' \in [Callers -> ApiCall]
         /\ outfile' \in [Jobs -> {NoResult} \cup Terminal]
         /\ faults' \in Nat
         /\ accepted' \in [Jobs -> Nat]
         /\ requeued' \in [Jobs -> Nat]
<1> DEFINE Goal == /\ phase' \in [Workers -> {"up", "draining", "down"}]
                   /\ loop' \in [Workers -> {"reclaim", "list"}]
                   /\ batch' \in [Workers -> SUBSET Jobs]
                   /\ api' \in [Callers -> ApiCall]
                   /\ outfile' \in [Jobs -> {NoResult} \cup Terminal]
                   /\ faults' \in Nat
                   /\ accepted' \in [Jobs -> Nat]
                   /\ requeued' \in [Jobs -> Nat]
<1>0. TypeOK
  BY DEF IInv
<1>1. ASSUME NEW w \in Workers, WorkerNext(w)
      PROVE  Goal
  <2>1. CASE PollReclaim(w) \/ PollList(w) \/ Restart(w)
    BY <1>0, <2>1
    DEF TypeOK, PollReclaim, PollList, Restart, ghostVars
  <2>2. CASE Crash(w) \/ Drained(w)
    <3>1. Idle \in ApiCall
      BY DEF Idle, ApiCall
    <3>2. Stopped(w) /\ UNCHANGED <<outfile, accepted, requeued>>
      BY <2>2 DEF Crash, Drained, Fault, ghostVars
    <3>3. api' \in [Callers -> ApiCall]
      BY <1>0, <3>1, <3>2 DEF TypeOK, Stopped
    <3>4. faults' \in Nat
      BY <1>0, <2>2 DEF TypeOK, Crash, Drained, Fault, ghostVars
    <3> QED BY <1>0, <3>2, <3>3, <3>4 DEF TypeOK, Stopped
  <2>3. CASE Close(w)
    BY <1>0, <2>3 DEF TypeOK, Close, Fault
  <2>4. ASSUME NEW j \in Jobs,
               \/ Dispatch(w, j) \/ Finish(w, j) \/ Interrupted(w, j)
               \/ SideStep(w, j) \/ TryClaim(w, j) \/ Begin(w, j)
               \/ RecheckStatus(w, j) \/ FailRecheck(w, j)
        PROVE  Goal
    BY <1>0, <2>4
    DEF TypeOK, Dispatch, Finish, Interrupted, SideStep, HeartbeatStep,
        CancelWatchStep, TryClaim, Begin, RecheckStatus, FailRecheck,
        procVars, ghostVars
  <2>5. ASSUME NEW j \in Jobs, StoreResult(w, j) \/ FailStore(w, j)
        PROVE  Goal
    BY <1>0, <2>5 DEF TypeOK, StoreResult, FailStore, procVars
  <2>6. ASSUME NEW j \in Jobs, DeliverResult(w, j) \/ FailDeliver(w, j)
        PROVE  Goal
    <3>1. task[w][j].out \in {NoResult} \cup Terminal
      BY <1>0 DEF TypeOK, Task
    <3> QED BY <1>0, <2>6, <3>1
            DEF TypeOK, DeliverResult, FailDeliver, Terminal, procVars,
                ghostVars
  <2>7. ASSUME NEW j \in Jobs, StoreError(w, j) \/ SideTaskError(w, j)
        PROVE  Goal
    BY <1>0, <2>7 DEF TypeOK, StoreError, SideTaskError, Fault, procVars
  <2> QED
    BY <1>1, <2>1, <2>2, <2>3, <2>4, <2>5, <2>6, <2>7 DEF WorkerNext, TaskStep
<1>2. CASE ClientNext
  <2>1. ASSUME NEW j \in Jobs, Submit(j) \/ RequeueJob(j)
        PROVE  Goal
    <3>1. CASE Submit(j)
      BY <1>0, <3>1 DEF TypeOK, Submit, procVars, ghostVars
    <3>2. CASE RequeueJob(j)
      <4>1. requeued' \in [Jobs -> Nat]
        BY <1>0, <3>2 DEF TypeOK, RequeueJob
      <4> QED BY <1>0, <3>2, <4>1 DEF TypeOK, RequeueJob, procVars
    <3> QED BY <2>1, <3>1, <3>2
  <2>2. ASSUME NEW j \in Jobs, NEW c \in Callers,
               CancelRead(c, j) \/ CallStep(c, j)
        PROVE  Goal
    <3>1. /\ api[c] \in ApiCall /\ Idle \in ApiCall
          /\ \A pc \in {"flagged", "recorded", "delivered", "removing"} :
               [api[c] EXCEPT !.pc = pc] \in ApiCall
          /\ \A pc \in {"read", "removing"}, del \in BOOLEAN :
               [pc |-> pc, job |-> j, del |-> del] \in ApiCall
      BY <1>0 DEF TypeOK, ApiCall, Idle
    <3> HIDE DEF Goal
    <3>2. CASE CancelRead(c, j)
      BY <1>0, <3>1, <3>2
      DEF Goal, TypeOK, CancelRead, procVars, ghostVars
    <3>3. CASE CancelStatus(c, j) \/ CancelResult(c, j) \/ CancelInterrupt(c, j)
               \/ RemoveRow(c, j)
      BY <1>0, <3>1, <3>3
      DEF Goal, TypeOK, CancelStatus, CancelResult, CancelInterrupt, RemoveRow,
          Step, Return, procVars, ghostVars
    <3>4. CASE CancelDeliver(c, j)
      BY <1>0, <3>1, <3>4
      DEF Goal, TypeOK, CancelDeliver, Step, Terminal, procVars, ghostVars
    <3> QED BY <2>2, <3>2, <3>3, <3>4 DEF CallStep
  <2>3. ASSUME NEW S \in SUBSET Jobs, Clear(S)
        PROVE  Goal
    BY <1>0, <2>3 DEF TypeOK, Clear, procVars, ghostVars
  <2> QED BY <1>2, <2>1, <2>2, <2>3 DEF ClientNext
<1>3. CASE TickClock
  BY <1>0, <1>3 DEF TypeOK, TickClock, procVars, ghostVars
<1>4. CASE UNCHANGED vars
  BY <1>0, <1>4 DEF TypeOK, vars, procVars, ghostVars
<1> QED
  BY <1>1, <1>2, <1>3, <1>4 DEF Next

\* A job still owed a result stays so, or is over; one that is over is revived
\* only by a requeue.
Open(j) == rows[j].status \notin Terminal \cup {"deleted"}
NoRevival == \A j \in Jobs : Open(j)' => Open(j)

\* Operations of the store that bring no job back.
LEMMA NoRevivalOps ==
  ASSUME StoreTypeOK, NEW j \in Jobs,
         \/ Enqueue(j) \/ Claim(j) \/ UpdateStatus(j, "cancelled")
         \/ \E s \in {"failed", "cancelled"} : SetResult(j, s)
         \/ \E t : Heartbeat(j, t)
         \/ \E t, s : s \in Terminal /\ SetResultOwned(j, t, s)
  PROVE  NoRevival
<1>0. /\ rows \in [Jobs -> Row]
      /\ \A k \in Jobs : rows[k].status \in RowStatus
  BY DEF StoreTypeOK, Row
<1>1. ASSUME NEW s \in RowStatus, Open(j) \/ s \in Terminal,
             \A k \in Jobs : rows'[k].status \in {rows[k].status,
                                                IF k = j THEN s
                                                ELSE rows[k].status}
      PROVE  NoRevival
  BY <1>1 DEF NoRevival, Open
<1>2. CASE Enqueue(j)
  BY <1>0, <1>1, <1>2 DEF Enqueue, Absent, Open, Terminal, RowStatus, JobStatus
<1>3. CASE Claim(j)
  BY <1>0, <1>1, <1>3
  DEF Claim, Claimable, Open, Terminal, RowStatus, JobStatus, Row
<1>4. CASE UpdateStatus(j, "cancelled")
  BY <1>0, <1>1, <1>4 DEF UpdateStatus, Terminal, RowStatus, JobStatus, Row
<1>5. ASSUME NEW s \in {"failed", "cancelled"}, SetResult(j, s)
      PROVE  NoRevival
  BY <1>0, <1>1, <1>5 DEF SetResult, WithResult, Terminal, RowStatus, JobStatus, Row
<1>6. ASSUME NEW t, Heartbeat(j, t)
      PROVE  NoRevival
  BY <1>0, <1>6 DEF Heartbeat, NoRevival, Open, Row
<1>7. ASSUME NEW t, NEW s \in Terminal, SetResultOwned(j, t, s)
      PROVE  NoRevival
  <2>0. rows' = WithResult(j, s) /\ s \in Terminal
    BY <1>7 DEF SetResultOwned
  <2>1. \A k \in Jobs : rows'[k].status = IF k = j THEN s ELSE rows[k].status
    <3>1. \A k \in Jobs : k # j => rows'[k] = rows[k]
      BY <1>0, <2>0 DEF WithResult
    <3>2. rows'[j].status = s
      BY <1>0, <2>0 DEF WithResult, Row
    <3> QED BY <3>1, <3>2
  <2>2. s \in RowStatus
    BY DEF RowStatus, JobStatus
  <2> QED BY <1>1, <2>1, <2>2
<1> QED
  BY <1>2, <1>3, <1>4, <1>5, <1>6, <1>7

LEMMA NoRevivalSets ==
  ASSUME StoreTypeOK,
         \/ \E S \in SUBSET Jobs : Reclaim(S) \/ Delete(S)
         \/ Tick
         \/ UNCHANGED storeVars
  PROVE  NoRevival
<1>1. ASSUME NEW S \in SUBSET Jobs, Reclaim(S) PROVE NoRevival
  BY <1>1 DEF StoreTypeOK, Reclaim, ReclaimRows, Stale, NoRevival, Open, Terminal,
              Row
<1>2. ASSUME NEW S \in SUBSET Jobs, Delete(S) PROVE NoRevival
  BY <1>2 DEF StoreTypeOK, Delete, Absent, NoRevival, Open
<1>3. CASE Tick
  BY <1>3 DEF StoreTypeOK, Tick, Row, NoRevival, Open
<1>4. CASE UNCHANGED storeVars
  BY <1>4 DEF storeVars, NoRevival, Open
<1> QED
  BY <1>1, <1>2, <1>3, <1>4

\* A result is accepted only from the owner of a processing row, and makes the
\* row terminal; a requeue allows for one more.
LEMMA OwedStep ==
  ASSUME IInv, [Next]_vars
  PROVE  Owed'
<1>0. /\ StoreTypeOK /\ Owed
      /\ accepted \in [Jobs -> Nat] /\ requeued \in [Jobs -> Nat]
      /\ rows \in [Jobs -> Row]
  BY DEF IInv, TypeOK, StoreTypeOK
<1>1. ASSUME NoRevival, UNCHANGED <<accepted, requeued>>
      PROVE  Owed'
  BY <1>0, <1>1 DEF Owed, NoRevival, Open
<1>2. ASSUME NEW j \in Jobs, NEW t, NEW s \in Terminal,
             SetResultOwned(j, t, s),
             accepted' = [accepted EXCEPT ![j] = @ + 1],
             UNCHANGED requeued
      PROVE  Owed'
  <2>1. /\ rows[j].status = "processing"
        /\ \A k \in Jobs : rows'[k].status = IF k = j THEN s
                                             ELSE rows[k].status
    BY <1>0, <1>2 DEF SetResultOwned, Owns, WithResult, Row
  <2>2. accepted[j] =< requeued[j]
    BY <1>0, <2>1 DEF Owed, Terminal
  <2> QED BY <1>0, <1>2, <2>1, <2>2 DEF Owed
<1>3. ASSUME NEW w \in Workers, WorkerNext(w)
      PROVE  Owed'
  <2>1. CASE PollReclaim(w) \/ Restart(w)
    BY <1>0, <1>1, <2>1, NoRevivalSets
    DEF PollReclaim, Restart, ReclaimStale, ghostVars
  <2>2. CASE \/ PollList(w) \/ Crash(w) \/ Close(w) \/ Drained(w)
             \/ \E j \in Jobs : \/ Dispatch(w, j) \/ Finish(w, j)
                                \/ Interrupted(w, j) \/ StoreError(w, j)
                                \/ SideTaskError(w, j)
    BY <1>0, <1>1, <2>2, NoRevivalSets
    DEF PollList, Crash, Close, Drained, Dispatch, Finish, Interrupted,
        StoreError, SideTaskError, Fault, ghostVars
  <2>3. ASSUME NEW j \in Jobs, TaskStep(w, j) \/ SideStep(w, j)
        PROVE  Owed'
    <3>1. CASE TryClaim(w, j) \/ SideStep(w, j)
      BY <1>0, <1>1, <3>1, NoRevivalOps, NoRevivalSets
      DEF TryClaim, SideStep, HeartbeatStep, CancelWatchStep, ghostVars
    <3>2. CASE StoreResult(w, j)
      <4>1. task[w][j].out \in Terminal
        BY <3>2 DEF StoreResult, At, IInv, OutKnown, Terminal
      <4>2. CASE UNCHANGED <<storeVars, accepted>>
        BY <1>0, <1>1, <3>2, <4>2, NoRevivalSets DEF StoreResult
      <4> QED BY <1>2, <3>2, <4>1, <4>2 DEF StoreResult
    <3>3. CASE FailStore(w, j)
      <4>1. CASE UNCHANGED accepted
        BY <1>0, <1>1, <3>3, <4>1, NoRevivalOps, NoRevivalSets
        DEF FailStore, SetResultOwned, Terminal
      <4>2. CASE /\ SetResultOwned(j, task[w][j].tok, "failed")
                 /\ accepted' = [accepted EXCEPT ![j] = @ + 1]
        BY <1>2, <3>3, <4>2 DEF FailStore, Terminal
      <4> QED BY <3>3, <4>1, <4>2 DEF FailStore
    <3>4. CASE \/ Begin(w, j) \/ RecheckStatus(w, j) \/ DeliverResult(w, j)
               \/ FailRecheck(w, j) \/ FailDeliver(w, j)
      BY <1>0, <1>1, <3>4, NoRevivalSets
      DEF Begin, RecheckStatus, DeliverResult, FailRecheck, FailDeliver,
          ghostVars
    <3> QED BY <2>3, <3>1, <3>2, <3>3, <3>4 DEF TaskStep
  <2> QED BY <1>3, <2>1, <2>2, <2>3 DEF WorkerNext
<1>4. CASE ClientNext
  <2>1. ASSUME NEW j \in Jobs, RequeueJob(j)
        PROVE  Owed'
    <3>1. \A k \in Jobs : k # j => rows'[k] = rows[k]
      BY <1>0, <2>1 DEF RequeueJob, Requeue
    <3> QED BY <1>0, <2>1, <3>1 DEF RequeueJob, Owed
  <2>2. ASSUME NEW j \in Jobs, Submit(j)
        PROVE  Owed'
    BY <1>0, <1>1, <2>2, NoRevivalOps DEF Submit, ghostVars
  <2>3. ASSUME NEW j \in Jobs, NEW c \in Callers,
               CancelRead(c, j) \/ CallStep(c, j)
        PROVE  Owed'
    BY <1>0, <1>1, <2>3, NoRevivalOps, NoRevivalSets
    DEF CancelRead, CallStep, CancelStatus, CancelResult, CancelDeliver,
        CancelInterrupt, RemoveRow, ghostVars
  <2>4. ASSUME NEW S \in SUBSET Jobs, Clear(S)
        PROVE  Owed'
    BY <1>0, <1>1, <2>4, NoRevivalSets DEF Clear, ghostVars
  <2> QED BY <1>4, <2>1, <2>2, <2>3, <2>4 DEF ClientNext
<1>5. CASE TickClock
  BY <1>0, <1>1, <1>5, NoRevivalSets DEF TickClock, ghostVars
<1>6. CASE UNCHANGED vars
  BY <1>0, <1>1, <1>6, NoRevivalSets DEF vars, ghostVars
<1> QED
  BY <1>3, <1>4, <1>5, <1>6 DEF Next

LEMMA IInvStep == IInv /\ [Next]_vars => IInv'
<1> SUFFICES ASSUME IInv, [Next]_vars PROVE IInv'
  OBVIOUS
<1>1. TypeOK'
  BY StoreInvStep, TaskInvStep, OtherTypesStep DEF TypeOK, TaskInv
<1> QED
  BY <1>1, StoreInvStep, TaskInvStep, OwedStep DEF IInv, TaskInv

LEMMA Inductive == Spec => []IInv
<1> QED
  BY InitIInv, IInvStep, PTL DEF Spec

-----------------------------------------------------------------------------

\* Every variable keeps its type, for any workers, callers and bounds.
THEOREM WorkerTypes == Spec => []TypeOK
<1>1. IInv => TypeOK
  BY DEF IInv
<1> QED
  BY <1>1, Inductive, PTL

\* Workers, clients, crashes and restarts use the job table only as its
\* specification says, so all that StoreSpec guarantees holds under them.
THEOREM WorkerImplementsStore == Spec => StoreSpec
<1>1. Init => StoreInit
  BY DEF Init
<1>2. IInv /\ [Next]_vars => [StoreNext]_storeVars
  BY StepAllowed
<1> QED
  BY <1>1, <1>2, Inductive, PTL DEF Spec, StoreSpec

\* The lease token fences: of all the tasks on a job, in any number of
\* processes, set_result accepts the result of at most one.
THEOREM Fenced == Spec => []FencedOwner
<1>1. IInv => FencedOwner
  BY DEF IInv, TaskTokens, FencedOwner, CanStore, Owns
<1> QED
  BY <1>1, Inductive, PTL

\* A job gets at most one worker result for its submission and each requeue.
THEOREM AtMostOneResult == Spec => []AcceptedOnce
<1>1. IInv => AcceptedOnce
  BY DEF IInv, Owed, AcceptedOnce
<1> QED
  BY <1>1, Inductive, PTL

-----------------------------------------------------------------------------
(* Steps of the table and of the tasks, column by column.                  *)

\* What each operation of the table does to its row and to the others.
OthersStay(j) == \A k \in Jobs : k # j => rows'[k] = rows[k]
Columns(j, s, l, t, r) ==
  /\ rows'[j].status = s /\ rows'[j].lease = l
  /\ rows'[j].token = t /\ rows'[j].result = r
  /\ OthersStay(j)

LEMMA ClaimEffect ==
  ASSUME StoreTypeOK, NEW j \in Jobs, Claim(j)
  PROVE  /\ rows[j].status = "queued"
         /\ Columns(j, "processing", LeaseTicks, nextToken, rows[j].result)
  BY DEF StoreTypeOK, Row, Claim, Claimable, Columns, OthersStay

LEMMA EnqueueEffect ==
  ASSUME StoreTypeOK, NEW j \in Jobs, Enqueue(j)
  PROVE  /\ rows[j].status = "new"
         /\ Columns(j, "queued", Lapsed, NoToken, NoResult)
  BY DEF StoreTypeOK, Row, Enqueue, Absent, Columns, OthersStay

LEMMA HeartbeatEffect ==
  ASSUME StoreTypeOK, NEW j \in Jobs, NEW t, Heartbeat(j, t)
  PROVE  /\ Owns(j, t)
         /\ Columns(j, rows[j].status, LeaseTicks, rows[j].token, rows[j].result)
  BY DEF StoreTypeOK, Row, Heartbeat, Columns, OthersStay

LEMMA ResultEffect ==
  ASSUME StoreTypeOK, NEW j \in Jobs, NEW s,
         \/ \E t : SetResultOwned(j, t, s)
         \/ SetResult(j, s) /\ Exists(j)
  PROVE  Columns(j, s, Lapsed, NoToken, s)
<1>1. rows' = WithResult(j, s)
  BY DEF SetResultOwned, SetResult
<1> QED
  BY <1>1 DEF StoreTypeOK, Row, WithResult, Columns, OthersStay

LEMMA StatusEffect ==
  ASSUME StoreTypeOK, NEW j \in Jobs, UpdateStatus(j, "cancelled"), Exists(j)
  PROVE  Columns(j, "cancelled", rows[j].lease, rows[j].token, rows[j].result)
  BY DEF StoreTypeOK, Row, UpdateStatus, Columns, OthersStay

LEMMA RequeueEffect ==
  ASSUME StoreTypeOK, NEW j \in Jobs, NEW from, Requeue(j, from)
  PROVE  /\ rows[j].status \in from
         /\ Columns(j, "queued", Lapsed, NoToken, NoResult)
  BY DEF StoreTypeOK, Row, Requeue, Columns, OthersStay

LEMMA ReclaimEffect ==
  ASSUME StoreTypeOK, NEW S \in SUBSET Jobs, Reclaim(S), NEW k \in Jobs
  PROVE  \/ rows'[k] = rows[k]
         \/ /\ Stale(k) /\ rows'[k].status = "queued"
            /\ rows'[k].token = NoToken /\ rows'[k].result = rows[k].result
  BY DEF StoreTypeOK, Row, Reclaim, ReclaimRows

LEMMA DeleteEffect ==
  ASSUME NEW S \in SUBSET Jobs, Delete(S), NEW k \in Jobs
  PROVE  \/ rows'[k] = rows[k]
         \/ Exists(k) /\ rows'[k] = Absent("deleted")
  BY DEF Delete

LEMMA TickEffect ==
  ASSUME StoreTypeOK, Tick, NEW k \in Jobs
  PROVE  /\ rows'[k].status = rows[k].status
         /\ rows'[k].token = rows[k].token
         /\ rows'[k].result = rows[k].result
         /\ rows'[k].lease = IF rows[k].lease > Lapsed THEN rows[k].lease - 1
                                                       ELSE Lapsed
  BY DEF StoreTypeOK, Row, Tick


\* What the steps of a worker do to its task, field by field, and to the others.
Moved(w, j, pc, tok, out, hb) ==
  /\ task'[w][j].pc = pc /\ task'[w][j].tok = tok
  /\ task'[w][j].out = out /\ task'[w][j].hb = hb
  /\ \A v \in Workers, k \in Jobs : v # w \/ k # j => task'[v][k] = task[v][k]
Ended(w, j) == Moved(w, j, "none", NoToken, NoResult, Off)
GoesTo(w, j, pc) == Moved(w, j, pc, task[w][j].tok, task[w][j].out, task[w][j].hb)

LEMMA SetMoves ==
  ASSUME task \in [Workers -> [Jobs -> Task]],
         NEW w \in Workers, NEW j \in Jobs, NEW t,
         task' = [task EXCEPT ![w][j] = t]
  PROVE  Moved(w, j, t.pc, t.tok, t.out, t.hb)
<1>1. task'[w][j] = t
  OBVIOUS
<1>2. \A v \in Workers, k \in Jobs : v # w \/ k # j => task'[v][k] = task[v][k]
  OBVIOUS
<1> QED  BY <1>1, <1>2 DEF Moved

LEMMA EndMoves ==
  ASSUME task \in [Workers -> [Jobs -> Task]],
         NEW w \in Workers, NEW j \in Jobs, End(w, j)
  PROVE  Ended(w, j)
<1>1. /\ NoTask.pc = "none" /\ NoTask.tok = NoToken
      /\ NoTask.out = NoResult /\ NoTask.hb = Off
  BY DEF NoTask
<1> QED  BY <1>1, SetMoves DEF End, Ended

LEMMA GotoMoves ==
  ASSUME task \in [Workers -> [Jobs -> Task]],
         NEW w \in Workers, NEW j \in Jobs, NEW pc, Goto(w, j, pc)
  PROVE  GoesTo(w, j, pc)
<1> DEFINE t == [task[w][j] EXCEPT !.pc = pc]
<1>1. task' = [task EXCEPT ![w][j] = t]
  BY DEF Goto
<1>2. task[w][j] \in Task
  OBVIOUS
<1>3. t.pc = pc /\ t.tok = task[w][j].tok /\ t.out = task[w][j].out /\ t.hb = task[w][j].hb
  BY <1>2 DEF Task
<1> HIDE DEF t
<1> QED  BY <1>1, <1>3, SetMoves DEF GoesTo

LEMMA TaskMoves ==
  ASSUME task \in [Workers -> [Jobs -> Task]], NEW w \in Workers, NEW j \in Jobs
  PROVE  LET old == task[w][j] IN
    /\ TryClaim(w, j) =>
         \/ Claim(j) /\ Moved(w, j, "claimed", nextToken, old.out, old.hb)
         \/ UNCHANGED storeVars /\ Ended(w, j)
    /\ Begin(w, j) =>
         \/ /\ Exists(j) /\ rows[j].status # "cancelled"
            /\ Moved(w, j, "running", old.tok, old.out, HbTicks)
         \/ Ended(w, j)
    /\ Finish(w, j) =>
         \E s \in {"completed", "failed"} : Moved(w, j, "computed", old.tok, s, old.hb)
    /\ HeartbeatStep(w, j) =>
         \/ Heartbeat(j, old.tok) /\ Moved(w, j, old.pc, old.tok, old.out, HbTicks)
         \/ /\ ~Owns(j, old.tok) /\ UNCHANGED storeVars
            /\ Moved(w, j, old.pc, old.tok, old.out, Off)
    /\ CancelWatchStep(w, j) => GoesTo(w, j, old.pc)
    /\ SideTaskError(w, j) => Moved(w, j, old.pc, old.tok, old.out, Off)
                              \/ GoesTo(w, j, old.pc)
<1>0. task[w][j] \in Task
  OBVIOUS
<1> DEFINE old == task[w][j]
<1>1. ASSUME TryClaim(w, j)
      PROVE  \/ Claim(j) /\ Moved(w, j, "claimed", nextToken, old.out, old.hb)
             \/ UNCHANGED storeVars /\ Ended(w, j)
  <2> DEFINE t == [task[w][j] EXCEPT !.pc = "claimed", !.tok = nextToken]
  <2>1. t.pc = "claimed" /\ t.tok = nextToken /\ t.out = old.out /\ t.hb = old.hb
    BY <1>0 DEF Task
  <2>2. \/ Claim(j) /\ task' = [task EXCEPT ![w][j] = t]
        \/ End(w, j) /\ UNCHANGED storeVars
    BY <1>1 DEF TryClaim
  <2> HIDE DEF t
  <2> QED  BY <2>1, <2>2, SetMoves, EndMoves
<1>2. ASSUME Begin(w, j)
      PROVE  \/ /\ Exists(j) /\ rows[j].status # "cancelled"
                /\ Moved(w, j, "running", old.tok, old.out, HbTicks)
             \/ Ended(w, j)
  <2> DEFINE t == [task[w][j] EXCEPT !.pc = "running", !.hb = HbTicks, !.cw = TRUE]
  <2>1. t.pc = "running" /\ t.tok = old.tok /\ t.out = old.out /\ t.hb = HbTicks
    BY <1>0 DEF Task
  <2>2. \/ /\ Exists(j) /\ rows[j].status # "cancelled"
           /\ task' = [task EXCEPT ![w][j] = t]
        \/ End(w, j)
    BY <1>2 DEF Begin
  <2> HIDE DEF t
  <2> QED  BY <2>1, <2>2, SetMoves, EndMoves
<1>3. ASSUME Finish(w, j)
      PROVE  \E s \in {"completed", "failed"} : Moved(w, j, "computed", old.tok, s, old.hb)
  <2>1. PICK s \in {"completed", "failed"} :
          task' = [task EXCEPT ![w][j] = [task[w][j] EXCEPT !.pc = "computed", !.out = s]]
    BY <1>3 DEF Finish
  <2> DEFINE t == [task[w][j] EXCEPT !.pc = "computed", !.out = s]
  <2>2. t.pc = "computed" /\ t.tok = old.tok /\ t.out = s /\ t.hb = old.hb
    BY <1>0 DEF Task
  <2>3. task' = [task EXCEPT ![w][j] = t]
    BY <2>1
  <2> HIDE DEF t
  <2> QED  BY <2>2, <2>3, SetMoves
<1>4. ASSUME NEW h, NEW c, NEW i,
             task' = [task EXCEPT ![w][j] = [task[w][j] EXCEPT !.hb = h, !.cw = c, !.intr = i]]
      PROVE  Moved(w, j, old.pc, old.tok, old.out, h)
  <2> DEFINE t == [task[w][j] EXCEPT !.hb = h, !.cw = c, !.intr = i]
  <2>1. t.pc = old.pc /\ t.tok = old.tok /\ t.out = old.out /\ t.hb = h
    BY <1>0 DEF Task
  <2>2. task' = [task EXCEPT ![w][j] = t]
    BY <1>4
  <2> HIDE DEF t
  <2> QED  BY <2>1, <2>2, SetMoves
<1>5. ASSUME NEW h, task' = [task EXCEPT ![w][j].hb = h]
      PROVE  Moved(w, j, old.pc, old.tok, old.out, h)
  <2>1. [old EXCEPT !.hb = h] = [old EXCEPT !.hb = h, !.cw = old.cw, !.intr = old.intr]
    BY <1>0 DEF Task
  <2> QED  BY <1>4, <1>5, <2>1
<1>6. ASSUME NEW c, NEW i, task' = [task EXCEPT ![w][j].cw = c, ![w][j].intr = i]
      PROVE  GoesTo(w, j, old.pc)
  <2>1. [old EXCEPT !.cw = c, !.intr = i] = [old EXCEPT !.hb = old.hb, !.cw = c, !.intr = i]
    BY <1>0 DEF Task
  <2>2. task' = [task EXCEPT ![w][j] = [old EXCEPT !.cw = c, !.intr = i]]
    BY <1>6
  <2> QED  BY <1>4, <2>1, <2>2 DEF GoesTo
<1>7. ASSUME HeartbeatStep(w, j)
      PROVE  \/ Heartbeat(j, old.tok) /\ Moved(w, j, old.pc, old.tok, old.out, HbTicks)
             \/ /\ ~Owns(j, old.tok) /\ UNCHANGED storeVars
                /\ Moved(w, j, old.pc, old.tok, old.out, Off)
  <2>1. CASE task' = [task EXCEPT ![w][j].hb = Off, ![w][j].intr = TRUE]
    <3>1. task' = [task EXCEPT ![w][j] = [old EXCEPT !.hb = Off, !.intr = TRUE]]
      BY <2>1
    <3>2. [old EXCEPT !.hb = Off, !.intr = TRUE]
            = [old EXCEPT !.hb = Off, !.cw = old.cw, !.intr = TRUE]
      BY <1>0 DEF Task
    <3>3. Moved(w, j, old.pc, old.tok, old.out, Off)
      BY <1>4, <3>1, <3>2
    <3> QED  BY <1>5, <1>7, <3>3 DEF HeartbeatStep
  <2> QED  BY <1>5, <1>7, <2>1 DEF HeartbeatStep
<1>8. ASSUME CancelWatchStep(w, j) PROVE GoesTo(w, j, old.pc)
  BY <1>6, <1>8 DEF CancelWatchStep
<1>9. ASSUME SideTaskError(w, j)
      PROVE  Moved(w, j, old.pc, old.tok, old.out, Off) \/ GoesTo(w, j, old.pc)
  <2>1. CASE task' = [task EXCEPT ![w][j].cw = FALSE]
    <3>1. [old EXCEPT !.cw = FALSE]
            = [old EXCEPT !.hb = old.hb, !.cw = FALSE, !.intr = old.intr]
      BY <1>0 DEF Task
    <3>2. task' = [task EXCEPT ![w][j] = [old EXCEPT !.cw = FALSE]]
      BY <2>1
    <3> QED  BY <1>4, <3>1, <3>2 DEF GoesTo
  <2> QED  BY <1>5, <1>9, <2>1 DEF SideTaskError
<1> QED  BY <1>1, <1>2, <1>3, <1>7, <1>8, <1>9

\* A worker's step that replaces all its tasks, and the others' steps.
LEMMA StopMoves ==
  ASSUME task \in [Workers -> [Jobs -> Task]], NEW w \in Workers, Stopped(w)
  PROVE  \A v \in Workers, k \in Jobs : task'[v][k] = IF v = w THEN NoTask ELSE task[v][k]
BY DEF Stopped

\* A client leaves the tasks as they are, but for the request to end.
TasksStay ==
  \A v \in Workers, k \in Jobs :
    /\ task'[v][k].pc = task[v][k].pc /\ task'[v][k].tok = task[v][k].tok
    /\ task'[v][k].out = task[v][k].out /\ task'[v][k].hb = task[v][k].hb

LEMMA ClientMoves ==
  ASSUME task \in [Workers -> [Jobs -> Task]], ClientNext
  PROVE  TasksStay
<1>1. ASSUME NEW c \in Callers, NEW j \in Jobs, CancelInterrupt(c, j)
      PROVE  TasksStay
  <2>1. CASE UNCHANGED task
    BY <2>1 DEF TasksStay
  <2>2. CASE /\ Home[c] \in Workers
             /\ task' = [task EXCEPT ![Home[c]][j].intr = TRUE]
    <3> DEFINE w == Home[c]  t == [task[w][j] EXCEPT !.intr = TRUE]
    <3>1. task[w][j] \in Task
      BY <2>2
    <3>2. /\ t.pc = task[w][j].pc /\ t.tok = task[w][j].tok
          /\ t.out = task[w][j].out /\ t.hb = task[w][j].hb
      BY <3>1 DEF Task
    <3>3. task' = [task EXCEPT ![w][j] = t] /\ w \in Workers
      BY <2>2
    <3> HIDE DEF t, w
    <3>4. Moved(w, j, task[w][j].pc, task[w][j].tok, task[w][j].out, task[w][j].hb)
      BY <3>2, <3>3, SetMoves
    <3> QED  BY <3>3, <3>4 DEF Moved, TasksStay
  <2> QED  BY <1>1, <2>1, <2>2 DEF CancelInterrupt
<1>2. CASE UNCHANGED task
  BY <1>2 DEF TasksStay
<1> QED
  BY <1>1, <1>2
  DEF ClientNext, Submit, RequeueJob, CancelRead, CallStep, CancelStatus,
      CancelResult, CancelDeliver, RemoveRow, Clear

LEMMA TickMoves ==
  ASSUME task \in [Workers -> [Jobs -> Task]], TickClock
  PROVE  \A v \in Workers, k \in Jobs :
           /\ task'[v][k].pc = task[v][k].pc /\ task'[v][k].tok = task[v][k].tok
           /\ task'[v][k].out = task[v][k].out
           /\ task'[v][k].hb = IF task[v][k].hb > 0 THEN task[v][k].hb - 1
                                                    ELSE task[v][k].hb
<1> DEFINE later(t) == [t EXCEPT !.hb = IF @ > 0 THEN @ - 1 ELSE @]
<1>1. ASSUME NEW t \in Task
      PROVE  /\ later(t).pc = t.pc /\ later(t).tok = t.tok /\ later(t).out = t.out
             /\ later(t).hb = IF t.hb > 0 THEN t.hb - 1 ELSE t.hb
  BY DEF Task
<1>2. task' = [w \in Workers |-> [j \in Jobs |-> later(task[w][j])]]
  BY DEF TickClock
<1>3. \A v \in Workers, k \in Jobs : task'[v][k] = later(task[v][k]) /\ task[v][k] \in Task
  BY <1>2
<1> HIDE DEF later
<1> QED  BY <1>1, <1>3

-----------------------------------------------------------------------------
(* Cancelled rows.                                                         *)

\* A cancelled row is changed by nobody but a requeue, a delete and another
\* writer of a result without a token.
Unwritten == \A j \in Jobs : rows[j].status = "cancelled" =>
               rows'[j].status = "cancelled" /\ rows'[j].result = rows[j].result
Uncancelled == \A j \in Jobs : rows'[j].status = "cancelled" =>
                 rows[j].status = "cancelled"
Harmless == Unwritten /\ Uncancelled

LEMMA HarmlessSets ==
  ASSUME StoreTypeOK,
         \/ \E S \in SUBSET Jobs : Reclaim(S)
         \/ Tick
         \/ UNCHANGED storeVars
  PROVE  Harmless
<1>1. ASSUME NEW S \in SUBSET Jobs, Reclaim(S) PROVE Harmless
  BY <1>1, ReclaimEffect DEF Harmless, Unwritten, Uncancelled, Stale
<1>2. CASE Tick
  BY <1>2, TickEffect DEF Harmless, Unwritten, Uncancelled
<1>3. CASE UNCHANGED storeVars
  BY <1>3 DEF Harmless, Unwritten, Uncancelled, storeVars
<1> QED  BY <1>1, <1>2, <1>3

LEMMA HarmlessOps ==
  ASSUME StoreTypeOK, NEW j \in Jobs,
         \/ Enqueue(j) \/ Claim(j)
         \/ \E t : Heartbeat(j, t)
         \/ \E t : \E s \in {"completed", "failed"} : SetResultOwned(j, t, s)
  PROVE  Harmless
<1>1. CASE Enqueue(j)
  BY <1>1, EnqueueEffect DEF Harmless, Unwritten, Uncancelled, Columns, OthersStay
<1>2. CASE Claim(j)
  BY <1>2, ClaimEffect DEF Harmless, Unwritten, Uncancelled, Columns, OthersStay
<1>3. ASSUME NEW t, Heartbeat(j, t) PROVE Harmless
  BY <1>3, HeartbeatEffect DEF Harmless, Unwritten, Uncancelled, Columns, OthersStay, Owns
<1>4. ASSUME NEW t, NEW s \in {"completed", "failed"}, SetResultOwned(j, t, s)
      PROVE  Harmless
  <2>1. Columns(j, s, Lapsed, NoToken, s)
    BY <1>4, ResultEffect
  <2> QED  BY <1>4, <2>1
           DEF Harmless, Unwritten, Uncancelled, Columns, OthersStay, SetResultOwned, Owns
<1> QED  BY <1>1, <1>2, <1>3, <1>4

\* The steps of the system, by what they may do to cancelled rows.  Only the
\* handler of a task that never got a token writes over one.
Unfenced(w, j) == task[w][j].tok = NoToken /\ FailStore(w, j)

LEMMA WorkerHarmless ==
  ASSUME IInv, NEW w \in Workers, WorkerNext(w)
  PROVE  Harmless \/ \E j \in Jobs : Unfenced(w, j)
<1>0. StoreTypeOK
  BY DEF IInv, StoreInv
<1>1. CASE PollReclaim(w) \/ Restart(w)
  BY <1>0, <1>1, HarmlessSets DEF PollReclaim, Restart, ReclaimStale
<1>2. CASE \/ PollList(w) \/ Crash(w) \/ Close(w) \/ Drained(w)
           \/ \E j \in Jobs : \/ Dispatch(w, j) \/ Finish(w, j)
                              \/ Interrupted(w, j) \/ StoreError(w, j)
                              \/ SideTaskError(w, j)
  BY <1>0, <1>2, HarmlessSets
  DEF PollList, Crash, Close, Drained, Dispatch, Finish, Interrupted,
      StoreError, SideTaskError
<1>3. ASSUME NEW j \in Jobs, TaskStep(w, j) \/ SideStep(w, j)
      PROVE  Harmless \/ Unfenced(w, j)
  <2>1. CASE TryClaim(w, j) \/ SideStep(w, j)
    BY <1>0, <2>1, HarmlessOps, HarmlessSets
    DEF TryClaim, SideStep, HeartbeatStep, CancelWatchStep
  <2>2. CASE StoreResult(w, j)
    <3>1. task[w][j].out \in {"completed", "failed"}
      BY <2>2 DEF StoreResult, At, IInv, OutKnown
    <3> QED  BY <1>0, <2>2, <3>1, HarmlessOps, HarmlessSets DEF StoreResult
  <2>3. CASE FailStore(w, j)
    BY <1>0, <2>3, HarmlessOps, HarmlessSets DEF FailStore, Unfenced
  <2>4. CASE \/ Begin(w, j) \/ RecheckStatus(w, j) \/ DeliverResult(w, j)
             \/ FailRecheck(w, j) \/ FailDeliver(w, j)
    BY <1>0, <2>4, HarmlessSets
    DEF Begin, RecheckStatus, DeliverResult, FailRecheck, FailDeliver
  <2> QED  BY <1>3, <2>1, <2>2, <2>3, <2>4 DEF TaskStep
<1> QED  BY <1>1, <1>2, <1>3 DEF WorkerNext

\* CancelSticks, and the exception.
Sticks(j) ==
  rows[j].status = "cancelled" /\ rows'[j].status # "cancelled"
    => \/ rows'[j].status = "deleted"
       \/ requeued'[j] > requeued[j]

LEMMA CancelledStay ==
  ASSUME IInv, [Next]_vars, NEW j \in Jobs
  PROVE  Sticks(j) \/ \E w \in Workers : \E k \in Jobs : Unfenced(w, k)
<1>0. StoreTypeOK /\ requeued \in [Jobs -> Nat]
  BY DEF IInv, StoreInv, TypeOK
<1>1. ASSUME Harmless PROVE Sticks(j)
  BY <1>1 DEF Harmless, Unwritten, Sticks
<1>2. ASSUME NEW w \in Workers, WorkerNext(w)
      PROVE  Sticks(j) \/ \E v \in Workers : \E k \in Jobs : Unfenced(v, k)
  BY <1>1, <1>2, WorkerHarmless
<1>3. CASE ClientNext
  <2>1. ASSUME NEW k \in Jobs, Submit(k)
        PROVE  Sticks(j)
    BY <1>0, <1>1, <2>1, HarmlessOps DEF Submit
  <2>2. ASSUME NEW k \in Jobs, RequeueJob(k)
        PROVE  Sticks(j)
    <3>1. OthersStay(k)
      BY <1>0, <2>2, RequeueEffect DEF RequeueJob, Columns
    <3> QED  BY <1>0, <2>2, <3>1 DEF RequeueJob, OthersStay, Sticks
  <2>3. ASSUME NEW k \in Jobs, NEW c \in Callers, CancelStatus(c, k)
        PROVE  Sticks(j)
    <3>1. CASE Exists(k)
      BY <1>0, <2>3, <3>1, StatusEffect
      DEF CancelStatus, Columns, OthersStay, Sticks
    <3>2. CASE ~Exists(k)
      BY <2>3, <3>2 DEF CancelStatus, UpdateStatus, Sticks
    <3> QED  BY <3>1, <3>2
  <2>4. ASSUME NEW k \in Jobs, NEW c \in Callers, CancelResult(c, k)
        PROVE  Sticks(j)
    <3>1. CASE Exists(k)
      BY <1>0, <2>4, <3>1, ResultEffect
      DEF CancelResult, Columns, OthersStay, Sticks
    <3>2. CASE ~Exists(k)
      BY <2>4, <3>2 DEF CancelResult, SetResult, Sticks
    <3> QED  BY <3>1, <3>2
  <2>5. ASSUME NEW S \in SUBSET Jobs, Delete(S)
        PROVE  Sticks(j)
    BY <2>5, DeleteEffect DEF Sticks, Absent
  <2>6. CASE UNCHANGED storeVars
    BY <1>0, <1>1, <2>6, HarmlessSets
  <2> QED
    BY <1>3, <2>1, <2>2, <2>3, <2>4, <2>5, <2>6
    DEF ClientNext, CancelRead, CallStep, CancelDeliver, CancelInterrupt,
        RemoveRow, Clear
<1>4. CASE TickClock \/ UNCHANGED vars
  BY <1>0, <1>1, <1>4, HarmlessSets DEF TickClock, vars
<1> QED
  BY <1>2, <1>3, <1>4 DEF Next

\* Without store errors no task is in the handler of an exception.
NoHandler ==
  \A w \in Workers, j \in Jobs :
    task[w][j].pc \notin {"failing", "failchecked", "failed"}
StoreWorks == "store_error" \notin FaultKinds

LEMMA NoHandlerStep ==
  ASSUME StoreWorks, IInv, NoHandler, [Next]_vars
  PROVE  NoHandler'
<1>0. task \in [Workers -> [Jobs -> Task]]
  BY DEF IInv, TypeOK
<1>1. CASE UNCHANGED task
  BY <1>1 DEF NoHandler
<1>2. ASSUME NEW w \in Workers, WorkerNext(w)
      PROVE  NoHandler'
  <2>1. CASE PollReclaim(w) \/ PollList(w) \/ Restart(w) \/ Close(w)
    BY <1>1, <2>1 DEF PollReclaim, PollList, Restart, Close
  <2>2. CASE Crash(w) \/ Drained(w)
    BY <1>0, <2>2, StopMoves DEF Crash, Drained, NoHandler, NoTask
  <2>3. ASSUME NEW j \in Jobs,
               \/ Dispatch(w, j) \/ TaskStep(w, j) \/ SideStep(w, j)
               \/ Finish(w, j) \/ Interrupted(w, j) \/ SideTaskError(w, j)
        PROVE  NoHandler'
    <3>1. ASSUME NEW pc \in {"none", "claimed", "running", "computed", "spawned",
                             "checked", "stored", task[w][j].pc},
                 NEW tok, NEW out, NEW hb, Moved(w, j, pc, tok, out, hb)
          PROVE  NoHandler'
      BY <3>1 DEF NoHandler, Moved
    <3>2. CASE \/ TryClaim(w, j) \/ Begin(w, j) \/ Finish(w, j)
               \/ SideStep(w, j) \/ SideTaskError(w, j)
      BY <1>0, <3>1, <3>2, TaskMoves DEF SideStep, Ended, GoesTo
    <3>3. CASE \/ Dispatch(w, j) \/ RecheckStatus(w, j) \/ StoreResult(w, j)
               \/ Interrupted(w, j) \/ DeliverResult(w, j)
      BY <1>0, <1>1, <3>1, <3>3, EndMoves, GotoMoves
      DEF Ended, GoesTo, Dispatch, RecheckStatus, StoreResult, Interrupted, DeliverResult
    <3> QED
      BY <2>3, <3>2, <3>3 DEF TaskStep, FailRecheck, FailStore, FailDeliver, At, NoHandler
  <2>4. ~\E j \in Jobs : StoreError(w, j)
    BY DEF StoreWorks, StoreError, Fault
  <2> QED  BY <1>2, <2>1, <2>2, <2>3, <2>4 DEF WorkerNext
<1>3. CASE ClientNext
  BY <1>0, <1>3, ClientMoves DEF TasksStay, NoHandler
<1>4. CASE TickClock
  BY <1>0, <1>4, TickMoves DEF NoHandler
<1>5. CASE UNCHANGED vars
  BY <1>1, <1>5 DEF vars
<1> QED
  BY <1>2, <1>3, <1>4, <1>5 DEF Next

LEMMA NoHandlerInit == Init => NoHandler
  BY DEF Init, NoHandler, NoTask

\* A cancelled job stays cancelled until it is requeued or deleted, if no store
\* call of a task raises: a task whose claim raised has no token, and its
\* handler writes over what it finds.
THEOREM CancelIsFinal == StoreWorks => (Spec => CancelSticks)
<1> SUFFICES ASSUME StoreWorks PROVE Spec => CancelSticks
  OBVIOUS
<1>1. IInv /\ NoHandler /\ [Next]_vars => NoHandler'
  BY NoHandlerStep
<1>2. IInv /\ NoHandler /\ [Next]_vars =>
        [\A j \in Jobs : rows[j].status = "cancelled" /\ rows'[j].status # "cancelled"
           => \/ rows'[j].status = "deleted"
              \/ requeued'[j] > requeued[j]]_vars
  <2> SUFFICES ASSUME IInv, NoHandler, [Next]_vars, NEW j \in Jobs
               PROVE  Sticks(j)
    BY DEF Sticks
  <2> QED  BY CancelledStay DEF Unfenced, FailStore, At, NoHandler
<1> QED
  BY <1>1, <1>2, NoHandlerInit, Inductive, PTL DEF Spec, CancelSticks

-----------------------------------------------------------------------------
(* The two writes of a cancel.                                             *)

\* Callers run in processes of their own, which do not crash here.
CallersStay == \A c \in Callers : Home[c] \notin Workers

Recorded(j) ==
  rows[j].status = "cancelled" /\ ~Cancelling(j) => rows[j].result = "cancelled"

LEMMA RecordedStep ==
  ASSUME CallersStay, IInv, \A k \in Jobs : Recorded(k), [Next]_vars, NEW j \in Jobs
  PROVE  Recorded(j)'
<1>0. /\ StoreTypeOK /\ Recorded(j)
      /\ api \in [Callers -> ApiCall]
  BY DEF IInv, StoreInv, TypeOK
<1>1. ASSUME Harmless, UNCHANGED api
      PROVE  Recorded(j)'
  BY <1>0, <1>1 DEF Harmless, Unwritten, Uncancelled, Recorded, Cancelling, Call
<1>2. ASSUME NEW w \in Workers, WorkerNext(w)
      PROVE  Recorded(j)'
  <2>1. UNCHANGED api
    <3>1. ASSUME Stopped(w) PROVE UNCHANGED api
      BY <1>0, <3>1 DEF Stopped, CallersStay
    <3> QED
      BY <1>2, <3>1
      DEF WorkerNext, PollReclaim, PollList, Restart, Close, Crash, Drained,
          Dispatch, TaskStep, SideStep, Finish, Interrupted, StoreError,
          SideTaskError, TryClaim, Begin, RecheckStatus, StoreResult,
          DeliverResult, FailRecheck, FailStore, FailDeliver, HeartbeatStep,
          CancelWatchStep
  <2>2. ASSUME NEW k \in Jobs, Unfenced(w, k)
        PROVE  Recorded(j)'
    <3>1. SetResult(k, "failed")
      BY <2>2, OwnedToken DEF Unfenced, FailStore
    <3>2. CASE Exists(k)
      BY <1>0, <2>1, <3>1, <3>2, ResultEffect
      DEF Columns, OthersStay, Recorded, Cancelling, Call
    <3>3. CASE ~Exists(k)
      BY <1>0, <2>1, <3>1, <3>3 DEF SetResult, Recorded, Cancelling, Call
    <3> QED  BY <3>2, <3>3
  <2> QED  BY <1>1, <1>2, <2>1, <2>2, WorkerHarmless
<1>3. CASE ClientNext
  <2>1. ASSUME NEW k \in Jobs, Submit(k)
        PROVE  Recorded(j)'
    BY <1>0, <1>1, <2>1, HarmlessOps DEF Submit
  <2>2. ASSUME NEW k \in Jobs, RequeueJob(k)
        PROVE  Recorded(j)'
    BY <1>0, <2>2, RequeueEffect
    DEF RequeueJob, Columns, OthersStay, Recorded, Cancelling, Call
  <2>3. ASSUME NEW k \in Jobs, NEW c \in Callers, CancelStatus(c, k)
        PROVE  Recorded(j)'
    <3>1. /\ api'[c].pc = "flagged" /\ api'[c].job = k
          /\ \A b \in Callers : b # c => api'[b] = api[b]
          /\ api[c].pc = "read"
      BY <1>0, <2>3 DEF CancelStatus, Call, Step, ApiCall
    <3>2. CASE j = k
      BY <3>1, <3>2 DEF Recorded, Cancelling, Call
    <3>3. CASE j # k
      <4>1. rows'[j] = rows[j]
        BY <1>0, <2>3, <3>3, StatusEffect
        DEF CancelStatus, UpdateStatus, Columns, OthersStay
      <4> QED  BY <1>0, <3>1, <4>1 DEF Recorded, Cancelling, Call
    <3> QED  BY <3>2, <3>3
  <2>4. ASSUME NEW k \in Jobs, NEW c \in Callers, CancelResult(c, k)
        PROVE  Recorded(j)'
    <3>1. /\ api'[c].pc = "recorded" /\ api[c].job = k
          /\ \A b \in Callers : b # c => api'[b] = api[b]
      BY <1>0, <2>4 DEF CancelResult, Call, Step, ApiCall
    <3>2. CASE Exists(k) /\ j = k
      BY <1>0, <2>4, <3>2, ResultEffect DEF CancelResult, Columns, Recorded
    <3>3. CASE j # k
      <4>1. rows'[j] = rows[j]
        BY <1>0, <2>4, <3>3, ResultEffect
        DEF CancelResult, SetResult, Columns, OthersStay
      <4> QED  BY <1>0, <3>1, <3>3, <4>1 DEF Recorded, Cancelling, Call
    <3>4. CASE ~Exists(k) /\ j = k
      BY <2>4, <3>4
      DEF CancelResult, SetResult, Recorded, Exists, JobStatus, Terminal
    <3> QED  BY <3>2, <3>3, <3>4
  <2>5. ASSUME NEW k \in Jobs, NEW c \in Callers,
               CancelRead(c, k) \/ CancelDeliver(c, k) \/ CancelInterrupt(c, k)
        PROVE  Recorded(j)'
    <3>1. /\ \A b \in Callers : b # c => api'[b] = api[b]
          /\ api[c].pc # "flagged"
          /\ rows' = rows
      BY <1>0, <2>5
      DEF CancelRead, CancelDeliver, CancelInterrupt, Call, Step, Return, storeVars
    <3> QED  BY <1>0, <3>1 DEF Recorded, Cancelling, Call
  <2>6. ASSUME NEW k \in Jobs, NEW c \in Callers, RemoveRow(c, k)
        PROVE  Recorded(j)'
    <3>1. /\ \A b \in Callers : b # c => api'[b] = api[b]
          /\ api[c].pc # "flagged"
      BY <1>0, <2>6 DEF RemoveRow, Call, Return
    <3>2. rows'[j] = rows[j] \/ rows'[j] = Absent("deleted")
      BY <2>6, DeleteEffect DEF RemoveRow, storeVars
    <3> QED  BY <1>0, <3>1, <3>2 DEF Recorded, Cancelling, Call, Absent
  <2>7. ASSUME NEW S \in SUBSET Jobs, Clear(S)
        PROVE  Recorded(j)'
    BY <1>0, <2>7, DeleteEffect DEF Clear, Recorded, Cancelling, Call, Absent
  <2> QED
    BY <1>3, <2>1, <2>2, <2>3, <2>4, <2>5, <2>6, <2>7 DEF ClientNext, CallStep
<1>4. CASE TickClock \/ UNCHANGED vars
  BY <1>0, <1>1, <1>4, HarmlessSets DEF TickClock, vars
<1> QED
  BY <1>2, <1>3, <1>4 DEF Next

\* A terminal row holds the result its status announces, outside the two writes
\* of a cancel in progress, if the process that cancels does not die between
\* them.
THEOREM ResultsRecorded == CallersStay => (Spec => []TerminalHasItsResult)
<1> SUFFICES ASSUME CallersStay PROVE Spec => []TerminalHasItsResult
  OBVIOUS
<1> DEFINE R == \A j \in Jobs : Recorded(j)
<1>1. Init => R
  BY DEF Init, StoreInit, Absent, Recorded
<1>2. IInv /\ R /\ [Next]_vars => R'
  BY RecordedStep
<1>3. IInv /\ R => TerminalHasItsResult
  BY DEF IInv, StoreInv, ResultMatchesStatus, Recorded, TerminalHasItsResult, Terminal
<1> HIDE DEF R
<1> QED
  BY <1>1, <1>2, <1>3, Inductive, PTL DEF Spec

-----------------------------------------------------------------------------
(* Output files.                                                           *)

Live == {"new", "queued", "processing"}
Gone(j) == rows[j].status \in {"cancelled", "deleted"}
Wrote(c, j) == api[c].pc \in {"flagged", "recorded", "delivered"} /\ api[c].job = j

\* The file of a job that was never requeued: none before there is a result; a
\* task between its write of the result and the delivery carries the row's
\* status, and is still to deliver it, or did, or died; and a cancel that has
\* written found the job alive, so the row is cancelled or deleted.
FileAgrees(j) ==
  /\ rows[j].status \in Live =>
       outfile[j] = NoResult /\ \A w \in Workers : task[w][j].pc # "stored"
  /\ rows[j].status \in {"completed", "failed"} =>
       /\ \A w \in Workers : task[w][j].pc = "stored" => task[w][j].out = rows[j].status
       /\ \/ outfile[j] = rows[j].status
          \/ /\ outfile[j] = NoResult
             /\ faults < MaxFaults \/ \E w \in Workers : task[w][j].pc = "stored"
  /\ ~Gone(j) => \A c \in Callers : ~Wrote(c, j)

FilesAgree == \A j \in Jobs : requeued[j] = 0 => FileAgrees(j)

\* A cancel in progress read a row that was there.
CallsKnown ==
  \A c \in Callers : api[c].pc \in {"read", "flagged", "recorded", "delivered"}
                       => api[c].job \in Jobs /\ rows[api[c].job].status # "new"

FInv == NoHandler /\ faults =< MaxFaults /\ CallsKnown /\ FilesAgree

\* Moves of a row's status other than to a result or by a requeue.
StatusMove(k) ==
  /\ rows'[k].status = "new" => rows[k].status = "new"
  /\ \/ rows'[k].status = rows[k].status
     \/ rows[k].status \in Live /\ rows'[k].status \in Live
     \/ Gone(k)'
StatusMoves == \A k \in Jobs : StatusMove(k)

LEMMA MovesOps ==
  ASSUME StoreTypeOK, NEW j \in Jobs,
         \/ Enqueue(j) \/ Claim(j) \/ UpdateStatus(j, "cancelled")
         \/ SetResult(j, "cancelled")
         \/ \E t : Heartbeat(j, t)
  PROVE  StatusMoves
<1> USE DEF StatusMoves, StatusMove, Live, Gone, Columns, OthersStay
<1>1. CASE Enqueue(j)
  BY <1>1, EnqueueEffect
<1>2. CASE Claim(j)
  BY <1>2, ClaimEffect
<1>3. CASE UpdateStatus(j, "cancelled")
  BY <1>3, StatusEffect DEF UpdateStatus
<1>4. CASE SetResult(j, "cancelled")
  BY <1>4, ResultEffect DEF SetResult
<1>5. ASSUME NEW t, Heartbeat(j, t) PROVE StatusMoves
  BY <1>5, HeartbeatEffect
<1> QED  BY <1>1, <1>2, <1>3, <1>4, <1>5

LEMMA MovesSets ==
  ASSUME StoreTypeOK,
         \/ \E S \in SUBSET Jobs : Reclaim(S) \/ Delete(S)
         \/ Tick
         \/ UNCHANGED storeVars
  PROVE  StatusMoves
<1> USE DEF StatusMoves, StatusMove, Live, Gone
<1>1. ASSUME NEW S \in SUBSET Jobs, Reclaim(S) PROVE StatusMoves
  BY <1>1, ReclaimEffect DEF Stale
<1>2. ASSUME NEW S \in SUBSET Jobs, Delete(S) PROVE StatusMoves
  BY <1>2, DeleteEffect DEF Absent
<1>3. CASE Tick
  BY <1>3, TickEffect
<1>4. CASE UNCHANGED storeVars
  BY <1>4 DEF storeVars
<1> QED  BY <1>1, <1>2, <1>3, <1>4

\* A step that touches no file and no result, and leaves the tasks that are to
\* deliver where they are.
StoredStay(k) ==
  \A w \in Workers :
    /\ task'[w][k].pc = "stored" <=> task[w][k].pc = "stored"
    /\ task[w][k].pc = "stored" => task'[w][k].out = task[w][k].out
CallsStay(k) == \A c \in Callers : Wrote(c, k)' => Wrote(c, k)

LEMMA QuietStep ==
  ASSUME FInv, NEW k \in Jobs, requeued[k] = 0, faults \in Nat, faults' \in Nat,
         StatusMove(k), outfile'[k] = outfile[k], faults' =< faults,
         StoredStay(k), CallsStay(k)
  PROVE  FileAgrees(k)'
<1>1. FileAgrees(k) /\ MaxFaults \in Nat
  BY BoundsAssumption DEF FInv, FilesAgree
<1> QED
  BY <1>1 DEF FileAgrees, StatusMove, Live, Gone, StoredStay, CallsStay

LEMMA MovedStays ==
  ASSUME NEW w \in Workers, NEW j \in Jobs, NEW pc, NEW tok, NEW out, NEW hb,
         Moved(w, j, pc, tok, out, hb), pc # "stored", task[w][j].pc # "stored",
         NEW k \in Jobs
  PROVE  StoredStay(k)
BY DEF Moved, StoredStay

LEMMA ApiStays ==
  ASSUME UNCHANGED api, NEW k \in Jobs
  PROVE  CallsStay(k)
BY DEF CallsStay, Wrote

\* The tasks of a worker, as far as the output files are concerned.
LEMMA WorkerFiles ==
  ASSUME IInv, FInv, StoreWorks, NEW w \in Workers, WorkerNext(w),
         NEW k \in Jobs, requeued'[k] = 0
  PROVE  FileAgrees(k)'
<1>0. /\ StoreTypeOK /\ task \in [Workers -> [Jobs -> Task]]
      /\ faults \in Nat /\ MaxFaults \in Nat /\ NoHandler /\ faults =< MaxFaults
      /\ outfile \in [Jobs -> {NoResult} \cup Terminal]
      /\ api \in [Callers -> ApiCall]
  BY BoundsAssumption DEF IInv, StoreInv, TypeOK, FInv
<1>1. CASE PollReclaim(w) \/ Restart(w) \/ PollList(w) \/ Close(w)
  <2>1. StatusMoves
    BY <1>0, <1>1, MovesSets
    DEF PollReclaim, Restart, PollList, Close, ReclaimStale
  <2>2. /\ UNCHANGED <<task, outfile, requeued, api>>
        /\ faults' \in Nat /\ faults' =< faults
    BY <1>0, <1>1 DEF PollReclaim, Restart, PollList, Close, Fault, ghostVars
  <2> QED  BY <1>0, <2>1, <2>2, QuietStep, ApiStays DEF StatusMoves, StoredStay
<1>2. CASE Crash(w) \/ Drained(w)
  <2>1. /\ StatusMove(k) /\ UNCHANGED <<rows, outfile, requeued>>
        /\ Stopped(w)
    BY <1>0, <1>2, MovesSets DEF StatusMoves, Crash, Drained, Fault, ghostVars, storeVars
  <2>2. CallsStay(k)
    BY <1>0, <2>1 DEF Stopped, CallsStay, Wrote, Idle
  <2>3. CASE Drained(w)
    <3>1. \A j \in Jobs : task[w][j].pc \in {"none", "running"}
      BY <2>3 DEF Drained, Inflight
    <3>2. StoredStay(k)
      BY <1>0, <2>1, <3>1, StopMoves DEF StoredStay, NoTask
    <3> QED  BY <1>0, <2>1, <2>2, <2>3, <3>2, QuietStep DEF Drained, ghostVars
  <2>4. CASE Crash(w)
    <3>1. faults' < MaxFaults
      BY <1>0, <2>4 DEF Crash, Fault
    <3>2. \A v \in Workers : task'[v][k].pc = "stored" =>
            task[v][k].pc = "stored" /\ task'[v][k].out = task[v][k].out
      BY <1>0, <2>1, StopMoves DEF NoTask
    <3>3. FileAgrees(k)
      BY <2>1 DEF FInv, FilesAgree
    <3> QED  BY <2>1, <2>2, <3>1, <3>2, <3>3 DEF FileAgrees, Gone, CallsStay
  <2> QED  BY <1>2, <2>3, <2>4
<1>3. ASSUME NEW j \in Jobs,
             \/ Dispatch(w, j) \/ TaskStep(w, j) \/ SideStep(w, j)
             \/ Finish(w, j) \/ Interrupted(w, j) \/ SideTaskError(w, j)
      PROVE  FileAgrees(k)'
  <2>1. CASE \/ Dispatch(w, j) \/ TryClaim(w, j) \/ Begin(w, j) \/ RecheckStatus(w, j)
             \/ SideStep(w, j) \/ Finish(w, j) \/ Interrupted(w, j) \/ SideTaskError(w, j)
    <3>1. StatusMoves
      BY <1>0, <2>1, MovesSets, MovesOps
      DEF Dispatch, TryClaim, Begin, RecheckStatus, SideStep, HeartbeatStep,
          CancelWatchStep, Finish, Interrupted, SideTaskError
    <3>2. /\ UNCHANGED <<outfile, requeued, api>>
          /\ faults' \in Nat /\ faults' =< faults
      BY <1>0, <2>1
      DEF Dispatch, TryClaim, Begin, RecheckStatus, SideStep, HeartbeatStep,
          CancelWatchStep, Finish, Interrupted, SideTaskError, Fault, ghostVars
    <3>3. StoredStay(k)
      <4>1. CASE UNCHANGED task
        BY <4>1 DEF StoredStay
      <4>2. CASE /\ TryClaim(w, j) \/ Begin(w, j) \/ Finish(w, j)
                    \/ SideStep(w, j) \/ SideTaskError(w, j)
        <5>1. task[w][j].pc # "stored"
          BY <4>2 DEF TryClaim, Begin, Finish, SideStep, HeartbeatStep,
                      CancelWatchStep, SideTaskError, At
        <5> QED  BY <1>0, <4>2, <5>1, TaskMoves, MovedStays DEF SideStep, Ended, GoesTo
      <4>3. CASE Dispatch(w, j) \/ RecheckStatus(w, j) \/ Interrupted(w, j)
        <5>1. task[w][j].pc # "stored" \/ UNCHANGED task
          BY <4>3 DEF Dispatch, RecheckStatus, Interrupted, At, Inflight
        <5>2. \/ UNCHANGED task \/ End(w, j)
              \/ Goto(w, j, "spawned") \/ Goto(w, j, "checked")
          BY <4>3 DEF Dispatch, RecheckStatus, Interrupted
        <5> QED
          BY <1>0, <4>1, <5>1, <5>2, EndMoves, GotoMoves, MovedStays DEF Ended, GoesTo
      <4> QED  BY <2>1, <4>2, <4>3
    <3> QED  BY <1>0, <3>1, <3>2, <3>3, QuietStep, ApiStays DEF StatusMoves
  <2>2. CASE StoreResult(w, j)
    <3>0. UNCHANGED <<outfile, requeued, api, faults>>
      BY <2>2 DEF StoreResult
    <3>1. CASE End(w, j) /\ UNCHANGED storeVars
      <4>1. task[w][j].pc # "stored"
        BY <2>2 DEF StoreResult, At
      <4> QED
        BY <1>0, <3>0, <3>1, <4>1, EndMoves, MovedStays, MovesSets, QuietStep, ApiStays
        DEF StatusMoves, Ended
    <3>2. CASE SetResultOwned(j, task[w][j].tok, task[w][j].out) /\ Goto(w, j, "stored")
      <4>1. Columns(j, task[w][j].out, Lapsed, NoToken, task[w][j].out)
        BY <1>0, <3>2, ResultEffect
      <4>2. GoesTo(w, j, "stored")
        BY <1>0, <3>2, GotoMoves
      <4>3. rows[j].status = "processing" /\ task[w][j].out \in {"completed", "failed"}
        BY <2>2, <3>2 DEF SetResultOwned, Owns, IInv, OutKnown, StoreResult, At
      <4>4. CASE k = j
        <5>1. FileAgrees(k)
          BY <3>0 DEF FInv, FilesAgree
        <5> QED
          BY <3>0, <4>1, <4>2, <4>3, <4>4, <5>1
          DEF FileAgrees, Gone, Wrote, Live, Columns, GoesTo, Moved
      <4>5. CASE k # j
        <5>1. StatusMove(k) /\ StoredStay(k)
          BY <4>1, <4>2, <4>5
          DEF Columns, OthersStay, StatusMove, GoesTo, Moved, StoredStay
        <5> QED  BY <1>0, <3>0, <5>1, QuietStep, ApiStays
      <4> QED  BY <4>4, <4>5
    <3> QED  BY <2>2, <3>1, <3>2 DEF StoreResult
  <2>3. CASE DeliverResult(w, j)
    <3>1. /\ Ended(w, j) /\ task[w][j].pc = "stored"
          /\ UNCHANGED <<rows, requeued, api, faults>>
          /\ outfile' = [outfile EXCEPT ![j] = task[w][j].out]
      BY <1>0, <2>3, EndMoves DEF DeliverResult, At, storeVars, ghostVars
    <3>2. FileAgrees(k)
      BY <3>1 DEF FInv, FilesAgree
    <3>3. CASE k = j
      <4>1. outfile'[j] = task[w][j].out
        BY <1>0, <3>1
      <4>2. \A v \in Workers : task'[v][k].pc = "stored" =>
              task[v][k].pc = "stored" /\ task'[v][k].out = task[v][k].out
        BY <3>1, <3>3 DEF Ended, Moved
      <4> QED  BY <3>1, <3>2, <3>3, <4>1, <4>2 DEF FileAgrees, Gone, Wrote
    <3>4. CASE k # j
      <4>1. StatusMove(k) /\ StoredStay(k) /\ outfile'[k] = outfile[k]
        BY <1>0, <3>1, <3>4 DEF StatusMove, Ended, Moved, StoredStay
      <4> QED  BY <1>0, <3>1, <4>1, QuietStep, ApiStays
    <3> QED  BY <3>3, <3>4
  <2> QED
    BY <1>0, <1>3, <2>1, <2>2, <2>3
    DEF TaskStep, FailRecheck, FailStore, FailDeliver, At, NoHandler
<1>4. ~\E j \in Jobs : StoreError(w, j)
  BY DEF StoreWorks, StoreError, Fault
<1> QED  BY <1>1, <1>2, <1>3, <1>4 DEF WorkerNext

\* What a client call does to its own record; the others' stay.
LEMMA ApiMoves ==
  ASSUME api \in [Callers -> ApiCall], NEW c \in Callers, NEW j \in Jobs,
         CancelRead(c, j) \/ CallStep(c, j)
  PROVE  /\ \A b \in Callers : b # c => api'[b] = api[b]
         /\ CancelRead(c, j) =>
              \/ api'[c].pc = "removing"
              \/ /\ api'[c].pc = "read" /\ api'[c].job = j
                 /\ rows[j].status \in {"queued", "processing"}
         /\ CallStep(c, j) => api[c].job = j
         /\ CancelStatus(c, j) =>
              api[c].pc = "read" /\ api'[c].pc = "flagged" /\ api'[c].job = j
         /\ CancelResult(c, j) =>
              api[c].pc = "flagged" /\ api'[c].pc = "recorded" /\ api'[c].job = j
         /\ CancelDeliver(c, j) =>
              api[c].pc = "recorded" /\ api'[c].pc = "delivered" /\ api'[c].job = j
         /\ CancelInterrupt(c, j) \/ RemoveRow(c, j) =>
              api'[c].pc \in {"idle", "removing"}
<1>1. api[c] \in ApiCall /\ c \in DOMAIN api
  OBVIOUS
<1>2. CASE CancelRead(c, j)
  <2>1. \A pc : Call(c, pc, j) => pc = "idle"
    BY <1>2 DEF CancelRead, Call
  <2>2. ~CallStep(c, j)
    BY <2>1 DEF CallStep, CancelStatus, CancelResult, CancelDeliver, CancelInterrupt, RemoveRow
  <2> QED  BY <1>1, <1>2, <2>2 DEF CancelRead, CallStep
<1>3. ASSUME NEW pc, Step(c, pc)
      PROVE  /\ \A b \in Callers : b # c => api'[b] = api[b]
             /\ api'[c].pc = pc /\ api'[c].job = api[c].job
  BY <1>1, <1>3 DEF Step, ApiCall
<1>4. ASSUME Return(c)
      PROVE  /\ \A b \in Callers : b # c => api'[b] = api[b]
             /\ api'[c].pc = "idle"
  BY <1>1, <1>4 DEF Return, Idle
<1>5. CASE CallStep(c, j)
  <2>1. ~CancelRead(c, j)
    BY <1>5
    DEF CancelRead, CallStep, CancelStatus, CancelResult, CancelDeliver,
        CancelInterrupt, RemoveRow, Call
  <2>2. CASE CancelStatus(c, j) \/ CancelResult(c, j) \/ CancelDeliver(c, j)
    BY <1>3, <2>1, <2>2
    DEF CallStep, CancelStatus, CancelResult, CancelDeliver, CancelInterrupt,
        RemoveRow, Call
  <2>3. CASE CancelInterrupt(c, j) \/ RemoveRow(c, j)
    BY <1>3, <1>4, <2>1, <2>3
    DEF CallStep, CancelStatus, CancelResult, CancelDeliver, CancelInterrupt,
        RemoveRow, Call
  <2> QED  BY <1>5, <2>2, <2>3 DEF CallStep
<1> QED  BY <1>2, <1>5

\* A client's step, or time.
LEMMA ClientFiles ==
  ASSUME IInv, FInv, ClientNext \/ TickClock \/ UNCHANGED vars,
         NEW k \in Jobs, requeued'[k] = 0
  PROVE  FileAgrees(k)'
<1>0. /\ StoreTypeOK /\ task \in [Workers -> [Jobs -> Task]]
      /\ faults \in Nat /\ CallsKnown
      /\ outfile \in [Jobs -> {NoResult} \cup Terminal]
      /\ requeued \in [Jobs -> Nat]
      /\ api \in [Callers -> ApiCall]
  BY DEF IInv, StoreInv, TypeOK, FInv
<1>1. ASSUME UNCHANGED <<outfile, faults, requeued>>, StatusMoves, StoredStay(k), CallsStay(k)
      PROVE  FileAgrees(k)'
  BY <1>0, <1>1, QuietStep DEF StatusMoves
<1>2. ASSUME ClientNext PROVE StoredStay(k)
  BY <1>0, <1>2, ClientMoves DEF TasksStay, StoredStay
<1>3. ASSUME NEW j \in Jobs, Submit(j)
      PROVE  FileAgrees(k)'
  <2>1. StatusMoves /\ UNCHANGED <<api, outfile, faults, requeued, task>>
    BY <1>0, <1>3, MovesOps DEF Submit, ghostVars
  <2> QED  BY <1>1, <2>1, ApiStays DEF StoredStay
<1>4. ASSUME NEW j \in Jobs, RequeueJob(j)
      PROVE  FileAgrees(k)'
  <2>1. /\ UNCHANGED <<api, outfile, faults, task>>
        /\ requeued' = [requeued EXCEPT ![j] = @ + 1]
        /\ OthersStay(j)
    BY <1>0, <1>4, RequeueEffect DEF RequeueJob, Columns
  <2>2. k # j /\ requeued[k] = 0
    BY <1>0, <2>1
  <2>3. StatusMove(k) /\ StoredStay(k)
    BY <2>1, <2>2 DEF OthersStay, StatusMove, StoredStay
  <2> QED  BY <1>0, <2>1, <2>2, <2>3, QuietStep, ApiStays
<1>5. ASSUME NEW j \in Jobs, NEW c \in Callers, CancelRead(c, j) \/ CallStep(c, j)
      PROVE  FileAgrees(k)'
  <2>0. /\ UNCHANGED <<faults, requeued>>
        /\ requeued[k] = 0 /\ FileAgrees(k)
    BY <1>5
    DEF CancelRead, CallStep, CancelStatus, CancelResult, CancelDeliver,
        CancelInterrupt, RemoveRow, ghostVars, FInv, FilesAgree
  <2>1. StatusMoves
    BY <1>0, <1>5, MovesOps, MovesSets
    DEF CancelRead, CallStep, CancelStatus, CancelResult, CancelDeliver,
        CancelInterrupt, RemoveRow
  <2>2. StoredStay(k)
    BY <1>2, <1>5 DEF ClientNext
  <2>3. ASSUME Gone(k)' PROVE FileAgrees(k)'
    BY <2>3 DEF FileAgrees, Gone, Live
  <2>4. CASE CancelRead(c, j) \/ RemoveRow(c, j) \/ CancelInterrupt(c, j)
    <3>1. CallsStay(k)
      BY <1>0, <2>4, ApiMoves DEF CallStep, CallsStay, Wrote
    <3>2. UNCHANGED outfile
      BY <2>4 DEF CancelRead, RemoveRow, CancelInterrupt
    <3> QED  BY <1>1, <2>0, <2>1, <2>2, <3>1, <3>2
  <2>5. CASE CancelStatus(c, j)
    <3>1. rows[j].status # "new"
      BY <1>0, <2>5 DEF CancelStatus, Call, CallsKnown
    <3>2. Gone(j)'
      <4>1. CASE Exists(j)
        BY <1>0, <2>5, <4>1, StatusEffect DEF CancelStatus, Columns, Gone
      <4>2. CASE ~Exists(j)
        BY <1>0, <2>5, <3>1, <4>2
        DEF CancelStatus, UpdateStatus, Gone, StoreTypeOK, Row, RowStatus, Exists
      <4> QED  BY <4>1, <4>2
    <3>3. k # j => CallsStay(k)
      BY <1>0, <2>5, ApiMoves DEF CallStep, CallsStay, Wrote
    <3>4. UNCHANGED outfile
      BY <2>5 DEF CancelStatus
    <3> QED  BY <1>1, <2>0, <2>1, <2>2, <2>3, <3>2, <3>3, <3>4
  <2>6. CASE CancelResult(c, j) \/ CancelDeliver(c, j)
    <3>1. Wrote(c, j)
      BY <2>6 DEF CancelResult, CancelDeliver, Call, Wrote
    <3>2. CallsStay(k)
      BY <1>0, <2>6, ApiMoves DEF CallStep, CallsStay, Wrote
    <3>3. CASE k = j
      <4>1. Gone(j)
        BY <2>0, <3>1, <3>3 DEF FileAgrees
      <4>2. Gone(j)'
        BY <2>1, <4>1 DEF StatusMoves, StatusMove, Gone, Live
      <4> QED  BY <2>3, <3>3, <4>2
    <3>4. CASE k # j
      <4>1. outfile'[k] = outfile[k] /\ StatusMove(k)
        BY <1>0, <2>1, <2>6, <3>4 DEF CancelResult, CancelDeliver, StatusMoves
      <4> QED  BY <1>0, <2>0, <2>2, <3>2, <4>1, QuietStep
    <3> QED  BY <3>3, <3>4
  <2> QED  BY <1>5, <2>4, <2>5, <2>6 DEF CallStep
<1>6. ASSUME NEW S \in SUBSET Jobs, Clear(S)
      PROVE  FileAgrees(k)'
  <2>1. StatusMoves /\ UNCHANGED <<api, outfile, faults, requeued, task>>
    BY <1>0, <1>6, MovesSets DEF Clear, ghostVars
  <2> QED  BY <1>1, <2>1, ApiStays DEF StoredStay
<1>7. CASE TickClock \/ UNCHANGED vars
  <2>1. StatusMoves /\ UNCHANGED <<api, outfile, faults, requeued>>
    BY <1>0, <1>7, MovesSets DEF TickClock, vars, ghostVars
  <2>2. StoredStay(k)
    BY <1>0, <1>7, TickMoves DEF StoredStay, vars
  <2> QED  BY <1>1, <2>1, <2>2, ApiStays
<1> QED  BY <1>3, <1>4, <1>5, <1>6, <1>7 DEF ClientNext

\* No row is new again, and a cancel starts from a row that is there.
LEMMA CallsKnownStep ==
  ASSUME IInv, CallsKnown, [Next]_vars
  PROVE  CallsKnown'
<1>0. StoreTypeOK /\ api \in [Callers -> ApiCall]
  BY DEF IInv, StoreInv, TypeOK
<1>1. \A k \in Jobs : rows'[k].status = "new" => rows[k].status = "new"
  <2>1. CASE UNCHANGED storeVars
    BY <2>1 DEF storeVars
  <2>2. ASSUME StatusMoves
        PROVE  \A k \in Jobs : rows'[k].status = "new" => rows[k].status = "new"
    BY <2>2 DEF StatusMoves, StatusMove
  <2>3. ASSUME NEW j \in Jobs, JobOp(j)
        PROVE  \A k \in Jobs : rows'[k].status = "new" => rows[k].status = "new"
    <3>1. ASSUME NEW from, Requeue(j, from)
          PROVE  \A k \in Jobs : rows'[k].status = "new" => rows[k].status = "new"
      BY <1>0, <3>1, RequeueEffect DEF Columns, OthersStay
    <3>2. ASSUME NEW s \in Terminal,
                 SetResult(j, s) \/ \E t : SetResultOwned(j, t, s)
          PROVE  \A k \in Jobs : rows'[k].status = "new" => rows[k].status = "new"
      <4>1. rows' = rows \/ Columns(j, s, Lapsed, NoToken, s)
        BY <1>0, <3>2, ResultEffect DEF SetResult
      <4> QED  BY <4>1 DEF Columns, OthersStay, Terminal
    <3>3. CASE MarkPublished(j)
      BY <1>0, <3>3 DEF MarkPublished, StoreTypeOK, Row
    <3> QED
      BY <1>0, <2>2, <2>3, <3>1, <3>2, <3>3, MovesOps DEF JobOp, Terminal
  <2> QED  BY <1>0, <2>1, <2>2, <2>3, MovesSets, StepAllowed DEF StoreNext
<1>2. \A c \in Callers :
        \/ api'[c] = api[c]
        \/ api'[c].pc \in {"idle", "removing"}
        \/ api'[c].pc \in {"flagged", "recorded", "delivered"}
             /\ api[c].pc \in {"read", "flagged", "recorded"} /\ api'[c].job = api[c].job
        \/ api'[c].pc = "read" /\ rows[api'[c].job].status # "new" /\ api'[c].job \in Jobs
  <2> SUFFICES ASSUME NEW c \in Callers, api'[c] # api[c]
               PROVE  \/ api'[c].pc \in {"idle", "removing"}
                      \/ api'[c].pc \in {"flagged", "recorded", "delivered"}
                           /\ api[c].pc \in {"read", "flagged", "recorded"}
                           /\ api'[c].job = api[c].job
                      \/ api'[c].pc = "read" /\ rows[api'[c].job].status # "new"
                           /\ api'[c].job \in Jobs
    OBVIOUS
  <2>1. ASSUME NEW w \in Workers, WorkerNext(w)
        PROVE  api'[c] = Idle
    <3>1. Stopped(w)
      BY <2>1
      DEF WorkerNext, PollReclaim, PollList, Restart, Close, Crash, Drained,
          Dispatch, TaskStep, SideStep, Finish, Interrupted, StoreError,
          SideTaskError, TryClaim, Begin, RecheckStatus, StoreResult,
          DeliverResult, FailRecheck, FailStore, FailDeliver, HeartbeatStep,
          CancelWatchStep
    <3> QED  BY <3>1 DEF Stopped
  <2>2. ASSUME NEW b \in Callers, NEW j \in Jobs, CancelRead(b, j) \/ CallStep(b, j)
        PROVE  \/ api'[c].pc \in {"idle", "removing"}
               \/ api'[c].pc \in {"flagged", "recorded", "delivered"}
                    /\ api[c].pc \in {"read", "flagged", "recorded"}
                    /\ api'[c].job = api[c].job
               \/ api'[c].pc = "read" /\ rows[api'[c].job].status # "new"
                    /\ api'[c].job \in Jobs
    BY <1>0, <2>2, ApiMoves DEF CallStep
  <2> QED
    BY <2>1, <2>2
    DEF Next, ClientNext, Submit, RequeueJob, Clear, TickClock, vars, Idle
<1> QED  BY <1>1, <1>2 DEF CallsKnown

\* Faults are used up.
LEMMA FaultsFall ==
  ASSUME IInv, [Next]_vars
  PROVE  faults' =< faults
<1>0. faults \in Nat
  BY DEF IInv, TypeOK
<1>1. ASSUME NEW w \in Workers, WorkerNext(w)
      PROVE  faults' \in {faults, faults - 1}
  <2>1. CASE \E j \in Jobs : TaskStep(w, j) \/ SideStep(w, j)
    BY <2>1
    DEF TaskStep, SideStep, TryClaim, Begin, RecheckStatus, StoreResult,
        DeliverResult, FailRecheck, FailStore, FailDeliver, HeartbeatStep,
        CancelWatchStep, ghostVars
  <2>2. CASE \E j \in Jobs : \/ Dispatch(w, j) \/ Finish(w, j) \/ Interrupted(w, j)
                             \/ StoreError(w, j) \/ SideTaskError(w, j)
    <3>1. ASSUME NEW j \in Jobs, StoreError(w, j) \/ SideTaskError(w, j)
          PROVE  faults' = faults - 1
      <4>1. \A kind : Fault(kind) => faults' = faults - 1
        BY DEF Fault
      <4> QED  BY <3>1, <4>1 DEF StoreError, SideTaskError
    <3> QED  BY <2>2, <3>1 DEF Dispatch, Finish, Interrupted, ghostVars
  <2>3. CASE \/ PollReclaim(w) \/ PollList(w) \/ Restart(w) \/ Close(w)
             \/ Crash(w) \/ Drained(w)
    BY <2>3 DEF PollReclaim, PollList, Restart, Close, Crash, Drained, Fault, ghostVars
  <2> QED  BY <1>1, <2>1, <2>2, <2>3 DEF WorkerNext
<1>2. CASE ClientNext
  <2>1. ASSUME NEW c \in Callers, NEW j \in Jobs, CancelRead(c, j) \/ CallStep(c, j)
        PROVE  faults' = faults
    BY <2>1
    DEF CancelRead, CallStep, CancelStatus, CancelResult, CancelDeliver,
        CancelInterrupt, RemoveRow, ghostVars
  <2> QED
    BY <1>0, <1>2, <2>1 DEF ClientNext, Submit, RequeueJob, Clear, ghostVars
<1> QED
  BY <1>0, <1>1, <1>2 DEF Next, TickClock, vars, ghostVars

LEMMA FInvInit == Init => FInv
<1> SUFFICES ASSUME Init PROVE FInv
  OBVIOUS
<1>1. NoHandler /\ faults =< MaxFaults
  BY NoHandlerInit, BoundsAssumption DEF Init
<1>2. CallsKnown /\ FilesAgree
  BY DEF Init, StoreInit, Absent, Idle, NoTask, CallsKnown, FilesAgree, FileAgrees,
         Live, Gone, Wrote
<1> QED  BY <1>1, <1>2 DEF FInv

LEMMA FInvStep ==
  ASSUME StoreWorks, IInv, FInv, [Next]_vars
  PROVE  FInv'
<1>1. faults' =< MaxFaults
  <2>1. faults \in Nat /\ faults' \in Nat /\ faults =< MaxFaults /\ MaxFaults \in Nat
    BY IInvStep, BoundsAssumption DEF IInv, TypeOK, FInv
  <2> QED  BY <2>1, FaultsFall
<1>2. FilesAgree'
  <2> SUFFICES ASSUME NEW k \in Jobs, requeued'[k] = 0
               PROVE  FileAgrees(k)'
    BY DEF FilesAgree
  <2> QED  BY WorkerFiles, ClientFiles DEF Next
<1>3. NoHandler' /\ CallsKnown'
  BY NoHandlerStep, CallsKnownStep DEF FInv
<1> QED  BY <1>1, <1>2, <1>3 DEF FInv

\* Once everyone is done with a job that was never cancelled or requeued, its
\* output file carries the status its row does, or a process that died left
\* none, if no store call of a task raises.
THEOREM OutputIsResult == StoreWorks => (Spec => []OutputMatchesRow)
<1> SUFFICES ASSUME StoreWorks PROVE Spec => []OutputMatchesRow
  OBVIOUS
<1>1. IInv /\ FInv /\ [Next]_vars => FInv'
  BY FInvStep
<1>2. FInv => OutputMatchesRow
  BY DEF FInv, FilesAgree, FileAgrees, OutputMatchesRow, Settled, Terminal
<1> QED
  BY <1>1, <1>2, FInvInit, Inductive, PTL DEF Spec

-----------------------------------------------------------------------------
(* One model call at a time.                                               *)

\* What SingleExecution rests on: side tasks and store calls do not fail, and a
\* cancelled job is not requeued.
LeasesLast ==
  /\ StoreWorks /\ "side_error" \notin FaultKinds
  /\ RequeueFrom \subseteq {"failed"}

DownIsEmpty == \A w \in Workers, j \in Jobs : ~Alive(w) => task[w][j].pc = "none"

\* A task that is about to call the model, or calls it, owns the lease, which
\* outlives its next heartbeat, unless the job was cancelled or deleted.
Kept(w, j) ==
  /\ task[w][j].pc = "claimed" /\ ~Gone(j) =>
       CanStore(w, j) /\ rows[j].lease = LeaseTicks
  /\ task[w][j].pc = "running" /\ ~Gone(j) =>
       CanStore(w, j) /\ task[w][j].hb \in Nat /\ task[w][j].hb =< rows[j].lease

SInv ==
  /\ NoHandler /\ DownIsEmpty /\ SingleExecution
  /\ \A w \in Workers, j \in Jobs : Kept(w, j)

\* A step that leaves a row and its unexpired lease alone, or ends the job.
RowKept(k) ==
  /\ Gone(k) => Gone(k)'
  /\ rows[k].status = "processing" /\ rows[k].lease \in Nat =>
       \/ Gone(k)'
       \/ /\ rows'[k].status = "processing" /\ rows'[k].token = rows[k].token
          /\ rows'[k].lease = rows[k].lease
RowsKept == \A k \in Jobs : RowKept(k)

LEMMA RowsKeptOps ==
  ASSUME StoreTypeOK, NEW j \in Jobs,
         \/ Enqueue(j) \/ Claim(j) \/ UpdateStatus(j, "cancelled")
         \/ SetResult(j, "cancelled")
         \/ \E from \in SUBSET {"failed"} : Requeue(j, from)
  PROVE  RowsKept
<1> USE DEF RowsKept, RowKept, Gone, Columns, OthersStay
<1>1. CASE Enqueue(j)
  BY <1>1, EnqueueEffect
<1>2. CASE Claim(j)
  BY <1>2, ClaimEffect
<1>3. CASE UpdateStatus(j, "cancelled")
  BY <1>3, StatusEffect DEF UpdateStatus
<1>4. CASE SetResult(j, "cancelled")
  BY <1>4, ResultEffect DEF SetResult
<1>5. ASSUME NEW from \in SUBSET {"failed"}, Requeue(j, from) PROVE RowsKept
  BY <1>5, RequeueEffect
<1> QED  BY <1>1, <1>2, <1>3, <1>4, <1>5

LEMMA RowsKeptSets ==
  ASSUME StoreTypeOK,
         \/ \E S \in SUBSET Jobs : Reclaim(S) \/ Delete(S)
         \/ UNCHANGED storeVars
  PROVE  RowsKept
<1> USE DEF RowsKept, RowKept, Gone
<1>1. ASSUME NEW S \in SUBSET Jobs, Reclaim(S) PROVE RowsKept
  BY <1>1, ReclaimEffect DEF Stale, Lapsed
<1>2. ASSUME NEW S \in SUBSET Jobs, Delete(S) PROVE RowsKept
  BY <1>2, DeleteEffect DEF Absent
<1>3. CASE UNCHANGED storeVars
  BY <1>3 DEF storeVars
<1> QED  BY <1>1, <1>2, <1>3

\* Kept survives such a step, for a task that is left alone or is not between the
\* claim and the end of the call.
SameTask(v, k) ==
  /\ task'[v][k].pc = task[v][k].pc /\ task'[v][k].tok = task[v][k].tok
  /\ task'[v][k].hb = task[v][k].hb

LEMMA KeptStep ==
  ASSUME StoreTypeOK, NEW v \in Workers, NEW k \in Jobs, Kept(v, k),
         \/ task'[v][k].pc \notin {"claimed", "running"}
         \/ SameTask(v, k) /\ RowKept(k)
  PROVE  Kept(v, k)'
<1>1. rows[k].lease \in {Lapsed} \cup Nat /\ LeaseTicks \in Nat
  BY LeaseAssumption DEF StoreTypeOK, Row
<1> QED
  BY <1>1 DEF Kept, RowKept, SameTask, CanStore, Owns, Gone, Lapsed

\* A task holding the lease is the only one between its claim and the end of
\* its call.
LEMMA OwnerAlone ==
  ASSUME IInv, SInv, NEW v \in Workers, NEW w \in Workers, NEW j \in Jobs,
         task[v][j].pc \in {"claimed", "running"}, Owns(j, task[w][j].tok)
  PROVE  v = w
<1>1. CanStore(v, j)
  BY DEF SInv, Kept, Owns, Gone
<1>2. CanStore(w, j)
  BY OwnedToken DEF CanStore, IInv
<1> QED  BY <1>1, <1>2 DEF CanStore, Owns, IInv, TaskTokens

LEMMA KeptByWorker ==
  ASSUME LeasesLast, IInv, SInv, NEW w \in Workers, WorkerNext(w),
         NEW v \in Workers, NEW k \in Jobs
  PROVE  Kept(v, k)'
<1>0. /\ StoreTypeOK /\ task \in [Workers -> [Jobs -> Task]]
      /\ NoHandler /\ Kept(v, k) /\ LeaseTicks \in Nat /\ HbTicks \in Nat
      /\ HbTicks =< LeaseTicks
  BY LeaseAssumption, HeartbeatAssumption, HbIsNat DEF IInv, StoreInv, TypeOK, SInv
<1>1. CASE PollReclaim(w) \/ Restart(w) \/ PollList(w) \/ Close(w)
  <2>1. RowsKept
    BY <1>0, <1>1, RowsKeptSets DEF PollReclaim, Restart, PollList, Close, ReclaimStale
  <2>2. UNCHANGED task
    BY <1>1 DEF PollReclaim, Restart, PollList, Close
  <2> QED  BY <1>0, <2>1, <2>2, KeptStep DEF RowsKept, SameTask
<1>2. CASE Crash(w) \/ Drained(w)
  <2>1. RowsKept
    BY <1>0, <1>2, RowsKeptSets DEF Crash, Drained
  <2>2. v = w => task'[v][k].pc = "none"
    BY <1>0, <1>2, StopMoves DEF Crash, Drained, NoTask
  <2>3. v # w => SameTask(v, k)
    BY <1>0, <1>2, StopMoves DEF Crash, Drained, SameTask
  <2> QED  BY <1>0, <2>1, <2>2, <2>3, KeptStep DEF RowsKept
<1>3. ASSUME NEW j \in Jobs,
             \/ Dispatch(w, j) \/ TaskStep(w, j) \/ SideStep(w, j)
             \/ Finish(w, j) \/ Interrupted(w, j)
      PROVE  Kept(v, k)'
  <2>0. ASSUME NEW pc, NEW tok, NEW out, NEW hb, Moved(w, j, pc, tok, out, hb),
               v # w \/ k # j
        PROVE  SameTask(v, k)
    BY <2>0 DEF Moved, SameTask
  <2>1. ASSUME NEW pc, NEW tok, NEW out, NEW hb, Moved(w, j, pc, tok, out, hb),
               pc \notin {"claimed", "running"}, RowsKept
        PROVE  Kept(v, k)'
    BY <1>0, <2>0, <2>1, KeptStep DEF Moved, RowsKept
  <2>2. ASSUME UNCHANGED <<task, storeVars>>
        PROVE  Kept(v, k)'
    BY <2>2, <1>0, KeptStep, RowsKeptSets DEF SameTask, RowsKept
  <2>3. CASE TryClaim(w, j)
    <3>1. CASE UNCHANGED storeVars /\ Ended(w, j)
      BY <1>0, <2>1, <3>1, RowsKeptSets DEF Ended
    <3>2. CASE Claim(j) /\ \E out, hb : Moved(w, j, "claimed", nextToken, out, hb)
      <4>1. rows[j].status = "queued"
            /\ Columns(j, "processing", LeaseTicks, nextToken, rows[j].result)
        BY <1>0, <3>2, ClaimEffect
      <4>2. CASE k = j /\ v = w
        <5>1. nextToken # NoToken
          BY <1>0 DEF StoreTypeOK, NoToken
        <5> QED
          BY <3>2, <4>1, <4>2, <5>1 DEF Moved, Columns, Kept, CanStore, Owns
      <4>3. CASE k = j /\ v # w
        <5>1. task[v][k].pc \notin {"claimed", "running"}
          BY <1>0, <4>1, <4>3 DEF Kept, Gone, CanStore, Owns
        <5> QED  BY <1>0, <2>0, <3>2, <4>3, <5>1, KeptStep DEF SameTask
      <4>4. CASE k # j
        BY <1>0, <2>0, <3>2, <4>4, RowsKeptOps, KeptStep DEF RowsKept
      <4> QED  BY <4>2, <4>3, <4>4
    <3> QED  BY <1>0, <2>3, <3>1, <3>2, TaskMoves
  <2>4. CASE Begin(w, j)
    <3>1. RowsKept /\ rows' = rows
      BY <1>0, <2>4, RowsKeptSets DEF Begin, storeVars
    <3>2. CASE Ended(w, j)
      BY <2>1, <3>1, <3>2 DEF Ended
    <3>3. CASE /\ Exists(j) /\ rows[j].status # "cancelled"
               /\ Moved(w, j, "running", task[w][j].tok, task[w][j].out, HbTicks)
      <4>1. CASE k = j /\ v = w
        <5>1. CanStore(w, j) /\ rows[j].lease = LeaseTicks
          BY <1>0, <2>4, <3>3, <4>1
          DEF Begin, At, Kept, Gone, Exists, JobStatus, Terminal
        <5>2. /\ task'[w][j].pc = "running" /\ task'[w][j].tok = task[w][j].tok
              /\ task'[w][j].hb = HbTicks
          BY <3>3 DEF Moved
        <5>3. CanStore(w, j)'
          BY <3>1, <5>1, <5>2 DEF CanStore, Owns
        <5> QED
          BY <1>0, <3>1, <4>1, <5>1, <5>2, <5>3 DEF Kept
      <4>2. CASE k # j \/ v # w
        BY <1>0, <2>0, <3>1, <3>3, <4>2, KeptStep DEF RowsKept
      <4> QED  BY <4>1, <4>2
    <3> QED  BY <1>0, <2>4, <3>2, <3>3, TaskMoves
  <2>5. CASE Finish(w, j)
    <3>1. \E s \in {"completed", "failed"} :
            Moved(w, j, "computed", task[w][j].tok, s, task[w][j].hb)
      BY <1>0, <2>5, TaskMoves
    <3>2. RowsKept
      BY <1>0, <2>5, RowsKeptSets DEF Finish
    <3> QED  BY <2>1, <3>1, <3>2
  <2>6. CASE Dispatch(w, j) \/ Interrupted(w, j) \/ RecheckStatus(w, j) \/ DeliverResult(w, j)
    <3>1. /\ UNCHANGED storeVars
          /\ \/ UNCHANGED task \/ End(w, j)
             \/ \E pc \in {"spawned", "checked"} : Goto(w, j, pc)
      BY <2>6 DEF Dispatch, Interrupted, RecheckStatus, DeliverResult
    <3> QED
      BY <1>0, <2>1, <2>2, <3>1, EndMoves, GotoMoves, RowsKeptSets DEF Ended, GoesTo
  <2>7. CASE StoreResult(w, j)
    <3>1. CASE End(w, j) /\ UNCHANGED storeVars
      BY <1>0, <2>1, <3>1, EndMoves, RowsKeptSets DEF Ended
    <3>2. CASE SetResultOwned(j, task[w][j].tok, task[w][j].out) /\ Goto(w, j, "stored")
      <4>1. GoesTo(w, j, "stored") /\ OthersStay(j) /\ Owns(j, task[w][j].tok)
        BY <1>0, <3>2, GotoMoves, ResultEffect DEF Columns, SetResultOwned
      <4>2. CASE k # j
        BY <1>0, <2>0, <4>1, <4>2, KeptStep DEF OthersStay, RowKept, Gone, GoesTo
      <4>3. CASE k = j /\ v = w
        BY <1>0, <4>1, <4>3, KeptStep DEF GoesTo, Moved
      <4>4. CASE k = j /\ v # w
        <5>1. task[v][j].pc \notin {"claimed", "running"}
          BY <4>1, <4>4, OwnerAlone
        <5> QED
          BY <1>0, <2>0, <4>1, <4>4, <5>1, KeptStep DEF SameTask, GoesTo
      <4> QED  BY <4>2, <4>3, <4>4
    <3> QED  BY <2>7, <3>1, <3>2 DEF StoreResult
  <2>8. CASE HeartbeatStep(w, j)
    <3>0. task[w][j].pc = "running"
      BY <2>8 DEF HeartbeatStep, At
    <3>1. CASE /\ Heartbeat(j, task[w][j].tok)
               /\ Moved(w, j, task[w][j].pc, task[w][j].tok, task[w][j].out, HbTicks)
      <4>1. /\ Owns(j, task[w][j].tok)
            /\ Columns(j, rows[j].status, LeaseTicks, rows[j].token, rows[j].result)
        BY <1>0, <3>1, HeartbeatEffect
      <4>2. CASE k # j
        BY <1>0, <2>0, <3>1, <4>1, <4>2, KeptStep DEF Columns, OthersStay, RowKept, Gone
      <4>3. CASE k = j /\ v = w
        <5>1. task[w][j].tok # NoToken
          BY <4>1, OwnedToken DEF IInv
        <5>2. CanStore(w, j)' /\ rows'[j].lease = LeaseTicks /\ task'[w][j].hb = HbTicks
          BY <3>1, <4>1, <5>1 DEF CanStore, Owns, Columns, Moved
        <5>3. task'[w][j].pc = "running"
          BY <3>0, <3>1 DEF Moved
        <5> QED  BY <1>0, <4>3, <5>2, <5>3 DEF Kept
      <4>4. CASE k = j /\ v # w
        <5>1. task[v][j].pc \notin {"claimed", "running"}
          BY <4>1, <4>4, OwnerAlone
        <5> QED
          BY <1>0, <2>0, <3>1, <4>4, <5>1, KeptStep DEF SameTask
      <4> QED  BY <4>2, <4>3, <4>4
    <3>2. CASE /\ ~Owns(j, task[w][j].tok) /\ UNCHANGED storeVars
               /\ Moved(w, j, task[w][j].pc, task[w][j].tok, task[w][j].out, Off)
      <4>1. CASE k = j /\ v = w
        <5>1. Gone(j)
          BY <1>0, <3>0, <3>2, <4>1 DEF Kept, CanStore
        <5>2. Gone(j)'
          BY <3>2, <5>1 DEF Gone, storeVars
        <5> QED  BY <4>1, <5>2 DEF Kept
      <4>2. CASE k # j \/ v # w
        BY <1>0, <2>0, <3>2, <4>2, KeptStep, RowsKeptSets DEF RowsKept
      <4> QED  BY <4>1, <4>2
    <3> QED  BY <1>0, <2>8, <3>1, <3>2, TaskMoves
  <2>9. CASE CancelWatchStep(w, j)
    <3>1. RowsKept /\ GoesTo(w, j, task[w][j].pc)
      BY <1>0, <2>9, TaskMoves, RowsKeptSets DEF CancelWatchStep
    <3> QED
      BY <1>0, <3>1, KeptStep DEF GoesTo, Moved, SameTask, RowsKept
  <2> QED
    BY <1>0, <1>3, <2>3, <2>4, <2>5, <2>6, <2>7, <2>8, <2>9
    DEF TaskStep, SideStep, FailRecheck, FailStore, FailDeliver, At, NoHandler
<1>4. ~\E j \in Jobs : StoreError(w, j) \/ SideTaskError(w, j)
  BY DEF LeasesLast, StoreWorks, StoreError, SideTaskError, Fault
<1> QED  BY <1>1, <1>2, <1>3, <1>4 DEF WorkerNext

LEMMA KeptByOthers ==
  ASSUME LeasesLast, IInv, SInv, ClientNext \/ TickClock \/ UNCHANGED vars,
         NEW v \in Workers, NEW k \in Jobs
  PROVE  Kept(v, k)'
<1>0. /\ StoreTypeOK /\ task \in [Workers -> [Jobs -> Task]]
      /\ Kept(v, k) /\ DownIsEmpty
  BY DEF IInv, StoreInv, TypeOK, SInv
<1>1. CASE ClientNext
  <2>1. SameTask(v, k)
    BY <1>0, <1>1, ClientMoves DEF TasksStay, SameTask
  <2>2. ASSUME NEW j \in Jobs, RequeueJob(j) PROVE RowsKept
    BY <1>0, <2>2, RowsKeptOps DEF RequeueJob, LeasesLast
  <2>3. ASSUME NEW j \in Jobs, NEW c \in Callers, CancelRead(c, j) \/ CallStep(c, j)
        PROVE  RowsKept
    BY <1>0, <2>3, RowsKeptOps, RowsKeptSets
    DEF CancelRead, CallStep, CancelStatus, CancelResult, CancelDeliver,
        CancelInterrupt, RemoveRow
  <2>4. ASSUME NEW j \in Jobs, Submit(j) PROVE RowsKept
    BY <1>0, <2>4, RowsKeptOps DEF Submit
  <2>5. ASSUME NEW S \in SUBSET Jobs, Clear(S) PROVE RowsKept
    BY <1>0, <2>5, RowsKeptSets DEF Clear
  <2>6. RowsKept
    BY <1>1, <2>2, <2>3, <2>4, <2>5 DEF ClientNext
  <2> QED  BY <1>0, <2>1, <2>6, KeptStep DEF RowsKept
<1>2. CASE TickClock
  <2>1. /\ task'[v][k].pc = task[v][k].pc /\ task'[v][k].tok = task[v][k].tok
        /\ task'[v][k].hb = IF task[v][k].hb > 0 THEN task[v][k].hb - 1
                                                 ELSE task[v][k].hb
    BY <1>0, <1>2, TickMoves
  <2>2. /\ rows'[k].status = rows[k].status /\ rows'[k].token = rows[k].token
        /\ rows'[k].lease = IF rows[k].lease > Lapsed THEN rows[k].lease - 1 ELSE Lapsed
    BY <1>0, <1>2, TickEffect DEF TickClock
  <2>3. task[v][k].pc \in {"claimed", "running"} =>
          task[v][k].pc \notin Sync /\ task[v][k].hb # 0
    BY <1>0, <1>2 DEF TickClock, DownIsEmpty
  <2>4. task[v][k].pc # "claimed"
    BY <2>3 DEF Sync
  <2>5. CASE task[v][k].pc # "running"
    BY <2>1, <2>4, <2>5 DEF Kept
  <2>6. CASE task[v][k].pc = "running" /\ ~Gone(k)
    <3>1. /\ CanStore(v, k) /\ task[v][k].hb \in Nat /\ task[v][k].hb # 0
          /\ task[v][k].hb =< rows[k].lease /\ rows[k].lease \in {Lapsed} \cup Nat
      BY <1>0, <2>3, <2>6 DEF Kept, StoreTypeOK, Row
    <3>2. CanStore(v, k)'
      BY <2>1, <2>2, <3>1 DEF CanStore, Owns
    <3>3. task'[v][k].hb \in Nat /\ task'[v][k].hb =< rows'[k].lease
      BY <2>1, <2>2, <3>1 DEF Lapsed
    <3> QED  BY <2>1, <2>6, <3>2, <3>3 DEF Kept
  <2>7. CASE Gone(k)
    BY <2>1, <2>2, <2>4, <2>7 DEF Kept, Gone
  <2> QED  BY <2>5, <2>6, <2>7
<1>3. CASE UNCHANGED vars
  BY <1>0, <1>3, KeptStep, RowsKeptSets DEF vars, SameTask, RowsKept
<1> QED  BY <1>1, <1>2, <1>3

\* A task is there while its process is up, and only Begin makes it call the model.
LEMMA TasksRun ==
  ASSUME IInv, SInv, [Next]_vars, NEW v \in Workers, NEW k \in Jobs
  PROVE  /\ phase'[v] = "down" => task'[v][k].pc = "none"
         /\ task'[v][k].pc = "running" => task[v][k].pc = "running" \/ Begin(v, k)
<1>0. /\ task \in [Workers -> [Jobs -> Task]]
      /\ phase \in [Workers -> {"up", "draining", "down"}]
      /\ phase[v] = "down" => task[v][k].pc = "none"
  BY DEF IInv, TypeOK, SInv, DownIsEmpty, Alive
<1>1. ASSUME task'[v][k].pc = task[v][k].pc, phase'[v] = "down" => phase[v] = "down"
      PROVE  /\ phase'[v] = "down" => task'[v][k].pc = "none"
             /\ task'[v][k].pc = "running" => task[v][k].pc = "running" \/ Begin(v, k)
  BY <1>0, <1>1
<1>2. ASSUME NEW w \in Workers, WorkerNext(w)
      PROVE  /\ phase'[v] = "down" => task'[v][k].pc = "none"
             /\ task'[v][k].pc = "running" => task[v][k].pc = "running" \/ Begin(v, k)
  <2>1. CASE PollReclaim(w) \/ PollList(w) \/ Restart(w) \/ Close(w)
    <3>1. task' = task /\ (phase'[v] = "down" => phase[v] = "down")
      BY <1>0, <2>1 DEF PollReclaim, PollList, Restart, Close
    <3> QED  BY <1>1, <3>1
  <2>2. CASE Crash(w) \/ Drained(w)
    <3>1. v = w => task'[v][k].pc = "none"
      BY <1>0, <2>2, StopMoves DEF Crash, Drained, NoTask
    <3>2. v # w => task'[v][k].pc = task[v][k].pc /\ phase'[v] = phase[v]
      BY <1>0, <2>2, StopMoves DEF Crash, Drained, Stopped
    <3> QED  BY <1>1, <3>1, <3>2
  <2>3. ASSUME NEW j \in Jobs,
               \/ Dispatch(w, j) \/ TaskStep(w, j) \/ SideStep(w, j)
               \/ Finish(w, j) \/ Interrupted(w, j) \/ SideTaskError(w, j)
               \/ StoreError(w, j)
        PROVE  /\ phase'[v] = "down" => task'[v][k].pc = "none"
               /\ task'[v][k].pc = "running" => task[v][k].pc = "running" \/ Begin(v, k)
    <3>0. phase' = phase /\ Alive(w)
      <4>1. CASE TaskStep(w, j) \/ SideStep(w, j)
        BY <4>1
        DEF TaskStep, SideStep, TryClaim, Begin, RecheckStatus, StoreResult,
            DeliverResult, FailRecheck, FailStore, FailDeliver, HeartbeatStep,
            CancelWatchStep, At, procVars
      <4> QED
        BY <2>3, <4>1
        DEF Dispatch, Finish, Interrupted, StoreError, SideTaskError, At, procVars
    <3>1. ASSUME NEW pc, NEW tok, NEW out, NEW hb, Moved(w, j, pc, tok, out, hb),
                 pc = "running" => task[w][j].pc = "running" \/ Begin(w, j)
          PROVE  /\ phase'[v] = "down" => task'[v][k].pc = "none"
                 /\ task'[v][k].pc = "running" => task[v][k].pc = "running" \/ Begin(v, k)
      BY <1>0, <3>0, <3>1 DEF Moved, Alive
    <3>2. CASE \/ TryClaim(w, j) \/ Begin(w, j) \/ Finish(w, j)
               \/ SideStep(w, j) \/ SideTaskError(w, j)
      BY <1>0, <3>1, <3>2, TaskMoves DEF SideStep, Ended, GoesTo
    <3>3. CASE \/ UNCHANGED task \/ End(w, j)
               \/ \E pc \in {"spawned", "checked", "stored", "failing", "failchecked", "failed"} :
                    Goto(w, j, pc)
      BY <1>0, <1>1, <3>0, <3>1, <3>3, EndMoves, GotoMoves DEF Ended, GoesTo
    <3>4. CASE \/ Dispatch(w, j) \/ RecheckStatus(w, j) \/ StoreResult(w, j)
               \/ Interrupted(w, j) \/ DeliverResult(w, j) \/ FailRecheck(w, j)
               \/ FailStore(w, j) \/ FailDeliver(w, j) \/ StoreError(w, j)
      BY <3>3, <3>4
      DEF Dispatch, RecheckStatus, StoreResult, Interrupted, DeliverResult,
          FailRecheck, FailStore, FailDeliver, StoreError
    <3> QED  BY <2>3, <3>2, <3>4 DEF TaskStep
  <2> QED  BY <1>2, <2>1, <2>2, <2>3 DEF WorkerNext
<1>3. CASE ClientNext
  <2>1. task'[v][k].pc = task[v][k].pc
    BY <1>0, <1>3, ClientMoves DEF TasksStay
  <2>2. phase' = phase
    <3>1. CASE \E c \in Callers, j \in Jobs : CancelRead(c, j) \/ CallStep(c, j)
      BY <3>1
      DEF CancelRead, CallStep, CancelStatus, CancelResult, CancelDeliver,
          CancelInterrupt, RemoveRow, procVars
    <3> QED
      BY <1>3, <3>1 DEF ClientNext, Submit, RequeueJob, Clear, procVars
  <2> QED  BY <1>1, <2>1, <2>2
<1>4. CASE TickClock
  <2>1. task'[v][k].pc = task[v][k].pc /\ phase' = phase
    BY <1>0, <1>4, TickMoves DEF TickClock, procVars
  <2> QED  BY <1>1, <2>1
<1>5. CASE UNCHANGED vars
  BY <1>1, <1>5 DEF vars, procVars
<1> QED
  BY <1>2, <1>3, <1>4, <1>5 DEF Next

LEMMA SInvStep ==
  ASSUME LeasesLast, IInv, SInv, [Next]_vars
  PROVE  SInv'
<1>1. NoHandler'
  BY NoHandlerStep DEF SInv, LeasesLast
<1>2. DownIsEmpty'
  BY TasksRun DEF DownIsEmpty, Alive
<1>3. \A w \in Workers, j \in Jobs : Kept(w, j)'
  BY KeptByWorker, KeptByOthers DEF Next
<1>4. SingleExecution'
  <2> SUFFICES ASSUME NEW j \in Jobs, NEW v \in Workers, NEW w \in Workers,
                      task'[v][j].pc = "running", task'[w][j].pc = "running"
               PROVE  v = w
    BY DEF SingleExecution
  <2>1. ASSUME NEW u \in Workers, NEW x \in Workers, Begin(u, j),
               task'[u][j].pc = "running", task'[x][j].pc = "running"
        PROVE  u = x
    <3>1. Exists(j) /\ rows[j].status # "cancelled" /\ task[u][j].pc = "claimed"
      <4>1. task \in [Workers -> [Jobs -> Task]]
        BY DEF IInv, TypeOK
      <4>2. ~Ended(u, j)
        BY <2>1 DEF Ended, Moved
      <4> QED  BY <2>1, <4>1, <4>2, TaskMoves DEF Begin, At
    <3>2. Owns(j, task[u][j].tok)
      BY <3>1 DEF SInv, Kept, CanStore, Gone, Exists, JobStatus, Terminal
    <3>3. task[x][j].pc \in {"claimed", "running"}
      BY <2>1, TasksRun DEF Begin, At
    <3> QED  BY <3>2, <3>3, OwnerAlone
  <2> QED
    BY <2>1, TasksRun DEF SInv, SingleExecution
<1> QED  BY <1>1, <1>2, <1>3, <1>4 DEF SInv

\* No two processes call the model for one job at the same time, across crashes,
\* shutdowns and restarts, as long as heartbeats run, store calls do not raise
\* and cancelled jobs are not requeued: a heartbeat is due before its lease
\* ends, so no live owner is reclaimed.
THEOREM OneExecution == LeasesLast => (Spec => []SingleExecution)
<1> SUFFICES ASSUME LeasesLast PROVE Spec => []SingleExecution
  OBVIOUS
<1>1. Init => SInv
  BY NoHandlerInit DEF Init, SInv, DownIsEmpty, SingleExecution, Kept, NoTask
<1>2. IInv /\ SInv /\ [Next]_vars => SInv'
  BY SInvStep
<1>3. SInv => SingleExecution
  BY DEF SInv
<1> QED
  BY <1>1, <1>2, <1>3, Inductive, PTL DEF Spec
=============================================================================
