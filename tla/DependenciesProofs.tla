------------------------- MODULE DependenciesProofs -------------------------
(***************************************************************************)
(* Proofs about Dependencies, for any jobs, graph, labels, limits, workers *)
(* and callers.                                                            *)
(*                                                                         *)
(* NoEarlyStart needs to know what a row has behind it at each place of    *)
(* the pass: the dependencies that were read were completed when they were *)
(* read (Passed), and a completed job is one that finished, for ever.      *)
(* SlotsHeld needs to know that the row in the gate has no task.           *)
(*                                                                         *)
(* FailedBatchLeavesNothing needs to know that every item in the table is  *)
(* among the ids that submit_batch collected, or is being removed.         *)
(* PhasesInOrder needs that whatever the worker looks at has been          *)
(* submitted: with LabelsInOrder a peer that is missing stays missing.     *)
(*                                                                         *)
(* NeverForNothing needs the reason of each failure from where it is found *)
(* (GateReason) and through the cascade that carries it (CallReasons).     *)
(***************************************************************************)
EXTENDS Dependencies, JobStoreProofs, FiniteSetTheorems, WellFoundedInduction

Gate == [step : Step, job : Jobs, todo : SUBSET Jobs, token : Nat]
CallRecord == [step : CallState, job : Jobs, root : Jobs,
               stack : Seq(SUBSET Jobs), token : Nat, delete : BOOLEAN]

Typed ==
  /\ listed \in [Workers -> Seq(Jobs)]
  /\ gate \in [Workers -> Gate]
  /\ task \in [Workers -> [Jobs -> {NoTask} \cup Nat]]
  /\ reserved \in [Workers -> SUBSET Jobs]
  /\ elsewhere \in [Workers -> SUBSET Jobs]

CallsTyped ==
  /\ call \in [Callers -> CallRecord]
  /\ \A c \in Callers : call[c].step = "child" => call[c].stack # <<>>
  /\ batch = [step |-> batch.step, todo |-> batch.todo, ids |-> batch.ids]
  /\ batch.ids \in Seq(Jobs)

\* What is completed has finished.
Recorded == \A j \in Jobs : rows[j].status = "completed" => j \in finished

\* What a row in the gate, and a task, has behind it.
Passed ==
  \A w \in Workers :
    /\ gate[w].step = "deps" => Deps[gate[w].job] \ gate[w].todo \subseteq finished
    /\ gate[w].step \in {"label", "slots", "permit"}
         => Deps[gate[w].job] \subseteq finished
    /\ \A j \in Jobs : task[w][j] # NoTask => Deps[j] \subseteq finished

\* The row in the gate has no task yet.
GateFirst ==
  \A w \in Workers : gate[w].step # "idle" => task[w][gate[w].job] = NoTask

DInv ==
  /\ StoreInv /\ Typed /\ CallsTyped
  /\ Recorded /\ Passed /\ GateFirst /\ SlotsHeld

-----------------------------------------------------------------------------
(* The job table.                                                          *)

LEMMA SomeJob == Some \in Jobs
  BY JobsAssumption DEF Some

LEMMA Tokens ==
  ASSUME StoreInv, NEW j \in Jobs
  PROVE  /\ nextToken \in Nat
         /\ \A t : Owns(j, t) => t \in 1 .. nextToken - 1
  BY DEF StoreInv, StoreTypeOK, TokensUnique, LeaseMatchesStatus, Row, Owns, NoToken

\* The worker's steps on the table.
LEMMA WorkerAllowed ==
  ASSUME DInv, NEW w \in Workers,
         GateStep(w) \/ \E j \in Jobs : TaskStep(w, j)
  PROVE  [StoreNext]_storeVars
<1>1. gate[w].job \in Jobs
  BY DEF DInv, Typed, Gate
<1>2. CASE \/ Poll(w) \/ StartRow(w) \/ ReadDep(w) \/ ReadPeers(w)
           \/ TakeSlots(w) \/ Dispatch(w)
  BY <1>2 DEF Poll, StartRow, ReadDep, ReadPeers, TakeSlots, Dispatch, storeVars
<1>3. CASE FailClaim(w)
  BY <1>1, <1>3 DEF FailClaim, StoreNext, JobOp
<1>4. CASE FailStore(w)
  BY <1>1, <1>4, Tokens DEF DInv, FailStore, SetResultOwned, StoreNext, JobOp
<1>5. ASSUME NEW j \in Jobs, TaskClaim(w, j)
      PROVE  [StoreNext]_storeVars
  BY <1>5 DEF TaskClaim, StoreNext, JobOp, storeVars
<1>6. ASSUME NEW j \in Jobs, TaskEnd(w, j)
      PROVE  [StoreNext]_storeVars
  BY <1>6, Tokens DEF DInv, TaskEnd, SetResultOwned, StoreNext, JobOp
<1> QED
  BY <1>2, <1>3, <1>4, <1>5, <1>6 DEF GateStep, TaskStep

LEMMA CallAllowed ==
  ASSUME DInv, NEW c \in Callers, CallStep(c)
  PROVE  [StoreNext]_storeVars
<1>1. call[c].job \in Jobs /\ call[c].root \in Jobs
  BY DEF DInv, CallsTyped, CallRecord
<1>2. CASE ReadRow(c) \/ ListChildren(c) \/ NextChild(c)
  BY <1>2 DEF ReadRow, ListChildren, NextChild, storeVars
<1>3. CASE WriteStatus(c) \/ WriteResult(c)
  BY <1>1, <1>3 DEF WriteStatus, WriteResult, StoreNext, JobOp
<1>4. CASE ClaimChild(c)
  BY <1>1, <1>4 DEF ClaimChild, StoreNext, JobOp
<1>5. CASE FailChild(c)
  BY <1>1, <1>5, Tokens DEF DInv, FailChild, SetResultOwned, StoreNext, JobOp
<1>6. CASE EndCall(c)
  BY <1>1, <1>6 DEF EndCall, StoreNext
<1> QED
  BY <1>2, <1>3, <1>4, <1>5, <1>6 DEF CallStep

LEMMA Allowed ==
  ASSUME DInv, [Next]_vars
  PROVE  [StoreNext]_storeVars
<1>1. ASSUME NEW j \in Jobs, Submit(j) PROVE [StoreNext]_storeVars
  BY <1>1 DEF Submit, StoreNext, JobOp
<1>2. CASE SubmitItem
  BY <1>2 DEF SubmitItem, StoreNext, JobOp, storeVars
<1>3. CASE RollBack \/ ItemRefused \/ UNCHANGED vars
           \/ \E c \in Callers, j \in Jobs : Cancel(c, j)
  BY <1>3 DEF RollBack, ItemRefused, Cancel, vars, storeVars
<1>4. CASE PassTime
  BY <1>4 DEF PassTime, StoreNext
<1> QED
  BY <1>1, <1>2, <1>3, <1>4, WorkerAllowed, CallAllowed DEF Next, SubmitStep

-----------------------------------------------------------------------------
(* What is completed stays remembered.                                     *)

LEMMA RecordedStep ==
  ASSUME DInv, [Next]_vars
  PROVE  finished \subseteq finished' /\ Recorded'
<1>0. rows \in [Jobs -> Row] /\ Recorded
  BY DEF DInv, StoreInv, StoreTypeOK
<1>1. CASE Remember
  BY <1>1 DEF Remember, Recorded
<1>2. CASE UNCHANGED <<rows, finished>>
  BY <1>0, <1>2 DEF Recorded
<1>3. ASSUME NEW j \in Jobs, Enqueue(j), finished' = finished
      PROVE  finished \subseteq finished' /\ Recorded'
  <2>1. \A k \in Jobs : rows'[k].status \in {rows[k].status, "queued"}
    BY <1>0, <1>3 DEF Enqueue, Absent
  <2> QED  BY <1>0, <1>3, <2>1 DEF Recorded
<1>4. CASE PassTime
  <2>1. \A k \in Jobs : rows'[k].status = rows[k].status
    BY <1>0, <1>4 DEF PassTime, Tick, Row
  <2> QED  BY <1>0, <1>4, <2>1 DEF PassTime, Recorded
<1>5. ASSUME NEW w \in Workers, GateStep(w) \/ \E j \in Jobs : TaskStep(w, j)
      PROVE  Remember \/ UNCHANGED <<rows, finished>>
  BY <1>5
  DEF GateStep, Poll, StartRow, ReadDep, ReadPeers, TakeSlots, Dispatch, FailClaim,
      FailStore, TaskStep, TaskClaim, TaskEnd, storeVars
<1>6. ASSUME NEW c \in Callers, CallStep(c) \/ \E j \in Jobs : Cancel(c, j)
      PROVE  Remember \/ UNCHANGED <<rows, finished>>
  BY <1>6
  DEF CallStep, ReadRow, WriteStatus, WriteResult, ListChildren, NextChild,
      ClaimChild, FailChild, EndCall, Cancel, storeVars
<1>7. ASSUME NEW j \in Jobs, Submit(j)
      PROVE  Enqueue(j) /\ finished' = finished
  BY <1>7 DEF Submit
<1>8. CASE SubmitItem
  BY <1>2, <1>3, <1>8 DEF SubmitItem, storeVars
<1>9. CASE RollBack \/ ItemRefused \/ UNCHANGED vars
  BY <1>2, <1>9 DEF RollBack, ItemRefused, vars, storeVars
<1> QED
  BY <1>1, <1>2, <1>3, <1>4, <1>5, <1>6, <1>7, <1>8, <1>9 DEF Next, SubmitStep

-----------------------------------------------------------------------------
(* The poll's pass and the tasks.                                          *)

NewGate(w, g) == gate' = [gate EXCEPT ![w] = g]

\* The row in the gate moves, or leaves it, and the tasks stay as they are.
LEMMA GateMoves ==
  ASSUME DInv, NEW w \in Workers, NEW g \in Gate, NewGate(w, g),
         finished \subseteq finished', task' = task,
         g.step # "idle" => task[w][g.job] = NoTask,
         g.step = "deps" => Deps[g.job] \ g.todo \subseteq finished,
         g.step \in {"label", "slots", "permit"} => Deps[g.job] \subseteq finished
  PROVE  gate' \in [Workers -> Gate] /\ Passed' /\ GateFirst'
<1>1. /\ gate'[w] = g /\ \A v \in Workers \ {w} : gate'[v] = gate[v]
      /\ gate' \in [Workers -> Gate]
  BY DEF DInv, Typed, NewGate
<1>2. Passed'
  <2> SUFFICES ASSUME NEW v \in Workers
               PROVE  /\ gate'[v].step = "deps" =>
                           Deps[gate'[v].job] \ gate'[v].todo \subseteq finished'
                      /\ gate'[v].step \in {"label", "slots", "permit"}
                           => Deps[gate'[v].job] \subseteq finished'
                      /\ \A j \in Jobs : task'[v][j] # NoTask
                           => Deps[j] \subseteq finished'
    BY DEF Passed
  <2> QED  BY <1>1 DEF DInv, Passed
<1>3. GateFirst'
  BY <1>1 DEF DInv, GateFirst
<1> QED  BY <1>1, <1>2, <1>3

\* What SlotsHeld says of w and of all others, when only w moved.
Slots(w) ==
  /\ reserved[w] = InFlight(w) \cup {j \in {gate[w].job} : gate[w].step = "permit"}
  /\ \A k \in DOMAIN SlotLimit : CountIn(reserved[w], k) =< SlotLimit[k]

LEMMA SlotsOfOne ==
  ASSUME SlotsHeld, NEW w \in Workers, Slots(w)',
         \A v \in Workers \ {w} : /\ reserved'[v] = reserved[v]
                                   /\ gate'[v] = gate[v] /\ task'[v] = task[v]
  PROVE  SlotsHeld'
  BY DEF SlotsHeld, Slots, InFlight, CountIn

\* A count of jobs is a number; it grows by one at most with one job more, and
\* does not with one less.
LEMMA Counts ==
  ASSUME NEW S \in SUBSET Jobs, NEW k
  PROVE  /\ CountIn(S, k) \in Nat
         /\ \A j \in Jobs : CountIn(S \cup {j}, k) =< CountIn(S, k) + 1
         /\ \A j \in Jobs : CountIn(S \cup {j}, k) > CountIn(S, k) => k \in Dims[j]
         /\ \A j \in Jobs : CountIn(S \ {j}, k) =< CountIn(S, k)
<1> DEFINE C(T) == {i \in T : k \in Dims[i]}
<1>1. \A T \in SUBSET Jobs : IsFiniteSet(C(T)) /\ Cardinality(C(T)) \in Nat
  BY JobsAssumption, FS_Subset, FS_CardinalityType
<1>2. ASSUME NEW j \in Jobs
      PROVE  /\ CountIn(S \cup {j}, k) =< CountIn(S, k) + 1
             /\ CountIn(S \cup {j}, k) > CountIn(S, k) => k \in Dims[j]
             /\ CountIn(S \ {j}, k) =< CountIn(S, k)
  <2>1. C(S \ {j}) \subseteq C(S)
    OBVIOUS
  <2>2. Cardinality(C(S \ {j})) =< Cardinality(C(S))
    BY <1>1, <2>1, FS_Subset
  <2>3. CASE k \in Dims[j]
    <3>1. C(S \cup {j}) = C(S) \cup {j}
      BY <2>3
    <3>2. Cardinality(C(S) \cup {j}) =< Cardinality(C(S)) + 1
      <4>1. IsFiniteSet(C(S)) /\ Cardinality(C(S)) \in Nat
        BY <1>1
      <4> HIDE DEF C
      <4>2. Cardinality(C(S) \cup {j}) =
              IF j \in C(S) THEN Cardinality(C(S)) ELSE Cardinality(C(S)) + 1
        BY <4>1, FS_AddElement
      <4> QED  BY <4>1, <4>2
    <3> QED  BY <2>2, <2>3, <3>1, <3>2 DEF CountIn
  <2>4. CASE k \notin Dims[j]
    <3>1. C(S \cup {j}) = C(S)
      BY <2>4
    <3>2. Cardinality(C(S \cup {j})) = Cardinality(C(S))
      BY <3>1
    <3> QED  BY <1>1, <2>2, <3>2 DEF CountIn
  <2> QED  BY <2>3, <2>4
<1> QED  BY <1>1, <1>2 DEF CountIn

\* The steps of the pass that touch neither tasks nor slots.
LEMMA ReadingInv ==
  ASSUME DInv, NEW w \in Workers, finished \subseteq finished',
         \/ StartRow(w) \/ ReadDep(w) \/ ReadPeers(w) \/ FailClaim(w)
         \/ FailStore(w)
  PROVE  Typed' /\ Passed' /\ GateFirst' /\ SlotsHeld'
<1>1. /\ gate[w] \in Gate /\ listed[w] \in Seq(Jobs)
      /\ \A v \in Workers : gate[v] \in Gate
  BY DEF DInv, Typed
<1>2. NoGate \in Gate /\ NoGate.step = "idle"
  BY SomeJob DEF NoGate, Gate, Step, NoToken
<1>3. UNCHANGED <<task, reserved, elsewhere>>
  BY DEF StartRow, ReadDep, ReadPeers, FailClaim, FailStore, slotVars
<1>4. /\ listed' \in [Workers -> Seq(Jobs)]
      /\ gate[w].step \notin {"slots", "permit"}
  <2>1. CASE StartRow(w)
    <3>1. Tail(listed[w]) \in Seq(Jobs)
      BY <1>1, <2>1 DEF StartRow
    <3> QED  BY <2>1, <3>1 DEF StartRow, DInv, Typed
  <2>2. CASE ReadDep(w) \/ ReadPeers(w) \/ FailClaim(w) \/ FailStore(w)
    BY <2>2 DEF DInv, Typed, ReadDep, ReadPeers, FailClaim, FailStore
  <2> QED  BY <2>1, <2>2
<1>5. \/ gate' = gate
      \/ \E g \in Gate :
           /\ NewGate(w, g) /\ g.step # "permit"
           /\ g.step # "idle" => task[w][g.job] = NoTask
           /\ g.step = "deps" => Deps[g.job] \ g.todo \subseteq finished
           /\ g.step \in {"label", "slots", "permit"} => Deps[g.job] \subseteq finished
  <2>1. CASE StartRow(w)
    <3> DEFINE j == Head(listed[w])
               g == [step |-> CASE Deps[j] = {} -> "label"
                                [] InCycle(j) -> "fail"
                                [] OTHER -> "deps",
                     job |-> j, todo |-> Deps[j], token |-> NoToken]
    <3>1. j \in Jobs /\ Deps[j] \subseteq Jobs
      BY <1>1, <2>1, DepsAssumption DEF StartRow
    <3>2. g \in Gate
      BY <3>1 DEF Gate, Step, NoToken
    <3>3. gate' = gate \/ (SetGate(w, g) /\ task[w][j] = NoTask)
      BY <2>1 DEF StartRow
    <3>4. g.job = j /\ g.todo = Deps[j] /\ g.step \in {"label", "fail", "deps"}
          /\ (g.step = "label" => Deps[j] = {})
      OBVIOUS
    <3> HIDE DEF g
    <3> QED  BY <3>2, <3>3, <3>4 DEF SetGate, NewGate
  <2>2. CASE ReadDep(w)
    <3>1. PICK d \in gate[w].todo :
            \/ SetGate(w, [gate[w] EXCEPT !.step = "fail"])
            \/ SetGate(w, NoGate)
            \/ /\ Is(d, {"completed"})
               /\ SetGate(w, IF gate[w].todo = {d}
                             THEN [gate[w] EXCEPT !.step = "label", !.todo = {}]
                             ELSE [gate[w] EXCEPT !.todo = @ \ {d}])
      BY <2>2 DEF ReadDep
    <3>2. gate[w].step = "deps" /\ task[w][gate[w].job] = NoTask
          /\ Deps[gate[w].job] \ gate[w].todo \subseteq finished
      BY <2>2 DEF ReadDep, DInv, Passed, GateFirst
    <3>3. CASE SetGate(w, [gate[w] EXCEPT !.step = "fail"])
      <4> DEFINE g == [gate[w] EXCEPT !.step = "fail"]
      <4>1. g \in Gate /\ g.step = "fail" /\ g.job = gate[w].job
        BY <1>1 DEF Gate, Step
      <4> QED  BY <3>2, <3>3, <4>1 DEF SetGate, NewGate
    <3>4. CASE SetGate(w, NoGate)
      BY <1>2, <3>4 DEF SetGate, NewGate
    <3>5. CASE /\ Is(d, {"completed"})
               /\ SetGate(w, IF gate[w].todo = {d}
                             THEN [gate[w] EXCEPT !.step = "label", !.todo = {}]
                             ELSE [gate[w] EXCEPT !.todo = @ \ {d}])
      <4>1. d \in finished
        BY <1>1, <3>5 DEF DInv, Recorded, Is, Gate
      <4>2. CASE gate[w].todo = {d}
        <5> DEFINE g == [gate[w] EXCEPT !.step = "label", !.todo = {}]
        <5>1. g \in Gate /\ g.step = "label" /\ g.job = gate[w].job
          BY <1>1 DEF Gate, Step
        <5> QED  BY <3>2, <3>5, <4>1, <4>2, <5>1 DEF SetGate, NewGate
      <4>3. CASE gate[w].todo # {d}
        <5> DEFINE g == [gate[w] EXCEPT !.todo = @ \ {d}]
        <5>1. /\ g \in Gate /\ g.step = "deps" /\ g.job = gate[w].job
              /\ g.todo = gate[w].todo \ {d}
          BY <1>1, <3>2 DEF Gate, Step
        <5> QED  BY <3>2, <3>5, <4>1, <4>3, <5>1 DEF SetGate, NewGate
      <4> QED  BY <4>2, <4>3
    <3> QED  BY <3>1, <3>3, <3>4, <3>5
  <2>3. CASE ReadPeers(w) \/ FailClaim(w) \/ FailStore(w)
    <3>1. /\ gate[w].step \in {"label", "fail", "failing"}
          /\ \/ SetGate(w, NoGate)
             \/ SetGate(w, [gate[w] EXCEPT !.step = "fail"])
             \/ gate[w].step = "label" /\ SetGate(w, [gate[w] EXCEPT !.step = "slots"])
             \/ SetGate(w, [gate[w] EXCEPT !.step = "failing", !.token = nextToken])
      BY <2>3 DEF ReadPeers, FailClaim, FailStore
    <3>2. task[w][gate[w].job] = NoTask
          /\ (gate[w].step = "label" => Deps[gate[w].job] \subseteq finished)
      BY <3>1 DEF DInv, Passed, GateFirst
    <3>3. CASE SetGate(w, NoGate)
      BY <1>2, <3>3 DEF SetGate, NewGate
    <3>4. CASE SetGate(w, [gate[w] EXCEPT !.step = "fail"])
      <4> DEFINE g == [gate[w] EXCEPT !.step = "fail"]
      <4>1. g \in Gate /\ g.step = "fail" /\ g.job = gate[w].job
        BY <1>1 DEF Gate, Step
      <4> QED  BY <3>2, <3>4, <4>1 DEF SetGate, NewGate
    <3>5. CASE gate[w].step = "label" /\ SetGate(w, [gate[w] EXCEPT !.step = "slots"])
      <4> DEFINE g == [gate[w] EXCEPT !.step = "slots"]
      <4>1. g \in Gate /\ g.step = "slots" /\ g.job = gate[w].job
        BY <1>1 DEF Gate, Step
      <4> QED  BY <3>2, <3>5, <4>1 DEF SetGate, NewGate
    <3>6. CASE SetGate(w, [gate[w] EXCEPT !.step = "failing", !.token = nextToken])
      <4> DEFINE g == [gate[w] EXCEPT !.step = "failing", !.token = nextToken]
      <4>1. nextToken \in Nat
        BY DEF DInv, StoreInv, StoreTypeOK
      <4>2. g \in Gate /\ g.step = "failing" /\ g.job = gate[w].job
        BY <1>1, <4>1 DEF Gate, Step
      <4> QED  BY <3>2, <3>6, <4>2 DEF SetGate, NewGate
    <3> QED  BY <3>1, <3>3, <3>4, <3>5, <3>6
  <2> QED  BY <2>1, <2>2, <2>3
<1>6. CASE gate' = gate
  BY <1>3, <1>4, <1>6
  DEF DInv, Typed, Passed, GateFirst, SlotsHeld, InFlight, CountIn
<1>7. ASSUME NEW g \in Gate, NewGate(w, g), g.step # "permit",
             g.step # "idle" => task[w][g.job] = NoTask,
             g.step = "deps" => Deps[g.job] \ g.todo \subseteq finished,
             g.step \in {"label", "slots", "permit"} => Deps[g.job] \subseteq finished
      PROVE  Typed' /\ Passed' /\ GateFirst' /\ SlotsHeld'
  <2>1. gate' \in [Workers -> Gate] /\ Passed' /\ GateFirst'
    BY <1>3, <1>7, GateMoves
  <2>2. /\ gate'[w] = g /\ \A v \in Workers \ {w} : gate'[v] = gate[v]
    BY <1>7 DEF NewGate, DInv, Typed
  <2>3. Slots(w)'
    BY <1>3, <1>4, <1>7, <2>2 DEF DInv, SlotsHeld, Slots, InFlight, CountIn
  <2> QED  BY <1>3, <1>4, <2>1, <2>2, <2>3, SlotsOfOne DEF DInv, Typed
<1> QED  BY <1>5, <1>6, <1>7

LEMMA PollInv ==
  ASSUME DInv, NEW w \in Workers, finished \subseteq finished', Poll(w)
  PROVE  Typed' /\ Passed' /\ GateFirst' /\ SlotsHeld'
<1>1. PICK S \in SUBSET Waiting \ {{}} :
        \E order \in [1 .. Cardinality(S) -> S] :
          listed' = [listed EXCEPT ![w] = order]
  BY DEF Poll
<1>2. PICK order \in [1 .. Cardinality(S) -> S] :
        listed' = [listed EXCEPT ![w] = order]
  BY <1>1
<1>3. S \subseteq Jobs
  BY DEF Waiting
<1>4. Cardinality(S) \in Nat
  BY <1>3, JobsAssumption, FS_Subset, FS_CardinalityType
<1>5. order \in Seq(Jobs)
  BY <1>3, <1>4
<1>6. listed' \in [Workers -> Seq(Jobs)]
  BY <1>2, <1>5 DEF DInv, Typed
<1>7. elsewhere' \in [Workers -> SUBSET Jobs]
  BY DEF DInv, Typed, Poll, Snapshot, Processing
<1>8. UNCHANGED <<gate, task, reserved>>
  BY DEF Poll, Snapshot
<1> QED
  BY <1>6, <1>7, <1>8
  DEF DInv, Typed, Passed, GateFirst, SlotsHeld, InFlight, CountIn

\* The job in the gate gets its slots, or is passed over.
LEMMA TakeSlotsInv ==
  ASSUME DInv, NEW w \in Workers, finished \subseteq finished', TakeSlots(w)
  PROVE  Typed' /\ Passed' /\ GateFirst' /\ SlotsHeld'
<1> DEFINE j == gate[w].job
           g == [gate[w] EXCEPT !.step = "permit"]
<1>1. /\ gate[w] \in Gate /\ j \in Jobs /\ gate[w].step = "slots"
      /\ task' = task /\ listed' = listed
      /\ Deps[j] \subseteq finished /\ task[w][j] = NoTask
  BY DEF DInv, Typed, Gate, Passed, GateFirst, TakeSlots
<1>2. NoGate \in Gate /\ NoGate.step = "idle"
  BY SomeJob DEF NoGate, Gate, Step, NoToken
<1>3. CASE SetGate(w, NoGate) /\ UNCHANGED slotVars
  <2>1. gate' \in [Workers -> Gate] /\ Passed' /\ GateFirst'
    BY <1>1, <1>2, <1>3, GateMoves DEF SetGate, NewGate
  <2>2. /\ gate'[w] = NoGate /\ \A v \in Workers \ {w} : gate'[v] = gate[v]
        /\ UNCHANGED <<reserved, elsewhere>>
    BY <1>3 DEF SetGate, DInv, Typed, slotVars
  <2>3. Slots(w)'
    BY <1>1, <1>2, <2>2 DEF DInv, SlotsHeld, Slots, InFlight, CountIn
  <2> QED  BY <1>1, <2>1, <2>2, <2>3, SlotsOfOne DEF DInv, Typed
<1>4. CASE Reserve(w, j) /\ SetGate(w, g)
  <2>1. g \in Gate /\ g.step = "permit" /\ g.job = j
    BY <1>1 DEF Gate, Step
  <2>2. gate' \in [Workers -> Gate] /\ Passed' /\ GateFirst'
    <3> HIDE DEF g
    <3> QED  BY <1>1, <1>4, <2>1, GateMoves DEF SetGate, NewGate
  <2>3. /\ gate'[w] = g /\ \A v \in Workers \ {w} : gate'[v] = gate[v]
        /\ reserved'[w] = reserved[w] \cup {j}
        /\ \A v \in Workers \ {w} : reserved'[v] = reserved[v]
        /\ reserved' \in [Workers -> SUBSET Jobs] /\ elsewhere' = elsewhere
    BY <1>1, <1>4 DEF SetGate, Reserve, DInv, Typed
  <2>4. reserved'[w] = InFlight(w)' \cup {i \in {gate'[w].job} : gate'[w].step = "permit"}
    BY <1>1, <2>1, <2>3 DEF DInv, SlotsHeld, InFlight
  <2>5. ASSUME NEW k \in DOMAIN SlotLimit
        PROVE  CountIn(reserved'[w], k) =< SlotLimit[k]
    <3>1. /\ reserved[w] \in SUBSET Jobs /\ elsewhere[w] \ reserved[w] \in SUBSET Jobs
          /\ SlotLimit[k] \in Nat /\ CountIn(reserved[w], k) =< SlotLimit[k]
      BY <2>5, SlotAssumption DEF DInv, Typed, SlotsHeld
    <3>2. CountIn(reserved[w], k) \in Nat /\ CountIn(elsewhere[w] \ reserved[w], k) \in Nat
      BY <3>1, Counts
    <3>3. /\ CountIn(reserved'[w], k) \in Nat
          /\ CountIn(reserved'[w], k) =< CountIn(reserved[w], k) + 1
          /\ CountIn(reserved'[w], k) > CountIn(reserved[w], k) => k \in Dims[j]
      <4>1. reserved[w] \cup {j} \in SUBSET Jobs
        BY <1>1, <3>1
      <4> QED  BY <1>1, <2>3, <3>1, <4>1, Counts
    <3>4. CASE k \in Dims[j]
      <4>1. CountIn(reserved[w], k) + CountIn(elsewhere[w] \ reserved[w], k) < SlotLimit[k]
        BY <1>4, <2>5, <3>4 DEF Reserve, MayReserve, Limited, Usage
      <4> QED  BY <3>1, <3>2, <3>3, <4>1
    <3>5. CASE k \notin Dims[j]
      BY <3>1, <3>2, <3>3, <3>5
    <3> QED  BY <3>4, <3>5
  <2>6. Slots(w)'
    BY <2>4, <2>5 DEF Slots, InFlight, CountIn
  <2>7. \A v \in Workers \ {w} : task'[v] = task[v]
    BY <1>1
  <2>8. SlotsHeld'
    BY <2>3, <2>6, <2>7, SlotsOfOne DEF DInv
  <2> QED  BY <1>1, <2>2, <2>3, <2>8 DEF DInv, Typed
<1> QED  BY <1>3, <1>4 DEF TakeSlots

\* The permit turns the row in the gate into a task.
LEMMA DispatchInv ==
  ASSUME DInv, NEW w \in Workers, finished \subseteq finished', Dispatch(w)
  PROVE  Typed' /\ Passed' /\ GateFirst' /\ SlotsHeld'
<1> DEFINE j == gate[w].job
<1>1. /\ gate[w] \in Gate /\ j \in Jobs /\ gate[w].step = "permit"
      /\ Deps[j] \subseteq finished
      /\ UNCHANGED <<listed, reserved, elsewhere>>
  BY DEF DInv, Typed, Gate, Passed, Dispatch, slotVars
<1>2. NoGate \in Gate /\ NoGate.step = "idle"
  BY SomeJob DEF NoGate, Gate, Step, NoToken
<1>3. /\ gate' \in [Workers -> Gate] /\ task' \in [Workers -> [Jobs -> {NoTask} \cup Nat]]
      /\ gate'[w] = NoGate
      /\ task'[w][j] = NoToken
      /\ \A i \in Jobs \ {j} : task'[w][i] = task[w][i]
      /\ \A v \in Workers \ {w} : gate'[v] = gate[v] /\ task'[v] = task[v]
  BY <1>1, <1>2 DEF Dispatch, SetGate, DInv, Typed, NoToken
<1>4. NoToken # NoTask
  BY DEF NoToken, NoTask
<1>5. Passed' /\ GateFirst'
  BY <1>1, <1>2, <1>3 DEF DInv, Passed, GateFirst
<1>6. Slots(w)'
  <2>1. InFlight(w)' = InFlight(w) \cup {j}
    BY <1>1, <1>3, <1>4 DEF InFlight
  <2> QED
    BY <1>1, <1>2, <1>3, <2>1 DEF DInv, SlotsHeld, Slots, CountIn
<1> QED  BY <1>1, <1>3, <1>5, <1>6, SlotsOfOne DEF DInv, Typed

\* A task gets its token, or it is over.
LEMMA TaskInv ==
  ASSUME DInv, NEW w \in Workers, NEW j \in Jobs, finished \subseteq finished',
         TaskClaim(w, j) \/ TaskEnd(w, j)
  PROVE  Typed' /\ Passed' /\ GateFirst' /\ SlotsHeld'
<1>0. task[w][j] # NoTask /\ UNCHANGED <<listed, gate, elsewhere>>
  BY DEF TaskClaim, TaskEnd, NoTask, NoToken, Release, slotVars
<1>1. nextToken \in Nat /\ nextToken # NoTask
  <2>1. nextToken \in Nat
    BY DEF DInv, StoreInv, StoreTypeOK
  <2> QED  BY <2>1 DEF NoTask
<1>2. ASSUME task' = [task EXCEPT ![w][j] = nextToken], UNCHANGED reserved
      PROVE  Typed' /\ Passed' /\ GateFirst' /\ SlotsHeld'
  <2>1. /\ task' \in [Workers -> [Jobs -> {NoTask} \cup Nat]]
        /\ \A v \in Workers, i \in Jobs :
             task'[v][i] # NoTask <=> task[v][i] # NoTask
    BY <1>0, <1>1, <1>2 DEF DInv, Typed
  <2>2. Typed' /\ Passed'
    BY <1>0, <1>2, <2>1 DEF DInv, Typed, Passed
  <2>3. GateFirst'
    BY <1>0, <2>1 DEF DInv, Typed, Gate, GateFirst
  <2>4. SlotsHeld'
    <3>1. \A v \in Workers : InFlight(v)' = InFlight(v)
      BY <2>1 DEF InFlight
    <3> QED  BY <1>0, <1>2, <3>1 DEF DInv, SlotsHeld, CountIn
  <2> QED  BY <2>2, <2>3, <2>4
<1>3. ASSUME task' = [task EXCEPT ![w][j] = NoTask], Release(w, j)
      PROVE  Typed' /\ Passed' /\ GateFirst' /\ SlotsHeld'
  <2>1. /\ task' \in [Workers -> [Jobs -> {NoTask} \cup Nat]]
        /\ task'[w][j] = NoTask
        /\ \A i \in Jobs \ {j} : task'[w][i] = task[w][i]
        /\ \A v \in Workers \ {w} : task'[v] = task[v] /\ reserved'[v] = reserved[v]
        /\ reserved' \in [Workers -> SUBSET Jobs]
        /\ reserved'[w] = reserved[w] \ {j}
    BY <1>3 DEF DInv, Typed, Release
  <2>2. Typed'
    BY <1>0, <2>1 DEF DInv, Typed
  <2>3. \A v \in Workers, i \in Jobs : task'[v][i] # NoTask => task[v][i] # NoTask
    BY <2>1
  <2>4. Passed'
    BY <1>0, <2>3 DEF DInv, Passed
  <2>5. GateFirst'
    BY <1>0, <2>3 DEF DInv, Typed, Gate, GateFirst
  <2>6. Slots(w)'
    <3>1. gate[w].step = "permit" => gate[w].job # j
      BY <1>0 DEF DInv, GateFirst
    <3>2. InFlight(w)' = InFlight(w) \ {j}
      BY <2>1 DEF InFlight
    <3>3. reserved[w] = InFlight(w) \cup {i \in {gate[w].job} : gate[w].step = "permit"}
      BY DEF DInv, SlotsHeld
    <3>4. reserved'[w] = InFlight(w)' \cup {i \in {gate[w].job} : gate[w].step = "permit"}
      BY <2>1, <3>1, <3>2, <3>3
    <3>5. ASSUME NEW k \in DOMAIN SlotLimit
          PROVE  CountIn(reserved'[w], k) =< SlotLimit[k]
      <4>1. reserved[w] \in SUBSET Jobs /\ reserved'[w] \in SUBSET Jobs
            /\ SlotLimit[k] \in Nat /\ CountIn(reserved[w], k) =< SlotLimit[k]
        BY <2>1, <3>5, SlotAssumption DEF DInv, Typed, SlotsHeld
      <4>2. /\ CountIn(reserved[w], k) \in Nat /\ CountIn(reserved'[w], k) \in Nat
            /\ CountIn(reserved'[w], k) =< CountIn(reserved[w], k)
        BY <2>1, <4>1, Counts
      <4> QED  BY <4>1, <4>2
    <3> QED  BY <1>0, <3>4, <3>5 DEF Slots, InFlight, CountIn
  <2>7. SlotsHeld'
    BY <1>0, <2>1, <2>6, SlotsOfOne DEF DInv
  <2> QED  BY <2>2, <2>4, <2>5, <2>7
<1> QED  BY <1>2, <1>3 DEF TaskClaim, TaskEnd, slotVars

-----------------------------------------------------------------------------
(* The callers.                                                            *)

LEMMA CallInv ==
  ASSUME DInv, NEW c \in Callers, CallStep(c)
  PROVE  CallsTyped'
<1>1. /\ call[c] \in CallRecord /\ call[c].job \in Jobs
      /\ call[c].stack \in Seq(SUBSET Jobs)
      /\ call[c].step = "child" => call[c].stack # <<>>
      /\ batch' = batch
  BY DEF DInv, CallsTyped, CallRecord, CallStep, ReadRow, WriteStatus, WriteResult,
     ListChildren, NextChild, ClaimChild, FailChild, EndCall
<1>2. ASSUME NEW r \in CallRecord, SetCall(c, r), r.step = "child" => r.stack # <<>>
      PROVE  CallsTyped'
  BY <1>1, <1>2 DEF DInv, CallsTyped, SetCall
<1>3. ASSUME NEW s \in CallState \ {"child"}, CallMoves(c, s)
      PROVE  CallsTyped'
  <2>1. [call[c] EXCEPT !.step = s] \in CallRecord
        /\ [call[c] EXCEPT !.step = s].step # "child"
    BY <1>1, <1>3 DEF CallRecord
  <2> HIDE DEF CallRecord
  <2> QED  BY <1>2, <1>3, <2>1 DEF CallMoves
<1>4. CASE ReadRow(c) \/ WriteStatus(c) \/ WriteResult(c) \/ FailChild(c)
  BY <1>3, <1>4 DEF ReadRow, WriteStatus, WriteResult, FailChild, CallState
<1>5. CASE ListChildren(c)
  <2> DEFINE st == <<Dependents(call[c].job)>> \o call[c].stack
             r == [call[c] EXCEPT !.step = "child", !.stack = st]
  <2>1. st \in Seq(SUBSET Jobs) /\ st # <<>>
    BY <1>1 DEF Dependents
  <2>2. r \in CallRecord /\ r.stack = st
    BY <1>1, <2>1 DEF CallRecord, CallState
  <2>3. SetCall(c, r)
    BY <1>5 DEF ListChildren
  <2> QED  BY <1>2, <2>1, <2>2, <2>3
<1>6. CASE NextChild(c)
  <2> DEFINE stack == call[c].stack
  <2>1. stack \in Seq(SUBSET Jobs) /\ stack # <<>>
        /\ Head(stack) \in SUBSET Jobs /\ Tail(stack) \in Seq(SUBSET Jobs)
    <3>1. call[c].step = "child"
      BY <1>6 DEF NextChild
    <3>2. stack \in Seq(SUBSET Jobs) /\ stack # <<>>
      BY <1>1, <3>1
    <3> HIDE DEF stack
    <3> QED  BY <3>2
  <2>2. ASSUME SetCall(c, [call[c] EXCEPT !.stack = Tail(stack),
                             !.step = IF Tail(stack) = <<>> THEN "end" ELSE "child"])
        PROVE  CallsTyped'
    <3> DEFINE r == [call[c] EXCEPT !.stack = Tail(stack),
                       !.step = IF Tail(stack) = <<>> THEN "end" ELSE "child"]
    <3>1. r \in CallRecord
      BY <1>1, <2>1 DEF CallRecord, CallState
    <3>2. r.step = "child" => r.stack # <<>>
      BY <1>1 DEF CallRecord
    <3> HIDE DEF CallRecord
    <3> QED  BY <1>2, <2>2, <3>1, <3>2
  <2>3. ASSUME NEW k \in Head(stack),
               SetCall(c, [call[c] EXCEPT !.stack = <<Head(stack) \ {k}>> \o Tail(stack),
                             !.job = k,
                             !.step = CASE Is(k, {"queued"}) -> "claim"
                                        [] Is(k, {"processing"}) -> "read"
                                        [] OTHER -> "child"])
        PROVE  CallsTyped'
    <3> DEFINE st == <<Head(stack) \ {k}>> \o Tail(stack)
               to == CASE Is(k, {"queued"}) -> "claim"
                       [] Is(k, {"processing"}) -> "read"
                       [] OTHER -> "child"
               r == [call[c] EXCEPT !.stack = st, !.job = k, !.step = to]
    <3>1. st \in Seq(SUBSET Jobs) /\ st # <<>>
      <4>1. <<Head(stack) \ {k}>> \in Seq(SUBSET Jobs)
        BY <2>1
      <4>2. st \in Seq(SUBSET Jobs) /\ Len(st) = 1 + Len(Tail(stack))
        BY <2>1, <4>1
      <4> QED  BY <2>1, <4>2
    <3>2. to \in CallState /\ k \in Jobs
      BY <2>1, <2>3 DEF CallState
    <3>3. r \in CallRecord /\ r.stack = st
      <4> HIDE DEF st, to
      <4> QED  BY <1>1, <3>1, <3>2 DEF CallRecord
    <3>4. SetCall(c, r)
      BY <2>3
    <3> HIDE DEF r, st
    <3> QED  BY <1>2, <3>1, <3>3, <3>4
  <2> QED  BY <1>6, <2>2, <2>3 DEF NextChild
<1>7. CASE ClaimChild(c)
  <2>1. CASE SetCall(c, [call[c] EXCEPT !.step = "fail", !.token = nextToken])
    <3> DEFINE r == [call[c] EXCEPT !.step = "fail", !.token = nextToken]
    <3>1. nextToken \in Nat
      BY DEF DInv, StoreInv, StoreTypeOK
    <3>2. r \in CallRecord /\ r.step = "fail"
      BY <1>1, <3>1 DEF CallRecord, CallState
    <3> QED  BY <1>2, <2>1, <3>2
  <2>2. CASE CallMoves(c, "list")
    BY <1>3, <2>2 DEF CallState
  <2> QED  BY <1>7, <2>1, <2>2 DEF ClaimChild
<1>8. CASE EndCall(c)
  <2>1. NoCall \in CallRecord /\ NoCall.step = "idle"
    BY SomeJob DEF NoCall, CallRecord, CallState, NoToken
  <2> QED  BY <1>2, <1>8, <2>1 DEF EndCall
<1> QED  BY <1>4, <1>5, <1>6, <1>7, <1>8 DEF CallStep

\* Somebody calls cancel, or submit_batch goes on.
LEMMA SubmitInv ==
  ASSUME DInv,
         \/ \E c \in Callers, j \in Jobs : Cancel(c, j)
         \/ SubmitItem \/ ItemRefused \/ RollBack
  PROVE  CallsTyped'
<1>1. ASSUME NEW c \in Callers, NEW j \in Jobs, NEW d \in BOOLEAN, StartCall(c, j, d)
      PROVE  /\ call' \in [Callers -> CallRecord]
             /\ \A e \in Callers : call'[e].step = "child" => call'[e].stack # <<>>
  <2> DEFINE r == [NoCall EXCEPT !.step = "read", !.job = j, !.root = j, !.delete = d]
  <2>0. NoCall \in CallRecord
    BY SomeJob DEF NoCall, CallRecord, CallState, NoToken
  <2>1. r \in CallRecord /\ r.step = "read"
    BY <1>1, <2>0 DEF CallRecord, CallState
  <2>2. SetCall(c, r)
    BY <1>1 DEF StartCall
  <2> HIDE DEF r, CallRecord
  <2> QED  BY <2>1, <2>2 DEF SetCall, DInv, CallsTyped
<1>2. /\ batch.ids \in Seq(Jobs)
      /\ batch = [step |-> batch.step, todo |-> batch.todo, ids |-> batch.ids]
      /\ call \in [Callers -> CallRecord]
      /\ \A e \in Callers : call[e].step = "child" => call[e].stack # <<>>
  BY DEF DInv, CallsTyped
<1>3. ASSUME NEW c \in Callers, NEW j \in Jobs, Cancel(c, j) PROVE CallsTyped'
  BY <1>1, <1>2, <1>3 DEF Cancel, CallsTyped
<1>4. CASE SubmitItem
  <2>1. PICK id \in Jobs :
          batch' = [batch EXCEPT !.todo = Tail(@), !.ids = Append(@, id)]
    BY <1>4 DEF SubmitItem
  <2>2. Append(batch.ids, id) \in Seq(Jobs)
    BY <1>2
  <2>3. /\ batch' = [step |-> batch'.step, todo |-> batch'.todo, ids |-> batch'.ids]
        /\ batch'.ids = Append(batch.ids, id)
    BY <1>2, <2>1
  <2> QED  BY <1>2, <1>4, <2>2, <2>3 DEF SubmitItem, CallsTyped
<1>5. CASE ItemRefused
  <2>1. /\ batch' = [step |-> batch'.step, todo |-> batch'.todo, ids |-> batch'.ids]
        /\ batch'.ids = batch.ids
    BY <1>2, <1>5 DEF ItemRefused
  <2> QED  BY <1>2, <1>5, <2>1 DEF ItemRefused, CallsTyped
<1>6. CASE RollBack
  <2>1. CASE /\ batch.ids # <<>>
             /\ StartCall(Submitter, Head(batch.ids), TRUE)
             /\ batch' = [batch EXCEPT !.ids = Tail(@)]
    <3>1. Head(batch.ids) \in Jobs /\ Tail(batch.ids) \in Seq(Jobs)
      BY <1>2, <2>1
    <3>2. /\ batch' = [step |-> batch'.step, todo |-> batch'.todo, ids |-> batch'.ids]
          /\ batch'.ids = Tail(batch.ids)
      BY <1>2, <2>1
    <3>3. /\ call' \in [Callers -> CallRecord]
          /\ \A e \in Callers : call'[e].step = "child" => call'[e].stack # <<>>
      BY <1>1, <2>1, <3>1, SubmitterAssumption
    <3> QED  BY <3>1, <3>2, <3>3 DEF CallsTyped
  <2>2. CASE batch' = [batch EXCEPT !.step = "raised"] /\ UNCHANGED call
    <3>1. /\ batch' = [step |-> batch'.step, todo |-> batch'.todo, ids |-> batch'.ids]
          /\ batch'.ids = batch.ids
      BY <1>2, <2>2
    <3> QED  BY <1>2, <2>2, <3>1 DEF CallsTyped
  <2> QED  BY <1>6, <2>1, <2>2 DEF RollBack
<1> QED  BY <1>3, <1>4, <1>5, <1>6

-----------------------------------------------------------------------------
(* The whole of Next.                                                      *)

LEMMA InitDInv == Init => DInv
<1> SUFFICES ASSUME Init PROVE DInv
  OBVIOUS
<1>1. StoreInv
  BY InitInv DEF Init
<1>2. NoGate \in Gate /\ NoGate.step = "idle"
  BY SomeJob DEF NoGate, Gate, Step, NoToken
<1>3. Typed
  <2>1. <<>> \in Seq(Jobs)
    OBVIOUS
  <2> QED  BY <1>2, <2>1 DEF Init, SlotInit, Typed
<1>4. CallsTyped
  <2>1. NoCall \in CallRecord /\ NoCall.step = "idle"
    BY SomeJob DEF NoCall, CallRecord, CallState, NoToken
  <2>2. PICK st, todo : batch = [step |-> st, todo |-> todo, ids |-> <<>>]
    BY DEF Init
  <2>3. /\ batch = [step |-> batch.step, todo |-> batch.todo, ids |-> batch.ids]
        /\ batch.ids = <<>>
    BY <2>2
  <2>4. batch.ids \in Seq(Jobs)
    BY <2>3
  <2> HIDE DEF CallRecord
  <2> QED  BY <2>1, <2>3, <2>4 DEF Init, CallsTyped
<1>5. Recorded
  BY DEF Init, StoreInit, Absent, Recorded
<1>6. Passed /\ GateFirst
  BY <1>2 DEF Init, Passed, GateFirst
<1>7. SlotsHeld
  <2> SUFFICES ASSUME NEW w \in Workers
               PROVE  /\ reserved[w] = InFlight(w) \cup
                            {j \in {gate[w].job} : gate[w].step = "permit"}
                      /\ \A k \in DOMAIN SlotLimit :
                           CountIn(reserved[w], k) =< SlotLimit[k]
    BY DEF SlotsHeld
  <2>1. reserved[w] = {} /\ gate[w].step = "idle" /\ InFlight(w) = {}
    BY <1>2 DEF Init, SlotInit, InFlight
  <2>2. ASSUME NEW k \in DOMAIN SlotLimit PROVE CountIn({}, k) =< SlotLimit[k]
    <3>1. CountIn({}, k) = 0
      BY FS_EmptySet DEF CountIn
    <3> QED  BY <2>2, <3>1, SlotAssumption
  <2> QED  BY <2>1, <2>2
<1> QED  BY <1>1, <1>3, <1>4, <1>5, <1>6, <1>7 DEF DInv

LEMMA StepDInv == DInv /\ [Next]_vars => DInv'
<1> SUFFICES ASSUME DInv, [Next]_vars PROVE DInv'
  OBVIOUS
<1>1. StoreInv'
  BY Allowed, NextInv DEF DInv
<1>2. Recorded' /\ finished \subseteq finished'
  BY RecordedStep
<1>3. ASSUME UNCHANGED <<procVars, reserved, elsewhere>>
      PROVE  Typed' /\ Passed' /\ GateFirst' /\ SlotsHeld'
  BY <1>2, <1>3
  DEF DInv, Typed, Passed, GateFirst, SlotsHeld, InFlight, CountIn, procVars
<1>4. ASSUME UNCHANGED <<call, batch>>
      PROVE  CallsTyped'
  BY <1>4 DEF DInv, CallsTyped
<1>5. ASSUME NEW w \in Workers, GateStep(w) \/ \E j \in Jobs : TaskStep(w, j)
      PROVE  Typed' /\ Passed' /\ GateFirst' /\ SlotsHeld' /\ UNCHANGED <<call, batch>>
  <2>1. Typed' /\ Passed' /\ GateFirst' /\ SlotsHeld'
    BY <1>2, <1>5, PollInv, ReadingInv, TakeSlotsInv, DispatchInv, TaskInv
    DEF GateStep, TaskStep
  <2>2. UNCHANGED <<call, batch>>
    BY <1>5 DEF GateStep, Poll, StartRow, ReadDep, ReadPeers, TakeSlots, Dispatch,
       FailClaim, FailStore, TaskStep, TaskClaim, TaskEnd, callVars
  <2> QED  BY <2>1, <2>2
<1>6. ASSUME NEW c \in Callers, CallStep(c)
      PROVE  CallsTyped' /\ UNCHANGED <<procVars, reserved, elsewhere>>
  <2>1. UNCHANGED <<procVars, reserved, elsewhere>>
    BY <1>6 DEF CallStep, ReadRow, WriteStatus, WriteResult, ListChildren, NextChild,
       ClaimChild, FailChild, EndCall, slotVars
  <2> QED  BY <1>6, <2>1, CallInv
<1>7. ASSUME \/ \E c \in Callers, j \in Jobs : Cancel(c, j)
             \/ SubmitItem \/ ItemRefused \/ RollBack
      PROVE  CallsTyped' /\ UNCHANGED <<procVars, reserved, elsewhere>>
  <2>1. UNCHANGED <<procVars, reserved, elsewhere>>
    BY <1>7 DEF Cancel, SubmitItem, ItemRefused, RollBack, slotVars
  <2> QED  BY <1>7, <2>1, SubmitInv
<1>8. ASSUME \/ \E j \in Jobs : Submit(j)
             \/ PassTime \/ UNCHANGED vars
      PROVE  UNCHANGED <<call, batch, procVars, reserved, elsewhere>>
  BY <1>8 DEF Submit, PassTime, Refill, vars, slotVars, callVars
<1>9. Typed' /\ Passed' /\ GateFirst' /\ SlotsHeld' /\ CallsTyped'
  BY <1>3, <1>4, <1>5, <1>6, <1>7, <1>8 DEF Next, SubmitStep
<1> QED  BY <1>1, <1>2, <1>9 DEF DInv

\* The worker's gate, the cascades and submit_batch use the job table by its
\* operations only: with them the table is still the one of JobStore.
THEOREM DependenciesUseStore == Spec => StoreSpec
<1>1. Init => StoreInit
  BY DEF Init
<1> QED  BY <1>1, InitDInv, StepDInv, Allowed, PTL DEF Spec, StoreSpec

\* A model call starts only when every job in depends_on has been completed.
THEOREM NoEarly == Spec => []NoEarlyStart
<1>1. DInv => NoEarlyStart
  BY DEF DInv, Passed, NoEarlyStart, Running
<1> QED  BY <1>1, InitDInv, StepDInv, PTL DEF Spec

\* The slots of a process are those of its tasks and of the job it awaits a
\* permit for, and never more of a kind than its limit.
THEOREM SlotsKept == Spec => []SlotsHeld
<1>1. DInv => SlotsHeld
  BY DEF DInv
<1> QED  BY <1>1, InitDInv, StepDInv, PTL DEF Spec

-----------------------------------------------------------------------------
(* Rows come and go.                                                       *)

\* No row appears; and what was submitted once was submitted for ever.
NoneAppears ==
  \A i \in Jobs : /\ Exists(i)' => Exists(i)
                  /\ rows'[i].status = "new" <=> rows[i].status = "new"

LEMMA Disappear ==
  ASSUME DInv, NEW j \in Jobs, NEW s \in Terminal, NEW t,
         \/ Claim(j) \/ SetResultOwned(j, t, s) \/ UpdateStatus(j, s)
         \/ SetResult(j, s) \/ Delete({j}) \/ Tick \/ UNCHANGED rows
  PROVE  NoneAppears
<1> USE DEF NoneAppears, Exists, JobStatus, Terminal
<1>0. rows \in [Jobs -> Row]
  BY DEF DInv, StoreInv, StoreTypeOK
<1>1. CASE Claim(j)
  BY <1>0, <1>1 DEF Claim, Claimable
<1>2. CASE SetResultOwned(j, t, s)
  BY <1>0, <1>2 DEF SetResultOwned, WithResult, Owns
<1>3. CASE UpdateStatus(j, s) \/ SetResult(j, s)
  <2>1. \A i \in Jobs : \/ rows'[i].status = rows[i].status
                        \/ i = j /\ Exists(j) /\ rows'[i].status = s
    <3>1. CASE ~Exists(j)
      BY <1>3, <3>1 DEF UpdateStatus, SetResult
    <3>2. CASE Exists(j)
      <4>1. \/ rows' = [rows EXCEPT ![j].status = s]
            \/ rows' = WithResult(j, s)
        BY <1>3, <3>2 DEF UpdateStatus, SetResult
      <4> QED  BY <1>0, <3>2, <4>1 DEF WithResult, Row
    <3> QED  BY <3>1, <3>2
  <2> QED  BY <2>1
<1>4. CASE Delete({j})
  BY <1>0, <1>4 DEF Delete, Absent
<1>5. CASE Tick
  <2>1. \A k \in Jobs : rows'[k].status = rows[k].status
    BY <1>0, <1>5 DEF Tick, Row
  <2> QED  BY <2>1
<1> QED  BY <1>1, <1>2, <1>3, <1>4, <1>5

\* A row appears by an enqueue: a submit, or the next item of the batch.
LEMMA Appear ==
  ASSUME DInv, [Next]_vars
  PROVE  \/ NoneAppears
         \/ \E j \in Jobs : Submit(j)
         \/ SubmitItem
<1> USE DEF Terminal
<1>0. /\ \A w \in Workers : gate[w].job \in Jobs
      /\ \A c \in Callers : call[c].job \in Jobs /\ call[c].root \in Jobs
      /\ Some \in Jobs
  BY SomeJob DEF DInv, Typed, Gate, CallsTyped, CallRecord
<1>1. ASSUME UNCHANGED rows PROVE NoneAppears
  BY <1>1 DEF NoneAppears, Exists
<1>2. ASSUME NEW w \in Workers, GateStep(w) PROVE NoneAppears
  <2>1. CASE \/ Poll(w) \/ StartRow(w) \/ ReadDep(w) \/ ReadPeers(w)
             \/ TakeSlots(w) \/ Dispatch(w)
    BY <1>1, <2>1
    DEF Poll, StartRow, ReadDep, ReadPeers, TakeSlots, Dispatch, storeVars
  <2>2. CASE FailClaim(w)
    BY <1>0, <1>1, <2>2, Disappear DEF FailClaim, storeVars
  <2>3. CASE FailStore(w)
    BY <1>0, <1>1, <2>3, Disappear DEF FailStore, storeVars
  <2> QED  BY <1>2, <2>1, <2>2, <2>3 DEF GateStep
<1>3. ASSUME NEW w \in Workers, NEW j \in Jobs, TaskStep(w, j) PROVE NoneAppears
  <2>1. CASE TaskClaim(w, j)
    BY <1>1, <2>1, Disappear DEF TaskClaim, storeVars
  <2>2. CASE TaskEnd(w, j)
    BY <1>1, <2>2, Disappear DEF TaskEnd, storeVars
  <2> QED  BY <1>3, <2>1, <2>2 DEF TaskStep
<1>4. ASSUME NEW c \in Callers, CallStep(c) PROVE NoneAppears
  <2>1. CASE ReadRow(c) \/ ListChildren(c) \/ NextChild(c)
    BY <1>1, <2>1 DEF ReadRow, ListChildren, NextChild, storeVars
  <2>2. CASE WriteStatus(c) \/ WriteResult(c)
    BY <1>0, <2>2, Disappear DEF WriteStatus, WriteResult
  <2>3. CASE ClaimChild(c)
    BY <1>0, <1>1, <2>3, Disappear DEF ClaimChild, storeVars
  <2>4. CASE FailChild(c)
    BY <1>0, <1>1, <2>4, Disappear DEF FailChild, storeVars
  <2>5. CASE EndCall(c)
    BY <1>0, <1>1, <2>5, Disappear DEF EndCall, storeVars
  <2> QED  BY <1>4, <2>1, <2>2, <2>3, <2>4, <2>5 DEF CallStep
<1>5. CASE \/ \E c \in Callers, j \in Jobs : Cancel(c, j)
           \/ RollBack \/ ItemRefused \/ UNCHANGED vars
  BY <1>1, <1>5 DEF Cancel, RollBack, ItemRefused, vars, storeVars
<1>6. CASE PassTime
  BY <1>0, <1>6, Disappear DEF PassTime
<1> QED  BY <1>2, <1>3, <1>4, <1>5, <1>6 DEF Next, SubmitStep

-----------------------------------------------------------------------------
(* The batch.                                                              *)

\* submit_batch has the ids of what it enqueued, but the one it is removing.
Removing(i) ==
  LET r == call[Submitter] IN r.step # "idle" /\ r.delete /\ r.root = i
Enqueued == {batch.ids[n] : n \in DOMAIN batch.ids}

BatchHeld ==
  \A i \in Locals : Exists(i) =>
    batch.step # "raised" /\ (i \in Enqueued \/ Removing(i))

BInv == DInv /\ BatchHeld

\* A call is about one job to its end.
LEMMA RootStays ==
  ASSUME DInv, NEW c \in Callers, CallStep(c), ~EndCall(c)
  PROVE  /\ call'[c].step # "idle" /\ call'[c].delete = call[c].delete
         /\ call'[c].root = call[c].root
         /\ \A d \in Callers \ {c} : call'[d] = call[d]
<1>1. call \in [Callers -> CallRecord]
  BY DEF DInv, CallsTyped
<1>2. CASE ReadRow(c) \/ WriteStatus(c) \/ WriteResult(c)
  BY <1>1, <1>2
  DEF ReadRow, WriteStatus, WriteResult, CallMoves, SetCall, CallRecord
<1>3. CASE ListChildren(c) \/ ClaimChild(c) \/ FailChild(c)
  BY <1>1, <1>3
  DEF ListChildren, ClaimChild, FailChild, CallMoves, SetCall, CallRecord
<1>4. CASE NextChild(c)
  <2> DEFINE stack == call[c].stack
  <2>0. ASSUME NEW r, call' = [call EXCEPT ![c] = r],
               r.step # "idle", r.delete = call[c].delete, r.root = call[c].root
        PROVE  /\ call'[c].step # "idle" /\ call'[c].delete = call[c].delete
               /\ call'[c].root = call[c].root
               /\ \A d \in Callers \ {c} : call'[d] = call[d]
    BY <1>1, <2>0
  <2>1. CASE SetCall(c, [call[c] EXCEPT !.stack = Tail(stack),
                           !.step = IF Tail(stack) = <<>> THEN "end" ELSE "child"])
    <3> DEFINE st == Tail(stack)
               to == IF Tail(stack) = <<>> THEN "end" ELSE "child"
               r == [call[c] EXCEPT !.stack = st, !.step = to]
    <3>1. to # "idle"
      OBVIOUS
    <3>2. call' = [call EXCEPT ![c] = r]
      BY <2>1 DEF SetCall
    <3> HIDE DEF st, to
    <3>3. r.step = to /\ r.delete = call[c].delete /\ r.root = call[c].root
      BY <1>1 DEF CallRecord
    <3> QED  BY <2>0, <3>1, <3>2, <3>3
  <2>2. ASSUME NEW k \in Head(stack),
               SetCall(c, [call[c] EXCEPT !.stack = <<Head(stack) \ {k}>> \o Tail(stack),
                             !.job = k,
                             !.step = CASE Is(k, {"queued"}) -> "claim"
                                        [] Is(k, {"processing"}) -> "read"
                                        [] OTHER -> "child"])
        PROVE  /\ call'[c].step # "idle" /\ call'[c].delete = call[c].delete
               /\ call'[c].root = call[c].root
               /\ \A d \in Callers \ {c} : call'[d] = call[d]
    <3> DEFINE st == <<Head(stack) \ {k}>> \o Tail(stack)
               to == CASE Is(k, {"queued"}) -> "claim"
                       [] Is(k, {"processing"}) -> "read"
                       [] OTHER -> "child"
               r == [call[c] EXCEPT !.stack = st, !.job = k, !.step = to]
    <3>1. to # "idle"
      OBVIOUS
    <3>2. call' = [call EXCEPT ![c] = r]
      BY <2>2 DEF SetCall
    <3> HIDE DEF st, to
    <3>3. r.step = to /\ r.delete = call[c].delete /\ r.root = call[c].root
      BY <1>1 DEF CallRecord
    <3> QED  BY <2>0, <3>1, <3>2, <3>3
  <2> QED  BY <1>4, <2>1, <2>2 DEF NextChild
<1> QED  BY <1>2, <1>3, <1>4 DEF CallStep

\* An item that is in the table is one that submit_batch can still remove.
LEMMA BatchStep == BInv /\ [Next]_vars => BatchHeld'
<1> SUFFICES ASSUME BInv, [Next]_vars, NEW i \in Locals, Exists(i)'
             PROVE  /\ batch'.step # "raised"
                    /\ i \in Enqueued' \/ Removing(i)'
  BY DEF BatchHeld
<1>0. /\ batch.ids \in Seq(Jobs) /\ i \in Jobs
      /\ batch = [step |-> batch.step, todo |-> batch.todo, ids |-> batch.ids]
      /\ call \in [Callers -> CallRecord] /\ rows \in [Jobs -> Row]
  BY ItemsAssumption DEF BInv, DInv, CallsTyped, StoreInv, StoreTypeOK, Locals
<1>1. ASSUME Exists(i), UNCHANGED <<call, batch>>
      PROVE  /\ batch'.step # "raised"
             /\ i \in Enqueued' \/ Removing(i)'
  BY <1>1 DEF BInv, BatchHeld, Enqueued, Removing
<1>2. CASE RollBack
  <2>1. Exists(i) /\ batch.step # "raised" /\ i \in Enqueued
    BY <1>2 DEF RollBack, storeVars, Exists, BInv, BatchHeld, Removing
  <2>2. PICK n \in 1 .. Len(batch.ids) : batch.ids[n] = i
    BY <1>0, <2>1 DEF Enqueued
  <2>3. /\ StartCall(Submitter, Head(batch.ids), TRUE)
        /\ batch' = [batch EXCEPT !.ids = Tail(@)]
    <3>1. batch.ids # <<>>
      BY <1>0, <2>2
    <3> QED  BY <1>2, <3>1 DEF RollBack
  <2>4. batch'.step # "raised" /\ batch'.ids = Tail(batch.ids)
    BY <1>0, <2>1, <2>3
  <2>5. CASE n = 1
    <3> DEFINE r == [NoCall EXCEPT !.step = "read", !.job = i, !.root = i, !.delete = TRUE]
    <3>1. r.step # "idle" /\ r.delete /\ r.root = i
      BY DEF NoCall
    <3>2. call' = [call EXCEPT ![Submitter] = r]
      <4>1. Head(batch.ids) = i
        BY <1>0, <2>2, <2>5
      <4> QED  BY <2>3, <4>1 DEF StartCall, SetCall
    <3> HIDE DEF r
    <3>3. Removing(i)'
      BY <1>0, <3>1, <3>2, SubmitterAssumption DEF Removing
    <3> QED  BY <2>4, <3>3
  <2>6. CASE n # 1
    <3>1. n - 1 \in 1 .. Len(Tail(batch.ids)) /\ Tail(batch.ids)[n - 1] = i
      BY <1>0, <2>2, <2>6
    <3>2. i \in Enqueued'
      BY <1>0, <2>4, <3>1 DEF Enqueued
    <3> QED  BY <2>4, <3>2
  <2> QED  BY <2>5, <2>6
<1>3. CASE ItemRefused
  <2>1. Exists(i) /\ UNCHANGED call
    BY <1>3 DEF ItemRefused, storeVars, Exists
  <2>2. batch'.step = "rollback" /\ batch'.ids = batch.ids
    BY <1>0, <1>3 DEF ItemRefused
  <2> QED  BY <2>1, <2>2 DEF BInv, BatchHeld, Enqueued, Removing
<1>4. CASE SubmitItem
  <2>1. PICK id \in Jobs :
          /\ (Enqueue(Head(batch.todo)) /\ id = Head(batch.todo)) \/ UNCHANGED storeVars
          /\ batch' = [batch EXCEPT !.todo = Tail(@), !.ids = Append(@, id)]
    BY <1>4 DEF SubmitItem
  <2>2. batch'.step = batch.step /\ batch'.ids = Append(batch.ids, id)
    BY <1>0, <2>1
  <2>3. batch.step # "raised" /\ UNCHANGED call
    BY <1>4 DEF SubmitItem
  <2>4. Enqueued' = Enqueued \cup {id}
    <3>1. /\ DOMAIN Append(batch.ids, id) = 1 .. Len(batch.ids) + 1
          /\ DOMAIN batch.ids = 1 .. Len(batch.ids)
          /\ Append(batch.ids, id)[Len(batch.ids) + 1] = id
          /\ \A n \in 1 .. Len(batch.ids) : Append(batch.ids, id)[n] = batch.ids[n]
          /\ Len(batch.ids) \in Nat
      BY <1>0
    <3>2. \A n \in 1 .. Len(batch.ids) + 1 : n \in 1 .. Len(batch.ids) \/ n = Len(batch.ids) + 1
      BY <3>1
    <3> QED  BY <2>2, <3>1, <3>2 DEF Enqueued
  <2>5. CASE Exists(i)
    BY <2>2, <2>3, <2>4, <2>5 DEF BInv, BatchHeld, Removing
  <2>6. CASE ~Exists(i)
    <3>1. i = id
      BY <1>0, <2>1, <2>6 DEF Enqueue, Exists, storeVars
    <3> QED  BY <2>2, <2>3, <2>4, <3>1
  <2> QED  BY <2>5, <2>6
<1>5. ASSUME NEW j \in Jobs, Submit(j)
      PROVE  /\ batch'.step # "raised"
             /\ i \in Enqueued' \/ Removing(i)'
  <2>1. Exists(i) /\ UNCHANGED <<call, batch>>
    BY <1>0, <1>5 DEF Submit, Enqueue, Exists, callVars
  <2> QED  BY <1>1, <2>1
<1>6. ASSUME Exists(i), NEW c \in Callers, CallStep(c)
      PROVE  /\ batch'.step # "raised"
             /\ i \in Enqueued' \/ Removing(i)'
  <2>1. batch' = batch
    BY <1>6
    DEF CallStep, ReadRow, WriteStatus, WriteResult, ListChildren, NextChild,
        ClaimChild, FailChild, EndCall
  <2>2. batch.step # "raised" /\ (i \in Enqueued \/ Removing(i))
    BY <1>6 DEF BInv, BatchHeld
  <2>3. CASE i \in Enqueued
    BY <2>1, <2>2, <2>3 DEF Enqueued
  <2>4. CASE Removing(i) /\ c # Submitter
    <3>1. call'[Submitter] = call[Submitter]
      <4>1. CASE EndCall(c)
        BY <1>0, <2>4, <4>1, SubmitterAssumption DEF EndCall, SetCall
      <4>2. CASE ~EndCall(c)
        BY <1>6, <2>4, <4>2, RootStays, SubmitterAssumption DEF BInv
      <4> QED  BY <4>1, <4>2
    <3> QED  BY <2>1, <2>2, <2>4, <3>1 DEF Removing
  <2>5. CASE Removing(i) /\ c = Submitter
    <3>1. ~EndCall(c)
      BY <1>0, <2>5
      DEF EndCall, Removing, Delete, Absent, Exists, JobStatus, Terminal, storeVars
    <3> QED  BY <1>6, <2>1, <2>2, <2>5, <3>1, RootStays DEF BInv, Removing
  <2> QED  BY <2>2, <2>3, <2>4, <2>5
<1>7. ASSUME Exists(i), NEW c \in Callers, NEW j \in Jobs, Cancel(c, j)
      PROVE  /\ batch'.step # "raised"
             /\ i \in Enqueued' \/ Removing(i)'
  <2>1. batch' = batch
    BY <1>7 DEF Cancel
  <2>2. batch.step # "raised" /\ (i \in Enqueued \/ Removing(i))
    BY <1>7 DEF BInv, BatchHeld
  <2>3. CASE i \in Enqueued
    BY <2>1, <2>2, <2>3 DEF Enqueued
  <2>4. CASE Removing(i)
    <3>1. c # Submitter
      BY <1>7, <2>4 DEF Cancel, Removing
    <3>2. call'[Submitter] = call[Submitter]
      BY <1>0, <1>7, <3>1, SubmitterAssumption DEF Cancel, StartCall, SetCall
    <3> QED  BY <2>1, <2>2, <2>4, <3>2 DEF Removing
  <2> QED  BY <2>2, <2>3, <2>4
<1>8. ASSUME NEW w \in Workers, GateStep(w) \/ \E j \in Jobs : TaskStep(w, j)
      PROVE  UNCHANGED <<call, batch>>
  BY <1>8 DEF GateStep, Poll, StartRow, ReadDep, ReadPeers, TakeSlots, Dispatch,
     FailClaim, FailStore, TaskStep, TaskClaim, TaskEnd, callVars
<1> QED
  <2>1. CASE NoneAppears
    <3>1. Exists(i)
      BY <1>0, <2>1 DEF NoneAppears
    <3>2. CASE PassTime \/ UNCHANGED vars
      BY <1>1, <3>1, <3>2 DEF PassTime, vars, callVars
    <3> QED
      BY <1>1, <1>2, <1>3, <1>4, <1>5, <1>6, <1>7, <1>8, <3>1, <3>2
      DEF Next, SubmitStep
  <2> QED  BY <1>4, <1>5, <2>1, Appear DEF BInv

\* When submit_batch raises, none of its items is in the table: not one of them
\* outlives the roll-back, whatever workers and other callers do meanwhile.
THEOREM BatchRemoved == Spec => []FailedBatchLeavesNothing
<1>1. Init => BInv
  <2>1. Init => BatchHeld
    BY ItemsAssumption
    DEF Init, StoreInit, Absent, Exists, JobStatus, Terminal, BatchHeld, Locals
  <2> QED  BY <2>1, InitDInv DEF BInv
<1>2. BInv /\ [Next]_vars => BInv'
  BY StepDInv, BatchStep DEF BInv
<1>3. BInv => FailedBatchLeavesNothing
  BY DEF BInv, BatchHeld, FailedBatchLeavesNothing
<1> QED  BY <1>1, <1>2, <1>3, PTL DEF Spec

-----------------------------------------------------------------------------
(* Labels.                                                                 *)

\* No job is submitted after a job of its group with a later label.
LabelsInOrder ==
  \A p, j \in Jobs :
    /\ rows[p].status = "new" /\ rows'[p].status # "new"
    /\ p \in Earlier(j)
    => rows[j].status = "new"

\* A job is submitted before it is listed, looked at and run.
Submitted ==
  \A w \in Workers :
    /\ \A n \in DOMAIN listed[w] : rows[listed[w][n]].status # "new"
    /\ gate[w].step # "idle" => rows[gate[w].job].status # "new"
    /\ \A j \in Jobs : task[w][j] # NoTask => rows[j].status # "new"

\* The peers that a row behind the gate for labels, and a task, waited for.
PeersOver(j) == \A p \in Earlier(j) : p \in finished \/ ~Exists(p)
PeersPassed ==
  \A w \in Workers :
    /\ gate[w].step \in {"slots", "permit"} => PeersOver(gate[w].job)
    /\ \A j \in Jobs : task[w][j] # NoTask => PeersOver(j)

LInv == DInv /\ Submitted /\ PeersPassed

\* Once submitted, for ever; and then its peers stay what they were.
LEMMA PeersStay ==
  ASSUME DInv, [Next]_vars, NEW j \in Jobs, rows[j].status # "new"
  PROVE  /\ rows'[j].status # "new"
         /\ LabelsInOrder /\ PeersOver(j) => PeersOver(j)'
<1>0. finished \subseteq finished' /\ rows \in [Jobs -> Row]
  BY RecordedStep DEF DInv, StoreInv, StoreTypeOK
<1>1. CASE NoneAppears
  BY <1>0, <1>1 DEF NoneAppears, PeersOver, Earlier
<1>2. ASSUME NEW p \in Jobs, Enqueue(p)
      PROVE  /\ rows'[j].status # "new"
             /\ LabelsInOrder /\ PeersOver(j) => PeersOver(j)'
  <2>1. /\ rows[p].status = "new" /\ rows'[p].status = "queued"
        /\ \A k \in Jobs \ {p} : rows'[k] = rows[k]
    BY <1>0, <1>2 DEF Enqueue, Absent
  <2>2. LabelsInOrder => p \notin Earlier(j)
    BY <2>1 DEF LabelsInOrder
  <2>3. Earlier(j) \subseteq Jobs
    BY DEF Earlier
  <2> QED  BY <1>0, <2>1, <2>2, <2>3 DEF PeersOver, Exists, Earlier
<1>3. CASE UNCHANGED rows
  BY <1>0, <1>3 DEF PeersOver, Exists, Earlier
<1>4. ASSUME NEW p \in Jobs, Submit(p) PROVE Enqueue(p)
  BY <1>4 DEF Submit
<1>5. CASE SubmitItem
  BY <1>2, <1>3, <1>5 DEF SubmitItem, storeVars
<1> QED  BY <1>1, <1>2, <1>4, <1>5, Appear

\* Where the rows in the lists, in the gates and in flight come from.
LEMMA Whence ==
  ASSUME DInv, [Next]_vars, NEW w \in Workers
  PROVE  /\ \A n \in DOMAIN listed'[w] :
              \/ \E k \in DOMAIN listed[w] : listed[w][k] = listed'[w][n]
              \/ listed'[w][n] \in Waiting
         /\ gate'[w].step # "idle" =>
              \/ gate[w].step # "idle" /\ gate'[w].job = gate[w].job
              \/ \E k \in DOMAIN listed[w] : gate'[w].job = listed[w][k]
         /\ gate'[w].step \in {"slots", "permit"} =>
              /\ gate[w].step # "idle" /\ gate'[w].job = gate[w].job
              /\ \/ gate[w].step \in {"slots", "permit"}
                 \/ \A p \in Earlier(gate[w].job) : ~Exists(p) \/ Is(p, {"completed"})
         /\ \A j \in Jobs : task'[w][j] # NoTask =>
              \/ task[w][j] # NoTask
              \/ gate[w].step = "permit" /\ gate[w].job = j
<1>0. /\ listed \in [Workers -> Seq(Jobs)] /\ gate \in [Workers -> Gate]
      /\ task \in [Workers -> [Jobs -> {NoTask} \cup Nat]]
  BY DEF DInv, Typed
<1>1. CASE UNCHANGED procVars
  BY <1>1 DEF procVars
<1>2. ASSUME NEW v \in Workers, Poll(v)
      PROVE  /\ UNCHANGED <<gate, task>>
             /\ \A n \in DOMAIN listed'[w] :
                  \/ \E k \in DOMAIN listed[w] : listed[w][k] = listed'[w][n]
                  \/ listed'[w][n] \in Waiting
  <2>1. PICK S \in SUBSET Waiting \ {{}} :
          \E order \in [1 .. Cardinality(S) -> S] :
            listed' = [listed EXCEPT ![v] = order]
    BY <1>2 DEF Poll
  <2>2. PICK order \in [1 .. Cardinality(S) -> S] :
          listed' = [listed EXCEPT ![v] = order]
    BY <2>1
  <2> QED  BY <1>0, <1>2, <2>2 DEF Poll
<1>3. ASSUME NEW v \in Workers, StartRow(v)
      PROVE  /\ task' = task
             /\ \A n \in DOMAIN listed'[w] :
                  \E k \in DOMAIN listed[w] : listed[w][k] = listed'[w][n]
             /\ \/ gate'[w] = gate[w]
                \/ /\ gate'[w].step \notin {"slots", "permit"}
                   /\ \E k \in DOMAIN listed[w] : gate'[w].job = listed[w][k]
  <2>0. /\ listed[v] # <<>> /\ listed' = [listed EXCEPT ![v] = Tail(@)] /\ task' = task
        /\ listed[v] \in Seq(Jobs)
    BY <1>0, <1>3 DEF StartRow
  <2>1. /\ 1 \in DOMAIN listed[v] /\ listed[v][1] = Head(listed[v])
        /\ \A n \in DOMAIN Tail(listed[v]) :
             n + 1 \in DOMAIN listed[v] /\ listed[v][n + 1] = Tail(listed[v])[n]
    BY <2>0
  <2>2. \A n \in DOMAIN listed'[w] :
          \E k \in DOMAIN listed[w] : listed[w][k] = listed'[w][n]
    BY <1>0, <2>0, <2>1
  <2>3. \/ gate'[w] = gate[w]
        \/ /\ gate'[w].step \notin {"slots", "permit"}
           /\ w = v /\ gate'[w].job = Head(listed[v])
    BY <1>0, <1>3 DEF StartRow, SetGate
  <2> QED  BY <2>0, <2>1, <2>2, <2>3
<1>4. ASSUME NEW v \in Workers,
             \/ ReadDep(v) \/ ReadPeers(v) \/ TakeSlots(v) \/ Dispatch(v)
             \/ FailClaim(v) \/ FailStore(v)
      PROVE  /\ listed' = listed
             /\ gate'[w].step # "idle" =>
                  gate[w].step # "idle" /\ gate'[w].job = gate[w].job
             /\ gate'[w].step \in {"slots", "permit"} =>
                  \/ gate[w].step \in {"slots", "permit"}
                  \/ \A p \in Earlier(gate[w].job) : ~Exists(p) \/ Is(p, {"completed"})
             /\ \A j \in Jobs : task'[w][j] # NoTask =>
                  \/ task[w][j] # NoTask
                  \/ gate[w].step = "permit" /\ gate[w].job = j
  <2>0. NoGate.step = "idle" /\ gate[v] \in Gate
    BY <1>0 DEF NoGate
  <2>1. CASE ReadDep(v)
    <3>1. PICK d \in gate[v].todo :
            \/ SetGate(v, [gate[v] EXCEPT !.step = "fail"])
            \/ SetGate(v, NoGate)
            \/ SetGate(v, IF gate[v].todo = {d}
                          THEN [gate[v] EXCEPT !.step = "label", !.todo = {}]
                          ELSE [gate[v] EXCEPT !.todo = @ \ {d}])
      BY <2>1 DEF ReadDep
    <3>2. gate[v].step = "deps" /\ UNCHANGED <<listed, task>>
      BY <2>1 DEF ReadDep
    <3>3. ASSUME NEW g, SetGate(v, g), g.job = gate[v].job,
                 g.step \notin {"slots", "permit"}
          PROVE  /\ gate'[w].job = gate[w].job
                 /\ w = v => gate'[w].step \notin {"slots", "permit"}
                 /\ w # v => gate'[w] = gate[w]
      BY <1>0, <3>3 DEF SetGate
    <3>4. CASE SetGate(v, [gate[v] EXCEPT !.step = "fail"])
      <4> DEFINE g == [gate[v] EXCEPT !.step = "fail"]
      <4>1. g.job = gate[v].job /\ g.step = "fail"
        BY <2>0 DEF Gate
      <4> QED  BY <3>2, <3>3, <3>4, <4>1
    <3>5. CASE SetGate(v, NoGate)
      BY <1>0, <2>0, <3>2, <3>5 DEF SetGate
    <3>6. CASE SetGate(v, [gate[v] EXCEPT !.step = "label", !.todo = {}])
      <4> DEFINE g == [gate[v] EXCEPT !.step = "label", !.todo = {}]
      <4>1. g.job = gate[v].job /\ g.step = "label"
        BY <2>0 DEF Gate
      <4> QED  BY <3>2, <3>3, <3>6, <4>1
    <3>7. CASE SetGate(v, [gate[v] EXCEPT !.todo = @ \ {d}])
      <4> DEFINE g == [gate[v] EXCEPT !.todo = @ \ {d}]
      <4>1. g.job = gate[v].job /\ g.step = "deps"
        BY <2>0, <3>2 DEF Gate
      <4> QED  BY <3>2, <3>3, <3>7, <4>1
    <3> QED  BY <3>1, <3>4, <3>5, <3>6, <3>7
  <2>2. ASSUME NEW s \in Step, SetGate(v, [gate[v] EXCEPT !.step = s])
        PROVE  /\ gate'[w].job = gate[w].job
               /\ gate'[w].step = IF w = v THEN s ELSE gate[w].step
    <3> DEFINE g == [gate[v] EXCEPT !.step = s]
    <3>1. g.step = s /\ g.job = gate[v].job
      BY <2>0 DEF Gate
    <3>2. gate' = [gate EXCEPT ![v] = g]
      BY <2>2 DEF SetGate
    <3> HIDE DEF g
    <3> QED  BY <1>0, <3>1, <3>2
  <2>3. ASSUME SetGate(v, NoGate)
        PROVE  gate'[w] = IF w = v THEN NoGate ELSE gate[w]
    BY <1>0, <2>3 DEF SetGate
  <2>4. CASE ReadPeers(v)
    <3>1. /\ gate[v].step = "label" /\ UNCHANGED <<listed, task>>
          /\ \/ SetGate(v, [gate[v] EXCEPT !.step = "fail"])
             \/ SetGate(v, NoGate)
             \/ /\ \A p \in Earlier(gate[v].job) : ~Exists(p) \/ Is(p, {"completed"})
                /\ SetGate(v, [gate[v] EXCEPT !.step = "slots"])
      BY <2>4 DEF ReadPeers
    <3> QED  BY <2>0, <2>2, <2>3, <3>1 DEF Step
  <2>5. CASE TakeSlots(v)
    <3>1. /\ gate[v].step = "slots" /\ UNCHANGED <<listed, task>>
          /\ \/ SetGate(v, [gate[v] EXCEPT !.step = "permit"])
             \/ SetGate(v, NoGate)
      BY <2>5 DEF TakeSlots
    <3> QED  BY <2>0, <2>2, <2>3, <3>1 DEF Step
  <2>6. CASE FailClaim(v) \/ FailStore(v)
    <3>1. /\ gate[v].step \in {"fail", "failing"} /\ UNCHANGED <<listed, task>>
          /\ \/ SetGate(v, [gate[v] EXCEPT !.step = "failing", !.token = nextToken])
             \/ SetGate(v, NoGate)
      BY <2>6 DEF FailClaim, FailStore
    <3>2. CASE SetGate(v, [gate[v] EXCEPT !.step = "failing", !.token = nextToken])
      <4> DEFINE g == [gate[v] EXCEPT !.step = "failing", !.token = nextToken]
      <4>1. g.step = "failing" /\ g.job = gate[v].job
        BY <2>0 DEF Gate
      <4>2. gate' = [gate EXCEPT ![v] = g]
        BY <3>2 DEF SetGate
      <4> HIDE DEF g
      <4> QED  BY <1>0, <3>1, <4>1, <4>2
    <3> QED  BY <2>0, <2>3, <3>1, <3>2
  <2>7. CASE Dispatch(v)
    <3>1. /\ gate[v].step = "permit" /\ listed' = listed /\ SetGate(v, NoGate)
          /\ task' = [task EXCEPT ![v][gate[v].job] = NoToken]
      BY <2>7 DEF Dispatch
    <3>2. \A j \in Jobs : task'[w][j] # NoTask =>
            task[w][j] # NoTask \/ (w = v /\ j = gate[v].job)
      BY <1>0, <3>1
    <3> QED  BY <2>0, <2>3, <3>1, <3>2
  <2> QED  BY <1>4, <2>1, <2>4, <2>5, <2>6, <2>7
<1>5. ASSUME NEW v \in Workers, NEW j \in Jobs, TaskStep(v, j)
      PROVE  /\ UNCHANGED <<listed, gate>>
             /\ \A i \in Jobs : task'[w][i] # NoTask => task[w][i] # NoTask
  BY <1>0, <1>5 DEF TaskStep, TaskClaim, TaskEnd, NoTask, NoToken
<1>6. ASSUME NEW c \in Callers, CallStep(c) \/ \E j \in Jobs : Cancel(c, j)
      PROVE  UNCHANGED procVars
  BY <1>6 DEF CallStep, ReadRow, WriteStatus, WriteResult, ListChildren, NextChild,
     ClaimChild, FailChild, EndCall, Cancel
<1>7. CASE \/ \E j \in Jobs : Submit(j)
           \/ SubmitStep \/ ItemRefused \/ PassTime \/ UNCHANGED vars
  BY <1>1, <1>7 DEF Submit, SubmitStep, SubmitItem, RollBack, ItemRefused, PassTime, vars
<1>8. ASSUME NEW v \in Workers, GateStep(v)
      PROVE  \/ Poll(v) \/ StartRow(v)
             \/ ReadDep(v) \/ ReadPeers(v) \/ TakeSlots(v) \/ Dispatch(v)
             \/ FailClaim(v) \/ FailStore(v)
  BY <1>8 DEF GateStep
<1> QED  BY <1>1, <1>2, <1>3, <1>4, <1>5, <1>6, <1>7, <1>8 DEF Next

LEMMA SubmittedStep == DInv /\ Submitted /\ [Next]_vars => Submitted'
<1> SUFFICES ASSUME DInv, Submitted, [Next]_vars PROVE Submitted'
  OBVIOUS
<1>1. /\ \A v \in Workers : gate[v].job \in Jobs /\ listed[v] \in Seq(Jobs)
      /\ \A k \in Waiting : k \in Jobs /\ rows[k].status # "new"
  BY DEF DInv, Typed, Gate, Waiting, Claimable
<1>2. \A j \in Jobs : rows[j].status # "new" => rows'[j].status # "new"
  BY PeersStay
<1>3. ASSUME NEW w \in Workers
      PROVE  /\ \A n \in DOMAIN listed'[w] : rows'[listed'[w][n]].status # "new"
             /\ gate'[w].step # "idle" => rows'[gate'[w].job].status # "new"
             /\ \A j \in Jobs : task'[w][j] # NoTask => rows'[j].status # "new"
  <2>1. \A n \in DOMAIN listed[w] : listed[w][n] \in Jobs
    BY <1>1
  <2> QED  BY <1>1, <1>2, <2>1, Whence DEF Submitted
<1> QED  BY <1>3 DEF Submitted

LEMMA LabelStep == LInv /\ [Next]_vars /\ [LabelsInOrder]_vars => LInv'
<1> SUFFICES ASSUME LInv, [Next]_vars, [LabelsInOrder]_vars PROVE LInv'
  OBVIOUS
<1>1. DInv' /\ Recorded' /\ finished \subseteq finished'
  BY StepDInv, RecordedStep DEF LInv
<1>2. \A w \in Workers : gate'[w].job \in Jobs
  BY <1>1 DEF DInv, Typed, Gate
<1>3. ASSUME NEW j \in Jobs, rows[j].status # "new"
      PROVE  rows'[j].status # "new" /\ (PeersOver(j) => PeersOver(j)')
  <2>1. CASE LabelsInOrder
    BY <1>3, <2>1, PeersStay DEF LInv
  <2>2. CASE UNCHANGED vars
    BY <1>3, <2>2 DEF vars, storeVars, PeersOver, Exists, Earlier
  <2> QED  BY <2>1, <2>2
<1>4. Submitted'
  BY SubmittedStep DEF LInv
<1>5. ASSUME NEW w \in Workers, NEW j \in Jobs,
             \/ gate'[w].step \in {"slots", "permit"} /\ gate'[w].job = j
             \/ task'[w][j] # NoTask
      PROVE  PeersOver(j)'
  <2>1. rows[j].status # "new"
    BY <1>5, Whence DEF LInv, Submitted
  <2>2. PeersOver(j)
    <3>1. \/ gate[w].step \in {"slots", "permit"} /\ gate[w].job = j
          \/ task[w][j] # NoTask
          \/ \A p \in Earlier(j) : ~Exists(p) \/ Is(p, {"completed"})
      BY <1>5, Whence DEF LInv
    <3>2. Earlier(j) \subseteq Jobs
      BY DEF Earlier
    <3> QED  BY <3>1, <3>2 DEF LInv, PeersPassed, PeersOver, Is, DInv, Recorded
  <2> QED  BY <1>3, <2>1, <2>2
<1> QED  BY <1>1, <1>2, <1>4, <1>5 DEF LInv, Submitted, PeersPassed

\* The phases of a label group do not overlap: if no job is submitted after one
\* of its group with a later label, then while a job runs each peer with an
\* earlier label has been completed or does not exist any more.
THEOREM PhasesKept == Spec /\ [][LabelsInOrder]_vars => []PhasesInOrder
<1>1. Init => LInv
  <2>1. Init => Submitted /\ PeersPassed
    BY DEF Init, NoGate, Submitted, PeersPassed
  <2> QED  BY <2>1, InitDInv DEF LInv
<1>2. LInv => PhasesInOrder
  BY DEF LInv, PeersPassed, PeersOver, PhasesInOrder, Running
<1> QED  BY <1>1, <1>2, LabelStep, PTL DEF Spec

-----------------------------------------------------------------------------
(* Recursive functions on 0 .. N.                                          *)

\* A set of numbers that is not empty has a least one.
LEMMA LeastNumber ==
  ASSUME NEW T \in SUBSET Nat, T # {}
  PROVE  \E x \in T : \A y \in T : x =< y
<1>1. PICK x \in T : \A y \in T : ~(<<y, x>> \in OpToRel(<, Nat))
  BY WFMin, NatLessThanWellFounded
<1>2. \A y \in T : ~(y < x)
  BY <1>1 DEF OpToRel
<1> QED  BY <1>2

LEMMA UpTo ==
  ASSUME NEW N \in Nat, NEW T, 0 \in T, \A n \in 1 .. N : n - 1 \in T => n \in T
  PROVE  \A n \in 0 .. N : n \in T
<1>1. SUFFICES ASSUME NEW m \in 0 .. N, m \notin T PROVE FALSE
  OBVIOUS
<1>2. {n \in 0 .. N : n \notin T} \in SUBSET Nat
  OBVIOUS
<1>3. PICK n \in 0 .. N : n \notin T /\ \A k \in 0 .. N : k \notin T => n =< k
  BY <1>1, <1>2, LeastNumber
<1>4. n \in 1 .. N /\ n - 1 \in 0 .. N /\ n - 1 < n
  BY <1>3
<1>5. n - 1 \in T
  BY <1>3, <1>4
<1> QED  BY <1>3, <1>4, <1>5

\* f starts with a and goes on by the functions step[n], which stay in V.
Folds(f, N, a, step) == f[0] = a /\ \A n \in 1 .. N : f[n] = step[n][f[n - 1]]
StaysIn(step, N, V) == \A n \in 1 .. N, v \in V : step[n][v] \in V

LEMMA Fold ==
  ASSUME NEW N \in Nat, NEW V, NEW a \in V, NEW step, StaysIn(step, N, V)
  PROVE  \E f \in [0 .. N -> V] : Folds(f, N, a, step)
<1> USE DEF Folds, StaysIn
<1> DEFINE Runs(n) == {f \in [0 .. n -> V] :
                         f[0] = a /\ \A k \in 1 .. n : f[k] = step[k][f[k - 1]]}
           T == {n \in 0 .. N : Runs(n) # {}}
<1>1. 0 \in T
  <2> DEFINE f == [i \in 0 .. 0 |-> a]
  <2>1. f \in [0 .. 0 -> V]
    OBVIOUS
  <2>2. f[0] = a
    OBVIOUS
  <2>3. \A k \in 1 .. 0 : FALSE
    OBVIOUS
  <2> HIDE DEF f
  <2>4. f \in Runs(0)
    BY <2>1, <2>2, <2>3
  <2> QED  BY <2>4
<1>2. ASSUME NEW n \in 1 .. N, n - 1 \in T PROVE n \in T
  <2>1. PICK f \in [0 .. n - 1 -> V] :
          f[0] = a /\ \A k \in 1 .. n - 1 : f[k] = step[k][f[k - 1]]
    BY <1>2
  <2> DEFINE g == [i \in 0 .. n |-> IF i = n THEN step[n][f[n - 1]] ELSE f[i]]
  <2>2. n - 1 \in 0 .. n - 1 /\ n \in Nat
    OBVIOUS
  <2>3. f[n - 1] \in V
    BY <2>2
  <2>4. step[n][f[n - 1]] \in V
    BY <2>3
  <2>5. g \in [0 .. n -> V]
    <3>1. \A i \in 0 .. n : i = n \/ i \in 0 .. n - 1
      BY <2>2
    <3> QED  BY <2>4, <3>1
  <2>6. g[0] = a /\ g[n] = step[n][f[n - 1]] /\ \A i \in 0 .. n - 1 : g[i] = f[i]
    BY <2>1, <2>2
  <2> HIDE DEF g
  <2>7. ASSUME NEW k \in 1 .. n PROVE g[k] = step[k][g[k - 1]]
    <3>1. k - 1 \in 0 .. n - 1 /\ (k = n \/ k \in 1 .. n - 1)
      BY <2>2
    <3> QED  BY <2>1, <2>6, <3>1
  <2>8. g \in Runs(n)
    BY <2>5, <2>6, <2>7
  <2> QED  BY <2>8
<1>3. N \in T
  <2> HIDE DEF T
  <2>1. \A n \in 1 .. N : n - 1 \in T => n \in T
    BY <1>2
  <2>2. \A n \in 0 .. N : n \in T
    BY <1>1, <2>1, UpTo
  <2> QED  BY <2>2
<1> QED  BY <1>3

\* u[n] is what the first n elements of s have of S.
Keeps(u, s, S) ==
  /\ u[0] = <<>>
  /\ \A n \in 1 .. Len(s) :
       u[n] = IF s[n] \in S THEN Append(u[n - 1], s[n]) ELSE u[n - 1]

LEMMA KeptIs ==
  ASSUME NEW X, NEW s \in Seq(X), NEW S
  PROVE  \E u \in [0 .. Len(s) -> Seq(X)] : Kept(s, S) = u[Len(s)] /\ Keeps(u, s, S)
<1> DEFINE N == Len(s)
           A(t, n) == IF s[n] \in S THEN Append(t, s[n]) ELSE t
           step == [n \in 1 .. N |-> [t \in Seq(X) |-> A(t, n)]]
           upto == CHOOSE u : u = [n \in 0 .. Len(s) |->
                                     IF n = 0 THEN <<>>
                                     ELSE IF s[n] \in S THEN Append(u[n - 1], s[n])
                                          ELSE u[n - 1]]
<1>0. N \in Nat /\ <<>> \in Seq(X)
  OBVIOUS
<1>1. \A n \in 1 .. N, t \in Seq(X) : A(t, n) \in Seq(X)
  OBVIOUS
<1>2. \E u : u = [n \in 0 .. N |->
                   IF n = 0 THEN <<>>
                   ELSE IF s[n] \in S THEN Append(u[n - 1], s[n]) ELSE u[n - 1]]
  <2>2. \A n \in 1 .. N, t \in Seq(X) : step[n][t] = A(t, n)
    <3> HIDE DEF A
    <3> QED  OBVIOUS
  <2> HIDE DEF step
  <2>3. PICK f \in [0 .. N -> Seq(X)] :
          f[0] = <<>> /\ \A n \in 1 .. N : f[n] = step[n][f[n - 1]]
    <3>1. StaysIn(step, N, Seq(X))
      BY <1>1, <2>2 DEF StaysIn
    <3>2. \E f \in [0 .. N -> Seq(X)] : Folds(f, N, <<>>, step)
      <4> HIDE DEF N
      <4> QED  BY <1>0, <3>1, Fold
    <3> QED  BY <3>2 DEF Folds
  <2>4. \A n \in 0 .. N : n = 0 \/ (n \in 1 .. N /\ n - 1 \in 0 .. N)
    BY <1>0
  <2>5. \A n \in 0 .. N : n # 0 => f[n] = A(f[n - 1], n)
    <3> HIDE DEF A
    <3> QED  BY <2>2, <2>3, <2>4
  <2>6. f = [n \in 0 .. N |-> IF n = 0 THEN <<>> ELSE A(f[n - 1], n)]
    <3> HIDE DEF A
    <3> QED  BY <2>3, <2>5
  <2> QED  BY <2>6
<1>3. upto = [n \in 0 .. N |->
                IF n = 0 THEN <<>>
                ELSE IF s[n] \in S THEN Append(upto[n - 1], s[n]) ELSE upto[n - 1]]
  BY <1>2
<1>4. Kept(s, S) = upto[N]
  BY DEF Kept
<1> HIDE DEF upto
<1>5. upto[0] = <<>> /\ \A n \in 1 .. N : upto[n] = A(upto[n - 1], n)
  <2>1. upto = [n \in 0 .. N |-> IF n = 0 THEN <<>> ELSE A(upto[n - 1], n)]
    BY <1>3
  <2>2. 0 \in 0 .. N /\ \A n \in 1 .. N : n \in 0 .. N /\ n # 0
    BY <1>0
  <2> HIDE DEF A
  <2> QED  BY <2>1, <2>2
<1>6. \A n \in 0 .. N : upto[n] \in Seq(X)
  <2> DEFINE T == {n \in 0 .. N : upto[n] \in Seq(X)}
  <2>1. 0 \in T
    <3>1. 0 \in 0 .. N /\ upto[0] \in Seq(X)
      BY <1>0, <1>5
    <3> QED  BY <3>1
  <2>2. \A n \in 1 .. N : n - 1 \in T => n \in T
    <3> HIDE DEF A
    <3> QED  BY <1>1, <1>5
  <2>3. \A n \in 0 .. N : n \in T
    <3> HIDE DEF T, N
    <3> QED  BY <1>0, <2>1, <2>2, UpTo
  <2> QED  BY <2>3
<1>7. upto \in [0 .. N -> Seq(X)]
  BY <1>3, <1>6
<1>8. Keeps(upto, s, S)
  BY <1>5 DEF Keeps
<1> QED  BY <1>4, <1>7, <1>8

Distinct(s) == \A i, k \in DOMAIN s : s[i] = s[k] => i = k

\* A comprehension's elements satisfy its condition, and come once if they did.
LEMMA KeptHas ==
  ASSUME NEW X, NEW s \in Seq(X), NEW S, Distinct(s)
  PROVE  /\ Kept(s, S) \in Seq(X) /\ Distinct(Kept(s, S))
         /\ \A i \in DOMAIN Kept(s, S) : Kept(s, S)[i] \in X \cap S
<1> DEFINE N == Len(s)
<1>0. PICK u \in [0 .. N -> Seq(X)] : Kept(s, S) = u[N] /\ Keeps(u, s, S)
  BY KeptIs
<1>1. /\ Kept(s, S) = u[N] /\ u[0] = <<>>
      /\ \A n \in 1 .. N :
           u[n] = IF s[n] \in S THEN Append(u[n - 1], s[n]) ELSE u[n - 1]
  BY <1>0 DEF Keeps
<1>2. N \in Nat /\ DOMAIN s = 1 .. N /\ \A n \in 1 .. N : s[n] \in X
  OBVIOUS
<1> DEFINE From(t, n) ==
             /\ \A i \in 1 .. Len(t) : \E m \in 1 .. n : t[i] = s[m] /\ s[m] \in S
             /\ \A i, k \in 1 .. Len(t) : t[i] = t[k] => i = k
           T == {n \in 0 .. N : From(u[n], n)}
<1> HIDE DEF N
<1>3. 0 \in T
  <2>1. Len(u[0]) = 0 /\ 0 \in 0 .. N
    BY <1>1, <1>2
  <2>2. From(u[0], 0)
    BY <2>1
  <2> QED  BY <2>1, <2>2
<1>4. ASSUME NEW n \in 1 .. N, n - 1 \in T PROVE n \in T
  <2>1. /\ From(u[n - 1], n - 1) /\ n - 1 \in 0 .. N /\ n \in 0 .. N
        /\ u[n - 1] \in Seq(X) /\ \A m \in 1 .. n - 1 : m \in 1 .. n /\ m \in 1 .. N /\ m # n
    BY <1>2, <1>4
  <2>2. CASE s[n] \in S
    <3> DEFINE t == Append(u[n - 1], s[n])
    <3>1. /\ u[n] = t /\ Len(t) = Len(u[n - 1]) + 1 /\ Len(u[n - 1]) \in Nat
          /\ t[Len(t)] = s[n] /\ n \in 1 .. n
          /\ \A i \in 1 .. Len(u[n - 1]) : t[i] = u[n - 1][i]
      <4>1. u[n] = t /\ s[n] \in X /\ n \in 1 .. n
        <5> HIDE DEF T, From
        <5>1. s[n] \in X /\ n \in 1 .. n
          BY <1>2
        <5>2. u[n] = t
          BY <1>1, <2>2
        <5> QED  BY <5>1, <5>2
      <4> HIDE DEF T
      <4> QED  BY <2>1, <4>1
    <3> HIDE DEF t
    <3>2. \A i \in 1 .. Len(t) : i = Len(t) \/ i \in 1 .. Len(u[n - 1])
      BY <3>1
    <3>3. \A m \in 1 .. n - 1 : s[m] # s[n]
      BY <1>2, <2>1 DEF Distinct
    <3>4. \A i \in 1 .. Len(t) : \E m \in 1 .. n : t[i] = s[m] /\ s[m] \in S
      BY <2>1, <2>2, <3>1, <3>2
    <3>5. \A i, k \in 1 .. Len(t) : t[i] = t[k] => i = k
      BY <2>1, <3>1, <3>2, <3>3
    <3>6. From(u[n], n)
      BY <3>1, <3>4, <3>5
    <3> QED  BY <2>1, <3>6
  <2>3. CASE s[n] \notin S
    <3>1. u[n] = u[n - 1]
      BY <1>1, <2>3
    <3> QED  BY <2>1, <3>1
  <2> QED  BY <2>2, <2>3
<1>5. N \in T
  <2> HIDE DEF T
  <2>1. \A n \in 0 .. N : n \in T
    BY <1>2, <1>3, <1>4, UpTo
  <2> QED  BY <1>2, <2>1
<1>6. From(u[N], N) /\ u[N] \in Seq(X) /\ DOMAIN u[N] = 1 .. Len(u[N])
  BY <1>1, <1>2, <1>5
<1> QED  BY <1>1, <1>2, <1>6 DEF Distinct

-----------------------------------------------------------------------------
(* The order of a batch.                                                   *)

Placed(out) == {out[i] : i \in DOMAIN out}

\* Each item that was placed comes after its dependencies, and once; those of the
\* items that are ready have been placed.
WalkOK(r) ==
  /\ Distinct(r.out) /\ Distinct(r.ready)
  /\ \A i \in DOMAIN r.ready :
       r.ready[i] \in Ready(r.out) /\ r.ready[i] \notin Placed(r.out)
  /\ \A i \in DOMAIN r.out : \A d \in Deps[r.out[i]] \cap Locals :
       \E k \in DOMAIN r.out : k < i /\ r.out[k] = d
Walks == {r \in [ready : Seq(Locals), out : Seq(Locals)] : WalkOK(r)}

LEMMA ItemsAre == Items \in Seq(Locals) /\ Distinct(Items) /\ Len(Items) \in Nat
  BY ItemsAssumption DEF Locals, Distinct

LEMMA WalkGoesOn ==
  ASSUME NEW was \in Walks
  PROVE  Walked(Items, was) \in Walks
<1>0. /\ was.ready \in Seq(Locals) /\ was.out \in Seq(Locals) /\ WalkOK(was)
      /\ DOMAIN was.ready = 1 .. Len(was.ready) /\ DOMAIN was.out = 1 .. Len(was.out)
      /\ Len(was.ready) \in Nat /\ Len(was.out) \in Nat
  BY DEF Walks
<1>1. CASE was.ready = <<>>
  BY <1>1 DEF Walked
<1>2. CASE was.ready # <<>>
  <2> DEFINE n == Head(was.ready)
             out == Append(was.out, n)
             joins == {k \in Ready(out) : n \in Deps[k]}
             new == Kept(Items, joins)
             rest == Tail(was.ready)
             ready == rest \o new
  <2>1. /\ Walked(Items, was) = [ready |-> ready, out |-> out]
    BY <1>2 DEF Walked
  <2>2. /\ new \in Seq(Locals) /\ Distinct(new)
        /\ \A i \in DOMAIN new : new[i] \in Locals /\ new[i] \in joins
    <3> HIDE DEF joins
    <3> QED  BY ItemsAre, KeptHas
  <2>3. /\ n \in Locals /\ 1 \in DOMAIN was.ready /\ was.ready[1] = n
        /\ rest \in Seq(Locals) /\ Len(rest) = Len(was.ready) - 1
        /\ \A i \in 1 .. Len(rest) : rest[i] = was.ready[i + 1] /\ i + 1 \in DOMAIN was.ready
    BY <1>0, <1>2
  <2>4. n \in Ready(was.out) /\ n \notin Placed(was.out)
    BY <1>0, <2>3 DEF WalkOK
  <2>5. /\ out \in Seq(Locals) /\ Len(out) = Len(was.out) + 1 /\ out[Len(out)] = n
        /\ \A i \in 1 .. Len(was.out) : out[i] = was.out[i]
        /\ DOMAIN out = 1 .. Len(out)
    <3>1. n \in Locals /\ was.out \in Seq(Locals)
      BY <1>0, <2>3
    <3> HIDE DEF n
    <3> QED  BY <3>1
  <2> HIDE DEF n, out, joins
  <2>6. /\ \A i \in DOMAIN out : i = Len(out) \/ i \in DOMAIN was.out
        /\ Placed(out) = Placed(was.out) \cup {n}
    <3>1. /\ DOMAIN out = DOMAIN was.out \cup {Len(out)}
          /\ \A i \in DOMAIN was.out : out[i] = was.out[i]
      BY <1>0, <2>5
    <3> QED  BY <2>5, <3>1 DEF Placed
  <2>7. Distinct(out)
    BY <1>0, <2>4, <2>5, <2>6 DEF Distinct, WalkOK, Placed
  <2>8. \A i \in DOMAIN out : \A d \in Deps[out[i]] \cap Locals :
          \E k \in DOMAIN out : k < i /\ out[k] = d
    <3>1. \A d \in Deps[n] \cap Locals : \E k \in DOMAIN was.out : was.out[k] = d
      BY <2>4 DEF Ready
    <3>2. \A k \in DOMAIN was.out : k \in DOMAIN out /\ k < Len(out) /\ out[k] = was.out[k]
      BY <1>0, <2>5
    <3>3. \A d \in Deps[n] \cap Locals : \E k \in DOMAIN out : k < Len(out) /\ out[k] = d
      BY <3>1, <3>2
    <3>4. \A i \in DOMAIN was.out : \A d \in Deps[was.out[i]] \cap Locals :
            \E k \in DOMAIN out : k < i /\ out[k] = d
      BY <1>0, <3>2 DEF WalkOK
    <3> QED  BY <2>5, <2>6, <3>2, <3>3, <3>4
  <2>9. \A i \in 1 .. Len(rest) :
          /\ rest[i] \in Ready(was.out) /\ rest[i] \in Ready(out)
          /\ rest[i] \notin Placed(out)
    <3>1. Ready(was.out) \subseteq Ready(out)
      BY <2>6 DEF Ready, Placed
    <3>2. \A i \in 1 .. Len(rest) : rest[i] # n
      BY <1>0, <2>3 DEF WalkOK, Distinct
    <3> QED  BY <1>0, <2>3, <2>6, <3>1, <3>2 DEF WalkOK
  <2>10. \A i \in DOMAIN new :
          /\ new[i] \in Ready(out) /\ new[i] \notin Placed(out)
          /\ new[i] \notin Ready(was.out)
    <3> SUFFICES ASSUME NEW i \in DOMAIN new
                 PROVE  /\ new[i] \in Ready(out) /\ new[i] \notin Placed(out)
                        /\ new[i] \notin Ready(was.out)
      OBVIOUS
    <3>1. new[i] \in Ready(out) /\ n \in Deps[new[i]] \cap Locals /\ new[i] \in Locals
      BY <2>2, <2>3 DEF joins
    <3>2. new[i] \notin Ready(was.out)
      BY <2>4, <3>1 DEF Ready, Placed
    <3>3. new[i] # n
      BY <2>4, <3>2
    <3>4. new[i] \notin Placed(was.out)
      <4> SUFFICES ASSUME NEW k \in DOMAIN was.out, was.out[k] = new[i] PROVE FALSE
        BY DEF Placed
      <4>1. \A d \in Deps[new[i]] \cap Locals : d \in Placed(was.out)
        BY <1>0 DEF WalkOK, Placed
      <4> QED  BY <2>4, <3>1, <4>1
    <3> QED  BY <2>6, <3>1, <3>2, <3>3, <3>4
  <2> HIDE DEF new, rest
  <2>11. /\ ready \in Seq(Locals) /\ DOMAIN ready = 1 .. Len(ready)
         /\ DOMAIN new = 1 .. Len(new) /\ Len(rest) \in Nat /\ Len(new) \in Nat
         /\ \A i \in DOMAIN ready :
              \/ i \in 1 .. Len(rest) /\ ready[i] = rest[i]
              \/ i - Len(rest) \in DOMAIN new /\ ready[i] = new[i - Len(rest)]
    BY <2>2, <2>3
  <2>12. \A i \in DOMAIN ready : ready[i] \in Ready(out) /\ ready[i] \notin Placed(out)
    <3> HIDE DEF ready
    <3> QED  BY <2>9, <2>10, <2>11
  <2>13. Distinct(ready)
    <3>2. DOMAIN rest = 1 .. Len(rest)
      BY <2>3
    <3>1. Distinct(rest)
      <4>1. Distinct(was.ready)
        BY <1>0 DEF WalkOK
      <4>2. SUFFICES ASSUME NEW i \in 1 .. Len(rest), NEW k \in 1 .. Len(rest),
                            rest[i] = rest[k]
                     PROVE  i = k
        BY <3>2 DEF Distinct
      <4>3. i + 1 = k + 1
        BY <2>3, <4>1, <4>2 DEF Distinct
      <4> QED  BY <2>11, <4>3
    <3> HIDE DEF ready
    <3> SUFFICES ASSUME NEW i \in DOMAIN ready, NEW k \in DOMAIN ready, ready[i] = ready[k]
                 PROVE  i = k
      BY DEF Distinct
    <3>3. i \in Int /\ k \in Int
      BY <2>11
    <3>4. CASE i \in 1 .. Len(rest) /\ k \in 1 .. Len(rest)
      BY <2>11, <3>1, <3>2, <3>4 DEF Distinct
    <3>5. CASE i - Len(rest) \in DOMAIN new /\ k - Len(rest) \in DOMAIN new
      <4>1. new[i - Len(rest)] = new[k - Len(rest)]
        BY <2>11, <3>5
      <4>2. i - Len(rest) = k - Len(rest)
        BY <2>2, <3>5, <4>1 DEF Distinct
      <4> QED  BY <2>11, <3>3, <4>2
    <3> QED  BY <2>9, <2>10, <2>11, <3>4, <3>5
  <2>14. WalkOK([ready |-> ready, out |-> out])
    <3> HIDE DEF ready
    <3> QED  BY <2>7, <2>8, <2>12, <2>13 DEF WalkOK
  <2> HIDE DEF ready
  <2> QED  BY <2>1, <2>5, <2>11, <2>14 DEF Walks
<1> QED  BY <1>1, <1>2

\* The order of a batch is one of its items, each once, and after all of them
\* that it depends on.
LEMMA OrderIs ==
  /\ TopologicalNames(Items) \in Seq(Locals)
  /\ \E r \in Walks : TopologicalNames(Items) = r.out
<1> DEFINE N == Len(Items)
           a == [ready |-> Kept(Items, Ready(<<>>)), out |-> <<>>]
           step == [n \in 1 .. N |-> [r \in Walks |-> Walked(Items, r)]]
           walk == CHOOSE walk : walk = [n \in 0 .. Len(Items) |->
                                           IF n = 0 THEN a ELSE Walked(Items, walk[n - 1])]
<1>0. N \in Nat
  BY ItemsAre
<1>1. a \in Walks
  <2> DEFINE new == Kept(Items, Ready(<<>>))
  <2>1. /\ new \in Seq(Locals) /\ Distinct(new)
        /\ \A i \in DOMAIN new : new[i] \in Ready(<<>>)
    BY ItemsAre, KeptHas
  <2> HIDE DEF new
  <2>2. WalkOK([ready |-> new, out |-> <<>>])
    BY <2>1 DEF WalkOK, Distinct, Placed
  <2> QED  BY <2>1, <2>2 DEF Walks, new
<1> HIDE DEF a
<1>2. \E w : w = [n \in 0 .. N |-> IF n = 0 THEN a ELSE Walked(Items, w[n - 1])]
  <2>1. \A n \in 1 .. N, r \in Walks : step[n][r] = Walked(Items, r)
    OBVIOUS
  <2> HIDE DEF step
  <2>2. StaysIn(step, N, Walks)
    BY <2>1, WalkGoesOn DEF StaysIn
  <2>3. PICK f \in [0 .. N -> Walks] : Folds(f, N, a, step)
    <3> HIDE DEF N
    <3> QED  BY <1>0, <1>1, <2>2, Fold
  <2>4. \A n \in 0 .. N : n = 0 \/ (n \in 1 .. N /\ n - 1 \in 0 .. N)
    BY <1>0
  <2>5. \A n \in 0 .. N : n # 0 => f[n] = Walked(Items, f[n - 1])
    BY <2>1, <2>3, <2>4 DEF Folds
  <2>6. f[0] = a
    BY <2>3 DEF Folds
  <2>7. f = [n \in 0 .. N |-> IF n = 0 THEN a ELSE Walked(Items, f[n - 1])]
    BY <2>3, <2>5, <2>6
  <2> QED  BY <2>7
<1>3. walk = [n \in 0 .. N |-> IF n = 0 THEN a ELSE Walked(Items, walk[n - 1])]
  BY <1>2
<1>4. TopologicalNames(Items) = walk[N].out
  BY DEF TopologicalNames, a
<1> HIDE DEF walk
<1>5. walk[0] = a /\ \A n \in 1 .. N : walk[n] = Walked(Items, walk[n - 1])
  <2>1. 0 \in 0 .. N /\ \A n \in 1 .. N : n \in 0 .. N /\ n # 0
    BY <1>0
  <2> QED  BY <1>3, <2>1
<1>6. walk[N] \in Walks
  <2> DEFINE T == {n \in 0 .. N : walk[n] \in Walks}
  <2>1. 0 \in T
    <3>1. 0 \in 0 .. N
      BY <1>0
    <3> QED  BY <1>1, <1>5, <3>1
  <2>2. \A n \in 1 .. N : n - 1 \in T => n \in T
    <3>1. \A n \in 1 .. N : n \in 0 .. N
      BY <1>0
    <3> QED  BY <1>5, <3>1, WalkGoesOn
  <2>3. \A n \in 0 .. N : n \in T
    <3> HIDE DEF T, N
    <3> QED  BY <1>0, <2>1, <2>2, UpTo
  <2>4. N \in 0 .. N
    BY <1>0
  <2> QED  BY <2>3, <2>4
<1> QED  BY <1>4, <1>6 DEF Walks

-----------------------------------------------------------------------------
(* No row is failed for nothing.                                           *)

\* No job is submitted after one that waits for it, unless the two are items of
\* the batch; and none is waited for by a single job while it is yet to come.
SinglesInOrder ==
  \A j, d \in Jobs :
    d \in Deps[j] /\ rows[j].status # "new" /\ ~({d, j} \subseteq Locals) =>
      ~YetToCome(d) /\ (rows[d].status = "new" => rows'[d].status = "new")

\* What is failed, cancelled or deleted is doomed, for ever.
Doomed ==
  \A j \in Jobs : rows[j].status \in {"failed", "cancelled", "deleted"} => j \in doomed

\* The items that are yet to come are in the order of their dependencies, and no
\* item that was enqueued waits for one of them.
InTodo(d) == \E n \in DOMAIN batch.todo : batch.todo[n] = d
Ahead ==
  /\ batch.todo \in Seq(Locals)
  /\ \A m, n \in DOMAIN batch.todo : batch.todo[n] \in Deps[batch.todo[m]] => n < m
  /\ batch.step = "submit" =>
       \A j \in Locals : rows[j].status # "new" => \A d \in Deps[j] : ~InTodo(d)

\* The reasons a worker has to fail a row.
Missing(j) == \E d \in Deps[j] : rows[d].status = "new"
Hopeless(j) == j \in Ancestors(j) \/ Ancestors(j) \cap doomed # {}
GateReason ==
  \A w \in Workers :
    /\ gate[w].step = "deps" => gate[w].todo \subseteq Deps[gate[w].job]
    /\ gate[w].step \in {"fail", "failing"} =>
         Missing(gate[w].job) \/ Hopeless(gate[w].job)

\* An item, or an earlier job with its key.
Keyed(j) == \E i \in Locals : j = i \/ (Idem[j] = Idem[i] /\ Idem[i] # NoKey)
Batched == \A n \in DOMAIN batch.ids : Keyed(batch.ids[n])

\* A cancel is of a job that somebody asked for, and goes on to what waits for it.
Below(r, k) == r.root \in Ancestors(k)
Begun(r) == \/ r.step \in {"result", "list", "child", "claim", "fail"}
            \/ r.stack # <<>> \/ r.job # r.root
CallReason(r) ==
  /\ (\E c \in Callers : r.root \in Calls[c]) \/ (batch.step # "submit" /\ Keyed(r.root))
  /\ r.job = r.root \/ Below(r, r.job)
  /\ Begun(r) => r.root \in doomed
  /\ r.step = "status" => rows[r.job].status # "new"
  /\ \A n \in DOMAIN r.stack : \A k \in r.stack[n] : Below(r, k)
CallReasons == \A c \in Callers : call[c].step # "idle" => CallReason(call[c])

RInv ==
  /\ DInv /\ Submitted /\ Doomed /\ Ahead /\ GateReason /\ Batched /\ CallReasons

\* What is waited for is waited for in turn.
LEMMA AncestorsAre ==
  ASSUME NEW j \in Jobs
  PROVE  /\ Deps[j] \subseteq Ancestors(j) /\ Earlier(j) \subseteq Ancestors(j)
         /\ Ancestors(j) \subseteq Jobs
         /\ \A k \in Ancestors(j) : Ancestors(k) \subseteq Ancestors(j)
<1>1. \A k \in Jobs : WaitsFor(k) = Deps[k] \cup Earlier(k) /\ WaitsFor(k) \subseteq Jobs
  BY DepsAssumption DEF WaitsFor, Earlier
<1> HIDE DEF WaitsFor
<1>2. WaitsFor(j) \subseteq Ancestors(j)
  BY <1>1 DEF Ancestors
<1>3. ASSUME NEW k \in Ancestors(j), NEW a \in Ancestors(k)
      PROVE  a \in Ancestors(j)
  <2>1. SUFFICES ASSUME NEW S \in SUBSET Jobs, WaitsFor(j) \subseteq S,
                        \A i \in S : WaitsFor(i) \subseteq S
                 PROVE  a \in S
    BY <1>3 DEF Ancestors
  <2>2. k \in S
    BY <1>3, <2>1 DEF Ancestors
  <2> QED  BY <1>3, <2>1, <2>2 DEF Ancestors
<1>4. Ancestors(j) \subseteq Jobs
  BY DEF Ancestors
<1> QED  BY <1>1, <1>2, <1>3, <1>4

\* _depends_on_cycle walks among the ancestors.
LEMMA WalkIn ==
  ASSUME NEW j \in Jobs
  PROVE  WalkFrom(j) \subseteq Ancestors(j)
<1> DEFINE N == Cardinality(Jobs)
           V == SUBSET Ancestors(j)
           step == [n \in 1 .. N |-> [S \in V |-> Reach(S)]]
           walk == CHOOSE walk : walk = [n \in 0 .. Cardinality(Jobs) |->
                                           IF n = 0 THEN Deps[j] ELSE Reach(walk[n - 1])]
<1>0. N \in Nat
  BY JobsAssumption, FS_CardinalityType
<1>1. Deps[j] \in V
  BY AncestorsAre
<1>2. ASSUME NEW S \in V PROVE Reach(S) \in V
  <2>1. \A k \in S : k \in Jobs /\ Deps[k] \subseteq Ancestors(j)
    BY <1>2, AncestorsAre
  <2> QED  BY <1>2, <2>1 DEF Reach
<1>3. \E w \in [0 .. N -> V] :
        w = [n \in 0 .. N |-> IF n = 0 THEN Deps[j] ELSE Reach(w[n - 1])]
  <2> HIDE DEF V
  <2>1. \A n \in 1 .. N, S \in V : step[n][S] = Reach(S)
    OBVIOUS
  <2> HIDE DEF step
  <2>2. StaysIn(step, N, V)
    BY <1>2, <2>1 DEF StaysIn
  <2>3. PICK f \in [0 .. N -> V] : Folds(f, N, Deps[j], step)
    <3> HIDE DEF N
    <3> QED  BY <1>0, <1>1, <2>2, Fold
  <2>4. \A n \in 0 .. N : n = 0 \/ (n \in 1 .. N /\ n - 1 \in 0 .. N)
    <3> HIDE DEF N
    <3> QED  BY <1>0
  <2>5. \A n \in 0 .. N : n # 0 => f[n] = Reach(f[n - 1])
    BY <2>1, <2>3, <2>4 DEF Folds
  <2>6. f[0] = Deps[j]
    BY <2>3 DEF Folds
  <2>7. f = [n \in 0 .. N |-> IF n = 0 THEN Deps[j] ELSE Reach(f[n - 1])]
    BY <2>3, <2>5, <2>6
  <2> QED  BY <2>7
<1>4. walk = [n \in 0 .. N |-> IF n = 0 THEN Deps[j] ELSE Reach(walk[n - 1])]
  BY <1>3
<1>5. WalkFrom(j) = walk[N]
  BY DEF WalkFrom
<1> HIDE DEF walk, V
<1>6. walk[0] = Deps[j] /\ \A n \in 1 .. N : walk[n] = Reach(walk[n - 1])
  <2>1. 0 \in 0 .. N /\ \A n \in 1 .. N : n \in 0 .. N /\ n # 0
    BY <1>0
  <2> QED  BY <1>4, <2>1
<1>7. walk[N] \in V
  <2> DEFINE T == {n \in 0 .. N : walk[n] \in V}
  <2>1. 0 \in T
    BY <1>0, <1>1, <1>6
  <2>2. \A n \in 1 .. N : n - 1 \in T => n \in T
    <3>1. \A n \in 1 .. N : n \in 0 .. N
      BY <1>0
    <3> QED  BY <1>2, <1>6, <3>1
  <2>3. \A n \in 0 .. N : n \in T
    <3> HIDE DEF T, N
    <3> QED  BY <1>0, <2>1, <2>2, UpTo
  <2> QED  BY <1>0, <2>3
<1> QED  BY <1>5, <1>7 DEF V

\* Whatever is failed, cancelled or deleted is remembered.
LEMMA DoomedStep == DInv /\ Doomed /\ [Next]_vars => doomed \subseteq doomed' /\ Doomed'
<1> SUFFICES ASSUME DInv, Doomed, [Next]_vars PROVE doomed \subseteq doomed' /\ Doomed'
  OBVIOUS
<1>0. rows \in [Jobs -> Row]
  BY DEF DInv, StoreInv, StoreTypeOK
<1>1. CASE Remember
  BY <1>1 DEF Remember, Doomed
<1>2. CASE UNCHANGED <<rows, doomed>>
  BY <1>2 DEF Doomed
<1>3. ASSUME NEW j \in Jobs, Enqueue(j), doomed' = doomed
      PROVE  doomed \subseteq doomed' /\ Doomed'
  <2>1. \A k \in Jobs : rows'[k].status \in {rows[k].status, "queued"}
    BY <1>0, <1>3 DEF Enqueue, Absent
  <2> QED  BY <1>3, <2>1 DEF Doomed
<1>4. CASE PassTime
  <2>1. \A k \in Jobs : rows'[k].status = rows[k].status
    BY <1>0, <1>4 DEF PassTime, Tick, Row
  <2> QED  BY <1>4, <2>1 DEF PassTime, Doomed
<1>5. ASSUME NEW w \in Workers, GateStep(w) \/ \E j \in Jobs : TaskStep(w, j)
      PROVE  Remember \/ UNCHANGED <<rows, doomed>>
  BY <1>5
  DEF GateStep, Poll, StartRow, ReadDep, ReadPeers, TakeSlots, Dispatch, FailClaim,
      FailStore, TaskStep, TaskClaim, TaskEnd, storeVars
<1>6. ASSUME NEW c \in Callers, CallStep(c) \/ \E j \in Jobs : Cancel(c, j)
      PROVE  Remember \/ UNCHANGED <<rows, doomed>>
  BY <1>6
  DEF CallStep, ReadRow, WriteStatus, WriteResult, ListChildren, NextChild,
      ClaimChild, FailChild, EndCall, Cancel, storeVars
<1>7. ASSUME NEW j \in Jobs, Submit(j)
      PROVE  Enqueue(j) /\ doomed' = doomed
  BY <1>7 DEF Submit
<1>8. CASE SubmitItem
  BY <1>2, <1>3, <1>8 DEF SubmitItem, storeVars
<1>9. CASE RollBack \/ ItemRefused \/ UNCHANGED vars
  BY <1>2, <1>9 DEF RollBack, ItemRefused, vars, storeVars
<1> QED
  BY <1>1, <1>2, <1>3, <1>4, <1>5, <1>6, <1>7, <1>8, <1>9 DEF Next, SubmitStep

LEMMA AheadFirst == Init => Ahead
<1> SUFFICES ASSUME Init PROVE Ahead
  OBVIOUS
<1>1. PICK r \in Walks : batch.todo = r.out /\ batch.todo \in Seq(Locals)
  BY OrderIs DEF Init
<1>2. ASSUME NEW m \in DOMAIN batch.todo, NEW n \in DOMAIN batch.todo,
             batch.todo[n] \in Deps[batch.todo[m]]
      PROVE  n < m
  <2>1. batch.todo[n] \in Locals
    BY <1>1
  <2>2. \E k \in DOMAIN r.out : k < m /\ r.out[k] = batch.todo[n]
    BY <1>1, <1>2, <2>1 DEF Walks, WalkOK
  <2> QED  BY <1>1, <2>2 DEF Walks, WalkOK, Distinct
<1>3. \A j \in Locals : rows[j].status = "new"
  BY ItemsAssumption DEF Init, StoreInit, Absent, Locals
<1> QED  BY <1>1, <1>2, <1>3 DEF Ahead

\* Rows of items that appear do so with the batch.
LEMMA ItemAppears ==
  ASSUME DInv, [Next]_vars, ~SubmitItem, NEW j \in Locals, rows[j].status = "new"
  PROVE  rows'[j].status = "new"
<1>0. j \in Jobs /\ rows \in [Jobs -> Row]
  BY ItemsAssumption DEF Locals, DInv, StoreInv, StoreTypeOK
<1>1. CASE NoneAppears
  BY <1>0, <1>1 DEF NoneAppears
<1>2. ASSUME NEW k \in Jobs, Submit(k) PROVE rows'[j].status = "new"
  BY <1>0, <1>2 DEF Submit, Enqueue
<1> QED  BY <1>1, <1>2, Appear

LEMMA BatchTodo ==
  ASSUME DInv, [Next]_vars, ~SubmitItem
  PROVE  batch'.todo = batch.todo /\ (batch'.step = "submit" => batch.step = "submit")
<1>0. batch = [step |-> batch.step, todo |-> batch.todo, ids |-> batch.ids]
  BY DEF DInv, CallsTyped
<1>1. CASE RollBack \/ ItemRefused
  BY <1>0, <1>1 DEF RollBack, ItemRefused
<1>2. ASSUME NEW w \in Workers, GateStep(w) \/ \E j \in Jobs : TaskStep(w, j)
      PROVE  UNCHANGED batch
  BY <1>2 DEF GateStep, Poll, StartRow, ReadDep, ReadPeers, TakeSlots, Dispatch,
     FailClaim, FailStore, TaskStep, TaskClaim, TaskEnd, callVars
<1>3. ASSUME NEW c \in Callers, CallStep(c) \/ \E j \in Jobs : Cancel(c, j)
      PROVE  UNCHANGED batch
  BY <1>3 DEF CallStep, ReadRow, WriteStatus, WriteResult, ListChildren, NextChild,
     ClaimChild, FailChild, EndCall, Cancel
<1>4. CASE (\E j \in Jobs : Submit(j)) \/ PassTime \/ UNCHANGED vars
  BY <1>4 DEF Submit, PassTime, vars, callVars
<1> QED  BY <1>1, <1>2, <1>3, <1>4 DEF Next, SubmitStep

LEMMA AheadStep == DInv /\ Ahead /\ [Next]_vars => Ahead'
<1> SUFFICES ASSUME DInv, Ahead, [Next]_vars PROVE Ahead'
  OBVIOUS
<1>0. /\ batch = [step |-> batch.step, todo |-> batch.todo, ids |-> batch.ids]
      /\ batch.todo \in Seq(Locals) /\ Locals \subseteq Jobs /\ rows \in [Jobs -> Row]
      /\ \A m, n \in DOMAIN batch.todo : batch.todo[n] \in Deps[batch.todo[m]] => n < m
  BY ItemsAssumption DEF DInv, CallsTyped, Ahead, Locals, StoreInv, StoreTypeOK
<1>1. CASE ~SubmitItem
  <2>1. batch'.todo = batch.todo /\ (batch'.step = "submit" => batch.step = "submit")
    BY <1>1, BatchTodo
  <2>2. \A j \in Locals : rows'[j].status # "new" => rows[j].status # "new"
    BY <1>1, ItemAppears
  <2> QED  BY <2>1, <2>2 DEF Ahead, InTodo
<1>2. CASE SubmitItem
  <2> DEFINE todo == batch.todo
             rest == Tail(todo)
  <2>1. /\ batch.step = "submit" /\ todo # <<>>
        /\ batch'.step = "submit" /\ batch'.todo = rest
        /\ Enqueue(Head(todo)) \/ UNCHANGED rows
    BY <1>0, <1>2 DEF SubmitItem, storeVars
  <2>2. /\ rest \in Seq(Locals) /\ Head(todo) = todo[1] /\ 1 \in DOMAIN todo
        /\ todo[1] \in Locals
        /\ \A n \in DOMAIN rest : n + 1 \in DOMAIN todo /\ rest[n] = todo[n + 1]
        /\ DOMAIN rest = 1 .. Len(rest) /\ Len(rest) \in Nat
    BY <1>0, <2>1
  <2> HIDE DEF rest
  <2>3. \A m, n \in DOMAIN rest : rest[n] \in Deps[rest[m]] => n < m
    <3> SUFFICES ASSUME NEW m \in DOMAIN rest, NEW n \in DOMAIN rest,
                        rest[n] \in Deps[rest[m]]
                 PROVE  n < m
      OBVIOUS
    <3>1. n + 1 < m + 1
      BY <1>0, <2>2
    <3> QED  BY <2>2, <3>1
  <2>4. ASSUME NEW j \in Locals, rows'[j].status # "new", NEW d \in Deps[j],
               NEW n \in DOMAIN rest, rest[n] = d
        PROVE  FALSE
    <3>1. j = todo[1] \/ rows[j].status # "new"
      BY <1>0, <2>1, <2>2, <2>4 DEF Enqueue
    <3>2. CASE j = todo[1]
      <4>1. n + 1 < 1
        BY <1>0, <2>2, <2>4, <3>2
      <4> QED  BY <2>2, <4>1
    <3>3. CASE rows[j].status # "new"
      BY <2>1, <2>2, <2>4, <3>3 DEF Ahead, InTodo
    <3> QED  BY <3>1, <3>2, <3>3
  <2> QED  BY <2>1, <2>2, <2>3, <2>4 DEF Ahead, InTodo
<1> QED  BY <1>1, <1>2

\* A dependency that is missing stays missing.
LEMMA MissingStays ==
  ASSUME DInv, Ahead, [Next]_vars, [SinglesInOrder]_vars,
         NEW j \in Jobs, rows[j].status # "new", NEW d \in Deps[j],
         rows[d].status = "new"
  PROVE  rows'[d].status = "new"
<1>0. d \in Jobs /\ Locals \subseteq Jobs
  BY DepsAssumption, ItemsAssumption DEF Locals
<1>1. CASE UNCHANGED vars
  BY <1>1 DEF vars, storeVars
<1>2. CASE SinglesInOrder /\ ~({d, j} \subseteq Locals)
  BY <1>0, <1>2 DEF SinglesInOrder
<1>3. CASE {d, j} \subseteq Locals
  <2>1. CASE ~SubmitItem
    BY <1>3, <2>1, ItemAppears
  <2>2. CASE SubmitItem
    <3>1. /\ ~InTodo(d) /\ (Enqueue(Head(batch.todo)) \/ UNCHANGED rows)
          /\ batch.todo # <<>>
      BY <1>3, <2>2 DEF SubmitItem, Ahead, storeVars
    <3>2. Head(batch.todo) # d
      BY <3>1 DEF InTodo, Ahead
    <3> QED  BY <1>0, <3>1, <3>2 DEF Enqueue, DInv, StoreInv, StoreTypeOK
  <2> QED  BY <2>1, <2>2
<1> QED  BY <1>1, <1>2, <1>3

\* How a row gets to where it is failed.
GateMove(was, now) ==
  \/ now = was
  \/ now.step \notin {"deps", "fail", "failing"}
  \/ now.job = was.job /\ was.step = "fail" /\ now.step = "failing"
  \/ /\ now.step \in {"deps", "fail"} /\ now.todo = Deps[now.job]
     /\ now.step = "fail" => InCycle(now.job)
  \/ /\ now.job = was.job /\ was.step = "deps"
     /\ \/ now.step = "deps" /\ now.todo \subseteq was.todo
        \/ now.step = "fail" /\ \E d \in was.todo : Dead(d)
  \/ /\ now.job = was.job /\ was.step = "label" /\ now.step = "fail"
     /\ \E p \in Earlier(was.job) : Is(p, {"failed", "cancelled"})

LEMMA GateBecomes ==
  ASSUME DInv, [Next]_vars, NEW w \in Workers
  PROVE  GateMove(gate[w], gate'[w])
<1>0. /\ gate \in [Workers -> Gate] /\ gate[w] \in Gate
      /\ NoGate.step = "idle"
  BY DEF DInv, Typed, NoGate
<1>1. CASE UNCHANGED gate
  BY <1>1 DEF GateMove
<1>2. ASSUME NEW v \in Workers, NEW g, gate' = [gate EXCEPT ![v] = g],
             GateMove(gate[v], g)
      PROVE  GateMove(gate[w], gate'[w])
  <2>1. CASE v = w
    BY <1>0, <1>2, <2>1
  <2>2. CASE v # w
    <3>1. gate'[w] = gate[w]
      BY <1>0, <1>2, <2>2
    <3> QED  BY <3>1 DEF GateMove
  <2> QED  BY <2>1, <2>2
<1>3. ASSUME NEW v \in Workers, NEW s, gate' = [gate EXCEPT ![v] = [gate[v] EXCEPT !.step = s]],
             \/ s \in {"label", "slots", "permit"}
             \/ s = "fail" /\ gate[v].step = "deps" /\ \E d \in gate[v].todo : Dead(d)
             \/ s = "fail" /\ gate[v].step = "label"
                /\ \E p \in Earlier(gate[v].job) : Is(p, {"failed", "cancelled"})
      PROVE  GateMove(gate[w], gate'[w])
  <2> DEFINE g == [gate[v] EXCEPT !.step = s]
  <2>1. g.step = s /\ g.job = gate[v].job
    BY <1>0 DEF Gate
  <2> HIDE DEF g
  <2>2. GateMove(gate[v], g)
    BY <1>3, <2>1 DEF GateMove
  <2>3. gate' = [gate EXCEPT ![v] = g]
    BY <1>3 DEF g
  <2> QED  BY <1>2, <2>2, <2>3
<1>4. ASSUME NEW v \in Workers, SetGate(v, NoGate)
      PROVE  GateMove(gate[w], gate'[w])
  <2>1. GateMove(gate[v], NoGate)
    BY <1>0 DEF GateMove
  <2> QED  BY <1>2, <1>4, <2>1 DEF SetGate
<1>5. ASSUME NEW v \in Workers, StartRow(v)
      PROVE  GateMove(gate[w], gate'[w])
  <2> DEFINE j == Head(listed[v])
             to == CASE Deps[j] = {} -> "label"
                     [] InCycle(j) -> "fail"
                     [] OTHER -> "deps"
             g == [step |-> to, job |-> j, todo |-> Deps[j], token |-> NoToken]
  <2>1. gate' = gate \/ gate' = [gate EXCEPT ![v] = g]
    BY <1>5 DEF StartRow, SetGate
  <2>2. to \in {"label", "fail", "deps"} /\ (to = "fail" => InCycle(j))
    OBVIOUS
  <2> HIDE DEF to, j
  <2>3. g.step = to /\ g.job = j /\ g.todo = Deps[j]
    OBVIOUS
  <2> HIDE DEF g
  <2>4. GateMove(gate[v], g)
    BY <2>2, <2>3 DEF GateMove
  <2> QED  BY <1>1, <1>2, <2>1, <2>4
<1>6. ASSUME NEW v \in Workers, ReadDep(v)
      PROVE  GateMove(gate[w], gate'[w])
  <2>1. gate[v].step = "deps" /\ gate[v] \in Gate
    BY <1>0, <1>6 DEF ReadDep
  <2>2. PICK d \in gate[v].todo :
          \/ Dead(d) /\ SetGate(v, [gate[v] EXCEPT !.step = "fail"])
          \/ SetGate(v, NoGate)
          \/ SetGate(v, [gate[v] EXCEPT !.step = "label", !.todo = {}])
          \/ SetGate(v, [gate[v] EXCEPT !.todo = @ \ {d}])
    BY <1>6 DEF ReadDep
  <2>3. CASE Dead(d) /\ SetGate(v, [gate[v] EXCEPT !.step = "fail"])
    BY <1>3, <2>1, <2>3 DEF SetGate
  <2>4. CASE SetGate(v, [gate[v] EXCEPT !.step = "label", !.todo = {}])
    <3> DEFINE g == [gate[v] EXCEPT !.step = "label", !.todo = {}]
    <3>1. g.step = "label"
      BY <2>1 DEF Gate
    <3> HIDE DEF g
    <3>2. GateMove(gate[v], g)
      BY <3>1 DEF GateMove
    <3>3. gate' = [gate EXCEPT ![v] = g]
      BY <2>4 DEF SetGate, g
    <3> QED  BY <1>2, <3>2, <3>3
  <2>5. CASE SetGate(v, [gate[v] EXCEPT !.todo = @ \ {d}])
    <3> DEFINE g == [gate[v] EXCEPT !.todo = @ \ {d}]
    <3>1. g.step = "deps" /\ g.todo \subseteq gate[v].todo /\ g.job = gate[v].job
      BY <2>1 DEF Gate
    <3> HIDE DEF g
    <3>2. GateMove(gate[v], g)
      BY <2>1, <3>1 DEF GateMove
    <3>3. gate' = [gate EXCEPT ![v] = g]
      BY <2>5 DEF SetGate, g
    <3> QED  BY <1>2, <3>2, <3>3
  <2> QED  BY <1>4, <2>2, <2>3, <2>4, <2>5
<1>7. ASSUME NEW v \in Workers, ReadPeers(v) \/ TakeSlots(v) \/ Dispatch(v) \/ FailStore(v)
      PROVE  GateMove(gate[w], gate'[w])
  <2>1. \/ SetGate(v, NoGate)
        \/ SetGate(v, [gate[v] EXCEPT !.step = "slots"])
        \/ SetGate(v, [gate[v] EXCEPT !.step = "permit"])
        \/ /\ gate[v].step = "label"
           /\ \E p \in Earlier(gate[v].job) : Is(p, {"failed", "cancelled"})
           /\ SetGate(v, [gate[v] EXCEPT !.step = "fail"])
    BY <1>7 DEF ReadPeers, TakeSlots, Dispatch, FailStore
  <2> QED  BY <1>3, <1>4, <2>1 DEF SetGate
<1>8. ASSUME NEW v \in Workers, FailClaim(v)
      PROVE  GateMove(gate[w], gate'[w])
  <2>1. /\ gate[v].step = "fail" /\ gate[v] \in Gate
        /\ \/ SetGate(v, NoGate)
           \/ SetGate(v, [gate[v] EXCEPT !.step = "failing", !.token = nextToken])
    BY <1>0, <1>8 DEF FailClaim
  <2>2. CASE SetGate(v, [gate[v] EXCEPT !.step = "failing", !.token = nextToken])
    <3> DEFINE g == [gate[v] EXCEPT !.step = "failing", !.token = nextToken]
    <3>1. g.step = "failing" /\ g.job = gate[v].job
      BY <2>1 DEF Gate
    <3> HIDE DEF g
    <3>2. GateMove(gate[v], g)
      BY <2>1, <3>1 DEF GateMove
    <3>3. gate' = [gate EXCEPT ![v] = g]
      BY <2>2 DEF SetGate, g
    <3> QED  BY <1>2, <3>2, <3>3
  <2> QED  BY <1>4, <2>1, <2>2
<1>9. ASSUME NEW v \in Workers, Poll(v) \/ \E j \in Jobs : TaskStep(v, j)
      PROVE  UNCHANGED gate
  BY <1>9 DEF Poll, TaskStep, TaskClaim, TaskEnd
<1>10. ASSUME NEW c \in Callers, CallStep(c) \/ \E j \in Jobs : Cancel(c, j)
       PROVE  UNCHANGED gate
  BY <1>10 DEF CallStep, ReadRow, WriteStatus, WriteResult, ListChildren, NextChild,
     ClaimChild, FailChild, EndCall, Cancel, procVars
<1>11. CASE \/ \E j \in Jobs : Submit(j)
            \/ SubmitStep \/ ItemRefused \/ PassTime \/ UNCHANGED vars
  BY <1>1, <1>11 DEF Submit, SubmitStep, SubmitItem, RollBack, ItemRefused, PassTime,
     vars, procVars
<1>12. ASSUME NEW v \in Workers, GateStep(v)
       PROVE  GateMove(gate[w], gate'[w])
  BY <1>1, <1>5, <1>6, <1>7, <1>8, <1>9, <1>12 DEF GateStep
<1> QED  BY <1>1, <1>9, <1>10, <1>11, <1>12 DEF Next

LEMMA GateReasonStep ==
  ASSUME DInv, Submitted, Doomed, Ahead, GateReason, [Next]_vars, [SinglesInOrder]_vars
  PROVE  GateReason'
<1> DEFINE Lasts(j) == \/ \E d \in Deps[j] : rows'[d].status = "new"
                       \/ j \in Ancestors(j) \/ Ancestors(j) \cap doomed' # {}
<1>1. doomed \subseteq doomed'
  BY DoomedStep
<1>2. ASSUME NEW j \in Jobs, rows[j].status # "new", Missing(j) \/ Hopeless(j)
      PROVE  Lasts(j)
  <2>1. CASE Missing(j)
    BY <1>2, <2>1, MissingStays DEF Missing
  <2>2. CASE Hopeless(j)
    BY <1>1, <2>2 DEF Hopeless
  <2> QED  BY <1>2, <2>1, <2>2
<1> HIDE DEF Lasts
<1>3. ASSUME NEW w \in Workers
      PROVE  /\ gate'[w].step = "deps" => gate'[w].todo \subseteq Deps[gate'[w].job]
             /\ gate'[w].step \in {"fail", "failing"} => Lasts(gate'[w].job)
  <2> DEFINE was == gate[w]
             now == gate'[w]
  <2>0. /\ now.job \in Jobs /\ was.job \in Jobs
        /\ was.step # "idle" => rows[was.job].status # "new"
        /\ was.step = "deps" => was.todo \subseteq Deps[was.job]
        /\ was.step \in {"fail", "failing"} => Missing(was.job) \/ Hopeless(was.job)
    BY StepDInv DEF DInv, Typed, Gate, Submitted, GateReason
  <2>1. GateMove(was, now)
    BY GateBecomes
  <2> HIDE DEF now, was
  <2>2. ASSUME now.step \in {"fail", "failing"} PROVE Lasts(now.job)
    <3>1. CASE was.step \in {"fail", "failing"} /\ now.job = was.job
      BY <1>2, <2>0, <3>1
    <3>2. CASE InCycle(now.job)
      BY <2>0, <3>2, WalkIn DEF InCycle, Lasts
    <3>3. CASE /\ now.job = was.job /\ was.step = "deps"
               /\ \E d \in was.todo : Dead(d)
      <4>1. PICK d \in was.todo : Dead(d)
        BY <3>3
      <4>2. d \in Deps[was.job] /\ d \in Jobs /\ d \in Ancestors(was.job)
        BY <2>0, <3>3, <4>1, AncestorsAre
      <4>3. rows[d].status = "new" \/ d \in doomed
        BY <4>1, <4>2 DEF Dead, Exists, JobStatus, Terminal, Is, Doomed, DInv, StoreInv,
           StoreTypeOK, Row, RowStatus
      <4>4. Missing(was.job) \/ Hopeless(was.job)
        BY <4>2, <4>3 DEF Missing, Hopeless
      <4> QED  BY <1>2, <2>0, <3>3, <4>4
    <3>4. CASE /\ now.job = was.job /\ was.step = "label"
               /\ \E p \in Earlier(was.job) : Is(p, {"failed", "cancelled"})
      <4>1. PICK p \in Earlier(was.job) : Is(p, {"failed", "cancelled"})
        BY <3>4
      <4>2. p \in doomed /\ p \in Ancestors(was.job)
        BY <2>0, <4>1, AncestorsAre DEF Is, Doomed
      <4>3. Hopeless(was.job)
        BY <4>2 DEF Hopeless
      <4> QED  BY <1>2, <2>0, <3>4, <4>3
    <3> QED
      BY <2>0, <2>1, <2>2, <3>1, <3>2, <3>3, <3>4 DEF GateMove
  <2>3. now.step = "deps" => now.todo \subseteq Deps[now.job]
    BY <2>0, <2>1 DEF GateMove
  <2> QED  BY <2>2, <2>3 DEF now
<1> QED
  BY <1>3 DEF GateReason, Missing, Hopeless, Lasts, Ancestors, WaitsFor, Earlier

\* What submit_batch would remove are its items, or jobs with their keys.
LEMMA BatchedStep ==
  ASSUME DInv, Ahead, Batched, [Next]_vars
  PROVE  /\ Batched'
         /\ batch.step # "submit" => batch'.step # "submit"
<1>0. /\ batch = [step |-> batch.step, todo |-> batch.todo, ids |-> batch.ids]
      /\ batch.ids \in Seq(Jobs) /\ batch.todo \in Seq(Locals)
  BY DEF DInv, CallsTyped, Ahead
<1>1. CASE SubmitItem
  <2>1. PICK id \in Jobs :
          /\ id = Head(batch.todo) \/ id \in SameIdem(Head(batch.todo))
          /\ batch' = [batch EXCEPT !.todo = Tail(@), !.ids = Append(@, id)]
    BY <1>1 DEF SubmitItem
  <2>2. batch'.ids = Append(batch.ids, id) /\ batch.step = "submit"
    BY <1>0, <1>1, <2>1 DEF SubmitItem
  <2>3. Head(batch.todo) \in Locals
    BY <1>0, <1>1 DEF SubmitItem
  <2>4. Keyed(id)
    BY <2>1, <2>3 DEF Keyed, SameIdem
  <2>5. \A n \in DOMAIN batch'.ids :
          \/ n \in DOMAIN batch.ids /\ batch'.ids[n] = batch.ids[n]
          \/ batch'.ids[n] = id
    BY <1>0, <2>2
  <2> QED  BY <2>2, <2>4, <2>5 DEF Batched, Keyed, Locals
<1>2. CASE RollBack
  <2>1. \/ batch.ids # <<>> /\ batch'.ids = Tail(batch.ids)
        \/ batch'.ids = batch.ids
    BY <1>0, <1>2 DEF RollBack
  <2>2. \A n \in DOMAIN batch'.ids :
          \E k \in DOMAIN batch.ids : batch'.ids[n] = batch.ids[k]
    <3>1. CASE batch.ids # <<>> /\ batch'.ids = Tail(batch.ids)
      <4>1. \A n \in DOMAIN Tail(batch.ids) :
              n + 1 \in DOMAIN batch.ids /\ Tail(batch.ids)[n] = batch.ids[n + 1]
        BY <1>0, <3>1
      <4> QED  BY <3>1, <4>1
    <3>2. CASE batch'.ids = batch.ids
      BY <3>2
    <3> QED  BY <2>1, <3>1, <3>2
  <2>3. batch'.step # "submit"
    BY <1>0, <1>2 DEF RollBack
  <2> QED  BY <2>2, <2>3 DEF Batched, Keyed, Locals
<1>3. CASE ItemRefused
  BY <1>0, <1>3 DEF ItemRefused, Batched, Keyed, Locals
<1>4. CASE UNCHANGED batch
  BY <1>4 DEF Batched, Keyed, Locals
<1>5. ASSUME NEW w \in Workers, GateStep(w) \/ \E j \in Jobs : TaskStep(w, j)
      PROVE  UNCHANGED batch
  BY <1>5 DEF GateStep, Poll, StartRow, ReadDep, ReadPeers, TakeSlots, Dispatch,
     FailClaim, FailStore, TaskStep, TaskClaim, TaskEnd, callVars
<1>6. ASSUME NEW c \in Callers, CallStep(c) \/ \E j \in Jobs : Cancel(c, j)
      PROVE  UNCHANGED batch
  BY <1>6 DEF CallStep, ReadRow, WriteStatus, WriteResult, ListChildren, NextChild,
     ClaimChild, FailChild, EndCall, Cancel
<1>7. CASE (\E j \in Jobs : Submit(j)) \/ PassTime \/ UNCHANGED vars
  BY <1>4, <1>7 DEF Submit, PassTime, vars, callVars
<1> QED  BY <1>1, <1>2, <1>3, <1>4, <1>5, <1>6, <1>7 DEF Next, SubmitStep

\* What CallReason says after a step.
CallLasts(r) ==
  /\ (\E c \in Callers : r.root \in Calls[c]) \/ (batch'.step # "submit" /\ Keyed(r.root))
  /\ r.job = r.root \/ Below(r, r.job)
  /\ Begun(r) => r.root \in doomed'
  /\ r.step = "status" => rows'[r.job].status # "new"
  /\ \A n \in DOMAIN r.stack : \A k \in r.stack[n] : Below(r, k)

LEMMA ReasonLasts ==
  ASSUME DInv, Doomed, Ahead, Batched, [Next]_vars, NEW r, r.job \in Jobs, CallReason(r)
  PROVE  CallLasts(r)
<1>1. rows[r.job].status # "new" => rows'[r.job].status # "new"
  BY PeersStay
<1>2. doomed \subseteq doomed' /\ (batch.step # "submit" => batch'.step # "submit")
  BY DoomedStep, BatchedStep
<1> QED  BY <1>1, <1>2 DEF CallReason, CallLasts

\* A call goes on with the same job and the same lists of children.
LEMMA CallGoesOn ==
  ASSUME DInv, Doomed, Ahead, Batched, [Next]_vars,
         NEW r \in CallRecord, CallReason(r),
         NEW g, g.job = r.job, g.root = r.root, g.stack = r.stack,
         Begun(g) => r.root \in doomed',
         g.step = "status" => rows[r.job].status # "new"
  PROVE  CallLasts(g)
<1>1. r.job \in Jobs
  BY DEF CallRecord
<1>2. CallLasts(r)
  BY <1>1, ReasonLasts
<1>3. rows[r.job].status # "new" => rows'[r.job].status # "new"
  BY <1>1, PeersStay
<1> QED  BY <1>2, <1>3 DEF CallLasts, Below

LEMMA CallerLasts ==
  ASSUME DInv, Doomed, Ahead, Batched, CallReasons, [Next]_vars,
         NEW c \in Callers, CallStep(c), ~EndCall(c)
  PROVE  CallLasts(call'[c])
<1> DEFINE r == call[c]
<1>0. /\ r \in CallRecord /\ call \in [Callers -> CallRecord] /\ r.step # "idle"
      /\ r.job \in Jobs /\ r.root \in Jobs /\ r.stack \in Seq(SUBSET Jobs)
      /\ r.step = "child" => r.stack # <<>>
  BY DEF DInv, CallsTyped, CallRecord, CallStep, ReadRow, WriteStatus, WriteResult,
     ListChildren, NextChild, ClaimChild, FailChild, EndCall
<1>1. /\ CallReason(r) /\ doomed \subseteq doomed'
      /\ \A k \in Jobs : rows'[k].status \in {"failed", "cancelled", "deleted"} => k \in doomed'
  BY <1>0, DoomedStep DEF CallReasons, Doomed
<1>2. ASSUME NEW g, SetCall(c, g) PROVE call'[c] = g
  BY <1>0, <1>2 DEF SetCall
<1>3. ASSUME NEW s, CallMoves(c, s)
      PROVE  /\ call'[c].step = s /\ call'[c].job = r.job /\ call'[c].root = r.root
             /\ call'[c].stack = r.stack
  <2> DEFINE g == [call[c] EXCEPT !.step = s]
  <2>1. g.step = s /\ g.job = r.job /\ g.root = r.root /\ g.stack = r.stack
    BY <1>0 DEF CallRecord
  <2> HIDE DEF g
  <2>2. call'[c] = g
    BY <1>2, <1>3 DEF CallMoves, g
  <2> QED  BY <2>1, <2>2
<1> HIDE DEF r
<1>4. CASE ReadRow(c)
  <2>1. \/ CallMoves(c, "status") /\ Pending(r.job)
        \/ CallMoves(c, "end")
        \/ CallMoves(c, "list") /\ r.stack # <<>>
    BY <1>4 DEF ReadRow, r
  <2>2. Pending(r.job) => rows[r.job].status # "new"
    BY DEF Pending, Is
  <2> QED  BY <1>0, <1>1, <1>3, <2>1, <2>2, CallGoesOn DEF Begun, CallReason
<1>5. CASE WriteStatus(c)
  <2>1. /\ CallMoves(c, "result") /\ UpdateStatus(r.job, "cancelled") /\ r.step = "status"
    BY <1>5 DEF WriteStatus, r
  <2>2. rows[r.job].status # "new"
    BY <1>1, <2>1 DEF CallReason
  <2>3. rows'[r.job].status \in {"cancelled", "deleted"}
    BY <1>0, <2>1, <2>2 DEF UpdateStatus, Exists, JobStatus, Terminal, DInv, StoreInv,
       StoreTypeOK, Row, RowStatus
  <2>4. r.root \in doomed'
    BY <1>0, <1>1, <2>3 DEF CallReason, Begun
  <2> QED  BY <1>0, <1>1, <1>3, <2>1, <2>4, CallGoesOn
<1>6. CASE WriteResult(c)
  <2>1. CallMoves(c, "list") /\ r.step = "result"
    BY <1>6 DEF WriteResult, r
  <2> QED  BY <1>0, <1>1, <1>3, <2>1, CallGoesOn DEF CallReason, Begun
<1>7. CASE ClaimChild(c) \/ FailChild(c)
  <2>1. r.root \in doomed
    BY <1>1, <1>7 DEF ClaimChild, FailChild, CallReason, Begun, r
  <2>2. CASE SetCall(c, [call[c] EXCEPT !.step = "fail", !.token = nextToken])
    <3> DEFINE g == [call[c] EXCEPT !.step = "fail", !.token = nextToken]
    <3>1. g.step = "fail" /\ g.job = r.job /\ g.root = r.root /\ g.stack = r.stack
      BY <1>0 DEF CallRecord, r
    <3> HIDE DEF g
    <3>2. call'[c] = g
      BY <1>2, <2>2 DEF g
    <3> QED  BY <1>0, <1>1, <2>1, <3>1, <3>2, CallGoesOn
  <2>3. CASE CallMoves(c, "list")
    BY <1>0, <1>1, <1>3, <2>1, <2>3, CallGoesOn
  <2> QED  BY <1>7, <2>2, <2>3 DEF ClaimChild, FailChild
<1>8. CallLasts(r)
  BY <1>0, <1>1, ReasonLasts
<1>9. CASE ListChildren(c)
  <2> DEFINE stack == <<Dependents(r.job)>> \o r.stack
             g == [call[c] EXCEPT !.step = "child", !.stack = stack]
  <2>1. call'[c] = g /\ r.step = "list"
    BY <1>2, <1>9 DEF ListChildren, r
  <2>2. g.step = "child" /\ g.job = r.job /\ g.root = r.root /\ g.stack = stack
    BY <1>0 DEF CallRecord, r
  <2> HIDE DEF g
  <2>3. \A n \in DOMAIN stack :
          stack[n] = Dependents(r.job) \/ \E m \in DOMAIN r.stack : stack[n] = r.stack[m]
    BY <1>0
  <2>4. ASSUME NEW k \in Dependents(r.job) PROVE r.root \in Ancestors(k)
    <3>1. k \in Jobs /\ r.job \in Deps[k]
      BY <2>4 DEF Dependents
    <3> QED  BY <1>1, <3>1, AncestorsAre DEF CallReason, Below
  <2>5. r.root \in doomed
    BY <1>1, <2>1 DEF CallReason, Begun
  <2> HIDE DEF stack
  <2> QED  BY <1>1, <1>8, <2>1, <2>2, <2>3, <2>4, <2>5 DEF CallLasts, Below
<1>10. CASE NextChild(c)
  <2>0. r.step = "child" /\ r.stack # <<>>
    BY <1>0, <1>10 DEF NextChild, r
  <2>5. \/ SetCall(c, [call[c] EXCEPT !.stack = Tail(r.stack),
                         !.step = IF Tail(r.stack) = <<>> THEN "end" ELSE "child"])
        \/ \E k \in Head(r.stack) :
             SetCall(c, [call[c] EXCEPT !.stack = <<Head(r.stack) \ {k}>> \o Tail(r.stack),
                           !.job = k,
                           !.step = CASE Is(k, {"queued"}) -> "claim"
                                      [] Is(k, {"processing"}) -> "read"
                                      [] OTHER -> "child"])
    BY <1>10 DEF NextChild, r
  <2>1. /\ r.root \in doomed /\ r.root \in doomed'
        /\ \A n \in DOMAIN r.stack : \A k \in r.stack[n] : r.root \in Ancestors(k)
    BY <1>1, <2>0 DEF CallReason, Begun, Below
  <2>2. /\ Head(r.stack) = r.stack[1] /\ 1 \in DOMAIN r.stack
        /\ \A n \in DOMAIN Tail(r.stack) :
             n + 1 \in DOMAIN r.stack /\ Tail(r.stack)[n] = r.stack[n + 1]
    BY <1>0, <2>0
  <2>3. CASE SetCall(c, [call[c] EXCEPT !.stack = Tail(r.stack),
                            !.step = IF Tail(r.stack) = <<>> THEN "end" ELSE "child"])
    <3> DEFINE stack == Tail(r.stack)
               to == IF Tail(r.stack) = <<>> THEN "end" ELSE "child"
               g == [call[c] EXCEPT !.stack = stack, !.step = to]
    <3>1. call'[c] = g
      BY <1>2, <2>3
    <3>2. to # "status"
      OBVIOUS
    <3>3. \A n \in DOMAIN stack : \A k \in stack[n] : r.root \in Ancestors(k)
      BY <2>1, <2>2
    <3> HIDE DEF stack, to
    <3>4. g.step = to /\ g.job = r.job /\ g.root = r.root /\ g.stack = stack
      BY <1>0 DEF CallRecord, r
    <3> HIDE DEF g
    <3> QED  BY <1>8, <2>1, <3>1, <3>2, <3>3, <3>4 DEF CallLasts, Below
  <2>4. ASSUME NEW k \in Head(r.stack),
               SetCall(c, [call[c] EXCEPT !.stack = <<Head(r.stack) \ {k}>> \o Tail(r.stack),
                             !.job = k,
                             !.step = CASE Is(k, {"queued"}) -> "claim"
                                        [] Is(k, {"processing"}) -> "read"
                                        [] OTHER -> "child"])
        PROVE  CallLasts(call'[c])
    <3> DEFINE first == Head(r.stack) \ {k}
               rest == Tail(r.stack)
               stack == <<first>> \o rest
               to == CASE Is(k, {"queued"}) -> "claim"
                       [] Is(k, {"processing"}) -> "read"
                       [] OTHER -> "child"
               g == [call[c] EXCEPT !.stack = stack, !.job = k, !.step = to]
    <3>1. call'[c] = g
      BY <1>2, <2>4
    <3>2. to # "status"
      OBVIOUS
    <3>3. \A n \in DOMAIN stack : \A i \in stack[n] : r.root \in Ancestors(i)
      <4>1. rest \in Seq(SUBSET Jobs)
        BY <1>0, <2>0
      <4>2. \A n \in DOMAIN rest : \A i \in rest[n] : r.root \in Ancestors(i)
        BY <2>1, <2>2
      <4>3. \A i \in first : r.root \in Ancestors(i)
        BY <2>1, <2>2
      <4> HIDE DEF first, rest
      <4>4. \A n \in DOMAIN stack :
              stack[n] = first \/ \E m \in DOMAIN rest : stack[n] = rest[m]
        BY <4>1
      <4> HIDE DEF stack
      <4> QED  BY <4>2, <4>3, <4>4
    <3>4. r.root \in Ancestors(k)
      BY <2>1, <2>2
    <3> HIDE DEF stack, to
    <3>5. g.step = to /\ g.job = k /\ g.root = r.root /\ g.stack = stack
      BY <1>0 DEF CallRecord, r
    <3> HIDE DEF g
    <3> QED  BY <1>8, <2>1, <3>1, <3>2, <3>3, <3>4, <3>5 DEF CallLasts, Below
  <2> QED  BY <2>3, <2>4, <2>5
<1> QED  BY <1>4, <1>5, <1>6, <1>7, <1>9, <1>10 DEF CallStep

LEMMA CallReasonsStep ==
  ASSUME DInv, Doomed, Ahead, Batched, CallReasons, [Next]_vars
  PROVE  CallReasons'
<1>0. /\ call \in [Callers -> CallRecord] /\ NoCall.step = "idle"
      /\ batch = [step |-> batch.step, todo |-> batch.todo, ids |-> batch.ids]
      /\ batch.ids \in Seq(Jobs)
  BY DEF DInv, CallsTyped, NoCall
<1>1. ASSUME NEW c \in Callers, call'[c] = call[c], call[c].step # "idle"
      PROVE  CallLasts(call'[c])
  <2>1. call[c].job \in Jobs /\ CallReason(call[c])
    BY <1>0, <1>1 DEF CallReasons, CallRecord
  <2>2. CallLasts(call[c])
    BY <2>1, ReasonLasts
  <2> QED  BY <1>1, <2>2
<1>2. ASSUME NEW c \in Callers, NEW j \in Jobs, NEW delete, StartCall(c, j, delete),
             (\E b \in Callers : j \in Calls[b]) \/ (batch'.step # "submit" /\ Keyed(j))
      PROVE  /\ CallLasts(call'[c])
             /\ \A b \in Callers \ {c} : call'[b] = call[b]
  <2> DEFINE g == [NoCall EXCEPT !.step = "read", !.job = j, !.root = j, !.delete = delete]
  <2>1. /\ call'[c] = g
        /\ \A b \in Callers \ {c} : call'[b] = call[b]
    BY <1>0, <1>2 DEF StartCall, SetCall
  <2>2. g.step = "read" /\ g.job = j /\ g.root = j /\ g.stack = <<>>
    BY DEF NoCall
  <2> HIDE DEF g
  <2>3. CallLasts(g)
    BY <1>2, <2>2 DEF CallLasts, Begun
  <2> QED  BY <2>1, <2>3
<1>3. ASSUME NEW b \in Callers, NEW c \in Callers, CallStep(c), call'[b].step # "idle"
      PROVE  CallLasts(call'[b])
  <2>1. CASE EndCall(c)
    <3>1. call' = [call EXCEPT ![c] = NoCall]
      BY <2>1 DEF EndCall, SetCall
    <3> QED  BY <1>0, <1>1, <1>3, <3>1
  <2>2. CASE ~EndCall(c)
    <3>1. \A d \in Callers \ {c} : call'[d] = call[d]
      BY <1>3, <2>2, RootStays
    <3> QED  BY <1>1, <1>3, <2>2, <3>1, CallerLasts
  <2> QED  BY <2>1, <2>2
<1>4. ASSUME NEW b \in Callers, NEW c \in Callers, NEW j \in Jobs, Cancel(c, j),
             call'[b].step # "idle"
      PROVE  CallLasts(call'[b])
  <2>1. StartCall(c, j, FALSE) /\ j \in Calls[c]
    BY <1>4 DEF Cancel
  <2> QED  BY <1>1, <1>2, <1>4, <2>1
<1>5. ASSUME NEW b \in Callers, RollBack, call'[b].step # "idle"
      PROVE  CallLasts(call'[b])
  <2>1. CASE batch.ids # <<>> /\ StartCall(Submitter, Head(batch.ids), TRUE)
    <3>1. Head(batch.ids) = batch.ids[1] /\ 1 \in DOMAIN batch.ids /\ Head(batch.ids) \in Jobs
      BY <1>0, <2>1
    <3>2. Keyed(Head(batch.ids)) /\ batch'.step # "submit"
      BY <1>5, <3>1, BatchedStep DEF Batched, RollBack
    <3> QED  BY <1>1, <1>2, <1>5, <2>1, <3>1, <3>2, SubmitterAssumption
  <2>2. CASE UNCHANGED call
    BY <1>1, <1>5, <2>2
  <2> QED  BY <1>5, <2>1, <2>2 DEF RollBack
<1>6. ASSUME NEW w \in Workers, GateStep(w) \/ \E j \in Jobs : TaskStep(w, j)
      PROVE  UNCHANGED call
  BY <1>6 DEF GateStep, Poll, StartRow, ReadDep, ReadPeers, TakeSlots, Dispatch,
     FailClaim, FailStore, TaskStep, TaskClaim, TaskEnd, callVars
<1>7. (\E j \in Jobs : Submit(j)) \/ SubmitItem \/ ItemRefused \/ PassTime \/ UNCHANGED vars
        => UNCHANGED call
  BY DEF Submit, SubmitItem, ItemRefused, PassTime, vars, callVars
<1>8. \A b \in Callers : call'[b].step # "idle" => CallLasts(call'[b])
  <2> SUFFICES ASSUME NEW b \in Callers, call'[b].step # "idle"
               PROVE  CallLasts(call'[b])
    OBVIOUS
  <2>1. UNCHANGED call => CallLasts(call'[b])
    BY <1>1
  <2> QED  BY <1>3, <1>4, <1>5, <1>6, <1>7, <2>1 DEF Next, SubmitStep
<1> QED
  BY <1>8 DEF CallReasons, CallReason, CallLasts, Keyed, Locals, Below, Begun, Ancestors,
     WaitsFor, Earlier

\* Who fails or cancels a job.
FailedBy(j) ==
  \/ \E w \in Workers : gate[w].step = "failing" /\ gate[w].job = j
  \/ Running(j)
  \/ /\ Exists(j)
     /\ \E c \in Callers : /\ call[c].step \in {"status", "result", "fail"}
                           /\ call[c].job = j

LEMMA WhoFails ==
  ASSUME DInv, [Next]_vars, NEW j \in Jobs,
         rows[j].status \notin {"failed", "cancelled"},
         rows'[j].status \in {"failed", "cancelled"}
  PROVE  FailedBy(j)
<1>0. rows \in [Jobs -> Row] /\ rows[j].status # rows'[j].status
  BY DEF DInv, StoreInv, StoreTypeOK
<1>1. UNCHANGED rows => FALSE
  BY <1>0
<1>2. ASSUME NEW k \in Jobs, Enqueue(k) \/ Claim(k) \/ Delete({k}) PROVE FALSE
  <2>1. CASE Enqueue(k)
    BY <1>0, <2>1 DEF Enqueue, Absent
  <2>2. CASE Claim(k)
    BY <1>0, <2>2 DEF Claim, Row
  <2>3. CASE Delete({k})
    BY <1>0, <2>3 DEF Delete, Absent
  <2> QED  BY <1>2, <2>1, <2>2, <2>3
<1>3. ASSUME NEW k \in Jobs, NEW t, NEW s,
             SetResultOwned(k, t, s) \/ UpdateStatus(k, s) \/ SetResult(k, s)
      PROVE  k = j /\ Exists(j)
  BY <1>0, <1>3 DEF SetResultOwned, UpdateStatus, SetResult, WithResult, Owns, Exists,
     JobStatus, Terminal
<1>4. /\ \A w \in Workers : gate[w].job \in Jobs
      /\ \A c \in Callers : call[c].job \in Jobs /\ call[c].root \in Jobs
  BY DEF DInv, Typed, Gate, CallsTyped, CallRecord
<1>5. ASSUME NEW w \in Workers, GateStep(w) PROVE FailedBy(j)
  <2>1. CASE FailStore(w)
    BY <1>1, <1>3, <1>4, <2>1 DEF FailStore, FailedBy, storeVars
  <2>2. CASE FailClaim(w)
    BY <1>1, <1>2, <1>4, <2>2 DEF FailClaim, storeVars
  <2> QED
    BY <1>1, <1>5, <2>1, <2>2
    DEF GateStep, Poll, StartRow, ReadDep, ReadPeers, TakeSlots, Dispatch, storeVars
<1>6. ASSUME NEW w \in Workers, NEW k \in Jobs, TaskStep(w, k) PROVE FailedBy(j)
  <2>1. CASE TaskClaim(w, k)
    BY <1>1, <1>2, <2>1 DEF TaskClaim, storeVars
  <2>2. CASE TaskEnd(w, k)
    BY <1>1, <1>3, <2>2 DEF TaskEnd, storeVars, FailedBy, Running
  <2> QED  BY <1>6, <2>1, <2>2 DEF TaskStep
<1>7. ASSUME NEW c \in Callers, CallStep(c) PROVE FailedBy(j)
  <2>1. CASE WriteStatus(c) \/ WriteResult(c) \/ FailChild(c)
    BY <1>1, <1>3, <1>4, <2>1 DEF WriteStatus, WriteResult, FailChild, FailedBy, storeVars
  <2>2. CASE ClaimChild(c) \/ EndCall(c)
    BY <1>1, <1>2, <1>4, <2>2 DEF ClaimChild, EndCall, storeVars
  <2> QED
    BY <1>1, <1>7, <2>1, <2>2 DEF CallStep, ReadRow, ListChildren, NextChild, storeVars
<1>8. ASSUME NEW k \in Jobs, Submit(k) PROVE FALSE
  BY <1>2, <1>8 DEF Submit
<1>9. CASE SubmitItem
  BY <1>1, <1>2, <1>9 DEF SubmitItem, storeVars
<1>10. CASE \/ RollBack \/ ItemRefused \/ UNCHANGED vars
            \/ \E c \in Callers, k \in Jobs : Cancel(c, k)
  BY <1>1, <1>10 DEF RollBack, ItemRefused, Cancel, vars, storeVars
<1>11. CASE PassTime
  BY <1>0, <1>11 DEF PassTime, Tick, Row
<1> QED  BY <1>5, <1>6, <1>7, <1>8, <1>9, <1>10, <1>11 DEF Next, SubmitStep

LEMMA FailedForAReason ==
  ASSUME RInv, [Next]_vars, [SinglesInOrder]_vars, NEW j \in Jobs,
         rows[j].status \notin {"failed", "cancelled"},
         rows'[j].status \in {"failed", "cancelled"}
  PROVE  \/ Running(j) \/ Asked(j) \/ j \in Ancestors(j)
         \/ \E a \in Ancestors(j) : a \in doomed \/ ~(Exists(a) \/ YetToCome(a))
<1>1. DInv /\ Submitted /\ Ahead /\ GateReason /\ CallReasons /\ SinglesInOrder
  <2>1. ~UNCHANGED vars
    BY DEF vars, storeVars
  <2> QED  BY <2>1 DEF RInv
<1>2. ASSUME NEW w \in Workers, gate[w].step = "failing", gate[w].job = j
      PROVE  \/ j \in Ancestors(j)
             \/ \E a \in Ancestors(j) : a \in doomed \/ ~(Exists(a) \/ YetToCome(a))
  <2>1. rows[j].status # "new" /\ (Missing(j) \/ Hopeless(j))
    BY <1>1, <1>2 DEF Submitted, GateReason
  <2>2. CASE Missing(j)
    <3>1. PICK d \in Deps[j] : rows[d].status = "new"
      BY <2>2 DEF Missing
    <3>2. d \in Ancestors(j) /\ d \in Jobs /\ ~Exists(d)
      BY <3>1, AncestorsAre DEF Exists, JobStatus, Terminal
    <3>3. ~YetToCome(d)
      <4>1. CASE {d, j} \subseteq Locals
        BY <1>1, <2>1, <4>1 DEF Ahead, InTodo, YetToCome
      <4>2. CASE ~({d, j} \subseteq Locals)
        BY <1>1, <2>1, <3>1, <3>2, <4>2 DEF SinglesInOrder
      <4> QED  BY <4>1, <4>2
    <3> QED  BY <3>2, <3>3
  <2>3. CASE Hopeless(j)
    BY <2>3 DEF Hopeless
  <2> QED  BY <2>1, <2>2, <2>3
<1>3. ASSUME NEW c \in Callers, call[c].step \in {"status", "result", "fail"},
             call[c].job = j, Exists(j)
      PROVE  Asked(j) \/ \E a \in Ancestors(j) : a \in doomed
  <2>1. CallReason(call[c])
    BY <1>1, <1>3 DEF CallReasons
  <2>2. CASE call[c].root = j
    BY <1>3, <2>1, <2>2 DEF CallReason, Asked, Keyed, SameIdem
  <2>3. CASE call[c].root # j
    BY <1>3, <2>1, <2>3 DEF CallReason, Begun, Below
  <2> QED  BY <2>2, <2>3
<1> QED  BY <1>1, <1>2, <1>3, WhoFails DEF FailedBy

\* A job that is failed or cancelled without a run of its own has a reason, if no
\* job is submitted after one that waits for it: whatever workers, cancels and
\* roll-backs do to it and to others meanwhile.
THEOREM NeverForNothing == Spec /\ [][SinglesInOrder]_vars => NeverFailedForNothing
<1> DEFINE Reasoned(j) ==
      \/ Running(j) \/ Asked(j) \/ j \in Ancestors(j)
      \/ \E a \in Ancestors(j) : a \in doomed \/ ~(Exists(a) \/ YetToCome(a))
    Step1 ==
      \A j \in Jobs :
        rows[j].status \notin {"failed", "cancelled"}
          /\ rows'[j].status \in {"failed", "cancelled"} => Reasoned(j)
<1>1. Init => RInv
  <2> SUFFICES ASSUME Init PROVE RInv
    OBVIOUS
  <2>1. Submitted /\ GateReason /\ Batched /\ CallReasons
    BY DEF Init, NoGate, NoCall, Submitted, GateReason, Batched, CallReasons
  <2>2. Doomed
    BY DEF Init, StoreInit, Absent, Doomed
  <2> QED  BY <2>1, <2>2, InitDInv, AheadFirst DEF RInv
<1>2. RInv /\ [Next]_vars /\ [SinglesInOrder]_vars => RInv'
  BY StepDInv, SubmittedStep, DoomedStep, AheadStep, GateReasonStep, BatchedStep,
     CallReasonsStep DEF RInv
<1>3. RInv /\ [Next]_vars /\ [SinglesInOrder]_vars => [Step1]_vars
  BY FailedForAReason
<1>4. Spec /\ [][SinglesInOrder]_vars => [][Step1]_vars
  BY <1>1, <1>2, <1>3, PTL DEF Spec
<1> QED  BY <1>4 DEF NeverFailedForNothing

-----------------------------------------------------------------------------
(* Types.                                                                  *)

Bucketed ==
  /\ DOMAIN tokens = Workers
  /\ \A w \in Workers : /\ DOMAIN tokens[w] = DOMAIN Burst
                        /\ \A k \in DOMAIN Burst : tokens[w][k] \in 0 .. Burst[k]

BatchTyped ==
  /\ batch.step \in {"submit", "rollback", "raised"}
  /\ batch.todo \in Seq(Jobs)
  /\ calls \in Nat
  /\ finished \subseteq Jobs /\ doomed \subseteq Jobs

TInv == DInv /\ Bucketed /\ BatchTyped

LEMMA BucketStep == TInv /\ [Next]_vars => Bucketed'
<1> SUFFICES ASSUME TInv, [Next]_vars PROVE Bucketed'
  OBVIOUS
<1>0. /\ DOMAIN tokens = Workers /\ \A w \in Workers : DOMAIN tokens[w] = DOMAIN Burst
      /\ \A w \in Workers, k \in DOMAIN Burst :
           tokens[w][k] \in Nat /\ tokens[w][k] =< Burst[k]
      /\ \A k \in DOMAIN Burst : Burst[k] \in Nat
  BY SlotAssumption DEF TInv, Bucketed
<1>1. CASE UNCHANGED tokens
  BY <1>1 DEF TInv, Bucketed
<1>2. ASSUME NEW w \in Workers, GateStep(w) PROVE Bucketed'
  <2>1. CASE TakeSlots(w) /\ Reserve(w, gate[w].job)
    <3> DEFINE j == gate[w].job
               b == [k \in DOMAIN Burst |->
                       IF k \in Rated(j) THEN tokens[w][k] - 1 ELSE tokens[w][k]]
    <3>1. /\ tokens' = [tokens EXCEPT ![w] = b]
          /\ \A k \in Rated(j) : tokens[w][k] > 0
      BY <2>1 DEF Reserve, MayReserve
    <3>2. \A k \in DOMAIN Burst : b[k] \in 0 .. Burst[k]
      BY <1>0, <3>1
    <3>3. DOMAIN b = DOMAIN Burst
      OBVIOUS
    <3> HIDE DEF b
    <3> QED  BY <1>0, <3>1, <3>2, <3>3 DEF Bucketed
  <2>2. CASE ~(TakeSlots(w) /\ Reserve(w, gate[w].job))
    BY <1>1, <1>2, <2>2
    DEF GateStep, Poll, StartRow, ReadDep, ReadPeers, TakeSlots, Dispatch, FailClaim,
        FailStore, Snapshot, slotVars
  <2> QED  BY <2>1, <2>2
<1>3. ASSUME NEW w \in Workers, NEW j \in Jobs, TaskStep(w, j)
      PROVE  UNCHANGED tokens
  BY <1>3 DEF TaskStep, TaskClaim, TaskEnd, Release, slotVars
<1>4. ASSUME NEW c \in Callers, CallStep(c) \/ \E j \in Jobs : Cancel(c, j)
      PROVE  UNCHANGED tokens
  BY <1>4 DEF CallStep, ReadRow, WriteStatus, WriteResult, ListChildren, NextChild,
     ClaimChild, FailChild, EndCall, Cancel, slotVars
<1>5. CASE \/ \E j \in Jobs : Submit(j)
           \/ SubmitStep \/ ItemRefused \/ UNCHANGED vars
  BY <1>1, <1>5 DEF Submit, SubmitStep, SubmitItem, RollBack, ItemRefused, vars, slotVars
<1>6. CASE PassTime
  <2>1. tokens' = [w \in Workers |-> [k \in DOMAIN Burst |->
                     IF tokens[w][k] < Burst[k] THEN tokens[w][k] + 1 ELSE Burst[k]]]
    BY <1>6 DEF PassTime, Refill
  <2>2. \A w \in Workers, k \in DOMAIN Burst :
          tokens'[w][k] \in 0 .. Burst[k]
    BY <1>0, <2>1
  <2>3. DOMAIN tokens' = Workers /\ \A w \in Workers : DOMAIN tokens'[w] = DOMAIN Burst
    BY <2>1
  <2> QED  BY <2>2, <2>3 DEF Bucketed
<1> QED  BY <1>1, <1>2, <1>3, <1>4, <1>5, <1>6 DEF Next

LEMMA BatchTypedStep == TInv /\ [Next]_vars => BatchTyped'
<1> SUFFICES ASSUME TInv, [Next]_vars PROVE BatchTyped'
  OBVIOUS
<1>0. /\ batch = [step |-> batch.step, todo |-> batch.todo, ids |-> batch.ids]
      /\ BatchTyped
  BY DEF TInv, DInv, CallsTyped
<1>1. /\ finished' \subseteq Jobs /\ doomed' \subseteq Jobs
  <2>1. Remember \/ UNCHANGED <<finished, doomed>>
    <3>1. ASSUME NEW w \in Workers, GateStep(w) \/ \E j \in Jobs : TaskStep(w, j)
          PROVE  Remember \/ UNCHANGED <<finished, doomed>>
      BY <3>1
      DEF GateStep, Poll, StartRow, ReadDep, ReadPeers, TakeSlots, Dispatch, FailClaim,
          FailStore, TaskStep, TaskClaim, TaskEnd
    <3>2. ASSUME NEW c \in Callers, CallStep(c) \/ \E j \in Jobs : Cancel(c, j)
          PROVE  Remember \/ UNCHANGED <<finished, doomed>>
      BY <3>2
      DEF CallStep, ReadRow, WriteStatus, WriteResult, ListChildren, NextChild,
          ClaimChild, FailChild, EndCall, Cancel
    <3>3. CASE \/ \E j \in Jobs : Submit(j)
               \/ SubmitStep \/ ItemRefused \/ PassTime \/ UNCHANGED vars
      BY <3>3 DEF Submit, SubmitStep, SubmitItem, RollBack, ItemRefused, PassTime, vars
    <3> QED  BY <3>1, <3>2, <3>3 DEF Next
  <2> QED  BY <1>0, <2>1 DEF Remember, BatchTyped
<1>2. ASSUME UNCHANGED <<batch, calls>> PROVE BatchTyped'
  BY <1>0, <1>1, <1>2 DEF BatchTyped
<1>3. ASSUME NEW c \in Callers, NEW j \in Jobs, Cancel(c, j) PROVE BatchTyped'
  BY <1>0, <1>1, <1>3 DEF Cancel, BatchTyped
<1>4. CASE SubmitItem
  <2>1. /\ batch'.step = batch.step /\ batch'.todo = Tail(batch.todo)
        /\ batch.todo # <<>> /\ calls' = calls
    BY <1>0, <1>4 DEF SubmitItem
  <2>2. Tail(batch.todo) \in Seq(Jobs)
    BY <1>0, <2>1 DEF BatchTyped
  <2> QED  BY <1>0, <1>1, <2>1, <2>2 DEF BatchTyped
<1>5. CASE ItemRefused \/ RollBack
  <2>1. /\ batch'.todo = batch.todo /\ batch'.step \in {"rollback", "raised"}
        /\ calls' = calls
    BY <1>0, <1>5 DEF ItemRefused, RollBack
  <2> QED  BY <1>0, <1>1, <2>1 DEF BatchTyped
<1>6. ASSUME NEW w \in Workers, GateStep(w) \/ \E j \in Jobs : TaskStep(w, j)
      PROVE  UNCHANGED <<batch, calls>>
  BY <1>6 DEF GateStep, Poll, StartRow, ReadDep, ReadPeers, TakeSlots, Dispatch,
     FailClaim, FailStore, TaskStep, TaskClaim, TaskEnd, callVars
<1>7. ASSUME NEW c \in Callers, CallStep(c)
      PROVE  UNCHANGED <<batch, calls>>
  BY <1>7 DEF CallStep, ReadRow, WriteStatus, WriteResult, ListChildren, NextChild,
     ClaimChild, FailChild, EndCall
<1>8. CASE (\E j \in Jobs : Submit(j)) \/ PassTime \/ UNCHANGED vars
  BY <1>2, <1>8 DEF Submit, PassTime, vars, callVars
<1> QED  BY <1>2, <1>3, <1>4, <1>5, <1>6, <1>7, <1>8 DEF Next, SubmitStep

\* Every row, slot, list, task, call and batch has its type, tokens of the
\* buckets included: no bucket falls below none or grows beyond its capacity.
THEOREM DependenciesTypes == Spec => []TypeOK
<1>1. Init => TInv
  <2> SUFFICES ASSUME Init PROVE TInv
    OBVIOUS
  <2>1. Bucketed
    BY SlotAssumption DEF Init, SlotInit, Bucketed
  <2>2. /\ batch.step \in {"submit", "raised"}
        /\ batch.todo = TopologicalNames(Items)
    BY DEF Init
  <2>3. TopologicalNames(Items) \in Seq(Jobs)
    BY OrderIs, ItemsAssumption DEF Locals
  <2>4. BatchTyped
    BY <2>2, <2>3, CallsAssumption DEF Init, BatchTyped
  <2> QED  BY <2>1, <2>4, InitDInv DEF TInv
<1>2. TInv /\ [Next]_vars => TInv'
  BY StepDInv, BucketStep, BatchTypedStep DEF TInv
<1>3. TInv => TypeOK
  <2> SUFFICES ASSUME TInv PROVE TypeOK
    OBVIOUS
  <2>1. SlotTypeOK
    BY DEF TInv, Bucketed, SlotTypeOK, DInv, Typed
  <2>2. batch \in [step : {"submit", "rollback", "raised"}, todo : Seq(Jobs),
                   ids : Seq(Jobs)]
    BY DEF TInv, DInv, CallsTyped, BatchTyped
  <2> QED  BY <2>1, <2>2
           DEF TInv, DInv, StoreInv, Typed, CallsTyped, BatchTyped, TypeOK, Gate, CallRecord
<1> QED  BY <1>1, <1>2, <1>3, PTL DEF Spec
=============================================================================
