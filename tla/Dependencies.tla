---------------------------- MODULE Dependencies ----------------------------
(***************************************************************************)
(* Jobs that wait for other jobs.  depends_on names the jobs to wait for;  *)
(* label_group and label_sequence make every job of a group wait for the   *)
(* peers whose label comes earlier.  Nothing in the store enforces either: *)
(* the worker's poll tests each listed row, one store call after another,  *)
(* and fails the rows that can never run; cancel and remove fail the       *)
(* dependents of what they cancel, walking the graph call by call; and     *)
(* submit_batch removes what it has enqueued when a later item fails.      *)
(* All of them meet in the job table.  The same poll reserves the slots    *)
(* that limit a model, a session or a tag (Slots).                         *)
(*                                                                         *)
(* A job's task is reduced to its claim and its result (Worker has the     *)
(* rest).  A process that dies here leaves what it leaves there.           *)
(***************************************************************************)
EXTENDS Slots, Filter

CONSTANTS
  Callers,
  Deps,         \* Deps[j]: the job ids in depends_on
  Group, Rank,  \* label_group, or NoKey; place of the label in label_sequence
  Place,        \* place in ORDER BY priority DESC, created_at ASC
  Items,        \* the items of submit_batch, in the order of the call
  Submitter,    \* the caller of submit_batch
  Concurrency, PollLimit,
  Calls,        \* Calls[c]: the jobs caller c may cancel
  MaxCalls,     \* bound: cancels in a behaviour
  SubmitFails   \* whether an item of the batch may be refused

ASSUME JobsAssumption == IsFiniteSet(Jobs) /\ Jobs # {}
ASSUME DepsAssumption == Deps \in [Jobs -> SUBSET Jobs]
ASSUME RankAssumption == Rank \in [Jobs -> Nat]
ASSUME PlaceAssumption ==
  /\ Place \in [Jobs -> Nat]
  /\ \A j, k \in Jobs : Place[j] = Place[k] => j = k
ASSUME ItemsAssumption ==
  /\ Items \in Seq(Jobs)
  /\ \A m, n \in DOMAIN Items : Items[m] = Items[n] => m = n
ASSUME SubmitterAssumption == Submitter \in Callers
ASSUME PermitAssumption == Concurrency \in Nat \ {0} /\ PollLimit \in Nat \ {0}
ASSUME CallsAssumption ==
  Calls \in [Callers -> SUBSET Jobs] /\ MaxCalls \in Nat /\ SubmitFails \in BOOLEAN

VARIABLES
  listed,   \* listed[w]: rows of the poll that are still to be looked at, in order
  gate,     \* gate[w]: the row being looked at
  task,     \* task[w][j]: NoTask, or the lease token of w's task of j
  call,     \* call[c]: the cancel or remove that caller c is in
  batch,    \* the submit_batch in progress
  calls,    \* cancels left
  finished, \* history: jobs that have been completed at some time
  doomed    \* history: jobs that have been failed, cancelled or deleted

procVars == <<listed, gate, task>>
callVars == <<call, batch, calls>>
vars == <<storeVars, slotVars, procVars, callVars, finished, doomed>>

NoTask == -1
Some == CHOOSE j \in Jobs : TRUE
NoGate == [step |-> "idle", job |-> Some, todo |-> {}, token |-> NoToken]
NoCall == [step |-> "idle", job |-> Some, root |-> Some, stack |-> <<>>,
           token |-> NoToken, delete |-> FALSE]

Is(j, S) == rows[j].status \in S
Dead(j) == ~Exists(j) \/ Is(j, {"failed", "cancelled"})
Pending(j) == Is(j, {"queued", "processing"})

\* History, for the properties only.
Remember ==
  /\ finished' = finished \cup {j \in Jobs : rows'[j].status = "completed"}
  /\ doomed' = doomed \cup
       {j \in Jobs : rows'[j].status \in {"failed", "cancelled", "deleted"}}

-----------------------------------------------------------------------------
(* Who waits for whom.                                                     *)

\* The walk of _depends_on_cycle: from j along depends_on, through rows that
\* exist.  Every id is pushed at most once, so Jobs bounds its length.
Reach(S) == S \cup UNION {Deps[k] : k \in {i \in S : Exists(i)}}
WalkFrom(j) ==
  LET walk[n \in 0 .. Cardinality(Jobs)] ==
        IF n = 0 THEN Deps[j] ELSE Reach(walk[n - 1])
  IN walk[Cardinality(Jobs)]
InCycle(j) == j \in WalkFrom(j)

\* Mutant: peers with the same label count, and so does the job itself.
EarlierOrSame(j) == {p \in Jobs : /\ Group[p] = Group[j] /\ Group[j] # NoKey
                                  /\ Rank[p] =< Rank[j]}

\* The label peers j waits for: those that label_rank places before it.
Earlier(j) == {p \in Jobs \ {j} : /\ Group[p] = Group[j] /\ Group[j] # NoKey
                                  /\ Rank[p] < Rank[j]}

Locals == {Items[i] : i \in DOMAIN Items}

\* Mutant: the items stay in the order of the call.
TopologicalNamesAsGiven(names) == names

\* Kahn's walk: of the names that are ready the first is next, and those for
\* which it was the last dependency join the end.  Dependencies outside of the
\* batch do not count.  On a cycle the result is too short.
Ready(out) == {k \in Locals : Deps[k] \cap Locals \subseteq {out[i] : i \in DOMAIN out}}
Walked(names, was) ==
  IF was.ready = <<>> THEN was
  ELSE LET n == Head(was.ready)
           out == Append(was.out, n)
           joins == {k \in Ready(out) : n \in Deps[k]}
       IN [ready |-> Tail(was.ready) \o Kept(names, joins), out |-> out]
TopologicalNames(names) ==
  LET walk[n \in 0 .. Len(names)] ==
        IF n = 0 THEN [ready |-> Kept(names, Ready(<<>>)), out |-> <<>>]
        ELSE Walked(names, walk[n - 1])
  IN walk[Len(names)].out

\* list_dependents
Dependents(j) == {k \in Jobs : Exists(k) /\ j \in Deps[k]}

-----------------------------------------------------------------------------
(* The poll's pass over the listed rows.                                   *)

\* The loop awaits only between passes and for a permit.
LoopFree(w) == \/ gate[w].step = "idle" /\ listed[w] = <<>>
               \/ gate[w].step = "permit"

Waiting == {j \in Jobs : Claimable(j)}

\* _fairness_order: less loaded sessions first, else the order of the list.
Before(w, j, k) ==
  LET a == SessionLoad(w, j, Processing)
      b == SessionLoad(w, k, Processing)
  IN a < b \/ (a = b /\ Place[j] =< Place[k])

Poll(w) ==
  /\ gate[w].step = "idle" /\ listed[w] = <<>>
  /\ \E S \in SUBSET Waiting \ {{}} :
       /\ S = Waiting \/ Cardinality(S) = PollLimit
       /\ Cardinality(S) =< PollLimit
       /\ \A j \in S, k \in Waiting \ S : Place[j] < Place[k]
       /\ \E order \in [1 .. Cardinality(S) -> S] :
            /\ \A j \in S : \E i \in DOMAIN order : order[i] = j
            /\ \A i, k \in DOMAIN order : i =< k => Before(w, order[i], order[k])
            /\ listed' = [listed EXCEPT ![w] = order]
  /\ Snapshot(w)
  /\ UNCHANGED <<storeVars, gate, task, callVars, finished, doomed>>

SetGate(w, g) == gate' = [gate EXCEPT ![w] = g]

\* The next row: skipped if its task is in flight, else its dependencies.
StartRow(w) ==
  /\ gate[w].step = "idle" /\ listed[w] # <<>>
  /\ listed' = [listed EXCEPT ![w] = Tail(@)]
  /\ LET j == Head(listed[w]) IN
       \/ /\ task[w][j] # NoTask
          /\ UNCHANGED gate
       \/ /\ task[w][j] = NoTask
          /\ SetGate(w, [step |-> CASE Deps[j] = {} -> "label"
                                    [] InCycle(j) -> "fail"
                                    [] OTHER -> "deps",
                         job |-> j, todo |-> Deps[j], token |-> NoToken])
  /\ UNCHANGED <<storeVars, slotVars, task, callVars, finished, doomed>>

\* Mutant: the gate lets a row pass whose dependency is still running.
ReadDepNotQueued(w) ==
  /\ gate[w].step = "deps"
  /\ \E d \in gate[w].todo :
       \/ Dead(d) /\ SetGate(w, [gate[w] EXCEPT !.step = "fail"])
       \/ Is(d, {"queued"}) /\ SetGate(w, NoGate)
       \/ /\ Is(d, {"completed", "processing"})
          /\ SetGate(w, IF gate[w].todo = {d}
                        THEN [gate[w] EXCEPT !.step = "label", !.todo = {}]
                        ELSE [gate[w] EXCEPT !.todo = @ \ {d}])
  /\ UNCHANGED <<storeVars, slotVars, listed, task, callVars, finished, doomed>>

\* _eval_depends_on reads the dependencies one by one, and the first that is
\* not completed decides; the order in the list may be any.
ReadDep(w) ==
  /\ gate[w].step = "deps"
  /\ \E d \in gate[w].todo :
       \/ Dead(d) /\ SetGate(w, [gate[w] EXCEPT !.step = "fail"])
       \/ Pending(d) /\ SetGate(w, NoGate)
       \/ /\ Is(d, {"completed"})
          /\ SetGate(w, IF gate[w].todo = {d}
                        THEN [gate[w] EXCEPT !.step = "label", !.todo = {}]
                        ELSE [gate[w] EXCEPT !.todo = @ \ {d}])
  /\ UNCHANGED <<storeVars, slotVars, listed, task, callVars, finished, doomed>>

\* Mutant: a peer that is running does not hold the row back.
ReadPeersQueuedOnly(w) ==
  /\ gate[w].step = "label"
  /\ LET peers == Earlier(gate[w].job) IN
       \/ /\ \E p \in peers : Is(p, {"failed", "cancelled"})
          /\ SetGate(w, [gate[w] EXCEPT !.step = "fail"])
       \/ /\ ~\E p \in peers : Is(p, {"failed", "cancelled"})
          /\ \E p \in peers : Is(p, {"queued"})
          /\ SetGate(w, NoGate)
       \/ /\ \A p \in peers : ~Exists(p) \/ Is(p, {"completed", "processing"})
          /\ SetGate(w, [gate[w] EXCEPT !.step = "slots"])
  /\ UNCHANGED <<storeVars, slotVars, listed, task, callVars, finished, doomed>>

\* eval_label_group: a failed peer blocks, an unfinished one makes the row wait,
\* a missing one does neither.
ReadPeers(w) ==
  /\ gate[w].step = "label"
  /\ LET peers == Earlier(gate[w].job) IN
       \/ /\ \E p \in peers : Is(p, {"failed", "cancelled"})
          /\ SetGate(w, [gate[w] EXCEPT !.step = "fail"])
       \/ /\ ~\E p \in peers : Is(p, {"failed", "cancelled"})
          /\ \E p \in peers : Pending(p)
          /\ SetGate(w, NoGate)
       \/ /\ \A p \in peers : ~Exists(p) \/ Is(p, {"completed"})
          /\ SetGate(w, [gate[w] EXCEPT !.step = "slots"])
  /\ UNCHANGED <<storeVars, slotVars, listed, task, callVars, finished, doomed>>

TakeSlots(w) ==
  /\ gate[w].step = "slots"
  /\ \/ Reserve(w, gate[w].job) /\ SetGate(w, [gate[w] EXCEPT !.step = "permit"])
     \/ ~MayReserve(w, gate[w].job) /\ SetGate(w, NoGate) /\ UNCHANGED slotVars
  /\ UNCHANGED <<storeVars, listed, task, callVars, finished, doomed>>

Dispatch(w) ==
  /\ gate[w].step = "permit"
  /\ Cardinality({j \in Jobs : task[w][j] # NoTask}) < Concurrency
  /\ task' = [task EXCEPT ![w][gate[w].job] = NoToken]
  /\ SetGate(w, NoGate)
  /\ UNCHANGED <<storeVars, slotVars, listed, callVars, finished, doomed>>

\* _fail_blocked_dependency claims the row, so that no peer fails or runs it as
\* well, and stores the failure under the token.
FailClaim(w) ==
  /\ gate[w].step = "fail"
  /\ \/ /\ Claim(gate[w].job)
        /\ SetGate(w, [gate[w] EXCEPT !.step = "failing", !.token = nextToken])
     \/ /\ ~Claimable(gate[w].job)
        /\ SetGate(w, NoGate)
        /\ UNCHANGED storeVars
  /\ Remember
  /\ UNCHANGED <<slotVars, listed, task, callVars>>

\* Mutant: the row gets the gate's verdict for its status.
FailStoreBlocked(w) ==
  LET g == gate[w] IN
  /\ g.step = "failing"
  /\ \/ SetResultOwned(g.job, g.token, "blocked")
     \/ ~Owns(g.job, g.token) /\ UNCHANGED storeVars
  /\ SetGate(w, NoGate)
  /\ Remember
  /\ UNCHANGED <<slotVars, listed, task, callVars>>

FailStore(w) ==
  LET g == gate[w] IN
  /\ g.step = "failing"
  /\ \/ SetResultOwned(g.job, g.token, "failed")
     \/ ~Owns(g.job, g.token) /\ UNCHANGED storeVars
  /\ SetGate(w, NoGate)
  /\ Remember
  /\ UNCHANGED <<slotVars, listed, task, callVars>>

-----------------------------------------------------------------------------
(* A task: the claim, the model call, the result.                          *)

\* Mutant: a job that lost its claim keeps its slots.
TaskClaimKeepsSlots(w, j) ==
  /\ task[w][j] = NoToken /\ LoopFree(w)
  /\ \/ Claim(j) /\ task' = [task EXCEPT ![w][j] = nextToken]
     \/ /\ ~Claimable(j) /\ UNCHANGED storeVars
        /\ task' = [task EXCEPT ![w][j] = NoTask]
  /\ Remember
  /\ UNCHANGED <<slotVars, listed, gate, callVars>>

TaskClaim(w, j) ==
  /\ task[w][j] = NoToken /\ LoopFree(w)
  /\ \/ /\ Claim(j)
        /\ task' = [task EXCEPT ![w][j] = nextToken]
        /\ UNCHANGED slotVars
     \/ /\ ~Claimable(j) /\ UNCHANGED storeVars
        /\ task' = [task EXCEPT ![w][j] = NoTask]
        /\ Release(w, j)
  /\ Remember
  /\ UNCHANGED <<listed, gate, callVars>>

TaskEnd(w, j) ==
  /\ task[w][j] \notin {NoTask, NoToken} /\ LoopFree(w)
  /\ \/ \E s \in {"completed", "failed"} : SetResultOwned(j, task[w][j], s)
     \/ ~Owns(j, task[w][j]) /\ UNCHANGED storeVars
  /\ task' = [task EXCEPT ![w][j] = NoTask]
  /\ Release(w, j)
  /\ Remember
  /\ UNCHANGED <<listed, gate, callVars>>

-----------------------------------------------------------------------------
(* cancel(cascade=True) and remove(cancel=True).                           *)

SetCall(c, r) == call' = [call EXCEPT ![c] = r]
CallMoves(c, step) == SetCall(c, [call[c] EXCEPT !.step = step])

StartCall(c, j, delete) ==
  SetCall(c, [NoCall EXCEPT !.step = "read", !.job = j, !.root = j, !.delete = delete])

Cancel(c, j) ==
  /\ call[c].step = "idle" /\ calls > 0 /\ j \in Calls[c]
  /\ StartCall(c, j, FALSE)
  /\ calls' = calls - 1
  /\ UNCHANGED <<storeVars, slotVars, procVars, batch, finished, doomed>>

\* _cancel_one's get.  A nested one goes on to the child's dependents even if
\* there was nothing to cancel; the outermost returns False without a cascade.
ReadRow(c) ==
  /\ call[c].step = "read"
  /\ \/ Pending(call[c].job) /\ CallMoves(c, "status")
     \/ /\ ~Pending(call[c].job)
        /\ CallMoves(c, IF call[c].stack = <<>> THEN "end" ELSE "list")
  /\ UNCHANGED <<storeVars, slotVars, procVars, batch, calls, finished, doomed>>

WriteStatus(c) ==
  /\ call[c].step = "status"
  /\ UpdateStatus(call[c].job, "cancelled")
  /\ CallMoves(c, "result")
  /\ Remember
  /\ UNCHANGED <<slotVars, procVars, batch, calls>>

WriteResult(c) ==
  /\ call[c].step = "result"
  /\ SetResult(call[c].job, "cancelled")
  /\ CallMoves(c, "list")
  /\ Remember
  /\ UNCHANGED <<slotVars, procVars, batch, calls>>

\* _fail_dependents enters a job: one more list of children to work through.
ListChildren(c) ==
  /\ call[c].step = "list"
  /\ SetCall(c, [call[c] EXCEPT !.step = "child",
                   !.stack = <<Dependents(call[c].job)>> \o @])
  /\ UNCHANGED <<storeVars, slotVars, procVars, batch, calls, finished, doomed>>

NextChild(c) ==
  LET stack == call[c].stack IN
  /\ call[c].step = "child"
  /\ \/ /\ Head(stack) = {}
        /\ SetCall(c, [call[c] EXCEPT !.stack = Tail(stack),
                         !.step = IF Tail(stack) = <<>> THEN "end" ELSE "child"])
     \/ \E k \in Head(stack) :
          SetCall(c, [call[c] EXCEPT !.stack = <<Head(stack) \ {k}>> \o Tail(stack),
                        !.job = k,
                        !.step = CASE Is(k, {"queued"}) -> "claim"
                                   [] Is(k, {"processing"}) -> "read"
                                   [] OTHER -> "child"])
  /\ UNCHANGED <<storeVars, slotVars, procVars, batch, calls, finished, doomed>>

\* A queued child: _fail_blocked_dependency.  A child that is not due, or that
\* a worker has just claimed, is not claimed here, and its children are next
\* all the same.
ClaimChild(c) ==
  /\ call[c].step = "claim"
  /\ \/ /\ Claim(call[c].job)
        /\ SetCall(c, [call[c] EXCEPT !.step = "fail", !.token = nextToken])
     \/ /\ ~Claimable(call[c].job)
        /\ CallMoves(c, "list")
        /\ UNCHANGED storeVars
  /\ Remember
  /\ UNCHANGED <<slotVars, procVars, batch, calls>>

FailChild(c) ==
  LET r == call[c] IN
  /\ r.step = "fail"
  /\ \/ SetResultOwned(r.job, r.token, "failed")
     \/ ~Owns(r.job, r.token) /\ UNCHANGED storeVars
  /\ CallMoves(c, "list")
  /\ Remember
  /\ UNCHANGED <<slotVars, procVars, batch, calls>>

\* cancel returns; remove deletes the row.
EndCall(c) ==
  /\ call[c].step = "end"
  /\ \/ call[c].delete /\ Delete({call[c].root})
     \/ /\ call[c].delete => ~Exists(call[c].root)
        /\ UNCHANGED storeVars
  /\ SetCall(c, NoCall)
  /\ Remember
  /\ UNCHANGED <<slotVars, procVars, batch, calls>>

-----------------------------------------------------------------------------
(* submit and submit_batch.                                                *)

\* A job that was submitted by itself.
Submit(j) ==
  /\ j \notin Locals
  /\ Enqueue(j)
  /\ UNCHANGED <<slotVars, procVars, callVars, finished, doomed>>

\* The next item; a repeated idempotency_key returns the job that has it.
SubmitItem ==
  /\ batch.step = "submit" /\ batch.todo # <<>>
  /\ LET j == Head(batch.todo) IN
     \E id \in Jobs :
       /\ \/ Enqueue(j) /\ id = j
          \/ id \in SameIdem(j) /\ UNCHANGED storeVars
       /\ batch' = [batch EXCEPT !.todo = Tail(@), !.ids = Append(@, id)]
  /\ UNCHANGED <<slotVars, procVars, call, calls, finished, doomed>>

\* An item is refused: what was enqueued is removed, in order.
ItemRefused ==
  /\ batch.step = "submit" /\ batch.todo # <<>> /\ SubmitFails
  /\ batch' = [batch EXCEPT !.step = "rollback"]
  /\ UNCHANGED <<storeVars, slotVars, procVars, call, calls, finished, doomed>>

\* Mutant: the roll-back forgets the item that was enqueued last.
RollBackAllButLast ==
  /\ batch.step = "rollback" /\ call[Submitter].step = "idle"
  /\ \/ /\ Len(batch.ids) > 1
        /\ StartCall(Submitter, Head(batch.ids), TRUE)
        /\ batch' = [batch EXCEPT !.ids = Tail(@)]
     \/ /\ Len(batch.ids) =< 1
        /\ batch' = [batch EXCEPT !.step = "raised"]
        /\ UNCHANGED call
  /\ UNCHANGED <<storeVars, slotVars, procVars, calls, finished, doomed>>

RollBack ==
  /\ batch.step = "rollback" /\ call[Submitter].step = "idle"
  /\ \/ /\ batch.ids # <<>>
        /\ StartCall(Submitter, Head(batch.ids), TRUE)
        /\ batch' = [batch EXCEPT !.ids = Tail(@)]
     \/ /\ batch.ids = <<>>
        /\ batch' = [batch EXCEPT !.step = "raised"]
        /\ UNCHANGED call
  /\ UNCHANGED <<storeVars, slotVars, procVars, calls, finished, doomed>>

\* A delayed job becomes due, a bucket gets a token.  Leases do not lapse here:
\* their owners live.
PassTime ==
  /\ ~Full \/ \E j \in Jobs : ~Due(j)
  /\ Tick /\ Refill
  /\ UNCHANGED <<procVars, callVars, finished, doomed>>

-----------------------------------------------------------------------------

Init ==
  /\ StoreInit /\ SlotInit
  /\ listed = [w \in Workers |-> <<>>]
  /\ gate = [w \in Workers |-> NoGate]
  /\ task = [w \in Workers |-> [j \in Jobs |-> NoTask]]
  /\ call = [c \in Callers |-> NoCall]
  /\ LET items == TopologicalNames(Items) IN
       batch = [step |-> IF Len(items) = Len(Items) THEN "submit" ELSE "raised",
                todo |-> items, ids |-> <<>>]
  /\ calls = MaxCalls
  /\ finished = {} /\ doomed = {}

GateStep(w) ==
  \/ Poll(w) \/ StartRow(w) \/ ReadDep(w) \/ ReadPeers(w) \/ TakeSlots(w)
  \/ Dispatch(w) \/ FailClaim(w) \/ FailStore(w)

TaskStep(w, j) == TaskClaim(w, j) \/ TaskEnd(w, j)

CallStep(c) ==
  \/ ReadRow(c) \/ WriteStatus(c) \/ WriteResult(c) \/ ListChildren(c)
  \/ NextChild(c) \/ ClaimChild(c) \/ FailChild(c) \/ EndCall(c)

SubmitStep == SubmitItem \/ RollBack

Next ==
  \/ \E w \in Workers : GateStep(w) \/ \E j \in Jobs : TaskStep(w, j)
  \/ \E c \in Callers : CallStep(c) \/ \E j \in Jobs : Cancel(c, j)
  \/ \E j \in Jobs : Submit(j)
  \/ SubmitStep \/ ItemRefused \/ PassTime

Spec == Init /\ [][Next]_vars

\* The loop sleeps between its passes, and the tasks run in that time: they are
\* ready at every sleep, though not in between.
FairSpec ==
  /\ Spec
  /\ \A w \in Workers : WF_vars(GateStep(w)) /\ SF_vars(\E j \in Jobs : TaskStep(w, j))
  /\ \A c \in Callers : WF_vars(CallStep(c))
  /\ WF_vars(SubmitStep) /\ WF_vars(PassTime)

-----------------------------------------------------------------------------
(* Properties.                                                             *)

Step == {"idle", "deps", "label", "slots", "permit", "fail", "failing"}
CallState == {"idle", "read", "status", "result", "list", "child", "claim", "fail", "end"}

TypeOK ==
  /\ StoreTypeOK /\ SlotTypeOK
  /\ listed \in [Workers -> Seq(Jobs)]
  /\ gate \in [Workers -> [step : Step, job : Jobs, todo : SUBSET Jobs, token : Nat]]
  /\ task \in [Workers -> [Jobs -> {NoTask} \cup Nat]]
  /\ call \in [Callers -> [step : CallState, job : Jobs, root : Jobs,
                           stack : Seq(SUBSET Jobs), token : Nat, delete : BOOLEAN]]
  /\ batch \in [step : {"submit", "rollback", "raised"}, todo : Seq(Jobs), ids : Seq(Jobs)]
  /\ calls \in Nat
  /\ finished \subseteq Jobs /\ doomed \subseteq Jobs

\* A worker has claimed j to run it.
Running(j) == \E w \in Workers : task[w][j] \notin {NoTask, NoToken}

\* A model call starts only when every job in depends_on has been completed,
\* whatever happened to those rows since: they may be removed, and cancelled by
\* a cancel that read them before they ended.
NoEarlyStart == \A j \in Jobs : Running(j) => Deps[j] \subseteq finished

\* The phases of a label group do not overlap, when they are submitted in order:
\* while a job runs, each peer with an earlier label has been completed or does
\* not exist any more.
PhasesInOrder ==
  \A j \in Jobs : Running(j) =>
    \A p \in Earlier(j) : p \in finished \/ ~Exists(p)

\* A process holds slots for its tasks in flight and for the job it awaits a permit
\* for, and for nothing else; and it never has more of them than a key's limit.
InFlight(w) == {j \in Jobs : task[w][j] # NoTask}
SlotsHeld ==
  \A w \in Workers :
    /\ reserved[w] = InFlight(w) \cup {j \in {gate[w].job} : gate[w].step = "permit"}
    /\ \A k \in DOMAIN SlotLimit : CountIn(reserved[w], k) =< SlotLimit[k]

\* Ancestors, by either kind of waiting: all that j waits for, what they wait for,
\* and so on.
WaitsFor(j) == Deps[j] \cup Earlier(j)
Ancestors(j) ==
  {a \in Jobs : \A S \in SUBSET Jobs :
     WaitsFor(j) \subseteq S /\ (\A k \in S : WaitsFor(k) \subseteq S) => a \in S}

\* A job that was failed or cancelled without a run of its own has a reason: an
\* ancestor that was failed, cancelled or deleted, or that does not exist and will
\* not come with the rest of the batch; a cycle; or somebody asked for its
\* cancellation, as the roll-back of a batch does, for earlier jobs too that have
\* an item's key.  No row is failed because a dependency is yet to be submitted
\* by its batch.
YetToCome(j) == batch.step = "submit" /\ \E n \in DOMAIN batch.todo : batch.todo[n] = j
Asked(j) ==
  \/ \E c \in Callers : j \in Calls[c]
  \/ batch.step # "submit" /\ \E i \in Locals : j \in SameIdem(i) \cup {i}
NeverFailedForNothing ==
  [][\A j \in Jobs :
       rows[j].status \notin {"failed", "cancelled"}
         /\ rows'[j].status \in {"failed", "cancelled"}
       => \/ Running(j) \/ Asked(j) \/ j \in Ancestors(j)
          \/ \E a \in Ancestors(j) : a \in doomed \/ ~(Exists(a) \/ YetToCome(a))]_vars

\* When submit_batch raises, none of its items is left in the table.
FailedBatchLeavesNothing ==
  batch.step = "raised" => \A i \in Locals : ~Exists(i)

\* Every queued job ends, or is deleted, for good: it runs, or learns that it
\* cannot; a delayed row that a cascade could not claim is failed by the poll
\* later; and what waits for slots gets them.
EverySettles == <>[](\A j \in Jobs : ~Pending(j))
=============================================================================
