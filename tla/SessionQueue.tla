---------------------------- MODULE SessionQueue ----------------------------
(***************************************************************************)
(* SessionPriorityQueue: a heap under one condition variable, and worker   *)
(* threads that claim the first task whose key is not busy, run it outside *)
(* the lock and free its key afterwards.                                   *)
(*                                                                         *)
(* Every wait on the condition has a timeout of a second, so an idle       *)
(* worker may look again at any time, notified or not: a worker that waits *)
(* is one that has not claimed yet.                                        *)
(***************************************************************************)
EXTENDS Naturals, FiniteSets

CONSTANTS
  Tasks, Workers,
  Key, NoKey, Prio,
  None,       \* no task
  MaxKilled   \* bound: tasks that end their thread (SystemExit)

ASSUME NoneAssumption == None \notin Tasks
ASSUME PrioAssumption == Prio \in [Tasks -> Nat]
ASSUME KilledAssumption == MaxKilled \in Nat

VARIABLES
  heap,     \* tasks accepted and not claimed
  seq,      \* seq[t]: what next(self._seq) gave to t
  next,     \* the next such number
  busy,     \* keys with a task in progress
  closed,
  worker,   \* worker[w]: its step and the task it claimed
  ended,    \* history: tasks whose call has ended
  killed    \* worker threads ended by a task

vars == <<heap, seq, next, busy, closed, worker, ended, killed>>

Idle == [pc |-> "idle", task |-> None]

Ahead(t, u) == Prio[t] < Prio[u] \/ (Prio[t] = Prio[u] /\ seq[t] < seq[u])

Free(t) == Key[t] = NoKey \/ Key[t] \notin busy

\* submit; on a closed queue it raises.
Submit(t) ==
  /\ seq[t] = 0 /\ ~closed
  /\ heap' = heap \cup {t}
  /\ seq' = [seq EXCEPT ![t] = next]
  /\ next' = next + 1
  /\ UNCHANGED <<busy, closed, worker, ended, killed>>

Close ==
  /\ ~closed
  /\ closed' = TRUE
  /\ UNCHANGED <<heap, seq, next, busy, worker, ended, killed>>

\* Mutant: the first free task is taken without regard to the order.
ClaimAnyFree(w) ==
  /\ worker[w].pc = "idle"
  /\ \E t \in heap :
       /\ Free(t)
       /\ heap' = heap \ {t}
       /\ busy' = IF Key[t] = NoKey THEN busy ELSE busy \cup {Key[t]}
       /\ worker' = [worker EXCEPT ![w] = [pc |-> "run", task |-> t]]
  /\ UNCHANGED <<seq, next, closed, ended, killed>>

\* Mutant: a task without a key marks its missing key busy.
ClaimMarksNoKey(w) ==
  /\ worker[w].pc = "idle"
  /\ \E t \in heap :
       /\ Free(t)
       /\ \A u \in heap : Free(u) => ~Ahead(u, t)
       /\ heap' = heap \ {t}
       /\ busy' = busy \cup {Key[t]}
       /\ worker' = [worker EXCEPT ![w] = [pc |-> "run", task |-> t]]
  /\ UNCHANGED <<seq, next, closed, ended, killed>>

\* _claim: the first task of the heap whose key is free; those before it stay.
Claim(w) ==
  /\ worker[w].pc = "idle"
  /\ \E t \in heap :
       /\ Free(t)
       /\ \A u \in heap : Free(u) => ~Ahead(u, t)
       /\ heap' = heap \ {t}
       /\ busy' = IF Key[t] = NoKey THEN busy ELSE busy \cup {Key[t]}
       /\ worker' = [worker EXCEPT ![w] = [pc |-> "run", task |-> t]]
  /\ UNCHANGED <<seq, next, closed, ended, killed>>

\* The call returns or raises; an Exception is logged and counted.
CallEnds(w) ==
  /\ worker[w].pc = "run"
  /\ ended' = ended \cup {worker[w].task}
  /\ worker' = [worker EXCEPT ![w].pc = "release"]
  /\ UNCHANGED <<heap, seq, next, busy, closed, killed>>

\* It raises what is no Exception: the finally clause runs, the thread ends.
CallKills(w) ==
  /\ worker[w].pc = "run" /\ killed < MaxKilled
  /\ ended' = ended \cup {worker[w].task}
  /\ worker' = [worker EXCEPT ![w].pc = "dying"]
  /\ killed' = killed + 1
  /\ UNCHANGED <<heap, seq, next, busy, closed>>

\* Mutant: the key is freed on the normal path only.
ReleaseUnlessDying(w) ==
  /\ worker[w].pc \in {"release", "dying"}
  /\ busy' = IF worker[w].pc = "dying" THEN busy ELSE busy \ {Key[worker[w].task]}
  /\ worker' = [worker EXCEPT ![w] =
                  IF worker[w].pc = "dying" THEN [Idle EXCEPT !.pc = "killed"] ELSE Idle]
  /\ UNCHANGED <<heap, seq, next, closed, ended, killed>>

\* The finally clause takes the lock and frees the key.
Release(w) ==
  /\ worker[w].pc \in {"release", "dying"}
  /\ busy' = busy \ {Key[worker[w].task]}
  /\ worker' = [worker EXCEPT ![w] =
                  IF worker[w].pc = "dying" THEN [Idle EXCEPT !.pc = "killed"] ELSE Idle]
  /\ UNCHANGED <<heap, seq, next, closed, ended, killed>>

\* A worker leaves a closed queue when its heap is empty.
Leave(w) ==
  /\ worker[w].pc = "idle" /\ closed /\ heap = {}
  /\ worker' = [worker EXCEPT ![w] = [Idle EXCEPT !.pc = "left"]]
  /\ UNCHANGED <<heap, seq, next, busy, closed, ended, killed>>

Init ==
  /\ heap = {} /\ busy = {} /\ ended = {}
  /\ seq = [t \in Tasks |-> 0] /\ next = 1
  /\ closed = FALSE
  /\ worker = [w \in Workers |-> Idle]
  /\ killed = 0

Work(w) == Claim(w) \/ CallEnds(w) \/ Release(w) \/ Leave(w)

Next ==
  \/ Close
  \/ \E t \in Tasks : Submit(t)
  \/ \E w \in Workers : Work(w) \/ CallKills(w)

Spec == Init /\ [][Next]_vars

\* Threads run, and every task's call ends: the promises below are for tasks
\* that do.
FairSpec == Spec /\ \A w \in Workers : WF_vars(Work(w))

-----------------------------------------------------------------------------
(* Properties.                                                             *)

TypeOK ==
  /\ heap \subseteq Tasks /\ ended \subseteq Tasks
  /\ seq \in [Tasks -> Nat] /\ next \in Nat \ {0}
  /\ busy \subseteq {Key[t] : t \in Tasks} \ {NoKey}
  /\ closed \in BOOLEAN /\ killed \in Nat
  /\ worker \in [Workers ->
       [pc : {"run", "release", "dying"}, task : Tasks]
         \cup [pc : {"idle", "left", "killed"}, task : {None}]]

\* The tasks whose call is in progress.
Running == {worker[w].task : w \in {v \in Workers : worker[v].pc = "run"}}

\* The queue implements the keyed queue: one call per key at a time and in order.
\* The key is freed in a critical section of its own, after the call, and other
\* workers claim in between.
Keyed == INSTANCE KeyedQueue WITH pending <- heap, running <- Running
ImplementsKeyedQueue == Keyed!Spec

\* close() lets the workers finish what was accepted: every accepted task runs,
\* although a task ended its thread, as long as one worker thread is left.
EveryTaskEnds == \A t \in Tasks : t \in heap ~> t \in ended
=============================================================================
