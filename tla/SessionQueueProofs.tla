------------------------- MODULE SessionQueueProofs -------------------------
(***************************************************************************)
(* Proofs about SessionQueue, for any tasks, keys, priorities and workers. *)
(*                                                                         *)
(* What the queue relies on and never states: a key is busy from the claim *)
(* of a task until that task's worker is back in its finally clause, and   *)
(* no two workers are in that stretch with one key; so to free the key is  *)
(* not to free somebody else's.                                            *)
(***************************************************************************)
EXTENDS SessionQueue, TLAPS

Holding(w) == worker[w].pc \in {"run", "release", "dying"}

\* A worker between its claim and its release keeps the key busy, alone.
KeysHeld ==
  \A w \in Workers :
    Holding(w) /\ Key[worker[w].task] # NoKey
      => /\ Key[worker[w].task] \in busy
         /\ \A v \in Workers :
              Holding(v) /\ Key[worker[v].task] = Key[worker[w].task] => v = w

\* A task is in one place: in the heap, with one worker, or ended.
OnePlace ==
  /\ heap \cap ended = {}
  /\ \A w \in Workers : worker[w].pc = "run" =>
       /\ worker[w].task \notin heap \cup ended
       /\ \A v \in Workers :
            worker[v].pc = "run" /\ worker[v].task = worker[w].task => v = w

\* A task that was accepted has a number.
Numbered == \A t \in heap \cup Running \cup ended : seq[t] # 0

QueueInv == TypeOK /\ KeysHeld /\ OnePlace /\ Numbered

-----------------------------------------------------------------------------

LEMMA InitInv == Init => QueueInv /\ Running = {}
<1> SUFFICES ASSUME Init PROVE QueueInv /\ Running = {}
  OBVIOUS
<1>1. \A w \in Workers : worker[w] = [pc |-> "idle", task |-> None]
  BY DEF Init, Idle
<1>2. worker \in [Workers -> [pc : {"idle", "left", "killed"}, task : {None}]]
  BY DEF Init, Idle
<1>3. TypeOK
  <2>1. worker \in [Workers ->
          [pc : {"run", "release", "dying"}, task : Tasks]
            \cup [pc : {"idle", "left", "killed"}, task : {None}]]
    BY <1>2
  <2>2. seq \in [Tasks -> Nat] /\ next \in Nat \ {0} /\ killed \in Nat
    BY DEF Init
  <2> QED  BY <2>1, <2>2 DEF Init, TypeOK
<1>4. Running = {}
  BY <1>1 DEF Running
<1>5. KeysHeld /\ OnePlace
  BY <1>1 DEF Init, KeysHeld, OnePlace, Holding
<1> QED  BY <1>3, <1>4, <1>5 DEF QueueInv, Numbered, Init

LEMMA SubmitInv ==
  ASSUME QueueInv, NEW t \in Tasks, Submit(t)
  PROVE  QueueInv' /\ Running' = Running /\ t \notin heap \cup Running \cup ended
<1>1. TypeOK'
  BY DEF QueueInv, TypeOK, Submit
<1>2. Running' = Running
  BY DEF Submit, Running
<1>3. t \notin heap \cup Running \cup ended
  BY DEF QueueInv, Numbered, Submit
<1>4. KeysHeld'
  BY DEF QueueInv, KeysHeld, Holding, Submit
<1>5. OnePlace'
  BY <1>3 DEF QueueInv, OnePlace, Submit, Running
<1>6. Numbered'
  <2>1. heap' \cup Running' \cup ended' = (heap \cup Running \cup ended) \cup {t}
    BY <1>2 DEF Submit
  <2>2. seq'[t] # 0 /\ \A u \in Tasks \ {t} : seq'[u] = seq[u]
    BY DEF QueueInv, TypeOK, Submit
  <2>3. heap \cup Running \cup ended \subseteq Tasks
    BY DEF QueueInv, TypeOK, Running
  <2> QED  BY <2>1, <2>2, <2>3 DEF QueueInv, Numbered
<1> QED  BY <1>1, <1>2, <1>3, <1>4, <1>5, <1>6 DEF QueueInv

LEMMA CloseInv ==
  ASSUME QueueInv, Close
  PROVE  QueueInv' /\ Running' = Running
<1>1. Running' = Running
  BY DEF Close, Running
<1> QED
  BY <1>1 DEF Close, QueueInv, TypeOK, KeysHeld, Holding, OnePlace, Numbered

\* Claim: the task leaves the heap for the worker, whose key was free.
LEMMA ClaimInv ==
  ASSUME QueueInv, NEW w \in Workers, NEW t \in heap,
         worker[w].pc = "idle", Free(t),
         heap' = heap \ {t},
         busy' = IF Key[t] = NoKey THEN busy ELSE busy \cup {Key[t]},
         worker' = [worker EXCEPT ![w] = [pc |-> "run", task |-> t]],
         UNCHANGED <<seq, next, closed, ended, killed>>
  PROVE  QueueInv' /\ Running' = Running \cup {t} /\ t \in Tasks
<1>1. t \in Tasks /\ t \notin ended /\ t \notin Running
  BY DEF QueueInv, TypeOK, OnePlace, Running
<1>2. /\ worker'[w] = [pc |-> "run", task |-> t]
      /\ \A v \in Workers \ {w} : worker'[v] = worker[v]
  BY DEF QueueInv, TypeOK
<1>3. Running' = Running \cup {t}
  BY <1>2 DEF Running
<1>4. TypeOK'
  <2>1. worker' \in [Workers ->
          [pc : {"run", "release", "dying"}, task : Tasks]
            \cup [pc : {"idle", "left", "killed"}, task : {None}]]
    BY <1>1 DEF QueueInv, TypeOK
  <2>2. busy' \subseteq {Key[u] : u \in Tasks} \ {NoKey}
    BY <1>1 DEF QueueInv, TypeOK
  <2> QED  BY <2>1, <2>2 DEF QueueInv, TypeOK
<1>5. KeysHeld'
  <2> SUFFICES ASSUME NEW v \in Workers, Holding(v)', Key[worker'[v].task] # NoKey
               PROVE  /\ Key[worker'[v].task] \in busy'
                      /\ \A u \in Workers :
                           Holding(u)' /\ Key[worker'[u].task] = Key[worker'[v].task]
                             => u = v
    BY DEF KeysHeld
  <2>1. \A u \in Workers \ {w} : Holding(u)' => Holding(u)
    BY <1>2 DEF Holding
  <2>2. CASE v = w
    <3>1. Key[t] # NoKey /\ Key[t] \notin busy
      BY <2>2, <1>2 DEF Free
    <3>2. \A u \in Workers \ {w} : Holding(u)' => Key[worker'[u].task] # Key[t]
      BY <3>1, <2>1, <1>2 DEF QueueInv, KeysHeld
    <3> QED  BY <2>2, <1>2, <3>1, <3>2
  <2>3. CASE v # w
    <3>1. Holding(v) /\ worker'[v] = worker[v] /\ Key[worker[v].task] \in busy
      BY <2>1, <2>3, <1>2 DEF QueueInv, KeysHeld
    <3>2. Key[t] # Key[worker[v].task]
      BY <3>1, <1>2 DEF Free
    <3>3. ASSUME NEW u \in Workers, Holding(u)',
                 Key[worker'[u].task] = Key[worker'[v].task]
          PROVE  u = v
      <4>1. u # w
        BY <3>1, <3>2, <3>3, <1>2
      <4> QED  BY <4>1, <3>1, <3>3, <2>1, <1>2 DEF QueueInv, KeysHeld
    <3> QED  BY <3>1, <3>3
  <2> QED  BY <2>2, <2>3
<1>6. OnePlace'
  <2>1. ASSUME NEW v \in Workers, worker'[v].pc = "run"
        PROVE  /\ worker'[v].task \notin heap' \cup ended'
               /\ \A u \in Workers :
                    worker'[u].pc = "run" /\ worker'[u].task = worker'[v].task
                      => u = v
    BY <1>1, <1>2, <2>1 DEF QueueInv, OnePlace, Running
  <2> QED  BY <2>1 DEF QueueInv, OnePlace
<1>7. Numbered'
  BY <1>3 DEF QueueInv, Numbered
<1> QED  BY <1>1, <1>3, <1>4, <1>5, <1>6, <1>7 DEF QueueInv

\* The call of w's task is over; its key stays busy.
LEMMA EndInv ==
  ASSUME QueueInv, NEW w \in Workers, NEW p \in {"release", "dying"},
         worker[w].pc = "run",
         ended' = ended \cup {worker[w].task},
         worker' = [worker EXCEPT ![w].pc = p],
         killed' \in {killed, killed + 1},
         UNCHANGED <<heap, seq, next, busy, closed>>
  PROVE  /\ QueueInv'
         /\ worker[w].task \in Running
         /\ Running' = Running \ {worker[w].task}
<1> DEFINE t == worker[w].task
<1>1. /\ worker'[w] = [pc |-> p, task |-> t]
      /\ \A v \in Workers \ {w} : worker'[v] = worker[v]
      /\ t \in Tasks
  BY DEF QueueInv, TypeOK
<1>2. Running' = Running \ {t} /\ t \in Running
  BY <1>1 DEF QueueInv, OnePlace, Running
<1>3. TypeOK'
  BY <1>1 DEF QueueInv, TypeOK
<1>4. KeysHeld'
  <2>1. \A v \in Workers :
          (Holding(v)' <=> Holding(v)) /\ worker'[v].task = worker[v].task
    BY <1>1 DEF Holding
  <2> QED  BY <2>1 DEF QueueInv, KeysHeld
<1>5. OnePlace'
  <2>1. \A v \in Workers : worker'[v].pc = "run" =>
          v # w /\ worker[v].pc = "run" /\ worker'[v].task = worker[v].task
    BY <1>1
  <2>2. heap' \cap ended' = {}
    BY DEF QueueInv, OnePlace
  <2>3. \A v \in Workers : worker'[v].pc = "run" =>
          worker'[v].task \notin heap' \cup ended'
    BY <2>1 DEF QueueInv, OnePlace
  <2> QED  BY <2>1, <2>2, <2>3 DEF QueueInv, OnePlace
<1>6. Numbered'
  <2>1. heap' \cup Running' \cup ended' = heap \cup Running \cup ended
    BY <1>2
  <2> QED  BY <2>1 DEF QueueInv, Numbered
<1> QED  BY <1>2, <1>3, <1>4, <1>5, <1>6 DEF QueueInv

\* The finally clause frees a key that no other worker holds.
LEMMA ReleaseInv ==
  ASSUME QueueInv, NEW w \in Workers, Release(w)
  PROVE  QueueInv' /\ Running' = Running
<1>1. /\ worker'[w].pc \in {"idle", "killed"} /\ worker'[w].task = None
      /\ \A v \in Workers \ {w} : worker'[v] = worker[v]
      /\ worker[w].pc \in {"release", "dying"}
  BY DEF Release, Idle, QueueInv, TypeOK
<1>2. Running' = Running
  BY <1>1 DEF Running
<1>3. TypeOK'
  <2>1. worker' \in [Workers ->
          [pc : {"run", "release", "dying"}, task : Tasks]
            \cup [pc : {"idle", "left", "killed"}, task : {None}]]
    BY DEF Release, Idle, QueueInv, TypeOK
  <2> QED  BY <2>1 DEF Release, QueueInv, TypeOK
<1>4. KeysHeld'
  <2> SUFFICES ASSUME NEW v \in Workers, Holding(v)', Key[worker'[v].task] # NoKey
               PROVE  /\ Key[worker'[v].task] \in busy'
                      /\ \A u \in Workers :
                           Holding(u)' /\ Key[worker'[u].task] = Key[worker'[v].task]
                             => u = v
    BY DEF KeysHeld
  <2>1. \A u \in Workers : Holding(u)' =>
          u # w /\ Holding(u) /\ worker'[u] = worker[u]
    BY <1>1 DEF Holding
  <2>2. Holding(w)
    BY <1>1 DEF Holding
  <2>3. Key[worker[v].task] \in busy /\ Key[worker[w].task] # Key[worker[v].task]
    BY <2>1, <2>2 DEF QueueInv, KeysHeld
  <2>4. Key[worker'[v].task] \in busy'
    BY <2>1, <2>3 DEF Release
  <2> QED  BY <2>1, <2>4 DEF QueueInv, KeysHeld
<1>5. OnePlace'
  BY <1>1 DEF Release, QueueInv, OnePlace
<1>6. Numbered'
  BY <1>2 DEF Release, QueueInv, Numbered
<1> QED  BY <1>2, <1>3, <1>4, <1>5, <1>6 DEF QueueInv

LEMMA LeaveInv ==
  ASSUME QueueInv, NEW w \in Workers, Leave(w)
  PROVE  QueueInv' /\ Running' = Running
<1>1. /\ worker'[w] = [pc |-> "left", task |-> None]
      /\ \A v \in Workers \ {w} : worker'[v] = worker[v]
      /\ worker[w].pc = "idle"
  BY DEF Leave, Idle, QueueInv, TypeOK
<1>2. Running' = Running
  BY <1>1 DEF Running
<1>3. TypeOK'
  BY DEF Leave, Idle, QueueInv, TypeOK
<1>4. KeysHeld'
  BY <1>1 DEF Leave, QueueInv, KeysHeld, Holding
<1>5. OnePlace'
  BY <1>1 DEF Leave, QueueInv, OnePlace
<1>6. Numbered'
  BY <1>2 DEF Leave, QueueInv, Numbered
<1> QED  BY <1>2, <1>3, <1>4, <1>5, <1>6 DEF QueueInv

-----------------------------------------------------------------------------

\* Every step keeps the invariant and is a step of the keyed queue, or leaves it
\* alone.
LEMMA StepRefines ==
  ASSUME QueueInv, [Next]_vars
  PROVE  QueueInv' /\ [Keyed!Next]_<<heap, Running, ended, seq, next>>
<1> USE DEF Keyed!Next
<1>1. CASE Close
  BY <1>1, CloseInv DEF Close
<1>2. ASSUME NEW t \in Tasks, Submit(t)
      PROVE  QueueInv' /\ [Keyed!Next]_<<heap, Running, ended, seq, next>>
  <2>1. Keyed!Accept(t)
    BY <1>2, SubmitInv DEF Keyed!Accept, Submit
  <2> QED  BY <1>2, <2>1, SubmitInv
<1>3. ASSUME NEW w \in Workers, Claim(w)
      PROVE  QueueInv' /\ [Keyed!Next]_<<heap, Running, ended, seq, next>>
  <2>1. PICK t \in heap :
          /\ worker[w].pc = "idle" /\ Free(t)
          /\ \A u \in heap : Free(u) => ~Ahead(u, t)
          /\ heap' = heap \ {t}
          /\ busy' = IF Key[t] = NoKey THEN busy ELSE busy \cup {Key[t]}
          /\ worker' = [worker EXCEPT ![w] = [pc |-> "run", task |-> t]]
          /\ UNCHANGED <<seq, next, closed, ended, killed>>
    BY <1>3 DEF Claim
  <2>2. QueueInv' /\ Running' = Running \cup {t} /\ t \in Tasks
    BY <2>1, ClaimInv
  <2>3. \A u \in Running : ~Keyed!SameKey(t, u)
    BY <2>1 DEF QueueInv, KeysHeld, Holding, Running, Free, Keyed!SameKey
  <2>4. \A u \in heap : Keyed!SameKey(t, u) => ~Keyed!Ahead(u, t)
    BY <2>1 DEF Free, Keyed!SameKey, Keyed!Ahead, Ahead
  <2>5. Keyed!Start(t)
    BY <2>1, <2>2, <2>3, <2>4 DEF Keyed!Start
  <2> QED  BY <2>2, <2>5
<1>4. ASSUME NEW w \in Workers, CallEnds(w) \/ CallKills(w)
      PROVE  QueueInv' /\ [Keyed!Next]_<<heap, Running, ended, seq, next>>
  <2>1. /\ QueueInv'
        /\ worker[w].task \in Running
        /\ Running' = Running \ {worker[w].task}
    <3>1. CASE CallEnds(w)
      BY <3>1, EndInv DEF CallEnds
    <3>2. CASE CallKills(w)
      BY <3>2, EndInv DEF CallKills
    <3> QED  BY <1>4, <3>1, <3>2
  <2>2. Keyed!End(worker[w].task)
    BY <1>4, <2>1 DEF Keyed!End, CallEnds, CallKills
  <2>3. worker[w].task \in Tasks
    BY <1>4 DEF CallEnds, CallKills, QueueInv, TypeOK
  <2> QED  BY <2>1, <2>2, <2>3
<1>5. ASSUME NEW w \in Workers, Release(w) \/ Leave(w)
      PROVE  QueueInv' /\ [Keyed!Next]_<<heap, Running, ended, seq, next>>
  <2>1. CASE Release(w)
    BY <2>1, ReleaseInv DEF Release
  <2>2. CASE Leave(w)
    BY <2>2, LeaveInv DEF Leave
  <2> QED  BY <1>5, <2>1, <2>2
<1>6. CASE UNCHANGED vars
  BY <1>6 DEF vars, QueueInv, TypeOK, KeysHeld, Holding, OnePlace, Numbered, Running
<1> QED
  BY <1>1, <1>2, <1>3, <1>4, <1>5, <1>6 DEF Next, Work

\* Every variable keeps its type; a busy key is one of some task.
THEOREM QueueTypes == Spec => []TypeOK
<1>1. QueueInv /\ [Next]_vars => QueueInv'
  BY StepRefines
<1>2. QueueInv => TypeOK
  BY DEF QueueInv
<1> QED  BY InitInv, <1>1, <1>2, PTL DEF Spec

\* The queue of worker threads, with its busy set and its finally clause,
\* implements the keyed queue of the docstring: one call per key at a time, in
\* the order of (priority, submission), for any number of tasks and workers.
THEOREM QueueRefines == Spec => ImplementsKeyedQueue
<1>1. Init => Keyed!Init
  BY InitInv DEF Init, Keyed!Init
<1>2. QueueInv /\ [Next]_vars
        => QueueInv' /\ [Keyed!Next]_<<heap, Running, ended, seq, next>>
  BY StepRefines
<1> QED
  BY InitInv, <1>1, <1>2, PTL DEF Spec, ImplementsKeyedQueue, Keyed!Spec
=============================================================================
