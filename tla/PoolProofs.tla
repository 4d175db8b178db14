------------------------------ MODULE PoolProofs ------------------------------
(***************************************************************************)
(* The pool under jobs, preloader, Ollama and failures (Preload): its      *)
(* counters are the calls in progress, and warmth does not pile calls up.  *)
(* Attempts, stream files and followers over the same pool (Execution):    *)
(* types, retries that move on, and what a follower is told.  The          *)
(* preloader again: types, and what its plans never do.  For any number of *)
(* hosts, models, jobs and chunks.  The second part cites none of          *)
(* Preload's definitions or assumptions, the third none of Execution's.    *)
(***************************************************************************)
EXTENDS Preload, Execution, FiniteSetTheorems, WellFoundedInduction, TLAPS

-----------------------------------------------------------------------------
(* The choice of a host.                                                   *)

LEMMA LeastNumber ==
  ASSUME NEW T \in SUBSET Nat, T # {}
  PROVE  \E x \in T : \A y \in T : x =< y
<1>1. PICK x \in T : \A y \in T : ~(<<y, x>> \in OpToRel(<, Nat))
  BY WFMin, NatLessThanWellFounded
<1>2. \A y \in T : ~(y < x)
  BY <1>1 DEF OpToRel
<1> QED  BY <1>2

LEMMA LeastLoadedIs ==
  ASSUME inflight \in [Hosts -> Nat], NEW S \in SUBSET Hosts, S # {}
  PROVE  /\ LeastLoaded(S) \in S
         /\ \A k \in S : inflight[LeastLoaded(S)] =< inflight[k]
<1> DEFINE T == {inflight[h] : h \in S}
<1>1. PICK h \in S : \A k \in S : inflight[h] =< inflight[k]
  <2>1. T \in SUBSET Nat /\ T # {}
    OBVIOUS
  <2>2. PICK x \in T : \A y \in T : x =< y
    BY <2>1, LeastNumber
  <2> QED  BY <2>2
<1> DEFINE U == {k \in S : inflight[k] = inflight[h]}
<1>2. PICK g \in U : \A k \in U : g =< k
  <2>1. U \in SUBSET Nat /\ U # {}
    BY HostsAssumption
  <2> QED  BY <2>1, LeastNumber
<1>3. \A k \in S : \/ inflight[g] < inflight[k]
                   \/ inflight[g] = inflight[k] /\ g =< k
  BY <1>1, <1>2
<1>4. \E i \in S : \A k \in S : \/ inflight[i] < inflight[k]
                                \/ inflight[i] = inflight[k] /\ i =< k
  BY <1>2, <1>3
<1>5. /\ LeastLoaded(S) \in S
      /\ \A k \in S : \/ inflight[LeastLoaded(S)] < inflight[k]
                      \/ inflight[LeastLoaded(S)] = inflight[k]
  BY <1>4 DEF LeastLoaded
<1> QED  BY <1>5

\* The host that is picked has Spillover calls or more only if no host where the
\* model may run has fewer.
LEMMA PickSpills ==
  ASSUME inflight \in [Hosts -> Nat], NEW m
  PROVE  /\ Pick(m) \in Candidates(m) /\ Pick(m) \in Hosts
         /\ inflight[Pick(m)] >= Spillover =>
              \A k \in Hosts : cooling[m][k] = 0 => inflight[Pick(m)] =< inflight[k]
<1> DEFINE C == Candidates(m)
           warm == {h \in C : m \in Recent(h)}
           cold == C \ warm
<1>1. /\ C = Candidates(m) /\ C \in SUBSET Hosts /\ C # {}
      /\ \A k \in Hosts : cooling[m][k] = 0 => k \in C
  BY HostsAssumption DEF Candidates
<1>2. Spillover \in Nat
  BY PoolAssumption
<1>3. warm # {} => /\ LeastLoaded(warm) \in warm
                   /\ \A k \in warm : inflight[LeastLoaded(warm)] =< inflight[k]
  BY <1>1, LeastLoadedIs
<1>4. cold # {} => /\ LeastLoaded(cold) \in cold
                   /\ \A k \in cold : inflight[LeastLoaded(cold)] =< inflight[k]
  BY <1>1, LeastLoadedIs
<1>5. Pick(m) = CASE warm = {} -> LeastLoaded(cold)
                  [] warm # {} /\ cold # {} /\ inflight[LeastLoaded(warm)] >= Spillover
                       /\ inflight[LeastLoaded(cold)] < inflight[LeastLoaded(warm)]
                       -> LeastLoaded(cold)
                  [] OTHER -> LeastLoaded(warm)
  BY DEF Pick
<1> HIDE DEF C
<1>6. CASE warm = {}
  BY <1>1, <1>4, <1>5, <1>6
<1>7. CASE warm # {} /\ cold = {}
  BY <1>1, <1>3, <1>5, <1>7
<1>8. CASE warm # {} /\ cold # {}
  <2>1. /\ LeastLoaded(warm) \in C /\ LeastLoaded(cold) \in C
        /\ LeastLoaded(warm) \in Hosts /\ LeastLoaded(cold) \in Hosts
        /\ inflight[LeastLoaded(warm)] \in Nat /\ inflight[LeastLoaded(cold)] \in Nat
    BY <1>1, <1>3, <1>4, <1>8
  <2>2. CASE inflight[LeastLoaded(warm)] >= Spillover
               /\ inflight[LeastLoaded(cold)] < inflight[LeastLoaded(warm)]
    <3>1. Pick(m) = LeastLoaded(cold)
      BY <1>5, <1>8, <2>2
    <3>2. \A k \in C : k \in warm \/ k \in cold
      OBVIOUS
    <3>3. \A k \in C : inflight[LeastLoaded(cold)] =< inflight[k]
      BY <1>1, <1>3, <1>4, <1>8, <2>1, <2>2, <3>2
    <3> QED  BY <1>1, <2>1, <3>1, <3>3
  <2>3. CASE ~(inflight[LeastLoaded(warm)] >= Spillover
               /\ inflight[LeastLoaded(cold)] < inflight[LeastLoaded(warm)])
    <3>1. Pick(m) = LeastLoaded(warm)
      BY <1>5, <1>8, <2>3
    <3>2. inflight[LeastLoaded(warm)] >= Spillover =>
            \A k \in C : inflight[LeastLoaded(warm)] =< inflight[k]
      <4>1. \A k \in C : k \in warm \/ k \in cold
        OBVIOUS
      <4> QED  BY <1>1, <1>2, <1>3, <1>4, <1>8, <2>1, <2>3, <4>1
    <3> QED  BY <1>1, <2>1, <3>1, <3>2
  <2> QED  BY <2>2, <2>3
<1> QED  BY <1>6, <1>7, <1>8

-----------------------------------------------------------------------------
(* The counters.                                                           *)

LeasedBy(h) == {c \in Calls : lease[c] = h}

Counted ==
  /\ inflight \in [Hosts -> Nat]
  /\ lease \in [Calls -> Hosts \cup {NoHost}]
  /\ \A h \in Hosts : inflight[h] = Cardinality(LeasedBy(h))

LEMMA LeasedByFinite == \A h : IsFiniteSet(LeasedBy(h))
BY ModelAssumption, FS_Subset DEF LeasedBy

LEMMA LeaseCounts ==
  ASSUME Counted, NEW c \in Calls, Lease(c)
  PROVE  Counted'
<1>1. PICK h \in Hosts :
        /\ lease' = [lease EXCEPT ![c] = h]
        /\ inflight' = [inflight EXCEPT ![h] = @ + 1]
  BY PickSpills DEF Lease, Counted
<1>2. lease[c] = NoHost /\ NoHost \notin Hosts
  BY HostsAssumption DEF Lease, NoHost
<1>3. /\ inflight' \in [Hosts -> Nat] /\ lease' \in [Calls -> Hosts \cup {NoHost}]
      /\ inflight'[h] = inflight[h] + 1
      /\ \A g \in Hosts \ {h} : inflight'[g] = inflight[g]
  BY <1>1, <1>2 DEF Counted
<1>4. /\ LeasedBy(h)' = LeasedBy(h) \cup {c} /\ c \notin LeasedBy(h)
      /\ \A g \in Hosts \ {h} : LeasedBy(g)' = LeasedBy(g)
  BY <1>1, <1>2 DEF LeasedBy, Counted
<1>5. Cardinality(LeasedBy(h))' = Cardinality(LeasedBy(h)) + 1
  BY <1>4, LeasedByFinite, FS_AddElement
<1>6. \A g \in Hosts : inflight'[g] = Cardinality(LeasedBy(g))'
  BY <1>1, <1>3, <1>4, <1>5 DEF Counted
<1> QED  BY <1>3, <1>6 DEF Counted

LEMMA GiveBackCounts ==
  ASSUME Counted, NEW c \in Calls, GiveBack(c)
  PROVE  /\ Counted'
         /\ \A d \in Calls : lease'[d] \in {lease[d], NoHost}
<1>1. PICK h \in Hosts :
        /\ lease[c] = h
        /\ lease' = [lease EXCEPT ![c] = NoHost]
        /\ inflight' = [inflight EXCEPT ![h] = @ - 1]
  BY DEF GiveBack, Counted
<1>2. NoHost \notin Hosts
  BY HostsAssumption DEF NoHost
<1>3. /\ LeasedBy(h)' = LeasedBy(h) \ {c} /\ c \in LeasedBy(h)
      /\ \A g \in Hosts \ {h} : LeasedBy(g)' = LeasedBy(g)
  BY <1>1, <1>2 DEF LeasedBy, Counted
<1>4. /\ Cardinality(LeasedBy(h))' = Cardinality(LeasedBy(h)) - 1
      /\ Cardinality(LeasedBy(h))' \in Nat
  <2>1. Cardinality(LeasedBy(h) \ {c}) = Cardinality(LeasedBy(h)) - 1
    BY <1>3, LeasedByFinite, FS_RemoveElement
  <2>2. IsFiniteSet(LeasedBy(h) \ {c})
    BY LeasedByFinite, FS_RemoveElement
  <2>3. Cardinality(LeasedBy(h) \ {c}) \in Nat
    BY <2>2, FS_CardinalityType
  <2> QED  BY <1>3, <2>1, <2>3
<1>5. /\ inflight'[h] = inflight[h] - 1
      /\ \A g \in Hosts \ {h} : inflight'[g] = inflight[g]
  BY <1>1, <1>2 DEF Counted
<1>6. \A g \in Hosts : inflight'[g] = Cardinality(LeasedBy(g))'
  BY <1>1, <1>3, <1>4, <1>5 DEF Counted
<1>7. inflight' \in [Hosts -> Nat]
  <2>1. inflight[h] - 1 \in Nat
    BY <1>1, <1>4 DEF Counted
  <2> QED  BY <1>1, <1>2, <2>1 DEF Counted
<1>8. /\ lease' \in [Calls -> Hosts \cup {NoHost}]
      /\ \A d \in Calls : lease'[d] \in {lease[d], NoHost}
  BY <1>1 DEF Counted
<1> QED  BY <1>6, <1>7, <1>8 DEF Counted

-----------------------------------------------------------------------------
(* The system.                                                             *)

\* A step leases a host for one call, gives one back, or does neither.
LEMMA StepKinds ==
  ASSUME [Next]_vars
  PROVE  \/ \E c \in Calls : Lease(c) \/ GiveBack(c)
         \/ UNCHANGED <<inflight, lease>>
<1> USE DEF poolVars, preloadVars
<1>1. CASE UNCHANGED vars
  BY <1>1 DEF vars
<1>2. CASE TickStep
  BY <1>2
  DEF TickStep, ReadQueue, AskHost, SendAction, ActionDone, ActionFailed
<1>3. ASSUME NEW j \in Jobs, Submit(j) \/ Dispatch(j) \/ StartCall(j) \/ EndCall(j)
      PROVE  Lease(j) \/ GiveBack(j) \/ UNCHANGED <<inflight, lease>>
  BY <1>3 DEF Submit, Dispatch, StartCall, EndCall, Served, Failed, Abandoned
<1>4. ASSUME NEW h \in Hosts, Expire(h) PROVE UNCHANGED <<inflight, lease>>
  BY <1>4 DEF Expire
<1>5. CASE PassTime
  BY <1>5 DEF PassTime, PoolTick
<1> QED  BY <1>1, <1>2, <1>3, <1>4, <1>5, JobsAssumption DEF Next

LEMMA StepCounts == Counted /\ [Next]_vars => Counted'
<1> SUFFICES ASSUME Counted, [Next]_vars PROVE Counted'
  OBVIOUS
<1>1. CASE UNCHANGED <<inflight, lease>>
  BY <1>1 DEF Counted, LeasedBy
<1> QED  BY <1>1, StepKinds, LeaseCounts, GiveBackCounts

LEMMA InitCounts == Init => Counted
<1> SUFFICES ASSUME Init PROVE Counted
  OBVIOUS
<1>1. /\ inflight = [h \in Hosts |-> 0] /\ lease = [c \in Calls |-> NoHost]
      /\ NoHost \notin Hosts
  BY HostsAssumption DEF Init, PoolInit, NoHost
<1>2. \A h \in Hosts : LeasedBy(h) = {}
  BY <1>1 DEF LeasedBy
<1> QED  BY <1>1, <1>2, FS_EmptySet DEF Counted

\* The counter of a host is the number of calls that hold a lease of it, however
\* calls end and whatever the preloader does.
THEOREM LoadsCounted == Spec => []LoadsAreCalls
<1>1. Counted => LoadsAreCalls
  BY DEF Counted, LeasedBy, LoadsAreCalls
<1> QED  BY <1>1, InitCounts, StepCounts, PTL DEF Spec

\* A host with Spillover calls gets one more only if no host where the model may
\* run has fewer.
THEOREM WarmthSpills == Spec => SpillsOver
<1> DEFINE Spills(c) == LET h == lease'[c] IN
             lease[c] = NoHost /\ h # NoHost /\ inflight[h] >= Spillover =>
               \A k \in Hosts : cooling[Model[c]][k] = 0 => inflight[h] =< inflight[k]
<1>1. Counted /\ [Next]_vars => [\A c \in Calls : Spills(c)]_poolVars
  <2> SUFFICES ASSUME Counted, [Next]_vars, NEW c \in Calls PROVE Spills(c)
    OBVIOUS
  <2>1. ASSUME NEW d \in Calls, Lease(d) PROVE Spills(c)
    <3>1. lease'[c] = IF c = d THEN Pick(Model[d]) ELSE lease[c]
      BY <2>1 DEF Lease, Counted
    <3> QED  BY <3>1, PickSpills DEF Counted
  <2>2. ASSUME NEW d \in Calls, GiveBack(d) PROVE Spills(c)
    BY <2>2, GiveBackCounts
  <2>3. CASE UNCHANGED <<inflight, lease>>
    BY <2>3
  <2> QED  BY <2>1, <2>2, <2>3, StepKinds
<1> QED  BY <1>1, InitCounts, StepCounts, PTL DEF Spec, SpillsOver

-----------------------------------------------------------------------------
(* Attempts: where a retry goes.                                           *)

\* A host is avoided at least as long as a job has reason to avoid it.
Avoided ==
  /\ cooling \in [Models -> [Hosts -> 0 .. FailTicks]]
  /\ blamed \in [Calls -> [Hosts -> 0 .. FailTicks]]
  /\ \A c \in Calls, h \in Hosts : blamed[c][h] =< cooling[Model[c]][h]

\* What a step does to the pool and to the history.
LEMMA ExecKinds ==
  ASSUME [ExecNext]_execVars
  PROVE  \/ \E c \in Calls : Lease(c) /\ UNCHANGED blamed
         \/ \E c \in Calls : Served(c) /\ Forgive(lease[c], Model[c])
         \/ \E c \in Calls : Failed(c) /\ blamed' = [blamed EXCEPT ![c][lease[c]] = FailTicks]
         \/ \E c \in Calls : Abandoned(c) /\ UNCHANGED blamed
         \/ ExecTick
         \/ UNCHANGED <<poolVars, blamed>>
<1>1. ASSUME NEW c \in Calls, WorkerStep(c)
      PROVE  \/ Lease(c) /\ UNCHANGED blamed
             \/ Abandoned(c) /\ UNCHANGED blamed
             \/ UNCHANGED <<poolVars, blamed>>
  BY <1>1
  DEF WorkerStep, Claim, Attempt, CallExpires, Wake, StoreResult, Interrupted
<1>2. ASSUME NEW c \in Calls, Chunk(c) \/ CancelRow(c) \/ CancelStream(c)
      PROVE  UNCHANGED <<poolVars, blamed>>
  BY <1>2 DEF Chunk, CancelRow, CancelStream
<1>3. ASSUME NEW c \in Calls, CallReturns(c)
      PROVE  Served(c) /\ Forgive(lease[c], Model[c])
  BY <1>3 DEF CallReturns
<1>4. ASSUME NEW c \in Calls, CallRaises(c)
      PROVE  Failed(c) /\ blamed' = [blamed EXCEPT ![c][lease[c]] = FailTicks]
  BY <1>4 DEF CallRaises
<1>5. ASSUME NEW c \in Streamed, Follow(c)
      PROVE  UNCHANGED <<poolVars, blamed>>
  BY <1>5 DEF Follow, FollowTail, FollowRow, FollowLast
<1>6. CASE UNCHANGED execVars
  BY <1>6 DEF execVars
<1> QED  BY <1>1, <1>2, <1>3, <1>4, <1>5, <1>6 DEF ExecNext

\* A step of Execution leases a host for one call, gives one back, or neither.
LEMMA ExecCounts == Counted /\ [ExecNext]_execVars => Counted'
<1> SUFFICES ASSUME Counted, [ExecNext]_execVars PROVE Counted'
  OBVIOUS
<1>1. CASE UNCHANGED <<inflight, lease>>
  BY <1>1 DEF Counted, LeasedBy
<1>2. ExecTick => UNCHANGED <<inflight, lease>>
  BY DEF ExecTick, PoolTick
<1> QED
  BY <1>1, <1>2, ExecKinds, LeaseCounts, GiveBackCounts
  DEF Served, Failed, Abandoned, poolVars

LEMMA AvoidedStep == Counted /\ Avoided /\ [ExecNext]_execVars => Avoided'
<1> SUFFICES ASSUME Counted, Avoided, [ExecNext]_execVars PROVE Avoided'
  OBVIOUS
<1>0. /\ FailTicks \in Nat /\ \A c \in Calls : Model[c] \in Models
      /\ \A c \in Calls, h \in Hosts :
           /\ blamed[c][h] \in 0 .. FailTicks
           /\ cooling[Model[c]][h] \in 0 .. FailTicks
           /\ blamed[c][h] =< cooling[Model[c]][h]
  BY PoolAssumption, ModelAssumption DEF Avoided
<1>1. ASSUME NEW c \in Calls, GiveBack(c) PROVE lease[c] \in Hosts
  BY <1>1 DEF GiveBack, Counted
<1>2. ASSUME NEW c \in Calls, Served(c), Forgive(lease[c], Model[c])
      PROVE  Avoided'
  <2> DEFINE h == lease[c]
  <2>1. h \in Hosts
    BY <1>1, <1>2 DEF Served
  <2>2. cooling' = [cooling EXCEPT ![Model[c]][h] = 0]
    BY <1>2 DEF Served, Cooling
  <2>3. blamed' = [k \in Calls |-> [g \in Hosts |->
                     IF g = h /\ Model[k] = Model[c] THEN 0 ELSE blamed[k][g]]]
    BY <1>2 DEF Forgive
  <2>4. \A m \in Models, g \in Hosts :
          cooling'[m][g] = IF g = h /\ m = Model[c] THEN 0 ELSE cooling[m][g]
    BY <1>0, <2>1, <2>2 DEF Avoided
  <2>5. cooling' \in [Models -> [Hosts -> 0 .. FailTicks]]
    BY <1>0, <2>1, <2>2 DEF Avoided
  <2>6. blamed' \in [Calls -> [Hosts -> 0 .. FailTicks]]
    BY <1>0, <2>3
  <2> HIDE DEF h
  <2>7. \A k \in Calls, g \in Hosts : blamed'[k][g] =< cooling'[Model[k]][g]
    BY <1>0, <2>3, <2>4
  <2> QED  BY <2>5, <2>6, <2>7 DEF Avoided
<1>3. ASSUME NEW c \in Calls, Failed(c),
             blamed' = [blamed EXCEPT ![c][lease[c]] = FailTicks]
      PROVE  Avoided'
  <2> DEFINE h == lease[c]
  <2>1. h \in Hosts
    BY <1>1, <1>3 DEF Failed
  <2>2. cooling' = [cooling EXCEPT ![Model[c]][h] = FailTicks]
    BY <1>3 DEF Failed, Cooling
  <2>3. \A m \in Models, g \in Hosts :
          cooling'[m][g] = IF g = h /\ m = Model[c] THEN FailTicks ELSE cooling[m][g]
    BY <1>0, <2>1, <2>2 DEF Avoided
  <2>4. \A k \in Calls, g \in Hosts :
          blamed'[k][g] = IF g = h /\ k = c THEN FailTicks ELSE blamed[k][g]
    BY <1>0, <1>3, <2>1 DEF Avoided
  <2>5. cooling' \in [Models -> [Hosts -> 0 .. FailTicks]]
    BY <1>0, <2>1, <2>2 DEF Avoided
  <2>6. blamed' \in [Calls -> [Hosts -> 0 .. FailTicks]]
    BY <1>0, <1>3, <2>1 DEF Avoided
  <2> HIDE DEF h
  <2>7. \A k \in Calls, g \in Hosts : blamed'[k][g] =< cooling'[Model[k]][g]
    BY <1>0, <2>3, <2>4
  <2> QED  BY <2>5, <2>6, <2>7 DEF Avoided
<1>4. CASE UNCHANGED <<cooling, blamed>>
  BY <1>4 DEF Avoided
<1>5. CASE ExecTick
  <2>1. /\ cooling' = [m \in Models |-> [h \in Hosts |->
                        IF cooling[m][h] > 0 THEN cooling[m][h] - 1 ELSE 0]]
        /\ blamed' = [c \in Calls |-> [h \in Hosts |->
                        IF blamed[c][h] > 0 THEN blamed[c][h] - 1 ELSE 0]]
    BY <1>5 DEF ExecTick, PoolTick
  <2>2. \A m \in Models, h \in Hosts : cooling[m][h] \in 0 .. FailTicks
    BY DEF Avoided
  <2>3. cooling' \in [Models -> [Hosts -> 0 .. FailTicks]]
    BY <1>0, <2>1, <2>2
  <2>4. blamed' \in [Calls -> [Hosts -> 0 .. FailTicks]]
    BY <1>0, <2>1
  <2>5. \A k \in Calls, g \in Hosts : blamed'[k][g] =< cooling'[Model[k]][g]
    BY <1>0, <2>1
  <2> QED  BY <2>3, <2>4, <2>5 DEF Avoided
<1> QED
  BY <1>2, <1>3, <1>4, <1>5, ExecKinds DEF Lease, Abandoned, poolVars

LEMMA ExecInitAvoided == ExecInit => Counted /\ Avoided
<1> SUFFICES ASSUME ExecInit PROVE Counted /\ Avoided
  OBVIOUS
<1>1. /\ inflight = [h \in Hosts |-> 0] /\ lease = [c \in Calls |-> NoHost]
      /\ cooling = [m \in Models |-> [h \in Hosts |-> 0]]
      /\ blamed = [c \in Calls |-> [h \in Hosts |-> 0]]
      /\ NoHost \notin Hosts
  BY HostsAssumption DEF ExecInit, PoolInit, NoHost
<1>2. \A h \in Hosts : LeasedBy(h) = {}
  BY <1>1 DEF LeasedBy
<1>3. Counted
  BY <1>1, <1>2, FS_EmptySet DEF Counted
<1>4. Avoided
  BY <1>1, PoolAssumption, ModelAssumption DEF Avoided
<1> QED  BY <1>3, <1>4

\* An attempt does not go back to a host on which the job's earlier attempt raised,
\* for as long as the host is to be avoided, unless a call there succeeded since or
\* the model fails everywhere.
THEOREM RetriesElsewhere == ExecSpec => RetriesMoveOn
<1> DEFINE MovesOn(c) == LET h == lease'[c] IN
             lease[c] = NoHost /\ h # NoHost /\ blamed[c][h] > 0 =>
               \A k \in Hosts : cooling[Model[c]][k] > 0
<1>1. Counted /\ Avoided /\ [ExecNext]_execVars => [\A c \in Calls : MovesOn(c)]_execVars
  <2> SUFFICES ASSUME Counted, Avoided, [ExecNext]_execVars, NEW c \in Calls
               PROVE  MovesOn(c)
    OBVIOUS
  <2>1. ASSUME NEW d \in Calls, Lease(d) PROVE MovesOn(c)
    <3>1. lease'[c] = IF c = d THEN Pick(Model[d]) ELSE lease[c]
      BY <2>1 DEF Lease, Counted
    <3>2. /\ Pick(Model[c]) \in Hosts /\ Pick(Model[c]) \in Candidates(Model[c])
          /\ Model[c] \in Models /\ FailTicks \in Nat
      BY PickSpills, ModelAssumption, PoolAssumption DEF Counted
    <3>3. \A h \in Hosts : /\ cooling[Model[c]][h] \in 0 .. FailTicks
                           /\ blamed[c][h] \in 0 .. FailTicks
                           /\ blamed[c][h] =< cooling[Model[c]][h]
      BY <3>2 DEF Avoided
    <3>4. cooling[Model[c]][Pick(Model[c])] > 0 =>
            \A k \in Hosts : cooling[Model[c]][k] > 0
      BY <3>2, <3>3 DEF Candidates
    <3> QED  BY <3>1, <3>2, <3>3, <3>4
  <2>2. ASSUME NEW d \in Calls, GiveBack(d) PROVE MovesOn(c)
    BY <2>2, GiveBackCounts
  <2>3. CASE UNCHANGED lease
    BY <2>3
  <2> QED
    BY <2>1, <2>2, <2>3, ExecKinds
    DEF Served, Failed, Abandoned, ExecTick, PoolTick, poolVars
<1> QED  BY <1>1, ExecInitAvoided, ExecCounts, AvoidedStep, PTL DEF ExecSpec, RetriesMoveOn

-----------------------------------------------------------------------------
(* The types of the pool.                                                  *)

RecentTyped ==
  /\ recent \in [Hosts -> Seq(Models)]
  /\ \A h \in Hosts : Len(recent[h]) =< WarmCapacity

\* deque.remove leaves a shorter list of the same things.
LEMMA RemoveFirstIs ==
  ASSUME NEW S, NEW s \in Seq(S), NEW m
  PROVE  Lists!RemoveFirst(s, m) \in Seq(S)
<1> DEFINE I == {i \in 1 .. Len(s) : s[i] = m}
           at == Lists!Min(I)
<1>1. CASE I = {}
  BY <1>1 DEF Lists!RemoveFirst
<1>2. CASE I # {}
  <2>1. I \in SUBSET Nat
    OBVIOUS
  <2>2. at \in 1 .. Len(s)
    <3>1. \E x \in I : \A y \in I : x =< y
      BY <1>2, <2>1, LeastNumber
    <3> QED  BY <3>1 DEF Lists!Min
  <2>3. Lists!RemoveFirst(s, m) = SubSeq(s, 1, at - 1) \o SubSeq(s, at + 1, Len(s))
    BY <1>2 DEF Lists!RemoveFirst, Lists!RemoveAt, Lists!SelectInSeq
  <2> HIDE DEF at, I
  <2>4. SubSeq(s, 1, at - 1) \in Seq(S) /\ SubSeq(s, at + 1, Len(s)) \in Seq(S)
    BY <2>2
  <2> QED  BY <2>3, <2>4
<1> QED  BY <1>1, <1>2

LEMMA NoteTyped ==
  ASSUME RecentTyped, NEW h \in Hosts, NEW m \in Models, Note(h, m)
  PROVE  RecentTyped'
<1> DEFINE noted == <<m>> \o Lists!RemoveFirst(recent[h], m)
           n == IF Len(noted) > WarmCapacity THEN WarmCapacity ELSE Len(noted)
           kept == SubSeq(noted, 1, n)
<1>1. recent' = [recent EXCEPT ![h] = kept]
  BY DEF Note
<1>2. noted \in Seq(Models)
  <2>1. Lists!RemoveFirst(recent[h], m) \in Seq(Models)
    BY RemoveFirstIs DEF RecentTyped
  <2>2. <<m>> \in Seq(Models)
    OBVIOUS
  <2> QED  BY <2>1, <2>2
<1>3. kept \in Seq(Models) /\ Len(kept) =< WarmCapacity
  <2> HIDE DEF noted
  <2>1. n \in 0 .. Len(noted) /\ n =< WarmCapacity
    BY <1>2, PoolAssumption
  <2>2. kept \in Seq(Models) /\ Len(kept) = n
    BY <1>2, <2>1
  <2> QED  BY <2>1, <2>2
<1> HIDE DEF kept
<1> QED  BY <1>1, <1>3 DEF RecentTyped

-----------------------------------------------------------------------------
(* Execution, seen from one job.                                           *)

Statuses == {"queued", "processing"} \cup Terminal
AnyLine == {Done(s) : s \in Terminal} \cup {Junk} \cup {Text(t, i) : t \in Nat, i \in Nat}
Runs == [step : {"queued", "attempt", "call", "sleep", "store", "ended"},
         attempt : Nat, sent : Nat, outcome : {"none", "completed", "failed"}]
Views == [step : {"tail", "row", "last", "ended"}, offset : Nat,
          heard : SUBSET (AnyLine \cup {Output}),
          seen : Statuses \cup {"none"}, told : Statuses \cup {"none"}]

Shape ==
  /\ row \in [Calls -> Statuses]
  /\ run \in [Calls -> Runs]
  /\ file \in [Calls -> Seq(AnyLine)]
  /\ writer \in [Calls -> Nat \cup {NoWriter}]
  /\ cancel \in [Calls -> {"none", "here", "elsewhere", "told"}]
  /\ view \in [Streamed -> Views]
  /\ lease \in [Calls -> Hosts \cup {NoHost}]

\* What a step for one job leaves to the others.
Apart(c) ==
  /\ \A d \in Calls \ {c} :
       /\ row'[d] = row[d] /\ run'[d] = run[d] /\ file'[d] = file[d]
       /\ writer'[d] = writer[d] /\ cancel'[d] = cancel[d] /\ lease'[d] = lease[d]
  /\ \A d \in Streamed \ {c} : view'[d] = view[d]

\* What a write leaves: the old lines, the new one and spoilt ones.
LEMMA WrittenIs ==
  ASSUME NEW f \in Seq(AnyLine), NEW p \in Nat, NEW line \in AnyLine
  PROVE  /\ Written(f, p, line) \in Seq(AnyLine)
         /\ Len(Written(f, p, line)) = IF p < Len(f) THEN Len(f) ELSE p + 1
         /\ \A i \in 1 .. Len(Written(f, p, line)) :
              Written(f, p, line)[i] =
                IF i = p + 1 THEN IF p > Len(f) THEN Junk ELSE line
                ELSE IF i =< Len(f) THEN f[i] ELSE Junk
<1> DEFINE n == IF p < Len(f) THEN Len(f) ELSE p + 1
           at(i) == IF i = p + 1 THEN IF p > Len(f) THEN Junk ELSE line
                    ELSE IF i =< Len(f) THEN f[i] ELSE Junk
<1>1. Written(f, p, line) = [i \in 1 .. n |-> at(i)]
  BY DEF Written
<1>2. n \in Nat
  OBVIOUS
<1>3. \A i \in 1 .. n : at(i) \in AnyLine
  <2>1. Junk \in AnyLine
    BY DEF AnyLine
  <2> QED  BY <2>1
<1> HIDE DEF n, at
<1>4. /\ [i \in 1 .. n |-> at(i)] \in Seq(AnyLine)
      /\ Len([i \in 1 .. n |-> at(i)]) = n
  BY <1>2, <1>3
<1> QED  BY <1>1, <1>2, <1>4 DEF n, at

LEMMA WrittenAtEnd ==
  ASSUME NEW f \in Seq(AnyLine), NEW line \in AnyLine
  PROVE  /\ Len(Written(f, Len(f), line)) = Len(f) + 1
         /\ \A i \in 1 .. Len(f) : Written(f, Len(f), line)[i] = f[i]
         /\ Written(f, Len(f), line)[Len(f) + 1] = line
<1> DEFINE n == Len(f)
<1>1. n \in Nat
  OBVIOUS
<1>2. Written(f, n, line) = [i \in 1 .. n + 1 |->
        IF i = n + 1 THEN line ELSE IF i =< n THEN f[i] ELSE Junk]
  BY DEF Written
<1> HIDE DEF n
<1>3. /\ Len(Written(f, n, line)) = n + 1
      /\ \A i \in 1 .. n : Written(f, n, line)[i] = f[i]
      /\ Written(f, n, line)[n + 1] = line
  BY <1>1, <1>2
<1> QED  BY <1>3 DEF n

LEMMA DoneLines ==
  /\ \A s \in Terminal : Done(s) \in AnyLine
  /\ \A t \in Nat, i \in Nat : Text(t, i) \in AnyLine
  /\ \A line \in AnyLine : IsDone(line) => \E s \in Terminal : line = Done(s)
  /\ \A s : Done(s)[1] = "done" /\ Done(s)[2] = s
  /\ \A t, i : Text(t, i)[1] = "text" /\ ~IsDone(Text(t, i))
  /\ ~IsDone(Junk)
BY DEF AnyLine, IsDone, Done, Text, Junk

Steps == {"queued", "attempt", "call", "sleep", "store", "ended"}

LEMMA RunsAre ==
  ASSUME NEW r \in Runs
  PROVE  /\ \A s \in Steps : [r EXCEPT !.step = s] \in Runs
         /\ \A s \in Steps, n \in Nat : /\ [r EXCEPT !.step = s, !.sent = n] \in Runs
                                       /\ [r EXCEPT !.step = s, !.attempt = n] \in Runs
         /\ \A s \in Steps, o \in {"completed", "failed"} :
              [r EXCEPT !.step = s, !.outcome = o] \in Runs
         /\ \A n \in Nat : [r EXCEPT !.sent = n] \in Runs
         /\ r.step \in Steps /\ r.attempt \in Nat /\ r.sent \in Nat
BY DEF Runs, Steps

LEMMA RunBecomes ==
  ASSUME Shape, NEW c \in Calls, NEW r \in Runs, run' = [run EXCEPT ![c] = r]
  PROVE  /\ run' \in [Calls -> Runs] /\ run'[c] = r
         /\ \A d \in Calls \ {c} : run'[d] = run[d]
BY DEF Shape

LEMMA ClaimOf ==
  ASSUME Shape, NEW c \in Calls, Claim(c)
  PROVE  /\ Shape' /\ Apart(c)
         /\ row[c] = "queued" /\ run[c].step = "queued"
         /\ row'[c] = "processing" /\ run'[c] = [run[c] EXCEPT !.step = "attempt"]
         /\ file'[c] = file[c] /\ writer'[c] = writer[c] /\ cancel'[c] = cancel[c]
         /\ lease'[c] = lease[c] /\ view' = view
<1>1. run' = [run EXCEPT ![c] = [run[c] EXCEPT !.step = "attempt"]]
  BY DEF Claim, GoTo
<1>2. /\ run' \in [Calls -> Runs]
      /\ run'[c] = [run[c] EXCEPT !.step = "attempt"]
      /\ \A d \in Calls \ {c} : run'[d] = run[d]
  BY <1>1, RunsAre, RunBecomes DEF Shape, Steps
<1> QED  BY <1>2 DEF Shape, Apart, Claim, At, poolVars, Statuses

LEMMA AttemptOf ==
  ASSUME Counted, Shape, NEW c \in Calls, Attempt(c)
  PROVE  /\ Shape' /\ Apart(c)
         /\ run[c].step = "attempt"
         /\ run'[c] = [run[c] EXCEPT !.step = "call", !.sent = 0]
         /\ c \in Streamed => file'[c] = NoFile /\ writer'[c] = 0
         /\ c \notin Streamed => file'[c] = file[c] /\ writer'[c] = writer[c]
         /\ row'[c] = row[c] /\ cancel'[c] = cancel[c]
         /\ lease'[c] \in Hosts /\ view' = view
<1>1. lease' = [lease EXCEPT ![c] = Pick(Model[c])] /\ Pick(Model[c]) \in Hosts
  BY PickSpills DEF Counted, Attempt, Lease
<1>2. lease' \in [Calls -> Hosts \cup {NoHost}] /\ lease'[c] \in Hosts
      /\ \A d \in Calls \ {c} : lease'[d] = lease[d]
  BY <1>1 DEF Shape
<1>3. NoFile \in Seq(AnyLine)
  BY DEF NoFile
<1>4. /\ file' \in [Calls -> Seq(AnyLine)] /\ writer' \in [Calls -> Nat \cup {NoWriter}]
      /\ \A d \in Calls \ {c} : file'[d] = file[d] /\ writer'[d] = writer[d]
      /\ c \in Streamed => file'[c] = NoFile /\ writer'[c] = 0
      /\ c \notin Streamed => file'[c] = file[c] /\ writer'[c] = writer[c]
  <2>1. CASE c \in Streamed
    <3>1. file' = [file EXCEPT ![c] = NoFile] /\ writer' = [writer EXCEPT ![c] = 0]
      BY <2>1 DEF Attempt, OpenStream
    <3> QED  BY <1>3, <2>1, <3>1 DEF Shape
  <2>2. CASE c \notin Streamed
    <3>1. file' = file /\ writer' = writer
      BY <2>2 DEF Attempt, OpenStream
    <3> QED  BY <2>2, <3>1 DEF Shape
  <2> QED  BY <2>1, <2>2
<1>5. /\ run' \in [Calls -> Runs]
      /\ run'[c] = [run[c] EXCEPT !.step = "call", !.sent = 0]
      /\ \A d \in Calls \ {c} : run'[d] = run[d]
  <2>1. run' = [run EXCEPT ![c].step = "call", ![c].sent = 0]
    BY DEF Attempt
  <2>2. run' = [run EXCEPT ![c] = [run[c] EXCEPT !.step = "call", !.sent = 0]]
    BY <2>1
  <2> QED  BY <2>2, RunsAre, RunBecomes DEF Shape, Steps
<1> QED  BY <1>2, <1>4, <1>5 DEF Shape, Apart, Attempt, At

\* The line that a finish writes, if it finds a writer.
Finished(c, status) ==
  IF writer[c] # NoWriter
  THEN file'[c] = Written(file[c], writer[c], Done(status)) /\ writer'[c] = NoWriter
  ELSE file'[c] = file[c] /\ writer'[c] = writer[c]

LEMMA FinishOf ==
  ASSUME Shape, NEW c \in Calls, NEW s \in Terminal, FinishStream(c, s)
  PROVE  /\ file' \in [Calls -> Seq(AnyLine)] /\ writer' \in [Calls -> Nat \cup {NoWriter}]
         /\ \A d \in Calls \ {c} : file'[d] = file[d] /\ writer'[d] = writer[d]
         /\ Finished(c, s)
<1>1. CASE writer[c] = NoWriter
  BY <1>1 DEF Shape, FinishStream, Finished
<1>2. CASE writer[c] # NoWriter
  <2>1. Written(file[c], writer[c], Done(s)) \in Seq(AnyLine)
    BY <1>2, WrittenIs, DoneLines DEF Shape
  <2>2. /\ file' = [file EXCEPT ![c] = Written(file[c], writer[c], Done(s))]
        /\ writer' = [writer EXCEPT ![c] = NoWriter]
    BY <1>2 DEF FinishStream
  <2> HIDE DEF FinishStream
  <2> QED  BY <1>2, <2>1, <2>2 DEF Shape, Finished
<1> QED  BY <1>1, <1>2

LEMMA ChunkOf ==
  ASSUME Shape, NEW c \in Calls, Chunk(c)
  PROVE  /\ Shape' /\ Apart(c)
         /\ run[c].step = "call" /\ c \in Streamed /\ run[c].sent < MaxChunks
         /\ run'[c] = [run[c] EXCEPT !.sent = @ + 1]
         /\ IF writer[c] # NoWriter
            THEN /\ file'[c] = Written(file[c], writer[c],
                                       Text(run[c].attempt, run[c].sent))
                 /\ writer'[c] = writer[c] + 1
            ELSE file'[c] = file[c] /\ writer'[c] = writer[c]
         /\ row'[c] = row[c] /\ cancel'[c] = cancel[c]
         /\ lease'[c] = lease[c] /\ view' = view
<1>1. run[c].attempt \in Nat /\ run[c].sent \in Nat
  BY DEF Shape, Runs
<1>2. writer[c] # NoWriter =>
        Written(file[c], writer[c], Text(run[c].attempt, run[c].sent)) \in Seq(AnyLine)
  BY <1>1, WrittenIs, DoneLines DEF Shape
<1>3. /\ run' \in [Calls -> Runs]
      /\ run'[c] = [run[c] EXCEPT !.sent = @ + 1]
      /\ \A d \in Calls \ {c} : run'[d] = run[d]
  <2>1. run' = [run EXCEPT ![c].sent = @ + 1]
    BY DEF Chunk
  <2>2. run' = [run EXCEPT ![c] = [run[c] EXCEPT !.sent = @ + 1]]
    BY <2>1
  <2>3. run[c].sent + 1 \in Nat /\ run[c] \in Runs
    BY <1>1 DEF Shape
  <2> QED  BY <2>2, <2>3, RunsAre, RunBecomes
<1>4. /\ file' \in [Calls -> Seq(AnyLine)] /\ writer' \in [Calls -> Nat \cup {NoWriter}]
      /\ \A d \in Calls \ {c} : file'[d] = file[d] /\ writer'[d] = writer[d]
      /\ IF writer[c] # NoWriter
         THEN /\ file'[c] = Written(file[c], writer[c],
                                    Text(run[c].attempt, run[c].sent))
              /\ writer'[c] = writer[c] + 1
         ELSE file'[c] = file[c] /\ writer'[c] = writer[c]
  <2>1. CASE writer[c] # NoWriter
    <3>1. /\ file' = [file EXCEPT ![c] =
                        Written(file[c], writer[c], Text(run[c].attempt, run[c].sent))]
          /\ writer' = [writer EXCEPT ![c] = writer[c] + 1]
      BY <2>1 DEF Chunk
    <3>2. writer[c] + 1 \in Nat
      BY <2>1 DEF Shape
    <3> QED  BY <1>2, <2>1, <3>1, <3>2 DEF Shape
  <2>2. CASE writer[c] = NoWriter
    <3>1. file' = file /\ writer' = writer
      BY <2>2 DEF Chunk
    <3> QED  BY <2>2, <3>1 DEF Shape
  <2> QED  BY <2>1, <2>2
<1> QED  BY <1>3, <1>4 DEF Shape, Apart, Chunk, At, poolVars

LEMMA ReturnsOf ==
  ASSUME Shape, NEW c \in Calls, CallReturns(c)
  PROVE  /\ Shape' /\ Apart(c)
         /\ run[c].step = "call"
         /\ run'[c] = [run[c] EXCEPT !.step = "store", !.outcome = "completed"]
         /\ Finished(c, "completed")
         /\ row'[c] = row[c] /\ cancel'[c] = cancel[c]
         /\ lease'[c] = NoHost /\ view' = view
<1>1. lease' = [lease EXCEPT ![c] = NoHost]
  BY DEF CallReturns, Served, GiveBack
<1>2. run' = [run EXCEPT ![c] =
                [run[c] EXCEPT !.step = "store", !.outcome = "completed"]]
  <2>1. run' = [run EXCEPT ![c].step = "store", ![c].outcome = "completed"]
    BY DEF CallReturns
  <2> QED  BY <2>1
<1>3. /\ file' \in [Calls -> Seq(AnyLine)] /\ writer' \in [Calls -> Nat \cup {NoWriter}]
      /\ \A d \in Calls \ {c} : file'[d] = file[d] /\ writer'[d] = writer[d]
      /\ Finished(c, "completed")
  BY FinishOf DEF CallReturns, Terminal
<1>4. row' = row /\ cancel' = cancel /\ view' = view /\ run[c].step = "call"
  BY DEF CallReturns, At
<1>5. /\ run' \in [Calls -> Runs]
      /\ run'[c] = [run[c] EXCEPT !.step = "store", !.outcome = "completed"]
      /\ \A d \in Calls \ {c} : run'[d] = run[d]
  BY <1>2, RunsAre, RunBecomes DEF Shape, Steps
<1> QED  BY <1>1, <1>2, <1>3, <1>4, <1>5 DEF Shape, Apart

LEMMA RaisedOf ==
  ASSUME Shape, NEW c \in Calls, NEW e, run[c].step = "call", AfterError(c, e), GiveBack(c),
         UNCHANGED <<row, cancel, view>>
  PROVE  /\ Shape' /\ Apart(c)
         /\ row'[c] = row[c] /\ cancel'[c] = cancel[c]
         /\ lease'[c] = NoHost /\ view' = view
         /\ \/ /\ run[c].attempt < Policy[c].retries
               /\ run'[c] = [run[c] EXCEPT !.step = "sleep"]
               /\ file'[c] = file[c] /\ writer'[c] = writer[c]
            \/ /\ run'[c] = [run[c] EXCEPT !.step = "store", !.outcome = "failed"]
               /\ Finished(c, "failed")
<1>1. lease' = [lease EXCEPT ![c] = NoHost]
  BY DEF GiveBack
<1>2. CASE run[c].attempt < Policy[c].retries /\ ShouldRetry(c, e)
  <2>1. run' = [run EXCEPT ![c].step = "sleep"] /\ UNCHANGED <<file, writer>>
    BY <1>2 DEF AfterError, GoTo
  <2>2. /\ run' \in [Calls -> Runs]
        /\ run'[c] = [run[c] EXCEPT !.step = "sleep"]
        /\ \A d \in Calls \ {c} : run'[d] = run[d]
    <3>1. run' = [run EXCEPT ![c] = [run[c] EXCEPT !.step = "sleep"]]
      BY <2>1
    <3> QED  BY <3>1, RunsAre, RunBecomes DEF Shape, Steps
  <2> QED  BY <1>1, <1>2, <2>1, <2>2 DEF Shape, Apart
<1>3. CASE ~(run[c].attempt < Policy[c].retries /\ ShouldRetry(c, e))
  <2>1. /\ run' = [run EXCEPT ![c].step = "store", ![c].outcome = "failed"]
        /\ FinishStream(c, "failed")
    BY <1>3 DEF AfterError
  <2>2. /\ file' \in [Calls -> Seq(AnyLine)] /\ writer' \in [Calls -> Nat \cup {NoWriter}]
        /\ \A d \in Calls \ {c} : file'[d] = file[d] /\ writer'[d] = writer[d]
        /\ Finished(c, "failed")
    BY <2>1, FinishOf DEF Terminal
  <2>3. /\ run' \in [Calls -> Runs]
        /\ run'[c] = [run[c] EXCEPT !.step = "store", !.outcome = "failed"]
        /\ \A d \in Calls \ {c} : run'[d] = run[d]
    <3>1. run' = [run EXCEPT ![c] =
                    [run[c] EXCEPT !.step = "store", !.outcome = "failed"]]
      BY <2>1
    <3> QED  BY <3>1, RunsAre, RunBecomes DEF Shape, Steps
  <2> QED  BY <1>1, <2>1, <2>2, <2>3 DEF Shape, Apart
<1> QED  BY <1>2, <1>3

LEMMA RaisesOf ==
  ASSUME Shape, NEW c \in Calls, CallRaises(c) \/ CallExpires(c)
  PROVE  /\ Shape' /\ Apart(c)
         /\ run[c].step = "call"
         /\ row'[c] = row[c] /\ cancel'[c] = cancel[c]
         /\ lease'[c] = NoHost /\ view' = view
         /\ \/ /\ run[c].attempt < Policy[c].retries
               /\ run'[c] = [run[c] EXCEPT !.step = "sleep"]
               /\ file'[c] = file[c] /\ writer'[c] = writer[c]
            \/ /\ run'[c] = [run[c] EXCEPT !.step = "store", !.outcome = "failed"]
               /\ Finished(c, "failed")
<1>1. run[c].step = "call" /\ GiveBack(c) /\ UNCHANGED <<row, cancel, view>>
  BY DEF CallRaises, CallExpires, At, Failed, Abandoned
<1>2. PICK e : AfterError(c, e)
  BY DEF CallRaises, CallExpires
<1> QED  BY <1>1, <1>2, RaisedOf

LEMMA WakeOf ==
  ASSUME Shape, NEW c \in Calls, Wake(c)
  PROVE  /\ Shape' /\ Apart(c)
         /\ run[c].step = "sleep"
         /\ run'[c] = [run[c] EXCEPT !.step = "attempt", !.attempt = @ + 1]
         /\ row'[c] = row[c] /\ file'[c] = file[c] /\ writer'[c] = writer[c]
         /\ cancel'[c] = cancel[c] /\ lease'[c] = lease[c] /\ view' = view
<1>1. run' = [run EXCEPT ![c].step = "attempt", ![c].attempt = @ + 1]
  BY DEF Wake
<1>2. run' = [run EXCEPT ![c] = [run[c] EXCEPT !.step = "attempt", !.attempt = @ + 1]]
  BY <1>1, RunsAre DEF Shape
<1>3. run[c] \in Runs /\ run[c].attempt + 1 \in Nat
  <2>1. run[c] \in Runs
    BY DEF Shape
  <2>2. run[c].attempt \in Nat
    BY <2>1, RunsAre
  <2> QED  BY <2>1, <2>2
<1>4. /\ run' \in [Calls -> Runs]
      /\ run'[c] = [run[c] EXCEPT !.step = "attempt", !.attempt = @ + 1]
      /\ \A d \in Calls \ {c} : run'[d] = run[d]
  <2> DEFINE r == [run[c] EXCEPT !.step = "attempt", !.attempt = @ + 1]
  <2>1. r \in Runs
    BY <1>3, RunsAre DEF Steps
  <2> QED  BY <1>2, <2>1, RunBecomes
<1> QED  BY <1>4 DEF Shape, Apart, Wake, At, poolVars

LEMMA EndedIs ==
  ASSUME Shape, NEW c \in Calls, GoTo(c, "ended")
  PROVE  /\ run' \in [Calls -> Runs]
         /\ run'[c] = [run[c] EXCEPT !.step = "ended"]
         /\ \A d \in Calls \ {c} : run'[d] = run[d]
<1>1. run' = [run EXCEPT ![c] = [run[c] EXCEPT !.step = "ended"]]
  BY DEF GoTo
<1> QED  BY <1>1, RunsAre, RunBecomes DEF Shape, Steps

LEMMA StoresOf ==
  ASSUME Shape, NEW c \in Calls, StoreResult(c), run[c].outcome # "none"
  PROVE  /\ Shape' /\ Apart(c)
         /\ run[c].step = "store"
         /\ run'[c] = [run[c] EXCEPT !.step = "ended"]
         /\ row'[c] = IF row[c] = "processing" THEN run[c].outcome ELSE row[c]
         /\ file'[c] = file[c] /\ writer'[c] = writer[c]
         /\ cancel'[c] = cancel[c] /\ lease'[c] = lease[c] /\ view' = view
<1>1. run[c].outcome \in Statuses
  BY DEF Shape, Runs, Statuses, Terminal
<1>2. row' \in [Calls -> Statuses]
      /\ row'[c] = (IF row[c] = "processing" THEN run[c].outcome ELSE row[c])
      /\ \A d \in Calls \ {c} : row'[d] = row[d]
  BY <1>1 DEF Shape, StoreResult
<1>3. /\ run' \in [Calls -> Runs]
      /\ run'[c] = [run[c] EXCEPT !.step = "ended"]
      /\ \A d \in Calls \ {c} : run'[d] = run[d]
  BY EndedIs DEF StoreResult
<1> QED  BY <1>2, <1>3 DEF Shape, Apart, StoreResult, At, poolVars

LEMMA InterruptedOf ==
  ASSUME Shape, NEW c \in Calls, Interrupted(c)
  PROVE  /\ Shape' /\ Apart(c)
         /\ run[c].step \in {"call", "sleep"} /\ row[c] = "cancelled"
         /\ run'[c] = [run[c] EXCEPT !.step = "ended"]
         /\ run[c].step = "call" => lease'[c] = NoHost
         /\ run[c].step = "sleep" => lease'[c] = lease[c]
         /\ row'[c] = row[c] /\ file'[c] = file[c] /\ writer'[c] = writer[c]
         /\ cancel'[c] = cancel[c] /\ view' = view
<1>1. /\ run' \in [Calls -> Runs]
      /\ run'[c] = [run[c] EXCEPT !.step = "ended"]
      /\ \A d \in Calls \ {c} : run'[d] = run[d]
  BY EndedIs DEF Interrupted
<1>2. \/ run[c].step = "call" /\ lease' = [lease EXCEPT ![c] = NoHost]
      \/ run[c].step = "sleep" /\ lease' = lease
  BY DEF Interrupted, At, Abandoned, GiveBack, poolVars
<1>3. /\ lease' \in [Calls -> Hosts \cup {NoHost}]
      /\ run[c].step \in {"call", "sleep"}
      /\ run[c].step = "call" => lease'[c] = NoHost
      /\ run[c].step = "sleep" => lease'[c] = lease[c]
      /\ \A d \in Calls \ {c} : lease'[d] = lease[d]
  BY <1>2 DEF Shape
<1> QED  BY <1>1, <1>3 DEF Shape, Apart, Interrupted

LEMMA CancelRowOf ==
  ASSUME Shape, NEW c \in Calls, CancelRow(c)
  PROVE  /\ Shape' /\ Apart(c)
         /\ row[c] \in {"queued", "processing"} /\ cancel[c] = "none"
         /\ row'[c] = "cancelled" /\ cancel'[c] \in {"here", "elsewhere"}
         /\ run'[c] = run[c] /\ file'[c] = file[c] /\ writer'[c] = writer[c]
         /\ lease'[c] = lease[c] /\ view' = view
<1>1. PICK where \in {"here", "elsewhere"} : cancel' = [cancel EXCEPT ![c] = where]
  BY DEF CancelRow
<1> QED  BY <1>1 DEF Shape, Apart, CancelRow, poolVars, Statuses, Terminal

LEMMA CancelStreamOf ==
  ASSUME Shape, NEW c \in Calls, CancelStream(c)
  PROVE  /\ Shape' /\ Apart(c)
         /\ cancel[c] \in {"here", "elsewhere"} /\ cancel'[c] = "told"
         /\ \/ writer[c] # NoWriter /\ Finished(c, "cancelled")
            \/ /\ writer'[c] = writer[c]
               /\ file'[c] = IF c \in Streamed THEN <<Done("cancelled")>> ELSE file[c]
         /\ row'[c] = row[c] /\ run'[c] = run[c] /\ lease'[c] = lease[c] /\ view' = view
<1>1. /\ file' \in [Calls -> Seq(AnyLine)] /\ writer' \in [Calls -> Nat \cup {NoWriter}]
      /\ \A d \in Calls \ {c} : file'[d] = file[d] /\ writer'[d] = writer[d]
      /\ \/ writer[c] # NoWriter /\ Finished(c, "cancelled")
         \/ /\ writer'[c] = writer[c]
            /\ file'[c] = IF c \in Streamed THEN <<Done("cancelled")>> ELSE file[c]
  <2>1. CASE cancel[c] = "here" /\ writer[c] # NoWriter
    <3>1. FinishStream(c, "cancelled")
      BY <2>1 DEF CancelStream
    <3> QED  BY <2>1, <3>1, FinishOf DEF Terminal
  <2>2. CASE ~(cancel[c] = "here" /\ writer[c] # NoWriter)
    <3>1. /\ file' = IF c \in Streamed THEN [file EXCEPT ![c] = <<Done("cancelled")>>]
                     ELSE file
          /\ writer' = writer
      BY <2>2 DEF CancelStream
    <3>2. <<Done("cancelled")>> \in Seq(AnyLine)
      BY DoneLines DEF Terminal
    <3> QED  BY <3>1, <3>2 DEF Shape
  <2> QED  BY <2>1, <2>2
<1>2. /\ row' = row /\ run' = run /\ lease' = lease /\ view' = view
      /\ cancel[c] \in {"here", "elsewhere"} /\ cancel' = [cancel EXCEPT ![c] = "told"]
  BY DEF CancelStream, poolVars
<1> QED  BY <1>1, <1>2 DEF Shape, Apart

\* What a read returns: the lines from the offset on.
LEMMA NewsIs ==
  ASSUME Shape, NEW c \in Streamed
  PROVE  /\ News(c) \in Seq(AnyLine)
         /\ Offset(c) \in 0 .. Len(file[c]) /\ Len(News(c)) = Len(file[c]) - Offset(c)
         /\ \A k \in 1 .. Len(News(c)) :
              Offset(c) + k \in 1 .. Len(file[c]) /\ News(c)[k] = file[c][Offset(c) + k]
<1>1. file[c] \in Seq(AnyLine) /\ view[c].offset \in Nat
  BY ExecutionAssumption DEF Shape, Views
<1>2. Offset(c) \in 0 .. Len(file[c])
  BY <1>1 DEF Offset
<1> DEFINE f == file[c]
           o == Offset(c)
<1>3. News(c) = SubSeq(f, o + 1, Len(f))
  BY DEF News
<1>4. f \in Seq(AnyLine) /\ o \in 0 .. Len(f) /\ Len(f) \in Nat
  BY <1>1, <1>2
<1> HIDE DEF f, o
<1>5. /\ News(c) \in Seq(AnyLine) /\ Len(News(c)) = Len(f) - o
      /\ \A k \in 1 .. Len(f) - o : News(c)[k] = f[o + k] /\ o + k \in 1 .. Len(f)
  BY <1>3, <1>4
<1> QED  BY <1>4, <1>5 DEF f, o

LEMMA TextsAre ==
  ASSUME NEW s \in Seq(AnyLine)
  PROVE  /\ Texts(s) \subseteq AnyLine
         /\ Ends(s) \subseteq 1 .. Len(s)
         /\ Ends(s) # {} => FirstEnd(s) \in Ends(s) /\ \A k \in Ends(s) : FirstEnd(s) =< k
<1>1. Texts(s) \subseteq AnyLine
  BY DEF Texts
<1>2. Ends(s) \subseteq 1 .. Len(s) /\ Ends(s) \in SUBSET Nat
  BY DEF Ends
<1>3. Ends(s) # {} => FirstEnd(s) \in Ends(s) /\ \A k \in Ends(s) : FirstEnd(s) =< k
  <2>1. Ends(s) # {} => \E i \in Ends(s) : \A k \in Ends(s) : i =< k
    BY <1>2, LeastNumber
  <2> QED  BY <2>1 DEF FirstEnd
<1> QED  BY <1>1, <1>2, <1>3

LEMMA ReadIs ==
  ASSUME Shape, NEW c \in Streamed, NEW o \in {"tail", "row", "last", "ended"}
  PROVE  /\ Read(c, o) \in Views
         /\ Read(c, o).offset = Len(file[c])
         /\ Read(c, o).heard = view[c].heard \cup Texts(News(c))
         /\ Read(c, o).seen = view[c].seen
         /\ Ends(News(c)) = {} => Read(c, o).step = o /\ Read(c, o).told = view[c].told
         /\ Ends(News(c)) # {} =>
              /\ Read(c, o).step = "ended"
              /\ \E i \in 1 .. Len(file[c]) : IsDone(file[c][i]) /\ Read(c, o).told = file[c][i][2]
<1> DEFINE new == News(c)
           heard == [view[c] EXCEPT !.offset = Len(file[c]), !.heard = @ \cup Texts(new)]
           first == FirstEnd(new)
<1>1. view[c] \in Views /\ Len(file[c]) \in Nat /\ file[c] \in Seq(AnyLine)
  BY ExecutionAssumption DEF Shape
<1>2. new \in Seq(AnyLine) /\ Texts(new) \subseteq AnyLine
  BY NewsIs, TextsAre
<1>3. /\ heard \in Views /\ heard.offset = Len(file[c])
      /\ heard.heard = view[c].heard \cup Texts(new)
      /\ heard.seen = view[c].seen /\ heard.told = view[c].told
  <2> HIDE DEF new
  <2> QED  BY <1>1, <1>2 DEF Views
<1>4. CASE Ends(new) = {}
  <2>1. Read(c, o) = [heard EXCEPT !.step = o]
    BY <1>4 DEF Read
  <2> HIDE DEF heard, new
  <2> QED  BY <1>3, <1>4, <2>1 DEF Views, new
<1>5. CASE Ends(new) # {}
  <2>1. Read(c, o) = [heard EXCEPT !.step = "ended", !.told = new[first][2]]
    BY <1>5 DEF Read
  <2>2. first \in 1 .. Len(new) /\ IsDone(new[first])
    BY <1>2, <1>5, TextsAre DEF Ends
  <2>3. PICK i \in 1 .. Len(file[c]) : new[first] = file[c][i]
    BY <2>2, NewsIs
  <2>4. IsDone(file[c][i]) /\ file[c][i] \in AnyLine
    BY <1>1, <2>2, <2>3
  <2>5. PICK s \in Terminal : file[c][i] = Done(s)
    BY <2>4, DoneLines
  <2>6. new[first][2] = file[c][i][2] /\ new[first][2] \in Terminal
    BY <2>3, <2>5, DoneLines
  <2> HIDE DEF heard, new, first
  <2>7. Read(c, o) \in Views
    BY <1>3, <2>1, <2>6 DEF Views, Statuses
  <2>8. /\ Read(c, o).step = "ended" /\ Read(c, o).told = new[first][2]
        /\ Read(c, o).offset = heard.offset /\ Read(c, o).heard = heard.heard
        /\ Read(c, o).seen = heard.seen
    BY <1>3, <2>1 DEF Views
  <2> QED  BY <1>3, <1>5, <2>4, <2>6, <2>7, <2>8 DEF new
<1> QED  BY <1>4, <1>5

LEMMA FollowOf ==
  ASSUME Shape, NEW c \in Streamed, Follow(c)
  PROVE  /\ Shape' /\ Apart(c)
         /\ row'[c] = row[c] /\ run'[c] = run[c] /\ file'[c] = file[c]
         /\ writer'[c] = writer[c] /\ cancel'[c] = cancel[c] /\ lease'[c] = lease[c]
         /\ \/ view[c].step = "tail" /\ view'[c] = Read(c, "row")
            \/ /\ view[c].step = "row"
               /\ view'[c] = [view[c] EXCEPT
                    !.step = IF row[c] \in Terminal THEN "last" ELSE "tail", !.seen = row[c]]
            \/ view[c].step = "last" /\ view'[c] = ByRow(c, Read(c, "last"))
<1>1. c \in Calls /\ view[c] \in Views /\ row[c] \in Statuses
  BY ExecutionAssumption DEF Shape
<1>2. UNCHANGED <<poolVars, row, run, file, writer, cancel>>
  BY DEF Follow, FollowTail, FollowRow, FollowLast
<1>3. \E v \in Views :
        /\ view' = [view EXCEPT ![c] = v]
        /\ \/ view[c].step = "tail" /\ v = Read(c, "row")
           \/ /\ view[c].step = "row"
              /\ v = [view[c] EXCEPT
                   !.step = IF row[c] \in Terminal THEN "last" ELSE "tail", !.seen = row[c]]
           \/ view[c].step = "last" /\ v = ByRow(c, Read(c, "last"))
  <2>1. CASE FollowTail(c)
    BY <2>1, ReadIs DEF FollowTail
  <2>2. CASE FollowRow(c)
    <3> DEFINE v == [view[c] EXCEPT
                  !.step = IF row[c] \in Terminal THEN "last" ELSE "tail", !.seen = row[c]]
    <3>1. v \in Views
      BY <1>1 DEF Views
    <3>2. view' = [view EXCEPT ![c] = v]
      BY <2>2, <1>1 DEF FollowRow, Shape
    <3> QED  BY <2>2, <3>1, <3>2 DEF FollowRow
  <2>3. CASE FollowLast(c)
    <3> DEFINE r == Read(c, "last")
    <3>1. r \in Views
      BY ReadIs
    <3>2. ByRow(c, r) \in Views
      <4> HIDE DEF r
      <4> QED  BY <3>1 DEF ByRow, Views
    <3> QED  BY <2>3, <3>2 DEF FollowLast
  <2> QED  BY <2>1, <2>2, <2>3 DEF Follow
<1>4. view' \in [Streamed -> Views] /\ \A d \in Streamed \ {c} : view'[d] = view[d]
  BY <1>3 DEF Shape
<1> QED  BY <1>1, <1>2, <1>3, <1>4 DEF Shape, Apart, poolVars

-----------------------------------------------------------------------------
(* Execution's inductive invariant.                                        *)

\* How far a job is, in the worker, in the store and at the pool.
Settled(c) ==
  /\ run[c].attempt =< Policy[c].retries /\ run[c].sent =< MaxChunks
  /\ lease[c] # NoHost <=> run[c].step = "call"
  /\ run[c].step = "queued" => row[c] \in {"queued", "cancelled"}
  /\ run[c].step \in {"attempt", "call", "sleep", "store"} =>
       row[c] \in {"processing", "cancelled"}
  /\ run[c].step = "sleep" => run[c].attempt < Policy[c].retries
  /\ run[c].step = "store" => run[c].outcome # "none"
  /\ run[c].step = "ended" => row[c] = "cancelled" \/ row[c] = run[c].outcome
  /\ cancel[c] # "none" => row[c] = "cancelled"

\* The end that s tells of has come, or is about to be stored.
TrueEnd(c, s) ==
  \/ row[c] = "cancelled"
  \/ /\ run[c].step \in {"store", "ended"} /\ run[c].outcome = s
     /\ row[c] \in {"processing", s}

InFile(c) ==
  /\ Len(file[c]) =< MaxChunks + 1
  /\ \A i \in 1 .. Len(file[c]) :
       /\ file[c][i] \in Lines(c)
       /\ \A s \in Terminal : file[c][i] = Done(s) => TrueEnd(c, s)
  /\ writer[c] # NoWriter => c \in Streamed /\ writer[c] = run[c].sent

InView(c) ==
  /\ view[c].offset =< MaxChunks + 1 /\ view[c].told \in Terminal \cup {"none"}
  /\ view[c].step = "last" => view[c].seen = row[c] /\ row[c] \in Terminal
  /\ view[c].step = "ended" => TrueEnd(c, view[c].told)

\* The first attempt of a job that nobody cancelled: the file holds the pieces that
\* were sent, and the line of the end once that is known; the follower has heard those
\* before its offset.
Sent(n) == {Text(0, i) : i \in 0 .. n - 1}
Over(c) == run[c].step \in {"store", "ended"}
FirstTry(c) ==
  run[c].attempt = 0 /\ row[c] # "cancelled" =>
    /\ Len(file[c]) = run[c].sent + (IF Over(c) THEN 1 ELSE 0)
    /\ \A i \in 1 .. run[c].sent : file[c][i] = Text(0, i - 1)
    /\ Over(c) => file[c][run[c].sent + 1] = Done(run[c].outcome)
    /\ run[c].step \in {"queued", "attempt"} => run[c].sent = 0
    /\ run[c].step = "call" => writer[c] = run[c].sent
    /\ view[c].step # "ended" =>
         view[c].offset =< run[c].sent /\ view[c].heard = Sent(view[c].offset)
    /\ view[c].step = "ended" => view[c].heard = Sent(run[c].sent)

Mine(c) ==
  /\ Settled(c) /\ InFile(c)
  /\ c \in Streamed => InView(c) /\ FirstTry(c)

\* Whatever was a true end stays one.
EndsStay(c) == \A s \in Terminal : TrueEnd(c, s) => TrueEnd(c, s)'

\* Fields of a run after it was updated.
LEMMA Fields ==
  ASSUME NEW r \in Runs
  PROVE  /\ \A s : LET q == [r EXCEPT !.step = s] IN
              q.step = s /\ q.attempt = r.attempt /\ q.sent = r.sent /\ q.outcome = r.outcome
         /\ \A s : LET q == [r EXCEPT !.step = s, !.sent = 0] IN
              q.step = s /\ q.attempt = r.attempt /\ q.sent = 0 /\ q.outcome = r.outcome
         /\ \A s : LET q == [r EXCEPT !.step = s, !.attempt = @ + 1] IN
              /\ q.step = s /\ q.attempt = r.attempt + 1
              /\ q.sent = r.sent /\ q.outcome = r.outcome
         /\ \A s, o : LET q == [r EXCEPT !.step = s, !.outcome = o] IN
              q.step = s /\ q.attempt = r.attempt /\ q.sent = r.sent /\ q.outcome = o
         /\ LET q == [r EXCEPT !.sent = @ + 1] IN
              /\ q.step = r.step /\ q.attempt = r.attempt
              /\ q.sent = r.sent + 1 /\ q.outcome = r.outcome
BY DEF Runs

LEMMA Typed ==
  ASSUME Shape, NEW c \in Calls
  PROVE  /\ run[c] \in Runs /\ row[c] \in Statuses /\ file[c] \in Seq(AnyLine)
         /\ writer[c] \in Nat \cup {NoWriter} /\ Len(file[c]) \in Nat
         /\ run[c].step \in Steps /\ run[c].attempt \in Nat /\ run[c].sent \in Nat
         /\ run[c].outcome \in {"none", "completed", "failed"}
         /\ Policy[c].retries \in Nat /\ MaxChunks \in Nat
         /\ c \in Streamed => view[c] \in Views /\ view[c].offset \in Nat
<1>1. /\ run[c] \in Runs /\ row[c] \in Statuses /\ file[c] \in Seq(AnyLine)
      /\ writer[c] \in Nat \cup {NoWriter} /\ Len(file[c]) \in Nat
      /\ c \in Streamed => view[c] \in Views
  BY DEF Shape
<1>2. /\ run[c].step \in Steps /\ run[c].attempt \in Nat /\ run[c].sent \in Nat
      /\ run[c].outcome \in {"none", "completed", "failed"}
  BY <1>1 DEF Runs, Steps
<1>3. c \in Streamed => view[c].offset \in Nat
  BY <1>1 DEF Views
<1>4. Policy[c].retries \in Nat /\ MaxChunks \in Nat
  BY ExecutionAssumption
<1> QED  BY <1>1, <1>2, <1>3, <1>4

LEMMA LinesAre ==
  ASSUME NEW c \in Calls
  PROVE  /\ \A s \in Terminal : Done(s) \in Lines(c)
         /\ Junk \in Lines(c)
         /\ \A t \in 0 .. Policy[c].retries, i \in 0 .. MaxChunks - 1 : Text(t, i) \in Lines(c)
BY DEF Lines

LEMMA KeptFile ==
  ASSUME NEW c \in Calls, InFile(c), EndsStay(c), Shape,
         file'[c] = file[c], writer'[c] = writer[c],
         run'[c].sent = run[c].sent
  PROVE  InFile(c)'
BY DEF InFile, EndsStay

LEMMA FinishedFile ==
  ASSUME NEW c \in Calls, Shape, InFile(c), EndsStay(c), NEW s \in Terminal,
         Finished(c, s), TrueEnd(c, s)',
         run[c].sent =< MaxChunks, run'[c].sent = run[c].sent
  PROVE  InFile(c)'
<1>1. CASE writer[c] = NoWriter
  BY <1>1, KeptFile DEF Finished
<1>2. CASE writer[c] # NoWriter
  <2> DEFINE f == file[c]
             p == writer[c]
             w == Written(f, p, Done(s))
  <2>1. f \in Seq(AnyLine) /\ p \in Nat /\ Done(s) \in AnyLine /\ Len(f) \in Nat
    BY <1>2, Typed, DoneLines
  <2> HIDE DEF f, p
  <2>2. /\ Len(w) = IF p < Len(f) THEN Len(f) ELSE p + 1
        /\ \A i \in 1 .. Len(w) :
             w[i] = IF i = p + 1 THEN IF p > Len(f) THEN Junk ELSE Done(s)
                    ELSE IF i =< Len(f) THEN f[i] ELSE Junk
    BY <2>1, WrittenIs
  <2>3. file'[c] = w /\ writer'[c] = NoWriter
    BY <1>2 DEF Finished, f, p
  <2>4. p =< MaxChunks /\ Len(f) =< MaxChunks + 1 /\ MaxChunks \in Nat
    BY <1>2, Typed DEF InFile, f, p
  <2>5. \A i \in 1 .. Len(f) :
          f[i] \in Lines(c) /\ \A t \in Terminal : f[i] = Done(t) => TrueEnd(c, t)'
    BY DEF InFile, EndsStay, f
  <2>6. Done(s) \in Lines(c) /\ Junk \in Lines(c)
    BY LinesAre
  <2>7. \A t : (Done(s) = Done(t) => t = s) /\ Junk # Done(t)
    BY DoneLines DEF IsDone
  <2> HIDE DEF w
  <2>8. \A i \in 1 .. Len(w) :
          w[i] \in {Junk, Done(s)} \/ (i \in 1 .. Len(f) /\ w[i] = f[i])
    BY <2>1, <2>2
  <2>9. \A i \in 1 .. Len(w) :
          w[i] \in Lines(c) /\ \A t \in Terminal : w[i] = Done(t) => TrueEnd(c, t)'
    BY <2>5, <2>6, <2>7, <2>8
  <2>10. Len(w) =< MaxChunks + 1
    BY <2>1, <2>2, <2>4
  <2> QED  BY <2>3, <2>9, <2>10 DEF InFile
<1> QED  BY <1>1, <1>2

\* One lemma per action: what it leaves of the invariant of its own job.
LEMMA ClaimMine ==
  ASSUME Shape, NEW c \in Calls, Mine(c), Claim(c)
  PROVE  Mine(c)'
<1>1. /\ row[c] = "queued" /\ run[c].step = "queued"
      /\ row'[c] = "processing" /\ run'[c] = [run[c] EXCEPT !.step = "attempt"]
      /\ file'[c] = file[c] /\ writer'[c] = writer[c] /\ cancel'[c] = cancel[c]
      /\ lease'[c] = lease[c] /\ view' = view
  BY ClaimOf
<1>2. /\ run'[c].step = "attempt" /\ run'[c].attempt = run[c].attempt
      /\ run'[c].sent = run[c].sent /\ run'[c].outcome = run[c].outcome
  BY <1>1, Typed, Fields
<1>3. EndsStay(c)
  BY <1>1, <1>2 DEF EndsStay, TrueEnd
<1>4. InFile(c)'
  BY <1>1, <1>2, <1>3, KeptFile DEF Mine
<1>5. Settled(c)'
  BY <1>1, <1>2 DEF Mine, Settled
<1>6. c \in Streamed => InView(c)'
  BY <1>1, <1>2, <1>3 DEF Mine, InView, TrueEnd, Terminal
<1>7. c \in Streamed => FirstTry(c)'
  BY <1>1, <1>2 DEF Mine, InView, TrueEnd, FirstTry, Over, Sent
<1> QED  BY <1>4, <1>5, <1>6, <1>7 DEF Mine

LEMMA AttemptMine ==
  ASSUME Counted, Shape, NEW c \in Calls, Mine(c), Attempt(c)
  PROVE  Mine(c)'
<1>1. /\ run[c].step = "attempt"
      /\ run'[c] = [run[c] EXCEPT !.step = "call", !.sent = 0]
      /\ c \in Streamed => file'[c] = NoFile /\ writer'[c] = 0
      /\ c \notin Streamed => file'[c] = file[c] /\ writer'[c] = writer[c]
      /\ row'[c] = row[c] /\ cancel'[c] = cancel[c]
      /\ lease'[c] \in Hosts /\ view' = view
  BY AttemptOf
<1>2. /\ run'[c].step = "call" /\ run'[c].attempt = run[c].attempt
      /\ run'[c].sent = 0 /\ run'[c].outcome = run[c].outcome
  BY <1>1, Typed, Fields
<1>3. EndsStay(c)
  BY <1>1, <1>2 DEF EndsStay, TrueEnd
<1>4. InFile(c)'
  <2>1. CASE c \in Streamed
    BY <1>1, <1>2, <2>1, Typed DEF InFile, NoFile
  <2>2. CASE c \notin Streamed
    BY <1>1, <1>3, <2>2 DEF Mine, InFile, EndsStay
  <2> QED  BY <2>1, <2>2
<1>5. Settled(c)'
  <2>1. lease'[c] # NoHost
    BY <1>1, HostsAssumption DEF NoHost
  <2> QED  BY <1>1, <1>2, <2>1, Typed DEF Mine, Settled
<1>6. c \in Streamed => InView(c)'
  BY <1>1, <1>2 DEF Mine, InView, TrueEnd
<1>7. c \in Streamed => FirstTry(c)'
  <2> SUFFICES ASSUME c \in Streamed, run[c].attempt = 0, row[c] # "cancelled"
               PROVE  FirstTry(c)'
    BY <1>1, <1>2 DEF FirstTry
  <2>1. /\ run[c].sent = 0 /\ view[c].step # "ended"
        /\ view[c].offset =< 0 /\ view[c].heard = Sent(view[c].offset)
    BY <1>1 DEF Mine, InView, TrueEnd, FirstTry
  <2>2. Len(file'[c]) = 0 /\ writer'[c] = 0
    BY <1>1 DEF NoFile
  <2> QED  BY <1>1, <1>2, <2>1, <2>2 DEF FirstTry, Over, Sent
<1> QED  BY <1>4, <1>5, <1>6, <1>7 DEF Mine

\* What the follower heard before its offset is not more than was sent.
LEMMA ChunkMine ==
  ASSUME Shape, NEW c \in Calls, Mine(c), Chunk(c)
  PROVE  Mine(c)'
<1> DEFINE f == file[c]
           p == writer[c]
           piece == Text(run[c].attempt, run[c].sent)
           w == Written(f, p, piece)
<1>1. /\ run[c].step = "call" /\ c \in Streamed /\ run[c].sent < MaxChunks
      /\ run'[c] = [run[c] EXCEPT !.sent = @ + 1]
      /\ IF p # NoWriter THEN file'[c] = w /\ writer'[c] = p + 1
         ELSE file'[c] = f /\ writer'[c] = p
      /\ row'[c] = row[c] /\ cancel'[c] = cancel[c]
      /\ lease'[c] = lease[c] /\ view' = view
  BY ChunkOf
<1>2. /\ run'[c].step = "call" /\ run'[c].attempt = run[c].attempt
      /\ run'[c].sent = run[c].sent + 1 /\ run'[c].outcome = run[c].outcome
  BY <1>1, Typed, Fields
<1>3. EndsStay(c)
  BY <1>1, <1>2 DEF EndsStay, TrueEnd
<1>4. /\ f \in Seq(AnyLine) /\ Len(f) \in Nat /\ p \in Nat \cup {NoWriter}
      /\ run[c].sent \in Nat /\ run[c].attempt \in 0 .. Policy[c].retries
      /\ MaxChunks \in Nat /\ Len(f) =< MaxChunks + 1
      /\ p # NoWriter => p = run[c].sent
  BY <1>1, Typed DEF Mine, Settled, InFile
<1>5. \A i \in 1 .. Len(f) :
        f[i] \in Lines(c) /\ \A t \in Terminal : f[i] = Done(t) => TrueEnd(c, t)'
  BY <1>3 DEF Mine, InFile, EndsStay
<1>6. /\ piece \in Lines(c) /\ Junk \in Lines(c)
      /\ \A t : piece # Done(t) /\ Junk # Done(t)
  BY <1>1, <1>4, LinesAre, DoneLines DEF IsDone
<1>7. p # NoWriter =>
        /\ Len(w) = IF p < Len(f) THEN Len(f) ELSE p + 1
        /\ \A i \in 1 .. Len(w) :
             w[i] = IF i = p + 1 THEN IF p > Len(f) THEN Junk ELSE piece
                    ELSE IF i =< Len(f) THEN f[i] ELSE Junk
  <2>1. piece \in AnyLine
    BY <1>4, DoneLines
  <2>2. p # NoWriter => p \in Nat /\ f \in Seq(AnyLine)
    BY <1>4
  <2> HIDE DEF piece, f, p
  <2> QED  BY <2>1, <2>2, WrittenIs
<1>8. InFile(c)'
  <2>1. CASE p = NoWriter
    BY <1>1, <1>2, <1>4, <1>5, <2>1 DEF InFile
  <2>2. CASE p # NoWriter
    <3> HIDE DEF f, p, w, piece
    <3>1. \A i \in 1 .. Len(w) :
            w[i] \in {Junk, piece} \/ (i \in 1 .. Len(f) /\ w[i] = f[i])
      BY <1>4, <1>7, <2>2
    <3>2. \A i \in 1 .. Len(w) :
            w[i] \in Lines(c) /\ \A t \in Terminal : w[i] = Done(t) => TrueEnd(c, t)'
      BY <1>5, <1>6, <3>1
    <3>3. Len(w) =< MaxChunks + 1 /\ p + 1 = run'[c].sent
      BY <1>1, <1>2, <1>4, <1>7, <2>2
    <3>4. file'[c] = w /\ writer'[c] = p + 1
      BY <1>1, <2>2 DEF f, p, w, piece
    <3> QED  BY <1>1, <3>2, <3>3, <3>4 DEF InFile
  <2> QED  BY <2>1, <2>2
<1>9. Settled(c)'
  BY <1>1, <1>2, <1>4 DEF Mine, Settled
<1>10. InView(c)'
  BY <1>1, <1>2 DEF Mine, InView, TrueEnd
<1>11. FirstTry(c)'
  <2> SUFFICES ASSUME run[c].attempt = 0, row[c] # "cancelled" PROVE FirstTry(c)'
    BY <1>1, <1>2 DEF FirstTry
  <2>1. /\ p = run[c].sent /\ Len(f) = run[c].sent
        /\ \A i \in 1 .. run[c].sent : f[i] = Text(0, i - 1)
        /\ view[c].step # "ended" /\ view[c].offset =< run[c].sent
        /\ view[c].heard = Sent(view[c].offset)
    <3>1. run[c].step = "call" /\ c \in Streamed
      BY <1>1
    <3>2. view[c].step # "ended"
      BY <3>1 DEF Mine, InView, TrueEnd
    <3> QED  BY <1>4, <3>1, <3>2 DEF Mine, FirstTry, Over
  <2>2. p # NoWriter
    BY <1>4, <2>1 DEF NoWriter
  <2>3. file'[c] = w /\ writer'[c] = run[c].sent + 1
    BY <1>1, <2>1, <2>2
  <2>4. piece = Text(0, run[c].sent)
    OBVIOUS
  <2>5. /\ Len(w) = run[c].sent + 1
        /\ \A i \in 1 .. run[c].sent : w[i] = Text(0, i - 1)
        /\ w[run[c].sent + 1] = Text(0, run[c].sent)
    <3>1. w = Written(f, Len(f), piece) /\ piece \in AnyLine
      BY <1>4, <2>1, DoneLines
    <3> HIDE DEF f, p, w, piece
    <3>2. /\ Len(w) = Len(f) + 1 /\ w[Len(f) + 1] = piece
          /\ \A i \in 1 .. Len(f) : w[i] = f[i]
      BY <1>4, <3>1, WrittenAtEnd
    <3> QED  BY <2>1, <2>4, <3>2
  <2> HIDE DEF f, p, w, piece
  <2>7. \A i \in 1 .. run[c].sent + 1 : w[i] = Text(0, i - 1)
    BY <1>4, <2>5
  <2>6. view[c].offset =< run[c].sent + 1
    BY <1>1, <1>4, <2>1, Typed
  <2> QED  BY <1>1, <1>2, <2>1, <2>3, <2>5, <2>6, <2>7 DEF FirstTry, Over, Sent
<1> QED  BY <1>8, <1>9, <1>10, <1>11 DEF Mine

\* The call of a first attempt ends: what was sent, then the line of the end.
LEMMA FinishedFirst ==
  ASSUME Shape, NEW c \in Streamed, Mine(c), NEW s \in {"completed", "failed"},
         run[c].step = "call", Finished(c, s), view' = view, row'[c] = row[c],
         run'[c] = [run[c] EXCEPT !.step = "store", !.outcome = s]
  PROVE  FirstTry(c)'
<1> DEFINE f == file[c]
           w == Written(f, run[c].sent, Done(s))
<1>0. c \in Calls
  BY ExecutionAssumption
<1>1. /\ run'[c].step = "store" /\ run'[c].attempt = run[c].attempt
      /\ run'[c].sent = run[c].sent /\ run'[c].outcome = s
  BY <1>0, Typed, Fields
<1> SUFFICES ASSUME run[c].attempt = 0, row[c] # "cancelled" PROVE FirstTry(c)'
  BY <1>1 DEF FirstTry
<1>2. run[c].sent \in Nat /\ f \in Seq(AnyLine) /\ Done(s) \in AnyLine
  BY <1>0, Typed, DoneLines DEF Terminal
<1>3. view[c].step # "ended"
  BY DEF Mine, InView, TrueEnd
<1>4. /\ writer[c] = run[c].sent /\ Len(f) = run[c].sent
      /\ \A i \in 1 .. run[c].sent : f[i] = Text(0, i - 1)
      /\ view[c].offset =< run[c].sent
      /\ view[c].heard = Sent(view[c].offset)
  BY <1>2, <1>3 DEF Mine, FirstTry, Over
<1>5. file'[c] = w
  <2>1. writer[c] # NoWriter
    BY <1>2, <1>4 DEF NoWriter
  <2> QED  BY <1>4, <2>1 DEF Finished
<1> HIDE DEF f
<1>6. /\ Len(w) = run[c].sent + 1
      /\ \A i \in 1 .. run[c].sent : w[i] = f[i]
      /\ w[run[c].sent + 1] = Done(s)
  BY <1>2, <1>4, WrittenAtEnd
<1> HIDE DEF w
<1> QED  BY <1>1, <1>2, <1>3, <1>4, <1>5, <1>6 DEF FirstTry, Over, Sent

LEMMA ReturnsMine ==
  ASSUME Shape, NEW c \in Calls, Mine(c), NEW s \in {"completed", "failed"},
         run[c].step = "call", Finished(c, s), view' = view,
         row'[c] = row[c], cancel'[c] = cancel[c], lease'[c] = NoHost,
         run'[c] = [run[c] EXCEPT !.step = "store", !.outcome = s]
  PROVE  Mine(c)'
<1>1. /\ run'[c].step = "store" /\ run'[c].attempt = run[c].attempt
      /\ run'[c].sent = run[c].sent /\ run'[c].outcome = s
  BY Typed, Fields
<1>2. row[c] \in {"processing", "cancelled"} /\ run[c].sent =< MaxChunks
  BY DEF Mine, Settled
<1>3. EndsStay(c) /\ TrueEnd(c, s)'
  BY <1>1, <1>2 DEF EndsStay, TrueEnd
<1>4. InFile(c)'
  BY <1>1, <1>2, <1>3, FinishedFile DEF Mine, Terminal
<1>5. Settled(c)'
  BY <1>1, <1>2 DEF Mine, Settled
<1>6. c \in Streamed => InView(c)'
  BY <1>1 DEF Mine, InView, TrueEnd
<1> QED  BY <1>4, <1>5, <1>6, FinishedFirst DEF Mine

LEMMA RaisesMine ==
  ASSUME Shape, NEW c \in Calls, Mine(c), CallRaises(c) \/ CallExpires(c)
  PROVE  Mine(c)'
<1>1. /\ run[c].step = "call"
      /\ row'[c] = row[c] /\ cancel'[c] = cancel[c]
      /\ lease'[c] = NoHost /\ view' = view
      /\ \/ /\ run[c].attempt < Policy[c].retries
            /\ run'[c] = [run[c] EXCEPT !.step = "sleep"]
            /\ file'[c] = file[c] /\ writer'[c] = writer[c]
         \/ /\ run'[c] = [run[c] EXCEPT !.step = "store", !.outcome = "failed"]
            /\ Finished(c, "failed")
  BY RaisesOf
<1>2. CASE run'[c] = [run[c] EXCEPT !.step = "store", !.outcome = "failed"]
           /\ Finished(c, "failed")
  BY <1>1, <1>2, ReturnsMine
<1>3. CASE /\ run[c].attempt < Policy[c].retries
           /\ run'[c] = [run[c] EXCEPT !.step = "sleep"]
           /\ file'[c] = file[c] /\ writer'[c] = writer[c]
  <2>1. /\ run'[c].step = "sleep" /\ run'[c].attempt = run[c].attempt
        /\ run'[c].sent = run[c].sent /\ run'[c].outcome = run[c].outcome
    BY <1>3, Typed, Fields
  <2>2. EndsStay(c)
    BY <1>1, <2>1 DEF EndsStay, TrueEnd
  <2>3. InFile(c)'
    BY <1>3, <2>1, <2>2, KeptFile DEF Mine
  <2>4. Settled(c)'
    BY <1>1, <1>3, <2>1 DEF Mine, Settled
  <2>5. c \in Streamed => InView(c)'
    BY <1>1, <2>1 DEF Mine, InView, TrueEnd
  <2>6. c \in Streamed => FirstTry(c)'
    BY <1>1, <1>3, <2>1 DEF Mine, FirstTry, Over, Sent
  <2> QED  BY <2>3, <2>4, <2>5, <2>6 DEF Mine
<1> QED  BY <1>1, <1>2, <1>3

LEMMA WakeMine ==
  ASSUME Shape, NEW c \in Calls, Mine(c), Wake(c)
  PROVE  Mine(c)'
<1>1. /\ run[c].step = "sleep"
      /\ run'[c] = [run[c] EXCEPT !.step = "attempt", !.attempt = @ + 1]
      /\ row'[c] = row[c] /\ file'[c] = file[c] /\ writer'[c] = writer[c]
      /\ cancel'[c] = cancel[c] /\ lease'[c] = lease[c] /\ view' = view
  BY WakeOf
<1>2. /\ run'[c].step = "attempt" /\ run'[c].attempt = run[c].attempt + 1
      /\ run'[c].sent = run[c].sent /\ run'[c].outcome = run[c].outcome
  BY <1>1, Typed, Fields
<1>3. EndsStay(c)
  BY <1>1, <1>2 DEF EndsStay, TrueEnd
<1>4. InFile(c)'
  BY <1>1, <1>2, <1>3, KeptFile DEF Mine
<1>5. Settled(c)'
  BY <1>1, <1>2, Typed DEF Mine, Settled
<1>6. c \in Streamed => InView(c)'
  BY <1>1, <1>2 DEF Mine, InView, TrueEnd
<1>7. FirstTry(c)'
  BY <1>2, Typed DEF FirstTry
<1> QED  BY <1>4, <1>5, <1>6, <1>7 DEF Mine

LEMMA StoresMine ==
  ASSUME Shape, NEW c \in Calls, Mine(c), StoreResult(c)
  PROVE  Shape' /\ Apart(c) /\ Mine(c)'
<1>0. run[c].outcome # "none"
  BY DEF StoreResult, At, Mine, Settled
<1>1. /\ Shape' /\ Apart(c) /\ run[c].step = "store"
      /\ run'[c] = [run[c] EXCEPT !.step = "ended"]
      /\ row'[c] = IF row[c] = "processing" THEN run[c].outcome ELSE row[c]
      /\ file'[c] = file[c] /\ writer'[c] = writer[c]
      /\ cancel'[c] = cancel[c] /\ lease'[c] = lease[c] /\ view' = view
  BY <1>0, StoresOf
<1>2. /\ run'[c].step = "ended" /\ run'[c].attempt = run[c].attempt
      /\ run'[c].sent = run[c].sent /\ run'[c].outcome = run[c].outcome
  BY <1>1, Typed, Fields
<1>3. /\ run[c].outcome \in {"completed", "failed"}
      /\ row[c] \in {"processing", "cancelled"}
  BY <1>0, <1>1, Typed DEF Mine, Settled
<1>4. \A s : TrueEnd(c, s) => TrueEnd(c, s)'
  BY <1>1, <1>2, <1>3 DEF TrueEnd
<1>5. InFile(c)'
  BY <1>1, <1>2, <1>4, KeptFile DEF Mine, EndsStay
<1>6. Settled(c)'
  BY <1>1, <1>2, <1>3 DEF Mine, Settled
<1>7. c \in Streamed => InView(c)'
  BY <1>1, <1>2, <1>3 DEF Mine, InView, TrueEnd, Terminal
<1>8. c \in Streamed => FirstTry(c)'
  BY <1>1, <1>2, <1>3 DEF Mine, FirstTry, Over, Sent
<1> QED  BY <1>1, <1>5, <1>6, <1>7, <1>8 DEF Mine

LEMMA InterruptedMine ==
  ASSUME Shape, NEW c \in Calls, Mine(c), Interrupted(c)
  PROVE  Mine(c)'
<1>1. /\ run[c].step \in {"call", "sleep"} /\ row[c] = "cancelled"
      /\ run'[c] = [run[c] EXCEPT !.step = "ended"]
      /\ run[c].step = "call" => lease'[c] = NoHost
      /\ run[c].step = "sleep" => lease'[c] = lease[c]
      /\ row'[c] = row[c] /\ file'[c] = file[c] /\ writer'[c] = writer[c]
      /\ cancel'[c] = cancel[c] /\ view' = view
  BY InterruptedOf
<1>2. /\ run'[c].step = "ended" /\ run'[c].attempt = run[c].attempt
      /\ run'[c].sent = run[c].sent /\ run'[c].outcome = run[c].outcome
  BY <1>1, Typed, Fields
<1>3. EndsStay(c)
  BY <1>1 DEF EndsStay, TrueEnd
<1>4. InFile(c)'
  BY <1>1, <1>2, <1>3, KeptFile DEF Mine
<1>5. Settled(c)'
  BY <1>1, <1>2 DEF Mine, Settled
<1>6. c \in Streamed => InView(c)'
  BY <1>1 DEF Mine, InView, TrueEnd
<1>7. FirstTry(c)'
  BY <1>1 DEF FirstTry
<1> QED  BY <1>4, <1>5, <1>6, <1>7 DEF Mine

LEMMA CancelRowMine ==
  ASSUME Shape, NEW c \in Calls, Mine(c), CancelRow(c)
  PROVE  Mine(c)'
<1>1. /\ row[c] \in {"queued", "processing"}
      /\ row'[c] = "cancelled" /\ cancel'[c] \in {"here", "elsewhere"}
      /\ run'[c] = run[c] /\ file'[c] = file[c] /\ writer'[c] = writer[c]
      /\ lease'[c] = lease[c] /\ view' = view
  BY CancelRowOf
<1>2. EndsStay(c)
  BY <1>1 DEF EndsStay, TrueEnd
<1>3. InFile(c)'
  BY <1>1, <1>2, KeptFile DEF Mine
<1>4. Settled(c)'
  BY <1>1 DEF Mine, Settled
<1>5. c \in Streamed => InView(c)'
  BY <1>1 DEF Mine, InView, TrueEnd, Terminal
<1>6. FirstTry(c)'
  BY <1>1 DEF FirstTry
<1> QED  BY <1>3, <1>4, <1>5, <1>6 DEF Mine

LEMMA CancelStreamMine ==
  ASSUME Shape, NEW c \in Calls, Mine(c), CancelStream(c)
  PROVE  Mine(c)'
<1>1. /\ cancel[c] \in {"here", "elsewhere"} /\ cancel'[c] = "told"
      /\ \/ writer[c] # NoWriter /\ Finished(c, "cancelled")
         \/ /\ writer'[c] = writer[c]
            /\ file'[c] = IF c \in Streamed THEN <<Done("cancelled")>> ELSE file[c]
      /\ row'[c] = row[c] /\ run'[c] = run[c] /\ lease'[c] = lease[c] /\ view' = view
  BY CancelStreamOf
<1>2. row[c] = "cancelled"
  BY <1>1 DEF Mine, Settled
<1>3. EndsStay(c) /\ \A s : TrueEnd(c, s)'
  BY <1>1, <1>2 DEF EndsStay, TrueEnd
<1>4. InFile(c)'
  <2>1. CASE Finished(c, "cancelled")
    BY <1>1, <1>3, <2>1, FinishedFile DEF Mine, Settled, Terminal
  <2>2. CASE writer'[c] = writer[c] /\ c \in Streamed /\ file'[c] = <<Done("cancelled")>>
    <3>1. Done("cancelled") \in Lines(c) /\ MaxChunks \in Nat
      BY LinesAre, Typed DEF Terminal
    <3> QED  BY <1>1, <1>3, <2>2, <3>1 DEF Mine, InFile
  <2>3. CASE writer'[c] = writer[c] /\ c \notin Streamed /\ file'[c] = file[c]
    BY <1>1, <1>3, <2>3, KeptFile DEF Mine
  <2> QED  BY <1>1, <2>1, <2>2, <2>3
<1>5. Settled(c)'
  BY <1>1, <1>2 DEF Mine, Settled
<1>6. c \in Streamed => InView(c)'
  BY <1>1 DEF Mine, InView, TrueEnd
<1>7. FirstTry(c)'
  BY <1>1, <1>2 DEF FirstTry
<1> QED  BY <1>4, <1>5, <1>6, <1>7 DEF Mine

\* What a follower of a first attempt has heard after a read: everything sent so far.
LEMMA HeardNews ==
  ASSUME Shape, NEW c \in Streamed, Mine(c), run[c].attempt = 0, row[c] # "cancelled",
         view[c].step # "ended"
  PROVE  /\ view[c].heard \cup Texts(News(c)) = Sent(run[c].sent)
         /\ Ends(News(c)) # {} <=> Over(c)
<1> DEFINE n == run[c].sent
           o == view[c].offset
           s == News(c)
           f == file[c]
           end == IF Over(c) THEN 1 ELSE 0
<1>0. c \in Calls
  BY ExecutionAssumption
<1>1. n \in Nat /\ o \in Nat /\ o =< n /\ view[c].heard = Sent(o)
  BY <1>0, Typed DEF Mine, FirstTry
<1>2. /\ Len(f) = n + end /\ end \in {0, 1}
      /\ \A i \in 1 .. n : f[i] = Text(0, i - 1)
      /\ Over(c) => f[n + 1] = Done(run[c].outcome)
  BY <1>0 DEF Mine, FirstTry
<1>3. Offset(c) = o
  BY <1>1, <1>2 DEF Offset
<1>4. /\ s \in Seq(AnyLine) /\ Len(s) = n + end - o
      /\ \A k \in 1 .. Len(s) : s[k] = f[o + k]
  <2>1. /\ s \in Seq(AnyLine) /\ Len(s) = Len(f) - Offset(c)
        /\ \A k \in 1 .. Len(s) : s[k] = f[Offset(c) + k]
    BY NewsIs
  <2> HIDE DEF s, f, o, n, end
  <2>2. Len(s) = n + end - o
    BY <1>1, <1>2, <1>3, <2>1
  <2> QED  BY <1>3, <2>1, <2>2
<1>5. /\ \A k \in 1 .. n - o : s[k] = Text(0, o + k - 1)
      /\ Over(c) => s[n + 1 - o] = Done(run[c].outcome)
  <2> HIDE DEF n, o, s, f
  <2>1. ASSUME NEW k \in 1 .. n - o PROVE s[k] = Text(0, o + k - 1)
    <3>1. k \in 1 .. Len(s) /\ o + k \in 1 .. n
      BY <1>1, <1>2, <1>4
    <3>2. s[k] = f[o + k]
      BY <1>4, <3>1
    <3>3. \A i \in 1 .. n : f[i] = Text(0, i - 1)
      BY <1>2
    <3>4. f[o + k] = Text(0, (o + k) - 1)
      BY <1>1, <3>1, <3>3
    <3>5. (o + k) - 1 = o + k - 1
      BY <1>1
    <3> QED  BY <3>2, <3>4, <3>5
  <2>2. ASSUME Over(c) PROVE s[n + 1 - o] = Done(run[c].outcome)
    <3>1. n + 1 - o \in 1 .. Len(s) /\ o + (n + 1 - o) = n + 1
      BY <1>1, <1>2, <1>4, <2>2
    <3> QED  BY <1>2, <1>4, <2>2, <3>1
  <2> QED  BY <2>1, <2>2
<1> HIDE DEF n, o, s, f
<1>6. /\ Ends(s) = IF Over(c) THEN {n + 1 - o} ELSE {}
      /\ \A k \in 1 .. n - o : s[k][1] = "text"
  <2>1. \A k \in 1 .. n - o : ~IsDone(s[k]) /\ s[k][1] = "text"
    BY <1>5, DoneLines
  <2>2. Over(c) => IsDone(s[n + 1 - o])
    BY <1>5, DoneLines DEF IsDone
  <2>3. DOMAIN s = 1 .. n + end - o
    BY <1>4
  <2>4. DOMAIN s = (1 .. n - o) \cup (IF Over(c) THEN {n + 1 - o} ELSE {})
    <3> HIDE DEF s
    <3> QED  BY <1>1, <1>2, <2>3
  <2> QED  BY <2>1, <2>2, <2>4 DEF Ends
<1>7. {k \in DOMAIN s : s[k][1] = "text" /\ \A e \in Ends(s) : k < e} = 1 .. n - o
  <2>1. DOMAIN s = 1 .. n + end - o
    BY <1>4
  <2>2. Over(c) => s[n + 1 - o][1] # "text"
    BY <1>5, DoneLines
  <2> QED  BY <1>1, <1>2, <1>6, <2>1, <2>2
<1>8. Texts(s) = {s[i] : i \in 1 .. n - o}
  BY <1>7 DEF Texts
<1>9. Texts(s) = {Text(0, i) : i \in o .. n - 1}
  <2>1. ASSUME NEW i \in 1 .. n - o
        PROVE  \E j \in o .. n - 1 : s[i] = Text(0, j)
    <3>1. o + i - 1 \in o .. n - 1
      BY <1>1
    <3> QED  BY <1>5, <3>1
  <2>2. ASSUME NEW j \in o .. n - 1
        PROVE  \E i \in 1 .. n - o : s[i] = Text(0, j)
    <3>1. j + 1 - o \in 1 .. n - o /\ o + (j + 1 - o) - 1 = j
      BY <1>1
    <3>2. s[j + 1 - o] = Text(0, o + (j + 1 - o) - 1)
      BY <1>5, <3>1
    <3> QED  BY <3>1, <3>2
  <2> QED  BY <1>8, <2>1, <2>2
<1>10. Sent(o) \cup Texts(s) = Sent(n)
  <2>1. 0 .. n - 1 = (0 .. o - 1) \cup (o .. n - 1)
    BY <1>1
  <2> QED  BY <1>9, <2>1 DEF Sent
<1> QED  BY <1>1, <1>6, <1>10 DEF n, s

\* A terminal row is the end that the run came to.
LEMMA RowIsTrueEnd ==
  ASSUME Shape, NEW c \in Calls, Settled(c), row[c] \in Terminal
  PROVE  TrueEnd(c, row[c]) /\ (row[c] # "cancelled" => Over(c))
BY Typed DEF Settled, TrueEnd, Terminal, Over, Steps

LEMMA FollowMine ==
  ASSUME Shape, NEW c \in Streamed, Mine(c), Follow(c)
  PROVE  Mine(c)'
<1>0. c \in Calls /\ view[c] \in Views
  BY ExecutionAssumption DEF Shape
<1>1. /\ row'[c] = row[c] /\ run'[c] = run[c] /\ file'[c] = file[c]
      /\ writer'[c] = writer[c] /\ cancel'[c] = cancel[c] /\ lease'[c] = lease[c]
      /\ \/ view[c].step = "tail" /\ view'[c] = Read(c, "row")
         \/ /\ view[c].step = "row"
            /\ view'[c] = [view[c] EXCEPT
                 !.step = IF row[c] \in Terminal THEN "last" ELSE "tail", !.seen = row[c]]
         \/ view[c].step = "last" /\ view'[c] = ByRow(c, Read(c, "last"))
  BY FollowOf
<1>2. EndsStay(c)
  BY <1>1 DEF EndsStay, TrueEnd
<1>3. InFile(c)' /\ Settled(c)'
  BY <1>0, <1>1, <1>2, KeptFile DEF Mine, Settled
<1>4. \A i \in 1 .. Len(file[c]) : IsDone(file[c][i]) =>
        file[c][i][2] \in Terminal /\ TrueEnd(c, file[c][i][2])
  <2> SUFFICES ASSUME NEW i \in 1 .. Len(file[c]), IsDone(file[c][i])
               PROVE  file[c][i][2] \in Terminal /\ TrueEnd(c, file[c][i][2])
    OBVIOUS
  <2>1. PICK s \in Terminal : file[c][i] = Done(s)
    BY <1>0, Typed, DoneLines
  <2>2. TrueEnd(c, s) /\ Done(s)[2] = s
    BY <2>1, DoneLines DEF Mine, InFile
  <2> QED  BY <2>1, <2>2
<1>5. Len(file[c]) =< MaxChunks + 1 /\ Len(file[c]) \in Nat
  BY <1>0, Typed DEF Mine, InFile
\* A read in which the end was found, or not.
<1>6. ASSUME NEW o \in {"row", "last"}, view[c].step # "ended"
      PROVE  /\ Read(c, o).offset =< MaxChunks + 1
             /\ Read(c, o).told \in Terminal \cup {"none"}
             /\ Read(c, o).step = "ended" => TrueEnd(c, Read(c, o).told)
             /\ Read(c, o).step \in {o, "ended"} /\ Read(c, o).seen = view[c].seen
             /\ run[c].attempt = 0 /\ row[c] # "cancelled" =>
                  /\ Read(c, o).heard = Sent(run[c].sent)
                  /\ Read(c, o).step = "ended" <=> Over(c)
                  /\ ~Over(c) => Read(c, o).offset = run[c].sent
  <2>1. /\ Read(c, o).offset = Len(file[c]) /\ Read(c, o).seen = view[c].seen
        /\ Read(c, o).heard = view[c].heard \cup Texts(News(c))
        /\ Ends(News(c)) = {} => Read(c, o).step = o /\ Read(c, o).told = view[c].told
        /\ Ends(News(c)) # {} =>
             /\ Read(c, o).step = "ended"
             /\ \E i \in 1 .. Len(file[c]) :
                  IsDone(file[c][i]) /\ Read(c, o).told = file[c][i][2]
    BY ReadIs
  <2>2. /\ Read(c, o).told \in Terminal \cup {"none"}
        /\ Read(c, o).step = "ended" => TrueEnd(c, Read(c, o).told)
    BY <1>4, <2>1 DEF Mine, InView
  <2>3. run[c].attempt = 0 /\ row[c] # "cancelled" =>
          /\ Read(c, o).heard = Sent(run[c].sent)
          /\ Read(c, o).step = "ended" <=> Over(c)
          /\ ~Over(c) => Read(c, o).offset = run[c].sent
    <3> SUFFICES ASSUME run[c].attempt = 0, row[c] # "cancelled"
                 PROVE  /\ Read(c, o).heard = Sent(run[c].sent)
                        /\ Read(c, o).step = "ended" <=> Over(c)
                        /\ ~Over(c) => Read(c, o).offset = run[c].sent
      OBVIOUS
    <3>1. ~Over(c) => Len(file[c]) = run[c].sent
      BY <1>0, Typed DEF Mine, FirstTry
    <3> QED  BY <1>6, <2>1, <3>1, HeardNews
  <2> QED  BY <1>5, <2>1, <2>2, <2>3
<1>7. CASE view[c].step = "tail" /\ view'[c] = Read(c, "row")
  <2>1. InView(c)'
    BY <1>1, <1>6, <1>7 DEF InView, TrueEnd
  <2>2. FirstTry(c)'
    <3> SUFFICES ASSUME run[c].attempt = 0, row[c] # "cancelled" PROVE FirstTry(c)'
      BY <1>1 DEF FirstTry
    <3>1. run[c].sent \in Nat
      BY <1>0, Typed
    <3> QED  BY <1>1, <1>6, <1>7, <3>1 DEF Mine, FirstTry, Over, Sent
  <2> QED  BY <1>3, <2>1, <2>2 DEF Mine
<1>8. CASE /\ view[c].step = "row"
           /\ view'[c] = [view[c] EXCEPT
                !.step = IF row[c] \in Terminal THEN "last" ELSE "tail", !.seen = row[c]]
  <2>1. /\ view'[c].step = IF row[c] \in Terminal THEN "last" ELSE "tail"
        /\ view'[c].seen = row[c] /\ view'[c].offset = view[c].offset
        /\ view'[c].told = view[c].told /\ view'[c].heard = view[c].heard
    BY <1>0, <1>8 DEF Views
  <2>2. InView(c)'
    BY <1>1, <2>1 DEF Mine, InView
  <2>3. FirstTry(c)'
    BY <1>1, <1>8, <2>1 DEF Mine, FirstTry, Over, Sent
  <2> QED  BY <1>3, <2>2, <2>3 DEF Mine
<1>9. CASE view[c].step = "last" /\ view'[c] = ByRow(c, Read(c, "last"))
  <2> DEFINE r == Read(c, "last")
  <2>1. view[c].seen = row[c] /\ row[c] \in Terminal
    BY <1>9 DEF Mine, InView
  <2>2. r \in Views
    BY ReadIs
  <2>3. TrueEnd(c, row[c]) /\ (row[c] # "cancelled" => Over(c))
    BY <1>0, <2>1, RowIsTrueEnd DEF Mine
  <2>4. CASE r.step = "ended"
    <3>1. view'[c] = r
      BY <1>9, <2>4 DEF ByRow
    <3>2. InView(c)'
      BY <1>1, <1>6, <1>9, <2>4, <3>1 DEF InView, TrueEnd
    <3>3. FirstTry(c)'
      BY <1>1, <1>6, <1>9, <2>4, <3>1 DEF Mine, FirstTry, Over, Sent
    <3> QED  BY <1>3, <3>2, <3>3 DEF Mine
  <2>5. CASE r.step # "ended"
    <3>1. row[c] = "cancelled" \/ run[c].attempt # 0
      BY <1>6, <1>9, <2>3, <2>5
    <3>2. /\ view'[c].step = "ended" /\ view'[c].told = row[c]
          /\ view'[c].offset = r.offset
      <4>1. r.seen = row[c]
        BY <1>6, <1>9, <2>1
      <4> HIDE DEF r
      <4>2. ByRow(c, r).step = "ended" /\ ByRow(c, r).told = r.seen /\ ByRow(c, r).offset = r.offset
        BY <2>2, <2>5 DEF ByRow, Views
      <4> QED  BY <1>9, <4>1, <4>2 DEF r
    <3>3. InView(c)'
      BY <1>1, <1>6, <1>9, <2>1, <2>3, <3>2 DEF InView, TrueEnd
    <3>4. FirstTry(c)'
      BY <1>1, <3>1 DEF FirstTry
    <3> QED  BY <1>3, <3>3, <3>4 DEF Mine
  <2> QED  BY <2>4, <2>5
<1> QED  BY <1>1, <1>7, <1>8, <1>9

-----------------------------------------------------------------------------
(* Execution: the invariant is kept, and what follows from it.             *)

LEMMA MineApart ==
  ASSUME NEW c, NEW d \in Calls \ {c}, Apart(c), Mine(d)
  PROVE  Mine(d)'
<1>1. /\ row'[d] = row[d] /\ run'[d] = run[d] /\ file'[d] = file[d]
      /\ writer'[d] = writer[d] /\ cancel'[d] = cancel[d] /\ lease'[d] = lease[d]
      /\ d \in Streamed => view'[d] = view[d]
  BY DEF Apart
<1>2. \A s : TrueEnd(d, s) = TrueEnd(d, s)'
  BY <1>1 DEF TrueEnd
<1>3. Settled(d)'
  BY <1>1 DEF Mine, Settled
<1>4. InFile(d)'
  BY <1>1, <1>2 DEF Mine, InFile
<1>5. d \in Streamed => InView(d)'
  BY <1>1 DEF Mine, InView, TrueEnd
<1>6. d \in Streamed => FirstTry(d)'
  BY <1>1 DEF Mine, FirstTry, Over, Sent
<1> QED  BY <1>3, <1>4, <1>5, <1>6 DEF Mine

EJobs == \A c \in Calls : Mine(c)

LEMMA EJobStep ==
  ASSUME Counted, Shape, EJobs, NEW c \in Calls,
         \/ WorkerStep(c) \/ Chunk(c) \/ CallReturns(c) \/ CallRaises(c)
         \/ CancelRow(c) \/ CancelStream(c)
         \/ (c \in Streamed /\ Follow(c))
  PROVE  Shape' /\ Apart(c) /\ Mine(c)'
<1>0. Mine(c)
  BY DEF EJobs
<1>1. CASE Claim(c)
  BY <1>0, <1>1, ClaimOf, ClaimMine
<1>2. CASE Attempt(c)
  BY <1>0, <1>2, AttemptOf, AttemptMine
<1>3. CASE Chunk(c)
  BY <1>0, <1>3, ChunkOf, ChunkMine
<1>4. CASE CallReturns(c)
  BY <1>0, <1>4, ReturnsOf, ReturnsMine
<1>5. CASE CallRaises(c) \/ CallExpires(c)
  BY <1>0, <1>5, RaisesOf, RaisesMine
<1>6. CASE Wake(c)
  BY <1>0, <1>6, WakeOf, WakeMine
<1>7. CASE StoreResult(c)
  BY <1>0, <1>7, StoresMine
<1>8. CASE Interrupted(c)
  BY <1>0, <1>8, InterruptedOf, InterruptedMine
<1>9. CASE CancelRow(c)
  BY <1>0, <1>9, CancelRowOf, CancelRowMine
<1>10. CASE CancelStream(c)
  BY <1>0, <1>10, CancelStreamOf, CancelStreamMine
<1>11. CASE c \in Streamed /\ Follow(c)
  BY <1>0, <1>11, FollowOf, FollowMine
<1> QED
  BY <1>1, <1>2, <1>3, <1>4, <1>5, <1>6, <1>7, <1>8, <1>9, <1>10, <1>11 DEF WorkerStep

LEMMA EJobsStep == Counted /\ Shape /\ EJobs /\ [ExecNext]_execVars => Shape' /\ EJobs'
<1> SUFFICES ASSUME Counted, Shape, EJobs, [ExecNext]_execVars PROVE Shape' /\ EJobs'
  OBVIOUS
<1>1. ASSUME NEW c \in Calls, Shape', Apart(c), Mine(c)'
      PROVE  Shape' /\ EJobs'
  BY <1>1, MineApart DEF EJobs
<1>2. ASSUME NEW c \in Calls,
             \/ WorkerStep(c) \/ Chunk(c) \/ CallReturns(c) \/ CallRaises(c)
             \/ CancelRow(c) \/ CancelStream(c)
      PROVE  Shape' /\ EJobs'
  BY <1>1, <1>2, EJobStep
<1>3. ASSUME NEW c \in Streamed, Follow(c)
      PROVE  Shape' /\ EJobs'
  <2>1. c \in Calls
    BY ExecutionAssumption
  <2> QED  BY <1>1, <1>3, <2>1, EJobStep
<1>4. CASE UNCHANGED <<row, run, file, writer, cancel, view, lease>>
  <2>1. Shape'
    BY <1>4 DEF Shape
  <2>2. ASSUME NEW d \in Calls PROVE Mine(d)'
    <3>1. Mine(d)
      BY DEF EJobs
    <3>2. Settled(d)' /\ InFile(d)'
      BY <1>4, <3>1 DEF Mine, Settled, InFile, TrueEnd
    <3>3. d \in Streamed => InView(d)' /\ FirstTry(d)'
      BY <1>4, <3>1 DEF Mine, InView, TrueEnd, FirstTry, Over, Sent
    <3> QED  BY <3>2, <3>3 DEF Mine
  <2> QED  BY <2>1, <2>2 DEF EJobs
<1>5. CASE ExecTick
  BY <1>4, <1>5 DEF ExecTick, PoolTick
<1>6. CASE UNCHANGED execVars
  BY <1>4, <1>6 DEF execVars, poolVars
<1> QED  BY <1>2, <1>3, <1>5, <1>6 DEF ExecNext

LEMMA EJobsInit == ExecInit => Shape /\ EJobs
<1> SUFFICES ASSUME ExecInit PROVE Shape /\ EJobs
  OBVIOUS
<1>1. Shape
  <2>1. NoFile \in Seq(AnyLine)
    BY DEF NoFile
  <2>2. [step |-> "queued", attempt |-> 0, sent |-> 0, outcome |-> "none"] \in Runs
    BY DEF Runs
  <2>3. [step |-> "tail", offset |-> 0, heard |-> {}, seen |-> "none", told |-> "none"]
          \in Views
    BY DEF Views
  <2> QED  BY <2>1, <2>2, <2>3 DEF ExecInit, PoolInit, Shape, Statuses
<1>2. ASSUME NEW c \in Calls PROVE Mine(c)
  <2>1. /\ row[c] = "queued" /\ file[c] = <<>> /\ writer[c] = NoWriter
        /\ cancel[c] = "none" /\ lease[c] = NoHost
        /\ run[c].step = "queued" /\ run[c].attempt = 0 /\ run[c].sent = 0
        /\ c \in Streamed => /\ view[c].step = "tail" /\ view[c].offset = 0
                             /\ view[c].heard = {} /\ view[c].told = "none"
    BY DEF ExecInit, PoolInit, NoFile
  <2>2. Settled(c) /\ InFile(c)
    BY <1>1, <2>1, Typed DEF Settled, InFile
  <2>3. c \in Streamed => InView(c) /\ FirstTry(c)
    BY <1>1, <2>1, Typed DEF InView, FirstTry, Over, Sent
  <2> QED  BY <2>2, <2>3 DEF Mine
<1> QED  BY <1>1, <1>2 DEF EJobs

LEMMA ExecRecentStep ==
  Counted /\ RecentTyped /\ [ExecNext]_execVars => RecentTyped'
<1> SUFFICES ASSUME Counted, RecentTyped, [ExecNext]_execVars PROVE RecentTyped'
  OBVIOUS
<1>1. ASSUME NEW c \in Calls, Served(c) PROVE RecentTyped'
  <2>1. lease[c] \in Hosts /\ Model[c] \in Models /\ Note(lease[c], Model[c])
    BY <1>1, ModelAssumption DEF Served, GiveBack, Counted
  <2> QED  BY <2>1, NoteTyped
<1>2. CASE UNCHANGED recent
  BY <1>2 DEF RecentTyped
<1> QED
  BY <1>1, <1>2, ExecKinds DEF Lease, Failed, Abandoned, ExecTick, PoolTick, poolVars

LEMMA ExecInitRecent == ExecInit => RecentTyped
<1> SUFFICES ASSUME ExecInit PROVE RecentTyped
  OBVIOUS
<1>1. recent = [h \in Hosts |-> <<>>]
  BY DEF ExecInit, PoolInit
<1> QED  BY <1>1, PoolAssumption DEF RecentTyped

EInv == Counted /\ Avoided /\ RecentTyped /\ Shape /\ EJobs

LEMMA EInvariant == ExecSpec => []EInv
<1>1. ExecInit => EInv
  BY ExecInitAvoided, ExecInitRecent, EJobsInit DEF EInv
<1>2. EInv /\ [ExecNext]_execVars => EInv'
  BY ExecCounts, AvoidedStep, ExecRecentStep, EJobsStep DEF EInv
<1> QED  BY <1>1, <1>2, PTL DEF ExecSpec

\* Execution keeps its types.
THEOREM ExecutionTypes == ExecSpec => []ExecTypeOK
<1>1. EInv => ExecTypeOK
  <2> SUFFICES ASSUME EInv PROVE ExecTypeOK
    OBVIOUS
  <2>1. PoolTypeOK /\ blamed \in [Calls -> [Hosts -> 0 .. FailTicks]]
    BY DEF EInv, Counted, Avoided, RecentTyped, PoolTypeOK
  <2>2. row \in [Calls -> {"queued", "processing"} \cup Terminal]
        /\ cancel \in [Calls -> {"none", "here", "elsewhere", "told"}]
    BY DEF EInv, Shape, Statuses
  <2>3. ASSUME NEW c \in Calls
        PROVE  /\ run[c].step \in {"queued", "attempt", "call", "sleep", "store", "ended"}
               /\ run[c].attempt \in 0 .. Policy[c].retries
               /\ run[c].sent \in 0 .. MaxChunks
               /\ run[c].outcome \in {"none", "completed", "failed"}
               /\ file[c] \in Seq(Lines(c))
               /\ writer[c] \in 0 .. MaxChunks \cup {NoWriter}
               /\ lease[c] # NoHost <=> At(c, "call")
    <3>1. Settled(c) /\ InFile(c) /\ Shape
      BY DEF EInv, EJobs, Mine
    <3>2. file[c] \in Seq(Lines(c))
      <4>1. file[c] \in Seq(AnyLine) /\ \A i \in 1 .. Len(file[c]) : file[c][i] \in Lines(c)
        BY <3>1, Typed DEF InFile
      <4> QED  BY <4>1
    <3> QED  BY <3>1, <3>2, Typed DEF Settled, InFile, At, Steps
  <2>4. ASSUME NEW c \in Streamed
        PROVE  /\ view[c].step \in {"tail", "row", "last", "ended"}
               /\ view[c].offset \in 0 .. MaxChunks + 1
               /\ view[c].told \in Terminal \cup {"none"}
    <3>1. c \in Calls
      BY ExecutionAssumption
    <3>2. InView(c) /\ view[c] \in Views /\ MaxChunks \in Nat
      BY <3>1, ExecutionAssumption DEF EInv, EJobs, Mine, Shape
    <3> QED  BY <3>2 DEF InView, Views
  <2> QED  BY <2>1, <2>2, <2>3, <2>4 DEF ExecTypeOK
<1> QED  BY <1>1, EInvariant, PTL

\* Whenever it joins and however its reads fall between the worker's writes, the
\* follower is not told of an end that the job does not come to (only a cancel may
\* overtake the worker's result), and if the first attempt succeeds it hears all of it.
THEOREM FollowersHear == ExecSpec => []FollowerTruth
<1>1. EInv => FollowerTruth
  <2> SUFFICES ASSUME EInv, NEW c \in Streamed, view[c].step = "ended"
               PROVE  /\ Heading(c) \in {view[c].told, "cancelled"}
                      /\ row[c] = "completed" /\ run[c].attempt = 0 =>
                           view[c].heard = AllOf(c)
    BY DEF FollowerTruth
  <2>1. Mine(c)
    BY ExecutionAssumption DEF EInv, EJobs
  <2>2. TrueEnd(c, view[c].told)
    BY <2>1 DEF Mine, InView
  <2>3. Heading(c) \in {view[c].told, "cancelled"}
    BY <2>2 DEF TrueEnd, Heading
  <2>4. row[c] = "completed" /\ run[c].attempt = 0 => view[c].heard = AllOf(c)
    BY <2>1 DEF Mine, FirstTry, Sent, AllOf
  <2> QED  BY <2>3, <2>4
<1> QED  BY <1>1, EInvariant, PTL

-----------------------------------------------------------------------------
(* Recursive functions of a number.                                        *)

\* What holds at 0 and goes on holds up to N.
LEMMA UpTo ==
  ASSUME NEW N \in Nat, NEW T, 0 \in T, \A n \in 1 .. N : n - 1 \in T => n \in T
  PROVE  \A n \in 0 .. N : n \in T
<1>1. SUFFICES ASSUME NEW m \in 0 .. N, m \notin T PROVE FALSE
  OBVIOUS
<1>2. {n \in 0 .. N : n \notin T} \in SUBSET Nat
  OBVIOUS
<1>3. PICK n \in 0 .. N : n \notin T /\ \A k \in 0 .. N : k \notin T => n =< k
  BY <1>1, <1>2, LeastNumber
<1>4. n \in 1 .. N /\ n - 1 \in 0 .. N /\ n - 1 < n
  BY <1>3
<1>5. n - 1 \in T
  BY <1>3, <1>4
<1> QED  BY <1>3, <1>4, <1>5

\* f starts with a and goes on by the functions step[n], which stay in V.
Folds(f, N, a, step) == f[0] = a /\ \A n \in 1 .. N : f[n] = step[n][f[n - 1]]
StaysIn(step, N, V) == \A n \in 1 .. N, v \in V : step[n][v] \in V

LEMMA Fold ==
  ASSUME NEW N \in Nat, NEW V, NEW a \in V, NEW step, StaysIn(step, N, V)
  PROVE  \E f \in [0 .. N -> V] : Folds(f, N, a, step)
<1> USE DEF Folds, StaysIn
<1> DEFINE Partial(n) == {f \in [0 .. n -> V] :
                         f[0] = a /\ \A k \in 1 .. n : f[k] = step[k][f[k - 1]]}
           T == {n \in 0 .. N : Partial(n) # {}}
<1>1. 0 \in T
  <2> DEFINE f == [i \in 0 .. 0 |-> a]
  <2>1. f \in [0 .. 0 -> V]
    OBVIOUS
  <2>2. f[0] = a
    OBVIOUS
  <2>3. \A k \in 1 .. 0 : FALSE
    OBVIOUS
  <2> HIDE DEF f
  <2>4. f \in Partial(0)
    BY <2>1, <2>2, <2>3
  <2> QED  BY <2>4
<1>2. ASSUME NEW n \in 1 .. N, n - 1 \in T PROVE n \in T
  <2>1. PICK f \in [0 .. n - 1 -> V] :
          f[0] = a /\ \A k \in 1 .. n - 1 : f[k] = step[k][f[k - 1]]
    BY <1>2
  <2> DEFINE g == [i \in 0 .. n |-> IF i = n THEN step[n][f[n - 1]] ELSE f[i]]
  <2>2. n - 1 \in 0 .. n - 1 /\ n \in Nat
    OBVIOUS
  <2>3. f[n - 1] \in V
    BY <2>2
  <2>4. step[n][f[n - 1]] \in V
    BY <2>3
  <2>5. g \in [0 .. n -> V]
    <3>1. \A i \in 0 .. n : i = n \/ i \in 0 .. n - 1
      BY <2>2
    <3> QED  BY <2>4, <3>1
  <2>6. g[0] = a /\ g[n] = step[n][f[n - 1]] /\ \A i \in 0 .. n - 1 : g[i] = f[i]
    BY <2>1, <2>2
  <2> HIDE DEF g
  <2>7. ASSUME NEW k \in 1 .. n PROVE g[k] = step[k][g[k - 1]]
    <3>1. k - 1 \in 0 .. n - 1 /\ (k = n \/ k \in 1 .. n - 1)
      BY <2>2
    <3> QED  BY <2>1, <2>6, <3>1
  <2>8. g \in Partial(n)
    BY <2>5, <2>6, <2>7
  <2> QED  BY <2>8
<1>3. N \in T
  <2> HIDE DEF T
  <2>1. \A n \in 1 .. N : n - 1 \in T => n \in T
    BY <1>2
  <2>2. \A n \in 0 .. N : n \in T
    BY <1>1, <2>1, UpTo
  <2> QED  BY <2>2
<1> QED  BY <1>3

\* So does any other function that starts with a and goes on like step.
LEMMA FoldStays ==
  ASSUME NEW N \in Nat, NEW V, NEW step, StaysIn(step, N, V), NEW u, u[0] \in V,
         \A n \in 1 .. N : u[n - 1] \in V => u[n] = step[n][u[n - 1]]
  PROVE  u[N] \in V
<1> DEFINE T == {n \in 0 .. N : u[n] \in V}
<1>1. 0 \in T
  OBVIOUS
<1>2. \A n \in 1 .. N : n - 1 \in T => n \in T
  BY DEF StaysIn
<1>3. \A n \in 0 .. N : n \in T
  <2> HIDE DEF T
  <2> QED  BY <1>1, <1>2, UpTo
<1> QED  BY <1>3

\* A comprehension's elements come from its list and satisfy its condition.
LEMMA KeptIn ==
  ASSUME NEW X, NEW s \in Seq(X), NEW S
  PROVE  Kept(s, S) \in Seq(X \cap S)
<1> DEFINE N == Len(s)
           V == Seq(X \cap S)
           A(t, n) == IF s[n] \in S THEN Append(t, s[n]) ELSE t
           step == [n \in 1 .. N |-> [t \in V |-> A(t, n)]]
           upto == CHOOSE u : u = [n \in 0 .. Len(s) |->
                                     IF n = 0 THEN <<>>
                                     ELSE IF s[n] \in S THEN Append(u[n - 1], s[n])
                                          ELSE u[n - 1]]
<1>1. N \in Nat /\ <<>> \in V
  OBVIOUS
<1>2. \A n \in 1 .. N, t \in V : A(t, n) \in V
  OBVIOUS
<1>3. Kept(s, S) = upto[N]
  BY DEF Kept
<1>4. \A n \in 1 .. N, t \in V : step[n][t] = A(t, n)
  <2> HIDE DEF A, V
  <2> QED  OBVIOUS
<1>5. StaysIn(step, N, V)
  <2> HIDE DEF A, V, N, step
  <2> QED  BY <1>2, <1>4 DEF StaysIn
<1>6. PICK f \in [0 .. N -> V] : Folds(f, N, <<>>, step)
  <2> HIDE DEF V, N, step
  <2> QED  BY <1>1, <1>5, Fold
<1>7. f = [n \in 0 .. N |-> IF n = 0 THEN <<>> ELSE A(f[n - 1], n)]
  <2>1. \A n \in 0 .. N : n # 0 => n \in 1 .. N /\ n - 1 \in 0 .. N
    BY <1>1
  <2> HIDE DEF A, V, N, step
  <2> QED  BY <1>4, <1>6, <2>1 DEF Folds
<1>8. upto = [n \in 0 .. N |-> IF n = 0 THEN <<>> ELSE A(upto[n - 1], n)]
  BY <1>7
<1> HIDE DEF upto
<1>9. upto[0] = <<>> /\ \A n \in 1 .. N : upto[n] = A(upto[n - 1], n)
  <2>1. 0 \in 0 .. N /\ \A n \in 1 .. N : n \in 0 .. N /\ n # 0
    BY <1>1
  <2> HIDE DEF A
  <2> QED  BY <1>8, <2>1
<1>10. upto[N] \in V
  <2> HIDE DEF A, V, N, step
  <2>1. \A n \in 1 .. N : upto[n - 1] \in V => upto[n] = step[n][upto[n - 1]]
    BY <1>4, <1>9
  <2>2. upto[0] \in V
    BY <1>1, <1>9
  <2> QED  BY <1>1, <1>5, <2>1, <2>2, FoldStays
<1> QED  BY <1>3, <1>10

-----------------------------------------------------------------------------
(* The preloader's plan.                                                   *)

HostView == [busy : Nat, loaded : Seq(Models), recent : SUBSET Models]
Wants == [processing : Seq(Jobs), next : Seq(Jobs), soon : Seq(Jobs), wide : SUBSET Models]

LEMMA HostsAre == /\ Cardinality(Hosts) \in Nat /\ Hosts = 1 .. Cardinality(Hosts)
                  /\ \A h \in Hosts : h \in Nat /\ h # NoHost
BY HostOrderAssumption, FS_CardinalityType DEF NoHost

LEMMA UsedIs ==
  ASSUME NEW v, NEW h, v[h].loaded \in Seq(Models)
  PROVE  Used(v, h) \in Nat
<1> DEFINE s == v[h].loaded
           N == Len(s)
           V == Nat
           A(t, n) == t + Size[s[n]]
           step == [n \in 1 .. N |-> [t \in V |-> A(t, n)]]
           upto == CHOOSE u : u = [n \in 0 .. Len(v[h].loaded) |->
                                     IF n = 0 THEN 0
                                     ELSE u[n - 1] + Size[v[h].loaded[n]]]
<1>1. N \in Nat /\ 0 \in V
  OBVIOUS
<1>2. \A n \in 1 .. N, t \in V : A(t, n) \in V
  <2>1. \A n \in 1 .. N : s[n] \in Models
    OBVIOUS
  <2> HIDE DEF s, N
  <2>2. \A n \in 1 .. N : Size[s[n]] \in Nat
    BY <2>1, MemoryAssumption
  <2> QED  BY <2>2
<1>3. Used(v, h) = upto[N]
  BY DEF Used
<1>4. \A n \in 1 .. N, t \in V : step[n][t] = A(t, n)
  <2> HIDE DEF A, N, V
  <2> QED  OBVIOUS
<1>5. StaysIn(step, N, V)
  <2> HIDE DEF A, N, V, step, s
  <2> QED  BY <1>2, <1>4 DEF StaysIn
<1>6. PICK f \in [0 .. N -> V] : Folds(f, N, 0, step)
  <2> HIDE DEF N, V, step, s
  <2> QED  BY <1>1, <1>5, Fold
<1>7. f = [n \in 0 .. N |-> IF n = 0 THEN 0 ELSE A(f[n - 1], n)]
  <2> HIDE DEF A, N, V, step, s
  <2>1. \A n \in 0 .. N : n # 0 => n \in 1 .. N /\ n - 1 \in 0 .. N
    BY <1>1
  <2> QED  BY <1>4, <1>6, <2>1 DEF Folds
<1>8. upto = [n \in 0 .. N |-> IF n = 0 THEN 0 ELSE A(upto[n - 1], n)]
  BY <1>7
<1> HIDE DEF upto
<1>9. upto[0] = 0 /\ \A n \in 1 .. N : upto[n] = A(upto[n - 1], n)
  <2>1. 0 \in 0 .. N /\ \A n \in 1 .. N : n \in 0 .. N /\ n # 0
    BY <1>1
  <2> HIDE DEF A
  <2> QED  BY <1>8, <2>1
<1>10. upto[N] \in V
  <2> HIDE DEF A, N, V, step, s
  <2>1. \A n \in 1 .. N : upto[n - 1] \in V => upto[n] = step[n][upto[n - 1]]
    BY <1>4, <1>9
  <2>2. upto[0] \in V
    BY <1>1, <1>9
  <2> QED  BY <1>1, <1>5, <2>1, <2>2, FoldStays
<1> QED  BY <1>3, <1>10

LEMMA Joined ==
  ASSUME NEW S, NEW s \in Seq(S), NEW t \in Seq(S)
  PROVE  s \o t \in Seq(S)
OBVIOUS

LEMMA NextIsWanted ==
  ASSUME NEW d \in Wants
  PROVE  d.next \o d.soon \in Seq(Jobs)
<1>1. d.next \in Seq(Jobs) /\ d.soon \in Seq(Jobs)
  BY DEF Wants
<1> QED  BY <1>1, Joined

LEMMA WantedIs ==
  ASSUME NEW d \in Wants
  PROVE  Wanted(d) \in Seq(Models)
<1> DEFINE s == d.next \o d.soon
           N == Len(s)
           V == Seq(Models)
           A(t, n) == IF Model[s[n]] \in Elems(t) THEN t ELSE Append(t, Model[s[n]])
           step == [n \in 1 .. N |-> [t \in V |-> A(t, n)]]
           upto == CHOOSE u : u = [n \in 0 .. Len(d.next \o d.soon) |->
                     IF n = 0 THEN <<>>
                     ELSE IF Model[(d.next \o d.soon)[n]] \in Elems(u[n - 1]) THEN u[n - 1]
                          ELSE Append(u[n - 1], Model[(d.next \o d.soon)[n]])]
<1>0. s \in Seq(Jobs)
  BY NextIsWanted
<1>1. s \in Seq(Jobs) /\ N \in Nat /\ <<>> \in V
  <2> HIDE DEF s
  <2> QED  BY <1>0
<1>2. \A n \in 1 .. N, t \in V : A(t, n) \in V
  <2> HIDE DEF s
  <2>1. \A n \in 1 .. N : s[n] \in Jobs
    BY <1>1
  <2> HIDE DEF N
  <2>2. \A n \in 1 .. N : Model[s[n]] \in Models
    BY <2>1, ModelAssumption, JobsAssumption
  <2> QED  BY <2>2
<1>3. Wanted(d) = upto[N]
  BY DEF Wanted
<1>4. \A n \in 1 .. N, t \in V : step[n][t] = A(t, n)
  <2> HIDE DEF A, N, V
  <2> QED  OBVIOUS
<1>5. StaysIn(step, N, V)
  <2> HIDE DEF A, N, V, step
  <2> QED  BY <1>2, <1>4 DEF StaysIn
<1>6. PICK f \in [0 .. N -> V] : Folds(f, N, <<>>, step)
  <2> HIDE DEF N, V, step
  <2> QED  BY <1>1, <1>5, Fold
<1>7. f = [n \in 0 .. N |-> IF n = 0 THEN <<>> ELSE A(f[n - 1], n)]
  <2> HIDE DEF A, N, V, step
  <2>1. \A n \in 0 .. N : n # 0 => n \in 1 .. N /\ n - 1 \in 0 .. N
    BY <1>1
  <2> QED  BY <1>4, <1>6, <2>1 DEF Folds
<1>8. upto = [n \in 0 .. N |-> IF n = 0 THEN <<>> ELSE A(upto[n - 1], n)]
  BY <1>7
<1> HIDE DEF upto
<1>9. upto[0] = <<>> /\ \A n \in 1 .. N : upto[n] = A(upto[n - 1], n)
  <2> HIDE DEF A, N
  <2>1. 0 \in 0 .. N /\ \A n \in 1 .. N : n \in 0 .. N /\ n # 0
    BY <1>1
  <2> QED  BY <1>8, <2>1
<1>10. upto[N] \in V
  <2> HIDE DEF A, N, V, step
  <2>1. \A n \in 1 .. N : upto[n - 1] \in V => upto[n] = step[n][upto[n - 1]]
    BY <1>4, <1>9
  <2>2. upto[0] \in V
    BY <1>1, <1>9
  <2> QED  BY <1>1, <1>5, <2>1, <2>2, FoldStays
<1> QED  BY <1>3, <1>10

LEMMA MaxIs ==
  ASSUME NEW S \in SUBSET Int, IsFiniteSet(S), S # {}
  PROVE  SetMax(S) \in S /\ \A y \in S : y =< SetMax(S)
<1> DEFINE HasMax(T) == \E x \in T : \A y \in T : y =< x
           Bad == {n \in Nat : \E T \in SUBSET Int : IsFiniteSet(T) /\ T # {}
                                  /\ Cardinality(T) = n /\ ~HasMax(T)}
<1>1. Bad = {}
  <2> SUFFICES ASSUME Bad # {} PROVE FALSE
    OBVIOUS
  <2>1. PICK n \in Bad : \A k \in Bad : n =< k
    BY LeastNumber
  <2>2. PICK T \in SUBSET Int : IsFiniteSet(T) /\ T # {} /\ Cardinality(T) = n /\ ~HasMax(T)
    BY <2>1
  <2>3. PICK x \in T : TRUE
    BY <2>2
  <2>4. IsFiniteSet(T \ {x}) /\ Cardinality(T \ {x}) = n - 1 /\ n - 1 \in Nat
    <3>1. IsFiniteSet(T \ {x}) /\ Cardinality(T \ {x}) = n - 1
      BY <2>2, <2>3, FS_RemoveElement
    <3> QED  BY <3>1, FS_CardinalityType
  <2>5. T \ {x} # {}
    BY <2>2, <2>3
  <2>6. HasMax(T \ {x})
    <3>1. n - 1 \notin Bad
      BY <2>1, <2>4
    <3>2. T \ {x} \in SUBSET Int
      OBVIOUS
    <3> HIDE DEF HasMax
    <3> QED  BY <2>4, <2>5, <3>1, <3>2
  <2>7. PICK z \in T \ {x} : \A y \in T \ {x} : y =< z
    BY <2>6
  <2>8. HasMax(T)
    <3>1. CASE x =< z
      BY <2>7, <3>1
    <3>2. CASE z =< x
      <4>1. \A y \in T : y =< x
        BY <2>7, <3>2
      <4> QED  BY <2>3, <4>1
    <3> QED  BY <3>1, <3>2
  <2> QED  BY <2>2, <2>8
<1>2. HasMax(S)
  <2>1. Cardinality(S) \in Nat
    BY FS_CardinalityType
  <2> HIDE DEF HasMax
  <2> QED  BY <1>1, <2>1
<1> QED  BY <1>2 DEF SetMax

\* Rounding to seconds takes nothing to nothing but what is half a second or less.
LEMMA RoundedIs ==
  ASSUME NEW n \in Int
  PROVE  Formatted(n) \in Nat /\ (~Brief(n) => Formatted(n) > 0)
<1>1. CASE n =< 0
  BY <1>1, KeepAssumption DEF Formatted
<1>2. CASE n > 0
  <2> DEFINE whole == n \div Second
             rest == n % Second
  <2>1. /\ whole \in Nat /\ rest \in Nat
        /\ n = Second * whole + rest
    BY <1>2, KeepAssumption
  <2>2. /\ Rounded(n) \in {whole, whole + 1}
        /\ 2 * rest > Second => Rounded(n) = whole + 1
    BY DEF Rounded
  <2> HIDE DEF whole, rest
  <2>3. Rounded(n) \in Nat
    BY <2>1, <2>2
  <2>4. ASSUME ~Brief(n) PROVE Rounded(n) > 0
    <3>1. CASE whole = 0
      <4>1. n = rest
        BY <2>1, <3>1, KeepAssumption
      <4>2. 2 * n > Second
        BY <1>2, <2>4, KeepAssumption DEF Brief
      <4> QED  BY <2>2, <3>1, <4>1, <4>2
    <3>2. CASE whole # 0
      BY <2>1, <2>2, <3>2
    <3> QED  BY <3>1, <3>2
  <2> PICK r \in Nat : r = Rounded(n)
    BY <2>3
  <2>5. Formatted(n) = Second * r
    BY <1>2 DEF Formatted
  <2>6. Second * r \in Nat /\ (r > 0 => Second * r > 0)
    BY KeepAssumption
  <2> QED  BY <2>4, <2>5, <2>6
<1> QED  BY <1>1, <1>2

\* Whatever jobs and configuration say, a model is kept for a while, unless a duration
\* of half a second or less makes it nothing.
LEMMA KeepIs ==
  ASSUME NEW d \in Wants, NEW m
  PROVE  KeepAliveFor(d, m) \in Nat /\ (~BriefFor(m) => KeepAliveFor(d, m) > 0)
<1> DEFINE J == {i \in Elems(d.next \o d.soon) : Model[i] = m}
           given == {KeepAlive[j] : j \in J}
           policy == IF PolicyKeep = 0 THEN 300 * Second ELSE PolicyKeep
           longest == IF MaxKeep =< 0 THEN 1800 * Second ELSE MaxKeep
           G == {policy} \cup {n \in given : n > 0}
           chosen == Least(longest, SetMax(G))
           kept == IF chosen =< 0 THEN policy ELSE chosen
<1>1. J \in SUBSET Jobs /\ IsFiniteSet(J)
  <2> DEFINE s == d.next \o d.soon
  <2>1. s \in Seq(Jobs)
    BY NextIsWanted
  <2>2. J \in SUBSET Jobs
    <3> HIDE DEF s
    <3>1. Elems(s) \in SUBSET Jobs
      BY <2>1 DEF Elems
    <3> QED  BY <3>1 DEF s
  <2> QED  BY <2>2, ModelAssumption, JobsAssumption, FS_Subset
<1>2. given \in SUBSET Int /\ IsFiniteSet(given)
  <2> DEFINE f == [j \in J |-> KeepAlive[j]]
  <2>1. f \in Surjection(J, given)
    BY DEF Surjection
  <2>2. IsFiniteSet(given)
    <3> HIDE DEF f, J, given
    <3> QED  BY <1>1, <2>1, FS_Surjection
  <2> QED  BY <1>1, <2>2, KeepAssumption
<1>3. policy \in Int /\ longest \in Int
  BY KeepAssumption
<1>4. G \in SUBSET Int /\ IsFiniteSet(G) /\ G # {}
  <2> HIDE DEF given, policy
  <2> DEFINE H == {n \in given : n > 0}
  <2>1. H \in SUBSET given
    OBVIOUS
  <2>2. IsFiniteSet(H)
    BY <1>2, <2>1, FS_Subset
  <2>3. IsFiniteSet(H \cup {policy})
    BY <2>2, FS_AddElement
  <2>4. G = H \cup {policy}
    OBVIOUS
  <2> QED  BY <1>2, <1>3, <2>3, <2>4
<1>5. SetMax(G) \in G /\ \A y \in G : y =< SetMax(G)
  <2> HIDE DEF G
  <2> QED  BY <1>4, MaxIs
<1>6. kept \in Int
  <2>1. SetMax(G) \in Int
    BY <1>4, <1>5
  <2> HIDE DEF G, policy, longest
  <2> QED  BY <1>3, <2>1 DEF Least
<1>7. KeepAliveFor(d, m) = Formatted(kept)
  BY DEF KeepAliveFor
<1>8. ASSUME ~BriefFor(m) PROVE ~Brief(kept)
  <2>1. /\ longest > 0 /\ ~Brief(longest) /\ ~Brief(policy)
        /\ policy >= 0 => policy > 0
    BY <1>8, KeepAssumption DEF BriefFor, Brief
  <2> PICK most \in Int : most = SetMax(G)
    BY <1>4, <1>5
  <2>2. policy =< most
    BY <1>5
  <2>3. ~Brief(most)
    <3>1. CASE most = policy
      BY <2>1, <3>1
    <3>2. CASE most \in given /\ policy > 0
      <4> HIDE DEF policy, given, G, J
      <4> QED  BY <1>3, <2>1, <2>2, <3>2, KeepAssumption DEF Brief
    <3>3. CASE most \in given /\ ~(policy > 0)
      <4>1. PICK j \in J : most = KeepAlive[j]
        BY <3>3
      <4>2. j \in Jobs /\ Model[j] = m
        BY <1>1, <4>1
      <4>3. PolicyKeep < 0
        BY <1>3, <2>1, <3>3, KeepAssumption
      <4> QED  BY <1>8, <4>1, <4>2, <4>3 DEF BriefFor
    <3> QED  BY <1>5, <3>1, <3>2, <3>3
  <2> HIDE DEF policy, longest, G
  <2>4. chosen \in {longest, most}
    BY DEF Least
  <2>5. kept \in {chosen, policy}
    OBVIOUS
  <2> HIDE DEF chosen, kept
  <2> QED  BY <2>1, <2>3, <2>4, <2>5
<1> HIDE DEF kept
<1> QED  BY <1>6, <1>7, <1>8, RoundedIs

LEMMA PreloadKeepIs ==
  ASSUME NEW d \in Wants, NEW m
  PROVE  PreloadKeep(d, m) \in Int /\ (~BriefFor(m) => PreloadKeep(d, m) > 0)
BY KeepIs, KeepAssumption DEF PreloadKeep

Refreshing == {a \in Action : a.op = "refresh" /\ Lasting(a)}

\* What is asked of a plan: a host that gets a model gets nothing else, the model was
\* nowhere and fits; nothing is dropped that the queue needs; keep_alive is finite.
Alone(acts, i) == \A k \in DOMAIN acts : acts[k].host = acts[i].host => k = i
Fitting(d, v, a) == (\A k \in DOMAIN v : ~Has(v, k, a.model)) /\ Fits(v, a.host, a.model, d)
Plans(d, v) ==
  {acts \in Seq(Action) :
     \A i \in DOMAIN acts :
       /\ acts[i].op = "preload" => Alone(acts, i) /\ Fitting(d, v, acts[i])
       /\ acts[i].op = "unload" => acts[i].model \notin d.wide
       /\ Lasting(acts[i])}

LEMMA FirstOnesIs ==
  ASSUME NEW S, NEW s \in Seq(S)
  PROVE  /\ FirstOnes(s) \in Seq(S) /\ Len(FirstOnes(s)) =< Cap
         /\ \A i \in DOMAIN FirstOnes(s) : i \in DOMAIN s /\ FirstOnes(s)[i] = s[i]
<1>1. Cap \in Nat
  BY LimitsAssumption DEF Cap, Most
<1>2. Least(Cap, Len(s)) \in 0 .. Len(s) /\ Least(Cap, Len(s)) =< Cap
  BY <1>1 DEF Least
<1> DEFINE n == Least(Cap, Len(s))
<1> HIDE DEF n
<1>3. n \in 0 .. Len(s) /\ n =< Cap /\ FirstOnes(s) = SubSeq(s, 1, n)
  BY <1>2 DEF n, FirstOnes
<1> QED  BY <1>3

LEMMA RefreshesOfIs ==
  ASSUME NEW d \in Wants, NEW v \in Seq(HostView), NEW h \in DOMAIN v, h \in Hosts
  PROVE  RefreshesOf(d, v, h) \in Seq(Refreshing)
<1> DEFINE keep == Kept(v[h].loaded, Elems(Wanted(d)))
<1>1. keep \in Seq(Models)
  <2>1. v[h].loaded \in Seq(Models)
    <3>1. v[h] \in HostView
      OBVIOUS
    <3> QED  BY <3>1 DEF HostView
  <2>2. keep \in Seq(Models \cap Elems(Wanted(d)))
    BY <2>1, KeptIn
  <2> HIDE DEF keep
  <2> QED  BY <2>2
<1>2. RefreshesOf(d, v, h) =
        IF Busy(v, h) THEN <<>>
        ELSE [i \in DOMAIN keep |-> Act("refresh", keep[i], h, KeepAliveFor(d, keep[i]))]
  BY DEF RefreshesOf
<1> HIDE DEF keep
<1>3. ASSUME NEW i \in DOMAIN keep
      PROVE  Act("refresh", keep[i], h, KeepAliveFor(d, keep[i])) \in Refreshing
  <2>1. /\ KeepAliveFor(d, keep[i]) \in Int
        /\ ~BriefFor(keep[i]) => KeepAliveFor(d, keep[i]) > 0
    BY KeepIs
  <2>2. keep[i] \in Models
    BY <1>1
  <2> QED  BY <2>1, <2>2 DEF Refreshing, Lasting, Action, Act
<1>4. [i \in DOMAIN keep |-> Act("refresh", keep[i], h, KeepAliveFor(d, keep[i]))]
        \in Seq(Refreshing)
  <2>1. DOMAIN keep = 1 .. Len(keep) /\ Len(keep) \in Nat
    BY <1>1
  <2> QED  BY <1>3, <2>1
<1> QED  BY <1>2, <1>4

LEMMA RefreshesIs ==
  ASSUME NEW d \in Wants, NEW v \in Seq(HostView), DOMAIN v = Hosts
  PROVE  Refreshes(d, v) \in Plans(d, v)
<1> DEFINE N == Len(v)
           V == Seq(Refreshing)
           A(t, n) == t \o RefreshesOf(d, v, n)
           step == [n \in 1 .. N |-> [t \in V |-> A(t, n)]]
           upto == CHOOSE u : u = [n \in 0 .. Len(v) |->
                                     IF n = 0 THEN <<>> ELSE u[n - 1] \o RefreshesOf(d, v, n)]
<1>1. N \in Nat /\ <<>> \in V
  OBVIOUS
<1>2. \A n \in 1 .. N, t \in V : A(t, n) \in V
  <2>1. \A n \in 1 .. N : n \in DOMAIN v /\ n \in Hosts
    OBVIOUS
  <2>2. \A n \in 1 .. N : RefreshesOf(d, v, n) \in V
    BY <2>1, RefreshesOfIs
  <2> QED  BY <2>2, Joined
<1>3. Refreshes(d, v) = FirstOnes(upto[N])
  BY DEF Refreshes
<1>4. \A n \in 1 .. N, t \in V : step[n][t] = A(t, n)
  <2> HIDE DEF A, N, V
  <2> QED  OBVIOUS
<1>5. StaysIn(step, N, V)
  <2> HIDE DEF A, N, V, step
  <2> QED  BY <1>2, <1>4 DEF StaysIn
<1>6. PICK f \in [0 .. N -> V] : Folds(f, N, <<>>, step)
  <2> HIDE DEF N, V, step
  <2> QED  BY <1>1, <1>5, Fold
<1>7. f = [n \in 0 .. N |-> IF n = 0 THEN <<>> ELSE A(f[n - 1], n)]
  <2> HIDE DEF A, N, V, step
  <2>1. \A n \in 0 .. N : n # 0 => n \in 1 .. N /\ n - 1 \in 0 .. N
    BY <1>1
  <2> QED  BY <1>4, <1>6, <2>1 DEF Folds
<1>8. upto = [n \in 0 .. N |-> IF n = 0 THEN <<>> ELSE A(upto[n - 1], n)]
  BY <1>7
<1> HIDE DEF upto
<1>9. upto[0] = <<>> /\ \A n \in 1 .. N : upto[n] = A(upto[n - 1], n)
  <2> HIDE DEF A, N
  <2>1. 0 \in 0 .. N /\ \A n \in 1 .. N : n \in 0 .. N /\ n # 0
    BY <1>1
  <2> QED  BY <1>8, <2>1
<1>10. upto[N] \in V
  <2> HIDE DEF A, N, V, step
  <2>1. \A n \in 1 .. N : upto[n - 1] \in V => upto[n] = step[n][upto[n - 1]]
    BY <1>4, <1>9
  <2>2. upto[0] \in V
    BY <1>1, <1>9
  <2> QED  BY <1>1, <1>5, <2>1, <2>2, FoldStays
<1>11. Refreshes(d, v) \in V
  <2> HIDE DEF N
  <2> QED  BY <1>3, <1>10, FirstOnesIs
<1>12. ASSUME NEW acts \in V PROVE acts \in Plans(d, v)
  <2>1. acts \in Seq(Action) /\ \A i \in DOMAIN acts : acts[i] \in Refreshing
    BY DEF Refreshing
  <2> QED  BY <2>1 DEF Refreshing, Plans
<1> QED  BY <1>11, <1>12

\* One action more, on a host that has none.
LEMMA OneMore ==
  ASSUME NEW d, NEW v, NEW acts \in Plans(d, v), NEW a \in Action,
         a.host \notin Reserved(acts),
         a.op = "preload" => Fitting(d, v, a),
         a.op = "unload" => a.model \notin d.wide,
         Lasting(a)
  PROVE  Append(acts, a) \in Plans(d, v)
<1> DEFINE more == Append(acts, a)
           n == Len(acts)
<1>1. acts \in Seq(Action)
  BY DEF Plans
<1>2. /\ more \in Seq(Action) /\ n \in Nat /\ DOMAIN acts = 1 .. n
      /\ DOMAIN more = 1 .. n + 1 /\ more[n + 1] = a
      /\ \A i \in 1 .. n : more[i] = acts[i] /\ acts[i].host # a.host
  BY <1>1 DEF Reserved
<1> HIDE DEF more, n
<1>3. \A i \in DOMAIN more : i \in 1 .. n \/ i = n + 1
  BY <1>2
<1>4. ASSUME NEW i \in 1 .. n, Alone(acts, i) PROVE Alone(more, i)
  BY <1>2, <1>3, <1>4 DEF Alone
<1>5. Alone(more, n + 1)
  BY <1>2, <1>3 DEF Alone
<1>6. ASSUME NEW i \in DOMAIN more
      PROVE  /\ more[i].op = "preload" => Alone(more, i) /\ Fitting(d, v, more[i])
             /\ more[i].op = "unload" => more[i].model \notin d.wide
             /\ Lasting(more[i])
  <2>1. CASE i = n + 1
    BY <1>2, <1>5, <2>1
  <2>2. CASE i \in 1 .. n
    <3>1. /\ acts[i].op = "preload" => Alone(acts, i) /\ Fitting(d, v, acts[i])
          /\ acts[i].op = "unload" => acts[i].model \notin d.wide
          /\ Lasting(acts[i])
      BY <1>2, <2>2 DEF Plans
    <3> QED  BY <1>2, <1>4, <2>2, <3>1
  <2> QED  BY <1>3, <2>1, <2>2
<1>7. more \in Plans(d, v)
  BY <1>2, <1>6 DEF Plans
<1> QED  BY <1>7 DEF more

LEMMA PlaceIs ==
  ASSUME NEW v, NEW m, DOMAIN v = Hosts, Place(v, m) # NoHost
  PROVE  Place(v, m) \in Hosts
<1> DEFINE idle == {h \in DOMAIN v : ~Busy(v, h) /\ shunned[m][h] = 0}
           warm == {h \in idle : m \in v[h].recent}
           from == IF warm = {} THEN idle ELSE warm
<1>1. from \in SUBSET Hosts /\ from \in SUBSET Nat
  BY HostsAssumption
<1>2. Place(v, m) = IF from = {} THEN NoHost ELSE CHOOSE h \in from : \A k \in from : h =< k
  BY DEF Place
<1> HIDE DEF from
<1>3. from # {}
  BY <1>2
<1>4. \E h \in from : \A k \in from : h =< k
  BY <1>1, <1>3, LeastNumber
<1> QED  BY <1>1, <1>2, <1>3, <1>4

LEMMA PreloadsIs ==
  ASSUME NEW d \in Wants, NEW v, DOMAIN v = Hosts, NEW acts \in Plans(d, v)
  PROVE  Preloads(d, v, acts) \in Plans(d, v)
<1> DEFINE ms == Wanted(d)
           N == Len(ms)
           V == Plans(d, v)
           load(n) == Act("preload", ms[n], Place(v, ms[n]), PreloadKeep(d, ms[n]))
           A(t, n) == IF MayPreload(d, v, ms[n], t) THEN Append(t, load(n)) ELSE t
           step == [n \in 1 .. N |-> [t \in V |-> A(t, n)]]
           upto == CHOOSE u : u = [n \in 0 .. Len(Wanted(d)) |->
                     IF n = 0 THEN acts
                     ELSE IF MayPreload(d, v, Wanted(d)[n], u[n - 1])
                          THEN Append(u[n - 1],
                                      Act("preload", Wanted(d)[n], Place(v, Wanted(d)[n]),
                                          PreloadKeep(d, Wanted(d)[n])))
                          ELSE u[n - 1]]
<1>1. ms \in Seq(Models) /\ N \in Nat /\ acts \in V
  <2>1. ms \in Seq(Models)
    BY WantedIs
  <2> HIDE DEF ms
  <2> QED  BY <2>1
<1>2. ASSUME NEW n \in 1 .. N, NEW t \in V PROVE A(t, n) \in V
  <2>1. CASE MayPreload(d, v, ms[n], t)
    <3> HIDE DEF ms
    <3>1. ms[n] \in Models
      BY <1>1
    <3>2. /\ Place(v, ms[n]) # NoHost /\ Place(v, ms[n]) \notin Reserved(t)
          /\ \A k \in DOMAIN v : ~Has(v, k, ms[n])
          /\ Fits(v, Place(v, ms[n]), ms[n], d)
      BY <2>1 DEF MayPreload
    <3>3. Place(v, ms[n]) \in Hosts
      BY <3>2, PlaceIs
    <3>4. PreloadKeep(d, ms[n]) \in Int /\ (~BriefFor(ms[n]) => PreloadKeep(d, ms[n]) > 0)
      BY PreloadKeepIs
    <3>5. /\ load(n) \in Action /\ load(n).op = "preload" /\ Lasting(load(n))
          /\ load(n).host = Place(v, ms[n]) /\ load(n).model = ms[n]
      BY <3>1, <3>3, <3>4 DEF Act, Action, Lasting
    <3> HIDE DEF load
    <3>6. Fitting(d, v, load(n))
      BY <3>2, <3>5 DEF Fitting
    <3>7. Append(t, load(n)) \in V
      BY <3>2, <3>5, <3>6, OneMore
    <3> QED  BY <2>1, <3>7
  <2>2. CASE ~MayPreload(d, v, ms[n], t)
    BY <2>2
  <2> QED  BY <2>1, <2>2
<1>3. Preloads(d, v, acts) = upto[N]
  BY DEF Preloads
<1>4. \A n \in 1 .. N, t \in V : step[n][t] = A(t, n)
  <2> HIDE DEF A, N, V
  <2> QED  OBVIOUS
<1>5. StaysIn(step, N, V)
  <2> HIDE DEF A, N, V, step
  <2> QED  BY <1>2, <1>4 DEF StaysIn
<1>6. PICK f \in [0 .. N -> V] : Folds(f, N, acts, step)
  <2> HIDE DEF N, step
  <2> QED  BY <1>1, <1>5, Fold
<1>7. f = [n \in 0 .. N |-> IF n = 0 THEN acts ELSE A(f[n - 1], n)]
  <2> HIDE DEF A, N, V, step
  <2>1. \A n \in 0 .. N : n # 0 => n \in 1 .. N /\ n - 1 \in 0 .. N
    BY <1>1
  <2> QED  BY <1>4, <1>6, <2>1 DEF Folds
<1>8. upto = [n \in 0 .. N |-> IF n = 0 THEN acts ELSE A(upto[n - 1], n)]
  BY <1>7
<1> HIDE DEF upto
<1>9. upto[0] = acts /\ \A n \in 1 .. N : upto[n] = A(upto[n - 1], n)
  <2> HIDE DEF A, N
  <2>1. 0 \in 0 .. N /\ \A n \in 1 .. N : n \in 0 .. N /\ n # 0
    BY <1>1
  <2> QED  BY <1>8, <2>1
<1>10. upto[N] \in V
  <2> HIDE DEF A, N, V, step
  <2>1. \A n \in 1 .. N : upto[n - 1] \in V => upto[n] = step[n][upto[n - 1]]
    BY <1>4, <1>9
  <2>2. upto[0] \in V
    BY <1>1, <1>9
  <2> QED  BY <1>1, <1>5, <2>1, <2>2, FoldStays
<1> QED  BY <1>3, <1>10

LEMMA UnloadsIs ==
  ASSUME NEW d \in Wants, NEW v \in Seq(HostView), DOMAIN v = Hosts, NEW acts \in Plans(d, v)
  PROVE  Unloads(d, v, acts) \in Plans(d, v)
<1> DEFINE N == Len(v)
           V == Plans(d, v)
           drop(n) == Act("unload", Head(Unwanted(d, v, n)), n, 0)
           A(t, n) == IF MayUnload(d, v, n, t) THEN Append(t, drop(n)) ELSE t
           step == [n \in 1 .. N |-> [t \in V |-> A(t, n)]]
           upto == CHOOSE u : u = [n \in 0 .. Len(v) |->
                     IF n = 0 THEN acts
                     ELSE IF MayUnload(d, v, n, u[n - 1])
                          THEN Append(u[n - 1], Act("unload", Head(Unwanted(d, v, n)), n, 0))
                          ELSE u[n - 1]]
<1>1. N \in Nat /\ DOMAIN v = 1 .. N /\ acts \in V
  OBVIOUS
<1>2. ASSUME NEW n \in 1 .. N, NEW t \in V PROVE A(t, n) \in V
  <2>1. CASE MayUnload(d, v, n, t)
    <3>1. n \in Hosts /\ v[n] \in HostView
      OBVIOUS
    <3>2. v[n].loaded \in Seq(Models)
      BY <3>1 DEF HostView
    <3> DEFINE left == Unwanted(d, v, n)
    <3>3. left \in Seq(Models \cap (Models \ StoreWide(d)))
      BY <3>2, KeptIn DEF Unwanted
    <3>4. n \notin Reserved(t) /\ left # <<>>
      BY <2>1 DEF MayUnload
    <3> HIDE DEF left
    <3>5. Head(left) \in Models \ StoreWide(d)
      BY <3>3, <3>4
    <3>6. Head(left) \notin d.wide
      BY <3>5 DEF StoreWide
    <3>7. /\ drop(n) \in Action /\ drop(n).op = "unload"
          /\ drop(n).host = n /\ drop(n).model = Head(left)
      BY <3>1, <3>5 DEF Act, Action, left
    <3> HIDE DEF drop
    <3>8. Append(t, drop(n)) \in V
      BY <3>4, <3>6, <3>7, OneMore DEF Lasting
    <3> QED  BY <2>1, <3>8
  <2>2. CASE ~MayUnload(d, v, n, t)
    BY <2>2
  <2> QED  BY <2>1, <2>2
<1>3. Unloads(d, v, acts) = upto[N]
  BY DEF Unloads
<1>4. \A n \in 1 .. N, t \in V : step[n][t] = A(t, n)
  <2> HIDE DEF A, N, V
  <2> QED  OBVIOUS
<1>5. StaysIn(step, N, V)
  <2> HIDE DEF A, N, V, step
  <2> QED  BY <1>2, <1>4 DEF StaysIn
<1>6. PICK f \in [0 .. N -> V] : Folds(f, N, acts, step)
  <2> HIDE DEF N, step
  <2> QED  BY <1>1, <1>5, Fold
<1>7. f = [n \in 0 .. N |-> IF n = 0 THEN acts ELSE A(f[n - 1], n)]
  <2> HIDE DEF A, N, V, step
  <2>1. \A n \in 0 .. N : n # 0 => n \in 1 .. N /\ n - 1 \in 0 .. N
    BY <1>1
  <2> QED  BY <1>4, <1>6, <2>1 DEF Folds
<1>8. upto = [n \in 0 .. N |-> IF n = 0 THEN acts ELSE A(upto[n - 1], n)]
  BY <1>7
<1> HIDE DEF upto
<1>9. upto[0] = acts /\ \A n \in 1 .. N : upto[n] = A(upto[n - 1], n)
  <2> HIDE DEF A, N
  <2>1. 0 \in 0 .. N /\ \A n \in 1 .. N : n \in 0 .. N /\ n # 0
    BY <1>1
  <2> QED  BY <1>8, <2>1
<1>10. upto[N] \in V
  <2> HIDE DEF A, N, V, step
  <2>1. \A n \in 1 .. N : upto[n - 1] \in V => upto[n] = step[n][upto[n - 1]]
    BY <1>4, <1>9
  <2>2. upto[0] \in V
    BY <1>1, <1>9
  <2> QED  BY <1>1, <1>5, <2>1, <2>2, FoldStays
<1> QED  BY <1>3, <1>10

LEMMA PlanIs ==
  ASSUME NEW d \in Wants, NEW v \in Seq(HostView), DOMAIN v = Hosts
  PROVE  Plan(d, v) \in Plans(d, v) /\ Len(Plan(d, v)) =< Cap
<1> DEFINE all == Unloads(d, v, Preloads(d, v, Refreshes(d, v)))
<1>1. all \in Plans(d, v)
  BY RefreshesIs, PreloadsIs, UnloadsIs
<1>2. Plan(d, v) = FirstOnes(all)
  BY DEF Plan
<1> HIDE DEF all
<1> DEFINE some == FirstOnes(all)
<1>3. /\ some \in Seq(Action) /\ Len(some) =< Cap
      /\ \A i \in DOMAIN some : i \in DOMAIN all /\ some[i] = all[i]
  BY <1>1, FirstOnesIs DEF Plans
<1> HIDE DEF some
<1>4. ASSUME NEW i \in DOMAIN some
      PROVE  /\ some[i].op = "preload" => Alone(some, i) /\ Fitting(d, v, some[i])
             /\ some[i].op = "unload" => some[i].model \notin d.wide
             /\ Lasting(some[i])
  <2>1. /\ all[i].op = "preload" => Alone(all, i) /\ Fitting(d, v, all[i])
        /\ all[i].op = "unload" => all[i].model \notin d.wide
        /\ Lasting(all[i])
    BY <1>1, <1>3 DEF Plans
  <2>2. Alone(all, i) => Alone(some, i)
    BY <1>3 DEF Alone
  <2> QED  BY <1>3, <2>1, <2>2
<1>5. some \in Plans(d, v)
  BY <1>3, <1>4 DEF Plans
<1> QED  BY <1>2, <1>3, <1>5 DEF some

\* The arithmetic of a model that fits.
Spared(v, h, m) == m \in known /\ Total(h) # NoBudget =>
                     (Used(v, h) + Size[m]) * 100 =< Total(h) * (100 - Margin)

LEMMA FitsIs ==
  ASSUME NEW d, NEW v \in Seq(HostView), NEW h \in DOMAIN v, NEW m \in Models,
         Fits(v, h, m, d), Total(h) \in Nat \cup {NoBudget}
  PROVE  Spared(v, h, m)
<1> SUFFICES ASSUME m \in known, Total(h) # NoBudget
             PROVE  (Used(v, h) + Size[m]) * 100 =< Total(h) * (100 - Margin)
  BY DEF Spared
<1> DEFINE used == Used(v, h)
           size == Size[m]
           room == Total(h) * (100 - Margin)
<1>1. size \in Nat \ {0} /\ size # NoSize
  BY MemoryAssumption
<1>2. used \in Nat
  <2>1. v[h] \in HostView
    OBVIOUS
  <2>2. v[h].loaded \in Seq(Models)
    BY <2>1 DEF HostView
  <2> QED  BY <2>2, UsedIs
<1>3. room \in Int
  <2>1. Total(h) \in Nat /\ 100 - Margin \in Nat
    BY MemoryAssumption
  <2> QED  BY <2>1
<1>4. size =< Usable(v, h) /\ Usable(v, h) = Most(0, (room \div 100) - used)
  <2>1. ~Unknown(v)
    BY DEF Unknown
  <2>2. Estimate(m) = size
    BY DEF Estimate
  <2> QED  BY <1>1, <2>1, <2>2 DEF Fits, Usable
<1> HIDE DEF used, size, room
<1>5. room \div 100 \in Int /\ 100 * (room \div 100) =< room
  BY <1>3
<1>6. size =< (room \div 100) - used
  BY <1>1, <1>2, <1>4, <1>5 DEF Most
<1>7. (used + size) * 100 =< room
  BY <1>1, <1>2, <1>3, <1>5, <1>6
<1> QED  BY <1>7 DEF used, size, room

-----------------------------------------------------------------------------
(* The invariant of the preloader.                                         *)

Ticks == [step : {"idle", "ps", "act", "rpc"}, demand : Wants,
          views : Seq(HostView), plan : Seq(Action)]

\* What surrounds the tick.  A host's memory is finite, so that ps can list it.
Around ==
  /\ cooling \in [Models -> [Hosts -> 0 .. FailTicks]]
  /\ job \in [Jobs -> {"new", "queued", "starting", "running", "done"}]
  /\ resident \in [Hosts -> SUBSET Models]
  /\ \A h \in Hosts : IsFiniteSet(resident[h])
  /\ budget \in Budgets /\ known \subseteq Models
  /\ hardCap \in [Hosts -> Nat \cup {NoBudget}]
  /\ shunned \in [Models -> [Hosts -> 0 .. 2]]
  /\ asked \subseteq Jobs /\ faults \in Nat

\* What no plan may drop.
Shielded == IF Cardinality(asked) =< WideLimit THEN ModelsOf(asked) ELSE {}

\* The plan is made of the views of all hosts, for the jobs that were due.
Stages ==
  /\ tick.step \in {"idle", "ps"} => tick.plan = <<>>
  /\ tick.step = "ps" => Len(tick.views) < Cardinality(Hosts)
  /\ tick.step \in {"act", "rpc"} =>
       tick.plan # <<>> /\ Len(tick.views) = Cardinality(Hosts)
  /\ tick.step # "idle" => Shielded \subseteq tick.demand.wide
  /\ Len(tick.plan) =< Cap

\* What a plan was when it was made, its remainder still is, although caps are learnt
\* while it is carried out: the cap of a host that failed, and that has no other
\* model to come.
Owed ==
  \A i \in DOMAIN tick.plan :
    LET a == tick.plan[i] IN
    /\ a.op = "preload" => Alone(tick.plan, i) /\ Spared(tick.views, a.host, a.model)
    /\ a.op = "unload" => a.model \notin Shielded
    /\ Lasting(a)

PreInv == /\ Counted /\ RecentTyped /\ Around
          /\ tick \in Ticks /\ Stages /\ Owed

LEMMA PreInit == Init => RecentTyped /\ Around /\ tick \in Ticks /\ Stages /\ Owed
<1> SUFFICES ASSUME Init PROVE RecentTyped /\ Around /\ tick \in Ticks /\ Stages /\ Owed
  OBVIOUS
<1>1. RecentTyped
  BY PoolAssumption DEF Init, PoolInit, RecentTyped
<1>2. Around
  BY PoolAssumption, FS_EmptySet DEF Init, PoolInit, Around
<1>3. /\ tick \in Ticks /\ tick.plan = <<>> /\ tick.step = "idle"
  <2>1. tick = NoTick
    BY DEF Init
  <2> QED  BY <2>1 DEF NoTick, NoDemand, Ticks, Wants
<1>4. Cap \in Nat
  BY LimitsAssumption DEF Cap, Most
<1> QED  BY <1>1, <1>2, <1>3, <1>4 DEF Stages, Owed

LEMMA PartOf ==
  ASSUME NEW S, NEW s \in Seq(S), NEW a \in Nat \ {0}, NEW b \in Int, b =< Len(s)
  PROVE  SubSeq(s, a, b) \in Seq(S)
OBVIOUS

LEMMA InOrderIs == \A S : InOrder(S) \in Seq(Jobs)
<1> TAKE S
<1> DEFINE N == Cardinality(Jobs)
           order == [j \in 1 .. N |-> j]
<1>1. N \in Nat /\ Jobs = 1 .. N
  BY JobsAssumption, ModelAssumption, FS_CardinalityType
<1>2. order \in Seq(Jobs)
  <2> HIDE DEF N
  <2> QED  BY <1>1
<1>3. InOrder(S) = Kept(order, S)
  BY DEF InOrder
<1> HIDE DEF order
<1>4. Kept(order, S) \in Seq(Jobs \cap S)
  BY <1>2, KeptIn
<1> DEFINE k == Kept(order, S)
<1> HIDE DEF k
<1>5. k \in Seq(Jobs \cap S) => k \in Seq(Jobs)
  OBVIOUS
<1> QED  BY <1>3, <1>4, <1>5 DEF k

LEMMA ModelsOfIs == \A S \in SUBSET Jobs : ModelsOf(S) \in SUBSET Models
BY ModelAssumption, JobsAssumption DEF ModelsOf

\* A list with room for all rows returns them all.
LEMMA FirstIs ==
  ASSUME NEW n \in Nat, NEW S \in SUBSET Jobs
  PROVE  First(n, S) \in SUBSET S /\ (Cardinality(S) =< n => First(n, S) = S)
<1>1. First(n, S) \in SUBSET S
  BY DEF First
<1>2. ASSUME Cardinality(S) =< n, NEW j \in S
      PROVE  j \in First(n, S)
  <2> DEFINE before == {k \in S : k < j}
  <2>1. IsFiniteSet(S) /\ Jobs \in SUBSET Nat
    BY ModelAssumption, JobsAssumption, FS_Subset, FS_CardinalityType
  <2>2. before \in SUBSET (S \ {j})
    BY <2>1
  <2>3. IsFiniteSet(S \ {j}) /\ Cardinality(S \ {j}) = Cardinality(S) - 1
    BY <2>1, FS_RemoveElement
  <2>4. IsFiniteSet(before) /\ Cardinality(before) =< Cardinality(S \ {j})
    BY <2>2, <2>3, FS_Subset
  <2>5. Cardinality(before) \in Nat /\ Cardinality(S) \in Nat
    BY <2>1, <2>4, FS_CardinalityType
  <2>6. Cardinality(before) < n
    <3> HIDE DEF before
    <3> QED  BY <1>2, <2>3, <2>4, <2>5
  <2> QED  BY <2>6 DEF First
<1> QED  BY <1>1, <1>2

LEMMA DemandIs ==
  /\ Demand \in Wants
  /\ Cardinality(In({"queued", "starting", "running"})) =< WideLimit =>
       ModelsOf(In({"queued", "starting", "running"})) = Demand.wide
<1> DEFINE listed == In({"queued", "starting"})
           ready == InOrder(First(PollLimit, listed) \cap In({"queued"}))
           flying == In({"starting", "running"})
           from == Most(0, Concurrency - Cardinality(flying))
           next == SubSeq(ready, 1, Least(from, Len(ready)))
           soon == SubSeq(ready, from + 1, Least(from + Lookahead, Len(ready)))
           wide == ModelsOf(In({"running"}) \cup First(WideLimit, listed))
           processing == InOrder(In({"running"}))
<1>1. ready \in Seq(Jobs) /\ processing \in Seq(Jobs)
  BY InOrderIs
<1>2. from \in Nat
  <2>1. flying \in SUBSET Jobs
    BY DEF In
  <2>2. Cardinality(flying) \in Nat
    BY <2>1, ModelAssumption, JobsAssumption, FS_Subset, FS_CardinalityType
  <2> HIDE DEF flying
  <2> QED  BY <2>2, LimitsAssumption DEF Most
<1>3. wide \in SUBSET Models
  <2>1. listed \in SUBSET Jobs /\ In({"running"}) \in SUBSET Jobs
    BY DEF In
  <2> HIDE DEF listed
  <2>2. First(WideLimit, listed) \in SUBSET Jobs
    BY <2>1, FirstIs, LimitsAssumption
  <2> QED  BY <2>1, <2>2, ModelsOfIs
<1>4. ASSUME Cardinality(In({"queued", "starting", "running"})) =< WideLimit
      PROVE  ModelsOf(In({"queued", "starting", "running"})) = wide
  <2> DEFINE all == In({"queued", "starting", "running"})
  <2>1. all \in SUBSET Jobs /\ listed \in SUBSET all /\ all = In({"running"}) \cup listed
    BY DEF In
  <2> HIDE DEF all, listed
  <2>2. IsFiniteSet(all) /\ IsFiniteSet(listed)
    BY <2>1, ModelAssumption, JobsAssumption, FS_Subset
  <2>3. Cardinality(listed) =< Cardinality(all)
    BY <2>1, <2>2, FS_Subset
  <2>4. Cardinality(listed) \in Nat /\ Cardinality(all) \in Nat /\ Cardinality(all) =< WideLimit
    BY <1>4, <2>2, FS_CardinalityType DEF all
  <2>5. Cardinality(listed) =< WideLimit
    BY <2>3, <2>4, LimitsAssumption
  <2>6. First(WideLimit, listed) = listed
    BY <2>1, <2>5, FirstIs, LimitsAssumption
  <2> QED  BY <2>1, <2>6 DEF all
<1>5. Demand = [processing |-> processing, next |-> next, soon |-> soon, wide |-> wide]
  BY DEF Demand
<1>6. next \in Seq(Jobs) /\ soon \in Seq(Jobs)
  <2> HIDE DEF ready, from
  <2>1. Len(ready) \in Nat
    BY <1>1
  <2>2. /\ Least(from, Len(ready)) \in Int /\ Least(from, Len(ready)) =< Len(ready)
        /\ Least(from + Lookahead, Len(ready)) \in Int
        /\ Least(from + Lookahead, Len(ready)) =< Len(ready)
    BY <1>2, <2>1, LimitsAssumption DEF Least
  <2>3. from + 1 \in Nat \ {0}
    BY <1>2
  <2> QED  BY <1>1, <2>2, <2>3, PartOf
<1> HIDE DEF next, soon, wide, processing
<1> QED  BY <1>1, <1>3, <1>4, <1>5, <1>6 DEF Wants

LEMMA ReadQueueStep ==
  ASSUME PreInv, ReadQueue
  PROVE  Around' /\ (tick \in Ticks)' /\ Stages' /\ Owed'
<1>1. tick' = [step |-> "ps", demand |-> Demand, views |-> <<>>, plan |-> <<>>]
  BY DEF ReadQueue, NoTick
<1>2. asked' = In({"queued", "starting", "running"})
  BY DEF ReadQueue
<1>3. Around'
  BY <1>2 DEF PreInv, Around, ReadQueue, In, poolVars
<1>4. (tick \in Ticks)'
  BY <1>1, DemandIs DEF Ticks
<1>5. Stages'
  <2>1. Len(<<>>) < Cardinality(Hosts)
    BY HostsAre, HostsAssumption
  <2>2. Cap \in Nat
    BY LimitsAssumption DEF Cap, Most
  <2> DEFINE all == In({"queued", "starting", "running"})
  <2>3. Shielded' = IF Cardinality(all) =< WideLimit THEN ModelsOf(all) ELSE {}
    BY <1>2 DEF Shielded, ModelsOf
  <2>4. Shielded' \subseteq Demand.wide
    BY <2>3, DemandIs
  <2> HIDE DEF all
  <2> QED  BY <1>1, <2>1, <2>2, <2>4 DEF Stages
<1>6. Owed'
  BY <1>1 DEF Owed
<1> QED  BY <1>3, <1>4, <1>5, <1>6

\* The total of a host is a number, if it is known.
LEMMA TotalIs == Around => \A h \in Hosts : Total(h) \in Nat \cup {NoBudget}
BY MemoryAssumption DEF Around, Total

LEMMA AskHostStep ==
  ASSUME PreInv, AskHost
  PROVE  Around' /\ (tick \in Ticks)' /\ Stages' /\ Owed'
<1> DEFINE h == Len(tick.views) + 1
           answer(loaded) == [busy |-> inflight[h], loaded |-> loaded, recent |-> Recent(h)]
           next(loaded) == Append(tick.views, answer(loaded))
           moved(v) == IF Len(v) < Cardinality(Hosts) THEN [tick EXCEPT !.views = v]
                     ELSE LET plan == Plan(tick.demand, v) IN
                          IF plan = <<>> THEN NoTick
                          ELSE [tick EXCEPT !.step = "act", !.views = v, !.plan = plan]
<1>1. /\ tick \in Ticks /\ tick.step = "ps" /\ tick.plan = <<>>
      /\ tick.views \in Seq(HostView) /\ Len(tick.views) < Cardinality(Hosts)
      /\ tick.demand \in Wants /\ Shielded \subseteq tick.demand.wide
  BY DEF PreInv, Stages, Ticks, AskHost
<1>2. h \in Hosts /\ h \in Nat
  <2>1. Len(tick.views) \in Nat
    BY <1>1
  <2> QED  BY <1>1, <2>1, HostsAre
<1>3. PICK loaded \in Seq(Models) :
        /\ tick' = moved(next(loaded))
        /\ known' = known \/ (loaded \in Orders(resident[h]) /\ known' = known \cup resident[h])
        /\ faults' \in {faults, faults + 1}
  <2>1. ASSUME NEW loaded \in Orders(resident[h])
        PROVE  loaded \in Seq(Models)
    <3>1. resident[h] \in SUBSET Models /\ IsFiniteSet(resident[h])
      BY <1>2 DEF PreInv, Around
    <3>2. Cardinality(resident[h]) \in Nat
      BY <3>1, FS_CardinalityType
    <3>3. loaded \in [1 .. Cardinality(resident[h]) -> resident[h]]
      BY DEF Orders
    <3> QED  BY <3>1, <3>2, <3>3
  <2>2. <<>> \in Seq(Models)
    OBVIOUS
  <2> QED  BY <2>1, <2>2 DEF AskHost
<1>4. PICK v \in Seq(HostView) : v = next(loaded) /\ Len(v) = h /\ v[h].loaded = loaded
  <2>1. answer(loaded) \in HostView
    <3>1. inflight[h] \in Nat
      BY <1>2 DEF PreInv, Counted
    <3>2. Recent(h) \in SUBSET Models
      <4>1. recent[h] \in Seq(Models)
        BY <1>2 DEF PreInv, RecentTyped
      <4> QED  BY <4>1 DEF Recent
    <3> QED  BY <3>1, <3>2 DEF HostView
  <2>2. answer(loaded).loaded = loaded
    OBVIOUS
  <2> HIDE DEF answer
  <2>3. /\ next(loaded) \in Seq(HostView) /\ Len(next(loaded)) = h
        /\ next(loaded)[h] = answer(loaded)
    BY <1>1, <2>1
  <2> HIDE DEF next
  <2> QED  BY <2>2, <2>3
<1>5. tick' = moved(v)
  BY <1>3, <1>4
<1> HIDE DEF next, answer
<1>6. Around'
  <2>1. known' \subseteq Models /\ faults' \in Nat
    <3>1. resident[h] \in SUBSET Models
      BY <1>2 DEF PreInv, Around
    <3> QED  BY <1>3, <3>1 DEF PreInv, Around
  <2> QED  BY <2>1 DEF PreInv, Around, AskHost, poolVars
<1>7. asked' = asked /\ Shielded' = Shielded
  BY DEF AskHost, Shielded, ModelsOf
<1>8. CASE Len(v) < Cardinality(Hosts)
  <2>1. tick' = [tick EXCEPT !.views = v]
    BY <1>5, <1>8
  <2>2. /\ tick' \in Ticks /\ tick'.step = "ps" /\ tick'.plan = <<>>
        /\ tick'.views = v /\ tick'.demand = tick.demand
    BY <1>1, <1>4, <2>1 DEF Ticks
  <2>3. Cap \in Nat
    BY LimitsAssumption DEF Cap, Most
  <2> QED  BY <1>1, <1>6, <1>7, <1>8, <2>2, <2>3 DEF Stages, Owed
<1>9. CASE ~(Len(v) < Cardinality(Hosts))
  <2> PICK plan : plan = Plan(tick.demand, v)
    OBVIOUS
  <2>1. Len(v) = Cardinality(Hosts) /\ DOMAIN v = Hosts
    BY <1>2, <1>4, <1>9, HostsAre
  <2>2. plan \in Plans(tick.demand, v) /\ Len(plan) =< Cap
    BY <1>1, <1>4, <2>1, PlanIs
  <2>3. tick' = IF plan = <<>> THEN NoTick
                ELSE [tick EXCEPT !.step = "act", !.views = v, !.plan = plan]
    BY <1>5, <1>9
  <2>4. plan \in Seq(Action)
    BY <2>2 DEF Plans
  <2>5. CASE plan = <<>>
    <3>1. tick' = NoTick
      BY <2>3, <2>5
    <3>2. tick' \in Ticks /\ tick'.plan = <<>> /\ tick'.step = "idle"
      BY <3>1 DEF NoTick, NoDemand, Ticks, Wants
    <3>3. Cap \in Nat
      BY LimitsAssumption DEF Cap, Most
    <3> QED  BY <1>6, <3>2, <3>3 DEF Stages, Owed
  <2>6. CASE plan # <<>>
    <3>1. /\ tick' \in Ticks /\ tick'.step = "act" /\ tick'.plan = plan
          /\ tick'.views = v /\ tick'.demand = tick.demand
      BY <1>1, <1>4, <2>3, <2>4, <2>6 DEF Ticks
    <3>2. Stages'
      BY <1>1, <1>7, <2>1, <2>2, <2>6, <3>1 DEF Stages
    <3>3. ASSUME NEW i \in DOMAIN plan
          PROVE  /\ plan[i].op = "preload" =>
                      Alone(plan, i) /\ Spared(v, plan[i].host, plan[i].model)'
                 /\ plan[i].op = "unload" => plan[i].model \notin Shielded
                 /\ Lasting(plan[i])
      <4>1. /\ plan[i].op = "preload" => Alone(plan, i) /\ Fitting(tick.demand, v, plan[i])
            /\ plan[i].op = "unload" => plan[i].model \notin tick.demand.wide
            /\ Lasting(plan[i])
        BY <2>2 DEF Plans
      <4>2. plan[i].host \in Hosts /\ plan[i].model \in Models
        <5>1. plan[i] \in Action
          BY <2>4
        <5> QED  BY <5>1 DEF Action
      <4>3. ASSUME plan[i].op = "preload" PROVE Spared(v, plan[i].host, plan[i].model)'
        <5> PICK g, m : g = plan[i].host /\ m = plan[i].model
          OBVIOUS
        <5>1. ~Has(v, h, m) /\ Fits(v, g, m, tick.demand)
          BY <1>2, <2>1, <4>1, <4>3 DEF Fitting
        <5>2. Spared(v, g, m)
          BY <1>4, <2>1, <4>2, <5>1, FitsIs, TotalIs DEF PreInv
        <5>3. m \in known' => m \in known
          <6>1. m \notin Elems(loaded)
            BY <1>4, <5>1 DEF Has
          <6>2. loaded \in Orders(resident[h]) => Elems(loaded) = resident[h]
            BY DEF Orders
          <6> QED  BY <1>3, <6>1, <6>2
        <5>4. Total(g)' = Total(g)
          BY DEF Total, AskHost
        <5>5. Spared(v, g, m)'
          BY <5>2, <5>3, <5>4 DEF Spared, Used
        <5> QED  BY <5>5
      <4> QED  BY <1>1, <4>1, <4>3
    <3> QED  BY <1>6, <1>7, <3>1, <3>2, <3>3 DEF Owed
  <2> QED  BY <2>5, <2>6
<1> QED  BY <1>8, <1>9

LEMMA SendActionStep ==
  ASSUME PreInv, SendAction
  PROVE  Around' /\ (tick \in Ticks)' /\ Stages' /\ Owed'
<1>1. /\ tick' \in Ticks /\ tick'.step = "rpc" /\ tick.step = "act"
      /\ tick'.plan = tick.plan /\ tick'.views = tick.views /\ tick'.demand = tick.demand
  BY DEF PreInv, SendAction, Ticks
<1>2. Around'
  BY DEF PreInv, Around, SendAction, poolVars
<1>3. /\ Shielded' = Shielded /\ known' = known
      /\ \A h : Total(h)' = Total(h)
  BY DEF SendAction, Shielded, ModelsOf, Total
<1>4. Stages'
  BY <1>1, <1>3 DEF PreInv, Stages
<1>5. ASSUME NEW v, NEW h, NEW m, Spared(v, h, m) PROVE Spared(v, h, m)'
  BY <1>3, <1>5 DEF Spared, Used
<1>6. Owed'
  BY <1>1, <1>3, <1>5 DEF PreInv, Owed
<1> QED  BY <1>1, <1>2, <1>4, <1>6

LEMMA RestIs ==
  ASSUME NEW S, NEW s \in Seq(S), Len(s) > 1
  PROVE  /\ Tail(s) \in Seq(S) /\ Len(Tail(s)) = Len(s) - 1 /\ Tail(s) # <<>>
         /\ \A i \in 1 .. Len(s) - 1 : Tail(s)[i] = s[i + 1] /\ i + 1 \in DOMAIN s
<1>1. s # <<>> /\ Len(s) \in Nat
  OBVIOUS
<1>2. Tail(s) \in Seq(S) /\ Len(Tail(s)) = Len(s) - 1
  BY <1>1
<1>3. Tail(s) # <<>>
  <2>1. Len(Tail(s)) # 0 /\ Len(<<>>) = 0
    BY <1>1, <1>2
  <2> QED  BY <2>1, Zenon
<1>4. \A i \in 1 .. Len(s) - 1 : i + 1 \in DOMAIN s
  BY <1>1
<1>5. \A i \in 1 .. Len(s) - 1 : Tail(s)[i] = s[i + 1]
  BY <1>1
<1> QED  BY <1>2, <1>3, <1>4, <1>5

\* What remains of the plan.  A host's total may have changed, but not that of a
\* host that still has a model to come.
LEMMA NextActionStep ==
  ASSUME PreInv, NextAction, tick.step = "rpc", UNCHANGED <<known, asked, budget>>,
         NEW a, a = Head(tick.plan),
         \A h \in Hosts : h # a.host => hardCap'[h] = hardCap[h]
  PROVE  (tick \in Ticks)' /\ Stages' /\ Owed'
<1> DEFINE n == Len(tick.plan)
<1>1. /\ tick \in Ticks /\ tick.plan \in Seq(Action) /\ tick.plan # <<>> /\ n =< Cap
      /\ Len(tick.views) = Cardinality(Hosts) /\ Shielded \subseteq tick.demand.wide
      /\ Owed
  BY DEF PreInv, Stages, Ticks
<1>2. Cap \in Nat /\ n \in Nat /\ n >= 1
  BY <1>1, LimitsAssumption DEF Cap, Most
<1>3. Shielded' = Shielded
  BY DEF Shielded, ModelsOf
<1>4. CASE n = 1
  <2>1. tick' \in Ticks /\ tick'.plan = <<>> /\ tick'.step = "idle"
    BY <1>4 DEF NextAction, NoTick, NoDemand, Ticks, Wants
  <2> QED  BY <1>2, <2>1 DEF Stages, Owed
<1>5. CASE n # 1
  <2> PICK rest : rest = Tail(tick.plan)
    OBVIOUS
  <2>1. /\ rest \in Seq(Action) /\ Len(rest) = n - 1 /\ DOMAIN rest = 1 .. n - 1
        /\ rest # <<>>
        /\ \A i \in 1 .. n - 1 : rest[i] = tick.plan[i + 1] /\ i + 1 \in DOMAIN tick.plan
    <3>1. n > 1
      <4> HIDE DEF n
      <4> QED  BY <1>2, <1>5
    <3>2. rest \in Seq(Action) /\ Len(rest) = n - 1
      BY <1>1, <3>1, RestIs
    <3>3. DOMAIN rest = 1 .. n - 1
      BY <3>2
    <3> QED  BY <1>1, <3>1, <3>2, <3>3, RestIs
  <2>2. tick' = [tick EXCEPT !.step = "act", !.plan = rest]
    BY <1>5 DEF NextAction
  <2>3. /\ tick' \in Ticks /\ tick'.step = "act" /\ tick'.plan = rest
        /\ tick'.views = tick.views /\ tick'.demand = tick.demand
    BY <1>1, <2>1, <2>2 DEF Ticks
  <2>4. Stages'
    BY <1>1, <1>2, <1>3, <2>1, <2>3 DEF Stages
  <2>5. ASSUME NEW i \in DOMAIN rest
        PROVE  /\ rest[i].op = "preload" =>
                    Alone(rest, i) /\ Spared(tick.views, rest[i].host, rest[i].model)'
               /\ rest[i].op = "unload" => rest[i].model \notin Shielded
               /\ Lasting(rest[i])
    <3> PICK b, g, m, v : b = rest[i] /\ g = b.host /\ m = b.model /\ v = tick.views
      OBVIOUS
    <3>1. /\ b.op = "preload" => Alone(tick.plan, i + 1) /\ Spared(v, g, m)
          /\ b.op = "unload" => m \notin Shielded
          /\ Lasting(b)
      BY <1>1, <2>1 DEF Owed
    <3>2. g \in Hosts
      <4>1. b \in Action
        BY <2>1
      <4> QED  BY <4>1 DEF Action
    <3>3. ASSUME b.op = "preload" PROVE Alone(rest, i) /\ Spared(v, g, m)'
      <4>1. Alone(rest, i)
        BY <2>1, <3>1, <3>3 DEF Alone
      <4>2. g # a.host
        <5>1. 1 \in DOMAIN tick.plan /\ a = tick.plan[1] /\ b = tick.plan[i + 1]
              /\ i + 1 # 1
          BY <1>1, <1>2, <2>1
        <5> QED  BY <3>1, <3>3, <5>1 DEF Alone
      <4>3. Total(g)' = Total(g)
        BY <3>2, <4>2 DEF Total
      <4>4. Spared(v, g, m)'
        BY <3>1, <3>3, <4>3 DEF Spared, Used
      <4> QED  BY <4>1, <4>4
    <3>4. tick.views' = v
      BY <2>3
    <3>5. b.op = "preload" => Spared(tick.views, rest[i].host, rest[i].model)'
      BY <3>3, <3>4 DEF Spared, Used
    <3> QED  BY <3>1, <3>3, <3>5
  <2> QED  BY <1>3, <2>3, <2>4, <2>5 DEF Owed
<1> QED  BY <1>4, <1>5

\* The memory of a host holds models, finitely many.
LEMMA LoadsAre ==
  ASSUME Around, NEW h \in Hosts, NEW m \in Models, NEW R \in Loads(h, m)
  PROVE  R \in SUBSET Models /\ IsFiniteSet(R)
<1>1. resident[h] \in SUBSET Models /\ IsFiniteSet(resident[h])
  BY DEF Around
<1>2. IsFiniteSet(resident[h] \cup {m})
  BY <1>1, FS_AddElement
<1>3. R = resident[h] \/ R \in SUBSET (resident[h] \cup {m})
  BY DEF Loads
<1> QED  BY <1>1, <1>2, <1>3, FS_Subset

LEMMA AfterIs ==
  ASSUME Around, NEW a \in Action, NEW R \in After(a)
  PROVE  R \in SUBSET Models /\ IsFiniteSet(R)
<1>1. a.host \in Hosts /\ a.model \in Models
  BY DEF Action
<1>2. CASE a.op = "unload"
  <2>1. R \in SUBSET resident[a.host]
    BY <1>2 DEF After
  <2>2. resident[a.host] \in SUBSET Models /\ IsFiniteSet(resident[a.host])
    BY <1>1 DEF Around
  <2> QED  BY <2>1, <2>2, FS_Subset
<1>3. CASE a.op # "unload"
  BY <1>1, <1>3, LoadsAre DEF After
<1> QED  BY <1>2, <1>3

\* A host's memory changes, and nothing else of what surrounds the tick.
LEMMA MemoryStep ==
  ASSUME Around, NEW h \in Hosts, NEW R \in SUBSET Models, IsFiniteSet(R), SetResident(h, R)
  PROVE  /\ resident' \in [Hosts -> SUBSET Models]
         /\ \A k \in Hosts : IsFiniteSet(resident'[k])
BY DEF Around, SetResident

LEMMA HeadIs ==
  ASSUME PreInv, tick.step = "rpc"
  PROVE  Head(tick.plan) \in Action
<1>1. tick.plan \in Seq(Action) /\ tick.plan # <<>>
  BY DEF PreInv, Stages, Ticks
<1> QED  BY <1>1

LEMMA ActionDoneStep ==
  ASSUME PreInv, ActionDone
  PROVE  RecentTyped' /\ Around' /\ (tick \in Ticks)' /\ Stages' /\ Owed'
<1> PICK a : a = Head(tick.plan)
  OBVIOUS
<1>1. a \in Action /\ a.host \in Hosts /\ a.model \in Models
  BY HeadIs DEF ActionDone, Action
<1>2. PICK R \in After(a) : SetResident(a.host, R)
  BY DEF ActionDone
<1>3. Around'
  <2>1. R \in SUBSET Models /\ IsFiniteSet(R)
    BY <1>1, <1>2, AfterIs DEF PreInv
  <2>2. /\ resident' \in [Hosts -> SUBSET Models]
        /\ \A k \in Hosts : IsFiniteSet(resident'[k])
    BY <1>1, <1>2, <2>1, MemoryStep DEF PreInv
  <2> QED  BY <2>2 DEF PreInv, Around, ActionDone
<1>4. RecentTyped'
  <2>1. Note(a.host, a.model) => RecentTyped'
    BY <1>1, NoteTyped DEF PreInv
  <2>2. recent' = recent => RecentTyped'
    BY DEF PreInv, RecentTyped
  <2> QED  BY <2>1, <2>2 DEF ActionDone
<1>5. (tick \in Ticks)' /\ Stages' /\ Owed'
  BY NextActionStep DEF ActionDone
<1> QED  BY <1>3, <1>4, <1>5

LEMMA ActionFailedStep ==
  ASSUME PreInv, ActionFailed
  PROVE  Around' /\ (tick \in Ticks)' /\ Stages' /\ Owed'
<1> PICK a : a = Head(tick.plan)
  OBVIOUS
<1>1. a \in Action /\ a.host \in Hosts /\ a.model \in Models
  BY HeadIs DEF ActionFailed, Action
<1>2. PICK oom \in BOOLEAN :
        /\ shunned' = [shunned EXCEPT ![a.model][a.host] = IF oom THEN 2 ELSE 1]
        /\ hardCap' = IF oom THEN [hardCap EXCEPT ![a.host] = Used(tick.views, a.host)]
                      ELSE hardCap
        /\ IF oom THEN UNCHANGED resident
           ELSE \E R \in After(a) \cup {resident[a.host]} : SetResident(a.host, R)
  BY DEF ActionFailed
<1>3. /\ resident' \in [Hosts -> SUBSET Models]
      /\ \A k \in Hosts : IsFiniteSet(resident'[k])
  <2>1. CASE oom
    BY <1>2, <2>1 DEF PreInv, Around
  <2>2. CASE ~oom
    <3>1. PICK R \in After(a) \cup {resident[a.host]} : SetResident(a.host, R)
      BY <1>2, <2>2
    <3>2. R \in SUBSET Models /\ IsFiniteSet(R)
      <4>1. resident[a.host] \in SUBSET Models /\ IsFiniteSet(resident[a.host])
        BY <1>1 DEF PreInv, Around
      <4> QED  BY <1>1, <3>1, <4>1, AfterIs DEF PreInv
    <3> QED  BY <1>1, <3>1, <3>2, MemoryStep DEF PreInv
  <2> QED  BY <2>1, <2>2
<1>4. Used(tick.views, a.host) \in Nat
  <2>1. tick.views \in Seq(HostView) /\ Len(tick.views) = Cardinality(Hosts)
    BY DEF PreInv, Ticks, Stages, ActionFailed
  <2>2. tick.views[a.host] \in HostView
    BY <1>1, <2>1, HostsAre
  <2> QED  BY <2>2, UsedIs DEF HostView
<1>5. hardCap' \in [Hosts -> Nat \cup {NoBudget}]
      /\ \A h \in Hosts : h # a.host => hardCap'[h] = hardCap[h]
  <2> PICK u : u = Used(tick.views, a.host)
    OBVIOUS
  <2>1. hardCap \in [Hosts -> Nat \cup {NoBudget}]
    BY DEF PreInv, Around
  <2>2. hardCap' = [hardCap EXCEPT ![a.host] = u] \/ hardCap' = hardCap
    BY <1>2
  <2> QED  BY <1>1, <1>4, <2>1, <2>2
<1>6. shunned' \in [Models -> [Hosts -> 0 .. 2]]
  <2> PICK t \in 0 .. 2 : t = IF oom THEN 2 ELSE 1
    OBVIOUS
  <2>1. shunned \in [Models -> [Hosts -> 0 .. 2]]
    BY DEF PreInv, Around
  <2>2. shunned' = [shunned EXCEPT ![a.model] = [@ EXCEPT ![a.host] = t]]
    BY <1>2
  <2>3. [shunned[a.model] EXCEPT ![a.host] = t] \in [Hosts -> 0 .. 2]
    BY <1>1, <2>1
  <2> QED  BY <1>1, <2>1, <2>2, <2>3
<1>7. Around'
  <2>1. faults' \in Nat
    BY DEF PreInv, Around, ActionFailed
  <2> QED  BY <1>3, <1>5, <1>6, <2>1 DEF PreInv, Around, ActionFailed, poolVars
<1>8. (tick \in Ticks)' /\ Stages' /\ Owed'
  BY <1>5, NextActionStep DEF ActionFailed
<1> QED  BY <1>7, <1>8

\* Whatever else happens, the tick is not disturbed.
LEMMA TickRests ==
  ASSUME PreInv, UNCHANGED <<tick, known, budget, hardCap, asked>>
  PROVE  (tick \in Ticks)' /\ Stages' /\ Owed'
<1>1. Shielded' = Shielded /\ \A h : Total(h)' = Total(h)
  BY DEF Shielded, ModelsOf, Total
<1>2. ASSUME NEW v, NEW h, NEW m, Spared(v, h, m) PROVE Spared(v, h, m)'
  BY <1>1, <1>2 DEF Spared, Used
<1>3. (tick \in Ticks)' /\ Stages'
  BY <1>1 DEF PreInv, Stages
<1>4. Owed'
  BY <1>1, <1>2 DEF PreInv, Owed
<1> QED  BY <1>3, <1>4

LEMMA SubmitStep ==
  ASSUME PreInv, NEW j \in Jobs, Submit(j) \/ Dispatch(j)
  PROVE  RecentTyped' /\ Around' /\ (tick \in Ticks)' /\ Stages' /\ Owed'
<1> USE DEF Submit, Dispatch, poolVars, preloadVars
<1>1. job' \in [Jobs -> {"new", "queued", "starting", "running", "done"}]
  BY DEF PreInv, Around, SetJob
<1>2. Around'
  BY <1>1 DEF PreInv, Around
<1>3. RecentTyped'
  BY DEF PreInv, RecentTyped
<1> QED  BY <1>2, <1>3, TickRests

LEMMA StartCallStep ==
  ASSUME PreInv, NEW j \in Jobs, StartCall(j)
  PROVE  RecentTyped' /\ Around' /\ (tick \in Ticks)' /\ Stages' /\ Owed'
<1>1. j \in Calls /\ Model[j] \in Models
  BY JobsAssumption, ModelAssumption
<1>2. PICK h \in Hosts : lease'[j] = h
  <2>1. Pick(Model[j]) \in Hosts
    BY PickSpills DEF PreInv, Counted
  <2> QED  BY <1>1, <2>1 DEF StartCall, Lease, PreInv, Counted
<1>3. PICK R \in Loads(h, Model[j]) : SetResident(h, R)
  <2>1. \E R \in Loads(lease'[j], Model[j]) : SetResident(lease'[j], R)
    BY DEF StartCall
  <2> QED  BY <1>2, <2>1
<1>4. /\ resident' \in [Hosts -> SUBSET Models]
      /\ \A k \in Hosts : IsFiniteSet(resident'[k])
  <2>1. R \in SUBSET Models /\ IsFiniteSet(R)
    BY <1>1, LoadsAre DEF PreInv
  <2> QED  BY <1>3, <2>1, MemoryStep DEF PreInv
<1>5. job' \in [Jobs -> {"new", "queued", "starting", "running", "done"}]
  BY DEF PreInv, Around, StartCall, SetJob
<1>6. Around'
  BY <1>4, <1>5 DEF PreInv, Around, StartCall, Lease
<1>7. RecentTyped'
  BY DEF PreInv, RecentTyped, StartCall, Lease
<1>8. UNCHANGED <<tick, known, budget, hardCap, asked>>
  BY DEF StartCall
<1> QED  BY <1>6, <1>7, <1>8, TickRests

LEMMA CoolingTyped ==
  ASSUME Around, NEW m \in Models, NEW h \in Hosts, NEW t \in 0 .. FailTicks, Cooling(m, h, t)
  PROVE  cooling' \in [Models -> [Hosts -> 0 .. FailTicks]]
<1>1. cooling \in [Models -> [Hosts -> 0 .. FailTicks]]
  BY DEF Around
<1>2. cooling' = [cooling EXCEPT ![m] = [@ EXCEPT ![h] = t]]
  BY DEF Cooling
<1>3. [cooling[m] EXCEPT ![h] = t] \in [Hosts -> 0 .. FailTicks]
  BY <1>1
<1> QED  BY <1>1, <1>2, <1>3

LEMMA EndCallStep ==
  ASSUME PreInv, NEW j \in Jobs, EndCall(j)
  PROVE  RecentTyped' /\ Around' /\ (tick \in Ticks)' /\ Stages' /\ Owed'
<1>1. j \in Calls /\ Model[j] \in Models
  BY JobsAssumption, ModelAssumption
<1>2. lease[j] \in Hosts
  BY <1>1 DEF EndCall, Served, Failed, Abandoned, GiveBack, PreInv, Counted
<1>3. RecentTyped'
  <2>1. Note(lease[j], Model[j]) => RecentTyped'
    BY <1>1, <1>2, NoteTyped DEF PreInv
  <2>2. recent' = recent => RecentTyped'
    BY DEF PreInv, RecentTyped
  <2> QED  BY <2>1, <2>2 DEF EndCall, Served, Failed, Abandoned
<1>4. cooling' \in [Models -> [Hosts -> 0 .. FailTicks]]
  <2>1. ASSUME NEW t \in {0, FailTicks}, Cooling(Model[j], lease[j], t)
        PROVE  cooling' \in [Models -> [Hosts -> 0 .. FailTicks]]
    <3>1. t \in 0 .. FailTicks
      BY PoolAssumption
    <3> QED  BY <1>1, <1>2, <2>1, <3>1, CoolingTyped DEF PreInv
  <2>2. cooling' = cooling => cooling' \in [Models -> [Hosts -> 0 .. FailTicks]]
    BY DEF PreInv, Around
  <2> QED  BY <2>1, <2>2 DEF EndCall, Served, Failed, Abandoned
<1>5. job' \in [Jobs -> {"new", "queued", "starting", "running", "done"}]
  BY DEF PreInv, Around, EndCall, SetJob
<1>6. faults' \in Nat
  BY DEF PreInv, Around, EndCall
<1>7. Around'
  BY <1>4, <1>5, <1>6 DEF PreInv, Around, EndCall, preloadVars
<1>8. UNCHANGED <<tick, known, budget, hardCap, asked>>
  BY DEF EndCall, preloadVars
<1> QED  BY <1>3, <1>7, <1>8, TickRests

LEMMA ExpireStep ==
  ASSUME PreInv, NEW h \in Hosts, Expire(h)
  PROVE  RecentTyped' /\ Around' /\ (tick \in Ticks)' /\ Stages' /\ Owed'
<1>1. PICK m : SetResident(h, resident[h] \ {m})
  BY DEF Expire
<1>2. resident[h] \ {m} \in SUBSET Models /\ IsFiniteSet(resident[h] \ {m})
  <2>1. resident[h] \in SUBSET Models /\ IsFiniteSet(resident[h])
    BY DEF PreInv, Around
  <2> QED  BY <2>1, FS_RemoveElement
<1>3. /\ resident' \in [Hosts -> SUBSET Models]
      /\ \A k \in Hosts : IsFiniteSet(resident'[k])
  BY <1>1, <1>2, MemoryStep DEF PreInv
<1>4. Around'
  BY <1>3 DEF PreInv, Around, Expire, poolVars
<1>5. RecentTyped'
  BY DEF PreInv, RecentTyped, Expire, poolVars
<1>6. UNCHANGED <<tick, known, budget, hardCap, asked>>
  BY DEF Expire
<1> QED  BY <1>4, <1>5, <1>6, TickRests

LEMMA PassTimeStep ==
  ASSUME PreInv, PassTime
  PROVE  RecentTyped' /\ Around' /\ (tick \in Ticks)' /\ Stages' /\ Owed'
<1>1. cooling' \in [Models -> [Hosts -> 0 .. FailTicks]]
  <2>1. ASSUME NEW m \in Models, NEW h \in Hosts
        PROVE  (IF cooling[m][h] > 0 THEN cooling[m][h] - 1 ELSE 0) \in 0 .. FailTicks
    <3>1. cooling[m][h] \in 0 .. FailTicks
      BY DEF PreInv, Around
    <3> QED  BY <3>1, PoolAssumption
  <2> QED  BY <2>1 DEF PassTime, PoolTick
<1>2. shunned' \in [Models -> [Hosts -> 0 .. 2]]
  <2>1. ASSUME NEW m \in Models, NEW h \in Hosts
        PROVE  Most(0, shunned[m][h] - 1) \in 0 .. 2
    <3>1. shunned[m][h] \in 0 .. 2
      BY DEF PreInv, Around
    <3> QED  BY <3>1 DEF Most
  <2> QED  BY <2>1 DEF PassTime
<1>3. Around'
  BY <1>1, <1>2 DEF PreInv, Around, PassTime
<1>4. RecentTyped'
  BY DEF PreInv, RecentTyped, PassTime, PoolTick
<1>5. UNCHANGED <<tick, known, budget, hardCap, asked>>
  BY DEF PassTime
<1> QED  BY <1>3, <1>4, <1>5, TickRests

LEMMA PreStep == PreInv /\ [Next]_vars => PreInv'
<1> SUFFICES ASSUME PreInv, [Next]_vars PROVE PreInv'
  OBVIOUS
<1>1. Counted'
  BY StepCounts DEF PreInv
<1>2. ASSUME UNCHANGED recent PROVE RecentTyped'
  BY <1>2 DEF PreInv, RecentTyped
<1>3. CASE UNCHANGED vars
  <2>1. RecentTyped' /\ Around'
    BY <1>3 DEF vars, poolVars, preloadVars, PreInv, RecentTyped, Around
  <2> QED  BY <1>1, <1>3, <2>1, TickRests DEF vars, preloadVars, PreInv
<1>4. CASE ReadQueue
  BY <1>1, <1>2, <1>4, ReadQueueStep DEF PreInv, ReadQueue, poolVars
<1>5. CASE AskHost
  BY <1>1, <1>2, <1>5, AskHostStep DEF PreInv, AskHost, poolVars
<1>6. CASE SendAction
  BY <1>1, <1>2, <1>6, SendActionStep DEF PreInv, SendAction, poolVars
<1>7. CASE ActionDone
  BY <1>1, <1>7, ActionDoneStep DEF PreInv
<1>8. CASE ActionFailed
  BY <1>1, <1>2, <1>8, ActionFailedStep DEF PreInv, ActionFailed, poolVars
<1>9. ASSUME NEW j \in Jobs, Submit(j) \/ Dispatch(j) \/ StartCall(j) \/ EndCall(j)
      PROVE  PreInv'
  BY <1>1, <1>9, SubmitStep, StartCallStep, EndCallStep DEF PreInv
<1>10. ASSUME NEW h \in Hosts, Expire(h) PROVE PreInv'
  BY <1>1, <1>10, ExpireStep DEF PreInv
<1>11. CASE PassTime
  BY <1>1, <1>11, PassTimeStep DEF PreInv
<1> QED
  BY <1>3, <1>4, <1>5, <1>6, <1>7, <1>8, <1>9, <1>10, <1>11 DEF Next, TickStep

LEMMA PreInvariant == Spec => []PreInv
<1>1. Init => PreInv
  BY InitCounts, PreInit DEF PreInv
<1> QED  BY <1>1, PreStep, PTL DEF Spec

\* The preloader keeps its types.
THEOREM PreloadTypes == Spec => []TypeOK
<1>1. PreInv => TypeOK
  <2> SUFFICES ASSUME PreInv PROVE TypeOK
    OBVIOUS
  <2>1. PoolTypeOK
    BY DEF PreInv, Counted, RecentTyped, Around, PoolTypeOK
  <2>2. tick.step \in {"idle", "ps", "act", "rpc"} /\ tick.plan \in Seq(Action)
        /\ Len(tick.plan) =< Cap
    BY DEF PreInv, Ticks, Stages
  <2> QED  BY <2>1, <2>2 DEF PreInv, Around, TypeOK
<1> QED  BY <1>1, PreInvariant, PTL

LEMMA SumOfOne ==
  ASSUME NEW m \in Models
  PROVE  Sum({m}) = Size[m]
<1> DEFINE S == {m}
           body(g) == [T \in SUBSET S |->
                         IF T = {} THEN 0
                         ELSE LET x == CHOOSE x \in T : TRUE IN Size[x] + g[T \ {x}]]
           total == CHOOSE g : g = body(g)
           f == [T \in SUBSET S |-> IF T = {} THEN 0 ELSE Size[m]]
<1>1. SUBSET S = {{}, {m}} /\ \A T \in SUBSET S : T # {} => T = {m}
  OBVIOUS
<1>2. (CHOOSE x \in {m} : TRUE) = m
  OBVIOUS
<1>3. Size[m] \in Nat
  BY MemoryAssumption
<1>4. f = body(f)
  <2>1. f[{}] = 0
    BY <1>1
  <2>2. ASSUME NEW T \in SUBSET S
        PROVE  f[T] = IF T = {} THEN 0
                      ELSE LET x == CHOOSE x \in T : TRUE IN Size[x] + f[T \ {x}]
    <3>1. CASE T = {}
      BY <1>1, <3>1
    <3>2. CASE T = {m}
      <4>1. T \ {m} = {} /\ f[T] = Size[m]
        BY <1>1, <3>2
      <4> HIDE DEF f
      <4> QED  BY <1>2, <1>3, <2>1, <3>2, <4>1
    <3> QED  BY <1>1, <3>1, <3>2
  <2> QED  BY <2>2
<1>5. total = body(total)
  <2> HIDE DEF f, body
  <2> QED  BY <1>4
<1>6. Sum({m}) = total[{m}]
  BY DEF Sum
<1> HIDE DEF total
<1>7. total[{}] = 0
  BY <1>1, <1>5
<1>8. total[{m}] = Size[m] + total[{}]
  <2>1. {m} \ {m} = {} /\ {m} # {} /\ {m} \in SUBSET S
    OBVIOUS
  <2> QED  BY <1>2, <1>5, <2>1
<1> QED  BY <1>3, <1>6, <1>7, <1>8

\* A plan overfills no host, however many actions it has and whatever is learnt while
\* it is carried out; it drops nothing that a job needed that was due, if the store-wide
\* list has room for the jobs; and it asks Ollama to keep what it keeps for a while, unless
\* a duration of half a second or less was configured or asked for.
THEOREM PlansAreSound == Spec => []PlanIsSound
<1>1. PreInv => PlanIsSound
  <2> SUFFICES ASSUME PreInv PROVE PlanIsSound
    OBVIOUS
  <2>1. tick.plan \in Seq(Action) /\ Owed
    BY DEF PreInv, Ticks
  <2>2. ASSUME NEW a \in Elems(tick.plan)
        PROVE  /\ a \in Action
               /\ a.op = "preload" => Spared(tick.views, a.host, a.model)
               /\ a.op = "unload" => a.model \notin Shielded
               /\ Lasting(a)
    BY <2>1 DEF Elems, Owed
  <2>3. ASSUME NEW a \in Planned("preload"), NEW b \in Planned("preload"), a.host = b.host
        PROVE  a = b
    <3>1. PICK i \in DOMAIN tick.plan : a = tick.plan[i] /\ a.op = "preload"
      BY DEF Planned, Elems
    <3>2. PICK k \in DOMAIN tick.plan : b = tick.plan[k]
      BY DEF Planned, Elems
    <3>3. Alone(tick.plan, i)
      BY <2>1, <3>1 DEF Owed
    <3> QED  BY <2>3, <3>1, <3>2, <3>3 DEF Alone
  <2>4. ASSUME NEW h \in Hosts
        PROVE  LET added == {a.model : a \in {b \in Planned("preload") : b.host = h}} IN
               added # {} /\ added \subseteq known /\ Total(h) # NoBudget =>
                 (Used(tick.views, h) + Sum(added)) * 100 =< Total(h) * (100 - Margin)
    <3> DEFINE added == {a.model : a \in {b \in Planned("preload") : b.host = h}}
    <3> SUFFICES ASSUME added # {}, added \subseteq known, Total(h) # NoBudget
                 PROVE  (Used(tick.views, h) + Sum(added)) * 100 =< Total(h) * (100 - Margin)
      OBVIOUS
    <3>1. PICK a \in Planned("preload") : a.host = h
      OBVIOUS
    <3>2. added = {a.model}
      BY <2>3, <3>1
    <3>3. a.model \in Models /\ Spared(tick.views, h, a.model)
      BY <2>2, <3>1 DEF Planned, Action
    <3>4. Sum(added) = Size[a.model]
      BY <3>2, <3>3, SumOfOne
    <3>5. a.model \in known
      BY <3>2
    <3> HIDE DEF added
    <3> QED  BY <3>3, <3>4, <3>5 DEF Spared
  <2>5. PlanKeepsWanted /\ PlanKeepsFinitely
    BY <2>2 DEF PlanKeepsWanted, PlanKeepsFinitely, Planned, Shielded
  <2> QED  BY <2>4, <2>5 DEF PlanIsSound, PlanFits
<1> QED  BY <1>1, PreInvariant, PTL
=============================================================================
