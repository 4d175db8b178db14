-------------------------------- MODULE Pool --------------------------------
(***************************************************************************)
(* BackendPool: which of several Ollama hosts gets a call.  A host that    *)
(* served the model recently is preferred, then the least loaded one; a    *)
(* warm host with Spillover calls loses to a cold one that has fewer; and  *)
(* a host where the model failed is avoided for a while.                   *)
(*                                                                         *)
(* One event loop uses it, so each operation is one step.  The failure map *)
(* is cut at 1024 entries in the code; here it is small.                   *)
(***************************************************************************)
EXTENDS Naturals, Sequences, FiniteSets

Lists == INSTANCE SequencesExt

CONSTANTS
  Hosts,         \* indices, from 1
  Models,
  Calls,         \* the calls that may hold a lease
  Model,         \* Model[c]: the model that call c is for
  WarmCapacity,  \* models a host is taken to keep loaded
  Spillover,
  FailTicks      \* length of the cool-down after a failure

ASSUME HostsAssumption == Hosts # {} /\ Hosts \subseteq Nat \ {0}
ASSUME ModelAssumption == IsFiniteSet(Calls) /\ Model \in [Calls -> Models]
ASSUME PoolAssumption ==
  WarmCapacity \in Nat \ {0} /\ Spillover \in Nat \ {0} /\ FailTicks \in Nat

VARIABLES
  inflight,  \* inflight[h]: the counter that the pool keeps
  recent,    \* recent[h]: models that h served, the last one first
  cooling,   \* cooling[m][h]: ticks until _failed_until lapses
  lease      \* lease[c]: the host of call c, or NoHost

poolVars == <<inflight, recent, cooling, lease>>

NoHost == 0

Recent(h) == {recent[h][i] : i \in DOMAIN recent[h]}

LeastLoaded(S) ==
  CHOOSE h \in S : \A k \in S :
    inflight[h] < inflight[k] \/ (inflight[h] = inflight[k] /\ h =< k)

\* Hosts where m has not failed lately; all of them if it has failed on each.
Candidates(m) ==
  LET up == {h \in Hosts : cooling[m][h] = 0} IN IF up = {} THEN Hosts ELSE up

\* Mutant: a warm host is always preferred.
PickAlwaysWarm(m) ==
  LET warm == {h \in Candidates(m) : m \in Recent(h)}
  IN LeastLoaded(IF warm = {} THEN Candidates(m) ELSE warm)

\* _pick
Pick(m) ==
  LET warm == {h \in Candidates(m) : m \in Recent(h)}
      cold == Candidates(m) \ warm
      best == LeastLoaded(warm)
  IN CASE warm = {} -> LeastLoaded(cold)
       [] warm # {} /\ cold # {} /\ inflight[best] >= Spillover
            /\ inflight[LeastLoaded(cold)] < inflight[best] -> LeastLoaded(cold)
       [] OTHER -> best

\* Mutant: the deque has no maxlen.
NoteAll(h, m) ==
  recent' = [recent EXCEPT ![h] = <<m>> \o Lists!RemoveFirst(@, m)]

\* _note: the deque drops its oldest entry when it is full.
Note(h, m) ==
  LET noted == <<m>> \o Lists!RemoveFirst(recent[h], m) IN
  recent' = [recent EXCEPT ![h] =
               SubSeq(noted, 1, IF Len(noted) > WarmCapacity THEN WarmCapacity
                                                             ELSE Len(noted))]

Cooling(m, h, ticks) == cooling' = [cooling EXCEPT ![m][h] = ticks]

Lease(c) ==
  /\ lease[c] = NoHost
  /\ LET h == Pick(Model[c]) IN
       /\ lease' = [lease EXCEPT ![c] = h]
       /\ inflight' = [inflight EXCEPT ![h] = @ + 1]
  /\ UNCHANGED <<recent, cooling>>

\* The finally clause of the lease.
GiveBack(c) ==
  /\ lease[c] # NoHost
  /\ inflight' = [inflight EXCEPT ![lease[c]] = @ - 1]
  /\ lease' = [lease EXCEPT ![c] = NoHost]

\* The call returns: the failure of another call there is forgotten as well.
Served(c) ==
  /\ GiveBack(c)
  /\ Note(lease[c], Model[c])
  /\ Cooling(Model[c], lease[c], 0)

\* Mutant: the host is not remembered.
FailedForgotten(c) == GiveBack(c) /\ UNCHANGED <<recent, cooling>>

Failed(c) ==
  /\ GiveBack(c)
  /\ Cooling(Model[c], lease[c], FailTicks)
  /\ UNCHANGED recent

\* Mutant: the counter is given back by the except and else clauses only.
AbandonedKept(c) ==
  /\ lease[c] # NoHost
  /\ lease' = [lease EXCEPT ![c] = NoHost]
  /\ UNCHANGED <<inflight, recent, cooling>>

\* The task is cancelled, or its attempt timed out: a CancelledError is no
\* Exception, so the host is not to blame.
Abandoned(c) ==
  /\ GiveBack(c)
  /\ UNCHANGED <<recent, cooling>>

PoolTick ==
  /\ cooling' = [m \in Models |-> [h \in Hosts |->
                   IF cooling[m][h] > 0 THEN cooling[m][h] - 1 ELSE 0]]
  /\ UNCHANGED <<inflight, recent, lease>>

PoolInit ==
  /\ inflight = [h \in Hosts |-> 0]
  /\ recent = [h \in Hosts |-> <<>>]
  /\ cooling = [m \in Models |-> [h \in Hosts |-> 0]]
  /\ lease = [c \in Calls |-> NoHost]

PoolTypeOK ==
  /\ inflight \in [Hosts -> Nat]
  /\ \A h \in Hosts : recent[h] \in Seq(Models) /\ Len(recent[h]) =< WarmCapacity
  /\ cooling \in [Models -> [Hosts -> 0 .. FailTicks]]
  /\ lease \in [Calls -> Hosts \cup {NoHost}]

-----------------------------------------------------------------------------
(* Properties of whatever uses the pool.                                   *)

\* The counters that the choice relies on are the calls in progress, however
\* calls end: with a result, an error, a timeout or a cancel.
LoadsAreCalls ==
  \A h \in Hosts : inflight[h] = Cardinality({c \in Calls : lease[c] = h})

\* Warmth never piles calls up: a host that has Spillover calls gets one more only
\* if no host where the model may run has fewer.
SpillsOver ==
  [][\A c \in Calls : LET h == lease'[c] IN
       lease[c] = NoHost /\ h # NoHost /\ inflight[h] >= Spillover =>
         \A k \in Hosts : cooling[Model[c]][k] = 0 => inflight[h] =< inflight[k]]_poolVars
=============================================================================
