-------------------------------- MODULE Slots --------------------------------
(***************************************************************************)
(* What a worker reserves before it dispatches a job: a slot for each of   *)
(* the job's model, session and tags that has a limit, and a token for     *)
(* each that has a rate.  A key stands for a model, a session or a tag.    *)
(*                                                                         *)
(* A worker counts its own jobs exactly and those of other processes by    *)
(* the snapshot it takes of the processing rows once per poll.             *)
(***************************************************************************)
EXTENDS JobStore

CONSTANTS
  Workers,
  Dims,       \* Dims[j]: the keys that j counts for
  Session,    \* Session[j]: the one of them that is its session, or NoKey
  SlotLimit,  \* SlotLimit[k]: model_slots, session_slots and tag_slots, where set
  Burst       \* Burst[k]: capacity of k's token bucket, where a rate is set

ASSUME SlotAssumption ==
  /\ \A k \in DOMAIN SlotLimit : SlotLimit[k] \in Nat \ {0}
  /\ \A k \in DOMAIN Burst : Burst[k] \in Nat \ {0}

VARIABLES
  reserved,  \* reserved[w]: _inflight_meta
  elsewhere,     \* elsewhere[w]: the rows that were processing at w's last poll
  tokens     \* tokens[w][k]: w's bucket for k

slotVars == <<reserved, elsewhere, tokens>>

CountIn(S, k) == Cardinality({j \in S : k \in Dims[j]})

\* _dim_usage: local jobs, and those of the snapshot that are not local.
Usage(w, k, snap) == CountIn(reserved[w], k) + CountIn(snap \ reserved[w], k)

\* The session's load in _fairness_order; a job without one has load 0.
SessionLoad(w, j, snap) == IF Session[j] = NoKey THEN 0 ELSE Usage(w, Session[j], snap)

Processing == {j \in Jobs : rows[j].status = "processing"}

Limited(j) == Dims[j] \cap DOMAIN SlotLimit
Rated(j) == Dims[j] \cap DOMAIN Burst

\* _try_reserve_job.  Its second look at the limits, after the reservation,
\* finds what the first one found: there is no await in between.
MayReserve(w, j) ==
  /\ \A k \in Limited(j) : Usage(w, k, elsewhere[w]) < SlotLimit[k]
  /\ \A k \in Rated(j) : tokens[w][k] > 0

Reserve(w, j) ==
  /\ MayReserve(w, j)
  /\ reserved' = [reserved EXCEPT ![w] = @ \cup {j}]
  /\ tokens' = [tokens EXCEPT ![w] =
                  [k \in DOMAIN Burst |-> IF k \in Rated(j) THEN @[k] - 1 ELSE @[k]]]
  /\ UNCHANGED elsewhere

\* The task's done callback.  A token is not given back.
Release(w, j) ==
  /\ reserved' = [reserved EXCEPT ![w] = @ \ {j}]
  /\ UNCHANGED <<elsewhere, tokens>>

Snapshot(w) ==
  /\ elsewhere' = [elsewhere EXCEPT ![w] = Processing]
  /\ UNCHANGED <<reserved, tokens>>

\* A tick is long enough for one token of each bucket.
Full == \A w \in Workers, k \in DOMAIN Burst : tokens[w][k] = Burst[k]
Refill ==
  /\ tokens' = [w \in Workers |-> [k \in DOMAIN Burst |->
                  IF tokens[w][k] < Burst[k] THEN tokens[w][k] + 1 ELSE Burst[k]]]
  /\ UNCHANGED <<reserved, elsewhere>>

SlotInit ==
  /\ reserved = [w \in Workers |-> {}]
  /\ elsewhere = [w \in Workers |-> {}]
  /\ tokens = [w \in Workers |-> Burst]

SlotTypeOK ==
  /\ reserved \in [Workers -> SUBSET Jobs] /\ elsewhere \in [Workers -> SUBSET Jobs]
  /\ \A w \in Workers : /\ DOMAIN tokens[w] = DOMAIN Burst
                        /\ \A k \in DOMAIN Burst : tokens[w][k] \in 0 .. Burst[k]
=============================================================================
