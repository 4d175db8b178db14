--------------------------- MODULE JobStoreProofs ---------------------------
(***************************************************************************)
(* What the job table guarantees, for any set of jobs, any keys, any lease *)
(* length and any number of claims.  Every operation writes a row that is  *)
(* sound on its own (RowSound) and whose token is the row's old one, a     *)
(* fresh one or none: that is all the invariant needs.                     *)
(***************************************************************************)
EXTENDS JobStore, TLAPS

\* The part of StoreInv that speaks of one row.
RowSound(r) ==
  /\ r.status = "processing" => r.token # NoToken
  /\ r.status \notin {"processing", "cancelled"} => r.token = NoToken
  /\ r.status \in {"queued", "processing"} => r.result = NoResult
  /\ r.status \in {"completed", "failed"} => r.result = r.status

\* The invariant holds of a table exactly when tokens are unique and every row
\* is sound.
LEMMA InvByRow ==
  StoreInv <=> /\ StoreTypeOK
               /\ TokensUnique
               /\ \A j \in Jobs : RowSound(rows[j])
  BY DEF StoreInv, RowSound, LeaseMatchesStatus, ResultMatchesStatus

\* A step that changes only row j, leaves it sound and gives it no token but
\* its own or the next one preserves the invariant.
LEMMA OneRowStep ==
  ASSUME StoreInv,
         NEW j \in Jobs, NEW r \in Row,
         rows' = [rows EXCEPT ![j] = r],
         nextToken' \in {nextToken, nextToken + 1},
         RowSound(r),
         \/ r.token = NoToken
         \/ r.token = rows[j].token
         \/ r.token = nextToken /\ nextToken' = nextToken + 1
  PROVE  StoreInv'
<1> USE DEF NoToken
<1>1. StoreTypeOK'
  BY DEF StoreInv, StoreTypeOK
<1>2. TokensUnique'
  BY DEF StoreInv, StoreTypeOK, TokensUnique, Row
<1>3. \A k \in Jobs : RowSound(rows[k])'
  BY InvByRow DEF StoreTypeOK, RowSound
<1> QED
  BY <1>1, <1>2, <1>3
  DEF StoreInv, RowSound, LeaseMatchesStatus, ResultMatchesStatus

\* A step that issues no token and takes the token of some rows away.
LEMMA ManyRowStep ==
  ASSUME StoreInv,
         rows' \in [Jobs -> Row],
         nextToken' = nextToken,
         \A j \in Jobs :
           /\ RowSound(rows'[j])
           /\ rows'[j].token \in {NoToken, rows[j].token}
  PROVE  StoreInv'
<1> USE DEF NoToken
<1>1. StoreTypeOK'
  BY DEF StoreInv, StoreTypeOK
<1>2. TokensUnique'
  BY DEF StoreInv, StoreTypeOK, TokensUnique, Row
<1> QED
  BY <1>1, <1>2
  DEF StoreInv, RowSound, LeaseMatchesStatus, ResultMatchesStatus

LEMMA InitInv == StoreInit => StoreInv
  BY DelayAssumption
  DEF StoreInit, StoreInv, StoreTypeOK, TokensUnique, LeaseMatchesStatus,
      ResultMatchesStatus, Row, RowStatus, JobStatus, Terminal, Absent,
      NoToken, Lapsed, NoResult

\* Every operation on one job preserves the invariant.
LEMMA JobOpInv ==
  ASSUME StoreInv, NEW j \in Jobs, JobOp(j)
  PROVE  StoreInv'
<1> USE DEF NoToken, Lapsed, NoResult, Row, RowStatus, JobStatus, Terminal,
            RowSound
<1>0. /\ rows \in [Jobs -> Row] /\ rows[j] \in Row
      /\ nextToken \in Nat \ {0}
      /\ RowSound(rows[j])
  BY InvByRow DEF StoreTypeOK
<1>1. CASE Enqueue(j)
  <2> DEFINE r == [Absent("queued") EXCEPT !.delay = Delay[j]]
  <2>1. r \in Row /\ RowSound(r) /\ r.token = NoToken
    BY DelayAssumption DEF Absent
  <2> QED BY <1>1, <2>1, OneRowStep DEF Enqueue
<1>2. CASE Claim(j)
  <2> DEFINE r == [rows[j] EXCEPT !.status = "processing",
                                  !.lease = LeaseTicks,
                                  !.token = nextToken]
  <2>1. r \in Row /\ RowSound(r) /\ r.token = nextToken
    BY <1>0, <1>2, LeaseAssumption DEF Claim, Claimable
  <2>2. rows' = [rows EXCEPT ![j] = r] /\ nextToken' = nextToken + 1
    BY <1>0, <1>2 DEF Claim
  <2> HIDE DEF r
  <2> QED BY <2>1, <2>2, OneRowStep
<1>3. ASSUME NEW t \in 1 .. nextToken - 1, Heartbeat(j, t)
      PROVE  StoreInv'
  <2> DEFINE r == [rows[j] EXCEPT !.lease = LeaseTicks]
  <2>1. r \in Row /\ RowSound(r) /\ r.token = rows[j].token
    BY <1>0, LeaseAssumption
  <2>2. rows' = [rows EXCEPT ![j] = r] /\ nextToken' = nextToken
    BY <1>0, <1>3 DEF Heartbeat
  <2> HIDE DEF r
  <2> QED BY <2>1, <2>2, OneRowStep
<1>4. ASSUME NEW s \in Terminal,
             rows' = WithResult(j, s), nextToken' = nextToken
      PROVE  StoreInv'
  <2> DEFINE r == [rows[j] EXCEPT !.status = s, !.result = s,
                                  !.lease = Lapsed, !.token = NoToken]
  <2>1. r \in Row /\ RowSound(r) /\ r.token = NoToken
    BY <1>0
  <2>2. rows' = [rows EXCEPT ![j] = r]
    BY <1>0, <1>4 DEF WithResult
  <2> HIDE DEF r
  <2> QED BY <1>4, <2>1, <2>2, OneRowStep
<1>5. ASSUME UNCHANGED storeVars
      PROVE  StoreInv'
  BY <1>5 DEF storeVars, StoreInv, StoreTypeOK, TokensUnique,
              LeaseMatchesStatus, ResultMatchesStatus
<1>6. ASSUME NEW t \in 1 .. nextToken - 1,
             NEW s \in {"completed", "failed"}, SetResultOwned(j, t, s)
      PROVE  StoreInv'
  BY <1>4, <1>6 DEF SetResultOwned
<1>7. CASE UpdateStatus(j, "cancelled")
  <2>1. CASE ~Exists(j)
    BY <1>5, <1>7, <2>1 DEF UpdateStatus, storeVars
  <2>2. CASE Exists(j)
    <3> DEFINE r == [rows[j] EXCEPT !.status = "cancelled"]
    <3>1. r \in Row /\ RowSound(r) /\ r.token = rows[j].token
      BY <1>0
    <3>2. rows' = [rows EXCEPT ![j] = r] /\ nextToken' = nextToken
      BY <1>0, <1>7, <2>2 DEF UpdateStatus
    <3> HIDE DEF r
    <3> QED BY <3>1, <3>2, OneRowStep
  <2> QED BY <2>1, <2>2
<1>8. ASSUME NEW s \in {"failed", "cancelled"}, SetResult(j, s)
      PROVE  StoreInv'
  <2>1. CASE Exists(j)
    BY <1>4, <1>8, <2>1 DEF SetResult
  <2>2. CASE ~Exists(j)
    BY <1>5, <1>8, <2>2 DEF SetResult, storeVars
  <2> QED BY <2>1, <2>2
<1>9. CASE Requeue(j, {"failed", "cancelled"})
  <2> DEFINE r == [rows[j] EXCEPT !.status = "queued", !.result = NoResult,
                                  !.lease = Lapsed, !.token = NoToken,
                                  !.published = FALSE]
  <2>1. r \in Row /\ RowSound(r) /\ r.token = NoToken
    BY <1>0
  <2>2. rows' = [rows EXCEPT ![j] = r] /\ nextToken' = nextToken
    BY <1>0, <1>9 DEF Requeue
  <2> HIDE DEF r
  <2> QED BY <2>1, <2>2, OneRowStep
<1>10. CASE MarkPublished(j)
  <2>1. CASE ~Exists(j)
    BY <1>5, <1>10, <2>1 DEF MarkPublished, storeVars
  <2>2. CASE Exists(j)
    <3> DEFINE r == [rows[j] EXCEPT !.published = TRUE]
    <3>1. r \in Row /\ RowSound(r) /\ r.token = rows[j].token
      BY <1>0
    <3>2. rows' = [rows EXCEPT ![j] = r] /\ nextToken' = nextToken
      BY <1>0, <1>10, <2>2 DEF MarkPublished
    <3> HIDE DEF r
    <3> QED BY <3>1, <3>2, OneRowStep
  <2> QED BY <2>1, <2>2
<1> QED
  BY <1>1, <1>2, <1>3, <1>6, <1>7, <1>8, <1>9, <1>10 DEF JobOp

\* So do the operations on sets of jobs, and time.
LEMMA NextInv ==
  ASSUME StoreInv, [StoreNext]_storeVars
  PROVE  StoreInv'
<1> USE DEF NoToken, Lapsed, NoResult, Row, RowStatus, JobStatus, Terminal,
            RowSound
<1>0. /\ rows \in [Jobs -> Row]
      /\ \A j \in Jobs : rows[j] \in Row /\ RowSound(rows[j])
  BY InvByRow DEF StoreTypeOK
<1>1. ASSUME NEW S \in SUBSET Jobs, Reclaim(S)
      PROVE  StoreInv'
  <2>1. /\ rows' \in [Jobs -> Row]
        /\ \A j \in Jobs : /\ RowSound(rows'[j])
                            /\ rows'[j].token \in {NoToken, rows[j].token}
    BY <1>0, <1>1 DEF Reclaim, ReclaimRows, Stale
  <2> QED BY <1>1, <2>1, ManyRowStep DEF Reclaim
<1>2. ASSUME NEW S \in SUBSET Jobs, Delete(S)
      PROVE  StoreInv'
  <2>1. /\ rows' \in [Jobs -> Row]
        /\ \A j \in Jobs : /\ RowSound(rows'[j])
                            /\ rows'[j].token \in {NoToken, rows[j].token}
    BY <1>0, <1>2 DEF Delete, Absent
  <2> QED BY <1>2, <2>1, ManyRowStep DEF Delete
<1>3. CASE Tick
  <2> DEFINE later(r) == [r EXCEPT !.delay = IF @ > 0 THEN @ - 1 ELSE 0,
                                   !.lease = IF @ > Lapsed THEN @ - 1
                                             ELSE Lapsed]
  <2>1. ASSUME NEW r \in Row, RowSound(r)
        PROVE  /\ later(r) \in Row
               /\ RowSound(later(r))
               /\ later(r).token = r.token
    <3>1. /\ (IF r.delay > 0 THEN r.delay - 1 ELSE 0) \in Nat
          /\ (IF r.lease > Lapsed THEN r.lease - 1 ELSE Lapsed)
               \in {Lapsed} \cup Nat
      OBVIOUS
    <3> QED BY <2>1, <3>1
  <2>2. \A j \in Jobs : rows'[j] = later(rows[j])
    BY <1>3 DEF Tick
  <2>3. DOMAIN rows' = Jobs /\ rows' = [j \in Jobs |-> rows'[j]]
    BY <1>3 DEF Tick
  <2> HIDE DEF later
  <2>4. rows' \in [Jobs -> Row]
    BY <1>0, <2>1, <2>2, <2>3
  <2>5. \A j \in Jobs : /\ RowSound(rows'[j])
                         /\ rows'[j].token \in {NoToken, rows[j].token}
    BY <1>0, <2>1, <2>2
  <2> QED BY <1>3, <2>4, <2>5, ManyRowStep DEF Tick
<1>4. CASE UNCHANGED storeVars
  BY <1>4 DEF storeVars, StoreInv, StoreTypeOK, TokensUnique,
              LeaseMatchesStatus, ResultMatchesStatus
<1> QED
  BY <1>1, <1>2, <1>3, <1>4, JobOpInv DEF StoreNext

\* Lease tokens stay unique, every processing row has an owner, no other row
\* but a cancelled one has, and results agree with statuses, whatever is
\* called in whatever order.
THEOREM StoreInvariant == StoreSpec => []StoreInv
<1>1. StoreInv /\ [StoreNext]_storeVars => StoreInv'
  BY NextInv
<1> QED
  BY InitInv, <1>1, PTL DEF StoreSpec
=============================================================================
