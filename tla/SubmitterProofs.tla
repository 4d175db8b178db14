-------------------------- MODULE SubmitterProofs --------------------------
(***************************************************************************)
(* Proofs about Submitter, for any clients on any transports, any number   *)
(* of submits and any number of answers to each.                           *)
(*                                                                         *)
(* A reader never skips its answer because its position is set at a moment *)
(* when the request cannot have been seen yet: a submit's id is in nobody's*)
(* hands before the publish (Unseen), and what was answered was sent.      *)
(***************************************************************************)
EXTENDS Submitter, TLAPS

AnsweredWasSent == \A r \in Ids : answers[r] > 0 => r \in sent

\* No id is sent before its submit publishes it.
Unseen ==
  /\ \A r \in sent : r.n =< call[r.by].n
  /\ \A c \in Clients : At(c, "publish") => IdOf(c) \notin sent

\* A submit in progress has a number.
Counted == \A c \in Clients : ~At(c, "idle") => call[c].n > 0

SubmitInv == TypeOK /\ AnsweredWasSent /\ Unseen /\ Counted /\ AnswerAhead

-----------------------------------------------------------------------------

LEMMA InitInv == Init => SubmitInv
<1> SUFFICES ASSUME Init PROVE SubmitInv
  OBVIOUS
<1>1. TypeOK
  BY BoundsAssumption DEF Init, TypeOK
<1>2. \A c \in Clients : At(c, "idle") /\ ~At(c, "await") /\ ~At(c, "publish")
  BY DEF Init, At
<1> QED
  BY <1>1, <1>2 DEF Init, SubmitInv, AnsweredWasSent, Unseen, Counted, AnswerAhead

LEMMA IdType ==
  ASSUME TypeOK, Counted, NEW c \in Clients, ~At(c, "idle")
  PROVE  IdOf(c) \in Ids
  BY BoundsAssumption DEF TypeOK, Counted, IdOf, Ids

LEMMA BeginInv ==
  ASSUME SubmitInv, NEW c \in Clients, Begin(c)
  PROVE  SubmitInv'
<1>1. /\ call'[c] = [step |-> "publish", n |-> call[c].n + 1]
      /\ \A d \in Clients \ {c} : call'[d] = call[d] /\ since'[d] = since[d]
      /\ call[c].n \in Nat /\ call[c].n < MaxCalls
      /\ call[c].step = "idle"
  BY BoundsAssumption DEF Begin, At, SubmitInv, TypeOK
<1>2. TypeOK'
  <2>1. call' \in [Clients -> [step : {"idle", "publish", "await"}, n : 0 .. MaxCalls]]
    BY <1>1, BoundsAssumption DEF Begin, SubmitInv, TypeOK
  <2>2. since' \in [Clients -> Nat] /\ \A d \in Clients : since'[d] =< Len(results)
    BY DEF Begin, SubmitInv, TypeOK
  <2> QED  BY <2>1, <2>2 DEF Begin, SubmitInv, TypeOK
<1>3. AnsweredWasSent'
  BY DEF Begin, SubmitInv, AnsweredWasSent
<1>4. Unseen'
  <2>1. \A r \in sent : r \in Ids /\ r.by \in Clients /\ r.n \in Nat /\ call[r.by].n \in Nat
    BY BoundsAssumption DEF SubmitInv, TypeOK, Ids
  <2>2. \A r \in sent : r.n =< call'[r.by].n
    BY <2>1, <1>1 DEF SubmitInv, Unseen
  <2>3. [by |-> c, n |-> call[c].n + 1] \notin sent
    BY <2>1, <1>1 DEF SubmitInv, Unseen
  <2>4. \A d \in Clients : At(d, "publish")' => IdOf(d)' \notin sent
    BY <2>3, <1>1 DEF SubmitInv, Unseen, At, IdOf
  <2> QED  BY <2>2, <2>4 DEF Begin, Unseen
<1>5. Counted'
  BY <1>1 DEF SubmitInv, Counted, At
<1>6. AnswerAhead'
  BY <1>1 DEF Begin, SubmitInv, AnswerAhead, At, IdOf, Ahead
<1> QED  BY <1>2, <1>3, <1>4, <1>5, <1>6 DEF SubmitInv

\* The request goes out or not, and the submit goes on to wait or raises.
LEMMA PublishInv ==
  ASSUME SubmitInv, NEW c \in Clients, Publish(c) \/ PublishFails(c)
  PROVE  SubmitInv'
<1>1. PICK s \in {"await", "idle"} :
        /\ call' = [call EXCEPT ![c].step = s]
        /\ sent' \in {sent, sent \cup {IdOf(c)}}
        /\ At(c, "publish")
        /\ UNCHANGED <<answers, results, inbox, since>>
  BY DEF Publish, PublishFails, GoTo
<1>2. /\ call'[c] = [step |-> s, n |-> call[c].n] /\ call[c].step = "publish"
      /\ \A d \in Clients \ {c} : call'[d] = call[d]
      /\ \A d \in Clients : call'[d].n = call[d].n /\ call[d].n \in Nat
  BY <1>1, BoundsAssumption DEF At, SubmitInv, TypeOK
<1>3. IdOf(c) \in Ids /\ IdOf(c).by = c /\ IdOf(c).n = call[c].n
  BY <1>1, <1>2, IdType DEF SubmitInv, At, IdOf
<1>4. TypeOK'
  BY <1>1, <1>3 DEF SubmitInv, TypeOK
<1>5. AnsweredWasSent'
  BY <1>1 DEF SubmitInv, AnsweredWasSent
<1>6. Unseen'
  <2>1. \A r \in sent' : r.n =< call'[r.by].n
    <3>1. \A r \in sent : r.by \in Clients
      BY DEF SubmitInv, TypeOK, Ids
    <3> QED  BY <1>1, <1>2, <1>3, <3>1 DEF SubmitInv, Unseen
  <2>2. ASSUME NEW d \in Clients, At(d, "publish")'
        PROVE  IdOf(d)' \notin sent'
    <3>1. d # c /\ At(d, "publish") /\ IdOf(d)' = IdOf(d)
      BY <2>2, <1>2 DEF At, IdOf
    <3>2. IdOf(d) # IdOf(c)
      BY <3>1 DEF IdOf
    <3> QED  BY <3>1, <3>2, <1>1 DEF SubmitInv, Unseen
  <2> QED  BY <2>1, <2>2 DEF Unseen
<1>7. Counted'
  BY <1>2 DEF SubmitInv, Counted, At
<1>8. AnswerAhead'
  <2> SUFFICES ASSUME NEW d \in Clients, At(d, "await")', answers[IdOf(d)'] > 0
               PROVE  IdOf(d)' \in Ahead(d)'
    BY <1>1 DEF AnswerAhead
  <2>1. IdOf(d)' = IdOf(d) /\ Ahead(d)' = Ahead(d)
    BY <1>1, <1>2 DEF IdOf, Ahead
  <2>2. CASE d = c
    <3>1. IdOf(c) \notin sent
      BY <1>1 DEF SubmitInv, Unseen
    <3> QED  BY <2>1, <2>2, <3>1, <1>3 DEF SubmitInv, AnsweredWasSent
  <2>3. CASE d # c
    BY <2>1, <2>3, <1>2 DEF SubmitInv, AnswerAhead, At
  <2> QED  BY <2>2, <2>3
<1> QED  BY <1>4, <1>5, <1>6, <1>7, <1>8 DEF SubmitInv

\* A new answer joins the end, behind every reader's position.
LEMMA AnswerInv ==
  ASSUME SubmitInv, NEW r \in Ids, Answer(r)
  PROVE  SubmitInv'
<1>0. /\ results' = results \/ results' = Append(results, r)
      /\ inbox' = inbox \/ inbox' = [inbox EXCEPT ![r.by] = Append(@, r)]
      /\ results \in Seq(Ids) /\ inbox \in [Clients -> Seq(Ids)]
      /\ r.by \in Clients
  BY DEF Answer, SubmitInv, TypeOK, Ids
<1>1. TypeOK'
  <2>1. answers' \in [Ids -> 0 .. MaxAnswers]
    BY BoundsAssumption DEF Answer, SubmitInv, TypeOK
  <2>3. results' \in Seq(Ids) /\ Len(results) =< Len(results')
    BY <1>0
  <2>4. inbox' \in [Clients -> Seq(Ids)]
    <3>1. Append(inbox[r.by], r) \in Seq(Ids)
      BY <1>0
    <3> QED  BY <1>0, <3>1
  <2>5. \A c \in Clients : since[c] =< Len(results')
    BY <2>3 DEF SubmitInv, TypeOK
  <2> QED  BY <2>1, <2>3, <2>4, <2>5 DEF Answer, SubmitInv, TypeOK
<1>2. AnsweredWasSent'
  BY DEF Answer, SubmitInv, TypeOK, AnsweredWasSent
<1>3. Unseen' /\ Counted'
  BY DEF Answer, SubmitInv, Unseen, Counted, At, IdOf
<1>4. AnswerAhead'
  <2> SUFFICES ASSUME NEW c \in Clients, At(c, "await"), answers'[IdOf(c)] > 0
               PROVE  IdOf(c) \in Ahead(c)'
    BY DEF AnswerAhead, Answer, At, IdOf
  <2>1. IdOf(c) \in Ids /\ IdOf(c).by = c
    BY IdType DEF SubmitInv, At, IdOf
  <2>2. Ahead(c) \subseteq Ahead(c)'
    <3>1. \A k \in DOMAIN results : k \in DOMAIN results' /\ results'[k] = results[k]
      BY <1>0
    <3>2. \A i \in DOMAIN inbox[c] :
            i \in DOMAIN inbox'[c] /\ inbox'[c][i] = inbox[c][i]
      <4>1. inbox'[c] = inbox[c] \/ inbox'[c] = Append(inbox[c], r)
        BY <1>0
      <4>2. inbox[c] \in Seq(Ids)
        BY <1>0
      <4> QED  BY <4>1, <4>2
    <3> QED  BY <3>1, <3>2 DEF Answer, Ahead
  <2>3. CASE IdOf(c) = r
    <3>1. CASE Private(c)
      <4>1. inbox'[c] = Append(inbox[c], r) /\ inbox[c] \in Seq(Ids)
        BY <2>1, <2>3, <3>1 DEF Answer, SubmitInv, TypeOK
      <4>2. Len(inbox[c]) + 1 \in DOMAIN inbox'[c] /\ inbox'[c][Len(inbox[c]) + 1] = r
        BY <4>1
      <4> QED  BY <4>2, <2>3 DEF Ahead
    <3>2. CASE ~Private(c)
      <4>1. results' = Append(results, r) /\ results \in Seq(Ids)
        BY <2>1, <2>3, <3>2 DEF Answer, SubmitInv, TypeOK
      <4>2. /\ Len(results) + 1 \in DOMAIN results'
            /\ results'[Len(results) + 1] = r
        BY <4>1
      <4>3. since'[c] = since[c] /\ since[c] \in Nat /\ since[c] < Len(results) + 1
        BY <4>1 DEF Answer, SubmitInv, TypeOK
      <4> QED  BY <4>2, <4>3, <2>3 DEF Ahead
    <3> QED  BY <3>1, <3>2
  <2>4. CASE IdOf(c) # r
    BY <2>1, <2>2, <2>4 DEF Answer, SubmitInv, TypeOK, AnswerAhead
  <2> QED  BY <2>3, <2>4
<1> QED  BY <1>1, <1>2, <1>3, <1>4 DEF SubmitInv

\* A client that takes its own answer waits no longer; what else it takes is not
\* its answer.  What the others have ahead of them stays.
LEMMA TakeInv ==
  ASSUME SubmitInv, NEW c \in Clients, At(c, "await"), NEW r \in Ids, Take(c, r),
         UNCHANGED <<answers, sent, results>>,
         inbox' \in [Clients -> Seq(Ids)],
         since' \in [Clients -> Nat], \A d \in Clients : since'[d] =< Len(results),
         \A d \in Clients \ {c} : inbox'[d] = inbox[d] /\ since'[d] = since[d],
         Ahead(c) \ {r} \subseteq Ahead(c)'
  PROVE  SubmitInv'
<1>1. /\ \A d \in Clients \ {c} : call'[d] = call[d]
      /\ \A d \in Clients : call'[d].n = call[d].n
      /\ call'[c].step = IF r = IdOf(c) THEN "idle" ELSE "await"
      /\ call[c].step = "await"
  BY DEF Take, At, SubmitInv, TypeOK
<1>2. TypeOK'
  BY DEF Take, SubmitInv, TypeOK
<1>3. AnsweredWasSent' /\ Counted'
  BY <1>1 DEF SubmitInv, AnsweredWasSent, Counted, At
<1>4. Unseen'
  <2>1. \A q \in sent : q.by \in Clients
    BY DEF SubmitInv, TypeOK, Ids
  <2> QED  BY <1>1, <2>1 DEF SubmitInv, Unseen, At, IdOf
<1>5. AnswerAhead'
  <2> SUFFICES ASSUME NEW d \in Clients, At(d, "await")', answers[IdOf(d)] > 0
               PROVE  IdOf(d) \in Ahead(d)'
    BY <1>1 DEF AnswerAhead, IdOf
  <2>1. IdOf(d) \in Ahead(d)
    BY <1>1 DEF SubmitInv, AnswerAhead, At
  <2>2. CASE d = c
    BY <2>1, <2>2, <1>1 DEF At
  <2>3. CASE d # c
    BY <2>1, <2>3 DEF Ahead
  <2> QED  BY <2>2, <2>3
<1> QED  BY <1>2, <1>3, <1>4, <1>5 DEF SubmitInv

LEMMA ReadInboxInv ==
  ASSUME SubmitInv, NEW c \in Clients, ReadInbox(c)
  PROVE  SubmitInv'
<1>1. inbox[c] \in Seq(Ids) /\ inbox[c] # <<>>
  BY DEF ReadInbox, SubmitInv, TypeOK
<1>2. Head(inbox[c]) \in Ids /\ Tail(inbox[c]) \in Seq(Ids)
  BY <1>1
<1>3. inbox' \in [Clients -> Seq(Ids)] /\ inbox'[c] = Tail(inbox[c])
  BY <1>2 DEF ReadInbox, SubmitInv, TypeOK
<1>4. Ahead(c) \ {Head(inbox[c])} \subseteq Ahead(c)'
  <2>1. ASSUME NEW i \in DOMAIN inbox[c], inbox[c][i] # Head(inbox[c])
        PROVE  i - 1 \in DOMAIN inbox'[c] /\ inbox'[c][i - 1] = inbox[c][i]
    BY <2>1, <1>1, <1>3
  <2> QED  BY <2>1 DEF Ahead, ReadInbox
<1> QED
  BY <1>2, <1>3, <1>4, TakeInv DEF ReadInbox, SubmitInv, TypeOK

LEMMA ReadLogInv ==
  ASSUME SubmitInv, NEW c \in Clients, ReadLog(c)
  PROVE  SubmitInv'
<1>1. /\ results \in Seq(Ids) /\ since[c] \in Nat /\ since[c] < Len(results)
      /\ since' = [since EXCEPT ![c] = since[c] + 1]
  BY DEF ReadLog, SubmitInv, TypeOK
<1>2. results[since[c] + 1] \in Ids
  BY <1>1
<1>3. /\ since' \in [Clients -> Nat] /\ since'[c] = since[c] + 1
      /\ \A d \in Clients : since'[d] =< Len(results)
      /\ \A d \in Clients \ {c} : since'[d] = since[d]
  BY <1>1 DEF SubmitInv, TypeOK
<1>4. Ahead(c) \ {results[since[c] + 1]} \subseteq Ahead(c)'
  <2>1. \A k \in DOMAIN results :
          k > since[c] /\ results[k] # results[since[c] + 1] => k > since'[c]
    BY <1>1, <1>3
  <2> QED  BY <2>1 DEF Ahead, ReadLog
<1> QED
  BY <1>2, <1>3, <1>4, TakeInv DEF ReadLog, SubmitInv, TypeOK

LEMMA ExpireInv ==
  ASSUME SubmitInv, NEW c \in Clients, Expire(c)
  PROVE  SubmitInv'
<1>1. /\ \A d \in Clients \ {c} : call'[d] = call[d]
      /\ \A d \in Clients : call'[d].n = call[d].n
      /\ call'[c].step = "idle"
  BY DEF Expire, GoTo, SubmitInv, TypeOK
<1>2. TypeOK'
  BY DEF Expire, GoTo, SubmitInv, TypeOK
<1>3. AnsweredWasSent' /\ Counted'
  BY <1>1 DEF Expire, SubmitInv, AnsweredWasSent, Counted, At
<1>4. Unseen'
  <2>1. \A q \in sent : q.by \in Clients
    BY DEF SubmitInv, TypeOK, Ids
  <2> QED  BY <1>1, <2>1 DEF Expire, SubmitInv, Unseen, At, IdOf
<1>5. AnswerAhead'
  BY <1>1 DEF Expire, SubmitInv, AnswerAhead, At, IdOf, Ahead
<1> QED  BY <1>2, <1>3, <1>4, <1>5 DEF SubmitInv

-----------------------------------------------------------------------------

LEMMA NextInv == SubmitInv /\ [Next]_vars => SubmitInv'
<1> SUFFICES ASSUME SubmitInv, [Next]_vars PROVE SubmitInv'
  OBVIOUS
<1>1. CASE UNCHANGED vars
  BY <1>1
  DEF vars, SubmitInv, TypeOK, AnsweredWasSent, Unseen, Counted, AnswerAhead,
      At, IdOf, Ahead
<1>2. CASE \E c \in Clients :
             \/ Begin(c) \/ Publish(c) \/ PublishFails(c)
             \/ ReadInbox(c) \/ ReadLog(c) \/ Expire(c)
  BY <1>2, BeginInv, PublishInv, ReadInboxInv, ReadLogInv, ExpireInv
<1>3. CASE \E r \in Ids : Answer(r)
  BY <1>3, AnswerInv
<1> QED  BY <1>1, <1>2, <1>3 DEF Next

\* A submit that waits finds its answer ahead of its read position, whatever was
\* answered before, late or to others: on any transport, for any number of
\* clients, submits and answers.
THEOREM NoAnswerSkipped == Spec => []AnswerAhead
<1>1. SubmitInv => AnswerAhead
  BY DEF SubmitInv
<1> QED  BY InitInv, NextInv, <1>1, PTL DEF Spec
=============================================================================
