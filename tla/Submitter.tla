----------------------------- MODULE Submitter -----------------------------
(***************************************************************************)
(* MessagingSubmitter: a client that publishes a job request over a broker *)
(* and waits for the result message with its correlation id.  The results  *)
(* of all clients share one Kafka topic or Redis stream, here one log; a   *)
(* RabbitMQ client has a reply queue of its own.  The bridge, at the other *)
(* end, answers in any order, late, twice or never.                        *)
(*                                                                         *)
(* A deadline may come at any moment.                                      *)
(***************************************************************************)
EXTENDS Naturals, Sequences

CONSTANTS
  Clients,
  Transport,   \* Transport[c]: kafka, redis or rabbitmq
  MaxCalls,    \* bound: submits per client
  MaxAnswers   \* bound: times that one request is answered

ASSUME TransportAssumption == Transport \in [Clients -> {"kafka", "redis", "rabbitmq"}]
ASSUME BoundsAssumption == MaxCalls \in Nat /\ MaxAnswers \in Nat

VARIABLES
  answers,  \* answers[r]: times that the bridge answered request r
  sent,     \* the requests that the bridge can see
  results,  \* the log of results
  inbox,    \* inbox[c]: the reply queue of a RabbitMQ client
  since,    \* since[c]: entries of the log before c's read position
  call      \* call[c]: the step of c's n-th submit

vars == <<answers, sent, results, inbox, since, call>>

Ids == [by : Clients, n : 1 .. MaxCalls]   \* correlation ids, a uuid per submit
IdOf(c) == [by |-> c, n |-> call[c].n]

Private(c) == Transport[c] = "rabbitmq"
At(c, step) == call[c].step = step
GoTo(c, step) == call' = [call EXCEPT ![c].step = step]

\* A Kafka consumer keeps its position from one submit to the next, and begins with
\* the earliest entry; a Redis client looks for the end of the log first.
Begin(c) ==
  /\ At(c, "idle") /\ call[c].n < MaxCalls
  /\ call' = [call EXCEPT ![c] = [step |-> "publish", n |-> @.n + 1]]
  /\ since' = IF Transport[c] = "redis" THEN [since EXCEPT ![c] = Len(results)] ELSE since
  /\ UNCHANGED <<answers, sent, results, inbox>>

Publish(c) ==
  /\ At(c, "publish")
  /\ sent' = sent \cup {IdOf(c)}
  /\ GoTo(c, "await")
  /\ UNCHANGED <<answers, results, inbox, since>>

\* It raises, or is not acknowledged in time; the request may be out all the same.
PublishFails(c) ==
  /\ At(c, "publish")
  /\ sent' \in {sent, sent \cup {IdOf(c)}}
  /\ GoTo(c, "idle")
  /\ UNCHANGED <<answers, results, inbox, since>>

\* The bridge and its worker.
Answer(r) ==
  /\ r \in sent /\ answers[r] < MaxAnswers
  /\ answers' = [answers EXCEPT ![r] = @ + 1]
  /\ IF Private(r.by)
     THEN inbox' = [inbox EXCEPT ![r.by] = Append(@, r)] /\ UNCHANGED results
     ELSE results' = Append(results, r) /\ UNCHANGED inbox
  /\ UNCHANGED <<sent, since, call>>

\* await_result returns the message of its own request and drops any other.
Take(c, r) ==
  call' = IF r = IdOf(c) THEN [call EXCEPT ![c].step = "idle"] ELSE call

ReadInbox(c) ==
  /\ At(c, "await") /\ Private(c) /\ inbox[c] # <<>>
  /\ Take(c, Head(inbox[c]))
  /\ inbox' = [inbox EXCEPT ![c] = Tail(@)]
  /\ UNCHANGED <<answers, sent, results, since>>

\* Mutant: the last entry is read, whatever was there before it.
ReadLogNewest(c) ==
  /\ At(c, "await") /\ ~Private(c) /\ since[c] < Len(results)
  /\ Take(c, results[Len(results)])
  /\ since' = [since EXCEPT ![c] = Len(results)]
  /\ UNCHANGED <<answers, sent, results, inbox>>

\* The next entry of the log; another request's result is skipped.
ReadLog(c) ==
  /\ At(c, "await") /\ ~Private(c) /\ since[c] < Len(results)
  /\ Take(c, results[since[c] + 1])
  /\ since' = [since EXCEPT ![c] = @ + 1]
  /\ UNCHANGED <<answers, sent, results, inbox>>

\* The deadline: the answer may still come, and then stays in the log or the queue.
Expire(c) ==
  /\ At(c, "await")
  /\ GoTo(c, "idle")
  /\ UNCHANGED <<answers, sent, results, inbox, since>>

Init ==
  /\ answers = [r \in Ids |-> 0] /\ sent = {}
  /\ results = <<>> /\ inbox = [c \in Clients |-> <<>>]
  /\ since = [c \in Clients |-> 0]
  /\ call = [c \in Clients |-> [step |-> "idle", n |-> 0]]

Next ==
  \/ \E c \in Clients :
       \/ Begin(c) \/ Publish(c) \/ PublishFails(c)
       \/ ReadInbox(c) \/ ReadLog(c) \/ Expire(c)
  \/ \E r \in Ids : Answer(r)

Spec == Init /\ [][Next]_vars

-----------------------------------------------------------------------------
(* Properties.                                                             *)

TypeOK ==
  /\ answers \in [Ids -> 0 .. MaxAnswers] /\ sent \subseteq Ids
  /\ results \in Seq(Ids) /\ inbox \in [Clients -> Seq(Ids)]
  /\ since \in [Clients -> Nat] /\ \A c \in Clients : since[c] =< Len(results)
  /\ call \in [Clients -> [step : {"idle", "publish", "await"}, n : 0 .. MaxCalls]]

\* The answer to a request that is waited for is never behind the reader: it may come
\* before the wait begins, between others' answers, or after earlier submits timed
\* out and left theirs unread.
Ahead(c) == {results[i] : i \in {k \in DOMAIN results : k > since[c]}}
              \cup {inbox[c][i] : i \in DOMAIN inbox[c]}
AnswerAhead ==
  \A c \in Clients :
    At(c, "await") /\ answers[IdOf(c)] > 0 => IdOf(c) \in Ahead(c)
=============================================================================
