----------------------------- MODULE KeyedQueue -----------------------------
(***************************************************************************)
(* What SessionPriorityQueue promises in its module docstring, whatever    *)
(* its workers do: tasks that share a key run one at a time, in the order  *)
(* of (priority, submission); another key's backlog is never in their way. *)
(***************************************************************************)
EXTENDS Naturals

CONSTANTS
  Tasks,
  Key, NoKey,  \* Key[t]: the serialization key of t, or NoKey
  Prio         \* Prio[t]: its priority; the lower runs first

VARIABLES
  pending,  \* accepted and not started
  running,
  ended,
  seq,      \* seq[t]: the place of t in the order of submission
  next      \* the next such place

Ahead(t, u) == Prio[t] < Prio[u] \/ (Prio[t] = Prio[u] /\ seq[t] < seq[u])
SameKey(t, u) == Key[t] # NoKey /\ Key[t] = Key[u]

Init ==
  /\ pending = {} /\ running = {} /\ ended = {}
  /\ seq = [t \in Tasks |-> 0] /\ next = 1

Accept(t) ==
  /\ t \notin pending \cup running \cup ended
  /\ pending' = pending \cup {t}
  /\ seq' = [seq EXCEPT ![t] = next] /\ next' = next + 1
  /\ UNCHANGED <<running, ended>>

Start(t) ==
  /\ t \in pending
  /\ \A u \in running : ~SameKey(t, u)
  /\ \A u \in pending : SameKey(t, u) => ~Ahead(u, t)
  /\ pending' = pending \ {t} /\ running' = running \cup {t}
  /\ UNCHANGED <<ended, seq, next>>

End(t) ==
  /\ t \in running
  /\ running' = running \ {t} /\ ended' = ended \cup {t}
  /\ UNCHANGED <<pending, seq, next>>

Next == \E t \in Tasks : Accept(t) \/ Start(t) \/ End(t)

Spec == Init /\ [][Next]_<<pending, running, ended, seq, next>>
=============================================================================
