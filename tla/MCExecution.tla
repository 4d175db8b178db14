---------------------------- MODULE MCExecution ----------------------------
(* Two jobs of one model on two hosts; one is streamed and has a timeout.   *)
EXTENDS Execution, TLC

CONSTANTS m

OneModel == [c \in Calls |-> m]
Policies ==
  [c \in Calls |->
     [retries |-> IF c = 1 THEN 1 ELSE 0,
      on |-> IF c = 1 THEN {"transient", "timeout"} ELSE {"transient"}]]
Raised == {[status |-> 500, says |-> {}, expired |-> FALSE],
           [status |-> 500, says |-> {"no such model"}, expired |-> FALSE],
           [status |-> 0, says |-> {"timeout"}, expired |-> TRUE]}
=============================================================================
