------------------------------ MODULE MCBridge ------------------------------
(* Small instances of Bridge for TLC: two orders with a poison message      *)
(* between them; j3 is the id a second delivery of the first order brings.  *)
EXTENDS Bridge, TLC

CONSTANTS j1, j2, j3, order1, order2

CorrOf == [j \in Jobs |-> IF j = j2 THEN order2 ELSE order1]
NoKeys == [j \in Jobs |-> NoKey]
DueAtOnce == [j \in Jobs |-> 0]
WithPoison == <<order1, NoKey, order2>>
\* The worker and publishing are the same on all of them: their errors are left
\* to one.
FaultsOf ==
  [t \in Transports |->
     {"crash"} \cup
       CASE t = "kafka" -> {"ack_error"}
         [] t = "rabbitmq" -> {"store_error", "conn_lost"}
         [] t = "redis" -> {"store_error", "ack_error", "publish_error", "work_error"}]
StoreErrors == [t \in Transports |-> {"store_error"}]
CallsOf ==
  [j \in Jobs |-> IF j = j1 THEN {"cancel", "requeue", "delete"} ELSE {}]
NoCalls == [j \in Jobs |-> {}]
NoFaults == [t \in Transports |-> {}]
=============================================================================
