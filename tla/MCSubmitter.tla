---------------------------- MODULE MCSubmitter ----------------------------
(* One client of each transport; on a deployment there is one transport, but *)
(* clients of Kafka and Redis differ in their read position only.            *)
EXTENDS Submitter, TLC

CONSTANTS a, b, c

TransportOf == [x \in Clients |-> CASE x = a -> "kafka" [] x = b -> "redis" [] x = c -> "rabbitmq"]
=============================================================================
