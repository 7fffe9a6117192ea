--------------------------- MODULE RdkafkaClients ---------------------------
(***************************************************************************)
(* The handles of the librdkafka driver in one process: a producer and a   *)
(* consumer, whose goroutines interleave.                                  *)
(***************************************************************************)
EXTENDS RdkafkaProducer, RdkafkaConsumer

clientsVars == <<producerVars, consumerVars>>

ClientsInit == ProducerInit /\ ConsumerInit

ClientsNext ==
  \/ ProducerNext /\ UNCHANGED consumerVars
  \/ ConsumerNext /\ UNCHANGED producerVars

ClientsSpec == ClientsInit /\ [][ClientsNext]_clientsVars

\* No call of Send or Ping is inside a producer client that replace or Close has
\* destroyed, and no Ping, nor a commit the loop gave up on, inside the consumer
\* client that Close has destroyed (rdkafka.go).
NoCallInDestroyedClient == NoCallInDestroyedProducer /\ NoCallInDestroyedConsumer
=============================================================================
