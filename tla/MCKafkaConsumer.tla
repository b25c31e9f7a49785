--------------------------- MODULE MCKafkaConsumer ---------------------------
(***************************************************************************)
(* KafkaConsumer on small instances: the constants are numbers and sets of *)
(* offsets, given in the configurations.                                   *)
(***************************************************************************)
EXTENDS KafkaConsumer
=============================================================================
