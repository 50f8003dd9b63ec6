---------------------------- MODULE MCKafkaWriter ----------------------------
(***************************************************************************)
(* Instances of KafkaWriter: BarWriter (no timer task) and                 *)
(* FeatureVectorWriter (a timer task), with a fetch of two messages, a     *)
(* queue of one and a buffer a failing database overflows.                 *)
(***************************************************************************)
EXTENDS KafkaWriter

\* The topic has at most one message that is not a row.
MostlyRows ==
  Cardinality({i \in DOMAIN topic : ~IsRow(i)}) <= 1
=============================================================================
