--------------------------- MODULE MCOutputQueue ---------------------------
(* The instance of OutputQueue that TLC checks.                             *)
EXTENDS OutputQueue
=============================================================================
