--------------------------- MODULE MCSelfHealing ---------------------------
(***************************************************************************)
(* Two requests in progress at a time, for the same alert or two, a limit  *)
(* of one action and a breaker that two failures open.                     *)
(***************************************************************************)
EXTENDS SelfHealing
=============================================================================
