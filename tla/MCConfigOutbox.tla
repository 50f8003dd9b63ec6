--------------------------- MODULE MCConfigOutbox ---------------------------
(***************************************************************************)
(* Instances of ConfigOutbox.                                              *)
(***************************************************************************)
EXTENDS ConfigOutbox

CONSTANTS s1, s2, d1, d2
=============================================================================
