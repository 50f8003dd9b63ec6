--------------------------- MODULE MCHistoryFetch ---------------------------
(* Instances of HistoryFetch. *)
EXTENDS HistoryFetch
=============================================================================
