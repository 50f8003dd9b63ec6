-------------------------- MODULE MCBarAggregator --------------------------
(***************************************************************************)
(* Two timeframes, of two and of four minutes, over two long periods; the  *)
(* session opens in the middle of the second one, as 9:30 in New York does *)
(* in an hour, and on a boundary of the short one.                         *)
(***************************************************************************)
EXTENDS BarAggregator

MCTimeframes == <<"short", "long">>
MCMinutes == [tf \in {"short", "long"} |-> IF tf = "short" THEN 2 ELSE 4]
MCBreaks == {6}
MCTimes == {1, 2, 4, 5, 6, 7, 8}
=============================================================================
