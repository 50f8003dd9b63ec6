------------------------- MODULE MCFeaturePipeline -------------------------
(* An hourly key over a five-minute key of one symbol; the hourly key also    *)
(* takes its own momentum, as "1d" does.                                      *)
EXTENDS FeaturePipeline

CONSTANTS low, high

MCLower == [k \in Keys |-> IF k = high THEN {low, high} ELSE {}]
MCMinBars == [k \in Keys |-> IF k = high THEN 1 ELSE 2]
=============================================================================
