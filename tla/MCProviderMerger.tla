-------------------------- MODULE MCProviderMerger --------------------------
(***************************************************************************)
(* A primary and two secondaries; a silence of two bar intervals leaves    *)
(* one more for late bars and a second failover.                           *)
(***************************************************************************)
EXTENDS ProviderMerger

CONSTANTS ibkr, alpaca, databento

MCProviders == {ibkr, alpaca, databento}
=============================================================================
