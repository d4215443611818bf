------------------------- MODULE MCCandleIngestion --------------------------
(* The queue and the clock are bounded by the guards of the specification;  *)
(* the instances differ by their CONSTANTS only.                            *)
EXTENDS CandleIngestion
=============================================================================
