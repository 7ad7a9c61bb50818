--------------------------- MODULE MCRiskScoring ---------------------------
(* Instances of RiskScoring for TLC; the inputs are in the configurations. *)
EXTENDS RiskScoring
=============================================================================
