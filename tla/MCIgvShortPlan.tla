--------------------------- MODULE MCIgvShortPlan ---------------------------
(* Prices on both sides of each level of PlanConfig, and two expiries so   *)
(* that a lost entry can be followed by a second one.                      *)
EXTENDS IgvShortPlan

MCPrices == {890, 925, 940, 960, 1000, 1005, 1015}
=============================================================================
