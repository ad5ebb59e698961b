------------------------------- MODULE MCPlan -------------------------------
EXTENDS StockPlan, TLC
SomeProfile == 1 :> 3 @@ 2 :> 2
=============================================================================
