------------------------------ MODULE MCStock ------------------------------
EXTENDS StockRuns, TLC
=============================================================================
