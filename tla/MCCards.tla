------------------------------ MODULE MCCards ------------------------------
EXTENDS CardBatch, TLC
=============================================================================
