----------------------------- MODULE MCSnapshots -----------------------------
EXTENDS SnapshotCache, TLC
=============================================================================
