-------------------------------- MODULE MCLedger --------------------------------
EXTENDS Ledger, TLC

Symmetry == Permutations(HttpRec) \cup Permutations(Tx)
================================================================================
