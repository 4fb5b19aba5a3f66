---------------------------- MODULE MCApprovalStore ----------------------------
EXTENDS ApprovalStore, TLC

\* Hooks are interchangeable, and so are operator requests.
Symmetry == Permutations(Hook) \cup Permutations(Operator)
================================================================================
