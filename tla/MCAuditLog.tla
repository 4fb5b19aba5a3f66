------------------------------- MODULE MCAuditLog -------------------------------
EXTENDS EventStream, TLC

\* Processes are interchangeable, and so are the contents of a row.
Symmetry == Permutations(Process) \cup Permutations(Data)
================================================================================
