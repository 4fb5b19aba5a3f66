---------------------------- MODULE MCSessionBudget ----------------------------
EXTENDS SessionBudget

\* Zero, negative (parse_order accepts a limit price below zero), small and
\* oversized orders.
MCNotional == {-1, 0, 1, 2, 6}
================================================================================
