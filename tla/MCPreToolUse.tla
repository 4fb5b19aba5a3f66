----------------------------- MODULE MCPreToolUse -----------------------------
EXTENDS PreToolUse, TLC

Auto == [kill |-> FALSE, approval_mode |-> "auto", max_notional |-> 1,
         listed |-> {"read", "place"}]
Manual == [kill |-> FALSE, approval_mode |-> "manual", max_notional |-> 2,
           listed |-> {"place"}]

MCConfig == {Auto, Manual}
NoArgs == [readable |-> TRUE, quantity |-> {}, notional |-> {}, limit_price |-> {},
           ref_price |-> {}, passes |-> TRUE]

\* An order of one unit at a limit price below zero, of two units by the reference
\* price, of two by notional and price (the reference price does not matter); and
\* orders that do not parse, have no price or do not pass.
MCArgs ==
    {[NoArgs EXCEPT !.quantity = {1}, !.limit_price = {-1}],
     [NoArgs EXCEPT !.quantity = {2}, !.ref_price = {1}],
     [NoArgs EXCEPT !.notional = {2}, !.limit_price = {1}, !.ref_price = {5}],
     [NoArgs EXCEPT !.notional = {2}, !.ref_price = {1}],
     [NoArgs EXCEPT !.quantity = {0}, !.ref_price = {1}],
     [NoArgs EXCEPT !.quantity = {2}],
     [NoArgs EXCEPT !.quantity = {1}, !.ref_price = {1}, !.passes = FALSE],
     [NoArgs EXCEPT !.readable = FALSE]}

Symmetry == Permutations(Hook)
===============================================================================
