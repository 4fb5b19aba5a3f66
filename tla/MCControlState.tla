---------------------------- MODULE MCControlState ----------------------------
EXTENDS ControlState, TLC

Auto == [kill |-> FALSE, approval_mode |-> "auto"]
Manual == [kill |-> FALSE, approval_mode |-> "manual"]
Killed == [kill |-> TRUE, approval_mode |-> "manual"]

MCConfig == {Auto, Manual, Killed}
MCDefault == Auto

Symmetry == Permutations(Admin) \cup Permutations(Inode)
===============================================================================
