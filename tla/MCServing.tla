-------------------------------- MODULE MCServing --------------------------------
EXTENDS Serving, TLC

CONSTANTS srv, cli

MCProcess == {srv, cli}
MCRef == [admin |-> "a", viewer |-> "v"]

\* The values of secrets are interchangeable, and so are the passphrases.
Symmetry == Permutations(Value) \cup Permutations(Passphrase)
================================================================================
