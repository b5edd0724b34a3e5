--------------------------- MODULE MCMessageDelivery ---------------------------
EXTENDS MessageDelivery

Symmetry == Permutations(Prompts) \cup Permutations(Messages)
================================================================================
