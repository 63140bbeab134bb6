--------------------------- MODULE MCOrderPayments ---------------------------
EXTENDS OrderPayments, TLC

Symmetry == Permutations(Handlers)
=============================================================================
