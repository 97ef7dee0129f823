-------------------------- MODULE MCPaymentService --------------------------
EXTENDS PaymentService, TLC

Symmetry == Permutations(Requests) \cup Permutations(Txs)
=============================================================================
