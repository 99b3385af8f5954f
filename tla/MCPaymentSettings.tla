------------------------- MODULE MCPaymentSettings -------------------------
EXTENDS PaymentSettings, TLC

Symmetry == Permutations(Editors)
=============================================================================
