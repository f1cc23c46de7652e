----------------------------- MODULE MCAccounts -----------------------------
EXTENDS AccountsProps, TLC

CONSTANTS admin, alice

MCNames == {admin, alice}
Symmetry == Permutations(Tokens)
=============================================================================
