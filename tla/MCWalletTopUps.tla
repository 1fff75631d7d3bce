------------------------------ MODULE MCWalletTopUps ------------------------------
(* Model-checking instance of WalletTopUps.  The members of each set differ in   *)
(* nothing but their identity.                                                   *)
EXTENDS WalletTopUps, TLC

TopUpSymmetry ==
    Permutations(Payments) \cup Permutations(Handlers) \cup Permutations(Reviewers)
=============================================================================
