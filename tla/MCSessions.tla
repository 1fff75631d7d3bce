------------------------------- MODULE MCSessions -------------------------------
(* Model-checking instance of Sessions: tokens, links and requests differ in   *)
(* nothing but their identity.                                                 *)
EXTENDS Sessions, TLC

SessionSymmetry ==
    Permutations(Tokens) \cup Permutations(ResetLinks) \cup Permutations(Handlers)
=============================================================================
