----------------------------- MODULE MCSessions -----------------------------
(* Instances of Sessions for TLC.                                          *)
EXTENDS Sessions, TLC

Symmetry == Permutations(Users) \cup Permutations(Sids) \cup Permutations(Tokens)
            \cup Permutations(Requests)
=============================================================================
