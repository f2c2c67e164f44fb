------------------------------ MODULE MCOAuth2 ------------------------------
(* Instances of OAuth2 for TLC: ids and workers are interchangeable.       *)
EXTENDS OAuth2, TLC

Symmetry == Permutations(Codes) \cup Permutations(Grants) \cup Permutations(Workers)
=============================================================================
