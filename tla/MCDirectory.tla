---------------------------- MODULE MCDirectory ----------------------------
(* Model values and bounds for the runs of Directory. *)
EXTENDS Directory, TLC

MCLimits == {[user |-> 0, alias |-> 1], [user |-> 1, alias |-> 0]}
MCSignupLimits == [user |-> 10, alias |-> 10]
MCFocuses == {{"names", "domains", "limits"}, {"addresses"},
              {"domains", "people"}, {"children"}, {"keys", "alternatives"}}

Symmetry == Permutations(Clients) \cup Permutations(Names) \cup Permutations(Locals)
=============================================================================
