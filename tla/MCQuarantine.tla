---------------------------- MODULE MCQuarantine ----------------------------
(* Instances of Quarantine for TLC.                                        *)
EXTENDS Quarantine, TLC

CONSTANTS key

OneKey == [m \in Messages |-> key]

Symmetry == Permutations(Requests) \cup Permutations(Messages)
=============================================================================
