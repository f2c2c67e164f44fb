---------------------------- MODULE TokenFamily -----------------------------
(***************************************************************************)
(* What the OAuth 2.0 issuer promises of a grant, without requests, rows,  *)
(* locks or clocks: a family of token pairs is opened once, its generation *)
(* grows by one each time the next pair is handed out, pairs are handed    *)
(* out of stored families only, and a family that ended never returns.     *)
(***************************************************************************)
EXTENDS Naturals

CONSTANTS Grants

VARIABLES
  family,  \* per grant id: its state and its generation
  handed   \* the <<grant, generation>> pairs handed out

vars == <<family, handed>>

Ended == [st |-> "gone", gen |-> 0]

Init ==
  /\ family = [g \in Grants |-> [st |-> "unborn", gen |-> 0]]
  /\ handed = {}

Open(g) ==
  /\ family[g].st = "unborn"
  /\ family' = [family EXCEPT ![g] = [st |-> "live", gen |-> 0]]
  /\ handed' = handed \cup {<<g, 0>>}

Rotate(g) ==
  /\ family[g].st = "live"
  /\ family' = [family EXCEPT ![g].gen = @ + 1]
  /\ handed' = handed \cup {<<g, family[g].gen + 1>>}

\* A sweep may end several families at once.
End(S) ==
  /\ S # {}
  /\ \A g \in S : family[g].st = "live"
  /\ family' = [g \in Grants |-> IF g \in S THEN Ended ELSE family[g]]
  /\ UNCHANGED handed

Next ==
  \/ \E g \in Grants : Open(g) \/ Rotate(g)
  \/ \E S \in SUBSET Grants : End(S)

Spec == Init /\ [][Next]_vars
=============================================================================
