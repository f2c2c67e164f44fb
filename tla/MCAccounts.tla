----------------------------- MODULE MCAccounts -----------------------------
(* Two accounts, one of which manages the other, two browsers, and two     *)
(* authenticators: a device key and a synced, attested one.                *)
EXTENDS Accounts, TLC

MCTraits == [k \in Keys |->
  IF k = CHOOSE x \in Keys : TRUE
  THEN [aaguid |-> "a1", be |-> FALSE, bs |-> FALSE, attested |-> FALSE, uv |-> TRUE]
  ELSE [aaguid |-> "a2", be |-> TRUE, bs |-> TRUE, attested |-> TRUE, uv |-> FALSE]]

Lax == [enroll |-> FALSE, counts |-> TRUE, aaguid |-> "off", listed |-> {}, bound |-> FALSE,
        uv |-> FALSE, eligible |-> "optional", backup |-> "optional", attestation |-> "optional"]

MCPolicies == {Lax, [Lax EXCEPT !.backup = "deny", !.aaguid = "block", !.listed = {"a3"},
                            !.enroll = TRUE]}

Symmetric == Permutations(Browsers) \cup Permutations(Links)
=============================================================================
