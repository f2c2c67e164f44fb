------------------------------ MODULE Routing ------------------------------
(***************************************************************************)
(* Where mail goes and who may send as whom: the lookups that Postfix      *)
(* makes for every recipient and sender (internal/views/postfix.py), the   *)
(* resolution they share (models.Email.resolve_destination, Alias.resolve) *)
(* and the requests that edit the forwardings, aliases and relays they     *)
(* read.  Lookups read one snapshot and change nothing: they are operators.*)
(* Every edit writes the columns it was given in one commit and its        *)
(* decision reads nothing that another edit could make wrong, so it is one *)
(* step.  Mailboxes and domains come and go in module Directory.           *)
(***************************************************************************)
EXTENDS Integers, FiniteSets, SequencesExt

CONSTANTS
  Bases,        \* local parts without a delimiter
  Tags,         \* what may follow a recipient delimiter
  AliasKeys,    \* the addresses that aliases may have: [t, d]
  Domains,      \* the domains served here
  Alternatives, \* other names of theirs
  RealName,     \* RealName[n]: the domain that alternative n stands for
  Mailboxes,    \* the addresses of the mailboxes
  Outside,      \* an address that is not served here
  Wildcards,    \* WILDCARD_SENDERS
  Destinations, \* the destination lists that edits submit
  MaxAliases,   \* bound on the aliases
  MaxEdits,     \* bound on the edits
  Focuses,      \* bound: the kinds of edits that one behaviour makes
  None

(* A local part is a base and the delimited tags that follow it; the text  *)
(* of an alias may end in the wildcard "%", and pre is None for "%" alone. *)
Local(b, ts) == [base |-> b, tags |-> ts]
Locals == [base : Bases, tags : Seq(Tags)]
Queries == {Local(b, ts) : b \in Bases, ts \in {<<>>} \cup {<<t>> : t \in Tags}}
Addr(l, d) == [l |-> l, d |-> d]

ASSUME RoutingAssumption ==
  /\ RealName \in [Alternatives -> Domains]
  /\ Alternatives \cap Domains = {}
  /\ Mailboxes \subseteq [l : Queries, d : Domains] /\ None \notin Mailboxes
  /\ \A m \in Mailboxes : m.l.tags = <<>>
  /\ AliasKeys \subseteq [t : [pre : Locals \cup {None}, any : BOOLEAN], d : Domains]
  /\ None \notin Locals /\ \A k \in AliasKeys : k.t.pre = None => k.t.any
  /\ {} \in Destinations /\ \A s \in Destinations : \A a \in s : a \in Mailboxes \/ a = Outside
  /\ Wildcards \subseteq Mailboxes
  /\ MaxAliases \in Nat /\ MaxEdits \in Nat
  /\ Focuses \subseteq {"aliases", "settings", "relays"}

VARIABLES
  user,   \* user[m]: enabled, allow_spoofing and the forwarding of mailbox m
  alias,  \* alias[k]: the row of alias k, or None
  relay,  \* the smtp column of a relayed domain
  focus,  \* the kind of edits of this behaviour
  edits,  \* the edits made so far
  wish    \* history: wish[k], whether its owner wants alias k to work

vars == <<user, alias, relay, focus, edits, wish>>

Settings == [enabled : BOOLEAN, spoof : BOOLEAN, forward : BOOLEAN,
             dest : Destinations, keep : BOOLEAN]
AliasRows == [wildcard : BOOLEAN,
              dest : Destinations \cup {{m} : m \in Mailboxes}, disabled : BOOLEAN,
              owner : Mailboxes \cup {None}]

(* A relay target: prefix "mx:" or "lmtp:", a host in brackets or not, a   *)
(* port; "open" is a bracket that is not closed, "junk" one followed by    *)
(* something that is no port.                                              *)
Targets == [prefix : {"none", "mx", "lmtp"},
            form : {"plain", "bracket", "open", "junk"},
            host : {"empty", "name", "ipv6", "bad"},
            port : {"none", "number", "bad"}]
-----------------------------------------------------------------------------
(* Resolution *)

(* What the email column makes of an address: the domain of an alternative *)
(* is the domain it stands for.                                            *)
resolve_domain(n) == IF n \in Alternatives THEN RealName[n] ELSE n

(* localpart LIKE text *)
Like(t, l) ==
  IF t.any THEN t.pre = None \/ (t.pre.base = l.base /\ IsPrefix(t.pre.tags, l.tags))
  ELSE t.pre = l

Length(t) == (IF t.pre = None THEN 0 ELSE 1 + 2 * Len(t.pre.tags))
             + (IF t.any THEN 1 ELSE 0)

(* Mutant: only the alias's own flag is looked at. *)
Active_Bug(k) == ~alias[k].disabled

(* Not disabled, and its owner, if it has one, is enabled. *)
Active(k) == /\ ~alias[k].disabled
             /\ alias[k].owner # None => user[alias[k].owner].enabled

(* One of the two queries of Alias.resolve.  Stored local parts are lower  *)
(* case.  Whether a local part in upper case equals them, or is LIKE them, *)
(* depends on the database: fold is "none", "like" or "all".               *)
Matching(l, upper, d, fold) ==
  {k \in AliasKeys :
     /\ alias[k] # None /\ k.d = d /\ Active(k)
     /\ IF alias[k].wildcard
        THEN Like(k.t, l) /\ (upper /\ fold = "none" => k.t.pre = None)
        ELSE ~k.t.any /\ k.t.pre = l /\ (upper => fold = "all")}

(* ORDER BY wildcard, length DESC; .first() *)
First(ks) ==
  {k \in ks : \A j \in ks :
     IF alias[k].wildcard = alias[j].wildcard THEN Length(k.t) >= Length(j.t)
     ELSE ~alias[k].wildcard}

(* Alias.resolve: the aliases that the database may return.                *)
resolve(l, upper, d, fold) ==
  LET same == First(Matching(l, upper, d, fold))
      lower == First(Matching(l, FALSE, d, fold))
  IN  IF same = {} THEN lower
      ELSE UNION {IF alias[k].wildcard /\ lower # {} THEN lower ELSE {k} : k \in same}

Stripped(l) == [l EXCEPT !.tags = <<>>]

Append_detail(a, ts) == [a EXCEPT !.l.tags = @ \o ts]

(* The mailbox that a local part names, with or without its tags.          *)
MailboxOf(l, d) ==
  IF Addr(l, d) \in Mailboxes THEN Addr(l, d)
  ELSE IF Addr(Stripped(l), d) \in Mailboxes THEN Addr(Stripped(l), d) ELSE None

UserDestination(m, l, d, always) ==
  IF ~user[m].forward THEN {Addr(l, d)}
  ELSE user[m].dest \cup {x \in {Addr(l, d)} : user[m].keep \/ always}

(* Mutant: what resolves for the whole local part wins, wildcard or not. *)
AliasDestinations_Bug(l, upper, d, fold) ==
  LET pure == resolve(l, upper, d, fold)
      base == IF l.tags = <<>> THEN {} ELSE resolve(Stripped(l), upper, d, fold)
  IN  {alias[k].dest : k \in pure}
      \cup {alias[k].dest : k \in {j \in base : pure = {}}}

(* Destinations of the aliases: an exact alias of the whole local part; an *)
(* alias of the part before the delimiter, which gets its tags back unless *)
(* it is a wildcard; a wildcard for the whole.                             *)
AliasDestinations(l, upper, d, fold) ==
  LET pure == resolve(l, upper, d, fold)
      base == IF l.tags = <<>> THEN {} ELSE resolve(Stripped(l), upper, d, fold)
      later == IF base = {} THEN {alias[k].dest : k \in pure}
               ELSE {IF alias[k].wildcard THEN alias[k].dest
                     ELSE {Append_detail(a, l.tags) : a \in alias[k].dest} : k \in base}
  IN  (UNION {IF alias[k].wildcard THEN later ELSE {alias[k].dest} : k \in pure})
      \cup (IF pure = {} THEN later ELSE {})

(* Mutant: aliases are looked up before mailboxes. *)
resolve_destination_Bug(l, upper, d, always, fold) ==
  IF AliasDestinations(l, upper, d, fold) # {} \/ MailboxOf(l, d) = None
  THEN AliasDestinations(l, upper, d, fold)
  ELSE {UserDestination(MailboxOf(l, d), l, d, always)}

(* The set of the answers that are possible; none is 404.                  *)
resolve_destination(l, upper, d, always, fold) ==
  IF MailboxOf(l, d) # None THEN {UserDestination(MailboxOf(l, d), l, d, always)}
  ELSE AliasDestinations(l, upper, d, fold)
-----------------------------------------------------------------------------
(* The lookups of Postfix.  An empty answer is 404. *)

postfix_alias_map(l, upper, n, fold) ==
  resolve_destination(l, upper, resolve_domain(n), FALSE, fold) \ {{}}

postfix_mailbox_map(a) == a \in Mailboxes

(* Mutant: allow_spoofing is not limited to the domain of the sender. *)
Spoofers_Bug(d) == {m \in Mailboxes : user[m].spoof}

Spoofers(d) == {m \in Mailboxes : user[m].spoof /\ m.d = d}

(* The logins that may send as the address; its tags are cut first.        *)
postfix_sender_login(l, upper, n, fold) ==
  LET d == resolve_domain(n)
      found == resolve_destination(Stripped(l), upper, d, TRUE, fold)
  IN  {s \cup Wildcards \cup Spoofers(d) : s \in IF found = {} THEN {{}} ELSE found}

(* The envelope sender is rewritten with SRS. *)
postfix_sender_map(n) == resolve_domain(n) \notin Domains

Bad == [ok |-> FALSE]

(* Mutant: a host that is given without "mx:" is looked up as MX all the same. *)
postfix_transport_Bug(x) ==
  IF x.form \in {"open", "junk"} \/ (x.form = "plain" /\ x.host = "ipv6")
     \/ (x.form = "bracket" /\ x.prefix = "mx") \/ (x.host = "empty" /\ x.prefix = "lmtp")
     \/ x.host = "bad" \/ x.port = "bad"
  THEN Bad
  ELSE [ok |-> TRUE, lmtp |-> x.prefix = "lmtp", own |-> x.host = "empty",
        brackets |-> x.host = "ipv6", port |-> x.port]

(* The next hop of a relayed domain, or 400.  own: the MX of the domain    *)
(* itself, when no host is given.                                          *)
postfix_transport(x) ==
  IF \/ x.form \in {"open", "junk"}
     \/ x.form = "bracket" /\ x.prefix = "mx"
     \/ x.form = "plain" /\ x.host = "ipv6"
     \/ x.host = "empty" /\ x.prefix = "lmtp"
     \/ x.host = "bad"
     \/ x.port = "bad"
  THEN Bad
  ELSE [ok |-> TRUE, lmtp |-> x.prefix = "lmtp",
        own |-> x.host = "empty",
        brackets |-> \/ x.host = "ipv6"
                     \/ x.prefix # "lmtp" /\ x.prefix # "mx" /\ x.host # "empty",
        port |-> x.port]
-----------------------------------------------------------------------------
(* Edits *)

Edited == edits < MaxEdits /\ edits' = edits + 1 /\ UNCHANGED focus

SetUser(m, s) ==
  /\ Edited
  /\ user' = [user EXCEPT ![m] = s]
  /\ UNCHANGED <<alias, relay, wish>>

SetAlias(k, r, w) ==
  /\ Edited
  /\ alias' = [alias EXCEPT ![k] = r]
  /\ wish' = [wish EXCEPT ![k] = w]
  /\ UNCHANGED <<user, relay>>

SetRelay(x) == Edited /\ relay' = x /\ UNCHANGED <<user, alias, wish>>

(* The administrator's form: enabled and allow_spoofing. *)
user_edit(m) ==
  \E on \in BOOLEAN, spoof \in BOOLEAN :
    SetUser(m, [user[m] EXCEPT !.enabled = on, !.spoof = spoof])

(* The user's form.  Forwarding to nobody is refused. *)
user_settings(m) ==
  \E on \in BOOLEAN, keep \in BOOLEAN, dest \in Destinations :
    /\ ~(on /\ dest = {})
    /\ SetUser(m, [user[m] EXCEPT !.forward = on, !.keep = keep, !.dest = dest])

(* The settings after a request: a field that is not in it, None, is left. *)
(* An empty list is not stored.                                            *)
Patched(s, on, enabled, keep, dest) ==
  [s EXCEPT !.forward = IF on = None THEN @ ELSE on,
            !.enabled = IF enabled = None THEN @ ELSE enabled,
            !.keep = IF keep = None THEN @ ELSE keep,
            !.dest = IF dest \in {None, {}} THEN @ ELSE dest]

(* An empty list is refused for a mailbox that forwards; enabling without  *)
(* a list keeps the list that is there.                                    *)
ApiUserPatch(m) ==
  \E on \in {TRUE, FALSE, None}, enabled \in {TRUE, FALSE, None},
     keep \in {TRUE, FALSE, None}, dest \in Destinations \cup {None} :
    /\ ~(dest = {} /\ (on = TRUE \/ (on = None /\ user[m].forward)))
    /\ SetUser(m, Patched(user[m], on, enabled, keep, dest))

Row(w, dest, owner) ==
  [wildcard |-> w, dest |-> dest, disabled |-> FALSE, owner |-> owner]

alias_create(k) ==
  \E w \in BOOLEAN, dest \in Destinations \ {{}} :
    /\ alias[k] = None
    /\ Cardinality({j \in AliasKeys : alias[j] # None}) < MaxAliases
    /\ SetAlias(k, Row(w, dest, None), "on")

(* A generated local part: nothing resolves it yet, not even a wildcard,   *)
(* and it is neither an alias, working or not, nor a mailbox.              *)
NewAnonAlias(k, o) ==
  /\ alias[k] = None /\ ~k.t.any
  /\ resolve(k.t.pre, FALSE, k.d, "like") = {}
  /\ Addr(k.t.pre, k.d) \notin Mailboxes
  /\ Cardinality({j \in AliasKeys : alias[j] # None}) < MaxAliases
  /\ SetAlias(k, Row(FALSE, {o}, o), "on")

(* Sessions of a disabled account live on and may still use the pages.     *)
anonalias_create(k) == \E o \in Mailboxes : NewAnonAlias(k, o)

(* POST /api/alias/random/new, with the credentials of an enabled user.    *)
ApiRandomAlias(k) == \E o \in Mailboxes : user[o].enabled /\ NewAnonAlias(k, o)

alias_edit(k) ==
  \E w \in BOOLEAN, dest \in Destinations \ {{}} :
    /\ alias[k] # None
    /\ SetAlias(k, [alias[k] EXCEPT !.wildcard = w, !.dest = dest], wish[k])

(* An empty list passes; other destinations must be mailboxes.             *)
ApiAliasPatch(k) ==
  \E w \in BOOLEAN, dest \in {s \in Destinations : Outside \notin s} :
    /\ alias[k] # None
    /\ SetAlias(k, [alias[k] EXCEPT !.wildcard = w, !.dest = dest], wish[k])

(* The alias of the account that asks, which need not be enabled. *)
Owned(k) == alias[k] # None /\ alias[k].owner # None

ApiAnonAliasPatch(k) ==
  \E w \in BOOLEAN, off \in BOOLEAN,
     dest \in {s \in Destinations : Outside \notin s} :
    /\ Owned(k)
    /\ SetAlias(k, [alias[k] EXCEPT !.wildcard = w, !.dest = dest, !.disabled = off],
                IF off THEN "off" ELSE "on")

anonalias_enable(k) ==
  Owned(k) /\ SetAlias(k, [alias[k] EXCEPT !.disabled = FALSE], "on")

anonalias_disable(k) ==
  Owned(k) /\ SetAlias(k, [alias[k] EXCEPT !.disabled = TRUE], "off")

ApiAnonAliasDelete(k) == Owned(k) /\ SetAlias(k, None, "off")

relay_edit == \E x \in Targets : SetRelay(x)

(* The API stores the target it is given in the same way. *)
ApiRelayPatch == \E x \in Targets : SetRelay(x)
-----------------------------------------------------------------------------
Init ==
  /\ user = [m \in Mailboxes |-> [enabled |-> TRUE, spoof |-> FALSE, forward |-> FALSE,
                                  dest |-> {}, keep |-> TRUE]]
  /\ alias = [k \in AliasKeys |-> None]
  /\ relay = [prefix |-> "none", form |-> "plain", host |-> "empty", port |-> "none"]
  /\ focus \in Focuses
  /\ edits = 0
  /\ wish = [k \in AliasKeys |-> "off"]

Next ==
  \/ focus = "settings" /\ \E m \in Mailboxes : user_settings(m) \/ ApiUserPatch(m)
  \/ focus # "relays" /\ \E m \in Mailboxes : user_edit(m)
  \/ focus # "relays" /\ \E k \in AliasKeys : alias_create(k)
  \/ focus = "aliases" /\ \E k \in AliasKeys :
       \/ anonalias_create(k) \/ ApiRandomAlias(k) \/ alias_edit(k)
       \/ ApiAliasPatch(k) \/ ApiAnonAliasPatch(k) \/ ApiAnonAliasDelete(k)
       \/ anonalias_enable(k) \/ anonalias_disable(k)
  \/ focus = "relays" /\ (relay_edit \/ ApiRelayPatch)

Spec == Init /\ [][Next]_vars
-----------------------------------------------------------------------------
(* Properties *)

(* The variables have their types. *)
TypeOK ==
  /\ user \in [Mailboxes -> Settings]
  /\ alias \in [AliasKeys -> AliasRows \cup {None}]
  /\ relay \in Targets
  /\ focus \in Focuses /\ edits \in 0 .. MaxEdits
  /\ wish \in [AliasKeys -> {"on", "off"}]

Folds == {"none", "like", "all"}
HostNames == Domains \cup Alternatives

(***************************************************************************)
(* The order in which rules apply, stated as a rank: the exact mailbox,    *)
(* the mailbox before the delimiter, an alias for exactly this local part, *)
(* an alias for exactly the part before the delimiter, the longest wildcard*)
(* for that part, the longest wildcard for the whole.                      *)
(***************************************************************************)
Rules(l, d) ==
  {[rank |-> 4, len |-> Length(k.t), dest |-> alias[k].dest] :
     k \in {j \in AliasKeys : /\ alias[j] # None /\ Active(j) /\ j.d = d
                              /\ l.tags # <<>>
                              /\ alias[j].wildcard /\ Like(j.t, Stripped(l))}}
  \cup {[rank |-> 5, len |-> Length(k.t), dest |-> alias[k].dest] :
     k \in {j \in AliasKeys : /\ alias[j] # None /\ Active(j) /\ j.d = d
                              /\ alias[j].wildcard /\ Like(j.t, l)}}
  \cup {[rank |-> 2, len |-> 0, dest |-> alias[k].dest] :
     k \in {j \in AliasKeys : /\ alias[j] # None /\ Active(j) /\ j.d = d
                              /\ ~alias[j].wildcard /\ ~j.t.any /\ j.t.pre = l}}
  \cup {[rank |-> 3, len |-> 0,
         dest |-> {Append_detail(a, l.tags) : a \in alias[k].dest}] :
     k \in {j \in AliasKeys : /\ alias[j] # None /\ Active(j) /\ j.d = d
                              /\ l.tags # <<>>
                              /\ ~alias[j].wildcard /\ ~j.t.any /\ j.t.pre = Stripped(l)}}

Best(l, d) ==
  {r.dest : r \in {x \in Rules(l, d) : \A y \in Rules(l, d) :
                     x.rank < y.rank \/ (x.rank = y.rank /\ x.len >= y.len)}}

(* Where aliases with wildcards, delimiters and exact local parts compete, *)
(* a more specific rule always wins: resolve_destination, which looks the  *)
(* rules up one after another, finds what the ranking of the rules says.   *)
(* An address in upper case goes where its lower case form goes, with the  *)
(* string comparisons of each of the supported databases.                  *)
MostSpecific ==
  \A l \in Queries, d \in Domains :
    /\ MailboxOf(l, d) = None =>
         resolve_destination(l, FALSE, d, FALSE, "like") = Best(l, d)
    /\ \A fold \in Folds :
         resolve_destination(l, TRUE, d, FALSE, fold)
           = resolve_destination(l, FALSE, d, FALSE, fold)

(* A mailbox has its address, with any tag and under every name of its     *)
(* domain: it may send as it, the envelope sender is not rewritten, and    *)
(* unless it forwards without keeping a copy it receives what is sent      *)
(* there, whatever aliases and wildcards there are.                        *)
OwnAddress ==
  \A m \in Mailboxes, n \in HostNames, l \in Queries :
    Stripped(l) = m.l /\ resolve_domain(n) = m.d =>
      /\ ~postfix_sender_map(n)
      /\ \A s \in postfix_sender_login(l, FALSE, n, "like") : m \in s
      /\ user[m].keep \/ ~user[m].forward =>
           /\ postfix_alias_map(l, FALSE, n, "like") # {}
           /\ \A s \in postfix_alias_map(l, FALSE, n, "like") : Addr(l, m.d) \in s

(* Nobody sends as an address of a domain unless he receives its mail, is  *)
(* a wildcard sender, or is a spoofing user of that same domain.           *)
SpoofsAtHome ==
  \A n \in HostNames, l \in Queries :
    \A s \in postfix_sender_login(l, FALSE, n, "like") : \A m \in s \cap Mailboxes :
      \/ m.d = resolve_domain(n) /\ user[m].spoof
      \/ m \in Wildcards
      \/ m = Addr(Stripped(l), resolve_domain(n))
      \/ \E t \in postfix_alias_map(Stripped(l), FALSE, n, "like") : m \in t

(* An alias works exactly when its owner's last word was to enable it and  *)
(* the owner is enabled: suspending and restoring an account leaves the    *)
(* state of each of its aliases what it was.                               *)
OwnerDecides ==
  \A k \in AliasKeys : alias[k] # None =>
    (Active(k) <=> wish[k] = "on"
                   /\ (alias[k].owner # None => user[alias[k].owner].enabled))

(* Whatever text was stored for a relay, mail goes over LMTP only when the *)
(* target says so, never over LMTP without a host, and MX records are asked*)
(* only with "mx:" or without a host.                                      *)
TransportSound ==
  LET x == postfix_transport(relay)
  IN  x.ok =>
        /\ x.lmtp <=> relay.prefix = "lmtp"
        /\ x.lmtp => ~x.own
        /\ ~x.lmtp /\ ~x.brackets => relay.prefix = "mx" \/ x.own
        /\ relay.host = "ipv6" => x.brackets
=============================================================================
