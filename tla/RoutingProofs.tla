--------------------------- MODULE RoutingProofs ---------------------------
(***************************************************************************)
(* For any mailboxes, aliases, domains and destinations: the types of      *)
(* Routing, who an alias obeys, that a mailbox has its address, that       *)
(* nobody sends from a domain he does not belong to, what a relay target   *)
(* means, and that the lookups of Email.resolve_destination and            *)
(* Alias.resolve find the most specific rule.                              *)
(***************************************************************************)
EXTENDS Routing, TLAPS

\* An edit of a mailbox, of an alias or of the relay keeps the types of the rest.
LEMMA EditType ==
  ASSUME TypeOK
  PROVE  /\ \A m \in Mailboxes, s \in Settings : SetUser(m, s) => TypeOK'
         /\ \A k \in AliasKeys, r \in AliasRows \cup {None}, w \in {"on", "off"} :
              SetAlias(k, r, w) => TypeOK'
         /\ \A x \in Targets : SetRelay(x) => TypeOK'
<1>1. edits < MaxEdits => edits + 1 \in 0 .. MaxEdits
  BY RoutingAssumption DEF TypeOK
<1>2. QED
  BY <1>1 DEF TypeOK, SetUser, SetAlias, SetRelay, Edited

\* The requests that edit a mailbox submit settings.
LEMMA UserType ==
  ASSUME TypeOK, NEW m \in Mailboxes, user_edit(m) \/ user_settings(m) \/ ApiUserPatch(m)
  PROVE  TypeOK'
<1>0. user[m] \in Settings
  BY DEF TypeOK
<1>1. CASE user_edit(m)
  <2>1. PICK on \in BOOLEAN, spoof \in BOOLEAN :
          SetUser(m, [user[m] EXCEPT !.enabled = on, !.spoof = spoof])
    BY <1>1 DEF user_edit
  <2>2. [user[m] EXCEPT !.enabled = on, !.spoof = spoof] \in Settings
    BY <1>0 DEF Settings
  <2>3. QED
    BY <2>1, <2>2, EditType
<1>2. CASE user_settings(m)
  <2>1. PICK on \in BOOLEAN, keep \in BOOLEAN, dest \in Destinations :
          SetUser(m, [user[m] EXCEPT !.forward = on, !.keep = keep, !.dest = dest])
    BY <1>2 DEF user_settings
  <2>2. [user[m] EXCEPT !.forward = on, !.keep = keep, !.dest = dest] \in Settings
    BY <1>0 DEF Settings
  <2>3. QED
    BY <2>1, <2>2, EditType
<1>3. CASE ApiUserPatch(m)
  <2>1. PICK on \in {TRUE, FALSE, None}, enabled \in {TRUE, FALSE, None},
             keep \in {TRUE, FALSE, None}, dest \in Destinations \cup {None} :
          SetUser(m, Patched(user[m], on, enabled, keep, dest))
    BY <1>3 DEF ApiUserPatch
  <2>2. Patched(user[m], on, enabled, keep, dest) \in Settings
    BY <1>0 DEF Settings, Patched
  <2>3. QED
    BY <2>1, <2>2, EditType
<1>4. QED
  BY <1>1, <1>2, <1>3

\* So do the requests that edit an alias.
LEMMA AliasType ==
  ASSUME TypeOK, NEW k \in AliasKeys,
         \/ alias_create(k) \/ anonalias_create(k) \/ ApiRandomAlias(k) \/ alias_edit(k)
         \/ ApiAliasPatch(k) \/ ApiAnonAliasPatch(k) \/ ApiAnonAliasDelete(k)
         \/ anonalias_enable(k) \/ anonalias_disable(k)
  PROVE  TypeOK'
<1>0. (alias[k] # None => alias[k] \in AliasRows) /\ wish[k] \in {"on", "off"}
  BY DEF TypeOK
<1>1. ASSUME NEW r \in AliasRows \cup {None}, NEW w \in {"on", "off"}, SetAlias(k, r, w)
      PROVE  TypeOK'
  BY <1>1, EditType
<1>2. CASE alias_create(k)
  BY <1>1, <1>2 DEF alias_create, Row, AliasRows
<1>3. CASE anonalias_create(k) \/ ApiRandomAlias(k)
  BY <1>1, <1>3 DEF anonalias_create, ApiRandomAlias, NewAnonAlias, Row, AliasRows
<1>4. CASE alias_edit(k)
  BY <1>0, <1>1, <1>4 DEF alias_edit, AliasRows
<1>5. CASE ApiAliasPatch(k)
  BY <1>0, <1>1, <1>5 DEF ApiAliasPatch, AliasRows
<1>6. CASE ApiAnonAliasPatch(k)
  BY <1>0, <1>1, <1>6 DEF ApiAnonAliasPatch, Owned, AliasRows
<1>7. CASE ApiAnonAliasDelete(k)
  BY <1>1, <1>7 DEF ApiAnonAliasDelete
<1>8. CASE anonalias_enable(k) \/ anonalias_disable(k)
  BY <1>0, <1>1, <1>8 DEF anonalias_enable, anonalias_disable, Owned, AliasRows
<1>9. QED
  BY <1>2, <1>3, <1>4, <1>5, <1>6, <1>7, <1>8

LEMMA TypeInit == Init => TypeOK
BY RoutingAssumption DEF Init, TypeOK, Settings, Targets

LEMMA TypeStep == TypeOK /\ [Next]_vars => TypeOK'
<1> SUFFICES ASSUME TypeOK, [Next]_vars PROVE TypeOK'
  OBVIOUS
<1>1. CASE relay_edit \/ ApiRelayPatch
  BY <1>1, EditType DEF relay_edit, ApiRelayPatch
<1>2. CASE UNCHANGED vars
  BY <1>2 DEF TypeOK, vars
<1>3. QED
  BY <1>1, <1>2, UserType, AliasType DEF Next

\* The settings, aliases and relay that the lookups of Postfix read keep their types.
THEOREM TypeCorrect == Spec => []TypeOK
BY TypeInit, TypeStep, PTL DEF Spec

-----------------------------------------------------------------------------
(* Aliases and relays. *)

\* The flag of an alias is its owner's last word.
WishInv == \A k \in AliasKeys : alias[k] # None => (alias[k].disabled <=> wish[k] # "on")

\* A request writes the flag and the wish together, or neither.
LEMMA WishSet ==
  ASSUME TypeOK, WishInv, NEW k \in AliasKeys, NEW r, NEW w, SetAlias(k, r, w),
         r # None => (r.disabled <=> w # "on")
  PROVE  WishInv'
<1>1. /\ alias'[k] = r /\ wish'[k] = w
      /\ \A j \in AliasKeys \ {k} : alias'[j] = alias[j] /\ wish'[j] = wish[j]
  BY DEF TypeOK, SetAlias
<1>2. QED
  BY <1>1 DEF WishInv

LEMMA WishStep == TypeOK /\ WishInv /\ [Next]_vars => WishInv'
<1> SUFFICES ASSUME TypeOK, WishInv, [Next]_vars PROVE WishInv'
  OBVIOUS
<1>1. ASSUME NEW m \in Mailboxes, user_edit(m) \/ user_settings(m) \/ ApiUserPatch(m)
      PROVE  WishInv'
  BY <1>1 DEF user_edit, user_settings, ApiUserPatch, SetUser, WishInv
<1>2. ASSUME NEW k \in AliasKeys,
             \/ alias_create(k) \/ anonalias_create(k) \/ ApiRandomAlias(k) \/ alias_edit(k)
             \/ ApiAliasPatch(k) \/ ApiAnonAliasPatch(k) \/ ApiAnonAliasDelete(k)
             \/ anonalias_enable(k) \/ anonalias_disable(k)
      PROVE  WishInv'
  <2>0. /\ alias[k] # None => alias[k] \in AliasRows /\ (alias[k].disabled <=> wish[k] # "on")
        /\ wish[k] \in {"on", "off"}
    BY DEF TypeOK, WishInv
  <2>1. ASSUME NEW r, NEW w, SetAlias(k, r, w), r # None => (r.disabled <=> w # "on")
        PROVE  WishInv'
    BY <2>1, WishSet
  <2>2. CASE alias_create(k) \/ anonalias_create(k) \/ ApiRandomAlias(k)
    BY <2>1, <2>2 DEF alias_create, anonalias_create, ApiRandomAlias, NewAnonAlias, Row
  <2>3. CASE alias_edit(k)
    BY <2>0, <2>1, <2>3 DEF alias_edit, AliasRows
  <2>4. CASE ApiAliasPatch(k)
    BY <2>0, <2>1, <2>4 DEF ApiAliasPatch, AliasRows
  <2>5. CASE ApiAnonAliasPatch(k)
    BY <2>0, <2>1, <2>5 DEF ApiAnonAliasPatch, Owned, AliasRows
  <2>6. CASE ApiAnonAliasDelete(k)
    BY <2>1, <2>6 DEF ApiAnonAliasDelete
  <2>7. CASE anonalias_enable(k) \/ anonalias_disable(k)
    BY <2>0, <2>1, <2>7 DEF anonalias_enable, anonalias_disable, Owned, AliasRows
  <2>8. QED
    BY <1>2, <2>2, <2>3, <2>4, <2>5, <2>6, <2>7
<1>3. CASE relay_edit \/ ApiRelayPatch
  BY <1>3 DEF relay_edit, ApiRelayPatch, SetRelay, WishInv
<1>4. CASE UNCHANGED vars
  BY <1>4 DEF WishInv, vars
<1>5. QED
  BY <1>1, <1>2, <1>3, <1>4 DEF Next

\* Through every edit of an alias, by its owner or by an administrator, and through every
\* suspension of the owner's account, the alias does what its owner last asked for.
THEOREM AliasObeysOwner == Spec => []OwnerDecides
<1>1. Init => WishInv
  BY DEF Init, WishInv
<1>2. TypeOK /\ WishInv => OwnerDecides
  BY DEF TypeOK, WishInv, OwnerDecides, Active, AliasRows
<1>3. QED
  BY <1>1, <1>2, TypeInit, TypeStep, WishStep, PTL DEF Spec

\* Whatever text is stored for a relay, postfix_transport makes of it what it says.
THEOREM RelaysAsStored == Spec => []TransportSound
<1>1. TypeOK => TransportSound
  BY DEF TypeOK, Targets, TransportSound, postfix_transport, Bad
<1>2. QED
  BY <1>1, TypeCorrect, PTL

-----------------------------------------------------------------------------
(* Senders and mailboxes. *)

\* Cutting the tags leaves the base.
LEMMA StrippedIs ==
  ASSUME NEW l \in Queries
  PROVE  /\ Stripped(l) \in Queries /\ Stripped(l) = Local(l.base, <<>>)
         /\ Stripped(l).tags = <<>> /\ (l.tags = <<>> => Stripped(l) = l)
         /\ l.tags \in Seq(Tags) /\ Len(l.tags) \in {0, 1} /\ l.base \in Bases
         /\ Stripped(Stripped(l)) = Stripped(l)
<1>1. PICK b \in Bases, ts \in {<<>>} \cup {<<t>> : t \in Tags} : l = Local(b, ts)
  BY DEF Queries
<1>2. l.base = b /\ l.tags = ts /\ Stripped(l) = Local(b, <<>>)
  BY <1>1 DEF Local, Stripped
<1>3. ts \in Seq(Tags) /\ Len(ts) \in {0, 1}
  <2>1. CASE ts = <<>>
    BY <2>1
  <2>2. ASSUME NEW t \in Tags, ts = <<t>>
        PROVE  ts \in Seq(Tags) /\ Len(ts) \in {0, 1}
    BY <2>2
  <2>3. QED
    BY <2>1, <2>2
<1>4. Local(b, <<>>) \in Queries
  BY DEF Queries
<1>5. Stripped(Local(b, <<>>)) = Local(b, <<>>)
  BY DEF Local, Stripped
<1>6. Local(b, <<>>).tags = <<>>
  BY DEF Local
<1>7. QED
  BY <1>1, <1>2, <1>3, <1>4, <1>5, <1>6

\* A mailbox is found by its address with any tag: mailboxes have none.
LEMMA MailboxFound ==
  ASSUME NEW m \in Mailboxes, NEW l \in Queries, Stripped(l) = m.l
  PROVE  /\ MailboxOf(l, m.d) = m /\ MailboxOf(Stripped(l), m.d) = m /\ m # None
         /\ Addr(Stripped(l), m.d) = m
<1>1. m = Addr(m.l, m.d) /\ m # None
  BY RoutingAssumption DEF Addr
<1>2. Addr(l, m.d) \in Mailboxes => l = m.l
  <2>1. SUFFICES ASSUME Addr(l, m.d) \in Mailboxes PROVE l = m.l
    OBVIOUS
  <2>2. l.tags = <<>>
    BY <2>1, RoutingAssumption DEF Addr
  <2>3. QED
    BY <2>2, StrippedIs
<1>3. QED
  BY <1>1, <1>2, StrippedIs DEF MailboxOf

\* A user has his address, tagged or not and under every name of his domain, whatever
\* aliases and forwardings are stored.
THEOREM AddressIsOwned == Spec => []OwnAddress
<1>1. ASSUME TypeOK, NEW m \in Mailboxes, NEW n \in HostNames, NEW l \in Queries,
             Stripped(l) = m.l, resolve_domain(n) = m.d
      PROVE  /\ ~postfix_sender_map(n)
             /\ \A s \in postfix_sender_login(l, FALSE, n, "like") : m \in s
             /\ user[m].keep \/ ~user[m].forward =>
                  /\ postfix_alias_map(l, FALSE, n, "like") # {}
                  /\ \A s \in postfix_alias_map(l, FALSE, n, "like") : Addr(l, m.d) \in s
  <2>1. /\ MailboxOf(l, m.d) = m /\ MailboxOf(Stripped(l), m.d) = m /\ m # None
        /\ Addr(Stripped(l), m.d) = m
    BY <1>1, MailboxFound
  <2>2. ~postfix_sender_map(n)
    BY <1>1, RoutingAssumption DEF postfix_sender_map
  <2>3. resolve_destination(Stripped(l), FALSE, m.d, TRUE, "like")
          = {UserDestination(m, Stripped(l), m.d, TRUE)}
    BY <2>1 DEF resolve_destination
  <2>4. m \in UserDestination(m, Stripped(l), m.d, TRUE)
    BY <2>1 DEF UserDestination
  <2>5. \A s \in postfix_sender_login(l, FALSE, n, "like") : m \in s
    <3>1. postfix_sender_login(l, FALSE, n, "like")
            = {s \cup Wildcards \cup Spoofers(m.d) : s \in {UserDestination(m, Stripped(l), m.d, TRUE)}}
      BY <1>1, <2>3 DEF postfix_sender_login
    <3>2. QED
      BY <2>4, <3>1
  <2>6. postfix_alias_map(l, FALSE, n, "like") = {UserDestination(m, l, m.d, FALSE)} \ {{}}
    BY <1>1, <2>1 DEF postfix_alias_map, resolve_destination
  <2>7. user[m].keep \/ ~user[m].forward => Addr(l, m.d) \in UserDestination(m, l, m.d, FALSE)
    BY DEF UserDestination
  <2>8. QED
    BY <2>2, <2>5, <2>6, <2>7
<1>2. TypeOK => OwnAddress
  BY <1>1 DEF OwnAddress
<1>3. QED
  BY <1>2, TypeCorrect, PTL

\* The logins that Postfix lets send as an address: its receivers, the wildcard senders and
\* the spoofing users of its own domain.
THEOREM NobodyElseSends == Spec => []SpoofsAtHome
<1>1. ASSUME NEW n \in HostNames, NEW l \in Queries,
             NEW s \in postfix_sender_login(l, FALSE, n, "like"), NEW m \in s \cap Mailboxes
      PROVE  \/ m.d = resolve_domain(n) /\ user[m].spoof
             \/ m \in Wildcards
             \/ m = Addr(Stripped(l), resolve_domain(n))
             \/ \E t \in postfix_alias_map(Stripped(l), FALSE, n, "like") : m \in t
  <2> DEFINE d == resolve_domain(n)
             h == Stripped(l)
             found == resolve_destination(h, FALSE, d, TRUE, "like")
             kept == resolve_destination(h, FALSE, d, FALSE, "like")
  <2>1. PICK f : (f \in found \/ f = {}) /\ s = f \cup Wildcards \cup Spoofers(d)
    BY <1>1 DEF postfix_sender_login
  <2>2. m \in Spoofers(d) => m.d = d /\ user[m].spoof
    BY DEF Spoofers
  <2>3. postfix_alias_map(h, FALSE, n, "like") = kept \ {{}}
    BY DEF postfix_alias_map
  <2>4. ASSUME f \in found, m \in f
        PROVE  m = Addr(h, d) \/ \E t \in kept : m \in t
    <3>1. CASE MailboxOf(h, d) = None
      BY <2>4, <3>1 DEF resolve_destination
    <3>2. CASE MailboxOf(h, d) # None
      <4> DEFINE b == MailboxOf(h, d)
      <4>1. f = UserDestination(b, h, d, TRUE) /\ kept = {UserDestination(b, h, d, FALSE)}
        BY <2>4, <3>2 DEF resolve_destination
      <4> HIDE DEF b, kept, d, h
      <4>2. QED
        BY <2>4, <4>1 DEF UserDestination
    <3>3. QED
      BY <3>1, <3>2
  <2> HIDE DEF found, kept
  <2>5. QED
    BY <1>1, <2>1, <2>2, <2>3, <2>4
<1>2. SpoofsAtHome
  BY <1>1 DEF SpoofsAtHome
<1>3. QED
  BY <1>2, PTL

-----------------------------------------------------------------------------
(* The most specific rule. *)

\* The working aliases of domain d that have exactly the local part l, the wildcards that
\* it is like, and the longest of some aliases.
Exact(l, d) ==
  {k \in AliasKeys : /\ alias[k] # None /\ Active(k) /\ k.d = d
                     /\ ~alias[k].wildcard /\ ~k.t.any /\ k.t.pre = l}
Wild(l, d) ==
  {k \in AliasKeys : /\ alias[k] # None /\ Active(k) /\ k.d = d
                     /\ alias[k].wildcard /\ Like(k.t, l)}
Longest(ks) == {k \in ks : \A j \in ks : Length(k.t) >= Length(j.t)}

\* The query of Alias.resolve in lower case finds both kinds; in upper case it finds both
\* or wildcards only, as the database compares.
LEMMA MatchingIs ==
  ASSUME NEW l, NEW d, NEW fold \in Folds
  PROVE  /\ Matching(l, FALSE, d, fold) = Exact(l, d) \cup Wild(l, d)
         /\ fold = "all" => Matching(l, TRUE, d, fold) = Exact(l, d) \cup Wild(l, d)
         /\ fold # "all" => Matching(l, TRUE, d, fold) \subseteq Wild(l, d)
BY DEF Matching, Exact, Wild, Folds

\* A local part has at most one tag, so the text of an alias that matches it has at most
\* four symbols.
LEMMA LengthIs ==
  ASSUME NEW l \in Queries, NEW d, NEW k \in Exact(l, d) \cup Wild(l, d)
  PROVE  Length(k.t) \in 0 .. 4
<1>1. /\ k.t.pre \in Locals \cup {None} /\ k.t.any \in BOOLEAN
      /\ Like(k.t, l) \/ k.t.pre = l
  BY RoutingAssumption DEF Exact, Wild
<1>2. Len(l.tags) \in {0, 1}
  BY StrippedIs
<1>3. k.t.pre = None \/ (Len(k.t.pre.tags) \in Nat /\ Len(k.t.pre.tags) <= Len(l.tags))
  <2>1. SUFFICES ASSUME k.t.pre # None
                 PROVE  Len(k.t.pre.tags) \in Nat /\ Len(k.t.pre.tags) <= Len(l.tags)
    OBVIOUS
  <2>2. Len(k.t.pre.tags) \in Nat
    BY <1>1, <2>1 DEF Locals
  <2>3. QED
    BY <1>1, <1>2, <2>1, <2>2 DEF Like, IsPrefix
<1> DEFINE last == IF k.t.any THEN 1 ELSE 0
<1>4. last \in {0, 1} /\ Length(k.t) = (IF k.t.pre = None THEN 0 ELSE 1 + 2 * Len(k.t.pre.tags)) + last
  BY DEF Length
<1> HIDE DEF last
<1>5. CASE k.t.pre = None
  BY <1>4, <1>5
<1>6. CASE k.t.pre # None
  <2>1. Len(k.t.pre.tags) \in {0, 1}
    BY <1>2, <1>3, <1>6
  <2>2. CASE Len(k.t.pre.tags) = 0
    BY <1>4, <1>6, <2>2
  <2>3. CASE Len(k.t.pre.tags) = 1
    BY <1>4, <1>6, <2>3
  <2>4. QED
    BY <2>1, <2>2, <2>3
<1>7. QED
  BY <1>5, <1>6

\* So one of them is the longest.
LEMMA LongestExists ==
  ASSUME NEW l \in Queries, NEW d, NEW ks \in SUBSET (Exact(l, d) \cup Wild(l, d)), ks # {}
  PROVE  Longest(ks) # {}
<1>1. \A k \in ks : Length(k.t) \in 0 .. 4
  BY LengthIs
<1>2. ASSUME NEW n \in 0 .. 4, NEW k \in ks, Length(k.t) = n, \A j \in ks : Length(j.t) <= n
      PROVE  Longest(ks) # {}
  <2>1. k \in Longest(ks)
    BY <1>1, <1>2 DEF Longest
  <2>2. QED
    BY <2>1
<1>3. \E n \in 0 .. 4 : \E k \in ks : Length(k.t) = n /\ \A j \in ks : Length(j.t) <= n
  <2>1. CASE \E k \in ks : Length(k.t) = 4
    BY <1>1, <2>1
  <2>2. CASE (\E k \in ks : Length(k.t) = 3) /\ \A k \in ks : Length(k.t) # 4
    <3>1. \A k \in ks : Length(k.t) <= 3
      BY <1>1, <2>2
    <3>2. QED
      BY <2>2, <3>1
  <2>3. CASE (\E k \in ks : Length(k.t) = 2) /\ \A k \in ks : Length(k.t) \notin {3, 4}
    <3>1. \A k \in ks : Length(k.t) <= 2
      BY <1>1, <2>3
    <3>2. QED
      BY <2>3, <3>1
  <2>4. CASE (\E k \in ks : Length(k.t) = 1) /\ \A k \in ks : Length(k.t) \notin {2, 3, 4}
    <3>1. \A k \in ks : Length(k.t) <= 1
      BY <1>1, <2>4
    <3>2. QED
      BY <2>4, <3>1
  <2>5. CASE \A k \in ks : Length(k.t) \notin {1, 2, 3, 4}
    <3>1. \A k \in ks : Length(k.t) = 0
      BY <1>1, <2>5
    <3>2. QED
      BY <3>1
  <2>6. QED
    BY <2>1, <2>2, <2>3, <2>4, <2>5
<1>4. QED
  BY <1>2, <1>3

\* ORDER BY wildcard, length DESC puts the exact alias first, else the longest wildcards.
LEMMA FirstIs ==
  ASSUME TypeOK, NEW l \in Queries, NEW d
  PROVE  First(Exact(l, d) \cup Wild(l, d)) = IF Exact(l, d) # {} THEN Exact(l, d) ELSE Longest(Wild(l, d))
<1> DEFINE ex == Exact(l, d)
           wild == Wild(l, d)
<1>1. \A k \in ex : alias[k].wildcard = FALSE
  BY DEF Exact, TypeOK, AliasRows
<1>2. \A k \in wild : alias[k].wildcard = TRUE
  BY DEF Wild, TypeOK, AliasRows
<1>3. \A k, j \in ex : Length(k.t) = Length(j.t) /\ Length(k.t) \in 0 .. 4
  <2>1. \A k, j \in ex : Length(k.t) = Length(j.t)
    BY DEF Exact, Length
  <2>2. QED
    BY <2>1, LengthIs
<1> HIDE DEF ex, wild
<1>4. CASE ex # {}
  <2>1. \A k \in ex : k \in First(ex \cup wild)
    BY <1>1, <1>2, <1>3 DEF First
  <2>2. \A k \in First(ex \cup wild) : k \in ex
    BY <1>1, <1>2, <1>4 DEF First
  <2>3. QED
    BY <1>4, <2>1, <2>2 DEF ex, wild
<1>5. CASE ex = {}
  <2>1. First(wild) = Longest(wild)
    BY <1>2 DEF First, Longest
  <2>2. ex \cup wild = wild
    BY <1>5
  <2>3. QED
    BY <1>5, <2>1, <2>2 DEF ex, wild
<1>6. QED
  BY <1>4, <1>5

\* Alias.resolve, in lower case: what the one query puts first.
LEMMA ResolveLower ==
  ASSUME NEW l, NEW d, NEW fold
  PROVE  resolve(l, FALSE, d, fold) = First(Matching(l, FALSE, d, fold))
<1> DEFINE lower == First(Matching(l, FALSE, d, fold))
           parts == {IF alias[k].wildcard /\ lower # {} THEN lower ELSE {k} : k \in lower}
<1> HIDE DEF lower
<1>1. UNION parts = lower
  <2>1. \A k \in lower : k \in UNION parts
    OBVIOUS
  <2>2. \A k \in UNION parts : k \in lower
    OBVIOUS
  <2>3. QED
    BY <2>1, <2>2
<1>2. resolve(l, FALSE, d, fold) = IF lower = {} THEN lower ELSE UNION parts
  BY DEF resolve, lower
<1>3. QED
  BY <1>1, <1>2 DEF lower

LEMMA ResolveFirst ==
  ASSUME TypeOK, NEW l \in Queries, NEW d, NEW fold \in Folds
  PROVE  resolve(l, FALSE, d, fold) = IF Exact(l, d) # {} THEN Exact(l, d) ELSE Longest(Wild(l, d))
<1>1. resolve(l, FALSE, d, fold) = First(Matching(l, FALSE, d, fold))
  BY ResolveLower
<1>2. Matching(l, FALSE, d, fold) = Exact(l, d) \cup Wild(l, d)
  BY MatchingIs
<1>3. QED
  BY <1>1, <1>2, FirstIs

\* A local part in upper case resolves to the same aliases: an exact alias is found in the
\* second query when the first found wildcards.
LEMMA ResolveUpper ==
  ASSUME TypeOK, NEW l \in Queries, NEW d, NEW fold \in Folds
  PROVE  resolve(l, TRUE, d, fold) = resolve(l, FALSE, d, fold)
<1> DEFINE same == First(Matching(l, TRUE, d, fold))
           lower == First(Matching(l, FALSE, d, fold))
           parts == {IF alias[k].wildcard /\ lower # {} THEN lower ELSE {k} : k \in same}
<1>1. resolve(l, TRUE, d, fold) = IF same = {} THEN lower ELSE UNION parts
  BY DEF resolve
<1>2. resolve(l, FALSE, d, fold) = lower
  BY ResolveLower
<1>3. CASE fold = "all"
  <2>1. Matching(l, TRUE, d, fold) = Matching(l, FALSE, d, fold)
    BY <1>3, MatchingIs
  <2>2. QED
    BY <2>1 DEF resolve
<1>4. CASE fold # "all"
  <2>1. same \subseteq Wild(l, d)
    BY <1>4, MatchingIs DEF First
  <2>2. \A k \in same : alias[k].wildcard
    BY <2>1 DEF Wild
  <2>3. same # {} => lower # {}
    <3>1. SUFFICES ASSUME same # {} PROVE lower # {}
      OBVIOUS
    <3>2. Wild(l, d) # {}
      BY <2>1, <3>1
    <3>3. Longest(Wild(l, d)) # {}
      BY <3>2, LongestExists
    <3>4. First(Exact(l, d) \cup Wild(l, d)) # {}
      BY <3>3, FirstIs
    <3>5. QED
      BY <3>4, MatchingIs
  <2> HIDE DEF same, lower
  <2>4. same # {} => UNION parts = lower
    BY <2>2, <2>3
  <2>5. QED
    BY <1>1, <1>2, <2>4
<1>5. QED
  BY <1>3, <1>4

\* What the ranking of the rules comes to.
Winner(l, d) ==
  IF Exact(l, d) # {} THEN {alias[k].dest : k \in Exact(l, d)}
  ELSE IF l.tags # <<>> /\ Exact(Stripped(l), d) # {}
       THEN {{Append_detail(a, l.tags) : a \in alias[k].dest} : k \in Exact(Stripped(l), d)}
  ELSE IF l.tags # <<>> /\ Wild(Stripped(l), d) # {}
       THEN {alias[k].dest : k \in Longest(Wild(Stripped(l), d))}
  ELSE {alias[k].dest : k \in Longest(Wild(l, d))}

\* Email.resolve_destination's lookups, one after another, find the winner.
LEMMA LookupsWin ==
  ASSUME TypeOK, NEW l \in Queries, NEW d, NEW fold \in Folds
  PROVE  AliasDestinations(l, FALSE, d, fold) = Winner(l, d)
<1> DEFINE pure == resolve(l, FALSE, d, fold)
           base == IF l.tags = <<>> THEN {} ELSE resolve(Stripped(l), FALSE, d, fold)
           Dest(k) == IF alias[k].wildcard THEN alias[k].dest
                      ELSE {Append_detail(a, l.tags) : a \in alias[k].dest}
           later == IF base = {} THEN {alias[k].dest : k \in pure} ELSE {Dest(k) : k \in base}
           now == UNION {IF alias[k].wildcard THEN later ELSE {alias[k].dest} : k \in pure}
<1>1. AliasDestinations(l, FALSE, d, fold) = now \cup (IF pure = {} THEN later ELSE {})
  BY DEF AliasDestinations
<1>2. pure = IF Exact(l, d) # {} THEN Exact(l, d) ELSE Longest(Wild(l, d))
  BY ResolveFirst
<1>3. base = IF l.tags = <<>> THEN {}
             ELSE IF Exact(Stripped(l), d) # {} THEN Exact(Stripped(l), d)
             ELSE Longest(Wild(Stripped(l), d))
  BY ResolveFirst, StrippedIs
<1>4. \A h : /\ \A k \in Exact(h, d) : ~alias[k].wildcard
            /\ \A k \in Longest(Wild(h, d)) : alias[k].wildcard
  BY DEF Exact, Wild, Longest
<1>5. Wild(Stripped(l), d) # {} => Longest(Wild(Stripped(l), d)) # {}
  BY LongestExists, StrippedIs
<1>6. Longest({}) = {}
  BY DEF Longest
<1> HIDE DEF pure, base
<1>7. CASE Exact(l, d) # {}
  <2>1. pure = Exact(l, d) /\ pure # {} /\ \A k \in pure : ~alias[k].wildcard
    BY <1>2, <1>4, <1>7
  <2>2. now = {alias[k].dest : k \in pure}
    <3> HIDE DEF later
    <3>1. QED
      BY <2>1
  <2>3. QED
    BY <1>1, <1>7, <2>1, <2>2 DEF Winner
<1>8. CASE Exact(l, d) = {}
  <2>1. pure = Longest(Wild(l, d)) /\ \A k \in pure : alias[k].wildcard
    BY <1>2, <1>4, <1>8
  <2>2. AliasDestinations(l, FALSE, d, fold) = later
    <3> HIDE DEF later
    <3>1. pure = {} => now = {}
      OBVIOUS
    <3>2. pure # {} => now = later
      BY <2>1
    <3>3. QED
      BY <1>1, <3>1, <3>2
  <2>3. CASE l.tags = <<>>
    BY <1>3, <1>8, <2>1, <2>2, <2>3 DEF Winner
  <2>4. CASE l.tags # <<>> /\ Exact(Stripped(l), d) # {}
    <3>1. base = Exact(Stripped(l), d) /\ base # {} /\ \A k \in base : ~alias[k].wildcard
      BY <1>3, <1>4, <2>4
    <3>2. later = {{Append_detail(a, l.tags) : a \in alias[k].dest} : k \in base}
      BY <3>1
    <3>3. QED
      BY <1>8, <2>2, <2>4, <3>1, <3>2 DEF Winner
  <2>5. CASE l.tags # <<>> /\ Exact(Stripped(l), d) = {}
    <3>1. base = Longest(Wild(Stripped(l), d)) /\ \A k \in base : alias[k].wildcard
      BY <1>3, <1>4, <2>5
    <3>2. base # {} => later = {alias[k].dest : k \in base}
      BY <3>1
    <3>3. base = {} <=> Wild(Stripped(l), d) = {}
      BY <1>5, <1>6, <3>1
    <3>4. QED
      BY <1>8, <2>1, <2>2, <2>5, <3>1, <3>2, <3>3 DEF Winner
  <2>6. QED
    BY <2>3, <2>4, <2>5
<1>9. QED
  BY <1>7, <1>8

\* The rules, by rank.
Rule2(k) == [rank |-> 2, len |-> 0, dest |-> alias[k].dest]
Rule3(k, ts) == [rank |-> 3, len |-> 0, dest |-> {Append_detail(a, ts) : a \in alias[k].dest}]
Rule4(k) == [rank |-> 4, len |-> Length(k.t), dest |-> alias[k].dest]
Rule5(k) == [rank |-> 5, len |-> Length(k.t), dest |-> alias[k].dest]

LEMMA RulesAre ==
  ASSUME NEW l, NEW d, NEW x
  PROVE  x \in Rules(l, d) <=>
           \/ \E k \in Exact(l, d) : x = Rule2(k)
           \/ l.tags # <<>> /\ \E k \in Exact(Stripped(l), d) : x = Rule3(k, l.tags)
           \/ l.tags # <<>> /\ \E k \in Wild(Stripped(l), d) : x = Rule4(k)
           \/ \E k \in Wild(l, d) : x = Rule5(k)
<1>1. {j \in AliasKeys : /\ alias[j] # None /\ Active(j) /\ j.d = d /\ alias[j].wildcard /\ Like(j.t, l)}
        = Wild(l, d)
  BY DEF Wild
<1>2. {j \in AliasKeys : /\ alias[j] # None /\ Active(j) /\ j.d = d
                         /\ ~alias[j].wildcard /\ ~j.t.any /\ j.t.pre = l} = Exact(l, d)
  BY DEF Exact
<1>3. {j \in AliasKeys : /\ alias[j] # None /\ Active(j) /\ j.d = d /\ l.tags # <<>>
                         /\ alias[j].wildcard /\ Like(j.t, Stripped(l))}
        = IF l.tags # <<>> THEN Wild(Stripped(l), d) ELSE {}
  BY DEF Wild
<1>4. {j \in AliasKeys : /\ alias[j] # None /\ Active(j) /\ j.d = d /\ l.tags # <<>>
                         /\ ~alias[j].wildcard /\ ~j.t.any /\ j.t.pre = Stripped(l)}
        = IF l.tags # <<>> THEN Exact(Stripped(l), d) ELSE {}
  BY DEF Exact
<1>5. Rules(l, d) = {Rule4(k) : k \in IF l.tags # <<>> THEN Wild(Stripped(l), d) ELSE {}}
                    \cup {Rule5(k) : k \in Wild(l, d)} \cup {Rule2(k) : k \in Exact(l, d)}
                    \cup {Rule3(k, l.tags) : k \in IF l.tags # <<>> THEN Exact(Stripped(l), d) ELSE {}}
  BY <1>1, <1>2, <1>3, <1>4 DEF Rules, Rule2, Rule3, Rule4, Rule5
<1>6. QED
  BY <1>5

\* The best of some rules are the longest ones of the lowest rank.
LEMMA TopRank ==
  ASSUME NEW rules, NEW n \in Nat, \A x \in rules : x.rank \in Nat /\ x.len \in Nat /\ n <= x.rank,
         NEW r \in rules, r.rank = n
  PROVE  {x \in rules : \A y \in rules : x.rank < y.rank \/ (x.rank = y.rank /\ x.len >= y.len)}
           = {x \in rules : x.rank = n /\ \A y \in rules : y.rank = n => x.len >= y.len}
<1>1. ASSUME NEW x \in rules, \A y \in rules : x.rank < y.rank \/ (x.rank = y.rank /\ x.len >= y.len)
      PROVE  x.rank = n /\ \A y \in rules : y.rank = n => x.len >= y.len
  <2>1. x.rank = n
    BY <1>1
  <2>2. QED
    BY <1>1, <2>1
<1>2. ASSUME NEW x \in rules, x.rank = n, \A y \in rules : y.rank = n => x.len >= y.len, NEW y \in rules
      PROVE  x.rank < y.rank \/ (x.rank = y.rank /\ x.len >= y.len)
  BY <1>2
<1>3. QED
  BY <1>1, <1>2

\* The ranking picks the winner.
LEMMA RankingWins ==
  ASSUME NEW l \in Queries, NEW d
  PROVE  Best(l, d) = Winner(l, d)
<1> DEFINE rules == Rules(l, d)
           ex == Exact(l, d)
           wild == Wild(l, d)
           exs == IF l.tags # <<>> THEN Exact(Stripped(l), d) ELSE {}
           wilds == IF l.tags # <<>> THEN Wild(Stripped(l), d) ELSE {}
           top == {x \in rules : \A y \in rules : x.rank < y.rank \/ (x.rank = y.rank /\ x.len >= y.len)}
           Top(n) == {x \in rules : x.rank = n /\ \A y \in rules : y.rank = n => x.len >= y.len}
<1>1. \A x : x \in rules <=>
        \/ \E k \in ex : x = Rule2(k)
        \/ \E k \in exs : x = Rule3(k, l.tags)
        \/ \E k \in wilds : x = Rule4(k)
        \/ \E k \in wild : x = Rule5(k)
  BY RulesAre
<1>2. Best(l, d) = {x.dest : x \in top}
  BY DEF Best
<1>3. Winner(l, d) = IF ex # {} THEN {Rule2(k).dest : k \in ex}
                     ELSE IF exs # {} THEN {Rule3(k, l.tags).dest : k \in exs}
                     ELSE IF wilds # {} THEN {Rule4(k).dest : k \in Longest(wilds)}
                     ELSE {Rule5(k).dest : k \in Longest(wild)}
  BY DEF Winner, Rule2, Rule3, Rule4, Rule5
<1>4. (\A k \in wild : Length(k.t) \in Nat) /\ (\A k \in wilds : Length(k.t) \in Nat)
  <2>1. \A k \in wild : Length(k.t) \in 0 .. 4
    BY LengthIs
  <2>2. \A k \in wilds : Length(k.t) \in 0 .. 4
    BY LengthIs, StrippedIs
  <2>3. QED
    BY <2>1, <2>2
<1> HIDE DEF rules, ex, wild, exs, wilds
<1>5. ASSUME NEW x \in rules
      PROVE  /\ x.rank \in Nat /\ x.len \in Nat
             /\ \/ x.rank = 2 /\ x.len = 0 /\ \E k \in ex : x = Rule2(k)
                \/ x.rank = 3 /\ x.len = 0 /\ \E k \in exs : x = Rule3(k, l.tags)
                \/ x.rank = 4 /\ \E k \in wilds : x = Rule4(k) /\ x.len = Length(k.t)
                \/ x.rank = 5 /\ \E k \in wild : x = Rule5(k) /\ x.len = Length(k.t)
  <2>1. CASE \E k \in ex : x = Rule2(k)
    BY <2>1 DEF Rule2
  <2>2. CASE \E k \in exs : x = Rule3(k, l.tags)
    <3>1. PICK k \in exs : x = Rule3(k, l.tags)
      BY <2>2
    <3>2. x.rank = 3 /\ x.len = 0
      BY <3>1 DEF Rule3
    <3>3. QED
      BY <2>2, <3>2
  <2>3. CASE \E k \in wilds : x = Rule4(k)
    BY <1>4, <2>3 DEF Rule4
  <2>4. CASE \E k \in wild : x = Rule5(k)
    BY <1>4, <2>4 DEF Rule5
  <2>5. QED
    BY <1>1, <1>5, <2>1, <2>2, <2>3, <2>4
<1>6. CASE ex # {}
  <2>1. PICK k \in ex : TRUE
    BY <1>6
  <2>2. \A j \in ex : Rule2(j) \in rules
    BY <1>1
  <2>3. \A j \in ex : Rule2(j).rank = 2
    BY DEF Rule2
  <2>4. \A x \in rules : x.rank \in Nat /\ x.len \in Nat /\ 2 <= x.rank
    BY <1>5, <1>6
  <2>5. top = Top(2)
    BY <2>2, <2>3, <2>4, TopRank
  <2>6. ASSUME NEW x \in Top(2)
        PROVE  \E j \in ex : x = Rule2(j)
    BY <1>5, <2>6
  <2>7. ASSUME NEW j \in ex
        PROVE  Rule2(j) \in Top(2)
    <3>1. Rule2(j).len = 0
      BY DEF Rule2
    <3>2. \A y \in rules : y.rank = 2 => y.len = 0
      BY <1>5
    <3>3. QED
      BY <2>2, <2>3, <3>1, <3>2
  <2>8. {x.dest : x \in Top(2)} = {Rule2(j).dest : j \in ex}
    BY <2>6, <2>7
  <2>9. QED
    BY <1>2, <1>3, <1>6, <2>5, <2>8
<1>7. CASE ex = {} /\ exs # {}
  <2>1. PICK k \in exs : TRUE
    BY <1>7
  <2>2. \A j \in exs : Rule3(j, l.tags) \in rules
    BY <1>1
  <2>3. \A j \in exs : Rule3(j, l.tags).rank = 3
    BY DEF Rule3
  <2>4. \A x \in rules : x.rank \in Nat /\ x.len \in Nat /\ 3 <= x.rank
    BY <1>5, <1>7
  <2>5. top = Top(3)
    BY <2>2, <2>3, <2>4, TopRank
  <2>6. ASSUME NEW x \in Top(3)
        PROVE  \E j \in exs : x = Rule3(j, l.tags)
    BY <1>5, <2>6
  <2>7. ASSUME NEW j \in exs
        PROVE  Rule3(j, l.tags) \in Top(3)
    <3>1. Rule3(j, l.tags).len = 0
      BY DEF Rule3
    <3>2. \A y \in rules : y.rank = 3 => y.len = 0
      BY <1>5
    <3>3. QED
      BY <2>2, <2>3, <3>1, <3>2
  <2>8. {x.dest : x \in Top(3)} = {Rule3(j, l.tags).dest : j \in exs}
    BY <2>6, <2>7
  <2>9. QED
    BY <1>2, <1>3, <1>7, <2>5, <2>8
<1>8. CASE ex = {} /\ exs = {} /\ wilds # {}
  <2>1. PICK k \in wilds : TRUE
    BY <1>8
  <2>2. \A j \in wilds : Rule4(j) \in rules
    BY <1>1
  <2>3. \A j \in wilds : Rule4(j).rank = 4
    BY DEF Rule4
  <2>4. \A x \in rules : x.rank \in Nat /\ x.len \in Nat /\ 4 <= x.rank
    BY <1>5, <1>8
  <2>5. top = Top(4)
    BY <2>2, <2>3, <2>4, TopRank
  <2>6. ASSUME NEW x \in Top(4)
        PROVE  \E j \in Longest(wilds) : x = Rule4(j)
    <3>1. PICK j \in wilds : x = Rule4(j) /\ x.len = Length(j.t)
      BY <1>5, <2>6
    <3>2. ASSUME NEW i \in wilds PROVE Length(j.t) >= Length(i.t)
      <4>1. Rule4(i) \in rules /\ Rule4(i).rank = 4 /\ Rule4(i).len = Length(i.t)
        BY <2>2, <2>3 DEF Rule4
      <4>2. QED
        BY <2>6, <3>1, <4>1
    <3>3. QED
      BY <3>1, <3>2 DEF Longest
  <2>7. ASSUME NEW j \in Longest(wilds)
        PROVE  Rule4(j) \in Top(4)
    <3>1. j \in wilds /\ Rule4(j).len = Length(j.t) /\ \A i \in wilds : Length(j.t) >= Length(i.t)
      BY <2>7 DEF Longest, Rule4
    <3>2. \A y \in rules : y.rank = 4 => \E i \in wilds : y.len = Length(i.t)
      BY <1>5
    <3>3. QED
      BY <2>2, <2>3, <3>1, <3>2
  <2>8. {x.dest : x \in Top(4)} = {Rule4(j).dest : j \in Longest(wilds)}
    BY <2>6, <2>7
  <2>9. QED
    BY <1>2, <1>3, <1>8, <2>5, <2>8
<1>9. CASE ex = {} /\ exs = {} /\ wilds = {} /\ wild # {}
  <2>1. PICK k \in wild : TRUE
    BY <1>9
  <2>2. \A j \in wild : Rule5(j) \in rules
    BY <1>1
  <2>3. \A j \in wild : Rule5(j).rank = 5
    BY DEF Rule5
  <2>4. \A x \in rules : x.rank \in Nat /\ x.len \in Nat /\ 5 <= x.rank
    BY <1>5, <1>9
  <2>5. top = Top(5)
    BY <2>2, <2>3, <2>4, TopRank
  <2>6. ASSUME NEW x \in Top(5)
        PROVE  \E j \in Longest(wild) : x = Rule5(j)
    <3>1. PICK j \in wild : x = Rule5(j) /\ x.len = Length(j.t)
      BY <1>5, <2>6
    <3>2. ASSUME NEW i \in wild PROVE Length(j.t) >= Length(i.t)
      <4>1. Rule5(i) \in rules /\ Rule5(i).rank = 5 /\ Rule5(i).len = Length(i.t)
        BY <2>2, <2>3 DEF Rule5
      <4>2. QED
        BY <2>6, <3>1, <4>1
    <3>3. QED
      BY <3>1, <3>2 DEF Longest
  <2>7. ASSUME NEW j \in Longest(wild)
        PROVE  Rule5(j) \in Top(5)
    <3>1. j \in wild /\ Rule5(j).len = Length(j.t) /\ \A i \in wild : Length(j.t) >= Length(i.t)
      BY <2>7 DEF Longest, Rule5
    <3>2. \A y \in rules : y.rank = 5 => \E i \in wild : y.len = Length(i.t)
      BY <1>5
    <3>3. QED
      BY <2>2, <2>3, <3>1, <3>2
  <2>8. {x.dest : x \in Top(5)} = {Rule5(j).dest : j \in Longest(wild)}
    BY <2>6, <2>7
  <2>9. QED
    BY <1>2, <1>3, <1>9, <2>5, <2>8
<1>10. CASE ex = {} /\ exs = {} /\ wilds = {} /\ wild = {}
  <2>1. rules = {} /\ Longest(wild) = {}
    BY <1>1, <1>10 DEF Longest
  <2>2. QED
    BY <1>2, <1>3, <1>10, <2>1
<1>11. QED
  BY <1>6, <1>7, <1>8, <1>9, <1>10

\* Where wildcards, delimiters and exact local parts compete, for any set of aliases the
\* lookups of resolve_destination answer with the most specific rule, and Alias.resolve
\* gives an address in upper case what it gives it in lower case, with the comparisons of
\* each supported database.
THEOREM SpecificRuleWins == Spec => []MostSpecific
<1>1. ASSUME TypeOK, NEW l \in Queries, NEW d \in Domains
      PROVE  /\ MailboxOf(l, d) = None =>
                  resolve_destination(l, FALSE, d, FALSE, "like") = Best(l, d)
             /\ \A fold \in Folds :
                  resolve_destination(l, TRUE, d, FALSE, fold)
                    = resolve_destination(l, FALSE, d, FALSE, fold)
  <2>1. AliasDestinations(l, FALSE, d, "like") = Best(l, d)
    BY <1>1, LookupsWin, RankingWins DEF Folds
  <2>2. ASSUME NEW fold \in Folds
        PROVE  AliasDestinations(l, TRUE, d, fold) = AliasDestinations(l, FALSE, d, fold)
    <3>1. /\ resolve(l, TRUE, d, fold) = resolve(l, FALSE, d, fold)
          /\ resolve(Stripped(l), TRUE, d, fold) = resolve(Stripped(l), FALSE, d, fold)
      BY <1>1, ResolveUpper, StrippedIs
    <3>2. QED
      BY <3>1 DEF AliasDestinations
  <2>3. QED
    BY <2>1, <2>2 DEF resolve_destination
<1>2. TypeOK => MostSpecific
  BY <1>1 DEF MostSpecific
<1>3. QED
  BY <1>2, TypeCorrect, PTL
=============================================================================
