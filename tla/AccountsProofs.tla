--------------------------- MODULE AccountsProofs ---------------------------
(***************************************************************************)
(* For any number of accounts, browsers, passkeys and setup links: the     *)
(* types and the five properties of Accounts.                              *)
(*                                                                         *)
(* Setup links, passkeys and sessions are three parts that each action     *)
(* touches some of, so the invariant has a part for each.  What a request  *)
(* checked before its commit must still hold at the commit (Flights): the  *)
(* authenticator of a setup meets the policy, and the counter of a sign-in *)
(* that no other one overlaps is above the stored one.  A browser without  *)
(* a user has no pending action, so a sign-in starts from an empty list    *)
(* (Anonymous).                                                            *)
(***************************************************************************)
EXTENDS Accounts, TLAPS

\* The authenticators that the policy of the domain admits.
Good == {k \in Keys : Admissible(Traits[k])}

\* What was checked and is relied on at the commit.
FlightOK(f) ==
  /\ f.op = "setup_key" => f.link \in Links /\ f.key \in Good
  /\ f.op = "setup_password" => f.link \in Links
  /\ f.op = "verify" => f.key \in Keys /\ (policy.counts /\ f.alone => count[f.key] < f.n)

\* A sign-in that is alone with its passkey is the only one.
Alone ==
  \A b \in Browsers : flight[b].op = "verify" /\ flight[b].alone =>
    \A x \in Browsers \ {b} : ~(flight[x].op = "verify" /\ flight[x].key = flight[b].key)

LinkType ==
  /\ link \in [Links -> [st : {"none", "live", "used", "dead"}, user : Users \cup {None}]]
  /\ uses \in [Links -> Nat]
  /\ \A t \in Links : link[t].st # "none" => link[t].user \in Users

LinkInv == LinkType /\ SingleUse

KeyType ==
  /\ keyOf \in [Keys -> Users \cup {None}] /\ born \in [Keys -> Users \cup {None}]
  /\ count \in [Keys -> 0 .. MaxCount] /\ policy \in Policy
  /\ flight \in [Browsers -> Flight]

Flights == \A b \in Browsers : FlightOK(flight[b])

KeyInv == KeyType /\ Flights /\ Alone /\ KeyMatchesCeremony /\ KeysMeetPolicy

Anonymous == \A b \in Browsers : ses[b].user = None => ses[b].acts = <<>>

SesInv == acct \in [Users -> Account] /\ ses \in [Browsers -> Session] /\ Anonymous

OtherType == api \in [Requests -> Users \cup {None}] /\ edits \in 0 .. MaxEdits

OwedInv == owed \in [Browsers -> SUBSET Actions] /\ ActionsHonoured

IInv == LinkInv /\ KeyInv /\ SesInv /\ OtherType /\ OwedInv

USE AccountConstants

-----------------------------------------------------------------------------
(* Setup links                                                             *)

LEMMA LinkSame ==
  ASSUME LinkInv, UNCHANGED <<link, uses>>
  PROVE  LinkInv'
BY DEF LinkInv, LinkType, SingleUse

\* A link is issued once, unused; those it replaces are dead, and stay unused.
LEMMA LinkIssued ==
  ASSUME LinkInv, NEW u \in Users, NEW t \in Links, issue(u, t), UNCHANGED uses
  PROVE  LinkInv'
<1> USE DEF LinkInv
<1> DEFINE Link == [st : {"none", "live", "used", "dead"}, user : Users \cup {None}]
           next(x) == IF x = t THEN [st |-> "live", user |-> u]
                      ELSE IF link[x].st = "live" /\ link[x].user = u
                           THEN [link[x] EXCEPT !.st = "dead"] ELSE link[x]
<1>1. link' = [x \in Links |-> next(x)] /\ link[t].st = "none"
  BY DEF issue
<1>2. ASSUME NEW x \in Links
      PROVE  /\ next(x) \in Link /\ (next(x).st # "none" => next(x).user \in Users)
             /\ next(x).st = "used" <=> link[x].st = "used"
  <2>1. link[x] \in Link /\ (link[x].st # "none" => link[x].user \in Users)
    BY DEF LinkType
  <2>2. CASE x = t
    BY <1>1, <2>2
  <2>3. CASE x # t
    BY <2>1, <2>3
  <2>4. QED
    BY <2>2, <2>3
<1> HIDE DEF next
<1>3. link' \in [Links -> Link] /\ \A x \in Links : link'[x] = next(x)
  BY <1>1, <1>2
<1>4. LinkType'
  BY <1>2, <1>3 DEF LinkType
<1>5. SingleUse'
  BY <1>2, <1>3 DEF SingleUse
<1>6. QED
  BY <1>4, <1>5

LEMMA LinkExpired ==
  ASSUME LinkInv, NEW t \in Links, lookup(t), link' = [link EXCEPT ![t].st = "dead"], UNCHANGED uses
  PROVE  LinkInv'
<1>1. \A x \in Links : link'[x].st = (IF x = t THEN "dead" ELSE link[x].st) /\ link'[x].user = link[x].user
  BY DEF LinkInv, LinkType
<1>2. LinkType'
  BY <1>1 DEF LinkInv, LinkType, lookup
<1>3. SingleUse'
  BY <1>1 DEF LinkInv, SingleUse, lookup
<1>4. QED
  BY <1>2, <1>3 DEF LinkInv

\* The DELETE of consume finds a row that nobody used.
LEMMA LinkConsumed ==
  ASSUME LinkInv, NEW t \in Links, consume(t), uses' = [uses EXCEPT ![t] = @ + 1]
  PROVE  LinkInv' /\ link[t].user \in Users
<1>1. lookup(t) /\ link' = [link EXCEPT ![t].st = "used"]
  BY DEF consume
<1>2. \A x \in Links : link'[x].st = (IF x = t THEN "used" ELSE link[x].st) /\ link'[x].user = link[x].user
  BY <1>1 DEF LinkInv, LinkType
<1>3. uses[t] = 0
  BY <1>1 DEF LinkInv, SingleUse, lookup
<1>4. LinkType' /\ link[t].user \in Users
  BY <1>1, <1>2, <1>3 DEF LinkInv, LinkType, lookup
<1>5. \A x \in Links : uses'[x] = IF x = t THEN 1 ELSE uses[x]
  BY <1>3 DEF LinkInv, LinkType
<1>6. SingleUse'
  BY <1>2, <1>5 DEF LinkInv, SingleUse
<1>7. QED
  BY <1>4, <1>6 DEF LinkInv

-----------------------------------------------------------------------------
(* Passkeys                                                                *)

\* The two copies of the checks leave the traits that the policy admits.
LEMMA Checks ==
  ASSUME KeyType, NEW k \in Keys, Verified(Traits[k]), check_registration_policy(Traits[k])
  PROVE  k \in Good
<1> DEFINE t == Traits[k]
           values == [optional |-> BOOLEAN, require |-> {TRUE}, deny |-> {FALSE}]
<1>1. t \in Trait /\ policy \in Policy
  BY DEF KeyType
<1>2. /\ t.be \in BOOLEAN /\ t.bs \in BOOLEAN /\ t.attested \in BOOLEAN
      /\ policy.eligible \in Rules /\ policy.backup \in Rules /\ policy.attestation \in Rules
      /\ policy.aaguid \in {"off", "block", "allow"}
  BY <1>1 DEF Trait, Policy
<1>3. ASSUME NEW rule \in Rules, NEW flag \in BOOLEAN, Obeys(rule, flag)
      PROVE  flag \in values[rule]
  <2>1. CASE rule = "optional"
    BY <2>1
  <2>2. CASE rule = "require"
    BY <1>3, <2>2 DEF Obeys
  <2>3. CASE rule = "deny"
    BY <1>3, <2>3 DEF Obeys
  <2>4. QED
    BY <2>1, <2>2, <2>3 DEF Rules
<1>4. /\ t.be \in values[policy.eligible] /\ t.bs \in values[policy.backup]
      /\ t.attested \in values[policy.attestation]
  BY <1>2, <1>3 DEF check_registration_policy, authenticator_flags_allowed, attestation_allowed
<1>5. t.aaguid \in CASE policy.aaguid = "off" -> {t.aaguid}
                      [] policy.aaguid = "block" -> {t.aaguid} \ policy.listed
                      [] OTHER -> IF policy.listed = {} THEN {t.aaguid} ELSE policy.listed
  BY <1>2 DEF check_registration_policy, aaguid_allowed
<1>6. (policy.uv => t.uv) /\ (policy.bound => ~t.be)
  BY DEF check_registration_policy, DeviceBound, Verified
<1>7. QED
  BY <1>4, <1>5, <1>6 DEF Good, Admissible

LEMMA ChecksOfPage ==
  ASSUME KeyType, NEW k \in Keys, register_credential(k)
  PROVE  k \in Good /\ keyOf[k] = None
BY Checks DEF register_credential, check_registration_policy

LEMMA KeysSame ==
  ASSUME KeyInv, SameKeys, UNCHANGED <<policy, flight>>
  PROVE  KeyInv'
<1>1. Good' = Good
  BY DEF Good, Admissible
<1>2. QED
  BY <1>1 DEF SameKeys, KeyInv, KeyType, Flights, FlightOK, Alone, KeyMatchesCeremony, KeysMeetPolicy, Good

LEMMA IdleFlight == Idle \in Flight /\ Idle.op = "idle" /\ FlightOK(Idle)
BY DEF Idle, Flight, FlightOK

LEMMA SetupFlight ==
  ASSUME NEW t \in Links, NEW k \in Keys
  PROVE  LET f == [Idle EXCEPT !.op = "setup_key", !.link = t, !.key = k]
         IN  f \in Flight /\ f.op = "setup_key" /\ f.link = t /\ f.key = k
BY IdleFlight DEF Flight

LEMMA PasswordFlight ==
  ASSUME NEW t \in Links
  PROVE  LET f == [Idle EXCEPT !.op = "setup_password", !.link = t]
         IN  f \in Flight /\ f.op = "setup_password" /\ f.link = t
BY IdleFlight DEF Flight

\* A request other than a sign-in with a passkey is checked, or ends.
LEMMA FlightSet ==
  ASSUME KeyInv, SameKeys, UNCHANGED policy, NEW b \in Browsers, NEW f \in Flight,
         flight' = [flight EXCEPT ![b] = f], FlightOK(f), f.op # "verify"
  PROVE  KeyInv'
<1> USE DEF KeyInv, SameKeys
<1>0. Good' = Good
  BY DEF Good, Admissible
<1>1. /\ flight' \in [Browsers -> Flight] /\ flight'[b] = f
      /\ \A x \in Browsers \ {b} : flight'[x] = flight[x]
  BY DEF KeyType
<1>2. KeyType' /\ KeyMatchesCeremony' /\ KeysMeetPolicy'
  BY <1>0, <1>1 DEF KeyType, KeyMatchesCeremony, KeysMeetPolicy, Good
<1>3. Flights'
  BY <1>0, <1>1 DEF Flights, FlightOK
<1>4. Alone'
  BY <1>1 DEF Alone
<1>5. QED
  BY <1>2, <1>3, <1>4

\* A row of the passkey table is entered or removed; the requests on their way have other
\* passkeys or compare with a counter that can only have been higher.
LEMMA KeyWritten ==
  ASSUME KeyInv, NEW k \in Keys, NEW u \in Users \cup {None},
         u # None => k \in Good,
         keyOf' = [keyOf EXCEPT ![k] = u], count' = [count EXCEPT ![k] = 0],
         born' = [born EXCEPT ![k] = u], UNCHANGED policy,
         UNCHANGED flight \/ \E b \in Browsers : flight' = [flight EXCEPT ![b] = Idle]
  PROVE  KeyInv'
<1> USE DEF KeyInv
<1>0. Good' = Good
  BY DEF Good, Admissible
<1>1. /\ flight' \in [Browsers -> Flight]
      /\ \A x \in Browsers : flight'[x] \in {Idle, flight[x]}
  BY IdleFlight DEF KeyType
<1>2. KeyType' /\ KeyMatchesCeremony'
  BY <1>1 DEF KeyType, KeyMatchesCeremony
<1>3. KeysMeetPolicy'
  BY <1>0 DEF KeyType, KeysMeetPolicy, Good
<1>4. Flights'
  <2>1. \A j \in Keys : count'[j] \in {0, count[j]} /\ count[j] \in 0 .. MaxCount
    BY DEF KeyType
  <2> SUFFICES ASSUME NEW x \in Browsers PROVE FlightOK(flight[x])' 
    BY DEF Flights
  <2>2. CASE flight'[x] = Idle
    BY <2>2 DEF Idle, FlightOK
  <2>3. CASE flight'[x] = flight[x]
    <3>1. FlightOK(flight[x]) /\ flight[x] \in Flight
      BY DEF Flights, KeyType
    <3>2. flight[x].n \in 0 .. MaxCount
      BY <3>1 DEF Flight
    <3>3. QED
      BY <1>0, <2>1, <2>3, <3>1, <3>2 DEF FlightOK
  <2>4. QED
    BY <1>1, <2>2, <2>3
<1>5. Alone'
  BY <1>1 DEF Alone, Idle
<1>6. QED
  BY <1>2, <1>3, <1>4, <1>5

\* domain_edit leaves what the policy says of authenticators alone.
LEMMA PolicyEdited ==
  ASSUME KeyInv, SameKeys, UNCHANGED flight, policy' = [policy EXCEPT !.enroll = ~@]
  PROVE  KeyInv'
<1> USE DEF KeyInv, SameKeys
<1>1. policy \in Policy
  BY DEF KeyType
<1>2. /\ policy' \in Policy /\ policy'.counts = policy.counts /\ policy'.bound = policy.bound
      /\ policy'.uv = policy.uv /\ policy'.aaguid = policy.aaguid /\ policy'.listed = policy.listed
      /\ policy'.eligible = policy.eligible /\ policy'.backup = policy.backup
      /\ policy'.attestation = policy.attestation
  BY <1>1 DEF Policy
<1>3. Good' = Good
  BY <1>2 DEF Good, Admissible
<1>4. QED
  BY <1>2, <1>3 DEF KeyType, Flights, FlightOK, Alone, KeyMatchesCeremony, KeysMeetPolicy, Good

\* A sign-in with passkey k is on its way, and those it overlaps know of it.
Marked(b, k, n) ==
  [x \in Browsers |-> IF x = b THEN [Idle EXCEPT !.op = "verify", !.key = k, !.n = n,
                                                  !.alone = InFlight(k) = {}]
                      ELSE IF x \in InFlight(k) THEN [flight[x] EXCEPT !.alone = FALSE]
                      ELSE flight[x]]

LEMMA MarkedFlights ==
  ASSUME KeyType, NEW b \in Browsers, NEW k \in Keys, NEW n \in 0 .. MaxCount
  PROVE  LET fl == Marked(b, k, n)
         IN  /\ fl \in [Browsers -> Flight]
             /\ fl[b].op = "verify" /\ fl[b].key = k /\ fl[b].n = n
             /\ fl[b].alone => InFlight(k) = {}
             /\ \A x \in Browsers \ {b} :
                  /\ fl[x].op = flight[x].op /\ fl[x].key = flight[x].key
                  /\ fl[x].n = flight[x].n /\ fl[x].link = flight[x].link
                  /\ fl[x].alone => flight[x].alone /\ x \notin InFlight(k)
<1> DEFINE f == [Idle EXCEPT !.op = "verify", !.key = k, !.n = n, !.alone = InFlight(k) = {}]
           g(x) == [flight[x] EXCEPT !.alone = FALSE]
<1>1. /\ f \in Flight /\ f.op = "verify" /\ f.key = k /\ f.n = n
      /\ f.alone = (InFlight(k) = {})
  BY DEF Idle, Flight
<1>2. ASSUME NEW x \in Browsers
      PROVE  /\ flight[x] \in Flight /\ g(x) \in Flight /\ g(x).op = flight[x].op /\ ~g(x).alone
             /\ g(x).key = flight[x].key /\ g(x).n = flight[x].n /\ g(x).link = flight[x].link
  <2>1. flight[x] \in Flight
    BY DEF KeyType
  <2>2. QED
    BY <2>1 DEF Flight
<1>3. Marked(b, k, n) = [x \in Browsers |-> IF x = b THEN f ELSE IF x \in InFlight(k) THEN g(x) ELSE flight[x]]
  BY DEF Marked
<1> HIDE DEF f, g
<1>4. Marked(b, k, n) \in [Browsers -> Flight]
  <2>1. \A x \in Browsers :
          (IF x = b THEN f ELSE IF x \in InFlight(k) THEN g(x) ELSE flight[x]) \in Flight
    BY <1>1, <1>2
  <2>2. QED
    BY <1>3, <2>1
<1>5. Marked(b, k, n)[b] = f
  BY <1>3
<1>6. ASSUME NEW x \in Browsers \ {b}
      PROVE  /\ x \in InFlight(k) => Marked(b, k, n)[x] = g(x)
             /\ x \notin InFlight(k) => Marked(b, k, n)[x] = flight[x]
  BY <1>3
<1> DEFINE fl == Marked(b, k, n)
<1>7. /\ fl[b].op = "verify" /\ fl[b].key = k /\ fl[b].n = n
      /\ fl[b].alone => InFlight(k) = {}
  BY <1>1, <1>5
<1>8. ASSUME NEW x \in Browsers \ {b}
      PROVE  /\ fl[x].op = flight[x].op /\ fl[x].key = flight[x].key
             /\ fl[x].n = flight[x].n /\ fl[x].link = flight[x].link
             /\ fl[x].alone => flight[x].alone /\ x \notin InFlight(k)
  <2>1. CASE x \in InFlight(k)
    BY <1>2, <1>6, <2>1
  <2>2. CASE x \notin InFlight(k)
    BY <1>6, <2>2
  <2>3. QED
    BY <2>1, <2>2
<1> HIDE DEF fl
<1>9. fl \in [Browsers -> Flight]
  BY <1>4 DEF fl
<1>10. QED
  BY <1>7, <1>8, <1>9 DEF fl

\* Its counter was compared with the stored one.
LEMMA SignInStarted ==
  ASSUME KeyInv, SameKeys, UNCHANGED policy, NEW b \in Browsers, flight[b].op = "idle",
         NEW k \in Keys, NEW n \in 0 .. MaxCount, sign_count_allowed(count[k], n),
         flight' = Marked(b, k, n)
  PROVE  KeyInv'
<1> USE DEF KeyInv, SameKeys
<1>1. /\ flight' \in [Browsers -> Flight]
      /\ flight'[b].op = "verify" /\ flight'[b].key = k /\ flight'[b].n = n
      /\ flight'[b].alone => InFlight(k) = {}
      /\ \A x \in Browsers \ {b} :
           /\ flight'[x].op = flight[x].op /\ flight'[x].key = flight[x].key
           /\ flight'[x].n = flight[x].n /\ flight'[x].link = flight[x].link
           /\ flight'[x].alone => flight[x].alone /\ x \notin InFlight(k)
  BY MarkedFlights
<1>2. Good' = Good
  BY DEF Good, Admissible
<1>3. KeyType' /\ KeyMatchesCeremony' /\ KeysMeetPolicy'
  BY <1>1, <1>2 DEF KeyType, KeyMatchesCeremony, KeysMeetPolicy, Good
<1>4. Flights'
  <2> SUFFICES ASSUME NEW x \in Browsers PROVE FlightOK(flight[x])'
    BY DEF Flights
  <2>1. CASE x = b
    BY <1>1, <2>1 DEF FlightOK, sign_count_allowed
  <2>2. CASE x # b
    <3>1. FlightOK(flight[x])
      BY DEF Flights
    <3>2. QED
      BY <1>1, <1>2, <2>2, <3>1 DEF FlightOK
  <2>3. QED
    BY <2>1, <2>2
<1>5. Alone'
  <2> SUFFICES ASSUME NEW x \in Browsers, flight'[x].op = "verify", flight'[x].alone,
                      NEW y \in Browsers \ {x}, flight'[y].op = "verify",
                      flight'[y].key = flight'[x].key
               PROVE  FALSE
    BY DEF Alone
  <2>1. CASE x = b
    BY <1>1, <2>1 DEF InFlight
  <2>2. CASE y = b
    BY <1>1, <2>2 DEF InFlight
  <2>3. CASE x # b /\ y # b
    BY <1>1, <2>3 DEF Alone
  <2>4. QED
    BY <2>1, <2>2, <2>3
<1>6. QED
  BY <1>3, <1>4, <1>5

\* The counter of a sign-in is stored: the others with this passkey were not alone.
LEMMA SignInCommitted ==
  ASSUME KeyInv, NEW b \in Browsers, flight[b].op = "verify",
         count' = [count EXCEPT ![flight[b].key] = flight[b].n],
         flight' = [flight EXCEPT ![b] = Idle], UNCHANGED <<keyOf, born, policy>>
  PROVE  KeyInv'
<1> USE DEF KeyInv
<1> DEFINE k == flight[b].key
<1>1. /\ flight' \in [Browsers -> Flight] /\ flight'[b] = Idle
      /\ \A x \in Browsers \ {b} : flight'[x] = flight[x]
  BY IdleFlight DEF KeyType
<1>2. k \in Keys /\ flight[b].n \in 0 .. MaxCount
  <2>1. flight[b] \in Flight /\ FlightOK(flight[b])
    BY DEF KeyType, Flights
  <2>2. QED
    BY <2>1 DEF Flight, FlightOK
<1>3. Good' = Good
  BY DEF Good, Admissible
<1>4. KeyType' /\ KeyMatchesCeremony' /\ KeysMeetPolicy'
  BY <1>1, <1>2, <1>3 DEF KeyType, KeyMatchesCeremony, KeysMeetPolicy, Good
<1>5. Flights'
  <2> SUFFICES ASSUME NEW x \in Browsers PROVE FlightOK(flight[x])'
    BY DEF Flights
  <2>1. CASE x = b
    BY <1>1, <2>1 DEF FlightOK, Idle
  <2>2. CASE x # b
    <3>1. flight'[x] = flight[x] /\ FlightOK(flight[x])
      BY <1>1, <2>2 DEF Flights
    <3>2. CASE flight[x].op = "verify"
      <4>1. flight[x].alone => flight[x].key # k
        BY <2>2, <3>2 DEF Alone
      <4>2. flight[x].alone => count'[flight[x].key] = count[flight[x].key]
        BY <3>1, <3>2, <4>1 DEF FlightOK, KeyType
      <4>3. QED
        BY <3>1, <3>2, <4>2 DEF FlightOK
    <3>3. CASE flight[x].op # "verify"
      BY <1>3, <3>1, <3>3 DEF FlightOK
    <3>4. QED
      BY <3>2, <3>3
  <2>3. QED
    BY <2>1, <2>2
<1>6. Alone'
  BY <1>1 DEF Alone, Idle
<1>7. QED
  BY <1>4, <1>5, <1>6

-----------------------------------------------------------------------------
(* Sessions and required actions                                           *)

ActionLists == {<<>>, <<"password_change">>, <<"passkey_enrollment">>,
                <<"password_change", "passkey_enrollment">>}

LEMMA Ranges ==
  /\ Range(<<>>) = {} /\ Range(<<"password_change">>) = {"password_change"}
  /\ Range(<<"passkey_enrollment">>) = {"passkey_enrollment"}
  /\ Range(<<"password_change", "passkey_enrollment">>) = {"password_change", "passkey_enrollment"}
<1>1. \A a, b : DOMAIN <<a>> = {1} /\ DOMAIN <<a, b>> = {1, 2} /\ DOMAIN <<>> = {}
  OBVIOUS
<1>2. QED
  BY <1>1 DEF Range

LEMMA Pairs ==
  ASSUME NEW a, NEW b
  PROVE  Append(<<a>>, b) = <<a, b>> /\ Append(<<>>, b) = <<b>>
<1> DEFINE pair == [i \in 1 .. 2 |-> IF i = 2 THEN b ELSE a]
<1>1. Append(<<a>>, b) = pair
  OBVIOUS
<1>2. <<a, b>> = pair
  OBVIOUS
<1>3. Append(<<>>, b) = <<b>>
  OBVIOUS
<1>4. QED
  BY <1>1, <1>2, <1>3

\* actions.remove takes the action off the list, and no other.
LEMMA Removes ==
  ASSUME NEW l \in ActionLists, NEW a \in Actions
  PROVE  Without(l, a) \in ActionLists /\ Range(Without(l, a)) = Range(l) \ {a}
<1>1. CASE l = <<>>
  BY <1>1, Ranges DEF Without, ActionLists
<1>2. CASE l = <<"password_change">>
  BY <1>2, Ranges DEF Without, ActionLists, Actions
<1>3. CASE l = <<"passkey_enrollment">>
  BY <1>3, Ranges DEF Without, ActionLists, Actions
<1>4. CASE l = <<"password_change", "passkey_enrollment">>
  BY <1>4, Ranges DEF Without, ActionLists, Actions
<1>5. QED
  BY <1>1, <1>2, <1>3, <1>4 DEF ActionLists

\* From an empty list require_actions makes the list it is given.
LEMMA Requires ==
  ASSUME NEW l \in ActionLists
  PROVE  require_actions(<<>>, l) = l
<1>1. CASE l = <<>>
  BY <1>1 DEF require_actions
<1>2. CASE l = <<"password_change">>
  BY <1>2, Ranges DEF require_actions, Queued
<1>3. CASE l = <<"passkey_enrollment">>
  BY <1>3, Ranges DEF require_actions, Queued
<1>4. CASE l = <<"password_change", "passkey_enrollment">>
  <2>1. Queued(<<>>, "password_change") = <<"password_change">>
    BY Ranges DEF Queued
  <2>2. Queued(<<"password_change">>, "passkey_enrollment") = l
    BY <1>4, Ranges, Pairs DEF Queued
  <2>3. Len(l) = 2 /\ l[1] = "password_change" /\ l[2] = "passkey_enrollment" /\ l # <<>>
    BY <1>4
  <2>4. QED
    BY <2>1, <2>2, <2>3 DEF require_actions
<1>5. QED
  BY <1>1, <1>2, <1>3, <1>4 DEF ActionLists

\* What the pages ask a user for at a sign-in is what the user owes then.
LEMMA RequiredIsDue ==
  ASSUME NEW u \in Users
  PROVE  /\ user_required_actions(u) \in ActionLists
         /\ Unmet(u) \ (IF PasskeysRequired THEN {"password_change"} ELSE {})
              \subseteq Range(user_required_actions(u))
<1> DEFINE pw == acct[u].must
           enroll == acct[u].enroll \/ PasskeysRequired
<1>1. CASE Passkeys(u) # {}
  BY <1>1 DEF user_required_actions, ActionLists, Unmet
<1>2. CASE Passkeys(u) = {}
  <2>1. Unmet(u) = {a \in Actions : IF a = "password_change" THEN pw ELSE enroll}
    BY <1>2 DEF Unmet
  <2>2. CASE pw /\ ~PasskeysRequired
    <3>1. user_required_actions(u) = IF enroll THEN <<"password_change", "passkey_enrollment">>
                                     ELSE <<"password_change">>
      BY <1>2, <2>2, Pairs DEF user_required_actions
    <3>2. QED
      BY <2>1, <2>2, <3>1, Ranges DEF ActionLists, Actions
  <2>3. CASE ~(pw /\ ~PasskeysRequired)
    <3>1. user_required_actions(u) = IF enroll THEN <<"passkey_enrollment">> ELSE <<>>
      BY <1>2, <2>3, Pairs DEF user_required_actions
    <3>2. QED
      BY <2>1, <2>3, <3>1, Ranges DEF ActionLists, Actions
  <2>4. QED
    BY <2>2, <2>3
<1>3. QED
  BY <1>1, <1>2

\* A step leaves browser b every action that its user owes after the step.
Kept(b) ==
  IF ses'[b].user = ses[b].user
  THEN Range(ses[b].acts) \cap Unmet(ses[b].user)' \subseteq Range(ses'[b].acts)
  ELSE Due(b)' \subseteq Range(ses'[b].acts)

LEMMA OwedStep ==
  ASSUME OwedInv, Owes, \A b \in Browsers : Kept(b)
  PROVE  OwedInv'
<1>1. \A b \in Browsers : owed'[b] = IF ses'[b].user = ses[b].user
                                     THEN owed[b] \cap Unmet(ses[b].user)' ELSE Due(b)'
  BY DEF Owes
<1>2. \A b \in Browsers : Due(b)' \subseteq Actions
  BY DEF Due, Unmet
<1>3. owed' \in [Browsers -> SUBSET Actions]
  <2>1. DOMAIN owed' = Browsers /\ owed' = [b \in Browsers |-> owed'[b]]
    BY DEF Owes
  <2>2. \A b \in Browsers : owed'[b] \subseteq Actions
    BY <1>1, <1>2 DEF OwedInv
  <2>3. QED
    BY <2>1, <2>2
<1>4. \A b \in Browsers : owed'[b] \subseteq Range(ses'[b].acts)
  BY <1>1 DEF OwedInv, ActionsHonoured, Kept
<1>5. QED
  BY <1>3, <1>4 DEF OwedInv, ActionsHonoured

LEMMA KeptSame ==
  ASSUME NEW b \in Browsers, ses'[b].user = ses[b].user, ses'[b].acts = ses[b].acts
  PROVE  Kept(b)
BY DEF Kept

\* A browser without a user owes nothing.
LEMMA KeptNone ==
  ASSUME NEW b \in Browsers, ses'[b].user = None
  PROVE  Kept(b)
BY DEF Kept, Due, Unmet

SesStep == SesInv' /\ \A b \in Browsers : Kept(b)

LEMMA NoSessionType == NoSession \in Session /\ NoSession.user = None /\ NoSession.acts = <<>>
BY DEF NoSession, Session

LEMMA SesSame ==
  ASSUME SesInv, UNCHANGED <<acct, ses>>
  PROVE  SesStep
BY KeptSame DEF SesStep, SesInv, Anonymous

\* One browser gets another session.
LEMMA SesSet ==
  ASSUME SesInv, NEW b \in Browsers, NEW m \in Session, ses' = [ses EXCEPT ![b] = m],
         m.user = None => m.acts = <<>>, acct' \in [Users -> Account], Kept(b)
  PROVE  SesStep
<1>1. ses' \in [Browsers -> Session] /\ ses'[b] = m /\ \A x \in Browsers \ {b} : ses'[x] = ses[x]
  BY DEF SesInv
<1>2. SesInv'
  BY <1>1 DEF SesInv, Anonymous
<1>3. \A x \in Browsers \ {b} : Kept(x)
  BY <1>1, KeptSame
<1>4. QED
  BY <1>2, <1>3 DEF SesStep

LEMMA SesGone ==
  ASSUME SesInv, NEW b \in Browsers, ses' = [ses EXCEPT ![b] = NoSession],
         acct' \in [Users -> Account]
  PROVE  SesStep
<1>1. ses'[b] = NoSession
  BY DEF SesInv
<1>2. Kept(b)
  BY <1>1, NoSessionType, KeptNone
<1>3. QED
  BY <1>2, NoSessionType, SesSet

\* set_password ends sessions: b goes on as mine, the others are gone or as before.
LEMMA SesPruned ==
  ASSUME SesInv, NEW u, NEW b, NEW mine \in Session, Pruned(u, b, mine),
         mine.user = None => mine.acts = <<>>, acct' \in [Users -> Account],
         b \in Browsers /\ ses'[b] = mine => Kept(b)
  PROVE  SesStep
<1>1. PICK S \in SUBSET {x \in Browsers \ {b} : ses[x].user = u} :
        ses' = [x \in Browsers |-> IF x \in S THEN NoSession ELSE IF x = b THEN mine ELSE ses[x]]
  BY DEF Pruned
<1>2. \A x \in Browsers : ses'[x] = IF x \in S THEN NoSession ELSE IF x = b THEN mine ELSE ses[x]
  BY <1>1
<1>3. ses' \in [Browsers -> Session]
  BY <1>1, NoSessionType DEF SesInv
<1>4. SesInv'
  BY <1>2, <1>3, NoSessionType DEF SesInv, Anonymous
<1>5. ASSUME NEW x \in Browsers PROVE Kept(x)
  <2>1. CASE x \in S
    BY <1>2, <2>1, NoSessionType, KeptNone
  <2>2. CASE x \notin S /\ x = b
    BY <1>2, <2>2
  <2>3. CASE x \notin S /\ x # b
    BY <1>2, <2>3, KeptSame
  <2>4. QED
    BY <2>1, <2>2, <2>3
<1>6. QED
  BY <1>4, <1>5 DEF SesStep

\* Other fields of a session.
LEMMA SesField ==
  ASSUME SesInv, NEW b \in Browsers, NEW m \in Session, ses' = [ses EXCEPT ![b] = m],
         m.user = ses[b].user, m.acts = ses[b].acts, acct' \in [Users -> Account]
  PROVE  SesStep
<1>1. ses'[b] = m
  BY DEF SesInv
<1>2. Kept(b)
  BY <1>1, KeptSame
<1>3. m.user = None => m.acts = <<>>
  BY DEF SesInv, Anonymous
<1>4. QED
  BY <1>2, <1>3, SesSet

\* A sign-in with a password or by the proxy starts from an empty list.
LEMMA SesSignIn ==
  ASSUME SesInv, KeyType, NEW b \in Browsers, NEW u \in Users, ses[b].acts = <<>>,
         SignIn(b, u, user_required_actions(u)), UNCHANGED <<acct, policy, keyOf>>
  PROVE  SesStep
<1> DEFINE m == [ses[b] EXCEPT !.user = u, !.acts = user_required_actions(u)]
<1>1. ses[b] \in Session
  BY DEF SesInv
<1>2. user_required_actions(u) \in ActionLists
  BY RequiredIsDue
<1>3. m \in Session /\ m.user = u /\ m.acts = user_required_actions(u)
  BY <1>1, <1>2 DEF Session, ActionLists
<1>4. ses' = [ses EXCEPT ![b] = m]
  <2>1. require_actions(ses[b].acts, user_required_actions(u)) = user_required_actions(u)
    BY <1>2, Requires
  <2>2. QED
    BY <1>1, <2>1 DEF SignIn, SesInv, Session
<1> HIDE DEF m
<1>5. ses'[b] = m
  BY <1>4 DEF SesInv
<1>6. Kept(b)
  <2>1. PasskeysRequired' = PasskeysRequired /\ Unmet(ses[b].user)' = Unmet(u)
    BY <1>3, <1>5 DEF Unmet, Passkeys, PasskeysRequired
  <2>2. Due(b)' \subseteq Range(ses'[b].acts)
    BY <1>3, <1>5, <2>1, RequiredIsDue DEF Due
  <2>3. Range(ses[b].acts) = {}
    BY Ranges
  <2>4. QED
    BY <2>2, <2>3 DEF Kept
<1>7. QED
  BY <1>3, <1>4, <1>6, SesSet DEF SesInv

-----------------------------------------------------------------------------
(* The actions                                                             *)

\* The body of CounterRises.
CountStep ==
  \A k \in Keys :
    policy.counts /\ keyOf[k] # None /\ keyOf'[k] # None /\ count'[k] < count[k]
      => \E b \in InFlight(k) : ~flight[b].alone

LEMMA CountSame ==
  ASSUME KeyType, UNCHANGED count
  PROVE  CountStep
BY DEF CountStep, KeyType

\* What an action does, apart from the history of what is owed.
Step == LinkInv' /\ KeyInv' /\ SesStep /\ OtherType' /\ CountStep

LEMMA IssueStep ==
  ASSUME IInv, NEW u \in Users, NEW t \in Links,
         ApiSetupLink(u, t) \/ \E b \in Browsers : account_setup_link(b, u, t)
  PROVE  Step
<1> USE DEF IInv
<1>1. issue(u, t) /\ SameKeys /\ UNCHANGED <<acct, policy, api, ses, flight, edits, uses>>
  BY DEF ApiSetupLink, account_setup_link
<1>2. LinkInv' /\ KeyInv' /\ SesStep
  BY <1>1, LinkIssued, KeysSame, SesSame
<1>3. QED
  BY <1>1, <1>2, CountSame DEF Step, OtherType, SameKeys, KeyInv

LEMMA ExpireStep ==
  ASSUME IInv, NEW t \in Links, Expire(t)
  PROVE  Step
<1> USE DEF IInv
<1>1. /\ lookup(t) /\ link' = [link EXCEPT ![t].st = "dead"]
      /\ SameKeys /\ UNCHANGED <<acct, policy, api, ses, flight, edits, uses>>
  BY DEF Expire
<1>2. LinkInv' /\ KeyInv' /\ SesStep
  BY <1>1, LinkExpired, KeysSame, SesSame
<1>3. QED
  BY <1>1, <1>2, CountSame DEF Step, OtherType, SameKeys, KeyInv

LEMMA account_setup_options_Step ==
  ASSUME IInv, NEW b \in Browsers, NEW t \in Links, account_setup_options(b, t)
  PROVE  Step
<1> USE DEF IInv
<1> DEFINE m == [ses[b] EXCEPT !.setup = t]
<1>1. /\ ses' = [ses EXCEPT ![b] = m]
      /\ SameKeys /\ UNCHANGED <<acct, policy, link, api, flight, edits, uses>>
  BY DEF account_setup_options
<1>2. m \in Session /\ m.user = ses[b].user /\ m.acts = ses[b].acts
  <2>1. ses[b] \in Session
    BY DEF SesInv
  <2>2. QED
    BY <2>1 DEF Session
<1> HIDE DEF m
<1>3. LinkInv' /\ KeyInv' /\ SesStep
  BY <1>1, <1>2, LinkSame, KeysSame, SesField DEF SesInv
<1>4. QED
  BY <1>1, <1>3, CountSame DEF Step, OtherType, SameKeys, KeyInv

\* The checks are made on the policy of this moment; the commit comes later.
LEMMA account_setup_register_Step ==
  ASSUME IInv, NEW b \in Browsers, NEW t \in Links, NEW k \in Keys, account_setup_register(b, t, k)
  PROVE  Step
<1> USE DEF IInv
<1> DEFINE m == [ses[b] EXCEPT !.setup = None]
           f == [Idle EXCEPT !.op = "setup_key", !.link = t, !.key = k]
<1>1. /\ ses' = [ses EXCEPT ![b] = m]
      /\ (register_credential(k) /\ flight' = [flight EXCEPT ![b] = f]) \/ UNCHANGED flight
      /\ SameKeys /\ UNCHANGED <<acct, policy, link, api, edits, uses>>
  BY DEF account_setup_register
<1>2. m \in Session /\ m.user = ses[b].user /\ m.acts = ses[b].acts
  <2>1. ses[b] \in Session
    BY DEF SesInv
  <2>2. QED
    BY <2>1 DEF Session
<1>3. f \in Flight /\ f.op = "setup_key" /\ f.link = t /\ f.key = k
  BY SetupFlight
<1> HIDE DEF m, f
<1>4. KeyInv'
  <2>1. CASE register_credential(k) /\ flight' = [flight EXCEPT ![b] = f]
    <3>1. FlightOK(f) /\ f.op # "verify"
      BY <1>3, <2>1, ChecksOfPage DEF FlightOK, KeyInv
    <3>2. QED
      BY <1>1, <1>3, <2>1, <3>1, FlightSet
  <2>2. CASE UNCHANGED flight
    BY <1>1, <2>2, KeysSame
  <2>3. QED
    BY <1>1, <2>1, <2>2
<1>5. LinkInv' /\ SesStep
  BY <1>1, <1>2, LinkSame, SesField DEF SesInv
<1>6. QED
  BY <1>1, <1>4, <1>5, CountSame DEF Step, OtherType, SameKeys, KeyInv

\* consume and the row of the passkey are one commit.
LEMMA account_setup_registered_Step ==
  ASSUME IInv, NEW b \in Browsers, account_setup_registered(b)
  PROVE  Step
<1> USE DEF IInv
<1> DEFINE t == flight[b].link
           k == flight[b].key
           u == link[t].user
<1>1. /\ flight[b].op = "setup_key" /\ flight' = [flight EXCEPT ![b] = Idle]
      /\ UNCHANGED <<policy, api, edits>>
  BY DEF account_setup_registered
<1>2. t \in Links /\ k \in Good /\ k \in Keys
  BY <1>1 DEF KeyInv, Flights, FlightOK, Good
<1>3. CASE /\ keyOf[k] = None /\ consume(t) /\ Register(k, u, u)
           /\ acct' = [acct EXCEPT ![u].enroll = FALSE]
           /\ uses' = [uses EXCEPT ![t] = @ + 1] /\ ses' = [ses EXCEPT ![b] = NoSession]
  <2>1. LinkInv' /\ u \in Users
    BY <1>2, <1>3, LinkConsumed
  <2>2. KeyInv'
    BY <1>1, <1>2, <1>3, <2>1, KeyWritten DEF Register
  <2>3. acct' \in [Users -> Account]
    BY <1>3, <2>1 DEF SesInv, Account
  <2>4. SesStep
    BY <1>3, <2>3, SesGone
  <2>5. CountStep
    BY <1>2, <1>3 DEF CountStep, Register, KeyInv, KeyType
  <2>6. QED
    BY <1>1, <2>1, <2>2, <2>4, <2>5 DEF Step, OtherType
<1>4. CASE SameKeys /\ UNCHANGED <<acct, link, ses, uses>>
  <2>1. LinkInv' /\ KeyInv' /\ SesStep
    BY <1>1, <1>4, LinkSame, IdleFlight, FlightSet, SesSame
  <2>2. QED
    BY <1>1, <1>4, <2>1, CountSame DEF Step, OtherType, SameKeys, KeyInv
<1>5. QED
  BY <1>3, <1>4 DEF account_setup_registered

LEMMA account_setup_password_Step ==
  ASSUME IInv, NEW b \in Browsers, NEW t \in Links, account_setup_password(b, t)
  PROVE  Step
<1> USE DEF IInv
<1> DEFINE f == [Idle EXCEPT !.op = "setup_password", !.link = t]
<1>1. /\ flight' = [flight EXCEPT ![b] = f]
      /\ SameKeys /\ UNCHANGED <<acct, policy, link, api, ses, edits, uses>>
  BY DEF account_setup_password
<1>2. f \in Flight /\ f.op = "setup_password" /\ f.link = t
  BY PasswordFlight
<1> HIDE DEF f
<1>3. FlightOK(f)
  BY <1>2 DEF FlightOK
<1>4. LinkInv' /\ KeyInv' /\ SesStep
  BY <1>1, <1>2, <1>3, LinkSame, FlightSet, SesSame
<1>5. QED
  BY <1>1, <1>4, CountSame DEF Step, OtherType, SameKeys, KeyInv

LEMMA account_setup_password_set_Step ==
  ASSUME IInv, NEW b \in Browsers, account_setup_password_set(b)
  PROVE  Step
<1> USE DEF IInv
<1> DEFINE t == flight[b].link
           u == link[t].user
<1>1. /\ flight[b].op = "setup_password" /\ flight' = [flight EXCEPT ![b] = Idle]
      /\ SameKeys /\ UNCHANGED <<policy, api, edits>>
  BY DEF account_setup_password_set
<1>2. t \in Links
  BY <1>1 DEF KeyInv, Flights, FlightOK
<1>3. KeyInv'
  BY <1>1, IdleFlight, FlightSet
<1>4. CASE /\ consume(t) /\ acct' = [acct EXCEPT ![u].must = FALSE]
           /\ uses' = [uses EXCEPT ![t] = @ + 1] /\ Pruned(u, b, NoSession)
  <2>1. LinkInv' /\ u \in Users
    BY <1>2, <1>4, LinkConsumed
  <2>2. acct' \in [Users -> Account]
    BY <1>4, <2>1 DEF SesInv, Account
  <2>3. b \in Browsers /\ ses'[b] = NoSession => Kept(b)
    BY NoSessionType, KeptNone
  <2>4. SesStep
    BY <1>4, <2>2, <2>3, NoSessionType, SesPruned
  <2>5. QED
    BY <1>1, <1>3, <2>1, <2>4, CountSame DEF Step, OtherType, SameKeys, KeyInv
<1>5. CASE UNCHANGED <<acct, link, ses, uses>>
  <2>1. LinkInv' /\ SesStep
    BY <1>5, LinkSame, SesSame
  <2>2. QED
    BY <1>1, <1>3, <2>1, CountSame DEF Step, OtherType, SameKeys, KeyInv
<1>6. QED
  BY <1>4, <1>5 DEF account_setup_password_set

LEMMA login_Step ==
  ASSUME IInv, NEW b \in Browsers, NEW u \in Users, login(b, u) \/ proxy(b, u)
  PROVE  Step
<1> USE DEF IInv
<1>1. /\ Anybody(b) /\ SignIn(b, u, user_required_actions(u))
      /\ SameKeys /\ UNCHANGED <<acct, policy, link, api, flight, edits, uses>>
  BY DEF login, proxy
<1>2. ses[b].acts = <<>>
  BY <1>1 DEF Anybody, SesInv, Anonymous
<1>3. SesStep
  BY <1>1, <1>2, SesSignIn DEF SameKeys, KeyInv
<1>4. LinkInv' /\ KeyInv'
  BY <1>1, LinkSame, KeysSame
<1>5. QED
  BY <1>1, <1>3, <1>4, CountSame DEF Step, OtherType, SameKeys, KeyInv

LEMMA logout_Step ==
  ASSUME IInv, NEW b \in Browsers, logout(b) \/ SessionEnds(b)
  PROVE  Step
<1> USE DEF IInv
<1>1. /\ ses' = [ses EXCEPT ![b] = NoSession]
      /\ SameKeys /\ UNCHANGED <<acct, policy, link, api, flight, edits, uses>>
  BY DEF logout, SessionEnds
<1>2. LinkInv' /\ KeyInv' /\ SesStep
  BY <1>1, LinkSame, KeysSame, SesGone DEF SesInv
<1>3. QED
  BY <1>1, <1>2, CountSame DEF Step, OtherType, SameKeys, KeyInv

\* A session that completes an action keeps the others.
LEMMA Completed ==
  ASSUME NEW m \in Session, NEW a \in Actions
  PROVE  LET c == complete_action(m, a)
         IN  c \in Session /\ c.user = m.user /\ Range(c.acts) = Range(m.acts) \ {a}
<1>1. m.acts \in ActionLists
  BY DEF Session, ActionLists
<1>2. Without(m.acts, a) \in ActionLists /\ Range(Without(m.acts, a)) = Range(m.acts) \ {a}
  BY <1>1, Removes
<1>3. QED
  BY <1>2 DEF complete_action, Session, ActionLists

\* The new password meets the action that leaves the list.
LEMMA pw_change_Step ==
  ASSUME IInv, NEW b \in Browsers, pw_change(b)
  PROVE  Step
<1> USE DEF IInv
<1> DEFINE u == ses[b].user
           mine == complete_action(ses[b], "password_change")
<1>1. /\ Handling(b, "password_change") /\ acct' = [acct EXCEPT ![u].must = FALSE]
      /\ Pruned(u, b, mine)
      /\ SameKeys /\ UNCHANGED <<policy, link, api, flight, edits, uses>>
  BY DEF pw_change
<1>2. ses[b] \in Session
  BY DEF SesInv
<1>3. u # None /\ u \in Users
  BY <1>1, <1>2 DEF Handling, Session
<1>4. /\ mine \in Session /\ mine.user = u
      /\ Range(mine.acts) = Range(ses[b].acts) \ {"password_change"}
  BY <1>2, Completed DEF Actions
<1> HIDE DEF mine
<1>5. acct' \in [Users -> Account] /\ ~acct'[u].must
  BY <1>1, <1>3 DEF SesInv, Account
<1>6. ASSUME ses'[b] = mine PROVE Kept(b)
  <2>1. ses'[b].user = u
    BY <1>4, <1>6
  <2>2. "password_change" \notin Unmet(ses[b].user)'
    BY <1>5, <2>1 DEF Unmet
  <2>3. QED
    BY <1>4, <1>6, <2>1, <2>2 DEF Kept
<1>7. SesStep
  BY <1>1, <1>3, <1>4, <1>5, <1>6, SesPruned
<1>8. LinkInv' /\ KeyInv'
  BY <1>1, LinkSame, KeysSame
<1>9. QED
  BY <1>1, <1>7, <1>8, CountSame DEF Step, OtherType, SameKeys, KeyInv

LEMMA process_password_change_Step ==
  ASSUME IInv, NEW b \in Browsers, NEW u \in Users, process_password_change(b, u)
  PROVE  Step
<1> USE DEF IInv
<1>1. /\ Pruned(u, b, ses[b])
      /\ SameKeys /\ UNCHANGED <<acct, policy, link, api, flight, edits, uses>>
  BY DEF process_password_change
<1>2. ses[b] \in Session /\ (ses[b].user = None => ses[b].acts = <<>>)
  BY DEF SesInv, Anonymous
<1>3. ses'[b] = ses[b] => Kept(b)
  BY KeptSame
<1>4. SesStep
  BY <1>1, <1>2, <1>3, SesPruned DEF SesInv
<1>5. LinkInv' /\ KeyInv'
  BY <1>1, LinkSame, KeysSame
<1>6. QED
  BY <1>1, <1>4, <1>5, CountSame DEF Step, OtherType, SameKeys, KeyInv

LEMMA passkey_authentication_options_Step ==
  ASSUME IInv, NEW b \in Browsers, NEW e \in Users \cup {"any"}, passkey_authentication_options(b, e)
  PROVE  Step
<1> USE DEF IInv
<1> DEFINE m == [ses[b] EXCEPT !.login = e]
<1>1. /\ ses' = [ses EXCEPT ![b] = m]
      /\ SameKeys /\ UNCHANGED <<acct, policy, link, api, flight, edits, uses>>
  BY DEF passkey_authentication_options
<1>2. m \in Session /\ m.user = ses[b].user /\ m.acts = ses[b].acts
  <2>1. ses[b] \in Session
    BY DEF SesInv
  <2>2. QED
    BY <2>1 DEF Session
<1> HIDE DEF m
<1>3. LinkInv' /\ KeyInv' /\ SesStep
  BY <1>1, <1>2, LinkSame, KeysSame, SesField DEF SesInv
<1>4. QED
  BY <1>1, <1>3, CountSame DEF Step, OtherType, SameKeys, KeyInv

LEMMA passkey_authenticate_Step ==
  ASSUME IInv, NEW b \in Browsers, NEW k \in Keys, NEW bs \in BOOLEAN, NEW n \in 0 .. MaxCount,
         passkey_authenticate(b, k, bs, n)
  PROVE  Step
<1> USE DEF IInv
<1> DEFINE m == [ses[b] EXCEPT !.login = None]
<1>1. /\ flight[b].op = "idle" /\ ses' = [ses EXCEPT ![b] = m]
      /\ SameKeys /\ UNCHANGED <<acct, policy, link, api, edits, uses>>
  BY DEF passkey_authenticate, Anybody
<1>2. m \in Session /\ m.user = ses[b].user /\ m.acts = ses[b].acts
  <2>1. ses[b] \in Session
    BY DEF SesInv
  <2>2. QED
    BY <2>1 DEF Session
<1> HIDE DEF m
<1>3. (sign_count_allowed(count[k], n) /\ flight' = Marked(b, k, n)) \/ UNCHANGED flight
  BY DEF passkey_authenticate, AssertionAccepted, Marked
<1>4. KeyInv'
  BY <1>1, <1>3, SignInStarted, KeysSame
<1>5. LinkInv' /\ SesStep
  BY <1>1, <1>2, LinkSame, SesField DEF SesInv
<1>6. QED
  BY <1>1, <1>4, <1>5, CountSame DEF Step, OtherType, SameKeys, KeyInv

\* Who signs in with a passkey owes nothing; a sign-in alone with it raises the counter.
LEMMA passkey_authenticated_Step ==
  ASSUME IInv, NEW b \in Browsers, passkey_authenticated(b)
  PROVE  Step
<1> USE DEF IInv
<1> DEFINE k == flight[b].key
<1>1. /\ flight[b].op = "verify" /\ flight' = [flight EXCEPT ![b] = Idle]
      /\ UNCHANGED <<acct, policy, keyOf, link, api, edits, uses, born>>
  BY DEF passkey_authenticated
<1>2. LinkInv'
  BY <1>1, LinkSame
<1>3. /\ k \in Keys /\ flight[b].n \in 0 .. MaxCount
      /\ policy.counts /\ flight[b].alone => count[k] < flight[b].n
  <2>1. flight[b] \in Flight /\ FlightOK(flight[b])
    BY DEF KeyInv, KeyType, Flights
  <2>2. QED
    BY <1>1, <2>1 DEF Flight, FlightOK
<1>4. CASE keyOf[k] # None /\ count' = [count EXCEPT ![k] = flight[b].n] /\ SignIn(b, keyOf[k], <<>>)
  <2>1. KeyInv'
    BY <1>1, <1>4, SignInCommitted
  <2> DEFINE u == keyOf[k]
             m == [ses[b] EXCEPT !.user = u]
  <2>2. u \in Users
    BY <1>3, <1>4 DEF KeyInv, KeyType
  <2>3. ses[b] \in Session
    BY DEF SesInv
  <2>4. require_actions(ses[b].acts, <<>>) = ses[b].acts
    BY DEF require_actions
  <2>5. m \in Session /\ m.user = u /\ m.acts = ses[b].acts
    BY <2>2, <2>3 DEF Session
  <2>6. ses' = [ses EXCEPT ![b] = m]
    BY <1>4, <2>3, <2>4 DEF SignIn, SesInv, Session
  <2> HIDE DEF m
  <2>7. ses'[b] = m
    BY <2>6 DEF SesInv
  <2>8. Kept(b)
    <3>1. Passkeys(ses[b].user)' # {}
      BY <1>1, <1>3, <2>5, <2>7 DEF Passkeys
    <3>2. Unmet(ses[b].user)' = {}
      BY <3>1 DEF Unmet
    <3>3. QED
      BY <3>2 DEF Kept, Due
  <2>9. SesStep
    BY <1>1, <2>2, <2>5, <2>6, <2>8, SesSet DEF SesInv
  <2>10. CountStep
    <3> SUFFICES ASSUME NEW j \in Keys, policy.counts, count'[j] < count[j]
                 PROVE  \E x \in InFlight(j) : ~flight[x].alone
      BY DEF CountStep
    <3>1. j = k
      BY <1>3, <1>4 DEF KeyInv, KeyType
    <3>2. ~flight[b].alone
      BY <1>3, <1>4, <3>1 DEF KeyInv, KeyType
    <3>3. QED
      BY <1>1, <3>1, <3>2 DEF InFlight
  <2>11. QED
    BY <1>1, <1>2, <2>1, <2>9, <2>10 DEF Step, OtherType
<1>5. CASE UNCHANGED <<count, ses>>
  <2>1. KeyInv' /\ SesStep
    BY <1>1, <1>5, IdleFlight, FlightSet, SesSame DEF SameKeys
  <2>2. QED
    BY <1>1, <1>2, <1>5, <2>1, CountSame DEF Step, OtherType, KeyInv
<1>6. QED
  BY <1>4, <1>5 DEF passkey_authenticated

LEMMA passkey_registration_options_Step ==
  ASSUME IInv, NEW b \in Browsers, NEW u \in Users, passkey_registration_options(b, u)
  PROVE  Step
<1> USE DEF IInv
<1> DEFINE m == [ses[b] EXCEPT !.reg = u]
<1>1. /\ ses' = [ses EXCEPT ![b] = m]
      /\ SameKeys /\ UNCHANGED <<acct, policy, link, api, flight, edits, uses>>
  BY DEF passkey_registration_options
<1>2. m \in Session /\ m.user = ses[b].user /\ m.acts = ses[b].acts
  <2>1. ses[b] \in Session
    BY DEF SesInv
  <2>2. QED
    BY <2>1 DEF Session
<1> HIDE DEF m
<1>3. LinkInv' /\ KeyInv' /\ SesStep
  BY <1>1, <1>2, LinkSame, KeysSame, SesField DEF SesInv
<1>4. QED
  BY <1>1, <1>3, CountSame DEF Step, OtherType, SameKeys, KeyInv

\* The head of a list of pending actions is an action.
LEMMA HeadIsAction ==
  ASSUME NEW l \in ActionLists, l # <<>>
  PROVE  Head(l) \in Actions
BY DEF ActionLists, Actions

\* The user of the session registers a passkey, which meets all that is owed; somebody who
\* manages the account leaves his own list alone.
LEMMA passkey_register_Step ==
  ASSUME IInv, NEW b \in Browsers, NEW u \in Users, NEW k \in Keys, passkey_register(b, u, k)
  PROVE  Step
<1> USE DEF IInv
<1> DEFINE popped == [ses[b] EXCEPT !.reg = None]
           own == u = ses[b].user /\ ses[b].acts # <<>>
           done == complete_action(popped, Head(popped.acts))
<1>1. ses[b] \in Session
  BY DEF SesInv
<1>2. popped \in Session /\ popped.user = ses[b].user /\ popped.acts = ses[b].acts
  BY <1>1 DEF Session
<1>3. UNCHANGED <<policy, link, api, flight, edits, uses>>
  BY DEF passkey_register
<1>4. LinkInv'
  BY <1>3, LinkSame
<1>5. CASE /\ CeremonyFor(b, u) /\ register_credential(k) /\ Register(k, u, ses[b].reg)
           /\ acct' = [acct EXCEPT ![u].enroll = FALSE,
                  ![u].must = @ /\ ~(own /\ "password_change" \in Range(ses[b].acts))]
           /\ ses' = [ses EXCEPT ![b] = IF own THEN done ELSE popped]
  <2>1. KeyInv'
    <3>1. k \in Good /\ ses[b].reg = u
      BY <1>5, ChecksOfPage DEF KeyInv, CeremonyFor
    <3>2. QED
      BY <1>3, <1>5, <3>1, KeyWritten DEF Register
  <2>2. keyOf[k] = None /\ keyOf'[k] = u
    BY <1>5 DEF register_credential, Register, KeyInv, KeyType
  <2>3. CountStep
    BY <1>5, <2>2 DEF CountStep, Register, KeyInv, KeyType
  <2>4. acct' \in [Users -> Account]
    <3>1. acct[u] \in Account
      BY DEF SesInv
    <3>2. (acct[u].must /\ ~(own /\ "password_change" \in Range(ses[b].acts))) \in BOOLEAN
      OBVIOUS
    <3> DEFINE must == acct[u].must /\ ~(own /\ "password_change" \in Range(ses[b].acts))
               a == [acct[u] EXCEPT !.enroll = FALSE, !.must = must]
    <3> HIDE DEF must
    <3>3. a \in Account
      BY <3>1, <3>2 DEF Account, must
    <3>4. acct' = [acct EXCEPT ![u] = a]
      BY <1>5, <3>1 DEF SesInv, Account, must
    <3>5. QED
      BY <3>3, <3>4 DEF SesInv
  <2>5. CASE own
    <3>1. Head(popped.acts) \in Actions
      BY <1>2, <2>5, HeadIsAction DEF Session, ActionLists
    <3>2. /\ done \in Session /\ done.user = u /\ u # None
      BY <1>2, <2>5, <3>1, Completed
    <3> HIDE DEF done
    <3>3. ses' = [ses EXCEPT ![b] = done] /\ ses'[b] = done
      BY <1>5, <2>5 DEF SesInv
    <3>4. Kept(b)
      <4>1. Passkeys(ses[b].user)' # {}
        BY <2>2, <3>2, <3>3 DEF Passkeys
      <4>2. Unmet(ses[b].user)' = {}
        BY <4>1 DEF Unmet
      <4>3. QED
        BY <4>2 DEF Kept, Due
    <3>5. SesStep
      BY <2>4, <3>2, <3>3, <3>4, SesSet
    <3>6. QED
      BY <1>3, <1>4, <2>1, <2>3, <3>5 DEF Step, OtherType
  <2>6. CASE ~own
    <3>1. SesStep
      BY <1>2, <1>5, <2>4, <2>6, SesField
    <3>2. QED
      BY <1>3, <1>4, <2>1, <2>3, <3>1 DEF Step, OtherType
  <2>7. QED
    BY <2>5, <2>6
<1>6. CASE ses' = [ses EXCEPT ![b] = popped] /\ SameKeys /\ UNCHANGED acct
  <2>1. KeyInv' /\ SesStep
    BY <1>2, <1>3, <1>6, KeysSame, SesField DEF SesInv
  <2>2. QED
    BY <1>3, <1>4, <1>6, <2>1, CountSame DEF Step, OtherType, SameKeys, KeyInv
<1>7. QED
  BY <1>5, <1>6 DEF passkey_register

\* The page lets go of the enrollment only when there is a passkey or nobody asks for one.
LEMMA passkey_required_Step ==
  ASSUME IInv, NEW b \in Browsers, passkey_required(b)
  PROVE  Step
<1> USE DEF IInv
<1> DEFINE u == ses[b].user
           m == complete_action(ses[b], "passkey_enrollment")
<1>1. /\ Handling(b, "passkey_enrollment")
      /\ Passkeys(u) # {} \/ (~acct[u].enroll /\ ~PasskeysRequired)
      /\ ses' = [ses EXCEPT ![b] = m]
      /\ SameKeys /\ UNCHANGED <<acct, policy, link, api, flight, edits, uses>>
  BY DEF passkey_required
<1>2. ses[b] \in Session
  BY DEF SesInv
<1>3. u # None
  BY <1>1 DEF Handling
<1>4. /\ m \in Session /\ m.user = u
      /\ Range(m.acts) = Range(ses[b].acts) \ {"passkey_enrollment"}
  BY <1>2, Completed DEF Actions
<1> HIDE DEF m
<1>5. ses'[b] = m
  BY <1>1 DEF SesInv
<1>6. Kept(b)
  <2>1. /\ Passkeys(ses[b].user)' = Passkeys(u) /\ PasskeysRequired' = PasskeysRequired
        /\ ses'[b].user = u /\ acct' = acct
    BY <1>1, <1>4, <1>5 DEF Passkeys, PasskeysRequired, SameKeys
  <2>2. "passkey_enrollment" \notin Unmet(ses[b].user)'
    BY <1>1, <2>1 DEF Unmet
  <2>3. QED
    BY <1>4, <1>5, <2>1, <2>2 DEF Kept
<1>7. SesStep
  BY <1>1, <1>3, <1>4, <1>6, SesSet DEF SesInv
<1>8. LinkInv' /\ KeyInv'
  BY <1>1, LinkSame, KeysSame
<1>9. QED
  BY <1>1, <1>7, <1>8, CountSame DEF Step, OtherType, SameKeys, KeyInv

LEMMA passkey_delete_Step ==
  ASSUME IInv, NEW k \in Keys, ApiPasskeyDelete(k) \/ \E b \in Browsers : passkey_delete(b, k)
  PROVE  Step
<1> USE DEF IInv
<1>1. /\ edits < MaxEdits /\ edits' = edits + 1 /\ Removed(k)
      /\ UNCHANGED <<acct, policy, link, api, ses, flight, uses>>
  BY DEF ApiPasskeyDelete, passkey_delete
<1>2. KeyInv'
  BY <1>1, KeyWritten DEF Removed
<1>3. LinkInv' /\ SesStep
  BY <1>1, LinkSame, SesSame
<1>4. CountStep
  BY <1>1 DEF CountStep, Removed, KeyInv, KeyType
<1>5. OtherType'
  BY <1>1 DEF OtherType
<1>6. QED
  BY <1>2, <1>3, <1>4, <1>5 DEF Step

LEMMA ApiEntryStep ==
  ASSUME IInv, NEW r \in Requests, ApiExpire(r) \/ \E u \in Users : ApiPasskeyOptions(r, u)
  PROVE  Step
<1> USE DEF IInv
<1>1. /\ SameKeys /\ UNCHANGED <<acct, policy, link, ses, flight, edits, uses>>
      /\ \E u \in Users \cup {None} : api' = [api EXCEPT ![r] = u]
  BY DEF ApiExpire, ApiPasskeyOptions
<1>2. LinkInv' /\ KeyInv' /\ SesStep
  BY <1>1, LinkSame, KeysSame, SesSame
<1>3. OtherType'
  BY <1>1 DEF OtherType
<1>4. QED
  BY <1>1, <1>2, <1>3, CountSame DEF Step, SameKeys, KeyInv

LEMMA ApiPasskeyRegisterStep ==
  ASSUME IInv, NEW r \in Requests, NEW u \in Users, NEW k \in Keys, ApiPasskeyRegister(r, u, k)
  PROVE  Step
<1> USE DEF IInv
<1>1. api' = [api EXCEPT ![r] = None] /\ UNCHANGED <<acct, policy, link, ses, flight, edits, uses>>
  BY DEF ApiPasskeyRegister
<1>2. LinkInv' /\ SesStep
  BY <1>1, LinkSame, SesSame
<1>3. OtherType'
  BY <1>1 DEF OtherType
<1>4. CASE /\ api[r] = u /\ Verified(Traits[k]) /\ check_registration_policy(Traits[k])
           /\ keyOf[k] = None /\ Register(k, u, api[r])
  <2>1. k \in Good
    BY <1>4, Checks DEF KeyInv
  <2>2. KeyInv'
    BY <1>1, <1>4, <2>1, KeyWritten DEF Register
  <2>3. CountStep
    BY <1>4 DEF CountStep, Register, KeyInv, KeyType
  <2>4. QED
    BY <1>2, <1>3, <2>2, <2>3 DEF Step
<1>5. CASE SameKeys
  BY <1>1, <1>2, <1>3, <1>5, KeysSame, CountSame DEF Step, SameKeys, KeyInv
<1>6. QED
  BY <1>4, <1>5 DEF ApiPasskeyRegister

LEMMA UserEdited ==
  ASSUME IInv, NEW u \in Users,
         ApiUserPatch(u) \/ \E b \in Browsers : user_edit(b, u)
  PROVE  Step
<1> USE DEF IInv
<1>1. /\ edits < MaxEdits /\ edits' = edits + 1
      /\ SameKeys /\ UNCHANGED <<policy, link, api, flight, uses>>
      /\ UNCHANGED ses \/ Pruned(u, None, NoSession)
  BY DEF ApiUserPatch, user_edit
<1>2. acct' \in [Users -> Account]
  <2>1. acct[u] \in Account
    BY DEF SesInv
  <2>2. \A a \in Account : [a EXCEPT !.enroll = acct[u].enroll] \in Account
    BY <2>1 DEF Account
  <2>3. \E a \in Account : acct' = [acct EXCEPT ![u] = a]
    BY <2>2 DEF ApiUserPatch, user_edit
  <2>4. QED
    BY <2>3 DEF SesInv
<1>3. SesStep
  <2>1. CASE UNCHANGED ses
    <3>1. \A b \in Browsers : Kept(b)
      BY <2>1, KeptSame
    <3>2. QED
      BY <1>2, <2>1, <3>1 DEF SesStep, SesInv, Anonymous
  <2>2. CASE Pruned(u, None, NoSession)
    <3>1. None \in Browsers /\ ses'[None] = NoSession => Kept(None)
      BY NoSessionType, KeptNone
    <3>2. QED
      BY <1>2, <2>2, <3>1, NoSessionType, SesPruned
  <2>3. QED
    BY <1>1, <2>1, <2>2
<1>4. LinkInv' /\ KeyInv'
  BY <1>1, LinkSame, KeysSame
<1>5. OtherType'
  BY <1>1 DEF OtherType
<1>6. QED
  BY <1>1, <1>3, <1>4, <1>5, CountSame DEF Step, SameKeys, KeyInv

LEMMA domain_edit_Step ==
  ASSUME IInv, domain_edit
  PROVE  Step
<1> USE DEF IInv
<1>1. /\ edits < MaxEdits /\ policy' = [policy EXCEPT !.enroll = ~@] /\ edits' = edits + 1
      /\ SameKeys /\ UNCHANGED <<acct, link, api, ses, flight, uses>>
  BY DEF domain_edit
<1>2. LinkInv' /\ KeyInv' /\ SesStep
  BY <1>1, LinkSame, PolicyEdited, SesSame
<1>3. OtherType'
  BY <1>1 DEF OtherType
<1>4. QED
  BY <1>1, <1>2, <1>3, CountSame DEF Step, SameKeys, KeyInv

-----------------------------------------------------------------------------
LEMMA InitInv == Init => IInv
<1> SUFFICES ASSUME Init PROVE IInv
  OBVIOUS
<1>1. LinkInv
  BY DEF Init, LinkInv, LinkType, SingleUse
<1>2. KeyInv
  <2>1. KeyType
    BY IdleFlight DEF Init, KeyType
  <2>2. Flights /\ Alone
    BY DEF Init, Flights, FlightOK, Alone, Idle
  <2>3. KeyMatchesCeremony /\ KeysMeetPolicy
    BY DEF Init, KeyMatchesCeremony, KeysMeetPolicy
  <2>4. QED
    BY <2>1, <2>2, <2>3 DEF KeyInv
<1>3. SesInv
  <2>1. acct \in [Users -> Account]
    <3>1. \E flags \in SUBSET BOOLEAN : acct \in [Users -> [enabled : {TRUE}, must : flags, enroll : flags]]
      BY DEF Init
    <3>2. QED
      BY <3>1 DEF Account
  <2>2. QED
    BY <2>1, NoSessionType DEF Init, SesInv, Anonymous
<1>4. OtherType /\ OwedInv
  BY DEF Init, OtherType, OwedInv, ActionsHonoured
<1>5. QED
  BY <1>1, <1>2, <1>3, <1>4 DEF IInv

LEMMA NextStep ==
  ASSUME IInv, Next
  PROVE  Step
<1>1. PICK b \in Browsers :
        \/ Sessions(b)
        \/ SetupLinks(b) \/ Pages(b) \/ Ceremonies(b)
  BY DEF Next
<1>2. CASE Sessions(b)
  BY <1>2, logout_Step, login_Step DEF Sessions
<1>3. CASE SetupLinks(b)
  <2>1. CASE account_setup_registered(b) \/ account_setup_password_set(b)
    BY <2>1, account_setup_registered_Step, account_setup_password_set_Step
  <2>2. CASE pw_change(b) \/ passkey_required(b)
    BY <2>2, pw_change_Step, passkey_required_Step
  <2>3. ASSUME NEW t \in Links, account_setup_options(b, t) \/ account_setup_password(b, t) \/ Expire(t)
        PROVE  Step
    BY <2>3, account_setup_options_Step, account_setup_password_Step, ExpireStep
  <2>4. ASSUME NEW t \in Links, NEW k \in Keys, account_setup_register(b, t, k)
        PROVE  Step
    BY <2>4, account_setup_register_Step
  <2>5. ASSUME NEW t \in Links, NEW u \in Users, account_setup_link(b, u, t) \/ ApiSetupLink(u, t)
        PROVE  Step
    BY <2>5, IssueStep
  <2>6. ASSUME NEW u \in Users, ApiUserPatch(u)
        PROVE  Step
    BY <2>6, UserEdited
  <2>7. QED
    BY <1>3, <2>1, <2>2, <2>3, <2>4, <2>5, <2>6 DEF SetupLinks
<1>4. CASE Pages(b)
  <2>1. CASE pw_change(b) \/ passkey_required(b) \/ domain_edit
    BY <2>1, pw_change_Step, passkey_required_Step, domain_edit_Step
  <2>2. ASSUME NEW k \in Keys, passkey_delete(b, k)
        PROVE  Step
    BY <2>2, passkey_delete_Step
  <2>3. ASSUME NEW u \in Users, proxy(b, u) \/ user_edit(b, u) \/ ApiUserPatch(u)
        PROVE  Step
    BY <2>3, login_Step, UserEdited
  <2>4. ASSUME NEW u \in Users, process_password_change(b, u) \/ passkey_registration_options(b, u)
        PROVE  Step
    BY <2>4, process_password_change_Step, passkey_registration_options_Step
  <2>5. ASSUME NEW u \in Users, NEW k \in Keys, passkey_register(b, u, k)
        PROVE  Step
    BY <2>5, passkey_register_Step
  <2>6. QED
    BY <1>4, <2>1, <2>2, <2>3, <2>4, <2>5 DEF Pages
<1>5. CASE Ceremonies(b)
  <2>1. CASE passkey_authenticated(b)
    BY <2>1, passkey_authenticated_Step
  <2>2. ASSUME NEW e \in Users \cup {"any"}, passkey_authentication_options(b, e)
        PROVE  Step
    BY <2>2, passkey_authentication_options_Step
  <2>3. ASSUME NEW k \in Keys, ApiPasskeyDelete(k)
        PROVE  Step
    BY <2>3, passkey_delete_Step
  <2>4. ASSUME NEW k \in Keys, NEW bs \in BOOLEAN, NEW n \in 0 .. MaxCount,
               passkey_authenticate(b, k, bs, n)
        PROVE  Step
    BY <2>4, passkey_authenticate_Step
  <2>5. ASSUME NEW r \in Requests, ApiExpire(r) \/ \E u \in Users : ApiPasskeyOptions(r, u)
        PROVE  Step
    BY <2>5, ApiEntryStep
  <2>6. ASSUME NEW r \in Requests, NEW u \in Users, NEW k \in Keys, ApiPasskeyRegister(r, u, k)
        PROVE  Step
    BY <2>6, ApiPasskeyRegisterStep
  <2>7. QED
    BY <1>5, <2>1, <2>2, <2>3, <2>4, <2>5, <2>6 DEF Ceremonies
<1>6. QED
  BY <1>1, <1>2, <1>3, <1>4, <1>5

LEMMA NextInv == IInv /\ [Next]_vars => IInv'
<1> SUFFICES ASSUME IInv, [Next]_vars PROVE IInv'
  OBVIOUS
<1>1. CASE Next
  <2>1. Step
    BY <1>1, NextStep
  <2>2. Owes
    BY <1>1 DEF Next
  <2>3. OwedInv'
    BY <2>1, <2>2, OwedStep DEF IInv, Step, SesStep
  <2>4. QED
    BY <2>1, <2>3 DEF IInv, Step, SesStep
<1>2. CASE UNCHANGED vars
  <2>1. LinkInv' /\ KeyInv' /\ SesInv'
    BY <1>2, LinkSame, KeysSame, SesSame DEF IInv, vars, SameKeys, SesStep
  <2>2. OtherType' /\ OwedInv'
    BY <1>2 DEF IInv, vars, OtherType, OwedInv, ActionsHonoured
  <2>3. QED
    BY <2>1, <2>2 DEF IInv
<1>3. QED
  BY <1>1, <1>2

\* The parts of the invariant hold in every reachable state.
THEOREM Invariance == Spec => []IInv
BY InitInv, NextInv, PTL DEF Spec

\* Every variable keeps its type; in particular the pending actions of a session are always
\* in the order of auth_flow, each at most once.
THEOREM Typing == Spec => []TypeOK
<1>1. IInv => TypeOK
  BY DEF IInv, TypeOK, LinkInv, LinkType, KeyInv, KeyType, SesInv, OtherType, OwedInv
<1>2. QED
  BY <1>1, Invariance, PTL

\* A setup link changes its account at most once, and never after it was replaced or expired,
\* whatever requests looked it up before: the row count of the DELETE in consume decides.
THEOREM LinksUsedOnce == Spec => []SingleUse
<1>1. IInv => SingleUse
  BY DEF IInv, LinkInv
<1>2. QED
  BY <1>1, Invariance, PTL

\* A passkey belongs to the account its challenge was generated for.
THEOREM CeremonyAccounts == Spec => []KeyMatchesCeremony
<1>1. IInv => KeyMatchesCeremony
  BY DEF IInv, KeyInv
<1>2. QED
  BY <1>1, Invariance, PTL

\* Every registered passkey meets the policy of the domain, on all three ways to register
\* one, although the way by a setup link checks before another request's commit and writes
\* after it.
THEOREM PolicyMet == Spec => []KeysMeetPolicy
<1>1. IInv => KeysMeetPolicy
  BY DEF IInv, KeyInv
<1>2. QED
  BY <1>1, Invariance, PTL

\* No session gets rid of a required action that its user still owes.
THEOREM ActionsKept == Spec => []ActionsHonoured
<1>1. IInv => ActionsHonoured
  BY DEF IInv, OwedInv
<1>2. QED
  BY <1>1, Invariance, PTL

\* Where the domain requires it, the stored signature counter of a passkey falls only when
\* two sign-ins with that passkey overlapped.
THEOREM CountersRise == Spec => CounterRises
<1>1. IInv /\ [Next]_vars => [CountStep]_vars
  <2>1. IInv /\ Next => CountStep
    BY NextStep DEF Step
  <2>2. QED
    BY <2>1
<1>2. QED
  BY <1>1, Invariance, PTL DEF Spec, CounterRises, CountStep

=============================================================================
