------------------------------ MODULE Accounts ------------------------------
(***************************************************************************)
(* How an account gets its credentials and how a browser signs in: setup   *)
(* links, passkey ceremonies, the sign-in pages and the actions a user     *)
(* has to complete after a sign-in (core/admin/mailu: setup_tokens.py,     *)
(* passkeys.py, auth_flow.py, sso/views, ui/views/passkeys.py,             *)
(* api/v1/passkey.py).                                                     *)
(*                                                                         *)
(* A challenge stands for the account it was generated for.  Handlers that *)
(* check something and write later are two steps; one browser sends one    *)
(* request at a time.  Accounts are made and deleted in Directory.         *)
(***************************************************************************)
EXTENDS Integers, FiniteSets, Sequences, Functions

CONSTANTS
  Users, Admins,    \* the accounts; those that manage the others
  Browsers, Keys, Links,
  Requests,         \* request ids of the passkey API
  Aaguids,          \* makes of authenticators
  Policies,         \* the domain's passkey policies to consider
  Traits,           \* what each authenticator reports of itself
  PASSKEY_REQUIRED, PROXY_AUTH,
  MaxCount,         \* bound on a signature counter
  MaxEdits,         \* bound on edits by administrators
  Focuses,          \* which of "links", "pages" and "keys" the behaviours are about
  None

Rules == {"optional", "require", "deny"}

Policy == [enroll : BOOLEAN, counts : BOOLEAN, bound : BOOLEAN, uv : BOOLEAN,
           aaguid : {"off", "block", "allow"}, listed : SUBSET Aaguids,
           eligible : Rules, backup : Rules, attestation : Rules]

\* AAGUID, backup eligible, backed up, attested, user verified
Trait == [aaguid : Aaguids, be : BOOLEAN, bs : BOOLEAN, attested : BOOLEAN, uv : BOOLEAN]

ASSUME AccountConstants ==
  /\ Policies \subseteq Policy /\ Traits \in [Keys -> Trait]
  /\ Admins \subseteq Users /\ None \notin Users \cup Keys \cup Links
  /\ MaxCount \in Nat /\ MaxEdits \in Nat
  /\ PASSKEY_REQUIRED \in BOOLEAN /\ PROXY_AUTH \in BOOLEAN

VARIABLES
  focus,   \* what this behaviour is about: it splits the state space
  acct,    \* per user: enabled, change_pw_next_login, passkey_enroll_next_login
  policy,  \* the passkey policy of their domain
  keyOf,   \* the passkey table: per credential its user
  count,   \* Passkey.sign_count
  link,    \* per setup token: its row, and what became of it
  api,     \* "api-passkey-registration-" entries of the session store
  ses,     \* per browser: its session
  flight,  \* per browser: the request between its check and its commit
  edits,
  uses,    \* history: how often a link changed its account
  born,    \* history: the account each passkey's ceremony was for
  owed     \* history: the actions a browser's user still owes

vars == <<focus, acct, policy, keyOf, count, link, api, ses, flight, edits, uses, born, owed>>

Actions == {"password_change", "passkey_enrollment"}

Account == [enabled : BOOLEAN, must : BOOLEAN, enroll : BOOLEAN]

\* The session fields: user, required_actions, account_setup_hash with its
\* challenge, passkey_registration_user with its challenge, and the account
\* a sign-in challenge is for ("any" when no address was given).
Session == [user : Users \cup {None},
            acts : {<<>>, <<"password_change">>, <<"passkey_enrollment">>,
                    <<"password_change", "passkey_enrollment">>},
            setup : Links \cup {None}, reg : Users \cup {None},
            login : Users \cup {"any", None}]

NoSession == [user |-> None, acts |-> <<>>, setup |-> None, reg |-> None, login |-> None]

Idle == [op |-> "idle", link |-> None, key |-> None, n |-> 0, alone |-> TRUE]

Flight == [op : {"idle", "setup_key", "setup_password", "verify"}, link : Links \cup {None},
           key : Keys \cup {None}, n : 0 .. MaxCount, alone : BOOLEAN]

Passkeys(u) == {k \in Keys : keyOf[k] = u}

-----------------------------------------------------------------------------
(* The domain's policy on authenticators.                                  *)

aaguid_allowed(t) ==
  \/ policy.aaguid = "off"
  \/ policy.aaguid = "block" /\ t.aaguid \notin policy.listed
  \/ policy.aaguid = "allow" /\ (policy.listed = {} \/ t.aaguid \in policy.listed)

Obeys(rule, flag) == ~(rule = "require" /\ ~flag) /\ ~(rule = "deny" /\ flag)

authenticator_flags_allowed(t) == Obeys(policy.eligible, t.be) /\ Obeys(policy.backup, t.bs)

attestation_allowed(t) == Obeys(policy.attestation, t.attested)

\* A credential is single-device exactly when it is not backup eligible.
DeviceBound(t) == policy.bound => ~t.be /\ ~t.bs

Verified(t) == policy.uv => t.uv

sign_count_allowed(old, new) == ~policy.counts \/ new > old

\* register_credential up to the row it stages.
register_credential(k) ==
  LET t == Traits[k] IN
  /\ Verified(t) /\ aaguid_allowed(t) /\ DeviceBound(t)
  /\ authenticator_flags_allowed(t) /\ attestation_allowed(t)
  /\ keyOf[k] = None

\* Mutant: the copy of these checks in the API leaves the backup flags out.
check_registration_policy_Bug(t) ==
  aaguid_allowed(t) /\ DeviceBound(t) /\ attestation_allowed(t)

\* _check_registration_policy: the API's own copy of the checks.
check_registration_policy(t) ==
  /\ aaguid_allowed(t) /\ DeviceBound(t)
  /\ authenticator_flags_allowed(t) /\ attestation_allowed(t)

Register(k, u, ceremony) ==
  /\ keyOf' = [keyOf EXCEPT ![k] = u]
  /\ count' = [count EXCEPT ![k] = 0]
  /\ born' = [born EXCEPT ![k] = ceremony]

SameKeys == UNCHANGED <<keyOf, count, born>>

-----------------------------------------------------------------------------
(* Required actions.                                                       *)

PasskeysRequired == PASSKEY_REQUIRED \/ policy.enroll

user_required_actions(u) ==
  LET change == IF acct[u].must /\ ~PasskeysRequired THEN <<"password_change">> ELSE <<>>
  IN  IF Passkeys(u) # {} THEN <<>>
      ELSE IF acct[u].enroll \/ PasskeysRequired THEN Append(change, "passkey_enrollment")
      ELSE change

\* An action is appended unless it is pending already.
Queued(pending, a) == IF a \in Range(pending) THEN pending ELSE Append(pending, a)

\* The loop over the actions, of which there are at most two.
require_actions(pending, actions) ==
  LET first == IF actions = <<>> THEN pending ELSE Queued(pending, actions[1])
  IN  IF Len(actions) < 2 THEN first ELSE Queued(first, actions[2])

\* list.remove, on at most two actions.
Without(pending, a) ==
  IF a \notin Range(pending) THEN pending
  ELSE IF Head(pending) = a THEN Tail(pending) ELSE <<Head(pending)>>

\* Mutant: one completed action clears the whole list.
complete_action_Bug(s, a) == [s EXCEPT !.acts = <<>>]

\* An action that is not pending makes complete_action raise.
complete_action(s, a) == [s EXCEPT !.acts = Without(@, a)]

\* enforce_pending_actions: which requests of browser b reach their handler.
Anybody(b) == flight[b].op = "idle" /\ (ses[b].user = None \/ ses[b].acts = <<>>)
SignedIn(b) == flight[b].op = "idle" /\ ses[b].user # None /\ ses[b].acts = <<>>
Handling(b, a) ==
  /\ flight[b].op = "idle" /\ ses[b].user # None
  /\ ses[b].acts # <<>> => Head(ses[b].acts) = a
OwnPasskeys(b, u) ==
  /\ flight[b].op = "idle" /\ ses[b].user # None
  /\ ses[b].acts = <<>> \/ u = ses[b].user

\* access.owner: the account itself or somebody who manages it.
Owner(b, u) == u = ses[b].user \/ ses[b].user \in Admins

\* What a user still owes: nothing once there is a passkey, and no action
\* that an administrator, a new password or a new policy has lifted.
Unmet(u) ==
  IF u = None \/ Passkeys(u) # {} THEN {}
  ELSE {a \in Actions : IF a = "password_change" THEN acct[u].must
                        ELSE acct[u].enroll \/ PasskeysRequired}

\* At a sign-in nobody is asked for a password where passkeys are required.
Due(b) == Unmet(ses[b].user) \ (IF PasskeysRequired THEN {"password_change"} ELSE {})

Owes == owed' = [b \in Browsers |->
  IF ses'[b].user = ses[b].user THEN owed[b] \cap Unmet(ses[b].user)' ELSE Due(b)']

-----------------------------------------------------------------------------
(* Setup links.                                                            *)

\* issue: the outstanding link of the user is replaced.
issue(u, t) ==
  /\ link[t].st = "none"
  /\ link' = [x \in Links |->
       IF x = t THEN [st |-> "live", user |-> u]
       ELSE IF link[x].st = "live" /\ link[x].user = u THEN [link[x] EXCEPT !.st = "dead"]
       ELSE link[x]]

\* lookup returns only a link that is neither gone nor expired.
lookup(t) == link[t].st = "live"

\* Mutant: the row count of the DELETE is not looked at.
consume_Bug(t) ==
  link' = IF lookup(t) THEN [link EXCEPT ![t].st = "used"] ELSE link

consume(t) == lookup(t) /\ link' = [link EXCEPT ![t].st = "used"]

account_setup_requires_passkey(u) == acct[u].enroll \/ PasskeysRequired

account_setup_link(b, u, t) ==
  /\ SignedIn(b) /\ ses[b].user \in Admins
  /\ issue(u, t)
  /\ SameKeys /\ UNCHANGED <<acct, policy, api, ses, flight, edits, uses>>

ApiSetupLink(u, t) ==
  /\ issue(u, t)
  /\ SameKeys /\ UNCHANGED <<acct, policy, api, ses, flight, edits, uses>>

\* expires_at passes.
Expire(t) ==
  /\ lookup(t)
  /\ link' = [link EXCEPT ![t].st = "dead"]
  /\ SameKeys /\ UNCHANGED <<acct, policy, api, ses, flight, edits, uses>>

account_setup_options(b, t) ==
  /\ Anybody(b) /\ lookup(t) /\ acct[link[t].user].enabled
  /\ ses' = [ses EXCEPT ![b].setup = t]
  /\ SameKeys /\ UNCHANGED <<acct, policy, link, api, flight, edits, uses>>

\* Up to consume(): the challenge and the hash leave the session in any case.
account_setup_register(b, t, k) ==
  /\ Anybody(b)
  /\ ses' = [ses EXCEPT ![b].setup = None]
  /\ IF lookup(t) /\ acct[link[t].user].enabled /\ ses[b].setup = t /\ register_credential(k)
     THEN flight' = [flight EXCEPT ![b] = [Idle EXCEPT !.op = "setup_key", !.link = t, !.key = k]]
     ELSE ses[b].setup # None /\ UNCHANGED flight
  /\ SameKeys /\ UNCHANGED <<acct, policy, link, api, edits, uses>>

\* The rest: consume and commit, or roll back; a session that came here has
\* no pending action, so the branch that completes one is never taken.
account_setup_registered(b) ==
  LET t == flight[b].link  k == flight[b].key  u == link[t].user IN
  /\ flight[b].op = "setup_key"
  /\ flight' = [flight EXCEPT ![b] = Idle]
  /\ \/ /\ keyOf[k] = None /\ consume(t)
        /\ Register(k, u, u)
        /\ acct' = [acct EXCEPT ![u].enroll = FALSE]
        /\ uses' = [uses EXCEPT ![t] = @ + 1]
        /\ ses' = [ses EXCEPT ![b] = NoSession]
     \/ /\ keyOf[k] # None \/ ~lookup(t)
        /\ SameKeys /\ UNCHANGED <<acct, link, ses, uses>>
  /\ UNCHANGED <<policy, api, edits>>

account_setup_password(b, t) ==
  /\ Anybody(b) /\ lookup(t) /\ acct[link[t].user].enabled
  /\ ~account_setup_requires_passkey(link[t].user) /\ Passkeys(link[t].user) = {}
  /\ flight' = [flight EXCEPT ![b] = [Idle EXCEPT !.op = "setup_password", !.link = t]]
  /\ SameKeys /\ UNCHANGED <<acct, policy, link, api, ses, edits, uses>>

\* set_password ends the account's sessions, save those a request rewrites.
Pruned(u, b, mine) ==
  \E S \in SUBSET {x \in Browsers \ {b} : ses[x].user = u} :
    ses' = [x \in Browsers |-> IF x \in S THEN NoSession ELSE IF x = b THEN mine ELSE ses[x]]

account_setup_password_set(b) ==
  LET t == flight[b].link  u == link[t].user IN
  /\ flight[b].op = "setup_password"
  /\ flight' = [flight EXCEPT ![b] = Idle]
  /\ \/ /\ consume(t)
        /\ acct' = [acct EXCEPT ![u].must = FALSE]
        /\ uses' = [uses EXCEPT ![t] = @ + 1]
        /\ Pruned(u, b, NoSession)
     \/ ~lookup(t) /\ UNCHANGED <<acct, link, ses, uses>>
  /\ SameKeys /\ UNCHANGED <<policy, api, edits>>

-----------------------------------------------------------------------------
(* Signing in and out.                                                     *)

\* login_user on a regenerated session, which keeps what it held.
SignIn(b, u, actions) ==
  ses' = [ses EXCEPT ![b].user = u, ![b].acts = require_actions(@, actions)]

\* User.login
PasswordAccepted(u) == acct[u].enabled /\ ~PASSKEY_REQUIRED /\ Passkeys(u) = {}

login(b, u) ==
  /\ Anybody(b) /\ ses[b].user = None
  /\ PasswordAccepted(u)
  /\ SignIn(b, u, user_required_actions(u))
  /\ SameKeys /\ UNCHANGED <<acct, policy, link, api, flight, edits, uses>>

\* _proxy: the header decides who it is, whoever was signed in.
proxy(b, u) ==
  /\ PROXY_AUTH /\ Anybody(b)
  /\ SignIn(b, u, user_required_actions(u))
  /\ SameKeys /\ UNCHANGED <<acct, policy, link, api, flight, edits, uses>>

logout(b) ==
  /\ flight[b].op = "idle" /\ ses[b].user # None
  /\ ses' = [ses EXCEPT ![b] = NoSession]
  /\ SameKeys /\ UNCHANGED <<acct, policy, link, api, flight, edits, uses>>

\* The session times out.
SessionEnds(b) ==
  /\ flight[b].op = "idle" /\ ses[b] # NoSession
  /\ ses' = [ses EXCEPT ![b] = NoSession]
  /\ SameKeys /\ UNCHANGED <<acct, policy, link, api, flight, edits, uses>>

\* Without a pending password_change the commit is followed by an error.
pw_change(b) ==
  LET u == ses[b].user IN
  /\ Handling(b, "password_change")
  /\ PasswordAccepted(u)
  /\ acct' = [acct EXCEPT ![u].must = FALSE]
  /\ Pruned(u, b, complete_action(ses[b], "password_change"))
  /\ SameKeys /\ UNCHANGED <<policy, link, api, flight, edits, uses>>

\* The page of the settings leaves change_pw_next_login as it is; the current
\* password is asked for only when the page names no account.
process_password_change(b, u) ==
  /\ SignedIn(b) /\ Owner(b, u)
  /\ ~PASSKEY_REQUIRED /\ Passkeys(u) = {}
  /\ Pruned(u, b, ses[b])
  /\ SameKeys /\ UNCHANGED <<acct, policy, link, api, flight, edits, uses>>

passkey_authentication_options(b, e) ==
  /\ Anybody(b)
  /\ ses' = [ses EXCEPT ![b].login = e]
  /\ SameKeys /\ UNCHANGED <<acct, policy, link, api, flight, edits, uses>>

\* Mutant: a counter of zero is taken for an authenticator without one.
AssertionAccepted_Bug(k, t, n) ==
  /\ acct[keyOf[k]].enabled /\ aaguid_allowed(t) /\ Verified(t)
  /\ authenticator_flags_allowed(t) /\ DeviceBound(t)
  /\ n = 0 \/ sign_count_allowed(count[k], n)

\* The checks of passkey_authenticate on the assertion of a stored key.
AssertionAccepted(k, t, n) ==
  /\ acct[keyOf[k]].enabled /\ aaguid_allowed(t) /\ Verified(t)
  /\ authenticator_flags_allowed(t) /\ sign_count_allowed(count[k], n) /\ DeviceBound(t)

InFlight(k) == {b \in Browsers : flight[b].op = "verify" /\ flight[b].key = k}

\* Up to the commit.  A key may have been backed up since its registration.
passkey_authenticate(b, k, bs, n) ==
  /\ Anybody(b) /\ ses[b].login # None
  /\ ses' = [ses EXCEPT ![b].login = None]
  /\ bs => Traits[k].be
  /\ IF /\ keyOf[k] # None /\ ses[b].login \in {"any", keyOf[k]}
        /\ AssertionAccepted(k, [Traits[k] EXCEPT !.bs = bs], n)
     THEN flight' = [x \in Browsers |->
            IF x = b THEN [Idle EXCEPT !.op = "verify", !.key = k, !.n = n,
                                       !.alone = InFlight(k) = {}]
            ELSE IF x \in InFlight(k) THEN [flight[x] EXCEPT !.alone = FALSE]
            ELSE flight[x]]
     ELSE UNCHANGED flight
  /\ SameKeys /\ UNCHANGED <<acct, policy, link, api, edits, uses>>

\* The commit and the new session; the UPDATE fails when the key is gone.
passkey_authenticated(b) ==
  LET k == flight[b].key IN
  /\ flight[b].op = "verify"
  /\ flight' = [flight EXCEPT ![b] = Idle]
  /\ IF keyOf[k] # None
     THEN count' = [count EXCEPT ![k] = flight[b].n] /\ SignIn(b, keyOf[k], <<>>)
     ELSE UNCHANGED <<count, ses>>
  /\ UNCHANGED <<acct, policy, keyOf, link, api, edits, uses, born>>

-----------------------------------------------------------------------------
(* Passkeys of an account.                                                 *)

passkey_registration_options(b, u) ==
  /\ OwnPasskeys(b, u) /\ Owner(b, u)
  /\ ses' = [ses EXCEPT ![b].reg = u]
  /\ SameKeys /\ UNCHANGED <<acct, policy, link, api, flight, edits, uses>>

\* Mutant: the account the challenge was made for is not compared.
CeremonyFor_Bug(b, u) == ses[b].reg # None

CeremonyFor(b, u) == ses[b].reg = u

passkey_register(b, u, k) ==
  /\ OwnPasskeys(b, u) /\ Owner(b, u) /\ ses[b].reg # None
  /\ LET popped == [ses[b] EXCEPT !.reg = None]
         own == u = ses[b].user /\ ses[b].acts # <<>> IN
     IF CeremonyFor(b, u) /\ register_credential(k)
     THEN /\ Register(k, u, ses[b].reg)
          /\ acct' = [acct EXCEPT ![u].enroll = FALSE,
                 ![u].must = @ /\ ~(own /\ "password_change" \in Range(ses[b].acts))]
          /\ ses' = [ses EXCEPT ![b] =
                 IF own THEN complete_action(popped, Head(popped.acts)) ELSE popped]
     ELSE ses' = [ses EXCEPT ![b] = popped] /\ SameKeys /\ UNCHANGED acct
  /\ UNCHANGED <<policy, link, api, flight, edits, uses>>

passkey_required(b) ==
  LET u == ses[b].user IN
  /\ Handling(b, "passkey_enrollment") /\ ses[b].acts # <<>>
  /\ Passkeys(u) # {} \/ (~acct[u].enroll /\ ~PasskeysRequired)
  /\ ses' = [ses EXCEPT ![b] = complete_action(@, "passkey_enrollment")]
  /\ SameKeys /\ UNCHANGED <<acct, policy, link, api, flight, edits, uses>>

Removed(k) ==
  /\ keyOf' = [keyOf EXCEPT ![k] = None]
  /\ count' = [count EXCEPT ![k] = 0]
  /\ born' = [born EXCEPT ![k] = None]

passkey_delete(b, k) ==
  /\ SignedIn(b) /\ keyOf[k] # None /\ Owner(b, keyOf[k]) /\ edits < MaxEdits
  /\ Removed(k) /\ edits' = edits + 1
  /\ UNCHANGED <<acct, policy, link, api, ses, flight, uses>>

ApiPasskeyOptions(r, u) ==
  /\ api[r] = None
  /\ api' = [api EXCEPT ![r] = u]
  /\ SameKeys /\ UNCHANGED <<acct, policy, link, ses, flight, edits, uses>>

\* The entry goes whatever comes of the request; the flag that asks for an
\* enrollment stays.
ApiPasskeyRegister(r, u, k) ==
  /\ api[r] # None
  /\ api' = [api EXCEPT ![r] = None]
  /\ IF api[r] = u /\ Verified(Traits[k]) /\ check_registration_policy(Traits[k]) /\ keyOf[k] = None
     THEN Register(k, u, api[r])
     ELSE SameKeys
  /\ UNCHANGED <<acct, policy, link, ses, flight, edits, uses>>

ApiPasskeyDelete(k) ==
  /\ keyOf[k] # None /\ edits < MaxEdits
  /\ Removed(k) /\ edits' = edits + 1
  /\ UNCHANGED <<acct, policy, link, api, ses, flight, uses>>

\* ttl=300 of the entry
ApiExpire(r) ==
  /\ api[r] # None
  /\ api' = [api EXCEPT ![r] = None]
  /\ SameKeys /\ UNCHANGED <<acct, policy, link, ses, flight, edits, uses>>

-----------------------------------------------------------------------------
(* Administration.                                                         *)

\* While the domain requires enrollment the page keeps the account's flag.
user_edit(b, u) ==
  /\ SignedIn(b) /\ ses[b].user \in Admins /\ edits < MaxEdits
  /\ \E a \in Account :
       acct' = [acct EXCEPT ![u] = IF policy.enroll THEN [a EXCEPT !.enroll = acct[u].enroll] ELSE a]
  /\ edits' = edits + 1
  /\ SameKeys /\ UNCHANGED <<policy, link, api, ses, flight, uses>>

ApiUserPatch(u) ==
  /\ edits < MaxEdits
  /\ \E a \in Account : acct' = [acct EXCEPT ![u] = a]
  /\ UNCHANGED ses \/ Pruned(u, None, NoSession)
  /\ edits' = edits + 1
  /\ SameKeys /\ UNCHANGED <<policy, link, api, flight, uses>>

\* The form of the domain.  Its other rules bind keys registered later only, and are fixed.
domain_edit ==
  /\ edits < MaxEdits
  /\ policy' = [policy EXCEPT !.enroll = ~@]
  /\ edits' = edits + 1
  /\ SameKeys /\ UNCHANGED <<acct, link, api, ses, flight, uses>>

-----------------------------------------------------------------------------
Init ==
  /\ focus \in Focuses
  /\ acct \in LET flags == IF focus = "pages" THEN BOOLEAN ELSE {FALSE} IN
              [Users -> [enabled : {TRUE}, must : flags, enroll : flags]]
  /\ policy \in Policies
  /\ keyOf = [k \in Keys |-> None] /\ count = [k \in Keys |-> 0]
  /\ link = [t \in Links |-> [st |-> "none", user |-> None]]
  /\ api = [r \in Requests |-> None]
  /\ ses = [b \in Browsers |-> NoSession] /\ flight = [b \in Browsers |-> Idle]
  /\ edits = 0 /\ uses = [t \in Links |-> 0]
  /\ born = [k \in Keys |-> None] /\ owed = [b \in Browsers |-> {}]

Sessions(b) == logout(b) \/ SessionEnds(b) \/ \E u \in Users : login(b, u)

SetupLinks(b) ==
  \/ account_setup_registered(b) \/ account_setup_password_set(b)
  \/ pw_change(b) \/ passkey_required(b)
  \/ \E t \in Links :
       \/ account_setup_options(b, t) \/ account_setup_password(b, t) \/ Expire(t)
       \/ \E k \in Keys : account_setup_register(b, t, k)
       \/ \E u \in Users : account_setup_link(b, u, t) \/ ApiSetupLink(u, t)
  \/ \E u \in Users : ApiUserPatch(u)

Pages(b) ==
  \/ pw_change(b) \/ passkey_required(b) \/ domain_edit
  \/ \E k \in Keys : passkey_delete(b, k)
  \/ \E u \in Users :
       \/ proxy(b, u) \/ user_edit(b, u) \/ ApiUserPatch(u) \/ process_password_change(b, u)
       \/ passkey_registration_options(b, u)
       \/ \E k \in Keys : passkey_register(b, u, k)

Ceremonies(b) ==
  \/ passkey_authenticated(b)
  \/ \E e \in Users \cup {"any"} : passkey_authentication_options(b, e)
  \/ \E k \in Keys : ApiPasskeyDelete(k)
  \/ \E k \in Keys, bs \in BOOLEAN, n \in 0 .. MaxCount : passkey_authenticate(b, k, bs, n)
  \/ \E r \in Requests :
       \/ ApiExpire(r)
       \/ \E u \in Users : ApiPasskeyOptions(r, u) \/ \E k \in Keys : ApiPasskeyRegister(r, u, k)

Next ==
  /\ \E b \in Browsers :
       \/ Sessions(b)
       \/ focus = "links" /\ SetupLinks(b)
       \/ focus = "pages" /\ Pages(b)
       \/ focus = "keys" /\ Ceremonies(b)
  /\ Owes /\ UNCHANGED focus

Spec == Init /\ [][Next]_vars

-----------------------------------------------------------------------------
\* Type invariant: the tables, the sessions and the requests under way keep
\* their shapes; a session's pending actions come in the order of auth_flow.
TypeOK ==
  /\ acct \in [Users -> Account] /\ policy \in Policy
  /\ keyOf \in [Keys -> Users \cup {None}] /\ born \in [Keys -> Users \cup {None}]
  /\ count \in [Keys -> 0 .. MaxCount]
  /\ link \in [Links -> [st : {"none", "live", "used", "dead"}, user : Users \cup {None}]]
  /\ api \in [Requests -> Users \cup {None}]
  /\ ses \in [Browsers -> Session] /\ flight \in [Browsers -> Flight]
  /\ edits \in 0 .. MaxEdits /\ uses \in [Links -> Nat]
  /\ owed \in [Browsers -> SUBSET Actions]

\* A setup link changes its account at most once, and never after it was
\* replaced or expired, however many requests looked it up before.
SingleUse == \A t \in Links : uses[t] = IF link[t].st = "used" THEN 1 ELSE 0

\* A passkey belongs to the account its challenge was generated for, though
\* the challenge, the path and the session name the account independently.
KeyMatchesCeremony == \A k \in Keys : keyOf[k] = born[k]

\* Reference: the trait values a policy leaves.
Admissible(t) ==
  /\ t.aaguid \in CASE policy.aaguid = "off" -> {t.aaguid}
                    [] policy.aaguid = "block" -> {t.aaguid} \ policy.listed
                    [] OTHER -> IF policy.listed = {} THEN {t.aaguid} ELSE policy.listed
  /\ policy.uv => t.uv
  /\ t.be \in [optional |-> BOOLEAN, require |-> {TRUE}, deny |-> {FALSE}][policy.eligible]
  /\ t.bs \in [optional |-> BOOLEAN, require |-> {TRUE}, deny |-> {FALSE}][policy.backup]
  /\ t.attested \in [optional |-> BOOLEAN, require |-> {TRUE}, deny |-> {FALSE}][policy.attestation]
  /\ policy.bound => ~t.be

\* Whichever way a passkey is registered (a setup link, the account's page or
\* the API with its own copy of the checks), it meets the domain's policy.
KeysMeetPolicy == \A k \in Keys : keyOf[k] # None => Admissible(Traits[k])

\* No session gets rid of a required action before the account has met it:
\* by a changed password, a passkey, or an administrator who lifts it.
ActionsHonoured == \A b \in Browsers : owed[b] \subseteq Range(ses[b].acts)

\* While the domain requires it, the stored signature counter of a passkey
\* falls only when two sign-ins with that passkey overlapped.
CounterRises ==
  [][\A k \in Keys :
       policy.counts /\ keyOf[k] # None /\ keyOf'[k] # None /\ count'[k] < count[k]
         => \E b \in InFlight(k) : ~flight[b].alone]_vars
=============================================================================
