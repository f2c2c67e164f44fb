------------------------------ MODULE RateLimit ------------------------------
(***************************************************************************)
(* Rate limits on authentication (core/admin/mailu/limiter.py) and the     *)
(* endpoints that check and feed them: mail clients (internal/views/auth), *)
(* the login page (sso/views/base) and the APIs (api/common).              *)
(*                                                                         *)
(* Checking a limit, answering the attempt, and counting a failure are     *)
(* separate calls to Redis: workers interleave between them.  Time is kept *)
(* as ages and remaining lifetimes, so that it never has to stop.          *)
(***************************************************************************)
EXTENDS Integers, FiniteSets

CONSTANTS
  Workers, Ips, Nets,
  Accounts, Unknown,  \* names with and without an account
  Guesses, Right,     \* secrets that fail, and the one that is accepted
  Cookies,            \* device cookie nonces
  None,
  NetOf,              \* extract_network_from_ip
  Attempts,           \* the attempts made in this instance
  UserLimit, UserWindow, UserDedup,  \* AUTH_RATELIMIT_USER, and its granularity
  IpLimit, IpWindow, IpDedup,        \* AUTH_RATELIMIT_IP, and its granularity
  Exemption                          \* AUTH_RATELIMIT_EXEMPTION_LENGTH

Names == Accounts \cup Unknown
Buckets == Names \cup Cookies

\* mail: a mail client; token: one that sends an app token; webmail: the internal
\* ports; port25: AUTH on port 25; web: the login page; basic, api: HTTP clients.
Doors == {"mail", "token", "webmail", "port25", "web", "basic", "api"}

Attempt == [door : Doors, ip : Ips, name : Names \cup {None},
            pw : Guesses \cup {Right}, cookie : Cookies \cup {None}]

ASSUME LimitConstants ==
  /\ {UserLimit, UserWindow, UserDedup, IpLimit, IpWindow, IpDedup, Exemption} \subseteq Nat \ {0}
  /\ NetOf \in [Ips -> Nets]
  /\ IsFiniteSet(Workers)
  /\ None \notin Names \cup Cookies \cup Nat /\ Right \notin Guesses
  /\ Names \cap Cookies = {} /\ Accounts \cap Unknown = {}
  /\ Attempts \subseteq Attempt
  /\ \A a \in Attempts :
       /\ a.cookie # None => a.door = "web"
       /\ a.name = None <=> a.door \in {"port25", "api"}

VARIABLES
  userHits,  \* auth-user: per bucket the ages of its last UserLimit hits
  ipHits,    \* auth-ip: per network the ages of its last IpLimit hits
  dedup2,    \* per account and secret, the remaining life of the marker
  dedup,     \* per network and name, likewise
  exempt,    \* per address, likewise
  owner,     \* per device cookie, the account it was issued to
  work,      \* per worker: the attempt it handles, and where it stands
  seen,      \* history: per account and secret, the age of its first answered failure
             \* (as if long ago, once one was not under the account's limit)
  misused,   \* history: cookies that came with an answered failure
  granted    \* history: per address, what is left of its last exemption, counted from
             \* the first of the logins whose renewals overlapped

limits == <<userHits, ipHits, dedup2, dedup, exempt>>
vars == <<limits, owner, work, seen, misused, granted>>

-----------------------------------------------------------------------------
(* The limits library: a moving window keeps the last `limit` hits, the    *)
(* newest first; a limit is reached while the oldest is inside the window. *)

NoHits(limit, window) == [i \in 1..limit |-> window]

UserFull(b) == userHits[b][UserLimit] < UserWindow
IpFull(n) == ipHits[n][IpLimit] < IpWindow

\* hit(): acquire_entry refuses when the limit is reached.
Pushed(h, limit, window) ==
  IF h[limit] < window THEN h ELSE [i \in 1..limit |-> IF i = 1 THEN 0 ELSE h[i - 1]]

\* storage.incr(key, ttl): the lifetime counts from the first increment.
Incremented(left, ttl) == IF left > 0 THEN left ELSE ttl

Older(age, window) == IF age < window THEN age + 1 ELSE window
Less(left) == IF left > 0 THEN left - 1 ELSE 0

-----------------------------------------------------------------------------
(* Which limits an endpoint looks at, and what it counts.                  *)

\* Mutant: the device cookie is not looked at.
Bucket_Name(a) == a.name

\* device_cookie if device_cookie_name == username else username
Bucket(a) == IF a.cookie # None /\ owner[a.cookie] = a.name THEN a.cookie ELSE a.name

ChecksIp(a) ==
  \/ a.door \in {"mail", "basic", "api"}
  \/ a.door = "web" /\ Bucket(a) = a.name

ChecksUser(a) ==
  \/ a.door \in {"web", "basic"}
  \/ a.door = "mail" /\ a.name \in Accounts

\* Only the login page passes the password on: nginx_authentication looks for it in
\* the headers of its own answer, and basic_authentication passes none.
KnowsSecret(a) == a.door = "web"

\* Mutant: the check of the user limit is left out.
MayAnswer_Unchecked(a) == TRUE

\* should_rate_limit_user lets the attempt through.
MayAnswer(a) == ~(ChecksUser(a) /\ exempt[a.ip] = 0 /\ UserFull(Bucket(a)))

\* The account's limit does not apply: a device cookie has its own, some doors do not
\* look at it, and an address with a successful login is exempt.
Apart(a) == Bucket(a) # a.name \/ ~ChecksUser(a) \/ exempt[a.ip] > 0

\* check_credentials, for an account that exists: its password, one of its app tokens
\* or its webmail token.
CredentialsOk(a) == a.pw = Right /\ a.name \notin Unknown

At(w, pc) == [work EXCEPT ![w].pc = pc]

-----------------------------------------------------------------------------
Idle == [pc |-> "idle", a |-> None]

Init ==
  /\ userHits = [b \in Buckets |-> NoHits(UserLimit, UserWindow)]
  /\ ipHits = [n \in Nets |-> NoHits(IpLimit, IpWindow)]
  /\ dedup2 = [u \in Accounts |-> [p \in Guesses |-> 0]]
  /\ dedup = [n \in Nets |-> [u \in Names |-> 0]]
  /\ exempt = [i \in Ips |-> 0]
  /\ owner = [c \in Cookies |-> None]
  /\ work = [w \in Workers |-> Idle]
  /\ seen = [u \in Accounts |-> [p \in Guesses |-> None]]
  /\ misused = {}
  /\ granted = [i \in Ips |-> 0]

Tick ==
  /\ userHits' = [b \in Buckets |-> [i \in 1..UserLimit |-> Older(userHits[b][i], UserWindow)]]
  /\ ipHits' = [n \in Nets |-> [i \in 1..IpLimit |-> Older(ipHits[n][i], IpWindow)]]
  /\ dedup2' = [u \in Accounts |-> [p \in Guesses |-> Less(dedup2[u][p])]]
  /\ dedup' = [n \in Nets |-> [u \in Names |-> Less(dedup[n][u])]]
  /\ exempt' = [i \in Ips |-> Less(exempt[i])]
  /\ granted' = [i \in Ips |-> Less(granted[i])]
  /\ seen' = [u \in Accounts |-> [p \in Guesses |->
                IF seen[u][p] = None THEN None ELSE Older(seen[u][p], UserWindow)]]
  /\ UNCHANGED <<owner, work, misused>>

\* An attempt comes in; should_rate_limit_ip.  AUTH on port 25 is refused and counted.
Arrive(w, a) ==
  /\ work[w].pc \in {"idle", "refused"}
  /\ a.cookie # None => owner[a.cookie] # None
  /\ work' = [work EXCEPT ![w] =
       [a |-> a,
        pc |-> IF a.door = "port25" THEN "ip"
               ELSE IF ChecksIp(a) /\ exempt[a.ip] = 0 /\ IpFull(NetOf[a.ip]) THEN "refused"
               ELSE "user"]]
  /\ UNCHANGED <<limits, owner, seen, misused, granted>>

Refuse(w) ==
  /\ work[w].pc = "user"
  /\ ~MayAnswer(work[w].a)
  /\ work' = At(w, "refused")
  /\ UNCHANGED <<limits, owner, seen, misused, granted>>

\* handle_authentication and the other doors: the secret is right.  The login page also
\* issues a device cookie.
Accept(w) ==
  LET a == work[w].a
  IN  /\ work[w].pc = "user"
      /\ MayAnswer(a)
      /\ CredentialsOk(a)
      /\ IF a.door \in {"web", "api"}
         THEN work' = [work EXCEPT ![w] = Idle] ELSE work' = At(w, "clear")
      /\ IF a.door = "web" /\ \E c \in Cookies : owner[c] = None
         THEN \E c \in Cookies : owner[c] = None /\ owner' = [owner EXCEPT ![c] = a.name]
         ELSE UNCHANGED owner
      /\ UNCHANGED <<limits, seen, misused, granted>>

\* What a failure counts against: the account, else the network, and nothing when the
\* webmail names an unknown account.
Blamed(w, a) ==
  IF a.name \in Accounts THEN At(w, "guess")
  ELSE IF a.door = "webmail" THEN [work EXCEPT ![w] = Idle] ELSE At(w, "ip")

\* The secret is wrong, or there is no such account.
Fail(w) ==
  LET a == work[w].a
  IN  /\ work[w].pc = "user"
      /\ MayAnswer(a)
      /\ ~CredentialsOk(a)
      /\ work' = Blamed(w, a)
      /\ seen' = IF a.name \notin Accounts THEN seen
                 ELSE [seen EXCEPT ![a.name][a.pw] =
                         IF Apart(a) THEN UserWindow ELSE IF @ = None THEN 0 ELSE @]
      /\ misused' = misused \cup ({a.cookie} \cap Cookies)
      /\ UNCHANGED <<limits, owner, granted>>

\* exempt_ip_from_ratelimits: the key is cleared, then counted anew.
ClearExemption(w) ==
  /\ work[w].pc = "clear"
  /\ exempt' = [exempt EXCEPT ![work[w].a.ip] = 0]
  /\ work' = At(w, "incr")
  /\ UNCHANGED <<userHits, ipHits, dedup2, dedup, owner, seen, misused, granted>>

\* Mutant: the exemption ends a second early.
GrantExemption_Early(w) ==
  LET i == work[w].a.ip
  IN  /\ work[w].pc = "incr"
      /\ exempt' = [exempt EXCEPT ![i] = Incremented(exempt[i], Exemption - 1)]
      /\ granted' = [granted EXCEPT ![i] = IF exempt[i] > 0 THEN @ ELSE Exemption]
      /\ work' = [work EXCEPT ![w] = Idle]
      /\ UNCHANGED <<userHits, ipHits, dedup2, dedup, owner, seen, misused>>

\* The key is there again when another login was counted since this one cleared it: the
\* lifetime goes on from that one.
GrantExemption(w) ==
  LET i == work[w].a.ip
  IN  /\ work[w].pc = "incr"
      /\ exempt' = [exempt EXCEPT ![i] = Incremented(exempt[i], Exemption)]
      /\ granted' = [granted EXCEPT ![i] = IF exempt[i] > 0 THEN @ ELSE Exemption]
      /\ work' = [work EXCEPT ![w] = Idle]
      /\ UNCHANGED <<userHits, ipHits, dedup2, dedup, owner, seen, misused>>

\* rate_limit_user, up to the look at the marker.  A login from the address since the
\* check exempts the failure.
CountGuess(w) ==
  LET a == work[w].a
  IN  /\ work[w].pc = "guess"
      /\ IF exempt[a.ip] > 0 \/ (KnowsSecret(a) /\ dedup2[a.name][a.pw] > 0)
         THEN work' = [work EXCEPT ![w] = Idle] ELSE work' = At(w, "hit")
      /\ seen' = IF exempt[a.ip] > 0 THEN [seen EXCEPT ![a.name][a.pw] = UserWindow] ELSE seen
      /\ UNCHANGED <<limits, owner, misused, granted>>

\* rate_limit_user, the rest: the marker of an unknown secret is never looked at.
HitUser(w) ==
  LET a == work[w].a
  IN  /\ work[w].pc = "hit"
      /\ dedup2' = IF KnowsSecret(a)
                   THEN [dedup2 EXCEPT ![a.name][a.pw] = Incremented(@, UserDedup)] ELSE dedup2
      /\ userHits' = [userHits EXCEPT ![Bucket(a)] = Pushed(@, UserLimit, UserWindow)]
      /\ work' = At(w, "ip")
      /\ UNCHANGED <<ipHits, dedup, exempt, owner, seen, misused, granted>>

\* rate_limit_ip, up to the look at the marker.
CountIp(w) ==
  LET a == work[w].a
  IN  /\ work[w].pc = "ip"
      /\ IF exempt[a.ip] > 0 \/ (a.name # None /\ dedup[NetOf[a.ip]][a.name] > 0)
         THEN work' = [work EXCEPT ![w] = Idle] ELSE work' = At(w, "iphit")
      /\ UNCHANGED <<limits, owner, seen, misused, granted>>

HitIp(w) ==
  LET a == work[w].a
      n == NetOf[a.ip]
  IN  /\ work[w].pc = "iphit"
      /\ dedup' = IF a.name = None THEN dedup
                  ELSE [dedup EXCEPT ![n][a.name] = Incremented(@, IpDedup)]
      /\ ipHits' = [ipHits EXCEPT ![n] = Pushed(@, IpLimit, IpWindow)]
      /\ work' = [work EXCEPT ![w] = Idle]
      /\ UNCHANGED <<userHits, dedup2, exempt, owner, seen, misused, granted>>

Next ==
  \/ Tick
  \/ \E w \in Workers :
       \/ \E a \in Attempts : Arrive(w, a)
       \/ Refuse(w) \/ Accept(w) \/ Fail(w)
       \/ ClearExemption(w) \/ GrantExemption(w)
       \/ CountGuess(w) \/ HitUser(w) \/ CountIp(w) \/ HitIp(w)

Spec == Init /\ [][Next]_vars

-----------------------------------------------------------------------------
(* Properties.                                                             *)

Ages(limit, window) == [1..limit -> 0..window]

\* Every variable keeps its type, and the ages of a bucket's hits never decrease:
\* the last one decides.
TypeOK ==
  /\ userHits \in [Buckets -> Ages(UserLimit, UserWindow)]
  /\ \A b \in Buckets : \A i \in 1..UserLimit - 1 : userHits[b][i] <= userHits[b][i + 1]
  /\ ipHits \in [Nets -> Ages(IpLimit, IpWindow)]
  /\ dedup2 \in [Accounts -> [Guesses -> 0..UserDedup]]
  /\ dedup \in [Nets -> [Names -> 0..IpDedup]]
  /\ exempt \in [Ips -> 0..Exemption]
  /\ owner \in [Cookies -> Accounts \cup {None}]
  /\ work \in [Workers -> [pc : {"idle", "refused", "user", "guess", "hit", "ip", "iphit",
                                  "clear", "incr"}, a : Attempts \cup {None}]]
  /\ seen \in [Accounts -> [Guesses -> 0..UserWindow \cup {None}]]
  /\ misused \subseteq Cookies
  /\ granted \in [Ips -> 0..Exemption]

\* Wrong passwords of one account that were answered for the first time within a window,
\* each under the account's limit only, are bounded by the limit and the workers.
\* Checking and counting are not one step: with every hit that fills the window, what the
\* other workers have in flight is answered and then not counted.  A password does not
\* count here once somebody tried it with the device cookie of the account, through a door
\* that does not look at the limit, or from an address with a successful login: such an
\* answer may use up the marker that keeps a repeated secret from being counted twice.
GuessBound ==
  \A u \in Accounts : Cardinality({p \in Guesses : seen[u][p] \in 0..UserWindow - 1})
                        <= UserLimit * Cardinality(Workers)

Turned(w) == work[w].pc # "refused" /\ work'[w].pc = "refused"

\* Whoever else fails on the account, or fills the network's limit, the owner of a
\* device cookie that never came with a wrong password is not turned away.
CookieSpares ==
  [][\A w \in Workers : Turned(w) =>
       LET a == work'[w].a
       IN  a.cookie # None /\ owner[a.cookie] = a.name => a.cookie \in misused]_vars

\* AUTH_RATELIMIT_EXEMPTION_LENGTH "is the number of seconds after a successful login
\* for which a specific IP address is exempted from rate limits": nobody behind such an
\* address is turned away, except while another login is renewing the exemption.  Of
\* logins that renew it at the same time, the first to count starts the seconds.
ExemptionHolds ==
  [][\A w \in Workers : Turned(w) =>
       LET i == work'[w].a.ip
       IN  granted[i] = 0 \/ \E v \in Workers : work[v].pc = "incr" /\ work[v].a.ip = i]_vars
=============================================================================
