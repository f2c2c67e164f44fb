----------------------------- MODULE Directory -----------------------------
(***************************************************************************)
(* The directory: the domain, alternative, relay, user, alias, manager,    *)
(* access and DKIM rows that the REST API (api/v1), the web pages          *)
(* (ui/views), the sign-up and proxy sign-in pages (sso/views) and the     *)
(* command line (manage.py) create, change and delete.                     *)
(*                                                                         *)
(* A handler reads the database, decides, and commits one unit of work.    *)
(* Between the reads and the commit other handlers of other worker         *)
(* processes commit theirs.  An entry point is therefore an action that    *)
(* reads (its guards are the handler's conditions and early returns) and   *)
(* leaves a pending unit of work; Commit is the database's answer to it.   *)
(* A refused request changes nothing and is the absence of a step.         *)
(***************************************************************************)
EXTENDS Integers, FiniteSets

CONSTANTS
  Clients,      \* requests in progress at the same time
  Names,        \* domain names
  Locals,       \* local parts
  Keys,         \* ids of the DKIM key rows that are generated
  LegacyKey,    \* the row of a key that is imported from its file
  Limits,       \* [user, alias] limits that requests set; -1 is "unlimited"
  SignupLimits, \* the limits domain_signup gives a domain (10 and 10)
  ForeignKeys,  \* whether the database enforces foreign keys (SQLite: no)
  MaxRows,      \* bound on the rows of the database
  Focuses,      \* bound: the sets of groups of requests that are explored
  None

Unlimited == -1
Default == [user |-> Unlimited, alias |-> Unlimited]
Groups == {"names", "domains", "limits", "addresses", "people", "children",
           "keys", "alternatives"}

(* max_users and max_aliases are integers, -1 for no limit. *)
ASSUME LimitsAssumption ==
  /\ Limits \subseteq [user : Nat \cup {Unlimited}, alias : Nat \cup {Unlimited}]
  /\ SignupLimits \in [user : Nat \ {0}, alias : Nat \ {0}]

ASSUME DirectoryAssumption ==
  /\ ForeignKeys \in BOOLEAN
  /\ MaxRows \in Nat
  /\ Focuses \subseteq SUBSET Groups
  /\ IsFiniteSet(Clients) /\ Clients # {} /\ IsFiniteSet(Names)
  /\ None \notin Names \cup (Locals \X Names) \cup Keys \cup {LegacyKey} \cup Clients
  /\ None \notin BOOLEAN /\ None \notin Limits \cup {SignupLimits}
  /\ LegacyKey \notin Keys

VARIABLES
  db,      \* the rows
  dup,     \* the manager pairs that have more than one row
  limit,   \* limit[n]: max_users and max_aliases of the row of domain n
  signing, \* the DKIM keys whose column active is true
  retired, \* the DKIM keys whose column retired is true
  legacy,  \* legacy[n]: the historical key file of n: "none", "file" or "bak"
  focus,   \* the groups of requests that this behaviour makes
  work,    \* work[c]: the unit of work of request c, not yet committed
  loose    \* history: domains whose limit was set after their creation or
           \* that received a row from a path that does not look at it

vars == <<db, dup, limit, signing, retired, legacy, focus, work, loose>>

Addresses == Locals \X Names
AllKeys == Keys \cup {LegacyKey}

(***************************************************************************)
(* Rows.  k is the primary key, d the domain row and u the user row that   *)
(* the row refers to.  The table "manager" is an association table without *)
(* a key: its pairs are the key here and dup says which are there twice.   *)
(* Of the tables of a user the ORM deletes the first kind with the user    *)
(* and leaves the second to the database's ON DELETE CASCADE.              *)
(***************************************************************************)
OrmChildren == {"token", "fetch", "passkey"}
DbChildren == {"wkd", "setup"}

Row(t, k, d, u) == [t |-> t, k |-> k, d |-> d, u |-> u]

DomainRow(n)         == Row("domain", n, None, None)
AlternativeRow(n, d) == Row("alternative", n, d, None)
RelayRow(n)          == Row("relay", n, None, None)
UserRow(a)           == Row("user", a, a[2], None)
AliasRow(a, o)       == Row("alias", a, a[2], o)
ManagerRow(d, a)     == Row("manager", <<d, a>>, d, a)
AccessRow(d, a)      == Row("access", <<d, a>>, d, a)
KeyRow(k, d)         == Row("dkim", k, d, None)
ChildRow(t, a)       == Row(t, a, None, a)

Rows ==
  {DomainRow(n) : n \in Names} \cup {RelayRow(n) : n \in Names}
  \cup {AlternativeRow(n, d) : n \in Names, d \in Names}
  \cup {UserRow(a) : a \in Addresses}
  \cup {AliasRow(a, o) : a \in Addresses, o \in Addresses \cup {None}}
  \cup {ManagerRow(d, a) : d \in Names, a \in Addresses}
  \cup {AccessRow(d, a) : d \in Names, a \in Addresses}
  \cup {KeyRow(k, d) : k \in AllKeys, d \in Names}
  \cup {ChildRow(t, a) : t \in OrmChildren \cup DbChildren, a \in Addresses}

Refers(r, p) == \/ p.t = "domain" /\ r.d = p.k
                \/ p.t = "user" /\ r.u = p.k

(* The parents a row names are in rows. *)
ParentsIn(r, rows) ==
  /\ r.d # None => \E p \in rows : p.t = "domain" /\ p.k = r.d
  /\ r.u # None => \E p \in rows : p.t = "user" /\ p.k = r.u

(* Mutant: Alias.owner has no cascade: the aliases of an owner stay. *)
Kids_Bug(rows) ==
  {r \in db : r.t \notin DbChildren /\ \E p \in rows :
     Refers(r, p) /\ ~(r.t = "alias" /\ p.t = "user")}

(* What the relationships' cascade 'all, delete-orphan' and the secondary  *)
(* table of Domain.managers add to a delete: the rows that refer to one of *)
(* rows, except those of the tables that only the database deletes.        *)
Kids(rows) == {r \in db : r.t \notin DbChildren /\ \E p \in rows : Refers(r, p)}

(* session.delete: the row and, level by level, what cascades from it.     *)
Cascade(row) == {row} \cup Kids({row}) \cup Kids(Kids({row}))

Has(t, k) == \E r \in db : r.t = t /\ r.k = k

(* Mutant: fqdn_in_use without the relays. *)
fqdn_in_use_Bug(n) == Has("domain", n) \/ Has("alternative", n)

(* One query over the three tables that hold domain names; the web pages   *)
(* ask for the three rows one by one.                                      *)
fqdn_in_use(n) == Has("domain", n) \/ Has("alternative", n) \/ Has("relay", n)

has_email(a) == Has("user", a) \/ Has("alias", a)

CountOf(t, d) == Cardinality({r \in db : r.t = t /\ r.d = d})

(* Mutant: off by one, the limit itself still passes. *)
Room_Bug(t, d) == limit[d][t] = Unlimited \/ CountOf(t, d) <= limit[d][t]

(* "not max == -1 and len(rows) >= max" is refused. *)
Room(t, d) == limit[d][t] = Unlimited \/ CountOf(t, d) < limit[d][t]

(***************************************************************************)
(* Units of work.  via names the kind of check that was made: "full" looks *)
(* at every table and limit it should, "table" only at its own table,      *)
(* "cli" at most at the parent.  lim, act and ret are column updates: of   *)
(* the domain's limits and of a key's active and retired columns (the ORM  *)
(* writes the columns that changed, so None leaves the column alone).      *)
(* stale is history: another request committed since the reads.            *)
(***************************************************************************)
Idle == [op |-> "idle", via |-> "full", add |-> {}, del |-> {}, on |-> None,
         lim |-> None, act |-> None, ret |-> FALSE, stale |-> FALSE]

Unit(op, via, add, del, on, lim) ==
  [Idle EXCEPT !.op = op, !.via = via, !.add = add, !.del = del,
               !.on = on, !.lim = lim]

Pend(c, u) ==
  /\ work[c] = Idle
  /\ Cardinality(db \cup u.add) <= MaxRows
  /\ work' = [work EXCEPT ![c] = u]
  /\ UNCHANGED <<db, dup, limit, signing, retired, legacy, focus, loose>>

(* With the domain when there is none, as the command line does it.        *)
AddMissingDomain(d) == IF Has("domain", d) THEN {} ELSE {DomainRow(d)}

-----------------------------------------------------------------------------
(* What the handlers have in common *)

(* A new domain with its alternatives.  The alternatives are compared with *)
(* the tables but not with the name of the new domain itself.              *)
NewDomain(c, n, alts, lim) ==
  /\ ~fqdn_in_use(n)
  /\ \A a \in alts : ~fqdn_in_use(a)
  /\ Pend(c, Unit("create", "full",
                  {DomainRow(n)} \cup {AlternativeRow(a, n) : a \in alts}, {}, n, lim))

(* lim is None when the request leaves the limits of the domain alone.     *)
NewAlternatives(c, d, alts, lim) ==
  /\ Has("domain", d)
  /\ \A a \in alts : ~fqdn_in_use(a)
  /\ Pend(c, Unit(IF lim = None THEN "add" ELSE "limit", "full",
                  {AlternativeRow(a, d) : a \in alts}, {}, d, lim))

NewRelay(c) ==
  \E n \in Names :
    /\ ~fqdn_in_use(n)
    /\ Pend(c, Unit("add", "full", {RelayRow(n)}, {}, None, None))

(* The row is found, its children are loaded, and everything is deleted in *)
(* one unit of work.                                                       *)
Remove(c, t) ==
  \E r \in db :
    /\ r.t = t
    /\ Pend(c, Unit("delete", "full", {}, Cascade(r), r.k, None))

(* The old row of the user in the table goes with the insert of the new.   *)
Replace(t, a) == {r \in db : r.t = t /\ r.u = a}

(* A mailbox whose address is compared with mailboxes and aliases.         *)
NewUser(c, a, also) ==
  /\ Has("domain", a[2])
  /\ Room("user", a[2])
  /\ ~has_email(a)
  /\ Pend(c, Unit("add", "full", {UserRow(a)} \cup also,
                  {r \in Replace("setup", a) : also # {}}, None, None))

(* An anonymous alias of user o in a domain that o may use: as a global    *)
(* administrator any domain, else as a manager, by an access row, or       *)
(* because the domain opens the service to its own users.  A candidate     *)
(* that is taken is drawn again; max_aliases is not looked at.             *)
NewAnonAlias(c) ==
  \E a \in Addresses, o \in Addresses :
    /\ Has("user", o) /\ Has("domain", a[2])
    /\ ~has_email(a)
    /\ Pend(c, Unit("add", "anon", {AliasRow(a, o)}, {}, None, None))

NewChild(c, t) ==
  \E a \in Addresses :
    /\ Has("user", a) /\ ~Has(t, a)
    /\ Pend(c, Unit("add", "full", {ChildRow(t, a)}, {}, None, None))

(* setup_tokens.issue and update_wkd_keys: the new row replaces the old.   *)
NewPublished(c, t) ==
  \E a \in Addresses :
    /\ Has("user", a)
    /\ Pend(c, Unit("add", "full", {ChildRow(t, a)}, Replace(t, a), None, None))

NewManager(c) ==
  \E d \in Names, a \in Addresses :
    /\ Has("domain", d) /\ Has("user", a) /\ ~Has("manager", <<d, a>>)
    /\ Pend(c, Unit("add", "full", {ManagerRow(d, a)}, {}, None, None))

Revoke(c, t) ==
  \E r \in db :
    /\ r.t = t /\ Has("domain", r.d)
    /\ t = "manager" => Has("user", r.u)
    /\ Pend(c, Unit("remove", "full", {}, {r}, None, None))

(* generate_dkim_key(active=False): the key is staged, it does not sign.   *)
StageKey(c, d) ==
  \E k \in Keys :
    /\ Has("domain", d) /\ ~Has("dkim", k)
    /\ \A b \in Clients : \A r \in work[b].add : ~(r.t = "dkim" /\ r.k = k)
    /\ Pend(c, Unit("add", "full", {KeyRow(k, d)}, {}, None, None))

(* Mutant: nobody looks whether the key is retired. *)
PatchKey_Bug(c, d) ==
  \E k \in AllKeys, on \in BOOLEAN :
    /\ KeyRow(k, d) \in db
    /\ Pend(c, [Idle EXCEPT !.op = "key", !.on = k, !.ret = ~on,
                            !.act = IF on = (k \in signing) THEN None ELSE on])

(* Promote a staged key or retire one.  A retired key is not promoted.     *)
PatchKey(c, d) ==
  \E k \in AllKeys, on \in BOOLEAN :
    /\ KeyRow(k, d) \in db
    /\ ~(on /\ k \in retired)
    /\ Pend(c, [Idle EXCEPT !.op = "key", !.on = k, !.ret = ~on,
                            !.act = IF on = (k \in signing) THEN None ELSE on])

(* A key that signs is not deleted. *)
DropKey(c, d) ==
  \E k \in AllKeys \ signing :
    /\ KeyRow(k, d) \in db
    /\ Pend(c, Unit("remove", "full", {}, {KeyRow(k, d)}, k, None))

-----------------------------------------------------------------------------
(* The REST API *)

ApiDomainCreate(c) ==
  \E n \in Names, alts \in SUBSET Names, lim \in Limits : NewDomain(c, n, alts, lim)

(* PATCH adds alternatives, it never removes any, and sets the limits in   *)
(* the same commit.                                                        *)
ApiDomainUpdate(c) ==
  \E d \in Names, alts \in SUBSET Names, lim \in Limits : NewAlternatives(c, d, alts, lim)

ApiDomainDelete(c) == Remove(c, "domain")

ApiAlternativeCreate(c) ==
  \E d \in Names, n \in Names : NewAlternatives(c, d, {n}, None)

ApiAlternativeDelete(c) == Remove(c, "alternative")

ApiRelayCreate(c) == NewRelay(c)

ApiRelayDelete(c) == Remove(c, "relay")

(* The address is compared with the mailboxes only. *)
ApiUserCreate(c) ==
  \E a \in Addresses :
    /\ Has("domain", a[2])
    /\ Room("user", a[2])
    /\ ~Has("user", a)
    /\ Pend(c, Unit("add", "table", {UserRow(a)}, {}, None, None))

ApiUserDelete(c) == Remove(c, "user")

ApiSetupLink(c) == NewPublished(c, "setup")

(* Destinations are users; the address is compared with the aliases only.  *)
ApiAliasCreate(c) ==
  \E a \in Addresses, dest \in Addresses :
    /\ Has("domain", a[2])
    /\ Room("alias", a[2])
    /\ Has("user", dest)
    /\ ~Has("alias", a)
    /\ Pend(c, Unit("add", "table", {AliasRow(a, None)}, {}, None, None))

ApiAliasDelete(c) == Remove(c, "alias")

(* POST /api/alias/random/new *)
ApiRandomAlias(c) == NewAnonAlias(c)

ApiTokenCreate(c) == NewChild(c, "token")

ApiUserTokenCreate(c) == NewChild(c, "token")

ApiTokenDelete(c) == Remove(c, "token")

ApiManagerCreate(c) == NewManager(c)

ApiManagerDelete(c) == Revoke(c, "manager")

ApiKeyCreate(c) == \E d \in Names : StageKey(c, d)

ApiKeyUpdate(c) == \E d \in Names : Has("domain", d) /\ PatchKey(c, d)

ApiKeyDelete(c) == \E d \in Names : Has("domain", d) /\ DropKey(c, d)

(* The keys of an alternative are those of its domain. *)
ApiAlternativeKeyCreate(c) == \E r \in db : r.t = "alternative" /\ StageKey(c, r.d)

ApiAlternativeKeyUpdate(c) == \E r \in db : r.t = "alternative" /\ PatchKey(c, r.d)

ApiAlternativeKeyDelete(c) == \E r \in db : r.t = "alternative" /\ DropKey(c, r.d)

-----------------------------------------------------------------------------
(* The pages *)

domain_create(c) == \E n \in Names, lim \in Limits : NewDomain(c, n, {}, lim)

domain_edit(c) == \E d \in Names, lim \in Limits : NewAlternatives(c, d, {}, lim)

domain_delete(c) == Remove(c, "domain")

(* A visitor registers a domain whose MX record points here and becomes    *)
(* its manager, with a new mailbox in it or with the account he has.       *)
domain_signup(c) ==
  \E n \in Names, a \in Addresses :
    /\ ~fqdn_in_use(n)
    /\ Has("user", a) \/ a[2] = n
    /\ Pend(c, Unit("create", "full",
                    {DomainRow(n), ManagerRow(n, a)}
                    \cup (IF Has("user", a) THEN {} ELSE {UserRow(a)}),
                    {}, n, SignupLimits))

alternative_create(c) ==
  \E d \in Names, n \in Names : NewAlternatives(c, d, {n}, None)

alternative_delete(c) == Remove(c, "alternative")

relay_create(c) == NewRelay(c)

relay_delete(c) == Remove(c, "relay")

(* The page also issues a setup link for the new account. *)
user_create(c) == \E a \in Addresses : NewUser(c, a, {ChildRow("setup", a)})

(* Sign-up with a password, in a domain that has room and allows it. *)
user_signup(c) == \E a \in Addresses : NewUser(c, a, {})

(* Sign-up with a passkey: user_signup only remembers the address in the   *)
(* session, and the account is created when the passkey is registered.     *)
(* By then the domain may be gone; the address and the limit are looked at *)
(* once more.                                                              *)
pending_passkey_signup(a) == Has("domain", a[2])

signup_address_conflict(a) == has_email(a) \/ ~Room("user", a[2])

passkey_signup_register(c) ==
  \E a \in Addresses :
    /\ pending_passkey_signup(a)
    /\ ~signup_address_conflict(a)
    /\ Pend(c, Unit("add", "full", {UserRow(a), ChildRow("passkey", a)}, {}, None, None))

(* The first sign-in behind a trusted proxy creates the account: the       *)
(* address is compared with the mailboxes only.                            *)
proxy_create(c) ==
  \E a \in Addresses :
    /\ ~Has("user", a)
    /\ Has("domain", a[2])
    /\ Room("user", a[2])
    /\ Pend(c, Unit("add", "table", {UserRow(a)}, {}, None, None))

(* A submitted OpenPGP key is published for the addresses of its owner.    *)
user_settings(c) == NewPublished(c, "wkd")

alias_create(c) ==
  \E a \in Addresses :
    /\ Has("domain", a[2])
    /\ Room("alias", a[2])
    /\ ~has_email(a)
    /\ Pend(c, Unit("add", "full", {AliasRow(a, None)}, {}, None, None))

alias_delete(c) == Remove(c, "alias")

anonalias_create(c) == NewAnonAlias(c)

(* The owner of an anonymous alias deletes it. *)
anonalias_delete(c) ==
  \E r \in db :
    /\ r.t = "alias" /\ r.u # None /\ Has("user", r.u)
    /\ Pend(c, Unit("delete", "full", {}, {r}, r.k, None))

token_create(c) == NewChild(c, "token")

token_delete(c) == Remove(c, "token")

fetch_create(c) == NewChild(c, "fetch")

fetch_delete(c) == Remove(c, "fetch")

manager_create(c) == NewManager(c)

manager_delete(c) == Revoke(c, "manager")

domain_access_create(c) ==
  \E d \in Names, a \in Addresses :
    /\ Has("domain", d) /\ Has("user", a) /\ ~Has("access", <<d, a>>)
    /\ Pend(c, Unit("add", "full", {AccessRow(d, a)}, {}, None, None))

domain_access_delete(c) == Revoke(c, "access")

domain_genkeys(c) == \E d \in Names : StageKey(c, d)

(* The buttons of a key: retire it when it signs, promote it when it is    *)
(* staged, delete it, whether it signs or not.                             *)
domain_dkim_status(c) ==
  \E r \in db :
    /\ r.t = "dkim"
    /\ \/ Pend(c, Unit("remove", "full", {}, {r}, r.k, None))
       \/ /\ r.k \in signing
          /\ Pend(c, [Idle EXCEPT !.op = "key", !.on = r.k, !.act = FALSE, !.ret = TRUE])
       \/ /\ r.k \notin signing /\ r.k \notin retired
          /\ Pend(c, [Idle EXCEPT !.op = "key", !.on = r.k, !.act = TRUE])

-----------------------------------------------------------------------------
(* The command line.  A missing domain is created with the row that needs  *)
(* it; no limit is looked at.                                              *)

CliDomain(c) ==
  \E n \in Names, lim \in Limits :
    /\ ~Has("domain", n)
    /\ Pend(c, Unit("create", "cli", {DomainRow(n)}, {}, n, lim))

CliSetLimits(c) == \E d \in Names, lim \in Limits : NewAlternatives(c, d, {}, lim)

CliUserAdd(c) ==
  \E a \in Addresses, link \in BOOLEAN :
    /\ ~Has("user", a)
    /\ Pend(c, Unit("add", "cli",
                    {UserRow(a)} \cup AddMissingDomain(a[2])
                    \cup {ChildRow("setup", x) : x \in {y \in {a} : link}},
                    {r \in Replace("setup", a) : link}, a[2], None))

CliUserImport(c) ==
  \E a \in Addresses :
    Pend(c, Unit("add", "cli", {UserRow(a)} \cup AddMissingDomain(a[2]), {}, a[2], None))

CliUserRemove(c) == Remove(c, "user")

CliUserReset(c) == NewPublished(c, "setup")

CliUserDelete(c) == Remove(c, "user")

CliAlias(c) ==
  \E a \in Addresses :
    Pend(c, Unit("add", "cli", {AliasRow(a, None)} \cup AddMissingDomain(a[2]),
                 {}, a[2], None))

CliAliasDelete(c) == Remove(c, "alias")

(* Appends a mailbox of the domain to its managers without looking. *)
CliSetManager(c) ==
  \E a \in Addresses :
    /\ Has("domain", a[2]) /\ Has("user", a)
    /\ Pend(c, Unit("add", "cli", {ManagerRow(a[2], a)}, {}, None, None))

(* flask mailu import-legacy-dkim-keys at the start of the container, when *)
(* no request is in progress: one domain whose key file was not moved      *)
(* away.  The row is committed first, signing unless another key of the    *)
(* domain does, and the file renamed after it; a start that stopped in     *)
(* between finds the selector in the table and only renames the file.      *)
ImportLegacy(d) ==
  /\ legacy[d] = "file" /\ Has("domain", d)
  /\ \A c \in Clients : work[c] = Idle
  /\ \/ /\ ~Has("dkim", LegacyKey)
        /\ Cardinality(db) < MaxRows
        /\ db' = db \cup {KeyRow(LegacyKey, d)}
        /\ signing' = IF \E r \in db : r.t = "dkim" /\ r.d = d /\ r.k \in signing
                      THEN signing ELSE signing \cup {LegacyKey}
        /\ legacy' \in {legacy, [legacy EXCEPT ![d] = "bak"]}
     \/ /\ Has("dkim", LegacyKey)
        /\ legacy' = [legacy EXCEPT ![d] = "bak"]
        /\ UNCHANGED <<db, signing>>
  /\ UNCHANGED <<dup, limit, retired, focus, work, loose>>

-----------------------------------------------------------------------------
(* The commit *)

(* A primary key or a unique constraint is violated; "manager" has none.   *)
Clash(u) == \E a \in u.add : /\ a.t # "manager"
                             /\ \E r \in db \ u.del : r.t = a.t /\ r.k = a.k

EnteredTwice(u) == \E r \in u.del : r.t = "manager" /\ r.k \in dup

(* Removing an association row that is there twice deletes two rows where  *)
(* the ORM expects one: it raises StaleDataError.  So does an update of a  *)
(* row that is gone; a delete of a row that is gone is only a warning.     *)
StaleData(u) ==
  \/ EnteredTwice(u)
  \/ u.op = "limit" /\ ~Has("domain", u.on)
  \/ u.op = "key" /\ ~Has("dkim", u.on)

(* The tables as the unit of work leaves them; what the database deletes   *)
(* by itself goes with the parent when foreign keys are enforced.          *)
After(u) ==
  LET rest == (db \ u.del) \cup u.add
  IN  IF ForeignKeys THEN {r \in rest : r.t \in DbChildren => ParentsIn(r, rest)}
      ELSE rest

(* Mutant: deletes do not look for the rows that refer to the deleted one. *)
Violates_Bug(u) == ForeignKeys /\ \E r \in u.add : ~ParentsIn(r, After(u))

(* A foreign key is violated: a new row without its parent, or a row left  *)
(* behind whose parent is deleted.                                         *)
Violates(u) ==
  ForeignKeys /\ \/ \E r \in After(u) : ~ParentsIn(r, After(u))
                 \/ \E r \in u.add : ~ParentsIn(r, After(u))

Refused(u) == Clash(u) \/ StaleData(u) \/ Violates(u)

Staled(c) == [b \in Clients |-> IF b = c THEN Idle
                                ELSE IF work[b] = Idle THEN Idle
                                ELSE [work[b] EXCEPT !.stale = TRUE]]

Created(u) == {r.k : r \in {x \in u.add : x.t = "domain"}}

(* Rows that come without a look at the limit of their domain.             *)
Unchecked(u) == IF u.via \in {"cli", "anon"}
                THEN {r.d : r \in {x \in u.add : x.t \in {"user", "alias"}}} ELSE {}

Commit(c) ==
  LET u == work[c]
      gone == {k \in AllKeys : \A r \in After(u) : ~(r.t = "dkim" /\ r.k = k)}
      fresh == {r.k : r \in {x \in u.add : x.t = "dkim"}}
  IN /\ u # Idle
     /\ ~Refused(u)
     /\ db' = After(u)
     /\ dup' = {p \in dup \cup {r.k : r \in {x \in u.add \cap db : x.t = "manager"}} :
                  ManagerRow(p[1], p[2]) \in After(u)}
     /\ limit' = [n \in Names |->
                   IF DomainRow(n) \notin After(u) THEN Default
                   ELSE IF n = u.on /\ u.lim # None THEN u.lim
                   ELSE IF n \in Created(u) THEN Default ELSE limit[n]]
     /\ signing' = (CASE u.act = TRUE  -> signing \cup {u.on}
                      [] u.act = FALSE -> signing \ {u.on}
                      [] OTHER         -> signing) \ (gone \cup fresh)
     /\ retired' = (retired \cup (IF u.ret THEN {u.on} ELSE {})) \ (gone \cup fresh)
     /\ loose' = {n \in (loose \ Created(u)) \cup Unchecked(u)
                         \cup (IF u.op = "limit" THEN {u.on} ELSE {}) :
                    DomainRow(n) \in After(u)}
     /\ work' = Staled(c)
     /\ UNCHANGED <<legacy, focus>>

(* The database or the ORM refuses the commit: the transaction is rolled   *)
(* back and the request ends with an error.                                *)
Rollback(c) ==
  /\ work[c] # Idle
  /\ Refused(work[c])
  /\ work' = [work EXCEPT ![c] = Idle]
  /\ UNCHANGED <<db, dup, limit, signing, retired, legacy, focus, loose>>

-----------------------------------------------------------------------------
(* The database after the first mailbox and its domain were entered on the *)
(* command line, possibly next to the key file of an older release.        *)
Init ==
  \E n \in Names, l \in Locals, file \in {"none", "file"}, lim \in Limits \cup {Default} :
    /\ db = {DomainRow(n), UserRow(<<l, n>>)}
    /\ dup = {}
    /\ limit = [m \in Names |-> IF m = n THEN lim ELSE Default]
    /\ signing = {} /\ retired = {}
    /\ legacy = [m \in Names |-> IF m = n THEN file ELSE "none"]
    /\ focus \in Focuses
    /\ work = [c \in Clients |-> Idle]
    /\ loose = {m \in Names : m = n /\ lim.user = 0}

NameRequest(c) ==
  \/ ApiDomainCreate(c) \/ CliDomain(c) \/ ApiDomainUpdate(c)
  \/ ApiAlternativeCreate(c) \/ alternative_create(c)
  \/ ApiAlternativeDelete(c) \/ alternative_delete(c)
  \/ ApiRelayCreate(c) \/ relay_create(c) \/ ApiRelayDelete(c) \/ relay_delete(c)

LimitRequest(c) == domain_signup(c) \/ domain_edit(c) \/ CliSetLimits(c)

AddressRequest(c) ==
  \/ ApiUserCreate(c) \/ user_create(c) \/ user_signup(c) \/ proxy_create(c)
  \/ passkey_signup_register(c)
  \/ CliUserAdd(c) \/ CliUserImport(c)
  \/ ApiAliasCreate(c) \/ alias_create(c) \/ CliAlias(c)
  \/ ApiAliasDelete(c) \/ alias_delete(c) \/ CliAliasDelete(c)

PeopleRequest(c) ==
  \/ ApiRandomAlias(c) \/ anonalias_create(c) \/ anonalias_delete(c)
  \/ ApiManagerCreate(c) \/ manager_create(c) \/ CliSetManager(c)
  \/ ApiManagerDelete(c) \/ manager_delete(c)
  \/ domain_access_create(c) \/ domain_access_delete(c)

ChildRequest(c) ==
  \/ ApiTokenCreate(c) \/ ApiUserTokenCreate(c) \/ token_create(c) \/ fetch_create(c)
  \/ ApiTokenDelete(c) \/ token_delete(c) \/ fetch_delete(c)
  \/ ApiSetupLink(c) \/ CliUserReset(c) \/ user_settings(c)

KeyRequest(c) ==
  \/ ApiKeyCreate(c) \/ ApiAlternativeKeyCreate(c) \/ domain_genkeys(c)
  \/ ApiKeyUpdate(c) \/ ApiAlternativeKeyUpdate(c) \/ domain_dkim_status(c)
  \/ ApiKeyDelete(c) \/ ApiAlternativeKeyDelete(c)

Request(c) ==
  \/ ApiDomainDelete(c) \/ domain_delete(c)
  \/ ApiUserDelete(c) \/ CliUserRemove(c) \/ CliUserDelete(c)
  \/ "names" \in focus /\ NameRequest(c)
  \/ "domains" \in focus /\ domain_create(c)
  \/ "limits" \in focus /\ LimitRequest(c)
  \/ "addresses" \in focus /\ AddressRequest(c)
  \/ "people" \in focus /\ PeopleRequest(c)
  \/ "children" \in focus /\ ChildRequest(c)
  \/ "keys" \in focus /\ KeyRequest(c)
  \/ "alternatives" \in focus /\ alternative_create(c)

Next ==
  \/ \E c \in Clients : Request(c) \/ Commit(c) \/ Rollback(c)
  \/ "keys" \in focus /\ \E d \in Names : ImportLegacy(d)

Spec == Init /\ [][Next]_vars
-----------------------------------------------------------------------------
(* Properties *)

Units == [op : {"idle", "create", "add", "limit", "delete", "remove", "key"},
          via : {"full", "table", "anon", "cli"},
          add : SUBSET Rows, del : SUBSET Rows,
          on : Names \cup Addresses \cup AllKeys \cup {None},
          lim : Limits \cup {SignupLimits, None},
          act : {TRUE, FALSE, None}, ret : BOOLEAN, stale : BOOLEAN]

(* The variables have their types. *)
TypeOK ==
  /\ db \subseteq Rows
  /\ dup \subseteq Names \X Addresses
  /\ limit \in [Names -> Limits \cup {SignupLimits, Default}]
  /\ signing \subseteq AllKeys /\ retired \subseteq AllKeys
  /\ legacy \in [Names -> {"none", "file", "bak"}]
  /\ focus \in Focuses
  /\ work \in [Clients -> Units]
  /\ loose \subseteq Names

(* With a database that enforces foreign keys no interleaving of creates   *)
(* and deletes leaves a row whose domain or user is gone: an alternative,  *)
(* mailbox, alias, manager, grant or key always belongs to something.      *)
NoOrphans == \A r \in db : ParentsIn(r, db)

(* max_users and max_aliases are checked before the insert and not by it.  *)
(* However requests overlap, a domain whose limits stayed what they were   *)
(* at its creation, and that no unchecked path filled, exceeds a limit by  *)
(* at most the number of other requests in progress.                       *)
QuotaBound ==
  \A n \in Names \ loose : Has("domain", n) =>
    \A t \in {"user", "alias"} :
      limit[n][t] # Unlimited =>
        CountOf(t, n) <= limit[n][t] + Cardinality(Clients) - 1

NameOnce == \A n \in Names :
  ~\E r \in db, s \in db : /\ r # s /\ r.k = n /\ s.k = n
                           /\ {r.t, s.t} \subseteq {"domain", "alternative", "relay"}

AddressOnce == \A a \in Addresses : ~(Has("user", a) /\ Has("alias", a))

(* Request c ends, and none committed between its reads and its end. *)
EndsAlone(c) == work[c] # Idle /\ work'[c] = Idle /\ ~work[c].stale

(* The new domain of POST /domain is among its own alternatives. *)
OwnAlternative(u) == \E r \in u.add : r.t = "alternative" /\ DomainRow(r.k) \in u.add

(* Every page and API call looks at all three tables of domain names: one  *)
(* that no other request overlaps never gives a name to a second table.    *)
(* The exceptions are in the code: the command line asks for the domain    *)
(* only, and POST /domain accepts the new name as its own alternative.     *)
(* The pages and the sign-ups never give one address to a mailbox and an   *)
(* alias either, so that no alias is shadowed by a mailbox; the API, the   *)
(* proxy sign-in and the command line look at one of the tables only.      *)
NamesChecked ==
  [][\A c \in Clients : EndsAlone(c) =>
       /\ NameOnce /\ work[c].via # "cli" /\ ~OwnAlternative(work[c]) => NameOnce'
       /\ AddressOnce /\ work[c].via \in {"full", "anon"} => AddressOnce']_vars

(* The cascades reach everything that refers to a domain or a user: a      *)
(* delete that no other request overlaps succeeds, and nothing is left,    *)
(* unless a manager was entered twice.                                     *)
DeletesSucceed ==
  [][\A c \in Clients :
       EndsAlone(c) /\ work[c].op = "delete" /\ ~EnteredTwice(work[c])
         => work[c].del \cap db' = {} /\ (NoOrphans => NoOrphans')]_vars

(* A key that was retired never signs again, unless the request that       *)
(* promotes it read the row before another request retired it.             *)
RetiredStaysOff ==
  [][\A k \in AllKeys : k \in retired /\ k \notin signing /\ k \in signing'
       => \E c \in Clients : work[c].on = k /\ work[c].stale]_vars
=============================================================================
