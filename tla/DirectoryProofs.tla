-------------------------- MODULE DirectoryProofs --------------------------
(***************************************************************************)
(* Proofs about Directory.  A request reads, decides and commits later, so *)
(* the invariant says what a pending unit of work looks like (Shaped),     *)
(* what its reads still guarantee while no other request has committed     *)
(* (Fresh), and how far a limit can be exceeded once every pending insert  *)
(* is counted in (Quota).  What rests on foreign keys says so.             *)
(***************************************************************************)
EXTENDS Directory, FiniteSetTheorems, FunctionTheorems, TLAPS

NameTables == {"domain", "alternative", "relay"}
AddressTables == {"user", "alias"}

\* What every unit of work is like: it adds at most one mailbox and one alias, deletes next
\* to an insert only what the insert replaces, and sets limits of a row it says it changes.
Shaped(u) ==
  /\ u \in Units
  /\ IsFiniteSet(u.add)
  /\ \A x \in u.add, y \in u.add : x.t = y.t /\ x.t \in AddressTables => x = y
  /\ u.add # {} => \A r \in u.del : r.t \in DbChildren
  /\ u.lim # None => u.op = "limit" \/ DomainRow(u.on) \in u.add
  /\ u.op = "limit" => u.on \in Names
  /\ u.act # None \/ u.ret => u.on \in AllKeys
  /\ \A x \in u.add :
       x.t \in AddressTables /\ DomainRow(x.d) \in u.add /\ u.via \notin {"cli", "anon"}
         => x.t = "user" /\ u.lim = SignupLimits /\ u.on = x.d

\* No name, no address, that the unit of work adds is in use.
NamesFree(u) ==
  /\ \A x \in u.add : x.t \in NameTables => ~fqdn_in_use(x.k)
  /\ \A x \in u.add, y \in u.add : x.t \in NameTables /\ y.t \in NameTables /\ x.k = y.k => x = y

AddressesFree(u) ==
  /\ \A x \in u.add : x.t \in AddressTables => ~has_email(x.k)
  /\ \A x \in u.add, y \in u.add : ~(x.t = "user" /\ y.t = "alias" /\ x.k = y.k)

\* What a handler made sure of when it read.  Only a domain's sign-up leaves the aliases
\* out: that there are none below a domain that does not exist is for the foreign keys.
Fresh(u) ==
  /\ u.via # "cli" /\ ~OwnAlternative(u) => NamesFree(u)
  /\ ForeignKeys /\ u.via \in {"full", "anon"} => AddressesFree(u)
  /\ u.op = "delete" => u.add = {} /\ \E r \in db : u.del = Cascade(r)
  /\ u.act = TRUE => u.on \notin retired

\* The limit was looked at, unless the domain is not there.
Roomy(u) ==
  \A x \in u.add : x.t \in AddressTables /\ u.via \notin {"cli", "anon"} =>
    Room(x.t, x.d) \/ ~Has("domain", x.d)

Begins(c) == \E u : Pend(c, u) /\ Shaped(u) /\ Fresh(u) /\ Roomy(u) /\ u # Idle /\ ~u.stale

Shapes == \A c \in Clients : Shaped(work[c])

FreshReads == \A c \in Clients : work[c] # Idle /\ ~work[c].stale => Fresh(work[c])

RetiredRows == \A k \in retired : Has("dkim", k)

\* The requests that will add a checked row of table t to domain n.
Adding(t, n) ==
  {c \in Clients : /\ work[c].via \notin {"cli", "anon"}
                   /\ \E x \in work[c].add : x.t = t /\ x.d = n}

QuotaAt(n, t) ==
  n \notin loose /\ DomainRow(n) \in db /\ limit[n][t] # Unlimited =>
    CountOf(t, n) + Cardinality(Adding(t, n)) <= limit[n][t] + Cardinality(Clients) - 1

Quota == \A n \in Names, t \in AddressTables : QuotaAt(n, t)

IInv ==
  /\ TypeOK
  /\ IsFiniteSet(db)
  /\ Shapes
  /\ FreshReads
  /\ RetiredRows
  /\ ForeignKeys => NoOrphans /\ Quota
-----------------------------------------------------------------------------
(* Rows and units of work *)

\* What the constructors of rows make.
LEMMA Made ==
  /\ \A n \in Names : /\ DomainRow(n) \in Rows /\ DomainRow(n).t = "domain"
                      /\ DomainRow(n).k = n /\ DomainRow(n).d = None /\ DomainRow(n).u = None
  /\ \A n \in Names : /\ RelayRow(n) \in Rows /\ RelayRow(n).t = "relay" /\ RelayRow(n).k = n
  /\ \A n \in Names, d \in Names :
       /\ AlternativeRow(n, d) \in Rows /\ AlternativeRow(n, d).t = "alternative"
       /\ AlternativeRow(n, d).k = n
<1>1. ASSUME NEW n \in Names PROVE DomainRow(n) \in Rows /\ RelayRow(n) \in Rows
  BY DEF Rows
<1>2. ASSUME NEW n \in Names, NEW d \in Names PROVE AlternativeRow(n, d) \in Rows
  BY DEF Rows
<1>3. QED
  BY <1>1, <1>2 DEF DomainRow, RelayRow, AlternativeRow, Row

LEMMA MadeOfAddress ==
  ASSUME NEW a \in Addresses
  PROVE  /\ a[2] \in Names
         /\ /\ UserRow(a) \in Rows /\ UserRow(a).t = "user"
            /\ UserRow(a).k = a /\ UserRow(a).d = a[2] /\ UserRow(a).u = None
         /\ \A o \in Addresses \cup {None} :
              /\ AliasRow(a, o) \in Rows /\ AliasRow(a, o).t = "alias"
              /\ AliasRow(a, o).k = a /\ AliasRow(a, o).d = a[2]
         /\ \A d \in Names : /\ ManagerRow(d, a) \in Rows /\ ManagerRow(d, a).t = "manager"
                             /\ AccessRow(d, a) \in Rows /\ AccessRow(d, a).t = "access"
         /\ \A t \in OrmChildren \cup DbChildren :
              ChildRow(t, a) \in Rows /\ ChildRow(t, a).t = t
<1>1. a[2] \in Names
  BY DEF Addresses
<1>2. UserRow(a) \in Rows
  BY DEF Rows
<1>3. ASSUME NEW o \in Addresses \cup {None} PROVE AliasRow(a, o) \in Rows
  BY DEF Rows
<1>4. ASSUME NEW d \in Names PROVE ManagerRow(d, a) \in Rows /\ AccessRow(d, a) \in Rows
  BY DEF Rows
<1>5. ASSUME NEW t \in OrmChildren \cup DbChildren PROVE ChildRow(t, a) \in Rows
  BY DEF Rows
<1>6. QED
  BY <1>1, <1>2, <1>3, <1>4, <1>5 DEF UserRow, AliasRow, ManagerRow, AccessRow, ChildRow, Row

LEMMA MadeKey ==
  ASSUME NEW k \in AllKeys, NEW d \in Names
  PROVE  /\ KeyRow(k, d) \in Rows /\ KeyRow(k, d).t = "dkim"
         /\ KeyRow(k, d).k = k /\ KeyRow(k, d).d = d /\ KeyRow(k, d).u = None
BY DEF Rows, KeyRow, Row

\* What a row says of itself.
RowSays(r) ==
  /\ r.t = "domain" => r.k \in Names /\ r.d = None /\ r.u = None /\ r = DomainRow(r.k)
  /\ r.t = "user" => r.k \in Addresses /\ r.d = r.k[2] /\ r.d \in Names /\ r.u = None
  /\ r.t = "alias" => r.k \in Addresses /\ r.d = r.k[2] /\ r.d \in Names
  /\ r.t \in {"alternative", "relay"} => r.k \in Names
  /\ r.t = "alternative" => r.d \in Names
  /\ r.t = "manager" => r.k \in Names \X Addresses
  /\ r.t = "dkim" => r.k \in AllKeys
  /\ r.t \in OrmChildren \cup DbChildren => r.k \in Addresses /\ r.d = None
  /\ r.d \in Names \cup {None} /\ r.u \in Addresses \cup {None}

LEMMA RowShape ==
  ASSUME NEW r \in Rows PROVE RowSays(r)
<1> USE DEF RowSays, Row, OrmChildren, DbChildren
<1>0. \A a \in Addresses : a[2] \in Names
  BY DEF Addresses
<1>1. ASSUME NEW n \in Names, r = DomainRow(n) PROVE RowSays(r)
  BY <1>1 DEF DomainRow
<1>2. ASSUME NEW n \in Names, r = RelayRow(n) PROVE RowSays(r)
  BY <1>2 DEF RelayRow
<1>3. ASSUME NEW n \in Names, NEW d \in Names, r = AlternativeRow(n, d) PROVE RowSays(r)
  BY <1>3 DEF AlternativeRow
<1>4. ASSUME NEW a \in Addresses, r = UserRow(a) PROVE RowSays(r)
  BY <1>0, <1>4 DEF UserRow
<1>5. ASSUME NEW a \in Addresses, NEW o \in Addresses \cup {None}, r = AliasRow(a, o)
      PROVE  RowSays(r)
  BY <1>0, <1>5 DEF AliasRow
<1>6. ASSUME NEW d \in Names, NEW a \in Addresses, r = ManagerRow(d, a) PROVE RowSays(r)
  BY <1>6 DEF ManagerRow
<1>7. ASSUME NEW d \in Names, NEW a \in Addresses, r = AccessRow(d, a) PROVE RowSays(r)
  BY <1>7 DEF AccessRow
<1>8. ASSUME NEW k \in AllKeys, NEW d \in Names, r = KeyRow(k, d) PROVE RowSays(r)
  BY <1>8 DEF KeyRow
<1>9. ASSUME NEW t \in OrmChildren \cup DbChildren, NEW a \in Addresses, r = ChildRow(t, a)
      PROVE  RowSays(r)
  BY <1>9 DEF ChildRow
<1> HIDE DEF RowSays, Row, OrmChildren, DbChildren
<1>10. QED
  BY <1>1, <1>2, <1>3, <1>4, <1>5, <1>6, <1>7, <1>8, <1>9 DEF Rows

\* A unit of work is of its type.
LEMMA UnitTyped ==
  ASSUME NEW op \in {"create", "add", "limit", "delete", "remove"},
         NEW via \in {"full", "table", "anon", "cli"},
         NEW add \in SUBSET Rows, NEW del \in SUBSET Rows,
         NEW on \in Names \cup Addresses \cup AllKeys \cup {None},
         NEW lim \in Limits \cup {SignupLimits, None}
  PROVE  Unit(op, via, add, del, on, lim) \in Units
BY DEF Unit, Idle, Units

\* Sets of one and of two elements are finite.
LEMMA Small ==
  ASSUME NEW x
  PROVE  IsFiniteSet({x}) /\ Cardinality({x}) = 1 /\ \A S : IsFiniteSet(S) => IsFiniteSet({x} \cup S)
<1>1. IsFiniteSet({x}) /\ Cardinality({x}) = 1
  BY FS_Singleton, Zenon
<1>2. ASSUME NEW S, IsFiniteSet(S) PROVE IsFiniteSet({x} \cup S)
  BY <1>1, <1>2, FS_Union
<1>3. QED
  BY <1>1, <1>2

-----------------------------------------------------------------------------
(* Every request leaves a unit of work that is shaped, fresh and roomy *)

\* One row beside the names and addresses, and what it replaces.
LEMMA PlainAdd ==
  ASSUME NEW c \in Clients, NEW r \in Rows, r.t \notin NameTables \cup AddressTables,
         NEW via \in {"full", "cli"}, NEW del \in SUBSET Rows, \A x \in del : x.t \in DbChildren,
         Pend(c, Unit("add", via, {r}, del, None, None))
  PROVE  Begins(c)
<1> DEFINE u == Unit("add", via, {r}, del, None, None)
<1>1. /\ u.op = "add" /\ u.via = via /\ u.add = {r} /\ u.del = del /\ u.on = None
      /\ u.lim = None /\ u.act = None /\ u.ret = FALSE /\ u.stale = FALSE
  BY DEF Unit, Idle
<1>2. u \in Units
  BY UnitTyped
<1> HIDE DEF u
<1>3. IsFiniteSet(u.add)
  BY <1>1, Small
<1>4. Shaped(u)
  BY <1>1, <1>2, <1>3 DEF Shaped, AddressTables
<1>5. Fresh(u) /\ Roomy(u)
  BY <1>1, DirectoryAssumption
  DEF Fresh, Roomy, NamesFree, AddressesFree, NameTables, AddressTables
<1>6. u # Idle
  BY <1>1 DEF Idle
<1>7. QED
  BY <1>1, <1>4, <1>5, <1>6 DEF Begins, u

\* The row of one address, with rows beside the names and addresses.
LEMMA AddressAdd ==
  ASSUME NEW c \in Clients, NEW r \in Rows, r.t \in AddressTables,
         NEW also \in SUBSET Rows, \A x \in also : x.t \notin NameTables \cup AddressTables,
         IsFiniteSet(also),
         NEW via \in {"full", "table", "anon"},
         NEW del \in SUBSET Rows, \A x \in del : x.t \in DbChildren,
         via # "anon" => Room(r.t, r.d),
         via \in {"full", "anon"} => ~has_email(r.k),
         Pend(c, Unit("add", via, {r} \cup also, del, None, None))
  PROVE  Begins(c)
<1> DEFINE u == Unit("add", via, {r} \cup also, del, None, None)
<1>1. /\ u.op = "add" /\ u.via = via /\ u.add = {r} \cup also /\ u.del = del /\ u.on = None
      /\ u.lim = None /\ u.act = None /\ u.ret = FALSE /\ u.stale = FALSE
  BY DEF Unit, Idle
<1>2. u \in Units
  BY UnitTyped
<1> HIDE DEF u
<1>3. IsFiniteSet(u.add)
  <2>1. IsFiniteSet({r} \cup also)
    BY Small
  <2>2. QED
    BY <1>1, <2>1
<1>4. \A x \in u.add : x = r \/ x.t \notin NameTables \cup AddressTables
  BY <1>1
<1>5. \A n \in Names : DomainRow(n) \notin u.add
  BY <1>4, Made DEF NameTables, AddressTables
<1>6. r.d \in Names
  BY RowShape DEF RowSays, AddressTables
<1>7. Shaped(u)
  BY <1>1, <1>2, <1>3, <1>4, <1>5, <1>6 DEF Shaped
<1>8. NamesFree(u) /\ (via \in {"full", "anon"} => AddressesFree(u))
  BY <1>4 DEF NamesFree, AddressesFree, NameTables, AddressTables
<1>9. Fresh(u)
  BY <1>1, <1>8, DirectoryAssumption DEF Fresh
<1>10. Roomy(u)
  BY <1>1, <1>4 DEF Roomy
<1>11. u # Idle
  BY <1>1 DEF Idle
<1>12. QED
  BY <1>1, <1>7, <1>9, <1>10, <1>11 DEF Begins, u

\* What the command line adds: at most one address, no limits or those of a new domain.
LEMMA CliAdd ==
  ASSUME NEW c \in Clients, NEW op \in {"create", "add"}, NEW add \in SUBSET Rows,
         IsFiniteSet(add),
         \A x \in add, y \in add : x.t = y.t /\ x.t \in AddressTables => x = y,
         NEW del \in SUBSET Rows, \A x \in del : x.t \in DbChildren,
         NEW on \in Names, NEW lim \in Limits \cup {None}, lim # None => DomainRow(on) \in add,
         Pend(c, Unit(op, "cli", add, del, on, lim))
  PROVE  Begins(c)
<1> DEFINE u == Unit(op, "cli", add, del, on, lim)
<1>1. /\ u.op = op /\ u.via = "cli" /\ u.add = add /\ u.del = del /\ u.on = on
      /\ u.lim = lim /\ u.act = None /\ u.ret = FALSE /\ u.stale = FALSE
  BY DEF Unit, Idle
<1>2. u \in Units
  BY UnitTyped
<1> HIDE DEF u
<1>3. Shaped(u)
  BY <1>1, <1>2 DEF Shaped
<1>4. Fresh(u) /\ Roomy(u)
  BY <1>1, DirectoryAssumption DEF Fresh, Roomy
<1>5. u # Idle
  BY <1>1 DEF Idle
<1>6. QED
  BY <1>1, <1>3, <1>4, <1>5 DEF Begins, u

\* A delete without an insert.
LEMMA Drop ==
  ASSUME NEW c \in Clients, NEW op \in {"delete", "remove"}, NEW del \in SUBSET Rows,
         NEW on \in Names \cup Addresses \cup AllKeys \cup {None},
         op = "delete" => \E r \in db : del = Cascade(r),
         Pend(c, Unit(op, "full", {}, del, on, None))
  PROVE  Begins(c)
<1> DEFINE u == Unit(op, "full", {}, del, on, None)
<1>1. /\ u.op = op /\ u.via = "full" /\ u.add = {} /\ u.del = del /\ u.on = on
      /\ u.lim = None /\ u.act = None /\ u.ret = FALSE /\ u.stale = FALSE
  BY DEF Unit, Idle
<1>2. u \in Units
  BY UnitTyped
<1> HIDE DEF u
<1>3. Shaped(u)
  BY <1>1, <1>2, FS_EmptySet DEF Shaped
<1>4. Fresh(u) /\ Roomy(u)
  BY <1>1, DirectoryAssumption DEF Fresh, Roomy, NamesFree, AddressesFree
<1>5. u # Idle
  BY <1>1 DEF Idle
<1>6. QED
  BY <1>1, <1>3, <1>4, <1>5 DEF Begins, u

\* A change of the columns of a key.
LEMMA KeyChange ==
  ASSUME NEW c \in Clients, NEW u \in Units, Pend(c, u),
         u.op = "key", u.via = "full", u.add = {}, u.del = {}, u.on \in AllKeys,
         u.lim = None, ~u.stale, u.act = TRUE => u.on \notin retired
  PROVE  Begins(c)
<1>1. Shaped(u)
  BY FS_EmptySet DEF Shaped
<1>2. Fresh(u) /\ Roomy(u)
  BY DEF Fresh, Roomy, NamesFree, AddressesFree
<1>3. u # Idle
  BY DEF Idle
<1>4. QED
  BY <1>1, <1>2, <1>3 DEF Begins

\* Alternatives are as many as their names.
LEMMA FewAlternatives ==
  ASSUME NEW alts \in SUBSET Names, NEW d \in Names
  PROVE  IsFiniteSet({AlternativeRow(a, d) : a \in alts})
<1> DEFINE T == {AlternativeRow(a, d) : a \in alts}
           f == [a \in alts |-> AlternativeRow(a, d)]
<1>1. f \in [alts -> T] /\ \A t \in T : \E a \in alts : f[a] = t
  OBVIOUS
<1> HIDE DEF f, T
<1>2. f \in Surjection(alts, T)
  BY <1>1, Fun_IsSurj
<1>3. IsFiniteSet(alts)
  BY FS_Subset, DirectoryAssumption
<1>4. IsFiniteSet(T)
  BY <1>2, <1>3, FS_Surjection
<1>5. QED
  BY <1>4 DEF T

\* A domain with its alternatives.
LEMMA NewDomainBegins ==
  ASSUME NEW c \in Clients, NEW n \in Names, NEW alts \in SUBSET Names, NEW lim \in Limits,
         NewDomain(c, n, alts, lim)
  PROVE  Begins(c)
<1> DEFINE A == {AlternativeRow(a, n) : a \in alts}
           u == Unit("create", "full", {DomainRow(n)} \cup A, {}, n, lim)
<1>1. /\ u.op = "create" /\ u.via = "full" /\ u.add = {DomainRow(n)} \cup A /\ u.del = {}
      /\ u.on = n /\ u.lim = lim /\ u.act = None /\ u.ret = FALSE /\ u.stale = FALSE
  BY DEF Unit, Idle
<1>2. /\ A \in SUBSET Rows
      /\ \A x \in A : x.t = "alternative" /\ x.k \in alts /\ x = AlternativeRow(x.k, n)
  BY Made
<1>3. u \in Units
  BY <1>2, Made, UnitTyped
<1>4. IsFiniteSet(u.add)
  <2>1. IsFiniteSet({DomainRow(n)} \cup A)
    BY Small, FewAlternatives
  <2>2. QED
    BY <1>1, <2>1
<1>5. Pend(c, u) /\ ~fqdn_in_use(n) /\ \A a \in alts : ~fqdn_in_use(a)
  BY DEF NewDomain
<1> HIDE DEF u, A
<1>6. Shaped(u)
  BY <1>1, <1>2, <1>3, <1>4, Made, DirectoryAssumption DEF Shaped, AddressTables
<1>7. ~OwnAlternative(u) => NamesFree(u)
  <2>1. SUFFICES ASSUME ~OwnAlternative(u) PROVE NamesFree(u)
    OBVIOUS
  <2>2. n \notin {x.k : x \in A}
    BY <1>1, <1>2, <2>1 DEF OwnAlternative
  <2>3. QED
    BY <1>1, <1>2, <1>5, <2>2, Made DEF NamesFree, NameTables
<1>8. AddressesFree(u) /\ Roomy(u)
  BY <1>1, <1>2, Made DEF AddressesFree, Roomy, AddressTables
<1>9. Fresh(u)
  BY <1>1, <1>7, <1>8, DirectoryAssumption DEF Fresh
<1>10. u # Idle
  BY <1>1 DEF Idle
<1>11. QED
  BY <1>1, <1>5, <1>6, <1>8, <1>9, <1>10 DEF Begins

\* Alternatives of a domain, perhaps with new limits.
LEMMA NewAlternativesBegins ==
  ASSUME NEW c \in Clients, NEW d \in Names, NEW alts \in SUBSET Names,
         NEW lim \in Limits \cup {None}, NewAlternatives(c, d, alts, lim)
  PROVE  Begins(c)
<1> DEFINE A == {AlternativeRow(a, d) : a \in alts}
           op == IF lim = None THEN "add" ELSE "limit"
           u == Unit(op, "full", A, {}, d, lim)
<1>1. /\ u.op = op /\ u.via = "full" /\ u.add = A /\ u.del = {}
      /\ u.on = d /\ u.lim = lim /\ u.act = None /\ u.ret = FALSE /\ u.stale = FALSE
  BY DEF Unit, Idle
<1>2. /\ A \in SUBSET Rows
      /\ \A x \in A : x.t = "alternative" /\ x.k \in alts /\ x = AlternativeRow(x.k, d)
  BY Made
<1>3. u \in Units
  BY <1>2, UnitTyped
<1>4. IsFiniteSet(u.add)
  BY <1>1, FewAlternatives
<1>5. Pend(c, u) /\ \A a \in alts : ~fqdn_in_use(a)
  BY DEF NewAlternatives
<1> HIDE DEF u, A
<1>6. Shaped(u)
  BY <1>1, <1>2, <1>3, <1>4, DirectoryAssumption DEF Shaped, AddressTables
<1>7. NamesFree(u)
  BY <1>1, <1>2, <1>5 DEF NamesFree
<1>8. AddressesFree(u) /\ Roomy(u)
  BY <1>1, <1>2 DEF AddressesFree, Roomy, AddressTables
<1>9. Fresh(u)
  BY <1>1, <1>7, <1>8, DirectoryAssumption DEF Fresh
<1>10. u # Idle
  BY <1>1 DEF Idle
<1>11. QED
  BY <1>1, <1>5, <1>6, <1>8, <1>9, <1>10 DEF Begins

LEMMA NewRelayBegins ==
  ASSUME NEW c \in Clients, NewRelay(c) PROVE Begins(c)
<1>1. PICK n \in Names : /\ ~fqdn_in_use(n)
                         /\ Pend(c, Unit("add", "full", {RelayRow(n)}, {}, None, None))
  BY DEF NewRelay
<1> DEFINE u == Unit("add", "full", {RelayRow(n)}, {}, None, None)
<1>2. /\ u.op = "add" /\ u.via = "full" /\ u.add = {RelayRow(n)} /\ u.del = {}
      /\ u.on = None /\ u.lim = None /\ u.act = None /\ u.ret = FALSE /\ u.stale = FALSE
  BY DEF Unit, Idle
<1>3. u \in Units
  BY Made, UnitTyped
<1> HIDE DEF u
<1>4. IsFiniteSet(u.add)
  BY <1>2, Small
<1>5. Shaped(u) /\ AddressesFree(u) /\ Roomy(u)
  BY <1>2, <1>3, <1>4, Made DEF Shaped, AddressTables, AddressesFree, Roomy
<1>6. NamesFree(u)
  BY <1>1, <1>2, Made DEF NamesFree
<1>7. Fresh(u)
  BY <1>2, <1>5, <1>6, DirectoryAssumption DEF Fresh
<1>8. u # Idle
  BY <1>2 DEF Idle
<1>9. QED
  BY <1>1, <1>2, <1>5, <1>7, <1>8 DEF Begins, u

\* The sign-up of a domain: an alias of the new mailbox's address would be a row of a domain
\* that does not exist.
LEMMA SignupBegins ==
  ASSUME NEW c \in Clients, db \subseteq Rows, ForeignKeys => NoOrphans, domain_signup(c)
  PROVE  Begins(c)
<1>1. PICK n \in Names, a \in Addresses :
        /\ ~fqdn_in_use(n)
        /\ Has("user", a) \/ a[2] = n
        /\ Pend(c, Unit("create", "full",
                        {DomainRow(n), ManagerRow(n, a)}
                        \cup (IF Has("user", a) THEN {} ELSE {UserRow(a)}),
                        {}, n, SignupLimits))
  BY DEF domain_signup
<1> DEFINE U == IF Has("user", a) THEN {} ELSE {UserRow(a)}
           u == Unit("create", "full", {DomainRow(n), ManagerRow(n, a)} \cup U,
                     {}, n, SignupLimits)
<1>2. /\ u.op = "create" /\ u.via = "full" /\ u.add = {DomainRow(n), ManagerRow(n, a)} \cup U
      /\ u.del = {} /\ u.on = n /\ u.lim = SignupLimits
      /\ u.act = None /\ u.ret = FALSE /\ u.stale = FALSE
  BY DEF Unit, Idle
<1>3. Pend(c, u)
  BY <1>1
<1>4. U \in SUBSET Rows /\ \A x \in U : x = UserRow(a) /\ a[2] = n /\ ~Has("user", a)
  BY <1>1, MadeOfAddress
<1>5. u \in Units
  BY <1>4, Made, MadeOfAddress, UnitTyped
<1>6. IsFiniteSet(u.add)
  <2>1. IsFiniteSet(U)
    BY FS_EmptySet, Small
  <2>2. IsFiniteSet({ManagerRow(n, a)} \cup U)
    BY <2>1, Small
  <2>3. IsFiniteSet({DomainRow(n)} \cup ({ManagerRow(n, a)} \cup U))
    BY <2>2, Small
  <2>4. u.add = {DomainRow(n)} \cup ({ManagerRow(n, a)} \cup U)
    BY <1>2
  <2>5. QED
    BY <2>3, <2>4
<1> HIDE DEF u, U
<1>7. \A x \in u.add :
        \/ x = DomainRow(n) /\ x.t = "domain" /\ x.k = n
        \/ x.t = "manager"
        \/ /\ x = UserRow(a) /\ x.t = "user" /\ x.k = a /\ x.d = n
           /\ ~Has("user", a) /\ a[2] = n
  BY <1>2, <1>4, Made, MadeOfAddress
<1>8. Shaped(u)
  BY <1>2, <1>5, <1>6, <1>7 DEF Shaped, AddressTables
<1>9. NamesFree(u)
  BY <1>1, <1>7 DEF NamesFree, NameTables
<1>10. ASSUME ForeignKeys, a[2] = n PROVE ~Has("alias", a)
  <2>1. ASSUME NEW r \in db, r.t = "alias", r.k = a PROVE FALSE
    <3>1. r.d = n
      BY <1>10, <2>1, RowShape DEF RowSays
    <3>2. Has("domain", n)
      BY <1>10, <3>1, DirectoryAssumption DEF NoOrphans, ParentsIn, Has
    <3>3. QED
      BY <1>1, <3>2 DEF fqdn_in_use
  <2>2. QED
    BY <2>1 DEF Has
<1>11. ForeignKeys => AddressesFree(u)
  BY <1>7, <1>10 DEF AddressesFree, AddressTables, has_email
<1>12. Fresh(u)
  BY <1>2, <1>9, <1>11, DirectoryAssumption DEF Fresh
<1>13. Roomy(u)
  BY <1>1, <1>7 DEF Roomy, AddressTables, fqdn_in_use
<1>14. u # Idle
  BY <1>2 DEF Idle
<1>15. QED
  BY <1>2, <1>3, <1>8, <1>12, <1>13, <1>14 DEF Begins

\* Nothing refers to an alias.
LEMMA AliasAlone ==
  ASSUME NEW r \in db, r.t = "alias" PROVE Cascade(r) = {r}
<1>1. Kids({r}) = {}
  BY DEF Kids, Refers
<1>2. Kids({}) = {}
  BY DEF Kids
<1>3. QED
  BY <1>1, <1>2 DEF Cascade

LEMMA RemoveBegins ==
  ASSUME NEW c \in Clients, db \subseteq Rows,
         NEW t \in {"domain", "alternative", "relay", "user", "alias", "token", "fetch"},
         Remove(c, t)
  PROVE  Begins(c)
<1>1. PICK r \in db : /\ r.t = t
                      /\ Pend(c, Unit("delete", "full", {}, Cascade(r), r.k, None))
  BY DEF Remove
<1>2. Cascade(r) \in SUBSET Rows
  BY <1>1 DEF Cascade, Kids
<1>3. r.k \in Names \cup Addresses
  BY <1>1, RowShape DEF RowSays, OrmChildren
<1>4. QED
  BY <1>1, <1>2, <1>3, Drop

LEMMA OwnAliasBegins ==
  ASSUME NEW c \in Clients, db \subseteq Rows, anonalias_delete(c) PROVE Begins(c)
<1>1. PICK r \in db : r.t = "alias" /\ Pend(c, Unit("delete", "full", {}, {r}, r.k, None))
  BY DEF anonalias_delete
<1>2. r.k \in Addresses /\ {r} \in SUBSET Rows
  BY <1>1, RowShape DEF RowSays
<1>3. \E x \in db : {r} = Cascade(x)
  BY <1>1, AliasAlone
<1>4. QED
  BY <1>1, <1>2, <1>3, Drop

LEMMA RevokeBegins ==
  ASSUME NEW c \in Clients, db \subseteq Rows, NEW t, Revoke(c, t) PROVE Begins(c)
<1>1. PICK r \in db : Pend(c, Unit("remove", "full", {}, {r}, None, None))
  BY DEF Revoke
<1>2. {r} \in SUBSET Rows
  BY <1>1
<1>3. QED
  BY <1>1, <1>2, Drop

\* The keys.
LEMMA KeyBegins ==
  ASSUME NEW c \in Clients, db \subseteq Rows, NEW d \in Names,
         StageKey(c, d) \/ PatchKey(c, d) \/ DropKey(c, d)
  PROVE  Begins(c)
<1>1. ASSUME NEW k \in Keys, Pend(c, Unit("add", "full", {KeyRow(k, d)}, {}, None, None))
      PROVE  Begins(c)
  <2>1. KeyRow(k, d) \in Rows /\ KeyRow(k, d).t = "dkim"
    BY MadeKey DEF AllKeys
  <2>2. QED
    BY <1>1, <2>1, PlainAdd DEF NameTables, AddressTables
<1>2. ASSUME NEW k \in AllKeys, NEW on \in BOOLEAN, ~(on /\ k \in retired),
             Pend(c, [Idle EXCEPT !.op = "key", !.on = k, !.ret = ~on,
                                  !.act = IF on = (k \in signing) THEN None ELSE on])
      PROVE  Begins(c)
  <2> DEFINE act == IF on = (k \in signing) THEN None ELSE on
             u == [Idle EXCEPT !.op = "key", !.on = k, !.ret = ~on, !.act = act]
  <2>1. act \in {TRUE, FALSE, None} /\ (act = TRUE => k \notin retired)
    BY <1>2, DirectoryAssumption
  <2> HIDE DEF act
  <2>2. /\ u \in Units /\ u.op = "key" /\ u.via = "full" /\ u.add = {} /\ u.del = {}
        /\ u.on = k /\ u.lim = None /\ u.stale = FALSE /\ u.act = act
    BY <2>1 DEF Idle, Units
  <2>3. Pend(c, u)
    BY <1>2 DEF act
  <2> HIDE DEF u
  <2>4. QED
    BY <2>1, <2>2, <2>3, KeyChange
<1>3. ASSUME NEW k \in AllKeys, Pend(c, Unit("remove", "full", {}, {KeyRow(k, d)}, k, None))
      PROVE  Begins(c)
  <2>1. {KeyRow(k, d)} \in SUBSET Rows
    BY MadeKey
  <2>2. QED
    BY <1>3, <2>1, Drop
<1>4. QED
  BY <1>1, <1>2, <1>3 DEF StageKey, PatchKey, DropKey

LEMMA StatusBegins ==
  ASSUME NEW c \in Clients, db \subseteq Rows, domain_dkim_status(c) PROVE Begins(c)
<1>1. PICK r \in db :
        /\ r.t = "dkim"
        /\ \/ Pend(c, Unit("remove", "full", {}, {r}, r.k, None))
           \/ /\ r.k \in signing
              /\ Pend(c, [Idle EXCEPT !.op = "key", !.on = r.k, !.act = FALSE, !.ret = TRUE])
           \/ /\ r.k \notin signing /\ r.k \notin retired
              /\ Pend(c, [Idle EXCEPT !.op = "key", !.on = r.k, !.act = TRUE])
  BY DEF domain_dkim_status
<1>2. r.k \in AllKeys /\ {r} \in SUBSET Rows
  BY <1>1, RowShape DEF RowSays
<1>3. CASE Pend(c, Unit("remove", "full", {}, {r}, r.k, None))
  BY <1>2, <1>3, Drop
<1>4. CASE Pend(c, [Idle EXCEPT !.op = "key", !.on = r.k, !.act = FALSE, !.ret = TRUE])
  <2> DEFINE u == [Idle EXCEPT !.op = "key", !.on = r.k, !.act = FALSE, !.ret = TRUE]
  <2>1. /\ u \in Units /\ u.op = "key" /\ u.via = "full" /\ u.add = {} /\ u.del = {}
        /\ u.on = r.k /\ u.lim = None /\ u.stale = FALSE /\ u.act = FALSE
    BY <1>2 DEF Idle, Units
  <2> HIDE DEF u
  <2>2. QED
    BY <1>2, <1>4, <2>1, KeyChange DEF u
<1>5. CASE /\ r.k \notin retired
           /\ Pend(c, [Idle EXCEPT !.op = "key", !.on = r.k, !.act = TRUE])
  <2> DEFINE u == [Idle EXCEPT !.op = "key", !.on = r.k, !.act = TRUE]
  <2>1. /\ u \in Units /\ u.op = "key" /\ u.via = "full" /\ u.add = {} /\ u.del = {}
        /\ u.on = r.k /\ u.lim = None /\ u.stale = FALSE
    BY <1>2 DEF Idle, Units
  <2> HIDE DEF u
  <2>2. QED
    BY <1>2, <1>5, <2>1, KeyChange DEF u
<1>6. QED
  BY <1>1, <1>3, <1>4, <1>5

\* Rows beside the names and addresses, whoever adds them.
LEMMA PeopleBegins ==
  ASSUME NEW c \in Clients, db \subseteq Rows,
         \/ \E t \in {"token", "fetch"} : NewChild(c, t)
         \/ \E t \in {"wkd", "setup"} : NewPublished(c, t)
         \/ NewManager(c) \/ domain_access_create(c) \/ CliSetManager(c)
  PROVE  Begins(c)
<1> DEFINE Plain(r) == r \in Rows /\ r.t \notin NameTables \cup AddressTables
<1>1. ASSUME NEW a \in Addresses, NEW t \in OrmChildren \cup DbChildren
      PROVE  Plain(ChildRow(t, a))
  BY MadeOfAddress DEF OrmChildren, DbChildren, NameTables, AddressTables
<1>2. ASSUME NEW a \in Addresses, NEW d \in Names
      PROVE  Plain(ManagerRow(d, a)) /\ Plain(AccessRow(d, a)) /\ a[2] \in Names
  BY MadeOfAddress DEF NameTables, AddressTables
<1>3. ASSUME NEW t \in {"token", "fetch"}, NewChild(c, t) PROVE Begins(c)
  <2>1. PICK a \in Addresses : Pend(c, Unit("add", "full", {ChildRow(t, a)}, {}, None, None))
    BY <1>3 DEF NewChild
  <2>2. Plain(ChildRow(t, a))
    BY <1>1 DEF OrmChildren
  <2>3. QED
    BY <2>1, <2>2, PlainAdd
<1>4. ASSUME NEW t \in {"wkd", "setup"}, NewPublished(c, t) PROVE Begins(c)
  <2>1. PICK a \in Addresses :
          Pend(c, Unit("add", "full", {ChildRow(t, a)}, Replace(t, a), None, None))
    BY <1>4 DEF NewPublished
  <2>2. Plain(ChildRow(t, a))
    BY <1>1 DEF DbChildren
  <2>3. Replace(t, a) \in SUBSET Rows /\ \A x \in Replace(t, a) : x.t \in DbChildren
    BY DEF Replace, DbChildren
  <2>4. QED
    BY <2>1, <2>2, <2>3, PlainAdd
<1>5. ASSUME NEW r \in Rows, r.t \notin NameTables \cup AddressTables,
             NEW via \in {"full", "cli"}, Pend(c, Unit("add", via, {r}, {}, None, None))
      PROVE  Begins(c)
  <2>1. {} \in SUBSET Rows /\ \A x \in {} : x.t \in DbChildren
    OBVIOUS
  <2>2. QED
    BY <1>5, <2>1, PlainAdd
<1>6. CASE NewManager(c)
  BY <1>2, <1>5, <1>6 DEF NewManager
<1>7. CASE domain_access_create(c)
  BY <1>2, <1>5, <1>7 DEF domain_access_create
<1>8. CASE CliSetManager(c)
  <2>1. PICK a \in Addresses :
          Pend(c, Unit("add", "cli", {ManagerRow(a[2], a)}, {}, None, None))
    BY <1>8 DEF CliSetManager
  <2>2. a[2] \in Names
    BY MadeOfAddress
  <2>3. QED
    BY <1>2, <1>5, <2>1, <2>2
<1>9. QED
  BY <1>3, <1>4, <1>6, <1>7, <1>8

\* New mailboxes.
LEMMA UserBegins ==
  ASSUME NEW c \in Clients, db \subseteq Rows,
         \/ ApiUserCreate(c) \/ proxy_create(c) \/ user_create(c) \/ user_signup(c)
         \/ passkey_signup_register(c)
  PROVE  Begins(c)
<1>1. ASSUME NEW a \in Addresses, Room("user", a[2]),
             Pend(c, Unit("add", "table", {UserRow(a)}, {}, None, None))
      PROVE  Begins(c)
  <2>1. {UserRow(a)} = {UserRow(a)} \cup {}
    OBVIOUS
  <2>2. Pend(c, Unit("add", "table", {UserRow(a)} \cup {}, {}, None, None))
    BY <1>1, <2>1
  <2>3. /\ UserRow(a) \in Rows /\ UserRow(a).t = "user" /\ UserRow(a).d = a[2]
        /\ UserRow(a).t \in AddressTables
    BY MadeOfAddress DEF AddressTables
  <2>4. QED
    BY <1>1, <2>2, <2>3, FS_EmptySet, AddressAdd
<1>2. ASSUME NEW a \in Addresses, NEW also \in SUBSET {ChildRow("setup", a), ChildRow("passkey", a)},
             IsFiniteSet(also), NEW del \in SUBSET Replace("setup", a),
             Room("user", a[2]), ~has_email(a),
             Pend(c, Unit("add", "full", {UserRow(a)} \cup also, del, None, None))
      PROVE  Begins(c)
  <2>1. /\ UserRow(a) \in Rows /\ UserRow(a).t = "user" /\ UserRow(a).d = a[2]
        /\ UserRow(a).t \in AddressTables /\ UserRow(a).k = a
    BY MadeOfAddress DEF AddressTables
  <2>2. also \in SUBSET Rows /\ \A x \in also : x.t \notin NameTables \cup AddressTables
    BY MadeOfAddress DEF OrmChildren, DbChildren, NameTables, AddressTables
  <2>3. del \in SUBSET Rows /\ \A x \in del : x.t \in DbChildren
    BY DEF Replace, DbChildren
  <2>4. QED
    BY <1>2, <2>1, <2>2, <2>3, AddressAdd
<1>3. ASSUME NEW a \in Addresses, NEW also \in {{}, {ChildRow("setup", a)}}, NewUser(c, a, also)
      PROVE  Begins(c)
  <2>1. IsFiniteSet(also)
    BY FS_EmptySet, Small
  <2>2. {r \in Replace("setup", a) : also # {}} \in SUBSET Replace("setup", a)
    OBVIOUS
  <2>3. QED
    BY <1>2, <1>3, <2>1, <2>2 DEF NewUser
<1>4. ASSUME passkey_signup_register(c) PROVE Begins(c)
  <2>1. PICK a \in Addresses :
          /\ ~signup_address_conflict(a)
          /\ Pend(c, Unit("add", "full", {UserRow(a), ChildRow("passkey", a)}, {}, None, None))
    BY <1>4 DEF passkey_signup_register
  <2>2. {UserRow(a), ChildRow("passkey", a)} = {UserRow(a)} \cup {ChildRow("passkey", a)}
    OBVIOUS
  <2>3. Pend(c, Unit("add", "full", {UserRow(a)} \cup {ChildRow("passkey", a)}, {}, None, None))
    BY <2>1, <2>2
  <2>4. IsFiniteSet({ChildRow("passkey", a)})
    BY Small
  <2>5. QED
    BY <1>2, <2>1, <2>3, <2>4 DEF signup_address_conflict
<1>5. CASE ApiUserCreate(c) \/ proxy_create(c)
  BY <1>1, <1>5 DEF ApiUserCreate, proxy_create
<1>6. CASE user_create(c) \/ user_signup(c)
  BY <1>3, <1>6 DEF user_create, user_signup
<1>7. QED
  BY <1>4, <1>5, <1>6

\* New aliases.
LEMMA AliasBegins ==
  ASSUME NEW c \in Clients, ApiAliasCreate(c) \/ alias_create(c) \/ NewAnonAlias(c)
  PROVE  Begins(c)
<1>1. ASSUME NEW a \in Addresses, NEW o \in Addresses \cup {None},
             NEW via \in {"full", "table", "anon"}, via # "anon" => Room("alias", a[2]),
             via \in {"full", "anon"} => ~has_email(a),
             Pend(c, Unit("add", via, {AliasRow(a, o)}, {}, None, None))
      PROVE  Begins(c)
  <2>1. {AliasRow(a, o)} = {AliasRow(a, o)} \cup {}
    OBVIOUS
  <2>2. Pend(c, Unit("add", via, {AliasRow(a, o)} \cup {}, {}, None, None))
    BY <1>1, <2>1
  <2>3. /\ AliasRow(a, o) \in Rows /\ AliasRow(a, o).t = "alias" /\ AliasRow(a, o).k = a
        /\ AliasRow(a, o).t \in AddressTables /\ AliasRow(a, o).d = a[2]
    BY MadeOfAddress DEF AddressTables
  <2>4. QED
    BY <1>1, <2>2, <2>3, FS_EmptySet, AddressAdd
<1>2. CASE ApiAliasCreate(c)
  BY <1>1, <1>2 DEF ApiAliasCreate
<1>3. CASE alias_create(c)
  BY <1>1, <1>3 DEF alias_create
<1>4. CASE NewAnonAlias(c)
  BY <1>1, <1>4 DEF NewAnonAlias
<1>5. QED
  BY <1>2, <1>3, <1>4

\* The command line.
LEMMA CliBegins ==
  ASSUME NEW c \in Clients, db \subseteq Rows,
         CliDomain(c) \/ CliUserAdd(c) \/ CliUserImport(c) \/ CliAlias(c)
  PROVE  Begins(c)
<1>1. ASSUME NEW n \in Names
      PROVE  AddMissingDomain(n) \in {{}, {DomainRow(n)}} /\ IsFiniteSet(AddMissingDomain(n))
  BY FS_EmptySet, Small DEF AddMissingDomain
<1>2. ASSUME NEW a \in Addresses, NEW r \in {UserRow(a), AliasRow(a, None)},
             NEW also \in SUBSET {ChildRow("setup", a)}, IsFiniteSet(also),
             NEW del \in SUBSET Replace("setup", a),
             Pend(c, Unit("add", "cli", {r} \cup AddMissingDomain(a[2]) \cup also,
                          del, a[2], None))
      PROVE  Begins(c)
  <2> DEFINE add == {r} \cup AddMissingDomain(a[2]) \cup also
  <2>1. a[2] \in Names /\ r \in Rows
    BY MadeOfAddress
  <2>2. /\ add \in SUBSET Rows
        /\ \A x \in add : x = r \/ x.t \notin AddressTables
    BY <1>1, <2>1, Made, MadeOfAddress DEF DbChildren, AddressTables
  <2>3. IsFiniteSet(add)
    <3>1. IsFiniteSet({r} \cup AddMissingDomain(a[2]))
      BY <1>1, <2>1, Small
    <3>2. QED
      BY <1>2, <3>1, FS_Union
  <2>4. del \in SUBSET Rows /\ \A x \in del : x.t \in DbChildren
    BY DEF Replace, DbChildren
  <2> HIDE DEF add
  <2>5. \A x \in add, y \in add : x.t = y.t /\ x.t \in AddressTables => x = y
    BY <2>2
  <2>6. Pend(c, Unit("add", "cli", add, del, a[2], None))
    BY <1>2 DEF add
  <2>7. QED
    BY <2>1, <2>2, <2>3, <2>4, <2>5, <2>6, CliAdd
<1>3. ASSUME NEW a \in Addresses, NEW r \in {UserRow(a), AliasRow(a, None)},
             Pend(c, Unit("add", "cli", {r} \cup AddMissingDomain(a[2]), {}, a[2], None))
      PROVE  Begins(c)
  <2>1. {r} \cup AddMissingDomain(a[2]) = {r} \cup AddMissingDomain(a[2]) \cup {}
    OBVIOUS
  <2>2. Pend(c, Unit("add", "cli", {r} \cup AddMissingDomain(a[2]) \cup {}, {}, a[2], None))
    BY <1>3, <2>1
  <2>3. QED
    BY <1>2, <2>2, FS_EmptySet
<1>4. CASE CliDomain(c)
  <2>1. PICK n \in Names, lim \in Limits :
          Pend(c, Unit("create", "cli", {DomainRow(n)}, {}, n, lim))
    BY <1>4 DEF CliDomain
  <2>2. {DomainRow(n)} \in SUBSET Rows /\ IsFiniteSet({DomainRow(n)})
    BY Made, Small
  <2>3. QED
    BY <2>1, <2>2, CliAdd
<1>5. CASE CliUserAdd(c)
  <2>1. PICK a \in Addresses, link \in BOOLEAN :
          Pend(c, Unit("add", "cli",
                       {UserRow(a)} \cup AddMissingDomain(a[2])
                       \cup {ChildRow("setup", x) : x \in {y \in {a} : link}},
                       {r \in Replace("setup", a) : link}, a[2], None))
    BY <1>5 DEF CliUserAdd
  <2> DEFINE also == {ChildRow("setup", x) : x \in {y \in {a} : link}}
             del == {r \in Replace("setup", a) : link}
  <2>2. also \in {{}, {ChildRow("setup", a)}} /\ del \in SUBSET Replace("setup", a)
    OBVIOUS
  <2>3. IsFiniteSet(also)
    BY <2>2, FS_EmptySet, Small
  <2>4. also \in SUBSET {ChildRow("setup", a)}
    BY <2>2
  <2>5. Pend(c, Unit("add", "cli", {UserRow(a)} \cup AddMissingDomain(a[2]) \cup also,
                     del, a[2], None))
    BY <2>1
  <2> HIDE DEF also, del
  <2>6. QED
    BY <1>2, <2>2, <2>3, <2>4, <2>5
<1>6. CASE CliUserImport(c)
  BY <1>3, <1>6 DEF CliUserImport
<1>7. CASE CliAlias(c)
  BY <1>3, <1>7 DEF CliAlias
<1>8. QED
  BY <1>4, <1>5, <1>6, <1>7

\* Every request.
LEMMA RequestBegins ==
  ASSUME NEW c \in Clients, db \subseteq Rows, ForeignKeys => NoOrphans, Request(c)
  PROVE  Begins(c)
<1>1. ASSUME NEW t \in {"domain", "alternative", "relay", "user", "alias", "token", "fetch"},
             Remove(c, t)
      PROVE  Begins(c)
  BY <1>1, RemoveBegins
<1>2. CASE \/ ApiDomainDelete(c) \/ domain_delete(c)
           \/ ApiUserDelete(c) \/ CliUserRemove(c) \/ CliUserDelete(c)
  BY <1>1, <1>2 DEF ApiDomainDelete, domain_delete, ApiUserDelete, CliUserRemove, CliUserDelete
<1>3. ASSUME NEW d \in Names, NEW n \in Names, NewAlternatives(c, d, {n}, None) PROVE Begins(c)
  <2>1. {n} \in SUBSET Names
    OBVIOUS
  <2>2. QED
    BY <1>3, <2>1, NewAlternativesBegins
<1>4. ASSUME NEW d \in Names, NEW lim \in Limits, NewAlternatives(c, d, {}, lim) PROVE Begins(c)
  BY <1>4, NewAlternativesBegins
<1>5. ASSUME NEW n \in Names, NEW lim \in Limits, NewDomain(c, n, {}, lim) PROVE Begins(c)
  BY <1>5, NewDomainBegins
<1>6. CASE NameRequest(c)
  <2>1. CASE ApiDomainCreate(c)
    BY <2>1, NewDomainBegins DEF ApiDomainCreate
  <2>2. CASE ApiDomainUpdate(c)
    BY <2>2, NewAlternativesBegins DEF ApiDomainUpdate
  <2>3. CASE ApiAlternativeCreate(c) \/ alternative_create(c)
    BY <1>3, <2>3 DEF ApiAlternativeCreate, alternative_create
  <2>4. CASE ApiRelayCreate(c) \/ relay_create(c)
    BY <2>4, NewRelayBegins DEF ApiRelayCreate, relay_create
  <2>5. CASE \/ ApiAlternativeDelete(c) \/ alternative_delete(c)
             \/ ApiRelayDelete(c) \/ relay_delete(c)
    BY <1>1, <2>5 DEF ApiAlternativeDelete, alternative_delete, ApiRelayDelete, relay_delete
  <2>6. QED
    BY <1>6, <2>1, <2>2, <2>3, <2>4, <2>5, CliBegins DEF NameRequest
<1>7. CASE domain_create(c) \/ LimitRequest(c)
  BY <1>4, <1>5, <1>7, SignupBegins DEF domain_create, LimitRequest, domain_edit, CliSetLimits
<1>8. CASE AddressRequest(c)
  <2>1. CASE ApiAliasDelete(c) \/ alias_delete(c) \/ CliAliasDelete(c)
    BY <1>1, <2>1 DEF ApiAliasDelete, alias_delete, CliAliasDelete
  <2>2. QED
    BY <1>8, <2>1, UserBegins, AliasBegins, CliBegins DEF AddressRequest
<1>9. CASE PeopleRequest(c)
  <2>1. CASE ApiRandomAlias(c) \/ anonalias_create(c)
    BY <2>1, AliasBegins DEF ApiRandomAlias, anonalias_create
  <2>2. CASE ApiManagerCreate(c) \/ manager_create(c)
    BY <2>2, PeopleBegins DEF ApiManagerCreate, manager_create
  <2>3. CASE ApiManagerDelete(c) \/ manager_delete(c) \/ domain_access_delete(c)
    BY <2>3, RevokeBegins DEF ApiManagerDelete, manager_delete, domain_access_delete
  <2>4. QED
    BY <1>9, <2>1, <2>2, <2>3, OwnAliasBegins, PeopleBegins DEF PeopleRequest
<1>10. CASE ChildRequest(c)
  <2>1. CASE ApiTokenDelete(c) \/ token_delete(c) \/ fetch_delete(c)
    BY <1>1, <2>1 DEF ApiTokenDelete, token_delete, fetch_delete
  <2>2. CASE ApiTokenCreate(c) \/ ApiUserTokenCreate(c) \/ token_create(c) \/ fetch_create(c)
    BY <2>2, PeopleBegins DEF ApiTokenCreate, ApiUserTokenCreate, token_create, fetch_create
  <2>3. CASE ApiSetupLink(c) \/ CliUserReset(c) \/ user_settings(c)
    BY <2>3, PeopleBegins DEF ApiSetupLink, CliUserReset, user_settings
  <2>4. QED
    BY <1>10, <2>1, <2>2, <2>3 DEF ChildRequest
<1>11. CASE KeyRequest(c)
  <2>1. ASSUME NEW d \in Names, StageKey(c, d) \/ PatchKey(c, d) \/ DropKey(c, d)
        PROVE  Begins(c)
    BY <2>1, KeyBegins
  <2>2. ASSUME NEW r \in db, r.t = "alternative" PROVE r.d \in Names
    BY <2>2, RowShape DEF RowSays
  <2>3. CASE \/ ApiKeyCreate(c) \/ domain_genkeys(c) \/ ApiKeyUpdate(c) \/ ApiKeyDelete(c)
    BY <2>1, <2>3 DEF ApiKeyCreate, domain_genkeys, ApiKeyUpdate, ApiKeyDelete
  <2>4. CASE \/ ApiAlternativeKeyCreate(c) \/ ApiAlternativeKeyUpdate(c)
             \/ ApiAlternativeKeyDelete(c)
    BY <2>1, <2>2, <2>4
    DEF ApiAlternativeKeyCreate, ApiAlternativeKeyUpdate, ApiAlternativeKeyDelete
  <2>5. QED
    BY <1>11, <2>3, <2>4, StatusBegins DEF KeyRequest
<1>12. CASE alternative_create(c)
  BY <1>3, <1>12 DEF alternative_create
<1>13. QED
  BY <1>2, <1>6, <1>7, <1>8, <1>9, <1>10, <1>11, <1>12 DEF Request

-----------------------------------------------------------------------------
(* Reading and giving up *)

\* Requests that add rows are as many as there are requests at most.
LEMMA AddingFinite ==
  ASSUME NEW t, NEW n
  PROVE  /\ Adding(t, n) \in SUBSET Clients /\ IsFiniteSet(Adding(t, n))
         /\ Cardinality(Adding(t, n)) \in Nat /\ Cardinality(Clients) \in Nat
         /\ Cardinality(Adding(t, n)) <= Cardinality(Clients)
<1>1. Adding(t, n) \in SUBSET Clients
  BY DEF Adding
<1>2. QED
  BY <1>1, FS_Subset, FS_CardinalityType, DirectoryAssumption

LEMMA CountNat ==
  ASSUME NEW t, NEW n, IsFiniteSet(db) PROVE CountOf(t, n) \in Nat
<1>1. {r \in db : r.t = t /\ r.d = n} \in SUBSET db
  OBVIOUS
<1>2. IsFiniteSet({r \in db : r.t = t /\ r.d = n})
  BY <1>1, FS_Subset
<1>3. QED
  BY <1>2, FS_CardinalityType DEF CountOf

\* A limit is -1 or a number.
LEMMA LimitNumber ==
  ASSUME TypeOK, NEW n \in Names, NEW t \in AddressTables
  PROVE  limit[n][t] \in Nat \cup {Unlimited}
<1>1. limit[n] \in [user : Nat \cup {Unlimited}, alias : Nat \cup {Unlimited}]
  BY LimitsAssumption DEF TypeOK, Default
<1>2. QED
  BY <1>1 DEF AddressTables

LEMMA IdleShaped == Shaped(Idle) /\ Idle.add = {} /\ ~Idle.stale /\ Idle \in Units
<1>1. /\ Idle.op = "idle" /\ Idle.via = "full" /\ Idle.add = {} /\ Idle.del = {}
      /\ Idle.on = None /\ Idle.lim = None /\ Idle.act = None /\ Idle.ret = FALSE
      /\ Idle.stale = FALSE
  BY DEF Idle
<1>2. Idle \in Units
  BY DEF Idle, Units
<1>3. QED
  BY <1>1, <1>2, FS_EmptySet DEF Shaped

\* What is fresh stays so as long as nobody commits.
LEMMA FreshNow ==
  ASSUME db' = db, retired' = retired, NEW c \in Clients, NEW u,
         Fresh(u), work'[c] = u
  PROVE  Fresh(work[c])'
<1>1. (work[c].via # "cli" /\ ~OwnAlternative(work[c]) => NamesFree(work[c]))'
  BY DEF Fresh, OwnAlternative, NamesFree, fqdn_in_use, Has
<1>2. (ForeignKeys /\ work[c].via \in {"full", "anon"} => AddressesFree(work[c]))'
  BY DEF Fresh, AddressesFree, has_email, Has
<1>3. (work[c].op = "delete" => work[c].add = {} /\ \E r \in db : work[c].del = Cascade(r))'
  BY DEF Fresh, Cascade, Kids
<1>4. (work[c].act = TRUE => work[c].on \notin retired)'
  BY DEF Fresh
<1>5. QED
  BY <1>1, <1>2, <1>3, <1>4 DEF Fresh

\* What neither reading nor giving up changes.
Rest == <<db, dup, limit, signing, retired, legacy, focus, loose>>

LEMMA RestKept ==
  ASSUME IInv, UNCHANGED Rest, work' \in [Clients -> Units]
  PROVE  TypeOK' /\ IsFiniteSet(db)' /\ RetiredRows' /\ (NoOrphans => NoOrphans')
<1>1. /\ db' = db /\ dup' = dup /\ limit' = limit /\ signing' = signing /\ retired' = retired
      /\ legacy' = legacy /\ focus' = focus /\ loose' = loose
  BY DEF Rest
<1>2. TypeOK'
  BY <1>1 DEF IInv, TypeOK
<1>3. RetiredRows'
  BY <1>1 DEF IInv, RetiredRows, Has
<1>4. NoOrphans => NoOrphans'
  BY <1>1 DEF NoOrphans, ParentsIn
<1>5. QED
  BY <1>1, <1>2, <1>3, <1>4 DEF IInv

LEMMA BeginsInv ==
  ASSUME IInv, NEW c \in Clients, Begins(c) PROVE IInv'
<1>1. PICK u : Pend(c, u) /\ Shaped(u) /\ Fresh(u) /\ Roomy(u) /\ u # Idle /\ ~u.stale
  BY DEF Begins
<1>2. /\ UNCHANGED Rest /\ work[c] = Idle /\ work' = [work EXCEPT ![c] = u]
      /\ db' = db /\ limit' = limit /\ loose' = loose /\ retired' = retired
  BY <1>1 DEF Pend, Rest
<1>3. u \in Units /\ work \in [Clients -> Units]
  BY <1>1 DEF Shaped, IInv, TypeOK
<1>4. /\ work' \in [Clients -> Units] /\ work'[c] = u
      /\ \A b \in Clients \ {c} : work'[b] = work[b]
  BY <1>2, <1>3
<1>5. TypeOK' /\ IsFiniteSet(db)' /\ RetiredRows' /\ (NoOrphans => NoOrphans')
  BY <1>2, <1>4, RestKept
<1>6. Shapes'
  BY <1>1, <1>4 DEF IInv, Shapes, Shaped
<1>7. FreshReads'
  <2> SUFFICES ASSUME NEW b \in Clients, (work[b] # Idle /\ ~work[b].stale)'
               PROVE  Fresh(work[b])'
    BY DEF FreshReads
  <2>1. CASE b = c
    BY <1>1, <1>2, <1>4, <2>1, FreshNow
  <2>2. CASE b # c
    <3>1. work'[b] = work[b] /\ Fresh(work[b])
      BY <1>4, <2>2 DEF IInv, FreshReads, Idle
    <3>2. QED
      BY <1>2, <3>1, FreshNow
  <2>3. QED
    BY <2>1, <2>2
<1>8. ASSUME ForeignKeys PROVE Quota'
  <2> SUFFICES ASSUME NEW n \in Names, NEW t \in AddressTables, n \notin loose,
                      DomainRow(n) \in db, limit[n][t] # Unlimited
               PROVE  CountOf(t, n) + Cardinality(Adding(t, n)')
                        <= limit[n][t] + Cardinality(Clients) - 1
    BY <1>2 DEF Quota, QuotaAt, CountOf
  <2>1. /\ CountOf(t, n) \in Nat /\ limit[n][t] \in Nat
        /\ CountOf(t, n) + Cardinality(Adding(t, n)) <= limit[n][t] + Cardinality(Clients) - 1
    BY <1>8, CountNat, LimitNumber DEF IInv, Quota, QuotaAt
  <2>2. /\ Cardinality(Adding(t, n)) \in Nat /\ Cardinality(Clients) \in Nat
        /\ Adding(t, n)' \in SUBSET Clients
        /\ Cardinality(Adding(t, n)') \in Nat
        /\ Cardinality(Adding(t, n)') <= Cardinality(Clients)
    BY AddingFinite, FS_Subset, FS_CardinalityType, DirectoryAssumption DEF Adding
  <2>3. CASE u.via \notin {"cli", "anon"} /\ \E x \in u.add : x.t = t /\ x.d = n
    <3>1. Has("domain", n)
      BY Made DEF Has
    <3>2. Room(t, n)
      BY <1>1, <2>3, <3>1 DEF Roomy
    <3>3. CountOf(t, n) < limit[n][t]
      BY <3>2 DEF Room
    <3>4. QED
      BY <2>1, <2>2, <3>3
  <2>4. CASE ~(u.via \notin {"cli", "anon"} /\ \E x \in u.add : x.t = t /\ x.d = n)
    <3>1. \A b \in Clients : b \in Adding(t, n)' <=> b \in Adding(t, n)
      BY <1>2, <1>4, <2>4, IdleShaped DEF Adding
    <3>2. Adding(t, n)' = Adding(t, n)
      BY <2>2, <3>1, AddingFinite
    <3>3. QED
      BY <2>1, <3>2
  <2>5. QED
    BY <2>3, <2>4
<1>9. QED
  BY <1>5, <1>6, <1>7, <1>8 DEF IInv

\* A request that gives up only stops counting.
LEMMA RollbackInv ==
  ASSUME IInv, NEW c \in Clients, Rollback(c) PROVE IInv'
<1>1. /\ UNCHANGED Rest /\ work' = [work EXCEPT ![c] = Idle]
      /\ db' = db /\ limit' = limit /\ loose' = loose /\ retired' = retired
  BY DEF Rollback, Rest
<1>2. /\ work' \in [Clients -> Units] /\ work'[c] = Idle
      /\ \A b \in Clients \ {c} : work'[b] = work[b]
  BY <1>1, IdleShaped DEF IInv, TypeOK
<1>3. TypeOK' /\ IsFiniteSet(db)' /\ RetiredRows' /\ (NoOrphans => NoOrphans')
  BY <1>1, <1>2, RestKept
<1>4. Shapes'
  <2> SUFFICES ASSUME NEW b \in Clients PROVE Shaped(work'[b])
    BY DEF Shapes, Shaped
  <2>1. Shaped(work[b])
    BY DEF IInv, Shapes
  <2>2. QED
    BY <1>2, <2>1, IdleShaped
<1>5. FreshReads'
  <2> SUFFICES ASSUME NEW b \in Clients, (work[b] # Idle /\ ~work[b].stale)'
               PROVE  Fresh(work[b])'
    BY DEF FreshReads
  <2>1. work'[b] = work[b] /\ Fresh(work[b])
    BY <1>2 DEF IInv, FreshReads, Idle
  <2>2. QED
    BY <1>1, <2>1, FreshNow
<1>6. ASSUME ForeignKeys PROVE Quota'
  <2> SUFFICES ASSUME NEW n \in Names, NEW t \in AddressTables, n \notin loose,
                      DomainRow(n) \in db, limit[n][t] # Unlimited
               PROVE  CountOf(t, n) + Cardinality(Adding(t, n)')
                        <= limit[n][t] + Cardinality(Clients) - 1
    BY <1>1 DEF Quota, QuotaAt, CountOf
  <2>1. /\ CountOf(t, n) \in Nat /\ limit[n][t] \in Nat
        /\ CountOf(t, n) + Cardinality(Adding(t, n)) <= limit[n][t] + Cardinality(Clients) - 1
    BY <1>6, CountNat, LimitNumber DEF IInv, Quota, QuotaAt
  <2>2. Adding(t, n)' \in SUBSET Adding(t, n)
    BY <1>2, IdleShaped DEF Adding
  <2>3. /\ Cardinality(Adding(t, n)) \in Nat /\ Cardinality(Clients) \in Nat
        /\ Cardinality(Adding(t, n)') \in Nat
        /\ Cardinality(Adding(t, n)') <= Cardinality(Adding(t, n))
    BY <2>2, AddingFinite, FS_Subset, FS_CardinalityType
  <2>4. QED
    BY <2>1, <2>3
<1>7. QED
  BY <1>3, <1>4, <1>5, <1>6 DEF IInv

-----------------------------------------------------------------------------
(* The commit *)

\* The rows after a commit are old ones that were not deleted, or added ones.
LEMMA AfterRows ==
  ASSUME NEW u
  PROVE  /\ After(u) \subseteq (db \ u.del) \cup u.add
         /\ \A r \in (db \ u.del) \cup u.add : r.t \notin DbChildren => r \in After(u)
BY DEF After

\* Requests that another one overtakes become stale and stay what they were otherwise.
LEMMA StaledWork ==
  ASSUME TypeOK, NEW c \in Clients
  PROVE  /\ Staled(c) \in [Clients -> Units] /\ Staled(c)[c] = Idle
         /\ \A b \in Clients \ {c} :
              LET v == Staled(c)[b]
              IN  \/ v = Idle
                  \/ /\ v.stale /\ v.op = work[b].op /\ v.via = work[b].via
                     /\ v.add = work[b].add /\ v.del = work[b].del /\ v.on = work[b].on
                     /\ v.lim = work[b].lim /\ v.act = work[b].act /\ v.ret = work[b].ret
         /\ \A b \in Clients \ {c} : work[b] # Idle => Staled(c)[b].stale
<1> DEFINE g(b) == [work[b] EXCEPT !.stale = TRUE]
<1>1. ASSUME NEW b \in Clients
      PROVE  /\ work[b] \in Units /\ g(b) \in Units /\ g(b).stale /\ g(b).op = work[b].op
             /\ g(b).via = work[b].via /\ g(b).add = work[b].add /\ g(b).del = work[b].del
             /\ g(b).on = work[b].on /\ g(b).lim = work[b].lim /\ g(b).act = work[b].act
             /\ g(b).ret = work[b].ret
  <2>1. work[b] \in Units
    BY DEF TypeOK
  <2>2. QED
    BY <2>1 DEF Units
<1>2. Staled(c) = [b \in Clients |-> IF b = c THEN Idle ELSE IF work[b] = Idle THEN Idle ELSE g(b)]
  BY DEF Staled
<1> HIDE DEF g
<1>3. Staled(c) \in [Clients -> Units]
  <2>1. \A b \in Clients : (IF b = c THEN Idle ELSE IF work[b] = Idle THEN Idle ELSE g(b)) \in Units
    BY <1>1, IdleShaped
  <2>2. QED
    BY <1>2, <2>1
<1>4. Staled(c)[c] = Idle
  BY <1>2
<1>5. ASSUME NEW b \in Clients \ {c}
      PROVE  /\ Staled(c)[b] = Idle \/ Staled(c)[b] = g(b)
             /\ work[b] # Idle => Staled(c)[b] = g(b)
  BY <1>2
<1>6. QED
  BY <1>1, <1>3, <1>4, <1>5

\* The parts of a commit.
LEMMA CommitParts ==
  ASSUME NEW c \in Clients, Commit(c)
  PROVE  LET u == work[c]
         IN  /\ u # Idle /\ ~Clash(u) /\ ~StaleData(u) /\ ~Violates(u)
             /\ db' = After(u) /\ work' = Staled(c)
             /\ loose' = {n \in (loose \ Created(u)) \cup Unchecked(u)
                                 \cup (IF u.op = "limit" THEN {u.on} ELSE {}) :
                            DomainRow(n) \in After(u)}
             /\ \A n \in Names :
                  limit'[n] = IF DomainRow(n) \notin After(u) THEN Default
                              ELSE IF n = u.on /\ u.lim # None THEN u.lim
                              ELSE IF n \in Created(u) THEN Default ELSE limit[n]
BY DEF Commit, Refused

LEMMA CommitTypes ==
  ASSUME TypeOK, Shapes, NEW c \in Clients, Commit(c) PROVE TypeOK'
<1> DEFINE u == work[c]
<1>1. Shaped(u) /\ u \in Units /\ u.add \in SUBSET Rows
  BY DEF Shapes, Shaped, Units
<1>2. After(u) \subseteq Rows
  BY <1>1, AfterRows DEF TypeOK
<1>3. db' \subseteq Rows
  BY <1>2, CommitParts
<1>4. dup' \subseteq Names \X Addresses
  <2>1. \A r \in u.add : r.t = "manager" => r.k \in Names \X Addresses
    BY <1>1, RowShape DEF RowSays
  <2>2. QED
    BY <2>1 DEF Commit, TypeOK
<1>5. limit' \in [Names -> Limits \cup {SignupLimits, Default}]
  <2>1. \A n \in Names :
          (IF DomainRow(n) \notin After(u) THEN Default
           ELSE IF n = u.on /\ u.lim # None THEN u.lim
           ELSE IF n \in Created(u) THEN Default ELSE limit[n])
          \in Limits \cup {SignupLimits, Default}
    BY <1>1 DEF TypeOK, Units
  <2>2. QED
    BY <2>1 DEF Commit
<1>6. signing' \subseteq AllKeys
  <2>1. u.act \in {TRUE, FALSE, None} /\ (u.act # None => u.on \in AllKeys)
    BY <1>1 DEF Shaped, Units
  <2>2. signing' \subseteq IF u.act = TRUE THEN signing \cup {u.on} ELSE signing
    BY <2>1, DirectoryAssumption DEF Commit
  <2>3. QED
    BY <2>1, <2>2, DirectoryAssumption DEF TypeOK
<1>7. retired' \subseteq AllKeys
  BY <1>1 DEF Commit, TypeOK, Shaped
<1>8. loose' \subseteq Names
  <2>1. Unchecked(u) \subseteq Names
    BY <1>1, RowShape DEF RowSays, Unchecked
  <2>2. u.op = "limit" => u.on \in Names
    BY <1>1 DEF Shaped
  <2>3. QED
    BY <2>1, <2>2, CommitParts DEF TypeOK
<1>9. work' \in [Clients -> Units]
  BY CommitParts, StaledWork
<1>10. legacy' = legacy /\ focus' = focus
  BY DEF Commit
<1>11. QED
  BY <1>3, <1>4, <1>5, <1>6, <1>7, <1>8, <1>9, <1>10 DEF TypeOK

LEMMA CommitRetired ==
  ASSUME TypeOK, Shapes, NEW c \in Clients, Commit(c) PROVE RetiredRows'
<1>1. SUFFICES ASSUME NEW k \in retired' PROVE \E r \in After(work[c]) : r.t = "dkim" /\ r.k = k
  BY CommitParts DEF RetiredRows, Has
<1>2. k \in AllKeys
  BY CommitTypes DEF TypeOK
<1>3. QED
  BY <1>1, <1>2 DEF Commit

LEMMA CommitRequests ==
  ASSUME TypeOK, Shapes, NEW c \in Clients, Commit(c) PROVE Shapes' /\ FreshReads'
<1>1. ASSUME NEW b \in Clients
      PROVE  \/ work'[b] = Idle
             \/ /\ work'[b] \in Units /\ work'[b].stale /\ work'[b].op = work[b].op
                /\ work'[b].via = work[b].via /\ work'[b].add = work[b].add
                /\ work'[b].del = work[b].del /\ work'[b].on = work[b].on
                /\ work'[b].lim = work[b].lim /\ work'[b].act = work[b].act
                /\ work'[b].ret = work[b].ret
  BY CommitParts, StaledWork
<1>2. Shapes'
  <2> SUFFICES ASSUME NEW b \in Clients PROVE Shaped(work'[b])
    BY DEF Shapes, Shaped
  <2>1. Shaped(work[b])
    BY DEF Shapes
  <2>2. QED
    BY <1>1, <2>1, IdleShaped DEF Shaped
<1>3. FreshReads'
  BY <1>1 DEF FreshReads, Idle
<1>4. QED
  BY <1>2, <1>3

\* The database refuses what would leave an orphan.
LEMMA CommitParents ==
  ASSUME ForeignKeys, NEW c \in Clients, Commit(c) PROVE NoOrphans'
<1>1. \A r \in After(work[c]) : ParentsIn(r, After(work[c]))
  BY CommitParts DEF Violates
<1>2. QED
  BY <1>1, CommitParts DEF NoOrphans, ParentsIn

\* The committed request is no longer about to add; nobody else becomes so.
LEMMA CommitAdding ==
  ASSUME TypeOK, NEW c \in Clients, Commit(c), NEW t, NEW n
  PROVE  Adding(t, n)' \in SUBSET (Adding(t, n) \ {c})
<1>1. ASSUME NEW b \in Clients, b \in Adding(t, n)' PROVE b \in Adding(t, n) /\ b # c
  <2>1. work'[b] # Idle
    BY <1>1, IdleShaped DEF Adding
  <2>2. b # c /\ work'[b].via = work[b].via /\ work'[b].add = work[b].add
    BY <2>1, CommitParts, StaledWork
  <2>3. QED
    BY <1>1, <2>2 DEF Adding
<1>2. QED
  BY <1>1 DEF Adding

\* A limit is exceeded by no more than the requests that overlap.  A new domain has at most
\* the mailbox of its sign-up, and every other request in progress may still add one row; in
\* a domain that was there before, the row that is committed was counted as pending.
LEMMA CommitQuota ==
  ASSUME ForeignKeys, IInv, NEW c \in Clients, Commit(c) PROVE Quota'
<1> DEFINE u == work[c]
<1>1. /\ Shaped(u) /\ u.add \in SUBSET Rows /\ IsFiniteSet(u.add) /\ TypeOK' /\ TypeOK
      /\ IsFiniteSet(db) /\ db \subseteq Rows
  BY CommitTypes DEF IInv, Shapes, Shaped, Units, TypeOK
<1>2. /\ ~Clash(u) /\ db' = After(u)
      /\ loose' = {n \in (loose \ Created(u)) \cup Unchecked(u)
                          \cup (IF u.op = "limit" THEN {u.on} ELSE {}) : DomainRow(n) \in After(u)}
      /\ \A n \in Names :
           limit'[n] = IF DomainRow(n) \notin After(u) THEN Default
                       ELSE IF n = u.on /\ u.lim # None THEN u.lim
                       ELSE IF n \in Created(u) THEN Default ELSE limit[n]
  BY CommitParts
<1> HIDE DEF u
<1>3. SUFFICES ASSUME NEW n \in Names, NEW t \in AddressTables, n \notin loose',
                      DomainRow(n) \in After(u), limit'[n][t] # Unlimited
               PROVE  Cardinality({r \in After(u) : r.t = t /\ r.d = n})
                        + Cardinality(Adding(t, n)') <= limit'[n][t] + Cardinality(Clients) - 1
  BY <1>2 DEF Quota, QuotaAt, CountOf
<1> DEFINE New == {r \in u.add : r.t = t /\ r.d = n}
           Old == {r \in db : r.t = t /\ r.d = n}
           Now == {r \in After(u) : r.t = t /\ r.d = n}
<1>4. Now \in SUBSET (Old \cup New)
  BY AfterRows
<1>5. New = {} \/ \E x \in u.add : New = {x} /\ x.t = t /\ x.d = n
  <2>1. \A x \in New, y \in New : x = y
    BY <1>1 DEF Shaped
  <2>2. QED
    BY <2>1
<1>6. IsFiniteSet(New) /\ Cardinality(New) \in Nat /\ (New # {} => Cardinality(New) = 1)
  <2>1. New \in SUBSET u.add
    OBVIOUS
  <2>2. QED
    BY <1>1, <1>5, <2>1, FS_Subset, FS_CardinalityType, Small
<1>7. IsFiniteSet(Old) /\ Cardinality(Old) \in Nat /\ CountOf(t, n) = Cardinality(Old)
  <2>1. Old \in SUBSET db
    OBVIOUS
  <2>2. QED
    BY <1>1, <2>1, FS_Subset, FS_CardinalityType DEF CountOf
<1>8. New # {} => u.via \notin {"cli", "anon"}
  BY <1>2, <1>3 DEF Unchecked, AddressTables
<1>9. /\ Adding(t, n)' \in SUBSET (Adding(t, n) \ {c})
      /\ IsFiniteSet(Adding(t, n)') /\ Cardinality(Adding(t, n)') \in Nat
      /\ Cardinality(Adding(t, n)') <= Cardinality(Adding(t, n) \ {c})
      /\ Cardinality(Adding(t, n) \ {c})
           = IF c \in Adding(t, n) THEN Cardinality(Adding(t, n)) - 1 ELSE Cardinality(Adding(t, n))
      /\ Cardinality(Adding(t, n)) \in Nat /\ Cardinality(Clients) \in Nat
  <2>1. Adding(t, n)' \in SUBSET (Adding(t, n) \ {c})
    BY <1>1, CommitAdding
  <2>2. /\ IsFiniteSet(Adding(t, n) \ {c})
        /\ Cardinality(Adding(t, n) \ {c})
             = IF c \in Adding(t, n) THEN Cardinality(Adding(t, n)) - 1
               ELSE Cardinality(Adding(t, n))
        /\ Cardinality(Adding(t, n)) \in Nat /\ Cardinality(Clients) \in Nat
    BY AddingFinite, FS_RemoveElement
  <2>3. QED
    BY <2>1, <2>2, FS_Subset, FS_CardinalityType
<1>10. limit'[n][t] \in Nat
  <2>1. limit'[n] \in [user : Nat \cup {Unlimited}, alias : Nat \cup {Unlimited}]
    BY <1>1, LimitsAssumption DEF TypeOK, Default
  <2>2. QED
    BY <1>3, <2>1 DEF AddressTables
<1> HIDE DEF New, Old, Now
<1>11. CASE DomainRow(n) \in u.add
  <2>1. DomainRow(n) \notin db
    <3>1. DomainRow(n) \notin u.del
      BY <1>1, <1>11, Made DEF Shaped, DbChildren
    <3>2. QED
      BY <1>2, <1>11, <3>1, Made DEF Clash
  <2>2. Old = {}
    <3>1. ASSUME NEW r \in db, r.d = n PROVE FALSE
      <4>1. \E p \in db : p.t = "domain" /\ p.k = n
        BY <3>1, DirectoryAssumption DEF IInv, NoOrphans, ParentsIn
      <4>2. QED
        BY <1>1, <2>1, <4>1, RowShape DEF RowSays
    <3>2. QED
      BY <3>1 DEF Old
  <2>3. /\ Adding(t, n)' \in SUBSET (Clients \ {c})
        /\ Cardinality(Adding(t, n)') <= Cardinality(Clients) - 1
    <3>1. Adding(t, n)' \in SUBSET (Clients \ {c})
      BY <1>9 DEF Adding
    <3>2. IsFiniteSet(Clients \ {c}) /\ Cardinality(Clients \ {c}) = Cardinality(Clients) - 1
      BY FS_RemoveElement, DirectoryAssumption
    <3>3. QED
      BY <3>1, <3>2, FS_Subset
  <2>4. CASE New = {}
    <3>1. Cardinality(Now) = 0
      BY <1>4, <2>2, <2>4, FS_EmptySet
    <3>2. QED
      BY <1>9, <1>10, <2>3, <3>1 DEF Now
  <2>5. CASE New # {}
    <3>1. PICK x \in u.add : x.t = t /\ x.d = n
      BY <1>5, <2>5
    <3>2. t = "user" /\ u.lim = SignupLimits /\ u.on = n
      BY <1>1, <1>8, <1>11, <2>5, <3>1 DEF Shaped
    <3>3. limit'[n] = SignupLimits
      BY <1>2, <1>3, <3>2, DirectoryAssumption
    <3>4. limit'[n][t] >= 1
      BY <3>2, <3>3, LimitsAssumption
    <3>5. Cardinality(Now) <= 1 /\ Cardinality(Now) \in Nat
      <4>1. Now \in SUBSET New
        BY <1>4, <2>2
      <4>2. QED
        BY <1>6, <2>5, <4>1, FS_Subset, FS_CardinalityType
    <3>6. QED
      BY <1>9, <1>10, <2>3, <3>4, <3>5 DEF Now
  <2>6. QED
    BY <2>4, <2>5
<1>12. CASE DomainRow(n) \notin u.add
  <2>1. DomainRow(n) \in db
    BY <1>3, <1>12, AfterRows
  <2>2. n \notin Created(u)
    BY <1>1, <1>12, RowShape DEF Created, RowSays
  <2>3. n \notin loose
    BY <1>2, <1>3, <2>2
  <2>4. limit'[n] = limit[n]
    <3>1. ~(n = u.on /\ u.lim # None)
      <4>1. SUFFICES ASSUME n = u.on, u.lim # None PROVE FALSE
        OBVIOUS
      <4>2. u.op = "limit"
        BY <1>1, <1>12, <4>1 DEF Shaped
      <4>3. QED
        BY <1>2, <1>3, <4>1, <4>2
    <3>2. QED
      BY <1>2, <1>3, <2>2, <3>1
  <2>5. Cardinality(Old) + Cardinality(Adding(t, n)) <= limit'[n][t] + Cardinality(Clients) - 1
    <3>1. QuotaAt(n, t)
      BY DEF IInv, Quota
    <3>2. QED
      BY <1>3, <1>7, <2>1, <2>3, <2>4, <3>1 DEF QuotaAt
  <2>6. CASE New = {}
    <3>1. Cardinality(Now) <= Cardinality(Old) /\ Cardinality(Now) \in Nat
      <4>1. Now \in SUBSET Old
        BY <1>4, <2>6
      <4>2. QED
        BY <1>7, <4>1, FS_Subset, FS_CardinalityType
    <3>2. QED
      BY <1>7, <1>9, <1>10, <2>5, <3>1 DEF Now
  <2>7. CASE New # {}
    <3>1. c \in Adding(t, n)
      BY <1>5, <1>8, <2>7 DEF Adding, u
    <3>2. Cardinality(Now) <= Cardinality(Old) + 1 /\ Cardinality(Now) \in Nat
      <4>1. PICK x \in u.add : New = {x}
        BY <1>5, <2>7
      <4>2. Now \in SUBSET (Old \cup {x})
        BY <1>4, <4>1
      <4>3. /\ IsFiniteSet(Old \cup {x}) /\ Cardinality(Old \cup {x}) \in Nat
            /\ Cardinality(Old \cup {x}) <= Cardinality(Old) + 1
        <5>1. /\ IsFiniteSet(Old \cup {x})
              /\ Cardinality(Old \cup {x})
                   = IF x \in Old THEN Cardinality(Old) ELSE Cardinality(Old) + 1
          BY <1>7, FS_AddElement
        <5>2. QED
          BY <1>7, <5>1
      <4>4. QED
        BY <1>7, <4>2, <4>3, FS_Subset, FS_CardinalityType
    <3>3. QED
      BY <1>7, <1>9, <1>10, <2>5, <3>1, <3>2 DEF Now
  <2>8. QED
    BY <2>6, <2>7
<1>13. QED
  BY <1>11, <1>12

LEMMA CommitInv ==
  ASSUME IInv, NEW c \in Clients, Commit(c) PROVE IInv'
<1>1. TypeOK' /\ RetiredRows' /\ Shapes' /\ FreshReads'
  BY CommitTypes, CommitRetired, CommitRequests DEF IInv
<1>2. IsFiniteSet(db)'
  <2>1. IsFiniteSet(work[c].add) /\ IsFiniteSet(db)
    BY DEF IInv, Shapes, Shaped
  <2>2. IsFiniteSet(db \cup work[c].add)
    BY <2>1, FS_Union
  <2>3. After(work[c]) \in SUBSET (db \cup work[c].add)
    BY AfterRows
  <2>4. QED
    BY <2>2, <2>3, FS_Subset, CommitParts
<1>3. ForeignKeys => NoOrphans' /\ Quota'
  BY CommitParents, CommitQuota
<1>4. QED
  BY <1>1, <1>2, <1>3 DEF IInv

-----------------------------------------------------------------------------
(* The import of a key file *)

LEMMA ImportInv ==
  ASSUME IInv, NEW d \in Names, ImportLegacy(d) PROVE IInv'
<1> DEFINE r0 == KeyRow(LegacyKey, d)
<1>1. /\ r0 \in Rows /\ r0.t = "dkim" /\ r0.d = d /\ r0.u = None /\ LegacyKey \in AllKeys
  BY MadeKey DEF AllKeys
<1>2. /\ db' = db \/ db' = db \cup {r0}
      /\ work' = work /\ retired' = retired /\ limit' = limit /\ loose' = loose
      /\ dup' = dup /\ focus' = focus /\ Has("domain", d)
      /\ \A c \in Clients : work[c] = Idle
  BY DEF ImportLegacy
<1>3. signing' = signing \/ signing' = signing \cup {LegacyKey}
  BY DEF ImportLegacy
<1>4. legacy' = legacy \/ legacy' = [legacy EXCEPT ![d] = "bak"]
  BY DEF ImportLegacy
<1> HIDE DEF r0
<1>5. TypeOK'
  BY <1>1, <1>2, <1>3, <1>4 DEF IInv, TypeOK
<1>6. IsFiniteSet(db)'
  BY <1>2, FS_AddElement DEF IInv
<1>7. Shapes' /\ FreshReads'
  BY <1>2, IdleShaped DEF Shapes, FreshReads, Shaped
<1>8. RetiredRows'
  BY <1>2 DEF IInv, RetiredRows, Has
<1>9. ASSUME NoOrphans PROVE NoOrphans'
  <2>1. db \subseteq db'
    BY <1>2
  <2>2. ASSUME NEW r \in db PROVE ParentsIn(r, db')
    BY <1>9, <2>1 DEF NoOrphans, ParentsIn
  <2>3. ParentsIn(r0, db')
    BY <1>1, <1>2, <2>1 DEF ParentsIn, Has
  <2>4. QED
    BY <1>2, <2>2, <2>3 DEF NoOrphans, ParentsIn
<1>10. ASSUME Quota PROVE Quota'
  <2> SUFFICES ASSUME NEW n \in Names, NEW t \in AddressTables PROVE QuotaAt(n, t)'
    BY DEF Quota
  <2>1. DomainRow(n) \in db' => DomainRow(n) \in db
    BY <1>1, <1>2, Made
  <2>2. {r \in db' : r.t = t /\ r.d = n} = {r \in db : r.t = t /\ r.d = n}
    BY <1>1, <1>2 DEF AddressTables
  <2>3. CountOf(t, n)' = CountOf(t, n) /\ Adding(t, n)' = Adding(t, n)
    BY <1>2, <2>2 DEF CountOf, Adding
  <2>4. QuotaAt(n, t)
    BY <1>10 DEF Quota
  <2>5. QED
    BY <1>2, <2>1, <2>3, <2>4 DEF QuotaAt
<1>11. QED
  BY <1>5, <1>6, <1>7, <1>8, <1>9, <1>10 DEF IInv

-----------------------------------------------------------------------------
(* The invariant *)

LEMMA InitInv == Init => IInv
<1>1. SUFFICES ASSUME Init PROVE IInv
  OBVIOUS
<1>2. PICK n \in Names, l \in Locals, file \in {"none", "file"}, lim \in Limits \cup {Default} :
        /\ db = {DomainRow(n), UserRow(<<l, n>>)} /\ dup = {}
        /\ limit = [m \in Names |-> IF m = n THEN lim ELSE Default]
        /\ signing = {} /\ retired = {}
        /\ legacy = [m \in Names |-> IF m = n THEN file ELSE "none"]
        /\ focus \in Focuses /\ work = [c \in Clients |-> Idle]
        /\ loose = {m \in Names : m = n /\ lim.user = 0}
  BY <1>1 DEF Init
<1> DEFINE a == <<l, n>>
<1>3. a \in Addresses /\ a[2] = n
  BY DEF Addresses
<1> HIDE DEF a
<1>4. /\ db = {DomainRow(n)} \cup {UserRow(a)}
      /\ UserRow(a) \in Rows /\ UserRow(a).t = "user" /\ UserRow(a).d = n /\ UserRow(a).u = None
      /\ DomainRow(n) \in Rows /\ DomainRow(n).t = "domain" /\ DomainRow(n).k = n
      /\ DomainRow(n).d = None /\ DomainRow(n).u = None
  BY <1>2, <1>3, Made, MadeOfAddress DEF a
<1>5. \A c \in Clients : work[c] = Idle
  BY <1>2
<1>6. TypeOK
  BY <1>2, <1>4, IdleShaped DEF TypeOK
<1>7. IsFiniteSet(db)
  BY <1>4, Small
<1>8. Shapes /\ FreshReads /\ RetiredRows
  BY <1>2, <1>5, IdleShaped DEF Shapes, FreshReads, RetiredRows
<1>9. NoOrphans
  BY <1>4, DirectoryAssumption DEF NoOrphans, ParentsIn
<1>10. Quota
  <2> SUFFICES ASSUME NEW m \in Names, NEW t \in AddressTables, m \notin loose,
                      DomainRow(m) \in db, limit[m][t] # Unlimited
               PROVE  CountOf(t, m) + Cardinality(Adding(t, m))
                        <= limit[m][t] + Cardinality(Clients) - 1
    BY DEF Quota, QuotaAt
  <2>1. m = n
    BY <1>4, Made
  <2>2. limit[m][t] \in Nat /\ (t = "user" => limit[m][t] >= 1)
    <3>1. limit[m][t] \in Nat
      BY <1>6, LimitNumber
    <3>2. t = "user" => limit[m][t] # 0
      BY <1>2, <2>1
    <3>3. QED
      BY <3>1, <3>2
  <2>3. Adding(t, m) = {}
    BY <1>5, IdleShaped DEF Adding
  <2>4. Cardinality(Adding(t, m)) = 0
    BY <2>3, FS_EmptySet
  <2>5. CountOf(t, m) <= 1 /\ CountOf(t, m) \in Nat /\ (t = "alias" => CountOf(t, m) = 0)
    <3> DEFINE S == {r \in db : r.t = t /\ r.d = m}
    <3>1. S \in SUBSET {UserRow(a)} /\ (t = "alias" => S = {})
      BY <1>4 DEF AddressTables
    <3>2. IsFiniteSet({UserRow(a)}) /\ Cardinality({UserRow(a)}) = 1
      BY Small
    <3> HIDE DEF S
    <3>3. Cardinality(S) <= 1 /\ Cardinality(S) \in Nat
      BY <3>1, <3>2, FS_Subset, FS_CardinalityType
    <3>4. t = "alias" => Cardinality(S) = 0
      BY <3>1, FS_EmptySet
    <3>5. QED
      BY <3>3, <3>4 DEF CountOf, S
  <2>6. Cardinality(Clients) \in Nat /\ Cardinality(Clients) >= 1
    BY FS_CardinalityType, FS_EmptySet, DirectoryAssumption
  <2>7. QED
    BY <2>2, <2>4, <2>5, <2>6 DEF AddressTables
<1>11. QED
  BY <1>6, <1>7, <1>8, <1>9, <1>10 DEF IInv

LEMMA NextInv == IInv /\ [Next]_vars => IInv'
<1>1. SUFFICES ASSUME IInv, [Next]_vars PROVE IInv'
  OBVIOUS
<1>2. ASSUME NEW c \in Clients, Request(c) PROVE IInv'
  <2>1. db \subseteq Rows /\ (ForeignKeys => NoOrphans)
    BY <1>1 DEF IInv, TypeOK
  <2>2. QED
    BY <1>1, <1>2, <2>1, RequestBegins, BeginsInv
<1>3. ASSUME NEW c \in Clients, Commit(c) \/ Rollback(c) PROVE IInv'
  BY <1>1, <1>3, CommitInv, RollbackInv
<1>4. ASSUME NEW d \in Names, ImportLegacy(d) PROVE IInv'
  BY <1>1, <1>4, ImportInv
<1>5. CASE UNCHANGED vars
  <2>1. /\ UNCHANGED Rest /\ work' = work /\ db' = db /\ retired' = retired
        /\ limit' = limit /\ loose' = loose
    BY <1>5 DEF vars, Rest
  <2>2. TypeOK' /\ IsFiniteSet(db)' /\ RetiredRows' /\ (NoOrphans => NoOrphans')
    BY <1>1, <2>1, RestKept DEF IInv, TypeOK
  <2>3. Shapes'
    BY <1>1, <2>1 DEF IInv, Shapes, Shaped
  <2>4. FreshReads'
    <3> SUFFICES ASSUME NEW b \in Clients, (work[b] # Idle /\ ~work[b].stale)'
                 PROVE  Fresh(work[b])'
      BY DEF FreshReads
    <3>1. work'[b] = work[b] /\ Fresh(work[b])
      BY <1>1, <2>1 DEF IInv, FreshReads, Idle
    <3>2. QED
      BY <2>1, <3>1, FreshNow
  <2>5. Quota => Quota'
    BY <2>1 DEF Quota, QuotaAt, CountOf, Adding
  <2>6. QED
    BY <1>1, <2>2, <2>3, <2>4, <2>5 DEF IInv
<1>6. QED
  BY <1>1, <1>2, <1>3, <1>4, <1>5 DEF Next

\* The invariant holds in every reachable state.
THEOREM Invariance == Spec => []IInv
BY InitInv, NextInv, PTL DEF Spec

\* Every variable keeps its type, whatever the requests do and whether or not the database
\* enforces foreign keys: pending units of work hold rows of the tables only.
THEOREM Typing == Spec => []TypeOK
<1>1. IInv => TypeOK
  BY DEF IInv
<1>2. QED
  BY <1>1, Invariance, PTL

\* With foreign keys no row ever outlives the domain or the user it belongs to, for any
\* number of overlapping requests of the API, the pages and the command line.
THEOREM NoRowIsOrphaned == ForeignKeys => (Spec => []NoOrphans)
<1>1. SUFFICES ASSUME ForeignKeys PROVE Spec => []NoOrphans
  OBVIOUS
<1>2. IInv => NoOrphans
  BY <1>1 DEF IInv
<1>3. QED
  BY <1>2, Invariance, PTL

\* max_users and max_aliases are checked when a request reads and not when it commits, so a
\* domain can exceed them; it never does by more than the number of other requests in
\* progress, however many mailboxes and aliases are created, deleted and created again.
THEOREM LimitsExceededByOverlap == ForeignKeys => (Spec => []QuotaBound)
<1>1. SUFFICES ASSUME ForeignKeys PROVE Spec => []QuotaBound
  OBVIOUS
<1>2. ASSUME IInv PROVE QuotaBound
  <2> SUFFICES ASSUME NEW n \in Names \ loose, Has("domain", n), NEW t \in {"user", "alias"},
                      limit[n][t] # Unlimited
               PROVE  CountOf(t, n) <= limit[n][t] + Cardinality(Clients) - 1
    BY DEF QuotaBound
  <2>1. DomainRow(n) \in db
    BY <1>2, RowShape DEF Has, IInv, TypeOK, RowSays
  <2>2. QuotaAt(n, t)
    BY <1>1, <1>2 DEF IInv, Quota, AddressTables
  <2>3. CountOf(t, n) + Cardinality(Adding(t, n)) <= limit[n][t] + Cardinality(Clients) - 1
    BY <2>1, <2>2 DEF QuotaAt
  <2>4. CountOf(t, n) \in Nat /\ limit[n][t] \in Nat
    BY <1>2, CountNat, LimitNumber DEF IInv, AddressTables
  <2>5. QED
    BY <2>3, <2>4, AddingFinite
<1>3. QED
  BY <1>2, Invariance, PTL

-----------------------------------------------------------------------------
(* What a step may not do *)

\* A request that nobody overtook ends with its own commit or rollback.
LEMMA AloneSteps ==
  ASSUME IInv, Next, NEW c \in Clients, EndsAlone(c)
  PROVE  (Commit(c) \/ Rollback(c)) /\ Fresh(work[c]) /\ Shaped(work[c])
<1>1. work[c] # Idle /\ work'[c] = Idle /\ ~work[c].stale
  BY DEF EndsAlone
<1>2. Fresh(work[c]) /\ Shaped(work[c])
  BY <1>1 DEF IInv, FreshReads, Shapes
<1>3. ASSUME NEW b \in Clients, Request(b) PROVE FALSE
  <2>1. Begins(b)
    BY <1>3, RequestBegins DEF IInv, TypeOK
  <2>2. PICK u : Pend(b, u) /\ u # Idle
    BY <2>1 DEF Begins
  <2>3. work[b] = Idle /\ work' = [work EXCEPT ![b] = u]
    BY <2>2 DEF Pend
  <2>4. work'[c] = work[c]
    BY <1>1, <2>3 DEF IInv, TypeOK
  <2>5. QED
    BY <1>1, <2>4
<1>4. ASSUME NEW b \in Clients, b # c, Commit(b) PROVE FALSE
  <2>1. work'[c].stale
    BY <1>1, <1>4, CommitParts, StaledWork DEF IInv
  <2>2. QED
    BY <1>1, <2>1, IdleShaped
<1>5. ASSUME NEW b \in Clients, b # c, Rollback(b) PROVE FALSE
  <2>1. work'[c] = work[c]
    BY <1>5 DEF Rollback, IInv, TypeOK
  <2>2. QED
    BY <1>1, <2>1
<1>6. ASSUME NEW d \in Names, ImportLegacy(d) PROVE FALSE
  BY <1>1, <1>6 DEF ImportLegacy
<1>7. QED
  BY <1>2, <1>3, <1>4, <1>5, <1>6 DEF Next

\* No request promotes a retired key, unless it read the key before it was retired.
KeyStep ==
  \A k \in AllKeys : k \in retired /\ k \notin signing /\ k \in signing'
    => \E c \in Clients : work[c].on = k /\ work[c].stale

LEMMA NextKeyStep ==
  ASSUME IInv, Next PROVE KeyStep
<1>1. SUFFICES ASSUME NEW k \in AllKeys, k \in retired, k \notin signing, k \in signing'
               PROVE  \E c \in Clients : work[c].on = k /\ work[c].stale
  BY DEF KeyStep
<1>2. ASSUME NEW c \in Clients, Request(c) PROVE FALSE
  <2>1. Begins(c)
    BY <1>2, RequestBegins DEF IInv, TypeOK
  <2>2. signing' = signing
    BY <2>1 DEF Begins, Pend
  <2>3. QED
    BY <1>1, <2>2
<1>3. ASSUME NEW c \in Clients, Rollback(c) PROVE FALSE
  BY <1>1, <1>3 DEF Rollback
<1>4. ASSUME NEW d \in Names, ImportLegacy(d) PROVE FALSE
  <2>1. k = LegacyKey /\ ~Has("dkim", LegacyKey)
    BY <1>1, <1>4 DEF ImportLegacy
  <2>2. QED
    BY <1>1, <2>1 DEF IInv, RetiredRows
<1>5. ASSUME NEW c \in Clients, Commit(c) PROVE work[c].on = k /\ work[c].stale
  <2>1. work[c] \in Units /\ work[c].act \in {TRUE, FALSE, None}
    BY DEF IInv, TypeOK, Units
  <2>2. work[c].act = TRUE /\ work[c].on = k
    BY <1>1, <1>5, <2>1, DirectoryAssumption DEF Commit
  <2>3. work[c] # Idle
    BY <1>5, CommitParts
  <2>4. ~Fresh(work[c])
    BY <1>1, <2>2 DEF Fresh
  <2>5. QED
    BY <2>2, <2>3, <2>4 DEF IInv, FreshReads
<1>6. QED
  BY <1>2, <1>3, <1>4, <1>5 DEF Next

\* A retired DKIM key never signs again, unless the request that promotes it read the row
\* before another request retired it: for any number of keys, domains and requests.
THEOREM RetiredKeysStayOff == Spec => RetiredStaysOff
<1>1. IInv /\ [Next]_vars => [KeyStep]_vars
  <2>1. IInv /\ Next => KeyStep
    BY NextKeyStep
  <2>2. QED
    BY <2>1
<1>2. QED
  BY <1>1, Invariance, PTL DEF Spec, RetiredStaysOff, KeyStep

\* The cascades reach every row whose domain or user goes, and only users and the deleted
\* domain itself are parents among them.
LEMMA CascadeParents ==
  ASSUME db \subseteq Rows, NEW row \in db, NEW r \in db, NEW p \in Cascade(row),
         Refers(r, p), p.t \in {"domain", "user"}, r.t \notin DbChildren
  PROVE  r \in Cascade(row)
<1>1. r \in Kids({p})
  BY DEF Kids
<1>2. CASE p = row
  BY <1>1, <1>2 DEF Cascade
<1>3. CASE p \in Kids({row})
  BY <1>3 DEF Cascade, Kids
<1>4. CASE p \in Kids(Kids({row}))
  <2>1. PICK q \in Kids({row}) : Refers(p, q)
    BY <1>4 DEF Kids
  <2>2. PICK o \in {row} : Refers(q, o)
    BY <2>1 DEF Kids
  <2>3. RowSays(p) /\ RowSays(q) /\ RowSays(row)
    BY <1>4, <2>1, RowShape DEF Kids
  <2>4. p.u = None /\ q.k # None
    BY <2>1, <2>3, DirectoryAssumption DEF RowSays, Refers, Addresses
  <2>5. q.t = "domain"
    BY <2>1, <2>3, <2>4, DirectoryAssumption DEF Refers, RowSays, Addresses
  <2>6. q.d = None /\ q.u = None
    BY <2>3, <2>5 DEF RowSays
  <2>7. QED
    BY <2>2, <2>3, <2>6, DirectoryAssumption DEF Refers, RowSays, Addresses
<1>5. QED
  BY <1>2, <1>3, <1>4 DEF Cascade

\* A delete that nobody overtook leaves no orphan.
LEMMA DeleteClean ==
  ASSUME ForeignKeys, db \subseteq Rows, NoOrphans, NEW u, u.add = {}, NEW row \in db,
         u.del = Cascade(row)
  PROVE  \A r \in After(u) : ParentsIn(r, After(u))
<1> SUFFICES ASSUME NEW r \in After(u) PROVE ParentsIn(r, After(u))
  OBVIOUS
<1>1. r \in db /\ r \notin Cascade(row) /\ ParentsIn(r, db)
  BY AfterRows DEF NoOrphans
<1>2. ASSUME NEW p \in db, p.t \in {"domain", "user"}, Refers(r, p), r.t \notin DbChildren
      PROVE  p \in After(u)
  <2>1. p \notin Cascade(row)
    BY <1>1, <1>2, CascadeParents
  <2>2. QED
    BY <1>2, <2>1, AfterRows DEF DbChildren
<1>3. CASE r.t \notin DbChildren
  BY <1>1, <1>2, <1>3 DEF ParentsIn, Refers
<1>4. CASE r.t \in DbChildren
  <2> DEFINE rest == (db \ u.del) \cup u.add
  <2>1. ParentsIn(r, rest)
    BY <1>4 DEF After
  <2>2. \A p \in rest : p.t \in {"domain", "user"} => p \in After(u)
    BY AfterRows DEF DbChildren
  <2>3. QED
    BY <2>1, <2>2 DEF ParentsIn
<1>5. QED
  BY <1>3, <1>4

DeleteStep ==
  \A c \in Clients :
    EndsAlone(c) /\ work[c].op = "delete" /\ ~EnteredTwice(work[c])
      => work[c].del \cap db' = {} /\ (NoOrphans => NoOrphans')

LEMMA NextDeleteStep ==
  ASSUME ForeignKeys, IInv, Next PROVE DeleteStep
<1>1. SUFFICES ASSUME NEW c \in Clients, EndsAlone(c), work[c].op = "delete",
                      ~EnteredTwice(work[c])
               PROVE  work[c].del \cap db' = {} /\ (NoOrphans => NoOrphans')
  BY DEF DeleteStep
<1> DEFINE u == work[c]
<1>2. (Commit(c) \/ Rollback(c)) /\ Fresh(u)
  BY <1>1, AloneSteps
<1>3. u.add = {} /\ \E row \in db : u.del = Cascade(row)
  BY <1>1, <1>2 DEF Fresh
<1>4. \A r \in After(u) : ParentsIn(r, After(u))
  BY <1>3, DeleteClean DEF IInv, TypeOK
<1>5. ~Refused(u)
  BY <1>1, <1>3, <1>4 DEF Refused, Clash, StaleData, Violates
<1>6. db' = After(u)
  BY <1>2, <1>5, CommitParts DEF Rollback
<1>7. u.del \cap db' = {}
  BY <1>3, <1>6, AfterRows
<1>8. NoOrphans'
  BY <1>4, <1>6 DEF NoOrphans, ParentsIn
<1>9. QED
  BY <1>7, <1>8

\* With foreign keys, a delete of a domain, a user or anything else that no other request
\* overlaps is never refused and leaves nothing behind, unless a manager was entered twice:
\* the cascades of the ORM and of the database reach every row that refers to a deleted one.
THEOREM DeletesReachEverything == ForeignKeys => (Spec => DeletesSucceed)
<1>1. SUFFICES ASSUME ForeignKeys PROVE Spec => DeletesSucceed
  OBVIOUS
<1>2. IInv /\ [Next]_vars => [DeleteStep]_vars
  <2>1. IInv /\ Next => DeleteStep
    BY <1>1, NextDeleteStep
  <2>2. QED
    BY <2>1
<1>3. QED
  BY <1>2, Invariance, PTL DEF Spec, DeletesSucceed, DeleteStep

NameStep ==
  \A c \in Clients : EndsAlone(c) =>
    /\ NameOnce /\ work[c].via # "cli" /\ ~OwnAlternative(work[c]) => NameOnce'
    /\ AddressOnce /\ work[c].via \in {"full", "anon"} => AddressOnce'

LEMMA NextNameStep ==
  ASSUME ForeignKeys, IInv, Next PROVE NameStep
<1>1. SUFFICES ASSUME NEW c \in Clients, EndsAlone(c)
               PROVE  /\ NameOnce /\ work[c].via # "cli" /\ ~OwnAlternative(work[c]) => NameOnce'
                      /\ AddressOnce /\ work[c].via \in {"full", "anon"} => AddressOnce'
  BY DEF NameStep
<1> DEFINE u == work[c]
<1>2. (Commit(c) \/ Rollback(c)) /\ Fresh(u)
  BY <1>1, AloneSteps
<1>3. db' \subseteq db \cup u.add
  BY <1>2, CommitParts, AfterRows DEF Rollback
<1> HIDE DEF u
<1>4. ASSUME NameOnce, NamesFree(u) PROVE NameOnce'
  <2>1. SUFFICES ASSUME NEW n \in Names, NEW r \in db', NEW s \in db', r # s, r.k = n, s.k = n,
                        r.t \in NameTables, s.t \in NameTables
                 PROVE  FALSE
    BY DEF NameOnce, NameTables
  <2>2. ~(r \in db /\ s \in db)
    BY <1>4, <2>1 DEF NameOnce, NameTables
  <2>3. ~(r \in u.add /\ s \in u.add)
    BY <1>4, <2>1 DEF NamesFree
  <2>4. ASSUME NEW x \in u.add, NEW y \in db, x.t \in NameTables, y.t \in NameTables, x.k = y.k
        PROVE  FALSE
    BY <1>4, <2>4 DEF NamesFree, fqdn_in_use, Has, NameTables
  <2>5. QED
    BY <1>3, <2>1, <2>2, <2>3, <2>4
<1>5. ASSUME AddressOnce, AddressesFree(u) PROVE AddressOnce'
  <2>1. SUFFICES ASSUME NEW a \in Addresses, NEW r \in db', NEW s \in db',
                        r.t = "user", r.k = a, s.t = "alias", s.k = a
                 PROVE  FALSE
    BY DEF AddressOnce, Has
  <2>2. ~(r \in db /\ s \in db)
    BY <1>5, <2>1 DEF AddressOnce, Has
  <2>3. ~(r \in u.add /\ s \in u.add)
    BY <1>5, <2>1 DEF AddressesFree
  <2>4. ASSUME NEW x \in u.add, NEW y \in db, x.t \in AddressTables, y.t \in AddressTables,
               x.k = y.k
        PROVE  FALSE
    BY <1>5, <2>4 DEF AddressesFree, has_email, Has, AddressTables
  <2>5. QED
    BY <1>3, <2>1, <2>2, <2>3, <2>4 DEF AddressTables
<1>6. QED
  BY <1>2, <1>4, <1>5 DEF Fresh, u

\* With foreign keys, a page or API call that no other request overlaps never gives a domain
\* name to a second table, nor one address to a mailbox and an alias where it checks both.
\* The sign-up of a domain does not look for aliases; that no alias can wait below a domain
\* that does not exist yet is what the foreign keys add.
THEOREM NamesStayUnique == ForeignKeys => (Spec => NamesChecked)
<1>1. SUFFICES ASSUME ForeignKeys PROVE Spec => NamesChecked
  OBVIOUS
<1>2. IInv /\ [Next]_vars => [NameStep]_vars
  <2>1. IInv /\ Next => NameStep
    BY <1>1, NextNameStep
  <2>2. QED
    BY <2>1
<1>3. QED
  BY <1>2, Invariance, PTL DEF Spec, NamesChecked, NameStep
=============================================================================
