------------------------------- MODULE OAuth2 -------------------------------
(***************************************************************************)
(* The OAuth 2.0 issuer of the admin service (core/admin/mailu/oauth2.py)  *)
(* and the introspection view Dovecot calls (internal/views/oauth2.py).    *)
(*                                                                         *)
(* One mailbox account: every query of the code is keyed by a code hash,   *)
(* a grant id or the account, so rows of two accounts never meet.  A       *)
(* request is a unit of work of the ORM: it SELECTs rows at one instant    *)
(* (`old`), edits them in memory (`new`) and commits at a later instant,   *)
(* writing only the columns it changed.  SELECT ... FOR UPDATE holds the   *)
(* row until the commit when the database has row locks (RowLocks); the    *)
(* SQLite dialect drops the clause.                                        *)
(*                                                                         *)
(* Raw codes and tokens are unguessable and MACed: a client can present    *)
(* exactly the ones the server returned (codes whose row was once stored,  *)
(* and `tokens`), any of them, at any time and any number of times.        *)
(***************************************************************************)
EXTENDS Integers

CONSTANTS
  Codes,        \* authorization codes (secrets.token_urlsafe(32), never repeated)
  Grants,       \* grant ids (secrets.token_urlsafe(16), never repeated)
  Workers,      \* request threads of the admin processes
  None,         \* no code / no grant
  AccessTTL,    \* OAUTH2_ACCESS_TOKEN_TTL
  RefreshTTL,   \* OAUTH2_REFRESH_TOKEN_TTL
  RefreshIdle,  \* OAUTH2_REFRESH_TOKEN_IDLE
  CodeTTL,      \* AUTHORIZATION_CODE_TTL
  Retention,    \* EXPIRED_GRANT_RETENTION
  RowLocks,     \* TRUE when the database honours FOR UPDATE
  KeyAtStart,   \* TRUE when the signing key is already in the config table
  MaxTime,      \* bound on the clock
  MaxGen        \* bound on refresh-token generations

\* configuration.py refuses lifetimes that are not positive.
ASSUME LifetimesPositive ==
  /\ AccessTTL \in Nat \ {0}
  /\ RefreshTTL \in Nat \ {0}
  /\ RefreshIdle \in Nat \ {0}
  /\ CodeTTL \in Nat \ {0}
  /\ Retention \in Nat

ASSUME BoundsAreNaturals == MaxTime \in Nat /\ MaxGen \in Nat

ASSUME FlagsAreBoolean == RowLocks \in BOOLEAN /\ KeyAtStart \in BOOLEAN

ASSUME NoneIsFresh == None \notin Codes /\ None \notin Grants /\ None \notin Workers

VARIABLES
  now,        \* the clock
  enabled,    \* User.enabled
  codes,      \* table oauth2_authorization_code
  grants,     \* table oauth2_grant
  keyStored,  \* the config table has the signing key
  keyCached,  \* per worker: app.oauth2_signing_key is set
  req,        \* per worker: the request it is serving
  tokens      \* every (access, refresh) pair returned to a client so far

vars == <<now, enabled, codes, grants, keyStored, keyCached, req, tokens>>

-----------------------------------------------------------------------------
(* Rows.  "unborn": the random id was not drawn yet; "gone": row deleted.  *)
(* `born` is a history field: the time the grant was issued.               *)

GrantRow == [st : {"unborn", "live", "gone"}, gen : Nat,
             offline : BOOLEAN, access : Nat, refresh : Nat,
             last : Nat, born : Nat]

CodeRow == [st : {"unborn", "live", "gone"}, offline : BOOLEAN, exp : Nat]

NoGrant(s) == [st |-> s, gen |-> 0, offline |-> FALSE, access |-> 0,
               refresh |-> 0, last |-> 0, born |-> 0]
NoCode(s) == [st |-> s, offline |-> FALSE, exp |-> 0]

NoRows == [g \in Grants |-> NoGrant("unborn")]

Idle == [pc |-> "idle", op |-> "none", code |-> None, grant |-> None, gen |-> 0,
         start |-> 0, replay |-> FALSE, old |-> NoRows, new |-> NoRows]

Request == [pc : {"idle", "select", "key", "addkey", "commit", "finish"},
            op : {"none", "redeem", "refresh", "force"},
            code : Codes \cup {None}, grant : Grants \cup {None},
            gen : Nat, start : Nat, replay : BOOLEAN,
            old : [Grants -> GrantRow], new : [Grants -> GrantRow]]

Token == [code : Codes, grant : Grants, gen : Nat, offline : BOOLEAN]

Min(a, b) == IF a <= b THEN a ELSE b

-----------------------------------------------------------------------------
(* Expiry rules.                                                           *)

\* Mutant: the caps are forgotten.
AccessExpiry_NoCap(row, t) == t + AccessTTL

\* _issue_tokens: the access token is cut at both refresh deadlines when the
\* grant can be refreshed at all.
AccessExpiry(row, t) ==
  IF row.offline
  THEN Min(t + AccessTTL, Min(row.refresh, row.last + RefreshIdle))
  ELSE t + AccessTTL

\* A grant issued at time t, first as inserted by the flush, then as finished.
InsertedGrant(offline, t) ==
  [st |-> "live", gen |-> 0, offline |-> offline, access |-> t + AccessTTL,
   refresh |-> IF offline THEN t + RefreshTTL ELSE 0, last |-> t, born |-> t]

IssuedGrant(offline, t) ==
  LET row == InsertedGrant(offline, t)
  IN  [row EXCEPT !.access = AccessExpiry(row, t)]

\* Mutant: the generation is not advanced.
RotatedGrant_SameGen(row, t) ==
  LET touched == [row EXCEPT !.last = t]
  IN  [touched EXCEPT !.access = AccessExpiry(touched, t)]

RotatedGrant(row, t) ==
  LET touched == [row EXCEPT !.gen = @ + 1, !.last = t]
  IN  [touched EXCEPT !.access = AccessExpiry(touched, t)]

\* Mutant: deadlines are set one unit into the past.
ForcedGrant_Past(row, t) ==
  [row EXCEPT !.access = Min(@, t - 1), !.refresh = IF row.offline THEN Min(@, t - 1) ELSE @]

\* force_reauthentication
ForcedGrant(row, t) ==
  [row EXCEPT !.access = Min(@, t), !.refresh = IF row.offline THEN Min(@, t) ELSE @]

\* token(): the refresh-token checks, against the time read at request start.
RefreshExpired(row, t) ==
  \/ ~row.offline
  \/ row.refresh <= t
  \/ row.last + RefreshIdle <= t

\* cleanup_expired_records
ExpiredCode(c) == codes[c].st = "live" /\ codes[c].exp <= now

\* Mutant: the access expiry decides for refreshable grants too.
LongExpired_ByAccess(g) ==
  grants[g].st = "live" /\ grants[g].access <= now - Retention

LongExpired(g) ==
  LET row == grants[g]
      cutoff == now - Retention
  IN  /\ row.st = "live"
      /\ \/ ~row.offline /\ row.access <= cutoff
         \/ row.offline /\ row.refresh <= cutoff
         \/ row.last <= cutoff - RefreshIdle

-----------------------------------------------------------------------------
(* The unit of work.                                                       *)

\* What a flush makes of a stored row: an INSERT, a DELETE, or an UPDATE of the
\* columns that differ from the ones loaded.
Flush(row, old, new) ==
  IF old = new THEN row
  ELSE IF old.st = "unborn" \/ new.st = "gone" THEN new
  ELSE [row EXCEPT !.gen = IF new.gen # old.gen THEN new.gen ELSE @,
                   !.access = IF new.access # old.access THEN new.access ELSE @,
                   !.refresh = IF new.refresh # old.refresh THEN new.refresh ELSE @,
                   !.last = IF new.last # old.last THEN new.last ELSE @]

\* An UPDATE that matches no row raises StaleDataError; a DELETE only warns.
StaleUpdate(w) ==
  \E g \in Grants :
    /\ req[w].old[g] # req[w].new[g]
    /\ req[w].old[g].st = "live" /\ req[w].new[g].st = "live"
    /\ grants[g].st # "live"

\* Mutants: with_for_update() is missing.
HoldsGrant_Unlocked(v, g) == FALSE
HoldsCode_Unlocked(v, c) == FALSE

\* Rows another worker holds FOR UPDATE.
HoldsGrant(v, g) ==
  RowLocks /\ req[v].op = "refresh" /\ req[v].grant = g /\ req[v].pc = "commit"

HoldsCode(v, c) ==
  RowLocks /\ req[v].op = "redeem" /\ req[v].code = c
           /\ req[v].pc \in {"key", "addkey", "commit"}

GrantFree(w, g) == \A v \in Workers \ {w} : ~HoldsGrant(v, g)
CodeFree(w, c) == \A v \in Workers \ {w} : ~HoldsCode(v, c)

Fresh(g) ==
  /\ grants[g].st = "unborn"
  /\ \A w \in Workers : req[w].grant # g
  /\ \A t \in tokens : t.grant # g

Reply(w) == [code |-> req[w].code, grant |-> req[w].grant,
             gen |-> req[w].new[req[w].grant].gen,
             offline |-> req[w].new[req[w].grant].offline]

Done(w) == req' = [req EXCEPT ![w] = Idle]
Goto(w, pc) == req' = [req EXCEPT ![w].pc = pc]

-----------------------------------------------------------------------------
Init ==
  /\ now = 0
  /\ enabled = TRUE
  /\ codes = [c \in Codes |-> NoCode("unborn")]
  /\ grants = NoRows
  /\ keyStored = KeyAtStart
  /\ keyCached = [w \in Workers |-> KeyAtStart]
  /\ req = [w \in Workers |-> Idle]
  /\ tokens = {}

Tick ==
  /\ now < MaxTime
  /\ now' = now + 1
  /\ UNCHANGED <<enabled, codes, grants, keyStored, keyCached, req, tokens>>

\* An administrator enables or disables the account.
SetEnabled ==
  /\ enabled' = ~enabled
  /\ UNCHANGED <<now, codes, grants, keyStored, keyCached, req, tokens>>

\* authorize(), POST with approval: sweep expired rows, then store the code.
\* The sweep's DELETE waits for rows held FOR UPDATE.
Approve(c, offline) ==
  /\ enabled
  /\ codes[c].st = "unborn"
  /\ \A d \in Codes : ExpiredCode(d) => CodeFree(None, d)
  /\ \A g \in Grants : LongExpired(g) => GrantFree(None, g)
  /\ codes' = [d \in Codes |->
       IF d = c THEN [st |-> "live", offline |-> offline, exp |-> now + CodeTTL]
       ELSE IF ExpiredCode(d) THEN NoCode("gone") ELSE codes[d]]
  /\ grants' = [g \in Grants |-> IF LongExpired(g) THEN NoGrant("gone") ELSE grants[g]]
  /\ UNCHANGED <<now, enabled, keyStored, keyCached, req, tokens>>

\* token(), grant_type=authorization_code, up to the locking SELECT.
BeginRedeem(w, c) ==
  /\ req[w].pc = "idle"
  /\ codes[c].st # "unborn"
  /\ req' = [req EXCEPT ![w] = [Idle EXCEPT !.pc = "select", !.op = "redeem",
                                            !.code = c, !.start = now]]
  /\ UNCHANGED <<now, enabled, codes, grants, keyStored, keyCached, tokens>>

\* The SELECT ... FOR UPDATE, the checks, and _issue_tokens up to the signing key.
\* `match`: redirect URI and PKCE verifier fit the stored code.
SelectCode(w, match) ==
  LET c == req[w].code
      valid == codes[c].st = "live" /\ codes[c].exp > req[w].start /\ match
  IN  /\ req[w].pc = "select" /\ req[w].op = "redeem"
      /\ CodeFree(w, c)
      /\ \/ /\ ~valid
            /\ Done(w)
            /\ UNCHANGED codes
         \/ /\ valid /\ ~enabled
            /\ codes' = [codes EXCEPT ![c] = NoCode("gone")]
            /\ Done(w)
         \/ /\ valid /\ enabled
            /\ \E g \in Grants :
                 /\ Fresh(g)
                 /\ req' = [req EXCEPT
                      ![w].pc = IF keyCached[w] THEN "commit" ELSE "key",
                      ![w].grant = g,
                      ![w].new[g] = IssuedGrant(codes[c].offline, now)]
            /\ UNCHANGED codes
      /\ UNCHANGED <<now, enabled, grants, keyStored, keyCached, tokens>>

\* _oauth2_signing_key: look the key up in the config table.
ReadKey(w) ==
  /\ req[w].pc = "key"
  /\ Goto(w, IF keyStored THEN "commit" ELSE "addkey")
  /\ keyCached' = [keyCached EXCEPT ![w] = keyStored]
  /\ UNCHANGED <<now, enabled, codes, grants, keyStored, tokens>>

\* _oauth2_signing_key: the INSERT of a fresh key is committed, and with it the
\* flushed part of the redemption, before the access expiry was cut.
AddKey(w) ==
  LET g == req[w].grant
      row == InsertedGrant(req[w].new[g].offline, req[w].new[g].born)
  IN  /\ req[w].pc = "addkey"
      /\ ~keyStored
      /\ keyStored' = TRUE
      /\ keyCached' = [keyCached EXCEPT ![w] = TRUE]
      /\ codes' = [codes EXCEPT ![req[w].code] = NoCode("gone")]
      /\ grants' = [grants EXCEPT ![g] = row]
      /\ req' = [req EXCEPT ![w].pc = "finish", ![w].old[g] = row]
      /\ UNCHANGED <<now, enabled, tokens>>

\* _oauth2_signing_key: another process stored a key first.  The rollback undoes
\* the flushed redemption too; the final commit then has nothing to write.
LoseKeyRace(w) ==
  /\ req[w].pc = "addkey"
  /\ keyStored
  /\ keyCached' = [keyCached EXCEPT ![w] = TRUE]
  /\ tokens' = tokens \cup {Reply(w)}
  /\ Done(w)
  /\ UNCHANGED <<now, enabled, codes, grants, keyStored>>

\* _parse_mail_token of a well-formed token this server never issued (any of the
\* three endpoints that parse tokens) creates the key as well.
ParseUnknownToken(w) ==
  /\ req[w].pc = "idle"
  /\ ~keyStored
  /\ keyStored' = TRUE
  /\ keyCached' = [keyCached EXCEPT ![w] = TRUE]
  /\ UNCHANGED <<now, enabled, codes, grants, req, tokens>>

\* token(), grant_type=refresh_token, up to the locking SELECT.
BeginRefresh(w, t) ==
  /\ req[w].pc = "idle"
  /\ t.offline
  /\ t.gen < MaxGen
  /\ req' = [req EXCEPT ![w] =
       [Idle EXCEPT !.pc = "select", !.op = "refresh", !.code = t.code,
                    !.grant = t.grant, !.gen = t.gen, !.start = now,
                    !.replay = \E s \in tokens : s.grant = t.grant /\ s.gen > t.gen]]
  /\ keyCached' = [keyCached EXCEPT ![w] = TRUE]
  /\ UNCHANGED <<now, enabled, codes, grants, keyStored, tokens>>

\* Mutant: the previous generation is forgiven and rejected only.
RefreshOutcome_Grace(row, gen, start) ==
  IF row.st # "live" \/ gen > row.gen \/ gen = row.gen - 1 THEN "reject"
  ELSE IF gen < row.gen \/ RefreshExpired(row, start) \/ ~enabled THEN "delete"
  ELSE "rotate"

\* What the request will do to the row it read: reject, delete or rotate.
RefreshOutcome(row, gen, start) ==
  IF row.st # "live" \/ gen > row.gen THEN "reject"
  ELSE IF gen < row.gen \/ RefreshExpired(row, start) \/ ~enabled THEN "delete"
  ELSE "rotate"

SelectGrant(w) ==
  LET g == req[w].grant
      row == grants[g]
      outcome == RefreshOutcome(row, req[w].gen, req[w].start)
  IN  /\ req[w].pc = "select" /\ req[w].op = "refresh"
      /\ GrantFree(w, g)
      /\ \/ outcome = "reject" /\ Done(w)
         \/ /\ outcome # "reject"
            /\ req' = [req EXCEPT
                 ![w].pc = "commit",
                 ![w].old[g] = row,
                 ![w].new[g] = IF outcome = "delete" THEN NoGrant("gone")
                               ELSE RotatedGrant(row, now)]
      /\ UNCHANGED <<now, enabled, codes, grants, keyStored, keyCached, tokens>>

\* force_user_reauthentication (all grants of the account, on a password change)
\* and the "sign in again" button of the token list (one grant): load and edit.
BeginForce(w, targets) ==
  /\ req[w].pc = "idle"
  /\ targets # {}
  /\ \A g \in targets : grants[g].st = "live"
  /\ req' = [req EXCEPT ![w] =
       [Idle EXCEPT !.pc = "commit", !.op = "force",
          !.old = [g \in Grants |-> IF g \in targets THEN grants[g] ELSE NoGrant("unborn")],
          !.new = [g \in Grants |-> IF g \in targets THEN ForcedGrant(grants[g], now)
                                    ELSE NoGrant("unborn")]]]
  /\ UNCHANGED <<now, enabled, codes, grants, keyStored, keyCached, tokens>>

\* The commit that ends a request: flush, release the locks, reply.
Commit(w) ==
  LET r == req[w]
      replies == r.op # "force" /\ r.new[r.grant].st = "live"
  IN  /\ r.pc \in {"commit", "finish"}
      /\ \A g \in Grants : r.old[g] # r.new[g] => GrantFree(w, g)
      /\ ~StaleUpdate(w)
      /\ grants' = [g \in Grants |-> Flush(grants[g], r.old[g], r.new[g])]
      /\ codes' = IF r.op = "redeem" THEN [codes EXCEPT ![r.code] = NoCode("gone")]
                  ELSE codes
      /\ tokens' = IF replies THEN tokens \cup {Reply(w)} ELSE tokens
      /\ Done(w)
      /\ UNCHANGED <<now, enabled, keyStored, keyCached>>

\* Mutant: the same unit of work is retried.
CommitFails_Retry(w) ==
  /\ req[w].pc \in {"commit", "finish"}
  /\ StaleUpdate(w)
  /\ UNCHANGED vars

\* StaleDataError: the whole unit of work is rolled back, the client sees a 500.
CommitFails(w) ==
  /\ req[w].pc \in {"commit", "finish"}
  /\ \A g \in Grants : req[w].old[g] # req[w].new[g] => GrantFree(w, g)
  /\ StaleUpdate(w)
  /\ Done(w)
  /\ UNCHANGED <<now, enabled, codes, grants, keyStored, keyCached, tokens>>

\* revoke() by the client, or the revoke button of the token list.
Revoke(g) ==
  /\ grants[g].st = "live"
  /\ GrantFree(None, g)
  /\ grants' = [grants EXCEPT ![g] = NoGrant("gone")]
  /\ UNCHANGED <<now, enabled, codes, keyStored, keyCached, req, tokens>>

Live == {g \in Grants : grants[g].st = "live"}

WorkerStep(w) ==
  \/ \E match \in BOOLEAN : SelectCode(w, match)
  \/ ReadKey(w) \/ AddKey(w) \/ LoseKeyRace(w)
  \/ SelectGrant(w)
  \/ Commit(w) \/ CommitFails(w)

Next ==
  \/ Tick
  \/ SetEnabled
  \/ \E c \in Codes, offline \in BOOLEAN : Approve(c, offline)
  \/ \E w \in Workers, c \in Codes : BeginRedeem(w, c)
  \/ \E w \in Workers : ParseUnknownToken(w)
  \/ \E w \in Workers, t \in tokens : BeginRefresh(w, t)
  \/ \E w \in Workers : BeginForce(w, Live)
  \/ \E w \in Workers, g \in Grants : BeginForce(w, {g})
  \/ \E g \in Grants : Revoke(g)
  \/ \E w \in Workers : WorkerStep(w)

Spec == Init /\ [][Next]_vars

\* A request thread keeps running.
FairSpec == Spec /\ \A w \in Workers : WF_vars(WorkerStep(w))

-----------------------------------------------------------------------------
(* Observations.                                                           *)

\* oauth2_introspect: what Dovecot is told of an access token (the scope and
\* protocol switches only narrow this further).
Active(t) ==
  LET row == grants[t.grant]
  IN  row.st = "live" /\ row.gen = t.gen /\ row.access > now /\ enabled

\* The expiry side alone, whatever the account's state.
Unexpired(t) ==
  LET row == grants[t.grant]
  IN  row.st = "live" /\ row.gen = t.gen /\ row.access > now

\* oauth2_token_list: the complement of needs_reauthentication.
Usable(g) ==
  LET row == grants[g]
  IN  /\ row.st = "live"
      /\ IF row.offline THEN ~RefreshExpired(row, now) ELSE row.access > now

-----------------------------------------------------------------------------
(* Properties.                                                             *)

\* Every variable stays in its type.
TypeOK ==
  /\ now \in Nat
  /\ enabled \in BOOLEAN
  /\ codes \in [Codes -> CodeRow]
  /\ grants \in [Grants -> GrantRow]
  /\ keyStored \in BOOLEAN
  /\ keyCached \in [Workers -> BOOLEAN]
  /\ req \in [Workers -> Request]
  /\ tokens \subseteq Token

\* "One-time, PKCE-bound authorization code": however many redemptions of a code
\* overlap, the tokens it ever yields belong to one grant.
CodeYieldsOneGrant ==
  \A s, t \in tokens : s.code = t.code => s.grant = t.grant

\* No returned token is ahead of its grant's row: the state token() logs as
\* "possible database rollback" is not reachable by racing refreshes.
TokensNotAhead ==
  \A t \in tokens : grants[t.grant].st = "live" => t.gen <= grants[t.grant].gen

\* Every token pair the server returned belongs to a grant it had stored.
TokensHaveGrant ==
  \A t \in tokens : grants[t.grant].st # "unborn"

\* An access token Dovecot accepts is inside the refresh lifetime counted from
\* the sign-in and inside the idle window counted from the last rotation, even
\* when racing requests write the row from stale reads.
ActiveWithinLifetime ==
  \A t \in tokens : grants[t.grant].offline /\ Active(t) =>
    /\ now < grants[t.grant].born + RefreshTTL
    /\ now < grants[t.grant].last + RefreshIdle

\* An access token that stopped working (rotated away, expired, forced, revoked)
\* never works again.
NoResurrection ==
  [][\A t \in tokens : ~Unexpired(t) => ~Unexpired(t)']_vars

\* "Reuse of a rotated refresh token revokes the entire grant family": a request
\* that presents a token whose successor was already returned leaves no grant.
ReplayRevokes ==
  [][\A w \in Workers :
       req[w].replay /\ req'[w].pc = "idle" => grants'[req[w].grant].st = "gone"]_vars

\* The sweep run by an approval never deletes a grant that the
\* account's token list shows as still signed in.
SweepSparesUsable ==
  [][(\E c \in Codes, offline \in BOOLEAN : Approve(c, offline)) =>
       \A g \in Grants : Usable(g) => grants'[g].st = "live"]_vars

\* Every request ends: no lock order, stale row or error path leaves a thread
\* waiting for another for ever.
RequestsFinish ==
  \A w \in Workers : req[w].pc # "idle" ~> req[w].pc = "idle"

-----------------------------------------------------------------------------
\* What a mail app may rely on: see TokenFamily.
Family == INSTANCE TokenFamily WITH
  family <- [g \in Grants |-> [st |-> grants[g].st, gen |-> grants[g].gen]],
  handed <- {<<t.grant, t.gen>> : t \in tokens}

\* The issuer implements TokenFamily: rotation by one, with the successor
\* returned in the step that stores it, and no way back from deletion.
ImplementsFamily == Family!Spec
=============================================================================
