---------------------------- MODULE OAuth2Proofs ----------------------------
(***************************************************************************)
(* Proofs about OAuth2, for every set of codes, grants and workers, every  *)
(* lifetime and every bound.                                               *)
(*                                                                         *)
(* Safe: the database honours SELECT ... FOR UPDATE and the signing key is *)
(* already stored.  Without either, TLC finds the counterexamples.         *)
(***************************************************************************)
EXTENDS OAuth2, TLAPS

Safe == RowLocks = TRUE /\ KeyAtStart = TRUE

-----------------------------------------------------------------------------
(* The inductive invariant.                                                *)

\* Which fields of a request are set, by stage (whatever the database).
ShapeOK(r) ==
  /\ r.op = "none" <=> r.pc = "idle"
  /\ r.pc = "idle" => ~r.replay
  /\ r.pc = "select" => r.old = NoRows /\ r.new = NoRows
  /\ r.op = "redeem" => /\ r.code \in Codes
                        /\ r.pc = "select" => r.grant = None
                        /\ r.pc # "select" => r.grant \in Grants
  /\ r.op = "refresh" => /\ r.code \in Codes /\ r.grant \in Grants
                         /\ r.pc \in {"select", "commit"}
  /\ r.op = "force" => r.grant = None /\ r.pc = "commit"

TypeInv == TypeOK /\ \A w \in Workers : ShapeOK(req[w])

\* The signing key is stored and known to every worker, so that no request
\* stops on the way to look it up.
KeyReady ==
  /\ keyStored = TRUE
  /\ \A w \in Workers : keyCached[w] = TRUE /\ req[w].pc \in {"idle", "select", "commit"}

\* Deadlines of a refreshable row.
WithinLife(row) ==
  row.offline => /\ row.access <= row.born + RefreshTTL
                 /\ row.access <= row.last + RefreshIdle
                 /\ row.refresh <= row.born + RefreshTTL

RowsOK == \A g \in Grants : grants[g].st = "live" => WithinLife(grants[g]) /\ grants[g].last <= now

\* A redemption about to commit holds a code that is still stored and a grant
\* id nobody else has seen.
RedeemOK(w) ==
  LET r == req[w]
  IN  r.op = "redeem" /\ r.pc = "commit" =>
        /\ codes[r.code].st = "live"
        /\ grants[r.grant].st = "unborn"
        /\ \A t \in tokens : t.grant # r.grant
        /\ \A g \in Grants : r.old[g] = NoGrant("unborn")
        /\ \A g \in Grants : g # r.grant => r.new[g] = NoGrant("unborn")
        /\ r.new[r.grant].st = "live" /\ r.new[r.grant].gen = 0
        /\ WithinLife(r.new[r.grant]) /\ r.new[r.grant].last <= now
        /\ \A v \in Workers \ {w} :
             /\ req[v].grant # r.grant
             /\ req[v].op = "redeem" /\ req[v].pc = "commit" => req[v].code # r.code

\* A refresh presents a token that was handed out; about to commit, it holds
\* the row it read, unchanged.
RefreshOK(w) ==
  LET r == req[w]
      old == r.old[r.grant]
      new == r.new[r.grant]
  IN  /\ r.op = "refresh" => \E t \in tokens : t.grant = r.grant /\ t.code = r.code
      /\ r.op = "refresh" /\ r.pc = "commit" =>
           /\ old = grants[r.grant] /\ old.st = "live"
           /\ \A g \in Grants : g # r.grant => r.old[g] = r.new[g]
           /\ \/ new = NoGrant("gone")
              \/ /\ new.st = "live" /\ new.gen = old.gen + 1
                 /\ new.born = old.born /\ new.offline = old.offline
                 /\ new.refresh = old.refresh
                 /\ WithinLife(new) /\ new.last <= now /\ old.last <= new.last
           /\ \A v \in Workers \ {w} :
                req[v].op = "refresh" /\ req[v].pc = "commit" => req[v].grant # r.grant

\* A forced re-authentication only lowers deadlines of rows it once read.
ForceOK(w) ==
  LET r == req[w]
  IN  r.op = "force" =>
        \A g \in Grants :
          \/ r.old[g] = r.new[g]
          \/ /\ r.old[g].st = "live" /\ r.new[g].st = "live"
             /\ r.new[g].gen = r.old[g].gen /\ r.new[g].last = r.old[g].last
             /\ r.new[g].offline = r.old[g].offline
             /\ r.new[g].access <= r.old[g].access
             /\ r.new[g].refresh <= r.old[g].refresh
             /\ WithinLife(r.old[g])
             /\ grants[g].st # "unborn"
             /\ grants[g].st = "live" =>
                  /\ grants[g].born = r.old[g].born
                  /\ grants[g].offline = r.old[g].offline
                  /\ r.old[g].last <= grants[g].last

\* Tokens come from stored grants and spent codes, and are never ahead.
TokensOK ==
  /\ \A t \in tokens :
       /\ grants[t.grant].st # "unborn"
       /\ codes[t.code].st = "gone"
       /\ grants[t.grant].st = "live" => t.gen <= grants[t.grant].gen
  /\ \A s, t \in tokens : s.code = t.code => s.grant = t.grant

IInv ==
  /\ TypeInv
  /\ KeyReady
  /\ RowsOK
  /\ \A w \in Workers : RedeemOK(w) /\ RefreshOK(w) /\ ForceOK(w)
  /\ TokensOK

-----------------------------------------------------------------------------
(* Types.                                                                  *)

\* Empty rows, the empty unit of work and the idle request have their types.
LEMMA EmptyTypes ==
  /\ \A s \in {"unborn", "live", "gone"} : NoGrant(s) \in GrantRow /\ NoCode(s) \in CodeRow
  /\ NoRows \in [Grants -> GrantRow]
  /\ Idle \in Request
<1>1. \A s \in {"unborn", "live", "gone"} : NoGrant(s) \in GrantRow /\ NoCode(s) \in CodeRow
  BY DEF NoGrant, NoCode, GrantRow, CodeRow
<1>2. NoRows \in [Grants -> GrantRow]
  BY <1>1 DEF NoRows
<1>3. Idle \in Request
  BY <1>2 DEF Idle, Request
<1> QED
  BY <1>1, <1>2, <1>3

\* Issuing, rotating and forcing a grant yields rows (oauth2.py _issue_tokens,
\* token, force_reauthentication).
LEMMA RowTypes ==
  /\ \A o \in BOOLEAN, t \in Nat : InsertedGrant(o, t) \in GrantRow /\ IssuedGrant(o, t) \in GrantRow
  /\ \A row \in GrantRow, t \in Nat : RotatedGrant(row, t) \in GrantRow /\ ForcedGrant(row, t) \in GrantRow
<1>1. \A row \in GrantRow, t \in Nat : AccessExpiry(row, t) \in Nat
  BY LifetimesPositive DEF AccessExpiry, Min, GrantRow
<1>2. \A o \in BOOLEAN, t \in Nat : InsertedGrant(o, t) \in GrantRow
  BY LifetimesPositive DEF InsertedGrant, GrantRow
<1>3. \A o \in BOOLEAN, t \in Nat : IssuedGrant(o, t) \in GrantRow
  BY <1>1, <1>2 DEF IssuedGrant, GrantRow
<1>4. \A row \in GrantRow, t \in Nat : RotatedGrant(row, t) \in GrantRow
  <2> SUFFICES ASSUME NEW row \in GrantRow, NEW t \in Nat
               PROVE  RotatedGrant(row, t) \in GrantRow
    OBVIOUS
  <2> DEFINE touched == [row EXCEPT !.gen = @ + 1, !.last = t]
  <2>a. row.gen + 1 \in Nat
    BY DEF GrantRow
  <2>1. touched \in GrantRow
    BY <2>a DEF GrantRow
  <2> HIDE DEF touched
  <2>2. [touched EXCEPT !.access = AccessExpiry(touched, t)] \in GrantRow
    BY <1>1, <2>1 DEF GrantRow
  <2> QED
    BY <2>2 DEF RotatedGrant, touched
<1>5. \A row \in GrantRow, t \in Nat : ForcedGrant(row, t) \in GrantRow
  BY DEF ForcedGrant, Min, GrantRow
<1> QED
  BY <1>2, <1>3, <1>4, <1>5

\* A flush yields a row.
LEMMA FlushType ==
  \A row, old, new \in GrantRow : Flush(row, old, new) \in GrantRow
<1> SUFFICES ASSUME NEW row \in GrantRow, NEW old \in GrantRow, NEW new \in GrantRow
             PROVE  Flush(row, old, new) \in GrantRow
  OBVIOUS
<1> DEFINE gen == IF new.gen # old.gen THEN new.gen ELSE row.gen
           access == IF new.access # old.access THEN new.access ELSE row.access
           refresh == IF new.refresh # old.refresh THEN new.refresh ELSE row.refresh
           last == IF new.last # old.last THEN new.last ELSE row.last
<1>1. gen \in Nat /\ access \in Nat /\ refresh \in Nat /\ last \in Nat
  BY DEF GrantRow
<1>2. [row EXCEPT !.gen = gen, !.access = access, !.refresh = refresh, !.last = last] \in GrantRow
  <2> HIDE DEF gen, access, refresh, last
  <2> QED
    BY <1>1 DEF GrantRow
<1> QED
  BY <1>2 DEF Flush

\* The idle request is well formed, and replacing one request keeps all so.
LEMMA ShapeIdle == ShapeOK(Idle)
BY DEF ShapeOK, Idle

LEMMA ReplaceRequest ==
  ASSUME TypeInv, NEW w \in Workers, NEW r \in Request, ShapeOK(r),
         req' = [req EXCEPT ![w] = r]
  PROVE  req' \in [Workers -> Request] /\ \A v \in Workers : ShapeOK(req'[v])
BY DEF TypeInv, TypeOK

LEMMA TypeInit == Init => TypeInv
<1> SUFFICES ASSUME Init PROVE TypeInv
  OBVIOUS
<1>1. TypeOK
  BY EmptyTypes, FlagsAreBoolean DEF Init, TypeOK
<1>2. \A w \in Workers : ShapeOK(req[w])
  BY ShapeIdle DEF Init
<1> QED
  BY <1>1, <1>2 DEF TypeInv

\* Every step keeps every variable in its type.
LEMMA TypeStep == TypeInv /\ [Next]_vars => TypeInv'
<1> SUFFICES ASSUME TypeInv, [Next]_vars PROVE TypeInv'
  OBVIOUS
<1>t. TypeOK /\ \A w \in Workers : ShapeOK(req[w])
  BY DEF TypeInv
<1>1. CASE Tick
  BY <1>1, <1>t DEF Tick, TypeInv, TypeOK
<1>2. CASE SetEnabled
  BY <1>2, <1>t DEF SetEnabled, TypeInv, TypeOK
<1>3. ASSUME NEW c \in Codes, NEW offline \in BOOLEAN, Approve(c, offline)
      PROVE  TypeInv'
  <2>1. [st |-> "live", offline |-> offline, exp |-> now + CodeTTL] \in CodeRow
    BY <1>t, LifetimesPositive DEF CodeRow, TypeOK
  <2>2. codes' \in [Codes -> CodeRow]
    BY <1>3, <1>t, <2>1, EmptyTypes DEF Approve, TypeOK
  <2>3. grants' \in [Grants -> GrantRow]
    BY <1>3, <1>t, EmptyTypes DEF Approve, TypeOK
  <2> QED
    BY <1>3, <1>t, <2>2, <2>3 DEF Approve, TypeInv, TypeOK
<1>4. ASSUME NEW w \in Workers, NEW c \in Codes, BeginRedeem(w, c)
      PROVE  TypeInv'
  <2> DEFINE r == [Idle EXCEPT !.pc = "select", !.op = "redeem", !.code = c, !.start = now]
  <2>1. r \in Request /\ ShapeOK(r)
    BY <1>t, EmptyTypes, NoneIsFresh DEF Request, ShapeOK, TypeOK, Idle
  <2>2. req' = [req EXCEPT ![w] = r]
    BY <1>4 DEF BeginRedeem
  <2>3. req' \in [Workers -> Request] /\ \A v \in Workers : ShapeOK(req'[v])
    BY <2>1, <2>2, ReplaceRequest
  <2> QED
    BY <1>4, <1>t, <2>3 DEF BeginRedeem, TypeInv, TypeOK
<1>5. ASSUME NEW w \in Workers, NEW match \in BOOLEAN, SelectCode(w, match)
      PROVE  TypeInv'
  <2>c. req[w].op = "redeem" /\ req[w].pc = "select" /\ req[w] \in Request /\ req[w].code \in Codes
    BY <1>5, <1>t DEF SelectCode, TypeOK, ShapeOK
  <2>1. CASE Done(w)
    <3>1. req' \in [Workers -> Request] /\ \A v \in Workers : ShapeOK(req'[v])
      BY <2>1, EmptyTypes, ShapeIdle, ReplaceRequest DEF Done
    <3>2. codes' \in [Codes -> CodeRow]
      BY <1>5, <1>t, EmptyTypes DEF SelectCode, TypeOK
    <3> QED
      BY <1>5, <1>t, <3>1, <3>2 DEF SelectCode, TypeInv, TypeOK
  <2>2. ASSUME NEW g \in Grants,
               req' = [req EXCEPT
                      ![w].pc = IF keyCached[w] THEN "commit" ELSE "key",
                      ![w].grant = g,
                      ![w].new[g] = IssuedGrant(codes[req[w].code].offline, now)],
               UNCHANGED codes
        PROVE  TypeInv'
    <3> DEFINE row == IssuedGrant(codes[req[w].code].offline, now)
               new == [req[w].new EXCEPT ![g] = row]
               pc == IF keyCached[w] THEN "commit" ELSE "key"
               r == [req[w] EXCEPT !.pc = pc, !.grant = g, !.new = new]
    <3>1. row \in GrantRow
      BY <2>c, <1>t, RowTypes DEF TypeOK, CodeRow
    <3>2. new \in [Grants -> GrantRow] /\ pc \in {"commit", "key"}
      BY <3>1, <2>c DEF Request
    <3>3. req' = [req EXCEPT ![w] = r]
      BY <2>2
    <3>4. r \in Request /\ ShapeOK(r)
      <4> HIDE DEF new, pc
      <4> QED
        BY <3>2, <2>c, <1>t DEF Request, ShapeOK
    <3>5. req' \in [Workers -> Request] /\ \A v \in Workers : ShapeOK(req'[v])
      <4> HIDE DEF r
      <4> QED
        BY <3>3, <3>4, ReplaceRequest
    <3> QED
      BY <1>5, <1>t, <2>2, <3>5 DEF SelectCode, TypeInv, TypeOK
  <2> QED
    BY <1>5, <2>1, <2>2 DEF SelectCode
<1>6. ASSUME NEW w \in Workers, ReadKey(w)
      PROVE  TypeInv'
  <2> DEFINE r == [req[w] EXCEPT !.pc = IF keyStored THEN "commit" ELSE "addkey"]
  <2>1. r \in Request /\ ShapeOK(r)
    BY <1>6, <1>t, SMTT(30) DEF ReadKey, TypeOK, Request, ShapeOK
  <2>2. req' = [req EXCEPT ![w] = r]
    BY <1>6 DEF ReadKey, Goto
  <2>3. req' \in [Workers -> Request] /\ \A v \in Workers : ShapeOK(req'[v])
    <3> HIDE DEF r
    <3> QED
      BY <2>1, <2>2, ReplaceRequest
  <2> QED
    BY <1>6, <1>t, <2>3 DEF ReadKey, TypeInv, TypeOK
<1>7. ASSUME NEW w \in Workers, AddKey(w)
      PROVE  TypeInv'
  <2> DEFINE g == req[w].grant
             row == InsertedGrant(req[w].new[g].offline, req[w].new[g].born)
             r == [req[w] EXCEPT !.pc = "finish", !.old = [@ EXCEPT ![g] = row]]
  <2>1. req[w] \in Request /\ req[w].op = "redeem" /\ g \in Grants
    BY <1>7, <1>t DEF AddKey, TypeOK, ShapeOK, Request
  <2>2. row \in GrantRow
    <3>1. req[w].new[g] \in GrantRow
      BY <2>1 DEF Request
    <3>2. req[w].new[g].offline \in BOOLEAN /\ req[w].new[g].born \in Nat
      BY <3>1 DEF GrantRow
    <3> QED
      BY <3>2, RowTypes
  <2>3. r \in Request /\ ShapeOK(r)
    <3> HIDE DEF row
    <3> QED
      BY <1>7, <1>t, <2>1, <2>2 DEF AddKey, Request, ShapeOK
  <2>4. req' = [req EXCEPT ![w] = r]
    BY <1>7 DEF AddKey
  <2>5. req' \in [Workers -> Request] /\ \A v \in Workers : ShapeOK(req'[v])
    <3> HIDE DEF r
    <3> QED
      BY <2>3, <2>4, ReplaceRequest
  <2>6. grants' \in [Grants -> GrantRow] /\ codes' \in [Codes -> CodeRow]
    BY <1>7, <1>t, <2>2, EmptyTypes DEF AddKey, TypeOK
  <2> QED
    BY <1>7, <1>t, <2>5, <2>6 DEF AddKey, TypeInv, TypeOK
<1>8. ASSUME NEW w \in Workers, LoseKeyRace(w)
      PROVE  TypeInv'
  <2>1. req[w] \in Request /\ req[w].code \in Codes /\ req[w].grant \in Grants
    BY <1>8, <1>t DEF LoseKeyRace, TypeOK, ShapeOK, Request
  <2>2. Reply(w) \in Token
    BY <2>1 DEF Reply, Token, Request, GrantRow
  <2>3. req' \in [Workers -> Request] /\ \A v \in Workers : ShapeOK(req'[v])
    BY <1>8, EmptyTypes, ShapeIdle, ReplaceRequest DEF LoseKeyRace, Done
  <2> QED
    BY <1>8, <1>t, <2>2, <2>3 DEF LoseKeyRace, TypeInv, TypeOK
<1>9. ASSUME NEW w \in Workers, ParseUnknownToken(w)
      PROVE  TypeInv'
  BY <1>9, <1>t DEF ParseUnknownToken, TypeInv, TypeOK
<1>10. ASSUME NEW w \in Workers, NEW t \in tokens, BeginRefresh(w, t)
       PROVE  TypeInv'
  <2> DEFINE replay == \E s \in tokens : s.grant = t.grant /\ s.gen > t.gen
             r == [Idle EXCEPT !.pc = "select", !.op = "refresh", !.code = t.code,
                               !.grant = t.grant, !.gen = t.gen, !.start = now,
                               !.replay = replay]
  <2>1. t.code \in Codes /\ t.grant \in Grants /\ t.gen \in Nat
    BY <1>t DEF TypeOK, Token
  <2>2. r \in Request /\ ShapeOK(r)
    <3> HIDE DEF replay
    <3>1. replay \in BOOLEAN
      BY DEF replay
    <3> QED
      BY <1>t, <2>1, <3>1, EmptyTypes DEF Request, ShapeOK, TypeOK, Idle
  <2>3. req' = [req EXCEPT ![w] = r]
    BY <1>10 DEF BeginRefresh
  <2>4. req' \in [Workers -> Request] /\ \A v \in Workers : ShapeOK(req'[v])
    <3> HIDE DEF r
    <3> QED
      BY <2>2, <2>3, ReplaceRequest
  <2> QED
    BY <1>10, <1>t, <2>4 DEF BeginRefresh, TypeInv, TypeOK
<1>11. ASSUME NEW w \in Workers, SelectGrant(w)
       PROVE  TypeInv'
  <2>1. CASE Done(w)
    <3>1. req' \in [Workers -> Request] /\ \A v \in Workers : ShapeOK(req'[v])
      BY <2>1, EmptyTypes, ShapeIdle, ReplaceRequest DEF Done
    <3> QED
      BY <1>11, <1>t, <3>1 DEF SelectGrant, TypeInv, TypeOK
  <2>2. ASSUME NEW new \in GrantRow,
               req' = [req EXCEPT ![w].pc = "commit",
                                  ![w].old[req[w].grant] = grants[req[w].grant],
                                  ![w].new[req[w].grant] = new]
        PROVE  TypeInv'
    <3> DEFINE g == req[w].grant
               r == [req[w] EXCEPT !.pc = "commit", !.old = [@ EXCEPT ![g] = grants[g]],
                                   !.new = [@ EXCEPT ![g] = new]]
    <3>1. req[w] \in Request /\ req[w].op = "refresh" /\ g \in Grants /\ grants[g] \in GrantRow
      BY <1>11, <1>t DEF SelectGrant, TypeOK, ShapeOK
    <3>2. r \in Request /\ ShapeOK(r)
      BY <1>t, <3>1 DEF Request, ShapeOK
    <3>3. req' = [req EXCEPT ![w] = r]
      BY <2>2
    <3>4. req' \in [Workers -> Request] /\ \A v \in Workers : ShapeOK(req'[v])
      <4> HIDE DEF r
      <4> QED
        BY <3>2, <3>3, ReplaceRequest
    <3> QED
      BY <1>11, <1>t, <3>4 DEF SelectGrant, TypeInv, TypeOK
  <2>3. req[w].grant \in Grants /\ grants[req[w].grant] \in GrantRow /\ now \in Nat
    BY <1>11, <1>t DEF SelectGrant, TypeOK, ShapeOK
  <2>4. NoGrant("gone") \in GrantRow /\ RotatedGrant(grants[req[w].grant], now) \in GrantRow
    BY <2>3, EmptyTypes, RowTypes
  <2> QED
    BY <1>11, <2>1, <2>2, <2>4 DEF SelectGrant
<1>12. ASSUME NEW w \in Workers, NEW targets, BeginForce(w, targets)
       PROVE  TypeInv'
  <2> DEFINE old == [g \in Grants |-> IF g \in targets THEN grants[g] ELSE NoGrant("unborn")]
             new == [g \in Grants |-> IF g \in targets THEN ForcedGrant(grants[g], now)
                                      ELSE NoGrant("unborn")]
             r == [Idle EXCEPT !.pc = "commit", !.op = "force", !.old = old, !.new = new]
  <2>1. old \in [Grants -> GrantRow] /\ new \in [Grants -> GrantRow]
    BY <1>t, EmptyTypes, RowTypes DEF TypeOK
  <2>2. r \in Request /\ ShapeOK(r)
    <3> HIDE DEF old, new
    <3> QED
      BY <2>1, EmptyTypes DEF Request, ShapeOK, Idle
  <2>3. req' = [req EXCEPT ![w] = r]
    BY <1>12 DEF BeginForce
  <2>4. req' \in [Workers -> Request] /\ \A v \in Workers : ShapeOK(req'[v])
    <3> HIDE DEF r
    <3> QED
      BY <2>2, <2>3, ReplaceRequest
  <2> QED
    BY <1>12, <1>t, <2>4 DEF BeginForce, TypeInv, TypeOK
<1>13. ASSUME NEW w \in Workers, Commit(w)
       PROVE  TypeInv'
  <2>1. req' \in [Workers -> Request] /\ \A v \in Workers : ShapeOK(req'[v])
    BY <1>13, EmptyTypes, ShapeIdle, ReplaceRequest DEF Commit, Done
  <2>2. req[w] \in Request /\ (req[w].op # "force" => req[w].code \in Codes /\ req[w].grant \in Grants)
    BY <1>13, <1>t DEF Commit, TypeOK, ShapeOK, Request
  <2>3. grants' \in [Grants -> GrantRow]
    BY <1>13, <1>t, <2>2, FlushType DEF Commit, TypeOK, Request
  <2>4. codes' \in [Codes -> CodeRow]
    BY <1>13, <1>t, EmptyTypes DEF Commit, TypeOK
  <2>5. req[w].op # "force" => Reply(w) \in Token
    BY <2>2 DEF Reply, Token, Request, GrantRow
  <2>6. tokens' \subseteq Token
    BY <1>13, <1>t, <2>5 DEF Commit, TypeOK
  <2> QED
    BY <1>13, <1>t, <2>1, <2>3, <2>4, <2>6 DEF Commit, TypeInv, TypeOK
<1>14. ASSUME NEW w \in Workers, CommitFails(w)
       PROVE  TypeInv'
  <2>1. req' \in [Workers -> Request] /\ \A v \in Workers : ShapeOK(req'[v])
    BY <1>14, EmptyTypes, ShapeIdle, ReplaceRequest DEF CommitFails, Done
  <2> QED
    BY <1>14, <1>t, <2>1 DEF CommitFails, TypeInv, TypeOK
<1>15. ASSUME NEW g \in Grants, Revoke(g)
       PROVE  TypeInv'
  BY <1>15, <1>t, EmptyTypes DEF Revoke, TypeInv, TypeOK
<1>16. CASE UNCHANGED vars
  BY <1>16, <1>t DEF vars, TypeInv, TypeOK
<1> QED
  BY <1>1, <1>2, <1>3, <1>4, <1>5, <1>6, <1>7, <1>8, <1>9, <1>10, <1>11, <1>12, <1>13,
     <1>14, <1>15, <1>16 DEF Next, WorkerStep

\* Every variable keeps its type, on any database, with or without the key.
THEOREM TypeCorrect == Spec => []TypeOK
<1>1. TypeInv => TypeOK
  BY DEF TypeInv
<1> QED
  BY TypeInit, TypeStep, <1>1, PTL DEF Spec

-----------------------------------------------------------------------------
(* Rows.                                                                   *)

\* A grant as issued is inside its lifetime.
LEMMA IssuedRow ==
  ASSUME NEW o \in BOOLEAN, NEW t \in Nat
  PROVE  /\ IssuedGrant(o, t).st = "live" /\ IssuedGrant(o, t).gen = 0
         /\ IssuedGrant(o, t).last = t
         /\ WithinLife(IssuedGrant(o, t))
BY LifetimesPositive DEF IssuedGrant, InsertedGrant, AccessExpiry, Min, WithinLife

\* Rotation moves on by one generation and stays inside the lifetime.
LEMMA RotatedRow ==
  ASSUME NEW row \in GrantRow, NEW t \in Nat, WithinLife(row), row.last <= t
  PROVE  LET new == RotatedGrant(row, t)
         IN  /\ new.st = row.st /\ new.gen = row.gen + 1
             /\ new.born = row.born /\ new.offline = row.offline
             /\ new.refresh = row.refresh /\ new.last = t
             /\ WithinLife(new)
<1> DEFINE touched == [row EXCEPT !.gen = @ + 1, !.last = t]
<1>1. /\ touched.st = row.st /\ touched.gen = row.gen + 1
      /\ touched.born = row.born /\ touched.offline = row.offline
      /\ touched.refresh = row.refresh /\ touched.last = t
      /\ DOMAIN touched = DOMAIN row
  BY DEF GrantRow
<1> HIDE DEF touched
<1> DEFINE new == [touched EXCEPT !.access = AccessExpiry(touched, t)]
<1>2. new = RotatedGrant(row, t)
  BY DEF RotatedGrant, touched
<1>3. /\ new.st = row.st /\ new.gen = row.gen + 1
      /\ new.born = row.born /\ new.offline = row.offline
      /\ new.refresh = row.refresh /\ new.last = t
      /\ new.access = AccessExpiry(touched, t)
  BY <1>1 DEF GrantRow
<1> HIDE DEF new
<1>4. row.offline => AccessExpiry(touched, t) <= row.refresh /\ AccessExpiry(touched, t) <= t + RefreshIdle
  BY <1>1, LifetimesPositive DEF AccessExpiry, Min, GrantRow
<1>5. row.offline => AccessExpiry(touched, t) \in Nat
  BY <1>1, LifetimesPositive DEF AccessExpiry, Min, GrantRow
<1>6. WithinLife(new)
  BY <1>1, <1>3, <1>4, <1>5, LifetimesPositive DEF WithinLife, GrantRow
<1> QED
  BY <1>2, <1>3, <1>6

\* Forcing only lowers deadlines.
LEMMA ForcedRow ==
  ASSUME NEW row \in GrantRow, NEW t \in Nat
  PROVE  LET new == ForcedGrant(row, t)
         IN  /\ new.st = row.st /\ new.gen = row.gen /\ new.last = row.last
             /\ new.born = row.born /\ new.offline = row.offline
             /\ new.access <= row.access /\ new.refresh <= row.refresh
BY DEF ForcedGrant, Min, GrantRow

\* An UPDATE leaves the columns that were not edited.
LEMMA UpdatedRow ==
  ASSUME NEW row \in GrantRow, NEW old \in GrantRow, NEW new \in GrantRow,
         old # new, old.st = "live", new.st = "live"
  PROVE  LET out == Flush(row, old, new)
         IN  /\ out.st = row.st /\ out.born = row.born /\ out.offline = row.offline
             /\ out.gen = IF new.gen # old.gen THEN new.gen ELSE row.gen
             /\ out.access = IF new.access # old.access THEN new.access ELSE row.access
             /\ out.refresh = IF new.refresh # old.refresh THEN new.refresh ELSE row.refresh
             /\ out.last = IF new.last # old.last THEN new.last ELSE row.last
BY DEF Flush, GrantRow

-----------------------------------------------------------------------------
(* The inductive invariant is preserved.                                   *)

LEMMA InvInit == Safe /\ Init => IInv
<1> SUFFICES ASSUME Safe, Init PROVE IInv
  OBVIOUS
<1>1. TypeInv
  BY TypeInit
<1>2. KeyReady
  BY DEF Safe, Init, KeyReady, Idle
<1>3. RowsOK /\ TokensOK
  BY DEF Init, RowsOK, TokensOK, NoRows, NoGrant
<1>4. \A w \in Workers : RedeemOK(w) /\ RefreshOK(w) /\ ForceOK(w)
  BY DEF Init, RedeemOK, RefreshOK, ForceOK, Idle
<1> QED
  BY <1>1, <1>2, <1>3, <1>4 DEF IInv

\* Time passes, or an administrator toggles the account.
LEMMA InvEnvironment ==
  ASSUME IInv, TypeInv', Tick \/ SetEnabled
  PROVE  IInv'
<1>1. UNCHANGED <<codes, grants, keyStored, keyCached, req, tokens>> /\ now <= now'
      /\ now \in Nat /\ now' \in Nat /\ grants \in [Grants -> GrantRow]
      /\ req \in [Workers -> Request]
  BY DEF Tick, SetEnabled, IInv, TypeInv, TypeOK
<1>2. KeyReady' /\ TokensOK'
  BY <1>1 DEF IInv, KeyReady, TokensOK
<1>3. RowsOK'
  BY <1>1 DEF IInv, RowsOK, WithinLife, GrantRow
<1>4. ASSUME NEW w \in Workers PROVE RedeemOK(w)' /\ RefreshOK(w)' /\ ForceOK(w)'
  <2>1. RedeemOK(w) /\ RefreshOK(w) /\ ForceOK(w)
    BY DEF IInv
  <2>2. RedeemOK(w)'
    BY <1>1, <2>1, SMTT(30) DEF RedeemOK, WithinLife, Request, GrantRow, IInv, TypeInv, ShapeOK
  <2>3. RefreshOK(w)'
    <3> DEFINE new == req[w].new[req[w].grant]
    <3>1. req[w].op = "refresh" /\ req[w].pc = "commit" => new \in GrantRow
      BY <1>1 DEF Request, IInv, TypeInv, ShapeOK
    <3>2. new \in GrantRow /\ new.last <= now => new.last <= now'
      BY <1>1 DEF GrantRow
    <3>3. WithinLife(new)' <=> WithinLife(new)
      BY <1>1 DEF WithinLife
    <3> HIDE DEF new
    <3> QED
      BY <1>1, <2>1, <3>1, <3>2, <3>3 DEF RefreshOK, new
  <2>4. ForceOK(w)'
    BY <1>1, <2>1 DEF ForceOK, WithinLife
  <2> QED
    BY <2>2, <2>3, <2>4
<1> QED
  BY <1>2, <1>3, <1>4 DEF IInv

\* A deletion of rows that no request holds: a sweep with a new code, or a revocation.
LEMMA InvDelete ==
  ASSUME IInv, TypeInv', UNCHANGED <<now, keyStored, keyCached, req, tokens>>, Safe,
         NEW D \in SUBSET Grants, NEW E \in SUBSET Codes,
         \A g \in D : grants[g].st = "live" /\ GrantFree(None, g),
         \A c \in E : codes[c].st = "live" /\ CodeFree(None, c),
         \A g \in Grants : grants'[g] = IF g \in D THEN NoGrant("gone") ELSE grants[g],
         \A c \in E : codes'[c].st = "gone",
         \A c \in Codes \ E : codes'[c] = codes[c] \/ (codes[c].st = "unborn" /\ codes'[c].st = "live")
  PROVE  IInv'
<1>1. KeyReady'
  BY DEF IInv, KeyReady
<1>2. RowsOK'
  BY DEF IInv, RowsOK, NoGrant
<1>3. TokensOK'
  <2>1. \A t \in tokens : t.grant \in Grants /\ t.code \in Codes
    BY DEF IInv, TypeInv, TypeOK, Token
  <2> QED
    BY <2>1 DEF IInv, TokensOK, NoGrant
<1>4. ASSUME NEW w \in Workers PROVE RedeemOK(w)' /\ RefreshOK(w)' /\ ForceOK(w)'
  <2>1. RedeemOK(w) /\ RefreshOK(w) /\ ForceOK(w) /\ ShapeOK(req[w]) /\ w # None
    BY NoneIsFresh DEF IInv, TypeInv
  <2>2. RedeemOK(w)'
    <3> SUFFICES ASSUME req[w].op = "redeem", req[w].pc = "commit"
                 PROVE  RedeemOK(w)'
      BY DEF RedeemOK
    <3>1. req[w].code \in Codes /\ req[w].grant \in Grants
      BY <2>1 DEF ShapeOK
    <3>2. req[w].code \notin E
      BY <2>1 DEF CodeFree, HoldsCode, Safe
    <3>3. req[w].grant \notin D
      BY <2>1 DEF RedeemOK
    <3> QED
      BY <2>1, <3>1, <3>2, <3>3 DEF RedeemOK
  <2>3. RefreshOK(w)'
    <3>1. CASE req[w].op = "refresh" /\ req[w].pc = "commit"
      <4>1. req[w].grant \in Grants \ D
        BY <3>1, <2>1 DEF ShapeOK, GrantFree, HoldsGrant, Safe
      <4> QED
        BY <2>1, <4>1 DEF RefreshOK
    <3>2. CASE ~(req[w].op = "refresh" /\ req[w].pc = "commit")
      BY <2>1, <3>2 DEF RefreshOK
    <3> QED
      BY <3>1, <3>2
  <2>4. ForceOK(w)'
    BY <2>1 DEF ForceOK, NoGrant
  <2> QED
    BY <2>2, <2>3, <2>4
<1> QED
  BY <1>1, <1>2, <1>3, <1>4 DEF IInv

\* A request of w that would not collide with the rows the others hold.
Apart(w, r) ==
  \A v \in Workers \ {w} :
    /\ req[v].op = "redeem" /\ req[v].pc = "commit" =>
         /\ r.grant # req[v].grant
         /\ r.op = "redeem" /\ r.pc = "commit" => r.code # req[v].code
    /\ req[v].op = "refresh" /\ req[v].pc = "commit" /\ r.op = "refresh" /\ r.pc = "commit"
         => r.grant # req[v].grant

\* A step that only replaces one request by another.
LEMMA InvRequest ==
  ASSUME IInv, TypeInv', UNCHANGED <<now, codes, grants, keyStored, tokens>>,
         NEW w \in Workers, NEW r, req' = [req EXCEPT ![w] = r],
         r.pc \in {"idle", "select", "commit"}, \A v \in Workers : keyCached'[v] = TRUE,
         Apart(w, r), RedeemOK(w)', RefreshOK(w)', ForceOK(w)'
  PROVE  IInv'
<1>1. req'[w] = r /\ \A v \in Workers \ {w} : req'[v] = req[v]
  BY DEF IInv, TypeInv, TypeOK
<1>2. KeyReady'
  BY <1>1 DEF IInv, KeyReady
<1>3. RowsOK' /\ TokensOK'
  BY DEF IInv, RowsOK, TokensOK
<1>4. ASSUME NEW v \in Workers, v # w PROVE RedeemOK(v)' /\ RefreshOK(v)' /\ ForceOK(v)'
  <2>1. RedeemOK(v) /\ RefreshOK(v) /\ ForceOK(v) /\ req'[v] = req[v]
    BY <1>1, <1>4 DEF IInv
  <2>2. RedeemOK(v)'
    BY <1>1, <1>4, <2>1 DEF RedeemOK, Apart
  <2>3. RefreshOK(v)'
    BY <1>1, <1>4, <2>1, SMTT(30) DEF RefreshOK, Apart
  <2>4. ForceOK(v)'
    BY <2>1 DEF ForceOK
  <2> QED
    BY <2>2, <2>3, <2>4
<1> QED
  BY <1>2, <1>3, <1>4 DEF IInv

\* A request that ends without writing.
LEMMA InvAbandon ==
  ASSUME IInv, TypeInv', UNCHANGED <<now, codes, grants, keyStored, keyCached, tokens>>,
         NEW w \in Workers, Done(w)
  PROVE  IInv'
<1>1. req' = [req EXCEPT ![w] = Idle] /\ req'[w] = Idle
  BY DEF Done, IInv, TypeInv, TypeOK
<1>2. RedeemOK(w)' /\ RefreshOK(w)' /\ ForceOK(w)'
  BY <1>1 DEF RedeemOK, RefreshOK, ForceOK, Idle
<1>3. \A v \in Workers : req[v].op = "redeem" /\ req[v].pc = "commit" => req[v].grant # None
  BY NoneIsFresh DEF IInv, TypeInv, ShapeOK
<1>4. Idle.pc = "idle" /\ Idle.op = "none" /\ Idle.grant = None
  BY DEF Idle
<1>5. \A v \in Workers : keyCached'[v] = TRUE
  BY DEF IInv, KeyReady
<1>6. Apart(w, Idle)
  BY <1>3, <1>4 DEF Apart
<1> QED
  BY <1>1, <1>2, <1>4, <1>5, <1>6, InvRequest

\* A request that starts.
LEMMA InvBegin ==
  ASSUME IInv, TypeInv', NEW w \in Workers,
         \/ \E c \in Codes : BeginRedeem(w, c)
         \/ \E t \in tokens : BeginRefresh(w, t)
         \/ \E targets : BeginForce(w, targets)
  PROVE  IInv'
<1>0. /\ req \in [Workers -> Request] /\ tokens \subseteq Token /\ grants \in [Grants -> GrantRow]
      /\ now \in Nat
      /\ \A v \in Workers : req[v].op = "redeem" /\ req[v].pc = "commit" => req[v].grant \in Grants
  BY DEF IInv, TypeInv, TypeOK, ShapeOK
<1>1. ASSUME NEW c \in Codes, BeginRedeem(w, c) PROVE IInv'
  <2> DEFINE r == [Idle EXCEPT !.pc = "select", !.op = "redeem", !.code = c, !.start = now]
  <2>1. r.pc = "select" /\ r.op = "redeem" /\ r.grant = None
    BY DEF Idle
  <2>2. req' = [req EXCEPT ![w] = r] /\ req'[w] = r
    BY <1>0, <1>1 DEF BeginRedeem
  <2>3. UNCHANGED <<now, codes, grants, keyStored, tokens>> /\ \A v \in Workers : keyCached'[v] = TRUE
    BY <1>1 DEF BeginRedeem, IInv, KeyReady
  <2> HIDE DEF r
  <2>4. RedeemOK(w)' /\ RefreshOK(w)' /\ ForceOK(w)'
    BY <2>1, <2>2 DEF RedeemOK, RefreshOK, ForceOK
  <2>5. Apart(w, r)
    BY <1>0, <2>1, NoneIsFresh DEF Apart
  <2> QED
    BY <2>1, <2>2, <2>3, <2>4, <2>5, InvRequest
<1>2. ASSUME NEW t \in tokens, BeginRefresh(w, t) PROVE IInv'
  <2> DEFINE replay == \E s \in tokens : s.grant = t.grant /\ s.gen > t.gen
             r == [Idle EXCEPT !.pc = "select", !.op = "refresh", !.code = t.code,
                               !.grant = t.grant, !.gen = t.gen, !.start = now,
                               !.replay = replay]
  <2>1. r.pc = "select" /\ r.op = "refresh" /\ r.grant = t.grant /\ r.code = t.code
    <3> HIDE DEF replay
    <3> QED
      BY DEF Idle
  <2>2. req' = [req EXCEPT ![w] = r] /\ req'[w] = r
    BY <1>0, <1>2 DEF BeginRefresh
  <2>3. UNCHANGED <<now, codes, grants, keyStored, tokens>> /\ \A v \in Workers : keyCached'[v] = TRUE
    BY <1>2 DEF BeginRefresh, IInv, KeyReady, TypeInv, TypeOK
  <2> HIDE DEF r
  <2>4. RedeemOK(w)' /\ RefreshOK(w)' /\ ForceOK(w)'
    BY <2>1, <2>2, <2>3 DEF RedeemOK, RefreshOK, ForceOK
  <2>5. \A v \in Workers : req[v].op = "redeem" /\ req[v].pc = "commit" => t.grant # req[v].grant
    BY DEF IInv, RedeemOK
  <2>6. Apart(w, r)
    BY <2>1, <2>5 DEF Apart
  <2> QED
    BY <2>1, <2>2, <2>3, <2>4, <2>6, InvRequest
<1>3. ASSUME NEW targets, BeginForce(w, targets) PROVE IInv'
  <2> DEFINE old == [g \in Grants |-> IF g \in targets THEN grants[g] ELSE NoGrant("unborn")]
             new == [g \in Grants |-> IF g \in targets THEN ForcedGrant(grants[g], now)
                                      ELSE NoGrant("unborn")]
             r == [Idle EXCEPT !.pc = "commit", !.op = "force", !.old = old, !.new = new]
  <2>1. r.pc = "commit" /\ r.op = "force" /\ r.grant = None /\ r.old = old /\ r.new = new
    <3> HIDE DEF old, new
    <3> QED
      BY DEF Idle
  <2>2. req' = [req EXCEPT ![w] = r] /\ req'[w] = r
    BY <1>0, <1>3 DEF BeginForce
  <2>3. UNCHANGED <<now, codes, grants, keyStored, tokens>> /\ \A v \in Workers : keyCached'[v] = TRUE
    BY <1>3 DEF BeginForce, IInv, KeyReady
  <2> HIDE DEF r
  <2>4. RedeemOK(w)' /\ RefreshOK(w)'
    BY <2>1, <2>2 DEF RedeemOK, RefreshOK
  <2>5. ForceOK(w)'
    <3> SUFFICES ASSUME NEW g \in Grants, g \in targets
                 PROVE  /\ old[g].st = "live" /\ new[g].st = "live"
                        /\ new[g].gen = old[g].gen /\ new[g].last = old[g].last
                        /\ new[g].offline = old[g].offline
                        /\ new[g].access <= old[g].access
                        /\ new[g].refresh <= old[g].refresh
                        /\ WithinLife(old[g])
                        /\ grants[g] = old[g] /\ old[g] \in GrantRow
      BY <2>1, <2>2, <2>3 DEF ForceOK, GrantRow
    <3>1. grants[g].st = "live" /\ grants[g] \in GrantRow /\ WithinLife(grants[g])
      BY <1>0, <1>3 DEF BeginForce, IInv, RowsOK
    <3> QED
      BY <1>0, <3>1, ForcedRow
  <2>6. Apart(w, r)
    BY <1>0, <2>1, NoneIsFresh DEF Apart
  <2> QED
    BY <2>1, <2>2, <2>3, <2>4, <2>5, <2>6, InvRequest
<1> QED
  BY <1>1, <1>2, <1>3

\* The locking SELECT of a redemption.
LEMMA InvSelectCode ==
  ASSUME IInv, TypeInv', Safe, NEW w \in Workers, NEW match \in BOOLEAN, SelectCode(w, match)
  PROVE  IInv'
<1> DEFINE c == req[w].code
<1>0. /\ req \in [Workers -> Request] /\ codes \in [Codes -> CodeRow] /\ c \in Codes
      /\ now \in Nat /\ req[w].pc = "select" /\ req[w].op = "redeem" /\ w # None
      /\ \A v \in Workers \ {w} : ~HoldsCode(v, c)
      /\ keyCached[w] = TRUE
  BY NoneIsFresh DEF SelectCode, IInv, TypeInv, TypeOK, ShapeOK, CodeFree, KeyReady
<1>1. CASE Done(w) /\ UNCHANGED codes
  BY <1>1, InvAbandon DEF SelectCode
<1>2. CASE Done(w) /\ codes[c].st = "live" /\ codes' = [codes EXCEPT ![c] = NoCode("gone")]
  <2>1. req' = [req EXCEPT ![w] = Idle] /\ req'[w] = Idle /\ \A v \in Workers \ {w} : req'[v] = req[v]
    BY <1>0, <1>2 DEF Done
  <2>2. UNCHANGED <<now, grants, keyStored, keyCached, tokens>>
    BY DEF SelectCode
  <2>3. codes'[c].st = "gone" /\ \A d \in Codes \ {c} : codes'[d] = codes[d]
    BY <1>0, <1>2 DEF NoCode
  <2>4. \A v \in Workers \ {w} : req[v].op = "redeem" /\ req[v].pc = "commit" => req[v].code # c
    BY <1>0 DEF HoldsCode, Safe
  <2>5. KeyReady' /\ RowsOK'
    BY <2>1, <2>2 DEF IInv, KeyReady, RowsOK, Idle
  <2>6. TokensOK'
    <3>1. \A t \in tokens : t.code \in Codes
      BY DEF IInv, TypeInv, TypeOK, Token
    <3> QED
      BY <2>2, <2>3, <3>1 DEF IInv, TokensOK
  <2>7. RedeemOK(w)' /\ RefreshOK(w)' /\ ForceOK(w)'
    BY <2>1 DEF RedeemOK, RefreshOK, ForceOK, Idle
  <2>8. ASSUME NEW v \in Workers, v # w PROVE RedeemOK(v)' /\ RefreshOK(v)' /\ ForceOK(v)'
    <3>1. RedeemOK(v) /\ RefreshOK(v) /\ ForceOK(v) /\ req'[v] = req[v] /\ ShapeOK(req[v])
      BY <2>1, <2>8 DEF IInv, TypeInv
    <3>2. RedeemOK(v)'
      <4> SUFFICES ASSUME req[v].op = "redeem", req[v].pc = "commit" PROVE RedeemOK(v)'
        BY <3>1 DEF RedeemOK
      <4>1. req[v].grant \in Grants /\ req[v].code \in Codes \ {c}
        BY <2>4, <2>8, <3>1 DEF ShapeOK
      <4>2. codes'[req[v].code] = codes[req[v].code] /\ req[v].grant # Idle.grant /\ Idle.op = "none"
        BY <2>3, <4>1, NoneIsFresh DEF Idle
      <4> QED
        BY <2>1, <2>2, <2>8, <3>1, <4>1, <4>2 DEF RedeemOK
    <3>3. RefreshOK(v)'
      <4>1. Idle.op = "none"
        BY DEF Idle
      <4> QED
        BY <2>1, <2>2, <2>8, <3>1, <4>1 DEF RefreshOK
    <3>4. ForceOK(v)'
      BY <2>1, <2>2, <3>1 DEF ForceOK
    <3> QED
      BY <3>2, <3>3, <3>4
  <2> QED
    BY <2>5, <2>6, <2>7, <2>8 DEF IInv
<1>3. ASSUME NEW g \in Grants, Fresh(g), UNCHANGED codes, codes[c].st = "live",
             req' = [req EXCEPT
                      ![w].pc = IF keyCached[w] THEN "commit" ELSE "key",
                      ![w].grant = g,
                      ![w].new[g] = IssuedGrant(codes[req[w].code].offline, now)]
      PROVE  IInv'
  <2> DEFINE row == IssuedGrant(codes[c].offline, now)
             r == [req[w] EXCEPT !.pc = "commit", !.grant = g, !.new = [@ EXCEPT ![g] = row]]
  <2>1. req' = [req EXCEPT ![w] = r]
    <3>0. keyCached[w] = TRUE
      BY <1>0
    <3>1. req' = [req EXCEPT ![w].pc = "commit", ![w].grant = g, ![w].new[g] = row]
      BY <1>3, <3>0
    <3> HIDE DEF row
    <3> QED
      BY <3>1
  <2>2. /\ r.pc = "commit" /\ r.op = "redeem" /\ r.code = c /\ r.grant = g
        /\ r.old = req[w].old /\ r.new = [req[w].new EXCEPT ![g] = row]
    <3> HIDE DEF row
    <3> QED
      BY <1>0 DEF Request
  <2>3. req[w].old = NoRows /\ req[w].new = NoRows
    BY <1>0 DEF IInv, TypeInv, ShapeOK
  <2> HIDE DEF r
  <2>4. row.st = "live" /\ row.gen = 0 /\ row.last = now /\ WithinLife(row)
    BY <1>0, IssuedRow DEF CodeRow
  <2> HIDE DEF row
  <2>5. /\ \A h \in Grants : r.old[h] = NoGrant("unborn")
        /\ \A h \in Grants : h # g => r.new[h] = NoGrant("unborn")
        /\ r.new[g] = row
    BY <2>2, <2>3 DEF NoRows
  <2>6. /\ UNCHANGED <<now, codes, grants, keyStored, tokens>> /\ \A v \in Workers : keyCached'[v] = TRUE
        /\ req'[w] = r /\ \A v \in Workers \ {w} : req'[v] = req[v]
    BY <1>0, <1>3, <2>1 DEF SelectCode, IInv, KeyReady
  <2>7. /\ grants[g].st = "unborn" /\ \A v \in Workers : req[v].grant # g
        /\ \A t \in tokens : t.grant # g
    BY <1>3 DEF Fresh
  <2>8. \A v \in Workers \ {w} : req[v].op = "redeem" /\ req[v].pc = "commit" => req[v].code # c
    BY <1>0 DEF HoldsCode, Safe
  <2>9. RedeemOK(w)'
    <3>1. /\ codes'[r.code].st = "live" /\ grants'[r.grant].st = "unborn"
          /\ \A t \in tokens' : t.grant # r.grant
      BY <1>3, <2>2, <2>6, <2>7
    <3>2. \A v \in Workers \ {w} :
            /\ req'[v].grant # r.grant
            /\ req'[v].op = "redeem" /\ req'[v].pc = "commit" => req'[v].code # r.code
      BY <2>2, <2>6, <2>7, <2>8
    <3>3. /\ r.new[r.grant].st = "live" /\ r.new[r.grant].gen = 0 /\ r.new[r.grant].last <= now'
          /\ WithinLife(r.new[r.grant])
      BY <1>0, <2>2, <2>4, <2>5, <2>6
    <3>4. \A h \in Grants : r.old[h] = NoGrant("unborn") /\ (h # r.grant => r.new[h] = NoGrant("unborn"))
      BY <2>2, <2>5
    <3> QED
      BY <2>6, <3>1, <3>2, <3>3, <3>4 DEF RedeemOK, WithinLife, NoGrant
  <2>10. RefreshOK(w)' /\ ForceOK(w)'
    BY <2>2, <2>6 DEF RefreshOK, ForceOK
  <2>11. Apart(w, r)
    BY <2>2, <2>7, <2>8 DEF Apart
  <2> QED
    BY <2>1, <2>2, <2>6, <2>9, <2>10, <2>11, InvRequest
<1> QED
  BY <1>0, <1>1, <1>2, <1>3 DEF SelectCode

\* The locking SELECT of a refresh.
LEMMA InvSelectGrant ==
  ASSUME IInv, TypeInv', Safe, NEW w \in Workers, SelectGrant(w)
  PROVE  IInv'
<1> DEFINE g == req[w].grant
<1>0. /\ req \in [Workers -> Request] /\ g \in Grants /\ grants[g] \in GrantRow
      /\ now \in Nat /\ req[w].pc = "select" /\ req[w].op = "refresh"
      /\ \A v \in Workers \ {w} : ~HoldsGrant(v, g)
  BY DEF SelectGrant, IInv, TypeInv, TypeOK, ShapeOK, GrantFree
<1>1. CASE Done(w)
  BY <1>1, InvAbandon DEF SelectGrant
<1>2. ASSUME NEW new, new = NoGrant("gone") \/ new = RotatedGrant(grants[g], now),
             grants[g].st = "live",
             req' = [req EXCEPT ![w].pc = "commit", ![w].old[g] = grants[g], ![w].new[g] = new]
      PROVE  IInv'
  <2> DEFINE r == [req[w] EXCEPT !.pc = "commit", !.old = [@ EXCEPT ![g] = grants[g]],
                                 !.new = [@ EXCEPT ![g] = new]]
  <2>1. req' = [req EXCEPT ![w] = r]
    BY <1>2
  <2>2. /\ r.pc = "commit" /\ r.op = "refresh" /\ r.code = req[w].code /\ r.grant = g
        /\ r.old = [req[w].old EXCEPT ![g] = grants[g]]
        /\ r.new = [req[w].new EXCEPT ![g] = new]
    BY <1>0 DEF Request
  <2>3. req[w].old = NoRows /\ req[w].new = NoRows
    BY <1>0 DEF IInv, TypeInv, ShapeOK
  <2> HIDE DEF r
  <2>4. /\ \A h \in Grants : h # g => r.old[h] = r.new[h]
        /\ r.old[g] = grants[g] /\ r.new[g] = new
    BY <1>0, <2>2, <2>3 DEF NoRows
  <2>5. /\ UNCHANGED <<now, codes, grants, keyStored, tokens>> /\ \A v \in Workers : keyCached'[v] = TRUE
        /\ req'[w] = r /\ \A v \in Workers \ {w} : req'[v] = req[v]
    BY <1>0, <2>1 DEF SelectGrant, IInv, KeyReady
  <2>6. \A v \in Workers \ {w} : req[v].op = "refresh" /\ req[v].pc = "commit" => req[v].grant # g
    BY <1>0 DEF HoldsGrant, Safe
  <2>7. WithinLife(grants[g]) /\ grants[g].last <= now
    BY <1>0, <1>2 DEF IInv, RowsOK
  <2>8. \/ new = NoGrant("gone")
        \/ /\ new.st = "live" /\ new.gen = grants[g].gen + 1
           /\ new.born = grants[g].born /\ new.offline = grants[g].offline
           /\ new.refresh = grants[g].refresh
           /\ WithinLife(new) /\ new.last <= now /\ grants[g].last <= new.last
    BY <1>0, <1>2, <2>7, RotatedRow
  <2>9. \E t \in tokens : t.grant = g /\ t.code = req[w].code
    BY <1>0 DEF IInv, RefreshOK
  <2>10. RefreshOK(w)'
    <3>1. \E t \in tokens' : t.grant = r.grant /\ t.code = r.code
      BY <2>2, <2>5, <2>9
    <3>2. /\ r.old[r.grant] = grants'[r.grant] /\ r.old[r.grant].st = "live"
          /\ \A h \in Grants : h # r.grant => r.old[h] = r.new[h]
      BY <1>2, <2>2, <2>4, <2>5
    <3>3. \A v \in Workers \ {w} :
            req'[v].op = "refresh" /\ req'[v].pc = "commit" => req'[v].grant # r.grant
      BY <2>2, <2>5, <2>6
    <3>4. /\ new = r.new[r.grant] /\ grants[g] = r.old[r.grant] /\ now' = now
      BY <2>2, <2>4, <2>5
    <3> QED
      BY <2>5, <2>8, <3>1, <3>2, <3>3, <3>4 DEF RefreshOK, WithinLife, NoGrant
  <2>11. RedeemOK(w)' /\ ForceOK(w)'
    BY <2>2, <2>5 DEF RedeemOK, ForceOK
  <2>12. \A v \in Workers : req[v].op = "redeem" /\ req[v].pc = "commit" => req[v].grant # g
    BY <2>9 DEF IInv, RedeemOK
  <2>13. Apart(w, r)
    BY <2>2, <2>6, <2>12 DEF Apart
  <2> QED
    BY <2>1, <2>2, <2>5, <2>10, <2>11, <2>13, InvRequest
<1>3. CASE RefreshOutcome(grants[g], req[w].gen, req[w].start) # "reject" /\ ~Done(w)
  <2>1. grants[g].st = "live"
    BY <1>3 DEF RefreshOutcome
  <2> QED
    BY <1>2, <1>3, <2>1 DEF SelectGrant
<1> QED
  BY <1>1, <1>3 DEF SelectGrant

\* The commit of a redemption: the code is spent and the new grant is stored.
LEMMA InvCommitRedeem ==
  ASSUME IInv, TypeInv', Safe, NEW w \in Workers, Commit(w), req[w].op = "redeem"
  PROVE  IInv'
<1> DEFINE c == req[w].code
           g == req[w].grant
           new == req[w].new[g]
<1>0. /\ req \in [Workers -> Request] /\ codes \in [Codes -> CodeRow]
      /\ req[w].pc = "commit" /\ c \in Codes /\ g \in Grants
      /\ RedeemOK(w) /\ now \in Nat /\ tokens \subseteq Token
      /\ grants \in [Grants -> GrantRow]
  BY DEF Commit, IInv, TypeInv, TypeOK, ShapeOK, KeyReady
<1>1. /\ codes[c].st = "live" /\ grants[g].st = "unborn" /\ \A t \in tokens : t.grant # g
      /\ new.st = "live" /\ new.gen = 0 /\ WithinLife(new) /\ new.last <= now
      /\ \A v \in Workers \ {w} :
             /\ req[v].grant # g
             /\ req[v].op = "redeem" /\ req[v].pc = "commit" => req[v].code # c
      /\ \A h \in Grants : req[w].old[h] = NoGrant("unborn")
      /\ \A h \in Grants : h # g => req[w].new[h] = NoGrant("unborn")
  BY <1>0 DEF RedeemOK
<1>2. grants'[g] = new /\ \A h \in Grants : h # g => grants'[h] = grants[h]
  <2>1. \A h \in Grants : grants'[h] = Flush(grants[h], req[w].old[h], req[w].new[h])
    BY DEF Commit
  <2>2. NoGrant("unborn").st = "unborn"
    BY DEF NoGrant
  <2> QED
    <3>1. grants'[g] = new
      <4>1. req[w].old[g].st = "unborn" /\ req[w].old[g] # new
        BY <1>0, <1>1, <2>2
      <4> QED
        BY <1>0, <2>1, <4>1 DEF Flush
    <3>2. ASSUME NEW h \in Grants, h # g PROVE grants'[h] = grants[h]
      <4>1. req[w].old[h] = req[w].new[h]
        BY <1>1, <3>2
      <4> QED
        BY <2>1, <4>1 DEF Flush
    <3> QED
      BY <3>1, <3>2
<1>3. codes'[c].st = "gone" /\ \A d \in Codes : d # c => codes'[d] = codes[d]
  BY <1>0 DEF Commit, NoCode
<1>4. /\ tokens' = tokens \cup {Reply(w)} /\ Reply(w).code = c /\ Reply(w).grant = g
      /\ Reply(w).gen = 0
  BY <1>0, <1>1 DEF Commit, Reply
<1>5. /\ UNCHANGED <<now, keyStored, keyCached>>
      /\ req'[w] = Idle /\ \A v \in Workers \ {w} : req'[v] = req[v]
  BY <1>0 DEF Commit, Done
<1> HIDE DEF c, g, new
<1>6. KeyReady'
  BY <1>5 DEF IInv, KeyReady, Idle
<1>7. RowsOK'
  BY <1>0, <1>1, <1>2, <1>5 DEF IInv, RowsOK, WithinLife
<1>8. TokensOK'
  <2>1. \A t \in tokens :
          /\ t.grant \in Grants /\ t.code \in Codes
          /\ t.grant # g /\ t.code # c
          /\ grants[t.grant].st # "unborn" /\ codes[t.code].st = "gone"
          /\ grants[t.grant].st = "live" => t.gen <= grants[t.grant].gen
    BY <1>0, <1>1 DEF IInv, TokensOK, Token
  <2>2. \A s, t \in tokens : s.code = t.code => s.grant = t.grant
    BY DEF IInv, TokensOK
  <2> QED
    BY <1>0, <1>1, <1>2, <1>3, <1>4, <2>1, <2>2 DEF TokensOK
<1>9. RedeemOK(w)' /\ RefreshOK(w)' /\ ForceOK(w)'
  BY <1>5 DEF RedeemOK, RefreshOK, ForceOK, Idle
<1>10. ASSUME NEW v \in Workers, v # w PROVE RedeemOK(v)' /\ RefreshOK(v)' /\ ForceOK(v)'
  <2>1. RedeemOK(v) /\ RefreshOK(v) /\ ForceOK(v) /\ req'[v] = req[v] /\ ShapeOK(req[v])
    BY <1>5, <1>10 DEF IInv, TypeInv
  <2>2. RedeemOK(v)'
    <3> SUFFICES ASSUME req[v].op = "redeem", req[v].pc = "commit" PROVE RedeemOK(v)'
      BY <2>1 DEF RedeemOK
    <3>1. req[v].grant \in Grants \ {g} /\ req[v].code \in Codes \ {c}
      BY <1>1, <1>10, <2>1 DEF ShapeOK
    <3>2. /\ codes'[req[v].code] = codes[req[v].code] /\ grants'[req[v].grant] = grants[req[v].grant]
          /\ \A t \in tokens' \ tokens : t.grant # req[v].grant
          /\ req[v].grant # Idle.grant /\ Idle.op = "none"
      BY <1>2, <1>3, <1>4, <3>1, NoneIsFresh DEF Idle
    <3> QED
      BY <1>5, <1>10, <2>1, <3>1, <3>2 DEF RedeemOK
  <2>3. RefreshOK(v)'
    <3>1. req[v].op = "refresh" => req[v].grant \in Grants \ {g}
      BY <1>1, <1>10, <2>1 DEF ShapeOK
    <3>2. req[v].op = "refresh" => grants'[req[v].grant] = grants[req[v].grant]
      BY <1>2, <3>1
    <3> QED
      BY <1>4, <1>5, <1>10, <2>1, <3>2 DEF RefreshOK, Idle
  <2>4. ForceOK(v)'
    BY <1>0, <1>1, <1>2, <2>1 DEF ForceOK
  <2> QED
    BY <2>2, <2>3, <2>4
<1> QED
  BY <1>6, <1>7, <1>8, <1>9, <1>10 DEF IInv

\* The commit of a refresh: the grant is rotated, or deleted.
LEMMA InvCommitRefresh ==
  ASSUME IInv, TypeInv', Safe, NEW w \in Workers, Commit(w), req[w].op = "refresh"
  PROVE  IInv'
<1> DEFINE g == req[w].grant
           old == req[w].old[g]
           new == req[w].new[g]
<1>0. /\ req \in [Workers -> Request] /\ req[w].pc = "commit" /\ g \in Grants
      /\ RefreshOK(w) /\ now \in Nat /\ tokens \subseteq Token
      /\ grants \in [Grants -> GrantRow] /\ old \in GrantRow /\ new \in GrantRow
  BY DEF Commit, IInv, TypeInv, TypeOK, ShapeOK, KeyReady, Request
<1>1. /\ old = grants[g] /\ old.st = "live"
      /\ \A h \in Grants : h # g => req[w].old[h] = req[w].new[h]
      /\ \/ new = NoGrant("gone")
         \/ /\ new.st = "live" /\ new.gen = old.gen + 1
            /\ new.born = old.born /\ new.offline = old.offline
            /\ new.refresh = old.refresh
            /\ WithinLife(new) /\ new.last <= now /\ old.last <= new.last
      /\ \A v \in Workers \ {w} :
            req[v].op = "refresh" /\ req[v].pc = "commit" => req[v].grant # g
      /\ \E t \in tokens : t.grant = g /\ t.code = req[w].code
  BY <1>0 DEF RefreshOK
<1>2. grants'[g] = Flush(grants[g], old, new) /\ \A h \in Grants : h # g => grants'[h] = grants[h]
  BY <1>0, <1>1 DEF Commit, Flush
<1>3. new = NoGrant("gone") => grants'[g] = new
  BY <1>1, <1>2 DEF Flush, NoGrant
<1>4. new # NoGrant("gone") =>
        /\ grants'[g].st = "live" /\ grants'[g].gen = new.gen
        /\ grants'[g].born = new.born /\ grants'[g].offline = new.offline
        /\ grants'[g].access = new.access
        /\ grants'[g].refresh = new.refresh /\ grants'[g].last = new.last
  <2>1. new # NoGrant("gone") => old # new
    BY <1>0, <1>1 DEF GrantRow
  <2>2. old \in GrantRow /\ new \in GrantRow /\ grants[g] \in GrantRow /\ g \in Grants
    BY <1>0, <1>1
  <2> HIDE DEF g, old, new
  <2>3. ASSUME new # NoGrant("gone")
        PROVE  /\ new.gen # old.gen /\ old = grants[g] /\ old.st = "live" /\ new.st = "live"
               /\ new.born = old.born /\ new.offline = old.offline /\ new.refresh = old.refresh
    BY <1>1, <2>2, <2>3 DEF GrantRow
  <2> QED
    BY <1>2, <2>1, <2>2, <2>3, UpdatedRow
<1>5. /\ UNCHANGED <<now, keyStored, keyCached, codes>>
      /\ req'[w] = Idle /\ \A v \in Workers \ {w} : req'[v] = req[v]
  BY <1>0 DEF Commit, Done
<1>6. /\ tokens' = IF new.st = "live" THEN tokens \cup {Reply(w)} ELSE tokens
      /\ Reply(w).code = req[w].code /\ Reply(w).grant = g /\ Reply(w).gen = new.gen
  BY <1>0 DEF Commit, Reply
<1>7. grants'[g].st # "unborn" /\ (grants'[g].st = "live" <=> new.st = "live")
  BY <1>1, <1>3, <1>4 DEF NoGrant
<1>8. grants'[g].st = "live" =>
        /\ old.gen < grants'[g].gen /\ WithinLife(grants'[g]) /\ grants'[g].last <= now
        /\ grants'[g].born = old.born /\ grants'[g].offline = old.offline
        /\ old.last <= grants'[g].last /\ grants'[g].gen = new.gen
  <2> SUFFICES ASSUME new.st = "live"
               PROVE  /\ old.gen < grants'[g].gen /\ WithinLife(grants'[g]) /\ grants'[g].last <= now
                      /\ grants'[g].born = old.born /\ grants'[g].offline = old.offline
                      /\ old.last <= grants'[g].last /\ grants'[g].gen = new.gen
    BY <1>7
  <2>1. new # NoGrant("gone") /\ old.gen \in Nat
    BY <1>0 DEF NoGrant, GrantRow
  <2>2. /\ new.gen = old.gen + 1 /\ new.born = old.born /\ new.offline = old.offline
        /\ WithinLife(new) /\ new.last <= now /\ old.last <= new.last
    BY <1>1, <2>1
  <2> HIDE DEF g, old, new
  <2>3. WithinLife(grants'[g])
    BY <1>4, <2>1, <2>2 DEF WithinLife
  <2> QED
    BY <1>4, <2>1, <2>2, <2>3
<1> HIDE DEF g, old, new
<1>9. KeyReady'
  BY <1>5 DEF IInv, KeyReady, Idle
<1>10. RowsOK'
  BY <1>2, <1>5, <1>8 DEF IInv, RowsOK, WithinLife
<1>11. TokensOK'
  <2>1. \A t \in tokens :
          /\ t.grant \in Grants /\ t.code \in Codes /\ t.gen \in Nat
          /\ grants[t.grant].st # "unborn" /\ codes[t.code].st = "gone"
          /\ grants[t.grant].st = "live" => t.gen <= grants[t.grant].gen
    BY <1>0, <1>1 DEF IInv, TokensOK, Token
  <2>2. \A t \in tokens :
          grants'[t.grant].st # "unborn" /\ (grants'[t.grant].st = "live" => t.gen <= grants'[t.grant].gen)
    <3>1. grants' \in [Grants -> GrantRow]
      BY DEF TypeInv, TypeOK
    <3> QED
      BY <1>0, <1>1, <1>2, <1>7, <1>8, <2>1, <3>1 DEF GrantRow
  <2>3. \A s, t \in tokens : s.code = t.code => s.grant = t.grant
    BY DEF IInv, TokensOK
  <2>4. new.gen <= new.gen
    BY <1>0 DEF GrantRow
  <2> QED
    BY <1>1, <1>5, <1>6, <1>7, <1>8, <2>1, <2>2, <2>3, <2>4 DEF TokensOK
<1>12. RedeemOK(w)' /\ RefreshOK(w)' /\ ForceOK(w)'
  BY <1>5 DEF RedeemOK, RefreshOK, ForceOK, Idle
<1>13. ASSUME NEW v \in Workers, v # w PROVE RedeemOK(v)' /\ RefreshOK(v)' /\ ForceOK(v)'
  <2>1. RedeemOK(v) /\ RefreshOK(v) /\ ForceOK(v) /\ req'[v] = req[v] /\ ShapeOK(req[v])
    BY <1>5, <1>13 DEF IInv, TypeInv
  <2>2. RedeemOK(v)'
    <3> SUFFICES ASSUME req[v].op = "redeem", req[v].pc = "commit" PROVE RedeemOK(v)'
      BY <2>1 DEF RedeemOK
    <3>1. req[v].grant \in Grants \ {g}
      BY <1>1, <1>13, <2>1 DEF ShapeOK, RedeemOK, g
    <3>2. /\ grants'[req[v].grant] = grants[req[v].grant]
          /\ \A t \in tokens' \ tokens : t.grant # req[v].grant
          /\ req[v].grant # Idle.grant /\ Idle.op = "none"
      BY <1>2, <1>6, <3>1, NoneIsFresh DEF Idle
    <3> QED
      BY <1>5, <1>13, <2>1, <3>1, <3>2 DEF RedeemOK
  <2>3. RefreshOK(v)'
    <3>1. req[v].op = "refresh" /\ req[v].pc = "commit" =>
            req[v].grant \in Grants \ {g} /\ grants'[req[v].grant] = grants[req[v].grant]
      BY <1>1, <1>2, <1>13, <2>1 DEF ShapeOK
    <3>2. tokens \subseteq tokens'
      BY <1>6
    <3> QED
      BY <1>5, <1>13, <2>1, <3>1, <3>2, SMTT(30) DEF RefreshOK, Idle
  <2>4. ForceOK(v)'
    <3>1. \A h \in Grants : req[v].old[h].last \in Nat /\ grants[h].last \in Nat /\ grants'[h].last \in Nat
      BY <1>0 DEF TypeInv, TypeOK, Request, GrantRow
    <3> QED
      BY <1>0, <1>1, <1>2, <1>7, <1>8, <2>1, <3>1 DEF ForceOK
  <2> QED
    BY <2>2, <2>3, <2>4
<1> QED
  BY <1>9, <1>10, <1>11, <1>12, <1>13 DEF IInv

\* The commit of a forced re-authentication: deadlines are lowered, on rows that
\* another request may have rotated since they were read.
LEMMA InvCommitForce ==
  ASSUME IInv, TypeInv', Safe, NEW w \in Workers, Commit(w), req[w].op = "force"
  PROVE  IInv'
<1> DEFINE old == req[w].old
           new == req[w].new
<1>0. /\ req \in [Workers -> Request] /\ req[w].pc = "commit"
      /\ ForceOK(w) /\ now \in Nat /\ tokens \subseteq Token
      /\ grants \in [Grants -> GrantRow] /\ grants' \in [Grants -> GrantRow]
      /\ old \in [Grants -> GrantRow] /\ new \in [Grants -> GrantRow]
  BY DEF Commit, IInv, TypeInv, TypeOK, ShapeOK, Request
<1>1. /\ UNCHANGED <<now, keyStored, keyCached, codes, tokens>>
      /\ req'[w] = Idle /\ \A v \in Workers \ {w} : req'[v] = req[v]
      /\ \A g \in Grants : grants'[g] = Flush(grants[g], old[g], new[g])
      /\ \A g \in Grants : old[g] # new[g] => GrantFree(w, g)
      /\ ~StaleUpdate(w)
  BY <1>0 DEF Commit, Done
<1>2. ASSUME NEW g \in Grants, old[g] # new[g]
      PROVE  /\ grants[g].st = "live" /\ grants'[g].st = "live"
             /\ grants'[g].gen = grants[g].gen /\ grants'[g].last = grants[g].last
             /\ grants'[g].born = grants[g].born /\ grants'[g].offline = grants[g].offline
             /\ WithinLife(grants'[g])
  <2>1. /\ old[g].st = "live" /\ new[g].st = "live"
        /\ new[g].gen = old[g].gen /\ new[g].last = old[g].last
        /\ new[g].access <= old[g].access /\ new[g].refresh <= old[g].refresh
        /\ WithinLife(old[g])
        /\ grants[g].st = "live" => /\ grants[g].born = old[g].born
                                    /\ grants[g].offline = old[g].offline
                                    /\ old[g].last <= grants[g].last
    BY <1>0, <1>2 DEF ForceOK
  <2>2. grants[g].st = "live"
    BY <1>1, <1>2, <2>1 DEF StaleUpdate
  <2>3. WithinLife(grants[g])
    BY <2>2 DEF IInv, RowsOK
  <2>4. old[g] \in GrantRow /\ new[g] \in GrantRow /\ grants[g] \in GrantRow
    BY <1>0
  <2> HIDE DEF old, new
  <2>5. LET out == grants'[g]
        IN  /\ out.st = grants[g].st /\ out.born = grants[g].born /\ out.offline = grants[g].offline
            /\ out.gen = IF new[g].gen # old[g].gen THEN new[g].gen ELSE grants[g].gen
            /\ out.access = IF new[g].access # old[g].access THEN new[g].access ELSE grants[g].access
            /\ out.refresh = IF new[g].refresh # old[g].refresh THEN new[g].refresh ELSE grants[g].refresh
            /\ out.last = IF new[g].last # old[g].last THEN new[g].last ELSE grants[g].last
    BY <1>1, <1>2, <2>1, <2>4, UpdatedRow
  <2>6. WithinLife(grants'[g])
    <3> SUFFICES ASSUME grants[g].offline = TRUE
                 PROVE  WithinLife(grants'[g])
      BY <2>4, <2>5 DEF WithinLife, GrantRow
    <3>1. /\ grants[g].access \in Nat /\ grants[g].refresh \in Nat /\ grants[g].born \in Nat
          /\ grants[g].last \in Nat /\ old[g].access \in Nat /\ old[g].refresh \in Nat
          /\ old[g].last \in Nat /\ new[g].access \in Nat /\ new[g].refresh \in Nat
          /\ RefreshTTL \in Nat /\ RefreshIdle \in Nat
      BY <2>4, LifetimesPositive DEF GrantRow
    <3>2. /\ grants[g].access <= grants[g].born + RefreshTTL
          /\ grants[g].access <= grants[g].last + RefreshIdle
          /\ grants[g].refresh <= grants[g].born + RefreshTTL
      BY <2>3 DEF WithinLife
    <3>3. /\ old[g].access <= grants[g].born + RefreshTTL
          /\ old[g].access <= old[g].last + RefreshIdle
          /\ old[g].refresh <= grants[g].born + RefreshTTL
          /\ old[g].last <= grants[g].last
      BY <2>1, <2>2 DEF WithinLife
    <3>4. /\ new[g].access <= grants[g].born + RefreshTTL
          /\ new[g].access <= grants[g].last + RefreshIdle
          /\ new[g].refresh <= grants[g].born + RefreshTTL
      BY <2>1, <3>1, <3>3
    <3>5. grants'[g].born = grants[g].born /\ grants'[g].last = grants[g].last
      BY <2>1, <2>5
    <3>6. /\ grants'[g].access \in {new[g].access, grants[g].access}
          /\ grants'[g].refresh \in {new[g].refresh, grants[g].refresh}
      BY <2>5
    <3> QED
      BY <3>2, <3>4, <3>5, <3>6 DEF WithinLife
  <2> QED
    BY <2>1, <2>2, <2>5, <2>6
<1>3. \A g \in Grants : old[g] = new[g] => grants'[g] = grants[g]
  BY <1>1 DEF Flush
<1>4. ASSUME NEW g \in Grants
      PROVE  /\ grants'[g].st = grants[g].st
             /\ grants'[g].gen = grants[g].gen /\ grants'[g].last = grants[g].last
             /\ grants'[g].born = grants[g].born /\ grants'[g].offline = grants[g].offline
             /\ grants[g].st = "live" /\ WithinLife(grants[g]) => WithinLife(grants'[g])
  BY <1>2, <1>3
<1>5. \A v \in Workers \ {w} : req[v].op = "refresh" /\ req[v].pc = "commit" /\ req[v].grant \in Grants
         => grants'[req[v].grant] = grants[req[v].grant]
  BY <1>1, <1>3 DEF GrantFree, HoldsGrant, Safe
<1> HIDE DEF old, new
<1>6. KeyReady'
  BY <1>1 DEF IInv, KeyReady, Idle
<1>7. RowsOK'
  <2>1. \A g \in Grants : grants'[g].st = "live" => WithinLife(grants'[g]) /\ grants'[g].last <= now
    BY <1>4 DEF IInv, RowsOK
  <2> QED
    BY <1>1, <2>1 DEF RowsOK, WithinLife
<1>8. TokensOK'
  <2>1. \A t \in tokens : t.grant \in Grants
    BY <1>0 DEF Token
  <2> QED
    BY <1>1, <1>4, <2>1 DEF IInv, TokensOK
<1>9. RedeemOK(w)' /\ RefreshOK(w)' /\ ForceOK(w)'
  BY <1>1 DEF RedeemOK, RefreshOK, ForceOK, Idle
<1>10. ASSUME NEW v \in Workers, v # w PROVE RedeemOK(v)' /\ RefreshOK(v)' /\ ForceOK(v)'
  <2>1. RedeemOK(v) /\ RefreshOK(v) /\ ForceOK(v) /\ req'[v] = req[v] /\ ShapeOK(req[v])
    BY <1>1, <1>10 DEF IInv, TypeInv
  <2>2. RedeemOK(v)'
    <3> SUFFICES ASSUME req[v].op = "redeem", req[v].pc = "commit" PROVE RedeemOK(v)'
      BY <2>1 DEF RedeemOK
    <3>1. /\ req[v].grant \in Grants /\ req[v].grant # Idle.grant /\ Idle.op = "none"
          /\ grants'[req[v].grant].st = grants[req[v].grant].st
      BY <1>4, <2>1, NoneIsFresh DEF ShapeOK, Idle
    <3> QED
      BY <1>1, <1>10, <2>1, <3>1 DEF RedeemOK
  <2>3. RefreshOK(v)'
    BY <1>1, <1>5, <1>10, <2>1, SMTT(30) DEF RefreshOK, Idle, ShapeOK
  <2>4. ForceOK(v)'
    BY <1>4, <2>1 DEF ForceOK
  <2> QED
    BY <2>2, <2>3, <2>4
<1> QED
  BY <1>6, <1>7, <1>8, <1>9, <1>10 DEF IInv

LEMMA InvStep == Safe /\ IInv /\ [Next]_vars => IInv'
<1> SUFFICES ASSUME Safe, IInv, [Next]_vars PROVE IInv'
  OBVIOUS
<1>0. TypeInv' /\ KeyReady
  BY TypeStep DEF IInv
<1>1. CASE Tick \/ SetEnabled
  BY <1>0, <1>1, InvEnvironment
<1>2. ASSUME NEW c \in Codes, NEW offline \in BOOLEAN, Approve(c, offline)
      PROVE  IInv'
  <2> DEFINE D == {g \in Grants : LongExpired(g)}
             E == {d \in Codes \ {c} : ExpiredCode(d)}
  <2>1. \A g \in D : grants[g].st = "live" /\ GrantFree(None, g)
    BY <1>2 DEF Approve, LongExpired
  <2>2. \A d \in E : codes[d].st = "live" /\ CodeFree(None, d)
    BY <1>2 DEF Approve, ExpiredCode
  <2>3. \A g \in Grants : grants'[g] = IF g \in D THEN NoGrant("gone") ELSE grants[g]
    BY <1>2 DEF Approve
  <2>4. \A d \in E : codes'[d].st = "gone"
    BY <1>2 DEF Approve, NoCode
  <2>5. \A d \in Codes \ E : codes'[d] = codes[d] \/ (codes[d].st = "unborn" /\ codes'[d].st = "live")
    BY <1>2 DEF Approve
  <2>6. UNCHANGED <<now, keyStored, keyCached, req, tokens>> /\ D \in SUBSET Grants /\ E \in SUBSET Codes
    BY <1>2 DEF Approve
  <2> HIDE DEF D, E
  <2> QED
    BY <1>0, <2>1, <2>2, <2>3, <2>4, <2>5, <2>6, InvDelete
<1>3. ASSUME NEW g \in Grants, Revoke(g)
      PROVE  IInv'
  <2> DEFINE D == {g}
  <2>1. /\ \A h \in D : grants[h].st = "live" /\ GrantFree(None, h)
        /\ \A h \in Grants : grants'[h] = IF h \in D THEN NoGrant("gone") ELSE grants[h]
        /\ UNCHANGED <<now, codes, keyStored, keyCached, req, tokens>>
        /\ D \in SUBSET Grants
    BY <1>3 DEF Revoke, IInv, TypeInv, TypeOK
  <2> HIDE DEF D
  <2>2. {} \in SUBSET Codes
    OBVIOUS
  <2> QED
    BY <1>0, <2>1, <2>2, InvDelete
<1>4. ASSUME NEW w \in Workers,
             \/ \E c \in Codes : BeginRedeem(w, c)
             \/ \E t \in tokens : BeginRefresh(w, t)
             \/ \E targets : BeginForce(w, targets)
      PROVE  IInv'
  BY <1>0, <1>4, InvBegin
<1>5. ASSUME NEW w \in Workers, NEW match \in BOOLEAN, SelectCode(w, match)
      PROVE  IInv'
  BY <1>0, <1>5, InvSelectCode
<1>6. ASSUME NEW w \in Workers, SelectGrant(w)
      PROVE  IInv'
  BY <1>0, <1>6, InvSelectGrant
<1>7. ASSUME NEW w \in Workers, Commit(w)
      PROVE  IInv'
  <2>1. req[w].op \in {"redeem", "refresh", "force"}
    BY <1>7 DEF Commit, IInv, TypeInv, TypeOK, ShapeOK, Request
  <2> QED
    BY <1>0, <1>7, <2>1, InvCommitRedeem, InvCommitRefresh, InvCommitForce
<1>8. ASSUME NEW w \in Workers, CommitFails(w)
      PROVE  IInv'
  BY <1>0, <1>8, InvAbandon DEF CommitFails
<1>9. ASSUME NEW w \in Workers, ReadKey(w) \/ AddKey(w) \/ LoseKeyRace(w) \/ ParseUnknownToken(w)
      PROVE  IInv'
  BY <1>0, <1>9 DEF KeyReady, ReadKey, AddKey, LoseKeyRace, ParseUnknownToken
<1>10. CASE UNCHANGED vars
  <2>1. KeyReady' /\ RowsOK' /\ TokensOK'
    BY <1>10 DEF vars, IInv, KeyReady, RowsOK, TokensOK
  <2>2. ASSUME NEW w \in Workers PROVE RedeemOK(w)' /\ RefreshOK(w)' /\ ForceOK(w)'
    <3>0. RedeemOK(w) /\ RefreshOK(w) /\ ForceOK(w)
      BY DEF IInv
    <3>1. RedeemOK(w)'
      BY <1>10, <3>0 DEF vars, RedeemOK, WithinLife
    <3>2. RefreshOK(w)'
      BY <1>10, <3>0 DEF vars, RefreshOK, WithinLife
    <3>3. ForceOK(w)'
      BY <1>10, <3>0 DEF vars, ForceOK, WithinLife
    <3> QED
      BY <3>1, <3>2, <3>3
  <2> QED
    BY <1>0, <2>1, <2>2 DEF IInv
<1> QED
  BY <1>1, <1>2, <1>3, <1>4, <1>5, <1>6, <1>7, <1>8, <1>9, <1>10 DEF Next, WorkerStep

\* The inductive invariant holds of every behaviour.
LEMMA Invariance == Safe /\ Spec => []IInv
<1> SUFFICES ASSUME Safe PROVE Spec => []IInv
  OBVIOUS
<1>1. Init => IInv
  BY InvInit
<1>2. IInv /\ [Next]_vars => IInv'
  BY InvStep
<1> QED
  BY <1>1, <1>2, PTL DEF Spec

-----------------------------------------------------------------------------
(* What the invariant gives.                                               *)

\* An authorization code yields tokens of one grant only, however many
\* redemptions of it race (token(), grant_type=authorization_code).
THEOREM CodeIsOneTime == Safe /\ Spec => []CodeYieldsOneGrant
<1>1. IInv => CodeYieldsOneGrant
  BY DEF IInv, TokensOK, CodeYieldsOneGrant
<1> QED
  BY <1>1, Invariance, PTL

\* Racing refreshes never leave the stored generation behind a returned token
\* (token(), grant_type=refresh_token).
THEOREM NoRollback == Safe /\ Spec => []TokensNotAhead
<1>1. IInv => TokensNotAhead
  BY DEF IInv, TokensOK, TokensNotAhead
<1> QED
  BY <1>1, Invariance, PTL

\* Tokens of grants that were never stored are not returned.
THEOREM TokensAreStored == Safe /\ Spec => []TokensHaveGrant
<1>1. IInv => TokensHaveGrant
  BY DEF IInv, TokensOK, TokensHaveGrant
<1> QED
  BY <1>1, Invariance, PTL

\* Introspection accepts a token of a refreshable grant only inside the refresh
\* lifetime and the idle window (oauth2_introspect).
THEOREM LifetimeBound == Safe /\ Spec => []ActiveWithinLifetime
<1>1. IInv => ActiveWithinLifetime
  <2> SUFFICES ASSUME IInv, NEW t \in tokens, grants[t.grant].offline, Active(t)
               PROVE  /\ now < grants[t.grant].born + RefreshTTL
                      /\ now < grants[t.grant].last + RefreshIdle
    BY DEF ActiveWithinLifetime
  <2> DEFINE row == grants[t.grant]
  <2>1. t.grant \in Grants /\ row \in GrantRow /\ now \in Nat
    BY DEF IInv, TypeInv, TypeOK, Token
  <2>2. row.st = "live" /\ now < row.access
    BY <2>1 DEF Active, GrantRow
  <2>3. WithinLife(row)
    BY <2>1, <2>2 DEF IInv, RowsOK
  <2> QED
    BY <2>1, <2>2, <2>3, LifetimesPositive DEF WithinLife, GrantRow
<1> QED
  BY <1>1, Invariance, PTL

-----------------------------------------------------------------------------
(* The issuer implements TokenFamily.                                      *)

\* Deleting rows ends their families.
LEMMA FamilyEnd ==
  ASSUME NEW S \in SUBSET Grants, \A g \in S : grants[g].st = "live",
         \A g \in Grants : grants'[g] = IF g \in S THEN NoGrant("gone") ELSE grants[g],
         UNCHANGED tokens
  PROVE  [Family!Next]_(Family!vars)
<1>1. CASE S = {}
  BY <1>1 DEF Family!vars
<1>2. CASE S # {}
  <2>1. Family!End(S)
    BY <1>2 DEF Family!End, Family!Ended, NoGrant
  <2> QED
    BY <2>1 DEF Family!Next
<1> QED
  BY <1>1, <1>2

\* Storing a new row with its first pair opens its family.
LEMMA FamilyOpen ==
  ASSUME NEW g \in Grants, NEW reply, grants[g].st = "unborn",
         grants'[g].st = "live", grants'[g].gen = 0,
         \A h \in Grants : h # g => grants'[h] = grants[h],
         tokens' = tokens \cup {reply}, reply.grant = g, reply.gen = 0
  PROVE  [Family!Next]_(Family!vars)
<1>1. Family!Open(g)
  BY DEF Family!Open
<1> QED
  BY <1>1 DEF Family!Next

\* Storing the next generation with its pair rotates its family.
LEMMA FamilyRotate ==
  ASSUME NEW g \in Grants, NEW reply, grants[g].st = "live",
         grants'[g].st = "live", grants'[g].gen = grants[g].gen + 1,
         \A h \in Grants : h # g => grants'[h] = grants[h],
         tokens' = tokens \cup {reply}, reply.grant = g, reply.gen = grants[g].gen + 1
  PROVE  [Family!Next]_(Family!vars)
<1>1. Family!Rotate(g)
  BY DEF Family!Rotate
<1> QED
  BY <1>1 DEF Family!Next

\* A commit opens, rotates or ends one family, or leaves all as they are.
LEMMA FamilyCommit ==
  ASSUME IInv, Safe, NEW w \in Workers, Commit(w)
  PROVE  [Family!Next]_(Family!vars)
<1> DEFINE g == req[w].grant
           old == req[w].old
           new == req[w].new
<1>0. /\ req \in [Workers -> Request] /\ req[w].pc = "commit"
      /\ req[w].op \in {"redeem", "refresh", "force"}
      /\ RedeemOK(w) /\ RefreshOK(w) /\ ForceOK(w)
      /\ grants \in [Grants -> GrantRow]
      /\ old \in [Grants -> GrantRow] /\ new \in [Grants -> GrantRow]
      /\ req[w].op # "force" => g \in Grants
  BY DEF Commit, IInv, TypeInv, TypeOK, ShapeOK, KeyReady, Request
<1>1. \A h \in Grants : grants'[h] = Flush(grants[h], old[h], new[h])
  BY DEF Commit
<1>2. \A h \in Grants : old[h] = new[h] => grants'[h] = grants[h]
  BY <1>1 DEF Flush
<1>3. req[w].op # "force" /\ new[g].st = "live" =>
        /\ tokens' = tokens \cup {Reply(w)} /\ Reply(w).grant = g /\ Reply(w).gen = new[g].gen
  BY DEF Commit, Reply
<1>4. CASE req[w].op = "redeem"
  <2>1. /\ grants[g].st = "unborn" /\ new[g].st = "live" /\ new[g].gen = 0
        /\ old[g].st = "unborn" /\ \A h \in Grants : h # g => old[h] = new[h]
    BY <1>0, <1>4 DEF RedeemOK, NoGrant
  <2>2. grants'[g] = new[g] /\ \A h \in Grants : h # g => grants'[h] = grants[h]
    BY <1>0, <1>1, <1>2, <1>4, <2>1 DEF Flush
  <2>3. g \in Grants /\ tokens' = tokens \cup {Reply(w)} /\ Reply(w).grant = g /\ Reply(w).gen = 0
    BY <1>0, <1>3, <1>4, <2>1
  <2> QED
    BY <2>1, <2>2, <2>3, FamilyOpen
<1>5. CASE req[w].op = "refresh"
  <2>1. /\ grants[g].st = "live" /\ old[g] = grants[g] /\ \A h \in Grants : h # g => old[h] = new[h]
        /\ \/ new[g] = NoGrant("gone")
           \/ new[g].st = "live" /\ new[g].gen = grants[g].gen + 1
    BY <1>0, <1>5 DEF RefreshOK
  <2>2. \A h \in Grants : h # g => grants'[h] = grants[h]
    BY <1>2, <2>1
  <2>3. CASE new[g] = NoGrant("gone")
    <3>0. NoGrant("gone").st = "gone"
      BY DEF NoGrant
    <3>1. grants'[g] = NoGrant("gone") /\ UNCHANGED tokens
      BY <1>0, <1>1, <1>5, <2>1, <2>3, <3>0 DEF Flush, Commit
    <3> DEFINE S == {g}
    <3>2. /\ S \in SUBSET Grants /\ \A h \in S : grants[h].st = "live"
          /\ \A h \in Grants : grants'[h] = IF h \in S THEN NoGrant("gone") ELSE grants[h]
      BY <1>0, <1>5, <2>1, <2>2, <3>1
    <3> HIDE DEF S
    <3> QED
      BY <3>1, <3>2, FamilyEnd
  <2>4. CASE new[g].st = "live" /\ new[g].gen = grants[g].gen + 1
    <3>1. old[g] # new[g] /\ g \in Grants
      BY <1>0, <1>5, <2>1, <2>4 DEF GrantRow
    <3>2. grants'[g].st = "live" /\ grants'[g].gen = grants[g].gen + 1
      BY <1>0, <1>1, <2>1, <2>4, <3>1, UpdatedRow
    <3>3. tokens' = tokens \cup {Reply(w)} /\ Reply(w).grant = g /\ Reply(w).gen = grants[g].gen + 1
      BY <1>3, <1>5, <2>4
    <3> QED
      BY <2>1, <2>2, <3>1, <3>2, <3>3, FamilyRotate
  <2> QED
    BY <2>1, <2>3, <2>4
<1>6. CASE req[w].op = "force"
  <2>1. UNCHANGED tokens
    BY <1>6 DEF Commit
  <2>2. \A h \in Grants : grants'[h].st = grants[h].st /\ grants'[h].gen = grants[h].gen
    <3> SUFFICES ASSUME NEW h \in Grants, old[h] # new[h]
                 PROVE  grants'[h].st = grants[h].st /\ grants'[h].gen = grants[h].gen
      BY <1>2
    <3>1. old[h].st = "live" /\ new[h].st = "live" /\ new[h].gen = old[h].gen
      BY <1>0, <1>6 DEF ForceOK
    <3> QED
      BY <1>0, <1>1, <3>1, UpdatedRow
  <2> QED
    BY <2>1, <2>2 DEF Family!vars
<1> QED
  BY <1>0, <1>4, <1>5, <1>6

\* Every step of the issuer is a step of TokenFamily or leaves it unchanged.
LEMMA FamilyStep == Safe /\ IInv /\ [Next]_vars => [Family!Next]_(Family!vars)
<1> SUFFICES ASSUME Safe, IInv, [Next]_vars PROVE [Family!Next]_(Family!vars)
  OBVIOUS
<1>1. ASSUME UNCHANGED <<grants, tokens>> PROVE [Family!Next]_(Family!vars)
  BY <1>1 DEF Family!vars
<1>2. ASSUME NEW c \in Codes, NEW offline \in BOOLEAN, Approve(c, offline)
      PROVE  [Family!Next]_(Family!vars)
  <2> DEFINE S == {g \in Grants : LongExpired(g)}
  <2>1. /\ S \in SUBSET Grants /\ \A g \in S : grants[g].st = "live"
        /\ \A g \in Grants : grants'[g] = IF g \in S THEN NoGrant("gone") ELSE grants[g]
        /\ UNCHANGED tokens
    BY <1>2 DEF Approve, LongExpired
  <2> HIDE DEF S
  <2> QED
    BY <2>1, FamilyEnd
<1>3. ASSUME NEW h \in Grants, Revoke(h)
      PROVE  [Family!Next]_(Family!vars)
  <2> DEFINE S == {h}
  <2>1. /\ S \in SUBSET Grants /\ \A g \in S : grants[g].st = "live"
        /\ \A g \in Grants : grants'[g] = IF g \in S THEN NoGrant("gone") ELSE grants[g]
        /\ UNCHANGED tokens
    BY <1>3 DEF Revoke, IInv, TypeInv, TypeOK
  <2> HIDE DEF S
  <2> QED
    BY <2>1, FamilyEnd
<1>4. ASSUME NEW w \in Workers, Commit(w)
      PROVE  [Family!Next]_(Family!vars)
  BY <1>4, FamilyCommit
<1>5. ASSUME NEW w \in Workers,
             \/ \E match \in BOOLEAN : SelectCode(w, match)
             \/ SelectGrant(w) \/ CommitFails(w)
             \/ \E c \in Codes : BeginRedeem(w, c)
             \/ \E t \in tokens : BeginRefresh(w, t)
             \/ \E targets : BeginForce(w, targets)
             \/ ReadKey(w) \/ ParseUnknownToken(w)
      PROVE  UNCHANGED <<grants, tokens>>
  BY <1>5 DEF SelectCode, SelectGrant, CommitFails, BeginRedeem, BeginRefresh, BeginForce,
              ReadKey, ParseUnknownToken
<1>6. \A w \in Workers : ~AddKey(w) /\ ~LoseKeyRace(w)
  BY DEF IInv, KeyReady, AddKey, LoseKeyRace
<1>7. CASE Tick \/ SetEnabled \/ UNCHANGED vars
  BY <1>1, <1>7 DEF Tick, SetEnabled, vars
<1> QED
  BY <1>1, <1>2, <1>3, <1>4, <1>5, <1>6, <1>7 DEF Next, WorkerStep

\* The issuer implements the abstract token family: rotation one by one, each
\* pair returned by the step that stores it, and no way back from deletion.
THEOREM Refinement == Safe /\ Spec => ImplementsFamily
<1> SUFFICES ASSUME Safe PROVE Spec => ImplementsFamily
  OBVIOUS
<1>1. Init => Family!Init
  BY DEF Init, Family!Init, NoRows, NoGrant
<1>2. IInv /\ [Next]_vars => [Family!Next]_(Family!vars)
  BY FamilyStep
<1>3. Spec => []IInv
  BY Invariance
<1> QED
  BY <1>1, <1>2, <1>3, PTL DEF Spec, ImplementsFamily, Family!Spec

-----------------------------------------------------------------------------
(* Dead tokens stay dead, and replays revoke.                              *)

\* A forced re-authentication writes no access deadline that is still to come.
DeadlinesPast ==
  \A w \in Workers : req[w].op = "force" =>
    \A g \in Grants : req[w].new[g].access = req[w].old[g].access \/ req[w].new[g].access <= now

\* A request that replays a token knows a later one that was returned, and deletes the
\* row it read.
ReplayKnown ==
  \A w \in Workers : req[w].replay =>
    /\ req[w].op = "refresh"
    /\ \E s \in tokens : s.grant = req[w].grant /\ s.gen > req[w].gen
    /\ req[w].pc = "commit" => req[w].new[req[w].grant] = NoGrant("gone")

\* With the key stored, a worker's request changes by these actions of its own only.
LEMMA Acts ==
  ASSUME IInv, [Next]_vars, NEW w \in Workers
  PROVE  \/ req'[w] = req[w]
         \/ \E c \in Codes : BeginRedeem(w, c)
         \/ \E t \in tokens : BeginRefresh(w, t)
         \/ \E targets \in SUBSET Grants : BeginForce(w, targets)
         \/ \E match \in BOOLEAN : SelectCode(w, match)
         \/ SelectGrant(w) \/ Commit(w) \/ CommitFails(w)
<1>0. req \in [Workers -> Request]
  BY DEF IInv, TypeInv, TypeOK
<1>1. CASE Tick \/ SetEnabled \/ UNCHANGED vars
  BY <1>1 DEF Tick, SetEnabled, vars
<1>2. CASE (\E c \in Codes, offline \in BOOLEAN : Approve(c, offline)) \/ \E g \in Grants : Revoke(g)
  BY <1>2 DEF Approve, Revoke
<1>3. ASSUME NEW v \in Workers, NEW targets, targets = Live \/ \E g \in Grants : targets = {g},
             BeginForce(v, targets)
      PROVE  (v = w /\ targets \in SUBSET Grants) \/ req'[w] = req[w]
  BY <1>0, <1>3 DEF BeginForce, Live
<1>4. ASSUME NEW v \in Workers, v # w,
             \/ \E c \in Codes : BeginRedeem(v, c)
             \/ \E t \in tokens : BeginRefresh(v, t)
             \/ \E match \in BOOLEAN : SelectCode(v, match)
             \/ SelectGrant(v) \/ Commit(v) \/ CommitFails(v)
      PROVE  req'[w] = req[w]
  BY <1>0, <1>4 DEF BeginRedeem, BeginRefresh, SelectCode, SelectGrant, Commit, CommitFails, Done
<1>5. \A v \in Workers : ~ReadKey(v) /\ ~AddKey(v) /\ ~LoseKeyRace(v) /\ ~ParseUnknownToken(v)
  BY DEF IInv, KeyReady, ReadKey, AddKey, LoseKeyRace, ParseUnknownToken
<1> QED
  BY <1>1, <1>2, <1>3, <1>4, <1>5, Zenon DEF Next, WorkerStep

\* The clock and the set of returned tokens only grow.
LEMMA Grows ==
  ASSUME IInv, [Next]_vars
  PROVE  now \in Nat /\ now' \in Nat /\ now <= now' /\ tokens \subseteq tokens'
<1>0. now \in Nat
  BY DEF IInv, TypeInv, TypeOK
<1>1. CASE Tick
  BY <1>0, <1>1 DEF Tick
<1>2. CASE ~Tick
  <2>1. now' = now /\ tokens \subseteq tokens'
    BY <1>2 DEF Next, WorkerStep, SetEnabled, Approve, BeginRedeem, ParseUnknownToken, BeginRefresh,
                BeginForce, Revoke, SelectCode, ReadKey, AddKey, LoseKeyRace, SelectGrant, Commit,
                CommitFails, vars
  <2> QED
    BY <1>0, <2>1
<1> QED
  BY <1>1, <1>2

LEMMA IdleFields == Idle.op = "none" /\ Idle.pc = "idle" /\ Idle.replay = FALSE
BY DEF Idle

\* A locking SELECT ends the request or leaves what it is.
LEMMA Selects ==
  ASSUME IInv, NEW w \in Workers, SelectGrant(w) \/ \E match \in BOOLEAN : SelectCode(w, match)
  PROVE  req'[w] = Idle \/ (req'[w].op = req[w].op /\ req'[w].replay = req[w].replay)
<1>0. req \in [Workers -> Request] /\ req[w] \in Request
  BY DEF IInv, TypeInv, TypeOK
<1>1. CASE Done(w)
  BY <1>0, <1>1 DEF Done
<1>2. ASSUME NEW match \in BOOLEAN, SelectCode(w, match), ~Done(w)
      PROVE  req'[w].op = req[w].op /\ req'[w].replay = req[w].replay
  <2>1. PICK g \in Grants :
          req' = [req EXCEPT ![w].pc = IF keyCached[w] THEN "commit" ELSE "key",
                             ![w].grant = g,
                             ![w].new[g] = IssuedGrant(codes[req[w].code].offline, now)]
    BY <1>2 DEF SelectCode
  <2> DEFINE pc == IF keyCached[w] THEN "commit" ELSE "key"
             row == IssuedGrant(codes[req[w].code].offline, now)
  <2>2. req' = [req EXCEPT ![w].pc = pc, ![w].grant = g, ![w].new[g] = row]
    BY <2>1
  <2> HIDE DEF pc, row
  <2> QED
    BY <1>0, <2>2 DEF Request
<1>3. ASSUME SelectGrant(w), ~Done(w)
      PROVE  req'[w].op = req[w].op /\ req'[w].replay = req[w].replay
  <2> DEFINE g == req[w].grant
             row == IF RefreshOutcome(grants[g], req[w].gen, req[w].start) = "delete"
                    THEN NoGrant("gone") ELSE RotatedGrant(grants[g], now)
  <2>1. req' = [req EXCEPT ![w].pc = "commit", ![w].old[g] = grants[g], ![w].new[g] = row]
    BY <1>3 DEF SelectGrant
  <2> HIDE DEF row
  <2> QED
    BY <1>0, <2>1 DEF Request
<1> QED
  BY <1>1, <1>2, <1>3

\* Every step keeps both.
LEMMA DeadlinesStep == IInv /\ DeadlinesPast /\ [Next]_vars => DeadlinesPast'
<1> SUFFICES ASSUME IInv, DeadlinesPast, [Next]_vars, NEW w \in Workers, req'[w].op = "force",
                    NEW g \in Grants
             PROVE  req'[w].new[g].access = req'[w].old[g].access \/ req'[w].new[g].access <= now'
  BY DEF DeadlinesPast
<1>0. /\ req \in [Workers -> Request] /\ grants \in [Grants -> GrantRow]
      /\ now \in Nat /\ now' \in Nat /\ now <= now'
  BY Grows DEF IInv, TypeInv, TypeOK
<1>1. CASE req'[w] = req[w]
  <2>1. req[w].new[g] \in GrantRow
    BY <1>0 DEF Request
  <2>2. req[w].new[g].access \in Nat
    BY <2>1 DEF GrantRow
  <2>3. req[w].new[g].access = req[w].old[g].access \/ req[w].new[g].access <= now
    BY <1>1 DEF DeadlinesPast
  <2> QED
    BY <1>0, <1>1, <2>2, <2>3
<1>2. ASSUME NEW targets \in SUBSET Grants, BeginForce(w, targets)
      PROVE  req'[w].new[g].access = req'[w].old[g].access \/ req'[w].new[g].access <= now'
  <2> DEFINE old == [h \in Grants |-> IF h \in targets THEN grants[h] ELSE NoGrant("unborn")]
             new == [h \in Grants |-> IF h \in targets THEN ForcedGrant(grants[h], now)
                                      ELSE NoGrant("unborn")]
  <2>1. req'[w] = [Idle EXCEPT !.pc = "commit", !.op = "force", !.old = old, !.new = new]
    BY <1>0, <1>2 DEF BeginForce
  <2>2. req'[w].old[g] = old[g] /\ req'[w].new[g] = new[g]
    <3> HIDE DEF old, new
    <3> QED
      BY <2>1 DEF Idle
  <2>3. CASE g \in targets
    <3>1. ForcedGrant(grants[g], now).access = Min(grants[g].access, now)
      BY <1>0 DEF ForcedGrant, GrantRow
    <3> QED
      BY <1>0, <2>2, <2>3, <3>1 DEF Min, GrantRow
  <2>4. CASE g \notin targets
    BY <2>2, <2>4
  <2> QED
    BY <2>3, <2>4
<1>3. ASSUME \/ \E c \in Codes : BeginRedeem(w, c)
             \/ \E t \in tokens : BeginRefresh(w, t)
             \/ \E match \in BOOLEAN : SelectCode(w, match)
             \/ SelectGrant(w) \/ Commit(w) \/ CommitFails(w)
      PROVE  FALSE
  <2>1. req'[w].op \in {"redeem", "refresh", "none"}
    <3>1. CASE \E c \in Codes : BeginRedeem(w, c)
      BY <1>0, <3>1 DEF BeginRedeem, Idle
    <3>5. ASSUME NEW t \in tokens, BeginRefresh(w, t)
          PROVE  req'[w].op = "refresh"
      <4> DEFINE b == \E s \in tokens : s.grant = t.grant /\ s.gen > t.gen
      <4>1. req'[w] = [Idle EXCEPT !.pc = "select", !.op = "refresh", !.code = t.code,
                        !.grant = t.grant, !.gen = t.gen, !.start = now, !.replay = b]
        BY <1>0, <3>5 DEF BeginRefresh
      <4> HIDE DEF b
      <4> QED
        BY <4>1 DEF Idle
    <3>2. CASE \E match \in BOOLEAN : SelectCode(w, match)
      BY <3>2, Selects, IdleFields DEF SelectCode
    <3>3. CASE SelectGrant(w)
      BY <3>3, Selects, IdleFields DEF SelectGrant
    <3>4. CASE Commit(w) \/ CommitFails(w)
      BY <1>0, <3>4 DEF Commit, CommitFails, Done, Idle
    <3> QED
      BY <1>3, <3>1, <3>2, <3>3, <3>4, <3>5
  <2> QED
    BY <2>1
<1> QED
  BY <1>1, <1>2, <1>3, Acts

LEMMA ReplayStep == IInv /\ ReplayKnown /\ [Next]_vars => ReplayKnown'
<1> DEFINE R(r) == /\ r.op = "refresh"
                   /\ \E s \in tokens : s.grant = r.grant /\ s.gen > r.gen
                   /\ r.pc = "commit" => r.new[r.grant] = NoGrant("gone")
<1> SUFFICES ASSUME IInv, ReplayKnown, [Next]_vars, NEW w \in Workers, req'[w].replay
             PROVE  R(req'[w])
  BY Grows DEF ReplayKnown
<1>0. /\ req \in [Workers -> Request] /\ req[w] \in Request /\ grants \in [Grants -> GrantRow]
      /\ tokens \subseteq Token
      /\ ShapeOK(req[w]) /\ (req[w].replay => R(req[w]))
  BY DEF IInv, TypeInv, TypeOK, ReplayKnown
<1>1. CASE req'[w] = req[w]
  BY <1>0, <1>1
<1>2. ASSUME NEW t \in tokens, BeginRefresh(w, t)
      PROVE  R(req'[w])
  <2> DEFINE b == \E s \in tokens : s.grant = t.grant /\ s.gen > t.gen
  <2>1. req'[w] = [Idle EXCEPT !.pc = "select", !.op = "refresh", !.code = t.code,
                    !.grant = t.grant, !.gen = t.gen, !.start = now, !.replay = b]
    BY <1>0, <1>2 DEF BeginRefresh
  <2> HIDE DEF b
  <2>2. /\ req'[w].op = "refresh" /\ req'[w].pc = "select" /\ req'[w].grant = t.grant
        /\ req'[w].gen = t.gen /\ req'[w].replay = b
    BY <2>1 DEF Idle
  <2> QED
    BY <2>2 DEF b
<1>3. ASSUME SelectGrant(w)
      PROVE  R(req'[w])
  <2> DEFINE g == req[w].grant
             outcome == RefreshOutcome(grants[g], req[w].gen, req[w].start)
  <2>1. CASE Done(w)
    BY <1>0, <2>1 DEF Done, Idle
  <2>2. CASE ~Done(w)
    <3> DEFINE row == IF outcome = "delete" THEN NoGrant("gone") ELSE RotatedGrant(grants[g], now)
    <3>1. req' = [req EXCEPT ![w].pc = "commit", ![w].old[g] = grants[g], ![w].new[g] = row]
      BY <1>3, <2>2 DEF SelectGrant
    <3>2. outcome # "reject" /\ req[w].op = "refresh" /\ g \in Grants
      BY <1>0, <1>3, <2>2 DEF SelectGrant, ShapeOK
    <3> HIDE DEF row
    <3>3. /\ req'[w].op = req[w].op /\ req'[w].grant = g /\ req'[w].gen = req[w].gen
          /\ req'[w].replay = req[w].replay /\ req'[w].new[g] = row
      BY <1>0, <3>1, <3>2 DEF Request
    <3>4. PICK s \in tokens : s.grant = g /\ s.gen > req[w].gen
      BY <1>0, <3>3
    <3>5. grants[g].st = "live"
      BY <3>2 DEF RefreshOutcome
    <3>6. s.gen \in Nat /\ grants[g].gen \in Nat /\ req[w].gen \in Nat /\ s.gen <= grants[g].gen
      BY <1>0, <3>2, <3>4, <3>5 DEF IInv, TokensOK, Token, GrantRow, Request
    <3>7. outcome = "delete"
      BY <3>2, <3>4, <3>6 DEF RefreshOutcome
    <3>8. row = NoGrant("gone")
      BY <3>7 DEF row
    <3> QED
      BY <3>2, <3>3, <3>4, <3>8
  <2> QED
    BY <2>1, <2>2
<1>4. ASSUME \/ \E c \in Codes : BeginRedeem(w, c)
             \/ \E targets \in SUBSET Grants : BeginForce(w, targets)
             \/ Commit(w) \/ CommitFails(w)
      PROVE  FALSE
  <2>1. req'[w].replay = FALSE
    <3>1. CASE \E c \in Codes : BeginRedeem(w, c)
      BY <1>0, <3>1 DEF BeginRedeem, Idle
    <3>2. CASE \E targets \in SUBSET Grants : BeginForce(w, targets)
      BY <1>0, <3>2 DEF BeginForce, Idle
    <3>3. CASE Commit(w) \/ CommitFails(w)
      BY <1>0, <3>3 DEF Commit, CommitFails, Done, Idle
    <3> QED
      BY <1>4, <3>1, <3>2, <3>3
  <2> QED
    BY <2>1
<1>5. ASSUME NEW match \in BOOLEAN, SelectCode(w, match)
      PROVE  FALSE
  <2>1. req[w].op = "redeem"
    BY <1>5 DEF SelectCode
  <2>2. ~req[w].replay
    BY <1>0, <2>1
  <2>3. req'[w] = Idle \/ req'[w].replay = req[w].replay
    BY <1>5, Selects
  <2> QED
    BY <2>2, <2>3, IdleFields, Zenon
<1> QED
  BY <1>1, <1>2, <1>3, <1>4, <1>5, Acts

\* What a commit makes of the row of a returned token: a later generation, an end, or
\* the same generation with the same access deadline or one that has passed.
LEMMA CommittedRow ==
  ASSUME Safe, IInv, DeadlinesPast, NEW w \in Workers, Commit(w), NEW t \in tokens
  PROVE  LET row == grants[t.grant]
         IN  \/ grants'[t.grant] = row
             \/ grants'[t.grant].st # "live"
             \/ grants'[t.grant].gen # t.gen
             \/ /\ row.st = "live" /\ grants'[t.grant].gen = row.gen
                /\ grants'[t.grant].access = row.access \/ grants'[t.grant].access <= now
<1> DEFINE h == t.grant
           old == req[w].old[h]
           new == req[w].new[h]
<1>0. /\ req[w] \in Request /\ req[w].pc = "commit" /\ req[w].op \in {"redeem", "refresh", "force"}
      /\ RedeemOK(w) /\ RefreshOK(w) /\ ForceOK(w)
      /\ h \in Grants /\ t \in Token /\ grants[h] \in GrantRow
  BY DEF Commit, IInv, TypeInv, TypeOK, ShapeOK, KeyReady, Request, Token
<1>1. /\ old \in GrantRow /\ new \in GrantRow /\ grants'[h] = Flush(grants[h], old, new)
      /\ old = new => grants'[h] = grants[h]
  BY <1>0 DEF Commit, Request, Flush
<1>2. grants[h].st = "live" => t.gen <= grants[h].gen
  BY <1>0 DEF IInv, TokensOK
<1>3. CASE old = new
  BY <1>1, <1>3
<1>4. CASE old # new /\ req[w].op = "redeem"
  BY <1>0, <1>4 DEF RedeemOK
<1>5. CASE old # new /\ req[w].op = "refresh"
  <2>1. /\ h = req[w].grant /\ old = grants[h] /\ grants[h].st = "live"
        /\ new = NoGrant("gone") \/ (new.st = "live" /\ new.gen = old.gen + 1)
    BY <1>0, <1>5 DEF RefreshOK
  <2> HIDE DEF h, old, new
  <2>2. CASE new = NoGrant("gone")
    <3>1. new.st = "gone"
      BY <2>2 DEF NoGrant
    <3>2. grants'[h] = new
      BY <1>1, <1>5, <3>1 DEF Flush
    <3> QED
      BY <3>1, <3>2 DEF h
  <2>3. CASE new.st = "live" /\ new.gen = old.gen + 1
    <3>0. old.gen \in Nat /\ t.gen \in Nat
      BY <1>0, <1>1 DEF GrantRow, Token
    <3>1. grants'[h].gen = new.gen
      BY <1>0, <1>1, <1>5, <2>1, <2>3, <3>0, UpdatedRow
    <3>2. new.gen # t.gen
      BY <1>2, <2>1, <2>3, <3>0
    <3> QED
      BY <3>1, <3>2 DEF h
  <2> QED
    BY <2>1, <2>2, <2>3
<1>6. CASE old # new /\ req[w].op = "force"
  <2>1. old.st = "live" /\ new.st = "live" /\ new.gen = old.gen
    BY <1>0, <1>6 DEF ForceOK
  <2>2. grants[h].st = "live"
    BY <1>0, <1>6, <2>1 DEF Commit, StaleUpdate
  <2>3. new.access = old.access \/ new.access <= now
    BY <1>0, <1>6 DEF DeadlinesPast
  <2> HIDE DEF h, old, new
  <2>4. /\ grants'[h].gen = grants[h].gen
        /\ grants'[h].access = IF new.access # old.access THEN new.access ELSE grants[h].access
    BY <1>0, <1>1, <1>6, <2>1, UpdatedRow
  <2>5. grants'[h].access = grants[h].access \/ grants'[h].access <= now
    BY <2>3, <2>4
  <2> QED
    BY <2>2, <2>4, <2>5 DEF h
<1> QED
  BY <1>0, <1>3, <1>4, <1>5, <1>6

\* An access token that Dovecot refuses for its row, generation or deadline is refused
\* ever after: rotation, revocation, the sweep, expiry and a forced re-authentication
\* that writes what it read long before bring none back.
THEOREM DeadStaysDead == Safe /\ Spec => NoResurrection
<1> SUFFICES ASSUME Safe PROVE Spec => NoResurrection
  OBVIOUS
<1> DEFINE Dead == \A t \in tokens : ~Unexpired(t) => ~Unexpired(t)'
<1>1. IInv /\ DeadlinesPast /\ [Next]_vars => Dead
  <2> SUFFICES ASSUME IInv, DeadlinesPast, [Next]_vars, NEW t \in tokens, ~Unexpired(t)
               PROVE  ~Unexpired(t)'
    OBVIOUS
  <2> DEFINE h == t.grant
  <2>0. h \in Grants /\ grants \in [Grants -> GrantRow] /\ grants[h] \in GrantRow
        /\ now \in Nat /\ now' \in Nat /\ now <= now' /\ grants[h].access \in Nat
        /\ TypeInv'
    BY Grows, TypeStep DEF IInv, TypeInv, TypeOK, Token, GrantRow
  <2>1. CASE grants'[h] = grants[h]
    <3>1. grants[h].access > now' => grants[h].access > now
      BY <2>0
    <3> QED
      BY <2>1, <3>1 DEF Unexpired
  <2>2. CASE grants'[h].st # "live"
    BY <2>2 DEF Unexpired
  <2>3. ASSUME NEW w \in Workers, Commit(w)
        PROVE  ~Unexpired(t)'
    <3>1. CASE grants'[h].gen # t.gen
      BY <3>1 DEF Unexpired
    <3>2. CASE /\ grants[h].st = "live" /\ grants'[h].gen = grants[h].gen
               /\ grants'[h].access = grants[h].access \/ grants'[h].access <= now
      <4>1. grants'[h].access \in Nat
        BY <2>0 DEF TypeInv, TypeOK, GrantRow
      <4>2. CASE grants'[h].access = grants[h].access
        <5>1. grants[h].access > now' => grants[h].access > now
          BY <2>0
        <5> QED
          BY <3>2, <4>2, <5>1 DEF Unexpired
      <4>3. CASE grants'[h].access <= now
        <5>1. ~(grants'[h].access > now')
          BY <2>0, <4>1, <4>3
        <5> QED
          BY <5>1 DEF Unexpired
      <4> QED
        BY <3>2, <4>2, <4>3
    <3> QED
      BY <2>1, <2>2, <2>3, <3>1, <3>2, CommittedRow
  <2>4. ASSUME NEW c \in Codes, NEW offline \in BOOLEAN, Approve(c, offline)
        PROVE  grants'[h] = grants[h] \/ grants'[h].st # "live"
    BY <2>0, <2>4 DEF Approve, NoGrant
  <2>5. ASSUME NEW g \in Grants, Revoke(g)
        PROVE  grants'[h] = grants[h] \/ grants'[h].st # "live"
    BY <2>0, <2>5 DEF Revoke, NoGrant
  <2>6. CASE UNCHANGED grants
    BY <2>1, <2>6
  <2>7. \A w \in Workers : ~AddKey(w) /\ ~LoseKeyRace(w)
    BY DEF IInv, KeyReady, AddKey, LoseKeyRace
  <2> QED
    BY <2>1, <2>2, <2>3, <2>4, <2>5, <2>6, <2>7
       DEF Next, WorkerStep, Tick, SetEnabled, BeginRedeem, ParseUnknownToken, BeginRefresh,
           BeginForce, SelectCode, ReadKey, SelectGrant, CommitFails, vars
<1>2. IInv /\ DeadlinesPast /\ [Next]_vars => [Dead]_vars
  BY <1>1
<1>3. Init => DeadlinesPast
  BY DEF Init, DeadlinesPast, Idle
<1>4. Spec => []IInv
  BY Invariance
<1> QED
  BY <1>2, <1>3, <1>4, DeadlinesStep, PTL DEF Spec, NoResurrection

\* A refresh request that presents a rotated token ends with its grant deleted, whatever
\* other requests do to the row between its SELECT and its commit.
THEOREM ReplaysRevoke == Safe /\ Spec => ReplayRevokes
<1> SUFFICES ASSUME Safe PROVE Spec => ReplayRevokes
  OBVIOUS
<1> DEFINE Revokes == \A w \in Workers :
                        req[w].replay /\ req'[w].pc = "idle" => grants'[req[w].grant].st = "gone"
<1>1. IInv /\ ReplayKnown /\ [Next]_vars => Revokes
  <2> SUFFICES ASSUME IInv, ReplayKnown, [Next]_vars, NEW w \in Workers, req[w].replay,
                      req'[w].pc = "idle"
               PROVE  grants'[req[w].grant].st = "gone"
    OBVIOUS
  <2> DEFINE g == req[w].grant
  <2>0. /\ req[w] \in Request /\ req[w].op = "refresh" /\ g \in Grants
        /\ req[w].pc \in {"select", "commit"}
        /\ RefreshOK(w)
        /\ req[w].pc = "commit" => req[w].new[g] = NoGrant("gone")
    BY DEF IInv, TypeInv, TypeOK, ShapeOK, ReplayKnown
  <2>1. NoGrant("gone").st = "gone"
    BY DEF NoGrant
  <2>2. PICK s \in tokens : s.grant = g /\ s.gen > req[w].gen
    BY DEF ReplayKnown
  <2>3. /\ grants[g].st \in {"live", "gone"} /\ grants[g] \in GrantRow /\ s.gen \in Nat
        /\ req[w].gen \in Nat /\ grants[g].gen \in Nat
        /\ grants[g].st = "live" => s.gen <= grants[g].gen
    BY <2>0, <2>2 DEF IInv, TypeInv, TypeOK, TokensOK, GrantRow, Token, Request
  <2>4. CASE SelectGrant(w)
    <3>1. RefreshOutcome(grants[g], req[w].gen, req[w].start) = "reject"
      <4> DEFINE outcome == RefreshOutcome(grants[g], req[w].gen, req[w].start)
                 row == IF outcome = "delete" THEN NoGrant("gone") ELSE RotatedGrant(grants[g], now)
      <4> SUFFICES ASSUME outcome # "reject" PROVE FALSE
        OBVIOUS
      <4>1. req' = [req EXCEPT ![w].pc = "commit", ![w].old[g] = grants[g], ![w].new[g] = row]
        BY <2>4 DEF SelectGrant
      <4> HIDE DEF row, outcome
      <4>2. req'[w].pc = "commit"
        BY <4>1, <2>0 DEF IInv, TypeInv, TypeOK, Request
      <4> QED
        BY <4>2
    <3>2. grants[g].st # "live"
      BY <2>2, <2>3, <3>1 DEF RefreshOutcome
    <3> QED
      BY <2>3, <2>4, <3>2 DEF SelectGrant
  <2>5. CASE Commit(w)
    <3>1. /\ req[w].old[g].st = "live" /\ req[w].new[g] = NoGrant("gone")
          /\ grants'[g] = Flush(grants[g], req[w].old[g], req[w].new[g])
      BY <2>0, <2>5 DEF Commit, RefreshOK
    <3> QED
      BY <2>1, <3>1 DEF Flush
  <2>6. CASE CommitFails(w)
    <3>1. /\ req[w].pc = "commit" /\ req[w].new[g].st = "gone"
          /\ \A h \in Grants : h # g => req[w].old[h] = req[w].new[h]
      BY <2>0, <2>1, <2>6 DEF CommitFails, RefreshOK
    <3> QED
      BY <2>6, <3>1 DEF CommitFails, StaleUpdate
  <2>7. CASE req'[w] = req[w]
    BY <2>0, <2>7
  <2>8. ASSUME \/ \E c \in Codes : BeginRedeem(w, c)
               \/ \E t \in tokens : BeginRefresh(w, t)
               \/ \E targets \in SUBSET Grants : BeginForce(w, targets)
               \/ \E match \in BOOLEAN : SelectCode(w, match)
        PROVE  FALSE
    BY <2>0, <2>8 DEF BeginRedeem, BeginRefresh, BeginForce, SelectCode
  <2> QED
    BY <2>4, <2>5, <2>6, <2>7, <2>8, Acts
<1>2. IInv /\ ReplayKnown /\ [Next]_vars => [Revokes]_vars
  BY <1>1
<1>3. Init => ReplayKnown
  BY IdleFields, Zenon DEF Init, ReplayKnown
<1>4. Spec => []IInv
  BY Invariance
<1> QED
  BY <1>2, <1>3, <1>4, ReplayStep, PTL DEF Spec, ReplayRevokes

-----------------------------------------------------------------------------
(* The sweep, on any database, with or without a stored key.               *)

\* A row without refresh token is signed in for one access lifetime after its issue.
WithinAccess(row) == row.st = "live" /\ ~row.offline => row.access <= row.last + AccessTTL

\* Worker w is to INSERT the row of g.
Inserts(w, g) == req[w].old[g].st # "live" /\ req[w].old[g] # req[w].new[g]

\* The unit of work of w, for grant g: an INSERT is of an issued grant that nobody else
\* has seen; an UPDATE or DELETE is of a row that was stored, and of a row without
\* refresh token it moves no deadline past the access lifetime.
UnitOK(w, g) ==
  LET old == req[w].old[g]
      new == req[w].new[g]
      row == grants[g]
  IN  /\ old = NoGrant("unborn") \/ (old.st = "live" /\ new.st # "unborn")
      /\ old.st = "live" => row.st # "unborn"
      /\ Inserts(w, g) =>
           /\ new = IssuedGrant(new.offline, new.born)
           /\ req[w].grant = g /\ row.st = "unborn"
           /\ \A t \in tokens : t.grant # g
           /\ \A v \in Workers \ {w} : req[v].grant # g
      /\ old.st = "live" /\ new.st = "live" /\ row.st = "live" /\ ~row.offline =>
           new.last = old.last /\ new.access <= row.last + AccessTTL

SweepInv ==
  /\ \A g \in Grants : WithinAccess(grants[g])
  /\ \A w \in Workers, g \in Grants : UnitOK(w, g)
  /\ \A w \in Workers : req[w].pc \in {"key", "addkey"} => Inserts(w, req[w].grant)

\* What a step may do to a row that is stored already.
RowKept(g) ==
  \/ grants'[g] = grants[g]
  \/ grants[g].st # "unborn" /\ grants'[g].st = "gone"
  \/ /\ grants[g].st = "live" /\ grants'[g].st = "live"
     /\ grants'[g].offline = grants[g].offline
     /\ ~grants[g].offline => grants'[g].last = grants[g].last

LEMMA EmptyRow == NoGrant("unborn").st = "unborn" /\ NoGrant("gone").st = "gone"
BY DEF NoGrant

\* The row of an issued grant.
LEMMA IssuedFields ==
  ASSUME NEW o \in BOOLEAN, NEW t \in Nat
  PROVE  LET row == IssuedGrant(o, t)
         IN  /\ row.st = "live" /\ row.offline = o /\ row.born = t /\ row.last = t
             /\ WithinAccess(row)
             /\ ~o => row.access = t + AccessTTL
BY LifetimesPositive DEF IssuedGrant, InsertedGrant, AccessExpiry, Min, WithinAccess

\* The unit of work of a request that another worker's step leaves alone.
LEMMA UnitKept ==
  ASSUME TypeInv, NEW v \in Workers, NEW g \in Grants, UnitOK(v, g), req'[v] = req[v],
         RowKept(g) \/ (grants[g].st = "unborn" /\ ~Inserts(v, g)),
         Inserts(v, g) => /\ \A t \in tokens' : t.grant # g
                          /\ \A u \in Workers \ {v} : req'[u].grant # g
  PROVE  UnitOK(v, g)'
<1> DEFINE old == req[v].old[g]
           new == req[v].new[g]
<1>1. old = req'[v].old[g] /\ new = req'[v].new[g] /\ Inserts(v, g)' = Inserts(v, g)
  BY DEF Inserts
<1>2. CASE grants[g].st = "unborn" /\ ~Inserts(v, g)
  <2>1. old = NoGrant("unborn")
    BY <1>2 DEF UnitOK
  <2> QED
    BY <1>1, <1>2, <2>1, EmptyRow DEF UnitOK
<1>3. CASE RowKept(g)
  <2>1. CASE Inserts(v, g)
    <3>1. grants'[g] = grants[g] /\ old.st # "live"
      BY <1>3, <2>1 DEF UnitOK, RowKept, Inserts
    <3> QED
      BY <1>1, <2>1, <3>1 DEF UnitOK
  <2>2. CASE ~Inserts(v, g)
    <3>1. old.st = "live" => grants'[g].st # "unborn"
      BY <1>3 DEF UnitOK, RowKept
    <3>2. old.st = "live" /\ new.st = "live" /\ grants'[g].st = "live" /\ ~grants'[g].offline =>
             new.last = old.last /\ new.access <= grants'[g].last + AccessTTL
      BY <1>3 DEF UnitOK, RowKept
    <3> QED
      BY <1>1, <2>2, <3>1, <3>2 DEF UnitOK
  <2> QED
    BY <2>1, <2>2
<1> QED
  BY <1>2, <1>3

\* A unit of work without rows is in order.
LEMMA UnitEmpty ==
  ASSUME NEW w \in Workers, NEW g \in Grants,
         req'[w].old[g] = NoGrant("unborn"), req'[w].new[g] = NoGrant("unborn")
  PROVE  UnitOK(w, g)'
BY EmptyRow DEF UnitOK, Inserts

\* Worker w starts or ends a request: the tables and tokens as they are, except that
\* the token w returns is one of its grant.
LEMMA SweepReplace ==
  ASSUME TypeInv, SweepInv, NEW w \in Workers, UNCHANGED grants,
         \A v \in Workers \ {w} : req'[v] = req[v],
         req'[w].pc \notin {"key", "addkey"},
         \A g \in Grants : UnitOK(w, g)',
         \A t \in tokens' : t \in tokens \/ t.grant = req[w].grant,
         req'[w].grant = req[w].grant \/ req'[w].grant = None
           \/ \E t \in tokens : t.grant = req'[w].grant
  PROVE  SweepInv'
<1>1. ASSUME NEW v \in Workers, NEW g \in Grants, v # w
      PROVE  UnitOK(v, g)'
  <2>1. UnitOK(v, g) /\ req'[v] = req[v] /\ RowKept(g)
    BY <1>1 DEF SweepInv, RowKept
  <2>2. ASSUME Inserts(v, g)
        PROVE  /\ \A t \in tokens' : t.grant # g
               /\ \A u \in Workers \ {v} : req'[u].grant # g
    <3>1. /\ \A t \in tokens : t.grant # g
          /\ \A u \in Workers \ {v} : req[u].grant # g
      BY <2>1, <2>2 DEF UnitOK
    <3> QED
      BY <1>1, <3>1, NoneIsFresh
  <2> QED
    BY <2>1, <2>2, UnitKept
<1>2. ASSUME NEW v \in Workers, req'[v].pc \in {"key", "addkey"}
      PROVE  Inserts(v, req[v].grant)'
  BY <1>2 DEF SweepInv, Inserts
<1>3. \A g \in Grants : WithinAccess(grants[g])'
  BY DEF SweepInv, WithinAccess
<1> QED
  BY <1>1, <1>2, <1>3 DEF SweepInv

\* The requests stay as they are: time, the account, the sweep, a revocation.
LEMMA SweepTables ==
  ASSUME TypeInv, SweepInv, UNCHANGED <<req, tokens>>,
         \A g \in Grants : RowKept(g) /\ WithinAccess(grants[g])'
  PROVE  SweepInv'
<1>1. ASSUME NEW v \in Workers, NEW g \in Grants
      PROVE  UnitOK(v, g)'
  <2>1. UnitOK(v, g) /\ req'[v] = req[v] /\ RowKept(g)
    BY DEF SweepInv
  <2>2. Inserts(v, g) => /\ \A t \in tokens' : t.grant # g
                         /\ \A u \in Workers \ {v} : req'[u].grant # g
    BY <2>1 DEF UnitOK
  <2> QED
    BY <2>1, <2>2, UnitKept
<1>2. ASSUME NEW v \in Workers, req'[v].pc \in {"key", "addkey"}
      PROVE  Inserts(v, req[v].grant)'
  BY <1>2 DEF SweepInv, Inserts
<1> QED
  BY <1>1, <1>2 DEF SweepInv

\* A request that ends without writing.
LEMMA SweepDone ==
  ASSUME TypeInv, SweepInv, NEW w \in Workers, UNCHANGED grants, Done(w),
         \A t \in tokens' : t \in tokens \/ t.grant = req[w].grant
  PROVE  SweepInv'
<1>0. req \in [Workers -> Request]
  BY DEF TypeInv, TypeOK
<1>1. req'[w] = Idle /\ \A v \in Workers \ {w} : req'[v] = req[v]
  BY <1>0 DEF Done
<1>2. Idle.pc = "idle" /\ Idle.grant = None
      /\ \A g \in Grants : Idle.old[g] = NoGrant("unborn") /\ Idle.new[g] = NoGrant("unborn")
  BY DEF Idle, NoRows
<1>3. \A g \in Grants : UnitOK(w, g)'
  BY <1>1, <1>2, UnitEmpty
<1> QED
  BY <1>1, <1>2, <1>3, SweepReplace

\* A request that begins.
LEMMA SweepBegin ==
  ASSUME TypeInv, SweepInv, NEW w \in Workers,
         \/ \E c \in Codes : BeginRedeem(w, c)
         \/ \E t \in tokens : BeginRefresh(w, t)
         \/ \E targets \in SUBSET Grants : BeginForce(w, targets)
  PROVE  SweepInv'
<1>0. /\ req \in [Workers -> Request] /\ grants \in [Grants -> GrantRow] /\ now \in Nat
      /\ UNCHANGED <<grants, tokens>>
  BY DEF TypeInv, TypeOK, BeginRedeem, BeginRefresh, BeginForce
<1>e. \A g \in Grants : NoRows[g] = NoGrant("unborn")
  BY DEF NoRows
<1>1. ASSUME NEW c \in Codes, BeginRedeem(w, c)
      PROVE  SweepInv'
  <2>1. /\ req'[w].old = NoRows /\ req'[w].new = NoRows /\ req'[w].pc = "select"
        /\ req'[w].grant = None
        /\ \A v \in Workers \ {w} : req'[v] = req[v]
    BY <1>0, <1>1 DEF BeginRedeem, Idle
  <2>2. \A g \in Grants : UnitOK(w, g)'
    BY <1>e, <2>1, UnitEmpty
  <2> QED
    BY <1>0, <2>1, <2>2, SweepReplace
<1>2. ASSUME NEW t \in tokens, BeginRefresh(w, t)
      PROVE  SweepInv'
  <2> DEFINE b == \E s \in tokens : s.grant = t.grant /\ s.gen > t.gen
  <2>0. req' = [req EXCEPT ![w] =
                 [Idle EXCEPT !.pc = "select", !.op = "refresh", !.code = t.code,
                    !.grant = t.grant, !.gen = t.gen, !.start = now, !.replay = b]]
    BY <1>2 DEF BeginRefresh
  <2> HIDE DEF b
  <2>1. /\ req'[w].old = NoRows /\ req'[w].new = NoRows /\ req'[w].pc = "select"
        /\ req'[w].grant = t.grant
        /\ \A v \in Workers \ {w} : req'[v] = req[v]
    BY <1>0, <2>0 DEF Idle
  <2>2. \A g \in Grants : UnitOK(w, g)'
    BY <1>e, <2>1, UnitEmpty
  <2> QED
    BY <1>0, <2>1, <2>2, SweepReplace
<1>3. ASSUME NEW targets \in SUBSET Grants, BeginForce(w, targets)
      PROVE  SweepInv'
  <2> DEFINE old == [h \in Grants |-> IF h \in targets THEN grants[h] ELSE NoGrant("unborn")]
             new == [h \in Grants |-> IF h \in targets THEN ForcedGrant(grants[h], now)
                                      ELSE NoGrant("unborn")]
  <2>1. req' = [req EXCEPT ![w] = [Idle EXCEPT !.pc = "commit", !.op = "force", !.old = old, !.new = new]]
    BY <1>3 DEF BeginForce
  <2>2. /\ req'[w].old = old /\ req'[w].new = new /\ req'[w].pc = "commit" /\ req'[w].grant = None
        /\ \A v \in Workers \ {w} : req'[v] = req[v]
    <3> HIDE DEF old, new
    <3> QED
      BY <1>0, <2>1 DEF Idle
  <2>3. ASSUME NEW g \in Grants PROVE UnitOK(w, g)'
    <3>1. CASE g \notin targets
      <4>1. req'[w].old[g] = NoGrant("unborn") /\ req'[w].new[g] = NoGrant("unborn")
        BY <2>2, <3>1
      <4> QED
        BY <4>1, UnitEmpty
    <3>2. CASE g \in targets
      <4>1. req'[w].old[g] = grants[g] /\ req'[w].new[g] = ForcedGrant(grants[g], now)
        BY <2>2, <3>2
      <4>2. grants[g].st = "live" /\ grants[g] \in GrantRow /\ WithinAccess(grants[g])
            /\ grants'[g] = grants[g]
        BY <1>0, <1>3, <3>2 DEF BeginForce, SweepInv
      <4> DEFINE f == ForcedGrant(grants[g], now)
      <4>3. f.st = grants[g].st /\ f.last = grants[g].last /\ f.access <= grants[g].access
        BY <1>0, <4>2, ForcedRow
      <4>4. f \in GrantRow
        BY <1>0, <4>2, RowTypes
      <4> HIDE DEF f
      <4>5. ~grants[g].offline => f.access <= grants[g].last + AccessTTL
        BY <4>2, <4>3, <4>4, LifetimesPositive DEF WithinAccess, GrantRow
      <4>6. req'[w].new[g] = f
        BY <4>1 DEF f
      <4> QED
        BY <4>1, <4>2, <4>3, <4>5, <4>6 DEF UnitOK, Inserts
    <3> QED
      BY <3>1, <3>2
  <2> QED
    BY <1>0, <2>2, <2>3, SweepReplace
<1> QED
  BY <1>1, <1>2, <1>3

\* The SELECT of a refresh: a grant without refresh token is deleted, never rotated.
LEMMA SweepSelectGrant ==
  ASSUME TypeInv, SweepInv, NEW w \in Workers, SelectGrant(w)
  PROVE  SweepInv'
<1> DEFINE g == req[w].grant
           outcome == RefreshOutcome(grants[g], req[w].gen, req[w].start)
           row == IF outcome = "delete" THEN NoGrant("gone") ELSE RotatedGrant(grants[g], now)
<1>0. /\ req \in [Workers -> Request] /\ req[w] \in Request /\ grants \in [Grants -> GrantRow]
      /\ now \in Nat /\ ShapeOK(req[w]) /\ req[w].op = "refresh" /\ req[w].pc = "select"
      /\ UNCHANGED <<grants, tokens>>
  BY DEF TypeInv, TypeOK, SelectGrant
<1>1. CASE Done(w)
  BY <1>0, <1>1, SweepDone
<1>2. CASE ~Done(w)
  <2>1. /\ req' = [req EXCEPT ![w].pc = "commit", ![w].old[g] = grants[g], ![w].new[g] = row]
        /\ outcome # "reject"
    BY <1>2 DEF SelectGrant
  <2>2. grants[g].st = "live" /\ g \in Grants
    BY <1>0, <2>1 DEF RefreshOutcome, ShapeOK
  <2>3. row.st # "unborn" /\ (~grants[g].offline => row.st = "gone")
    <3>1. CASE outcome = "delete"
      BY <3>1, EmptyRow
    <3>2. CASE outcome # "delete"
      <4>1. grants[g].offline
        BY <2>1, <3>2 DEF RefreshOutcome, RefreshExpired
      <4>2. RotatedGrant(grants[g], now).st = grants[g].st
        BY <1>0, <2>2 DEF RotatedGrant, GrantRow
      <4> QED
        BY <2>2, <3>2, <4>1, <4>2
    <3> QED
      BY <3>1, <3>2
  <2> HIDE DEF row, outcome
  <2>4. /\ req'[w].pc = "commit" /\ req'[w].grant = g
        /\ req'[w].old[g] = grants[g] /\ req'[w].new[g] = row
        /\ \A h \in Grants \ {g} : req'[w].old[h] = req[w].old[h] /\ req'[w].new[h] = req[w].new[h]
        /\ \A v \in Workers \ {w} : req'[v] = req[v]
    BY <1>0, <2>1, <2>2 DEF Request
  <2>5. ASSUME NEW h \in Grants PROVE UnitOK(w, h)'
    <3>1. CASE h = g
      BY <1>0, <2>2, <2>3, <2>4, <3>1 DEF UnitOK, Inserts
    <3>2. CASE h # g
      <4>1. req'[w].old[h] = NoGrant("unborn") /\ req'[w].new[h] = NoGrant("unborn")
        BY <1>0, <2>4, <3>2 DEF ShapeOK, NoRows
      <4> QED
        BY <4>1, UnitEmpty
    <3> QED
      BY <3>1, <3>2
  <2> QED
    BY <1>0, <2>4, <2>5, SweepReplace
<1> QED
  BY <1>1, <1>2

\* The SELECT of a redemption: the grant id it draws is new.
LEMMA SweepSelectCode ==
  ASSUME TypeInv, SweepInv, NEW w \in Workers, NEW match \in BOOLEAN, SelectCode(w, match)
  PROVE  SweepInv'
<1>0. /\ req \in [Workers -> Request] /\ req[w] \in Request /\ now \in Nat
      /\ ShapeOK(req[w]) /\ req[w].op = "redeem" /\ req[w].pc = "select"
      /\ req[w].code \in Codes /\ codes[req[w].code].offline \in BOOLEAN
      /\ UNCHANGED <<grants, tokens>>
  BY DEF TypeInv, TypeOK, SelectCode, ShapeOK, CodeRow
<1>1. CASE Done(w)
  BY <1>0, <1>1, SweepDone
<1>2. CASE ~Done(w)
  <2> DEFINE pc == IF keyCached[w] THEN "commit" ELSE "key"
             row == IssuedGrant(codes[req[w].code].offline, now)
  <2>1. PICK g \in Grants :
          Fresh(g) /\ req' = [req EXCEPT ![w].pc = pc, ![w].grant = g, ![w].new[g] = row]
    BY <1>2 DEF SelectCode
  <2>2. row = IssuedGrant(row.offline, row.born) /\ row.st = "live"
    BY <1>0, IssuedFields
  <2>3. pc \in {"commit", "key"}
    OBVIOUS
  <2> HIDE DEF pc, row
  <2>4. /\ req'[w].pc = pc /\ req'[w].grant = g
        /\ req'[w].old = NoRows /\ req'[w].new[g] = row
        /\ \A h \in Grants \ {g} : req'[w].new[h] = NoRows[h]
        /\ \A v \in Workers \ {w} : req'[v] = req[v]
    BY <1>0, <2>1 DEF Request, ShapeOK
  <2>5. \A h \in Grants : NoRows[h] = NoGrant("unborn")
    BY DEF NoRows
  <2>6. Inserts(w, g)'
    BY <2>2, <2>4, <2>5, EmptyRow DEF Inserts
  <2>7. /\ grants[g].st = "unborn" /\ \A v \in Workers : req[v].grant # g
        /\ \A t \in tokens : t.grant # g
    BY <2>1 DEF Fresh
  <2>8. ASSUME NEW h \in Grants PROVE UnitOK(w, h)'
    <3>1. CASE h = g
      BY <1>0, <2>2, <2>4, <2>5, <2>7, <3>1, EmptyRow DEF UnitOK, Inserts
    <3>2. CASE h # g
      <4>1. req'[w].old[h] = NoGrant("unborn") /\ req'[w].new[h] = NoGrant("unborn")
        BY <2>4, <2>5, <3>2
      <4> QED
        BY <4>1, UnitEmpty
    <3> QED
      BY <3>1, <3>2
  <2>9. ASSUME NEW v \in Workers, NEW h \in Grants, v # w PROVE UnitOK(v, h)'
    <3>1. UnitOK(v, h) /\ req'[v] = req[v] /\ RowKept(h)
      BY <1>0, <2>4, <2>9 DEF SweepInv, RowKept
    <3>2. ASSUME Inserts(v, h)
          PROVE  /\ \A t \in tokens' : t.grant # h
                 /\ \A u \in Workers \ {v} : req'[u].grant # h
      <4>1. /\ req[v].grant = h /\ \A t \in tokens : t.grant # h
            /\ \A u \in Workers \ {v} : req[u].grant # h
        BY <3>1, <3>2 DEF UnitOK
      <4> QED
        BY <1>0, <2>4, <2>7, <4>1
    <3> QED
      BY <3>1, <3>2, UnitKept
  <2>10. ASSUME NEW v \in Workers, req'[v].pc \in {"key", "addkey"}
         PROVE  Inserts(v, req[v].grant)'
    <3>1. CASE v = w
      BY <2>4, <2>6, <3>1
    <3>2. CASE v # w
      BY <2>4, <2>10, <3>2 DEF SweepInv, Inserts
    <3> QED
      BY <3>1, <3>2
  <2>11. \A h \in Grants : WithinAccess(grants[h])'
    BY <1>0 DEF SweepInv, WithinAccess
  <2> QED
    BY <2>8, <2>9, <2>10, <2>11 DEF SweepInv
<1> QED
  BY <1>1, <1>2

\* Looking the key up leaves the unit of work.
LEMMA SweepReadKey ==
  ASSUME TypeInv, SweepInv, NEW w \in Workers, ReadKey(w)
  PROVE  SweepInv'
<1>0. /\ req \in [Workers -> Request] /\ req[w] \in Request /\ req[w].pc = "key"
      /\ UNCHANGED <<grants, tokens>>
  BY DEF TypeInv, TypeOK, ReadKey
<1>1. /\ req'[w].old = req[w].old /\ req'[w].new = req[w].new /\ req'[w].grant = req[w].grant
      /\ \A v \in Workers \ {w} : req'[v] = req[v]
  BY <1>0 DEF ReadKey, Goto, Request
<1>2. \A v \in Workers : /\ req'[v].old = req[v].old /\ req'[v].new = req[v].new
                         /\ req'[v].grant = req[v].grant
  BY <1>1
<1>3. ASSUME NEW v \in Workers, NEW g \in Grants PROVE UnitOK(v, g)'
  <2>1. UnitOK(v, g)
    BY DEF SweepInv
  <2> QED
    BY <1>0, <1>2, <2>1 DEF UnitOK, Inserts
<1>4. ASSUME NEW v \in Workers, req'[v].pc \in {"key", "addkey"}
      PROVE  Inserts(v, req[v].grant)'
  <2>1. req[v].pc \in {"key", "addkey"}
    BY <1>0, <1>1, <1>4
  <2> QED
    BY <1>2, <2>1 DEF SweepInv, Inserts
<1>5. \A g \in Grants : WithinAccess(grants[g])'
  BY <1>0 DEF SweepInv, WithinAccess
<1> QED
  BY <1>3, <1>4, <1>5 DEF SweepInv

\* Storing the key stores the redemption's grant as it was first inserted.
LEMMA SweepAddKey ==
  ASSUME TypeInv, SweepInv, NEW w \in Workers, AddKey(w)
  PROVE  SweepInv'
<1> DEFINE g == req[w].grant
           new == req[w].new[g]
           row == InsertedGrant(new.offline, new.born)
<1>0. /\ req \in [Workers -> Request] /\ req[w] \in Request /\ grants \in [Grants -> GrantRow]
      /\ g \in Grants /\ req[w].pc = "addkey" /\ UNCHANGED tokens
  BY DEF TypeInv, TypeOK, AddKey, ShapeOK, Request
<1>1. Inserts(w, g) /\ UnitOK(w, g)
  BY <1>0 DEF SweepInv
<1>2. /\ new = IssuedGrant(new.offline, new.born) /\ grants[g].st = "unborn"
      /\ \A v \in Workers \ {w} : req[v].grant # g
      /\ new.offline \in BOOLEAN /\ new.born \in Nat
  BY <1>0, <1>1 DEF UnitOK, Request, GrantRow
<1>3. /\ row.st = "live" /\ row.offline = new.offline /\ row.last = new.born
      /\ row.access = new.born + AccessTTL /\ WithinAccess(row)
  BY <1>2, LifetimesPositive DEF InsertedGrant, WithinAccess
<1>4. new.st = "live" /\ new.last = new.born /\ (~new.offline => new.access = new.born + AccessTTL)
  BY <1>2, IssuedFields
<1>5. /\ grants' = [grants EXCEPT ![g] = row]
      /\ req' = [req EXCEPT ![w].pc = "finish", ![w].old[g] = row]
  BY DEF AddKey
<1> HIDE DEF row
<1>6. /\ grants'[g] = row /\ \A h \in Grants \ {g} : grants'[h] = grants[h]
      /\ req'[w].pc = "finish" /\ req'[w].old[g] = row /\ req'[w].grant = g
      /\ req'[w].new = req[w].new
      /\ \A h \in Grants \ {g} : req'[w].old[h] = req[w].old[h]
      /\ \A v \in Workers \ {w} : req'[v] = req[v]
  BY <1>0, <1>5 DEF Request
<1>7. ASSUME NEW h \in Grants PROVE UnitOK(w, h)'
  <2>1. CASE h = g
    <3>1. new.last = row.last /\ (~row.offline => new.access <= row.last + AccessTTL)
      BY <1>2, <1>3, <1>4, LifetimesPositive
    <3> HIDE DEF new
    <3>2. req'[w].new[g] = new
      BY <1>6 DEF new
    <3> QED
      BY <1>3, <1>4, <1>6, <2>1, <3>1, <3>2 DEF UnitOK, Inserts
  <2>2. CASE h # g
    <3>1. UnitOK(w, h)
      BY DEF SweepInv
    <3>2. ~Inserts(w, h)
      BY <2>2, <3>1 DEF UnitOK
    <3> QED
      BY <1>6, <2>2, <3>1, <3>2 DEF UnitOK, Inserts
  <2> QED
    BY <2>1, <2>2
<1>8. ASSUME NEW v \in Workers, NEW h \in Grants, v # w PROVE UnitOK(v, h)'
  <2>1. UnitOK(v, h) /\ req'[v] = req[v]
    BY <1>6, <1>8 DEF SweepInv
  <2>2. RowKept(h) \/ (grants[h].st = "unborn" /\ ~Inserts(v, h))
    BY <1>2, <1>6, <1>8, <2>1 DEF RowKept, UnitOK
  <2>3. Inserts(v, h) => /\ \A t \in tokens' : t.grant # h
                         /\ \A u \in Workers \ {v} : req'[u].grant # h
    BY <1>0, <1>6, <2>1 DEF UnitOK
  <2> QED
    BY <2>1, <2>2, <2>3, UnitKept
<1>9. ASSUME NEW v \in Workers, req'[v].pc \in {"key", "addkey"}
      PROVE  Inserts(v, req[v].grant)'
  BY <1>6, <1>9 DEF SweepInv, Inserts
<1>10. \A h \in Grants : WithinAccess(grants[h])'
  BY <1>3, <1>6 DEF SweepInv, WithinAccess
<1> QED
  BY <1>7, <1>8, <1>9, <1>10 DEF SweepInv

\* What a commit makes of one row.
LEMMA SweepFlush ==
  ASSUME TypeInv, SweepInv, NEW w \in Workers, Commit(w), NEW g \in Grants
  PROVE  /\ WithinAccess(grants[g])'
         /\ RowKept(g) \/ (grants[g].st = "unborn" /\ Inserts(w, g))
<1> DEFINE old == req[w].old[g]
           new == req[w].new[g]
           row == grants[g]
<1>0. /\ old \in GrantRow /\ new \in GrantRow /\ row \in GrantRow
      /\ grants'[g] = Flush(row, old, new) /\ ~StaleUpdate(w)
      /\ UnitOK(w, g) /\ WithinAccess(row)
  BY DEF TypeInv, TypeOK, Request, Commit, SweepInv
<1>1. CASE old = new
  <2>1. grants'[g] = row
    BY <1>0, <1>1 DEF Flush
  <2> QED
    BY <1>0, <2>1 DEF RowKept, WithinAccess
<1>2. CASE old # new /\ old.st # "live"
  <2>1. /\ Inserts(w, g) /\ row.st = "unborn" /\ old = NoGrant("unborn")
        /\ new = IssuedGrant(new.offline, new.born)
    BY <1>0, <1>2 DEF UnitOK, Inserts
  <2>2. WithinAccess(new)
    <3>1. new.offline \in BOOLEAN /\ new.born \in Nat
      BY <1>0 DEF GrantRow
    <3>2. WithinAccess(IssuedGrant(new.offline, new.born))
      BY <3>1, IssuedFields
    <3> HIDE DEF new
    <3> QED
      BY <2>1, <3>2
  <2>3. grants'[g] = new
    BY <1>0, <1>2, <2>1, EmptyRow DEF Flush
  <2> QED
    BY <2>1, <2>2, <2>3 DEF WithinAccess
<1>3. CASE old # new /\ old.st = "live" /\ new.st = "gone"
  <2>1. grants'[g] = new /\ row.st # "unborn"
    BY <1>0, <1>3 DEF Flush, UnitOK
  <2> QED
    BY <1>3, <2>1 DEF RowKept, WithinAccess
<1>4. CASE old # new /\ old.st = "live" /\ new.st = "live"
  <2>1. row.st = "live"
    BY <1>0, <1>4 DEF StaleUpdate
  <2>2. /\ grants'[g].st = row.st /\ grants'[g].offline = row.offline
        /\ grants'[g].access \in {new.access, row.access}
        /\ grants'[g].last = IF new.last # old.last THEN new.last ELSE row.last
    <3> HIDE DEF old, new, row
    <3> QED
      BY <1>0, <1>4, UpdatedRow
  <2>3. ~row.offline => /\ new.last = old.last /\ new.access <= row.last + AccessTTL
                        /\ row.access <= row.last + AccessTTL
    BY <1>0, <1>4, <2>1 DEF UnitOK, WithinAccess
  <2> QED
    BY <2>1, <2>2, <2>3 DEF RowKept, WithinAccess
<1>5. new.st \in {"unborn", "live", "gone"} /\ (old.st = "live" => new.st # "unborn")
  BY <1>0, EmptyRow DEF UnitOK, GrantRow
<1> QED
  BY <1>1, <1>2, <1>3, <1>4, <1>5

LEMMA SweepCommit ==
  ASSUME TypeInv, SweepInv, NEW w \in Workers, Commit(w)
  PROVE  SweepInv'
<1>0. /\ req \in [Workers -> Request] /\ req'[w] = Idle
      /\ \A v \in Workers \ {w} : req'[v] = req[v]
      /\ \A t \in tokens' : t \in tokens \/ t.grant = req[w].grant
  BY DEF TypeInv, TypeOK, Commit, Done, Reply
<1>1. Idle.pc = "idle" /\ Idle.grant = None
      /\ \A g \in Grants : Idle.old[g] = NoGrant("unborn") /\ Idle.new[g] = NoGrant("unborn")
  BY DEF Idle, NoRows
<1>2. \A g \in Grants : UnitOK(w, g)'
  BY <1>0, <1>1, UnitEmpty
<1>3. ASSUME NEW v \in Workers, NEW g \in Grants, v # w PROVE UnitOK(v, g)'
  <2>1. UnitOK(v, g) /\ UnitOK(w, g) /\ req'[v] = req[v]
    BY <1>0, <1>3 DEF SweepInv
  <2>2. RowKept(g) \/ (grants[g].st = "unborn" /\ ~Inserts(v, g))
    BY <1>3, <2>1, SweepFlush DEF UnitOK
  <2>3. ASSUME Inserts(v, g)
        PROVE  /\ \A t \in tokens' : t.grant # g
               /\ \A u \in Workers \ {v} : req'[u].grant # g
    <3>1. /\ \A t \in tokens : t.grant # g
          /\ \A u \in Workers \ {v} : req[u].grant # g
      BY <2>1, <2>3 DEF UnitOK
    <3> QED
      BY <1>0, <1>1, <1>3, <3>1, NoneIsFresh
  <2> QED
    BY <2>1, <2>2, <2>3, UnitKept
<1>4. ASSUME NEW v \in Workers, req'[v].pc \in {"key", "addkey"}
      PROVE  Inserts(v, req[v].grant)'
  BY <1>0, <1>1, <1>4 DEF SweepInv, Inserts
<1> QED
  BY <1>2, <1>3, <1>4, SweepFlush DEF SweepInv

LEMMA SweepStep == TypeInv /\ SweepInv /\ [Next]_vars => SweepInv'
<1> SUFFICES ASSUME TypeInv, SweepInv, [Next]_vars PROVE SweepInv'
  OBVIOUS
<1>0. grants \in [Grants -> GrantRow] /\ \A g \in Grants : WithinAccess(grants[g])
  BY DEF TypeInv, TypeOK, SweepInv
<1>1. ASSUME UNCHANGED <<grants, req, tokens>> PROVE SweepInv'
  BY <1>0, <1>1, SweepTables DEF RowKept, WithinAccess
<1>2. ASSUME NEW c \in Codes, NEW offline \in BOOLEAN, Approve(c, offline)
      PROVE  SweepInv'
  <2>1. /\ UNCHANGED <<req, tokens>>
        /\ \A g \in Grants : grants'[g] = grants[g]
                             \/ (grants[g].st = "live" /\ grants'[g] = NoGrant("gone"))
    BY <1>2 DEF Approve, LongExpired
  <2> QED
    BY <1>0, <2>1, SweepTables, EmptyRow DEF RowKept, WithinAccess
<1>3. ASSUME NEW h \in Grants, Revoke(h)
      PROVE  SweepInv'
  <2>1. /\ UNCHANGED <<req, tokens>>
        /\ \A g \in Grants : grants'[g] = grants[g]
                             \/ (grants[g].st = "live" /\ grants'[g] = NoGrant("gone"))
    BY <1>0, <1>3 DEF Revoke
  <2> QED
    BY <1>0, <2>1, SweepTables, EmptyRow DEF RowKept, WithinAccess
<1>4. ASSUME NEW w \in Workers, NEW targets, targets = Live \/ \E g \in Grants : targets = {g},
             BeginForce(w, targets)
      PROVE  SweepInv'
  <2>1. targets \in SUBSET Grants
    BY <1>4 DEF Live
  <2> QED
    BY <1>4, <2>1, SweepBegin
<1>5. ASSUME NEW w \in Workers, LoseKeyRace(w)
      PROVE  SweepInv'
  BY <1>5, SweepDone DEF LoseKeyRace, Reply
<1>6. ASSUME NEW w \in Workers, CommitFails(w)
      PROVE  SweepInv'
  BY <1>6, SweepDone DEF CommitFails
<1>7. CASE Tick \/ SetEnabled \/ (\E w \in Workers : ParseUnknownToken(w)) \/ UNCHANGED vars
  BY <1>1, <1>7 DEF Tick, SetEnabled, ParseUnknownToken, vars
<1> QED
  BY <1>2, <1>3, <1>4, <1>5, <1>6, <1>7, SweepBegin, SweepSelectCode, SweepReadKey, SweepAddKey,
     SweepSelectGrant, SweepCommit DEF Next, WorkerStep

\* On any database, and whether or not the key is stored, the sweep of an approval spares
\* the grants that the token list shows as signed in, as long as an access token lives
\* no longer than the idle window and the retention together (the defaults: a day
\* against 37).
THEOREM SweepSpares == AccessTTL <= RefreshIdle + Retention /\ Spec => SweepSparesUsable
<1> SUFFICES ASSUME AccessTTL <= RefreshIdle + Retention PROVE Spec => SweepSparesUsable
  OBVIOUS
<1> DEFINE Spared == (\E c \in Codes, offline \in BOOLEAN : Approve(c, offline)) =>
                       \A g \in Grants : Usable(g) => grants'[g].st = "live"
<1>1. TypeInv /\ SweepInv /\ [Next]_vars => Spared
  <2> SUFFICES ASSUME TypeInv, SweepInv, NEW c \in Codes, NEW offline \in BOOLEAN,
                      Approve(c, offline), NEW g \in Grants, Usable(g)
               PROVE  grants'[g].st = "live"
    OBVIOUS
  <2>1. grants[g] \in GrantRow /\ now \in Nat /\ grants[g].st = "live" /\ WithinAccess(grants[g])
    BY DEF TypeInv, TypeOK, SweepInv, Usable
  <2>2. ~LongExpired(g)
    <3>1. /\ grants[g].access \in Nat /\ grants[g].refresh \in Nat /\ grants[g].last \in Nat
      BY <2>1 DEF GrantRow
    <3>2. CASE grants[g].offline
      BY <2>1, <3>1, <3>2, LifetimesPositive DEF LongExpired, Usable, RefreshExpired
    <3>3. CASE ~grants[g].offline
      BY <2>1, <3>1, <3>3, LifetimesPositive DEF LongExpired, Usable, WithinAccess
    <3> QED
      BY <3>2, <3>3
  <2> QED
    BY <2>1, <2>2 DEF Approve
<1>2. TypeInv /\ SweepInv /\ [Next]_vars => [Spared]_vars
  BY <1>1
<1>3. Init => SweepInv
  <2> SUFFICES ASSUME Init PROVE SweepInv
    OBVIOUS
  <2>1. /\ \A w \in Workers : req[w] = Idle
        /\ \A g \in Grants : grants[g] = NoGrant("unborn")
    BY DEF Init, NoRows
  <2>2. Idle.pc = "idle"
        /\ \A g \in Grants : Idle.old[g] = NoGrant("unborn") /\ Idle.new[g] = NoGrant("unborn")
    BY DEF Idle, NoRows
  <2> QED
    BY <2>1, <2>2, EmptyRow DEF SweepInv, UnitOK, Inserts, WithinAccess
<1> QED
  BY <1>2, <1>3, TypeInit, TypeStep, SweepStep, PTL DEF Spec, SweepSparesUsable
=============================================================================
