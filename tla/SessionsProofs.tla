--------------------------- MODULE SessionsProofs ---------------------------
(***************************************************************************)
(* For any number of users, browsers, overlapping requests and session     *)
(* ids: the types, that a session ended for good stays gone, and that a    *)
(* session id keeps its identity.                                          *)
(*                                                                         *)
(* Both rest on what a request that loaded a session knows: the session it *)
(* will save is one the store has had, with the same user (Bound), and is  *)
(* none of those that ended (Over).                                        *)
(***************************************************************************)
EXTENDS Sessions, TLAPS

\* The session a request works on was stored, under the user it still has.
Bound ==
  \A r \in Requests :
    /\ req[r].key = req[r].sid
    /\ req[r].sid \in Sids =>
         store[req[r].sid].st # "free" /\ store[req[r].sid].user = req[r].user

\* A session that ended was stored once, and no request works on it.
Over ==
  \A s \in ended : store[s].st = "gone" /\ \A r \in Requests : req[r].sid # s

IInv == TypeOK /\ Bound /\ Over

USE SessionConstants

-----------------------------------------------------------------------------
(* Helpers                                                                 *)

\* Delete marks the live entries it is given and changes nothing else.
LEMMA Deleted ==
  ASSUME TypeOK, NEW S, store' = Delete(store, S)
  PROVE  /\ store' \in [Sids -> Entry]
         /\ \A s \in Sids : store'[s].uid = None <=> store'[s].st = "free"
         /\ \A s \in Sids : /\ store'[s].user = store[s].user
                            /\ store'[s].st = IF s \in S /\ store[s].st = "live" THEN "gone"
                                              ELSE store[s].st
<1> DEFINE mark(s) == [store[s] EXCEPT !.st = "gone"]
<1>1. ASSUME NEW s \in Sids
      PROVE  /\ mark(s) \in Entry /\ mark(s).st = "gone" /\ mark(s).user = store[s].user
             /\ mark(s).uid = store[s].uid
  <2>1. store[s] \in Entry
    BY DEF TypeOK
  <2>2. QED
    BY <2>1 DEF Entry
<1>2. \A s \in Sids : store[s] \in Entry /\ (store[s].uid = None <=> store[s].st = "free")
  BY DEF TypeOK
<1>3. store' = [s \in Sids |-> IF s \in S /\ store[s].st = "live" THEN mark(s) ELSE store[s]]
  BY DEF Delete
<1> HIDE DEF mark
<1>4. \A s \in Sids : store'[s] = IF s \in S /\ store[s].st = "live" THEN mark(s) ELSE store[s]
  BY <1>3
<1>5. store' \in [Sids -> Entry]
  BY <1>1, <1>2, <1>3
<1>6. \A s \in Sids : store'[s].uid = None <=> store'[s].st = "free"
  BY <1>1, <1>2, <1>4
<1>7. QED
  BY <1>1, <1>4, <1>5, <1>6

\* A request gets another session object.
LEMMA Assigned ==
  ASSUME TypeOK, NEW r \in Requests, NEW m \in Session, req' = [req EXCEPT ![r] = m]
  PROVE  req' \in [Requests -> Session] /\ req'[r] = m /\ \A q \in Requests \ {r} : req'[q] = req[q]
BY DEF TypeOK

LEMMA NoSessionType == NoSession \in Session
BY DEF NoSession, Session

\* After a login the request works on no stored session.
LEMMA RegeneratedType ==
  ASSUME TypeOK, NEW r \in Requests, NEW u \in Users
  PROVE  /\ Regenerated(r, u) \in Session
         /\ Regenerated(r, u).key = None /\ Regenerated(r, u).sid = None
<1>1. req[r] \in Session
  BY DEF TypeOK
<1>2. QED
  BY <1>1 DEF Regenerated, Session

\* What the actions that delete sessions have in common: those of S are
\* deleted, r (if it is a request) lets go of its own, and what no other request works on ended.
LEMMA Ending ==
  ASSUME IInv, NEW r, NEW S \in SUBSET Sids, store' = Delete(store, S),
         ended' = ended \cup Unloaded(r, S),
         \A s \in S : store[s].st # "free",
         \A q \in Requests \ {r} : req'[q] = req[q],
         r \in Requests => req'[r].key = None /\ req'[r].sid = None
  PROVE  Bound' /\ Over' /\ ended' \subseteq Sids
<1> USE DEF IInv
<1>1. \A s \in Sids : /\ store'[s].user = store[s].user
                      /\ store'[s].st = IF s \in S /\ store[s].st = "live" THEN "gone" ELSE store[s].st
  BY Deleted
<1>2. \A s \in Sids : store[s].st # "free" => store'[s].st # "free"
  BY <1>1
<1>3. ASSUME NEW q \in Requests
      PROVE  /\ req'[q].key = req'[q].sid
             /\ req'[q].sid \in Sids =>
                  store'[req'[q].sid].st # "free" /\ store'[req'[q].sid].user = req'[q].user
  <2>1. CASE q = r
    BY <2>1
  <2>2. CASE q # r
    BY <1>1, <1>2, <2>2 DEF Bound
  <2>3. QED
    BY <2>1, <2>2
<1>4. ASSUME NEW s \in ended'
      PROVE  store'[s].st = "gone" /\ \A q \in Requests : req'[q].sid # s
  <2>1. CASE s \in ended
    <3>1. s \in Sids /\ store[s].st = "gone" /\ \A q \in Requests : req[q].sid # s
      BY <2>1 DEF TypeOK, Over
    <3>2. QED
      BY <1>1, <3>1
  <2>2. CASE s \notin ended
    <3>1. s \in S /\ \A q \in Requests \ {r} : req[q].key # s
      BY <1>4, <2>2 DEF Unloaded
    <3>2. store[s].st \in {"free", "live", "gone"}
      <4>1. store[s] \in Entry
        BY <3>1 DEF TypeOK
      <4>2. QED
        BY <4>1 DEF Entry
    <3>3. store'[s].st = "gone"
      BY <1>1, <3>1, <3>2
    <3>4. \A q \in Requests \ {r} : req'[q].sid # s
      BY <3>1 DEF Bound
    <3>5. QED
      BY <3>1, <3>3, <3>4
  <2>3. QED
    BY <2>1, <2>2
<1>5. ended' \subseteq Sids
  BY DEF Unloaded, TypeOK
<1>6. QED
  BY <1>3, <1>4, <1>5 DEF Bound, Over

\* Steps that change no entry, and requests only in other fields.
LEMMA Untouched ==
  ASSUME IInv, UNCHANGED <<store, ended>>,
         \A q \in Requests : /\ req'[q].key = req[q].key /\ req'[q].sid = req[q].sid
                            /\ req'[q].user = req[q].user
  PROVE  Bound' /\ Over'
BY DEF IInv, Bound, Over

-----------------------------------------------------------------------------
LEMMA InitInv == Init => IInv
<1> SUFFICES ASSUME Init PROVE IInv
  OBVIOUS
<1>1. store \in [Sids -> Entry] /\ tokens \in [Tokens -> TokenEntry]
  BY DEF Init, Entry, TokenEntry
<1>2. req \in [Requests -> Session]
  BY NoSessionType DEF Init
<1>3. TypeOK
  BY <1>1, <1>2 DEF Init, TypeOK
<1>4. QED
  BY <1>3 DEF Init, IInv, Bound, Over, NoSession

-----------------------------------------------------------------------------
LEMMA OpenInv == ASSUME IInv, NEW r \in Requests, NEW s \in Sids \cup {None}, Open(r, s) PROVE IInv'
<1> USE DEF IInv
<1>1. CASE s \in Sids /\ Loadable(s) /\ req' = [req EXCEPT ![r] =
             [pc |-> "open", key |-> s, sid |-> s, uid |-> store[s].uid,
              created |-> store[s].created, user |-> store[s].user,
              tok |-> store[s].tok, filled |-> TRUE]]
  <2> DEFINE m == [pc |-> "open", key |-> s, sid |-> s, uid |-> store[s].uid,
                   created |-> store[s].created, user |-> store[s].user,
                   tok |-> store[s].tok, filled |-> TRUE]
  <2>1. store[s] \in Entry
    BY <1>1 DEF TypeOK
  <2>2. m \in Session
    BY <1>1, <2>1 DEF Entry, Session
  <2>3. m.key = s /\ m.sid = s /\ m.user = store[s].user
    OBVIOUS
  <2> HIDE DEF m
  <2>4. req' \in [Requests -> Session] /\ req'[r] = m /\ \A q \in Requests \ {r} : req'[q] = req[q]
    BY <1>1, <2>2, Assigned DEF m
  <2>5. TypeOK'
    BY <2>4 DEF Open, TypeOK
  <2>6. store[s].st = "live" /\ s \notin ended
    BY <1>1 DEF Loadable, Usable, Over
  <2>7. Bound'
    BY <2>3, <2>4, <2>6 DEF Open, Bound
  <2>8. Over'
    BY <2>3, <2>4, <2>6 DEF Open, Over
  <2>9. QED
    BY <2>5, <2>7, <2>8
<1>2. CASE req' = [req EXCEPT ![r] = [NoSession EXCEPT !.pc = "open", !.created = now]]
  <2> DEFINE m == [NoSession EXCEPT !.pc = "open", !.created = now]
  <2>1. m \in Session /\ m.key = None /\ m.sid = None
    BY DEF TypeOK, NoSession, Session
  <2> HIDE DEF m
  <2>2. req' \in [Requests -> Session] /\ req'[r] = m /\ \A q \in Requests \ {r} : req'[q] = req[q]
    BY <1>2, <2>1, Assigned DEF m
  <2>3. TypeOK'
    BY <2>2 DEF Open, TypeOK
  <2>4. Bound'
    BY <2>1, <2>2 DEF Open, Bound
  <2>5. Over'
    BY <2>1, <2>2 DEF Open, Over, TypeOK
  <2>6. QED
    BY <2>3, <2>4, <2>5
<1>3. QED
  BY <1>1, <1>2 DEF Open

LEMMA VisitInv == ASSUME IInv, NEW r \in Requests, Visit(r) PROVE IInv'
<1> USE DEF IInv
<1> DEFINE m == [req[r] EXCEPT !.pc = "done", !.filled = TRUE]
<1>1. req[r] \in Session
  BY DEF TypeOK
<1>2. m \in Session /\ m.key = req[r].key /\ m.sid = req[r].sid /\ m.user = req[r].user
  BY <1>1 DEF Session
<1>3. req' = [req EXCEPT ![r] = m]
  BY <1>1 DEF Visit, TypeOK, Session
<1> HIDE DEF m
<1>4. req' \in [Requests -> Session] /\ req'[r] = m /\ \A q \in Requests \ {r} : req'[q] = req[q]
  BY <1>2, <1>3, Assigned
<1>5. TypeOK'
  BY <1>4 DEF Visit, TypeOK
<1>6. Bound' /\ Over'
  BY <1>2, <1>4, Untouched DEF Visit
<1>7. QED
  BY <1>5, <1>6

\* Login, ProxyLogin and PwChange: sessions end and the request signs in anew.
LEMMA SignIn ==
  ASSUME IInv, NEW r \in Requests, NEW u \in Users, NEW S \in SUBSET Sids,
         \A s \in S : store[s].st # "free",
         store' = Delete(store, S), ended' = ended \cup Unloaded(r, S),
         req' = [req EXCEPT ![r] = Regenerated(r, u)],
         UNCHANGED <<now, tokens>>, outdated' \subseteq Sids
  PROVE  IInv'
<1> USE DEF IInv
<1>1. /\ req' \in [Requests -> Session] /\ req'[r] = Regenerated(r, u)
      /\ \A q \in Requests \ {r} : req'[q] = req[q]
  BY RegeneratedType, Assigned
<1>2. req'[r].key = None /\ req'[r].sid = None
  BY <1>1, RegeneratedType
<1>3. Bound' /\ Over' /\ ended' \subseteq Sids
  BY <1>1, <1>2, Ending
<1>4. store' \in [Sids -> Entry] /\ \A s \in Sids : store'[s].uid = None <=> store'[s].st = "free"
  BY Deleted
<1>5. TypeOK'
  BY <1>1, <1>3, <1>4 DEF TypeOK
<1>6. QED
  BY <1>3, <1>5

\* What a request works on was stored.
LEMMA OwnKeyStored ==
  ASSUME IInv, NEW r \in Requests
  PROVE  OwnKey(r) \in SUBSET Sids /\ \A s \in OwnKey(r) : store[s].st # "free"
BY DEF IInv, OwnKey, Bound

LEMMA LoginInv ==
  ASSUME IInv, NEW r \in Requests, NEW u \in Users, Login(r, u) \/ ProxyLogin(r, u)
  PROVE  IInv'
<1>1. outdated' \subseteq Sids /\ UNCHANGED <<now, tokens>>
  BY DEF Login, ProxyLogin, IInv, TypeOK
<1>2. /\ store' = Delete(store, OwnKey(r)) /\ ended' = ended \cup Unloaded(r, OwnKey(r))
      /\ req' = [req EXCEPT ![r] = Regenerated(r, u)]
  BY DEF Login, ProxyLogin
<1>3. QED
  BY <1>1, <1>2, OwnKeyStored, SignIn

LEMMA PwChangeInv == ASSUME IInv, NEW r \in Requests, PwChange(r) PROVE IInv'
<1> DEFINE S == OwnKey(r) \cup Prefixed(req[r].user)
<1>1. req[r] \in Session
  BY DEF IInv, TypeOK
<1>2. req[r].user \in Users
  BY <1>1 DEF PwChange, Session
<1>3. S \in SUBSET Sids /\ \A s \in S : store[s].st # "free"
  BY OwnKeyStored DEF Prefixed
<1>4. outdated' \subseteq Sids
  BY DEF PwChange, IInv, TypeOK, Unloaded, SessionsOf
<1>5. /\ store' = Delete(store, S) /\ ended' = ended \cup Unloaded(r, S)
      /\ req' = [req EXCEPT ![r] = Regenerated(r, req[r].user)] /\ UNCHANGED <<now, tokens>>
  BY DEF PwChange
<1> HIDE DEF S
<1>6. QED
  BY <1>2, <1>3, <1>4, <1>5, SignIn

LEMMA SetPasswordInv == ASSUME IInv, NEW u \in Users, SetPassword(u) PROVE IInv'
<1> USE DEF IInv
<1>1. Prefixed(u) \in SUBSET Sids /\ \A s \in Prefixed(u) : store[s].st # "free"
  BY DEF Prefixed
<1>2. Bound' /\ Over' /\ ended' \subseteq Sids
  BY <1>1, Ending DEF SetPassword
<1>3. store' \in [Sids -> Entry] /\ \A s \in Sids : store'[s].uid = None <=> store'[s].st = "free"
  BY Deleted DEF SetPassword
<1>4. outdated' \subseteq Sids
  BY DEF SetPassword, TypeOK, Unloaded, SessionsOf
<1>5. TypeOK'
  BY <1>2, <1>3, <1>4 DEF SetPassword, TypeOK
<1>6. QED
  BY <1>2, <1>5

LEMMA WebmailInv == ASSUME IInv, NEW r \in Requests, Webmail(r) PROVE IInv'
<1> USE DEF IInv
<1>1. PICK t \in Tokens :
        /\ tokens' = [tokens EXCEPT ![t] = [st |-> "live", sid |-> req[r].sid, until |-> now + Lifetime]]
        /\ req' = [req EXCEPT ![r].pc = "done", ![r].tok = t]
  BY DEF Webmail
<1> DEFINE m == [req[r] EXCEPT !.pc = "done", !.tok = t]
<1>2. req[r] \in Session
  BY DEF TypeOK
<1>3. m \in Session /\ m.key = req[r].key /\ m.sid = req[r].sid /\ m.user = req[r].user
  BY <1>2 DEF Session
<1>4. req' = [req EXCEPT ![r] = m]
  BY <1>1, <1>2 DEF TypeOK, Session
<1>5. tokens' \in [Tokens -> TokenEntry]
  <2>1. [st |-> "live", sid |-> req[r].sid, until |-> now + Lifetime] \in TokenEntry
    BY <1>2 DEF TypeOK, Session, TokenEntry
  <2>2. QED
    BY <1>1, <2>1 DEF TypeOK
<1> HIDE DEF m
<1>6. req' \in [Requests -> Session] /\ req'[r] = m /\ \A q \in Requests \ {r} : req'[q] = req[q]
  BY <1>3, <1>4, Assigned
<1>7. TypeOK'
  BY <1>5, <1>6 DEF Webmail, TypeOK
<1>8. Bound' /\ Over'
  BY <1>3, <1>6, Untouched DEF Webmail
<1>9. QED
  BY <1>7, <1>8

LEMMA LogoutInv == ASSUME IInv, NEW r \in Requests, Logout(r) PROVE IInv'
<1> USE DEF IInv
<1> DEFINE m == Destroyed
<1>1. m \in Session /\ m.key = None /\ m.sid = None
  BY DEF Destroyed, NoSession, Session
<1>2. req' = [req EXCEPT ![r] = m]
  BY DEF Logout
<1> HIDE DEF m
<1>3. req' \in [Requests -> Session] /\ req'[r] = m /\ \A q \in Requests \ {r} : req'[q] = req[q]
  BY <1>1, <1>2, Assigned
<1>4. Bound' /\ Over' /\ ended' \subseteq Sids
  BY <1>1, <1>3, OwnKeyStored, Ending DEF Logout
<1>5. store' \in [Sids -> Entry] /\ \A s \in Sids : store'[s].uid = None <=> store'[s].st = "free"
  BY Deleted DEF Logout
<1>6. tokens' \in [Tokens -> TokenEntry]
  <2> DEFINE t == req[r].tok
             e == [tokens[t] EXCEPT !.st = "gone", !.sid = None]
  <2>1. tokens \in [Tokens -> TokenEntry] /\ (t \in Tokens \/ t = None)
    BY DEF TypeOK, Session
  <2>2. t # None => e \in TokenEntry
    BY <2>1 DEF TokenEntry
  <2>3. tokens' = IF t = None THEN tokens ELSE [tokens EXCEPT ![t] = e]
    BY DEF Logout
  <2> HIDE DEF t, e
  <2>4. QED
    BY <2>1, <2>2, <2>3
<1>7. TypeOK'
  BY <1>3, <1>4, <1>5, <1>6 DEF Logout, TypeOK
<1>8. QED
  BY <1>4, <1>7

\* What save_session does to the store: one entry, that of the session itself
\* or one never used.
LEMMA FinishStore ==
  ASSUME IInv, NEW r \in Requests, Finish(r)
  PROVE  /\ tokens' \in [Tokens -> TokenEntry]
         /\ store' \in [Sids -> Entry]
         /\ \A s \in Sids : store'[s].uid = None <=> store'[s].st = "free"
         /\ \A s \in Sids : \/ store'[s] = store[s]
                            \/ store[s].st = "free" /\ store'[s].st = "live"
                            \/ s = req[r].sid /\ store'[s].st = "live" /\ store'[s].user = req[r].user
<1> USE DEF IInv
<1> DEFINE m == req[r]
           saved == Saved(m)
<1>1. m \in Session
  BY DEF TypeOK
<1>2. SavedUid(m) \in Users \cup {Anon} /\ SavedUid(m) # None
  BY <1>1 DEF SavedUid, Session
<1>3. saved \in Entry
  BY <1>1, <1>2 DEF Saved, TypeOK, Session, Entry
<1>4. saved.uid # None /\ saved.st = "live" /\ saved.user = m.user
  BY <1>2 DEF Saved
<1>5. \A s \in Sids : store[s].uid = None <=> store[s].st = "free"
  BY DEF TypeOK
<1>6. CASE UNCHANGED <<store, tokens>>
  BY <1>5, <1>6 DEF TypeOK
<1>7. CASE m.sid # None /\ store' = [store EXCEPT ![m.sid] = saved] /\ UNCHANGED tokens
  <2>1. m.sid \in Sids
    BY <1>1, <1>7 DEF Session
  <2> HIDE DEF m, saved
  <2>2. store' \in [Sids -> Entry] /\ store'[m.sid] = saved
        /\ \A s \in Sids : s # m.sid => store'[s] = store[s]
    BY <1>3, <1>7, <2>1 DEF TypeOK
  <2>3. QED
    BY <1>4, <1>5, <1>7, <2>2 DEF TypeOK, m
<1>8. ASSUME NEW s \in Sids, store[s].st = "free", store' = [store EXCEPT ![s] = saved],
             tokens' = IF m.tok = None THEN tokens
                       ELSE [tokens EXCEPT ![m.tok] =
                               [st |-> "live", sid |-> s, until |-> now + Lifetime]]
      PROVE  /\ tokens' \in [Tokens -> TokenEntry]
             /\ store' \in [Sids -> Entry]
             /\ \A q \in Sids : store'[q].uid = None <=> store'[q].st = "free"
             /\ \A q \in Sids : store'[q] = store[q] \/ (store[q].st = "free" /\ store'[q].st = "live")
  <2>1. [st |-> "live", sid |-> s, until |-> now + Lifetime] \in TokenEntry
    BY DEF TypeOK, TokenEntry
  <2>2. tokens' \in [Tokens -> TokenEntry]
    BY <1>8, <2>1 DEF TypeOK
  <2> HIDE DEF m, saved
  <2>3. store' \in [Sids -> Entry] /\ store'[s] = saved /\ \A q \in Sids : q # s => store'[q] = store[q]
    BY <1>3, <1>8 DEF TypeOK
  <2>4. QED
    BY <1>4, <1>5, <1>8, <2>2, <2>3
<1>9. QED
  <2>1. \/ UNCHANGED <<store, tokens>>
        \/ m.sid # None /\ store' = [store EXCEPT ![m.sid] = saved] /\ UNCHANGED tokens
        \/ \E s \in Sids : /\ store[s].st = "free" /\ store' = [store EXCEPT ![s] = saved]
                           /\ tokens' = IF m.tok = None THEN tokens
                                        ELSE [tokens EXCEPT ![m.tok] =
                                                [st |-> "live", sid |-> s, until |-> now + Lifetime]]
    BY DEF Finish
  <2> HIDE DEF m, saved
  <2>2. QED
    BY <1>6, <1>7, <1>8, <2>1

LEMMA FinishInv == ASSUME IInv, NEW r \in Requests, Finish(r) PROVE IInv'
<1> USE DEF IInv
<1>1. req' \in [Requests -> Session] /\ req'[r] = NoSession /\ \A q \in Requests \ {r} : req'[q] = req[q]
  BY NoSessionType, Assigned DEF Finish
<1>2. UNCHANGED <<now, ended, outdated>>
  BY DEF Finish
<1>3. TypeOK'
  BY <1>1, <1>2, FinishStore DEF TypeOK
<1>4. req'[r].key = None /\ req'[r].sid = None
  BY <1>1 DEF NoSession
<1>5. \A s \in Sids : store[s].st # "free" => store'[s].st # "free" /\ store'[s].user = store[s].user
  BY FinishStore DEF Bound
<1>6. Bound'
  BY <1>1, <1>4, <1>5 DEF Bound
<1>7. Over'
  <2>1. ASSUME NEW s \in ended PROVE store'[s].st = "gone" /\ \A q \in Requests : req'[q].sid # s
    <3>1. s \in Sids /\ store[s].st = "gone" /\ \A q \in Requests : req[q].sid # s
      BY DEF TypeOK, Over
    <3>2. store'[s] = store[s]
      BY <3>1, FinishStore
    <3>3. QED
      BY <1>1, <1>4, <3>1, <3>2
  <2>2. QED
    BY <1>2, <2>1 DEF Over
<1>8. QED
  BY <1>3, <1>6, <1>7

LEMMA CleanupInv == ASSUME IInv, Cleanup PROVE IInv'
<1> USE DEF IInv
<1> DEFINE S == {s \in Sids : ~Valid(s)}
<1>1. store' = Delete(store, S)
  BY DEF Cleanup
<1>2. tokens' \in [Tokens -> TokenEntry]
  <2>1. ASSUME NEW t \in Tokens PROVE [tokens[t] EXCEPT !.st = "gone", !.sid = None] \in TokenEntry
    <3>1. tokens[t] \in TokenEntry
      BY DEF TypeOK
    <3>2. QED
      BY <3>1 DEF TokenEntry
  <2>2. \A t \in Tokens : tokens[t] \in TokenEntry
    BY DEF TypeOK
  <2>3. QED
    BY <2>1, <2>2 DEF Cleanup
<1> HIDE DEF S
<1>3. /\ store' \in [Sids -> Entry]
      /\ \A s \in Sids : store'[s].uid = None <=> store'[s].st = "free"
      /\ \A s \in Sids : /\ store'[s].user = store[s].user
                         /\ store'[s].st = IF s \in S /\ store[s].st = "live" THEN "gone"
                                           ELSE store[s].st
  BY <1>1, Deleted
<1>4. TypeOK'
  BY <1>2, <1>3 DEF Cleanup, TypeOK
<1>5. Bound'
  BY <1>3 DEF Cleanup, Bound
<1>6. Over'
  <2>1. UNCHANGED <<req, ended>> /\ ended \subseteq Sids
    BY DEF Cleanup, TypeOK
  <2>2. QED
    BY <1>3, <2>1 DEF Over
<1>7. QED
  BY <1>4, <1>5, <1>6

LEMMA InvStep == IInv /\ [Next]_vars => IInv'
<1> SUFFICES ASSUME IInv, [Next]_vars PROVE IInv'
  OBVIOUS
<1>1. CASE Tick
  BY <1>1 DEF Tick, IInv, TypeOK, Bound, Over
<1>2. CASE UNCHANGED vars
  BY <1>2 DEF vars, IInv, TypeOK, Bound, Over
<1>3. QED
  BY <1>1, <1>2, CleanupInv, SetPasswordInv, OpenInv, VisitInv, LoginInv, PwChangeInv, WebmailInv,
     LogoutInv, FinishInv DEF Next

LEMMA Invariant == Spec => []IInv
BY InitInv, InvStep, PTL DEF Spec

-----------------------------------------------------------------------------
\* The types, for any sets of users, session ids, webmail tokens and requests.
THEOREM TypeCorrect == Spec => []TypeOK
<1>1. IInv => TypeOK
  BY DEF IInv
<1>2. QED
  BY <1>1, Invariant, PTL

\* A session that a logout, a login, a password change or a prune deleted
\* while no other request was working on it is never in the store again,
\* however many requests overlap.
THEOREM EndedForGood == Spec => []EndedStaysGone
<1>1. IInv => EndedStaysGone
  BY DEF IInv, Over, EndedStaysGone
<1>2. QED
  BY <1>1, Invariant, PTL

\* A session id never changes hands: whatever requests of one browser overlap
\* with a sign-in, an id handed out before it is not signed in.
THEOREM IdentityKept == Spec => KeyKeepsUser
<1> DEFINE Keeps == \A s \in Sids : store[s].st # "free" => store'[s].user = store[s].user
<1>1. ASSUME IInv, [Next]_vars PROVE Keeps \/ UNCHANGED vars
  <2>1. ASSUME NEW S, store' = Delete(store, S) PROVE Keeps
    BY <1>1, <2>1, Deleted DEF IInv
  <2>2. CASE UNCHANGED store
    BY <2>2
  <2>3. ASSUME NEW r \in Requests, Finish(r) PROVE Keeps
    BY <1>1, <2>3, FinishStore DEF IInv, Bound
  <2>4. ASSUME NEW r \in Requests,
               \/ \E u \in Users : Login(r, u) \/ ProxyLogin(r, u)
               \/ PwChange(r) \/ Logout(r)
        PROVE  \E S : store' = Delete(store, S)
    BY <2>4 DEF Login, ProxyLogin, PwChange, Logout
  <2>5. ASSUME \E u \in Users : SetPassword(u) PROVE \E S : store' = Delete(store, S)
    BY <2>5 DEF SetPassword
  <2>6. ASSUME Cleanup PROVE \E S : store' = Delete(store, S)
    BY <2>6 DEF Cleanup
  <2>7. ASSUME NEW r \in Requests, (\E s \in Sids \cup {None} : Open(r, s)) \/ Visit(r) \/ Webmail(r)
        PROVE  UNCHANGED store
    BY <2>7 DEF Open, Visit, Webmail
  <2>8. Tick => UNCHANGED store
    BY DEF Tick
  <2> HIDE DEF Keeps
  <2>9. QED
    BY <1>1, <2>1, <2>2, <2>3, <2>4, <2>5, <2>6, <2>7, <2>8 DEF Next
<1>2. QED
  BY <1>1, Invariant, PTL DEF Spec, KeyKeepsUser
=============================================================================
