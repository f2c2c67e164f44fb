------------------------------ MODULE Sessions ------------------------------
(***************************************************************************)
(* Server-side web sessions (core/admin/mailu/utils.py): the session store *)
(* in Redis, the copy each request works on between open_session and       *)
(* save_session, and the webmail tokens that stand for a session.          *)
(*                                                                         *)
(* A key is uid + sid + created; the random sid is drawn once, so the sid  *)
(* stands for its key.  A deleted entry keeps its last content as history. *)
(* A client can present any cookie it was ever sent.                       *)
(***************************************************************************)
EXTENDS Integers

CONSTANTS
  Users, Sids, Tokens, Requests,
  None,      \* no user, no session, no token
  Anon,      \* gen_uid(''): the uid of a session saved before any login
  Timeout,   \* SESSION_TIMEOUT: TTL of a stored session
  Lifetime,  \* PERMANENT_SESSION_LIFETIME: age at which a key is refused
  MaxTime    \* bound on the clock

ASSUME SessionConstants ==
  /\ Timeout \in Nat \ {0} /\ Lifetime \in Nat \ {0} /\ MaxTime \in Nat
  /\ None \notin Users \cup Sids \cup Tokens \cup Requests
  /\ Anon \notin Users /\ Anon # None

VARIABLES
  now,
  store,   \* session_store, the sessions: per sid its entry
  tokens,  \* session_store, the "token-" keys: per token the session it names
  req,     \* per request: its MailuSession
  ended,   \* history: sids deleted while no other request had them loaded
  outdated \* history: sids of an account when its password was set, likewise

vars == <<now, store, tokens, req, ended, outdated>>

Entry == [st : {"free", "live", "gone"}, uid : Users \cup {Anon, None},
          created : Nat, user : Users \cup {None}, tok : Tokens \cup {None}, until : Nat]

TokenEntry == [st : {"free", "live", "gone"}, sid : Sids \cup {None}, until : Nat]

Session == [pc : {"idle", "open", "done"}, key : Sids \cup {None}, sid : Sids \cup {None},
            uid : Users \cup {Anon, None}, created : Nat, user : Users \cup {None},
            tok : Tokens \cup {None}, filled : BOOLEAN]

NoSession == [pc |-> "idle", key |-> None, sid |-> None, uid |-> None, created |-> 0,
              user |-> None, tok |-> None, filled |-> FALSE]

-----------------------------------------------------------------------------
(* The store.                                                              *)

\* MailuSessionConfig.parse_key accepts the key, and Redis still has it.
Valid(s) == store[s].created <= now /\ now <= store[s].created + Lifetime
Usable(s) == store[s].st = "live" /\ now < store[s].until /\ Valid(s)

Delete(f, S) == [s \in Sids |-> IF s \in S /\ f[s].st = "live" THEN [f[s] EXCEPT !.st = "gone"]
                                ELSE f[s]]

\* The keys of S that no request other than r works on.
Unloaded(r, S) == {s \in S : \A q \in Requests \ {r} : req[q].key # s}

OwnKey(r) == {req[r].key} \cap Sids

\* prune_sessions(uid): `keep` never matches, it holds names of session fields.
Prefixed(u) == {s \in Sids : store[s].st = "live" /\ store[s].uid = u}

SessionsOf(u) == {s \in Sids : Usable(s) /\ store[s].user = u}

\* Mutant: the session id is kept across the login.
Regenerated_Not(r, u) == [req[r] EXCEPT !.pc = "done", !.user = u, !.filled = TRUE]

\* MailuSession.regenerate, then login_user(u).
Regenerated(r, u) ==
  [req[r] EXCEPT !.pc = "done", !.key = None, !.sid = None, !.user = u, !.filled = TRUE]

-----------------------------------------------------------------------------
Init ==
  /\ now = 0
  /\ store = [s \in Sids |-> [st |-> "free", uid |-> None, created |-> 0, user |-> None,
                              tok |-> None, until |-> 0]]
  /\ tokens = [t \in Tokens |-> [st |-> "free", sid |-> None, until |-> 0]]
  /\ req = [r \in Requests |-> NoSession]
  /\ ended = {}
  /\ outdated = {}

Tick ==
  /\ now < MaxTime
  /\ now' = now + 1
  /\ UNCHANGED <<store, tokens, req, ended, outdated>>

\* Mutant: a well-formed cookie is adopted although the store has no such session.
Loadable_Adopt(s) == store[s].st # "free" /\ Valid(s)

\* MailuSession.__init__: the store has the session the cookie names.
Loadable(s) == Usable(s)

\* open_session with cookie s, or with none or an unknown one.
Open(r, s) ==
  /\ req[r].pc = "idle"
  /\ \/ /\ s \in Sids /\ Loadable(s)
        /\ req' = [req EXCEPT ![r] =
             [pc |-> "open", key |-> s, sid |-> s, uid |-> store[s].uid,
              created |-> store[s].created, user |-> store[s].user,
              tok |-> store[s].tok, filled |-> TRUE]]
     \/ /\ s = None \/ (s \in Sids /\ store[s].st # "free" /\ ~Loadable(s))
        /\ req' = [req EXCEPT ![r] = [NoSession EXCEPT !.pc = "open", !.created = now]]
  /\ UNCHANGED <<now, store, tokens, ended, outdated>>

\* A page that stores something in the session (the login page does).
Visit(r) ==
  /\ req[r].pc = "open"
  /\ req' = [req EXCEPT ![r].pc = "done", ![r].filled = TRUE]
  /\ UNCHANGED <<now, store, tokens, ended, outdated>>

\* login() and the passkey login: signed-in users are sent away before.
Login(r, u) ==
  /\ req[r].pc = "open"
  /\ req[r].user = None
  /\ store' = Delete(store, OwnKey(r))
  /\ ended' = ended \cup Unloaded(r, OwnKey(r))
  /\ req' = [req EXCEPT ![r] = Regenerated(r, u)]
  /\ UNCHANGED <<now, tokens, outdated>>

\* _proxy(): the identity comes from a header, whoever was signed in.
ProxyLogin(r, u) ==
  /\ req[r].pc = "open"
  /\ req[r].user # None
  /\ store' = Delete(store, OwnKey(r))
  /\ ended' = ended \cup Unloaded(r, OwnKey(r))
  /\ req' = [req EXCEPT ![r] = Regenerated(r, u)]
  /\ UNCHANGED <<now, tokens, outdated>>

\* pw_change() and _process_password_change() for one's own account.
PwChange(r) ==
  LET S == OwnKey(r) \cup Prefixed(req[r].user)
  IN  /\ req[r].pc = "open"
      /\ req[r].user # None
      /\ store' = Delete(store, S)
      /\ ended' = ended \cup Unloaded(r, S)
      /\ outdated' = outdated \cup Unloaded(r, SessionsOf(req[r].user))
      /\ req' = [req EXCEPT ![r] = Regenerated(r, req[r].user)]
      /\ UNCHANGED <<now, tokens>>

\* set_password by the API, the command line or the account setup page.
SetPassword(u) ==
  /\ store' = Delete(store, Prefixed(u))
  /\ ended' = ended \cup Unloaded(None, Prefixed(u))
  /\ outdated' = outdated \cup Unloaded(None, SessionsOf(u))
  /\ UNCHANGED <<now, tokens, req>>

\* user_authentication -> gen_temp_token: the token is stored at once, the
\* session only when the request ends.
Webmail(r) ==
  /\ req[r].pc = "open"
  /\ req[r].user # None
  /\ \E t \in Tokens :
       /\ IF req[r].tok # None THEN t = req[r].tok ELSE tokens[t].st = "free"
       /\ tokens' = [tokens EXCEPT ![t] = [st |-> "live", sid |-> req[r].sid,
                                           until |-> now + Lifetime]]
       /\ req' = [req EXCEPT ![r].pc = "done", ![r].tok = t]
  /\ UNCHANGED <<now, store, ended, outdated>>

\* MailuSession.destroy: an emptied session without a key.
Destroyed == [NoSession EXCEPT !.pc = "done"]

Logout(r) ==
  /\ req[r].pc = "open"
  /\ req[r].user # None
  /\ store' = Delete(store, OwnKey(r))
  /\ ended' = ended \cup Unloaded(r, OwnKey(r))
  /\ tokens' = IF req[r].tok = None THEN tokens
               ELSE [tokens EXCEPT ![req[r].tok].st = "gone", ![req[r].tok].sid = None]
  /\ req' = [req EXCEPT ![r] = Destroyed]
  /\ UNCHANGED <<now, outdated>>

\* The uid of a key is computed once, from the user of that moment.
SavedUid(m) == IF m.uid # None THEN m.uid ELSE IF m.user = None THEN Anon ELSE m.user

\* MailuSession.save: what is put in the store, for the TTL of a session.
Saved(m) == [st |-> "live", uid |-> SavedUid(m), created |-> m.created, user |-> m.user,
             tok |-> m.tok, until |-> now + Timeout]

\* save_session: an empty session is not stored; any other is, under its own key
\* or under a fresh one, which also becomes the session its webmail token names.
Finish(r) ==
  LET m == req[r]
  IN  /\ m.pc \in {"open", "done"}
      /\ \/ /\ ~m.filled
            /\ UNCHANGED <<store, tokens>>
         \/ /\ m.filled /\ m.sid # None
            /\ store' = [store EXCEPT ![m.sid] = Saved(m)]
            /\ UNCHANGED tokens
         \/ /\ m.filled /\ m.sid = None
            /\ \E s \in Sids :
                 /\ store[s].st = "free"
                 /\ store' = [store EXCEPT ![s] = Saved(m)]
                 /\ tokens' = IF m.tok = None THEN tokens
                              ELSE [tokens EXCEPT ![m.tok] =
                                      [st |-> "live", sid |-> s, until |-> now + Lifetime]]
      /\ req' = [req EXCEPT ![r] = NoSession]
      /\ UNCHANGED <<now, ended, outdated>>

\* cleanup_sessions, when a worker starts: keys past their lifetime, and tokens
\* that name such keys.
Cleanup ==
  /\ store' = Delete(store, {s \in Sids : ~Valid(s)})
  /\ tokens' = [t \in Tokens |->
       IF tokens[t].sid # None /\ ~Valid(tokens[t].sid)
       THEN [tokens[t] EXCEPT !.st = "gone", !.sid = None] ELSE tokens[t]]
  /\ UNCHANGED <<now, req, ended, outdated>>

Next ==
  \/ Tick
  \/ Cleanup
  \/ \E u \in Users : SetPassword(u)
  \/ \E r \in Requests :
       \/ \E s \in Sids \cup {None} : Open(r, s)
       \/ \E u \in Users : Login(r, u) \/ ProxyLogin(r, u)
       \/ Visit(r) \/ PwChange(r) \/ Webmail(r) \/ Logout(r) \/ Finish(r)

Spec == Init /\ [][Next]_vars

-----------------------------------------------------------------------------
(* Properties.                                                             *)

\* Every variable stays in its type, and every stored key has a uid.
TypeOK ==
  /\ now \in Nat
  /\ store \in [Sids -> Entry] /\ \A s \in Sids : store[s].uid = None <=> store[s].st = "free"
  /\ tokens \in [Tokens -> TokenEntry]
  /\ req \in [Requests -> Session]
  /\ ended \subseteq Sids /\ outdated \subseteq Sids

\* A session id belongs to one identity: an id handed out before a sign-in (or
\* under another identity) never becomes a signed-in session, whatever requests
\* of the same browser overlap with the login.
KeyKeepsUser ==
  [][\A s \in Sids : store[s].st # "free" => store'[s].user = store[s].user]_vars

\* A session that a logout, a login, a password change or a prune deleted while
\* no other request was working on it is never in the store again.
EndedStaysGone == \A s \in ended : store[s].st # "live"

\* "Set password for user and destroy all web sessions except those in
\* keep_sessions": a session the user had when the password was set, and that no
\* other request was working on, is over.
PasswordEndsSessions == \A s \in outdated : store[s].st # "live"
=============================================================================
