--------------------------- MODULE RateLimitProofs ---------------------------
(***************************************************************************)
(* For any number of workers, addresses, accounts and cookies, and any     *)
(* limits: the types of RateLimit, that a device cookie keeps its owner    *)
(* out of the limits that others fill, that a successful login exempts its *)
(* address, and how many passwords of an account are answered in a window. *)
(***************************************************************************)
EXTENDS RateLimit, FiniteSetTheorems, TLAPS

\* What a worker has in hand fits the place where it stands.
WorkOK ==
  \A w \in Workers :
    /\ work[w].pc # "idle" => work[w].a \in Attempts
    /\ work[w].pc \in {"guess", "hit"} => work[w].a.name \in Accounts /\ work[w].a.pw \in Guesses

\* A cookie that never came with a failure has no hits, and none is on its way.
CookieClean ==
  /\ \A c \in Cookies \ misused : \A i \in 1..UserLimit : userHits[c][i] = UserWindow
  /\ \A w \in Workers : work[w].pc \in {"guess", "hit"} /\ work[w].a.cookie # None
                          => work[w].a.cookie \in misused

IInv == TypeOK /\ WorkOK /\ CookieClean

WorkRec == [pc : {"idle", "refused", "user", "guess", "hit", "ip", "iphit", "clear", "incr"},
            a : Attempts \cup {None}]

\* Worker w goes on to v: with an attempt of the instance unless it is done, and to
\* count a failure only when it is counting one already.
Moves(w, v) ==
  /\ v \in WorkRec
  /\ work' = [work EXCEPT ![w] = v]
  /\ v.pc # "idle" => v.a \in Attempts
  /\ v.pc \in {"guess", "hit"} => work[w].pc \in {"guess", "hit"} /\ v.a = work[w].a

\* The constants are what limiter.py parses: positive limits, windows and lifetimes.
LEMMA Positive ==
  /\ UserLimit \in Nat \ {0} /\ UserWindow \in Nat \ {0} /\ UserDedup \in Nat \ {0}
  /\ IpLimit \in Nat \ {0} /\ IpWindow \in Nat \ {0} /\ IpDedup \in Nat \ {0}
  /\ Exemption \in Nat \ {0}
BY LimitConstants

\* A hit keeps the list of ages, its type and its order (limits, hit()).
LEMMA PushedAges ==
  ASSUME NEW limit \in Nat \ {0}, NEW window \in Nat \ {0}, NEW h \in Ages(limit, window)
  PROVE  /\ Pushed(h, limit, window) \in Ages(limit, window)
         /\ (\A i \in 1..limit - 1 : h[i] <= h[i + 1])
              => \A i \in 1..limit - 1 :
                   Pushed(h, limit, window)[i] <= Pushed(h, limit, window)[i + 1]
<1> DEFINE g == [i \in 1..limit |-> IF i = 1 THEN 0 ELSE h[i - 1]]
<1>1. h \in [1..limit -> 0..window]
  BY DEF Ages
<1>2. g \in [1..limit -> 0..window]
  BY <1>1
<1>3. ASSUME \A i \in 1..limit - 1 : h[i] <= h[i + 1], NEW i \in 1..limit - 1
      PROVE  g[i] <= g[i + 1]
  BY <1>1, <1>3
<1>4. Pushed(h, limit, window) = h \/ Pushed(h, limit, window) = g
  BY DEF Pushed
<1> HIDE DEF g
<1>5. QED
  BY <1>1, <1>2, <1>3, <1>4 DEF Ages

\* Time ages a hit within its window.
LEMMA OlderAges ==
  ASSUME NEW window \in Nat, NEW x \in 0..window, NEW y \in 0..window
  PROVE  Older(x, window) \in 0..window /\ (x <= y => Older(x, window) <= Older(y, window))
BY DEF Older

\* A marker's remaining life stays within its lifetime.
LEMMA Lives ==
  ASSUME NEW ttl \in Nat \ {0}, NEW x \in 0..ttl
  PROVE  Less(x) \in 0..ttl /\ Incremented(x, ttl) \in 0..ttl
BY DEF Less, Incremented

\* The bucket of an attempt is its name or, for the owner, its cookie.
LEMMA BucketIs ==
  ASSUME NEW a \in Attempts, a.name \in Accounts
  PROVE  /\ Bucket(a) \in Buckets
         /\ \A c \in Cookies : Bucket(a) = c => a.cookie = c /\ a.cookie # None
BY LimitConstants DEF Bucket, Buckets, Names, Attempt

-----------------------------------------------------------------------------
\* The first state satisfies the invariant.
LEMMA InitInv == Init => IInv
<1> SUFFICES ASSUME Init PROVE IInv
  OBVIOUS
<1> USE Positive
<1>1. TypeOK
  BY LimitConstants DEF Init, TypeOK, NoHits, Ages, Idle
<1>2. WorkOK /\ CookieClean
  BY DEF Init, WorkOK, CookieClean, NoHits, Idle, Buckets
<1>3. QED
  BY <1>1, <1>2 DEF IInv

\* Time passing keeps the invariant.
LEMMA TickInv ==
  ASSUME IInv, Tick
  PROVE  IInv'
<1> USE Positive
<1>1. TypeOK'
  <2>1. /\ userHits' \in [Buckets -> Ages(UserLimit, UserWindow)]
        /\ \A b \in Buckets : \A i \in 1..UserLimit - 1 : userHits'[b][i] <= userHits'[b][i + 1]
    <3>1. userHits' \in [Buckets -> Ages(UserLimit, UserWindow)]
      <4>1. ASSUME NEW b \in Buckets, NEW i \in 1..UserLimit
            PROVE  Older(userHits[b][i], UserWindow) \in 0..UserWindow
        <5>1. userHits[b][i] \in 0..UserWindow
          BY DEF IInv, TypeOK, Ages
        <5>2. QED
          BY <5>1, OlderAges
      <4>2. QED
        BY <4>1 DEF Tick, Ages
    <3>2. ASSUME NEW b \in Buckets, NEW i \in 1..UserLimit - 1
          PROVE  userHits'[b][i] <= userHits'[b][i + 1]
      <4>1. /\ i \in 1..UserLimit /\ i + 1 \in 1..UserLimit
            /\ userHits[b][i] <= userHits[b][i + 1]
            /\ userHits[b] \in [1..UserLimit -> 0..UserWindow]
        BY <3>2 DEF IInv, TypeOK, Ages
      <4>2. /\ userHits'[b][i] = Older(userHits[b][i], UserWindow)
            /\ userHits'[b][i + 1] = Older(userHits[b][i + 1], UserWindow)
        BY <3>2, <4>1 DEF Tick
      <4>3. QED
        BY <4>1, <4>2, OlderAges
    <3>3. QED
      BY <3>1, <3>2
  <2>2. ipHits' \in [Nets -> Ages(IpLimit, IpWindow)]
    <3>1. ASSUME NEW n \in Nets, NEW i \in 1..IpLimit
          PROVE  Older(ipHits[n][i], IpWindow) \in 0..IpWindow
      <4>1. ipHits[n][i] \in 0..IpWindow
        BY DEF IInv, TypeOK, Ages
      <4>2. QED
        BY <4>1, OlderAges
    <3>2. QED
      BY <3>1 DEF Tick, Ages
  <2>3. /\ dedup2' \in [Accounts -> [Guesses -> 0..UserDedup]]
        /\ dedup' \in [Nets -> [Names -> 0..IpDedup]]
        /\ exempt' \in [Ips -> 0..Exemption] /\ granted' \in [Ips -> 0..Exemption]
    BY Lives DEF IInv, TypeOK, Tick
  <2>4. seen' \in [Accounts -> [Guesses -> 0..UserWindow \cup {None}]]
    BY OlderAges DEF IInv, TypeOK, Tick
  <2>5. QED
    BY <2>1, <2>2, <2>3, <2>4 DEF IInv, TypeOK, Tick
<1>2. WorkOK'
  BY DEF IInv, WorkOK, Tick
<1>3. CookieClean'
  <2>1. ASSUME NEW c \in Cookies \ misused, NEW i \in 1..UserLimit
        PROVE  userHits'[c][i] = UserWindow
    <3>1. userHits[c][i] = UserWindow /\ c \in Buckets
      BY <2>1 DEF IInv, CookieClean, Buckets
    <3>2. QED
      BY <3>1 DEF Tick, Older
  <2>2. QED
    BY <2>1 DEF IInv, CookieClean, Tick
<1>4. QED
  BY <1>1, <1>2, <1>3 DEF IInv

\* A worker's move keeps what it has in hand fitting.
LEMMA MoveInv ==
  ASSUME IInv, NEW w \in Workers, NEW v, Moves(w, v), misused' = misused
  PROVE  /\ work' \in [Workers -> WorkRec]
         /\ WorkOK'
         /\ \A q \in Workers : work'[q].pc \in {"guess", "hit"} /\ work'[q].a.cookie # None
                                 => work'[q].a.cookie \in misused'
<1>1. work \in [Workers -> WorkRec]
  BY DEF IInv, TypeOK, WorkRec
<1>2. work' \in [Workers -> WorkRec]
  BY <1>1 DEF Moves
<1>3. \A q \in Workers : work'[q] = IF q = w THEN v ELSE work[q]
  BY <1>1 DEF Moves
<1>4. WorkOK'
  BY <1>3 DEF IInv, WorkOK, Moves
<1>5. \A q \in Workers : work'[q].pc \in {"guess", "hit"} /\ work'[q].a.cookie # None
                           => work'[q].a.cookie \in misused'
  BY <1>3 DEF IInv, CookieClean, Moves
<1>6. QED
  BY <1>2, <1>4, <1>5

\* Going on at pc with the same attempt, and being done, are moves.
LEMMA AtMoves ==
  ASSUME IInv, NEW w \in Workers
  PROVE  /\ \A pc \in {"refused", "ip", "iphit", "clear", "incr"} :
              work' = At(w, pc) /\ work[w].pc # "idle" => \E v : Moves(w, v)
         /\ work' = At(w, "hit") /\ work[w].pc = "guess" => \E v : Moves(w, v)
         /\ work' = [work EXCEPT ![w] = Idle] => \E v : Moves(w, v)
<1>1. work[w] \in WorkRec /\ (work[w].pc # "idle" => work[w].a \in Attempts)
  BY DEF IInv, TypeOK, WorkOK, WorkRec
<1>2. ASSUME NEW pc \in {"refused", "ip", "iphit", "clear", "incr"},
             work' = At(w, pc), work[w].pc # "idle"
      PROVE  Moves(w, [work[w] EXCEPT !.pc = pc])
  BY <1>1, <1>2 DEF Moves, At, WorkRec
<1>3. ASSUME work' = At(w, "hit"), work[w].pc = "guess"
      PROVE  Moves(w, [work[w] EXCEPT !.pc = "hit"])
  BY <1>1, <1>3 DEF Moves, At, WorkRec
<1>4. ASSUME work' = [work EXCEPT ![w] = Idle]
      PROVE  Moves(w, Idle)
  BY <1>4 DEF Moves, Idle, WorkRec
<1>5. QED
  BY <1>2, <1>3, <1>4

\* The steps that only look at the limits keep the invariant.
LEMMA LookInv ==
  ASSUME IInv, NEW w \in Workers, UNCHANGED <<limits, owner, misused, granted>>,
         seen' \in [Accounts -> [Guesses -> 0..UserWindow \cup {None}]],
         \/ \E a \in Attempts : Arrive(w, a)
         \/ Refuse(w) \/ CountGuess(w) \/ CountIp(w)
  PROVE  IInv'
<1>1. \E v : Moves(w, v)
  <2>1. ASSUME NEW a \in Attempts, Arrive(w, a)
        PROVE  \E v : Moves(w, v)
    <3> DEFINE pc == IF a.door = "port25" THEN "ip"
                     ELSE IF ChecksIp(a) /\ exempt[a.ip] = 0 /\ IpFull(NetOf[a.ip])
                          THEN "refused" ELSE "user"
    <3>1. work' = [work EXCEPT ![w] = [a |-> a, pc |-> pc]]
      BY <2>1 DEF Arrive
    <3>2. pc \in {"ip", "refused", "user"}
      OBVIOUS
    <3> HIDE DEF pc
    <3>3. Moves(w, [a |-> a, pc |-> pc])
      BY <3>1, <3>2 DEF Moves, WorkRec
    <3>4. QED
      BY <3>3
  <2>2. ASSUME Refuse(w) \/ CountGuess(w) \/ CountIp(w)
        PROVE  \E v : Moves(w, v)
    BY <2>2, AtMoves DEF Refuse, CountGuess, CountIp
  <2>3. QED
    BY <2>1, <2>2
<1>2. /\ work' \in [Workers -> WorkRec] /\ WorkOK'
      /\ \A q \in Workers : work'[q].pc \in {"guess", "hit"} /\ work'[q].a.cookie # None
                              => work'[q].a.cookie \in misused'
  BY <1>1, MoveInv
<1>3. TypeOK'
  BY <1>2 DEF IInv, TypeOK, WorkRec, limits
<1>4. CookieClean'
  BY <1>2 DEF IInv, CookieClean, limits
<1>5. QED
  BY <1>2, <1>3, <1>4 DEF IInv

\* Answering an attempt keeps the invariant.
LEMMA AnswerInv ==
  ASSUME IInv, NEW w \in Workers, Accept(w) \/ Fail(w)
  PROVE  IInv'
<1> USE Positive
<1>0. work[w].a \in Attempts /\ work[w].a \in Attempt
  BY LimitConstants DEF IInv, WorkOK, Accept, CredentialsOk, Fail, Blamed, CredentialsOk
<1>1. CASE Accept(w)
  <2>1. work[w].a.door = "web" => work[w].a.name \in Accounts
    BY <1>0, <1>1, LimitConstants DEF Accept, CredentialsOk, Attempt, Names
  <2>2. \E v : Moves(w, v)
    BY <1>1, AtMoves DEF Accept, CredentialsOk
  <2>3. /\ work' \in [Workers -> WorkRec] /\ WorkOK'
        /\ \A q \in Workers : work'[q].pc \in {"guess", "hit"} /\ work'[q].a.cookie # None
                                => work'[q].a.cookie \in misused'
    BY <1>1, <2>2, MoveInv DEF Accept, CredentialsOk
  <2>4. owner' \in [Cookies -> Accounts \cup {None}]
    BY <1>1, <2>1 DEF IInv, TypeOK, Accept, CredentialsOk
  <2>5. TypeOK'
    BY <1>1, <2>3, <2>4 DEF IInv, TypeOK, WorkRec, Accept, CredentialsOk, limits
  <2>6. CookieClean'
    BY <1>1, <2>3 DEF IInv, CookieClean, Accept, CredentialsOk, limits
  <2>7. QED
    BY <2>3, <2>5, <2>6 DEF IInv
<1>2. CASE Fail(w)
  <2>1. work[w].a.name \in Accounts => work[w].a.pw \in Guesses
    BY <1>0, <1>2, LimitConstants DEF Fail, Blamed, CredentialsOk, Attempt
  <2>2. seen' \in [Accounts -> [Guesses -> 0..UserWindow \cup {None}]]
    BY <1>2, <2>1 DEF IInv, TypeOK, Fail, Blamed, CredentialsOk
  <2>3. TypeOK'
    BY <1>0, <1>2, <2>2 DEF IInv, TypeOK, Fail, Blamed, CredentialsOk, At, Idle, limits
  <2>4. WorkOK'
    BY <1>0, <1>2, <2>1 DEF IInv, TypeOK, WorkOK, Fail, Blamed, CredentialsOk, At, Idle
  <2>5. CookieClean'
    BY <1>0, <1>2 DEF IInv, TypeOK, CookieClean, Fail, Blamed, CredentialsOk, At, Idle, limits, Attempt
  <2>6. QED
    BY <2>3, <2>4, <2>5 DEF IInv
<1>3. QED
  BY <1>1, <1>2

\* exempt_ip_from_ratelimits keeps the invariant.
LEMMA ExemptionInv ==
  ASSUME IInv, NEW w \in Workers, ClearExemption(w) \/ GrantExemption(w)
  PROVE  IInv'
<1> USE Positive
<1>1. \E v : Moves(w, v)
  BY AtMoves DEF ClearExemption, GrantExemption
<1>2. /\ work' \in [Workers -> WorkRec] /\ WorkOK'
      /\ \A q \in Workers : work'[q].pc \in {"guess", "hit"} /\ work'[q].a.cookie # None
                              => work'[q].a.cookie \in misused'
  BY <1>1, MoveInv DEF ClearExemption, GrantExemption
<1>3. work[w].a.ip \in Ips
  BY LimitConstants DEF IInv, WorkOK, ClearExemption, GrantExemption, Attempt
<1>4. exempt' \in [Ips -> 0..Exemption] /\ granted' \in [Ips -> 0..Exemption]
  <2>1. Incremented(exempt[work[w].a.ip], Exemption) \in 0..Exemption
    BY <1>3, Lives DEF IInv, TypeOK
  <2>2. 0 \in 0..Exemption /\ Exemption \in 0..Exemption
    OBVIOUS
  <2>3. CASE ClearExemption(w)
    BY <2>2, <2>3 DEF IInv, TypeOK, ClearExemption
  <2>4. CASE GrantExemption(w)
    BY <2>1, <2>2, <2>4 DEF IInv, TypeOK, GrantExemption
  <2>5. QED
    BY <2>3, <2>4
<1>5. TypeOK'
  BY <1>2, <1>4 DEF IInv, TypeOK, WorkRec, ClearExemption, GrantExemption
<1>6. CookieClean'
  BY <1>2 DEF IInv, CookieClean, ClearExemption, GrantExemption
<1>7. QED
  BY <1>2, <1>5, <1>6 DEF IInv

\* Counting a failure against the account keeps the invariant: a cookie's bucket is
\* hit by attempts that carry the cookie only.
LEMMA HitUserInv ==
  ASSUME IInv, NEW w \in Workers, HitUser(w)
  PROVE  IInv'
<1> USE Positive
<1> DEFINE a == work[w].a
<1>0. a \in Attempts /\ a.name \in Accounts /\ a.pw \in Guesses /\ work[w].pc = "hit"
  BY DEF IInv, WorkOK, HitUser
<1>1. \E v : Moves(w, v)
  BY AtMoves DEF HitUser
<1>2. /\ work' \in [Workers -> WorkRec] /\ WorkOK'
      /\ \A q \in Workers : work'[q].pc \in {"guess", "hit"} /\ work'[q].a.cookie # None
                              => work'[q].a.cookie \in misused'
  BY <1>1, MoveInv DEF HitUser
<1>3. dedup2' \in [Accounts -> [Guesses -> 0..UserDedup]]
  <2>1. dedup2[a.name][a.pw] \in 0..UserDedup
    BY <1>0 DEF IInv, TypeOK
  <2>2. Incremented(dedup2[a.name][a.pw], UserDedup) \in 0..UserDedup
    BY <2>1, Lives
  <2>3. QED
    BY <1>0, <2>2 DEF IInv, TypeOK, HitUser
<1>4. Bucket(a) \in Buckets /\ \A c \in Cookies : Bucket(a) = c => a.cookie = c /\ a.cookie # None
  BY <1>0, BucketIs
<1> DEFINE h == userHits[Bucket(a)]
           g == Pushed(h, UserLimit, UserWindow)
<1>5. /\ h \in Ages(UserLimit, UserWindow)
      /\ \A i \in 1..UserLimit - 1 : h[i] <= h[i + 1]
  BY <1>4 DEF IInv, TypeOK
<1>6. g \in Ages(UserLimit, UserWindow) /\ \A i \in 1..UserLimit - 1 : g[i] <= g[i + 1]
  BY <1>5, PushedAges
<1>7. userHits' = [userHits EXCEPT ![Bucket(a)] = g]
  BY DEF HitUser
<1> HIDE DEF a, h, g
<1>8. /\ userHits' \in [Buckets -> Ages(UserLimit, UserWindow)]
      /\ \A b \in Buckets : userHits'[b] = IF b = Bucket(a) THEN g ELSE userHits[b]
  BY <1>4, <1>6, <1>7 DEF IInv, TypeOK
<1>9. \A b \in Buckets : \A i \in 1..UserLimit - 1 : userHits'[b][i] <= userHits'[b][i + 1]
  BY <1>6, <1>8 DEF IInv, TypeOK
<1>10. TypeOK'
  BY <1>2, <1>3, <1>8, <1>9 DEF IInv, TypeOK, WorkRec, HitUser
<1>11. ASSUME NEW c \in Cookies \ misused, NEW i \in 1..UserLimit
       PROVE  userHits'[c][i] = UserWindow
  <2>1. c \in Buckets
    BY <1>11 DEF Buckets
  <2>2. c # Bucket(a)
    BY <1>0, <1>4, <1>11 DEF IInv, CookieClean, a
  <2>3. QED
    BY <1>8, <1>11, <2>1, <2>2 DEF IInv, CookieClean
<1>12. CookieClean'
  BY <1>2, <1>11 DEF CookieClean, HitUser
<1>13. QED
  BY <1>2, <1>10, <1>12 DEF IInv

\* Counting a failure against the network keeps the invariant.
LEMMA HitIpInv ==
  ASSUME IInv, NEW w \in Workers, HitIp(w)
  PROVE  IInv'
<1> USE Positive
<1> DEFINE a == work[w].a
           n == NetOf[a.ip]
<1>0. a.name \in Names \cup {None} /\ n \in Nets
  BY LimitConstants DEF IInv, WorkOK, HitIp, Attempt
<1>1. \E v : Moves(w, v)
  BY AtMoves DEF HitIp
<1>2. /\ work' \in [Workers -> WorkRec] /\ WorkOK'
      /\ \A q \in Workers : work'[q].pc \in {"guess", "hit"} /\ work'[q].a.cookie # None
                              => work'[q].a.cookie \in misused'
  BY <1>1, MoveInv DEF HitIp
<1>3. dedup' \in [Nets -> [Names -> 0..IpDedup]]
  <2>1. a.name # None => Incremented(dedup[n][a.name], IpDedup) \in 0..IpDedup
    BY <1>0, Lives, SMTT(30) DEF IInv, TypeOK
  <2>2. dedup \in [Nets -> [Names -> 0..IpDedup]]
    BY DEF IInv, TypeOK
  <2>3. \/ dedup' = dedup
        \/ a.name # None /\ dedup' = [dedup EXCEPT ![n][a.name] = Incremented(dedup[n][a.name], IpDedup)]
    BY <1>0, <2>2 DEF HitIp
  <2> HIDE DEF a, n
  <2>4. QED
    BY <1>0, <2>1, <2>2, <2>3
<1>4. ipHits' \in [Nets -> Ages(IpLimit, IpWindow)]
  <2>1. Pushed(ipHits[n], IpLimit, IpWindow) \in Ages(IpLimit, IpWindow)
    BY <1>0, PushedAges DEF IInv, TypeOK
  <2>2. QED
    BY <2>1 DEF IInv, TypeOK, HitIp
<1>5. TypeOK'
  BY <1>2, <1>3, <1>4 DEF IInv, TypeOK, WorkRec, HitIp
<1>6. CookieClean'
  BY <1>2 DEF IInv, CookieClean, HitIp
<1>7. QED
  BY <1>2, <1>5, <1>6 DEF IInv

\* Every step keeps the invariant.
LEMMA StepInv == IInv /\ [Next]_vars => IInv'
<1> SUFFICES ASSUME IInv, [Next]_vars PROVE IInv'
  OBVIOUS
<1>1. CASE Tick
  BY <1>1, TickInv
<1>2. ASSUME NEW w \in Workers, NEW a \in Attempts, Arrive(w, a)
      PROVE  IInv'
  <2>1. /\ UNCHANGED <<limits, owner, misused, granted>>
        /\ seen' \in [Accounts -> [Guesses -> 0..UserWindow \cup {None}]]
    BY <1>2 DEF Arrive, IInv, TypeOK
  <2>2. QED
    BY <1>2, <2>1, LookInv
<1>3. ASSUME NEW w \in Workers, Refuse(w) \/ CountGuess(w) \/ CountIp(w)
      PROVE  IInv'
  <2>1. UNCHANGED <<limits, owner, misused, granted>>
    BY <1>3 DEF Refuse, CountGuess, CountIp
  <2>2. seen' \in [Accounts -> [Guesses -> 0..UserWindow \cup {None}]]
    <3>1. seen \in [Accounts -> [Guesses -> 0..UserWindow \cup {None}]]
      BY DEF IInv, TypeOK
    <3>2. \/ seen' = seen
          \/ /\ work[w].a.name \in Accounts /\ work[w].a.pw \in Guesses
             /\ seen' = [seen EXCEPT ![work[w].a.name][work[w].a.pw] = UserWindow]
      BY <1>3 DEF Refuse, CountGuess, CountIp, IInv, WorkOK
    <3>3. UserWindow \in 0..UserWindow
      BY Positive
    <3>4. QED
      BY <3>1, <3>2, <3>3
  <2>3. QED
    BY <1>3, <2>1, <2>2, LookInv
<1>4. ASSUME NEW w \in Workers,
             \/ Accept(w) \/ Fail(w) \/ ClearExemption(w) \/ GrantExemption(w)
             \/ HitUser(w) \/ HitIp(w)
      PROVE  IInv'
  BY <1>4, AnswerInv, ExemptionInv, HitUserInv, HitIpInv
<1>5. CASE UNCHANGED vars
  BY <1>5 DEF IInv, TypeOK, WorkOK, CookieClean, vars, limits
<1>6. QED
  BY <1>1, <1>2, <1>3, <1>4, <1>5 DEF Next

\* The invariant holds throughout.
LEMMA Invariance == Spec => []IInv
<1>1. QED
  BY InitInv, StepInv, PTL DEF Spec

\* The limiter's keys, the workers and the histories keep their types, and the hits of
\* a bucket stay ordered by age.
THEOREM TypeCorrect == Spec => []TypeOK
<1>1. IInv => TypeOK
  BY DEF IInv
<1>2. QED
  BY <1>1, Invariance, PTL

\* Only the two checks turn an attempt away: should_rate_limit_ip when it comes in, and
\* should_rate_limit_user before it is answered.
LEMMA TurnedBy ==
  ASSUME IInv, [Next]_vars, NEW w \in Workers, Turned(w)
  PROVE  (\E a \in Attempts : Arrive(w, a)) \/ Refuse(w)
<1>0. work \in [Workers -> WorkRec]
  BY DEF IInv, TypeOK, WorkRec
<1>1. ASSUME NEW q \in Workers, NEW a \in Attempts, Arrive(q, a)
      PROVE  q = w
  BY <1>0, <1>1 DEF Arrive, Turned
<1>2. ASSUME NEW q \in Workers, Refuse(q)
      PROVE  q = w
  BY <1>0, <1>2 DEF Refuse, Turned, At
<1>3. ASSUME NEW q \in Workers,
             \/ Accept(q) \/ Fail(q) \/ ClearExemption(q) \/ GrantExemption(q)
             \/ CountGuess(q) \/ HitUser(q) \/ CountIp(q) \/ HitIp(q)
      PROVE  FALSE
  <2>1. CASE Accept(q)
    BY <1>0, <2>1 DEF Turned, Accept, At, Idle, WorkRec
  <2>2. CASE Fail(q)
    BY <1>0, <2>2 DEF Turned, Fail, Blamed, At, Idle, WorkRec
  <2>3. CASE ClearExemption(q) \/ GrantExemption(q)
    BY <1>0, <2>3 DEF Turned, ClearExemption, GrantExemption, At, Idle, WorkRec
  <2>4. CASE CountGuess(q) \/ CountIp(q)
    BY <1>0, <2>4 DEF Turned, CountGuess, CountIp, At, Idle, WorkRec
  <2>5. CASE HitUser(q)
    BY <1>0, <2>5 DEF Turned, HitUser, At, Idle, WorkRec
  <2>6. CASE HitIp(q)
    BY <1>0, <2>6 DEF Turned, HitIp, At, Idle, WorkRec
  <2>7. QED
    BY <1>3, <2>1, <2>2, <2>3, <2>4, <2>5, <2>6
<1>4. CASE Tick \/ UNCHANGED vars
  BY <1>4 DEF Tick, vars, Turned
<1>5. QED
  BY <1>1, <1>2, <1>3, <1>4 DEF Next

\* A step that turns the owner of a device cookie away has a reason of the owner's own
\* making: should_rate_limit_user looked at the cookie's bucket.
LEMMA TurnedStep ==
  ASSUME IInv, [Next]_vars, NEW w \in Workers, Turned(w), work'[w].a.cookie # None,
         owner[work'[w].a.cookie] = work'[w].a.name
  PROVE  work'[w].a.cookie \in misused
<1> DEFINE a == work'[w].a
<1>0. work \in [Workers -> WorkRec]
  BY DEF IInv, TypeOK, WorkRec
<1>1. ASSUME NEW b \in Attempts, Arrive(w, b)
      PROVE  FALSE
  <2>1. a = b /\ work'[w].pc = "refused"
    BY <1>0, <1>1 DEF Arrive, Turned
  <2>2. b.door = "web" /\ b.name # b.cookie
    BY <1>1, <2>1, LimitConstants DEF Attempt, Names
  <2>3. ~ChecksIp(b)
    BY <2>1, <2>2 DEF ChecksIp, Bucket
  <2>4. QED
    BY <1>0, <1>1, <2>1, <2>2, <2>3 DEF Arrive
<1>2. ASSUME Refuse(w)
      PROVE  a.cookie \in misused
  <2>1. a = work[w].a /\ a \in Attempts
    BY <1>0, <1>2 DEF IInv, WorkOK, Refuse, At, WorkRec
  <2>2. Bucket(a) = a.cookie /\ a.cookie \in Cookies
    BY <2>1, LimitConstants DEF Bucket, Attempt
  <2>3. userHits[a.cookie][UserLimit] < UserWindow
    BY <1>2, <2>1, <2>2 DEF Refuse, MayAnswer, UserFull
  <2>4. UserLimit \in 1..UserLimit /\ UserWindow \in Nat
    BY Positive
  <2>5. QED
    BY <2>2, <2>3, <2>4 DEF IInv, CookieClean
<1>3. QED
  BY <1>1, <1>2, TurnedBy

\* The device cookie of the login page does what it is for: no number of failures by
\* others, on the account or from the network, turns its owner away.
THEOREM OwnersGetIn == Spec => CookieSpares
<1> DEFINE Spares ==
      \A w \in Workers : Turned(w) =>
        LET a == work'[w].a
        IN  a.cookie # None /\ owner[a.cookie] = a.name => a.cookie \in misused
<1>1. IInv /\ [Next]_vars => Spares
  BY TurnedStep
<1>2. IInv /\ [Next]_vars => [Spares]_vars
  BY <1>1
<1>3. QED
  BY <1>2, Invariance, PTL DEF Spec, CookieSpares

-----------------------------------------------------------------------------
\* A login that has cleared the exemption of address i and not yet counted it anew.
Renewing(i) == \E v \in Workers : work[v].pc = "incr" /\ work[v].a.ip = i

\* What the key in Redis has left is what the login was promised, except that it is gone
\* while some login renews it.
ExemptInv == \A i \in Ips : exempt[i] = granted[i] \/ (exempt[i] = 0 /\ Renewing(i))

\* A step of another kind leaves the keys, and the logins that are renewing one.
LEMMA OthersKeep ==
  ASSUME IInv, NEW w \in Workers,
         \/ \E a \in Attempts : Arrive(w, a)
         \/ Refuse(w) \/ Accept(w) \/ Fail(w)
         \/ CountGuess(w) \/ HitUser(w) \/ CountIp(w) \/ HitIp(w)
  PROVE  /\ exempt' = exempt /\ granted' = granted
         /\ \A v \in Workers : work[v].pc = "incr" => work'[v] = work[v]
<1>0. work \in [Workers -> WorkRec]
  BY DEF IInv, TypeOK, WorkRec
<1>1. CASE \E a \in Attempts : Arrive(w, a)
  BY <1>0, <1>1 DEF Arrive, limits
<1>2. CASE Refuse(w)
  BY <1>0, <1>2 DEF Refuse, At, limits
<1>3. CASE Accept(w)
  BY <1>0, <1>3 DEF Accept, At, limits
<1>4. CASE Fail(w)
  BY <1>0, <1>4 DEF Fail, Blamed, At, limits
<1>5. CASE CountGuess(w)
  BY <1>0, <1>5 DEF CountGuess, At, limits
<1>6. CASE CountIp(w)
  BY <1>0, <1>6 DEF CountIp, At, limits
<1>7. CASE HitUser(w)
  BY <1>0, <1>7 DEF HitUser, At
<1>8. CASE HitIp(w)
  BY <1>0, <1>8 DEF HitIp
<1>9. QED
  BY <1>1, <1>2, <1>3, <1>4, <1>5, <1>6, <1>7, <1>8

\* Every step keeps it: a renewal clears the key and stands at "incr", and of renewals
\* that overlap the first to count sets both, the later ones neither.
LEMMA ExemptStep == IInv /\ ExemptInv /\ [Next]_vars => ExemptInv'
<1> SUFFICES ASSUME IInv, ExemptInv, [Next]_vars PROVE ExemptInv'
  OBVIOUS
<1> USE Positive
<1>0. /\ work \in [Workers -> WorkRec]
      /\ exempt \in [Ips -> 0..Exemption] /\ granted \in [Ips -> 0..Exemption]
  BY DEF IInv, TypeOK, WorkRec
<1>1. CASE Tick
  <2>1. \A i \in Ips : exempt'[i] = Less(exempt[i]) /\ granted'[i] = Less(granted[i])
    BY <1>1 DEF Tick
  <2>2. work' = work /\ Less(0) = 0
    BY <1>1 DEF Tick, Less
  <2>3. QED
    BY <2>1, <2>2 DEF ExemptInv, Renewing
<1>2. ASSUME NEW w \in Workers,
             \/ \E a \in Attempts : Arrive(w, a)
             \/ Refuse(w) \/ Accept(w) \/ Fail(w)
             \/ CountGuess(w) \/ HitUser(w) \/ CountIp(w) \/ HitIp(w)
      PROVE  ExemptInv'
  <2>1. /\ exempt' = exempt /\ granted' = granted
        /\ \A v \in Workers : work[v].pc = "incr" => work'[v] = work[v]
    BY <1>2, OthersKeep
  <2>2. QED
    BY <2>1 DEF ExemptInv, Renewing
<1>3. ASSUME NEW w \in Workers, ClearExemption(w)
      PROVE  ExemptInv'
  <2>1. /\ work'[w].pc = "incr" /\ work'[w].a = work[w].a
        /\ \A v \in Workers : work[v].pc = "incr" => work'[v] = work[v]
    BY <1>0, <1>3 DEF ClearExemption, At, WorkRec
  <2>2. /\ granted' = granted
        /\ \A i \in Ips : exempt'[i] = IF i = work[w].a.ip THEN 0 ELSE exempt[i]
    BY <1>0, <1>3 DEF ClearExemption
  <2>3. QED
    BY <2>1, <2>2 DEF ExemptInv, Renewing
<1>4. ASSUME NEW w \in Workers, GrantExemption(w)
      PROVE  ExemptInv'
  <2> DEFINE j == work[w].a.ip
  <2>1. j \in Ips
    BY <1>4, LimitConstants DEF IInv, WorkOK, GrantExemption, Attempt
  <2>2. \A i \in Ips \ {j} : exempt'[i] = exempt[i] /\ granted'[i] = granted[i]
    BY <1>0, <1>4 DEF GrantExemption
  <2>3. \A v \in Workers : work[v].pc = "incr" /\ work[v].a.ip # j => work'[v] = work[v]
    BY <1>0, <1>4 DEF GrantExemption
  <2>4. exempt'[j] = granted'[j]
    <3>1. exempt'[j] = Incremented(exempt[j], Exemption)
      BY <1>0, <1>4, <2>1 DEF GrantExemption
    <3>2. granted'[j] = IF exempt[j] > 0 THEN granted[j] ELSE Exemption
      BY <1>0, <1>4, <2>1 DEF GrantExemption
    <3>3. exempt[j] > 0 => exempt[j] = granted[j]
      BY <2>1 DEF ExemptInv
    <3>4. QED
      BY <3>1, <3>2, <3>3 DEF Incremented
  <2>5. \A i \in Ips \ {j} : Renewing(i) => Renewing(i)'
    BY <2>3 DEF Renewing
  <2> HIDE DEF j
  <2>6. QED
    BY <2>2, <2>4, <2>5 DEF ExemptInv
<1>5. CASE UNCHANGED vars
  BY <1>5 DEF ExemptInv, Renewing, vars, limits
<1>6. QED
  BY <1>1, <1>2, <1>3, <1>4, <1>5 DEF Next

\* Whoever is turned away has an address whose key is gone.
LEMMA TurnedUnexempt ==
  ASSUME IInv, [Next]_vars, NEW w \in Workers, Turned(w)
  PROVE  work'[w].a.ip \in Ips /\ exempt[work'[w].a.ip] = 0
<1>0. work \in [Workers -> WorkRec]
  BY DEF IInv, TypeOK, WorkRec
<1>1. ASSUME NEW a \in Attempts, Arrive(w, a)
      PROVE  work'[w].a.ip \in Ips /\ exempt[work'[w].a.ip] = 0
  <2>1. work'[w].a = a /\ work'[w].pc = "refused"
    BY <1>0, <1>1 DEF Arrive, Turned
  <2>2. exempt[a.ip] = 0
    BY <1>0, <1>1, <2>1 DEF Arrive
  <2>3. QED
    BY <2>1, <2>2, LimitConstants DEF Attempt
<1>2. ASSUME Refuse(w)
      PROVE  work'[w].a.ip \in Ips /\ exempt[work'[w].a.ip] = 0
  <2>1. work'[w].a = work[w].a /\ work[w].a \in Attempts
    BY <1>0, <1>2 DEF IInv, WorkOK, Refuse, At, WorkRec
  <2>2. exempt[work[w].a.ip] = 0
    BY <1>2 DEF Refuse, MayAnswer
  <2>3. QED
    BY <2>1, <2>2, LimitConstants DEF Attempt
<1>3. QED
  BY <1>1, <1>2, TurnedBy

\* AUTH_RATELIMIT_EXEMPTION_LENGTH is kept: for its seconds after a successful login
\* nobody at that address is turned away, unless between the clear and the incr of
\* another login's renewal (exempt_ip_from_ratelimits).
THEOREM ExemptionKept == Spec => ExemptionHolds
<1> DEFINE Holds ==
      \A w \in Workers : Turned(w) =>
        LET i == work'[w].a.ip
        IN  granted[i] = 0 \/ \E v \in Workers : work[v].pc = "incr" /\ work[v].a.ip = i
<1>1. Init => ExemptInv
  BY DEF Init, ExemptInv
<1>2. IInv /\ ExemptInv /\ [Next]_vars => Holds
  BY TurnedUnexempt DEF ExemptInv, Renewing
<1>3. IInv /\ ExemptInv /\ [Next]_vars => [Holds]_vars
  BY <1>2
<1>4. QED
  BY <1>1, <1>3, ExemptStep, Invariance, PTL DEF Spec, ExemptionHolds

-----------------------------------------------------------------------------
(* The bound on guesses.  Every password that counts has a place of its own: *)
(* a pair of a hit of the account and a worker.                              *)

\* The passwords of account u whose first answer is inside the window.
Open(u) == {p \in Guesses : seen[u][p] \in 0..UserWindow - 1}

\* Worker w still has to count the failure with p, and will: u's limit is not reached
\* and the marker of p not set.
Waits(w, u, p) ==
  /\ work[w].pc \in {"guess", "hit"} /\ work[w].a.name = u /\ work[w].a.pw = p
  /\ dedup2[u][p] = 0 /\ ~UserFull(u)

\* The place of p is with the worker that answered it, while it waits (slot 0), then with
\* that worker at a hit that is not older than the answer.
Placed(u, slot, by) ==
  /\ slot \in [Open(u) -> 0..UserLimit] /\ by \in [Open(u) -> Workers]
  /\ \A p, q \in Open(u) : slot[p] = slot[q] /\ by[p] = by[q] => p = q
  /\ \A p \in Open(u) :
       IF slot[p] = 0 THEN Waits(by[p], u, p) ELSE userHits[u][slot[p]] <= seen[u][p]

PlaceInv == \A u \in Accounts : \E slot, by : Placed(u, slot, by)

\* A failure that is being counted, or has set its marker, was seen; one that counts
\* against a device cookie is not in the window.
SeenInv ==
  /\ \A u \in Accounts, p \in Guesses : dedup2[u][p] > 0 => seen[u][p] # None
  /\ \A w \in Workers, a \in Attempts : work[w].pc \in {"guess", "hit"} /\ work[w].a = a =>
       seen[a.name][a.pw] # None /\ (Bucket(a) # a.name => seen[a.name][a.pw] = UserWindow)

\* A cookie comes in after it was issued.
IssuedInv ==
  \A w \in Workers : work[w].pc # "idle" /\ work[w].a.cookie # None => owner[work[w].a.cookie] # None

\* When nothing new is in the window, no hit got older than an answer and nobody who waits
\* lost what it waits for, the places stay.
LEMMA PlacesStay ==
  ASSUME NEW u, NEW slot, NEW by, Placed(u, slot, by), Open(u)' \subseteq Open(u),
         \A p \in Open(u)', j \in 1..UserLimit :
           userHits[u][j] <= seen[u][p] => userHits'[u][j] <= seen'[u][p],
         \A p \in Open(u)', w \in Workers : Waits(w, u, p) => Waits(w, u, p)'
  PROVE  \E s, b : Placed(u, s, b)'
<1>1. UserLimit \in Nat \ {0}
  BY Positive
<1>2. PICK s, b : s = [p \in Open(u)' |-> slot[p]] /\ b = [p \in Open(u)' |-> by[p]]
  OBVIOUS
<1>3. s \in [Open(u)' -> 0..UserLimit] /\ b \in [Open(u)' -> Workers]
  BY <1>2 DEF Placed
<1>4. \A p, q \in Open(u)' : s[p] = s[q] /\ b[p] = b[q] => p = q
  BY <1>2 DEF Placed
<1>5. ASSUME NEW p \in Open(u)'
      PROVE  IF s[p] = 0 THEN Waits(b[p], u, p)' ELSE userHits'[u][s[p]] <= seen'[u][p]
  <2>1. s[p] = slot[p] /\ b[p] = by[p] /\ p \in Open(u) /\ slot[p] \in 0..UserLimit /\ by[p] \in Workers
    BY <1>2 DEF Placed
  <2>2. IF slot[p] = 0 THEN Waits(by[p], u, p) ELSE userHits[u][slot[p]] <= seen[u][p]
    BY <2>1 DEF Placed
  <2>3. slot[p] # 0 => slot[p] \in 1..UserLimit
    BY <1>1, <2>1
  <2>4. QED
    BY <2>1, <2>2, <2>3
<1>6. Placed(u, s, b)'
  BY <1>3, <1>4, <1>5 DEF Placed
<1>7. QED
  BY <1>6

-----------------------------------------------------------------------------
\* A device cookie keeps the account it was issued to.
LEMMA OwnersStay ==
  ASSUME IInv, [Next]_vars, NEW c \in Cookies, owner[c] # None
  PROVE  owner'[c] = owner[c]
<1>1. ASSUME NEW w \in Workers, Accept(w)
      PROVE  owner'[c] = owner[c]
  BY <1>1 DEF IInv, TypeOK, Accept
<1>2. ASSUME ~\E w \in Workers : Accept(w)
      PROVE  owner' = owner
  BY <1>2 DEF Next, vars, Tick, Arrive, Refuse, Fail, ClearExemption, GrantExemption,
              CountGuess, HitUser, CountIp, HitIp
<1>3. QED
  BY <1>1, <1>2

\* A worker stays as it is, is done, goes on with its attempt or takes one in.
LEMMA WorkStep ==
  ASSUME IInv, [Next]_vars, NEW q \in Workers
  PROVE  \/ work'[q] = work[q]
         \/ work'[q].pc = "idle"
         \/ work[q].pc # "idle" /\ work'[q].a = work[q].a
         \/ \E a \in Attempts : (a.cookie # None => owner[a.cookie] # None) /\ work'[q].a = a
<1>0. work \in [Workers -> WorkRec]
  BY DEF IInv, TypeOK, WorkRec
<1>1. ASSUME NEW w \in Workers, NEW a \in Attempts, Arrive(w, a)
      PROVE  work'[q] = work[q] \/ ((a.cookie # None => owner[a.cookie] # None) /\ work'[q].a = a)
  BY <1>0, <1>1 DEF Arrive
<1>2. ASSUME NEW w \in Workers, NEW pc, work[w].pc # "idle",
             work' = At(w, pc) \/ work' = [work EXCEPT ![w] = Idle]
      PROVE  \/ work'[q] = work[q] \/ work'[q].pc = "idle"
             \/ work[q].pc # "idle" /\ work'[q].a = work[q].a
  BY <1>0, <1>2 DEF At, Idle, WorkRec
<1>3. ASSUME NEW w \in Workers, Refuse(w) \/ Accept(w) \/ ClearExemption(w) \/ GrantExemption(w)
      PROVE  \/ work'[q] = work[q] \/ work'[q].pc = "idle"
             \/ work[q].pc # "idle" /\ work'[q].a = work[q].a
  BY <1>2, <1>3 DEF Refuse, Accept, ClearExemption, GrantExemption
<1>4. ASSUME NEW w \in Workers, Fail(w)
      PROVE  \/ work'[q] = work[q] \/ work'[q].pc = "idle"
             \/ work[q].pc # "idle" /\ work'[q].a = work[q].a
  BY <1>2, <1>4 DEF Fail, Blamed
<1>5. ASSUME NEW w \in Workers, CountGuess(w) \/ HitUser(w) \/ CountIp(w) \/ HitIp(w)
      PROVE  \/ work'[q] = work[q] \/ work'[q].pc = "idle"
             \/ work[q].pc # "idle" /\ work'[q].a = work[q].a
  BY <1>2, <1>5 DEF CountGuess, HitUser, CountIp, HitIp
<1>6. CASE Tick \/ UNCHANGED vars
  BY <1>6 DEF Tick, vars
<1>7. QED
  BY <1>1, <1>3, <1>4, <1>5, <1>6 DEF Next

\* Every step keeps the cookies issued.
LEMMA IssuedStep ==
  ASSUME IInv, IssuedInv, [Next]_vars
  PROVE  IssuedInv'
<1> SUFFICES ASSUME NEW w \in Workers, work'[w].pc # "idle", work'[w].a.cookie # None
             PROVE  owner'[work'[w].a.cookie] # None
  BY DEF IssuedInv
<1>1. IInv'
  BY StepInv
<1>2. work'[w].a \in Attempts
  BY <1>1 DEF IInv, WorkOK
<1>3. work'[w].a.cookie \in Cookies
  BY <1>2, LimitConstants DEF Attempt
<1>4. owner[work'[w].a.cookie] # None
  BY WorkStep DEF IssuedInv
<1>5. QED
  BY <1>3, <1>4, OwnersStay

\* The bucket of an attempt in hand stays the same.
LEMMA BucketStays ==
  ASSUME IInv, [Next]_vars, NEW a \in Attempts, a.cookie # None => owner[a.cookie] # None
  PROVE  Bucket(a)' = Bucket(a)
<1>1. a.cookie \in Cookies \cup {None}
  BY LimitConstants DEF Attempt
<1>2. a.cookie # None => owner'[a.cookie] = owner[a.cookie]
  BY <1>1, OwnersStay
<1>3. QED
  BY <1>2 DEF Bucket

-----------------------------------------------------------------------------
GuessInv == PlaceInv /\ SeenInv /\ IssuedInv

\* A step of worker w that hits no limit and sets no marker keeps the places, when what
\* it takes out of flight leaves the window.
LEMMA GuessKept ==
  ASSUME IInv, GuessInv, [Next]_vars, NEW w \in Workers, UNCHANGED <<userHits, dedup2>>,
         \A q \in Workers \ {w} : work'[q] = work[q],
         \A u \in Accounts, p \in Guesses : seen'[u][p] \in {seen[u][p], UserWindow},
         \A u \in Accounts, p \in Guesses :
           Waits(w, u, p) => Waits(w, u, p)' \/ seen'[u][p] = UserWindow,
         work'[w].pc \in {"guess", "hit"} => work[w].pc # "idle" /\ work'[w].a = work[w].a,
         \A a \in Attempts : work'[w].pc \in {"guess", "hit"} /\ work'[w].a = a =>
           seen'[a.name][a.pw] # None /\ (Bucket(a) # a.name => seen'[a.name][a.pw] = UserWindow)
  PROVE  GuessInv'
<1> USE Positive
<1>1. IInv' /\ IssuedInv'
  BY StepInv, IssuedStep DEF GuessInv
<1>2. /\ None # UserWindow
      /\ seen \in [Accounts -> [Guesses -> 0..UserWindow \cup {None}]]
  BY LimitConstants DEF IInv, TypeOK
<1>3. SeenInv'
  <2>1. ASSUME NEW u \in Accounts, NEW p \in Guesses, dedup2'[u][p] > 0
        PROVE  seen'[u][p] # None
    BY <1>2, <2>1 DEF GuessInv, SeenInv
  <2>2. ASSUME NEW q \in Workers, NEW a \in Attempts,
               work'[q].pc \in {"guess", "hit"}, work'[q].a = a
        PROVE  /\ seen'[a.name][a.pw] # None
               /\ Bucket(a)' # a.name => seen'[a.name][a.pw] = UserWindow
    <3>1. a.name \in Accounts /\ a.pw \in Guesses
      BY <1>1, <2>2 DEF IInv, WorkOK
    <3>2. work[q].pc # "idle" /\ work[q].a = a /\ (q # w => work[q].pc \in {"guess", "hit"})
      BY <2>2
    <3>3. Bucket(a)' = Bucket(a)
      BY <3>2, BucketStays DEF GuessInv, IssuedInv
    <3>4. CASE q = w
      BY <2>2, <3>3, <3>4
    <3>5. CASE q # w
      <4>1. seen[a.name][a.pw] # None /\ (Bucket(a) # a.name => seen[a.name][a.pw] = UserWindow)
        BY <3>2, <3>5 DEF GuessInv, SeenInv
      <4>2. seen'[a.name][a.pw] \in {seen[a.name][a.pw], UserWindow}
        BY <3>1
      <4>3. QED
        BY <1>2, <3>3, <4>1, <4>2
    <3>6. QED
      BY <3>4, <3>5
  <2>3. QED
    BY <2>1, <2>2 DEF SeenInv
<1>4. ASSUME NEW u \in Accounts
      PROVE  \E s, b : Placed(u, s, b)'
  <2>1. PICK slot, by : Placed(u, slot, by)
    BY DEF GuessInv, PlaceInv
  <2>2. ASSUME NEW p \in Open(u)'
        PROVE  p \in Guesses /\ seen'[u][p] = seen[u][p] /\ seen'[u][p] # UserWindow /\ p \in Open(u)
    <3>1. p \in Guesses /\ seen'[u][p] \in 0..UserWindow - 1
      BY <2>2 DEF Open
    <3>2. seen'[u][p] # UserWindow
      BY <3>1
    <3>3. seen'[u][p] = seen[u][p]
      BY <3>1, <3>2
    <3>4. QED
      BY <3>1, <3>2, <3>3 DEF Open
  <2>3. ASSUME NEW p \in Open(u)', NEW q \in Workers, Waits(q, u, p)
        PROVE  Waits(q, u, p)'
    <3>1. CASE q = w
      BY <2>2, <2>3, <3>1
    <3>2. CASE q # w
      BY <2>3, <3>2 DEF Waits, UserFull
    <3>3. QED
      BY <3>1, <3>2
  <2>4. Open(u)' \subseteq Open(u)
    BY <2>2
  <2>5. \A p \in Open(u)', j \in 1..UserLimit :
          userHits[u][j] <= seen[u][p] => userHits'[u][j] <= seen'[u][p]
    BY <2>2
  <2>6. QED
    BY <2>1, <2>3, <2>4, <2>5, PlacesStay
<1>5. QED
  BY <1>1, <1>3, <1>4 DEF GuessInv, PlaceInv

\* What is not the counting of a failure against an account keeps the places.
LEMMA GuessQuiet ==
  ASSUME IInv, GuessInv, [Next]_vars, NEW w \in Workers,
         \/ \E a \in Attempts : Arrive(w, a)
         \/ Refuse(w) \/ Accept(w) \/ ClearExemption(w) \/ GrantExemption(w) \/ CountIp(w) \/ HitIp(w)
  PROVE  GuessInv'
<1>0. work \in [Workers -> WorkRec]
  BY DEF IInv, TypeOK, WorkRec
<1>1. UNCHANGED <<userHits, dedup2, seen>>
  BY DEF Arrive, Refuse, Accept, ClearExemption, GrantExemption, CountIp, HitIp, limits
<1>2. ASSUME NEW pc \in {"refused", "ip", "iphit", "clear", "incr"},
             work' = At(w, pc) \/ work' = [work EXCEPT ![w] = Idle]
      PROVE  /\ \A q \in Workers \ {w} : work'[q] = work[q]
             /\ work'[w].pc \notin {"guess", "hit"}
  BY <1>0, <1>2 DEF At, Idle, WorkRec
<1>3. /\ \A q \in Workers \ {w} : work'[q] = work[q]
      /\ work'[w].pc \notin {"guess", "hit"} /\ work[w].pc \notin {"guess", "hit"}
  <2>1. ASSUME NEW a \in Attempts, Arrive(w, a)
        PROVE  /\ \A q \in Workers \ {w} : work'[q] = work[q]
               /\ work'[w].pc \notin {"guess", "hit"} /\ work[w].pc \notin {"guess", "hit"}
    BY <1>0, <2>1 DEF Arrive
  <2>2. ASSUME \/ Refuse(w) \/ Accept(w) \/ ClearExemption(w) \/ GrantExemption(w)
               \/ CountIp(w) \/ HitIp(w)
        PROVE  /\ \A q \in Workers \ {w} : work'[q] = work[q]
               /\ work'[w].pc \notin {"guess", "hit"} /\ work[w].pc \notin {"guess", "hit"}
    BY <1>2, <2>2 DEF Refuse, Accept, ClearExemption, GrantExemption, CountIp, HitIp
  <2>3. QED
    BY <2>1, <2>2
<1>4. \A u \in Accounts, p \in Guesses : ~Waits(w, u, p)
  BY <1>3 DEF Waits
<1>5. QED
  BY <1>1, <1>3, <1>4, GuessKept

\* rate_limit_user skips a failure whose marker is set, which does not wait, and one from
\* an exempt address, which is no longer counted here.
LEMMA GuessCount ==
  ASSUME IInv, GuessInv, [Next]_vars, NEW w \in Workers, CountGuess(w)
  PROVE  GuessInv'
<1>0. work \in [Workers -> WorkRec] /\ seen \in [Accounts -> [Guesses -> 0..UserWindow \cup {None}]]
  BY DEF IInv, TypeOK, WorkRec
<1>1. PICK a \in Attempts : /\ a = work[w].a /\ a.name \in Accounts /\ a.pw \in Guesses
                            /\ work[w].pc = "guess"
  BY DEF CountGuess, IInv, WorkOK
<1>2. UNCHANGED <<userHits, dedup2>>
  BY DEF CountGuess, limits
<1>3. /\ \A q \in Workers \ {w} : work'[q] = work[q]
      /\ work'[w].pc \in {"guess", "hit"} => work'[w].pc = "hit" /\ work'[w].a = a
  BY <1>0, <1>1 DEF CountGuess, At, Idle, WorkRec
<1>4. \A u \in Accounts, p \in Guesses :
        seen'[u][p] = IF exempt[a.ip] > 0 /\ u = a.name /\ p = a.pw THEN UserWindow ELSE seen[u][p]
  BY <1>0, <1>1 DEF CountGuess
<1>5. ASSUME NEW u \in Accounts, NEW p \in Guesses, Waits(w, u, p)
      PROVE  Waits(w, u, p)' \/ seen'[u][p] = UserWindow
  <2>1. u = a.name /\ p = a.pw /\ dedup2[u][p] = 0 /\ ~UserFull(u)
    BY <1>1, <1>5 DEF Waits
  <2>2. CASE exempt[a.ip] > 0
    BY <1>4, <2>1, <2>2
  <2>3. CASE ~(exempt[a.ip] > 0)
    <3>1. work' = At(w, "hit")
      BY <1>1, <2>1, <2>3 DEF CountGuess
    <3>2. work'[w].pc = "hit" /\ work'[w].a = a
      BY <1>0, <1>1, <3>1 DEF At, WorkRec
    <3>3. QED
      BY <1>2, <2>1, <3>2 DEF Waits, UserFull
  <2>4. QED
    BY <2>2, <2>3
<1>6. /\ seen[a.name][a.pw] # None /\ (Bucket(a) # a.name => seen[a.name][a.pw] = UserWindow)
      /\ UserWindow # None
  BY <1>1, LimitConstants, Positive DEF GuessInv, SeenInv
<1>7. seen'[a.name][a.pw] # None /\ (Bucket(a) # a.name => seen'[a.name][a.pw] = UserWindow)
  BY <1>1, <1>4, <1>6
<1>8. \A u \in Accounts, p \in Guesses : seen'[u][p] \in {seen[u][p], UserWindow}
  BY <1>4
<1>9. QED
  BY <1>1, <1>2, <1>3, <1>5, <1>7, <1>8, GuessKept

\* Time takes passwords out of the window, and makes no hit older than an answer.
LEMMA GuessTick ==
  ASSUME IInv, GuessInv, [Next]_vars, Tick
  PROVE  GuessInv'
<1> USE Positive
<1>1. IssuedInv'
  BY IssuedStep DEF GuessInv
<1>2. /\ None # UserWindow /\ None \notin Nat
      /\ seen \in [Accounts -> [Guesses -> 0..UserWindow \cup {None}]]
      /\ userHits \in [Buckets -> [1..UserLimit -> 0..UserWindow]]
      /\ dedup2 \in [Accounts -> [Guesses -> 0..UserDedup]]
      /\ Accounts \subseteq Buckets
  BY LimitConstants DEF IInv, TypeOK, Ages, Buckets, Names
<1>3. \A u \in Accounts, p \in Guesses :
        seen'[u][p] = IF seen[u][p] = None THEN None ELSE Older(seen[u][p], UserWindow)
  BY DEF Tick
<1>4. \A u \in Accounts, p \in Guesses :
        /\ seen'[u][p] = None <=> seen[u][p] = None
        /\ seen[u][p] = UserWindow => seen'[u][p] = UserWindow
        /\ dedup2'[u][p] > 0 => dedup2[u][p] > 0
        /\ dedup2[u][p] = 0 => dedup2'[u][p] = 0
  BY <1>2, <1>3 DEF Tick, Older, Less
<1>5. work' = work /\ owner' = owner
  BY DEF Tick
<1>6. SeenInv'
  <2>1. ASSUME NEW q \in Workers, NEW a \in Attempts,
               work[q].pc \in {"guess", "hit"}, work[q].a = a
        PROVE  /\ seen'[a.name][a.pw] # None
               /\ Bucket(a)' # a.name => seen'[a.name][a.pw] = UserWindow
    <3>1. a.name \in Accounts /\ a.pw \in Guesses
      BY <2>1 DEF IInv, WorkOK
    <3>2. Bucket(a)' = Bucket(a)
      BY <1>5 DEF Bucket
    <3>3. QED
      BY <1>4, <2>1, <3>1, <3>2 DEF GuessInv, SeenInv
  <2>2. QED
    BY <1>4, <1>5, <2>1 DEF GuessInv, SeenInv
<1>7. ASSUME NEW u \in Accounts
      PROVE  \E s, b : Placed(u, s, b)'
  <2>1. PICK slot, by : Placed(u, slot, by)
    BY DEF GuessInv, PlaceInv
  <2>2. ASSUME NEW p \in Open(u)'
        PROVE  /\ p \in Guesses /\ seen[u][p] \in 0..UserWindow - 1 /\ p \in Open(u)
               /\ seen'[u][p] = Older(seen[u][p], UserWindow)
    <3>1. p \in Guesses /\ seen'[u][p] \in 0..UserWindow - 1
      BY <2>2 DEF Open
    <3>2. seen[u][p] # None
      BY <1>2, <1>3, <3>1
    <3>3. seen[u][p] \in 0..UserWindow - 1 /\ seen'[u][p] = Older(seen[u][p], UserWindow)
      BY <1>2, <1>3, <3>1, <3>2 DEF Older
    <3>4. QED
      BY <3>1, <3>3 DEF Open
  <2>3. ASSUME NEW j \in 1..UserLimit
        PROVE  userHits[u][j] \in 0..UserWindow /\ userHits'[u][j] = Older(userHits[u][j], UserWindow)
    BY <1>2, <2>3 DEF Tick
  <2>4. ASSUME NEW p \in Open(u)', NEW j \in 1..UserLimit, userHits[u][j] <= seen[u][p]
        PROVE  userHits'[u][j] <= seen'[u][p]
    BY <2>2, <2>3, <2>4, OlderAges
  <2>5. ~UserFull(u) => ~UserFull(u)'
    BY <2>3 DEF UserFull, Older
  <2>6. ASSUME NEW p \in Open(u)', NEW q \in Workers, Waits(q, u, p)
        PROVE  Waits(q, u, p)'
    BY <1>4, <1>5, <2>2, <2>5, <2>6 DEF Waits
  <2>7. Open(u)' \subseteq Open(u)
    BY <2>2
  <2>8. QED
    BY <2>1, <2>4, <2>6, <2>7, PlacesStay
<1>8. QED
  BY <1>1, <1>6, <1>7 DEF GuessInv, PlaceInv

\* A password answered for the first time under the account's limit waits with its worker,
\* which had nothing waiting.
LEMMA NewPlace ==
  ASSUME NEW u, NEW p, NEW w \in Workers, NEW slot, NEW by, Placed(u, slot, by),
         work[w].pc \notin {"guess", "hit"}, Waits(w, u, p)', Open(u)' = Open(u) \cup {p},
         p \notin Open(u), UNCHANGED userHits,
         \A q \in Open(u) : seen'[u][q] = seen[u][q],
         \A q \in Open(u), v \in Workers : Waits(v, u, q) => Waits(v, u, q)'
  PROVE  \E s, b : Placed(u, s, b)'
<1>0. UserLimit \in Nat \ {0}
  BY Positive
<1>1. PICK s, b : /\ s = [q \in Open(u) \cup {p} |-> IF q = p THEN 0 ELSE slot[q]]
                  /\ b = [q \in Open(u) \cup {p} |-> IF q = p THEN w ELSE by[q]]
  OBVIOUS
<1>2. slot \in [Open(u) -> 0..UserLimit] /\ by \in [Open(u) -> Workers]
  BY DEF Placed
<1>3. s \in [Open(u)' -> 0..UserLimit] /\ b \in [Open(u)' -> Workers]
  BY <1>0, <1>1, <1>2
<1>4. \A q \in Open(u) : s[q] = slot[q] /\ b[q] = by[q]
  BY <1>1
<1>5. s[p] = 0 /\ b[p] = w
  BY <1>1
<1>6. \A q \in Open(u) : ~(slot[q] = 0 /\ by[q] = w)
  BY DEF Placed, Waits
<1>7. \A q, r \in Open(u)' : s[q] = s[r] /\ b[q] = b[r] => q = r
  <2>1. SUFFICES ASSUME NEW q \in Open(u) \cup {p}, NEW r \in Open(u) \cup {p},
                        s[q] = s[r], b[q] = b[r]
                 PROVE  q = r
    OBVIOUS
  <2>2. CASE q = p \/ r = p
    BY <1>4, <1>5, <1>6, <2>1, <2>2
  <2>3. CASE q # p /\ r # p
    BY <1>4, <2>1, <2>3 DEF Placed
  <2>4. QED
    BY <2>2, <2>3
<1>8. ASSUME NEW q \in Open(u)'
      PROVE  IF s[q] = 0 THEN Waits(b[q], u, q)' ELSE userHits'[u][s[q]] <= seen'[u][q]
  <2>1. CASE q = p
    BY <1>5, <2>1
  <2>2. CASE q # p
    <3>1. q \in Open(u) /\ s[q] = slot[q] /\ b[q] = by[q] /\ by[q] \in Workers
      BY <1>2, <1>4, <1>8, <2>2
    <3>2. IF slot[q] = 0 THEN Waits(by[q], u, q) ELSE userHits[u][slot[q]] <= seen[u][q]
      BY <3>1 DEF Placed
    <3>3. QED
      BY <3>1, <3>2
  <2>3. QED
    BY <2>1, <2>2
<1>9. Placed(u, s, b)'
  BY <1>3, <1>7, <1>8 DEF Placed
<1>10. QED
  BY <1>9

\* Answering a failure keeps the places, or gives a new one.
LEMMA GuessFail ==
  ASSUME IInv, GuessInv, [Next]_vars, NEW w \in Workers, Fail(w)
  PROVE  GuessInv'
<1> USE Positive
<1>0. /\ work \in [Workers -> WorkRec] /\ None \notin Nat
      /\ seen \in [Accounts -> [Guesses -> 0..UserWindow \cup {None}]]
      /\ dedup2 \in [Accounts -> [Guesses -> 0..UserDedup]]
  BY LimitConstants DEF IInv, TypeOK, WorkRec
<1>1. PICK a \in Attempts : a = work[w].a /\ work[w].pc = "user"
  BY DEF Fail, IInv, WorkOK
<1>2. a.name \in Accounts => a.pw \in Guesses
  BY <1>1, LimitConstants DEF Fail, CredentialsOk, Attempt
<1>3. UNCHANGED <<userHits, dedup2, exempt, owner>>
  BY DEF Fail, limits
<1>4. /\ \A q \in Workers \ {w} : work'[q] = work[q]
      /\ work'[w].pc \in {"guess", "hit"} => work'[w].a = a /\ a.name \in Accounts
      /\ a.name \in Accounts => work'[w].pc = "guess" /\ work'[w].a = a
  BY <1>0, <1>1 DEF Fail, Blamed, At, Idle, WorkRec
<1>5. a.name \notin Accounts => seen' = seen
  BY <1>1 DEF Fail
<1>6. ASSUME a.name \in Accounts
      PROVE  \A u \in Accounts, p \in Guesses :
               seen'[u][p] = IF u = a.name /\ p = a.pw
                             THEN IF Apart(a) THEN UserWindow
                                  ELSE IF seen[u][p] = None THEN 0 ELSE seen[u][p]
                             ELSE seen[u][p]
  BY <1>0, <1>1, <1>2, <1>6 DEF Fail
<1>7. CASE a.name \notin Accounts \/ Apart(a) \/ seen[a.name][a.pw] # None
  <2>1. \A u \in Accounts, p \in Guesses : ~Waits(w, u, p)
    BY <1>1 DEF Waits
  <2>2. \A u \in Accounts, p \in Guesses : seen'[u][p] \in {seen[u][p], UserWindow}
    BY <1>5, <1>6, <1>7
  <2>3. a.name \in Accounts =>
          seen'[a.name][a.pw] # None /\ (Bucket(a) # a.name => seen'[a.name][a.pw] = UserWindow)
    BY <1>0, <1>2, <1>6, <1>7 DEF Apart
  <2>4. QED
    BY <1>1, <1>3, <1>4, <2>1, <2>2, <2>3, GuessKept
<1>8. CASE a.name \in Accounts /\ ~Apart(a) /\ seen[a.name][a.pw] = None
  <2>1. \A u \in Accounts, p \in Guesses :
          seen'[u][p] = IF u = a.name /\ p = a.pw THEN 0 ELSE seen[u][p]
    BY <1>6, <1>8
  <2>2. IInv' /\ IssuedInv'
    BY StepInv, IssuedStep DEF GuessInv
  <2>3. SeenInv'
    <3>1. ASSUME NEW u \in Accounts, NEW p \in Guesses, dedup2'[u][p] > 0
          PROVE  seen'[u][p] # None
      BY <1>0, <1>3, <2>1, <3>1 DEF GuessInv, SeenInv
    <3>2. ASSUME NEW q \in Workers, NEW b \in Attempts,
                 work'[q].pc \in {"guess", "hit"}, work'[q].a = b
          PROVE  /\ seen'[b.name][b.pw] # None
                 /\ Bucket(b)' # b.name => seen'[b.name][b.pw] = UserWindow
      <4>1. Bucket(b)' = Bucket(b) /\ b.name \in Accounts /\ b.pw \in Guesses
        BY <1>3, <2>2, <3>2 DEF Bucket, IInv, WorkOK
      <4>2. CASE q = w
        <5>1. b = a /\ Bucket(a) = a.name
          BY <1>4, <1>8, <3>2, <4>2 DEF Apart
        <5>2. QED
          BY <1>0, <2>1, <4>1, <5>1
      <4>3. CASE q # w
        <5>1. seen[b.name][b.pw] # None /\ (Bucket(b) # b.name => seen[b.name][b.pw] = UserWindow)
          BY <1>4, <3>2, <4>3 DEF GuessInv, SeenInv
        <5>2. seen'[b.name][b.pw] = seen[b.name][b.pw]
          BY <1>8, <2>1, <4>1, <5>1
        <5>3. QED
          BY <4>1, <5>1, <5>2
      <4>4. QED
        BY <4>2, <4>3
    <3>3. QED
      BY <3>1, <3>2 DEF SeenInv
  <2>4. ASSUME NEW u \in Accounts, NEW p \in Guesses, NEW q \in Workers, Waits(q, u, p)
        PROVE  Waits(q, u, p)'
    BY <1>1, <1>3, <1>4, <2>4 DEF Waits, UserFull
  <2>5. ASSUME NEW u \in Accounts
        PROVE  \E s, b : Placed(u, s, b)'
    <3>1. PICK slot, by : Placed(u, slot, by)
      BY DEF GuessInv, PlaceInv
    <3>2. CASE u # a.name
      <4>1. \A p \in Guesses : seen'[u][p] = seen[u][p]
        BY <2>1, <3>2
      <4>2. Open(u)' = Open(u) /\ Open(u) \subseteq Guesses
        BY <4>1 DEF Open
      <4>3. \A p \in Open(u)', j \in 1..UserLimit :
              userHits[u][j] <= seen[u][p] => userHits'[u][j] <= seen'[u][p]
        BY <1>3, <4>1, <4>2
      <4>4. QED
        BY <2>4, <3>1, <4>2, <4>3, PlacesStay
    <3>3. CASE u = a.name
      <4>1. PICK p \in Guesses : p = a.pw
        BY <1>2, <1>8
      <4>2. seen[u][p] = None /\ seen'[u][p] = 0 /\ \A r \in Guesses \ {p} : seen'[u][r] = seen[u][r]
        BY <1>8, <2>1, <3>3, <4>1
      <4>3. p \notin Open(u) /\ Open(u)' = Open(u) \cup {p} /\ Open(u) \subseteq Guesses
        BY <1>0, <4>2 DEF Open
      <4>4. dedup2[u][p] = 0
        <5>1. ~(dedup2[u][p] > 0) /\ dedup2[u][p] \in 0..UserDedup
          BY <1>0, <4>2 DEF GuessInv, SeenInv
        <5>2. QED
          BY <5>1
      <4>5. ~UserFull(u)
        <5>1. a.ip \in Ips /\ exempt[a.ip] \in 0..Exemption
          BY LimitConstants DEF Attempt, IInv, TypeOK
        <5>2. Bucket(a) = a.name /\ ChecksUser(a) /\ exempt[a.ip] = 0
          BY <1>8, <5>1 DEF Apart
        <5>3. QED
          BY <1>1, <3>3, <5>2 DEF Fail, MayAnswer
      <4>6. Waits(w, u, p)'
        BY <1>3, <1>4, <1>8, <3>3, <4>1, <4>4, <4>5 DEF Waits, UserFull
      <4>7. \A r \in Open(u) : seen'[u][r] = seen[u][r]
        BY <4>2, <4>3
      <4>8. QED
        BY <1>1, <1>3, <2>4, <3>1, <4>3, <4>6, <4>7, NewPlace
    <3>4. QED
      BY <3>2, <3>3
  <2>6. QED
    BY <2>2, <2>3, <2>5 DEF GuessInv, PlaceInv
<1>9. QED
  BY <1>7, <1>8

\* A hit that is kept pushes every place one slot on: what waited is at the new hit, and
\* the slot that falls out was older than every answer in the window.
LEMMA PlacesShift ==
  ASSUME IInv, NEW u \in Accounts, NEW slot, NEW by, Placed(u, slot, by), ~UserFull(u),
         userHits'[u] = Pushed(userHits[u], UserLimit, UserWindow), UNCHANGED seen
  PROVE  \E s, b : Placed(u, s, b)'
<1> USE Positive
<1>1. slot \in [Open(u) -> 0..UserLimit] /\ by \in [Open(u) -> Workers] /\ Open(u)' = Open(u)
  BY DEF Placed, Open
<1>2. userHits[u] \in [1..UserLimit -> 0..UserWindow]
  BY DEF IInv, TypeOK, Ages, Buckets, Names
<1>3. userHits[u][UserLimit] = UserWindow
  BY <1>2 DEF UserFull
<1>4. userHits'[u] = [i \in 1..UserLimit |-> IF i = 1 THEN 0 ELSE userHits[u][i - 1]]
  BY <1>3 DEF Pushed
<1>5. ASSUME NEW p \in Open(u)
      PROVE  seen[u][p] \in 0..UserWindow - 1 /\ slot[p] \in 0..UserLimit - 1
  <2>1. seen[u][p] \in 0..UserWindow - 1 /\ slot[p] \in 0..UserLimit
    BY <1>1, <1>5 DEF Open
  <2>2. slot[p] # UserLimit
    <3>1. SUFFICES ASSUME slot[p] = UserLimit PROVE FALSE
      OBVIOUS
    <3>2. userHits[u][UserLimit] <= seen[u][p]
      BY <3>1 DEF Placed
    <3>3. QED
      BY <1>3, <2>1, <3>2
  <2>3. QED
    BY <2>1, <2>2
<1>6. PICK s : s = [p \in Open(u) |-> slot[p] + 1]
  OBVIOUS
<1>7. s \in [Open(u) -> 0..UserLimit]
  BY <1>5, <1>6
<1>8. \A p, q \in Open(u) : s[p] = s[q] /\ by[p] = by[q] => p = q
  <2>1. \A p, q \in Open(u) : s[p] = s[q] => slot[p] = slot[q]
    BY <1>1, <1>6
  <2>2. QED
    BY <2>1 DEF Placed
<1>9. ASSUME NEW p \in Open(u)
      PROVE  s[p] # 0 /\ userHits'[u][s[p]] <= seen'[u][p]
  <2>1. s[p] = slot[p] + 1 /\ s[p] \in 1..UserLimit /\ seen'[u][p] = seen[u][p]
    BY <1>5, <1>6
  <2>2. CASE slot[p] = 0
    <3>1. userHits'[u][s[p]] = 0
      BY <1>4, <2>1, <2>2
    <3>2. QED
      BY <1>5, <2>1, <3>1
  <2>3. CASE slot[p] # 0
    <3>1. userHits'[u][s[p]] = userHits[u][slot[p]]
      BY <1>4, <1>5, <2>1, <2>3
    <3>2. userHits[u][slot[p]] <= seen[u][p]
      BY <2>3 DEF Placed
    <3>3. QED
      BY <1>5, <2>1, <3>1, <3>2
  <2>4. QED
    BY <2>2, <2>3
<1>10. Placed(u, s, by)'
  BY <1>1, <1>7, <1>8, <1>9 DEF Placed
<1>11. QED
  BY <1>10

\* Counting a failure: against the account, its places shift or the limit was reached and
\* nobody waits; against a device cookie, its secret is not in the window.
LEMMA GuessHit ==
  ASSUME IInv, GuessInv, [Next]_vars, NEW w \in Workers, HitUser(w)
  PROVE  GuessInv'
<1> USE Positive
<1>0. /\ work \in [Workers -> WorkRec]
      /\ dedup2 \in [Accounts -> [Guesses -> 0..UserDedup]]
      /\ DOMAIN userHits = Buckets /\ Accounts \subseteq Buckets
  BY DEF IInv, TypeOK, WorkRec, Buckets, Names
<1>1. PICK a \in Attempts : /\ a = work[w].a /\ a.name \in Accounts /\ a.pw \in Guesses
                            /\ work[w].pc = "hit"
  BY DEF HitUser, IInv, WorkOK
<1>2. UNCHANGED <<seen, owner, exempt>>
  BY DEF HitUser
<1>3. /\ \A q \in Workers \ {w} : work'[q] = work[q]
      /\ work'[w].pc = "ip"
  BY <1>0 DEF HitUser, At, WorkRec
<1>4. \A u \in Accounts, p \in Guesses : u # a.name \/ p # a.pw => dedup2'[u][p] = dedup2[u][p]
  BY <1>0, <1>1 DEF HitUser
<1>5. seen[a.name][a.pw] # None /\ (Bucket(a) # a.name => seen[a.name][a.pw] = UserWindow)
  BY <1>1 DEF GuessInv, SeenInv
<1>6. Bucket(a) \in Buckets /\ (Bucket(a) \in Accounts => Bucket(a) = a.name)
  BY <1>1, BucketIs, LimitConstants DEF Bucket, Attempt, Names
<1>7. \A b \in Buckets : userHits'[b] = IF b = Bucket(a) THEN Pushed(userHits[b], UserLimit, UserWindow)
                                        ELSE userHits[b]
  BY <1>0, <1>1 DEF HitUser
<1>8. IssuedInv'
  BY IssuedStep DEF GuessInv
<1>9. SeenInv'
  <2>1. ASSUME NEW u \in Accounts, NEW p \in Guesses, dedup2'[u][p] > 0
        PROVE  seen'[u][p] # None
    BY <1>2, <1>4, <1>5, <2>1 DEF GuessInv, SeenInv
  <2>2. \A b \in Attempts : Bucket(b)' = Bucket(b)
    BY <1>2 DEF Bucket
  <2>3. QED
    BY <1>2, <1>3, <2>1, <2>2 DEF GuessInv, SeenInv
<1>10. ASSUME NEW u \in Accounts
       PROVE  \E s, b : Placed(u, s, b)'
  <2>1. PICK slot, by : Placed(u, slot, by)
    BY DEF GuessInv, PlaceInv
  <2>2. CASE Bucket(a) = u /\ ~UserFull(u)
    BY <1>0, <1>2, <1>7, <2>1, <2>2, PlacesShift
  <2>3. CASE ~(Bucket(a) = u /\ ~UserFull(u))
    <3>1. userHits'[u] = userHits[u]
      BY <1>0, <1>7, <2>3 DEF Pushed, UserFull
    <3>2. Open(u)' = Open(u) /\ Open(u) \subseteq Guesses
      BY <1>2 DEF Open
    <3>3. ASSUME NEW p \in Open(u), NEW q \in Workers, Waits(q, u, p)
          PROVE  Waits(q, u, p)'
      <4>1. ~UserFull(u) /\ Bucket(a) # u
        BY <2>3, <3>3 DEF Waits
      <4>2. u # a.name \/ p # a.pw
        <5>1. SUFFICES ASSUME u = a.name, p = a.pw PROVE FALSE
          OBVIOUS
        <5>2. seen[u][p] = UserWindow
          BY <1>5, <4>1, <5>1
        <5>3. seen[u][p] \in 0..UserWindow - 1
          BY <3>3 DEF Open
        <5>4. QED
          BY <5>2, <5>3
      <4>3. q # w
        BY <1>1, <3>3, <4>2 DEF Waits
      <4>4. QED
        BY <1>3, <1>4, <3>1, <3>2, <3>3, <4>2, <4>3 DEF Waits, UserFull
    <3>4. \A p \in Open(u)', j \in 1..UserLimit :
            userHits[u][j] <= seen[u][p] => userHits'[u][j] <= seen'[u][p]
      BY <1>2, <3>1
    <3>5. QED
      BY <2>1, <3>2, <3>3, <3>4, PlacesStay
  <2>4. QED
    BY <2>2, <2>3
<1>11. QED
  BY <1>8, <1>9, <1>10 DEF GuessInv, PlaceInv

\* Every step keeps a place for every password that counts.
LEMMA GuessStep == IInv /\ GuessInv /\ [Next]_vars => GuessInv'
<1> SUFFICES ASSUME IInv, GuessInv, [Next]_vars PROVE GuessInv'
  OBVIOUS
<1>1. CASE UNCHANGED vars
  <2>1. UNCHANGED <<userHits, dedup2, owner, work, seen>>
    BY <1>1 DEF vars, limits
  <2>2. ASSUME NEW u, NEW slot, NEW by, Placed(u, slot, by)
        PROVE  Placed(u, slot, by)'
    BY <2>1, <2>2 DEF Placed, Open, Waits, UserFull
  <2>3. PlaceInv'
    BY <2>2 DEF GuessInv, PlaceInv
  <2>4. SeenInv'
    BY <2>1 DEF GuessInv, SeenInv, Bucket
  <2>5. QED
    BY <2>1, <2>3, <2>4 DEF GuessInv, IssuedInv
<1>2. QED
  BY <1>1, GuessTick, GuessQuiet, GuessCount, GuessFail, GuessHit DEF Next

LEMMA GuessInit == Init => GuessInv
<1> SUFFICES ASSUME Init PROVE GuessInv
  OBVIOUS
<1>1. SeenInv /\ IssuedInv
  BY Positive DEF Init, SeenInv, IssuedInv, Idle
<1>2. ASSUME NEW u \in Accounts
      PROVE  Placed(u, [p \in {} |-> 0], [p \in {} |-> 0])
  <2>1. Open(u) = {}
    BY LimitConstants, Positive DEF Init, Open
  <2>2. QED
    BY <2>1 DEF Placed
<1>3. QED
  BY <1>1, <1>2 DEF GuessInv, PlaceInv

\* There are as many places as hits and workers: either the limit is reached and nothing
\* waits, or the oldest hit is outside the window and no place is there.
LEMMA PlacesBound ==
  ASSUME IInv, NEW u \in Accounts, NEW slot, NEW by, Placed(u, slot, by)
  PROVE  Cardinality(Open(u)) <= UserLimit * Cardinality(Workers)
<1> USE Positive
<1>1. slot \in [Open(u) -> 0..UserLimit] /\ by \in [Open(u) -> Workers]
  BY DEF Placed
<1>2. userHits[u] \in [1..UserLimit -> 0..UserWindow]
  BY DEF IInv, TypeOK, Ages, Buckets, Names
<1> DEFINE up == IF UserFull(u) THEN 0 ELSE 1
           f == [p \in Open(u) |-> <<slot[p] + up, by[p]>>]
           Places == (1..UserLimit) \X Workers
<1>3. ASSUME NEW p \in Open(u)
      PROVE  slot[p] + up \in 1..UserLimit
  <2>1. seen[u][p] \in 0..UserWindow - 1 /\ slot[p] \in 0..UserLimit
    BY <1>1, <1>3 DEF Open
  <2>2. CASE UserFull(u)
    <3>1. slot[p] # 0
      BY <2>2 DEF Placed, Waits
    <3>2. QED
      BY <2>1, <2>2, <3>1
  <2>3. CASE ~UserFull(u)
    <3>1. userHits[u][UserLimit] = UserWindow
      BY <1>2, <2>3 DEF UserFull
    <3>2. slot[p] # UserLimit
      BY <2>1, <3>1 DEF Placed
    <3>3. QED
      BY <2>1, <2>3, <3>2
  <2>4. QED
    BY <2>2, <2>3
<1>4. f \in [Open(u) -> Places]
  BY <1>1, <1>3
<1>5. ASSUME NEW p \in Open(u), NEW q \in Open(u), f[p] = f[q]
      PROVE  p = q
  <2>1. slot[p] + up = slot[q] + up /\ by[p] = by[q]
    BY <1>5
  <2>2. slot[p] = slot[q]
    BY <1>1, <2>1
  <2>3. QED
    BY <2>1, <2>2 DEF Placed
<1> HIDE DEF f
<1>6. f \in Injection(Open(u), Places)
  BY <1>4, <1>5 DEF Injection, IsInjective
<1>7. IsFiniteSet(1..UserLimit) /\ Cardinality(1..UserLimit) = UserLimit
  BY FS_Interval
<1>8. IsFiniteSet(Places) /\ Cardinality(Places) = UserLimit * Cardinality(Workers)
  BY <1>7, FS_Product, LimitConstants
<1> HIDE DEF Places
<1>9. QED
  BY <1>6, <1>8, FS_Injection

\* However workers interleave their checks and counts, the passwords of one account that
\* are tried for the first time within AUTH_RATELIMIT_USER's window, under that limit, are
\* at most the limit times the workers.
THEOREM GuessesBounded == Spec => []GuessBound
<1>1. IInv /\ GuessInv => GuessBound
  <2>1. SUFFICES ASSUME IInv, GuessInv, NEW u \in Accounts
                 PROVE  Cardinality(Open(u)) <= UserLimit * Cardinality(Workers)
    BY DEF GuessBound, Open
  <2>2. PICK slot, by : Placed(u, slot, by)
    BY <2>1 DEF GuessInv, PlaceInv
  <2>3. QED
    BY <2>1, <2>2, PlacesBound
<1>2. QED
  BY <1>1, GuessInit, GuessStep, Invariance, PTL DEF Spec
=============================================================================
