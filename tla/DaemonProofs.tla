----------------------------- MODULE DaemonProofs ----------------------------
(***************************************************************************)
(* The two programs that Mailu runs around the daemons.                    *)
(*                                                                         *)
(* Certs.  For any hostnames and any number of failures, crashes and       *)
(* restarts: the types, that letsencrypt.py rests only on deployed         *)
(* certificates, and that it gives up no hostname while its certificates   *)
(* can wait.                                                               *)
(*                                                                         *)
(* RestsDeployed is not inductive: the loop goes to sleep because it sees  *)
(* no marker.  What makes that right is that whatever takes the deployed   *)
(* state away leaves a marker (Owing), and that the markers are removed    *)
(* only where the state is deployed (Reached).                             *)
(***************************************************************************)
EXTENDS Certs, LogFilter, FiniteSetTheorems, TLAPS

Good == tls /\ \A t \in KeyTypes : loaded[t] /\ cert[t].chain = "good"
Owing == flavor = "letsencrypt" => Good \/ markers \cap {"renewed", "required"} # {}
Reached == pc \in {"deployed", "redeployed", "day"} => Good
DeployReady == pc = "deploy" => Ready
\* The certificates belong to one flavor, the daemon's state to that flavor too.
Apart == flavor = "cert" => pc = "top"
IInv == TypeOK /\ Owing /\ Reached /\ DeployReady /\ Apart

USE CertsConstants

-----------------------------------------------------------------------------
\* A run of config.py that ends well with the files in place deploys them.
LEMMA ConfigDeploys ==
  ASSUME TypeOK, Ready, ConfigSucceeds, UNCHANGED cert
  PROVE  Good'
BY DEF TypeOK, Ready, ConfigSucceeds, Accepted, Good, KeyTypes, Certificate

\* Nothing that Good depends on changed.
LEMMA GoodKept ==
  ASSUME Good, UNCHANGED <<tls, loaded, cert>>
  PROVE  Good'
BY DEF Good

\* config.py leaves the types alone.
LEMMA ConfigTypes ==
  ASSUME TypeOK, ConfigSucceeds \/ ConfigFails
  PROVE  tls' \in BOOLEAN /\ loaded' \in [KeyTypes -> BOOLEAN] /\ faults' \in 0 .. MaxFaults
<1>1. CASE ConfigSucceeds
  <2>1. Ready \in BOOLEAN
    BY DEF Ready
  <2>2. QED
    BY <1>1, <2>1 DEF TypeOK, ConfigSucceeds
<1>2. CASE ConfigFails
  BY <1>2 DEF TypeOK, ConfigFails, Fault
<1>3. QED
  BY <1>1, <1>2

LEMMA RepeatType ==
  ASSUME NEW K, NEW kind \in K, NEW S \in SUBSET Names
  PROVE  Repeat(kind, S) \in Seq(K)
<1>1. IsFiniteSet({"cert"} \cup {"key"})
  BY FS_Singleton, FS_Union
<1>2. S \in SUBSET ({"cert"} \cup {"key"})
  BY DEF Names
<1>3. Cardinality(S) \in Nat
  BY <1>1, <1>2, FS_Subset, FS_CardinalityType
<1>4. QED
  BY <1>3 DEF Repeat

-----------------------------------------------------------------------------
LEMMA InitType == Init => TypeOK
<1> SUFFICES ASSUME Init PROVE TypeOK
  OBVIOUS
<1>1. tls \in BOOLEAN /\ loaded \in [KeyTypes -> BOOLEAN] /\ rendered \in BOOLEAN
  BY DEF Init, Pair, Ready, Accepted
<1>2. cert \in [KeyTypes -> Certificate]
  BY DEF Init, Certificate
<1>3. file \in [Names -> 0 .. 2] /\ served \in 0 .. 2
  <2>1. file \in [Names -> 0 .. 1]
    BY DEF Init
  <2>2. "key" \in Names
    BY DEF Names
  <2>3. file["key"] \in 0 .. 1
    BY <2>1, <2>2
  <2>4. file.key \in 0 .. 1
    BY <2>3
  <2>5. served \in 0 .. 2
    BY <2>4 DEF Init
  <2>6. QED
    BY <2>1, <2>5
<1>4. markers \subseteq {"renewed", "required", "deploy"} /\ reach \subseteq Hosts
  BY DEF Init
<1>5. seen \subseteq Names /\ changed \in [Names -> {"no", "modified", "replaced"}]
  BY DEF Init
<1>6. events \in Seq({"created", "modified", "deleted"})
  BY DEF Init
<1>7. faults \in 0 .. MaxFaults /\ writes \in 0 .. MaxWrites
  BY DEF Init
<1>8. flavor \in Flavors /\ rsaOk \in BOOLEAN /\ need \in BOOLEAN /\ pc = "top"
  BY DEF Init
<1>9. QED
  BY <1>1, <1>2, <1>3, <1>4, <1>5, <1>6, <1>7, <1>8 DEF TypeOK

\* The steps of letsencrypt.py and what happens around it.
LEMMA LetsencryptType ==
  ASSUME TypeOK, Letsencrypt \/ Crash \/ Restart \/ \E t \in KeyTypes : Age(t)
  PROVE  TypeOK'
<1> USE DEF Goto
<1>1. CASE SkipDeploy
  BY <1>1 DEF TypeOK, SkipDeploy, watch
<1>2. CASE RetryDeploy
  <2>1. ConfigSucceeds \/ ConfigFails
    BY <1>2 DEF RetryDeploy
  <2>2. QED
    BY <1>2, <2>1, ConfigTypes DEF TypeOK, RetryDeploy, watch
<1>3. CASE Deploy
  <2>1. ConfigSucceeds \/ ConfigFails
    BY <1>3 DEF Deploy
  <2>2. markers' \subseteq {"renewed", "required", "deploy"}
    BY <1>3 DEF TypeOK, Deploy, Remembered
  <2>3. QED
    BY <1>3, <2>1, <2>2, ConfigTypes DEF TypeOK, Deploy, watch
<1>4. CASE ClearMarkers
  BY <1>4 DEF TypeOK, ClearMarkers, watch
<1>5. CASE Wake
  BY <1>5 DEF TypeOK, Wake, watch
<1>6. ASSUME NEW R \in SUBSET Hosts, Probe(R) PROVE TypeOK'
  BY <1>6 DEF TypeOK, Probe, Fault, watch
<1>7. ASSUME NEW t \in KeyTypes, NEW ok \in BOOLEAN, NEW m \in SUBSET {"renewed", "required", "deploy"},
             Certbot(t, ok, m), cert' \in [KeyTypes -> Certificate],
             loaded' \in [KeyTypes -> BOOLEAN], faults' \in 0 .. MaxFaults
      PROVE  TypeOK'
  BY <1>7 DEF TypeOK, Certbot, Follow, watch
<1>8. ASSUME NEW t \in KeyTypes, CertbotKeeps(t) PROVE TypeOK'
  BY <1>7, <1>8 DEF TypeOK, CertbotKeeps
<1>9. ASSUME NEW t \in KeyTypes, NEW c \in {"good", "rejected"}, CertbotRenews(t, c) PROVE TypeOK'
  <2>1. cert' \in [KeyTypes -> Certificate] /\ loaded' \in [KeyTypes -> BOOLEAN]
    <3>1. [age |-> "fresh", chain |-> c, hosts |-> reach] \in Certificate
      BY <1>9 DEF TypeOK, Certificate
    <3>2. QED
      BY <1>9, <3>1 DEF TypeOK, CertbotRenews
  <2>2. Hooked(markers) \in SUBSET {"renewed", "required", "deploy"}
    BY DEF TypeOK, Hooked
  <2>3. QED
    BY <1>7, <1>9, <2>1, <2>2 DEF TypeOK, CertbotRenews
<1>10. ASSUME NEW t \in KeyTypes, CertbotFails(t) PROVE TypeOK'
  <2>1. faults' \in 0 .. MaxFaults
    BY <1>10 DEF TypeOK, CertbotFails, Fault
  <2>2. QED
    BY <1>7, <1>10, <2>1 DEF TypeOK, CertbotFails
<1>11. ASSUME NEW t \in KeyTypes, CertbotTimesOut(t) PROVE TypeOK'
  BY <1>11 DEF TypeOK, CertbotTimesOut, Fault, watch
<1>12. CASE Crash
  BY <1>12 DEF TypeOK, Crash, Fault, watch
<1>13. CASE Restart
  <2>1. tls' \in BOOLEAN
    BY <1>13 DEF Restart
  <2>2. QED
    BY <1>13, <2>1 DEF TypeOK, Restart, Bootstrapped, Fault, watch
<1>14. ASSUME NEW t \in KeyTypes, Age(t) PROVE TypeOK'
  <2>1. cert[t] \in Certificate
    BY DEF TypeOK
  <2>2. [cert[t] EXCEPT !.age = IF @ = "fresh" THEN "due" ELSE "expired"] \in Certificate
    BY <2>1 DEF Certificate
  <2>3. cert' \in [KeyTypes -> Certificate]
    BY <1>14, <2>2 DEF TypeOK, Age
  <2>4. QED
    BY <1>14, <2>3 DEF TypeOK, Age, watch
<1>15. QED
  BY <1>1, <1>2, <1>3, <1>4, <1>5, <1>6, <1>8, <1>9, <1>10, <1>11, <1>12, <1>13, <1>14
     DEF Letsencrypt

\* The steps of certwatcher.py and of whoever changes the files.
LEMMA CertwatcherType ==
  ASSUME TypeOK, Certwatcher \/ \E n \in Names, c \in 0 .. 2 : Write(n, c)
  PROVE  TypeOK'
<1> DEFINE Kinds == {"created", "modified", "deleted"}
<1>1. Pair(file) \in BOOLEAN
  BY DEF Pair
<1>2. file.key \in 0 .. 2
  <2>1. file["key"] \in 0 .. 2
    BY DEF TypeOK, Names
  <2>2. QED
    BY <2>1
<1>3. ASSUME NEW on \in BOOLEAN, Hup(on) PROVE tls' \in BOOLEAN /\ served' \in 0 .. 2
  BY <1>2, <1>3 DEF TypeOK, Hup
<1>4. CASE on_any_event
  <2>1. tls' \in BOOLEAN /\ served' \in 0 .. 2 /\ rendered' \in BOOLEAN
    <3>1. CASE reload_nginx
      BY <1>3, <3>1 DEF TypeOK, reload_nginx
    <3>2. CASE reexec_config
      <4>1. CASE Pair(file) /\ file.cert # file.key
        BY <1>1, <3>2, <4>1 DEF TypeOK, reexec_config
      <4>2. CASE ~(Pair(file) /\ file.cert # file.key)
        <5>1. Hup(Pair(file))
          BY <3>2, <4>2 DEF reexec_config
        <5>2. tls' \in BOOLEAN /\ served' \in 0 .. 2
          BY <1>1, <1>3, <5>1
        <5>3. QED
          BY <1>1, <3>2, <5>2 DEF reexec_config
      <4>3. QED
        BY <4>1, <4>2
    <3>3. QED
      BY <1>4, <3>1, <3>2 DEF on_any_event
  <2>2. events' \in Seq(Kinds)
    BY <1>4 DEF TypeOK, on_any_event
  <2>3. QED
    BY <1>4, <2>1, <2>2 DEF TypeOK, on_any_event, acme
<1>5. CASE Poll
  <2> DEFINE now == {n \in Names : file[n] # 0}
             replaced == {n \in Names : changed[n] = "replaced"}
             modified == {n \in Names : changed[n] = "modified"}
             D == Repeat("deleted", seen \cap replaced)
             M == Repeat("modified", seen \cap now \cap modified)
             C == Repeat("created", now \cap replaced)
  <2>1. D \in Seq(Kinds) /\ M \in Seq(Kinds) /\ C \in Seq(Kinds)
    <3>1. "deleted" \in Kinds /\ "modified" \in Kinds /\ "created" \in Kinds
      OBVIOUS
    <3>2. /\ seen \cap replaced \in SUBSET Names
          /\ seen \cap now \cap modified \in SUBSET Names
          /\ now \cap replaced \in SUBSET Names
      OBVIOUS
    <3> HIDE DEF Kinds, now, replaced, modified
    <3>3. QED
      BY <3>1, <3>2, RepeatType
  <2>2. events \in Seq(Kinds)
    BY DEF TypeOK
  <2>3. events' = events \o D \o M \o C /\ seen' = now
    BY <1>5 DEF Poll
  <2>4. events' \in Seq(Kinds)
    <3> HIDE DEF Kinds, D, M, C
    <3>1. QED
      BY <2>1, <2>2, <2>3
  <2>5. seen' \subseteq Names
    BY <2>3
  <2>6. QED
    BY <1>5, <2>4, <2>5 DEF TypeOK, Poll, acme
<1>6. ASSUME NEW n \in Names, NEW c \in 0 .. 2, Write(n, c) PROVE TypeOK'
  <2>1. changed' \in [Names -> {"no", "modified", "replaced"}]
    BY <1>6 DEF TypeOK, Write
  <2>2. file' \in [Names -> 0 .. 2] /\ writes' \in 0 .. MaxWrites
    BY <1>6 DEF TypeOK, Write
  <2>3. QED
    BY <1>6, <2>1, <2>2 DEF TypeOK, Write, acme
<1>7. QED
  BY <1>4, <1>5, <1>6 DEF Certwatcher

LEMMA TypeStep == TypeOK /\ [Next]_vars => TypeOK'
<1> SUFFICES ASSUME TypeOK, [Next]_vars PROVE TypeOK'
  OBVIOUS
<1>1. CASE Next
  BY <1>1, LetsencryptType, CertwatcherType DEF Next
<1>2. CASE UNCHANGED vars
  BY <1>2 DEF TypeOK, vars, acme, watch
<1>3. QED
  BY <1>1, <1>2

\* The types: for any hostnames, and however often certbot, config.py and
\* the container fail.
THEOREM TypeCorrect == Spec => []TypeOK
BY InitType, TypeStep, PTL DEF Spec

-----------------------------------------------------------------------------
LEMMA InitInv == Init => IInv
<1> SUFFICES ASSUME Init PROVE IInv
  OBVIOUS
<1>1. TypeOK
  BY InitType
<1>2. ASSUME flavor = "letsencrypt", tls PROVE Good
  <2>1. Ready /\ Accepted
    BY <1>2 DEF Init
  <2>2. \A t \in KeyTypes : cert[t].chain = "good"
    BY <2>1 DEF Ready, Accepted
  <2>3. QED
    BY <1>2, <2>2 DEF Init, Good
<1>3. Owing
  BY <1>2 DEF Init, Owing
<1>4. QED
  BY <1>1, <1>3 DEF Init, IInv, Reached, DeployReady, Apart

\* Steps of letsencrypt.py that leave certificates and markers alone.
LEMMA GoesOn ==
  ASSUME IInv, UNCHANGED <<flavor, tls, loaded, cert, markers>>
  PROVE  Owing'
BY DEF IInv, Owing, Good

LEMMA InvStep == IInv /\ [Next]_vars => IInv'
<1> SUFFICES ASSUME IInv, [Next]_vars PROVE IInv'
  OBVIOUS
<1>1. TypeOK'
  BY TypeStep DEF IInv
<1> DEFINE Rest == Owing /\ Reached /\ DeployReady /\ Apart
<1>2. ASSUME flavor = "letsencrypt", Letsencrypt \/ Crash \/ Restart \/ \E t \in KeyTypes : Age(t)
      PROVE  Rest'
  <2>0. flavor' = "letsencrypt"
    BY <1>2 DEF Letsencrypt, SkipDeploy, RetryDeploy, Deploy, ClearMarkers, Wake, Probe, CertbotKeeps,
       CertbotFails, CertbotTimesOut, CertbotRenews, Certbot, Crash, Restart, Age, Goto
  <2>1. CASE SkipDeploy
    BY <2>0, <2>1 DEF SkipDeploy, Goto, IInv, Owing, Good, Reached, DeployReady, Apart
  <2>2. CASE RetryDeploy
    <3>1. CASE ConfigSucceeds /\ Goto("redeployed")
      <4>1. Good'
        BY <2>2, <3>1, ConfigDeploys DEF RetryDeploy, Pending, IInv
      <4>2. QED
        BY <2>0, <3>1, <4>1 DEF Goto, Owing, Reached, DeployReady, Apart
    <3>2. CASE ConfigFails /\ Goto("hour")
      BY <2>0, <2>2, <3>2, GoesOn DEF RetryDeploy, ConfigFails, Goto, Reached, DeployReady, Apart
    <3>3. QED
      BY <2>2, <3>1, <3>2 DEF RetryDeploy
  <2>3. CASE Deploy
    <3>1. CASE ConfigSucceeds /\ Goto("deployed")
      <4>1. Good'
        BY <2>3, <3>1, ConfigDeploys DEF Deploy, IInv, DeployReady
      <4>2. QED
        BY <2>0, <3>1, <4>1 DEF Goto, Owing, Reached, DeployReady, Apart
    <3>2. CASE ConfigFails /\ markers' = Remembered /\ Goto("hour")
      <4>1. markers \subseteq markers'
        BY <3>2 DEF Remembered
      <4>2. Owing'
        BY <1>2, <2>3, <3>2, <4>1 DEF Deploy, ConfigFails, IInv, Owing, Good
      <4>3. QED
        BY <2>0, <3>2, <4>2 DEF Goto, Reached, DeployReady, Apart
    <3>3. QED
      BY <2>3, <3>1, <3>2 DEF Deploy
  <2>4. CASE ClearMarkers
    <3>1. Good'
      BY <2>4, GoodKept DEF ClearMarkers, IInv, Reached
    <3>2. QED
      BY <2>0, <2>4, <3>1 DEF ClearMarkers, Goto, Owing, Reached, DeployReady, Apart
  <2>5. CASE Wake
    BY <2>0, <2>5, GoesOn DEF Wake, Goto, Reached, DeployReady, Apart
  <2>6. ASSUME NEW R \in SUBSET Hosts, Probe(R) PROVE Rest'
    BY <2>0, <2>6, GoesOn DEF Probe, Goto, Reached, DeployReady, Apart
  \* After certbot: the next step is to deploy, or there is no marker left.
  <2>7. ASSUME NEW t \in KeyTypes, NEW ok, NEW m, Certbot(t, ok, m), Owing'
        PROVE  Rest'
    <3>1. CASE t = "rsa"
      BY <2>0, <2>7, <3>1 DEF Certbot, Goto, Reached, DeployReady, Apart
    <3>2. CASE t # "rsa"
      <4>1. pc' = Follow(ok, m) /\ markers' = m
        BY <2>7, <3>2 DEF Certbot, Goto
      <4>2. pc' = "deploy" => Ready'
        BY <4>1 DEF Follow
      <4>3. pc' = "day" => Good'
        BY <2>0, <2>7, <4>1 DEF Follow, Owing
      <4>4. pc' \in {"hour", "deploy", "day"}
        BY <4>1 DEF Follow
      <4>5. QED
        BY <2>0, <2>7, <4>2, <4>3, <4>4 DEF Reached, DeployReady, Apart
    <3>3. QED
      BY <3>1, <3>2
  <2>8. ASSUME NEW t \in KeyTypes, CertbotKeeps(t) PROVE Rest'
    <3>1. Owing'
      BY <2>0, <2>8, GoesOn, <1>2 DEF CertbotKeeps, Certbot
    <3>2. QED
      BY <2>7, <2>8, <3>1 DEF CertbotKeeps
  <2>9. ASSUME NEW t \in KeyTypes, NEW c \in {"good", "rejected"}, CertbotRenews(t, c) PROVE Rest'
    <3>1. Owing'
      BY <2>9 DEF CertbotRenews, Certbot, Hooked, Owing
    <3>2. QED
      BY <2>7, <2>9, <3>1 DEF CertbotRenews
  <2>10. ASSUME NEW t \in KeyTypes, CertbotFails(t) PROVE Rest'
    <3>1. Owing'
      BY <2>0, <2>10, GoesOn, <1>2 DEF CertbotFails, Certbot
    <3>2. QED
      BY <2>7, <2>10, <3>1 DEF CertbotFails
  <2>11. ASSUME NEW t \in KeyTypes, CertbotTimesOut(t) PROVE Rest'
    BY <2>0, <2>11, GoesOn DEF CertbotTimesOut, Goto, Reached, DeployReady, Apart
  <2>12. CASE Crash
    BY <2>0, <2>12, GoesOn DEF Crash, Goto, Reached, DeployReady, Apart
  <2>13. CASE Restart
    <3>1. pc' = "top"
      BY <2>13 DEF Restart, Goto
    <3>2. CASE tls'
      <4>1. Ready /\ Accepted
        BY <2>13, <3>2 DEF Restart
      <4>2. \A t \in KeyTypes : cert[t].chain = "good"
        BY <4>1 DEF Ready, Accepted
      <4>3. Good'
        BY <2>13, <3>2, <4>2 DEF Restart, Good
      <4>4. QED
        BY <2>0, <3>1, <4>3 DEF Owing, Reached, DeployReady, Apart
    <3>3. CASE ~tls'
      <4>1. "required" \in markers'
        BY <2>13, <3>3 DEF Restart, Bootstrapped
      <4>2. QED
        BY <2>0, <3>1, <4>1 DEF Owing, Reached, DeployReady, Apart
    <3>4. QED
      BY <3>2, <3>3
  <2>14. ASSUME NEW t \in KeyTypes, Age(t) PROVE Rest'
    <3>1. \A u \in KeyTypes : cert'[u].chain = cert[u].chain
      BY <2>14 DEF IInv, TypeOK, Age, Certificate
    <3>2. Ready => Ready'
      BY <2>14 DEF IInv, TypeOK, Age, Certificate, Ready
    <3>3. Good => Good'
      BY <2>14, <3>1 DEF Age, Good
    <3>4. QED
      BY <2>0, <2>14, <3>2, <3>3 DEF Age, IInv, Owing, Reached, DeployReady, Apart
  <2>15. QED
    BY <1>2, <2>1, <2>2, <2>3, <2>4, <2>5, <2>6, <2>8, <2>9, <2>10, <2>11, <2>12, <2>13, <2>14
       DEF Letsencrypt
<1>3. ASSUME flavor = "cert", Certwatcher \/ \E n \in Names, c \in 0 .. 2 : Write(n, c)
      PROVE  Rest'
  <2>1. UNCHANGED <<flavor, pc>>
    BY <1>3 DEF Certwatcher, Poll, on_any_event, Write, acme
  <2>2. QED
    BY <1>3, <2>1 DEF IInv, Owing, Reached, DeployReady, Apart
<1>4. ASSUME UNCHANGED vars PROVE Rest'
  BY <1>4 DEF vars, acme, IInv, Owing, Good, Reached, DeployReady, Ready, Apart
<1>5. QED
  <2>1. Rest'
    BY <1>2, <1>3, <1>4 DEF Next
  <2>2. QED
    BY <1>1, <2>1 DEF IInv

\* letsencrypt.py sleeps for a day only when nginx has the certificates that
\* are on disk and their chains verify: for any hostnames, and any sequence of
\* failures of certbot and config.py, crashes and restarts.
THEOREM RestsOnDeployed == Spec => []RestsDeployed
<1>1. IInv => RestsDeployed
  BY DEF IInv, Reached, Good, RestsDeployed
<1>2. QED
  BY <1>1, InitInv, InvStep, PTL DEF Spec

-----------------------------------------------------------------------------
\* certbot is run for fewer than all hostnames only when the probe saw a need.
Covering == pc \in {"rsa", "ecdsa"} => reach = Hosts \/ need

LEMMA CoveringStep == TypeOK /\ Covering /\ [Next]_vars => Covering'
<1> SUFFICES ASSUME TypeOK, Covering, [Next]_vars, pc' \in {"rsa", "ecdsa"}
             PROVE  reach' = Hosts \/ need'
  BY DEF Covering
<1>1. ASSUME NEW R \in SUBSET Hosts, Probe(R)
      PROVE  reach' = Hosts \/ need'
  <2>1. ~KeepCurrent(R) /\ reach' = R
    BY <1>1 DEF Probe, Goto
  <2>2. need' = \E t \in KeyTypes : cert[t].age # "fresh" \/ cert[t].chain = "mismatch"
    BY <1>1 DEF Probe
  <2>3. CASE R # Hosts
    <3>1. \E t \in KeyTypes : cert[t].age # "fresh" \/ cert[t].chain = "mismatch"
      BY <2>1, <2>3 DEF KeepCurrent, Valid, RenewalDue
    <3>2. QED
      BY <2>2, <3>1, Zenon
  <2>4. QED
    BY <2>1, <2>3
<1>2. ASSUME NEW t \in KeyTypes,
             \/ CertbotKeeps(t) \/ CertbotFails(t) \/ CertbotTimesOut(t)
             \/ \E c \in {"good", "rejected"} : CertbotRenews(t, c)
      PROVE  reach' = Hosts \/ need'
  <2>1. pc \in {"rsa", "ecdsa"}
    BY <1>2 DEF CertbotKeeps, CertbotFails, CertbotTimesOut, CertbotRenews, KeyTypes
  <2>2. reach' = reach /\ need' = need
    BY <1>2 DEF CertbotKeeps, CertbotFails, CertbotTimesOut, CertbotRenews, Certbot
  <2>3. QED
    BY <2>1, <2>2 DEF Covering
<1>3. ASSUME \/ SkipDeploy \/ RetryDeploy \/ Deploy \/ ClearMarkers \/ Wake \/ Crash \/ Restart
      PROVE  FALSE
  BY <1>3 DEF SkipDeploy, RetryDeploy, Deploy, ClearMarkers, Wake, Crash, Restart, Goto
<1>4. ASSUME \/ \E t \in KeyTypes : Age(t)
             \/ Certwatcher \/ (\E n \in Names, c \in 0 .. 2 : Write(n, c)) \/ UNCHANGED vars
      PROVE  reach' = Hosts \/ need'
  <2>1. pc' = pc /\ reach' = reach /\ need' = need
    BY <1>4 DEF Age, Certwatcher, Poll, on_any_event, Write, acme, vars
  <2>2. QED
    BY <2>1 DEF Covering
<1>5. QED
  BY <1>1, <1>2, <1>3, <1>4 DEF Next, Letsencrypt

\* A hostname that does not answer for a while stays in both certificates as long as
\* neither is due or unusable: what the probe saw decides, whatever ages or fails while
\* certbot runs.
THEOREM HostnamesStay == Spec => CoverageKept
<1> DEFINE Kept == \A t \in KeyTypes : cert[t].hosts \subseteq cert'[t].hosts \/ need
<1>1. TypeOK /\ Covering /\ [Next]_vars => Kept
  <2> SUFFICES ASSUME TypeOK, Covering, [Next]_vars, NEW t \in KeyTypes, ~need
               PROVE  cert[t].hosts \subseteq cert'[t].hosts
    OBVIOUS
  <2>0. cert \in [KeyTypes -> Certificate] /\ cert[t].hosts \subseteq Hosts
    BY DEF TypeOK, Certificate
  <2>1. ASSUME NEW u \in KeyTypes, NEW c \in {"good", "rejected"}, CertbotRenews(u, c)
        PROVE  cert[t].hosts \subseteq cert'[t].hosts
    <3>1. reach = Hosts
      BY <2>1 DEF CertbotRenews, Covering, KeyTypes
    <3>2. cert'[t] = cert[t] \/ cert'[t].hosts = Hosts
      BY <2>0, <2>1, <3>1 DEF CertbotRenews
    <3>3. QED
      BY <2>0, <3>2
  <2>2. ASSUME NEW u \in KeyTypes, Age(u)
        PROVE  cert'[t].hosts = cert[t].hosts
    BY <2>0, <2>2 DEF Age, Certificate
  <2>3. CASE UNCHANGED cert
    BY <2>3
  <2>4. QED
    BY <2>1, <2>2, <2>3
       DEF Next, Letsencrypt, SkipDeploy, RetryDeploy, Deploy, ClearMarkers, Wake, Probe, CertbotKeeps,
           CertbotFails, CertbotTimesOut, Crash, Restart, Certwatcher, Poll, on_any_event, Write, acme, vars
<1>2. TypeOK /\ Covering /\ [Next]_vars => [Kept]_vars
  BY <1>1
<1>3. Init => Covering
  BY DEF Init, Covering
<1>4. QED
  BY <1>2, <1>3, CoveringStep, InitType, TypeStep, PTL DEF Spec, CoverageKept
-----------------------------------------------------------------------------
(***************************************************************************)
(* LogFilter.  For any outputs, lines, queue size and number of signals:   *)
(* when the log filter returns, nothing of the child is left behind; no    *)
(* line is lost without being counted; and buffers, queue and counters     *)
(* keep their types and bounds.                                            *)
(*                                                                         *)
(* The loop ends in three ways: the pipes are closed and the child was     *)
(* polled, the group is found gone, or it is killed.  Each way needs one   *)
(* of the facts below.                                                     *)
(***************************************************************************)
\* The leader runs exactly while it is a member of its group.
Group == /\ leader \in {"running", "zombie", "reaped"}
         /\ leader = "running" <=> "leader" \in alive

\* The selector watches the pipes that have not ended.
Watching ==
  /\ closed \subseteq Pipes /\ next \in {"top", "finish"}
  /\ at \notin {"sentinel", "join", "done"} => registered = Pipes \ closed /\ ready \subseteq registered

\* Once the loop has ended there is nothing to clean up.
Left == at \in {"finish", "sentinel", "join", "done"} =>
          leader = "reaped" /\ (alive = {} \/ closed = Pipes)

GroupInv == Group /\ Watching /\ Left

-----------------------------------------------------------------------------
LEMMA GroupInit == FilterInit => GroupInv
BY DEF FilterInit, GroupInv, Group, Watching, Left

\* What a step of the loop or of the writer leaves alone keeps the invariant.
LEMMA Stays ==
  ASSUME GroupInv, UNCHANGED <<leader, alive, closed, registered, ready, next>>, at' = at
  PROVE  GroupInv'
BY DEF GroupInv, Group, Watching, Left

\* So does a step from one place inside the loop to another.
LEMMA Moves ==
  ASSUME GroupInv, UNCHANGED <<leader, alive, closed, registered, next>>, ready' \subseteq registered,
         at \notin {"sentinel", "join", "done"},
         at' \notin {"finish", "sentinel", "join", "done"}
  PROVE  GroupInv'
BY DEF GroupInv, Group, Watching, Left

\* _stop_process_group leaves nothing behind, wherever main() goes on.
LEMMA Stopped ==
  ASSUME GroupInv, at = "grace", at' = next, leader' = "reaped", alive' = {},
         UNCHANGED <<closed, registered, ready, next>>
  PROVE  GroupInv'
BY DEF GroupInv, Group, Watching, Left

LEMMA GroupStep == GroupInv /\ [FilterNext]_filterVars => GroupInv'
<1> SUFFICES ASSUME GroupInv, [FilterNext]_filterVars PROVE GroupInv'
  OBVIOUS
<1> USE DEF GoOn
<1>0. ready \subseteq registered \/ at \in {"sentinel", "join", "done"}
  BY DEF GroupInv, Watching
<1>1. ASSUME NEW m \in {"leader", "helper"}, Exits(m) PROVE GroupInv'
  BY <1>1 DEF Exits, reader, GroupInv, Group, Watching, Left
<1>2. CASE LoopEnds
  <2>1. leader' = "reaped" /\ closed = Pipes
    BY <1>2 DEF LoopEnds, Polled, GroupInv, Group, Watching
  <2>2. QED
    BY <1>2, <2>1 DEF LoopEnds, reader, GroupInv, Group, Watching, Left
<1>3. CASE ForwardHup
  BY <1>0, <1>3, Moves DEF ForwardHup, child, reader
<1>4. CASE ForgetHup
  BY <1>0, <1>4, Moves DEF ForgetHup, child, reader
<1>5. CASE StopRequested
  BY <1>5 DEF StopRequested, NoReload, child, reader, GroupInv, Group, Watching, Left
<1>6. CASE Select
  BY <1>6, Moves DEF Select, NoReload, child
<1>7. ASSUME NEW p \in Pipes, NEW c \in Chunks, Read(p, c) PROVE GroupInv'
  BY <1>0, <1>7, Moves DEF Read, child
<1>8. ASSUME NEW p \in Pipes, EndOfPipe(p) PROVE GroupInv'
  <2>1. at = "events" /\ at' \in {"consume", "notice"}
    BY <1>8 DEF EndOfPipe, EmitLine
  <2>2. /\ closed' = closed \cup {p} /\ registered' = registered \ {p} /\ ready' = ready \ {p}
        /\ UNCHANGED <<leader, alive, next>>
    BY <1>8 DEF EndOfPipe, child
  <2>3. QED
    BY <2>1, <2>2 DEF GroupInv, Group, Watching, Left
<1>9. CASE SkipDiscarded \/ KeepPartial
  BY <1>9, Stays DEF SkipDiscarded, KeepPartial, child
<1>10. CASE TakeLine
  <2>1. at = "consume" /\ at' \in {"consume", "notice"}
    BY <1>10 DEF TakeLine, Consuming, EmitLine
  <2>2. UNCHANGED <<leader, alive, closed, registered, ready, next>>
    BY <1>10 DEF TakeLine, child
  <2>3. QED
    BY <1>0, <2>1, <2>2, Moves
<1>11. CASE Consumed
  BY <1>0, <1>11, Moves DEF Consumed, child
<1>12. CASE Notice \/ Line
  BY <1>0, <1>12, Moves DEF Notice, Line, child, reader
<1>13. CASE PollChild
  BY <1>13 DEF PollChild, Polled, reader, GroupInv, Group, Watching, Left
<1>14. CASE Raises
  BY <1>14 DEF Raises, child, reader, GroupInv, Group, Watching, Left
<1>15. CASE Term
  BY <1>0, <1>15, Moves DEF Term, child, reader
<1>16. CASE Gone
  <2>1. leader = "reaped" /\ alive = {}
    BY <1>16 DEF Gone, Exists, GroupInv, Group
  <2>2. QED
    BY <1>16, <2>1, Stopped DEF Gone, child, reader
<1>17. CASE Kill
  BY <1>17, Stopped DEF Kill, Killed, reader
<1>18. CASE Finish
  BY <1>18 DEF Finish, child, GroupInv, Group, Watching, Left
<1>19. CASE Sentinel \/ Join
  BY <1>19 DEF Sentinel, Join, child, reader, GroupInv, Group, Watching, Left
<1>20. CASE Writer \/ Terminate \/ RequestHup
  BY <1>20, Stays DEF Writer, Get, WriteItem, WriteFails, Terminate, RequestHup, child, reader
<1>21. CASE UNCHANGED filterVars
  BY <1>21, Stays DEF filterVars, child, reader
<1>22. QED
  BY <1>1, <1>2, <1>3, <1>4, <1>5, <1>6, <1>7, <1>8, <1>9, <1>10, <1>11, <1>12, <1>13, <1>14,
     <1>15, <1>16, <1>17, <1>18, <1>19, <1>20, <1>21 DEF FilterNext, Main, Done

\* When the filter returns, the child is reaped and no member of its group
\* that held a pipe is left, however lines, exits and signals interleave.
THEOREM NothingLeft == FilterSpec => []NoneLeft
<1>1. GroupInv => NoneLeft
  BY DEF GroupInv, Left, NoneLeft
<1>2. QED
  BY <1>1, GroupInit, GroupStep, PTL DEF FilterSpec
-----------------------------------------------------------------------------
\* What is queued: lines, notices and the sentinel.
Item == [pipe : Pipes, n : Nat] \cup {None}

\* The items of q stand for n lines of pipe p, as the partial sums show.
Tally(q, p, n) ==
  \E sum \in [0 .. Len(q) -> Nat] :
    /\ sum[0] = 0 /\ sum[Len(q)] = n
    /\ \A i \in 1 .. Len(q) : sum[i] = sum[i - 1] + Share(q[i], p)
    /\ \A i \in 0 .. Len(q), j \in 0 .. Len(q) : i <= j => sum[i] <= sum[j]

\* What main() counts while it handles a pipe, and what the writer may hold.
CountType ==
  /\ queue \in Seq(Item) /\ hand \in Item /\ disabled \subseteq Pipes
  /\ dropped \in [Pipes -> Nat] /\ due \in [Pipes -> Nat] /\ next \in {"top", "finish"}
  /\ at \in {"consume", "notice", "line"} => pipe \in Pipes
  /\ hand # None => hand.pipe \notin disabled

\* Every line of pipe p is in one place.
Counted(p) ==
  \E n \in Nat : /\ Tally(queue, p, n)
                 /\ due[p] = n + Share(hand, p) + Emitting(p) + dropped[p]

CountInv == CountType /\ \A p \in Pipes \ disabled : Counted(p)

LEMMA ShareNat ==
  ASSUME NEW x \in Item, NEW p
  PROVE  Share(x, p) \in Nat
BY DEF Share, Item, None

LEMMA TallyEmpty ==
  ASSUME NEW p
  PROVE  Tally(<<>>, p, 0)
<1> DEFINE sum == [i \in 0 .. 0 |-> 0]
<1>1. Len(<<>>) = 0 /\ sum \in [0 .. 0 -> Nat] /\ sum[0] = 0 /\ 1 .. 0 = {}
  OBVIOUS
<1>2. \A i \in 0 .. 0 : i = 0
  OBVIOUS
<1> HIDE DEF sum
<1>3. QED
  BY <1>1, <1>2 DEF Tally

\* Queueing an item adds what it stands for.
LEMMA TallyAppend ==
  ASSUME NEW q \in Seq(Item), NEW x \in Item, NEW p, NEW n \in Nat, Tally(q, p, n)
  PROVE  Tally(Append(q, x), p, n + Share(x, p))
<1> DEFINE r == Append(q, x)
           m == n + Share(x, p)
<1>1. PICK sum \in [0 .. Len(q) -> Nat] :
        /\ sum[0] = 0 /\ sum[Len(q)] = n
        /\ \A i \in 1 .. Len(q) : sum[i] = sum[i - 1] + Share(q[i], p)
        /\ \A i \in 0 .. Len(q), j \in 0 .. Len(q) : i <= j => sum[i] <= sum[j]
  BY DEF Tally
<1> DEFINE new == [i \in 0 .. Len(q) + 1 |-> IF i = Len(q) + 1 THEN m ELSE sum[i]]
<1>2. Len(q) \in Nat /\ Share(x, p) \in Nat
  BY ShareNat
<1>3. Len(r) = Len(q) + 1 /\ r[Len(q) + 1] = x /\ \A i \in 1 .. Len(q) : r[i] = q[i]
  OBVIOUS
<1>4. new \in [0 .. Len(q) + 1 -> Nat] /\ new[0] = 0 /\ new[Len(q) + 1] = m
  BY <1>1, <1>2
<1>5. ASSUME NEW i \in 1 .. Len(q) + 1
      PROVE  new[i] = new[i - 1] + Share(r[i], p)
  <2>1. CASE i = Len(q) + 1
    BY <1>1, <1>2, <1>3, <2>1
  <2>2. CASE i # Len(q) + 1
    <3>1. i \in 1 .. Len(q) /\ i - 1 \in 0 .. Len(q) /\ i - 1 # Len(q) + 1
      BY <1>2, <2>2
    <3>2. new[i] = sum[i] /\ new[i - 1] = sum[i - 1]
      BY <1>2, <3>1
    <3>3. QED
      BY <1>1, <1>3, <3>1, <3>2
  <2>3. QED
    BY <2>1, <2>2
<1>6. ASSUME NEW i \in 0 .. Len(q) + 1, NEW j \in 0 .. Len(q) + 1, i <= j
      PROVE  new[i] <= new[j]
  <2>1. CASE j = Len(q) + 1
    <3>1. i = Len(q) + 1 \/ (i \in 0 .. Len(q) /\ sum[i] <= n /\ sum[i] \in Nat)
      BY <1>1, <1>2
    <3>2. QED
      BY <1>2, <2>1, <3>1
  <2>2. CASE j # Len(q) + 1
    BY <1>1, <1>2, <1>6, <2>2
  <2>3. QED
    BY <2>1, <2>2
<1> HIDE DEF new, m, r
<1>7. QED
  BY <1>3, <1>4, <1>5, <1>6 DEF Tally, r, m

\* Taking the first item takes away what it stands for.
LEMMA TallyTail ==
  ASSUME NEW q \in Seq(Item), q # <<>>, NEW p, NEW n \in Nat, Tally(q, p, n)
  PROVE  n - Share(Head(q), p) \in Nat /\ Tally(Tail(q), p, n - Share(Head(q), p))
<1> DEFINE r == Tail(q)
           x == Share(q[1], p)
<1>1. PICK sum \in [0 .. Len(q) -> Nat] :
        /\ sum[0] = 0 /\ sum[Len(q)] = n
        /\ \A i \in 1 .. Len(q) : sum[i] = sum[i - 1] + Share(q[i], p)
        /\ \A i \in 0 .. Len(q), j \in 0 .. Len(q) : i <= j => sum[i] <= sum[j]
  BY DEF Tally
<1>2. /\ Len(q) \in Nat \ {0} /\ Head(q) = q[1] /\ q[1] \in Item
      /\ Len(r) = Len(q) - 1 /\ \A i \in 1 .. Len(q) - 1 : r[i] = q[i + 1]
  OBVIOUS
<1>3. x \in Nat /\ sum[1] = x /\ x <= n
  BY <1>1, <1>2, ShareNat
<1> DEFINE new == [i \in 0 .. Len(q) - 1 |-> sum[i + 1] - x]
<1>4. \A i \in 0 .. Len(q) - 1 : i + 1 \in 1 .. Len(q) /\ i + 1 \in 0 .. Len(q)
  BY <1>2
<1>5. \A i \in 0 .. Len(q) - 1 : sum[i + 1] \in Nat /\ x <= sum[i + 1]
  BY <1>1, <1>2, <1>3, <1>4
<1>6. /\ new \in [0 .. Len(q) - 1 -> Nat] /\ new[0] = 0
      /\ new[Len(q) - 1] = n - x
  BY <1>1, <1>2, <1>3, <1>5
<1>7. ASSUME NEW i \in 1 .. Len(q) - 1
      PROVE  new[i] = new[i - 1] + Share(r[i], p)
  <2>1. i + 1 \in 1 .. Len(q) /\ i - 1 \in 0 .. Len(q) - 1 /\ i \in 0 .. Len(q) - 1 /\ i \in 0 .. Len(q)
    BY <1>2
  <2>2. sum[i + 1] = sum[i] + Share(r[i], p) /\ Share(r[i], p) \in Nat
    BY <1>1, <1>2, <2>1, ShareNat
  <2>3. new[i] = sum[i + 1] - x /\ new[i - 1] = sum[i] - x
    BY <1>2, <2>1
  <2> HIDE DEF new
  <2>4. sum[i] \in Nat /\ sum[i + 1] \in Nat
    BY <1>1, <1>5, <2>1
  <2>5. QED
    BY <1>3, <2>2, <2>3, <2>4
<1>8. ASSUME NEW i \in 0 .. Len(q) - 1, NEW j \in 0 .. Len(q) - 1, i <= j
      PROVE  new[i] <= new[j]
  <2>1. sum[i + 1] <= sum[j + 1]
    BY <1>1, <1>2, <1>4, <1>8
  <2>2. QED
    BY <1>3, <1>5, <2>1
<1>9. n - x \in Nat
  BY <1>3
<1> HIDE DEF new, x, r
<1>10. Tally(r, p, n - x)
  BY <1>2, <1>6, <1>7, <1>8 DEF Tally
<1>11. QED
  BY <1>2, <1>9, <1>10 DEF x, r

-----------------------------------------------------------------------------
LEMMA CountInit == FilterInit => CountInv
<1> SUFFICES ASSUME FilterInit PROVE CountInv
  OBVIOUS
<1>1. CountType
  BY DEF FilterInit, CountType, Item
<1>2. ASSUME NEW p \in Pipes PROVE Counted(p)
  BY TallyEmpty DEF FilterInit, Counted, Share, Emitting, None
<1>3. QED
  BY <1>1, <1>2 DEF CountInv

\* A step that touches neither the lines nor the output; it may begin with another pipe.
LEMMA CountSame ==
  ASSUME CountInv, UNCHANGED <<queue, hand, disabled, dropped, due>>, next' \in {"top", "finish"},
         at \notin {"notice", "line"}, at' \notin {"notice", "line"},
         at' = "consume" => pipe' \in Pipes
  PROVE  CountInv'
<1>1. CountType'
  BY DEF CountInv, CountType
<1>2. ASSUME NEW p \in Pipes \ disabled' PROVE Counted(p)'
  BY <1>2 DEF CountInv, Counted, Emitting, Share
<1>3. QED
  BY <1>1, <1>2 DEF CountInv

\* So does one of the child, of a signal or of the other daemon.
LEMMA CountStays ==
  ASSUME CountInv, UNCHANGED <<queue, hand, disabled, dropped, due, at, pipe, next>>
  PROVE  CountInv'
<1>1. CountType'
  BY DEF CountInv, CountType
<1>2. ASSUME NEW p \in Pipes \ disabled' PROVE Counted(p)'
  BY <1>2 DEF CountInv, Counted, Emitting, Share
<1>3. QED
  BY <1>1, <1>2 DEF CountInv

\* A complete line is due, and is dropped or about to be queued.
LEMMA CountEmit ==
  ASSUME CountInv, NEW q \in Pipes, NEW line, EmitLine(q, line), pipe' = q,
         at \notin {"notice", "line"}, UNCHANGED <<queue, hand, disabled, next>>
  PROVE  CountInv'
<1>1. /\ at' \in {"notice", "consume"}
      /\ \/ due' = due /\ dropped' = dropped /\ at' = "consume"
         \/ /\ due' = [due EXCEPT ![q] = @ + 1]
            /\ dropped' = [dropped EXCEPT ![q] = @ + 1] /\ at' = "consume"
         \/ /\ due' = [due EXCEPT ![q] = @ + 1] /\ dropped' = dropped /\ at' = "notice"
  BY DEF EmitLine, GoOn
<1>2. CountType'
  <2>1. dropped' \in [Pipes -> Nat] /\ due' \in [Pipes -> Nat]
    <3>1. dropped \in [Pipes -> Nat] /\ due \in [Pipes -> Nat]
      BY DEF CountInv, CountType
    <3>2. /\ [dropped EXCEPT ![q] = @ + 1] \in [Pipes -> Nat]
          /\ [due EXCEPT ![q] = @ + 1] \in [Pipes -> Nat]
      BY <3>1
    <3>3. QED
      BY <1>1, <3>1, <3>2
  <2>2. QED
    BY <2>1 DEF CountInv, CountType
<1>3. ASSUME NEW p \in Pipes \ disabled' PROVE Counted(p)'
  <2>1. PICK n \in Nat : /\ Tally(queue, p, n)
                         /\ due[p] = n + Share(hand, p) + Emitting(p) + dropped[p]
    BY <1>3 DEF CountInv, Counted
  <2>2. Emitting(p) = 0 /\ Emitting(p)' = IF at' = "notice" /\ p = q THEN 1 ELSE 0
    BY <1>1 DEF Emitting
  <2>3. /\ Share(hand, p) \in Nat /\ dropped[p] \in Nat /\ due[p] \in Nat
        /\ Share(hand, p)' = Share(hand, p)
    BY <1>3, ShareNat DEF CountInv, CountType, Share
  <2>4. due'[p] = n + Share(hand, p)' + Emitting(p)' + dropped'[p]
    <3>1. due \in [Pipes -> Nat] /\ dropped \in [Pipes -> Nat]
      BY DEF CountInv, CountType
    <3>2. CASE p = q
      BY <1>1, <1>3, <2>1, <2>2, <2>3, <3>1, <3>2
    <3>3. CASE p # q
      <4>1. due'[p] = due[p] /\ dropped'[p] = dropped[p]
        BY <1>1, <1>3, <3>1, <3>3
      <4>2. QED
        BY <2>1, <2>2, <2>3, <3>3, <4>1
    <3>4. QED
      BY <3>2, <3>3
  <2>5. QED
    BY <2>1, <2>4 DEF Counted
<1>4. QED
  BY <1>2, <1>3 DEF CountInv

\* An item is queued in exchange for what it stands for: the counter (q's notice), or the
\* line at hand.
LEMMA CountQueue ==
  ASSUME CountInv, NEW x \in Item, queue' = Append(queue, x), UNCHANGED <<hand, disabled, due, pipe, next>>,
         dropped' \in [Pipes -> Nat], at' \in {"line", "consume", "join"},
         at' \in {"line", "consume"} => pipe \in Pipes,
         \A p \in Pipes : Emitting(p)' + dropped'[p] + Share(x, p) = Emitting(p) + dropped[p]
  PROVE  CountInv'
<1>1. queue' \in Seq(Item)
  BY DEF CountInv, CountType
<1>2. CountType'
  BY <1>1 DEF CountInv, CountType
<1>3. ASSUME NEW p \in Pipes \ disabled' PROVE Counted(p)'
  <2>1. PICK n \in Nat : /\ Tally(queue, p, n)
                         /\ due[p] = n + Share(hand, p) + Emitting(p) + dropped[p]
    BY <1>3 DEF CountInv, Counted
  <2>2. Tally(queue', p, n + Share(x, p))
    BY <2>1, TallyAppend DEF CountInv, CountType
  <2>3. /\ Share(hand, p) \in Nat /\ Share(x, p) \in Nat
        /\ dropped[p] \in Nat /\ dropped'[p] \in Nat
        /\ Share(hand, p)' = Share(hand, p)
    BY <1>3, ShareNat DEF CountInv, CountType, Share
  <2>4. Emitting(p) \in Nat /\ Emitting(p)' \in Nat
    BY DEF Emitting
  <2>5. Emitting(p)' + dropped'[p] + Share(x, p) = Emitting(p) + dropped[p]
    BY <1>3
  <2>6. due[p] = (n + Share(x, p)) + Share(hand, p) + Emitting(p)' + dropped'[p]
    <3> DEFINE h == Share(hand, p)
               e == Emitting(p)
               f == Emitting(p)'
               s == Share(x, p)
               d == dropped[p]
               g == dropped'[p]
    <3>1. h \in Nat /\ e \in Nat /\ f \in Nat /\ s \in Nat /\ d \in Nat /\ g \in Nat
      BY <2>3, <2>4
    <3>2. due[p] = n + h + e + d /\ f + g + s = e + d
      BY <2>1, <2>5
    <3> HIDE DEF h, e, f, s, d, g
    <3>3. due[p] = (n + s) + h + f + g
      BY <3>1, <3>2
    <3>4. QED
      BY <3>3 DEF h, e, f, s, d, g
  <2>7. n + Share(x, p) \in Nat
    BY <2>3
  <2>8. QED
    BY <2>2, <2>3, <2>6, <2>7 DEF Counted
<1>4. QED
  BY <1>2, <1>3 DEF CountInv

\* Nothing is queued; the line at hand may move into the counter.
LEMMA CountMove ==
  ASSUME CountInv, UNCHANGED <<queue, hand, disabled, pipe, next>>,
         dropped' \in [Pipes -> Nat], due' \in [Pipes -> Nat],
         at' \in {"line", "consume"} => pipe \in Pipes, at' # "notice",
         \A p \in Pipes : Emitting(p)' + dropped'[p] + due[p] = Emitting(p) + dropped[p] + due'[p]
  PROVE  CountInv'
<1>1. CountType'
  BY DEF CountInv, CountType
<1>2. ASSUME NEW p \in Pipes \ disabled' PROVE Counted(p)'
  <2>1. PICK n \in Nat : /\ Tally(queue, p, n)
                         /\ due[p] = n + Share(hand, p) + Emitting(p) + dropped[p]
    BY <1>2 DEF CountInv, Counted
  <2>2. /\ Share(hand, p) \in Nat /\ dropped[p] \in Nat /\ dropped'[p] \in Nat
        /\ due[p] \in Nat /\ due'[p] \in Nat /\ Share(hand, p)' = Share(hand, p)
    BY <1>2, ShareNat DEF CountInv, CountType, Share
  <2>3. Emitting(p) \in Nat /\ Emitting(p)' \in Nat
    BY DEF Emitting
  <2>4. Emitting(p)' + dropped'[p] + due[p] = Emitting(p) + dropped[p] + due'[p]
    BY <1>2
  <2>5. due'[p] = n + Share(hand, p) + Emitting(p)' + dropped'[p]
    <3> DEFINE h == Share(hand, p)
               e == Emitting(p)
               f == Emitting(p)'
               d == dropped[p]
               g == dropped'[p]
               u == due[p]
               v == due'[p]
    <3>1. /\ h \in Nat /\ e \in Nat /\ f \in Nat /\ d \in Nat /\ g \in Nat
          /\ u \in Nat /\ v \in Nat
      BY <2>2, <2>3
    <3>2. u = n + h + e + d /\ f + g + u = e + d + v
      BY <2>1, <2>4
    <3> HIDE DEF h, e, f, d, g, u, v
    <3>3. v = n + h + f + g
      BY <3>1, <3>2
    <3>4. QED
      BY <3>3 DEF h, e, f, d, g, u, v
  <2>6. QED
    BY <2>1, <2>2, <2>5 DEF Counted
<1>3. QED
  BY <1>1, <1>2 DEF CountInv

LEMMA CountPartial == CountInv /\ KeepPartial => CountInv'
<1> SUFFICES ASSUME CountInv, KeepPartial PROVE CountInv'
  OBVIOUS
<1>1. /\ at = "consume" /\ at' = at /\ pipe' = pipe /\ pipe \in Pipes
      /\ UNCHANGED <<queue, hand, disabled, next>>
  BY DEF KeepPartial, Consuming, sink, CountInv, CountType
<1>2. CASE UNCHANGED <<dropped, due>>
  BY <1>1, <1>2, CountSame DEF CountInv, CountType
<1>3. CASE /\ dropped' = [dropped EXCEPT ![pipe] = @ + 1]
           /\ due' = [due EXCEPT ![pipe] = @ + 1]
  <2>1. dropped \in [Pipes -> Nat] /\ due \in [Pipes -> Nat]
    BY DEF CountInv, CountType
  <2>2. dropped' \in [Pipes -> Nat] /\ due' \in [Pipes -> Nat]
    BY <1>1, <1>3, <2>1
  <2>3. \A p \in Pipes : Emitting(p) = 0 /\ Emitting(p)' = 0
    BY <1>1 DEF Emitting
  <2>4. \A p \in Pipes : dropped'[p] + due[p] = dropped[p] + due'[p]
    BY <1>1, <1>3, <2>1
  <2>5. QED
    BY <1>1, <2>1, <2>2, <2>3, <2>4, CountMove
<1>4. QED
  BY <1>2, <1>3 DEF KeepPartial

LEMMA CountNotice == CountInv /\ Notice => CountInv'
<1> SUFFICES ASSUME CountInv, Notice PROVE CountInv'
  OBVIOUS
<1>1. /\ at = "notice" /\ at' = "line" /\ pipe \in Pipes
      /\ UNCHANGED <<pipe, hand, disabled, due, next>>
  BY DEF Notice, GoOn, reader, CountInv, CountType
<1>2. dropped \in [Pipes -> Nat] /\ due \in [Pipes -> Nat]
  BY DEF CountInv, CountType
<1>3. \A p \in Pipes : Emitting(p)' = Emitting(p) /\ Emitting(p) \in Nat
  BY <1>1 DEF Emitting
<1>4. CASE UNCHANGED <<queue, dropped>>
  BY <1>1, <1>2, <1>3, <1>4, CountMove
<1>5. CASE /\ queue' = Append(queue, [pipe |-> pipe, n |-> dropped[pipe]])
           /\ dropped' = [dropped EXCEPT ![pipe] = 0]
  <2> DEFINE x == [pipe |-> pipe, n |-> dropped[pipe]]
  <2>1. x \in Item /\ dropped' \in [Pipes -> Nat]
    BY <1>1, <1>2, <1>5 DEF Item
  <2>2. \A p \in Pipes : Share(x, p) = IF p = pipe THEN dropped[p] ELSE 0
    BY DEF Share
  <2>3. \A p \in Pipes : dropped'[p] + Share(x, p) = dropped[p]
    BY <1>1, <1>2, <1>5, <2>2
  <2>4. \A p \in Pipes : Share(x, p) \in Nat /\ dropped'[p] \in Nat
    BY <1>2, <2>1, <2>2
  <2>5. \A p \in Pipes : Emitting(p)' + dropped'[p] + Share(x, p) = Emitting(p) + dropped[p]
    BY <1>2, <1>3, <2>3, <2>4
  <2> HIDE DEF x
  <2>6. queue' = Append(queue, x)
    BY <1>5 DEF x
  <2>7. QED
    BY <1>1, <2>1, <2>5, <2>6, CountQueue
<1>6. QED
  BY <1>4, <1>5 DEF Notice

LEMMA CountLine == CountInv /\ Line => CountInv'
<1> SUFFICES ASSUME CountInv, Line PROVE CountInv'
  OBVIOUS
<1>1. /\ at = "line" /\ at' = "consume" /\ pipe \in Pipes
      /\ UNCHANGED <<pipe, hand, disabled, due, next>>
  BY DEF Line, GoOn, reader, CountInv, CountType
<1>2. dropped \in [Pipes -> Nat] /\ due \in [Pipes -> Nat]
  BY DEF CountInv, CountType
<1>3. \A p \in Pipes : Emitting(p)' = 0 /\ Emitting(p) = IF p = pipe THEN 1 ELSE 0
  BY <1>1 DEF Emitting
<1>4. CASE queue' = queue /\ dropped' = [dropped EXCEPT ![pipe] = @ + 1]
  <2>1. dropped' \in [Pipes -> Nat]
    BY <1>1, <1>2, <1>4
  <2>2. \A p \in Pipes : dropped'[p] = dropped[p] + Emitting(p)
    BY <1>1, <1>2, <1>3, <1>4
  <2>3. QED
    BY <1>1, <1>2, <1>3, <1>4, <2>1, <2>2, CountMove
<1>5. CASE queue' = Append(queue, [pipe |-> pipe, n |-> 1]) /\ dropped' = dropped
  <2> DEFINE x == [pipe |-> pipe, n |-> 1]
  <2>1. x \in Item
    BY <1>1 DEF Item
  <2>2. \A p \in Pipes : Share(x, p) = Emitting(p)
    BY <1>3 DEF Share
  <2> HIDE DEF x
  <2>3. queue' = Append(queue, x)
    BY <1>5 DEF x
  <2>4. ASSUME NEW p \in Pipes
        PROVE  Emitting(p)' + dropped'[p] + Share(x, p) = Emitting(p) + dropped[p]
    <3>1. /\ Emitting(p)' = 0 /\ Emitting(p) \in Nat /\ dropped[p] \in Nat
          /\ Share(x, p) = Emitting(p) /\ dropped'[p] = dropped[p]
      BY <1>2, <1>3, <1>5, <2>2
    <3>2. QED
      BY <3>1
  <2>5. QED
    BY <1>1, <1>2, <1>5, <2>1, <2>3, <2>4, CountQueue
<1>6. QED
  BY <1>4, <1>5 DEF Line

LEMMA CountSentinel == CountInv /\ Sentinel => CountInv'
<1> SUFFICES ASSUME CountInv, Sentinel PROVE CountInv'
  OBVIOUS
<1>1. /\ at = "sentinel" /\ at' = "join"
      /\ UNCHANGED <<pipe, hand, disabled, due, dropped, next>>
  BY DEF Sentinel, GoOn, reader
<1>2. CASE queue' = queue
  BY <1>1, <1>2, CountSame DEF CountInv, CountType
<1>3. CASE queue' = Append(queue, None)
  <2>1. None \in Item /\ dropped \in [Pipes -> Nat]
    BY DEF CountInv, CountType, Item
  <2>2. \A p \in Pipes : Share(None, p) = 0 /\ Emitting(p)' = 0 /\ Emitting(p) = 0
    BY <1>1 DEF Share, Emitting, None
  <2>3. QED
    BY <1>1, <1>3, <2>1, <2>2, CountQueue
<1>4. QED
  BY <1>2, <1>3 DEF Sentinel

\* The writer takes the first item, or drops it if its output is disabled.
LEMMA CountGet == CountInv /\ Get => CountInv'
<1> SUFFICES ASSUME CountInv, Get PROVE CountInv'
  OBVIOUS
<1> DEFINE x == Head(queue)
<1>1. /\ hand = None /\ queue # <<>> /\ queue' = Tail(queue)
      /\ hand' = IF x.pipe \in disabled THEN None ELSE x
      /\ UNCHANGED <<at, pipe, dropped, disabled, due, next>>
  BY DEF Get, reader
<1>2. queue \in Seq(Item) /\ x \in Item /\ queue' \in Seq(Item) /\ None \in Item
  BY <1>1 DEF CountInv, CountType, Item
<1> HIDE DEF x
<1>3. CountType'
  BY <1>1, <1>2 DEF CountInv, CountType
<1>4. ASSUME NEW p \in Pipes \ disabled' PROVE Counted(p)'
  <2>1. PICK n \in Nat : /\ Tally(queue, p, n)
                         /\ due[p] = n + Share(hand, p) + Emitting(p) + dropped[p]
    BY <1>1, <1>4 DEF CountInv, Counted
  <2>2. n - Share(x, p) \in Nat /\ Tally(queue', p, n - Share(x, p))
    BY <1>1, <1>2, <2>1, TallyTail DEF x
  <2>3. Share(hand, p) = 0 /\ Share(hand, p)' = Share(x, p)
    BY <1>1, <1>4 DEF Share, None
  <2>4. Share(x, p) \in Nat /\ Emitting(p) \in Nat /\ dropped[p] \in Nat
    BY <1>2, <1>4, ShareNat DEF CountInv, CountType, Emitting
  <2>5. Emitting(p)' = Emitting(p)
    BY <1>1 DEF Emitting
  <2>6. due'[p] = (n - Share(x, p)) + Share(hand, p)' + Emitting(p)' + dropped'[p]
    BY <1>1, <2>1, <2>2, <2>3, <2>4, <2>5
  <2>7. QED
    BY <2>2, <2>6 DEF Counted
<1>5. QED
  BY <1>3, <1>4 DEF CountInv

\* What was in hand is written.
LEMMA CountWrite == CountInv /\ WriteItem => CountInv'
<1> SUFFICES ASSUME CountInv, WriteItem PROVE CountInv'
  OBVIOUS
<1>1. /\ hand # None /\ hand' = None /\ due' = [due EXCEPT ![hand.pipe] = @ - hand.n]
      /\ UNCHANGED <<at, pipe, dropped, disabled, queue, next>>
  BY DEF WriteItem, reader
<1>2. /\ hand.pipe \in Pipes \ disabled /\ hand.n \in Nat /\ None \in Item
      /\ due \in [Pipes -> Nat] /\ dropped \in [Pipes -> Nat]
  BY <1>1 DEF CountInv, CountType, Item
<1>3. ASSUME NEW p \in Pipes \ disabled
      PROVE  /\ due'[p] = due[p] - Share(hand, p) /\ Share(hand, p) \in Nat
             /\ \E n \in Nat : Tally(queue, p, n) /\ due'[p] = n + Emitting(p) + dropped[p]
  <2>1. PICK n \in Nat : /\ Tally(queue, p, n)
                         /\ due[p] = n + Share(hand, p) + Emitting(p) + dropped[p]
    BY <1>3 DEF CountInv, Counted
  <2>2. Share(hand, p) \in Nat /\ Emitting(p) \in Nat /\ dropped[p] \in Nat /\ due[p] \in Nat
    BY <1>2, <1>3, ShareNat DEF CountInv, CountType, Emitting
  <2>3. due'[p] = due[p] - Share(hand, p)
    BY <1>1, <1>2, <1>3, <2>2 DEF Share
  <2>4. due'[p] = n + Emitting(p) + dropped[p]
    BY <2>1, <2>2, <2>3
  <2>5. QED
    BY <2>1, <2>2, <2>3, <2>4
<1>4. due' \in [Pipes -> Nat]
  <2>1. due'[hand.pipe] \in Nat
    <3>1. PICK n \in Nat : due'[hand.pipe] = n + Emitting(hand.pipe) + dropped[hand.pipe]
      BY <1>2, <1>3
    <3>2. QED
      BY <1>2, <3>1 DEF Emitting
  <2>2. \A p \in Pipes : p # hand.pipe => due'[p] = due[p]
    BY <1>1, <1>2
  <2>3. due' = [p \in Pipes |-> due'[p]]
    BY <1>1, <1>2
  <2>4. QED
    BY <1>2, <2>1, <2>2, <2>3
<1>5. CountType'
  BY <1>1, <1>2, <1>4 DEF CountInv, CountType
<1>6. ASSUME NEW p \in Pipes \ disabled' PROVE Counted(p)'
  <2>1. PICK n \in Nat : Tally(queue, p, n) /\ due'[p] = n + Emitting(p) + dropped[p]
    BY <1>1, <1>3, <1>6
  <2>2. Share(hand, p)' = 0 /\ Emitting(p)' = Emitting(p) /\ Emitting(p) \in Nat
    BY <1>1 DEF Share, None, Emitting
  <2>3. due'[p] = n + Share(hand, p)' + Emitting(p)' + dropped'[p]
    BY <1>1, <1>2, <2>1, <2>2
  <2>4. Tally(queue', p, n)
    BY <1>1, <2>1
  <2>5. QED
    BY <2>3, <2>4 DEF Counted
<1>7. QED
  BY <1>5, <1>6 DEF CountInv

\* A write that fails disables its output, of which nothing is promised any more.
LEMMA CountFails == CountInv /\ WriteFails => CountInv'
<1> SUFFICES ASSUME CountInv, WriteFails PROVE CountInv'
  OBVIOUS
<1>1. /\ hand # None /\ hand' = None /\ disabled' = disabled \cup {hand.pipe}
      /\ UNCHANGED <<at, pipe, dropped, due, queue, next>>
  BY DEF WriteFails, reader
<1>2. hand.pipe \in Pipes /\ None \in Item
  BY <1>1 DEF CountInv, CountType, Item
<1>3. CountType'
  BY <1>1, <1>2 DEF CountInv, CountType
<1>4. ASSUME NEW p \in Pipes \ disabled' PROVE Counted(p)'
  <2>1. p \in Pipes \ disabled /\ p # hand.pipe
    BY <1>1, <1>4
  <2>2. Counted(p) /\ Share(hand, p) = 0 /\ Share(hand, p)' = 0
    BY <1>1, <2>1 DEF CountInv, Share, None
  <2>3. Emitting(p)' = Emitting(p)
    BY <1>1 DEF Emitting
  <2>4. QED
    BY <1>1, <2>2, <2>3 DEF Counted
<1>5. QED
  BY <1>3, <1>4 DEF CountInv

LEMMA CountStep == CountInv /\ [FilterNext]_filterVars => CountInv'
<1> SUFFICES ASSUME CountInv, [FilterNext]_filterVars PROVE CountInv'
  OBVIOUS
<1> USE DEF GoOn
<1>0. next \in {"top", "finish"}
  BY DEF CountInv, CountType
<1>1. CASE UNCHANGED filterVars \/ Terminate \/ RequestHup \/ \E m \in {"leader", "helper"} : Exits(m)
  BY <1>1, CountStays DEF filterVars, Terminate, RequestHup, Exits, reader, sink
<1>2. CASE LoopEnds \/ ForwardHup \/ ForgetHup \/ StopRequested \/ Select
  BY <1>0, <1>2, CountSame DEF LoopEnds, ForwardHup, ForgetHup, StopRequested, Select,
     NoReload, sink
<1>3. ASSUME NEW p \in Pipes, NEW c \in Chunks, Read(p, c) PROVE CountInv'
  BY <1>0, <1>3, CountSame DEF Read, sink
<1>4. ASSUME NEW p \in Pipes, EndOfPipe(p) PROVE CountInv'
  <2>1. at = "events" /\ pipe' = p /\ UNCHANGED <<queue, hand, disabled, next>>
    BY <1>4 DEF EndOfPipe, sink
  <2>2. CASE EmitLine(p, buffers[p])
    BY <2>1, <2>2, CountEmit
  <2>3. CASE at' = "consume" /\ UNCHANGED <<due, dropped>>
    BY <1>0, <2>1, <2>3, CountSame
  <2>4. QED
    BY <1>4, <2>2, <2>3 DEF EndOfPipe
<1>5. CASE SkipDiscarded
  BY <1>5, CountStays DEF SkipDiscarded, sink
<1>6. CASE TakeLine
  <2>1. /\ at = "consume" /\ pipe' = pipe /\ pipe \in Pipes /\ UNCHANGED <<queue, hand, disabled, next>>
        /\ EmitLine(pipe, Joined)
    BY <1>6 DEF TakeLine, Consuming, sink, CountInv, CountType
  <2>2. QED
    BY <2>1, CountEmit
<1>7. CASE Consumed
  BY <1>0, <1>7, CountSame DEF Consumed, sink
<1>8. CASE PollChild \/ Raises
  BY <1>0, <1>8, CountSame DEF PollChild, Raises, sink
<1>9. CASE Term \/ Finish \/ Join
  BY <1>0, <1>9, CountSame DEF Term, Finish, Join, sink
<1>10. CASE Gone \/ Kill
  <2>1. /\ at = "grace" /\ at' \in {"top", "finish"}
        /\ UNCHANGED <<next, queue, hand, disabled, dropped, due>>
    BY <1>10 DEF Gone, Kill, sink, CountInv, CountType
  <2>2. QED
    BY <1>0, <2>1, CountSame
<1>11. QED
  BY <1>1, <1>2, <1>3, <1>4, <1>5, <1>6, <1>7, <1>8, <1>9, <1>10, CountPartial, CountNotice,
     CountLine, CountSentinel, CountGet, CountWrite, CountFails DEF FilterNext, Main, Writer, Done

\* However reads, a full queue, signals and the writer interleave, as long as an output
\* accepts data every line that no pattern matched is written, waiting or counted.
THEOREM EveryLineCounted == FilterSpec => []Accounted
<1>1. ASSUME CountInv, NEW p \in Pipes \ disabled
      PROVE  \E sum \in [0 .. Len(queue) -> 0 .. due[p]] :
               /\ Sums(sum, p)
               /\ due[p] = sum[Len(queue)] + Share(hand, p) + Emitting(p) + dropped[p]
  <2>1. PICK n \in Nat : /\ Tally(queue, p, n)
                         /\ due[p] = n + Share(hand, p) + Emitting(p) + dropped[p]
    BY <1>1 DEF CountInv, Counted
  <2>2. PICK sum \in [0 .. Len(queue) -> Nat] :
          /\ sum[0] = 0 /\ sum[Len(queue)] = n
          /\ \A i \in 1 .. Len(queue) : sum[i] = sum[i - 1] + Share(queue[i], p)
          /\ \A i \in 0 .. Len(queue), j \in 0 .. Len(queue) : i <= j => sum[i] <= sum[j]
    BY <2>1 DEF Tally
  <2>3. Len(queue) \in Nat /\ Share(hand, p) \in Nat /\ Emitting(p) \in Nat /\ dropped[p] \in Nat
    BY <1>1, ShareNat DEF CountInv, CountType, Emitting
  <2>4. n <= due[p] /\ due[p] \in Nat
    BY <2>1, <2>3
  <2>5. \A i \in 0 .. Len(queue) : sum[i] \in 0 .. due[p]
    <3>1. Len(queue) \in 0 .. Len(queue) /\ \A i \in 0 .. Len(queue) : i <= Len(queue)
      BY <2>3
    <3>2. \A i \in 0 .. Len(queue) : sum[i] <= sum[Len(queue)]
      BY <2>2, <3>1
    <3>3. \A i \in 0 .. Len(queue) : sum[i] \in Nat /\ sum[i] <= n
      BY <2>2, <3>2
    <3>4. QED
      BY <2>4, <3>3
  <2>6. sum \in [0 .. Len(queue) -> 0 .. due[p]]
    BY <2>2, <2>5
  <2>7. QED
    BY <2>1, <2>2, <2>6 DEF Sums
<1>2. CountInv => Accounted
  BY <1>1 DEF Accounted
<1>3. QED
  BY <1>2, CountInit, CountStep, PTL DEF FilterSpec

-----------------------------------------------------------------------------
Piece == [len : Nat, nl : BOOLEAN, match : BOOLEAN]

\* What _consume works on: a buffer never outgrows MAX_LINE_SIZE, and is empty while the
\* rest of a line is thrown away.
LineType ==
  /\ chunk \in Seq(Piece) /\ discarding \subseteq Pipes
  /\ buffers \in [Pipes -> [len : 0 .. MaxLine, match : BOOLEAN]]
  /\ \A p \in discarding : buffers[p] = Empty

\* Where main() is and what it has in front of it.
PlaceType ==
  /\ at \in {"top", "forget", "signal", "events", "consume", "notice", "line", "stop",
             "grace", "finish", "sentinel", "join", "done"}
  /\ pipe \in Pipes \cup {"none"} /\ registered \subseteq Pipes /\ ready \subseteq Pipes
  /\ alive \subseteq {"leader", "helper"} /\ writer \in {"runs", "ended"}

\* The bounds, and the capacity of the queue.
BoundType == budget \in [reads : Nat, hups : Nat] /\ Len(queue) <= MaxQueued

FilterInv == GroupInv /\ CountInv /\ LineType /\ PlaceType /\ BoundType

\* EmitLine leads to the queue or on.
LEMMA EmitPlaces ==
  ASSUME NEW p, NEW line, EmitLine(p, line)
  PROVE  at' \in {"notice", "consume"}
BY DEF EmitLine, GoOn

\* Emptying one buffer.
LEMMA BufferEmptied ==
  ASSUME LineType, NEW p \in Pipes,
         buffers' = [buffers EXCEPT ![p] = Empty],
         discarding' = discarding \/ discarding' = discarding \cup {p},
         chunk' \in Seq(Piece)
  PROVE  LineType'
<1>1. Empty \in [len : 0 .. MaxLine, match : BOOLEAN]
  BY LogFilterConstants DEF Empty
<1>2. QED
  BY <1>1 DEF LineType

LEMMA TypesInit ==
  ASSUME FilterInit
  PROVE  LineType /\ PlaceType /\ BoundType
<1>1. Empty \in [len : 0 .. MaxLine, match : BOOLEAN]
  BY LogFilterConstants DEF Empty
<1>2. LineType
  BY <1>1 DEF FilterInit, LineType
<1>3. PlaceType
  BY DEF FilterInit, PlaceType
<1>4. BoundType
  BY LogFilterConstants DEF FilterInit, BoundType
<1>5. QED
  BY <1>2, <1>3, <1>4

LEMMA LineStep ==
  ASSUME FilterInv, [FilterNext]_filterVars
  PROVE  LineType'
<1>1. /\ at = "consume" => pipe \in Pipes
      /\ LineType
  BY DEF FilterInv, CountInv, CountType
<1>2. CASE UNCHANGED <<chunk, discarding, buffers>>
  BY <1>1, <1>2 DEF LineType
<1>3. ASSUME NEW p \in Pipes, NEW c \in Chunks, Read(p, c) PROVE LineType'
  <2>1. chunk' = c /\ UNCHANGED <<discarding, buffers>> /\ c \in Seq(Piece)
    BY <1>3, LogFilterConstants DEF Read, Piece
  <2>2. QED
    BY <1>1, <2>1 DEF LineType
<1>4. ASSUME NEW p \in Pipes, EndOfPipe(p) PROVE LineType'
  <2>1. chunk' = <<>> /\ discarding' = discarding /\ <<>> \in Seq(Piece)
    BY <1>4 DEF EndOfPipe
  <2>2. CASE buffers' = [buffers EXCEPT ![p] = Empty]
    BY <1>1, <2>1, <2>2, BufferEmptied
  <2>3. CASE buffers' = buffers
    BY <1>1, <2>1, <2>3 DEF LineType
  <2>4. QED
    BY <1>4, <2>2, <2>3 DEF EndOfPipe
<1>5. ASSUME Consuming
      PROVE  pipe \in Pipes /\ chunk' \in Seq(Piece) /\ Head(chunk) \in Piece
  BY <1>1, <1>5 DEF Consuming, LineType
<1>6. CASE SkipDiscarded
  BY <1>1, <1>5, <1>6 DEF SkipDiscarded, LineType
<1>7. CASE KeepPartial
  <2>1. pipe \in Pipes /\ chunk' \in Seq(Piece) /\ Head(chunk) \in Piece /\ pipe \notin discarding
    BY <1>5, <1>7 DEF KeepPartial
  <2>2. CASE Joined.len > MaxLine
    BY <1>1, <1>7, <2>1, <2>2, BufferEmptied DEF KeepPartial
  <2>3. CASE ~(Joined.len > MaxLine)
    <3>1. buffers' = [buffers EXCEPT ![pipe] = Joined] /\ discarding' = discarding
      BY <1>7, <2>3 DEF KeepPartial
    <3>2. Joined \in [len : 0 .. MaxLine, match : BOOLEAN]
      <4>1. buffers[pipe] \in [len : 0 .. MaxLine, match : BOOLEAN]
        BY <1>1, <2>1 DEF LineType
      <4>2. Joined.len \in Nat /\ MaxLine \in Nat
        BY <2>1, <4>1, LogFilterConstants DEF Joined, Piece
      <4>3. Joined.len \in 0 .. MaxLine
        BY <2>3, <4>2
      <4>4. (buffers[pipe].match \/ Head(chunk).match) \in BOOLEAN
        OBVIOUS
      <4>5. QED
        BY <4>3, <4>4 DEF Joined
    <3> HIDE DEF Joined
    <3>3. QED
      BY <1>1, <2>1, <3>1, <3>2 DEF LineType
  <2>4. QED
    BY <2>2, <2>3
<1>8. CASE TakeLine
  <2>1. /\ pipe \in Pipes /\ chunk' \in Seq(Piece)
        /\ buffers' = [buffers EXCEPT ![pipe] = Empty] /\ discarding' = discarding
    BY <1>5, <1>8 DEF TakeLine
  <2>2. QED
    BY <1>1, <2>1, BufferEmptied
<1>9. CASE LoopEnds \/ ForwardHup \/ ForgetHup \/ StopRequested \/ Select \/ Consumed
  BY <1>2, <1>9 DEF LoopEnds, ForwardHup, ForgetHup, StopRequested, Select, Consumed,
     reader
<1>10. CASE Notice \/ Line \/ PollChild \/ Raises \/ Term \/ Gone \/ Kill
  BY <1>2, <1>10 DEF Notice, Line, PollChild, Raises, Term, Gone, Kill, reader
<1>11. CASE Finish \/ Sentinel \/ Join \/ Writer
  BY <1>2, <1>11 DEF Finish, Sentinel, Join, Writer, Get, WriteItem, WriteFails, reader
<1>12. CASE UNCHANGED filterVars \/ Terminate \/ RequestHup \/ \E m \in {"leader", "helper"} : Exits(m)
  BY <1>2, <1>12 DEF filterVars, Terminate, RequestHup, Exits, reader
<1>13. QED
  BY <1>3, <1>4, <1>6, <1>7, <1>8, <1>9, <1>10, <1>11, <1>12 DEF FilterNext, Main, Done

LEMMA PlaceStep ==
  ASSUME FilterInv, [FilterNext]_filterVars
  PROVE  PlaceType'
<1> USE DEF GoOn
<1>0. PlaceType /\ next \in {"top", "finish"}
  BY DEF FilterInv, GroupInv, Watching
<1>1. ASSUME NEW p \in Pipes, EndOfPipe(p) PROVE PlaceType'
  <2>1. at' \in {"notice", "consume"}
    BY <1>1, EmitPlaces DEF EndOfPipe
  <2>2. /\ registered' = registered \ {p} /\ ready' = ready \ {p} /\ pipe' = p
        /\ alive' = alive /\ writer' = writer
    BY <1>1 DEF EndOfPipe, child, sink
  <2>3. QED
    BY <1>0, <2>1, <2>2 DEF PlaceType
<1>2. ASSUME NEW p \in Pipes, NEW c \in Chunks, Read(p, c) PROVE PlaceType'
  BY <1>0, <1>2 DEF Read, child, sink, PlaceType
<1>3. CASE TakeLine
  <2>1. at' \in {"notice", "consume"}
    BY <1>3, EmitPlaces DEF TakeLine
  <2>2. UNCHANGED <<registered, ready, pipe, alive, writer>>
    BY <1>3 DEF TakeLine, child, sink
  <2>3. QED
    BY <1>0, <2>1, <2>2 DEF PlaceType
<1>4. CASE LoopEnds \/ ForwardHup \/ ForgetHup \/ StopRequested
  BY <1>0, <1>4 DEF LoopEnds, ForwardHup, ForgetHup, StopRequested, child, reader,
     sink, PlaceType
<1>5. CASE Select \/ SkipDiscarded \/ KeepPartial \/ Consumed
  BY <1>0, <1>5 DEF Select, SkipDiscarded, KeepPartial, Consumed, child, sink, PlaceType
<1>6. CASE Notice \/ Line \/ PollChild \/ Raises
  BY <1>0, <1>6 DEF Notice, Line, PollChild, Raises, child, reader, sink, PlaceType
<1>7. CASE Term \/ Gone \/ Kill
  BY <1>0, <1>7 DEF Term, Gone, Kill, Killed, child, reader, sink, PlaceType
<1>8. CASE Finish \/ Sentinel \/ Join
  BY <1>0, <1>8 DEF Finish, Sentinel, Join, child, reader, sink, PlaceType
<1>9. CASE Writer
  BY <1>0, <1>9 DEF Writer, Get, WriteItem, WriteFails, child, reader, PlaceType
<1>10. CASE UNCHANGED filterVars \/ Terminate \/ RequestHup
  BY <1>0, <1>10 DEF filterVars, Terminate, RequestHup, child, reader, sink, PlaceType
<1>11. ASSUME NEW m \in {"leader", "helper"}, Exits(m) PROVE PlaceType'
  BY <1>0, <1>11 DEF Exits, reader, sink, PlaceType
<1>12. QED
  BY <1>1, <1>2, <1>3, <1>4, <1>5, <1>6, <1>7, <1>8, <1>9, <1>10, <1>11 DEF FilterNext, Main, Done

\* Only main() puts into the queue, and only when there is room.
LEMMA QueueStep ==
  ASSUME FilterInv, [FilterNext]_filterVars
  PROVE  Len(queue') <= MaxQueued
<1>0. queue \in Seq(Item) /\ Len(queue) <= MaxQueued /\ Len(queue) \in Nat /\ MaxQueued \in Nat
  BY LogFilterConstants DEF FilterInv, CountInv, CountType, BoundType
<1>1. CASE queue' = queue
  BY <1>0, <1>1
<1>2. ASSUME NEW x, HasRoom, queue' = Append(queue, x) PROVE Len(queue') <= MaxQueued
  <2>1. Len(queue') = Len(queue) + 1
    BY <1>0, <1>2
  <2>2. QED
    BY <1>0, <1>2, <2>1 DEF HasRoom
<1>3. CASE Notice \/ Line \/ Sentinel
  BY <1>1, <1>2, <1>3 DEF Notice, Line, Sentinel
<1>4. CASE Get
  <2>1. queue # <<>> /\ queue' = Tail(queue)
    BY <1>4 DEF Get
  <2>2. Len(queue') = Len(queue) - 1
    BY <1>0, <2>1
  <2>3. QED
    BY <1>0, <2>2
<1>5. ASSUME NEW p \in Pipes, EndOfPipe(p) \/ \E c \in Chunks : Read(p, c)
      PROVE  Len(queue') <= MaxQueued
  BY <1>1, <1>5 DEF EndOfPipe, Read, sink
<1>6. CASE LoopEnds \/ ForwardHup \/ ForgetHup \/ StopRequested \/ Select
  BY <1>1, <1>6 DEF LoopEnds, ForwardHup, ForgetHup, StopRequested, Select, sink
<1>7. CASE SkipDiscarded \/ KeepPartial \/ TakeLine \/ Consumed \/ PollChild \/ Raises
  BY <1>1, <1>7 DEF SkipDiscarded, KeepPartial, TakeLine, Consumed, PollChild, Raises, sink
<1>8. CASE Term \/ Gone \/ Kill \/ Finish \/ Join \/ WriteItem \/ WriteFails
  BY <1>1, <1>8 DEF Term, Gone, Kill, Finish, Join, WriteItem, WriteFails, sink
<1>9. CASE UNCHANGED filterVars \/ Terminate \/ RequestHup \/ \E m \in {"leader", "helper"} : Exits(m)
  BY <1>1, <1>9 DEF filterVars, Terminate, RequestHup, Exits, sink
<1>10. QED
  BY <1>3, <1>4, <1>5, <1>6, <1>7, <1>8, <1>9 DEF FilterNext, Main, Writer, Done

LEMMA BudgetStep ==
  ASSUME FilterInv, [FilterNext]_filterVars
  PROVE  budget' \in [reads : Nat, hups : Nat]
<1>0. budget \in [reads : Nat, hups : Nat]
  BY DEF FilterInv, BoundType
<1>1. CASE budget' = budget
  BY <1>0, <1>1
<1>2. ASSUME NEW p \in Pipes, NEW c \in Chunks, Read(p, c)
      PROVE  budget' \in [reads : Nat, hups : Nat]
  BY <1>0, <1>2 DEF Read
<1>3. CASE RequestHup
  BY <1>0, <1>3 DEF RequestHup
<1>4. ASSUME NEW p \in Pipes, EndOfPipe(p) PROVE budget' = budget
  BY <1>4 DEF EndOfPipe
<1>5. CASE LoopEnds \/ ForwardHup \/ ForgetHup \/ StopRequested \/ Select
  BY <1>1, <1>5 DEF LoopEnds, ForwardHup, ForgetHup, StopRequested, Select
<1>6. CASE SkipDiscarded \/ KeepPartial \/ TakeLine \/ Consumed \/ PollChild \/ Raises
  BY <1>1, <1>6 DEF SkipDiscarded, KeepPartial, TakeLine, Consumed, PollChild, Raises
<1>7. CASE Notice \/ Line \/ Term \/ Gone \/ Kill \/ Finish \/ Sentinel \/ Join
  BY <1>1, <1>7 DEF Notice, Line, Term, Gone, Kill, Finish, Sentinel, Join
<1>8. CASE Writer
  BY <1>1, <1>8 DEF Writer, Get, WriteItem, WriteFails
<1>9. CASE UNCHANGED filterVars \/ Terminate \/ \E m \in {"leader", "helper"} : Exits(m)
  BY <1>1, <1>9 DEF filterVars, Terminate, Exits
<1>10. QED
  BY <1>1, <1>2, <1>3, <1>4, <1>5, <1>6, <1>7, <1>8, <1>9 DEF FilterNext, Main, Done

\* For any chunks and signals, no buffer outgrows MAX_LINE_SIZE, the queue keeps to its
\* capacity, and the counters and the rest of the filter's state keep their types.
THEOREM FilterTypes == FilterSpec => []FilterTypeOK
<1>1. FilterInit => FilterInv
  BY GroupInit, CountInit, TypesInit DEF FilterInv
<1>2. FilterInv /\ [FilterNext]_filterVars => FilterInv'
  BY GroupStep, CountStep, LineStep, PlaceStep, QueueStep, BudgetStep DEF FilterInv, BoundType
<1>3. FilterInv => FilterTypeOK
  <2> SUFFICES ASSUME FilterInv PROVE FilterTypeOK
    OBVIOUS
  <2>1. LineType /\ PlaceType /\ BoundType /\ Group /\ Watching /\ CountType
    BY DEF FilterInv, GroupInv, CountInv
  <2>2. \A p \in Pipes : buffers[p].len \in 0 .. MaxLine /\ (p \in discarding => buffers[p] = Empty)
    BY <2>1 DEF LineType
  <2>3. budget.reads \in Nat /\ budget.hups \in Nat
    BY <2>1 DEF BoundType
  <2>4. QED
    BY <2>1, <2>2, <2>3 DEF LineType, PlaceType, BoundType, Group, Watching, CountType, FilterTypeOK
<1>4. QED
  BY <1>1, <1>2, <1>3, PTL DEF FilterSpec
=============================================================================
