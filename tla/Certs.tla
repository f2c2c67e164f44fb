-------------------------------- MODULE Certs --------------------------------
(***************************************************************************)
(* The certificates of the front container (core/nginx): letsencrypt.py,   *)
(* which obtains and deploys them with certbot, certwatcher.py, which      *)
(* follows certificates somebody else puts in place, and config.py, which  *)
(* both run to have nginx and dovecot use them.  TLS_FLAVOR picks one.     *)
(*                                                                         *)
(* Certificates that certbot replaces lose the mark that nginx has them:   *)
(* no version numbers are needed.  Sleeping is waiting for Wake.  certbot  *)
(* issues a certificate and runs its deploy hook in one step.              *)
(***************************************************************************)
EXTENDS Integers, Sequences, FiniteSets

CONSTANTS
  Hosts,       \* HOSTNAMES
  Flavors,     \* TLS_FLAVOR values to consider: "letsencrypt", "cert"
  MaxFaults,   \* bound on crashes, restarts, and failures of what it calls
  MaxWrites    \* bound on changes of the external files

ASSUME CertsConstants ==
  /\ Hosts # {} /\ Flavors \subseteq {"letsencrypt", "cert"}
  /\ MaxFaults \in Nat /\ MaxWrites \in Nat

VARIABLES
  flavor,
  tls,      \* nginx serves TLS
  cert,     \* per key type: the files below /certs/letsencrypt/live
  loaded,   \* per key type: nginx has the files that are there now
  markers,  \* the marker files in /tmp
  pc, reach, rsaOk,   \* letsencrypt.py: where it is and what it found
  faults,   \* what went wrong so far
  need,     \* history: a certificate was due or unusable at the last probe
  file,     \* flavor cert: content of cert.pem and key.pem, 0 when missing
  seen,     \* the files that were there in the observer's last snapshot
  changed,  \* what happened to each since then
  events,   \* what the observer has still to dispatch
  rendered, \* the configuration on disk has TLS
  served,   \* the content nginx has loaded
  writes

acme == <<cert, loaded, markers, pc, reach, rsaOk, faults, need>>
watch == <<file, seen, changed, events, rendered, served, writes>>
vars == <<flavor, tls, acme, watch>>

KeyTypes == {"rsa", "ecdsa"}
Names == {"cert", "key"}

Certificate == [age : {"none", "fresh", "due", "expired"},
                chain : {"good", "rejected", "mismatch"}, hosts : SUBSET Hosts]

-----------------------------------------------------------------------------
(* config.py                                                               *)

\* certificates_ready: the required files exist.
Ready == \A t \in KeyTypes : cert[t].age # "none"

\* validate_keypair, format_for_dane and format_for_front_ecdsa raise nothing:
\* keys match, and every chain verifies, now, up to a pinned root.
Accepted ==
  \A t \in KeyTypes :
    cert[t].age # "none" => cert[t].chain = "good" /\ cert[t].age # "expired"

\* A run that ends well has nginx and dovecot load what is there; missing
\* files only switch TLS off.
ConfigSucceeds ==
  Accepted /\ tls' = Ready /\ loaded' = [t \in KeyTypes |-> Ready] /\ UNCHANGED faults

Fault == faults < MaxFaults /\ faults' = faults + 1

\* A chain is refused, or nginx, doveconf or supervisorctl report an error.
ConfigFails ==
  /\ IF Accepted THEN Fault ELSE UNCHANGED faults
  /\ UNCHANGED <<tls, loaded>>

-----------------------------------------------------------------------------
(* letsencrypt.py                                                          *)

\* certificate_state: whether the certificates are valid, and one is due.
Valid == \A t \in KeyTypes : cert[t].age \in {"fresh", "due"} /\ cert[t].chain # "mismatch"
RenewalDue == ~Valid \/ \E t \in KeyTypes : cert[t].age = "due"

Goto(l) == pc' = l /\ UNCHANGED <<flavor, watch>>

\* The head of the loop: a deployment that is pending is tried again.
Pending == "deploy" \in markers /\ Ready

\* Mutant: a pending deployment is retried whatever the files are.
Worthwhile_Bug == TRUE

Worthwhile == Valid

SkipDeploy ==
  /\ pc = "top" /\ (~Pending \/ ~Worthwhile)
  /\ markers' = IF Pending THEN markers \ {"deploy"} ELSE markers
  /\ Goto("probe") /\ UNCHANGED <<tls, cert, loaded, reach, rsaOk, faults, need>>

RetryDeploy ==
  /\ pc = "top" /\ Pending /\ Worthwhile
  /\ \/ ConfigSucceeds /\ Goto("redeployed")
     \/ ConfigFails /\ Goto("hour")
  /\ UNCHANGED <<cert, markers, reach, rsaOk, need>>

\* Mutant: unreachable hostnames are left out whatever the certificates cover.
KeepCurrent_Bug(R) == FALSE

\* Mutant: the pass ends when nothing is due, whatever was left undeployed.
KeepCurrent_Bug2(R) == Valid /\ ~RenewalDue

\* Some hostname is unreachable, and the certificates can wait.
KeepCurrent(R) == R # Hosts /\ Valid /\ ~RenewalDue

\* reachable_hostnames, repeated until it finds one.
Probe(R) ==
  /\ pc = "probe" /\ R # {}
  /\ need' = \E t \in KeyTypes : cert[t].age # "fresh" \/ cert[t].chain = "mismatch"
  /\ reach' = R
  /\ IF R # Hosts THEN Fault ELSE UNCHANGED faults
  /\ Goto(IF KeepCurrent(R) THEN "hour" ELSE "rsa")
  /\ UNCHANGED <<tls, cert, loaded, markers, rsaOk>>

\* What follows the second certbot: both ended well, and there is a reason
\* to deploy or not.
Follow(ok, m) ==
  IF ~(rsaOk /\ ok /\ Ready') THEN "hour"
  ELSE IF m \cap {"renewed", "required"} # {} THEN "deploy" ELSE "day"

\* certbot is done with key type t: with status 0 or not.
Certbot(t, ok, m) ==
  /\ IF t = "rsa" THEN rsaOk' = ok /\ Goto("ecdsa")
     ELSE UNCHANGED rsaOk /\ Goto(Follow(ok, m))
  /\ markers' = m
  /\ UNCHANGED <<tls, reach, need>>

\* --keep-until-expiring, --renew-with-new-domains
NotDue(t) == cert[t].age = "fresh" /\ cert[t].hosts = reach

CertbotKeeps(t) ==
  /\ pc = t /\ NotDue(t)
  /\ UNCHANGED <<cert, loaded, faults>> /\ Certbot(t, TRUE, markers)

\* Mutant: the deploy hook is missing from the command.
Hooked_Bug(m) == m

\* --deploy-hook touches the marker.
Hooked(m) == m \cup {"renewed"}

CertbotRenews(t, chain) ==
  /\ pc = t /\ ~NotDue(t)
  /\ cert' = [cert EXCEPT ![t] = [age |-> "fresh", chain |-> chain, hosts |-> reach]]
  /\ loaded' = [loaded EXCEPT ![t] = FALSE]
  /\ UNCHANGED faults /\ Certbot(t, TRUE, Hooked(markers))

CertbotFails(t) ==
  /\ pc = t /\ ~NotDue(t) /\ Fault
  /\ UNCHANGED <<cert, loaded>> /\ Certbot(t, FALSE, markers)

\* TimeoutExpired: certbot is killed after an hour.
CertbotTimesOut(t) ==
  /\ pc = t /\ Fault
  /\ Goto("hour") /\ UNCHANGED <<tls, cert, loaded, markers, reach, rsaOk, need>>

\* A failed deployment leaves a marker when trying again makes sense.
Remembered == IF "renewed" \in markers \/ Valid THEN markers \cup {"deploy"} ELSE markers

Deploy ==
  /\ pc = "deploy"
  /\ \/ ConfigSucceeds /\ UNCHANGED markers /\ Goto("deployed")
     \/ ConfigFails /\ markers' = Remembered /\ Goto("hour")
  /\ UNCHANGED <<cert, reach, rsaOk, need>>

ClearMarkers ==
  /\ pc \in {"deployed", "redeployed"}
  /\ markers' = {}
  /\ Goto(IF pc = "deployed" THEN "day" ELSE "probe")
  /\ UNCHANGED <<tls, cert, loaded, reach, rsaOk, faults, need>>

\* time.sleep(3600) and time.sleep(86400) end.
Wake ==
  /\ pc \in {"hour", "day"}
  /\ Goto("top") /\ UNCHANGED <<tls, cert, loaded, markers, reach, rsaOk, faults, need>>

\* letsencrypt.py dies and supervisord starts it again.
Crash ==
  /\ Fault
  /\ Goto("top") /\ UNCHANGED <<tls, cert, loaded, markers, reach, rsaOk, need>>

Bootstrapped(m) == IF tls' THEN m ELSE m \cup {"required"}

\* The container starts again, with its /tmp or with a new one:
\* config.py --bootstrap switches TLS off where it would fail.
Restart ==
  /\ Fault
  /\ tls' = (Ready /\ Accepted) /\ loaded' = [t \in KeyTypes |-> tls']
  /\ \E m \in {markers, {}} : markers' = Bootstrapped(m)
  /\ Goto("top") /\ UNCHANGED <<cert, reach, rsaOk, need>>

Age(t) ==
  /\ cert[t].age \in {"fresh", "due"}
  /\ cert' = [cert EXCEPT ![t].age = IF @ = "fresh" THEN "due" ELSE "expired"]
  /\ UNCHANGED <<flavor, tls, loaded, markers, pc, reach, rsaOk, faults, need, watch>>

-----------------------------------------------------------------------------
(* certwatcher.py                                                          *)

Pair(c) == c.cert # 0 /\ c.key # 0

\* HUP: nginx reads its configuration and the files, and keeps what it has
\* when it cannot use them.
Hup(on) ==
  IF ~on THEN tls' = FALSE /\ UNCHANGED served
  ELSE IF Pair(file) /\ file.cert = file.key THEN tls' = TRUE /\ served' = file.key
  ELSE UNCHANGED <<tls, served>>

\* reexec_config: the configuration is written before nginx -t looks at it;
\* nobody looks at the status.
reexec_config ==
  /\ rendered' = Pair(file)
  /\ IF Pair(file) /\ file.cert # file.key THEN UNCHANGED <<tls, served>>
     ELSE Hup(Pair(file))

reload_nginx == UNCHANGED rendered /\ Hup(rendered)

\* The administrator writes into a file, puts another in its place, or takes
\* it away (c = 0).
Write(n, c) ==
  /\ writes < MaxWrites /\ writes' = writes + 1 /\ file[n] # c
  /\ file' = [file EXCEPT ![n] = c]
  /\ \E how \in {"modified", "replaced"} :
       /\ 0 \in {c, file[n]} \/ changed[n] = "replaced" => how = "replaced"
       /\ changed' = [changed EXCEPT ![n] = how]
  /\ UNCHANGED <<flavor, tls, acme, seen, events, rendered, served>>

Repeat(kind, S) == [i \in 1 .. Cardinality(S) |-> kind]

\* PollingObserver compares the directory with its last snapshot: a file with
\* another inode was deleted and created.
Poll ==
  /\ \E n \in Names : changed[n] # "no"
  /\ LET now == {n \in Names : file[n] # 0}
         replaced == {n \in Names : changed[n] = "replaced"}
         modified == {n \in Names : changed[n] = "modified"}
     IN  /\ events' = events \o Repeat("deleted", seen \cap replaced)
                             \o Repeat("modified", seen \cap now \cap modified)
                             \o Repeat("created", now \cap replaced)
         /\ seen' = now
  /\ changed' = [n \in Names |-> "no"]
  /\ UNCHANGED <<flavor, tls, acme, file, rendered, served, writes>>

\* Mutant: a changed file is expected to come with a created one.
on_any_event_Bug ==
  /\ events # <<>>
  /\ IF Head(events) = "modified" THEN UNCHANGED <<tls, served, rendered>> ELSE reexec_config
  /\ events' = Tail(events)
  /\ UNCHANGED <<flavor, acme, file, seen, changed, writes>>

on_any_event ==
  /\ events # <<>>
  /\ IF Head(events) = "modified" THEN reload_nginx ELSE reexec_config
  /\ events' = Tail(events)
  /\ UNCHANGED <<flavor, acme, file, seen, changed, writes>>

-----------------------------------------------------------------------------
\* config.py --bootstrap has run.
Init ==
  /\ flavor \in Flavors
  /\ cert \in [KeyTypes -> {[age |-> "none", chain |-> "good", hosts |-> {}]} \cup
                 [age : {"fresh", "due", "expired"}, chain : {"good", "rejected", "mismatch"},
                  hosts : {Hosts}]]
  /\ flavor = "cert" => ~\E t \in KeyTypes : cert[t].age # "none"
  /\ file \in IF flavor = "cert" THEN [Names -> 0 .. 1] ELSE [Names -> {0}]
  /\ tls = IF flavor = "cert" THEN Pair(file) ELSE Ready /\ Accepted
  /\ loaded = [t \in KeyTypes |-> flavor = "letsencrypt" /\ tls]
  /\ markers = IF flavor = "cert" \/ tls THEN {} ELSE {"required"}
  /\ pc = "top" /\ reach = {} /\ rsaOk = FALSE /\ faults = 0 /\ need = FALSE
  /\ seen = {n \in Names : file[n] # 0} /\ changed = [n \in Names |-> "no"] /\ events = <<>> /\ rendered = Pair(file)
  /\ served = IF Pair(file) THEN file.key ELSE 0
  /\ writes = 0

Letsencrypt ==
  \/ SkipDeploy \/ RetryDeploy \/ Deploy \/ ClearMarkers \/ Wake
  \/ \E R \in SUBSET Hosts : Probe(R)
  \/ \E t \in KeyTypes :
       \/ CertbotKeeps(t) \/ CertbotFails(t) \/ CertbotTimesOut(t)
       \/ \E c \in {"good", "rejected"} : CertbotRenews(t, c)

Certwatcher == Poll \/ on_any_event

Next ==
  \/ /\ flavor = "letsencrypt"
     /\ Letsencrypt \/ Crash \/ Restart \/ \E t \in KeyTypes : Age(t)
  \/ /\ flavor = "cert"
     /\ Certwatcher \/ \E n \in Names, c \in 0 .. 2 : Write(n, c)

\* supervisord keeps the daemons running.
Fairness ==
  /\ WF_vars(flavor = "letsencrypt" /\ Letsencrypt)
  /\ WF_vars(flavor = "cert" /\ Certwatcher)

Spec == Init /\ [][Next]_vars /\ Fairness

-----------------------------------------------------------------------------
\* Type invariant.
TypeOK ==
  /\ flavor \in Flavors /\ tls \in BOOLEAN /\ rsaOk \in BOOLEAN /\ need \in BOOLEAN
  /\ cert \in [KeyTypes -> Certificate] /\ loaded \in [KeyTypes -> BOOLEAN]
  /\ markers \subseteq {"renewed", "required", "deploy"} /\ reach \subseteq Hosts
  /\ pc \in {"top", "redeployed", "probe", "rsa", "ecdsa", "deploy", "deployed", "hour", "day"}
  /\ faults \in 0 .. MaxFaults /\ writes \in 0 .. MaxWrites
  /\ file \in [Names -> 0 .. 2] /\ seen \subseteq Names /\ served \in 0 .. 2
  /\ changed \in [Names -> {"no", "modified", "replaced"}]
  /\ events \in Seq({"created", "modified", "deleted"})
  /\ rendered \in BOOLEAN

\* letsencrypt.py sleeps for a day only when nginx has the certificates that
\* are on disk, and their chains verify, whatever failed or died on the way.
RestsDeployed ==
  pc = "day" => tls /\ \A t \in KeyTypes : loaded[t] /\ cert[t].chain = "good"

\* A hostname disappears from a certificate only when one of the two was due
\* or unusable at the probe before.
CoverageKept ==
  [][\A t \in KeyTypes : cert[t].hosts \subseteq cert'[t].hosts \/ need]_vars

\* Certificates that are on disk, not due and acceptable are loaded by nginx
\* in the end, or stop being so first.
Usable == Ready /\ Accepted /\ \A t \in KeyTypes : cert[t].age = "fresh"
Deployed == Usable ~> (~Usable \/ \A t \in KeyTypes : loaded[t])

\* As time passes, a certificate that is due is renewed, even when the one on
\* disk is refused and the loop keeps trying to deploy it.
Ages(t) == flavor = "letsencrypt" /\ Age(t)
Renewed ==
  (\A t \in KeyTypes : WF_vars(Ages(t)))
    => \A t \in KeyTypes : (cert[t].age = "due") ~> (cert[t].age = "fresh")

\* When the files stop changing and match, the watcher has nginx serve them.
Followed ==
  (writes = MaxWrites /\ Pair(file) /\ file.cert = file.key) ~> (tls /\ served = file.key)
=============================================================================
