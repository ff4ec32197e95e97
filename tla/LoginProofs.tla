----------------------------- MODULE LoginProofs -----------------------------
(***************************************************************************)
(* Proofs about Login, for any number of commands, backends, accounts and  *)
(* tokens.                                                                 *)
(*                                                                         *)
(* The argument.  A command edits a copy of the whole file; each edit      *)
(* turns a coherent copy into a coherent one, and Save writes nothing      *)
(* else: so the file is coherent, whoever overtakes whom (CopiesInv).      *)
(* What the daemon presents and what install accepts are functions of the  *)
(* file alone and follow from its coherence.  For revocation: a new token  *)
(* is in one command's copy only, until it is saved, and nobody can have   *)
(* captured it before (FreshInv).  Nothing strays, because a command that   *)
(* will not revoke the token it found has had it replaced (SeenInv).       *)
(***************************************************************************)
EXTENDS Login, TLAPS

CopiesInv ==
  /\ LoginTypeOK
  /\ Coherent(disk)
  /\ \A p \in Processes : Coherent(copy[p])

\* The token that p is about to save, if any.
Fresh(p) == IF pc[p] = "saving" THEN copy[p].token ELSE None

FreshInv ==
  /\ \A p \in Processes : pc[p] = "revoking" => prev[p] \notin {None, disk.token}
  /\ \A c \in {disk} \cup {copy[p] : p \in Processes} :
       c.token # None => c.token.id \in used
  /\ \A p \in Processes : prev[p] # None => prev[p].id \in used
  /\ \A p \in Processes : Fresh(p) # None =>
       /\ Fresh(p) # disk.token
       /\ \A q \in Processes : Fresh(p) # prev[q]
       /\ \A q \in Processes \ {p} : Fresh(p) # Fresh(q)

SeenInv ==
  /\ NoStrayToken
  /\ \A p \in Processes :
       /\ seen[p] # None => seen[p].id \in used
       /\ pc[p] = "idle" => prev[p] = None
       /\ pc[p] = "authorizing" => seen[p] = copy[p].token /\ prev[p] = seen[p]
       /\ pc[p] = "saving" => prev[p] = seen[p] \/ seen[p] \notin live

-----------------------------------------------------------------------------
(* Edits *)

\* The special values are none of what a backend issues.
LEMMA Marks ==
  /\ None \notin Backends /\ None \notin Installs /\ None \notin Users
  /\ None \notin Tokens /\ None \notin Keys /\ None \notin Devices
  /\ None \notin Secrets
  /\ Empty \notin Backends /\ Empty \notin Installs /\ Empty \notin Users
  /\ Empty \notin Tokens /\ Empty \notin Keys /\ Empty \notin Devices
  /\ Empty \notin Secrets
  /\ None # Empty /\ None # Given /\ None # Hostname
  /\ Empty # Given
  BY LoginAssumption DEF Issued

\* A device or a user of a legacy account is no installation and no user.
LEMMA LegacyMarks ==
  /\ \A d : d.id \in LegacyIds => d \notin Installs
  /\ \A o \in LegacyIds : o \notin Users
  BY LoginAssumption DEF Installs

\* The fields of a configuration (PersistedConfig).
LEMMA Fields ==
  ASSUME NEW c \in Configs
  PROVE  /\ c.backend \in Backends \cup {None} /\ c.key \in Keys \cup {None}
         /\ c.token \in Tokens \cup {None} /\ c.install \in Installs \cup {None}
         /\ c.user \in Users \cup {None} /\ c.secret \in Secrets \cup {None}
         /\ c.device \in Devices \cup {None}
  BY DEF Configs

\* An empty file is coherent, and clear_authentication makes any file so.
LEMMA ClearedEdit ==
  /\ NoConfig \in Configs /\ Coherent(NoConfig)
  /\ \A c \in Configs : /\ Cleared(c) \in Configs /\ Coherent(Cleared(c))
                        /\ Cleared(c).token = None
<1>1. NoConfig \in Configs
  BY DEF NoConfig, Configs
<1>2. Coherent(NoConfig)
  BY Marks DEF NoConfig, Coherent, Devices
<1>3. ASSUME NEW c \in Configs
      PROVE  Cleared(c) \in Configs /\ Coherent(Cleared(c)) /\ Cleared(c).token = None
  <2>1. Cleared(c) = [backend |-> c.backend, key |-> None, token |-> None,
                      install |-> None, user |-> None, secret |-> None,
                      device |-> None]
    BY DEF Cleared, NoConfig
  <2>2. c.backend \in Backends \cup {None}
    BY Fields
  <2> QED BY <2>1, <2>2, Marks DEF Coherent, Configs
<1> QED BY <1>1, <1>2, <1>3

\* login puts the values of the new token in place of the old ones and keeps
\* the secret of an unchanged account only.
LEMMA LoginEdit ==
  ASSUME NEW c \in Configs, Coherent(c), NEW b \in Backends, NEW t \in Tokens,
         NEW s \in BOOLEAN, t.install.at = b, t.user.at = b
  PROVE  /\ LoggedIn(c, b, t, s) \in Configs /\ Coherent(LoggedIn(c, b, t, s))
         /\ LoggedIn(c, b, t, s).token = t
<1> DEFINE n == LoggedIn(c, b, t, s)
<1>1. /\ n.backend = b /\ n.key = None /\ n.token = t /\ n.install = t.install
      /\ n.user = t.user /\ n.device = t.install
  BY DEF LoggedIn
<1>2. t.install \in Installs /\ t.user \in Users
  BY DEF Tokens
<1>3. n.secret \in Secrets \cup {None}
      /\ (n.secret # None => n.secret.at = b /\ n.secret.user = t.user)
  <2>1. CASE s
    BY <2>1, <1>2 DEF LoggedIn, Secrets
  <2>2. CASE ~s /\ AccountChanged(c, b, t)
    BY <2>2 DEF LoggedIn
  <2>3. CASE ~s /\ ~AccountChanged(c, b, t)
    <3>1. n.secret = c.secret /\ c.backend = b /\ c.user = t.user
      BY <2>3 DEF LoggedIn, AccountChanged
    <3>2. c.user # None
      BY <3>1, <1>2, Marks
    <3> QED BY <3>1, <3>2, Fields DEF Coherent
  <2> QED BY <2>1, <2>2, <2>3
<1>4. n \in Configs
  <2>1. n = [backend |-> n.backend, key |-> n.key, token |-> n.token,
             install |-> n.install, user |-> n.user, secret |-> n.secret,
             device |-> n.device]
    BY DEF LoggedIn
  <2> HIDE DEF n
  <2> QED BY <2>1, <1>1, <1>2, <1>3 DEF Configs, Devices
<1>5. Coherent(n)
  <2> HIDE DEF n
  <2> QED BY <1>1, <1>2, <1>3, Marks DEF Coherent
<1> QED BY <1>1, <1>4, <1>5

\* A login with a key drops what belongs to another backend or to an account.
LEMMA LegacyEdit ==
  ASSUME NEW c \in Configs, Coherent(c), NEW b \in Backends,
         NEW o \in LegacyIds, NEW s \in BOOLEAN, NEW d \in BOOLEAN
  PROVE  /\ LegacyConfig(c, b, o, s, d) \in Configs
         /\ Coherent(LegacyConfig(c, b, o, s, d))
         /\ LegacyConfig(c, b, o, s, d).token = None
<1> DEFINE kept == IF c.backend # b \/ Usable(c.token) THEN Cleared(c) ELSE c
           n == LegacyConfig(c, b, o, s, d)
           key == [at |-> b, owner |-> o]
<1>1. kept \in Configs /\ Coherent(kept) /\ kept.token = None
  <2>1. CASE c.backend # b \/ Usable(c.token)
    BY <2>1, ClearedEdit
  <2>2. CASE c.backend = b /\ ~Usable(c.token)
    BY <2>2, Fields, Marks DEF Usable
  <2> QED BY <2>1, <2>2
<1>2. kept.secret # None => kept.secret.at = b /\ kept.secret.user \in LegacyIds
  <2>1. CASE c.backend # b \/ Usable(c.token)
    BY <2>1 DEF Cleared, NoConfig
  <2>2. CASE c.backend = b /\ ~Usable(c.token)
    BY <2>2, <1>1 DEF Coherent
  <2> QED BY <2>1, <2>2
<1>3. kept.device # None => kept.device.at = b /\ kept.device.id \in LegacyIds
  <2>1. CASE c.backend # b \/ Usable(c.token)
    BY <2>1 DEF Cleared, NoConfig
  <2>2. CASE c.backend = b /\ ~Usable(c.token)
    BY <2>2, <1>1 DEF Coherent
  <2> QED BY <2>1, <2>2
<1>4. /\ kept.secret \in Secrets \cup {None} /\ kept.device \in Devices \cup {None}
  BY <1>1, Fields
<1> DEFINE sec == IF s THEN [at |-> b, user |-> o] ELSE kept.secret
           dev == IF d THEN [at |-> b, id |-> o] ELSE kept.device
<1>5. n = [backend |-> b, key |-> key, token |-> None,
           install |-> None, user |-> None, secret |-> sec, device |-> dev]
  <2> HIDE DEF kept
  <2>1. kept = [backend |-> kept.backend, key |-> kept.key, token |-> kept.token,
                install |-> kept.install, user |-> kept.user,
                secret |-> kept.secret, device |-> kept.device]
    BY <1>1 DEF Configs
  <2>2. n = [kept EXCEPT !.backend = b, !.key = key,
                   !.token = None, !.install = None, !.user = None,
                   !.secret = IF s THEN [at |-> b, user |-> o] ELSE @,
                   !.device = IF d THEN [at |-> b, id |-> o] ELSE @]
    BY DEF LegacyConfig, kept
  <2> QED BY <2>1, <2>2
<1>6. sec \in Secrets \cup {None}
      /\ (sec # None => sec.at = b /\ sec.user \in LegacyIds)
  <2> HIDE DEF kept
  <2> QED BY <1>2, <1>4 DEF Secrets
<1>7. dev \in Devices \cup {None}
      /\ (dev # None => dev.at = b /\ dev.id \in LegacyIds)
  <2> HIDE DEF kept
  <2> QED BY <1>3, <1>4 DEF Devices
<1>8. key \in Keys /\ key.at = b /\ key # None
  BY Marks DEF Keys
<1> HIDE DEF n, sec, dev, key
<1>9. n \in Configs
  BY <1>5, <1>6, <1>7, <1>8 DEF Configs
<1>10. Coherent(n)
  BY <1>5, <1>6, <1>7, <1>8 DEF Coherent
<1>11. n.token = None
  BY <1>5
<1> QED BY <1>9, <1>10, <1>11 DEF n

-----------------------------------------------------------------------------
(* Steps *)

\* A command's end leaves nothing of it.
LEMMA QuitStep ==
  ASSUME CopiesInv, NEW p \in Processes, Quit(p)
  PROVE  /\ pc' \in [Processes -> {"idle", "authorizing", "saving", "revoking"}]
         /\ copy' \in [Processes -> Configs]
         /\ target' \in [Processes -> Backends \cup {None}]
         /\ given' \in [Processes -> BOOLEAN]
         /\ prev' \in [Processes -> Tokens \cup {None}]
         /\ seen' \in [Processes -> Tokens \cup {None}]
         /\ \A q \in Processes : Coherent(copy'[q])
  BY ClearedEdit DEF CopiesInv, LoginTypeOK, Quit

\* What is issued is a token of the login's backend.
LEMMA IssueStep ==
  ASSUME LoginTypeOK, NEW p \in Processes, NEW t \in Tokens, Issue(p, t)
  PROVE  /\ target[p] \in Backends /\ t.install.at = target[p]
         /\ t.user.at = target[p] /\ live' \in SUBSET Tokens
         /\ used' \in SUBSET TokenIds
  BY DEF Issue, LoginTypeOK, Tokens, Installs

LEMMA CopiesInit == LoginInit => CopiesInv
  BY ClearedEdit DEF LoginInit, CopiesInv, LoginTypeOK

LEMMA CopiesStep == CopiesInv /\ [LoginNext]_loginVars => CopiesInv'
<1> SUFFICES ASSUME CopiesInv, [LoginNext]_loginVars PROVE CopiesInv'
  OBVIOUS
<1> USE DEF CopiesInv
<1>a. LoginTypeOK
  OBVIOUS
<1>b. disk \in Configs /\ disk.token \in Tokens \cup {None}
      /\ disk.backend \in Backends \cup {None}
  BY Fields DEF LoginTypeOK
<1>c. Captured(disk) \in Tokens \cup {None}
  BY <1>b DEF Captured
<1>1. ASSUME NEW p \in Processes, StartLogin(p) PROVE CopiesInv'
  <2>1. target' \in [Processes -> Backends \cup {None}]
        /\ given' \in [Processes -> BOOLEAN]
    BY <1>1 DEF StartLogin, LoginTypeOK
  <2> QED BY <1>1, <2>1, <1>b, <1>c
          DEF StartLogin, LoginTypeOK, backendVars
<1>2. ASSUME NEW p \in Processes, Authorize(p) PROVE CopiesInv'
  <2>1. PICK t \in Tokens :
          /\ Issue(p, t)
          /\ copy' = [copy EXCEPT ![p] = LoggedIn(@, target[p], t, given[p])]
          /\ prev' = IF AccountChanged(copy[p], target[p], t) THEN prev
                     ELSE [prev EXCEPT ![p] = None]
    BY <1>2 DEF Authorize
  <2>2. copy[p] \in Configs /\ given[p] \in BOOLEAN
    BY DEF LoginTypeOK
  <2>3. /\ target[p] \in Backends /\ t.install.at = target[p]
        /\ t.user.at = target[p] /\ live' \in SUBSET Tokens
        /\ used' \in SUBSET TokenIds
    BY <2>1, <1>a, IssueStep
  <2> DEFINE n == LoggedIn(copy[p], target[p], t, given[p])
  <2>4. n \in Configs /\ Coherent(n)
    BY <2>2, <2>3, LoginEdit
  <2>5. copy' = [copy EXCEPT ![p] = n]
    BY <2>1
  <2> HIDE DEF n
  <2>6. copy' \in [Processes -> Configs] /\ \A q \in Processes : Coherent(copy'[q])
    BY <2>4, <2>5 DEF LoginTypeOK
  <2>7. prev' \in [Processes -> Tokens \cup {None}]
    BY <2>1 DEF LoginTypeOK
  <2> QED BY <1>2, <2>3, <2>6, <2>7 DEF Authorize, LoginTypeOK
<1>3. ASSUME NEW p \in Processes, LoginFails(p) PROVE CopiesInv'
  <2>1. CASE UNCHANGED <<backendVars, lost>>
    BY <1>3, <2>1, QuitStep DEF LoginFails, LoginTypeOK, backendVars
  <2>2. ASSUME NEW t \in Tokens, Issue(p, t), lost' = (lost \cap live') \cup {t}
        PROVE  CopiesInv'
    BY <1>3, <2>2, <1>a, QuitStep, IssueStep DEF LoginFails, LoginTypeOK
  <2> QED BY <1>3, <2>1, <2>2 DEF LoginFails
<1>4. ASSUME NEW p \in Processes, StartLegacy(p) PROVE CopiesInv'
  <2>1. PICK b \in Backends, o \in LegacyIds, s, d \in BOOLEAN :
          copy' = [copy EXCEPT ![p] = LegacyConfig(disk, b, o, s, d)]
    BY <1>4 DEF StartLegacy
  <2> DEFINE n == LegacyConfig(disk, b, o, s, d)
  <2>3. n \in Configs /\ Coherent(n)
    BY <1>b, LegacyEdit
  <2>4. copy' = [copy EXCEPT ![p] = n]
    BY <2>1
  <2> HIDE DEF n
  <2> QED BY <1>4, <2>3, <2>4, <1>b, <1>c DEF StartLegacy, LoginTypeOK, backendVars
<1>5. ASSUME NEW p \in Processes, StartLogout(p) PROVE CopiesInv'
  <2>1. Cleared(disk) \in Configs /\ Coherent(Cleared(disk))
    BY <1>b, ClearedEdit
  <2> QED BY <1>5, <2>1, <1>b, <1>c DEF StartLogout, LoginTypeOK, backendVars
<1>6. ASSUME NEW p \in Processes, Save(p) PROVE CopiesInv'
  <2>1. disk' \in Configs /\ Coherent(disk') /\ lost' \in SUBSET Tokens
        /\ live' \in SUBSET Tokens /\ used' \in SUBSET TokenIds
    BY <1>6, <1>b DEF Save, LoginTypeOK, backendVars
  <2>2. CASE prev[p] = None
    BY <1>6, <2>1, <2>2, QuitStep DEF Save, LoginTypeOK
  <2>3. CASE prev[p] # None
    BY <1>6, <2>1, <2>3, ClearedEdit DEF Save, LoginTypeOK
  <2> QED BY <2>2, <2>3
<1>7. ASSUME NEW p \in Processes, Revoke(p) PROVE CopiesInv'
  BY <1>7, QuitStep DEF Revoke, LoginTypeOK
<1>8. ASSUME NEW p \in Processes, Abandon(p) PROVE CopiesInv'
  BY <1>8, QuitStep DEF Abandon, LoginTypeOK, backendVars
<1>9. CASE UNCHANGED loginVars
  BY <1>9 DEF loginVars, processVars, backendVars, LoginTypeOK, Coherent
<1> QED BY <1>1, <1>2, <1>3, <1>4, <1>5, <1>6, <1>7, <1>8, <1>9 DEF LoginNext

\* config.toml and every copy of it are well formed (PersistedConfig).
THEOREM LoginTypeCorrect == LoginSpec => []LoginTypeOK
<1>1. CopiesInv => LoginTypeOK
  BY DEF CopiesInv
<1> QED BY CopiesInit, CopiesStep, <1>1, PTL DEF LoginSpec

\* The file never mixes two backends, or a client account with another account
\* of either kind, whatever commands overlap or fail (run_login,
\* configure_legacy_login, logout); two legacy accounts of a backend it may mix.
THEOREM FileStaysCoherent == LoginSpec => []FileCoherent
<1>1. CopiesInv => FileCoherent
  BY DEF CopiesInv, FileCoherent
<1> QED BY CopiesInit, CopiesStep, <1>1, PTL DEF LoginSpec

-----------------------------------------------------------------------------
(* What the daemon and install make of the file *)

\* install accepts the file exactly when the daemon connects with it
\* (ensure_installable, ResolvedRun::from_args).
THEOREM InstallIffRuns == LoginSpec => []InstallableRuns
<1>1. CopiesInv => InstallableRuns
  <2> SUFFICES ASSUME CopiesInv PROVE InstallableRuns
    OBVIOUS
  <2>1. disk \in Configs
    BY DEF CopiesInv, LoginTypeOK
  <2>2. ~Refused(disk, NoFlags)
    BY DEF Refused, NoFlags
  <2> DEFINE m == Merge(disk, NoFlags)
  <2>3. /\ m.backend = disk.backend /\ m.key = disk.key /\ m.token = disk.token
        /\ m.install = disk.install /\ m.device = disk.device
    BY DEF Merge, NoFlags, Or
  <2> HIDE DEF m
  <2>4. Kind(m) = Kind(disk) /\ (BindingComplete(m) <=> BindingComplete(disk))
    BY <2>3 DEF Kind, BindingComplete
  <2>5. Kind(disk) \in {"client", "legacy", "none"}
    BY DEF Kind
  <2>6. Usable(disk.backend) <=> disk.backend # None
    BY <2>1, Fields, Marks DEF Usable
  <2>7. Resolved(Resolve(disk, NoFlags)) <=>
          ~(m.backend = None \/ Kind(m) = "none" \/ ~BindingComplete(m))
    BY <2>2, <2>4, <2>5 DEF Resolve, Resolved, m
  <2> QED BY <2>3, <2>4, <2>6, <2>7 DEF InstallableRuns, Installable
<1> QED BY CopiesInit, CopiesStep, <1>1, PTL DEF LoginSpec

\* Whatever flags the daemon is given, the file's values go to their own
\* backend only, and a client account's never beside another account's
\* (Resolved::merge, from_args).
THEOREM DaemonPresentsOwn == LoginSpec => []PresentsOwn
<1>1. CopiesInv => PresentsOwn
  <2> SUFFICES ASSUME CopiesInv, NEW f \in Flags, Resolved(Resolve(disk, f))
               PROVE  LET r == Resolve(disk, f)
                      IN  /\ OwnOrGiven(r.secret, r.backend)
                          /\ OwnOrGiven(r.device, r.backend)
                          /\ IF r.kind = "client"
                             THEN /\ r.bearer.install = r.install
                                  /\ r.install.at = r.backend
                                  /\ r.device = r.install
                                  /\ r.secret \in {None, Given,
                                       [at |-> r.backend, user |-> r.bearer.user]}
                             ELSE /\ OwnOrGiven(r.bearer, r.backend)
                                  /\ r.secret \notin {None, Given} => r.secret.user \in LegacyIds
                                  /\ r.device \notin Installs
    BY DEF PresentsOwn
  <2> DEFINE m == Merge(disk, f)
             r == Resolve(disk, f)
  <2>1. disk \in Configs /\ Coherent(disk)
    BY DEF CopiesInv, LoginTypeOK
  <2>2. /\ f.backend \in Backends \cup {None} /\ f.key \in {None, Empty, Given}
        /\ f.secret \in {None, Given} /\ f.device \in {None, Given}
    BY DEF Flags
  <2>3. ~Refused(disk, f) /\ Kind(m) \in {"client", "legacy"} /\ BindingComplete(m)
        /\ m.backend # None
    BY DEF Resolve, Resolved, Kind
  <2>4. /\ r.backend = m.backend /\ r.kind = Kind(m) /\ r.bearer = Bearer(m)
        /\ r.install = IF Kind(m) = "client" THEN m.install ELSE None
        /\ r.secret = m.secret /\ r.device = Or(m.device, Hostname)
    BY <2>3 DEF Resolve
  <2>5. {Given, Hostname} \cap Installs = {}
    BY LoginAssumption DEF Issued
  <2>6. /\ disk.key \in Keys \cup {None} /\ disk.token \in Tokens \cup {None}
        /\ disk.secret \in Secrets \cup {None} /\ disk.device \in Devices \cup {None}
        /\ disk.install \in Installs \cup {None}
    BY <2>1, Fields
  <2> HIDE DEF r
  <2>7. CASE f.key = None
    <3>1. /\ m.backend = Or(f.backend, disk.backend) /\ m.key = disk.key
          /\ m.token = disk.token /\ m.install = disk.install
          /\ m.secret = Or(f.secret, disk.secret)
          /\ m.device = Or(f.device, disk.device)
      BY <2>7 DEF Merge
    <3> HIDE DEF m
    <3>2. Kind(disk) # "none"
      BY <2>3, <3>1 DEF Kind
    <3>3. m.backend = disk.backend
      BY <2>3, <2>7, <3>1, <3>2 DEF Refused, HasBoundValues, Or
    <3>4. CASE Kind(m) = "client"
      <4>1. Usable(disk.token) /\ disk.token # None
        BY <3>1, <3>4 DEF Kind, Usable
      <4>2. /\ disk.install = disk.token.install /\ disk.user = disk.token.user
            /\ disk.device = disk.install
            /\ disk.secret # None => disk.secret.user = disk.user
        BY <2>1, <4>1 DEF Coherent
      <4>3. m.device = disk.device
        BY <2>3, <2>7, <3>1, <4>1 DEF Refused, Or
      <4>4. disk.install \in Installs /\ disk.install # None
        BY <2>6, <4>1, <4>2, Marks DEF Tokens
      <4>5. r.device = disk.install /\ r.install = disk.install
            /\ r.bearer = disk.token /\ r.kind = "client"
        BY <2>4, <3>1, <3>4, <4>1, <4>2, <4>3, <4>4 DEF Or, Bearer
      <4>6. disk.install.at = disk.backend
        BY <2>1, <4>4 DEF Coherent
      <4>7. m.secret \in {None, Given,
                          [at |-> disk.backend, user |-> disk.token.user]}
        <5>1. CASE disk.secret = None
          BY <2>2, <3>1, <5>1 DEF Or
        <5>2. CASE disk.secret # None
          <6>1. disk.secret.at = disk.backend /\ disk.secret.user = disk.token.user
            BY <2>1, <4>2, <5>2 DEF Coherent
          <6>2. disk.secret = [at |-> disk.secret.at, user |-> disk.secret.user]
            BY <2>6, <5>2 DEF Secrets
          <6> QED BY <2>2, <3>1, <6>1, <6>2 DEF Or
        <5> QED BY <5>1, <5>2
      <4> QED BY <2>4, <3>3, <4>2, <4>5, <4>6, <4>7 DEF OwnOrGiven, r
    <3>5. CASE Kind(m) = "legacy"
      <4>1. ~Usable(disk.token) /\ disk.token = None /\ r.bearer = disk.key
            /\ disk.key # None
        BY <2>4, <2>6, <3>1, <3>5, Marks DEF Kind, Usable, Bearer
      <4>2. /\ disk.device \notin Installs /\ disk.key.at = disk.backend
            /\ disk.secret # None => /\ disk.secret.at = disk.backend
                                     /\ disk.secret.user \in LegacyIds
            /\ disk.device # None => disk.device.at = disk.backend
        BY <2>1, <4>1, LegacyMarks, Marks DEF Coherent
      <4>3. OwnOrGiven(m.secret, disk.backend)
            /\ (m.secret \notin {None, Given} => m.secret.user \in LegacyIds)
        BY <2>2, <3>1, <4>2 DEF Or, OwnOrGiven
      <4>4. OwnOrGiven(r.device, disk.backend) /\ r.device \notin Installs
        BY <2>2, <2>4, <2>5, <3>1, <4>2 DEF Or, OwnOrGiven
      <4>5. r.kind = "legacy" /\ r.secret = m.secret
        BY <2>4, <3>5
      <4> QED BY <2>4, <3>3, <4>1, <4>2, <4>3, <4>4, <4>5 DEF OwnOrGiven, r
    <3> QED BY <2>3, <3>4, <3>5
  <2>8. CASE f.key # None
    <3> DEFINE kept(v) == IF KeepLegacy(disk, f) THEN v ELSE None
    <3>1. /\ m.backend = Or(f.backend, disk.backend) /\ m.key = f.key
          /\ m.token = None
          /\ m.secret = Or(f.secret, kept(disk.secret))
          /\ m.device = Or(f.device, kept(disk.device))
      BY <2>8 DEF Merge
    <3> HIDE DEF m
    <3>2. r.kind = "legacy" /\ r.bearer = f.key /\ r.secret = m.secret
          /\ r.backend = m.backend
      BY <2>3, <2>4, <3>1 DEF Kind, Bearer, Usable
    <3>3. CASE KeepLegacy(disk, f)
      <4>1. disk.token = None /\ m.backend = disk.backend
        BY <2>6, <3>1, <3>3, Marks DEF KeepLegacy, Usable, Or
      <4>2. /\ disk.device \notin Installs
            /\ disk.secret # None => /\ disk.secret.at = disk.backend
                                     /\ disk.secret.user \in LegacyIds
            /\ disk.device # None => disk.device.at = disk.backend
        BY <2>1, <4>1, LegacyMarks, Marks DEF Coherent
      <4>3. OwnOrGiven(m.secret, m.backend)
            /\ (m.secret \notin {None, Given} => m.secret.user \in LegacyIds)
        BY <2>2, <3>1, <3>3, <4>1, <4>2 DEF Or, OwnOrGiven
      <4>4. OwnOrGiven(r.device, m.backend) /\ r.device \notin Installs
        BY <2>2, <2>4, <2>5, <3>1, <3>3, <4>1, <4>2 DEF Or, OwnOrGiven
      <4> QED BY <2>2, <3>2, <4>3, <4>4 DEF OwnOrGiven, r
    <3>4. CASE ~KeepLegacy(disk, f)
      <4>1. m.secret \in {None, Given} /\ m.device \in {None, Given}
        BY <2>2, <3>1, <3>4 DEF Or
      <4>2. r.device \in {Given, Hostname}
        BY <2>4, <4>1 DEF Or
      <4> QED BY <2>2, <2>5, <3>2, <4>1, <4>2 DEF OwnOrGiven, r
    <3> QED BY <3>3, <3>4
  <2> QED BY <2>7, <2>8
<1> QED BY CopiesInit, CopiesStep, <1>1, PTL DEF LoginSpec

\* Configurations of different value stores differ in what requires_child_reset
\* compares: RunLoop assumes it of its configurations (env_namespace).
THEOREM NamespaceChangeResets ==
  ASSUME NEW r, NEW s, Namespace(r) # Namespace(s)
  PROVE  RequiresChildReset(r, s)
  BY DEF Namespace, RequiresChildReset

-----------------------------------------------------------------------------
(* Revocation *)

LEMMA FreshStart == LoginInit => FreshInv
<1> SUFFICES ASSUME LoginInit PROVE FreshInv
  OBVIOUS
<1>1. disk.token = None
      /\ \A p \in Processes : /\ copy[p].token = None /\ prev[p] = None
                              /\ pc[p] = "idle"
  BY DEF LoginInit, NoConfig
<1> QED BY <1>1 DEF FreshInv, Fresh

\* A command that ends, or has its copy taken away, holds no new token.
LEMMA FreshQuit ==
  ASSUME CopiesInv, FreshInv, NEW p \in Processes, Quit(p)
  PROVE  /\ \A q \in Processes : Fresh(q)' = IF q = p THEN None ELSE Fresh(q)
         /\ \A q \in Processes \ {p} : /\ pc'[q] = pc[q] /\ prev'[q] = prev[q]
                                       /\ copy'[q] = copy[q]
         /\ pc'[p] = "idle" /\ prev'[p] = None /\ copy'[p].token = None
  BY DEF CopiesInv, LoginTypeOK, Quit, Fresh, NoConfig

\* A command that starts and edits away the token of its copy.
LEMMA FreshBegin ==
  ASSUME CopiesInv, FreshInv, NEW p \in Processes, pc[p] = "idle",
         NEW c, copy' = [copy EXCEPT ![p] = c],
         \/ pc' = [pc EXCEPT ![p] = "authorizing"] /\ c.token = disk.token
         \/ pc' = [pc EXCEPT ![p] = "saving"] /\ c.token = None,
         prev' = [prev EXCEPT ![p] = Captured(disk)], UNCHANGED <<disk, used>>
  PROVE  FreshInv'
<1>1. Captured(disk) \in {None, disk.token}
  BY DEF Captured
<1>2. \A q \in Processes \ {p} : /\ pc'[q] = pc[q] /\ prev'[q] = prev[q]
                                 /\ copy'[q] = copy[q]
  BY DEF CopiesInv, LoginTypeOK
<1>3. /\ prev'[p] = Captured(disk) /\ copy'[p] = c
      /\ \/ pc'[p] = "authorizing" /\ c.token = disk.token
         \/ pc'[p] = "saving" /\ c.token = None
  BY DEF CopiesInv, LoginTypeOK
<1>4. \A q \in Processes : Fresh(q)' = IF q = p THEN None ELSE Fresh(q)
  BY <1>2, <1>3 DEF Fresh
<1>5. disk.token # None => disk.token.id \in used
  BY DEF FreshInv
<1>6. (\A q \in Processes : pc[q] = "revoking" => prev[q] \notin {None, disk.token})'
  BY <1>2, <1>3 DEF FreshInv
<1>7. (\A d \in {disk} \cup {copy[q] : q \in Processes} :
          d.token # None => d.token.id \in used)'
  BY <1>2, <1>3, <1>5 DEF FreshInv
<1>8. (\A q \in Processes : prev[q] # None => prev[q].id \in used)'
  BY <1>1, <1>2, <1>3, <1>5 DEF FreshInv
<1>9. \A q \in Processes : Fresh(q)' # None =>
        /\ Fresh(q)' # disk'.token
        /\ \A o \in Processes : Fresh(q)' # prev'[o]
        /\ \A o \in Processes \ {q} : Fresh(q)' # Fresh(o)'
  BY <1>1, <1>2, <1>3, <1>4 DEF FreshInv
<1> QED BY <1>6, <1>7, <1>8, <1>9 DEF FreshInv

LEMMA FreshStep == CopiesInv /\ FreshInv /\ [LoginNext]_loginVars => FreshInv'
<1> SUFFICES ASSUME CopiesInv, FreshInv, [LoginNext]_loginVars PROVE FreshInv'
  OBVIOUS
<1>1. ASSUME NEW p \in Processes, StartLogin(p) PROVE FreshInv'
  <2>1. /\ pc[p] = "idle" /\ copy' = [copy EXCEPT ![p] = disk]
        /\ pc' = [pc EXCEPT ![p] = "authorizing"]
        /\ prev' = [prev EXCEPT ![p] = Captured(disk)] /\ UNCHANGED <<disk, used>>
    BY <1>1 DEF StartLogin, backendVars
  <2> QED BY <2>1, FreshBegin
<1>2. ASSUME NEW p \in Processes, Authorize(p) PROVE FreshInv'
  <2>1. PICK t \in Tokens :
          /\ Issue(p, t)
          /\ copy' = [copy EXCEPT ![p] = LoggedIn(@, target[p], t, given[p])]
          /\ prev' = IF AccountChanged(copy[p], target[p], t) THEN prev
                     ELSE [prev EXCEPT ![p] = None]
    BY <1>2 DEF Authorize
  <2>2. t.id \notin used /\ used' = used \cup {t.id} /\ t # None
    BY <2>1, Marks DEF Issue
  <2>3. pc[p] = "authorizing" /\ pc' = [pc EXCEPT ![p] = "saving"] /\ disk' = disk
    BY <1>2 DEF Authorize
  <2>4. copy'[p].token = t /\ pc'[p] = "saving"
        /\ \A q \in Processes \ {p} : copy'[q] = copy[q] /\ pc'[q] = pc[q]
    <3> DEFINE n == LoggedIn(copy[p], target[p], t, given[p])
    <3>1. n.token = t
      BY DEF LoggedIn
    <3>2. copy' = [copy EXCEPT ![p] = n]
      BY <2>1
    <3> HIDE DEF n
    <3> QED BY <2>3, <3>1, <3>2 DEF CopiesInv, LoginTypeOK
  <2>5. \A q \in Processes : prev'[q] \in {None, prev[q]}
                             /\ (q # p => prev'[q] = prev[q])
    <3>1. prev' = prev \/ prev' = [prev EXCEPT ![p] = None]
      BY <2>1
    <3> QED BY <3>1 DEF CopiesInv, LoginTypeOK
  <2>6. \A q \in Processes : Fresh(q)' = IF q = p THEN t ELSE Fresh(q)
    BY <2>4 DEF Fresh
  <2>7. t # disk.token /\ \A q \in Processes : t # prev[q] /\ t # copy[q].token
    BY <2>2 DEF FreshInv
  <2>8. (\A q \in Processes : pc[q] = "revoking" => prev[q] \notin {None, disk.token})'
    BY <2>3, <2>4, <2>5 DEF FreshInv
  <2>9. (\A d \in {disk} \cup {copy[q] : q \in Processes} :
           d.token # None => d.token.id \in used)'
    BY <2>2, <2>3, <2>4 DEF FreshInv
  <2>10. (\A q \in Processes : prev[q] # None => prev[q].id \in used)'
    BY <2>2, <2>5 DEF FreshInv
  <2>11. \A q \in Processes : t # Fresh(q)
    BY <2>2, <2>7 DEF Fresh
  <2>12. \A q \in Processes : Fresh(q)' # None =>
           /\ Fresh(q)' # disk'.token
           /\ \A o \in Processes : Fresh(q)' # prev'[o]
           /\ \A o \in Processes \ {q} : Fresh(q)' # Fresh(o)'
    BY <2>2, <2>3, <2>5, <2>6, <2>7, <2>11 DEF FreshInv
  <2> QED BY <2>8, <2>9, <2>10, <2>12 DEF FreshInv
<1>3. ASSUME NEW p \in Processes, LoginFails(p) PROVE FreshInv'
  <2>1. disk' = disk /\ used \subseteq used'
    BY <1>3 DEF LoginFails, Issue, backendVars
  <2> QED BY <1>3, <2>1, FreshQuit DEF LoginFails, FreshInv
<1>4. ASSUME NEW p \in Processes, StartLegacy(p) PROVE FreshInv'
  <2>1. PICK b \in Backends, o \in LegacyIds, s, d \in BOOLEAN :
          copy' = [copy EXCEPT ![p] = LegacyConfig(disk, b, o, s, d)]
    BY <1>4 DEF StartLegacy
  <2> DEFINE n == LegacyConfig(disk, b, o, s, d)
  <2>3. n.token = None
    BY LegacyEdit DEF CopiesInv, LoginTypeOK
  <2>4. copy' = [copy EXCEPT ![p] = n]
    BY <2>1
  <2> HIDE DEF n
  <2>5. /\ pc[p] = "idle" /\ pc' = [pc EXCEPT ![p] = "saving"]
        /\ prev' = [prev EXCEPT ![p] = Captured(disk)] /\ UNCHANGED <<disk, used>>
    BY <1>4 DEF StartLegacy, backendVars
  <2> QED BY <2>3, <2>4, <2>5, FreshBegin
<1>5. ASSUME NEW p \in Processes, StartLogout(p) PROVE FreshInv'
  <2>1. Cleared(disk).token = None
    BY ClearedEdit DEF CopiesInv, LoginTypeOK
  <2>2. /\ pc[p] = "idle" /\ copy' = [copy EXCEPT ![p] = Cleared(disk)]
        /\ pc' = [pc EXCEPT ![p] = "saving"]
        /\ prev' = [prev EXCEPT ![p] = Captured(disk)] /\ UNCHANGED <<disk, used>>
    BY <1>5 DEF StartLogout, backendVars
  <2> QED BY <2>1, <2>2, FreshBegin
<1>6. ASSUME NEW p \in Processes, Save(p) PROVE FreshInv'
  <2>1. /\ pc[p] = "saving" /\ disk' = copy[p] /\ used' = used
        /\ Fresh(p) = copy[p].token
    BY <1>6 DEF Save, backendVars, Fresh
  <2>2. /\ \A q \in Processes \ {p} : /\ pc'[q] = pc[q] /\ prev'[q] = prev[q]
                                      /\ copy'[q] = copy[q]
        /\ copy'[p].token = None /\ prev'[p] = prev[p]
        /\ pc'[p] \in {"idle", "revoking"}
        /\ pc'[p] = "revoking" => prev[p] # None
    <3>1. CASE prev[p] = None
      BY <1>6, <3>1, FreshQuit DEF Save
    <3>2. CASE prev[p] # None
      BY <1>6, <3>2 DEF Save, CopiesInv, LoginTypeOK, NoConfig
    <3> QED BY <3>1, <3>2
  <2>3. \A q \in Processes : Fresh(q)' = IF q = p THEN None ELSE Fresh(q)
    BY <2>2 DEF Fresh
  <2>4. \A q \in Processes : prev[q] # None => prev[q] # copy[p].token
    BY <2>1 DEF FreshInv
  <2>5. (\A q \in Processes : pc[q] = "revoking" => prev[q] \notin {None, disk.token})'
    BY <2>1, <2>2, <2>4 DEF FreshInv
  <2>6. (\A d \in {disk} \cup {copy[q] : q \in Processes} :
           d.token # None => d.token.id \in used)'
    BY <2>1, <2>2 DEF FreshInv
  <2>7. (\A q \in Processes : prev[q] # None => prev[q].id \in used)'
    BY <2>1, <2>2 DEF FreshInv
  <2>8. \A q \in Processes : Fresh(q)' # None =>
          /\ Fresh(q)' # disk'.token
          /\ \A o \in Processes : Fresh(q)' # prev'[o]
          /\ \A o \in Processes \ {q} : Fresh(q)' # Fresh(o)'
    BY <2>1, <2>2, <2>3 DEF FreshInv
  <2> QED BY <2>5, <2>6, <2>7, <2>8 DEF FreshInv
<1>7. ASSUME NEW p \in Processes, Revoke(p) \/ Abandon(p) PROVE FreshInv'
  <2>1. Quit(p) /\ disk' = disk /\ used' = used
    BY <1>7 DEF Revoke, Abandon, backendVars
  <2> QED BY <2>1, FreshQuit DEF FreshInv
<1>8. CASE UNCHANGED loginVars
  BY <1>8 DEF loginVars, processVars, backendVars, FreshInv, Fresh
<1> QED BY <1>1, <1>2, <1>3, <1>4, <1>5, <1>6, <1>7, <1>8 DEF LoginNext

\* A command revokes a token only when the file no longer holds it, however
\* commands overlap (revoke_previous, logout).
THEOREM RevokesUnused == LoginSpec => []RevokedNotInUse
<1>1. FreshInv => RevokedNotInUse
  BY DEF FreshInv, RevokedNotInUse
<1> QED BY CopiesInit, CopiesStep, FreshStart, FreshStep, <1>1, PTL DEF LoginSpec

-----------------------------------------------------------------------------
(* Strays *)

\* A token on disk is always captured by who loads the file (capture_revocation).
LEMMA CapturedAll ==
  ASSUME CopiesInv PROVE Captured(disk) = disk.token
<1>1. CASE disk.token = None
  BY <1>1 DEF Captured
<1>2. CASE disk.token # None
  <2>1. disk \in Configs /\ Coherent(disk)
    BY DEF CopiesInv, LoginTypeOK
  <2>2. disk.install = disk.token.install /\ disk.token \in Tokens
    BY <1>2, <2>1, Fields DEF Coherent
  <2>3. disk.install \in Installs
    BY <2>2 DEF Tokens
  <2>4. disk.install.at = disk.backend /\ disk.install.at \in Backends
    BY <2>1, <2>3, Marks DEF Coherent, Installs
  <2> QED BY <2>2, <2>4, Marks DEF Captured, Usable
<1> QED BY <1>1, <1>2

LEMMA SeenInit == LoginInit => SeenInv
<1> SUFFICES ASSUME LoginInit PROVE SeenInv
  OBVIOUS
<1>1. live = {} /\ \A p \in Processes : /\ seen[p] = None /\ pc[p] = "idle"
                                         /\ prev[p] = None
  BY DEF LoginInit
<1> QED BY <1>1 DEF SeenInv, NoStrayToken

\* A step of p changes nothing of the other commands.
OthersKept(p) ==
  \A q \in Processes \ {p} : /\ pc'[q] = pc[q] /\ prev'[q] = prev[q]
                             /\ copy'[q] = copy[q] /\ seen'[q] = seen[q]

\* What a command leaves when it ends.
LEMMA SeenQuit ==
  ASSUME CopiesInv, NEW p \in Processes, Quit(p)
  PROVE  pc'[p] = "idle" /\ seen'[p] = None /\ prev'[p] = None /\ OthersKept(p)
  BY DEF CopiesInv, LoginTypeOK, Quit, OthersKept

\* SeenInv of one command, without NoStrayToken.
SeenOf(p) ==
  /\ seen[p] # None => seen[p].id \in used
  /\ pc[p] = "idle" => prev[p] = None
  /\ pc[p] = "authorizing" => seen[p] = copy[p].token /\ prev[p] = seen[p]
  /\ pc[p] = "saving" => prev[p] = seen[p] \/ seen[p] \notin live

LEMMA SeenOthers ==
  ASSUME SeenInv, NEW p \in Processes, OthersKept(p), live' \in SUBSET Tokens,
         used \subseteq used', \A u \in live' \ live : u.id \notin used,
         SeenOf(p)', NoStrayToken'
  PROVE  SeenInv'
<1>1. ASSUME NEW q \in Processes \ {p} PROVE SeenOf(q)'
  <2>1. CASE seen[q] = None
    BY <2>1, Marks DEF SeenInv, SeenOf, OthersKept
  <2>2. CASE seen[q] # None
    BY <2>2 DEF SeenInv, SeenOf, OthersKept
  <2> QED BY <2>1, <2>2
<1> QED BY <1>1 DEF SeenInv, SeenOf

\* What is held stays held by the others, and on disk if it is not written.
LEMMA HeldByOthers ==
  ASSUME NEW p \in Processes, OthersKept(p), NEW u \in Held
  PROVE  \/ u \in Held'
         \/ u = disk.token /\ disk' # disk
         \/ u = copy[p].token /\ pc[p] = "saving"
         \/ u = prev[p] /\ pc[p] # "authorizing"
  BY DEF Held, OthersKept

LEMMA SeenStep ==
  CopiesInv /\ FreshInv /\ SeenInv /\ [LoginNext]_loginVars => SeenInv'
<1> SUFFICES ASSUME CopiesInv, FreshInv, SeenInv, [LoginNext]_loginVars
             PROVE  SeenInv'
  OBVIOUS
<1>a. CopiesInv' /\ live' \in SUBSET Tokens
  BY CopiesStep DEF CopiesInv, LoginTypeOK
<1>b. Captured(disk) = disk.token /\ (disk.token # None => disk.token.id \in used)
  BY CapturedAll DEF FreshInv
<1>c. \A u \in live : u # None /\ u \in Held \cup lost
  BY Marks DEF SeenInv, NoStrayToken, CopiesInv, LoginTypeOK
<1>1. ASSUME NEW p \in Processes, StartLogin(p) \/ StartLegacy(p) \/ StartLogout(p)
      PROVE  SeenInv'
  <2>1. /\ OthersKept(p) /\ UNCHANGED <<disk, live, used, lost>> /\ pc[p] = "idle"
        /\ pc'[p] \in {"authorizing", "saving"} /\ seen'[p] = disk.token
        /\ prev'[p] = disk.token /\ (pc'[p] = "authorizing" => copy'[p] = disk)
    BY <1>1, <1>b DEF StartLogin, StartLegacy, StartLogout, backendVars,
                      OthersKept, CopiesInv, LoginTypeOK
  <2>2. SeenOf(p)'
    BY <2>1, <1>b DEF SeenOf
  <2>3. prev[p] = None
    BY <2>1 DEF SeenInv
  <2>4. NoStrayToken'
    BY <2>1, <2>3, <1>c, HeldByOthers DEF NoStrayToken
  <2> QED BY <1>a, <2>1, <2>2, <2>4, SeenOthers
<1>2. ASSUME NEW p \in Processes, Authorize(p) PROVE SeenInv'
  <2>1. PICK t \in Tokens :
          /\ Issue(p, t)
          /\ copy' = [copy EXCEPT ![p] = LoggedIn(@, target[p], t, given[p])]
          /\ prev' = IF AccountChanged(copy[p], target[p], t) THEN prev
                     ELSE [prev EXCEPT ![p] = None]
    BY <1>2 DEF Authorize
  <2>2. /\ t.id \notin used /\ used' = used \cup {t.id}
        /\ live' = {u \in live : u.install # t.install} \cup {t}
    BY <2>1 DEF Issue
  <2>3. /\ pc[p] = "authorizing" /\ pc' = [pc EXCEPT ![p] = "saving"]
        /\ disk' = disk /\ seen' = seen /\ lost' = lost \cap live'
    BY <1>2 DEF Authorize
  <2>4. prev' = prev \/ prev' = [prev EXCEPT ![p] = None]
    BY <2>1
  <2>5. copy'[p].token = t /\ pc'[p] = "saving" /\ OthersKept(p)
    <3> DEFINE n == LoggedIn(copy[p], target[p], t, given[p])
    <3>1. n.token = t
      BY DEF LoggedIn
    <3>2. copy' = [copy EXCEPT ![p] = n]
      BY <2>1
    <3> HIDE DEF n
    <3> QED BY <2>3, <2>4, <3>1, <3>2 DEF CopiesInv, LoginTypeOK, OthersKept
  <2>6. prev[p] = seen[p] /\ seen[p] = copy[p].token
        /\ (seen[p] # None => seen[p].id \in used)
    BY <2>3 DEF SeenInv
  <2>7. prev'[p] = seen[p] \/ seen[p] \notin live'
    <3>1. CASE AccountChanged(copy[p], target[p], t)
      BY <2>1, <2>6, <3>1
    <3>2. CASE seen[p] = None
      BY <2>4, <2>6, <3>2 DEF CopiesInv, LoginTypeOK
    <3>3. CASE seen[p] # None /\ ~AccountChanged(copy[p], target[p], t)
      <4>1. seen[p].install = t.install
        BY <2>6, <3>3 DEF CopiesInv, Coherent, AccountChanged
      <4>2. seen[p] # t
        BY <2>2, <2>6, <3>3
      <4> QED BY <2>2, <4>1, <4>2
    <3> QED BY <3>1, <3>2, <3>3
  <2>8. SeenOf(p)'
    BY <2>2, <2>3, <2>5, <2>6, <2>7 DEF SeenOf
  <2>9. NoStrayToken'
    <3>1. t \in Held'
      BY <2>5 DEF Held
    <3>2. ASSUME NEW u \in live' \ {t} PROVE u \in Held' \cup lost'
      BY <2>2, <2>3, <2>5, <3>2, <1>c, HeldByOthers
    <3> QED BY <2>2, <3>1, <3>2 DEF NoStrayToken
  <2>10. \A u \in live' \ live : u.id \notin used
    BY <2>2
  <2> QED BY <1>a, <2>2, <2>5, <2>8, <2>9, <2>10, SeenOthers
<1>3. ASSUME NEW p \in Processes, LoginFails(p) PROVE SeenInv'
  <2>1. /\ pc'[p] = "idle" /\ seen'[p] = None /\ prev'[p] = None /\ OthersKept(p)
        /\ pc[p] = "authorizing" /\ disk' = disk
    BY <1>3, SeenQuit DEF LoginFails
  <2>2. SeenOf(p)'
    BY <2>1 DEF SeenOf
  <2>3. CASE UNCHANGED <<backendVars, lost>>
    <3>1. NoStrayToken'
      BY <2>1, <2>3, <1>c, HeldByOthers DEF NoStrayToken, backendVars
    <3> QED BY <1>a, <2>1, <2>2, <2>3, <3>1, SeenOthers DEF backendVars
  <2>4. ASSUME NEW t \in Tokens, Issue(p, t), lost' = (lost \cap live') \cup {t}
        PROVE  SeenInv'
    <3>1. /\ t.id \notin used /\ used' = used \cup {t.id}
          /\ live' = {u \in live : u.install # t.install} \cup {t}
      BY <2>4 DEF Issue
    <3>2. ASSUME NEW u \in live' \ {t} PROVE u \in Held' \cup lost'
      BY <2>1, <2>4, <3>1, <3>2, <1>c, HeldByOthers
    <3>3. NoStrayToken'
      BY <2>4, <3>2 DEF NoStrayToken
    <3>4. \A u \in live' \ live : u.id \notin used
      BY <3>1
    <3> QED BY <1>a, <2>1, <2>2, <3>1, <3>3, <3>4, SeenOthers
  <2> QED BY <1>3, <2>3, <2>4 DEF LoginFails
<1>4. ASSUME NEW p \in Processes, Save(p) PROVE SeenInv'
  <2>1. /\ pc[p] = "saving" /\ disk' = copy[p] /\ UNCHANGED <<live, used>>
        /\ lost' = lost \cup (({disk.token} \ {seen[p]}) \cap live)
    BY <1>4 DEF Save, backendVars
  <2>2. /\ OthersKept(p)
        /\ \/ prev[p] = None /\ pc'[p] = "idle" /\ seen'[p] = None /\ prev'[p] = None
           \/ pc'[p] = "revoking" /\ seen'[p] = seen[p] /\ prev'[p] = prev[p]
    <3>1. CASE prev[p] = None
      BY <1>4, <3>1, SeenQuit DEF Save
    <3>2. CASE prev[p] # None
      BY <1>4, <3>2 DEF Save, OthersKept, CopiesInv, LoginTypeOK
    <3> QED BY <3>1, <3>2
  <2>3. SeenOf(p)'
    BY <2>1, <2>2 DEF SeenOf, SeenInv
  <2>4. ASSUME NEW u \in live, u \in Held PROVE u \in Held' \cup lost'
    <3>1. CASE u = prev[p]
      BY <2>2, <3>1, <1>c DEF Held
    <3>2. CASE u = disk.token
      <4>1. u \in lost' \/ u = seen[p]
        BY <2>1, <3>2
      <4>2. u = seen[p] => u = prev[p]
        BY <2>1 DEF SeenInv
      <4> QED BY <3>1, <4>1, <4>2
    <3>3. CASE u = copy[p].token
      BY <2>1, <3>3 DEF Held
    <3> QED BY <2>2, <2>4, <3>1, <3>2, <3>3, HeldByOthers
  <2>5. NoStrayToken'
    BY <2>1, <2>4, <1>c DEF NoStrayToken
  <2> QED BY <1>a, <2>1, <2>2, <2>3, <2>5, SeenOthers
<1>5. ASSUME NEW p \in Processes, Revoke(p) PROVE SeenInv'
  <2>1. /\ pc'[p] = "idle" /\ seen'[p] = None /\ prev'[p] = None /\ OthersKept(p)
        /\ pc[p] = "revoking" /\ UNCHANGED <<disk, used>>
    BY <1>5, SeenQuit DEF Revoke
  <2>2. /\ live' \subseteq live /\ lost \cap live' \subseteq lost'
        /\ prev[p] \in live' => prev[p] \in lost'
    BY <1>5 DEF Revoke
  <2>3. SeenOf(p)'
    BY <2>1 DEF SeenOf
  <2>4. ASSUME NEW u \in live' PROVE u \in Held' \cup lost'
    BY <2>1, <2>2, <1>c, HeldByOthers
  <2>5. NoStrayToken'
    BY <2>4 DEF NoStrayToken
  <2> QED BY <1>a, <2>1, <2>2, <2>3, <2>5, SeenOthers
<1>6. ASSUME NEW p \in Processes, Abandon(p) PROVE SeenInv'
  <2>1. /\ pc'[p] = "idle" /\ seen'[p] = None /\ prev'[p] = None /\ OthersKept(p)
        /\ pc[p] \in {"saving", "revoking"} /\ UNCHANGED <<disk, live, used>>
        /\ lost' = lost \cup (({copy[p].token, prev[p]} \ {disk.token}) \cap live)
    BY <1>6, SeenQuit DEF Abandon, backendVars
  <2>2. SeenOf(p)'
    BY <2>1 DEF SeenOf
  <2>3. disk.token \in Held'
    BY <2>1 DEF Held
  <2>4. ASSUME NEW u \in live PROVE u \in Held' \cup lost'
    BY <2>1, <2>3, <1>c, HeldByOthers
  <2>5. NoStrayToken'
    BY <2>1, <2>4 DEF NoStrayToken
  <2> QED BY <1>a, <2>1, <2>2, <2>5, SeenOthers
<1>7. CASE UNCHANGED loginVars
  BY <1>7 DEF loginVars, processVars, backendVars, SeenInv, NoStrayToken, Held
<1> QED BY <1>1, <1>2, <1>3, <1>4, <1>5, <1>6, <1>7 DEF LoginNext

\* A token that a backend accepts is held by the file or by a command, or was
\* lost to a failure or to an overlapping command (revoke_previous, logout).
THEOREM NoTokenStrays == LoginSpec => []NoStrayToken
<1>1. SeenInv => NoStrayToken
  BY DEF SeenInv
<1> QED BY CopiesInit, CopiesStep, FreshStart, FreshStep, SeenInit, SeenStep,
           <1>1, PTL DEF LoginSpec
=============================================================================
