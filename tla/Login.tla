-------------------------------- MODULE Login --------------------------------
(***************************************************************************)
(* The commands that rewrite config.toml: login (cli/login.rs), its        *)
(* deprecated form with an API key, and logout (cli/logout.rs).  Each is a *)
(* process of its own that loads the file, may wait for the user to        *)
(* authorise it in a browser, replaces the file as a whole and then        *)
(* revokes the credential it displaced.  Nothing keeps two of them apart,  *)
(* and each can be interrupted anywhere.                                   *)
(*                                                                         *)
(* Values carry where they come from: installations, users, keys, devices  *)
(* and secrets the backend they belong to, a token its installation and    *)
(* user, a secret the user it was given for; a key, and the secret and the *)
(* device passed with it, their legacy account.  The code sees none of     *)
(* this.                                                                   *)
(***************************************************************************)
EXTENDS PersistedConfig

CONSTANTS Processes,   \* CLI processes
          Backends,
          InstallIds, UserIds, TokenIds,
          LegacyIds,   \* accounts that log in with an API key
          Given        \* any other value passed by a flag

Installs == [at : Backends, id : InstallIds]
Users    == [at : Backends, id : UserIds]
Tokens   == [install : Installs, user : Users, id : TokenIds]
Keys     == [at : Backends, owner : LegacyIds]
Devices  == Installs \cup [at : Backends, id : LegacyIds]
Secrets  == [at : Backends, user : Users \cup LegacyIds]

Issued   == Backends \cup Installs \cup Users \cup Tokens \cup Keys
            \cup Devices \cup Secrets

ASSUME LoginAssumption ==
  /\ {None, Empty, Given, Hostname} \cap Issued = {}
  /\ None \notin {Empty, Given, Hostname}
  /\ Empty # Given
  /\ LegacyIds \cap (InstallIds \cup Users) = {}

Configs ==
  [backend : Backends \cup {None}, key : Keys \cup {None},
   token : Tokens \cup {None}, install : Installs \cup {None},
   user : Users \cup {None}, secret : Secrets \cup {None},
   device : Devices \cup {None}]

VARIABLES
  disk,   \* config.toml
  pc,     \* pc[p]: where the command is
  copy,   \* copy[p]: cfg, its copy of the file, edited on the way
  target, \* target[p]: the backend of the login
  given,  \* given[p]: --edison-secret-key was passed
  prev,   \* prev[p]: the token to revoke after saving, as captured
  live,   \* external: tokens the backends accept
  used,   \* external: token ids that were issued
  seen,   \* history: seen[p], the token on disk when p loaded the file
  lost    \* history: accepted tokens lost to a failure or to another command

processVars == <<pc, copy, target, given, prev, seen>>
backendVars == <<live, used>>
loginVars   == <<disk, processVars, backendVars, lost>>

LoginTypeOK ==
  /\ disk \in Configs
  /\ pc \in [Processes -> {"idle", "authorizing", "saving", "revoking"}]
  /\ copy \in [Processes -> Configs]
  /\ target \in [Processes -> Backends \cup {None}]
  /\ given \in [Processes -> BOOLEAN]
  /\ prev \in [Processes -> Tokens \cup {None}]
  /\ live \in SUBSET Tokens
  /\ used \in SUBSET TokenIds
  /\ seen \in [Processes -> Tokens \cup {None}]
  /\ lost \in SUBSET Tokens

LoginInit ==
  /\ disk = NoConfig
  /\ pc = [p \in Processes |-> "idle"]
  /\ copy = [p \in Processes |-> NoConfig]
  /\ target = [p \in Processes |-> None]
  /\ given = [p \in Processes |-> FALSE]
  /\ prev = [p \in Processes |-> None]
  /\ live = {}
  /\ used = {}
  /\ seen = [p \in Processes |-> None]
  /\ lost = {}

\* The command is over; what it kept is forgotten.
Quit(p) ==
  /\ pc' = [pc EXCEPT ![p] = "idle"]
  /\ copy' = [copy EXCEPT ![p] = NoConfig]
  /\ target' = [target EXCEPT ![p] = None]
  /\ given' = [given EXCEPT ![p] = FALSE]
  /\ prev' = [prev EXCEPT ![p] = None]
  /\ seen' = [seen EXCEPT ![p] = None]

-----------------------------------------------------------------------------
(* login *)

\* Bug: a legacy key is captured like a client token.
CapturedAny(c) ==
  IF c.backend # None /\ Kind(c) # "none" THEN Bearer(c) ELSE None

\* capture_client_revocation, capture_revocation.
Captured(c) == IF c.backend # None /\ Usable(c.token) THEN c.token ELSE None

\* PersistedConfig::load, the choice of the backend, and initiate.  (An
\* initiate that fails ends the command with nothing done.)  The backend is
\* the flag's or else the file's; any backend can be had by the flag.
StartLogin(p) ==
  /\ pc[p] = "idle"
  /\ \E b \in Backends, s \in BOOLEAN :
       /\ target' = [target EXCEPT ![p] = b]
       /\ given' = [given EXCEPT ![p] = s]
  /\ pc' = [pc EXCEPT ![p] = "authorizing"]
  /\ copy' = [copy EXCEPT ![p] = disk]
  /\ prev' = [prev EXCEPT ![p] = Captured(disk)]
  /\ seen' = [seen EXCEPT ![p] = disk.token]
  /\ UNCHANGED <<disk, backendVars, lost>>

\* account_changed, with same_issuer.
AccountChanged(c, b, t) ==
  c.backend # b \/ c.install # t.install \/ c.user # t.user

\* reusable_installation: the installation the login asks to have again.
Reusable(c, b) == IF c.backend = b THEN c.install ELSE None

\* Bug: the secret outlives a change of user within an installation.
LoggedInByInstall(c, b, t, s) ==
  [backend |-> b, key |-> None, token |-> t, install |-> t.install,
   user |-> t.user, device |-> t.install,
   secret |-> IF s THEN [at |-> b, user |-> t.user]
              ELSE IF c.backend # b \/ c.install # t.install THEN None
              ELSE c.secret]

\* What login makes of its copy when it has the token.
LoggedIn(c, b, t, s) ==
  [backend |-> b, key |-> None, token |-> t, install |-> t.install,
   user |-> t.user, device |-> t.install,
   secret |-> IF s THEN [at |-> b, user |-> t.user]
              ELSE IF AccountChanged(c, b, t) THEN None ELSE c.secret]

\* External.  The user authorises the login as some user; the backend gives
\* the installation asked for or one that has no token, and a new token, which
\* replaces the one the installation had.
Issue(p, t) ==
  /\ t.id \notin used
  /\ t.install.at = target[p]
  /\ \/ t.install = Reusable(copy[p], target[p])
     \/ t.install \notin {u.install : u \in live}
  /\ t.user.at = target[p]
  /\ used' = used \cup {t.id}
  /\ live' = {u \in live : u.install # t.install} \cup {t}

\* Bug: the displaced credential is revoked only when the backend changes.
AuthorizeKeepsPrevious(p) ==
  /\ pc[p] = "authorizing"
  /\ \E t \in Tokens :
       /\ Issue(p, t)
       /\ copy' = [copy EXCEPT ![p] = LoggedIn(@, target[p], t, given[p])]
       /\ prev' = IF copy[p].backend # target[p] THEN prev
                  ELSE [prev EXCEPT ![p] = None]
  /\ pc' = [pc EXCEPT ![p] = "saving"]
  /\ target' = [target EXCEPT ![p] = None]
  /\ given' = [given EXCEPT ![p] = FALSE]
  /\ lost' = lost \cap live'
  /\ UNCHANGED <<disk, seen>>

\* poll returns a token.
Authorize(p) ==
  /\ pc[p] = "authorizing"
  /\ \E t \in Tokens :
       /\ Issue(p, t)
       /\ copy' = [copy EXCEPT ![p] = LoggedIn(@, target[p], t, given[p])]
       /\ prev' = IF AccountChanged(copy[p], target[p], t) THEN prev
                  ELSE [prev EXCEPT ![p] = None]
  /\ pc' = [pc EXCEPT ![p] = "saving"]
  /\ target' = [target EXCEPT ![p] = None]
  /\ given' = [given EXCEPT ![p] = FALSE]
  /\ lost' = lost \cap live'
  /\ UNCHANGED <<disk, seen>>

\* poll fails: denied, expired, or an error.  The backend may have issued a
\* token all the same, in an answer that came too late or not at all.
LoginFails(p) ==
  /\ pc[p] = "authorizing"
  /\ Quit(p)
  /\ \/ UNCHANGED <<backendVars, lost>>
     \/ \E t \in Tokens : Issue(p, t) /\ lost' = (lost \cap live') \cup {t}
  /\ UNCHANGED disk

-----------------------------------------------------------------------------
(* login --api-key *)

\* configure_legacy_login with a key of o: s and d say whether a secret and a
\* device id were passed.  A secret or a device that was not passed is kept
\* from the key before, whose ever that was.
LegacyConfig(c, b, o, s, d) ==
  LET kept == IF c.backend # b \/ Usable(c.token) THEN Cleared(c) ELSE c
  IN  [kept EXCEPT !.backend = b, !.key = [at |-> b, owner |-> o],
                   !.token = None, !.install = None, !.user = None,
                   !.secret = IF s THEN [at |-> b, user |-> o] ELSE @,
                   !.device = IF d THEN [at |-> b, id |-> o] ELSE @]

StartLegacy(p) ==
  /\ pc[p] = "idle"
  /\ \E b \in Backends, o \in LegacyIds, s, d \in BOOLEAN :
       copy' = [copy EXCEPT ![p] = LegacyConfig(disk, b, o, s, d)]
  /\ pc' = [pc EXCEPT ![p] = "saving"]
  /\ prev' = [prev EXCEPT ![p] = Captured(disk)]
  /\ seen' = [seen EXCEPT ![p] = disk.token]
  /\ UNCHANGED <<disk, target, given, backendVars, lost>>

-----------------------------------------------------------------------------
(* logout *)

\* Bug: the credential is revoked before the file is written.
StartLogoutRevokes(p) ==
  /\ pc[p] = "idle"
  /\ copy' = [copy EXCEPT ![p] = Cleared(disk)]
  /\ prev' = [prev EXCEPT ![p] = Captured(disk)]
  /\ pc' = [pc EXCEPT ![p] = IF prev'[p] = None THEN "saving" ELSE "revoking"]
  /\ seen' = [seen EXCEPT ![p] = disk.token]
  /\ UNCHANGED <<disk, target, given, backendVars, lost>>

StartLogout(p) ==
  /\ pc[p] = "idle"
  /\ copy' = [copy EXCEPT ![p] = Cleared(disk)]
  /\ prev' = [prev EXCEPT ![p] = Captured(disk)]
  /\ pc' = [pc EXCEPT ![p] = "saving"]
  /\ seen' = [seen EXCEPT ![p] = disk.token]
  /\ UNCHANGED <<disk, target, given, backendVars, lost>>

-----------------------------------------------------------------------------
(* The end of all three *)

\* PersistedConfig::save, which replaces the file.
Save(p) ==
  /\ pc[p] = "saving"
  /\ disk' = copy[p]
  /\ lost' = lost \cup (({disk.token} \ {seen[p]}) \cap live)
  /\ IF prev[p] = None THEN Quit(p)
     ELSE /\ pc' = [pc EXCEPT ![p] = "revoking"]
          /\ copy' = [copy EXCEPT ![p] = NoConfig]
          /\ UNCHANGED <<target, given, prev, seen>>
  /\ UNCHANGED backendVars

\* revoke_previous and the revocation of logout: best effort.
Revoke(p) ==
  /\ pc[p] = "revoking"
  /\ \/ live' = live \ {prev[p]} /\ lost' = lost \cap live'
     \/ lost' = lost \cup ({prev[p]} \cap live) /\ UNCHANGED live
  /\ Quit(p)
  /\ UNCHANGED <<disk, used>>

\* The save fails, or the process is interrupted.
Abandon(p) ==
  /\ pc[p] \in {"saving", "revoking"}
  /\ Quit(p)
  /\ lost' = lost \cup (({copy[p].token, prev[p]} \ {disk.token}) \cap live)
  /\ UNCHANGED <<disk, backendVars>>

LoginNext ==
  \E p \in Processes :
    \/ StartLogin(p) \/ Authorize(p) \/ LoginFails(p)
    \/ StartLegacy(p) \/ StartLogout(p)
    \/ Save(p) \/ Revoke(p) \/ Abandon(p)

LoginSpec == LoginInit /\ [][LoginNext]_loginVars

-----------------------------------------------------------------------------
(* Properties *)

\* Every value that belongs to a backend belongs to the backend_url beside it;
\* a client token stands beside the values of its own account only; without it
\* a secret or a device stands beside a key only, and is of a legacy account.
\* It need not be the key's: configure_legacy_login keeps what it is not given.
Coherent(c) ==
  /\ \A v \in {c.key, c.install, c.user, c.secret, c.device} \ {None} :
       v.at = c.backend
  /\ IF c.token = None
     THEN /\ c.install = None /\ c.user = None
          /\ c.key = None => c.secret = None /\ c.device = None
          /\ c.device # None => c.device.id \in LegacyIds
          /\ c.secret # None => c.secret.user \in LegacyIds
     ELSE /\ c.key = None
          /\ c.install = c.token.install
          /\ c.user = c.token.user
          /\ c.device = c.install
          /\ c.secret # None => c.secret.user = c.user

\* Whatever commands overlap or fail, config.toml never mixes two backends, or
\* a client account with another account of either kind: it is replaced as a
\* whole by a copy that does not.  (Two legacy accounts of one backend it does
\* mix: see Coherent.)
FileCoherent == Coherent(disk)

\* The flags a daemon may run with.
Flags == [backend : Backends \cup {None}, key : {None, Empty, Given},
          secret : {None, Given}, device : {None, Given}]

\* v comes from a flag, or from the file and belongs to backend b.
OwnOrGiven(v, b) == v \in {None, Empty, Given, Hostname} \/ v.at = b

\* Whatever its flags, the daemon presents nothing of the file to a backend
\* it does not belong to, a client token only with the device and the secret
\* of its account, and a key never with the secret or the device of a client
\* account (Resolved::merge and from_args on every file the commands can
\* leave).  The secret and the device may be another legacy account's.
PresentsOwn ==
  \A f \in Flags :
    LET r == Resolve(disk, f)
    IN  Resolved(r) =>
          /\ OwnOrGiven(r.secret, r.backend)
          /\ OwnOrGiven(r.device, r.backend)
          /\ IF r.kind = "client"
             THEN /\ r.bearer.install = r.install
                  /\ r.install.at = r.backend
                  /\ r.device = r.install
                  /\ r.secret \in {None, Given,
                                   [at |-> r.backend, user |-> r.bearer.user]}
             ELSE /\ OwnOrGiven(r.bearer, r.backend)
                  /\ r.secret \notin {None, Given} => r.secret.user \in LegacyIds
                  /\ r.device \notin Installs

\* install accepts the file exactly when the daemon it installs, which gets
\* no flags, would connect with it (ensure_installable and from_args).
InstallableRuns ==
  Installable(disk) <=> Resolved(Resolve(disk, NoFlags))

\* A command revokes a token only when the file no longer holds it.
RevokedNotInUse ==
  \A p \in Processes : pc[p] = "revoking" => prev[p] # disk.token

\* The tokens in the file, or in the hands of a command that will save or
\* revoke them.
Held ==
  {disk.token} \cup {copy[p].token : p \in {q \in Processes : pc[q] = "saving"}}
               \cup {prev[p] : p \in {q \in Processes : pc[q] # "authorizing"}}

\* No credential is left behind: a token a backend accepts is held, or was lost
\* to a failure or to an overlapping command (revoke_previous, logout).
NoStrayToken == live \subseteq Held \cup lost
=============================================================================
