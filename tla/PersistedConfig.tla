--------------------------- MODULE PersistedConfig ---------------------------
(***************************************************************************)
(* config.toml as a value (PersistedConfig of config.rs), the flags laid   *)
(* over it (Resolved::merge) and what the daemon makes of both             *)
(* (ResolvedRun of daemon_auth.rs).                                        *)
(*                                                                         *)
(* Backends are normalised URLs.  The user and the organisation are one    *)
(* value, as they are set, cleared and compared together; the scopes and   *)
(* the label, which nothing here depends on, are left out.                 *)
(***************************************************************************)

CONSTANTS None,      \* an absent field
          Empty,     \* the empty string, where a flag may give it
          Hostname   \* the device name of last resort

\* An empty file, or none.
NoConfig == [backend |-> None, key |-> None, token |-> None, install |-> None,
             user |-> None, secret |-> None, device |-> None]

NoFlags == [backend |-> None, key |-> None, secret |-> None, device |-> None]

\* nonempty
Usable(v) == v \notin {None, Empty}

\* Option::or
Or(v, w) == IF v # None THEN v ELSE w

\* usable_credential: the client token before the legacy key.
Kind(c) == IF Usable(c.token) THEN "client"
           ELSE IF Usable(c.key) THEN "legacy" ELSE "none"

Bearer(c) == IF Usable(c.token) THEN c.token ELSE c.key

\* clear_authentication
Cleared(c) == [NoConfig EXCEPT !.backend = c.backend]

\* has_issuer_bound_values
HasBoundValues(c) ==
  \/ Kind(c) # "none"
  \/ \E v \in {c.install, c.user, c.secret, c.device} : Usable(v)

\* What a client credential cannot be used without.
BindingComplete(c) ==
  Kind(c) = "client" => Usable(c.install) /\ Usable(c.device)

\* ensure_installable
Installable(c) == Usable(c.backend) /\ Kind(c) # "none" /\ BindingComplete(c)

-----------------------------------------------------------------------------
(* Flags over the file *)

\* The flags would take what the saved backend issued to another backend, or
\* give a client credential another device.
Refused(saved, flags) ==
  /\ flags.key = None
  /\ \/ /\ flags.backend \notin {None, saved.backend}
        /\ HasBoundValues(saved)
     \/ /\ Usable(saved.token)
        /\ flags.device \notin {None, saved.device}

\* Bug: a key given by flag inherits whatever is saved for the same backend.
KeepSameBackend(saved, flags) == flags.backend \in {None, saved.backend}

\* preserve_legacy_values: a key given by flag for the same backend inherits
\* the secret and the device of the saved key.
KeepLegacy(saved, flags) ==
  /\ ~Usable(saved.token)
  /\ Usable(saved.key)
  /\ flags.backend \in {None, saved.backend}

\* Resolved::merge, where it does not refuse.
Merge(saved, flags) ==
  LET legacy == flags.key # None
      kept(v) == IF legacy /\ ~KeepLegacy(saved, flags) THEN None ELSE v
  IN  [backend |-> Or(flags.backend, saved.backend),
       key     |-> IF legacy THEN flags.key ELSE saved.key,
       token   |-> IF legacy THEN None ELSE saved.token,
       install |-> IF legacy THEN None ELSE saved.install,
       secret  |-> Or(flags.secret, kept(saved.secret)),
       device  |-> Or(flags.device, kept(saved.device))]

\* ResolvedRun::from_args
Resolve(saved, flags) ==
  LET m == Merge(saved, flags)
  IN  IF Refused(saved, flags) THEN [kind |-> "invalid"]
      ELSE IF m.backend = None \/ Kind(m) = "none" \/ ~BindingComplete(m)
      THEN [kind |-> "awaiting_login"]
      ELSE [backend |-> m.backend,
            kind    |-> Kind(m),
            bearer  |-> Bearer(m),
            install |-> IF Kind(m) = "client" THEN m.install ELSE None,
            secret  |-> m.secret,
            device  |-> Or(m.device, Hostname)]

Resolved(r) == r.kind \in {"client", "legacy"}

\* ResolvedRun::env_namespace
Namespace(r) == IF r.install = None THEN None ELSE <<r.backend, r.install>>

\* requires_child_reset
RequiresChildReset(r, s) ==
  \/ r.backend # s.backend
  \/ r.kind # s.kind
  \/ r.install # s.install
  \/ r.device # s.device
  \/ r.kind = "legacy" /\ r.bearer # s.bearer
=============================================================================
