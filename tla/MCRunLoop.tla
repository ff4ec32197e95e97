----------------------------- MODULE MCRunLoop -----------------------------
(* c1 and c2 are one account with a rotated credential, c3 is another       *)
(* account with its own env_store, k1 and k2 are two legacy API keys: two   *)
(* identities that share the default env_store.                             *)
EXTENDS RunLoop

CONSTANTS c1, c2, c3, k1, k2

MCConfig    == {c1, c2, c3, k1, k2}
MCIdentity  == [c \in MCConfig |-> CASE c \in {c1, c2} -> "ann"
                                     [] c = c3 -> "bob"
                                     [] c = k1 -> "key1"
                                     [] c = k2 -> "key2"]
MCNamespace == [c \in MCConfig |-> CASE c \in {c1, c2} -> "ann"
                                     [] c = c3 -> "bob"
                                     [] OTHER -> "default"]
=============================================================================
