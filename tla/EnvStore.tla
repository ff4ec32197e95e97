------------------------------- MODULE EnvStore -------------------------------
(***************************************************************************)
(* The values the device keeps for its servers: the map in memory, the     *)
(* file it is written through to (env_store.rs), and the children that     *)
(* were spawned with them (enrich and the env handlers of daemon.rs).      *)
(*                                                                         *)
(* A mutation changes the map first and then flushes the whole map to the  *)
(* file, which can fail.  The file is replaced atomically (secure_file.rs  *)
(* on unix).  A restart of the daemon reads the file again.                *)
(*                                                                         *)
(* One namespace; which namespace is open is the subject of RunLoop.  A    *)
(* handler is cut where it may be dropped, while a child is being stopped. *)
(***************************************************************************)
EXTENDS Naturals

CONSTANTS Servers,
          EnvKeys,   \* names of environment variables
          Places,    \* placeholders of templated_args
          Values,
          Unset,     \* no value for a key
          None       \* no entry, no child, no handler

ASSUME EnvStoreAssumption == Unset \notin Values

Envs    == [EnvKeys -> Values \cup {Unset}]   \* EnvMap
Args    == [Places -> Values \cup {Unset}]    \* templated_args
Entry   == [env : Envs, args : Args]          \* ServerSpec
NoEnv   == [k \in EnvKeys |-> Unset]
NoArgs  == [p \in Places |-> Unset]
Default == [env |-> NoEnv, args |-> NoArgs]   \* ServerSpec::default

\* No entry is told from one (an Option).
ASSUME NoneAssumption == None \notin Entry

VARIABLES
  mem,     \* EnvStore.data: mem[s] is an entry or None
  disk,    \* server_envs.json
  child,   \* child[s]: what the child of s was spawned from and with
  task,    \* the handler stopping a child: what it does next
  dirty,   \* history: the last flush failed
  unsaved, \* history: servers with a value stored after their child started,
           \* whose flush failed, so that the child was left alone
  acked    \* history: servers whose last mutation returned Ok

memVars     == <<mem, disk, dirty, acked>>
envVars     == <<memVars, child, task, unsaved>>

\* raw is the env field of desired_raw, bound what the process got.
Child == [raw : Envs, bound : Entry]
Task  == [srv : Servers, then : {"spawn", "stop", "forget"}, raw : Envs]
Idle  == task = None

EnvTypeOK ==
  /\ mem \in [Servers -> Entry \cup {None}]
  /\ disk \in [Servers -> Entry \cup {None}]
  /\ child \in [Servers -> Child \cup {None}]
  /\ task \in Task \cup {None}
  /\ dirty \in BOOLEAN
  /\ unsaved \in SUBSET Servers
  /\ acked \in SUBSET Servers

EnvInit ==
  /\ mem = [s \in Servers |-> None]
  /\ disk = mem
  /\ child = [s \in Servers |-> None]
  /\ task = None
  /\ dirty = FALSE
  /\ unsaved = {}
  /\ acked = {}

-----------------------------------------------------------------------------
(* Lookups *)

\* Bug: a key the update does not name becomes null.
ExtendNull(old, new) ==
  [k \in DOMAIN old |-> IF new[k] = Unset THEN None ELSE new[k]]

\* BTreeMap::extend: keys of the update win, the others stay.
Extend(old, new) ==
  [k \in DOMAIN old |-> IF new[k] = Unset THEN old[k] ELSE new[k]]

\* enrich with resolve_env_for_spawn and substitute_templated_args: the
\* stored environment wins as a whole when there is any.
Enrich(s, raw) ==
  IF mem[s] = None THEN [env |-> raw, args |-> NoArgs]
  ELSE [env |-> IF mem[s].env = NoEnv THEN raw ELSE mem[s].env,
        args |-> mem[s].args]

\* EnvStore::flush, with result ok.
Flush(ok) ==
  /\ disk' = IF ok THEN mem' ELSE disk
  /\ dirty' = ~ok

-----------------------------------------------------------------------------
(* ServerEnvUpdate and ServerSpecUpdate *)

\* Bug: the values are stored but the running child is left alone.
UpdateQuietly(s, env, args) ==
  /\ Idle
  /\ LET old == IF mem[s] = None THEN Default ELSE mem[s]
     IN  mem' = [mem EXCEPT ![s] = [env |-> Extend(old.env, env),
                                    args |-> Extend(old.args, args)]]
  /\ \E ok \in BOOLEAN :
       /\ Flush(ok)
       /\ acked' = IF ok THEN acked \cup {s} ELSE acked \ {s}
  /\ UNCHANGED <<child, task, unsaved>>

\* The values are merged and flushed; only then, and only if that worked, a
\* child in the map is stopped to be spawned again.
Update(s, env, args) ==
  /\ Idle
  /\ LET old == IF mem[s] = None THEN Default ELSE mem[s]
     IN  mem' = [mem EXCEPT ![s] = [env |-> Extend(old.env, env),
                                    args |-> Extend(old.args, args)]]
  /\ \E ok \in BOOLEAN :
       /\ Flush(ok)
       /\ acked' = IF ok THEN acked \cup {s} ELSE acked \ {s}
       /\ IF child[s] = None THEN UNCHANGED <<child, task, unsaved>>
          ELSE IF ok
          THEN /\ task' = [srv |-> s, then |-> "spawn", raw |-> child[s].raw]
               /\ child' = [child EXCEPT ![s] = None]
               /\ unsaved' = unsaved \ {s}
          ELSE unsaved' = unsaved \cup {s} /\ UNCHANGED <<child, task>>

\* apply_env_update
EnvUpdate(s, env) == Update(s, env, NoArgs)

\* apply_spec_update; an absent field of the frame is an empty map.
SpecUpdate(s, env, args) == Update(s, env, args)

-----------------------------------------------------------------------------
(* Desired state *)

\* children.remove and the beginning of shutdown.
StopFor(s, next, raw) ==
  /\ child' = [child EXCEPT ![s] = None]
  /\ unsaved' = unsaved \ {s}
  /\ task' = [srv |-> s, then |-> next, raw |-> raw]

\* try_spawn, which may fail.
Spawn(s, raw) ==
  /\ \/ child' = [child EXCEPT ![s] = [raw |-> raw, bound |-> Enrich(s, raw)]]
     \/ UNCHANGED child
  /\ task' = None
  /\ UNCHANGED <<memVars, unsaved>>

\* A server of a snapshot or delta: a child of another raw spec, or one that
\* has exited, is replaced.  (A healthy one of the same raw spec is kept:
\* nothing changes.)
Ensure(s, raw) ==
  /\ Idle
  /\ IF child[s] = None THEN Spawn(s, raw)
     ELSE /\ StopFor(s, "spawn", raw)
          /\ UNCHANGED memVars

\* restart_unresponsive
Respawn(s) ==
  /\ Idle
  /\ child[s] # None
  /\ StopFor(s, "spawn", child[s].raw)
  /\ UNCHANGED memVars

\* Absent from a snapshot, or disabled: the values stay.
Withdraw(s) ==
  /\ Idle
  /\ child[s] # None
  /\ StopFor(s, "stop", NoEnv)
  /\ UNCHANGED memVars

\* Bug: the removal is not written to the file.
ForgetInMemory(s) ==
  /\ mem' = [mem EXCEPT ![s] = None]
  /\ acked' = acked \cup {s}
  /\ UNCHANGED <<disk, dirty>>

\* EnvStore::remove flushes only when there was an entry.
Forget(s) ==
  /\ mem' = [mem EXCEPT ![s] = None]
  /\ IF mem[s] = None
     THEN acked' = acked \cup {s} /\ UNCHANGED <<disk, dirty>>
     ELSE \E ok \in BOOLEAN :
            /\ Flush(ok)
            /\ acked' = IF ok THEN acked \cup {s} ELSE acked \ {s}

\* Removed by a delta: stop the child, then forget its values.
RemoveServer(s) ==
  /\ Idle
  /\ IF child[s] = None
     THEN Forget(s) /\ UNCHANGED <<child, task, unsaved>>
     ELSE StopFor(s, "forget", NoEnv) /\ UNCHANGED memVars

\* The child has been stopped and the handler goes on.
Stopped ==
  /\ ~Idle
  /\ CASE task.then = "spawn" -> Spawn(task.srv, task.raw)
       [] task.then = "stop" -> /\ task' = None
                                /\ UNCHANGED <<memVars, child, unsaved>>
       [] task.then = "forget" -> /\ Forget(task.srv)
                                  /\ task' = None
                                  /\ UNCHANGED <<child, unsaved>>

\* The session ends while a child is being stopped.
DropHandler ==
  /\ ~Idle
  /\ task' = None
  /\ UNCHANGED <<memVars, child, unsaved>>

\* The daemon stops or crashes and is started again: open_at.
Restart ==
  /\ mem' = disk
  /\ child' = [s \in Servers |-> None]
  /\ task' = None
  /\ unsaved' = {}
  /\ dirty' = FALSE
  /\ UNCHANGED <<disk, acked>>

-----------------------------------------------------------------------------
EnvNext ==
  \/ \E s \in Servers :
       \/ \E e \in Envs : EnvUpdate(s, e) \/ Ensure(s, e)
       \/ \E e \in Envs, a \in Args : SpecUpdate(s, e, a)
       \/ Respawn(s) \/ Withdraw(s) \/ RemoveServer(s)
  \/ Stopped \/ DropHandler \/ Restart

EnvSpec == EnvInit /\ [][EnvNext]_envVars

-----------------------------------------------------------------------------
(* Properties *)

\* Between handlers a child has exactly the values the store would give it
\* now - whatever was updated, dropped, removed or restarted before - but for
\* a value whose flush failed after the child had started.
ChildrenCurrent ==
  Idle => \A s \in Servers \ unsaved :
    child[s] # None => child[s].bound = Enrich(s, child[s].raw)

\* A restart loses no value, and brings none back, unless the last flush
\* failed: later flushes make up for earlier failures.
RestartKeepsValues ==
  [][Restart => mem' = mem \/ dirty]_envVars

\* Claimed by env_store.rs of EnvStore: "All mutation methods write through
\* to disk before returning", so a mutation that returned Ok is on disk.
WriteThrough == \A s \in acked : disk[s] = mem[s]
=============================================================================
