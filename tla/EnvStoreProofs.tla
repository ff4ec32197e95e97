---------------------------- MODULE EnvStoreProofs ----------------------------
(***************************************************************************)
(* Proofs about EnvStore, for any servers, keys and values.                *)
(*                                                                         *)
(* The argument.  What a child was given depends on mem[s] and its raw     *)
(* spec only.  A handler that changes mem[s] successfully takes the child  *)
(* out first or in the same step, one that fails marks s unsaved, and a    *)
(* handler waiting to forget the values of s has no child of s left        *)
(* (EnvInv).  For the file: whoever changes mem flushes in the same step.  *)
(***************************************************************************)
EXTENDS EnvStore, TLAPS

\* ChildrenCurrent without its guard, and what makes it inductive.
EnvInv ==
  /\ EnvTypeOK
  /\ \A s \in Servers \ unsaved :
       child[s] # None => child[s].bound = Enrich(s, child[s].raw)
  /\ task # None => child[task.srv] = None
  /\ ~dirty => disk = mem

-----------------------------------------------------------------------------
\* Merging two maps of the same keys gives such a map (BTreeMap::extend).
LEMMA ExtendType ==
  ASSUME NEW K, NEW old \in [K -> Values \cup {Unset}],
         NEW new \in [K -> Values \cup {Unset}]
  PROVE  Extend(old, new) \in [K -> Values \cup {Unset}]
  BY DEF Extend

\* What a child is spawned with is an entry (enrich).
LEMMA EnrichType ==
  ASSUME EnvTypeOK, NEW s \in Servers, NEW raw \in Envs
  PROVE  Enrich(s, raw) \in Entry
<1>1. CASE mem[s] = None
  BY <1>1 DEF Enrich, Entry, Args, NoArgs
<1>2. CASE mem[s] # None
  BY <1>2 DEF EnvTypeOK, Enrich, Entry
<1> QED BY <1>1, <1>2

\* The merged entry of an update is an entry.
LEMMA MergeType ==
  ASSUME EnvTypeOK, NEW s \in Servers, NEW env \in Envs, NEW args \in Args
  PROVE  LET old == IF mem[s] = None THEN Default ELSE mem[s]
         IN  [env |-> Extend(old.env, env), args |-> Extend(old.args, args)]
               \in Entry
<1> DEFINE old == IF mem[s] = None THEN Default ELSE mem[s]
<1>1. old \in Entry
  BY DEF EnvTypeOK, Entry, Default, Envs, Args, NoEnv, NoArgs
<1>2. old.env \in Envs /\ old.args \in Args
  BY <1>1 DEF Entry
<1>3. Extend(old.env, env) \in Envs
  BY <1>2, ExtendType DEF Envs
<1>4. Extend(old.args, args) \in Args
  BY <1>2, ExtendType DEF Args
<1> QED BY <1>3, <1>4 DEF Entry

-----------------------------------------------------------------------------
\* A spawn gives the child what the store holds now (try_spawn).
LEMMA SpawnStep ==
  ASSUME EnvInv, NEW s \in Servers, NEW raw \in Envs, Spawn(s, raw)
  PROVE  EnvInv'
<1>1. Enrich(s, raw) \in Entry
  BY EnrichType DEF EnvInv
<1>2. UNCHANGED <<mem, disk, dirty, acked, unsaved>> /\ task' = None
  BY DEF Spawn, memVars
<1>3. \A t \in Servers, r \in Envs : Enrich(t, r)' = Enrich(t, r)
  BY <1>2 DEF Enrich
<1>4. CASE child' = child
  BY <1>2, <1>4 DEF EnvInv, EnvTypeOK, Enrich
<1>5. CASE child' = [child EXCEPT ![s] = [raw |-> raw, bound |-> Enrich(s, raw)]]
  <2>1. [raw |-> raw, bound |-> Enrich(s, raw)] \in Child
    BY <1>1 DEF Child
  <2>2. EnvTypeOK'
    BY <1>2, <1>5, <2>1 DEF EnvInv, EnvTypeOK
  <2>3. ASSUME NEW t \in Servers \ unsaved', child'[t] # None
        PROVE  (child[t].bound = Enrich(t, child[t].raw))'
    <3>1. CASE t = s
      BY <1>2, <1>5, <3>1 DEF EnvInv, EnvTypeOK, Enrich
    <3>2. CASE t # s
      BY <1>2, <1>5, <2>3, <3>2 DEF EnvInv, EnvTypeOK, Enrich
    <3> QED BY <3>1, <3>2
  <2> QED BY <1>2, <2>2, <2>3 DEF EnvInv
<1> QED BY <1>4, <1>5 DEF Spawn

\* Taking the child of s out of the map keeps the invariant (shutdown).
LEMMA StopStep ==
  ASSUME EnvInv, NEW s \in Servers, NEW raw \in Envs,
         NEW then \in {"spawn", "stop", "forget"},
         StopFor(s, then, raw), UNCHANGED memVars
  PROVE  EnvInv'
<1>1. EnvTypeOK'
  BY DEF EnvInv, EnvTypeOK, StopFor, memVars, Task
<1>2. ASSUME NEW t \in Servers \ unsaved', child'[t] # None
      PROVE  (child[t].bound = Enrich(t, child[t].raw))'
  BY <1>2 DEF EnvInv, EnvTypeOK, StopFor, memVars, Enrich
<1>3. child'[task'.srv] = None
  BY DEF EnvInv, EnvTypeOK, StopFor
<1> QED BY <1>1, <1>2, <1>3 DEF EnvInv, memVars

\* Forgetting the values of a server that has no child (EnvStore::remove).
LEMMA ForgetStep ==
  ASSUME EnvInv, NEW s \in Servers, Forget(s), child[s] = None,
         UNCHANGED <<child, unsaved>>, task' \in {task, None}
  PROVE  EnvInv'
<1>1. EnvTypeOK'
  BY DEF EnvInv, EnvTypeOK, Forget, Flush
<1>2. ASSUME NEW t \in Servers \ unsaved', child'[t] # None
      PROVE  (child[t].bound = Enrich(t, child[t].raw))'
  <2>1. t # s /\ mem'[t] = mem[t]
    BY <1>2 DEF EnvInv, EnvTypeOK, Forget
  <2> QED BY <1>2, <2>1 DEF EnvInv, Enrich
<1>3. task' # None => child'[task'.srv] = None
  BY DEF EnvInv
<1>4. ~dirty' => disk' = mem'
  <2>1. CASE mem[s] = None
    <3>1. mem' = mem
      BY <2>1 DEF EnvInv, EnvTypeOK, Forget
    <3> QED BY <2>1, <3>1 DEF EnvInv, Forget
  <2>2. CASE mem[s] # None
    BY <2>2 DEF Forget, Flush
  <2> QED BY <2>1, <2>2
<1> QED BY <1>1, <1>2, <1>3, <1>4 DEF EnvInv

\* Storing values: the child leaves the map, or s is marked (apply_env_update
\* and apply_spec_update).
LEMMA UpdateStep ==
  ASSUME EnvInv, NEW s \in Servers, NEW env \in Envs, NEW args \in Args,
         Update(s, env, args)
  PROVE  EnvInv'
<1> DEFINE old == IF mem[s] = None THEN Default ELSE mem[s]
           new == [env |-> Extend(old.env, env), args |-> Extend(old.args, args)]
<1>1. new \in Entry
  BY MergeType DEF EnvInv
<1>2. mem' = [mem EXCEPT ![s] = new] /\ task = None
  BY DEF Update, Idle
<1> HIDE DEF new
<1>3. PICK ok \in BOOLEAN :
        /\ Flush(ok)
        /\ acked' = IF ok THEN acked \cup {s} ELSE acked \ {s}
        /\ IF child[s] = None THEN UNCHANGED <<child, task, unsaved>>
           ELSE IF ok
           THEN /\ task' = [srv |-> s, then |-> "spawn", raw |-> child[s].raw]
                /\ child' = [child EXCEPT ![s] = None]
                /\ unsaved' = unsaved \ {s}
           ELSE unsaved' = unsaved \cup {s} /\ UNCHANGED <<child, task>>
  BY DEF Update
<1>4. child[s] # None => child[s].raw \in Envs
  BY DEF EnvInv, EnvTypeOK, Child
<1>5. EnvTypeOK'
  <2>1. mem' \in [Servers -> Entry \cup {None}]
    BY <1>1, <1>2 DEF EnvInv, EnvTypeOK
  <2>2. disk' \in [Servers -> Entry \cup {None}] /\ dirty' \in BOOLEAN
    BY <1>3, <2>1 DEF EnvInv, EnvTypeOK, Flush
  <2>3. /\ child' \in [Servers -> Child \cup {None}]
        /\ task' \in Task \cup {None}
        /\ unsaved' \in SUBSET Servers
    BY <1>3, <1>4 DEF EnvInv, EnvTypeOK, Task
  <2>4. acked' \in SUBSET Servers
    BY <1>3 DEF EnvInv, EnvTypeOK
  <2> QED BY <2>1, <2>2, <2>3, <2>4 DEF EnvTypeOK
<1>6. ASSUME NEW t \in Servers \ unsaved', child'[t] # None
      PROVE  (child[t].bound = Enrich(t, child[t].raw))'
  <2>1. t # s /\ child'[t] = child[t] /\ t \notin unsaved
    BY <1>3, <1>6 DEF EnvInv, EnvTypeOK
  <2>2. mem'[t] = mem[t]
    BY <1>2, <2>1 DEF EnvInv, EnvTypeOK
  <2> QED BY <1>6, <2>1, <2>2 DEF EnvInv, Enrich
<1>7. task' # None => child'[task'.srv] = None
  BY <1>2, <1>3 DEF EnvInv, EnvTypeOK
<1>8. ~dirty' => disk' = mem'
  BY <1>3 DEF Flush
<1> QED BY <1>5, <1>6, <1>7, <1>8 DEF EnvInv

-----------------------------------------------------------------------------
\* Every step of the store and its handlers keeps the invariant.
LEMMA EnvInvariant == EnvSpec => []EnvInv
<1>1. EnvInit => EnvInv
  BY DEF EnvInit, EnvInv, EnvTypeOK
<1>2. EnvInv /\ [EnvNext]_envVars => EnvInv'
  <2> SUFFICES ASSUME EnvInv, [EnvNext]_envVars PROVE EnvInv'
    OBVIOUS
  <2>0. NoEnv \in Envs /\ NoArgs \in Args
    BY DEF NoEnv, NoArgs, Envs, Args
  <2>1. ASSUME NEW s \in Servers, NEW e \in Envs, EnvUpdate(s, e)
        PROVE  EnvInv'
    BY <2>0, <2>1, UpdateStep DEF EnvUpdate
  <2>2. ASSUME NEW s \in Servers, NEW e \in Envs, NEW a \in Args,
               SpecUpdate(s, e, a)
        PROVE  EnvInv'
    BY <2>2, UpdateStep DEF SpecUpdate
  <2>3. ASSUME NEW s \in Servers, NEW e \in Envs, Ensure(s, e)
        PROVE  EnvInv'
    BY <2>3, SpawnStep, StopStep DEF Ensure
  <2>4. ASSUME NEW s \in Servers, Respawn(s)
        PROVE  EnvInv'
    <3>1. child[s].raw \in Envs
      BY <2>4 DEF Respawn, EnvInv, EnvTypeOK, Child
    <3> QED BY <2>4, <3>1, StopStep DEF Respawn
  <2>5. ASSUME NEW s \in Servers, Withdraw(s)
        PROVE  EnvInv'
    BY <2>0, <2>5, StopStep DEF Withdraw
  <2>6. ASSUME NEW s \in Servers, RemoveServer(s)
        PROVE  EnvInv'
    <3>1. CASE child[s] = None
      BY <2>6, <3>1, ForgetStep DEF RemoveServer
    <3>2. CASE child[s] # None
      BY <2>0, <2>6, <3>2, StopStep DEF RemoveServer
    <3> QED BY <3>1, <3>2
  <2>7. CASE Stopped
    <3>1. task \in Task /\ task # None
      BY <2>7 DEF Stopped, Idle, EnvInv, EnvTypeOK
    <3>2. /\ task.srv \in Servers /\ task.raw \in Envs
          /\ task.then \in {"spawn", "stop", "forget"}
          /\ child[task.srv] = None
      BY <3>1 DEF Task, EnvInv
    <3>3. CASE task.then = "spawn"
      BY <2>7, <3>2, <3>3, SpawnStep DEF Stopped
    <3>4. CASE task.then = "stop"
      BY <2>7, <3>4 DEF Stopped, memVars, EnvInv, EnvTypeOK, Enrich
    <3>5. CASE task.then = "forget"
      BY <2>7, <3>2, <3>5, ForgetStep DEF Stopped
    <3> QED BY <3>2, <3>3, <3>4, <3>5
  <2>8. CASE DropHandler
    BY <2>8 DEF DropHandler, memVars, EnvInv, EnvTypeOK, Enrich
  <2>9. CASE Restart
    BY <2>9 DEF Restart, EnvInv, EnvTypeOK
  <2>10. CASE UNCHANGED envVars
    BY <2>10 DEF envVars, memVars, EnvInv, EnvTypeOK, Enrich
  <2> QED BY <2>1, <2>2, <2>3, <2>4, <2>5, <2>6, <2>7, <2>8, <2>9, <2>10
          DEF EnvNext
<1> QED BY <1>1, <1>2, PTL DEF EnvSpec

-----------------------------------------------------------------------------
\* The store, the file and the children are what their types say (EnvStore,
\* OnDisk, ChildServer).
THEOREM EnvTypeCorrect == EnvSpec => []EnvTypeOK
<1>1. EnvInv => EnvTypeOK
  BY DEF EnvInv
<1> QED BY <1>1, EnvInvariant, PTL

\* Between handlers every child runs with the values the store would give it
\* now, unless a value stored for it since could not be flushed (enrich,
\* apply_env_update, apply_spec_update, apply_delta).
THEOREM ChildrenKeepUp == EnvSpec => []ChildrenCurrent
<1>1. EnvInv => ChildrenCurrent
  BY DEF EnvInv, ChildrenCurrent
<1> QED BY <1>1, EnvInvariant, PTL

\* A restart finds the values the daemon had, unless the last flush failed
\* (flush, open_at).
THEOREM RestartsKeepValues == EnvSpec => RestartKeepsValues
<1>1. EnvInv /\ [EnvNext]_envVars => [Restart => mem' = mem \/ dirty]_envVars
  BY DEF EnvInv, EnvTypeOK, Restart
<1> QED BY <1>1, EnvInvariant, PTL DEF EnvSpec, RestartKeepsValues

-----------------------------------------------------------------------------
\* The values set in an entry are set in another one, too.
Covers(new, old) ==
  /\ \A k \in EnvKeys : old.env[k] # Unset => new.env[k] # Unset
  /\ \A pl \in Places : old.args[pl] # Unset => new.args[pl] # Unset

\* A stored value may be replaced, but it is lost only with its server, when
\* a delta removes that, or by a restart that follows a failed flush.
ValuesStay ==
  [][\A s \in Servers :
       mem[s] # None => \/ mem'[s] # None /\ Covers(mem'[s], mem[s])
                        \/ Forget(s)
                        \/ Restart /\ dirty]_envVars

\* What an update leaves out stays as it was, and nothing but the removal of
\* the server forgets its values: neither a disabled server, nor a handler
\* that is dropped, nor a restart (apply_spec_update, EnvStore::merge,
\* EnvStore::remove, open_at).
THEOREM ValuesAreKept == EnvSpec => ValuesStay
<1>1. ASSUME EnvInv, [EnvNext]_envVars, NEW s \in Servers, mem[s] # None
      PROVE  \/ mem'[s] # None /\ Covers(mem'[s], mem[s])
             \/ Forget(s)
             \/ Restart /\ dirty
  <2>0. mem'[s] = mem[s] => mem'[s] # None /\ Covers(mem'[s], mem[s])
    BY <1>1 DEF Covers
  <2>1. CASE mem' = mem
    BY <2>0, <2>1
  <2>2. ASSUME NEW t \in Servers, NEW env \in Envs, NEW args \in Args,
               Update(t, env, args)
        PROVE  mem'[s] # None /\ Covers(mem'[s], mem[s])
    <3> DEFINE old == IF mem[t] = None THEN Default ELSE mem[t]
               new == [env |-> Extend(old.env, env),
                       args |-> Extend(old.args, args)]
    <3>1. mem' = [mem EXCEPT ![t] = new]
      BY <2>2 DEF Update
    <3>2. CASE t # s
      BY <1>1, <3>1, <3>2 DEF EnvInv, EnvTypeOK, Covers
    <3>3. CASE t = s
      <4>1. mem[s].env \in Envs /\ mem[s].args \in Args
        BY <1>1 DEF EnvInv, EnvTypeOK, Entry
      <4>2. /\ mem'[s].env = Extend(mem[s].env, env)
            /\ mem'[s].args = Extend(mem[s].args, args)
        BY <1>1, <3>1, <3>3 DEF EnvInv, EnvTypeOK
      <4>3. mem'[s] # None
        <5>1. new \in Entry
          BY MergeType, <1>1 DEF EnvInv
        <5> HIDE DEF new
        <5>2. mem'[s] = new
          BY <1>1, <3>1, <3>3 DEF EnvInv, EnvTypeOK
        <5> QED BY <5>1, <5>2, NoneAssumption
      <4> QED BY <4>1, <4>2, <4>3 DEF Covers, Extend, Envs, Args
    <3> QED BY <3>2, <3>3
  <2>3. ASSUME NEW t \in Servers, Forget(t)
        PROVE  mem'[s] = mem[s] \/ Forget(s)
    <3>1. CASE t = s
      BY <2>3, <3>1
    <3>2. CASE t # s
      BY <2>3, <3>2 DEF Forget, EnvInv, EnvTypeOK
    <3> QED BY <3>1, <3>2
  <2>4. CASE Restart
    BY <1>1, <2>1, <2>4 DEF EnvInv, Restart
  <2>5. CASE Stopped
    <3>1. task \in Task
      BY <1>1, <2>5 DEF Stopped, Idle, EnvInv, EnvTypeOK
    <3>2. task.srv \in Servers /\ task.then \in {"spawn", "stop", "forget"}
      BY <3>1 DEF Task
    <3>3. mem' = mem \/ Forget(task.srv)
      BY <2>5, <3>2 DEF Stopped, Spawn, memVars
    <3> QED BY <2>1, <2>3, <2>0, <3>2, <3>3
  <2>6. CASE DropHandler \/ UNCHANGED envVars
    BY <2>1, <2>6 DEF DropHandler, envVars, memVars
  <2>7. ASSUME NEW t \in Servers, NEW e \in Envs, Ensure(t, e)
        PROVE  mem' = mem
    BY <2>7 DEF Ensure, Spawn, memVars
  <2>8. ASSUME NEW t \in Servers, Respawn(t) \/ Withdraw(t)
        PROVE  mem' = mem
    BY <2>8 DEF Respawn, Withdraw, memVars
  <2>9. ASSUME NEW t \in Servers, RemoveServer(t)
        PROVE  mem' = mem \/ Forget(t)
    BY <2>9 DEF RemoveServer, memVars
  <2>10. NoArgs \in Args
    BY DEF NoArgs, Args
  <2> QED BY <1>1, <2>1, <2>2, <2>3, <2>4, <2>5, <2>6, <2>7, <2>8, <2>9,
             <2>10, <2>0 DEF EnvNext, EnvUpdate, SpecUpdate
<1>2. EnvInv /\ [EnvNext]_envVars
        => [\A s \in Servers :
              mem[s] # None => \/ mem'[s] # None /\ Covers(mem'[s], mem[s])
                               \/ Forget(s)
                               \/ Restart /\ dirty]_envVars
  BY <1>1
<1> QED BY <1>2, EnvInvariant, PTL DEF EnvSpec, ValuesStay
=============================================================================
