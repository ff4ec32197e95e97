--------------------------- MODULE SecureFileProofs ---------------------------
(***************************************************************************)
(* Proofs about SecureFile: the last value of a private file always has a  *)
(* whole copy on the disk, and readers see whole values only (the          *)
(* refinement of AtomicFile), for any processes, values and names.         *)
(*                                                                         *)
(* What makes it inductive: no two processes share a name they still need  *)
(* (PlacesInv), what a process is about to put in place is whole and on    *)
(* the disk (ContentsInv), and while the file is absent the copy of its    *)
(* last value is one that nobody is going to touch (LastInv).              *)
(***************************************************************************)
EXTENDS SecureFile, TLAPS

\* The steps at which a process needs its temporary file, at which that is
\* written, at which it is on the disk, and at which there is a backup.
Holding == {"write", "sync", "replace", "aside", "retry", "install",
            "rollback", "cleanup"}
Written == {"sync", "replace", "aside", "retry", "install", "rollback"}
Ready   == {"replace", "aside", "retry", "install", "rollback"}
Backed  == {"install", "discard", "rollback"}

PlacesInv ==
  /\ \A p \in Processes : at[p] \in Holding =>
       tmp[p] \in Names /\ disk[tmp[p]] # Absent
  /\ \A p \in Processes : at[p] \in Backed =>
       bak[p] \in Names /\ disk[bak[p]] # Absent
  /\ \A p, q \in Processes :
       at[p] \in Holding /\ at[q] \in Holding /\ tmp[p] = tmp[q] => p = q
  /\ \A p, q \in Processes :
       at[p] \in Backed /\ at[q] \in Backed /\ bak[p] = bak[q] => p = q
  /\ \A p, q \in Processes :
       at[p] \in Holding /\ at[q] \in Backed => tmp[p] # bak[q]

ContentsInv ==
  /\ \A p \in Processes : at[p] # "idle" => val[p] \in Values
  /\ \A p \in Processes : at[p] \in Written => disk[tmp[p]] = val[p]
  /\ Private => \A p \in Processes : at[p] \in Ready => tmp[p] \in synced
  /\ \A p \in Processes : at[p] \in Backed =>
       disk[bak[p]] \in Values /\ bak[p] \in synced

ModeInv ==
  /\ ~Private => \A p \in Processes : at[p] \in {"idle", "write", "replace"}
  /\ ~Private => \A p, q \in Processes :
                   at[p] # "idle" /\ at[q] # "idle" => p = q
  /\ how # "windows" => \A p \in Processes :
       at[p] \notin {"aside", "retry", "install", "discard", "rollback"}

\* Nobody is going to write, move or remove n.
Free(n) ==
  \A p \in Processes : /\ at[p] \in Holding => tmp[p] # n
                       /\ at[p] = "discard" => bak[p] # n

LastInv ==
  Private =>
    /\ disk[Path] # Absent =>
         disk[Path] = last /\ last \in Values /\ Path \in synced
    /\ disk[Path] = Absent /\ last # Absent =>
         \E n \in Names \cap synced : disk[n] = last /\ Free(n)

SecureInv == SecureTypeOK /\ PlacesInv /\ ContentsInv /\ ModeInv /\ LastInv

USE SecureFileAssumption

LEMMA InitInv == SecureInit => SecureInv
BY DEF SecureInit, SecureInv, SecureTypeOK, PlacesInv, ContentsInv, ModeInv,
       LastInv, Holding, Written, Ready, Backed, Steps, Files, Private

LEMMA OpenTempInv ==
  ASSUME SecureInv, NEW p \in Processes, NEW n \in Names, NEW v \in Values,
         OpenTemp(p, n, v)
  PROVE  SecureInv'
<1> USE DEF OpenTemp, Open, SecureInv, SecureTypeOK,
            Holding, Written, Ready, Backed, Steps, Files, Private
<1>1. SecureTypeOK'
  BY DEF PlacesInv, ContentsInv
<1>2. PlacesInv'
  BY DEF PlacesInv
<1>3. ContentsInv'
  BY DEF PlacesInv, ContentsInv
<1>4. ModeInv'
  BY DEF ModeInv
<1>5. LastInv'
  BY DEF PlacesInv, ContentsInv, LastInv, Free
<1> QED BY <1>1, <1>2, <1>3, <1>4, <1>5

LEMMA UpdateInv ==
  ASSUME SecureInv, NEW p \in Processes, NEW v \in Values,
         Update(p, v)
  PROVE  SecureInv'
<1> USE DEF Update, Open, SecureInv, SecureTypeOK,
            Holding, Written, Ready, Backed, Steps, Files, Private
<1>1. SecureTypeOK'
  BY DEF PlacesInv, ContentsInv
<1>2. PlacesInv'
  BY DEF PlacesInv
<1>3. ContentsInv'
  BY DEF PlacesInv, ContentsInv
<1>4. ModeInv'
  BY DEF ModeInv
<1>5. LastInv'
  BY DEF PlacesInv, ContentsInv, LastInv, Free
<1> QED BY <1>1, <1>2, <1>3, <1>4, <1>5

LEMMA WriteAllInv ==
  ASSUME SecureInv, NEW p \in Processes, WriteAll(p)
  PROVE  SecureInv'
<1> USE DEF WriteAll, Fail, Go, SecureInv, SecureTypeOK,
            Holding, Written, Ready, Backed, Steps, Files, Private
<1>1. SecureTypeOK'
  BY DEF PlacesInv, ContentsInv
<1>2. PlacesInv'
  BY DEF PlacesInv, ContentsInv
<1>3. ContentsInv'
  BY DEF PlacesInv, ContentsInv
<1>4. ModeInv'
  BY DEF ModeInv
<1>5. LastInv'
  BY DEF PlacesInv, ContentsInv, LastInv, Free
<1> QED BY <1>1, <1>2, <1>3, <1>4, <1>5

LEMMA SyncInv ==
  ASSUME SecureInv, NEW p \in Processes, Sync(p)
  PROVE  SecureInv'
<1> USE DEF Sync, Fail, Go, SecureInv, SecureTypeOK,
            Holding, Written, Ready, Backed, Steps, Files, Private
<1>1. SecureTypeOK'
  BY DEF PlacesInv, ContentsInv
<1>2. PlacesInv'
  BY DEF PlacesInv
<1>3. ContentsInv'
  BY DEF PlacesInv, ContentsInv
<1>4. ModeInv'
  BY DEF ModeInv
<1>5. LastInv'
  BY DEF PlacesInv, ContentsInv, LastInv, Free
<1> QED BY <1>1, <1>2, <1>3, <1>4, <1>5

LEMMA ReplaceInv ==
  ASSUME SecureInv, NEW p \in Processes, Replace(p)
  PROVE  SecureInv'
<1> USE DEF Replace, Rename, Fail, Go, SecureInv, SecureTypeOK,
            Holding, Written, Ready, Backed, Steps, Files, Private
<1>1. SecureTypeOK'
  BY DEF PlacesInv, ContentsInv
<1>2. PlacesInv'
  BY DEF PlacesInv
<1>3. ContentsInv'
  BY DEF PlacesInv, ContentsInv
<1>4. ModeInv'
  BY DEF ModeInv
<1>5. LastInv'
  BY DEF PlacesInv, ContentsInv, LastInv, Free
<1> QED BY <1>1, <1>2, <1>3, <1>4, <1>5

LEMMA CleanupInv ==
  ASSUME SecureInv, NEW p \in Processes, Cleanup(p)
  PROVE  SecureInv'
<1> USE DEF Cleanup, Remove, Go, SecureInv, SecureTypeOK,
            Holding, Written, Ready, Backed, Steps, Files, Private
<1>1. SecureTypeOK'
  BY DEF PlacesInv, ContentsInv
<1>2. PlacesInv'
  BY DEF PlacesInv
<1>3. ContentsInv'
  BY DEF PlacesInv, ContentsInv
<1>4. ModeInv'
  BY DEF ModeInv
<1>5. LastInv'
  BY DEF PlacesInv, ContentsInv, LastInv, Free
<1> QED BY <1>1, <1>2, <1>3, <1>4, <1>5

LEMMA MoveAsideInv ==
  ASSUME SecureInv, NEW p \in Processes, NEW n \in Names,
         MoveAside(p, n)
  PROVE  SecureInv'
<1> USE DEF MoveAside, Rename, SecureInv, SecureTypeOK,
            Holding, Written, Ready, Backed, Steps, Files, Private
<1>1. SecureTypeOK'
  BY DEF PlacesInv, ContentsInv
<1>2. PlacesInv'
  BY DEF PlacesInv
<1>3. ContentsInv'
  BY DEF PlacesInv, ContentsInv, ModeInv, LastInv
<1>4. ModeInv'
  BY DEF ModeInv
<1>5. LastInv'
  BY DEF PlacesInv, ContentsInv, LastInv, Free
<1> QED BY <1>1, <1>2, <1>3, <1>4, <1>5

LEMMA CannotMoveInv ==
  ASSUME SecureInv, NEW p \in Processes, CannotMove(p)
  PROVE  SecureInv'
<1> USE DEF CannotMove, Fail, Go, SecureInv, SecureTypeOK,
            Holding, Written, Ready, Backed, Steps, Files, Private
<1>1. SecureTypeOK'
  BY DEF PlacesInv, ContentsInv
<1>2. PlacesInv'
  BY DEF PlacesInv
<1>3. ContentsInv'
  BY DEF PlacesInv, ContentsInv
<1>4. ModeInv'
  BY DEF ModeInv
<1>5. LastInv'
  BY DEF PlacesInv, ContentsInv, LastInv, Free
<1> QED BY <1>1, <1>2, <1>3, <1>4, <1>5

LEMMA RetryInv ==
  ASSUME SecureInv, NEW p \in Processes, Retry(p)
  PROVE  SecureInv'
<1> USE DEF Retry, Rename, Fail, Go, SecureInv, SecureTypeOK,
            Holding, Written, Ready, Backed, Steps, Files, Private
<1>1. SecureTypeOK'
  BY DEF PlacesInv, ContentsInv
<1>2. PlacesInv'
  BY DEF PlacesInv
<1>3. ContentsInv'
  BY DEF PlacesInv, ContentsInv
<1>4. ModeInv'
  BY DEF ModeInv
<1>5. LastInv'
  BY DEF PlacesInv, ContentsInv, LastInv, Free
<1> QED BY <1>1, <1>2, <1>3, <1>4, <1>5

LEMMA InstallInv ==
  ASSUME SecureInv, NEW p \in Processes, Install(p)
  PROVE  SecureInv'
<1> USE DEF Install, Rename, Go, SecureInv, SecureTypeOK,
            Holding, Written, Ready, Backed, Steps, Files, Private
<1>1. SecureTypeOK'
  BY DEF PlacesInv, ContentsInv
<1>2. PlacesInv'
  BY DEF PlacesInv
<1>3. ContentsInv'
  BY DEF PlacesInv, ContentsInv
<1>4. ModeInv'
  BY DEF ModeInv
<1>5. LastInv'
  BY DEF PlacesInv, ContentsInv, LastInv, Free
<1> QED BY <1>1, <1>2, <1>3, <1>4, <1>5

LEMMA DiscardInv ==
  ASSUME SecureInv, NEW p \in Processes, Discard(p)
  PROVE  SecureInv'
<1> USE DEF Discard, Remove, Go, SecureInv, SecureTypeOK,
            Holding, Written, Ready, Backed, Steps, Files, Private
<1>1. SecureTypeOK'
  BY DEF PlacesInv, ContentsInv
<1>2. PlacesInv'
  BY DEF PlacesInv
<1>3. ContentsInv'
  BY DEF PlacesInv, ContentsInv
<1>4. ModeInv'
  BY DEF ModeInv
<1>5. LastInv'
  BY DEF PlacesInv, ContentsInv, LastInv, Free
<1> QED BY <1>1, <1>2, <1>3, <1>4, <1>5

LEMMA RollbackInv ==
  ASSUME SecureInv, NEW p \in Processes, Rollback(p)
  PROVE  SecureInv'
<1> USE DEF Rollback, Rename, Go, SecureInv, SecureTypeOK,
            Holding, Written, Ready, Backed, Steps, Files, Private
<1>1. SecureTypeOK'
  BY DEF PlacesInv, ContentsInv
<1>2. PlacesInv'
  BY DEF PlacesInv
<1>3. ContentsInv'
  BY DEF PlacesInv, ContentsInv
<1>4. ModeInv'
  BY DEF ModeInv
<1>5. LastInv'
  BY DEF PlacesInv, ContentsInv, LastInv, Free
<1> QED BY <1>1, <1>2, <1>3, <1>4, <1>5

LEMMA KillInv ==
  ASSUME SecureInv, NEW p \in Processes, Kill(p)
  PROVE  SecureInv'
<1> USE DEF Kill, Go, SecureInv, SecureTypeOK,
            Holding, Written, Ready, Backed, Steps, Files, Private
<1>1. SecureTypeOK'
  BY DEF PlacesInv, ContentsInv
<1>2. PlacesInv'
  BY DEF PlacesInv
<1>3. ContentsInv'
  BY DEF PlacesInv, ContentsInv
<1>4. ModeInv'
  BY DEF ModeInv
<1>5. LastInv'
  BY DEF PlacesInv, ContentsInv, LastInv, Free
<1> QED BY <1>1, <1>2, <1>3, <1>4, <1>5

LEMMA PowerLossInv == SecureInv /\ PowerLoss => SecureInv'
<1> SUFFICES ASSUME SecureInv, PowerLoss PROVE SecureInv'
  OBVIOUS
<1> USE DEF SecureInv, SecureTypeOK, Steps, Files, Private, Holding, Written,
            Ready, Backed
<1>1. PICK lost \in SUBSET {f \in Files \ synced : disk[f] # Absent} :
        disk' = [f \in Files |-> IF f \in lost THEN Torn ELSE disk[f]]
  BY DEF PowerLoss
<1>2. SecureTypeOK'
  BY <1>1 DEF PowerLoss
<1>3. PlacesInv' /\ ContentsInv' /\ ModeInv'
  BY DEF PowerLoss, PlacesInv, ContentsInv, ModeInv
<1>4. LastInv'
  <2>1. \A f \in Files : f \in synced => disk'[f] = disk[f]
    BY <1>1
  <2>2. \A f \in Files : disk[f] = Absent => disk'[f] = Absent
    BY <1>1
  <2>3. \A f \in Files : f \in synced /\ disk[f] # Absent => f \in synced'
    BY <2>1 DEF PowerLoss
  <2> QED BY <2>1, <2>2, <2>3 DEF PowerLoss, LastInv, Free
<1> QED BY <1>2, <1>3, <1>4

\* Stuttering.
LEMMA StutterInv == SecureInv /\ UNCHANGED secureVars => SecureInv'
BY DEF secureVars, SecureInv, SecureTypeOK, PlacesInv, ContentsInv, ModeInv,
       LastInv, Free, Private

LEMMA StepInv == SecureInv /\ [SecureNext]_secureVars => SecureInv'
<1> SUFFICES ASSUME SecureInv, SecureNext PROVE SecureInv'
  BY StutterInv
<1>1. CASE PowerLoss
  BY <1>1, PowerLossInv
<1>2. ASSUME NEW p \in Processes, Step(p) PROVE SecureInv'
  BY <1>2, OpenTempInv, UpdateInv, WriteAllInv, SyncInv, ReplaceInv,
     CleanupInv, MoveAsideInv, CannotMoveInv, RetryInv, InstallInv,
     DiscardInv, RollbackInv, KillInv DEF Step
<1> QED BY <1>1, <1>2 DEF SecureNext

-----------------------------------------------------------------------------
(* The theorems *)

LEMMA AlwaysInv == SecureSpec => []SecureInv
BY InitInv, StepInv, PTL DEF SecureSpec

\* The type invariant: every process is at one of the calls of write_private,
\* and the file has held whole values only.
THEOREM SecureTypeCorrect == SecureSpec => []SecureTypeOK
BY AlwaysInv, PTL DEF SecureInv

\* A private file that once held a value is never without a whole copy of the
\* last one, whoever writes, fails, dies or loses power (secure_file.rs,
\* replace).
THEOREM CopyAlwaysExists == SecureSpec => []CopyExists
<1>1. SecureInv => CopyExists
  BY DEF SecureInv, SecureTypeOK, LastInv, CopyExists, Files
<1> QED BY <1>1, AlwaysInv, PTL

\* Readers of the file see what AtomicFile promises them: whole values of
\* somebody who writes, and state.json is torn by a power loss at most.
THEOREM ReadersAlwaysSeeWhole == SecureSpec => ReadersSeeWhole
<1>1. SecureInit => A!FileInit
  BY DEF SecureInit, A!FileInit, Files
<1>2. SecureInv /\ [SecureNext]_secureVars => A!FileStep
  <2> SUFFICES ASSUME SecureInv, [SecureNext]_secureVars PROVE A!FileStep
    OBVIOUS
  <2> USE DEF SecureInv, SecureTypeOK, Holding, Written, Ready, Backed, Steps,
              Files, Private, A!FileStep, A!Written, A!PowerFails
  <2>1. CASE UNCHANGED secureVars
    BY <2>1 DEF secureVars
  <2>2. CASE PowerLoss
    BY <2>2 DEF PowerLoss, LastInv
  <2>3. ASSUME NEW p \in Processes, Step(p) PROVE A!FileStep
    <3>1. CASE \E n \in Names, v \in Values : OpenTemp(p, n, v)
      BY <3>1 DEF OpenTemp, Open
    <3>2. CASE \E v \in Values : Update(p, v)
      BY <3>2 DEF Update, Open
    <3>3. CASE \E n \in Names : MoveAside(p, n)
      BY <3>3 DEF MoveAside, Rename, ModeInv
    <3>4. CASE WriteAll(p) \/ Sync(p) \/ Cleanup(p)
      BY <3>4 DEF WriteAll, Sync, Cleanup, Remove, Fail, Go, PlacesInv
    <3>5. CASE Replace(p) \/ Retry(p) \/ Install(p)
      BY <3>5 DEF Replace, Retry, Install, Rename, Fail, Go, PlacesInv,
                  ContentsInv
    <3>6. CASE CannotMove(p) \/ Discard(p) \/ Kill(p)
      BY <3>6 DEF CannotMove, Discard, Kill, Remove, Fail, Go, PlacesInv
    <3>7. CASE Rollback(p)
      BY <3>7 DEF Rollback, Rename, Go, PlacesInv, ModeInv
    <3> QED BY <2>3, <3>1, <3>2, <3>3, <3>4, <3>5, <3>6, <3>7 DEF Step
  <2> QED BY <2>1, <2>2, <2>3 DEF SecureNext
<1> QED BY <1>1, <1>2, AlwaysInv, PTL DEF SecureSpec, ReadersSeeWhole, A!FileSpec
=============================================================================
