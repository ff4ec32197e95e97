----------------------------- MODULE SecureFile -----------------------------
(***************************************************************************)
(* Replacing a file that others read meanwhile: write_private              *)
(* (secure_file.rs: config.toml and the stored values), on unix and on     *)
(* Windows, and write_atomic (state.rs: state.json).  Any number of        *)
(* processes write; each may fail at every call, be killed between any     *)
(* two, and the machine may lose its power.                                *)
(*                                                                         *)
(* A file is a value, or torn: empty, half written, or not yet on the disk *)
(* when the power went.  A rename is atomic and lasting.                   *)
(***************************************************************************)
EXTENDS Naturals

CONSTANTS Processes, Values,
          Path,      \* the file
          Names,     \* of the files next to it
          Fixed,     \* the name write_atomic always uses
          Absent, Torn, NoName,
          Hows       \* some of "unix", "windows", "state"

ASSUME SecureFileAssumption ==
  /\ Path \notin Names
  /\ Fixed \in Names
  /\ NoName \notin Names \cup {Path}
  /\ Absent \notin Values /\ Torn \notin Values /\ Absent # Torn
  /\ Hows \subseteq {"unix", "windows", "state"}

VARIABLES
  how,       \* the platform, or "state" for write_atomic on any
  disk,      \* what every file holds
  synced,    \* the files whose data is on the disk
  at,        \* the call a process is at
  val,       \* the body it writes
  tmp,       \* its temporary file
  bak,       \* where it has put the old file aside
  last,      \* history: the value the file held last
  outage     \* history: flips with every power loss

fileVars == <<disk, synced>>
secureVars == <<how, disk, synced, at, val, tmp, bak, last, outage>>

Files == Names \cup {Path}
Steps == {"idle", "write", "sync", "replace", "aside", "retry", "install",
          "discard", "rollback", "cleanup"}

SecureTypeOK ==
  /\ how \in Hows
  /\ disk \in [Files -> Values \cup {Absent, Torn}]
  /\ synced \subseteq Files
  /\ at \in [Processes -> Steps]
  /\ val \in [Processes -> Values \cup {Absent}]
  /\ tmp \in [Processes -> Names \cup {NoName}]
  /\ bak \in [Processes -> Names \cup {NoName}]
  /\ last \in Values \cup {Absent}
  /\ outage \in BOOLEAN

SecureInit ==
  /\ how \in Hows
  /\ disk = [f \in Files |-> Absent]
  /\ synced = {}
  /\ at = [p \in Processes |-> "idle"]
  /\ val = [p \in Processes |-> Absent]
  /\ tmp = [p \in Processes |-> NoName]
  /\ bak = [p \in Processes |-> NoName]
  /\ last = Absent
  /\ outage = FALSE

Private == how # "state"

\* The process goes on to step s; one that is done forgets its locals.
Go(p, s) ==
  /\ at' = [at EXCEPT ![p] = s]
  /\ IF s = "idle"
     THEN /\ val' = [val EXCEPT ![p] = Absent]
          /\ tmp' = [tmp EXCEPT ![p] = NoName]
          /\ bak' = [bak EXCEPT ![p] = NoName]
     ELSE UNCHANGED <<val, tmp, bak>>
  /\ UNCHANGED <<how, outage>>

\* write_private removes its temporary file on any error, write_atomic not.
Fail(p) ==
  /\ Go(p, IF Private THEN "cleanup" ELSE "idle")
  /\ UNCHANGED <<disk, synced, last>>

Rename(f, g) ==
  /\ disk[f] # Absent
  /\ disk' = [disk EXCEPT ![g] = disk[f], ![f] = Absent]
  /\ synced' = (synced \ {f, g}) \cup (IF f \in synced THEN {g} ELSE {})
  /\ last' = IF g = Path THEN disk[f] ELSE last

Remove(f) ==
  /\ disk' = [disk EXCEPT ![f] = Absent]
  /\ synced' = synced \ {f}
  /\ UNCHANGED last

-----------------------------------------------------------------------------
(* write_private and write_atomic *)

Open(p, n, v) ==
  /\ at[p] = "idle"
  /\ disk' = [disk EXCEPT ![n] = Torn]
  /\ synced' = synced \ {n}
  /\ at' = [at EXCEPT ![p] = "write"]
  /\ val' = [val EXCEPT ![p] = v]
  /\ tmp' = [tmp EXCEPT ![p] = n]
  /\ UNCHANGED <<how, bak, last, outage>>

\* Bug: create instead of create_new: a name in use is opened, and truncated.
OpenShared(p, n, v) == Private /\ Open(p, n, v)

\* create_temp: names are tried until one is new.
OpenTemp(p, n, v) ==
  /\ Private
  /\ disk[n] = Absent
  /\ Open(p, n, v)

\* StateWriter::update: the one writer of state.json is the daemon, one
\* update after the other.  write_atomic truncates what its one name holds.
Update(p, v) ==
  /\ ~Private
  /\ \A q \in Processes : at[q] = "idle"
  /\ Open(p, Fixed, v)

\* Bug: state.json is renamed also when writing it failed half-way.
WriteAllIgnored(p) ==
  /\ at[p] = "write"
  /\ \/ /\ disk' = [disk EXCEPT ![tmp[p]] = val[p]]
        /\ Go(p, IF Private THEN "sync" ELSE "replace")
        /\ UNCHANGED <<synced, last>>
     \/ Private /\ Fail(p)
     \/ ~Private /\ Go(p, "replace") /\ UNCHANGED <<disk, synced, last>>

\* write_all; write_atomic does not wait for the disk.
WriteAll(p) ==
  /\ at[p] = "write"
  /\ \/ /\ disk' = [disk EXCEPT ![tmp[p]] = val[p]]
        /\ Go(p, IF Private THEN "sync" ELSE "replace")
        /\ UNCHANGED <<synced, last>>
     \/ Fail(p)

\* Bug: the file is renamed before its data is on the disk.
NoSync(p) ==
  /\ at[p] = "sync"
  /\ Go(p, "replace")
  /\ UNCHANGED <<disk, synced, last>>

Sync(p) ==
  /\ at[p] = "sync"
  /\ \/ /\ synced' = synced \cup {tmp[p]}
        /\ Go(p, "replace")
        /\ UNCHANGED <<disk, last>>
     \/ Fail(p)

\* rename, which on Windows may find that it cannot replace the file.
Replace(p) ==
  /\ at[p] = "replace"
  /\ \/ Rename(tmp[p], Path) /\ Go(p, "idle")
     \/ Fail(p)
     \/ /\ how = "windows"
        /\ Go(p, "aside")
        /\ UNCHANGED <<disk, synced, last>>

\* Whatever went wrong, the temporary file is removed if it can be.
Cleanup(p) ==
  /\ at[p] = "cleanup"
  /\ Go(p, "idle")
  /\ Remove(tmp[p]) \/ UNCHANGED <<disk, synced, last>>

-----------------------------------------------------------------------------
(* replace on Windows, after the first rename *)

\* Bug: the old file is removed, not kept.
RemoveFirst(p, n) ==
  /\ at[p] = "aside"
  /\ disk[Path] # Absent
  /\ Remove(Path)
  /\ Go(p, "retry")

\* The old file is put aside under a name of its own.
MoveAside(p, n) ==
  /\ at[p] = "aside"
  /\ disk[n] = Absent
  /\ Rename(Path, n)
  /\ at' = [at EXCEPT ![p] = "install"]
  /\ bak' = [bak EXCEPT ![p] = n]
  /\ UNCHANGED <<how, val, tmp, outage>>

\* It has vanished: the rename is tried once more.  Or it cannot be moved.
CannotMove(p) ==
  /\ at[p] = "aside"
  /\ \/ /\ disk[Path] = Absent
        /\ Go(p, "retry")
        /\ UNCHANGED <<disk, synced, last>>
     \/ Fail(p)

Retry(p) ==
  /\ at[p] = "retry"
  /\ (Rename(tmp[p], Path) /\ Go(p, "idle")) \/ Fail(p)

Install(p) ==
  /\ at[p] = "install"
  /\ \/ Rename(tmp[p], Path) /\ Go(p, "discard")
     \/ Go(p, "rollback") /\ UNCHANGED <<disk, synced, last>>

\* The backup is of no use any more; a failure is ignored.
Discard(p) ==
  /\ at[p] = "discard"
  /\ Go(p, "idle")
  /\ Remove(bak[p]) \/ UNCHANGED <<disk, synced, last>>

\* The backup is renamed back; a failure is ignored, and leaves it there.
Rollback(p) ==
  /\ at[p] = "rollback"
  /\ Go(p, "cleanup")
  /\ Rename(bak[p], Path) \/ UNCHANGED <<disk, synced, last>>

-----------------------------------------------------------------------------
\* The process is killed; its files stay as they are.
Kill(p) ==
  /\ at[p] # "idle"
  /\ Go(p, "idle")
  /\ UNCHANGED <<disk, synced, last>>

\* Every process is gone, and with it some of what was not on the disk yet.
PowerLoss ==
  /\ \E lost \in SUBSET {f \in Files \ synced : disk[f] # Absent} :
       disk' = [f \in Files |-> IF f \in lost THEN Torn ELSE disk[f]]
  /\ synced' = {f \in Files : disk'[f] # Absent}
  /\ at' = [p \in Processes |-> "idle"]
  /\ val' = [p \in Processes |-> Absent]
  /\ tmp' = [p \in Processes |-> NoName]
  /\ bak' = [p \in Processes |-> NoName]
  /\ outage' = ~outage
  /\ UNCHANGED <<how, last>>

Step(p) ==
  \/ \E n \in Names, v \in Values : OpenTemp(p, n, v)
  \/ \E v \in Values : Update(p, v)
  \/ \E n \in Names : MoveAside(p, n)
  \/ WriteAll(p) \/ Sync(p) \/ Replace(p) \/ Cleanup(p)
  \/ CannotMove(p) \/ Retry(p) \/ Install(p) \/ Discard(p) \/ Rollback(p)
  \/ Kill(p)

SecureNext == (\E p \in Processes : Step(p)) \/ PowerLoss

SecureSpec == SecureInit /\ [][SecureNext]_secureVars

-----------------------------------------------------------------------------
(* Properties *)

\* Once the file held something, that value is whole and on the disk: in
\* place, or on Windows put aside.  "A brief window where the destination is
\* absent remains, but never one where no copy of the data exists"
\* (secure_file.rs), whoever else writes, dies or loses power.
CopyExists ==
  Private /\ last # Absent =>
    /\ last \in Values
    /\ disk[Path] # last =>
         disk[Path] = Absent /\ \E n \in synced : disk[n] = last

A == INSTANCE AtomicFile WITH
       value <- disk[Path],
       offers <- {val[p] : p \in {q \in Processes : at[q] # "idle"}},
       past <- {disk[bak[p]] : p \in {q \in Processes : at[q] = "rollback"}},
       outage <- outage,
       gaps <- how = "windows",
       fragile <- how = "state"

\* A reader of a private file finds nothing, or a whole value that somebody
\* was writing; on unix, once there was one, never nothing.  So does a reader
\* of state.json, whatever its one writer fails at and wherever it is killed,
\* until the power goes: nothing syncs it, and that may tear it.
ReadersSeeWhole == A!FileSpec
=============================================================================
