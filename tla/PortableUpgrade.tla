--------------------------- MODULE PortableUpgrade ---------------------------
(* The upgrade of a portable installation (portable_upgrade.go, portable.go):  *)
(* the updater runs from the new package, copies the stopped installation      *)
(* into a cold snapshot, writes a marker, replaces the program file by file    *)
(* and has the installed program checked by a probe process, which runs the    *)
(* new server on the real data.  Whatever goes wrong, this updater or the      *)
(* next one restores the snapshot.  Processes may be killed at any step; a     *)
(* probe outlives its updater.                                                 *)
EXTENDS Integers

CONSTANTS Program,       \* portableProgramFiles
          User,          \* config, data, uploads, logs
          Config,        \* the member of User the updater requires
          Attempts,      \* bound: how often an upgrade gets to its snapshot
          MaxWrites,     \* bound: writes of user data
          MaxFaults      \* bound: kills, failing calls, damage, removed runtimes

Runtime == "runtime"
NoName == "none"
Names == Program \cup User \cup {Runtime}

ASSUME NamesAssumption ==
    /\ Runtime \notin Program \cup User /\ NoName \notin Program \cup User
    /\ Program \cap User = {}
    /\ Config \in User
ASSUME BoundsAssumption == Attempts \in Nat /\ MaxWrites \in Nat /\ MaxFaults \in Nat

(* The content of a name.  A program file is the number of its release, a user *)
(* directory the number of its last write (0: just created), the Java runtime  *)
(* the one of an early release or the operator's own.                          *)
Absent == -1
Broken == -2             \* removed or copied halfway
Bundled == -3            \* the JRE of a release that listed it in its manifest
Linked == -4             \* the operator's, a link to a system JDK
Release == 0 .. Attempts
Content == (-4 .. Attempts) \cup (-4 .. MaxWrites + 1)

NoMarker == [backup |-> -1]
Markers == [backup : Release, sum : [Names -> Content], keep : BOOLEAN]

VARIABLES
    disk,      \* the installation directory
    marker,    \* .dbgold-upgrade.json, or NoMarker
    snap,      \* the snapshot of the latest attempt, under backups/
    attempt,   \* number of the latest attempt: its snapshot, its token, its release
    server,    \* a portable server runs and holds the installation's lock
    pc,        \* where the updater is; it holds the installation's lock unless idle
    todo,      \* the names its present loop has still to treat
    cur,       \* the name it has removed and not yet put back
    probe,     \* the probe process of every attempt
    written,   \* number of the last write of user data
    faults     \* faults so far

vars == <<disk, marker, snap, attempt, server, pc, todo, cur, probe, written, faults>>

Steps == {"idle", "stage", "snapshot", "mark", "install", "probe",
          "done", "rollback", "restore", "runtime", "unmark"}
ProbeStates == {"none", "started", "read", "locked", "serving", "ready", "failed"}

(* The snapshot's lock: restorePortable holds it while it restores, a probe    *)
(* while it runs the server.                                                   *)
ProbeHolds(a) == probe[a] \in {"locked", "serving"}
UpdaterHolds == pc \in {"restore", "runtime", "unmark"}

(* An installation is new, was used, or was left by an updater of an early     *)
(* release that was interrupted and had replaced the runtime too.              *)
Installations ==
    {d \in [Names -> {Absent, 0, 1, Bundled, Linked}] :
        /\ \A p \in Program : d[p] = 0
        /\ \A u \in User : d[u] \in {Absent, 1}
        /\ d[Config] = Absent => \A u \in User : d[u] = Absent
        /\ d[Runtime] \in {Absent, Bundled, Linked}}

InitNormal ==
    /\ disk \in Installations
    /\ marker = NoMarker
    /\ snap = [n \in Names |-> Broken]

InitInterrupted ==
    /\ snap \in {d \in Installations : d[Config] # Absent /\ d[Runtime] = Bundled}
    /\ marker = [backup |-> 0, sum |-> snap, keep |-> FALSE]
    /\ disk \in {d \in [Names -> {Broken, Absent, 0, 1, Bundled}] :
                  \A n \in Names : d[n] \in {Broken, snap[n]}}

Init ==
    /\ InitNormal \/ InitInterrupted
    /\ attempt = 0
    /\ server = FALSE
    /\ pc = "idle" /\ todo = {} /\ cur = NoName
    /\ probe = [a \in Release |-> "none"]
    /\ written = 1
    /\ faults = 0

(* ---- the portable server (runPortableCommand) ----------------------------- *)

(* preparePortableRuntime and initPortableConfig create what is missing. *)
Prepared == [n \in Names |-> IF n \in User /\ disk[n] = Absent THEN 0 ELSE disk[n]]

StartServer ==
    /\ ~server /\ pc = "idle"
    /\ marker = NoMarker
    /\ server' = TRUE
    /\ disk' = Prepared
    /\ UNCHANGED <<marker, snap, attempt, pc, todo, cur, probe, written, faults>>

WriteUser(n) ==
    /\ written <= MaxWrites
    /\ written' = written + 1
    /\ disk' = [disk EXCEPT ![n] = written + 1]

ServerWrite(n) ==
    /\ server
    /\ WriteUser(n)
    /\ UNCHANGED <<marker, snap, attempt, server, pc, todo, cur, probe, faults>>

StopServer ==
    /\ server
    /\ server' = FALSE
    /\ UNCHANGED <<disk, marker, snap, attempt, pc, todo, cur, probe, written, faults>>

(* ---- the updater (upgradePortable) ---------------------------------------- *)

Goto(step, names) == pc' = step /\ todo' = names /\ cur' = NoName

Exit == Goto("idle", {})

\* Variant: an updater that finds a marker refuses, as the server does.
BeginRefuses ==
    /\ ~server /\ pc = "idle"
    /\ IF marker = NoMarker THEN Goto("stage", {}) ELSE Exit
    /\ UNCHANGED <<disk, marker, snap, attempt, server, probe, written, faults>>

(* The loops go through their names in a fixed order; which one is immaterial. *)
NextName == CHOOSE n \in todo : TRUE

Begin ==
    /\ ~server /\ pc = "idle"
    /\ IF marker = NoMarker THEN Goto("stage", {}) ELSE Goto("rollback", {})
    /\ UNCHANGED <<disk, marker, snap, attempt, server, probe, written, faults>>

(* The installation is checked, the package staged and verified.  A package    *)
(* that does not match its manifest, or is not for this platform, is refused.  *)
Stage ==
    /\ pc = "stage"
    /\ \/ disk[Config] # Absent /\ attempt < Attempts /\ Goto("snapshot", Names)
          /\ attempt' = attempt + 1
          /\ snap' = [n \in Names |-> Absent]
       \/ Exit /\ UNCHANGED <<attempt, snap>>
    /\ UNCHANGED <<disk, marker, server, probe, written, faults>>

(* snapshotBundledRuntime: the manifest of the first release lists runtime/. *)
BundledRuntime == disk[Runtime] = Bundled /\ \A p \in Program : disk[p] = 0

TakeSnapshot ==
    /\ pc = "snapshot" /\ todo # {}
    /\ snap' = [snap EXCEPT ![NextName] =
                  IF NextName = Runtime /\ ~BundledRuntime THEN Absent ELSE disk[NextName]]
    /\ Goto("snapshot", todo \ {NextName})
    /\ UNCHANGED <<disk, marker, attempt, server, probe, written, faults>>

(* The marker names the snapshot and its checksum; it is renamed into place. *)
Seal ==
    /\ pc = "snapshot" /\ todo = {}
    /\ IF \A n \in Program \cup {Config} : snap[n] # Absent
          THEN Goto("mark", {}) ELSE Exit
    /\ UNCHANGED <<disk, marker, snap, attempt, server, probe, written, faults>>

WriteMarker ==
    /\ pc = "mark"
    /\ marker' = [backup |-> attempt, sum |-> snap, keep |-> TRUE]
    /\ Goto("install", Program)
    /\ UNCHANGED <<disk, snap, attempt, server, probe, written, faults>>

(* install: RemoveAll, then Rename, for every program file. *)
InstallRemove ==
    /\ pc = "install" /\ todo # {} /\ cur = NoName
    /\ disk' = [disk EXCEPT ![NextName] = Broken]
    /\ cur' = NextName
    /\ UNCHANGED <<marker, snap, attempt, server, pc, todo, probe, written, faults>>

InstallRename ==
    /\ pc = "install" /\ cur # NoName
    /\ disk' = [disk EXCEPT ![cur] = attempt]
    /\ Goto("install", todo \ {cur})
    /\ UNCHANGED <<marker, snap, attempt, server, probe, written, faults>>

StartProbe ==
    /\ pc = "install" /\ todo = {}
    /\ Goto("probe", {})
    /\ probe' = [probe EXCEPT ![attempt] = "started"]
    /\ UNCHANGED <<disk, marker, snap, attempt, server, written, faults>>

(* cmd.Run has waited for the probe to exit. *)
ProbeResult ==
    /\ pc = "probe"
    /\ \/ probe[attempt] = "ready" /\ Goto("done", {})
       \/ probe[attempt] = "failed" /\ Goto("rollback", {})
    /\ UNCHANGED <<disk, marker, snap, attempt, server, probe, written, faults>>

InstallFails ==
    /\ pc = "install" /\ faults < MaxFaults
    /\ faults' = faults + 1
    /\ Goto("rollback", {})
    /\ UNCHANGED <<disk, marker, snap, attempt, server, probe, written>>

\* Variant: a snapshot is restored without a look at its checksum.
RestorableUnchecked == ~ProbeHolds(marker.backup)

(* ---- restorePortable ------------------------------------------------------- *)

Restorable == ~ProbeHolds(marker.backup) /\ snap = marker.sum

RestoreBegin ==
    /\ pc = "rollback"
    /\ IF Restorable
          THEN Goto("restore", Program \cup User \cup (IF marker.keep THEN {} ELSE {Runtime}))
          ELSE Exit
    /\ UNCHANGED <<disk, marker, snap, attempt, server, probe, written, faults>>

RestoreRemove ==
    /\ pc = "restore" /\ todo # {} /\ cur = NoName
    /\ disk' = [disk EXCEPT ![NextName] = Broken]
    /\ cur' = NextName
    /\ UNCHANGED <<marker, snap, attempt, server, pc, todo, probe, written, faults>>

RestoreCopy ==
    /\ pc = "restore" /\ cur # NoName
    /\ disk' = [disk EXCEPT ![cur] = snap[cur]]
    /\ Goto("restore", todo \ {cur})
    /\ UNCHANGED <<marker, snap, attempt, server, probe, written, faults>>

(* recoverMissingRuntime: a copy is staged only when the runtime is gone. *)
RuntimeMissing == marker.keep /\ disk[Runtime] = Absent /\ snap[Runtime] # Absent

RecoverRuntime ==
    /\ pc = "restore" /\ todo = {}
    /\ Goto(IF RuntimeMissing THEN "runtime" ELSE "unmark", {})
    /\ UNCHANGED <<disk, marker, snap, attempt, server, probe, written, faults>>

\* Variant: the staged runtime replaces whatever is there.
RenameRuntimeOver ==
    /\ pc = "runtime"
    /\ disk' = [disk EXCEPT ![Runtime] = snap[Runtime]]
    /\ Goto("unmark", {})
    /\ UNCHANGED <<marker, snap, attempt, server, probe, written, faults>>

(* A runtime the operator has put there meanwhile stays: it is seen, or the    *)
(* rename onto it fails.                                                       *)
RenameRuntime ==
    /\ pc = "runtime"
    /\ \/ disk[Runtime] = Absent /\ disk' = [disk EXCEPT ![Runtime] = snap[Runtime]]
          /\ Goto("unmark", {})
       \/ disk[Runtime] # Absent /\ UNCHANGED disk /\ (Goto("unmark", {}) \/ Exit)
    /\ UNCHANGED <<marker, snap, attempt, server, probe, written, faults>>

(* The last step of an upgrade and of a recovery. *)
RemoveMarker ==
    /\ pc \in {"done", "unmark"}
    /\ marker' = NoMarker
    /\ Exit
    /\ UNCHANGED <<disk, snap, attempt, server, probe, written, faults>>

(* The updater is killed, or a call other than install's fails and it returns. *)
StopUpdater ==
    /\ pc # "idle" /\ faults < MaxFaults
    /\ faults' = faults + 1
    /\ Exit
    /\ UNCHANGED <<disk, marker, snap, attempt, server, probe, written>>

(* ---- the probe (runPortableUpgradeCheck) ----------------------------------- *)

MarkedBy(a) == marker.backup = a

ProbeTo(a, state) ==
    /\ probe' = [probe EXCEPT ![a] = state]
    /\ UNCHANGED <<marker, snap, attempt, server, pc, todo, cur, faults>>

(* The token of its updater must be the marker's. *)
ProbeRead(a) ==
    /\ probe[a] = "started"
    /\ ProbeTo(a, IF MarkedBy(a) THEN "read" ELSE "failed")
    /\ UNCHANGED <<disk, written>>

ProbeLock(a) ==
    /\ probe[a] = "read"
    /\ ProbeTo(a, IF UpdaterHolds /\ MarkedBy(a) THEN "failed" ELSE "locked")
    /\ UNCHANGED <<disk, written>>

\* Variant: the marker is not read again under the lock.
ProbeUnchecked(a) ==
    /\ probe[a] = "locked"
    /\ ProbeTo(a, "serving")
    /\ disk' = Prepared
    /\ UNCHANGED written

(* Recovery may have run before the lock was taken. *)
ProbeRecheck(a) ==
    /\ probe[a] = "locked"
    /\ IF MarkedBy(a)
          THEN ProbeTo(a, "serving") /\ disk' = Prepared
          ELSE ProbeTo(a, "failed") /\ UNCHANGED disk
    /\ UNCHANGED written

(* The new server migrates the database and runs on it. *)
ProbeWrite(a, n) ==
    /\ probe[a] = "serving"
    /\ ProbeTo(a, "serving")
    /\ WriteUser(n)

ProbeReady(a) ==
    /\ probe[a] = "serving"
    /\ ProbeTo(a, "ready")
    /\ UNCHANGED <<disk, written>>

(* It returns an error, dies, or is killed after three minutes. *)
ProbeFails(a) ==
    /\ probe[a] \in {"started", "read", "locked", "serving"}
    /\ ProbeTo(a, "failed")
    /\ UNCHANGED <<disk, written>>

(* ---- the operator and the disk --------------------------------------------- *)

RemoveRuntime ==
    /\ disk[Runtime] \in {Bundled, Linked} /\ faults < MaxFaults
    /\ faults' = faults + 1
    /\ disk' = [disk EXCEPT ![Runtime] = Absent]
    /\ UNCHANGED <<marker, snap, attempt, server, pc, todo, cur, probe, written>>

LinkRuntime ==
    /\ disk[Runtime] = Absent
    /\ disk' = [disk EXCEPT ![Runtime] = Linked]
    /\ UNCHANGED <<marker, snap, attempt, server, pc, todo, cur, probe, written, faults>>

(* A file of the snapshot is lost or changed while no updater runs. *)
DamageSnapshot(n) ==
    /\ marker # NoMarker /\ pc = "idle" /\ faults < MaxFaults
    /\ faults' = faults + 1
    /\ snap' = [snap EXCEPT ![n] = Broken]
    /\ UNCHANGED <<disk, marker, attempt, server, pc, todo, cur, probe, written>>

ServerStep == StartServer \/ StopServer \/ \E n \in User : ServerWrite(n)
UpdaterStep ==
    \/ Stage \/ TakeSnapshot \/ Seal \/ WriteMarker
    \/ InstallRemove \/ InstallRename \/ StartProbe \/ ProbeResult
    \/ RestoreBegin \/ RestoreRemove \/ RestoreCopy
    \/ RecoverRuntime \/ RenameRuntime \/ RemoveMarker
ProbeStep(a) ==
    \/ ProbeRead(a) \/ ProbeLock(a) \/ ProbeRecheck(a)
    \/ (\E n \in User : ProbeWrite(a, n)) \/ ProbeReady(a) \/ ProbeFails(a)
Environment ==
    \/ StopUpdater \/ InstallFails \/ RemoveRuntime \/ LinkRuntime
    \/ \E n \in Names : DamageSnapshot(n)

Next ==
    \/ ServerStep \/ Begin \/ UpdaterStep
    \/ \E a \in 1 .. Attempts : ProbeStep(a)
    \/ Environment

Spec == Init /\ [][Next]_vars
(* The operator starts the updater again while a marker is there, every process *)
(* that can take a step takes one, and the new server becomes ready or fails.   *)
FairSpec ==
    /\ Spec
    /\ WF_vars(Begin /\ marker # NoMarker)
    /\ WF_vars(UpdaterStep)
    /\ \A a \in 1 .. Attempts :
          /\ WF_vars(ProbeRead(a) \/ ProbeLock(a) \/ ProbeRecheck(a))
          /\ WF_vars(ProbeReady(a) \/ ProbeFails(a))

(* ---- properties ------------------------------------------------------------ *)

TypeOK ==
    /\ disk \in [Names -> Content]
    /\ marker \in Markers \cup {NoMarker}
    /\ snap \in [Names -> Content]
    /\ attempt \in Release
    /\ server \in BOOLEAN
    /\ pc \in Steps /\ todo \in SUBSET Names /\ cur \in Names \cup {NoName}
    /\ probe \in [Release -> ProbeStates]
    /\ written \in 1 .. MaxWrites + 1
    /\ faults \in 0 .. MaxFaults

(* ---- the inductive invariant ------------------------------------------------ *)

Kept == Program \cup User

(* d is one release, none later than v, with nothing half copied. *)
Whole(d, v) ==
    /\ \A p \in Program : d[p] \in 0 .. v
    /\ \A p, q \in Program : d[p] = d[q]
    /\ \A u \in User : d[u] # Broken

Unmarked == {"stage", "snapshot", "mark"}
Installing == {"install", "probe", "done"}

(* The marker is there from the first program file replaced to the last restored. *)
MarkerInv ==
    /\ pc \in Unmarked => marker = NoMarker
    /\ pc \notin Unmarked \cup {"idle"} => marker # NoMarker
    /\ server => marker = NoMarker /\ pc = "idle"
    /\ marker # NoMarker =>
          /\ marker.backup = attempt
          /\ Whole(marker.sum, attempt)
          /\ marker.keep => \A p \in Program : marker.sum[p] < attempt
    /\ marker = NoMarker => Whole(disk, attempt)

SnapshotInv ==
    pc \in {"snapshot", "mark"} =>
        /\ todo \subseteq Names
        /\ pc = "mark" => todo = {}
        /\ \A n \in Kept \ todo : snap[n] = disk[n]
        /\ \A p \in Program : disk[p] < attempt

InstallInv ==
    pc \in Installing =>
        /\ marker.keep
        /\ todo \subseteq Program /\ cur \in todo \cup {NoName}
        /\ pc # "install" => todo = {}
        /\ \A p \in Program \ todo : disk[p] = attempt
        /\ \A u \in User : disk[u] # Broken
        /\ pc = "done" => probe[attempt] = "ready"

RestoreInv ==
    UpdaterHolds =>
        /\ snap = marker.sum
        /\ todo \subseteq Names /\ cur \in todo \cup {NoName}
        /\ pc # "restore" => todo = {}
        /\ marker.keep => Runtime \notin todo
        /\ \A n \in Kept \ todo : disk[n] = snap[n]

(* A probe that runs its server belongs to the marker, and nobody restores. *)
ProbeInv ==
    \A a \in 1 .. Attempts :
        /\ probe[a] = "serving" => MarkedBy(a)
        /\ ProbeHolds(a) => ~(MarkedBy(a) /\ UpdaterHolds)

Inv == TypeOK /\ MarkerInv /\ SnapshotInv /\ InstallInv /\ RestoreInv /\ ProbeInv

(* Without a marker the installation is whole: every program file is of one     *)
(* release and nothing is half copied.  runPortableCommand relies on it: it      *)
(* looks at nothing but the marker.                                             *)
WholeWithoutMarker ==
    marker = NoMarker =>
        /\ \A p, q \in Program : disk[p] = disk[q]
        /\ \A n \in Program \cup User : disk[n] # Broken

(* The installation as it is, or as recovery will bring it back.  The checksum  *)
(* in the marker stands for what was sealed.                                    *)
Installation ==
    [n \in Program \cup User |-> IF marker = NoMarker THEN disk[n] ELSE marker.sum[n]]

Atomic == INSTANCE AtomicUpgrade WITH inst <- Installation, serving <- server

(* Through kills at any step, failing calls, orphaned probes and repeated        *)
(* upgrades, the files move as AtomicUpgrade allows: a restored installation is   *)
(* the one the upgrade began with, data included; nothing but a running server    *)
(* or a confirmed upgrade changes it.                                            *)
ImplementsAtomicUpgrade == Atomic!Spec

(* The updater and the probe never change a runtime the operator has put in      *)
(* place: only an interrupted updater of an early release (no KeepRuntime in its  *)
(* marker) is undone together with the runtime it had replaced.                  *)
OperatorRuntimeKept ==
    [][ /\ disk[Runtime] = Linked
        /\ disk'[Runtime] # Linked
        => RemoveRuntime \/ (marker # NoMarker /\ ~marker.keep) ]_vars

(* An interrupted upgrade does not block the installation for good: with the     *)
(* updater started again, the marker goes, unless the snapshot was damaged.       *)
Recovers ==
    marker # NoMarker ~> (marker = NoMarker \/ snap # marker.sum)
=============================================================================
