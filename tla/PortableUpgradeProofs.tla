------------------------ MODULE PortableUpgradeProofs ------------------------
(* For every set of files, every number of attempts, writes and faults, the     *)
(* invariant Inv of PortableUpgrade is inductive, and the upgrade implements    *)
(* AtomicUpgrade.                                                               *)
EXTENDS PortableUpgrade, TLAPS

(* The loops take a name that is still to be treated. *)
LEMMA NextNameIn == todo # {} => NextName \in todo
  BY DEF NextName

(* What a name may hold. *)
LEMMA ContentFacts == /\ {Absent, Broken, Bundled, Linked, 0, 1} \subseteq Content
                      /\ Release \subseteq Content
                      /\ \A w \in 1 .. MaxWrites + 1 : w \in Content /\ w # Broken
  BY BoundsAssumption DEF Content, Absent, Broken, Bundled, Linked, Release

(* A marker that is there is a record of the three fields. *)
LEMMA MarkerKinds == ASSUME TypeOK, marker # NoMarker
                     PROVE  /\ marker \in Markers
                            /\ marker.backup \in Release
                            /\ marker.sum \in [Names -> Content]
                            /\ marker.keep \in BOOLEAN
  BY DEF TypeOK, Markers

(* No attempt owns the missing marker. *)
LEMMA NoMarkerUnowned == \A a \in Release : NoMarker.backup # a
  BY BoundsAssumption DEF NoMarker, Release

(* The marker of an attempt is there. *)
LEMMA MarkedIsThere == ASSUME NEW a \in 1 .. Attempts, MarkedBy(a) PROVE marker # NoMarker
  BY NoMarkerUnowned, BoundsAssumption DEF MarkedBy, Release

(* A write keeps the types and breaks nothing. *)
LEMMA WriteUserType ==
    ASSUME TypeOK, NEW n \in User, WriteUser(n)
    PROVE  /\ disk' \in [Names -> Content]
           /\ written' \in 1 .. MaxWrites + 1
           /\ disk'[n] # Broken
           /\ \A m \in Names \ {n} : disk'[m] = disk[m]
<1>1. written + 1 \in 1 .. MaxWrites + 1
  BY BoundsAssumption DEF TypeOK, WriteUser
<1>2. written + 1 \in Content /\ written + 1 # Broken
  BY <1>1, ContentFacts
<1> QED BY <1>1, <1>2 DEF TypeOK, WriteUser, Names

(* A newly created directory is not broken. *)
LEMMA PreparedType ==
    ASSUME TypeOK
    PROVE  /\ Prepared \in [Names -> Content]
           /\ \A u \in User : disk[u] # Broken => Prepared[u] # Broken
           /\ \A p \in Program : Prepared[p] = disk[p]
  BY ContentFacts, NamesAssumption DEF TypeOK, Prepared, Names, Broken

(* The invariant holds at the start. *)
LEMMA InitInv == Init => Inv
<1> SUFFICES ASSUME Init PROVE Inv
  OBVIOUS
<1>0. ASSUME NEW d \in Installations
      PROVE  d \in [Names -> Content] /\ Whole(d, 0)
  <2>1. \A n \in Names : d[n] \in Content
    BY ContentFacts DEF Installations
  <2>2. Whole(d, 0)
    BY NamesAssumption DEF Installations, Whole, Absent, Broken, Names
  <2> QED BY <2>1, <2>2 DEF Installations
<1>1. disk \in [Names -> Content] /\ snap \in [Names -> Content]
  BY <1>0, ContentFacts DEF Init, InitNormal, InitInterrupted
<1>2. TypeOK
  <2>1. marker \in Markers \cup {NoMarker}
    <3>1. CASE InitNormal
      BY <3>1 DEF InitNormal
    <3>2. CASE InitInterrupted
      <4>1. 0 \in Release
        BY BoundsAssumption DEF Release
      <4>2. marker = [backup |-> 0, sum |-> snap, keep |-> FALSE]
        BY <3>2 DEF InitInterrupted
      <4> QED BY <1>1, <4>1, <4>2 DEF Markers
    <3> QED BY <3>1, <3>2 DEF Init
  <2>2. probe \in [Release -> ProbeStates] /\ attempt \in Release
    BY BoundsAssumption DEF Init, ProbeStates, Release
  <2>3. written \in 1 .. MaxWrites + 1 /\ faults \in 0 .. MaxFaults
    BY BoundsAssumption DEF Init
  <2>4. server \in BOOLEAN /\ pc \in Steps /\ todo \in SUBSET Names /\ cur \in Names \cup {NoName}
    BY DEF Init, Steps
  <2> QED BY <1>1, <2>1, <2>2, <2>3, <2>4 DEF TypeOK
<1>3. MarkerInv
  BY <1>0, NoMarkerUnowned, BoundsAssumption
  DEF Init, InitNormal, InitInterrupted, MarkerInv, Unmarked, Release
<1>4. SnapshotInv /\ InstallInv /\ RestoreInv /\ ProbeInv
  BY BoundsAssumption
  DEF Init, SnapshotInv, InstallInv, Installing, RestoreInv, UpdaterHolds, ProbeInv,
      ProbeHolds, Release
<1> QED BY <1>2, <1>3, <1>4 DEF Inv

(* ---- every action preserves the invariant ---------------------------------- *)

(* The server starts only without a marker and creates what is missing. *)
LEMMA StartServerInv == ASSUME Inv, StartServer PROVE Inv'
<1> USE PreparedType DEF Inv, StartServer
<1>1. TypeOK'
  BY DEF TypeOK
<1>2. MarkerInv'
  BY DEF MarkerInv, Whole, Unmarked
<1>3. SnapshotInv'
  BY DEF SnapshotInv
<1>4. InstallInv'
  BY DEF InstallInv, Installing
<1>5. RestoreInv'
  BY DEF RestoreInv, UpdaterHolds
<1>6. ProbeInv'
  BY DEF ProbeInv, ProbeHolds, MarkedBy, UpdaterHolds
<1> QED BY <1>1, <1>2, <1>3, <1>4, <1>5, <1>6

(* A running server excludes marker and updater. *)
LEMMA ServerWriteInv == ASSUME Inv, NEW n \in User, ServerWrite(n) PROVE Inv'
<1> USE NamesAssumption, WriteUserType DEF Inv, ServerWrite
<1>1. TypeOK'
  BY DEF TypeOK
<1>2. MarkerInv'
  BY DEF TypeOK, MarkerInv, Whole, Unmarked, Names
<1>3. SnapshotInv'
  BY DEF SnapshotInv, MarkerInv, Unmarked
<1>4. InstallInv'
  BY DEF InstallInv, Installing, MarkerInv, Unmarked
<1>5. RestoreInv'
  BY DEF RestoreInv, UpdaterHolds, MarkerInv, Unmarked
<1>6. ProbeInv'
  BY DEF ProbeInv, ProbeHolds, MarkedBy, UpdaterHolds
<1> QED BY <1>1, <1>2, <1>3, <1>4, <1>5, <1>6

(* StopServer preserves the invariant. *)
LEMMA StopServerInv == ASSUME Inv, StopServer PROVE Inv'
<1> USE DEF Inv, StopServer
<1>1. TypeOK'
  BY DEF TypeOK
<1>2. MarkerInv'
  BY DEF MarkerInv, Unmarked
<1>3. SnapshotInv'
  BY DEF SnapshotInv
<1>4. InstallInv'
  BY DEF InstallInv, Installing
<1>5. RestoreInv'
  BY DEF RestoreInv, UpdaterHolds
<1>6. ProbeInv'
  BY DEF ProbeInv, ProbeHolds, MarkedBy, UpdaterHolds
<1> QED BY <1>1, <1>2, <1>3, <1>4, <1>5, <1>6

(* Begin preserves the invariant. *)
LEMMA BeginInv == ASSUME Inv, Begin PROVE Inv'
<1> USE DEF Inv, Begin, Goto
<1>1. TypeOK'
  BY DEF TypeOK, Steps
<1>2. MarkerInv'
  BY DEF MarkerInv, Unmarked
<1>3. SnapshotInv'
  BY DEF SnapshotInv
<1>4. InstallInv'
  BY DEF InstallInv, Installing
<1>5. RestoreInv'
  BY DEF RestoreInv, UpdaterHolds
<1>6. ProbeInv'
  BY DEF ProbeInv, ProbeHolds, MarkedBy, UpdaterHolds
<1> QED BY <1>1, <1>2, <1>3, <1>4, <1>5, <1>6

(* A new attempt is later than every installed release. *)
LEMMA StageInv == ASSUME Inv, Stage PROVE Inv'
<1> USE NamesAssumption, BoundsAssumption, ContentFacts DEF Inv, Stage, Goto, Exit
<1>1. TypeOK'
  BY DEF TypeOK, Steps, Release
<1>2. MarkerInv'
  BY DEF TypeOK, MarkerInv, Whole, Unmarked, Release
<1>3. SnapshotInv'
  BY DEF TypeOK, MarkerInv, Whole, SnapshotInv, Unmarked, Kept, Names, Release
<1>4. InstallInv'
  BY DEF InstallInv, Installing
<1>5. RestoreInv'
  BY DEF RestoreInv, UpdaterHolds
<1>6. ProbeInv'
  BY DEF ProbeInv, ProbeHolds, MarkedBy, UpdaterHolds
<1> QED BY <1>1, <1>2, <1>3, <1>4, <1>5, <1>6

(* One more name is in the snapshot as it is on disk; nobody writes meanwhile. *)
LEMMA TakeSnapshotInv == ASSUME Inv, TakeSnapshot PROVE Inv'
<1> USE NamesAssumption, NextNameIn, ContentFacts DEF Inv, TakeSnapshot, Goto
<1>1. TypeOK'
  BY DEF TypeOK
<1>2. MarkerInv'
  BY DEF MarkerInv, Unmarked
<1>3. SnapshotInv'
  BY DEF TypeOK, SnapshotInv, Kept, Names
<1>4. InstallInv'
  BY DEF InstallInv, Installing
<1>5. RestoreInv'
  BY DEF RestoreInv, UpdaterHolds
<1>6. ProbeInv'
  BY DEF ProbeInv, ProbeHolds, MarkedBy, UpdaterHolds
<1> QED BY <1>1, <1>2, <1>3, <1>4, <1>5, <1>6

(* A sealed snapshot has every kept name. *)
LEMMA SealInv == ASSUME Inv, Seal PROVE Inv'
<1> USE DEF Inv, Seal, Goto, Exit
<1>1. TypeOK'
  BY DEF TypeOK, Steps
<1>2. MarkerInv'
  BY DEF MarkerInv, Unmarked
<1>3. SnapshotInv'
  BY DEF SnapshotInv
<1>4. InstallInv'
  BY DEF InstallInv, Installing
<1>5. RestoreInv'
  BY DEF RestoreInv, UpdaterHolds
<1>6. ProbeInv'
  BY DEF ProbeInv, ProbeHolds, MarkedBy, UpdaterHolds
<1> QED BY <1>1, <1>2, <1>3, <1>4, <1>5, <1>6

(* From here the marker stands for the installation. *)
LEMMA WriteMarkerInv == ASSUME Inv, WriteMarker PROVE Inv'
<1> USE NoMarkerUnowned DEF Inv, WriteMarker, Goto
<1>1. TypeOK'
  BY DEF TypeOK, Names, Steps, ProbeStates, Release, Markers
<1>2. MarkerInv'
  <2>1. Whole(snap, attempt) /\ \A p \in Program : snap[p] < attempt
    BY DEF MarkerInv, Unmarked, SnapshotInv, Whole, Kept
  <2>2. marker'.backup = attempt /\ marker'.sum = snap /\ marker' # NoMarker
    BY DEF TypeOK, NoMarker
  <2> QED BY <2>1, <2>2 DEF MarkerInv, Unmarked, Whole
<1>3. SnapshotInv'
  BY DEF SnapshotInv
<1>4. InstallInv'
  BY DEF TypeOK, InstallInv, Installing, MarkerInv, Whole, Unmarked
<1>5. RestoreInv'
  BY DEF RestoreInv, UpdaterHolds
<1>6. ProbeInv'
  BY MarkerKinds
  DEF TypeOK, MarkerInv, Unmarked, ProbeInv, ProbeHolds, MarkedBy, UpdaterHolds, Release
<1> QED BY <1>1, <1>2, <1>3, <1>4, <1>5, <1>6

(* A broken program file is one of those still to do. *)
LEMMA InstallRemoveInv == ASSUME Inv, InstallRemove PROVE Inv'
<1> USE NamesAssumption, NextNameIn, ContentFacts DEF Inv, InstallRemove
<1>1. TypeOK'
  BY DEF TypeOK
<1>2. MarkerInv'
  BY DEF MarkerInv, Unmarked
<1>3. SnapshotInv'
  BY DEF SnapshotInv
<1>4. InstallInv'
  BY DEF InstallInv, Installing
<1>5. RestoreInv'
  BY DEF RestoreInv, UpdaterHolds
<1>6. ProbeInv'
  BY DEF ProbeInv, ProbeHolds, MarkedBy, UpdaterHolds
<1> QED BY <1>1, <1>2, <1>3, <1>4, <1>5, <1>6

(* One more program file is of the new release. *)
LEMMA InstallRenameInv == ASSUME Inv, InstallRename PROVE Inv'
<1> USE NamesAssumption, ContentFacts DEF Inv, InstallRename, Goto
<1>1. TypeOK'
  BY DEF TypeOK
<1>2. MarkerInv'
  BY DEF MarkerInv, Unmarked
<1>3. SnapshotInv'
  BY DEF SnapshotInv
<1>4. InstallInv'
  BY DEF TypeOK, InstallInv, Installing, Names
<1>5. RestoreInv'
  BY DEF RestoreInv, UpdaterHolds
<1>6. ProbeInv'
  BY DEF ProbeInv, ProbeHolds, MarkedBy, UpdaterHolds
<1> QED BY <1>1, <1>2, <1>3, <1>4, <1>5, <1>6

(* All program files are new when the probe starts. *)
LEMMA StartProbeInv == ASSUME Inv, StartProbe PROVE Inv'
<1> USE DEF Inv, StartProbe, Goto
<1>1. TypeOK'
  BY DEF TypeOK, Names, Steps, ProbeStates, Release, Markers
<1>2. MarkerInv'
  BY DEF MarkerInv, Unmarked
<1>3. SnapshotInv'
  BY DEF SnapshotInv
<1>4. InstallInv'
  BY DEF InstallInv, Installing
<1>5. RestoreInv'
  BY DEF RestoreInv, UpdaterHolds
<1>6. ProbeInv'
  BY DEF ProbeInv, ProbeHolds, MarkedBy, UpdaterHolds
<1> QED BY <1>1, <1>2, <1>3, <1>4, <1>5, <1>6

(* The upgrade is done only after the probe has exited ready. *)
LEMMA ProbeResultInv == ASSUME Inv, ProbeResult PROVE Inv'
<1> USE DEF Inv, ProbeResult, Goto
<1>1. TypeOK'
  BY DEF TypeOK, Steps
<1>2. MarkerInv'
  BY DEF MarkerInv, Unmarked
<1>3. SnapshotInv'
  BY DEF SnapshotInv
<1>4. InstallInv'
  BY DEF InstallInv, Installing
<1>5. RestoreInv'
  BY DEF RestoreInv, UpdaterHolds
<1>6. ProbeInv'
  BY DEF ProbeInv, ProbeHolds, MarkedBy, UpdaterHolds
<1> QED BY <1>1, <1>2, <1>3, <1>4, <1>5, <1>6

(* A failed installation goes on to the rollback with the marker in place. *)
LEMMA InstallFailsInv == ASSUME Inv, InstallFails PROVE Inv'
<1> USE NamesAssumption, BoundsAssumption DEF Inv, InstallFails, Goto
<1>1. TypeOK'
  BY DEF TypeOK, Steps
<1>2. MarkerInv'
  BY DEF MarkerInv, Unmarked
<1>3. SnapshotInv'
  BY DEF SnapshotInv
<1>4. InstallInv'
  BY DEF InstallInv, Installing
<1>5. RestoreInv'
  BY DEF RestoreInv, UpdaterHolds
<1>6. ProbeInv'
  BY DEF ProbeInv, ProbeHolds, MarkedBy, UpdaterHolds
<1> QED BY <1>1, <1>2, <1>3, <1>4, <1>5, <1>6

(* Recovery begins only with an intact snapshot and no probe on it. *)
LEMMA RestoreBeginInv == ASSUME Inv, RestoreBegin PROVE Inv'
<1> USE NamesAssumption DEF Inv, RestoreBegin, Goto, Exit, Restorable
<1>1. TypeOK'
  BY DEF TypeOK, Steps, Names
<1>2. MarkerInv'
  BY DEF MarkerInv, Unmarked
<1>3. SnapshotInv'
  BY DEF SnapshotInv
<1>4. InstallInv'
  BY DEF InstallInv, Installing
<1>5. RestoreInv'
  BY DEF TypeOK, RestoreInv, UpdaterHolds, Kept, Names
<1>6. ProbeInv'
  BY DEF ProbeInv, ProbeHolds, MarkedBy, UpdaterHolds
<1> QED BY <1>1, <1>2, <1>3, <1>4, <1>5, <1>6

(* A broken name is one of those still to restore. *)
LEMMA RestoreRemoveInv == ASSUME Inv, RestoreRemove PROVE Inv'
<1> USE NextNameIn, ContentFacts DEF Inv, RestoreRemove
<1>1. TypeOK'
  BY DEF TypeOK
<1>2. MarkerInv'
  BY DEF MarkerInv, Unmarked
<1>3. SnapshotInv'
  BY DEF SnapshotInv
<1>4. InstallInv'
  BY DEF InstallInv, Installing
<1>5. RestoreInv'
  BY DEF RestoreInv, UpdaterHolds
<1>6. ProbeInv'
  BY DEF ProbeInv, ProbeHolds, MarkedBy, UpdaterHolds
<1> QED BY <1>1, <1>2, <1>3, <1>4, <1>5, <1>6

(* One more name is as the snapshot has it. *)
LEMMA RestoreCopyInv == ASSUME Inv, RestoreCopy PROVE Inv'
<1> USE DEF Inv, RestoreCopy, Goto
<1>1. TypeOK'
  BY DEF TypeOK
<1>2. MarkerInv'
  BY DEF MarkerInv, Unmarked
<1>3. SnapshotInv'
  BY DEF SnapshotInv
<1>4. InstallInv'
  BY DEF InstallInv, Installing
<1>5. RestoreInv'
  BY DEF TypeOK, RestoreInv, UpdaterHolds, Kept, Names
<1>6. ProbeInv'
  BY DEF ProbeInv, ProbeHolds, MarkedBy, UpdaterHolds
<1> QED BY <1>1, <1>2, <1>3, <1>4, <1>5, <1>6

(* RecoverRuntime preserves the invariant. *)
LEMMA RecoverRuntimeInv == ASSUME Inv, RecoverRuntime PROVE Inv'
<1> USE DEF Inv, RecoverRuntime, Goto
<1>1. TypeOK'
  BY DEF TypeOK, Steps
<1>2. MarkerInv'
  BY DEF MarkerInv, Unmarked
<1>3. SnapshotInv'
  BY DEF SnapshotInv
<1>4. InstallInv'
  BY DEF InstallInv, Installing
<1>5. RestoreInv'
  BY DEF RestoreInv, UpdaterHolds
<1>6. ProbeInv'
  BY DEF ProbeInv, ProbeHolds, MarkedBy, UpdaterHolds
<1> QED BY <1>1, <1>2, <1>3, <1>4, <1>5, <1>6

(* The runtime is no kept name. *)
LEMMA RenameRuntimeInv == ASSUME Inv, RenameRuntime PROVE Inv'
<1> USE DEF Inv, RenameRuntime, Goto, Exit
<1>1. TypeOK'
  BY DEF TypeOK, Steps
<1>2. MarkerInv'
  BY DEF MarkerInv, Unmarked
<1>3. SnapshotInv'
  BY DEF SnapshotInv
<1>4. InstallInv'
  BY DEF InstallInv, Installing
<1>5. RestoreInv'
  BY DEF TypeOK, RestoreInv, UpdaterHolds, Kept, Names
<1>6. ProbeInv'
  BY DEF ProbeInv, ProbeHolds, MarkedBy, UpdaterHolds
<1> QED BY <1>1, <1>2, <1>3, <1>4, <1>5, <1>6

(* The marker goes when the installation is all new or all restored, and no probe serves. *)
LEMMA RemoveMarkerInv == ASSUME Inv, RemoveMarker PROVE Inv'
<1> USE DEF Inv, RemoveMarker, Goto, Exit
<1>1. TypeOK'
  BY DEF TypeOK, Steps
<1>2. MarkerInv'
  <2>1. marker # NoMarker
    BY DEF MarkerInv, Unmarked
  <2>2. CASE pc = "done"
    <3>1. \A q \in Program : disk[q] = attempt
      BY <2>2 DEF InstallInv, Installing
    <3>2. Whole(disk, attempt)
      BY <2>2, <3>1 DEF TypeOK, InstallInv, Installing, Whole, Release
    <3> QED BY <2>2, <3>2 DEF MarkerInv, Unmarked, Whole
  <2>3. CASE pc = "unmark"
    <3>1. \A n \in Program \cup User : disk[n] = marker.sum[n]
      BY <2>3 DEF RestoreInv, UpdaterHolds, Kept
    <3>2. Whole(disk, attempt)
      BY <2>1, <3>1 DEF MarkerInv, Whole
    <3> QED BY <2>3, <3>2 DEF MarkerInv, Unmarked, Whole
  <2> QED BY <2>2, <2>3
<1>3. SnapshotInv'
  BY DEF SnapshotInv
<1>4. InstallInv'
  BY DEF InstallInv, Installing
<1>5. RestoreInv'
  BY DEF RestoreInv, UpdaterHolds
<1>6. ProbeInv'
  <2> SUFFICES ASSUME NEW a \in 1 .. Attempts PROVE probe[a] # "serving"
    BY DEF ProbeInv, UpdaterHolds
  <2>1. CASE pc = "done"
    <3>1. marker # NoMarker /\ marker.backup = attempt /\ probe[attempt] = "ready"
      BY <2>1 DEF MarkerInv, Unmarked, InstallInv, Installing
    <3> QED BY <3>1 DEF ProbeInv, MarkedBy
  <2>2. CASE pc = "unmark"
    BY <2>2 DEF ProbeInv, ProbeHolds, MarkedBy, UpdaterHolds
  <2> QED BY <2>1, <2>2
<1> QED BY <1>1, <1>2, <1>3, <1>4, <1>5, <1>6

(* A dead updater leaves the marker as it was. *)
LEMMA StopUpdaterInv == ASSUME Inv, StopUpdater PROVE Inv'
<1> USE NamesAssumption, BoundsAssumption DEF Inv, StopUpdater, Goto, Exit
<1>1. TypeOK'
  BY DEF TypeOK, Steps
<1>2. MarkerInv'
  BY DEF MarkerInv, Unmarked
<1>3. SnapshotInv'
  BY DEF SnapshotInv
<1>4. InstallInv'
  BY DEF InstallInv, Installing
<1>5. RestoreInv'
  BY DEF RestoreInv, UpdaterHolds
<1>6. ProbeInv'
  BY DEF ProbeInv, ProbeHolds, MarkedBy, UpdaterHolds
<1> QED BY <1>1, <1>2, <1>3, <1>4, <1>5, <1>6

(* ProbeRead preserves the invariant. *)
LEMMA ProbeReadInv == ASSUME Inv, NEW a \in 1 .. Attempts, ProbeRead(a) PROVE Inv'
<1> USE DEF Inv, ProbeRead, ProbeTo
<1>1. TypeOK'
  BY DEF TypeOK, ProbeStates
<1>2. MarkerInv'
  BY DEF MarkerInv, Unmarked
<1>3. SnapshotInv'
  BY DEF SnapshotInv
<1>4. InstallInv'
  BY DEF InstallInv, Installing
<1>5. RestoreInv'
  BY DEF RestoreInv, UpdaterHolds
<1>6. ProbeInv'
  BY DEF ProbeInv, ProbeHolds, MarkedBy, UpdaterHolds
<1> QED BY <1>1, <1>2, <1>3, <1>4, <1>5, <1>6

(* A probe gets no lock while its snapshot is being restored. *)
LEMMA ProbeLockInv == ASSUME Inv, NEW a \in 1 .. Attempts, ProbeLock(a) PROVE Inv'
<1> USE DEF Inv, ProbeLock, ProbeTo
<1>1. TypeOK'
  BY DEF TypeOK, ProbeStates
<1>2. MarkerInv'
  BY DEF MarkerInv, Unmarked
<1>3. SnapshotInv'
  BY DEF SnapshotInv
<1>4. InstallInv'
  BY DEF InstallInv, Installing
<1>5. RestoreInv'
  BY DEF RestoreInv, UpdaterHolds
<1>6. ProbeInv'
  BY DEF ProbeInv, ProbeHolds, MarkedBy, UpdaterHolds
<1> QED BY <1>1, <1>2, <1>3, <1>4, <1>5, <1>6

(* Under the lock the marker is read again: a late probe stops here. *)
LEMMA ProbeRecheckInv == ASSUME Inv, NEW a \in 1 .. Attempts, ProbeRecheck(a) PROVE Inv'
<1> USE NamesAssumption, BoundsAssumption, PreparedType, NoMarkerUnowned
    DEF Inv, ProbeRecheck, ProbeTo
<1>0. MarkedBy(a) => pc \notin Unmarked /\ ~UpdaterHolds
  BY MarkedIsThere DEF MarkerInv, ProbeInv, ProbeHolds
<1>1. TypeOK'
  BY DEF TypeOK, ProbeStates
<1>2. MarkerInv'
  BY DEF MarkerInv, Whole, Unmarked
<1>3. SnapshotInv'
  BY <1>0 DEF SnapshotInv, Unmarked
<1>4. InstallInv'
  BY DEF TypeOK, InstallInv, Installing, Names
<1>5. RestoreInv'
  BY <1>0 DEF RestoreInv, UpdaterHolds
<1>6. ProbeInv'
  BY DEF TypeOK, ProbeInv, ProbeHolds, MarkedBy, UpdaterHolds, Release
<1> QED BY <1>1, <1>2, <1>3, <1>4, <1>5, <1>6

(* A probe writes under its own marker only. *)
LEMMA ProbeWriteInv ==
    ASSUME Inv, NEW a \in 1 .. Attempts, NEW n \in User, ProbeWrite(a, n) PROVE Inv'
<1> USE NamesAssumption, WriteUserType, NoMarkerUnowned DEF Inv, ProbeWrite, ProbeTo
<1>0. pc \notin Unmarked /\ ~UpdaterHolds
  BY MarkedIsThere DEF MarkerInv, ProbeInv, ProbeHolds
<1>1. TypeOK'
  BY DEF TypeOK
<1>2. MarkerInv'
  BY DEF TypeOK, MarkerInv, Whole, Unmarked, Names
<1>3. SnapshotInv'
  BY <1>0 DEF SnapshotInv, Unmarked
<1>4. InstallInv'
  BY DEF TypeOK, InstallInv, Installing, Names
<1>5. RestoreInv'
  BY <1>0 DEF RestoreInv, UpdaterHolds
<1>6. ProbeInv'
  BY DEF ProbeInv, ProbeHolds, MarkedBy, UpdaterHolds
<1> QED BY <1>1, <1>2, <1>3, <1>4, <1>5, <1>6

(* ProbeReady preserves the invariant. *)
LEMMA ProbeReadyInv == ASSUME Inv, NEW a \in 1 .. Attempts, ProbeReady(a) PROVE Inv'
<1> USE DEF Inv, ProbeReady, ProbeTo
<1>1. TypeOK'
  BY DEF TypeOK, ProbeStates
<1>2. MarkerInv'
  BY DEF MarkerInv, Unmarked
<1>3. SnapshotInv'
  BY DEF SnapshotInv
<1>4. InstallInv'
  BY DEF InstallInv, Installing
<1>5. RestoreInv'
  BY DEF RestoreInv, UpdaterHolds
<1>6. ProbeInv'
  BY DEF ProbeInv, ProbeHolds, MarkedBy, UpdaterHolds
<1> QED BY <1>1, <1>2, <1>3, <1>4, <1>5, <1>6

(* ProbeFails preserves the invariant. *)
LEMMA ProbeFailsInv == ASSUME Inv, NEW a \in 1 .. Attempts, ProbeFails(a) PROVE Inv'
<1> USE DEF Inv, ProbeFails, ProbeTo
<1>1. TypeOK'
  BY DEF TypeOK, ProbeStates
<1>2. MarkerInv'
  BY DEF MarkerInv, Unmarked
<1>3. SnapshotInv'
  BY DEF SnapshotInv
<1>4. InstallInv'
  BY DEF InstallInv, Installing
<1>5. RestoreInv'
  BY DEF RestoreInv, UpdaterHolds
<1>6. ProbeInv'
  BY DEF ProbeInv, ProbeHolds, MarkedBy, UpdaterHolds
<1> QED BY <1>1, <1>2, <1>3, <1>4, <1>5, <1>6

(* RemoveRuntime preserves the invariant. *)
LEMMA RemoveRuntimeInv == ASSUME Inv, RemoveRuntime PROVE Inv'
<1> USE NamesAssumption, BoundsAssumption, ContentFacts DEF Inv, RemoveRuntime
<1>1. TypeOK'
  BY DEF TypeOK, Names
<1>2. MarkerInv'
  BY DEF MarkerInv, Whole, Unmarked
<1>3. SnapshotInv'
  BY DEF TypeOK, SnapshotInv, Kept, Names
<1>4. InstallInv'
  BY DEF InstallInv, Installing
<1>5. RestoreInv'
  BY DEF TypeOK, RestoreInv, UpdaterHolds, Kept, Names
<1>6. ProbeInv'
  BY DEF ProbeInv, ProbeHolds, MarkedBy, UpdaterHolds
<1> QED BY <1>1, <1>2, <1>3, <1>4, <1>5, <1>6

(* LinkRuntime preserves the invariant. *)
LEMMA LinkRuntimeInv == ASSUME Inv, LinkRuntime PROVE Inv'
<1> USE NamesAssumption, ContentFacts DEF Inv, LinkRuntime
<1>1. TypeOK'
  BY DEF TypeOK
<1>2. MarkerInv'
  BY DEF MarkerInv, Whole, Unmarked
<1>3. SnapshotInv'
  BY DEF TypeOK, SnapshotInv, Kept, Names
<1>4. InstallInv'
  BY DEF InstallInv, Installing
<1>5. RestoreInv'
  BY DEF TypeOK, RestoreInv, UpdaterHolds, Kept, Names
<1>6. ProbeInv'
  BY DEF ProbeInv, ProbeHolds, MarkedBy, UpdaterHolds
<1> QED BY <1>1, <1>2, <1>3, <1>4, <1>5, <1>6

(* Damage happens while no recovery relies on the snapshot. *)
LEMMA DamageSnapshotInv == ASSUME Inv, NEW n \in Names, DamageSnapshot(n) PROVE Inv'
<1> USE NamesAssumption, BoundsAssumption, ContentFacts DEF Inv, DamageSnapshot
<1>1. TypeOK'
  BY DEF TypeOK
<1>2. MarkerInv'
  BY DEF MarkerInv, Unmarked
<1>3. SnapshotInv'
  BY DEF SnapshotInv
<1>4. InstallInv'
  BY DEF InstallInv, Installing
<1>5. RestoreInv'
  BY DEF RestoreInv, UpdaterHolds
<1>6. ProbeInv'
  BY DEF ProbeInv, ProbeHolds, MarkedBy, UpdaterHolds
<1> QED BY <1>1, <1>2, <1>3, <1>4, <1>5, <1>6
(* ---- the theorems ----------------------------------------------------------- *)

(* Every step preserves the invariant. *)
LEMMA NextInv == Inv /\ [Next]_vars => Inv'
<1> SUFFICES ASSUME Inv, [Next]_vars PROVE Inv'
  OBVIOUS
<1>1. CASE ServerStep
  BY <1>1, StartServerInv, ServerWriteInv, StopServerInv DEF ServerStep
<1>2. CASE Begin
  BY <1>2, BeginInv
<1>3. CASE UpdaterStep
  BY <1>3, StageInv, TakeSnapshotInv, SealInv, WriteMarkerInv, InstallRemoveInv,
     InstallRenameInv, StartProbeInv, ProbeResultInv, RestoreBeginInv, RestoreRemoveInv,
     RestoreCopyInv, RecoverRuntimeInv, RenameRuntimeInv, RemoveMarkerInv
  DEF UpdaterStep
<1>4. CASE \E a \in 1 .. Attempts : ProbeStep(a)
  BY <1>4, ProbeReadInv, ProbeLockInv, ProbeRecheckInv, ProbeWriteInv, ProbeReadyInv,
     ProbeFailsInv
  DEF ProbeStep
<1>5. CASE Environment
  BY <1>5, StopUpdaterInv, InstallFailsInv, RemoveRuntimeInv, LinkRuntimeInv,
     DamageSnapshotInv
  DEF Environment
<1>6. CASE UNCHANGED vars
  BY <1>6
  DEF vars, Inv, TypeOK, MarkerInv, Whole, SnapshotInv, InstallInv, RestoreInv, ProbeInv,
      UpdaterHolds, ProbeHolds, MarkedBy
<1> QED BY <1>1, <1>2, <1>3, <1>4, <1>5, <1>6 DEF Next

(* The inductive invariant holds in every reachable state. *)
THEOREM InvariantHolds == Spec => []Inv
  BY InitInv, NextInv, PTL DEF Spec

(* Every variable keeps its type. *)
THEOREM TypeCorrect == Spec => []TypeOK
<1>1. Inv => TypeOK
  BY DEF Inv
<1> QED BY <1>1, InvariantHolds, PTL

(* Whenever there is no marker, and so whenever the portable server may start,  *)
(* the program is of one release and nothing is half copied.                   *)
THEOREM WholeUnlessMarked == Spec => []WholeWithoutMarker
<1>1. Inv => WholeWithoutMarker
  BY BoundsAssumption, ContentFacts
  DEF Inv, TypeOK, MarkerInv, Whole, WholeWithoutMarker, Broken, Release
<1> QED BY <1>1, InvariantHolds, PTL

(* Who may change a name: only the operator and a recovery with an old marker   *)
(* touch a runtime that is there.                                              *)
LEMMA RuntimeStep ==
    ASSUME Inv, [Next]_vars, disk[Runtime] = Linked, disk'[Runtime] # Linked
    PROVE  RemoveRuntime \/ (marker # NoMarker /\ ~marker.keep)
<1> USE NamesAssumption DEF Inv
<1>1. CASE ServerStep
  <2>1. \A u \in User : ServerWrite(u) => disk'[Runtime] = disk[Runtime]
    BY DEF ServerWrite, WriteUser, TypeOK, Names
  <2> QED BY <1>1, <2>1 DEF ServerStep, StartServer, Prepared, StopServer, Names
<1>2. CASE Begin
  BY <1>2 DEF Begin
<1>3. CASE UpdaterStep
  <2>1. CASE InstallRemove \/ InstallRename
    BY <2>1, NextNameIn DEF InstallRemove, InstallRename, InstallInv, Installing, TypeOK, Names
  <2>2. CASE RestoreRemove \/ RestoreCopy
    <3>1. marker # NoMarker
      BY <2>2 DEF RestoreRemove, RestoreCopy, MarkerInv, Unmarked
    <3>2. Runtime \in todo
      BY <2>2, NextNameIn
      DEF RestoreRemove, RestoreCopy, RestoreInv, UpdaterHolds, TypeOK, Names
    <3> QED BY <2>2, <3>1, <3>2 DEF RestoreRemove, RestoreCopy, RestoreInv, UpdaterHolds
  <2>3. CASE RenameRuntime
    BY <2>3 DEF RenameRuntime, Linked, Absent
  <2> QED BY <1>3, <2>1, <2>2, <2>3
          DEF UpdaterStep, Stage, TakeSnapshot, Seal, WriteMarker, StartProbe, ProbeResult,
              RestoreBegin, RecoverRuntime, RemoveMarker
<1>4. CASE \E a \in 1 .. Attempts : ProbeStep(a)
  <2> PICK a \in 1 .. Attempts : ProbeStep(a)
    BY <1>4
  <2>1. \A u \in User : ProbeWrite(a, u) => disk'[Runtime] = disk[Runtime]
    BY DEF ProbeWrite, WriteUser, TypeOK, Names
  <2>2. ProbeRecheck(a) => disk'[Runtime] = disk[Runtime]
    BY DEF ProbeRecheck, Prepared, Names
  <2> QED BY <2>1, <2>2 DEF ProbeStep, ProbeRead, ProbeLock, ProbeReady, ProbeFails
<1>5. CASE Environment
  BY <1>5 DEF Environment, StopUpdater, InstallFails, LinkRuntime, DamageSnapshot, Linked, Absent
<1>6. CASE UNCHANGED vars
  BY <1>6 DEF vars
<1> QED BY <1>1, <1>2, <1>3, <1>4, <1>5, <1>6 DEF Next

(* The operator's own runtime survives every upgrade and every recovery of a    *)
(* current updater.                                                            *)
THEOREM RuntimeIsKept == Spec => OperatorRuntimeKept
<1>1. Inv /\ [Next]_vars =>
        [disk[Runtime] = Linked /\ disk'[Runtime] # Linked
           => RemoveRuntime \/ (marker # NoMarker /\ ~marker.keep)]_vars
  BY RuntimeStep
<1> QED BY <1>1, InvariantHolds, PTL DEF Spec, OperatorRuntimeKept

(* ---- refinement -------------------------------------------------------------- *)

(* The installation begins as one release. *)
LEMMA InitRefines == Init => Atomic!Init
<1> SUFFICES ASSUME Init PROVE Atomic!Init
  OBVIOUS
<1>1. MarkerInv
  BY InitInv DEF Inv
<1>2. \A p, q \in Program : Installation[p] = Installation[q]
  BY <1>1 DEF MarkerInv, Whole, Installation
<1> QED BY <1>2 DEF Init, Atomic!Init, Atomic!OneVersion

(* Under a marker, and wherever no kept name changes, a step is invisible. *)
LEMMA Invisible ==
    ASSUME marker' = marker, server' = server,
           marker = NoMarker => \A n \in Kept : disk'[n] = disk[n]
    PROVE  UNCHANGED Atomic!vars
  BY DEF Atomic!vars, Installation, Kept

(* The portable server's steps are those of AtomicUpgrade. *)
LEMMA ServerRefines == ASSUME Inv, ServerStep PROVE Atomic!Next
<1> USE NamesAssumption DEF Inv
<1>1. CASE StartServer
  <2>1. \A p \in Program : Installation'[p] = Installation[p]
    BY <1>1 DEF StartServer, Prepared, Installation, Names
  <2> QED BY <1>1, <2>1 DEF StartServer, Atomic!Next, Atomic!Start, Atomic!OnlyUserData
<1>2. ASSUME NEW n \in User, ServerWrite(n) PROVE Atomic!Next
  <2>1. \A p \in Program : Installation'[p] = Installation[p]
    BY <1>2 DEF ServerWrite, WriteUser, Installation, TypeOK, Names
  <2> QED BY <1>2, <2>1 DEF ServerWrite, Atomic!Next, Atomic!Write, Atomic!OnlyUserData
<1>3. CASE StopServer
  BY <1>3 DEF StopServer, Installation, Atomic!Next, Atomic!Stop
<1> QED BY <1>1, <1>2, <1>3 DEF ServerStep

(* The marker takes over what the disk holds. *)
LEMMA WriteMarkerRefines == ASSUME Inv, WriteMarker PROVE UNCHANGED Atomic!vars
<1>1. marker = NoMarker /\ \A n \in Kept : snap[n] = disk[n]
  BY DEF Inv, MarkerInv, Unmarked, SnapshotInv, WriteMarker
<1>2. marker' # NoMarker /\ marker'.sum = snap
  BY DEF Inv, TypeOK, WriteMarker, NoMarker
<1> QED BY <1>1, <1>2 DEF WriteMarker, Atomic!vars, Installation, Kept

(* Removing the marker completes an upgrade, or ends a recovery that has        *)
(* brought back what the marker promised.                                      *)
LEMMA RemoveMarkerRefines ==
    ASSUME Inv, RemoveMarker PROVE Atomic!Next \/ UNCHANGED Atomic!vars
<1> USE DEF Inv
<1>1. marker # NoMarker /\ marker' = NoMarker /\ server = FALSE /\ UNCHANGED <<disk, server>>
  BY DEF RemoveMarker, MarkerInv, Unmarked, TypeOK
<1>2. CASE pc = "done"
  <2>1. \A p \in Program : disk[p] = attempt /\ marker.sum[p] < attempt
    BY <1>1, <1>2 DEF InstallInv, Installing, MarkerInv
  <2>2. \A p \in Program : Installation'[p] = attempt /\ Installation[p] = marker.sum[p]
    BY <1>1, <2>1 DEF Installation
  <2>3. \A p \in Program : marker.sum[p] \in Nat /\ attempt \in Nat
    BY <1>1 DEF MarkerInv, Whole, TypeOK, Release
  <2> QED BY <1>1, <2>1, <2>2, <2>3 DEF Atomic!Next, Atomic!Upgrade, Atomic!OneVersion
<1>3. CASE pc = "unmark"
  <2>1. \A n \in Kept : disk[n] = marker.sum[n]
    BY <1>3 DEF RestoreInv, UpdaterHolds
  <2> QED BY <1>1, <2>1 DEF Atomic!vars, Installation, Kept
<1> QED BY <1>2, <1>3 DEF RemoveMarker

(* Every other step of the updater is invisible. *)
LEMMA UpdaterRefines ==
    ASSUME Inv, UpdaterStep PROVE Atomic!Next \/ UNCHANGED Atomic!vars
<1> USE NamesAssumption DEF Inv
<1>1. CASE InstallRemove \/ InstallRename \/ RestoreRemove \/ RestoreCopy \/ RenameRuntime
  <2>1. marker # NoMarker
    BY <1>1
    DEF MarkerInv, Unmarked, InstallRemove, InstallRename, RestoreRemove, RestoreCopy,
        RenameRuntime
  <2>2. marker' = marker /\ server' = server
    BY <1>1 DEF InstallRemove, InstallRename, RestoreRemove, RestoreCopy, RenameRuntime
  <2> QED BY <2>1, <2>2, Invisible
<1>2. CASE Stage \/ TakeSnapshot \/ Seal \/ StartProbe \/ ProbeResult \/ RestoreBegin \/ RecoverRuntime
  <2>1. marker' = marker /\ server' = server /\ disk' = disk
    BY <1>2 DEF Stage, TakeSnapshot, Seal, StartProbe, ProbeResult, RestoreBegin, RecoverRuntime
  <2> QED BY <2>1, Invisible
<1> QED BY <1>1, <1>2, WriteMarkerRefines, RemoveMarkerRefines DEF UpdaterStep

(* A probe writes only under its own marker. *)
LEMMA ProbeRefines ==
    ASSUME Inv, NEW a \in 1 .. Attempts, ProbeStep(a) PROVE UNCHANGED Atomic!vars
<1>1. marker' = marker /\ server' = server
  BY DEF ProbeStep, ProbeRead, ProbeLock, ProbeRecheck, ProbeWrite, ProbeReady, ProbeFails, ProbeTo
<1>2. disk' # disk => MarkedBy(a)
  BY DEF ProbeStep, ProbeRead, ProbeLock, ProbeRecheck, ProbeWrite, ProbeReady, ProbeFails,
         Inv, ProbeInv
<1>3. disk' # disk => marker # NoMarker
  BY <1>2, MarkedIsThere
<1> QED BY <1>1, <1>3, Invisible

(* Faults and the operator's runtime do not touch the installation. *)
LEMMA EnvironmentRefines == ASSUME Inv, Environment PROVE UNCHANGED Atomic!vars
<1>1. marker' = marker /\ server' = server
  BY DEF Environment, StopUpdater, InstallFails, RemoveRuntime, LinkRuntime, DamageSnapshot
<1>2. \A n \in Kept : disk'[n] = disk[n]
  BY NamesAssumption
  DEF Environment, StopUpdater, InstallFails, RemoveRuntime, LinkRuntime, DamageSnapshot,
      Inv, TypeOK, Names, Kept
<1> QED BY <1>1, <1>2, Invisible

(* The updater, its probes and the server implement AtomicUpgrade: the files    *)
(* change in one visible step or not at all.                                   *)
THEOREM UpgradeIsAtomic == Spec => ImplementsAtomicUpgrade
<1>1. Inv /\ [Next]_vars => [Atomic!Next]_(Atomic!vars)
  <2> SUFFICES ASSUME Inv, [Next]_vars PROVE Atomic!Next \/ UNCHANGED Atomic!vars
    OBVIOUS
  <2>1. CASE Begin
    BY <2>1, Invisible DEF Begin
  <2>2. CASE UNCHANGED vars
    BY <2>2, Invisible DEF vars
  <2> QED BY <2>1, <2>2, ServerRefines, UpdaterRefines, ProbeRefines, EnvironmentRefines DEF Next
<1> QED BY <1>1, InitRefines, InvariantHolds, PTL DEF Spec, ImplementsAtomicUpgrade, Atomic!Spec
=============================================================================
