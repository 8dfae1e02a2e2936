------------------------------ MODULE Installer ------------------------------
(***************************************************************************)
(* mycursor install and mycursor uninstall over the files of one Cursor     *)
(* installation: packages/patcher/src/pipeline.ts with backup-store.ts and  *)
(* product-checksums.ts, driven by packages/cli/src/commands/install.ts and *)
(* uninstall.ts.                                                            *)
(*                                                                         *)
(* A target is a bundle of some Cursor release with at most one payload in  *)
(* front of it (payloads never stack: strip precedes prepend), named by the *)
(* toolkit build it came from; 0 is no payload.  product.json is what a     *)
(* release ships with a checksum per tracked target; a checksum is the      *)
(* content it was computed from.  Each file system call that changes        *)
(* something is an action, so that a run may stop, or a call fail, between  *)
(* any two.  One CLI runs at a time.  What nobody can undo from inside the  *)
(* toolkit is recorded: `lost` are the files whose backup was deleted by    *)
(* hand, `spoiled` those with a backup cut short or older than the release. *)
(***************************************************************************)
EXTENDS Naturals, FiniteSets

CONSTANTS
  NumTargets,      \* discovered bundles, numbered in the order of their ids
  Tracked,         \* the targets product.json has a checksum for
  MaxRelease,      \* bound: Cursor releases
  MaxBuild,        \* bound: toolkit builds (RUNTIME_VERSION)
  MaxHarmed,       \* bound: with more files harmed no further harm is done
  NoFile           \* no such file

Targets == 1..NumTargets
Product == NumTargets + 1
Files == Targets \cup {Product}

ASSUME InstallerAssumption ==
  /\ NumTargets \in Nat \ {0}
  /\ Tracked \subseteq Targets
  /\ MaxRelease \in Nat \ {0} /\ MaxBuild \in Nat \ {0} /\ MaxHarmed \in Nat

Releases == 1..MaxRelease
Torn == 0     \* the release a partial or unreadable file belongs to

Bundle(r, b) == [base |-> r, payload |-> b]
Bundles == [base : Releases \cup {Torn}, payload : 0..MaxBuild]
Shipped(r) == [base |-> r, sums |-> [t \in Tracked |-> Bundle(r, 0)]]
Products == [base : Releases \cup {Torn}, sums : [Tracked -> Bundles]]

ASSUME NoFileAssumption == NoFile \notin Bundles /\ NoFile \notin Products

\* What release r ships as file f.
Pristine(r, f) == IF f = Product THEN Shipped(r) ELSE Bundle(r, 0)

VARIABLES
  release,   \* the Cursor release installed
  build,     \* the toolkit build installed
  file,      \* [file -> content]
  backup,    \* [file -> content of its .mycursor-bak, or NoFile]
  op,        \* what the command is doing
  step,      \* the file system call it makes next
  todo,      \* the files it still has to deal with
  touched,   \* applyPlan's touched: targets written in this run
  outcome,   \* how the last command ended
  before,    \* the files when it started, or since (for the properties only)
  lost,      \* files whose backup the user deleted (for the properties only)
  spoiled    \* files with a torn or outdated backup (for the properties only)

disk == <<release, build, file, backup>>
harm == <<lost, spoiled>>
vars == <<disk, op, step, todo, touched, outcome, before, harm>>

Ops == {"idle", "apply", "rollback", "checksums", "uninstall"}
Steps == {"none", "backup", "write", "verify", "copy", "remove"}
Outcomes == {"none", "installed", "satisfied", "rolledBack", "threw", "crashed",
             "uninstalled", "incomplete", "stuck"}

TypeOK ==
  /\ release \in Releases /\ build \in 1..MaxBuild
  /\ file \in [Files -> Bundles \cup Products]
  /\ file[Product] \in Products /\ \A t \in Targets : file[t] \in Bundles
  /\ backup \in [Files -> Bundles \cup Products \cup {NoFile}]
  /\ backup[Product] \in Products \cup {NoFile}
  /\ \A t \in Targets : backup[t] \in Bundles \cup {NoFile}
  /\ op \in Ops /\ step \in Steps /\ outcome \in Outcomes
  /\ todo \subseteq Files /\ touched \subseteq Targets
  /\ op = "idle" <=> todo = {}
  /\ before \in [Files -> Bundles \cup Products]
  /\ lost \subseteq Files /\ spoiled \subseteq Files

Init ==
  /\ release = 1 /\ build = 1
  /\ file = [f \in Files |-> Pristine(1, f)]
  /\ backup = [f \in Files |-> NoFile]
  /\ op = "idle" /\ step = "none" /\ outcome = "none"
  /\ todo = {} /\ touched = {}
  /\ before = file
  /\ lost = {} /\ spoiled = {}

-----------------------------------------------------------------------------
(* File operations.                                                        *)

First(f, S) == f \in S /\ \A g \in S : f <= g

\* The command ends; the file system keeps what it has.
End(how) ==
  /\ op' = "idle" /\ step' = "none" /\ todo' = {} /\ touched' = {}
  /\ outcome' = how
  /\ UNCHANGED <<release, build, before>>

\* Faulty: an existing backup is replaced.
CreateBackupAlways(f) == backup' = [backup EXCEPT ![f] = file[f]]

\* createBackup(): copies aside once; an existing backup is left alone.
CreateBackup(f) ==
  backup' = IF backup[f] = NoFile THEN [backup EXCEPT ![f] = file[f]] ELSE backup

\* What a copy onto f leaves when it is killed or fails half way.
TornVersion(f) == IF f = Product THEN [file[Product] EXCEPT !.base = Torn] ELSE Bundle(Torn, 0)

\* Discovery goes by content: it finds every whole bundle, and may or may not
\* recognise a torn one.
Discovered == {D \in SUBSET Targets : \A t \in Targets : file[t].base # Torn => t \in D}

\* Faulty: every payload found is taken for the current one.
PendingUnpatched(D) == {t \in D : file[t].payload = 0}

\* planInstall(): the targets whose payload is missing or stale.
Pending(D) == {t \in D : file[t].payload # build}

-----------------------------------------------------------------------------
(* mycursor install.                                                       *)

\* planInstall and the decision to apply; --force treats every target as
\* stale.
Install ==
  /\ op = "idle"
  /\ \E D \in Discovered, force \in BOOLEAN :
       LET due == IF force THEN D ELSE Pending(D) IN
       /\ D # {}
       /\ before' = file /\ touched' = {}
       /\ todo' = due
       /\ IF due = {}
          THEN op' = "idle" /\ step' = "none" /\ outcome' = "satisfied"
          ELSE op' = "apply" /\ step' = "backup" /\ outcome' = "installed"
  /\ UNCHANGED <<disk, harm>>

\* applyPlan: the backup comes before the first write.
ApplyBackup ==
  /\ op = "apply" /\ step = "backup"
  /\ \E t \in todo : First(t, todo) /\ CreateBackup(t)
  /\ step' = "write"
  /\ UNCHANGED <<release, build, file, op, todo, touched, outcome, before, harm>>

\* Faulty: touched is filled when the target is finished.
ApplyWriteUntouched ==
  /\ op = "apply" /\ step = "write"
  /\ \E t \in todo : First(t, todo) /\ file' = [file EXCEPT ![t].payload = build]
  /\ step' = "verify"
  /\ UNCHANGED <<release, build, backup, op, todo, touched, outcome, before, harm>>

\* strip, prepend, writeFileAtomic.
ApplyWrite ==
  /\ op = "apply" /\ step = "write"
  /\ \E t \in todo :
       /\ First(t, todo)
       /\ file' = [file EXCEPT ![t].payload = build]
       /\ touched' = touched \cup {t}
  /\ step' = "verify"
  /\ UNCHANGED <<release, build, backup, op, todo, outcome, before, harm>>

\* Faulty: the run is not ended after the last target.
ApplyVerifyEndless ==
  /\ op = "apply" /\ step = "verify"
  /\ \E t \in todo : First(t, todo) /\ todo' = todo \ {t}
  /\ step' = "backup"
  /\ UNCHANGED <<disk, op, touched, outcome, before, harm>>

\* verifyPatched; after the last target comes product.json.
ApplyVerify ==
  /\ op = "apply" /\ step = "verify"
  /\ \E t \in todo :
       /\ First(t, todo)
       /\ IF todo = {t}
          THEN op' = "checksums" /\ step' = "backup" /\ todo' = {Product}
          ELSE op' = "apply" /\ step' = "backup" /\ todo' = todo \ {t}
  /\ UNCHANGED <<disk, touched, outcome, before, harm>>

\* A call of the loop throws: the files touched so far are restored.
ApplyFails ==
  /\ op = "apply"
  /\ IF touched = {}
     THEN End("rolledBack") /\ UNCHANGED <<file, backup, harm>>
     ELSE /\ op' = "rollback" /\ step' = "copy" /\ outcome' = "rolledBack" /\ todo' = touched
          /\ UNCHANGED <<disk, touched, before, harm>>

-----------------------------------------------------------------------------
(* Restoring, in a rollback and in an uninstall.                           *)

\* The command is done with file f.
Done(f) ==
  IF todo = {f}
  THEN op' = "idle" /\ step' = "none" /\ todo' = {} /\ touched' = {}
  ELSE step' = "copy" /\ todo' = todo \ {f} /\ UNCHANGED <<op, touched>>

\* restoreBackup(): the backup is copied over the file.
RestoreCopy ==
  /\ op \in {"rollback", "uninstall"} /\ step = "copy"
  /\ \E f \in todo :
       /\ First(f, todo) /\ backup[f] # NoFile
       /\ file' = [file EXCEPT ![f] = backup[f]]
  /\ step' = "remove"
  /\ UNCHANGED <<release, build, backup, op, todo, touched, outcome, before, harm>>

\* restoreBackup(): the backup is removed.
RestoreRemove ==
  /\ step = "remove"
  /\ \E f \in todo :
       /\ First(f, todo) /\ Done(f)
       /\ backup' = [backup EXCEPT ![f] = NoFile]
  /\ UNCHANGED <<release, build, file, outcome, before, harm>>

\* Without a backup a rollback leaves the file as it is; an uninstall strips
\* the payload.
RestoreNothing ==
  /\ op \in {"rollback", "uninstall"} /\ step = "copy"
  /\ \E f \in todo :
       /\ First(f, todo) /\ backup[f] = NoFile /\ Done(f)
       /\ file' = IF op = "uninstall" /\ f # Product THEN [file EXCEPT ![f].payload = 0] ELSE file
  /\ UNCHANGED <<release, build, backup, outcome, before, harm>>

\* Faulty: the backup is removed although the copy failed.
RestoreFailsFinally ==
  /\ op \in {"rollback", "uninstall"} /\ step = "copy"
  /\ \E f \in todo :
       /\ First(f, todo) /\ backup[f] # NoFile
       /\ file' \in {file, [file EXCEPT ![f] = TornVersion(f)]}
       /\ backup' = [backup EXCEPT ![f] = NoFile]
       /\ \/ op = "rollback" /\ End("stuck")
          \/ op = "uninstall" /\ Done(f) /\ outcome' = "incomplete" /\ UNCHANGED <<release, build, before>>
  /\ UNCHANGED harm

\* A call throws: it ends the rollback, and applyPlan with it; an uninstall
\* records the failure and goes on.
RestoreFails ==
  /\ op \in {"rollback", "uninstall"}
  /\ \E f \in todo :
       /\ First(f, todo)
       /\ \/ UNCHANGED file
          \/ step = "copy" /\ backup[f] # NoFile /\ file' = [file EXCEPT ![f] = TornVersion(f)]
       /\ \/ op = "rollback" /\ End("stuck")
          \/ op = "uninstall" /\ Done(f) /\ outcome' = "incomplete" /\ UNCHANGED <<release, build, before>>
  /\ UNCHANGED <<backup, harm>>

-----------------------------------------------------------------------------
(* product.json.                                                           *)

\* The checksums after updateChecksums: those of the targets patched by this
\* run (all that were touched), where product.json has the key.
NewSums == [t \in Tracked |-> IF t \in touched THEN file[t] ELSE file[Product].sums[t]]

\* updateChecksums: nothing to rewrite, or the backup before the rewrite.
ChecksumBackup ==
  /\ op = "checksums" /\ step = "backup"
  /\ file[Product].base # Torn \/ touched \cap Tracked = {}
  /\ IF NewSums = file[Product].sums
     THEN End("installed") /\ UNCHANGED <<file, backup, harm>>
     ELSE CreateBackup(Product) /\ step' = "write"
          /\ UNCHANGED <<release, build, file, op, todo, touched, outcome, before, harm>>

\* The rewrite of product.json, the last call of an install.
ChecksumWrite ==
  /\ op = "checksums" /\ step = "write"
  /\ file' = [file EXCEPT ![Product].sums = NewSums]
  /\ End("installed")
  /\ UNCHANGED <<backup, harm>>

\* A call throws, or product.json is not JSON.  This is outside the try of
\* applyPlan: nothing is restored.
ChecksumFails ==
  /\ op = "checksums"
  /\ End("threw")
  /\ UNCHANGED <<file, backup, harm>>

-----------------------------------------------------------------------------
(* mycursor uninstall.                                                     *)

\* uninstallInstall: every discovered target, then product.json.
Uninstall ==
  /\ op = "idle"
  /\ \E D \in Discovered : todo' = D \cup {Product}
  /\ op' = "uninstall" /\ step' = "copy" /\ outcome' = "uninstalled"
  /\ touched' = {} /\ before' = file
  /\ UNCHANGED <<disk, harm>>

-----------------------------------------------------------------------------
(* What happens to the command and between commands.                       *)

\* Bounds the harm.
Harmable == Cardinality(lost) + Cardinality(spoiled) <= MaxHarmed

\* The command is killed.  A copy in progress may leave part of its target:
\* the backup being made, or the file being restored.
Crash ==
  /\ op # "idle"
  /\ \E f \in todo :
       /\ First(f, todo)
       /\ \/ UNCHANGED <<file, backup, spoiled>>
          \/ /\ Harmable
             /\ op \in {"apply", "checksums"} /\ step = "backup" /\ backup[f] = NoFile
             /\ backup' = [backup EXCEPT ![f] = TornVersion(f)]
             /\ spoiled' = spoiled \cup {f}
             /\ UNCHANGED file
          \/ /\ step = "copy" /\ backup[f] # NoFile
             /\ file' = [file EXCEPT ![f] = TornVersion(f)]
             /\ UNCHANGED <<backup, spoiled>>
  /\ End("crashed")
  /\ UNCHANGED lost

\* Cursor updates itself: pristine files of the next release.  Its updater
\* replaces the whole directory, or leaves the backups it does not know.
Upgrade ==
  /\ op = "idle" /\ release < MaxRelease
  /\ release' = release + 1
  /\ file' = [f \in Files |-> Pristine(release', f)]
  /\ \/ backup' = [f \in Files |-> NoFile] /\ lost' = {} /\ spoiled' = {}
     \/ /\ Harmable
        /\ spoiled' = spoiled \cup {f \in Files : backup[f] # NoFile}
        /\ UNCHANGED <<backup, lost>>
  /\ outcome' = "none"
  /\ before' = file'
  /\ UNCHANGED <<build, op, step, todo, touched>>

\* A newer toolkit is installed.
NewBuild ==
  /\ op = "idle" /\ build < MaxBuild
  /\ build' = build + 1
  /\ outcome' = "none"
  /\ before' = file
  /\ UNCHANGED <<release, file, backup, op, step, todo, touched, harm>>

\* A backup of a whole file is deleted by hand.
DeleteBackup ==
  /\ op = "idle" /\ Harmable
  /\ \E f \in Files : /\ backup[f] # NoFile /\ file[f].base # Torn
                      /\ backup' = [backup EXCEPT ![f] = NoFile]
                      /\ lost' = lost \cup {f}
  /\ outcome' = "none"
  /\ before' = file
  /\ UNCHANGED <<release, build, file, op, step, todo, touched, spoiled>>

-----------------------------------------------------------------------------
Next ==
  \/ Install \/ ApplyBackup \/ ApplyWrite \/ ApplyVerify \/ ApplyFails
  \/ RestoreCopy \/ RestoreRemove \/ RestoreNothing \/ RestoreFails
  \/ ChecksumBackup \/ ChecksumWrite \/ ChecksumFails
  \/ Uninstall
  \/ Crash \/ Upgrade \/ NewBuild \/ DeleteBackup

Spec == Init /\ [][Next]_vars

-----------------------------------------------------------------------------
(* Properties.                                                             *)

Stripped(c) == [c EXCEPT !.payload = 0]

\* A backup never holds the toolkit's own work: a bundle backup carries no
\* payload, and the backup of product.json no rewritten checksum ("Re-running
\* install must not overwrite an existing backup with already-patched content",
\* createBackup).  Only a refresh after its backup was deleted breaks this.
BackupsPristine ==
  /\ \A t \in Targets \ lost : backup[t] # NoFile => backup[t].payload = 0
  /\ Product \notin lost /\ backup[Product] # NoFile =>
       \A t \in Tracked : backup[Product].sums[t].payload = 0

\* Whatever was interrupted or deleted, the bytes Cursor shipped can be had
\* back for every target, from the file or from its backup ("a partial loss of
\* either still leaves a route back to an unmodified installation",
\* backup-store.ts), as long as that backup is whole and of this release.
Recoverable ==
  \A t \in Targets \ spoiled :
    \/ Stripped(file[t]) = Bundle(release, 0)
    \/ backup[t] # NoFile /\ Stripped(backup[t]) = Bundle(release, 0)

\* A run that was rolled back leaves nothing of its own (applyPlan's catch): every
\* bundle is what it was when the run started, or, if it was written, what Cursor
\* shipped.  For a bundle that was unpatched the two are one; a bundle that carried
\* an older payload, or a forced run's own, loses it with its backup.  Bundles
\* whose backup was lost or spoiled are excepted.
RollbackUndoes ==
  op = "idle" /\ outcome = "rolledBack" =>
    /\ \A t \in Targets \ (lost \cup spoiled) : file[t] \in {before[t], Bundle(release, 0)}
    /\ file[Product] = before[Product]

\* A run that reports success, or nothing to do, leaves the current payload in
\* every whole bundle, also after interrupted and rolled back runs (planInstall).
InstalledIsCurrent ==
  op = "idle" /\ outcome \in {"installed", "satisfied"} =>
    \A t \in Targets : file[t].base # Torn => file[t].payload = build

\* An uninstall that reports no failure returns every file it can recognise to
\* what the installed release ships ("Returns an installation to its unmodified
\* state", uninstallInstall), unless its backup was lost or spoiled.
UninstallRestores ==
  op = "idle" /\ outcome = "uninstalled" =>
    \A f \in Files \ (lost \cup spoiled) : f = Product \/ before[f].base # Torn => file[f] = Pristine(release, f)

\* Both ways back: of a run that failed and of one that succeeded.
UndoRestores == RollbackUndoes /\ UninstallRestores

\* "Applies a plan, restoring every file it touched if any step fails"
\* (applyPlan).  The step that fails here is the last, updateChecksums.
FailureRestores ==
  op = "idle" /\ outcome = "threw" => file = before
=============================================================================
