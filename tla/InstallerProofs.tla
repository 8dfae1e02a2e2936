--------------------------- MODULE InstallerProofs ---------------------------
(***************************************************************************)
(* Proofs about Installer, for any number of targets, releases and builds,  *)
(* with commands killed or failing at any call, Cursor updating itself and  *)
(* the user deleting backups.  Backups stay pristine, but for those of the  *)
(* files in `lost`: the inductive invariant says that whatever the toolkit  *)
(* has changed has its backup, which is what lets createBackup copy without *)
(* looking at the file.  On top of it, what each command has achieved so     *)
(* far: every file keeps a way back, and an install, a rollback and an       *)
(* uninstall leave what they promise.                                        *)
(***************************************************************************)
EXTENDS Installer, TLAPS

\* Whatever carries toolkit work has a backup, unless the user deleted it.
BackedUp ==
  /\ \A t \in Targets \ lost : file[t].payload # 0 => backup[t] # NoFile
  /\ Product \notin lost /\ (\E t \in Tracked : file[Product].sums[t].payload # 0) =>
       backup[Product] # NoFile

\* Where a command can be, and what the calls before have achieved.
Progress ==
  /\ op = "apply" => todo \subseteq Targets /\ step \in {"backup", "write", "verify"}
  /\ op = "rollback" => todo \subseteq Targets /\ step \in {"copy", "remove"}
  /\ op = "checksums" => todo = {Product} /\ step \in {"backup", "write"}
  /\ op = "uninstall" => step \in {"copy", "remove"}
  /\ op = "idle" => step = "none"
  /\ step = "write" => \A f \in Files : First(f, todo) => backup[f] # NoFile
  /\ step = "remove" => \A f \in Files \ lost : First(f, todo) =>
       IF f = Product THEN \A t \in Tracked : file[f].sums[t].payload = 0 ELSE file[f].payload = 0

IInv == TypeOK /\ BackupsPristine /\ BackedUp /\ Progress

\* product.json is not a target.
LEMMA FilesApart ==
  /\ Product \notin Targets /\ Product \in Files /\ Targets \subseteq Files
  /\ \A f \in Files : f = Product \/ f \in Targets
BY InstallerAssumption DEF Product, Files, Targets

\* What the constants guarantee about contents.
LEMMA PristineTyped ==
  ASSUME NEW r \in Releases
  PROVE  /\ \A t \in Targets : Pristine(r, t) \in Bundles /\ Pristine(r, t).payload = 0
         /\ Pristine(r, Product) \in Products
         /\ \A t \in Tracked : Pristine(r, Product).sums[t].payload = 0
<1>1. Bundle(r, 0) \in Bundles /\ Bundle(r, 0).payload = 0
  BY InstallerAssumption DEF Bundle, Bundles
<1>2. Shipped(r) \in Products /\ \A t \in Tracked : Shipped(r).sums[t].payload = 0
  BY <1>1 DEF Shipped, Products
<1> QED BY <1>1, <1>2, FilesApart DEF harm, Pristine

\* A target's file with another payload.
LEMMA PayloadTyped ==
  ASSUME NEW t \in Targets, file[t] \in Bundles, NEW b \in 0..MaxBuild
  PROVE  [file[t] EXCEPT !.payload = b] \in Bundles /\ [file[t] EXCEPT !.payload = b].payload = b
BY DEF Bundles

\* A cut-short copy.
LEMMA TornTyped ==
  ASSUME NEW f \in Files, file[Product] \in Products
  PROVE  /\ f = Product => TornVersion(f) \in Products /\ TornVersion(f).sums = file[Product].sums
         /\ f # Product => TornVersion(f) \in Bundles /\ TornVersion(f).payload = 0
BY InstallerAssumption DEF TornVersion, Products, Bundles, Bundle, Torn, Releases

\* One file is replaced, or none: types follow from the new content.
LEMMA FileTyped ==
  ASSUME TypeOK, NEW f \in Files, NEW c,
         f = Product => c \in Products, f # Product => c \in Bundles,
         file' = [file EXCEPT ![f] = c]
  PROVE  /\ file' \in [Files -> Bundles \cup Products]
         /\ file'[Product] \in Products
         /\ \A t \in Targets : file'[t] \in Bundles
         /\ file'[f] = c
         /\ \A g \in Files : g # f => file'[g] = file[g]
BY FilesApart DEF TypeOK

LEMMA BackupTyped ==
  ASSUME TypeOK, NEW f \in Files, NEW c,
         f = Product => c \in Products \cup {NoFile}, f # Product => c \in Bundles \cup {NoFile},
         backup' = [backup EXCEPT ![f] = c]
  PROVE  /\ backup' \in [Files -> Bundles \cup Products \cup {NoFile}]
         /\ backup'[Product] \in Products \cup {NoFile}
         /\ \A t \in Targets : backup'[t] \in Bundles \cup {NoFile}
         /\ backup'[f] = c
         /\ \A g \in Files : g # f => backup'[g] = backup[g]
BY FilesApart DEF TypeOK

\* createBackup keeps the backups pristine, and leaves a backup of its file.
LEMMA CreateBackupKeeps ==
  ASSUME IInv, NEW f \in Files, CreateBackup(f), UNCHANGED <<file, harm>>
  PROVE  /\ backup' \in [Files -> Bundles \cup Products \cup {NoFile}]
         /\ backup'[Product] \in Products \cup {NoFile}
         /\ \A t \in Targets : backup'[t] \in Bundles \cup {NoFile}
         /\ BackupsPristine'
         /\ BackedUp'
         /\ backup'[f] # NoFile
<1>1. CASE backup[f] # NoFile
  BY <1>1 DEF harm, CreateBackup, IInv, TypeOK, BackupsPristine, BackedUp
<1>2. CASE backup[f] = NoFile
  <2>1. backup' = [backup EXCEPT ![f] = file[f]]
    BY <1>2 DEF CreateBackup
  <2>2. (f = Product => file[f] \in Products) /\ (f # Product => file[f] \in Bundles)
    BY FilesApart DEF harm, IInv, TypeOK
  <2>3. /\ backup' \in [Files -> Bundles \cup Products \cup {NoFile}]
        /\ backup'[Product] \in Products \cup {NoFile}
        /\ \A t \in Targets : backup'[t] \in Bundles \cup {NoFile}
        /\ backup'[f] = file[f]
        /\ \A g \in Files : g # f => backup'[g] = backup[g]
    BY <2>1, <2>2, BackupTyped DEF IInv
  <2>4. backup'[f] # NoFile
    BY <2>2, <2>3, NoFileAssumption
  <2>5. BackupsPristine'
    BY <1>2, <2>3, FilesApart DEF harm, IInv, BackupsPristine, BackedUp
  <2>6. BackedUp'
    BY <2>3, <2>4, FilesApart DEF harm, IInv, BackedUp
  <2> QED BY <2>3, <2>4, <2>5, <2>6
<1> QED BY <1>1, <1>2

\* A command that ends leaves the invariant to the files alone.
LEMMA EndKeeps ==
  ASSUME IInv, NEW how \in Outcomes, End(how),
         file' \in [Files -> Bundles \cup Products], file'[Product] \in Products,
         \A t \in Targets : file'[t] \in Bundles,
         backup' \in [Files -> Bundles \cup Products \cup {NoFile}],
         backup'[Product] \in Products \cup {NoFile},
         \A t \in Targets : backup'[t] \in Bundles \cup {NoFile},
         BackupsPristine', BackedUp', lost' = lost, spoiled' \subseteq Files
  PROVE  IInv'
BY DEF harm, IInv, TypeOK, End, Progress, Ops, Steps

-----------------------------------------------------------------------------
\* One lemma per phase of a command.
LEMMA ApplyKeeps ==
  ASSUME IInv, ApplyBackup \/ ApplyWrite \/ ApplyVerify \/ ApplyFails
  PROVE  IInv'
<1>1. CASE ApplyBackup
  <2>1. PICK t \in todo : First(t, todo) /\ CreateBackup(t)
    BY <1>1 DEF ApplyBackup
  <2>2. t \in Files /\ UNCHANGED <<file, harm>>
    BY <1>1, <2>1 DEF harm, ApplyBackup, IInv, TypeOK
  <2>3. \A f \in Files : First(f, todo) => f = t
    BY <2>1, FilesApart, InstallerAssumption DEF harm, First, IInv, TypeOK, Files, Targets, Product
  <2>4. /\ backup' \in [Files -> Bundles \cup Products \cup {NoFile}]
        /\ backup'[Product] \in Products \cup {NoFile}
        /\ \A g \in Targets : backup'[g] \in Bundles \cup {NoFile}
        /\ BackupsPristine' /\ BackedUp' /\ backup'[t] # NoFile
    BY <2>1, <2>2, CreateBackupKeeps
  <2>5. TypeOK'
    BY <1>1, <2>4 DEF harm, ApplyBackup, IInv, TypeOK, Steps
  <2>6. Progress'
    BY <1>1, <2>3, <2>4 DEF harm, ApplyBackup, IInv, Progress, First
  <2> QED BY <2>4, <2>5, <2>6 DEF harm, IInv
<1>2. CASE ApplyWrite
  <2>1. PICK t \in todo : First(t, todo) /\ file' = [file EXCEPT ![t].payload = build]
                          /\ touched' = touched \cup {t}
    BY <1>2 DEF ApplyWrite
  <2>2. t \in Targets /\ t \in Files /\ t # Product /\ backup[t] # NoFile
    BY <1>2, <2>1, FilesApart DEF harm, ApplyWrite, IInv, TypeOK, Progress
  <2>3. build \in 0..MaxBuild
    BY InstallerAssumption DEF harm, IInv, TypeOK
  <2> DEFINE c == [file[t] EXCEPT !.payload = build]
  <2>4. c \in Bundles
    BY <2>2, <2>3, PayloadTyped DEF IInv, TypeOK
  <2>5. file' = [file EXCEPT ![t] = c]
    BY <2>1
  <2> HIDE DEF c
  <2>6. /\ file' \in [Files -> Bundles \cup Products]
        /\ file'[Product] \in Products
        /\ \A g \in Targets : file'[g] \in Bundles
        /\ \A g \in Files : g # t => file'[g] = file[g]
    BY <2>2, <2>4, <2>5, FileTyped DEF IInv
  <2>7. TypeOK'
    BY <1>2, <2>1, <2>2, <2>6 DEF harm, ApplyWrite, IInv, TypeOK, Steps
  <2>8. BackedUp'
    BY <1>2, <2>2, <2>6, FilesApart DEF harm, ApplyWrite, IInv, BackedUp
  <2>9. BackupsPristine' /\ Progress'
    BY <1>2 DEF harm, ApplyWrite, IInv, BackupsPristine, Progress
  <2> QED BY <2>7, <2>8, <2>9 DEF harm, IInv
<1>3. CASE ApplyVerify
  <2>1. PICK t \in todo : IF todo = {t} THEN op' = "checksums" /\ step' = "backup" /\ todo' = {Product}
                          ELSE op' = "apply" /\ step' = "backup" /\ todo' = todo \ {t}
    BY <1>3 DEF ApplyVerify
  <2>2. TypeOK' /\ Progress'
    BY <1>3, <2>1, FilesApart DEF harm, ApplyVerify, disk, IInv, TypeOK, Progress, Ops, Steps
  <2> QED BY <1>3, <2>2 DEF harm, ApplyVerify, disk, IInv, BackupsPristine, BackedUp
<1>4. CASE ApplyFails
  <2>1. CASE touched = {}
    <3>1. End("rolledBack") /\ UNCHANGED <<file, backup, harm>>
      BY <1>4, <2>1 DEF harm, ApplyFails
    <3> QED BY <3>1, EndKeeps DEF harm, IInv, TypeOK, BackupsPristine, BackedUp, Outcomes
  <2>2. CASE touched # {}
    <3>1. op' = "rollback" /\ step' = "copy" /\ outcome' = "rolledBack" /\ todo' = touched
          /\ UNCHANGED <<disk, touched, before, harm>>
      BY <1>4, <2>2 DEF ApplyFails
    <3>2. TypeOK' /\ Progress'
      BY <2>2, <3>1, FilesApart DEF harm, disk, IInv, TypeOK, Progress, Ops, Steps, Outcomes
    <3> QED BY <3>1, <3>2 DEF harm, disk, IInv, BackupsPristine, BackedUp
  <2> QED BY <2>1, <2>2
<1> QED BY <1>1, <1>2, <1>3, <1>4

\* The command goes on to its next file, or ends.
LEMMA DoneKeeps ==
  ASSUME IInv, NEW f \in todo, Done(f), op \in {"rollback", "uninstall"},
         UNCHANGED <<release, build, before>>, outcome' \in Outcomes,
         file' \in [Files -> Bundles \cup Products], file'[Product] \in Products,
         \A t \in Targets : file'[t] \in Bundles,
         backup' \in [Files -> Bundles \cup Products \cup {NoFile}],
         backup'[Product] \in Products \cup {NoFile},
         \A t \in Targets : backup'[t] \in Bundles \cup {NoFile},
         BackupsPristine', BackedUp', UNCHANGED harm
  PROVE  IInv'
<1>1. CASE todo = {f}
  BY <1>1 DEF harm, Done, IInv, TypeOK, Progress, Ops, Steps
<1>2. CASE todo # {f}
  <2>1. step' = "copy" /\ todo' = todo \ {f} /\ todo' # {} /\ UNCHANGED <<op, touched>>
    BY <1>2 DEF Done
  <2> QED BY <2>1 DEF harm, IInv, TypeOK, Progress, Ops, Steps
<1> QED BY <1>1, <1>2

LEMMA RestoreKeeps ==
  ASSUME IInv, RestoreCopy \/ RestoreRemove \/ RestoreNothing \/ RestoreFails
  PROVE  IInv'
<1> USE FilesApart
<1>1. CASE RestoreCopy
  <2>1. PICK f \in todo : First(f, todo) /\ backup[f] # NoFile /\ file' = [file EXCEPT ![f] = backup[f]]
    BY <1>1 DEF RestoreCopy
  <2>2. f \in Files /\ (f = Product => backup[f] \in Products) /\ (f # Product => backup[f] \in Bundles)
    BY <2>1 DEF harm, IInv, TypeOK
  <2>3. /\ file' \in [Files -> Bundles \cup Products]
        /\ file'[Product] \in Products
        /\ \A t \in Targets : file'[t] \in Bundles
        /\ file'[f] = backup[f]
        /\ \A g \in Files : g # f => file'[g] = file[g]
    BY <2>1, <2>2, FileTyped DEF IInv
  <2>4. TypeOK'
    BY <1>1, <2>3 DEF harm, RestoreCopy, IInv, TypeOK, Steps
  <2>5. \A g \in Files : First(g, todo) => g = f
    BY <2>1, InstallerAssumption DEF harm, First, IInv, TypeOK, Files, Targets, Product
  <2>6. f \notin lost => IF f = Product THEN \A t \in Tracked : file'[f].sums[t].payload = 0
                         ELSE file'[f].payload = 0
    BY <2>1, <2>2, <2>3 DEF harm, IInv, BackupsPristine
  <2>7. Progress'
    BY <1>1, <2>5, <2>6 DEF harm, RestoreCopy, IInv, Progress, First
  <2>8. BackedUp'
    BY <1>1, <2>1, <2>3 DEF harm, RestoreCopy, IInv, BackedUp
  <2> QED BY <1>1, <2>4, <2>7, <2>8 DEF harm, RestoreCopy, IInv, BackupsPristine
<1>2. CASE RestoreRemove
  <2>1. PICK f \in todo : First(f, todo) /\ Done(f) /\ backup' = [backup EXCEPT ![f] = NoFile]
    BY <1>2 DEF RestoreRemove
  <2>2. f \in Files /\ op \in {"rollback", "uninstall"}
    BY <1>2, <2>1 DEF harm, RestoreRemove, IInv, TypeOK, Progress, Ops
  <2>3. /\ backup' \in [Files -> Bundles \cup Products \cup {NoFile}]
        /\ backup'[Product] \in Products \cup {NoFile}
        /\ \A t \in Targets : backup'[t] \in Bundles \cup {NoFile}
        /\ backup'[f] = NoFile
        /\ \A g \in Files : g # f => backup'[g] = backup[g]
    BY <2>1, <2>2, BackupTyped DEF IInv
  <2>4. BackupsPristine'
    BY <1>2, <2>3 DEF RestoreRemove, harm, IInv, BackupsPristine
  <2>5. f \notin lost => IF f = Product THEN \A t \in Tracked : file[f].sums[t].payload = 0
                         ELSE file[f].payload = 0
    BY <1>2, <2>1, <2>2 DEF harm, RestoreRemove, IInv, Progress
  <2>6. BackedUp'
    BY <1>2, <2>3, <2>5 DEF harm, RestoreRemove, IInv, BackedUp
  <2>7. UNCHANGED <<release, build, file, before, outcome, harm>> /\ outcome \in Outcomes
    BY <1>2 DEF harm, RestoreRemove, IInv, TypeOK
  <2>8. file' \in [Files -> Bundles \cup Products] /\ file'[Product] \in Products
        /\ \A t \in Targets : file'[t] \in Bundles
    BY <2>7 DEF harm, IInv, TypeOK
  <2> QED BY <2>1, <2>2, <2>3, <2>4, <2>6, <2>7, <2>8, DoneKeeps
<1>3. CASE RestoreNothing
  <2>1. PICK f \in todo : Done(f) /\ file' = IF op = "uninstall" /\ f # Product
                                             THEN [file EXCEPT ![f].payload = 0] ELSE file
    BY <1>3 DEF RestoreNothing
  <2>2. f \in Files /\ op \in {"rollback", "uninstall"} /\ outcome' = outcome /\ outcome \in Outcomes
    BY <1>3, <2>1 DEF harm, RestoreNothing, IInv, TypeOK
  <2>3. UNCHANGED <<release, build, backup, before, harm>>
    BY <1>3 DEF RestoreNothing
  <2>4. /\ file' \in [Files -> Bundles \cup Products]
        /\ file'[Product] = file[Product] /\ file[Product] \in Products
        /\ \A t \in Targets : file'[t] \in Bundles
        /\ \A t \in Targets : file'[t] = file[t] \/ file'[t].payload = 0
    <3>1. CASE op = "uninstall" /\ f # Product
      <4> DEFINE c == [file[f] EXCEPT !.payload = 0]
      <4>1. f \in Targets /\ file[f] \in Bundles /\ 0 \in 0..MaxBuild
        BY <2>2, <3>1, InstallerAssumption DEF harm, IInv, TypeOK
      <4>2. c \in Bundles /\ c.payload = 0
        BY <4>1, PayloadTyped
      <4>3. file' = [file EXCEPT ![f] = c]
        BY <2>1, <3>1
      <4> HIDE DEF harm, c
      <4> QED BY <2>2, <3>1, <4>2, <4>3, FileTyped DEF IInv, TypeOK
    <3>2. CASE ~(op = "uninstall" /\ f # Product)
      BY <2>1, <3>2 DEF harm, IInv, TypeOK
    <3> QED BY <3>1, <3>2
  <2>5. BackupsPristine' /\ BackedUp'
    BY <2>3, <2>4 DEF harm, IInv, BackupsPristine, BackedUp
  <2>6. backup' \in [Files -> Bundles \cup Products \cup {NoFile}]
        /\ backup'[Product] \in Products \cup {NoFile}
        /\ \A t \in Targets : backup'[t] \in Bundles \cup {NoFile}
    BY <2>3 DEF harm, IInv, TypeOK
  <2> QED BY <2>1, <2>2, <2>3, <2>4, <2>5, <2>6, DoneKeeps
<1>4. CASE RestoreFails
  <2>1. PICK f \in todo :
          /\ \/ UNCHANGED file
             \/ file' = [file EXCEPT ![f] = TornVersion(f)]
          /\ \/ op = "rollback" /\ End("stuck")
             \/ op = "uninstall" /\ Done(f) /\ outcome' = "incomplete" /\ UNCHANGED <<release, build, before>>
    BY <1>4 DEF RestoreFails
  <2>2. f \in Files /\ UNCHANGED <<backup, harm>>
    BY <1>4, <2>1 DEF harm, RestoreFails, IInv, TypeOK
  <2>3. /\ file' \in [Files -> Bundles \cup Products]
        /\ file'[Product] \in Products /\ file'[Product].sums = file[Product].sums
        /\ \A t \in Targets : file'[t] \in Bundles
        /\ \A t \in Targets : file'[t] = file[t] \/ file'[t].payload = 0
    <3>1. CASE UNCHANGED file
      BY <3>1 DEF harm, IInv, TypeOK
    <3>2. CASE file' = [file EXCEPT ![f] = TornVersion(f)]
      <4> DEFINE c == TornVersion(f)
      <4>1. (f = Product => c \in Products /\ c.sums = file[Product].sums)
            /\ (f # Product => c \in Bundles /\ c.payload = 0)
        BY <2>2, TornTyped DEF IInv, TypeOK
      <4>2. file' = [file EXCEPT ![f] = c]
        BY <3>2
      <4> HIDE DEF harm, c
      <4> QED BY <2>2, <4>1, <4>2, FileTyped DEF IInv
    <3> QED BY <2>1, <3>1, <3>2
  <2>4. BackupsPristine' /\ BackedUp'
    BY <2>2, <2>3 DEF harm, IInv, BackupsPristine, BackedUp
  <2>5. backup' \in [Files -> Bundles \cup Products \cup {NoFile}]
        /\ backup'[Product] \in Products \cup {NoFile}
        /\ \A t \in Targets : backup'[t] \in Bundles \cup {NoFile}
    BY <2>2 DEF harm, IInv, TypeOK
  <2>6. CASE End("stuck")
    BY <2>2, <2>3, <2>4, <2>5, <2>6, EndKeeps DEF harm, IInv, TypeOK, Outcomes
  <2>7. CASE op = "uninstall" /\ Done(f) /\ outcome' = "incomplete" /\ UNCHANGED <<release, build, before>>
    BY <2>2, <2>3, <2>4, <2>5, <2>7, DoneKeeps DEF Outcomes
  <2> QED BY <2>1, <2>6, <2>7
<1> QED BY <1>1, <1>2, <1>3, <1>4

LEMMA ChecksumKeeps ==
  ASSUME IInv, ChecksumBackup \/ ChecksumWrite \/ ChecksumFails
  PROVE  IInv'
<1> USE FilesApart
<1>1. CASE ChecksumBackup
  <2>1. CASE End("installed") /\ UNCHANGED <<file, backup, harm>>
    BY <2>1, EndKeeps DEF harm, IInv, TypeOK, BackupsPristine, BackedUp, Outcomes
  <2>2. CASE CreateBackup(Product) /\ step' = "write"
             /\ UNCHANGED <<release, build, file, op, todo, touched, outcome, before, harm>>
    <3>1. /\ backup' \in [Files -> Bundles \cup Products \cup {NoFile}]
          /\ backup'[Product] \in Products \cup {NoFile}
          /\ \A t \in Targets : backup'[t] \in Bundles \cup {NoFile}
          /\ BackupsPristine' /\ BackedUp' /\ backup'[Product] # NoFile
      BY <2>2, CreateBackupKeeps
    <3>2. op = "checksums" /\ todo = {Product}
      BY <1>1 DEF harm, ChecksumBackup, IInv, Progress
    <3>3. TypeOK' /\ Progress'
      BY <2>2, <3>1, <3>2 DEF harm, IInv, TypeOK, Progress, First, Steps
    <3> QED BY <3>1, <3>3 DEF harm, IInv
  <2> QED BY <1>1, <2>1, <2>2 DEF harm, ChecksumBackup
<1>2. CASE ChecksumWrite
  <2>1. NewSums \in [Tracked -> Bundles]
    BY InstallerAssumption DEF NewSums, IInv, TypeOK, Products
  <2> DEFINE c == [file[Product] EXCEPT !.sums = NewSums]
  <2>2. c \in Products
    BY <2>1 DEF harm, IInv, TypeOK, Products
  <2>3. file' = [file EXCEPT ![Product] = c]
    BY <1>2 DEF ChecksumWrite
  <2> HIDE DEF c
  <2>4. /\ file' \in [Files -> Bundles \cup Products]
        /\ file'[Product] \in Products
        /\ \A t \in Targets : file'[t] \in Bundles
        /\ \A g \in Files : g # Product => file'[g] = file[g]
    BY <2>2, <2>3, FileTyped DEF IInv
  <2>5. backup[Product] # NoFile /\ UNCHANGED <<backup, harm>>
    <3>1. todo = {Product} /\ step = "write"
      BY <1>2 DEF harm, ChecksumWrite, IInv, Progress
    <3>2. First(Product, todo)
      BY <3>1, InstallerAssumption DEF harm, First, Product
    <3> QED BY <1>2, <3>1, <3>2 DEF harm, ChecksumWrite, IInv, Progress
  <2>6. BackupsPristine' /\ BackedUp'
    BY <2>4, <2>5 DEF harm, IInv, BackupsPristine, BackedUp
  <2>7. End("installed")
    BY <1>2 DEF harm, ChecksumWrite
  <2> QED BY <2>4, <2>5, <2>6, <2>7, EndKeeps DEF harm, IInv, TypeOK, Outcomes
<1>3. CASE ChecksumFails
  BY <1>3, EndKeeps DEF harm, ChecksumFails, IInv, TypeOK, BackupsPristine, BackedUp, Outcomes
<1> QED BY <1>1, <1>2, <1>3

LEMMA CrashKeeps ==
  ASSUME IInv, Crash
  PROVE  IInv'
<1> USE FilesApart
<1>1. PICK f \in todo :
        \/ UNCHANGED <<file, backup>>
        \/ backup[f] = NoFile /\ backup' = [backup EXCEPT ![f] = TornVersion(f)] /\ UNCHANGED file
        \/ file' = [file EXCEPT ![f] = TornVersion(f)] /\ UNCHANGED backup
  BY DEF Crash
<1>2. /\ End("crashed") /\ f \in Files /\ "crashed" \in Outcomes
      /\ lost' = lost /\ spoiled' \subseteq Files
  BY <1>1 DEF harm, Crash, IInv, TypeOK, Outcomes
<1> DEFINE c == TornVersion(f)
<1>3. (f = Product => c \in Products /\ c.sums = file[Product].sums)
      /\ (f # Product => c \in Bundles /\ c.payload = 0)
  BY <1>2, TornTyped DEF harm, IInv, TypeOK
<1>4. CASE UNCHANGED <<file, backup>>
  BY <1>2, <1>4, EndKeeps DEF harm, IInv, TypeOK, BackupsPristine, BackedUp
<1>5. CASE backup[f] = NoFile /\ backup' = [backup EXCEPT ![f] = c] /\ UNCHANGED file
  <2> HIDE DEF c
  <2>1. /\ backup' \in [Files -> Bundles \cup Products \cup {NoFile}]
        /\ backup'[Product] \in Products \cup {NoFile}
        /\ \A t \in Targets : backup'[t] \in Bundles \cup {NoFile}
        /\ backup'[f] = c
        /\ \A g \in Files : g # f => backup'[g] = backup[g]
    BY <1>2, <1>3, <1>5, BackupTyped DEF IInv
  <2>2. c # NoFile
    BY <1>3, NoFileAssumption
  <2>3. BackedUp'
    BY <1>2, <1>5, <2>1, <2>2 DEF harm, IInv, BackedUp
  <2>4. BackupsPristine'
    BY <1>2, <1>3, <1>5, <2>1 DEF harm, IInv, BackupsPristine, BackedUp
  <2> QED BY <1>2, <1>5, <2>1, <2>3, <2>4, EndKeeps DEF harm, IInv, TypeOK
<1>6. CASE file' = [file EXCEPT ![f] = c] /\ UNCHANGED backup
  <2> HIDE DEF c
  <2>1. /\ file' \in [Files -> Bundles \cup Products]
        /\ file'[Product] \in Products
        /\ \A t \in Targets : file'[t] \in Bundles
        /\ file'[f] = c
        /\ \A g \in Files : g # f => file'[g] = file[g]
    BY <1>2, <1>3, <1>6, FileTyped DEF IInv
  <2>2. BackupsPristine' /\ BackedUp'
    BY <1>2, <1>3, <1>6, <2>1 DEF harm, IInv, BackupsPristine, BackedUp
  <2> QED BY <1>2, <1>6, <2>1, <2>2, EndKeeps DEF harm, IInv, TypeOK
<1> QED BY <1>1, <1>4, <1>5, <1>6

\* Between commands.
LEMMA BetweenKeeps ==
  ASSUME IInv, Install \/ Uninstall \/ Upgrade \/ NewBuild \/ DeleteBackup
  PROVE  IInv'
<1> USE FilesApart
<1>1. CASE Install
  <2>1. PICK D \in SUBSET Targets, due \in SUBSET Targets :
          /\ todo' = due
          /\ IF due = {} THEN op' = "idle" /\ step' = "none" /\ outcome' = "satisfied"
             ELSE op' = "apply" /\ step' = "backup" /\ outcome' = "installed"
    BY <1>1 DEF Install, Discovered, Pending
  <2>2. UNCHANGED <<disk, harm>> /\ before' = file /\ touched' = {}
    BY <1>1 DEF Install
  <2>3. TypeOK' /\ Progress'
    BY <2>1, <2>2 DEF harm, disk, IInv, TypeOK, Progress, Ops, Steps, Outcomes
  <2> QED BY <2>2, <2>3 DEF harm, disk, IInv, BackupsPristine, BackedUp
<1>2. CASE Uninstall
  <2>1. \E D \in SUBSET Targets : todo' = D \cup {Product}
    BY <1>2 DEF Uninstall, Discovered
  <2>2. todo' \subseteq Files /\ todo' # {}
    BY <2>1
  <2>3. TypeOK' /\ Progress'
    BY <1>2, <2>2 DEF harm, Uninstall, disk, IInv, TypeOK, Progress, Ops, Steps, Outcomes
  <2> QED BY <1>2, <2>3 DEF harm, Uninstall, disk, IInv, BackupsPristine, BackedUp
<1>3. CASE Upgrade
  <2>1. release' \in Releases
    BY <1>3, InstallerAssumption DEF harm, Upgrade, IInv, TypeOK, Releases
  <2>2. /\ file' \in [Files -> Bundles \cup Products]
        /\ file'[Product] \in Products
        /\ \A t \in Tracked : file'[Product].sums[t].payload = 0
        /\ \A t \in Targets : file'[t] \in Bundles /\ file'[t].payload = 0
    BY <1>3, <2>1, PristineTyped DEF Upgrade
  <2>3. BackedUp'
    BY <2>2 DEF BackedUp
  <2>4. /\ (backup' = [f \in Files |-> NoFile] \/ UNCHANGED <<backup, lost>>)
        /\ lost' \subseteq Files /\ spoiled' \subseteq Files
    BY <1>3 DEF harm, Upgrade, IInv, TypeOK
  <2>5. /\ backup' \in [Files -> Bundles \cup Products \cup {NoFile}]
        /\ backup'[Product] \in Products \cup {NoFile}
        /\ \A t \in Targets : backup'[t] \in Bundles \cup {NoFile}
    BY <2>4 DEF harm, IInv, TypeOK
  <2>6. BackupsPristine'
    BY <2>4 DEF harm, IInv, BackupsPristine
  <2>7. TypeOK'
    BY <1>3, <2>1, <2>2, <2>4, <2>5 DEF harm, Upgrade, IInv, TypeOK, Outcomes
  <2>8. Progress'
    BY <1>3 DEF harm, Upgrade, IInv, Progress
  <2> QED BY <2>3, <2>6, <2>7, <2>8 DEF harm, IInv
<1>4. CASE NewBuild
  <2>1. TypeOK'
    BY <1>4, InstallerAssumption DEF harm, NewBuild, IInv, TypeOK, Outcomes
  <2> QED BY <1>4, <2>1 DEF harm, NewBuild, IInv, BackupsPristine, BackedUp, Progress
<1>5. CASE DeleteBackup
  <2>1. PICK f \in Files : backup' = [backup EXCEPT ![f] = NoFile] /\ lost' = lost \cup {f}
    BY <1>5 DEF DeleteBackup
  <2>2. /\ backup' \in [Files -> Bundles \cup Products \cup {NoFile}]
        /\ backup'[Product] \in Products \cup {NoFile}
        /\ \A t \in Targets : backup'[t] \in Bundles \cup {NoFile}
        /\ \A g \in Files : g # f => backup'[g] = backup[g]
    BY <2>1, BackupTyped DEF IInv
  <2>3. TypeOK'
    BY <1>5, <2>1, <2>2 DEF harm, DeleteBackup, IInv, TypeOK, Outcomes
  <2>4. BackupsPristine' /\ BackedUp'
    BY <1>5, <2>1, <2>2 DEF harm, DeleteBackup, IInv, BackupsPristine, BackedUp
  <2>5. Progress'
    BY <1>5 DEF harm, DeleteBackup, IInv, Progress
  <2> QED BY <2>3, <2>4, <2>5 DEF harm, IInv
<1> QED BY <1>1, <1>2, <1>3, <1>4, <1>5

-----------------------------------------------------------------------------
LEMMA InitIInv == ASSUME Init PROVE IInv
<1> USE FilesApart, InstallerAssumption
<1>1. 1 \in Releases /\ release = 1
  BY DEF Init, Releases
<1>2. /\ file \in [Files -> Bundles \cup Products]
      /\ file[Product] \in Products
      /\ \A t \in Tracked : file[Product].sums[t].payload = 0
      /\ \A t \in Targets : file[t] \in Bundles /\ file[t].payload = 0
  BY <1>1, PristineTyped DEF Init
<1>3. TypeOK
  BY <1>1, <1>2 DEF Init, TypeOK, Ops, Steps, Outcomes
<1>4. BackupsPristine /\ BackedUp /\ Progress
  BY <1>2 DEF Init, BackupsPristine, BackedUp, Progress
<1> QED BY <1>3, <1>4 DEF harm, IInv

LEMMA NextIInv == ASSUME IInv, [Next]_vars PROVE IInv'
<1>1. CASE UNCHANGED vars
  BY <1>1 DEF harm, vars, disk, IInv, TypeOK, BackupsPristine, BackedUp, Progress
<1> QED BY <1>1, ApplyKeeps, RestoreKeeps, ChecksumKeeps, CrashKeeps, BetweenKeeps DEF harm, Next

THEOREM Invariance == Spec => []IInv
<1>1. Init => IInv
  BY InitIInv
<1>2. IInv /\ [Next]_vars => IInv'
  BY NextIInv
<1> QED BY <1>1, <1>2, PTL DEF Spec

\* Types of the installer's state.
THEOREM TypeCorrect == Spec => []TypeOK
BY Invariance, PTL DEF IInv

\* No backup ever holds the toolkit's own work, whatever is killed, fails, is
\* upgraded or forced in between (createBackup), unless it was made after the
\* user deleted the one before.
THEOREM BackupsStayPristine == Spec => []BackupsPristine
BY Invariance, PTL DEF IInv

-----------------------------------------------------------------------------
(* What a command has achieved.                                            *)

\* The way back for file f: a backup of what was shipped, or what was shipped
\* and at most a payload.
Sound(f) ==
  f \notin spoiled =>
    IF f = Product
    THEN f \notin lost => (IF backup[f] = NoFile THEN file[f] ELSE backup[f]) = Shipped(release)
    ELSE /\ file[f].base \in {release, Torn}
         /\ Stripped(IF backup[f] = NoFile THEN file[f] ELSE backup[f]) = Bundle(release, 0)

AllSound == \A f \in Files : Sound(f)

\* A backup is only removed from beside its copy.
Copied == step = "remove" => \A f \in Files : First(f, todo) => file[f] = backup[f]

Current(t) == file[t].base # Torn => file[t].payload = build

\* The targets a run has dealt with are current.
Installing ==
  /\ op = "apply" => /\ \A t \in Targets \ todo : Current(t)
                     /\ step = "verify" => \A t \in Targets : First(t, todo) => Current(t)
  /\ op = "checksums" => \A t \in Targets : Current(t)
  /\ op \in {"rollback", "uninstall"} => outcome \notin {"installed", "satisfied"}

\* The targets a rollback answers for.
Answerable(t) == t \notin lost \cup spoiled

\* What a run has written can be put back.
Undoing ==
  op \in {"apply", "rollback"} =>
    /\ file[Product] = before[Product]
    /\ op = "rollback" => outcome = "rolledBack"
    /\ \A t \in Targets : Answerable(t) =>
         IF t \in (IF op = "apply" THEN touched ELSE todo)
         THEN backup[t] = Bundle(release, 0)
         ELSE /\ file[t] \in {before[t], Bundle(release, 0)}
              /\ op = "apply" => file[t] = before[t]

\* The files an uninstall has dealt with are as shipped, unless it failed.
Uninstalling ==
  op = "uninstall" =>
    /\ outcome \in {"uninstalled", "incomplete"}
    /\ outcome = "uninstalled" => \A f \in Files \ (lost \cup spoiled \cup todo) :
         f = Product \/ before[f].base # Torn => file[f] = Pristine(release, f)

Achieved ==
  AllSound /\ Copied /\ Installing /\ Undoing /\ Uninstalling /\ InstalledIsCurrent /\ UndoRestores

LEMMA SoundStays ==
  ASSUME NEW f, Sound(f), release' = release, file'[f] = file[f], backup'[f] = backup[f],
         f \in spoiled => f \in spoiled', f \in lost => f \in lost'
  PROVE  Sound(f)'
BY DEF Sound, Stripped, Bundle, Shipped

\* A sound backup is what the release ships.
LEMMA SoundBackup ==
  ASSUME IInv, NEW f \in Files, Sound(f), f \notin lost \cup spoiled, backup[f] # NoFile
  PROVE  backup[f] = Pristine(release, f)
<1>1. CASE f = Product
  BY <1>1 DEF Sound, Pristine
<1>2. CASE f # Product
  <2>1. backup[f] \in Bundles /\ backup[f].payload = 0 /\ Stripped(backup[f]) = Bundle(release, 0)
    BY <1>2, FilesApart DEF Sound, IInv, TypeOK, BackupsPristine
  <2>2. Stripped(backup[f]) = backup[f]
    BY <2>1 DEF Stripped, Bundles
  <2> QED BY <1>2, <2>1, <2>2 DEF Pristine
<1> QED BY <1>1, <1>2

\* A command that ends, however it does.
LEMMA Ended ==
  ASSUME IInv, NEW how, End(how)
  PROVE  /\ Copied' /\ Installing' /\ Undoing' /\ Uninstalling'
         /\ how \notin {"installed", "satisfied"} => InstalledIsCurrent'
         /\ how \notin {"rolledBack", "uninstalled"} => UndoRestores'
<1>1. op' = "idle" /\ step' = "none" /\ outcome' = how
  BY DEF End
<1> QED BY <1>1 DEF Copied, Installing, Undoing, Uninstalling, InstalledIsCurrent, UndoRestores,
        RollbackUndoes, UninstallRestores

\* A command that goes on promises nothing of its end.
LEMMA NotYetIdle ==
  ASSUME op' # "idle"
  PROVE  InstalledIsCurrent' /\ UndoRestores'
BY DEF InstalledIsCurrent, UndoRestores, RollbackUndoes, UninstallRestores

LEMMA BeforeTyped ==
  ASSUME IInv, NEW f \in Files
  PROVE  before[f] # NoFile /\ file[f] # NoFile
<1>1. before[f] \in Bundles \cup Products /\ file[f] \in Bundles \cup Products
  BY DEF IInv, TypeOK
<1> QED BY <1>1, NoFileAssumption

LEMMA ShippedIsFile ==
  ASSUME IInv
  PROVE  Bundle(release, 0) # NoFile
<1>1. Bundle(release, 0) \in Bundles
  BY InstallerAssumption DEF IInv, TypeOK, Bundle, Bundles
<1> QED BY <1>1, NoFileAssumption

LEMMA OneFirst ==
  ASSUME IInv, NEW f \in Files, First(f, todo)
  PROVE  \A g \in Files : First(g, todo) => g = f
BY InstallerAssumption DEF First, IInv, TypeOK, Files, Targets, Product

\* What createBackup does to every file.
LEMMA BackedUpNow ==
  ASSUME IInv, NEW f \in Files, CreateBackup(f)
  PROVE  \A g \in Files : IF g = f /\ backup[f] = NoFile THEN backup'[g] = file[f]
                          ELSE backup'[g] = backup[g]
<1>1. backup \in [Files -> Bundles \cup Products \cup {NoFile}]
  BY DEF IInv, TypeOK
<1> QED BY <1>1 DEF CreateBackup

\* A backup, made now or before, is of what the file was.
LEMMA BackupSound ==
  ASSUME IInv, AllSound, NEW f \in Files, CreateBackup(f), UNCHANGED <<release, file, harm>>
  PROVE  AllSound'
<1> SUFFICES ASSUME NEW g \in Files
             PROVE  Sound(g)'
  BY DEF AllSound
<1>1. Sound(g)
  BY DEF AllSound
<1>2. IF g = f /\ backup[f] = NoFile THEN backup'[g] = file[f] ELSE backup'[g] = backup[g]
  BY BackedUpNow
<1>3. CASE g = f /\ backup[f] = NoFile
  <2>1. backup'[g] = file[g] /\ file[g] # NoFile
    BY <1>2, <1>3, BeforeTyped
  <2> QED BY <1>1, <1>3, <2>1 DEF Sound, harm, Stripped, Bundle, Shipped
<1>4. CASE ~(g = f /\ backup[f] = NoFile)
  BY <1>1, <1>2, <1>4, SoundStays DEF harm
<1> QED BY <1>3, <1>4

LEMMA ApplyAchieves ==
  ASSUME IInv, IInv', Achieved, ApplyBackup \/ ApplyWrite \/ ApplyVerify \/ ApplyFails
  PROVE  Achieved'
<1>1. op = "apply" /\ todo \subseteq Targets /\ AllSound /\ Installing /\ Undoing /\ Copied
  BY DEF Achieved, ApplyBackup, ApplyWrite, ApplyVerify, ApplyFails, IInv, Progress
<1>2. CASE ApplyBackup
  <2>1. PICK t \in todo : First(t, todo) /\ CreateBackup(t)
    BY <1>2 DEF ApplyBackup
  <2>2. t \in Files /\ UNCHANGED <<release, build, file, op, todo, touched, outcome, before, harm>>
        /\ step' = "write"
    BY <1>1, <1>2, <2>1, FilesApart DEF ApplyBackup
  <2>3. AllSound'
    BY <1>1, <2>1, <2>2, BackupSound
  <2>4. Copied' /\ Installing' /\ Uninstalling'
    BY <1>1, <2>2 DEF Copied, Installing, Uninstalling, Current
  <2>5. \A g \in Targets : backup[g] = Bundle(release, 0) => backup'[g] = Bundle(release, 0)
    BY <2>1, <2>2, BackedUpNow, ShippedIsFile, FilesApart
  <2>6. Bundle(release, 0)' = Bundle(release, 0)
    BY <2>2 DEF Bundle
  <2>7. Undoing'
    BY <1>1, <2>2, <2>5, <2>6 DEF Undoing, Answerable, harm
  <2> QED BY <1>1, <2>2, <2>3, <2>4, <2>7, NotYetIdle DEF Achieved
<1>3. CASE ApplyWrite
  <2>1. PICK t \in todo : First(t, todo) /\ file' = [file EXCEPT ![t].payload = build]
                          /\ touched' = touched \cup {t}
    BY <1>3 DEF ApplyWrite
  <2>2. UNCHANGED <<release, build, backup, op, todo, outcome, before, harm>> /\ step' = "verify"
        /\ step = "write"
    BY <1>3 DEF ApplyWrite
  <2>3. t \in Targets /\ t \in Files /\ t # Product /\ file[t] \in Bundles
    BY <1>1, <2>1, FilesApart DEF IInv, TypeOK
  <2>4. backup[t] # NoFile
    BY <2>1, <2>2, <2>3 DEF IInv, Progress
  <2>5. /\ file'[t] = [file[t] EXCEPT !.payload = build]
        /\ \A g \in Files : g # t => file'[g] = file[g]
    BY <2>1, <2>3 DEF IInv, TypeOK
  <2>6. file'[t].payload = build /\ file'[t].base = file[t].base
    BY <2>3, <2>5 DEF Bundles
  <2>7. AllSound'
    <3> SUFFICES ASSUME NEW g \in Files
                 PROVE  Sound(g)'
      BY DEF AllSound
    <3>1. Sound(g)
      BY <1>1 DEF AllSound
    <3>2. CASE g = t
      BY <2>2, <2>3, <2>4, <2>6, <3>1, <3>2 DEF Sound, harm, Stripped, Bundle
    <3>3. CASE g # t
      BY <2>2, <2>5, <3>1, <3>3, SoundStays DEF harm
    <3> QED BY <3>2, <3>3
  <2>8. Installing'
    <3>1. \A g \in Targets \ todo : Current(g)'
      BY <1>1, <2>1, <2>2, <2>5, FilesApart DEF Installing, Current
    <3>2. \A g \in Targets : First(g, todo) => Current(g)'
      BY <2>1, <2>2, <2>3, <2>6, OneFirst, FilesApart DEF Current
    <3> QED BY <1>1, <2>2, <3>1, <3>2 DEF Installing
  <2>9. Undoing'
    <3>1. file'[Product] = before[Product]
      BY <1>1, <2>3, <2>5, FilesApart DEF Undoing
    <3>2. ASSUME NEW g \in Targets, Answerable(g)
          PROVE  IF g \in touched' THEN backup[g] = Bundle(release, 0) ELSE file'[g] = before[g]
      <4>1. IF g \in touched THEN backup[g] = Bundle(release, 0) ELSE file[g] = before[g]
        BY <1>1, <3>2 DEF Undoing
      <4>2. CASE g # t
        BY <2>1, <2>5, <4>1, <4>2, FilesApart
      <4>3. CASE g = t
        <5>1. backup[g] = Bundle(release, 0)
          BY <1>1, <2>3, <2>4, <3>2, <4>3, SoundBackup DEF AllSound, Answerable, Pristine
        <5> QED BY <2>1, <4>3, <5>1
      <4> QED BY <4>2, <4>3
    <3>3. Bundle(release, 0)' = Bundle(release, 0)
      BY <2>2 DEF Bundle
    <3> QED BY <1>1, <2>2, <3>1, <3>2, <3>3 DEF Undoing, Answerable, harm
  <2>10. Copied' /\ Uninstalling'
    BY <1>1, <2>2 DEF Copied, Uninstalling
  <2> QED BY <1>1, <2>2, <2>7, <2>8, <2>9, <2>10, NotYetIdle DEF Achieved
<1>4. CASE ApplyVerify
  <2>1. PICK t \in todo : /\ First(t, todo)
                          /\ IF todo = {t} THEN op' = "checksums" /\ step' = "backup" /\ todo' = {Product}
                             ELSE op' = "apply" /\ step' = "backup" /\ todo' = todo \ {t}
    BY <1>4 DEF ApplyVerify
  <2>2. UNCHANGED <<release, build, file, backup, touched, outcome, before, lost, spoiled>> /\ step = "verify"
    BY <1>4 DEF ApplyVerify, disk, harm
  <2>3. AllSound'
    BY <1>1, <2>2, SoundStays DEF AllSound
  <2>4. Installing'
    <3>1. \A g \in Targets : g \notin todo \/ g = t => Current(g)'
      BY <1>1, <2>1, <2>2 DEF Installing, Current
    <3> QED BY <2>1, <3>1 DEF Installing
  <2>5. Undoing' /\ Copied' /\ Uninstalling'
    BY <1>1, <2>1, <2>2 DEF Undoing, Answerable, Copied, Uninstalling, Bundle
  <2> QED BY <2>1, <2>3, <2>4, <2>5, NotYetIdle DEF Achieved
<1>5. CASE ApplyFails
  <2>1. UNCHANGED <<release, file, backup, before, lost, spoiled>>
    BY <1>5 DEF ApplyFails, End, disk, harm
  <2>2. AllSound'
    BY <1>1, <2>1, SoundStays DEF AllSound
  <2>3. CASE touched = {}
    <3>1. End("rolledBack")
      BY <1>5, <2>3 DEF ApplyFails
    <3>2. UndoRestores'
      BY <1>1, <2>1, <2>3, <3>1 DEF End, Undoing, Answerable, Bundle, UndoRestores, RollbackUndoes, UninstallRestores
    <3> QED BY <2>2, <3>1, <3>2, Ended DEF Achieved
  <2>4. CASE touched # {}
    <3>1. op' = "rollback" /\ step' = "copy" /\ outcome' = "rolledBack" /\ todo' = touched
      BY <1>5, <2>4 DEF ApplyFails
    <3>2. Undoing' /\ Copied' /\ Uninstalling' /\ Installing'
      BY <1>1, <2>1, <3>1 DEF Undoing, Answerable, Copied, Uninstalling, Installing, Bundle
    <3> QED BY <2>2, <3>1, <3>2, NotYetIdle DEF Achieved
  <2> QED BY <2>3, <2>4
<1> QED BY <1>2, <1>3, <1>4, <1>5

\* A rollback or an uninstall is done with file f, and goes on or ends.
LEMMA GoesOn ==
  ASSUME IInv, IInv', Achieved, NEW f \in todo, Done(f), op \in {"rollback", "uninstall"},
         UNCHANGED <<release, build, before, lost, spoiled>>,
         outcome' = outcome \/ (op = "uninstall" /\ outcome' = "incomplete"),
         \A g \in Files : g # f => file'[g] = file[g] /\ backup'[g] = backup[g],
         op = "rollback" /\ Answerable(f) => file'[f] \in {before[f], Bundle(release, 0)},
         op = "uninstall" /\ outcome' = "uninstalled" /\ f \notin lost \cup spoiled
           /\ (f = Product \/ before[f].base # Torn) => file'[f] = Pristine(release, f)
  PROVE  Copied' /\ Installing' /\ Undoing' /\ Uninstalling' /\ InstalledIsCurrent' /\ UndoRestores'
<1>1. f \in Files /\ Undoing /\ Uninstalling /\ Installing
  BY DEF IInv, TypeOK, Achieved
<1>2. step' \in {"copy", "none"} /\ outcome' \notin {"installed", "satisfied"}
  BY <1>1 DEF Done, Installing
<1>3. Copied' /\ InstalledIsCurrent'
  BY <1>2 DEF Copied, InstalledIsCurrent
<1>4. CASE op = "rollback"
  <2>1. f # Product /\ outcome' = "rolledBack" /\ todo \subseteq Targets
    BY <1>1, <1>4, FilesApart DEF IInv, Progress, Undoing
  <2>2. file'[Product] = before[Product]
    BY <1>1, <1>4, <2>1, FilesApart DEF Undoing
  <2>3. \A t \in Targets : Answerable(t) =>
          IF t \in todo \ {f} THEN backup'[t] = Bundle(release, 0)
                             ELSE file'[t] \in {before[t], Bundle(release, 0)}
    BY <1>1, <1>4, FilesApart DEF Undoing
  <2>4. CASE todo = {f}
    <3>1. op' = "idle" /\ \A t \in Targets : Answerable(t) => file'[t] \in {before[t], Bundle(release, 0)}
      BY <2>3, <2>4 DEF Done
    <3>2. UndoRestores'
      BY <2>1, <2>2, <3>1 DEF UndoRestores, RollbackUndoes, UninstallRestores, Answerable, Bundle
    <3> QED BY <1>3, <3>1, <3>2 DEF Installing, Undoing, Uninstalling
  <2>5. CASE todo # {f}
    <3>1. op' = "rollback" /\ todo' = todo \ {f}
      BY <1>4, <2>5 DEF Done
    <3>2. Undoing'
      BY <2>1, <2>2, <2>3, <3>1 DEF Undoing, Answerable, Bundle
    <3> QED BY <1>2, <1>3, <3>1, <3>2, NotYetIdle DEF Installing, Uninstalling
  <2> QED BY <2>4, <2>5
<1>5. CASE op = "uninstall"
  <2>1. outcome' \in {"uninstalled", "incomplete"}
    BY <1>1, <1>5 DEF Uninstalling
  <2>2. outcome' = "uninstalled" => \A g \in Files \ (lost \cup spoiled \cup (todo \ {f})) :
          g = Product \/ before[g].base # Torn => file'[g] = Pristine(release, g)
    <3> SUFFICES ASSUME outcome' = "uninstalled", NEW g \in Files \ (lost \cup spoiled \cup (todo \ {f})),
                        g = Product \/ before[g].base # Torn
                 PROVE  file'[g] = Pristine(release, g)
      OBVIOUS
    <3>1. CASE g = f
      BY <1>5, <3>1
    <3>2. CASE g # f
      BY <1>1, <1>5, <3>2 DEF Uninstalling
    <3> QED BY <3>1, <3>2
  <2>3. CASE todo = {f}
    <3>1. op' = "idle"
      BY <2>3 DEF Done
    <3>2. UndoRestores'
      BY <2>1, <2>2, <2>3, <3>1 DEF UndoRestores, RollbackUndoes, UninstallRestores, Pristine, Shipped, Bundle
    <3> QED BY <1>3, <3>1, <3>2 DEF Installing, Undoing, Uninstalling
  <2>4. CASE todo # {f}
    <3>1. op' = "uninstall" /\ todo' = todo \ {f}
      BY <1>5, <2>4 DEF Done
    <3>2. Uninstalling'
      BY <2>1, <2>2, <3>1 DEF Uninstalling, Pristine, Shipped, Bundle
    <3> QED BY <1>2, <1>3, <3>1, <3>2, NotYetIdle DEF Installing, Undoing
  <2> QED BY <2>3, <2>4
<1> QED BY <1>4, <1>5

LEMMA RestoreAchieves ==
  ASSUME IInv, IInv', Achieved, RestoreCopy \/ RestoreRemove \/ RestoreNothing \/ RestoreFails
  PROVE  Achieved'
<1>1. op \in {"rollback", "uninstall"} /\ AllSound /\ Installing /\ Undoing /\ Uninstalling /\ Copied
  <2>1. RestoreRemove => op \in {"rollback", "uninstall"}
    BY DEF RestoreRemove, IInv, TypeOK, Progress, Ops
  <2> QED BY <2>1 DEF Achieved, RestoreCopy, RestoreNothing, RestoreFails
<1>2. CASE RestoreCopy
  <2>1. PICK f \in todo : First(f, todo) /\ backup[f] # NoFile /\ file' = [file EXCEPT ![f] = backup[f]]
    BY <1>2 DEF RestoreCopy
  <2>2. UNCHANGED <<release, build, backup, op, todo, touched, outcome, before, harm>> /\ step' = "remove"
    BY <1>2 DEF RestoreCopy
  <2>3. /\ f \in Files /\ file'[f] = backup[f]
        /\ \A g \in Files : g # f => file'[g] = file[g]
    BY <2>1 DEF IInv, TypeOK
  <2>4. AllSound'
    <3> SUFFICES ASSUME NEW g \in Files
                 PROVE  Sound(g)'
      BY DEF AllSound
    <3>1. Sound(g)
      BY <1>1 DEF AllSound
    <3>2. CASE g = f
      <4>1. g # Product /\ g \notin spoiled => backup[g].base = release
        BY <2>1, <3>1, <3>2, FilesApart DEF Sound, Stripped, Bundle, IInv, TypeOK, Bundles
      <4> QED BY <2>1, <2>2, <2>3, <3>1, <3>2, <4>1 DEF Sound, harm, Stripped, Bundle, Shipped
    <3>3. CASE g # f
      BY <2>2, <2>3, <3>1, <3>3, SoundStays DEF harm
    <3> QED BY <3>2, <3>3
  <2>5. Copied'
    BY <2>1, <2>2, <2>3, OneFirst DEF Copied
  <2>6. Undoing'
    <3>1. op = "rollback" => f # Product
      BY <2>1, FilesApart DEF IInv, Progress
    <3> QED BY <1>1, <2>1, <2>2, <2>3, <3>1, FilesApart DEF Undoing, Answerable, harm, Bundle
  <2>7. Uninstalling'
    BY <1>1, <2>1, <2>2, <2>3 DEF Uninstalling, harm, Pristine, Shipped, Bundle
  <2>8. Installing'
    BY <1>1, <2>2 DEF Installing
  <2> QED BY <1>1, <2>2, <2>4, <2>5, <2>6, <2>7, <2>8, NotYetIdle DEF Achieved
<1>3. CASE RestoreRemove
  <2>1. PICK f \in todo : First(f, todo) /\ Done(f) /\ backup' = [backup EXCEPT ![f] = NoFile]
    BY <1>3 DEF RestoreRemove
  <2>2. UNCHANGED <<release, build, file, outcome, before, lost, spoiled>> /\ step = "remove"
    BY <1>3 DEF RestoreRemove, IInv, Progress, harm
  <2>3. /\ f \in Files /\ backup'[f] = NoFile
        /\ \A g \in Files : g # f => backup'[g] = backup[g]
    BY <2>1 DEF IInv, TypeOK
  <2>4. file[f] = backup[f] /\ backup[f] # NoFile
    BY <1>1, <2>1, <2>2, <2>3, BeforeTyped DEF Copied
  <2>5. AllSound'
    <3> SUFFICES ASSUME NEW g \in Files
                 PROVE  Sound(g)'
      BY DEF AllSound
    <3>1. Sound(g)
      BY <1>1 DEF AllSound
    <3>2. CASE g = f
      BY <2>2, <2>3, <2>4, <3>1, <3>2 DEF Sound, Stripped, Bundle, Shipped
    <3>3. CASE g # f
      BY <2>2, <2>3, <3>1, <3>3, SoundStays
    <3> QED BY <3>2, <3>3
  <2>6. op = "rollback" /\ Answerable(f) => file'[f] \in {before[f], Bundle(release, 0)}
    <3>1. op = "rollback" => f \in Targets
      BY <2>1 DEF IInv, Progress
    <3> QED BY <1>1, <2>1, <2>2, <2>4, <3>1 DEF Undoing
  <2>7. f \notin lost \cup spoiled => file'[f] = Pristine(release, f)
    BY <1>1, <2>2, <2>3, <2>4, SoundBackup DEF AllSound
  <2> QED BY <1>1, <2>1, <2>2, <2>3, <2>5, <2>6, <2>7, GoesOn DEF Achieved
<1>4. CASE RestoreNothing
  <2>1. PICK f \in todo : /\ First(f, todo) /\ backup[f] = NoFile /\ Done(f)
                          /\ file' = IF op = "uninstall" /\ f # Product
                                     THEN [file EXCEPT ![f].payload = 0] ELSE file
    BY <1>4 DEF RestoreNothing
  <2>2. UNCHANGED <<release, build, backup, outcome, before, lost, spoiled>>
    BY <1>4 DEF RestoreNothing, harm
  <2>3. f \in Files /\ Sound(f)
    BY <1>1, <2>1 DEF IInv, TypeOK, AllSound
  <2>4. /\ \A g \in Files : g # f => file'[g] = file[g]
        /\ file'[f] = IF op = "uninstall" /\ f # Product THEN Stripped(file[f]) ELSE file[f]
    BY <2>1, <2>3 DEF IInv, TypeOK, Stripped
  <2>5. f # Product => Stripped(file'[f]) = Stripped(file[f]) /\ file'[f].base = file[f].base
    <3>1. f # Product => file[f] \in Bundles
      BY <2>3, FilesApart DEF IInv, TypeOK
    <3> QED BY <2>4, <3>1 DEF Stripped, Bundles
  <2>6. AllSound'
    <3> SUFFICES ASSUME NEW g \in Files
                 PROVE  Sound(g)'
      BY DEF AllSound
    <3>1. Sound(g)
      BY <1>1 DEF AllSound
    <3>2. CASE g = f /\ f = Product
      BY <2>2, <2>4, <3>1, <3>2, SoundStays
    <3>3. CASE g = f /\ f # Product
      <4>1. Stripped(file[f])' = Stripped(file'[f]) /\ Stripped(backup[f])' = Stripped(backup[f])
        BY <2>2 DEF Stripped
      <4>2. Bundle(release, 0)' = Bundle(release, 0)
        BY <2>2 DEF Bundle
      <4> QED BY <2>1, <2>2, <2>5, <3>1, <3>3, <4>1, <4>2 DEF Sound
    <3>4. CASE g # f
      BY <2>2, <2>4, <3>1, <3>4, SoundStays
    <3> QED BY <3>2, <3>3, <3>4
  <2>7. op = "rollback" => ~Answerable(f)
    <3>1. op = "rollback" => f \in Targets
      BY <2>1 DEF IInv, Progress
    <3>2. Bundle(release, 0) # NoFile
      BY ShippedIsFile
    <3> QED BY <1>1, <2>1, <3>1, <3>2 DEF Undoing
  <2>8. op = "uninstall" /\ f \notin lost \cup spoiled => file'[f] = Pristine(release, f)
    BY <2>1, <2>3, <2>4 DEF Sound, Pristine
  <2> QED BY <1>1, <2>1, <2>2, <2>4, <2>6, <2>7, <2>8, GoesOn DEF Achieved
<1>5. CASE RestoreFails
  <2>1. PICK f \in todo :
          /\ First(f, todo)
          /\ \/ UNCHANGED file
             \/ backup[f] # NoFile /\ file' = [file EXCEPT ![f] = TornVersion(f)]
          /\ \/ op = "rollback" /\ End("stuck")
             \/ op = "uninstall" /\ Done(f) /\ outcome' = "incomplete" /\ UNCHANGED <<release, build, before>>
    BY <1>5 DEF RestoreFails
  <2>2. UNCHANGED <<release, build, before, backup, lost, spoiled>>
    BY <1>5, <2>1 DEF RestoreFails, End, harm
  <2>3. f \in Files
    BY <2>1 DEF IInv, TypeOK
  <2>4. /\ \A g \in Files : g # f => file'[g] = file[g]
        /\ file'[f] = file[f] \/ (backup[f] # NoFile /\ file'[f] = TornVersion(f))
    BY <2>1, <2>3 DEF IInv, TypeOK
  <2>5. AllSound'
    <3> SUFFICES ASSUME NEW g \in Files
                 PROVE  Sound(g)'
      BY DEF AllSound
    <3>1. Sound(g)
      BY <1>1 DEF AllSound
    <3>2. CASE file'[g] = file[g]
      BY <2>2, <3>1, <3>2, SoundStays
    <3>3. CASE g = f /\ backup[f] # NoFile /\ file'[f] = TornVersion(f)
      <4>1. f # Product => file'[f].base = Torn
        BY <3>3 DEF TornVersion, Bundle
      <4> QED BY <2>2, <3>1, <3>3, <4>1 DEF Sound, Stripped, Bundle, Shipped
    <3> QED BY <2>4, <3>2, <3>3
  <2>6. CASE End("stuck")
    BY <2>5, <2>6, Ended DEF Achieved
  <2>7. CASE op = "uninstall" /\ Done(f) /\ outcome' = "incomplete"
    BY <2>2, <2>4, <2>5, <2>7, GoesOn DEF Achieved
  <2> QED BY <2>1, <2>6, <2>7
<1> QED BY <1>2, <1>3, <1>4, <1>5
LEMMA ChecksumAchieves ==
  ASSUME IInv, IInv', Achieved, ChecksumBackup \/ ChecksumWrite \/ ChecksumFails
  PROVE  Achieved'
<1>1. op = "checksums" /\ todo = {Product} /\ AllSound /\ Installing
  BY DEF Achieved, ChecksumBackup, ChecksumWrite, ChecksumFails, IInv, Progress
<1>2. \A t \in Targets : Current(t)
  BY <1>1 DEF Installing
<1>3. CASE End("installed") /\ UNCHANGED <<file, backup, harm>>
  <2>1. AllSound'
    BY <1>1, <1>3, SoundStays DEF AllSound, End, harm
  <2>2. InstalledIsCurrent'
    BY <1>2, <1>3 DEF InstalledIsCurrent, Current, End
  <2> QED BY <1>3, <2>1, <2>2, Ended DEF Achieved
<1>4. CASE ChecksumBackup /\ CreateBackup(Product) /\ step' = "write"
           /\ UNCHANGED <<release, build, file, op, todo, touched, outcome, before, harm>>
  <2>1. AllSound'
    BY <1>1, <1>4, BackupSound, FilesApart
  <2>2. Copied' /\ Installing' /\ Undoing' /\ Uninstalling'
    BY <1>1, <1>2, <1>4 DEF Copied, Installing, Undoing, Uninstalling, Current
  <2> QED BY <1>1, <1>4, <2>1, <2>2, NotYetIdle DEF Achieved
<1>5. CASE ChecksumWrite
  <2>1. /\ file' = [file EXCEPT ![Product].sums = NewSums] /\ End("installed") /\ UNCHANGED <<backup, harm>>
        /\ step = "write"
    BY <1>5 DEF ChecksumWrite
  <2>2. backup[Product] # NoFile
    <3>1. First(Product, todo)
      BY <1>1, InstallerAssumption DEF First, Product
    <3> QED BY <2>1, <3>1, FilesApart DEF IInv, Progress
  <2>3. \A g \in Files : g # Product => file'[g] = file[g]
    BY <2>1, FilesApart DEF IInv, TypeOK
  <2>4. AllSound'
    <3> SUFFICES ASSUME NEW g \in Files
                 PROVE  Sound(g)'
      BY DEF AllSound
    <3>1. Sound(g)
      BY <1>1 DEF AllSound
    <3>2. CASE g = Product
      BY <2>1, <2>2, <3>1, <3>2 DEF Sound, Shipped, Bundle, End, harm
    <3>3. CASE g # Product
      BY <2>1, <2>3, <3>1, <3>3, SoundStays DEF End, harm
    <3> QED BY <3>2, <3>3
  <2>5. InstalledIsCurrent'
    BY <1>2, <2>1, <2>3, FilesApart DEF InstalledIsCurrent, Current, End
  <2> QED BY <2>1, <2>4, <2>5, Ended DEF Achieved
<1>6. CASE ChecksumFails
  <2>1. End("threw") /\ UNCHANGED <<file, backup, harm>>
    BY <1>6 DEF ChecksumFails
  <2>2. AllSound'
    BY <1>1, <2>1, SoundStays DEF AllSound, End, harm
  <2> QED BY <2>1, <2>2, Ended DEF Achieved
<1> QED BY <1>3, <1>4, <1>5, <1>6 DEF ChecksumBackup

LEMMA CrashAchieves ==
  ASSUME IInv, IInv', Achieved, Crash
  PROVE  Achieved'
<1>1. PICK f \in todo :
        \/ UNCHANGED <<file, backup, spoiled>>
        \/ backup' = [backup EXCEPT ![f] = TornVersion(f)] /\ spoiled' = spoiled \cup {f} /\ UNCHANGED file
        \/ backup[f] # NoFile /\ file' = [file EXCEPT ![f] = TornVersion(f)] /\ UNCHANGED <<backup, spoiled>>
  BY DEF Crash
<1>2. End("crashed") /\ f \in Files /\ UNCHANGED <<release, lost>>
  BY <1>1 DEF Crash, End, IInv, TypeOK
<1>3. AllSound'
  <2> SUFFICES ASSUME NEW g \in Files
               PROVE  Sound(g)'
    BY DEF AllSound
  <2>1. Sound(g)
    BY DEF Achieved, AllSound
  <2>2. CASE UNCHANGED <<file, backup, spoiled>>
    BY <1>2, <2>1, <2>2, SoundStays
  <2>3. CASE backup' = [backup EXCEPT ![f] = TornVersion(f)] /\ spoiled' = spoiled \cup {f} /\ UNCHANGED file
    <3>1. CASE g = f
      BY <2>3, <3>1 DEF Sound
    <3>2. CASE g # f
      <4>1. backup'[g] = backup[g]
        BY <2>3, <3>2 DEF IInv, TypeOK
      <4> QED BY <1>2, <2>1, <2>3, <4>1, SoundStays
    <3> QED BY <3>1, <3>2
  <2>4. CASE backup[f] # NoFile /\ file' = [file EXCEPT ![f] = TornVersion(f)] /\ UNCHANGED <<backup, spoiled>>
    <3>1. CASE g = f
      <4>1. file'[f] = TornVersion(f)
        BY <1>2, <2>4 DEF IInv, TypeOK
      <4>2. f # Product => file'[f].base = Torn
        BY <4>1 DEF TornVersion, Bundle
      <4> QED BY <1>2, <2>1, <2>4, <3>1, <4>2 DEF Sound, Stripped, Bundle, Shipped
    <3>2. CASE g # f
      <4>1. file'[g] = file[g]
        BY <2>4, <3>2 DEF IInv, TypeOK
      <4> QED BY <1>2, <2>1, <2>4, <4>1, SoundStays
    <3> QED BY <3>1, <3>2
  <2> QED BY <1>1, <2>2, <2>3, <2>4
<1> QED BY <1>2, <1>3, Ended DEF Achieved

\* A pristine file has its way back.
LEMMA PristineSound ==
  ASSUME NEW f \in Files, file[f] = Pristine(release, f), backup[f] = NoFile
  PROVE  Sound(f)
<1>1. Stripped(Bundle(release, 0)) = Bundle(release, 0) /\ Bundle(release, 0).base = release
  BY DEF Stripped, Bundle
<1> QED BY <1>1 DEF Sound, Pristine

LEMMA BetweenAchieves ==
  ASSUME IInv, IInv', Achieved, Install \/ Uninstall \/ Upgrade \/ NewBuild \/ DeleteBackup
  PROVE  Achieved'
<1>1. op = "idle" /\ step = "none" /\ AllSound
  BY DEF Install, Uninstall, Upgrade, NewBuild, DeleteBackup, IInv, Progress, Achieved
<1>2. CASE Install
  <2>1. PICK D \in Discovered, force \in BOOLEAN :
          LET due == IF force THEN D ELSE Pending(D) IN
            /\ D # {} /\ todo' = due
            /\ IF due = {} THEN op' = "idle" /\ step' = "none" /\ outcome' = "satisfied"
               ELSE op' = "apply" /\ step' = "backup" /\ outcome' = "installed"
    BY <1>2 DEF Install
  <2>2. UNCHANGED <<release, build, file, backup, lost, spoiled>> /\ before' = file /\ touched' = {}
    BY <1>2 DEF Install, disk, harm
  <2>3. AllSound'
    BY <1>1, <2>2, SoundStays DEF AllSound
  <2>4. \A t \in Targets \ todo' : Current(t)'
    BY <2>1, <2>2 DEF Discovered, Pending, Current
  <2>5. CASE todo' = {}
    <3>1. op' = "idle" /\ step' = "none" /\ outcome' = "satisfied"
      BY <2>1, <2>5
    <3>2. InstalledIsCurrent'
      BY <2>4, <2>5 DEF InstalledIsCurrent, Current
    <3> QED BY <2>3, <3>1, <3>2 DEF Achieved, Copied, Installing, Undoing, Uninstalling, UndoRestores,
                RollbackUndoes, UninstallRestores
  <2>6. CASE todo' # {}
    <3>1. op' = "apply" /\ step' = "backup" /\ outcome' = "installed"
      BY <2>1, <2>6
    <3>2. Undoing'
      BY <2>2, <3>1 DEF Undoing, Answerable
    <3> QED BY <2>3, <2>4, <3>1, <3>2, NotYetIdle DEF Achieved, Copied, Installing, Uninstalling
  <2> QED BY <2>5, <2>6
<1>3. CASE Uninstall
  <2>1. PICK D \in Discovered : todo' = D \cup {Product}
    BY <1>3 DEF Uninstall
  <2>2. UNCHANGED <<release, build, file, backup, lost, spoiled>> /\ before' = file
        /\ op' = "uninstall" /\ step' = "copy" /\ outcome' = "uninstalled"
    BY <1>3 DEF Uninstall, disk, harm
  <2>3. AllSound'
    BY <1>1, <2>2, SoundStays DEF AllSound
  <2>4. Uninstalling'
    BY <2>1, <2>2, FilesApart DEF Uninstalling, Discovered
  <2> QED BY <2>2, <2>3, <2>4, NotYetIdle DEF Achieved, Copied, Installing, Undoing
<1>4. CASE outcome' = "none" /\ UNCHANGED <<op, step>> /\ AllSound'
  BY <1>1, <1>4 DEF Achieved, Copied, Installing, Undoing, Uninstalling, InstalledIsCurrent, UndoRestores,
     RollbackUndoes, UninstallRestores
<1>5. CASE Upgrade
  <2>1. \A f \in Files : file'[f] = Pristine(release', f) /\ (f \in spoiled' \/ backup'[f] = NoFile)
    <3>1. \A f \in Files : file'[f] = Pristine(release', f)
      BY <1>5 DEF Upgrade
    <3>2. \A f \in Files : f \in spoiled' \/ backup'[f] = NoFile
      BY <1>5 DEF Upgrade
    <3> QED BY <3>1, <3>2
  <2>2. ASSUME NEW f \in Files
        PROVE  Sound(f)'
    <3>1. (Stripped(Bundle(release, 0)) = Bundle(release, 0) /\ Bundle(release, 0).base = release)'
      BY DEF Stripped, Bundle
    <3> QED BY <2>1, <3>1 DEF Sound, Pristine, Stripped
  <2> QED BY <1>4, <1>5, <2>2 DEF Upgrade, AllSound
<1>6. CASE NewBuild
  <2>1. AllSound'
    BY <1>1, <1>6, SoundStays DEF NewBuild, AllSound, harm
  <2> QED BY <1>4, <1>6, <2>1 DEF NewBuild
<1>7. CASE DeleteBackup
  <2>1. PICK f \in Files : /\ backup[f] # NoFile /\ file[f].base # Torn
                           /\ backup' = [backup EXCEPT ![f] = NoFile] /\ lost' = lost \cup {f}
    BY <1>7 DEF DeleteBackup
  <2>2. UNCHANGED <<release, file, spoiled>>
    BY <1>7 DEF DeleteBackup
  <2>3. backup'[f] = NoFile /\ \A g \in Files : g # f => backup'[g] = backup[g]
    BY <2>1 DEF IInv, TypeOK
  <2>4. ASSUME NEW g \in Files
        PROVE  Sound(g)'
    <3>1. Sound(g)
      BY <1>1 DEF AllSound
    <3>2. CASE g = f /\ f # Product
      <4>1. file[f] \in Bundles
        BY <3>2, FilesApart DEF IInv, TypeOK
      <4>2. f \notin spoiled => file[f].base = release
        BY <2>1, <3>1, <3>2 DEF Sound
      <4>3. f \notin spoiled => Stripped(file[f]) = Bundle(release, 0)
        BY <4>1, <4>2 DEF Stripped, Bundle, Bundles
      <4> QED BY <2>2, <2>3, <3>2, <4>2, <4>3 DEF Sound, Stripped, Bundle
    <3>3. CASE g = f /\ f = Product
      BY <2>1, <3>3 DEF Sound
    <3>4. CASE g # f
      BY <2>1, <2>2, <2>3, <3>1, <3>4, SoundStays
    <3> QED BY <3>2, <3>3, <3>4
  <2> QED BY <1>4, <1>7, <2>4 DEF DeleteBackup, AllSound
<1> QED BY <1>2, <1>3, <1>5, <1>6, <1>7

LEMMA InitAchieved == ASSUME Init PROVE Achieved
<1>1. \A f \in Files : file[f] = Pristine(release, f) /\ backup[f] = NoFile
  BY DEF Init
<1>2. AllSound
  BY <1>1, PristineSound DEF AllSound
<1> QED BY <1>2 DEF Init, Achieved, Copied, Installing, Undoing, Uninstalling, InstalledIsCurrent, UndoRestores,
           RollbackUndoes, UninstallRestores

LEMMA NextAchieved == ASSUME IInv, IInv', Achieved, [Next]_vars PROVE Achieved'
<1>1. CASE UNCHANGED vars
  <2>1. UNCHANGED <<release, build, file, backup, op, step, todo, touched, outcome, before, lost, spoiled>>
    BY <1>1 DEF vars, disk, harm
  <2>2. AllSound'
    BY <2>1, SoundStays DEF Achieved, AllSound
  <2>3. Copied' /\ Installing' /\ Undoing' /\ Uninstalling'
    BY <2>1 DEF Achieved, Copied, Installing, Undoing, Uninstalling, Current, Answerable, Pristine, Shipped, Bundle
  <2>4. InstalledIsCurrent' /\ UndoRestores'
    BY <2>1 DEF Achieved, InstalledIsCurrent, UndoRestores, RollbackUndoes, UninstallRestores,
       Pristine, Shipped, Bundle
  <2> QED BY <2>2, <2>3, <2>4 DEF Achieved
<1> QED BY <1>1, ApplyAchieves, RestoreAchieves, ChecksumAchieves, CrashAchieves, BetweenAchieves DEF Next

LEMMA Achieving == Spec => []Achieved
<1>1. Init => Achieved
  BY InitAchieved
<1>2. IInv /\ IInv' /\ Achieved /\ [Next]_vars => Achieved'
  BY NextAchieved
<1> QED BY <1>1, <1>2, Invariance, PTL DEF Spec

\* The bytes Cursor shipped can be had back for every target, from the file or
\* from its backup, whatever was killed, failed or deleted (backup-store.ts),
\* unless that backup is cut short or of an older release.
THEOREM AlwaysRecoverable == Spec => []Recoverable
<1>1. IInv /\ Achieved => Recoverable
  BY FilesApart DEF Achieved, AllSound, Sound, Recoverable
<1> QED BY <1>1, Invariance, Achieving, PTL

\* An install that reports success, or nothing to do, leaves every whole bundle
\* with the current payload, after any history of runs (planInstall, applyPlan).
THEOREM InstalledStaysCurrent == Spec => []InstalledIsCurrent
BY Achieving, PTL DEF Achieved

\* A rolled-back install leaves each bundle as it found it or, where it had begun
\* to write, as Cursor shipped it, and product.json as it was; an uninstall without
\* a failure leaves the files Cursor shipped (applyPlan's catch,
\* uninstallInstall): wherever the backups are neither lost nor spoiled.
THEOREM UndoneIsRestored == Spec => []UndoRestores
BY Achieving, PTL DEF Achieved
=============================================================================
