---------------------------- MODULE DescriptorStore ----------------------------
(***************************************************************************)
(* The extracted schema: one document on disk, rewritten by the command     *)
(* "mycursor schema" and polled by the server whenever a request needs it.  *)
(* Source: packages/server/src/schema/descriptor-store.ts and               *)
(* packages/cli/src/commands/schema.ts.                                     *)
(*                                                                          *)
(* The two are processes of their own, so every call of one that touches    *)
(* the disk is a step and the other may act in between.  A document is told *)
(* from another by its modification time, a number no later document has;   *)
(* what matters of its text is whether it parses, the release it says it is *)
(* of and the release its bundles were of.                                  *)
(***************************************************************************)
EXTENDS Naturals

CONSTANTS MaxDocuments,  \* times the file is written or damaged
          MaxReleases    \* releases installed one after the other

VARIABLES installed,    \* the release on disk
          schemaFile,   \* the document at paths.descriptors
          documents,    \* the last modification time given out
          held,         \* registry: the time of the document in it, 0: empty
          loadedMtime,  \* loadedMtimeMs
          available,    \* the private flag "loaded"
          polling,      \* the file-system call a request is about to make
          command,      \* the run of "mycursor schema"
          heldBefore,   \* held when the last request began
          touched,      \* the file changed since the last request began
          overtaken     \* a document was replaced between its read and its stat

serverVars == <<held, loadedMtime, available, polling, heldBefore, overtaken>>
diskVars == <<installed, schemaFile, documents, touched>>
schemaVars == <<diskVars, command, serverVars>>

Absent == [state |-> "absent", at |-> 0, of |-> 0, says |-> 0]
NoRun == [step |-> "none", version |-> 0, of |-> 0, dry |-> FALSE]

-----------------------------------------------------------------------------
(* The server, one step per call of node:fs.                                *)

\* existsSync and statSync, whose failure has the same outcome: an absent file,
\* or one whose time is the loaded one, leaves the registry as it is.
RefreshIfChanged ==
  /\ polling = "rest"
  /\ polling' = IF schemaFile.state = "absent" \/ schemaFile.at = loadedMtime
                THEN "rest" ELSE "reload"
  /\ heldBefore' = held /\ touched' = FALSE
  /\ UNCHANGED <<installed, schemaFile, documents, command, held, loadedMtime, available,
                 overtaken>>

\* reload asks again whether the file is there; one that went empties the registry.
ReloadSchema ==
  /\ polling = "reload"
  /\ IF schemaFile.state = "absent"
     THEN held' = 0 /\ available' = FALSE /\ polling' = "rest"
     ELSE polling' = "read" /\ UNCHANGED <<held, available>>
  /\ UNCHANGED <<diskVars, command, loadedMtime, heldBefore, overtaken>>

\* Faulty: a document that does not parse is taken for one that is gone.
ReadOrEmpty ==
  /\ polling = "read"
  /\ held' = IF schemaFile.state = "good" THEN schemaFile.at ELSE 0
  /\ polling' = IF schemaFile.state = "good" THEN "stat" ELSE "rest"
  /\ UNCHANGED <<diskVars, command, loadedMtime, available, heldBefore, overtaken>>

\* readFileSync, the parse and fromDocument: a throw keeps what was loaded, and
\* its time, so that the next request tries again.
ReadDocument ==
  /\ polling = "read"
  /\ IF schemaFile.state = "good"
     THEN held' = schemaFile.at /\ polling' = "stat"
     ELSE polling' = "rest" /\ UNCHANGED held
  /\ UNCHANGED <<diskVars, command, loadedMtime, available, heldBefore, overtaken>>

\* The time is taken from the file that is there now, not from the one read; a
\* file gone by now throws, after the registry was assigned.
NoteTime ==
  /\ polling = "stat"
  /\ polling' = "rest"
  /\ IF schemaFile.state = "absent"
     THEN UNCHANGED <<loadedMtime, available, overtaken>>
     ELSE /\ loadedMtime' = schemaFile.at /\ available' = TRUE
          /\ overtaken' = (schemaFile.at # held)
  /\ UNCHANGED <<diskVars, command, held, heldBefore>>

-----------------------------------------------------------------------------
(* The command.                                                             *)

\* readExisting: a document that does not parse is none.
ExistingIsOf(version) == schemaFile.state = "good" /\ schemaFile.says = version

\* Locates the installation and reads the document there is; one that says it is
\* of the installed release is left alone unless the run is forced.
RunSchema(force, dry) ==
  /\ command.step = "none"
  /\ force \/ ~ExistingIsOf(installed)
  /\ command' = [step |-> "extract", version |-> installed, of |-> 0, dry |-> dry]
  /\ UNCHANGED <<diskVars, serverVars>>

\* The bundles are read now; an upgrade since the version was read shows only here.
Extract ==
  /\ command.step = "extract"
  /\ command' = [command EXCEPT !.step = "write", !.of = installed]
  /\ UNCHANGED <<diskVars, serverVars>>

\* No message was found, the run was dry, or it was killed: nothing was written.
\* A kill between the temporary file and the rename leaves the document as it was.
EndWithoutWriting ==
  /\ command.step # "none"
  /\ command' = NoRun
  /\ UNCHANGED <<diskVars, serverVars>>

PutFile(file) ==
  /\ documents < MaxDocuments
  /\ documents' = documents + 1
  /\ schemaFile' = [file EXCEPT !.at = documents + 1]
  /\ touched' = TRUE

\* A rename puts the whole document in place at once.
WriteDocument ==
  /\ command.step = "write" /\ ~command.dry
  /\ PutFile([state |-> "good", at |-> 0, of |-> command.of, says |-> command.version])
  /\ command' = NoRun
  /\ UNCHANGED <<installed, serverVars>>

-----------------------------------------------------------------------------
(* The world: an upgrade, a damaged document, a deleted one.                *)

Upgrade ==
  /\ installed < MaxReleases
  /\ installed' = installed + 1
  /\ UNCHANGED <<schemaFile, documents, touched, command, serverVars>>

Damage ==
  /\ schemaFile.state = "good"
  /\ PutFile([schemaFile EXCEPT !.state = "broken"])
  /\ UNCHANGED <<installed, command, serverVars>>

Delete ==
  /\ schemaFile.state # "absent"
  /\ schemaFile' = Absent /\ touched' = TRUE
  /\ UNCHANGED <<installed, documents, command, serverVars>>

-----------------------------------------------------------------------------
\* The constructor reloads whatever file it finds.
SchemaInit ==
  /\ installed = 1 /\ documents = 1
  /\ schemaFile \in {Absent, [state |-> "good", at |-> 1, of |-> 1, says |-> 1],
                     [state |-> "broken", at |-> 1, of |-> 1, says |-> 1]}
  /\ held = 0 /\ loadedMtime = 0 /\ available = FALSE /\ polling = "reload"
  /\ command = NoRun
  /\ heldBefore = 0 /\ touched = FALSE /\ overtaken = FALSE

SchemaNext ==
  \/ RefreshIfChanged \/ ReloadSchema \/ ReadDocument \/ NoteTime
  \/ \E force, dry \in BOOLEAN : RunSchema(force, dry)
  \/ Extract \/ EndWithoutWriting \/ WriteDocument
  \/ Upgrade \/ Damage \/ Delete

SchemaSpec == SchemaInit /\ [][SchemaNext]_schemaVars

-----------------------------------------------------------------------------
(* Properties.                                                              *)

\* A request that met one file throughout is served from that file when it
\* parses, and from what was held before it otherwise: neither a damaged document
\* nor a deleted one takes the schema offline (descriptor-store.ts, the comment at
\* 74).  The exception is a document replaced between its read and its stat, whose
\* successor is not seen until it changes once more.
ServesTheFile ==
  polling = "rest" /\ ~touched /\ ~overtaken =>
    held = IF schemaFile.state = "good" THEN schemaFile.at ELSE heldBefore

\* A document that says it is of the installed release was taken from its
\* bundles, so that the command may leave it alone: an upgrade between the version
\* and the bundles leaves the older version in the document, and the next run
\* extracts again.
SkipIsSound ==
  ExistingIsOf(installed) => schemaFile.of = installed

\* Both: what the server decodes with is what the last run of the command left.
SchemaFollows == ServesTheFile /\ SkipIsSound
=============================================================================
