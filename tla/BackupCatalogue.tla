-------------------------- MODULE BackupCatalogue --------------------------
(***************************************************************************)
(* The local backup store of VPSmith Studio (internal/backuprestore): the  *)
(* artifact files below the backup root, the tombstones of deletions, and  *)
(* the rows of the catalogue in the management state.  A file and its row  *)
(* change in different steps, several calls may be under way, and the      *)
(* Studio process may stop between any two steps.                          *)
(***************************************************************************)
CONSTANTS
    Calls,          \* the calls that may be under way at the same time
    Artifacts,      \* backup artifact ids
    Packages,       \* the artifacts that are recovery packages
    Foreign,        \* the packages that another installation made
    RestorePoints   \* the artifacts that are directories, not files

ASSUME ArtifactKinds ==
    /\ Foreign \subseteq Packages
    /\ Packages \subseteq Artifacts
    /\ RestorePoints \subseteq Artifacts \ Packages

VARIABLES
    stored,      \* artifacts whose bytes are at their final place
    tombstones,  \* artifacts whose bytes were moved aside by a deletion
    catalogue,   \* artifacts with a row in the management state
    issued,      \* artifact ids in use, here or in another installation
    populated,   \* the state has a target or a GitHub configuration
    call,        \* where each call is
    subject      \* the artifact a call works on

catVars == <<stored, tombstones, catalogue, issued, populated, call, subject>>

Ended == {"idle", "created", "createfailed", "deleted", "deletefailed",
          "imported", "importfailed"}

Labels == Ended \cup
    {"publish", "register", "unpublish",                        \* Create
     "lookup", "rename", "deleterow", "restore", "cleanup",     \* Delete
     "stage", "commit", "adopt", "link", "replace", "unlink", "undo"}  \* Import

CatTypeOK ==
    /\ stored \subseteq Artifacts
    /\ tombstones \subseteq Artifacts
    /\ catalogue \subseteq Artifacts
    /\ issued \subseteq Artifacts
    /\ populated \in BOOLEAN
    /\ call \in [Calls -> Labels]
    /\ subject \in [Calls -> Artifacts]

CatInit ==
    /\ stored = {} /\ tombstones = {} /\ catalogue = {} /\ issued = Foreign
    /\ populated \in BOOLEAN
    /\ call = [c \in Calls |-> "idle"]
    /\ subject \in [Calls -> Artifacts]

Goto(c, l) == call' = [call EXCEPT ![c] = l]

At(c, l) == call[c] = l

-----------------------------------------------------------------------------
\* A target is registered, or the GitHub repository of the custom modules is
\* configured; no operation removes either.
CreateTarget ==
    /\ ~populated
    /\ populated' = TRUE
    /\ UNCHANGED <<stored, tombstones, catalogue, issued, call, subject>>

(* Manager.Create.                                                         *)

\* A fresh id, and a payload produced, packed and verified in scratch space.
\* The producer of a recovery package needs its target.
Create(c, a) ==
    /\ call[c] \in Ended
    /\ a \notin issued
    /\ a \in Packages => populated
    /\ issued' = issued \cup {a}
    /\ subject' = [subject EXCEPT ![c] = a]
    /\ Goto(c, "publish")
    /\ UNCHANGED <<stored, tombstones, catalogue, populated>>

\* publishFileExclusive or publishDirectoryExclusive, then the checksum.
PublishBackup(c) ==
    /\ At(c, "publish")
    /\ stored' = stored \cup {subject[c]}
    /\ Goto(c, "register")
    /\ UNCHANGED <<tombstones, catalogue, issued, populated, subject>>

\* Producing or publishing fails.  A directory whose parent cannot be synced
\* has its final name already and keeps it; a file is taken away again.
PublishError(c) ==
    /\ At(c, "publish")
    /\ stored' \in {stored, stored \cup ({subject[c]} \cap RestorePoints)}
    /\ Goto(c, "createfailed")
    /\ UNCHANGED <<tombstones, catalogue, issued, populated, subject>>

RegisterBackup(c) ==
    /\ At(c, "register")
    /\ catalogue' = catalogue \cup {subject[c]}
    /\ Goto(c, "created")
    /\ UNCHANGED <<stored, tombstones, issued, populated, subject>>

\* The transaction, or the checksum of the published file, fails.
RegisterError(c) ==
    /\ At(c, "register")
    /\ Goto(c, "unpublish")
    /\ UNCHANGED <<stored, tombstones, catalogue, issued, populated, subject>>

\* Mutant of Unpublish: the bytes of the failed backup stay.
UnpublishForgotten(c) ==
    /\ At(c, "unpublish")
    /\ Goto(c, "createfailed")
    /\ UNCHANGED <<stored, tombstones, catalogue, issued, populated, subject>>

Unpublish(c) ==
    /\ At(c, "unpublish")
    /\ stored' = stored \ {subject[c]}
    /\ Goto(c, "createfailed")
    /\ UNCHANGED <<tombstones, catalogue, issued, populated, subject>>

-----------------------------------------------------------------------------
(* Manager.Delete.                                                         *)

\* catalogEntry finds the row in a snapshot.
Delete(c, a) ==
    /\ call[c] \in Ended
    /\ a \in catalogue
    /\ subject' = [subject EXCEPT ![c] = a]
    /\ Goto(c, "lookup")
    /\ UNCHANGED <<stored, tombstones, catalogue, issued, populated>>

\* "backup deletion tombstone already exists"
CheckTombstone(c) ==
    /\ At(c, "lookup")
    /\ Goto(c, IF subject[c] \in tombstones THEN "deletefailed" ELSE "rename")
    /\ UNCHANGED <<stored, tombstones, catalogue, issued, populated, subject>>

RenameToTombstone(c) ==
    /\ At(c, "rename")
    /\ subject[c] \in stored
    /\ stored' = stored \ {subject[c]}
    /\ tombstones' = tombstones \cup {subject[c]}
    /\ Goto(c, "deleterow")
    /\ UNCHANGED <<catalogue, issued, populated, subject>>

\* Mutant of RenameError: the error of the rename is ignored.
RenameErrorIgnored(c) ==
    /\ At(c, "rename")
    /\ Goto(c, "deleterow")
    /\ UNCHANGED <<stored, tombstones, catalogue, issued, populated, subject>>

\* Another deletion moved the bytes first, or the rename fails.
RenameError(c) ==
    /\ At(c, "rename")
    /\ Goto(c, "deletefailed")
    /\ UNCHANGED <<stored, tombstones, catalogue, issued, populated, subject>>

\* Exactly one row must go.
DeleteBackup(c) ==
    /\ At(c, "deleterow")
    /\ subject[c] \in catalogue
    /\ catalogue' = catalogue \ {subject[c]}
    /\ Goto(c, "cleanup")
    /\ UNCHANGED <<stored, tombstones, issued, populated, subject>>

\* Mutant of DeleteRowError: the tombstone is removed although the row stays.
DeleteRowErrorCleans(c) ==
    /\ At(c, "deleterow")
    /\ Goto(c, "cleanup")
    /\ UNCHANGED <<stored, tombstones, catalogue, issued, populated, subject>>

DeleteRowError(c) ==
    /\ At(c, "deleterow")
    /\ Goto(c, "restore")
    /\ UNCHANGED <<stored, tombstones, catalogue, issued, populated, subject>>

\* The bytes go back to their place, unless that rename fails too.
RestoreArtifact(c) ==
    /\ At(c, "restore")
    /\ \/ /\ subject[c] \in tombstones
          /\ stored' = stored \cup {subject[c]}
          /\ tombstones' = tombstones \ {subject[c]}
       \/ UNCHANGED <<stored, tombstones>>
    /\ Goto(c, "deletefailed")
    /\ UNCHANGED <<catalogue, issued, populated, subject>>

\* Mutant of RemoveTombstone: a deletion is reported before its bytes are gone.
RemoveTombstoneLazy(c) ==
    /\ At(c, "cleanup")
    /\ Goto(c, "deleted")
    /\ UNCHANGED <<stored, tombstones, catalogue, issued, populated, subject>>

RemoveTombstone(c) ==
    /\ At(c, "cleanup")
    /\ tombstones' = tombstones \ {subject[c]}
    /\ Goto(c, "deleted")
    /\ UNCHANGED <<stored, catalogue, issued, populated, subject>>

RemoveTombstoneError(c) ==
    /\ At(c, "cleanup")
    /\ Goto(c, "deletefailed")
    /\ UNCHANGED <<stored, tombstones, catalogue, issued, populated, subject>>

-----------------------------------------------------------------------------
CreateStep(c) ==
    \/ PublishBackup(c) \/ PublishError(c)
    \/ RegisterBackup(c) \/ RegisterError(c) \/ Unpublish(c)

DeleteStep(c) ==
    \/ CheckTombstone(c) \/ RenameToTombstone(c) \/ RenameError(c)
    \/ DeleteBackup(c) \/ DeleteRowError(c) \/ RestoreArtifact(c)
    \/ RemoveTombstone(c) \/ RemoveTombstoneError(c)

\* The Studio process ends: nothing of the calls is left, files and rows stay.
Restart ==
    /\ call' = [c \in Calls |-> "idle"]
    /\ UNCHANGED <<stored, tombstones, catalogue, issued, populated, subject>>

-----------------------------------------------------------------------------
(* Correctness, of the artifacts made here.                                *)

Own == Artifacts \ Foreign

\* Whatever fails, stops or runs beside it: a catalogued artifact still has its
\* bytes, at their place or in the tombstone of an unfinished deletion.
CatalogueHasBytes == catalogue \cap Own \subseteq stored \cup tombstones

\* A deletion that reported success left neither row nor bytes.
DeletedIsGone ==
    \A c \in Calls : (call[c] = "deleted" /\ subject[c] \in Own) =>
        subject[c] \notin stored \cup tombstones \cup catalogue

\* A creation that reported an error left no row, and no bytes either, except
\* for a restore point whose directory could not be synced.
FailedCreateLeavesNothing ==
    \A c \in Calls : call[c] = "createfailed" =>
        /\ subject[c] \notin catalogue
        /\ subject[c] \notin RestorePoints => subject[c] \notin stored

\* The life of an artifact made here, and where its bytes are.
Life(a) ==
    CASE a \notin issued -> "unused"
      [] a \in catalogue -> "listed"
      [] a \in issued \ catalogue ->
           IF \E c \in Calls : call[c] \in {"publish", "register"} /\ subject[c] = a
           THEN "pending" ELSE "gone"

Bytes(a) == IF a \in stored THEN "place" ELSE IF a \in tombstones THEN "aside" ELSE "none"

Promise == INSTANCE ArtifactLife WITH
    Artifacts <- Own,
    life <- [a \in Own |-> Life(a)],
    bytes <- [a \in Own |-> Bytes(a)]

\* Files, tombstones, rows and calls that race, fail or are cut off implement
\* ArtifactLife: in particular a deletion that puts bytes back does so for a
\* row that is still there, and no artifact comes back after its deletion.
ImplementsArtifactLife == Promise!Spec

-----------------------------------------------------------------------------
(* The inductive invariant.                                                *)

Creating == {"publish", "register", "unpublish", "createfailed"}

Moved == {"deleterow", "restore", "cleanup"}

Importing == {"stage", "commit", "adopt", "link", "replace", "unlink", "undo"}

\* An id is used once: everything that exists, and what a call works on, has one.
IssuedInv ==
    /\ Foreign \cup stored \cup tombstones \cup catalogue \subseteq issued
    /\ \A c \in Calls : call[c] # "idle" => subject[c] \in issued

\* A creation has its artifact for itself, and nobody has seen a row of it.
CreateInv ==
    \A c \in Calls : call[c] \in Creating =>
        /\ subject[c] \in Own
        /\ subject[c] \notin catalogue \cup tombstones
        /\ call[c] = "publish" => subject[c] \notin stored
        /\ call[c] \in {"register", "unpublish"} => subject[c] \in stored
        /\ call[c] = "createfailed" /\ subject[c] \notin RestorePoints =>
              subject[c] \notin stored
        /\ \A d \in Calls : call[d] # "idle" /\ subject[d] = subject[c] => d = c

\* The bytes of an artifact are in one place; a deletion that moved them is alone.
DeleteInv ==
    /\ stored \cap tombstones \cap Own = {}
    /\ \A c \in Calls : call[c] \in Moved /\ subject[c] \in Own =>
          /\ subject[c] \in tombstones
          /\ call[c] = "cleanup" => subject[c] \notin catalogue
          /\ \A d \in Calls : call[d] \in Moved /\ subject[d] = subject[c] => d = c

\* A deletion finds the row, or no bytes; once it has moved the bytes the row
\* is its own to remove.
RowInv ==
    \A c \in Calls : subject[c] \in Own =>
        /\ call[c] \in {"lookup", "rename"} =>
              subject[c] \in catalogue \/ subject[c] \notin stored
        /\ call[c] \in {"deleterow", "restore"} => subject[c] \in catalogue

CatInv ==
    /\ CatTypeOK /\ IssuedInv /\ CreateInv /\ DeleteInv
    /\ CatalogueHasBytes /\ DeletedIsGone
=============================================================================
