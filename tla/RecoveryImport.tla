-------------------------- MODULE RecoveryImport ---------------------------
(***************************************************************************)
(* Import of a recovery package (internal/recoverypackage): the package's  *)
(* source trees and execution bundles are staged and published, the        *)
(* package file is adopted by the backup store, and one transaction        *)
(* replaces the management state; a failure takes back what the import     *)
(* published.  Beside it the Studio publishes trees and bundles of its own *)
(* (sourcelibrary.importSnapshot, executionbundle.Assembler).              *)
(***************************************************************************)
EXTENDS BackupCatalogue

CONSTANTS
    Trees,      \* source trees, named by their digest
    Bundles,    \* execution bundles, named by their digest
    Contents,   \* the trees and bundles of each foreign package
    Importers,  \* the calls that may be imports
    Loaders,    \* the calls that may publish a tree or a bundle of their own
    Local,      \* the trees and bundles those calls publish
    Embedded,   \* the trees of a Studio image, registered when it opens
    NoLoad      \* a loader that does nothing

Objects == Trees \cup Bundles

Loads == [at : {"publish", "verify", "register"}, what : Objects]

ASSUME PackageContents == Contents \in [Foreign -> SUBSET Objects]
ASSUME CallKinds == Importers \subseteq Calls
ASSUME LocalObjects == Local \subseteq Objects
ASSUME EmbeddedTrees == Embedded \subseteq Trees
ASSUME NoLoadFresh == NoLoad \notin Loads

VARIABLES
    objects,    \* the trees and bundles at their final place
    refs,       \* the trees and bundles that rows of the state name
    todo,       \* objects an import has not examined yet
    staged,     \* objects in the stage directory of an import
    published,  \* objects an import has moved to their final place
    created,    \* the import published the package file itself
    loading,    \* what each loader is doing
    found       \* history: the objects an import found when it began

impVars == <<objects, refs, todo, staged, published, created, loading, found>>
vars == <<catVars, impVars>>

TypeOK ==
    /\ CatTypeOK
    /\ objects \subseteq Objects
    /\ refs \subseteq Objects
    /\ todo \in [Importers -> SUBSET Objects]
    /\ staged \in [Importers -> SUBSET Objects]
    /\ published \in [Importers -> SUBSET Objects]
    /\ created \in [Importers -> BOOLEAN]
    /\ loading \in [Loaders -> Loads \cup {NoLoad}]
    /\ found \in [Importers -> SUBSET Objects]

None == [c \in Importers |-> {}]

\* application.Open imports the embedded sources, where the image has any.
Init ==
    /\ CatInit
    /\ objects \in {{}, Embedded} /\ refs = objects
    /\ todo = None /\ staged = None /\ published = None
    /\ created = [c \in Importers |-> FALSE]
    /\ loading = [c \in Loaders |-> NoLoad]
    /\ found = None

\* Bundles are handled after the trees, and taken back before them.
InOrder(o, rest) == o \in rest /\ (o \in Bundles => rest \cap Trees = {})

InReverse(o, rest) == o \in rest /\ (o \in Trees => rest \cap Bundles = {})

\* The queries of ReplaceFromRecovery: no row a user owns.
Fresh == ~populated /\ catalogue = {} /\ refs \cap Bundles = {}

\* The trigger source_artifacts_no_delete aborts the DELETE that is to make
\* room for the package's registrations, unless there is nothing to delete.
ResetSucceeds == refs \cap Trees = {}

-----------------------------------------------------------------------------
(* Service.Import.                                                         *)

\* The package is decrypted, unpacked and validated in scratch space.
Import(c, p) ==
    /\ call[c] \in Ended
    /\ subject' = [subject EXCEPT ![c] = p]
    /\ Goto(c, "stage")
    /\ todo' = [todo EXCEPT ![c] = Contents[p]]
    /\ created' = [created EXCEPT ![c] = FALSE]
    /\ found' = [found EXCEPT ![c] = objects]
    /\ UNCHANGED <<stored, tombstones, catalogue, issued, populated, objects, refs,
                   staged, published, loading>>

\* Mutant of StageObject: what exists already is staged as well.
StageEverything(c, o) ==
    /\ At(c, "stage")
    /\ InOrder(o, todo[c])
    /\ todo' = [todo EXCEPT ![c] = @ \ {o}]
    /\ staged' = [staged EXCEPT ![c] = @ \cup {o}]
    /\ UNCHANGED <<catVars, objects, refs, published, created, loading, found>>

\* PrepareRecoveryImport: an object that exists is reused, another is staged.
StageObject(c, o) ==
    /\ At(c, "stage")
    /\ InOrder(o, todo[c])
    /\ todo' = [todo EXCEPT ![c] = @ \ {o}]
    /\ staged' = [staged EXCEPT ![c] = @ \cup ({o} \ objects)]
    /\ UNCHANGED <<catVars, objects, refs, published, created, loading, found>>

BeginCommit(c) ==
    /\ At(c, "stage")
    /\ todo[c] = {}
    /\ Goto(c, "commit")
    /\ UNCHANGED <<stored, tombstones, catalogue, issued, populated, subject, impVars>>

\* Commit: a directory that appeared meanwhile is reused, because renaming onto
\* it fails.  A bundle file is renamed over an existing one.
CommitObject(c, o) ==
    /\ At(c, "commit")
    /\ InOrder(o, staged[c])
    /\ staged' = [staged EXCEPT ![c] = @ \ {o}]
    /\ objects' = objects \cup {o}
    /\ published' = [published EXCEPT ![c] =
                        IF o \in Trees \cap objects THEN @ ELSE @ \cup {o}]
    /\ UNCHANGED <<catVars, refs, todo, created, loading, found>>

BeginAdopt(c) ==
    /\ At(c, "commit")
    /\ staged[c] = {}
    /\ Goto(c, "adopt")
    /\ UNCHANGED <<stored, tombstones, catalogue, issued, populated, subject, impVars>>

\* AdoptValidatedRecovery: a package file that is there already is kept.
AdoptCheck(c) ==
    /\ At(c, "adopt")
    /\ Goto(c, IF subject[c] \in stored THEN "replace" ELSE "link")
    /\ UNCHANGED <<stored, tombstones, catalogue, issued, populated, subject, impVars>>

\* publishFileExclusive links the copy to its final name.
AdoptPublish(c) ==
    /\ At(c, "link")
    /\ subject[c] \notin stored
    /\ stored' = stored \cup {subject[c]}
    /\ created' = [created EXCEPT ![c] = TRUE]
    /\ Goto(c, "replace")
    /\ UNCHANGED <<tombstones, catalogue, issued, populated, subject, objects, refs,
                   todo, staged, published, loading, found>>

\* One transaction replaces a fresh state; then both imports are sealed.
ReplaceFromRecovery(c) ==
    /\ At(c, "replace")
    /\ Fresh /\ ResetSucceeds
    /\ refs' = Contents[subject[c]]
    /\ catalogue' = {subject[c]}
    /\ populated' = TRUE
    /\ published' = [published EXCEPT ![c] = {}]
    /\ Goto(c, "imported")
    /\ UNCHANGED <<stored, tombstones, issued, subject, objects, todo, staged, created,
                   loading, found>>

\* The state is not fresh, or the transaction fails.
ReplaceError(c) ==
    /\ At(c, "replace")
    /\ Goto(c, IF created[c] THEN "unlink" ELSE "undo")
    /\ UNCHANGED <<stored, tombstones, catalogue, issued, populated, subject, impVars>>

\* "The published file is removed again if that commit fails."
RemoveAdopted(c) ==
    /\ At(c, "unlink")
    /\ stored' = stored \ {subject[c]}
    /\ Goto(c, "undo")
    /\ UNCHANGED <<tombstones, catalogue, issued, populated, subject, impVars>>

\* Anything before the transaction fails: both imports are closed.
ImportError(c) ==
    /\ call[c] \in {"stage", "commit", "adopt", "link"}
    /\ Goto(c, "undo")
    /\ UNCHANGED <<stored, tombstones, catalogue, issued, populated, subject, impVars>>

\* Rollback removes what this import published.
RollbackObject(c, o) ==
    /\ At(c, "undo")
    /\ InReverse(o, published[c])
    /\ objects' = objects \ {o}
    /\ published' = [published EXCEPT ![c] = @ \ {o}]
    /\ UNCHANGED <<catVars, refs, todo, staged, created, loading, found>>

\* Mutant of ImportFailed: the roll-back is left before its end.
ImportFailedEarly(c) ==
    /\ At(c, "undo")
    /\ Goto(c, "importfailed")
    /\ todo' = [todo EXCEPT ![c] = {}]
    /\ staged' = [staged EXCEPT ![c] = {}]
    /\ published' = [published EXCEPT ![c] = {}]
    /\ UNCHANGED <<stored, tombstones, catalogue, issued, populated, subject, objects,
                   refs, created, loading, found>>

\* The stage directories go with the call.
ImportFailed(c) ==
    /\ At(c, "undo")
    /\ published[c] = {}
    /\ Goto(c, "importfailed")
    /\ todo' = [todo EXCEPT ![c] = {}]
    /\ staged' = [staged EXCEPT ![c] = {}]
    /\ UNCHANGED <<stored, tombstones, catalogue, issued, populated, subject, objects,
                   refs, published, created, loading, found>>

-----------------------------------------------------------------------------
(* importSnapshot for a custom module, and Assemble followed by the        *)
(* registration of the bundle.                                             *)

Loading(c, l, o) == loading' = [loading EXCEPT ![c] = [at |-> l, what |-> o]]

\* The object is named by no row yet; it may be there all the same.  A custom
\* module needs the GitHub configuration, a bundle its target.
Load(c, o) ==
    /\ populated
    /\ loading[c] = NoLoad
    /\ o \notin refs
    /\ Loading(c, IF o \in objects THEN "verify" ELSE "publish", o)
    /\ UNCHANGED <<catVars, objects, refs, todo, staged, published, created, found>>

\* A tree is renamed to its digest, unless another call was faster; a bundle is
\* created with O_EXCL, which fails (LoadError) when another call was faster.
LoadPublish(c, o) ==
    /\ loading[c] = [at |-> "publish", what |-> o]
    /\ o \in Bundles => o \notin objects
    /\ objects' = objects \cup {o}
    /\ Loading(c, "verify", o)
    /\ UNCHANGED <<catVars, refs, todo, staged, published, created, found>>

\* A tree is hashed once more at its final place, a bundle is not.
LoadVerify(c, o) ==
    /\ loading[c] = [at |-> "verify", what |-> o]
    /\ IF o \in Bundles \cup objects
       THEN Loading(c, "register", o)
       ELSE loading' = [loading EXCEPT ![c] = NoLoad]
    /\ UNCHANGED <<catVars, objects, refs, todo, staged, published, created, found>>

LoadRegister(c, o) ==
    /\ loading[c] = [at |-> "register", what |-> o]
    /\ refs' = refs \cup {o}
    /\ loading' = [loading EXCEPT ![c] = NoLoad]
    /\ UNCHANGED <<catVars, objects, todo, staged, published, created, found>>

\* Any error ends the call; a published tree or bundle stays.
LoadError(c) ==
    /\ loading[c] # NoLoad
    /\ loading' = [loading EXCEPT ![c] = NoLoad]
    /\ UNCHANGED <<catVars, objects, refs, todo, staged, published, created, found>>

-----------------------------------------------------------------------------
ImportStep(c) ==
    \/ BeginCommit(c) \/ BeginAdopt(c) \/ AdoptCheck(c) \/ AdoptPublish(c)
    \/ ReplaceFromRecovery(c) \/ ReplaceError(c) \/ RemoveAdopted(c)
    \/ ImportError(c) \/ ImportFailed(c)
    \/ \E o \in Objects : StageObject(c, o) \/ CommitObject(c, o) \/ RollbackObject(c, o)

LoadStep(c) ==
    \/ LoadError(c)
    \/ \E o \in Objects : LoadPublish(c, o) \/ LoadVerify(c, o) \/ LoadRegister(c, o)

\* The process ends in the middle: deferred roll-backs do not run.
StudioRestart ==
    /\ Restart
    /\ todo' = None /\ staged' = None /\ published' = None /\ found' = None
    /\ created' = [c \in Importers |-> FALSE]
    /\ loading' = [c \in Loaders |-> NoLoad]
    /\ UNCHANGED <<objects, refs>>

Next ==
    \/ CreateTarget /\ UNCHANGED impVars
    \/ \E c \in Calls : (CreateStep(c) \/ DeleteStep(c)) /\ UNCHANGED impVars
    \/ \E c \in Calls, a \in Artifacts : (Create(c, a) \/ Delete(c, a)) /\ UNCHANGED impVars
    \/ \E c \in Importers : ImportStep(c) \/ \E p \in Foreign : Import(c, p)
    \/ \E c \in Loaders : LoadStep(c) \/ \E o \in Local : Load(c, o)
    \/ StudioRestart

Spec == Init /\ [][Next]_vars

-----------------------------------------------------------------------------
(* Correctness.  The first two hold when imports do not overlap with each  *)
(* other or with a call that publishes one of the package's objects.       *)

Undisturbed ==
    /\ \A c, d \in Importers : c = d
    /\ \A p \in Foreign : Contents[p] \cap Local = {}

\* Every tree and bundle that a row names is there, although an import publishes
\* and takes back in many steps and may be cut off between any two of them.
NoDanglingRows == refs \subseteq objects

\* An import that reported an error left the package's trees and bundles as it had
\* found them: it takes back all that it published and nothing else.
FailedImportLeavesNothing ==
    \A c \in Importers : call[c] = "importfailed" =>
        objects \cap Contents[subject[c]] = found[c] \cap Contents[subject[c]]

\* "Embedded source registrations are derived at Studio startup, so they are
\* intentionally replaced": in a state without user-owned rows the transaction
\* of an import is not refused.
FreshStateAccepts ==
    \A c \in Importers : At(c, "replace") /\ Fresh => ResetSucceeds

-----------------------------------------------------------------------------
(* The inductive invariant of undisturbed imports.                         *)

\* Only importers import, and what they import is a foreign package.
ImporterInv ==
    \A c \in Calls : call[c] \in Importing \cup {"importfailed"} =>
        c \in Importers /\ subject[c] \in Foreign

\* An import that has not begun or has ended holds nothing.
HoldsNothing(c) == todo[c] = {} /\ staged[c] = {} /\ published[c] = {}

\* What an import still has to do, has staged and has published: together with
\* what is in place they make the package, and no row names any of the last two.
WorkInv ==
    \A c \in Importers :
        LET p == subject[c] IN
        /\ call[c] \notin Importing => HoldsNothing(c)
        /\ call[c] \in Importing =>
              /\ todo[c] \cup staged[c] \cup published[c] \subseteq Contents[p]
              /\ published[c] \subseteq objects
              /\ (staged[c] \cup published[c]) \cap refs = {}
        /\ call[c] = "stage" => published[c] = {}
        /\ call[c] \in Importing \ {"stage", "undo"} => todo[c] = {}
        /\ call[c] \in {"adopt", "link", "replace"} => staged[c] = {}
        /\ call[c] \in {"stage", "commit", "adopt", "link", "replace"} =>
              Contents[p] \subseteq objects \cup todo[c] \cup staged[c]

\* An import changes nothing but what it published.
FoundInv ==
    \A c \in Importers : call[c] \in Importing =>
        LET p == subject[c] IN
        /\ objects \cap Contents[p] = (found[c] \cap Contents[p]) \cup published[c]
        /\ (staged[c] \cup published[c]) \cap found[c] = {}

\* A loader works on an object of its own and registers it when it is there.
LoadInv ==
    \A c \in Loaders : loading[c] # NoLoad =>
        /\ loading[c].what \in Local
        /\ loading[c].at \in {"verify", "register"} => loading[c].what \in objects

ImportInv ==
    /\ TypeOK /\ CatInv /\ ImporterInv /\ WorkInv /\ FoundInv /\ LoadInv
    /\ NoDanglingRows /\ FailedImportLeavesNothing
=============================================================================
