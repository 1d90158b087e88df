--------------------------- MODULE RecoveryProofs ---------------------------
(***************************************************************************)
(* Proofs about the backup store and the import of recovery packages.      *)
(***************************************************************************)
EXTENDS RecoveryImport, TLAPS

\* Every step of a creation or a deletion keeps the invariant of the store.
LEMMA CallStep ==
  ASSUME CatInv, NEW c \in Calls, CreateStep(c) \/ DeleteStep(c)
  PROVE  CatInv'
<1> USE DEF CatInv, CatTypeOK, IssuedInv, CreateInv, DeleteInv, CatalogueHasBytes,
        DeletedIsGone, Labels, Ended, Creating, Moved, Own, Goto, At
<1>1. CASE PublishBackup(c)
  BY <1>1 DEF PublishBackup
<1>2. CASE PublishError(c)
  BY <1>2 DEF PublishError
<1>3. CASE RegisterBackup(c)
  BY <1>3 DEF RegisterBackup
<1>4. CASE RegisterError(c)
  BY <1>4 DEF RegisterError
<1>5. CASE Unpublish(c)
  BY <1>5 DEF Unpublish
<1>6. CASE CheckTombstone(c)
  BY <1>6 DEF CheckTombstone
<1>7. CASE RenameToTombstone(c)
  BY <1>7 DEF RenameToTombstone
<1>8. CASE RenameError(c)
  BY <1>8 DEF RenameError
<1>9. CASE DeleteBackup(c)
  BY <1>9 DEF DeleteBackup
<1>10. CASE DeleteRowError(c)
  BY <1>10 DEF DeleteRowError
<1>11. CASE RestoreArtifact(c)
  BY <1>11 DEF RestoreArtifact
<1>12. CASE RemoveTombstone(c)
  BY <1>12 DEF RemoveTombstone
<1>13. CASE RemoveTombstoneError(c)
  BY <1>13 DEF RemoveTombstoneError
<1>q. QED BY <1>1, <1>2, <1>3, <1>4, <1>5, <1>6, <1>7, <1>8, <1>9, <1>10, <1>11, <1>12,
    <1>13 DEF CreateStep, DeleteStep

\* So do the start of a creation or a deletion, a new target and a restart.
LEMMA StoreStep ==
  ASSUME CatInv,
         \/ CreateTarget \/ Restart
         \/ \E c \in Calls, a \in Artifacts : Create(c, a) \/ Delete(c, a)
  PROVE  CatInv'
<1> USE DEF CatInv, CatTypeOK, IssuedInv, CreateInv, DeleteInv, CatalogueHasBytes,
        DeletedIsGone, Labels, Ended, Creating, Moved, Own, Goto, At
<1>1. CASE CreateTarget
  BY <1>1 DEF CreateTarget
<1>2. CASE Restart
  BY <1>2 DEF Restart
<1>3. ASSUME NEW c \in Calls, NEW a \in Artifacts, Create(c, a)
      PROVE  CatInv'
  BY <1>3 DEF Create
<1>4. ASSUME NEW c \in Calls, NEW a \in Artifacts, Delete(c, a)
      PROVE  CatInv'
  BY <1>4 DEF Delete
<1>q. QED BY <1>1, <1>2, <1>3, <1>4

\* An import touches foreign packages only.
LEMMA ImportKeepsStore ==
  ASSUME CatInv, ImporterInv, NEW c \in Importers,
         ImportStep(c) \/ \E p \in Foreign : Import(c, p)
  PROVE  CatInv' /\ ImporterInv'
<1> USE ArtifactKinds, CallKinds
    DEF CatInv, CatTypeOK, IssuedInv, CreateInv, DeleteInv, CatalogueHasBytes,
        DeletedIsGone, Labels, Ended, Creating, Moved, Own, Goto, At, catVars,
        ImporterInv, Importing
<1>1. CASE BeginCommit(c)
  BY <1>1 DEF BeginCommit
<1>2. CASE BeginAdopt(c)
  BY <1>2 DEF BeginAdopt
<1>3. CASE AdoptCheck(c)
  BY <1>3 DEF AdoptCheck
<1>4. CASE AdoptPublish(c)
  BY <1>4 DEF AdoptPublish
<1>5. CASE ReplaceFromRecovery(c)
  BY <1>5 DEF ReplaceFromRecovery
<1>6. CASE ReplaceError(c)
  BY <1>6 DEF ReplaceError
<1>7. CASE RemoveAdopted(c)
  BY <1>7 DEF RemoveAdopted
<1>8. CASE ImportError(c)
  BY <1>8 DEF ImportError
<1>9. CASE ImportFailed(c)
  BY <1>9 DEF ImportFailed
<1>10. ASSUME NEW o \in Objects, StageObject(c, o)
      PROVE  CatInv' /\ ImporterInv'
  BY <1>10 DEF StageObject
<1>11. ASSUME NEW o \in Objects, CommitObject(c, o)
      PROVE  CatInv' /\ ImporterInv'
  BY <1>11 DEF CommitObject
<1>12. ASSUME NEW o \in Objects, RollbackObject(c, o)
      PROVE  CatInv' /\ ImporterInv'
  BY <1>12 DEF RollbackObject
<1>13. ASSUME NEW p \in Foreign, Import(c, p)
      PROVE  CatInv' /\ ImporterInv'
  BY <1>13 DEF Import
<1>q. QED BY <1>1, <1>2, <1>3, <1>4, <1>5, <1>6, <1>7, <1>8, <1>9, <1>10, <1>11, <1>12,
    <1>13 DEF ImportStep

\* The state of an import keeps its type.
LEMMA ImportTypes ==
  ASSUME Undisturbed, ImportInv, NEW c \in Importers,
         ImportStep(c) \/ \E p \in Foreign : Import(c, p)
  PROVE  TypeOK'
<1> USE PackageContents, ArtifactKinds, CallKinds
    DEF TypeOK, CatTypeOK, ImporterInv, WorkInv, FoundInv, LoadInv, NoDanglingRows,
        FailedImportLeavesNothing, ImportInv, Undisturbed, catVars, impVars, Objects,
        Labels, Ended, Importing, Goto, At, HoldsNothing, None, InOrder, InReverse
<1>1. CASE BeginCommit(c)
  BY <1>1 DEF BeginCommit
<1>2. CASE BeginAdopt(c)
  BY <1>2 DEF BeginAdopt
<1>3. CASE AdoptCheck(c)
  BY <1>3 DEF AdoptCheck
<1>4. CASE AdoptPublish(c)
  BY <1>4 DEF AdoptPublish
<1>5. CASE ReplaceFromRecovery(c)
  BY <1>5 DEF ReplaceFromRecovery
<1>6. CASE ReplaceError(c)
  BY <1>6 DEF ReplaceError
<1>7. CASE RemoveAdopted(c)
  BY <1>7 DEF RemoveAdopted
<1>8. CASE ImportError(c)
  BY <1>8 DEF ImportError
<1>9. CASE ImportFailed(c)
  BY <1>9 DEF ImportFailed
<1>10. ASSUME NEW o \in Objects, StageObject(c, o)
      PROVE  TypeOK'
  BY <1>10 DEF StageObject
<1>11. ASSUME NEW o \in Objects, CommitObject(c, o)
      PROVE  TypeOK'
  BY <1>11 DEF CommitObject
<1>12. ASSUME NEW o \in Objects, RollbackObject(c, o)
      PROVE  TypeOK'
  BY <1>12 DEF RollbackObject
<1>13. ASSUME NEW p \in Foreign, Import(c, p)
      PROVE  TypeOK'
  BY <1>13 DEF Import
<1>q. QED BY <1>1, <1>2, <1>3, <1>4, <1>5, <1>6, <1>7, <1>8, <1>9, <1>10, <1>11, <1>12,
    <1>13 DEF ImportStep

\* An import knows at every step what it still has to do and to take back.
LEMMA ImportKeepsWork ==
  ASSUME Undisturbed, ImportInv, NEW c \in Importers,
         ImportStep(c) \/ \E p \in Foreign : Import(c, p)
  PROVE  WorkInv'
<1> USE PackageContents, ArtifactKinds, CallKinds
    DEF TypeOK, CatTypeOK, ImporterInv, WorkInv, FoundInv, LoadInv, NoDanglingRows,
        FailedImportLeavesNothing, ImportInv, Undisturbed, catVars, impVars, Objects,
        Labels, Ended, Importing, Goto, At, HoldsNothing, None, InOrder, InReverse
<1>1. CASE BeginCommit(c)
  BY <1>1 DEF BeginCommit
<1>2. CASE BeginAdopt(c)
  BY <1>2 DEF BeginAdopt
<1>3. CASE AdoptCheck(c)
  BY <1>3 DEF AdoptCheck
<1>4. CASE AdoptPublish(c)
  BY <1>4 DEF AdoptPublish
<1>5. CASE ReplaceFromRecovery(c)
  BY <1>5 DEF ReplaceFromRecovery
<1>6. CASE ReplaceError(c)
  BY <1>6 DEF ReplaceError
<1>7. CASE RemoveAdopted(c)
  BY <1>7 DEF RemoveAdopted
<1>8. CASE ImportError(c)
  BY <1>8 DEF ImportError
<1>9. CASE ImportFailed(c)
  BY <1>9 DEF ImportFailed
<1>10. ASSUME NEW o \in Objects, StageObject(c, o)
      PROVE  WorkInv'
  BY <1>10 DEF StageObject
<1>11. ASSUME NEW o \in Objects, CommitObject(c, o)
      PROVE  WorkInv'
  BY <1>11 DEF CommitObject
<1>12. ASSUME NEW o \in Objects, RollbackObject(c, o)
      PROVE  WorkInv'
  BY <1>12 DEF RollbackObject
<1>13. ASSUME NEW p \in Foreign, Import(c, p)
      PROVE  WorkInv'
  BY <1>13 DEF Import
<1>q. QED BY <1>1, <1>2, <1>3, <1>4, <1>5, <1>6, <1>7, <1>8, <1>9, <1>10, <1>11, <1>12,
    <1>13 DEF ImportStep

\* An import publishes and takes back its own objects, nothing else.
LEMMA ImportKeepsFound ==
  ASSUME Undisturbed, ImportInv, NEW c \in Importers,
         ImportStep(c) \/ \E p \in Foreign : Import(c, p)
  PROVE  FoundInv' /\ FailedImportLeavesNothing'
<1> USE PackageContents, ArtifactKinds, CallKinds
    DEF TypeOK, CatTypeOK, ImporterInv, WorkInv, FoundInv, LoadInv, NoDanglingRows,
        FailedImportLeavesNothing, ImportInv, Undisturbed, catVars, impVars, Objects,
        Labels, Ended, Importing, Goto, At, HoldsNothing, None, InOrder, InReverse
<1>1. CASE BeginCommit(c)
  BY <1>1 DEF BeginCommit
<1>2. CASE BeginAdopt(c)
  BY <1>2 DEF BeginAdopt
<1>3. CASE AdoptCheck(c)
  BY <1>3 DEF AdoptCheck
<1>4. CASE AdoptPublish(c)
  BY <1>4 DEF AdoptPublish
<1>5. CASE ReplaceFromRecovery(c)
  BY <1>5 DEF ReplaceFromRecovery
<1>6. CASE ReplaceError(c)
  BY <1>6 DEF ReplaceError
<1>7. CASE RemoveAdopted(c)
  BY <1>7 DEF RemoveAdopted
<1>8. CASE ImportError(c)
  BY <1>8 DEF ImportError
<1>9. CASE ImportFailed(c)
  BY <1>9 DEF ImportFailed
<1>10. ASSUME NEW o \in Objects, StageObject(c, o)
      PROVE  FoundInv' /\ FailedImportLeavesNothing'
  BY <1>10 DEF StageObject
<1>11. ASSUME NEW o \in Objects, CommitObject(c, o)
      PROVE  FoundInv' /\ FailedImportLeavesNothing'
  BY <1>11 DEF CommitObject
<1>12. ASSUME NEW o \in Objects, RollbackObject(c, o)
      PROVE  FoundInv' /\ FailedImportLeavesNothing'
  BY <1>12 DEF RollbackObject
<1>13. ASSUME NEW p \in Foreign, Import(c, p)
      PROVE  FoundInv' /\ FailedImportLeavesNothing'
  BY <1>13 DEF Import
<1>q. QED BY <1>1, <1>2, <1>3, <1>4, <1>5, <1>6, <1>7, <1>8, <1>9, <1>10, <1>11, <1>12,
    <1>13 DEF ImportStep

\* An import takes no object from a row or from a loader.
LEMMA ImportKeepsRows ==
  ASSUME Undisturbed, ImportInv, NEW c \in Importers,
         ImportStep(c) \/ \E p \in Foreign : Import(c, p)
  PROVE  LoadInv' /\ NoDanglingRows'
<1> USE PackageContents, ArtifactKinds, CallKinds
    DEF TypeOK, CatTypeOK, ImporterInv, WorkInv, FoundInv, LoadInv, NoDanglingRows,
        FailedImportLeavesNothing, ImportInv, Undisturbed, catVars, impVars, Objects,
        Labels, Ended, Importing, Goto, At, HoldsNothing, None, InOrder, InReverse
<1>1. CASE BeginCommit(c)
  BY <1>1 DEF BeginCommit
<1>2. CASE BeginAdopt(c)
  BY <1>2 DEF BeginAdopt
<1>3. CASE AdoptCheck(c)
  BY <1>3 DEF AdoptCheck
<1>4. CASE AdoptPublish(c)
  BY <1>4 DEF AdoptPublish
<1>5. CASE ReplaceFromRecovery(c)
  BY <1>5 DEF ReplaceFromRecovery
<1>6. CASE ReplaceError(c)
  BY <1>6 DEF ReplaceError
<1>7. CASE RemoveAdopted(c)
  BY <1>7 DEF RemoveAdopted
<1>8. CASE ImportError(c)
  BY <1>8 DEF ImportError
<1>9. CASE ImportFailed(c)
  BY <1>9 DEF ImportFailed
<1>10. ASSUME NEW o \in Objects, StageObject(c, o)
      PROVE  LoadInv' /\ NoDanglingRows'
  BY <1>10 DEF StageObject
<1>11. ASSUME NEW o \in Objects, CommitObject(c, o)
      PROVE  LoadInv' /\ NoDanglingRows'
  BY <1>11 DEF CommitObject
<1>12. ASSUME NEW o \in Objects, RollbackObject(c, o)
      PROVE  LoadInv' /\ NoDanglingRows'
  BY <1>12 DEF RollbackObject
<1>13. ASSUME NEW p \in Foreign, Import(c, p)
      PROVE  LoadInv' /\ NoDanglingRows'
  BY <1>13 DEF Import
<1>q. QED BY <1>1, <1>2, <1>3, <1>4, <1>5, <1>6, <1>7, <1>8, <1>9, <1>10, <1>11, <1>12,
    <1>13 DEF ImportStep

\* A loader disturbs no import of other objects.
LEMMA LoaderStep ==
  ASSUME Undisturbed, ImportInv, NEW c \in Loaders,
         LoadStep(c) \/ \E o \in Local : Load(c, o)
  PROVE  ImportInv'
<1> USE PackageContents, LocalObjects, NoLoadFresh, CallKinds
    DEF TypeOK, CatTypeOK, ImporterInv, WorkInv, FoundInv, LoadInv, NoDanglingRows,
        FailedImportLeavesNothing, ImportInv, Undisturbed, catVars, impVars, Objects,
        Labels, Ended, Importing, Goto, At, HoldsNothing, None, InOrder, InReverse,
        Loading, Loads, CatInv, IssuedInv, CreateInv, DeleteInv, CatalogueHasBytes,
        DeletedIsGone
<1>1. CASE LoadError(c)
  BY <1>1 DEF LoadError
<1>2. ASSUME NEW o \in Objects, LoadPublish(c, o)
      PROVE  ImportInv'
  BY <1>2 DEF LoadPublish
<1>3. ASSUME NEW o \in Objects, LoadVerify(c, o)
      PROVE  ImportInv'
  BY <1>3 DEF LoadVerify
<1>4. ASSUME NEW o \in Objects, LoadRegister(c, o)
      PROVE  ImportInv'
  BY <1>4 DEF LoadRegister
<1>5. ASSUME NEW o \in Local, Load(c, o)
      PROVE  ImportInv'
  BY <1>5 DEF Load
<1>q. QED BY <1>1, <1>2, <1>3, <1>4, <1>5 DEF LoadStep

\* A creation or a deletion does not touch what imports and loaders work on, and
\* a restart leaves no import behind that would have to take anything back.
LEMMA StoreKeepsImports ==
  ASSUME ImportInv,
         \/ StudioRestart
         \/ /\ UNCHANGED impVars
            /\ \/ CreateTarget
               \/ \E c \in Calls : CreateStep(c) \/ DeleteStep(c)
               \/ \E c \in Calls, a \in Artifacts : Create(c, a) \/ Delete(c, a)
  PROVE  ImportInv'
<1>1. CatInv'
  BY CallStep, StoreStep DEF ImportInv, StudioRestart
<1> USE PackageContents, CallKinds
    DEF ImportInv, CatInv, TypeOK, CatTypeOK, ImporterInv, WorkInv, FoundInv, LoadInv,
        NoDanglingRows, FailedImportLeavesNothing
<1>2. CASE StudioRestart
  BY <1>1, <1>2 DEF StudioRestart, Restart, None, HoldsNothing, Importing
<1>3. CASE UNCHANGED impVars /\ CreateTarget
  BY <1>1, <1>3 DEF impVars, CreateTarget, HoldsNothing
<1>4. ASSUME UNCHANGED impVars, NEW c \in Calls, PublishBackup(c)
      PROVE  ImportInv'
  BY <1>1, <1>4 DEF impVars, PublishBackup, At, Goto, Importing, HoldsNothing
<1>5. ASSUME UNCHANGED impVars, NEW c \in Calls, PublishError(c)
      PROVE  ImportInv'
  BY <1>1, <1>5 DEF impVars, PublishError, At, Goto, Importing, HoldsNothing
<1>6. ASSUME UNCHANGED impVars, NEW c \in Calls, RegisterBackup(c)
      PROVE  ImportInv'
  BY <1>1, <1>6 DEF impVars, RegisterBackup, At, Goto, Importing, HoldsNothing
<1>7. ASSUME UNCHANGED impVars, NEW c \in Calls, RegisterError(c)
      PROVE  ImportInv'
  BY <1>1, <1>7 DEF impVars, RegisterError, At, Goto, Importing, HoldsNothing
<1>8. ASSUME UNCHANGED impVars, NEW c \in Calls, Unpublish(c)
      PROVE  ImportInv'
  BY <1>1, <1>8 DEF impVars, Unpublish, At, Goto, Importing, HoldsNothing
<1>9. ASSUME UNCHANGED impVars, NEW c \in Calls, CheckTombstone(c)
      PROVE  ImportInv'
  BY <1>1, <1>9 DEF impVars, CheckTombstone, At, Goto, Importing, HoldsNothing
<1>10. ASSUME UNCHANGED impVars, NEW c \in Calls, RenameToTombstone(c)
      PROVE  ImportInv'
  BY <1>1, <1>10 DEF impVars, RenameToTombstone, At, Goto, Importing, HoldsNothing
<1>11. ASSUME UNCHANGED impVars, NEW c \in Calls, RenameError(c)
      PROVE  ImportInv'
  BY <1>1, <1>11 DEF impVars, RenameError, At, Goto, Importing, HoldsNothing
<1>12. ASSUME UNCHANGED impVars, NEW c \in Calls, DeleteBackup(c)
      PROVE  ImportInv'
  BY <1>1, <1>12 DEF impVars, DeleteBackup, At, Goto, Importing, HoldsNothing
<1>13. ASSUME UNCHANGED impVars, NEW c \in Calls, DeleteRowError(c)
      PROVE  ImportInv'
  BY <1>1, <1>13 DEF impVars, DeleteRowError, At, Goto, Importing, HoldsNothing
<1>14. ASSUME UNCHANGED impVars, NEW c \in Calls, RestoreArtifact(c)
      PROVE  ImportInv'
  BY <1>1, <1>14 DEF impVars, RestoreArtifact, At, Goto, Importing, HoldsNothing
<1>15. ASSUME UNCHANGED impVars, NEW c \in Calls, RemoveTombstone(c)
      PROVE  ImportInv'
  BY <1>1, <1>15 DEF impVars, RemoveTombstone, At, Goto, Importing, HoldsNothing
<1>16. ASSUME UNCHANGED impVars, NEW c \in Calls, RemoveTombstoneError(c)
      PROVE  ImportInv'
  BY <1>1, <1>16 DEF impVars, RemoveTombstoneError, At, Goto, Importing, HoldsNothing
<1>17. ASSUME UNCHANGED impVars, NEW c \in Calls, NEW a \in Artifacts, Create(c, a)
      PROVE  ImportInv'
  BY <1>1, <1>17 DEF impVars, Create, Ended, Goto, Importing, HoldsNothing
<1>18. ASSUME UNCHANGED impVars, NEW c \in Calls, NEW a \in Artifacts, Delete(c, a)
      PROVE  ImportInv'
  BY <1>1, <1>18 DEF impVars, Delete, Ended, Goto, Importing, HoldsNothing
<1>q. QED BY <1>2, <1>3, <1>4, <1>5, <1>6, <1>7, <1>8, <1>9, <1>10, <1>11, <1>12, <1>13,
    <1>14, <1>15, <1>16, <1>17, <1>18 DEF CreateStep, DeleteStep

\* No import is under way when the Studio is installed, and nothing exists but
\* the embedded trees.
LEMMA ImportInitially == Init => ImportInv
BY PackageContents, ArtifactKinds, CallKinds, EmbeddedTrees
DEF Objects, Init, CatInit, ImportInv, TypeOK, CatTypeOK, CatInv, IssuedInv, CreateInv, DeleteInv,
    CatalogueHasBytes, DeletedIsGone, ImporterInv, WorkInv, FoundInv, LoadInv,
        NoDanglingRows,
    FailedImportLeavesNothing, Labels, Ended, Creating, Moved, Importing, HoldsNothing,
        None, Own

\* The invariant holds when no two imports overlap and nobody publishes the package's
\* objects beside one, for any number of calls, artifacts, packages and objects.
THEOREM ImportInductive ==
  ASSUME Undisturbed
  PROVE  Spec => []ImportInv
<1>1. ImportInv /\ [Next]_vars => ImportInv'
  <2> SUFFICES ASSUME ImportInv, [Next]_vars
               PROVE  ImportInv'
    OBVIOUS
  <2>1. CASE UNCHANGED vars
    BY <2>1 DEF vars, catVars, impVars, ImportInv, TypeOK, CatTypeOK, CatInv, IssuedInv,
        CreateInv,
        DeleteInv, CatalogueHasBytes, DeletedIsGone, ImporterInv, WorkInv, FoundInv,
            LoadInv,
        NoDanglingRows, FailedImportLeavesNothing, HoldsNothing
  <2>2. ASSUME NEW c \in Importers, ImportStep(c) \/ \E p \in Foreign : Import(c, p)
        PROVE  ImportInv'
    <3>1. CatInv' /\ ImporterInv'
      BY <2>2, ImportKeepsStore DEF ImportInv
    <3>2. TypeOK' /\ WorkInv'
      BY <2>2, ImportTypes, ImportKeepsWork
    <3>3. FoundInv' /\ FailedImportLeavesNothing'
      BY <2>2, ImportKeepsFound
    <3>4. LoadInv' /\ NoDanglingRows'
      BY <2>2, ImportKeepsRows
    <3>q. QED BY <3>1, <3>2, <3>3, <3>4 DEF ImportInv
  <2>3. ASSUME NEW c \in Loaders, LoadStep(c) \/ \E o \in Local : Load(c, o)
        PROVE  ImportInv'
    BY <2>3, LoaderStep
  <2>q. QED BY <2>1, <2>2, <2>3, StoreKeepsImports DEF Next
<1>q. QED BY <1>1, ImportInitially, PTL DEF Spec

\* Types of the whole state, under the same hypothesis.
THEOREM ImportTypesHold ==
  ASSUME Undisturbed
  PROVE  Spec => []TypeOK
<1>1. ImportInv => TypeOK
  BY DEF ImportInv
<1>q. QED BY <1>1, ImportInductive, PTL

\* However an import fails or is cut off, no row of the management state names a
\* tree or a bundle that is not on disk.
THEOREM RowsNeverDangle ==
  ASSUME Undisturbed
  PROVE  Spec => []NoDanglingRows
<1>1. ImportInv => NoDanglingRows
  BY DEF ImportInv
<1>q. QED BY <1>1, ImportInductive, PTL

\* A failed import has taken back what it published and nothing else.
THEOREM FailedImportsLeaveNothing ==
  ASSUME Undisturbed
  PROVE  Spec => []FailedImportLeavesNothing
<1>1. ImportInv => FailedImportLeavesNothing
  BY DEF ImportInv
<1>q. QED BY <1>1, ImportInductive, PTL

-----------------------------------------------------------------------------
(* The backup store alone needs no hypothesis on the imports.              *)

\* Loaders leave the store alone; imports touch foreign packages only.
THEOREM StoreInductive == Spec => [](CatInv /\ ImporterInv)
<1>1. Init => CatInv /\ ImporterInv
  BY ImportInitially DEF ImportInv
<1>2. CatInv /\ ImporterInv /\ [Next]_vars => CatInv' /\ ImporterInv'
  <2> SUFFICES ASSUME CatInv, ImporterInv, [Next]_vars
               PROVE  CatInv' /\ ImporterInv'
    OBVIOUS
  <2>1. CASE UNCHANGED catVars
    BY <2>1 DEF catVars, CatTypeOK, CatInv, IssuedInv, CreateInv, DeleteInv,
        CatalogueHasBytes,
        DeletedIsGone, ImporterInv
  <2>2. ASSUME NEW c \in Importers, ImportStep(c) \/ \E p \in Foreign : Import(c, p)
        PROVE  CatInv' /\ ImporterInv'
    BY <2>2, ImportKeepsStore
  <2>3. ASSUME NEW c \in Loaders, LoadStep(c) \/ \E o \in Local : Load(c, o)
        PROVE  UNCHANGED catVars
    BY <2>3 DEF LoadStep, LoadError, LoadPublish, LoadVerify, LoadRegister, Load
  <2>4. CASE CreateTarget \/ StudioRestart
    BY <2>4, StoreStep DEF ImporterInv, Importing, CreateTarget, StudioRestart, Restart
  <2>5. ASSUME NEW c \in Calls, CreateStep(c) \/ DeleteStep(c)
        PROVE  CatInv' /\ ImporterInv'
    <3>1. CatInv'
      BY <2>5, CallStep
    <3>2. ImporterInv'
      BY <2>5 DEF CatInv, CatTypeOK, ImporterInv, Importing, Goto, At, CreateStep,
          DeleteStep, PublishBackup,
          PublishError, RegisterBackup, RegisterError, Unpublish, CheckTombstone,
              RenameToTombstone,
          RenameError, DeleteBackup, DeleteRowError, RestoreArtifact, RemoveTombstone,
          RemoveTombstoneError
    <3>q. QED BY <3>1, <3>2
  <2>6. ASSUME NEW c \in Calls, NEW a \in Artifacts, Create(c, a) \/ Delete(c, a)
        PROVE  CatInv' /\ ImporterInv'
    <3>1. CatInv'
      BY <2>6, StoreStep
    <3>2. ImporterInv'
      BY <2>6 DEF CatInv, CatTypeOK, ImporterInv, Importing, Goto, Create, Delete
    <3>q. QED BY <3>1, <3>2
  <2>q. QED BY <2>1, <2>2, <2>3, <2>4, <2>5, <2>6 DEF Next, vars
<1>q. QED BY <1>1, <1>2, PTL DEF Spec

\* Whatever fails or is cut off, the bytes of a catalogued artifact are still there.
THEOREM CataloguedBytesSurvive == Spec => []CatalogueHasBytes
<1>1. CatInv => CatalogueHasBytes
  BY DEF CatInv
<1>q. QED BY <1>1, StoreInductive, PTL

\* A deletion that reported success left neither row nor bytes.
THEOREM DeletionsAreComplete == Spec => []DeletedIsGone
<1>1. CatInv => DeletedIsGone
  BY DEF CatInv
<1>q. QED BY <1>1, StoreInductive, PTL

\* A creation that reported an error left no row and, but for a restore point whose
\* directory could not be synced, no bytes.
THEOREM FailedCreationsLeaveNothing == Spec => []FailedCreateLeavesNothing
<1>1. CatInv => FailedCreateLeavesNothing
  BY DEF CatInv, CreateInv, Creating, FailedCreateLeavesNothing
<1>q. QED BY <1>1, StoreInductive, PTL

-----------------------------------------------------------------------------
(* The store implements ArtifactLife.                                      *)

\* A deletion keeps its row until it removes it, beside other deletions.
LEMMA RowStep ==
  ASSUME CatInv, ImporterInv, RowInv, [Next]_vars
  PROVE  RowInv'
<1> USE DEF CatInv, CatTypeOK, IssuedInv, CreateInv, DeleteInv, RowInv, Creating, Moved, Own,
        Goto, At
<1>1. CASE UNCHANGED catVars
  BY <1>1 DEF catVars
<1>2. ASSUME NEW c \in Importers, ImportStep(c) \/ \E p \in Foreign : Import(c, p)
      PROVE  RowInv'
  <2>1. subject[c] \in Foreign \/ call[c] \notin Importing
    BY <1>2, CallKinds DEF ImporterInv
  <2>2. ASSUME NEW d \in Calls
        PROVE  /\ d # c => call'[d] = call[d] /\ subject'[d] = subject[d]
               /\ call'[c] \notin {"lookup", "rename", "deleterow", "restore"}
    BY <1>2, <2>1, CallKinds
       DEF ImportStep, BeginCommit, BeginAdopt, AdoptCheck, AdoptPublish, ReplaceFromRecovery,
           ReplaceError, RemoveAdopted, ImportError, ImportFailed, StageObject, CommitObject,
           RollbackObject, Import, catVars, Importing, Ended
  <2>3. stored' \cap Own = stored \cap Own /\ catalogue' \cap Own = catalogue \cap Own
    BY <1>2, <2>1
       DEF ImportStep, BeginCommit, BeginAdopt, AdoptCheck, AdoptPublish, ReplaceFromRecovery,
           ReplaceError, RemoveAdopted, ImportError, ImportFailed, StageObject, CommitObject,
           RollbackObject, Import, catVars, Importing, Fresh
  <2>q. QED BY <2>2, <2>3
<1>3. ASSUME NEW c \in Loaders, LoadStep(c) \/ \E o \in Local : Load(c, o)
      PROVE  UNCHANGED catVars
  BY <1>3 DEF LoadStep, LoadError, LoadPublish, LoadVerify, LoadRegister, Load
<1>4. CASE CreateTarget \/ StudioRestart
  BY <1>4 DEF CreateTarget, StudioRestart, Restart
<1>5. ASSUME NEW c \in Calls, CreateStep(c)
      PROVE  RowInv'
  BY <1>5 DEF CreateStep, PublishBackup, PublishError, RegisterBackup, RegisterError, Unpublish
<1>6. ASSUME NEW c \in Calls, DeleteStep(c)
      PROVE  RowInv'
  BY <1>6 DEF DeleteStep, CheckTombstone, RenameToTombstone, RenameError, DeleteBackup,
              DeleteRowError, RestoreArtifact, RemoveTombstone, RemoveTombstoneError
<1>7. ASSUME NEW c \in Calls, NEW a \in Artifacts, Create(c, a) \/ Delete(c, a)
      PROVE  RowInv'
  BY <1>7 DEF Create, Delete
<1>q. QED BY <1>1, <1>2, <1>3, <1>4, <1>5, <1>6, <1>7 DEF Next, vars

\* How a change of single lives and bytes reads in ArtifactLife.
LEMMA SameLives ==
  ASSUME \A b \in Own : Life(b)' = Life(b) /\ Bytes(b)' = Bytes(b)
  PROVE  UNCHANGED Promise!vars
  BY DEF Promise!vars, Own

LEMMA LifeTurns ==
  ASSUME NEW a \in Own, NEW l, \A b \in Own : Life(b)' = IF b = a THEN l ELSE Life(b)
  PROVE  [b \in Own |-> Life(b)]' = [[b \in Own |-> Life(b)] EXCEPT ![a] = l]
  BY DEF Own

LEMMA BytesMove ==
  ASSUME NEW a \in Own, NEW l, \A b \in Own : Bytes(b)' = IF b = a THEN l ELSE Bytes(b)
  PROVE  [b \in Own |-> Bytes(b)]' = [[b \in Own |-> Bytes(b)] EXCEPT ![a] = l]
  BY DEF Own

\* The steps of a creation.
LEMMA CreateRefines ==
  ASSUME CatInv, NEW c \in Calls, CreateStep(c)
  PROVE  [Promise!Next]_Promise!vars
<1> USE DEF CatInv, CatTypeOK, IssuedInv, CreateInv, Creating, Goto, At
<1> DEFINE a == subject[c]
<1>0. a \in Own /\ a \in issued /\ a \notin catalogue /\ a \notin tombstones
  BY DEF CreateStep, PublishBackup, PublishError, RegisterBackup, RegisterError, Unpublish
<1>1. CASE PublishBackup(c)
  <2>1. Life(a) = "pending" /\ Bytes(a) = "none"
    BY <1>0, <1>1 DEF PublishBackup, Life, Bytes
  <2>2. \A b \in Own : Life(b)' = Life(b)
    BY <1>1 DEF PublishBackup, Life
  <2>3. \A b \in Own : Bytes(b)' = IF b = a THEN "place" ELSE Bytes(b)
    BY <1>1 DEF PublishBackup, Bytes
  <2>4. Promise!Write(a)
    BY <1>0, <2>1, <2>2, <2>3, BytesMove DEF Promise!Write, Promise!Move
  <2>q. QED BY <1>0, <2>4 DEF Promise!Next
<1>2. CASE PublishError(c) \/ RegisterError(c)
  <2>1. Life(a) = "pending"
    BY <1>0, <1>2 DEF PublishError, RegisterError, Life
  <2>2. \A b \in Own : Life(b)' = IF b = a THEN "gone" ELSE Life(b)
    BY <1>0, <1>2 DEF PublishError, RegisterError, Life
  <2>3. \/ \A b \in Own : Bytes(b)' = IF b = a THEN "place" ELSE Bytes(b)
        \/ \A b \in Own : Bytes(b)' = Bytes(b)
    BY <1>0, <1>2 DEF PublishError, RegisterError, Bytes
  <2>4. [b \in Own |-> Life(b)]' = [b \in Own |-> IF b \in {a} THEN "gone" ELSE Life(b)]
    BY <2>2 DEF Own
  <2>5. \E T \in SUBSET {a} :
          [b \in Own |-> Bytes(b)]' = [b \in Own |-> IF b \in T THEN "place" ELSE Bytes(b)]
    <3>1. CASE \A b \in Own : Bytes(b)' = IF b = a THEN "place" ELSE Bytes(b)
      <4>1. [b \in Own |-> Bytes(b)]' = [b \in Own |-> IF b \in {a} THEN "place" ELSE Bytes(b)]
        BY <3>1 DEF Own
      <4>q. QED BY <4>1
    <3>2. CASE \A b \in Own : Bytes(b)' = Bytes(b)
      <4>1. PICK T \in SUBSET {a} : T = {}
        OBVIOUS
      <4>2. [b \in Own |-> Bytes(b)]' = [b \in Own |-> IF b \in T THEN "place" ELSE Bytes(b)]
        BY <3>2, <4>1 DEF Own
      <4>q. QED BY <4>2
    <3>q. QED BY <2>3, <3>1, <3>2
  <2>6. Promise!Abandon({a})
    BY <1>0, <2>1, <2>4, <2>5 DEF Promise!Abandon
  <2>q. QED BY <1>0, <2>6 DEF Promise!Next
<1>3. CASE RegisterBackup(c)
  <2>1. Life(a) = "pending" /\ Bytes(a) = "place"
    BY <1>0, <1>3 DEF RegisterBackup, Life, Bytes
  <2>2. \A b \in Own : Life(b)' = IF b = a THEN "listed" ELSE Life(b)
    BY <1>0, <1>3 DEF RegisterBackup, Life
  <2>3. \A b \in Own : Bytes(b)' = Bytes(b)
    BY <1>3 DEF RegisterBackup, Bytes
  <2>4. Promise!List(a)
    BY <1>0, <2>1, <2>2, <2>3, LifeTurns DEF Promise!List, Promise!Turn
  <2>q. QED BY <1>0, <2>4 DEF Promise!Next
<1>4. CASE Unpublish(c)
  <2>1. Life(a) = "gone"
    BY <1>0, <1>4 DEF Unpublish, Life
  <2>2. \A b \in Own : Life(b)' = Life(b)
    BY <1>0, <1>4 DEF Unpublish, Life
  <2>3. \A b \in Own : Bytes(b)' = IF b = a THEN "none" ELSE Bytes(b)
    BY <1>0, <1>4 DEF Unpublish, Bytes
  <2>4. Promise!Purge(a)
    BY <1>0, <2>1, <2>2, <2>3, BytesMove DEF Promise!Purge
  <2>q. QED BY <1>0, <2>4 DEF Promise!Next
<1>q. QED BY <1>1, <1>2, <1>3, <1>4 DEF CreateStep

\* The steps of a deletion; a foreign package is none of the artifacts made here.
LEMMA DeleteRefines ==
  ASSUME CatInv, RowInv, NEW c \in Calls, DeleteStep(c)
  PROVE  [Promise!Next]_Promise!vars
<1> USE DEF CatInv, CatTypeOK, IssuedInv, CreateInv, Creating, DeleteInv, Moved, RowInv, Goto, At
<1> DEFINE a == subject[c]
<1>1. CASE CheckTombstone(c) \/ RenameError(c) \/ DeleteRowError(c) \/ RemoveTombstoneError(c)
  <2>1. \A b \in Own : Life(b)' = Life(b) /\ Bytes(b)' = Bytes(b)
    BY <1>1 DEF CheckTombstone, RenameError, DeleteRowError, RemoveTombstoneError, Life, Bytes
  <2>q. QED BY <2>1, SameLives
<1>2. CASE a \notin Own
  <2>1. a \in Artifacts
    OBVIOUS
  <2>2. \A b \in Own : Life(b)' = Life(b) /\ Bytes(b)' = Bytes(b)
    BY <1>1, <1>2, <2>1
       DEF DeleteStep, RenameToTombstone, DeleteBackup, RestoreArtifact, RemoveTombstone,
           CheckTombstone, RenameError, DeleteRowError, RemoveTombstoneError, Life, Bytes
  <2>q. QED BY <2>2, SameLives
<1>3. CASE a \in Own /\ RenameToTombstone(c)
  <2>1. a \in catalogue /\ a \in issued
    BY <1>3 DEF RenameToTombstone
  <2>2. Life(a) = "listed" /\ Bytes(a) = "place"
    BY <1>3, <2>1 DEF RenameToTombstone, Life, Bytes
  <2>3. \A b \in Own : Life(b)' = Life(b)
    BY <1>3 DEF RenameToTombstone, Life
  <2>4. \A b \in Own : Bytes(b)' = IF b = a THEN "aside" ELSE Bytes(b)
    BY <1>3 DEF RenameToTombstone, Bytes
  <2>5. Promise!Hide(a)
    BY <1>3, <2>2, <2>3, <2>4, BytesMove DEF Promise!Hide, Promise!Move
  <2>q. QED BY <1>3, <2>5 DEF Promise!Next
<1>4. CASE a \in Own /\ DeleteBackup(c)
  <2>1. a \in catalogue /\ a \in issued /\ a \in tombstones /\ a \notin stored
    BY <1>4 DEF DeleteBackup
  <2>2. Life(a) = "listed" /\ Bytes(a) = "aside"
    BY <2>1 DEF Life, Bytes
  <2>3. \A d \in Calls : call[d] \in {"publish", "register"} => subject[d] # a
    BY <2>1
  <2>4. \A b \in Own : Life(b)' = IF b = a THEN "gone" ELSE Life(b)
    BY <1>4, <2>1, <2>3 DEF DeleteBackup, Life
  <2>5. \A b \in Own : Bytes(b)' = Bytes(b)
    BY <1>4 DEF DeleteBackup, Bytes
  <2>6. Promise!Unlist(a)
    BY <1>4, <2>2, <2>4, <2>5, LifeTurns DEF Promise!Unlist, Promise!Turn
  <2>q. QED BY <1>4, <2>6 DEF Promise!Next
<1>5. CASE a \in Own /\ RestoreArtifact(c)
  <2>1. a \in catalogue /\ a \in issued /\ a \in tombstones /\ a \notin stored
    BY <1>5 DEF RestoreArtifact
  <2>2. Life(a) = "listed" /\ Bytes(a) = "aside"
    BY <2>1 DEF Life, Bytes
  <2>3. \A b \in Own : Life(b)' = Life(b)
    BY <1>5 DEF RestoreArtifact, Life
  <2>4. \/ \A b \in Own : Bytes(b)' = IF b = a THEN "place" ELSE Bytes(b)
        \/ \A b \in Own : Bytes(b)' = Bytes(b)
    BY <1>5, <2>1 DEF RestoreArtifact, Bytes
  <2>5. CASE \A b \in Own : Bytes(b)' = IF b = a THEN "place" ELSE Bytes(b)
    <3>1. Promise!Show(a)
      BY <1>5, <2>2, <2>3, <2>5, BytesMove DEF Promise!Show, Promise!Move
    <3>q. QED BY <1>5, <3>1 DEF Promise!Next
  <2>6. CASE \A b \in Own : Bytes(b)' = Bytes(b)
    BY <2>3, <2>6, SameLives
  <2>q. QED BY <2>4, <2>5, <2>6
<1>6. CASE a \in Own /\ RemoveTombstone(c)
  <2>1. a \in issued /\ a \notin catalogue /\ a \in tombstones /\ a \notin stored
    BY <1>6 DEF RemoveTombstone
  <2>2. \A d \in Calls : call[d] \in {"publish", "register"} => subject[d] # a
    BY <2>1
  <2>3. Life(a) = "gone"
    BY <2>1, <2>2 DEF Life
  <2>4. \A b \in Own : Life(b)' = Life(b)
    BY <1>6 DEF RemoveTombstone, Life
  <2>5. \A b \in Own : Bytes(b)' = IF b = a THEN "none" ELSE Bytes(b)
    BY <1>6, <2>1 DEF RemoveTombstone, Bytes
  <2>6. Promise!Purge(a)
    BY <1>6, <2>3, <2>4, <2>5, BytesMove DEF Promise!Purge
  <2>q. QED BY <1>6, <2>6 DEF Promise!Next
<1>q. QED BY <1>1, <1>2, <1>3, <1>4, <1>5, <1>6 DEF DeleteStep

\* The start of a call, and its end with the Studio.
LEMMA CallRefines ==
  ASSUME CatInv,
         \/ CreateTarget \/ Restart
         \/ \E c \in Calls, a \in Artifacts : Create(c, a) \/ Delete(c, a)
  PROVE  [Promise!Next]_Promise!vars
<1> USE DEF CatInv, CatTypeOK, IssuedInv, CreateInv, Creating, Goto
<1>1. CASE CreateTarget
  <2>1. \A b \in Own : Life(b)' = Life(b) /\ Bytes(b)' = Bytes(b)
    BY <1>1 DEF CreateTarget, Life, Bytes
  <2>q. QED BY <2>1, SameLives
<1>2. CASE Restart
  <2> DEFINE S == {b \in Own : Life(b) = "pending"}
  <2>1. \A b \in Own : Bytes(b)' = Bytes(b)
    BY <1>2 DEF Restart, Bytes
  <2>2. \A b \in Own : Life(b)' = IF b \in S THEN "gone" ELSE Life(b)
    BY <1>2 DEF Restart, Life
  <2>3. CASE S = {}
    BY <2>1, <2>2, <2>3, SameLives
  <2>4. CASE S # {}
    <3>1. [b \in Own |-> Life(b)]' = [b \in Own |-> IF b \in S THEN "gone" ELSE Life(b)]
      BY <2>2 DEF Own
    <3>0. PICK T \in SUBSET S : T = {}
      OBVIOUS
    <3>2. [b \in Own |-> Bytes(b)]' = [b \in Own |-> IF b \in T THEN "place" ELSE Bytes(b)]
      BY <2>1, <3>0 DEF Own
    <3>3. \A b \in S : b \in Own /\ Life(b) = "pending"
      OBVIOUS
    <3> HIDE DEF S
    <3>4. Promise!Abandon(S)
      BY <2>4, <3>1, <3>2, <3>3 DEF Promise!Abandon
    <3>5. S \in SUBSET Own
      BY <3>3
    <3>q. QED BY <3>4, <3>5 DEF Promise!Next
  <2>q. QED BY <2>3, <2>4
<1>3. ASSUME NEW c \in Calls, NEW a \in Artifacts, Create(c, a)
      PROVE  [Promise!Next]_Promise!vars
  <2>1. a \in Own /\ a \notin issued /\ a \notin catalogue /\ a \notin stored \cup tombstones
    BY <1>3 DEF Create, Own
  <2>2. call[c] \in Ended /\ call[c] \notin {"publish", "register"}
    BY <1>3 DEF Create, Ended
  <2>3. Life(a) = "unused"
    BY <2>1 DEF Life
  <2>4. \A b \in Own : Life(b)' = IF b = a THEN "pending" ELSE Life(b)
    BY <1>3, <2>1, <2>2 DEF Create, Life
  <2>5. \A b \in Own : Bytes(b)' = Bytes(b)
    BY <1>3 DEF Create, Bytes
  <2>6. Promise!Reserve(a)
    BY <2>1, <2>3, <2>4, <2>5, LifeTurns DEF Promise!Reserve, Promise!Turn
  <2>q. QED BY <2>1, <2>6 DEF Promise!Next
<1>4. ASSUME NEW c \in Calls, NEW a \in Artifacts, Delete(c, a)
      PROVE  [Promise!Next]_Promise!vars
  <2>1. call[c] \notin {"publish", "register"}
    BY <1>4 DEF Delete, Ended
  <2>2. \A b \in Own : Life(b)' = Life(b) /\ Bytes(b)' = Bytes(b)
    BY <1>4, <2>1 DEF Delete, Life, Bytes
  <2>q. QED BY <2>2, SameLives
<1>q. QED BY <1>1, <1>2, <1>3, <1>4

\* An import works on foreign packages only.
LEMMA ImportRefines ==
  ASSUME CatInv, ImporterInv, NEW c \in Importers,
         ImportStep(c) \/ \E p \in Foreign : Import(c, p)
  PROVE  UNCHANGED Promise!vars
<1> USE CallKinds DEF CatInv, CatTypeOK, ImporterInv, Goto, At
<1>1. subject[c] \in Foreign \/ call[c] \notin Importing
  OBVIOUS
<1>2. /\ stored' \cap Own = stored \cap Own /\ catalogue' \cap Own = catalogue \cap Own
      /\ issued' = issued /\ tombstones' = tombstones
  BY <1>1
     DEF ImportStep, BeginCommit, BeginAdopt, AdoptCheck, AdoptPublish, ReplaceFromRecovery,
         ReplaceError, RemoveAdopted, ImportError, ImportFailed, StageObject, CommitObject,
         RollbackObject, Import, catVars, Importing, Fresh, Own
<1>3. /\ \A d \in Calls : d # c => call'[d] = call[d] /\ subject'[d] = subject[d]
      /\ call'[c] \notin {"publish", "register"} /\ call[c] \notin {"publish", "register"}
  BY DEF ImportStep, BeginCommit, BeginAdopt, AdoptCheck, AdoptPublish, ReplaceFromRecovery,
         ReplaceError, RemoveAdopted, ImportError, ImportFailed, StageObject, CommitObject,
         RollbackObject, Import, catVars, Ended
<1>4. \A b \in Own : Life(b)' = Life(b) /\ Bytes(b)' = Bytes(b)
  BY <1>2, <1>3 DEF Life, Bytes
<1>q. QED BY <1>4, SameLives

\* The store is an ArtifactLife of the artifacts made here, for any number of
\* calls and artifacts: an id that was deleted is never listed again, and what
\* is listed has its bytes, through every race, error and restart of Manager.
THEOREM StoreKeepsItsPromise == Spec => ImplementsArtifactLife
<1>1. Init => Promise!Init
  <2> SUFFICES ASSUME Init PROVE Promise!Init
    OBVIOUS
  <2>1. \A b \in Own : Life(b) = "unused" /\ Bytes(b) = "none"
    BY DEF Init, CatInit, Life, Bytes, Own
  <2>q. QED BY <2>1 DEF Promise!Init
<1>2. Init => RowInv
  BY DEF Init, CatInit, RowInv
<1>3. CatInv /\ ImporterInv /\ RowInv /\ [Next]_vars => [Promise!Next]_Promise!vars
  <2> SUFFICES ASSUME CatInv, ImporterInv, RowInv, [Next]_vars
               PROVE  [Promise!Next]_Promise!vars
    OBVIOUS
  <2>1. CASE UNCHANGED catVars
    <3>1. \A b \in Own : Life(b)' = Life(b) /\ Bytes(b)' = Bytes(b)
      BY <2>1 DEF catVars, Life, Bytes
    <3>q. QED BY <3>1, SameLives
  <2>2. ASSUME NEW c \in Loaders, LoadStep(c) \/ \E o \in Local : Load(c, o)
        PROVE  UNCHANGED catVars
    BY <2>2 DEF LoadStep, LoadError, LoadPublish, LoadVerify, LoadRegister, Load
  <2>3. CASE StudioRestart
    BY <2>3, CallRefines DEF StudioRestart
  <2>q. QED BY <2>1, <2>2, <2>3, CreateRefines, DeleteRefines, CallRefines, ImportRefines
            DEF Next, vars
<1>4. CatInv /\ ImporterInv /\ RowInv /\ [Next]_vars => RowInv'
  BY RowStep
<1>q. QED BY <1>1, <1>2, <1>3, <1>4, StoreInductive, PTL DEF Spec, ImplementsArtifactLife, Promise!Spec

\* What the promise means for a deletion, or for a creation that failed: the
\* artifact's id never comes back to the catalogue, whoever retries or restarts.
THEOREM GoneIsForever ==
    Spec => [][\A a \in Own : Life(a) = "gone" => Life(a)' = "gone"]_vars
<1> DEFINE Final == \A a \in Own : Life(a) = "gone" => Life(a)' = "gone"
           lives == [b \in Own |-> Life(b)]
<1>1. ASSUME [Promise!Next]_Promise!vars PROVE Final
  <2> SUFFICES ASSUME NEW a \in Own, Life(a) = "gone" PROVE Life(a)' = "gone"
    OBVIOUS
  <2>0. lives[a] = "gone" /\ (lives[a])' = Life(a)'
    BY DEF Own
  <2>1. CASE UNCHANGED Promise!vars
    <3>1. lives' = lives
      BY <2>1 DEF Promise!vars
    <3> HIDE DEF lives
    <3>q. QED BY <2>0, <3>1
  <2>2. ASSUME NEW b \in Own,
               \/ Promise!Reserve(b) \/ Promise!Write(b) \/ Promise!List(b) \/ Promise!Hide(b)
               \/ Promise!Show(b) \/ Promise!Unlist(b) \/ Promise!Purge(b)
        PROVE  (lives[a])' = "gone"
    <3>1. lives' = lives \/ \E l : lives[b] # "gone" /\ lives' = [lives EXCEPT ![b] = l]
      BY <2>2 DEF Promise!Reserve, Promise!Write, Promise!List, Promise!Hide, Promise!Show,
                  Promise!Unlist, Promise!Purge, Promise!Turn, Promise!Move
    <3>2. DOMAIN lives = Own
      OBVIOUS
    <3> HIDE DEF lives
    <3>q. QED BY <2>0, <3>1, <3>2
  <2>3. ASSUME NEW S \in SUBSET Own, Promise!Abandon(S)
        PROVE  (lives[a])' = "gone"
    <3>1. lives' = [b \in Own |-> IF b \in S THEN "gone" ELSE lives[b]]
      BY <2>3 DEF Promise!Abandon
    <3> HIDE DEF lives
    <3>q. QED BY <2>0, <3>1
  <2>q. QED BY <1>1, <2>0, <2>1, <2>2, <2>3 DEF Promise!Next
<1>2. Spec => [][Promise!Next]_Promise!vars
  BY StoreKeepsItsPromise, PTL DEF ImplementsArtifactLife, Promise!Spec
<1>3. [Promise!Next]_Promise!vars => [Final]_vars
  BY <1>1
<1>q. QED BY <1>2, <1>3, PTL
=============================================================================
