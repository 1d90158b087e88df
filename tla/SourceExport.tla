----------------------------- MODULE SourceExport -----------------------------
(***************************************************************************)
(* The production of a recovery package (recoverypackage.producer) while   *)
(* the source library works: the management state is taken first, and then *)
(* the rows of the library are read again and their trees are copied one   *)
(* by one.  One package is made at a time; its target and its execution    *)
(* bundles are left out.                                                   *)
(***************************************************************************)
EXTENDS SourceLibrary

VARIABLE pack   \* the package under way

Steps == {"none", "state", "sources", "copy", "done"}

Packages == [pc : Steps,
             artifact : [Snapshots -> Artifacts \cup {None}],
             workspace : [Workspaces -> WorkspaceRows \cup {None}],
             listed : [Workspaces -> WorkspaceRows \cup {None}],
             todo : SUBSET (Snapshots \cup Workspaces),
             trees : SUBSET Trees,
             dirs : [Workspaces -> MaybeTree]]

NoPackage == [pc |-> "none",
              artifact |-> [s \in Snapshots |-> None],
              workspace |-> [w \in Workspaces |-> None],
              listed |-> [w \in Workspaces |-> None],
              todo |-> {}, trees |-> {}, dirs |-> [w \in Workspaces |-> None]]

\* Store.ExportRecovery: every row, in one transaction.
ExportState ==
    /\ pack.pc = "none"
    /\ pack' = [NoPackage EXCEPT !.pc = "state", !.artifact = artifact,
                                 !.workspace = workspace]

\* Library.ExportRecovery reads the rows again.
ListSources ==
    /\ pack.pc = "state"
    /\ pack' = [pack EXCEPT !.pc = "sources", !.listed = workspace,
                  !.todo = {s \in Snapshots : artifact[s] # None}
                           \cup {w \in Workspaces : workspace[w] # None}]

\* A snapshot is verified and copied; copyTree refuses to write a file that
\* is there, so a tree that two rows name is not copied twice.
ExportArtifact(s) ==
    /\ pack.pc = "sources" /\ s \in pack.todo
    /\ Usable(s) /\ artifact[s].tree \notin pack.trees
    /\ pack' = [pack EXCEPT !.trees = @ \cup {artifact[s].tree}, !.todo = @ \ {s}]

\* A workspace is hashed; its digest must be the one that was listed.
VerifyWorkspace(w) ==
    /\ pack.pc = "sources" /\ w \in pack.todo /\ pack.todo \cap Snapshots = {}
    /\ disk[w] = pack.listed[w].tree
    /\ pack' = [pack EXCEPT !.pc = "copy"]

ExportWorkspace(w) ==
    /\ pack.pc = "copy" /\ w \in pack.todo
    /\ pack' = [pack EXCEPT !.pc = "sources", !.dirs[w] = disk[w], !.todo = @ \ {w}]

FinishPackage ==
    /\ pack.pc = "sources" /\ pack.todo = {}
    /\ pack' = [pack EXCEPT !.pc = "done"]

\* An error ends the production and nothing of it is kept.
ExportFails == pack.pc \notin {"none", "done"} /\ pack' = NoPackage

Export ==
    /\ \/ ExportState \/ ListSources \/ FinishPackage \/ ExportFails
       \/ \E s \in Snapshots : ExportArtifact(s)
       \/ \E w \in Workspaces : VerifyWorkspace(w) \/ ExportWorkspace(w)
    /\ UNCHANGED vars

ExportInit == Init /\ pack = NoPackage

ExportNext == Export \/ (Next /\ UNCHANGED pack)

ExportSpec == ExportInit /\ [][ExportNext]_<<vars, pack>>

\* validateRecoverySourceShape and the checks of PrepareRecoveryImport: the
\* trees of the package are the ones its state names, no more and no fewer,
\* and each has the digest its row says.
PrepareRecoveryImport(p) ==
    /\ p.trees = {p.artifact[s].tree : s \in {a \in Snapshots : p.artifact[a] # None}}
    /\ \A w \in Workspaces :
          p.dirs[w] = IF p.workspace[w] = None THEN None ELSE p.workspace[w].tree

\* Every package that was produced can be restored.
PackagesRestore == pack.pc = "done" => PrepareRecoveryImport(pack)

=============================================================================
