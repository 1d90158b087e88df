---------------------------- MODULE SourceLibrary ----------------------------
(***************************************************************************)
(* The source library (internal/sourcelibrary): immutable snapshots named  *)
(* by their digest, mutable workspaces made from them, and the one Git     *)
(* branch custom modules are loaded from and pushed to.  Files, database   *)
(* rows and the branch change in separate steps; calls run concurrently,   *)
(* other people push to the branch, and the Studio process may stop.       *)
(*                                                                         *)
(* A digest stands for the tree it is the digest of.                       *)
(***************************************************************************)
CONSTANTS
    Calls,
    Trees,       \* contents of a source tree
    Releases,    \* the Core trees the released images embed
    Commits,     \* ids of commits on the branch
    Snapshots,   \* ids of snapshot rows
    Workspaces,  \* ids of workspaces
    None

VARIABLES
    stored,     \* what is at snapshots/sha256/<digest>
    artifact,   \* snapshot rows
    disk,       \* what is at workspaces/<id>
    workspace,  \* workspace rows
    history,    \* the commits of the branch
    head,       \* the branch
    call        \* the calls under way

vars == <<stored, artifact, disk, workspace, history, head, call>>

MaybeTree == Trees \cup {None}
MaybeCommit == Commits \cup {None}
Kinds == {"core", "custom"}

Artifacts == [kind : Kinds, commit : MaybeCommit, tree : Trees]

WorkspaceRows == [kind : Kinds, base : Snapshots, commit : MaybeCommit,
                  tree : Trees, synced : MaybeCommit]

\* A commit with its parent; made from a workspace, or by someone else.
History == [parent : MaybeCommit, tree : Trees, from : Workspaces \cup {None}]

ASSUME LibraryConstants ==
    /\ Releases \subseteq Trees
    /\ None \notin Trees \cup Commits \cup Snapshots \cup Workspaces
    /\ None \notin Artifacts \cup WorkspaceRows \cup History

Labels == {"idle", "import", "publish", "register", "copy", "insert", "edit",
           "hash", "update", "fetch", "take", "push", "confirm", "rehash", "mark"}

CallStates == [pc : Labels, pushing : BOOLEAN, kind : Kinds,
               commit : MaybeCommit, tree : MaybeTree,
               base : Snapshots \cup {None}, ws : Workspaces \cup {None}]

Idle == [pc |-> "idle", pushing |-> FALSE, kind |-> "core", commit |-> None,
         tree |-> None, base |-> None, ws |-> None]

TypeOK ==
    /\ stored \in [Trees -> MaybeTree]
    /\ artifact \in [Snapshots -> Artifacts \cup {None}]
    /\ disk \in [Workspaces -> MaybeTree]
    /\ workspace \in [Workspaces -> WorkspaceRows \cup {None}]
    /\ history \in [Commits -> History \cup {None}]
    /\ head \in Commits
    /\ call \in [Calls -> CallStates]

\* The branch exists; nothing has been imported yet.
Init ==
    /\ stored = [t \in Trees |-> None]
    /\ artifact = [s \in Snapshots |-> None]
    /\ disk = [w \in Workspaces |-> None]
    /\ workspace = [w \in Workspaces |-> None]
    /\ head \in Commits
    /\ \E t \in Trees : history = [k \in Commits |->
          IF k = head THEN [parent |-> None, tree |-> t, from |-> None] ELSE None]
    /\ call = [c \in Calls |-> Idle]

At(c, l) == call[c].pc = l

Goto(c, l) == call' = [call EXCEPT ![c].pc = l]

End(c) == call' = [call EXCEPT ![c] = Idle]

\* ResolveSecret holds the store's read lock while the remote works with the
\* token, so no transaction commits between the fetch and the last read of
\* the branch.
RemotePhase == {"fetch", "take", "push", "confirm"}

MayCommit == \A c \in Calls : call[c].pc \notin RemotePhase

\* Any step of a call may fail; the call reports an error and ends.
Fails(c) ==
    /\ ~At(c, "idle") /\ ~At(c, "insert")
    /\ End(c)
    /\ UNCHANGED <<stored, artifact, disk, workspace, history, head>>

-----------------------------------------------------------------------------
(* Snapshots.                                                              *)

BeginImport(c, k, commit, t) ==
    /\ At(c, "idle")
    /\ call' = [call EXCEPT ![c] = [Idle EXCEPT !.pc = "import", !.kind = k,
                                       !.commit = commit, !.tree = t]]
    /\ UNCHANGED <<stored, artifact, disk, workspace, history, head>>

\* The three embedded sources are imported alike; Core stands for them.
ImportEmbedded(c, t) == BeginImport(c, "core", None, t)

\* Fetch resolves the branch to a commit and copies the package out of it.
LoadCustomModule(c) == BeginImport(c, "custom", head, history[head].tree)

\* A custom module gets a fresh package id: no row is the same source as it.
Registered(c) ==
    /\ call[c].kind = "core"
    /\ \E s \in Snapshots :
          artifact[s] = [kind |-> "core", commit |-> None, tree |-> call[c].tree]

\* importSnapshot finds the row of this very source and verifies its tree.
ImportKnown(c) ==
    /\ At(c, "import") /\ Registered(c)
    /\ stored[call[c].tree] = call[c].tree
    /\ End(c)
    /\ UNCHANGED <<stored, artifact, disk, workspace, history, head>>

\* The tree is copied aside and hashed again, unless the digest is there.
\* A copy that differs, because the source changed meanwhile, ends the call.
StageSnapshot(c) ==
    /\ At(c, "import") /\ ~Registered(c)
    /\ Goto(c, IF stored[call[c].tree] = None THEN "publish" ELSE "register")
    /\ UNCHANGED <<stored, artifact, disk, workspace, history, head>>

\* Mutant: the copy is not hashed again and replaces what is there.
PublishSnapshot_Unchecked(c) ==
    /\ At(c, "publish")
    /\ \E copied \in Trees : stored' = [stored EXCEPT ![call[c].tree] = copied]
    /\ Goto(c, "register")
    /\ UNCHANGED <<artifact, disk, workspace, history, head>>

\* The rename publishes the copy, or fails because another import was faster.
PublishSnapshot(c) ==
    /\ At(c, "publish")
    /\ stored' = [stored EXCEPT ![call[c].tree] = IF @ = None THEN call[c].tree ELSE @]
    /\ Goto(c, "register")
    /\ UNCHANGED <<artifact, disk, workspace, history, head>>

\* The published tree is verified and its row inserted, which the uniqueness
\* of (kind, package, commit, digest) may refuse.
RegisterSnapshot(c) ==
    /\ At(c, "register") /\ MayCommit
    /\ stored[call[c].tree] = call[c].tree
    /\ ~Registered(c)
    /\ \E s \in Snapshots : artifact[s] = None /\ artifact' = [artifact EXCEPT ![s] =
          [kind |-> call[c].kind, commit |-> call[c].commit, tree |-> call[c].tree]]
    /\ End(c)
    /\ UNCHANGED <<stored, disk, workspace, history, head>>

-----------------------------------------------------------------------------
(* Workspaces.                                                             *)

\* Library.artifact: the row, whose tree is verified on every use.
Usable(s) == artifact[s] # None /\ stored[artifact[s].tree] = artifact[s].tree

BeginWorkspace(c, s, t) ==
    /\ At(c, "idle")
    /\ call' = [call EXCEPT ![c] =
                   [Idle EXCEPT !.pc = "copy", !.base = s, !.tree = t]]
    /\ UNCHANGED <<stored, artifact, disk, workspace, history, head>>

CreateWorkspace(c, s) == Usable(s) /\ BeginWorkspace(c, s, artifact[s].tree)

\* Git merges trees of which at most one side changed; whether it can merge
\* two changes, and into what, is up to Git.  Conflicts end the call.
threeWayMerge(old, local, new) ==
    IF local = old THEN {new} ELSE IF new \in {old, local} THEN {local} ELSE Trees

MergeCore(c, w, s) ==
    /\ workspace[w] # None /\ workspace[w].kind = "core"
    /\ Usable(workspace[w].base) /\ Usable(s) /\ artifact[s].kind = "core"
    /\ \E t \in threeWayMerge(artifact[workspace[w].base].tree, disk[w],
                              artifact[s].tree) : BeginWorkspace(c, s, t)

\* A fresh id, and a copy of the tree in the workspace's directory.
CopyWorkspace(c) ==
    /\ At(c, "copy")
    /\ \E w \in Workspaces :
          /\ disk[w] = None /\ workspace[w] = None
          /\ disk' = [disk EXCEPT ![w] = call[c].tree]
          /\ call' = [call EXCEPT ![c].ws = w, ![c].pc = "insert"]
    /\ UNCHANGED <<stored, artifact, workspace, history, head>>

\* Mutant: the copy is not hashed before its row is written.
InsertWorkspace_Unhashed(c) ==
    LET r == call[c] IN
    /\ At(c, "insert") /\ MayCommit
    /\ workspace' = [workspace EXCEPT ![r.ws] =
          [kind |-> artifact[r.base].kind, base |-> r.base,
           commit |-> artifact[r.base].commit, tree |-> None, synced |-> None]]
    /\ End(c)
    /\ UNCHANGED <<stored, artifact, disk, history, head>>

\* The copy is hashed and its row written.
InsertWorkspace(c) ==
    LET r == call[c] IN
    /\ At(c, "insert") /\ MayCommit
    /\ workspace' = [workspace EXCEPT ![r.ws] =
          [kind |-> artifact[r.base].kind, base |-> r.base,
           commit |-> artifact[r.base].commit, tree |-> r.tree, synced |-> None]]
    /\ End(c)
    /\ UNCHANGED <<stored, artifact, disk, history, head>>

\* The insert fails: the directory is removed again.
InsertFails(c) ==
    /\ At(c, "insert")
    /\ disk' = [disk EXCEPT ![call[c].ws] = None]
    /\ End(c)
    /\ UNCHANGED <<stored, artifact, workspace, history, head>>

OnWorkspace(c, w, l, pushing) ==
    /\ At(c, "idle") /\ workspace[w] # None
    /\ call' = [call EXCEPT ![c] =
                   [Idle EXCEPT !.pc = l, !.ws = w, !.pushing = pushing]]
    /\ UNCHANGED <<stored, artifact, disk, workspace, history, head>>

Apply(c, w) == OnWorkspace(c, w, "edit", FALSE)
RefreshWorkspace(c, w) == OnWorkspace(c, w, "hash", FALSE)

\* PushCustomModule refreshes the workspace first.
PushCustomModule(c, w) ==
    /\ workspace[w] # None /\ workspace[w].kind = "custom"
    /\ OnWorkspace(c, w, "hash", TRUE)

\* Apply writes or removes one file after the other.
WriteFile(c, t) ==
    /\ At(c, "edit")
    /\ disk' = [disk EXCEPT ![call[c].ws] = t]
    /\ UNCHANGED <<stored, artifact, workspace, history, head, call>>

Written(c) ==
    /\ At(c, "edit") /\ Goto(c, "hash")
    /\ UNCHANGED <<stored, artifact, disk, workspace, history, head>>

HashWorkspace(c) ==
    /\ \/ At(c, "hash") /\ call' = [call EXCEPT ![c].tree = disk[call[c].ws],
                                                 ![c].pc = "update"]
       \/ At(c, "rehash") /\ call' = [call EXCEPT ![c].tree = disk[call[c].ws],
                                                   ![c].pc = "mark"]
    /\ UNCHANGED <<stored, artifact, disk, workspace, history, head>>

UpdateSourceWorkspaceCurrent(c) ==
    LET r == call[c] IN
    /\ At(c, "update") /\ MayCommit
    /\ workspace' = [workspace EXCEPT ![r.ws].tree = r.tree, ![r.ws].synced = None]
    /\ IF r.pushing THEN Goto(c, "fetch") ELSE End(c)
    /\ UNCHANGED <<stored, artifact, disk, history, head>>

-----------------------------------------------------------------------------
(* Push.                                                                   *)

\* Mutant: the branch may have moved since the workspace was made.
PushFetch_Rebase(c) ==
    /\ At(c, "fetch")
    /\ call' = [call EXCEPT ![c].commit = head, ![c].pc = "take"]
    /\ UNCHANGED <<stored, artifact, disk, workspace, history, head>>

\* The branch must still be at the commit the workspace was made from.
PushFetch(c) ==
    /\ At(c, "fetch") /\ head = workspace[call[c].ws].commit
    /\ call' = [call EXCEPT ![c].commit = head, ![c].pc = "take"]
    /\ UNCHANGED <<stored, artifact, disk, workspace, history, head>>

\* The workspace is copied into the package's directory and committed there,
\* unless nothing changed.
PushTake(c) ==
    LET t == disk[call[c].ws] IN
    /\ At(c, "take") /\ t # history[call[c].commit].tree
    /\ call' = [call EXCEPT ![c].tree = t, ![c].pc = "push"]
    /\ UNCHANGED <<stored, artifact, disk, workspace, history, head>>

\* A push without force: it only moves a branch that has not moved.  The
\* answer may be lost; the call then reports drift or an error.
PushRef(c) ==
    LET r == call[c] IN
    /\ At(c, "push") /\ head = r.commit
    /\ \E k \in Commits :
          /\ history[k] = None
          /\ history' = [history EXCEPT ![k] =
                [parent |-> head, tree |-> r.tree, from |-> r.ws]]
          /\ head' = k
          /\ End(c) \/ call' = [call EXCEPT ![c].commit = k, ![c].pc = "confirm"]
    /\ UNCHANGED <<stored, artifact, disk, workspace>>

\* Mutant: what the branch holds after the push is not compared.
PushConfirm_Blind(c) ==
    /\ At(c, "confirm") /\ call' = [call EXCEPT ![c].commit = head, ![c].pc = "rehash"]
    /\ UNCHANGED <<stored, artifact, disk, workspace, history, head>>

\* The branch is read once more and must hold the commit just pushed.
PushConfirm(c) ==
    /\ At(c, "confirm") /\ head = call[c].commit /\ Goto(c, "rehash")
    /\ UNCHANGED <<stored, artifact, disk, workspace, history, head>>

MarkSourceWorkspaceSynchronized(c) ==
    LET r == call[c] IN
    /\ At(c, "mark") /\ MayCommit
    /\ workspace' = [workspace EXCEPT ![r.ws].synced = r.commit, ![r.ws].tree = r.tree]
    /\ End(c)
    /\ UNCHANGED <<stored, artifact, disk, history, head>>

\* Someone else pushes to the branch (external).
ForeignPush ==
    /\ \E k \in Commits, t \in Trees :
          /\ history[k] = None
          /\ history' = [history EXCEPT ![k] =
                [parent |-> head, tree |-> t, from |-> None]]
          /\ head' = k
    /\ UNCHANGED <<stored, artifact, disk, workspace, call>>

\* The Studio process stops; temporary copies are lost.
StudioStops ==
    /\ call' = [c \in Calls |-> Idle]
    /\ UNCHANGED <<stored, artifact, disk, workspace, history, head>>

Next ==
    \/ \E c \in Calls :
         \/ \E t \in Releases : ImportEmbedded(c, t)
         \/ LoadCustomModule(c) \/ ImportKnown(c) \/ StageSnapshot(c)
         \/ PublishSnapshot(c) \/ RegisterSnapshot(c) \/ Fails(c)
         \/ \E s \in Snapshots : CreateWorkspace(c, s)
                                 \/ \E w \in Workspaces : MergeCore(c, w, s)
         \/ CopyWorkspace(c) \/ InsertWorkspace(c) \/ InsertFails(c)
         \/ \E w \in Workspaces : Apply(c, w) \/ RefreshWorkspace(c, w)
                                  \/ PushCustomModule(c, w)
         \/ Written(c) \/ \E t \in Trees : WriteFile(c, t)
         \/ HashWorkspace(c) \/ UpdateSourceWorkspaceCurrent(c)
         \/ PushFetch(c) \/ PushTake(c) \/ PushRef(c) \/ PushConfirm(c)
         \/ MarkSourceWorkspaceSynchronized(c)
    \/ ForeignPush
    \/ StudioStops

Spec == Init /\ [][Next]_vars

-----------------------------------------------------------------------------
(* Properties.                                                             *)

\* Every row has its bytes: the tree a snapshot row names is there and has
\* the digest of its name, and a workspace row has a directory and a base,
\* whatever imports run at once and wherever the process stops.
RowsHaveTheirTrees ==
    /\ \A s \in Snapshots : artifact[s] # None => Usable(s)
    /\ \A w \in Workspaces : workspace[w] # None
          => disk[w] # None /\ artifact[workspace[w].base] # None

\* No push undoes what others pushed: the parent of a commit made from a
\* workspace is the very commit the workspace's files were taken from.
PushesBuildOnTheirBase ==
    \A k \in Commits : history[k] # None /\ history[k].from # None
        => LET w == workspace[history[k].from] IN
           w # None /\ history[k].parent = w.commit

\* A workspace marked as synchronized names a commit of the branch that was
\* made from this workspace, never one that somebody else pushed.
SynchronizedWithOwnCommit ==
    \A w \in Workspaces : workspace[w] # None /\ workspace[w].synced # None
        => history[workspace[w].synced] # None
           /\ history[workspace[w].synced].from = w

=============================================================================
