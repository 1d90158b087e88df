------------------------- MODULE SourceLibraryProofs -------------------------
(***************************************************************************)
(* Proofs about SourceLibrary, for any number of calls, trees, commits,    *)
(* snapshots and workspaces.                                               *)
(***************************************************************************)
EXTENDS SourceLibrary, TLAPS

OnTree == {"import", "publish", "register", "copy", "insert", "update", "push", "mark"}
OnBase == {"copy", "insert"}
OnRow == {"edit", "hash", "update", "fetch", "take", "push", "confirm", "rehash", "mark"}
OnParent == {"take", "push"}
OnOwnCommit == {"confirm", "rehash", "mark"}

\* What the label of a call says about what it has read so far.
CallOK(r) ==
    /\ r.pc \in OnTree => r.tree \in Trees
    /\ r.pc \in OnBase => r.base \in Snapshots /\ artifact[r.base] # None
    /\ r.pc \in OnRow => r.ws \in Workspaces /\ workspace[r.ws] # None
    /\ r.pc \in OnParent => /\ r.commit \in Commits /\ history[r.commit] # None
                            /\ r.commit = workspace[r.ws].commit
    /\ r.pc \in OnOwnCommit => /\ r.commit \in Commits /\ history[r.commit] # None
                               /\ history[r.commit].from = r.ws
    /\ r.pc = "insert" => r.ws \in Workspaces /\ workspace[r.ws] = None /\ disk[r.ws] # None

CallInv == \A c \in Calls : CallOK(call[c])

\* A directory that is being filled belongs to one call.
OwnDirectory ==
    \A c, d \in Calls : c # d /\ At(c, "insert") /\ At(d, "insert") => call[c].ws # call[d].ws

\* A digest names its own tree or nothing.
StoredInv == \A t \in Trees : stored[t] \in {None, t}

HeadInv == history[head] # None

LibraryInv ==
    /\ TypeOK /\ CallInv /\ OwnDirectory /\ StoredInv /\ HeadInv
    /\ RowsHaveTheirTrees /\ PushesBuildOnTheirBase /\ SynchronizedWithOwnCommit

-----------------------------------------------------------------------------
(* The initial state, and steps that only move one call.                   *)

LEMMA IdleType == Idle \in CallStates
  BY DEF Idle, CallStates, Labels, Kinds, MaybeCommit, MaybeTree

LEMMA IdleIsOK == Idle.pc = "idle" /\ CallOK(Idle)
  BY DEF Idle, CallOK, OnTree, OnBase, OnRow, OnParent, OnOwnCommit

LEMMA LibraryInit == Init => LibraryInv
<1> SUFFICES ASSUME Init PROVE LibraryInv
  OBVIOUS
<1>1. PICK t \in Trees : history = [k \in Commits |->
         IF k = head THEN [parent |-> None, tree |-> t, from |-> None] ELSE None]
  BY DEF Init
<1>2. [parent |-> None, tree |-> t, from |-> None] \in History
  BY DEF History, MaybeCommit
<1>3. TypeOK
  BY <1>1, <1>2, IdleType DEF Init, TypeOK, MaybeTree
<1>4. CallInv /\ OwnDirectory
  BY IdleIsOK DEF Init, CallInv, OwnDirectory, At
<1>5. StoredInv /\ RowsHaveTheirTrees /\ SynchronizedWithOwnCommit
  BY DEF Init, StoredInv, RowsHaveTheirTrees, SynchronizedWithOwnCommit
<1>6. HeadInv
  BY <1>1, <1>2, LibraryConstants DEF Init, HeadInv
<1>7. PushesBuildOnTheirBase
  BY <1>1 DEF PushesBuildOnTheirBase
<1> QED
  BY <1>3, <1>4, <1>5, <1>6, <1>7 DEF LibraryInv

\* A call may take any state that its label allows.
LEMMA CallStep ==
    ASSUME LibraryInv, NEW c \in Calls, NEW r \in CallStates, CallOK(r), r.pc # "insert",
           call' = [call EXCEPT ![c] = r],
           UNCHANGED <<stored, artifact, disk, workspace, history, head>>
    PROVE  LibraryInv'
<1>1. TypeOK'
  BY DEF LibraryInv, TypeOK
<1>2. CallInv'
  BY DEF LibraryInv, TypeOK, CallInv, CallOK
<1>3. OwnDirectory'
  BY DEF LibraryInv, TypeOK, OwnDirectory, At
<1>4. StoredInv' /\ HeadInv' /\ PushesBuildOnTheirBase' /\ SynchronizedWithOwnCommit'
  BY DEF LibraryInv, StoredInv, HeadInv, PushesBuildOnTheirBase, SynchronizedWithOwnCommit
<1>5. RowsHaveTheirTrees'
  BY DEF LibraryInv, RowsHaveTheirTrees, Usable
<1> QED
  BY <1>1, <1>2, <1>3, <1>4, <1>5 DEF LibraryInv

LEMMA EndStep ==
    ASSUME LibraryInv, NEW c \in Calls, End(c),
           UNCHANGED <<stored, artifact, disk, workspace, history, head>>
    PROVE  LibraryInv'
  BY IdleType, IdleIsOK, CallStep DEF End

LEMMA GotoStep ==
    ASSUME LibraryInv, NEW c \in Calls, NEW l \in Labels, l # "insert", Goto(c, l),
           CallOK([call[c] EXCEPT !.pc = l]),
           UNCHANGED <<stored, artifact, disk, workspace, history, head>>
    PROVE  LibraryInv'
<1>1. [call[c] EXCEPT !.pc = l] \in CallStates /\ [call[c] EXCEPT !.pc = l].pc = l
  BY DEF LibraryInv, TypeOK, CallStates
<1>2. call' = [call EXCEPT ![c] = [call[c] EXCEPT !.pc = l]]
  BY DEF LibraryInv, TypeOK, Goto
<1> QED
  BY <1>1, <1>2, CallStep

LEMMA CallsAreOK ==
    ASSUME LibraryInv, NEW c \in Calls PROVE CallOK(call[c]) /\ call[c] \in CallStates
  BY DEF LibraryInv, TypeOK, CallInv

LEMMA ImportSteps ==
    ASSUME LibraryInv, NEW c \in Calls,
           \/ \E t \in Releases : ImportEmbedded(c, t)
           \/ LoadCustomModule(c) \/ ImportKnown(c) \/ StageSnapshot(c) \/ Fails(c)
    PROVE  LibraryInv'
<1>1. ASSUME NEW k \in Kinds, NEW commit \in MaybeCommit, NEW t \in Trees,
             BeginImport(c, k, commit, t)
      PROVE  LibraryInv'
  <2> DEFINE r == [Idle EXCEPT !.pc = "import", !.kind = k, !.commit = commit, !.tree = t]
  <2>1. r \in CallStates /\ CallOK(r) /\ r.pc # "insert"
    BY DEF Idle, CallStates, Labels, MaybeTree, CallOK, OnTree, OnBase, OnRow, OnParent,
       OnOwnCommit
  <2>2. call' = [call EXCEPT ![c] = r]
    BY <1>1 DEF BeginImport
  <2> HIDE DEF r
  <2> QED
    BY <1>1, <2>1, <2>2, CallStep DEF BeginImport
<1>2. CASE \E t \in Releases : ImportEmbedded(c, t)
  BY <1>1, <1>2, LibraryConstants DEF ImportEmbedded, Kinds, MaybeCommit
<1>3. CASE LoadCustomModule(c)
  <2>1. head \in Commits /\ history[head] \in History
    BY DEF LibraryInv, TypeOK, HeadInv
  <2> QED
    BY <1>1, <1>3, <2>1 DEF LoadCustomModule, Kinds, MaybeCommit, History
<1>4. CASE ImportKnown(c)
  BY <1>4, EndStep DEF ImportKnown
<1>5. CASE StageSnapshot(c)
  <2>1. \A l \in {"publish", "register"} :
           l \in Labels /\ l # "insert" /\ CallOK([call[c] EXCEPT !.pc = l])
    BY <1>5, CallsAreOK DEF StageSnapshot, At, CallOK, CallStates, Labels, OnTree, OnBase,
       OnRow, OnParent, OnOwnCommit
  <2> QED
    BY <1>5, <2>1, GotoStep DEF StageSnapshot
<1>6. CASE Fails(c)
  BY <1>6, EndStep DEF Fails
<1> QED
  BY <1>2, <1>3, <1>4, <1>5, <1>6

\* Rows, commits and directories are only ever added, and a row keeps its
\* commit: what another call has read stays true.
LEMMA OtherCalls ==
    ASSUME LibraryInv, NEW d \in Calls, call'[d] = call[d],
           \A s \in Snapshots : artifact[s] # None => artifact'[s] # None,
           \A w \in Workspaces : workspace[w] # None
              => workspace'[w] # None /\ workspace'[w].commit = workspace[w].commit,
           \A k \in Commits : history[k] # None => history'[k] = history[k],
           At(d, "insert") => workspace'[call[d].ws] = None /\ disk'[call[d].ws] # None
    PROVE  CallOK(call[d])'
<1>1. CallOK(call[d])
  BY CallsAreOK
<1> QED
  BY <1>1 DEF CallOK, At, OnTree, OnBase, OnRow, OnParent, OnOwnCommit

LEMMA OneCallMoves ==
    ASSUME LibraryInv, NEW c \in Calls, NEW r, call' = [call EXCEPT ![c] = r]
    PROVE  call'[c] = r /\ \A d \in Calls \ {c} : call'[d] = call[d]
  BY DEF LibraryInv, TypeOK

LEMMA PublishSteps ==
    ASSUME LibraryInv, NEW c \in Calls, PublishSnapshot(c) \/ RegisterSnapshot(c)
    PROVE  LibraryInv'
<1>1. CASE PublishSnapshot(c)
  <2> DEFINE t == call[c].tree
             r == [call[c] EXCEPT !.pc = "register"]
  <2>1. t \in Trees /\ call[c] \in CallStates /\ CallOK(call[c])
    BY <1>1, CallsAreOK DEF PublishSnapshot, At, CallOK, OnTree
  <2>2. r \in CallStates /\ call' = [call EXCEPT ![c] = r]
    BY <1>1, <2>1 DEF PublishSnapshot, Goto, CallStates, Labels, LibraryInv, TypeOK
  <2>3. CallOK(r) /\ r.pc # "insert"
    BY <2>1 DEF CallStates, CallOK, OnTree, OnBase, OnRow, OnParent, OnOwnCommit
  <2>4. stored' \in [Trees -> MaybeTree] /\ StoredInv'
        /\ \A x \in Trees : stored[x] = x => stored'[x] = x
    BY <1>1, <2>1 DEF PublishSnapshot, LibraryInv, TypeOK, StoredInv, MaybeTree
  <2> HIDE DEF r, t
  <2>5. TypeOK'
    BY <1>1, <2>2, <2>4 DEF PublishSnapshot, LibraryInv, TypeOK
  <2>6. CallInv' /\ OwnDirectory'
    BY <1>1, <2>2, <2>3, OneCallMoves
       DEF PublishSnapshot, LibraryInv, CallInv, CallOK, OwnDirectory, At
  <2>7. RowsHaveTheirTrees'
    <3>1. \A s \in Snapshots : artifact[s] # None => artifact[s].tree \in Trees
      BY DEF LibraryInv, TypeOK, Artifacts
    <3> QED
      BY <1>1, <2>4, <3>1 DEF PublishSnapshot, LibraryInv, RowsHaveTheirTrees, Usable
  <2>8. HeadInv' /\ PushesBuildOnTheirBase' /\ SynchronizedWithOwnCommit'
    BY <1>1 DEF PublishSnapshot, LibraryInv, HeadInv, PushesBuildOnTheirBase,
       SynchronizedWithOwnCommit
  <2> QED
    BY <2>4, <2>5, <2>6, <2>7, <2>8 DEF LibraryInv
<1>2. CASE RegisterSnapshot(c)
  <2> DEFINE a == [kind |-> call[c].kind, commit |-> call[c].commit, tree |-> call[c].tree]
  <2>1. call[c].tree \in Trees /\ call[c] \in CallStates
    BY <1>2, CallsAreOK DEF RegisterSnapshot, At, CallOK, OnTree
  <2>2. a \in Artifacts /\ a # None /\ a.tree = call[c].tree
    BY <2>1, LibraryConstants DEF Artifacts, CallStates
  <2>3. PICK s \in Snapshots : artifact[s] = None /\ artifact' = [artifact EXCEPT ![s] = a]
    BY <1>2 DEF RegisterSnapshot
  <2>4. call' = [call EXCEPT ![c] = Idle] /\ stored[a.tree] = a.tree
        /\ UNCHANGED <<stored, disk, workspace, history, head>>
    BY <1>2, <2>2 DEF RegisterSnapshot, End
  <2> HIDE DEF a
  <2>5. TypeOK'
    BY <2>2, <2>3, <2>4, IdleType DEF LibraryInv, TypeOK
  <2>6. \A x \in Snapshots : artifact[x] # None => artifact'[x] = artifact[x]
    BY <2>3 DEF LibraryInv, TypeOK
  <2>7. CallInv'
    <3>1. CallOK(call[c])'
      BY <2>4, IdleIsOK, OneCallMoves DEF CallOK, OnTree, OnBase, OnRow, OnParent,
         OnOwnCommit
    <3>2. ASSUME NEW d \in Calls \ {c} PROVE CallOK(call[d])'
      BY <2>4, <2>6, <3>2, OneCallMoves DEF LibraryInv, CallInv, CallOK
    <3> QED
      BY <3>1, <3>2 DEF CallInv
  <2>8. OwnDirectory'
    BY <2>4, IdleIsOK, OneCallMoves DEF LibraryInv, OwnDirectory, At
  <2>9. RowsHaveTheirTrees'
    <3>1. \A x \in Snapshots : artifact'[x] = IF x = s THEN a ELSE artifact[x]
      BY <2>3 DEF LibraryInv, TypeOK
    <3>2. \A w \in Workspaces : workspace[w] # None => workspace[w].base \in Snapshots
      BY DEF LibraryInv, TypeOK, WorkspaceRows
    <3> QED
      BY <2>2, <2>4, <2>6, <3>1, <3>2 DEF LibraryInv, RowsHaveTheirTrees, Usable
  <2>10. StoredInv' /\ HeadInv' /\ PushesBuildOnTheirBase' /\ SynchronizedWithOwnCommit'
    BY <2>4 DEF LibraryInv, StoredInv, HeadInv, PushesBuildOnTheirBase,
       SynchronizedWithOwnCommit
  <2> QED
    BY <2>5, <2>7, <2>8, <2>9, <2>10 DEF LibraryInv
<1> QED
  BY <1>1, <1>2

-----------------------------------------------------------------------------
(* Workspaces.                                                             *)

LEMMA BaseOfRow ==
    ASSUME LibraryInv, NEW w \in Workspaces, workspace[w] # None
    PROVE  /\ workspace[w] \in WorkspaceRows /\ disk[w] \in Trees
           /\ workspace[w].base \in Snapshots /\ artifact[workspace[w].base] \in Artifacts
  BY DEF LibraryInv, TypeOK, MaybeTree, WorkspaceRows, RowsHaveTheirTrees

LEMMA BeginWorkspaceStep ==
    ASSUME LibraryInv, NEW c \in Calls,
           \E s \in Snapshots : CreateWorkspace(c, s)
                                \/ \E w \in Workspaces : MergeCore(c, w, s)
    PROVE  LibraryInv'
<1>1. PICK s \in Snapshots : CreateWorkspace(c, s) \/ \E w \in Workspaces : MergeCore(c, w, s)
  OBVIOUS
<1>2. artifact[s] # None /\ artifact[s] \in Artifacts
  BY <1>1 DEF CreateWorkspace, MergeCore, Usable, LibraryInv, TypeOK
<1>3. ASSUME NEW t \in Trees, BeginWorkspace(c, s, t) PROVE LibraryInv'
  <2> DEFINE r == [Idle EXCEPT !.pc = "copy", !.base = s, !.tree = t]
  <2>1. r \in CallStates /\ CallOK(r) /\ r.pc # "insert"
    BY <1>2 DEF Idle, CallStates, Labels, MaybeTree, MaybeCommit, Kinds, CallOK, OnTree,
       OnBase, OnRow, OnParent, OnOwnCommit
  <2>2. call' = [call EXCEPT ![c] = r]
    BY <1>3 DEF BeginWorkspace
  <2> HIDE DEF r
  <2> QED
    BY <1>3, <2>1, <2>2, CallStep DEF BeginWorkspace
<1>4. CASE CreateWorkspace(c, s)
  BY <1>2, <1>3, <1>4 DEF CreateWorkspace, Artifacts
<1>5. ASSUME NEW w \in Workspaces, MergeCore(c, w, s) PROVE LibraryInv'
  <2>1. PICK t \in threeWayMerge(artifact[workspace[w].base].tree, disk[w],
                                 artifact[s].tree) : BeginWorkspace(c, s, t)
    BY <1>5 DEF MergeCore
  <2>2. t \in Trees
    BY <1>2, <1>5, <2>1, BaseOfRow DEF MergeCore, threeWayMerge, Artifacts
  <2> QED
    BY <1>3, <2>1, <2>2
<1> QED
  BY <1>1, <1>4, <1>5

\* A new directory is nobody else's.
LEMMA CopyStep ==
    ASSUME LibraryInv, NEW c \in Calls, CopyWorkspace(c) PROVE LibraryInv'
<1>1. PICK w \in Workspaces :
         /\ disk[w] = None /\ workspace[w] = None
         /\ disk' = [disk EXCEPT ![w] = call[c].tree]
         /\ call' = [call EXCEPT ![c].ws = w, ![c].pc = "insert"]
  BY DEF CopyWorkspace
<1> DEFINE r == [call[c] EXCEPT !.ws = w, !.pc = "insert"]
<1>2. CallOK(call[c]) /\ call[c] \in CallStates /\ call[c].pc = "copy"
      /\ UNCHANGED <<stored, artifact, workspace, history, head>>
  BY CallsAreOK DEF CopyWorkspace, At
<1>3. call[c].tree \in Trees /\ call[c].tree # None /\ call[c].base \in Snapshots
      /\ artifact[call[c].base] # None
  BY <1>2, LibraryConstants DEF CallOK, OnTree, OnBase
<1>4. r \in CallStates /\ call' = [call EXCEPT ![c] = r] /\ r.pc = "insert" /\ r.ws = w
      /\ r.tree = call[c].tree /\ r.base = call[c].base
  BY <1>1, <1>2 DEF CallStates, Labels, LibraryInv, TypeOK
<1> HIDE DEF r
<1>5. disk' \in [Workspaces -> MaybeTree] /\ disk'[w] # None
      /\ \A x \in Workspaces : disk[x] # None => disk'[x] # None
  BY <1>1, <1>3 DEF LibraryInv, TypeOK, MaybeTree
<1>6. TypeOK'
  BY <1>2, <1>4, <1>5 DEF LibraryInv, TypeOK
<1>7. call'[c] = r /\ r.ws = w /\ \A d \in Calls \ {c} : call'[d] = call[d]
  BY <1>4, OneCallMoves
<1>8. CallInv'
  <2>1. CallOK(call[c])'
    BY <1>1, <1>2, <1>3, <1>4, <1>5, <1>7 DEF CallOK, OnTree, OnBase, OnRow, OnParent,
       OnOwnCommit
  <2>2. ASSUME NEW d \in Calls \ {c} PROVE CallOK(call[d])'
    BY <1>2, <1>5, <1>7, <2>2, CallsAreOK DEF CallOK
  <2> QED
    BY <2>1, <2>2 DEF CallInv
<1>9. OwnDirectory'
  <2>1. \A d \in Calls : call[d].pc = "insert" => call[d].ws # w
    BY <1>1, CallsAreOK DEF CallOK
  <2>2. \A d, e \in Calls : d # e /\ call[d].pc = "insert" /\ call[e].pc = "insert"
           => call[d].ws # call[e].ws
    BY DEF LibraryInv, OwnDirectory, At
  <2>3. ASSUME NEW d \in Calls, NEW e \in Calls, d # e,
               call'[d].pc = "insert", call'[e].pc = "insert"
        PROVE  call'[d].ws # call'[e].ws
    BY <1>7, <2>1, <2>2, <2>3
  <2> QED
    BY <2>3 DEF OwnDirectory, At
<1>10. RowsHaveTheirTrees'
  BY <1>2, <1>5 DEF LibraryInv, RowsHaveTheirTrees, Usable
<1>11. StoredInv' /\ HeadInv' /\ PushesBuildOnTheirBase' /\ SynchronizedWithOwnCommit'
  BY <1>2 DEF LibraryInv, StoredInv, HeadInv, PushesBuildOnTheirBase, SynchronizedWithOwnCommit
<1> QED
  BY <1>6, <1>8, <1>9, <1>10, <1>11 DEF LibraryInv

\* A step that writes one workspace row, and moves one call that is not
\* filling another directory.
LEMMA RowStep ==
    ASSUME LibraryInv, NEW c \in Calls, NEW r \in CallStates, NEW w \in Workspaces,
           NEW row \in WorkspaceRows,
           call' = [call EXCEPT ![c] = r], CallOK(r)', r.pc # "insert",
           workspace' = [workspace EXCEPT ![w] = row],
           workspace[w] # None => row.commit = workspace[w].commit,
           disk[w] # None, artifact[row.base] # None,
           row.synced # None => row.synced \in Commits /\ history[row.synced] # None
                                /\ history[row.synced].from = w,
           \A d \in Calls \ {c} : At(d, "insert") => call[d].ws # w,
           UNCHANGED <<stored, artifact, disk, history, head>>
    PROVE  LibraryInv'
<1>1. row # None
  BY LibraryConstants
<1>2. TypeOK'
  BY DEF LibraryInv, TypeOK
<1>3. \A x \in Workspaces : workspace'[x] = IF x = w THEN row ELSE workspace[x]
  BY DEF LibraryInv, TypeOK
<1>4. call'[c] = r /\ \A d \in Calls \ {c} : call'[d] = call[d]
  BY OneCallMoves
<1>5. CallInv'
  <2>1. ASSUME NEW d \in Calls \ {c} PROVE CallOK(call[d])'
    <3>1. CallOK(call[d])
      BY CallsAreOK
    <3>2. At(d, "insert") => workspace'[call[d].ws] = None /\ disk'[call[d].ws] # None
      BY <1>3, <3>1 DEF At, CallOK
    <3> QED
      BY <1>1, <1>3, <1>4, <3>2, OtherCalls
  <2>2. CallOK(call[c])'
    BY <1>4
  <2> QED
    BY <2>1, <2>2 DEF CallInv
<1>6. OwnDirectory'
  BY <1>4 DEF LibraryInv, OwnDirectory, At
<1>7. RowsHaveTheirTrees'
  BY <1>3 DEF LibraryInv, RowsHaveTheirTrees, Usable
<1>8. PushesBuildOnTheirBase'
  <2>1. \A k \in Commits : history[k] # None => history[k].from \in Workspaces \cup {None}
    BY DEF LibraryInv, TypeOK, History
  <2> QED
    BY <1>1, <1>3, <2>1 DEF LibraryInv, PushesBuildOnTheirBase
<1>9. SynchronizedWithOwnCommit'
  BY <1>3 DEF LibraryInv, SynchronizedWithOwnCommit
<1>10. StoredInv' /\ HeadInv'
  BY DEF LibraryInv, StoredInv, HeadInv
<1> QED
  BY <1>2, <1>5, <1>6, <1>7, <1>8, <1>9, <1>10 DEF LibraryInv

LEMMA InsertSteps ==
    ASSUME LibraryInv, NEW c \in Calls, InsertWorkspace(c) \/ InsertFails(c)
    PROVE  LibraryInv'
<1> DEFINE w == call[c].ws
           b == call[c].base
<1>1. /\ call[c] \in CallStates /\ call[c].tree \in Trees /\ w \in Workspaces
      /\ b \in Snapshots /\ artifact[b] # None /\ workspace[w] = None /\ disk[w] # None
  BY CallsAreOK DEF InsertWorkspace, InsertFails, At, CallOK, OnTree, OnBase
<1>2. \A d \in Calls \ {c} : At(d, "insert") => call[d].ws # w
  BY DEF InsertWorkspace, InsertFails, LibraryInv, OwnDirectory
<1>3. call' = [call EXCEPT ![c] = Idle] /\ UNCHANGED <<stored, artifact, history, head>>
  BY DEF InsertWorkspace, InsertFails, End
<1>4. CASE InsertWorkspace(c)
  <2> DEFINE row == [kind |-> artifact[b].kind, base |-> b, commit |-> artifact[b].commit,
                     tree |-> call[c].tree, synced |-> None]
  <2>1. artifact[b] \in Artifacts
    BY <1>1 DEF LibraryInv, TypeOK
  <2>2. row \in WorkspaceRows /\ row.synced = None /\ row.base = b
    BY <1>1, <2>1 DEF WorkspaceRows, Artifacts, MaybeCommit
  <2>3. workspace' = [workspace EXCEPT ![w] = row] /\ UNCHANGED disk
    BY <1>4 DEF InsertWorkspace
  <2>4. CallOK(Idle)' /\ Idle.pc # "insert"
    BY IdleIsOK DEF CallOK, OnTree, OnBase, OnRow, OnParent, OnOwnCommit
  <2> HIDE DEF row, w, b
  <2> QED
    BY <1>1, <1>2, <1>3, <2>2, <2>3, <2>4, IdleType, RowStep
<1>5. CASE InsertFails(c)
  <2>1. disk' = [disk EXCEPT ![w] = None] /\ UNCHANGED workspace
    BY <1>5 DEF InsertFails
  <2> HIDE DEF w, b
  <2>2. \A x \in Workspaces : disk'[x] = IF x = w THEN None ELSE disk[x]
    BY <2>1 DEF LibraryInv, TypeOK
  <2>3. call'[c] = Idle /\ \A d \in Calls \ {c} : call'[d] = call[d]
    BY <1>3, OneCallMoves
  <2>4. TypeOK'
    BY <1>3, <2>1, IdleType DEF LibraryInv, TypeOK, MaybeTree
  <2>5. CallInv'
    <3>1. CallOK(call[c])'
      BY <2>3, IdleIsOK DEF CallOK, OnTree, OnBase, OnRow, OnParent, OnOwnCommit
    <3>2. ASSUME NEW d \in Calls \ {c} PROVE CallOK(call[d])'
      <4>1. CallOK(call[d])
        BY CallsAreOK
      <4>2. At(d, "insert") => workspace'[call[d].ws] = None /\ disk'[call[d].ws] # None
        BY <1>2, <2>1, <2>2, <4>1 DEF At, CallOK
      <4> QED
        BY <1>3, <2>1, <2>3, <4>2, OtherCalls
    <3> QED
      BY <3>1, <3>2 DEF CallInv
  <2>6. OwnDirectory'
    BY <2>3, IdleIsOK DEF LibraryInv, OwnDirectory, At
  <2>7. RowsHaveTheirTrees'
    BY <1>1, <1>3, <2>1, <2>2 DEF LibraryInv, RowsHaveTheirTrees, Usable
  <2>8. StoredInv' /\ HeadInv' /\ PushesBuildOnTheirBase' /\ SynchronizedWithOwnCommit'
    BY <1>3, <2>1 DEF LibraryInv, StoredInv, HeadInv, PushesBuildOnTheirBase,
       SynchronizedWithOwnCommit
  <2> QED
    BY <2>4, <2>5, <2>6, <2>7, <2>8 DEF LibraryInv
<1> QED
  BY <1>4, <1>5

LEMMA WorkspaceCalls ==
    ASSUME LibraryInv, NEW c \in Calls,
           \E w \in Workspaces : Apply(c, w) \/ RefreshWorkspace(c, w) \/ PushCustomModule(c, w)
    PROVE  LibraryInv'
<1>1. PICK w \in Workspaces, l \in {"edit", "hash"}, p \in BOOLEAN : OnWorkspace(c, w, l, p)
  BY DEF Apply, RefreshWorkspace, PushCustomModule
<1> DEFINE r == [Idle EXCEPT !.pc = l, !.ws = w, !.pushing = p]
<1>2. r \in CallStates /\ CallOK(r) /\ r.pc # "insert"
  BY <1>1 DEF OnWorkspace, Idle, CallStates, Labels, MaybeTree, MaybeCommit, Kinds, CallOK,
     OnTree, OnBase, OnRow, OnParent, OnOwnCommit
<1>3. call' = [call EXCEPT ![c] = r]
  BY <1>1 DEF OnWorkspace
<1> HIDE DEF r
<1> QED
  BY <1>1, <1>2, <1>3, CallStep DEF OnWorkspace

LEMMA EditSteps ==
    ASSUME LibraryInv, NEW c \in Calls,
           Written(c) \/ HashWorkspace(c) \/ \E t \in Trees : WriteFile(c, t)
    PROVE  LibraryInv'
<1> DEFINE w == call[c].ws
<1>1. call[c] \in CallStates /\ CallOK(call[c]) /\ w \in Workspaces /\ workspace[w] # None
  BY CallsAreOK DEF Written, HashWorkspace, WriteFile, At, CallOK, OnRow
<1>2. CASE Written(c)
  <2>1. CallOK([call[c] EXCEPT !.pc = "hash"]) /\ "hash" \in Labels
    BY <1>1 DEF CallOK, CallStates, Labels, OnTree, OnBase, OnRow, OnParent, OnOwnCommit
  <2> QED
    BY <1>2, <2>1, GotoStep DEF Written
<1>3. CASE HashWorkspace(c)
  <2>1. disk[w] \in Trees
    BY <1>1, BaseOfRow
  <2>2. PICK l \in {"update", "mark"} :
           /\ call' = [call EXCEPT ![c].tree = disk[w], ![c].pc = l]
           /\ call[c].pc = (IF l = "mark" THEN "rehash" ELSE "hash")
    BY <1>3 DEF HashWorkspace, At
  <2> DEFINE r == [call[c] EXCEPT !.tree = disk[w], !.pc = l]
  <2>3. call' = [call EXCEPT ![c] = r]
    BY <1>1, <2>2 DEF LibraryInv, TypeOK
  <2>4. r \in CallStates /\ r.pc = l /\ r.tree = disk[w] /\ r.ws = w /\ r.commit = call[c].commit
    BY <1>1, <2>1, <2>2 DEF CallStates, Labels, MaybeTree
  <2> HIDE DEF r, w
  <2>5. CallOK(r)
    BY <1>1, <2>1, <2>2, <2>4 DEF w, CallOK, OnTree, OnBase, OnRow, OnParent, OnOwnCommit
  <2> QED
    BY <1>3, <2>3, <2>4, <2>5, CallStep DEF HashWorkspace
<1>4. ASSUME NEW t \in Trees, WriteFile(c, t) PROVE LibraryInv'
  <2>1. disk' = [disk EXCEPT ![w] = t]
        /\ UNCHANGED <<stored, artifact, workspace, history, head, call>>
    BY <1>4 DEF WriteFile
  <2>2. \A x \in Workspaces : disk[x] # None => disk'[x] # None
    BY <2>1, LibraryConstants DEF LibraryInv, TypeOK
  <2> HIDE DEF w
  <2>3. TypeOK'
    BY <2>1 DEF LibraryInv, TypeOK, MaybeTree
  <2>4. CallInv' /\ OwnDirectory'
    BY <2>1, <2>2 DEF LibraryInv, CallInv, CallOK, OwnDirectory, At
  <2>5. RowsHaveTheirTrees'
    BY <2>1, <2>2 DEF LibraryInv, RowsHaveTheirTrees, Usable
  <2>6. StoredInv' /\ HeadInv' /\ PushesBuildOnTheirBase' /\ SynchronizedWithOwnCommit'
    BY <2>1 DEF LibraryInv, StoredInv, HeadInv, PushesBuildOnTheirBase,
       SynchronizedWithOwnCommit
  <2> QED
    BY <2>3, <2>4, <2>5, <2>6 DEF LibraryInv
<1> QED
  BY <1>2, <1>3, <1>4

LEMMA RowUpdates ==
    ASSUME LibraryInv, NEW c \in Calls,
           UpdateSourceWorkspaceCurrent(c) \/ MarkSourceWorkspaceSynchronized(c)
    PROVE  LibraryInv'
<1> DEFINE w == call[c].ws
           t == call[c].tree
           k == IF At(c, "mark") THEN call[c].commit ELSE None
           row == [workspace[w] EXCEPT !.tree = t, !.synced = k]
           next == IF At(c, "update") /\ call[c].pushing
                   THEN [call[c] EXCEPT !.pc = "fetch"] ELSE Idle
<1>1. call[c] \in CallStates /\ CallOK(call[c]) /\ w \in Workspaces /\ workspace[w] # None
      /\ t \in Trees
  BY CallsAreOK DEF UpdateSourceWorkspaceCurrent, MarkSourceWorkspaceSynchronized, At,
     CallOK, OnRow, OnTree
<1>2. workspace[w] \in WorkspaceRows /\ disk[w] # None /\ artifact[workspace[w].base] # None
  BY <1>1, BaseOfRow, LibraryConstants
<1>3. k \in MaybeCommit /\ (k # None => k \in Commits /\ history[k] # None /\ history[k].from = w)
  BY <1>1 DEF MaybeCommit, At, CallOK, OnOwnCommit
<1>4. row \in WorkspaceRows /\ row.commit = workspace[w].commit /\ row.synced = k
      /\ row.base = workspace[w].base
  BY <1>1, <1>2, <1>3 DEF WorkspaceRows, MaybeTree
<1>5. workspace' = [workspace EXCEPT ![w] = row]
  <2>1. CASE UpdateSourceWorkspaceCurrent(c)
    <3>1. k = None
      BY <2>1 DEF UpdateSourceWorkspaceCurrent, At
    <3> QED
      BY <1>1, <2>1, <3>1 DEF UpdateSourceWorkspaceCurrent, LibraryInv, TypeOK
  <2>2. CASE MarkSourceWorkspaceSynchronized(c)
    <3>1. k = call[c].commit
      BY <2>2 DEF MarkSourceWorkspaceSynchronized
    <3>2. row = [workspace[w] EXCEPT !.synced = call[c].commit, !.tree = t]
      BY <1>2, <3>1 DEF WorkspaceRows
    <3> QED
      BY <1>1, <2>2, <3>2 DEF MarkSourceWorkspaceSynchronized, LibraryInv, TypeOK
  <2> QED
    BY <2>1, <2>2
<1>6. call' = [call EXCEPT ![c] = next]
  BY <1>1 DEF UpdateSourceWorkspaceCurrent, MarkSourceWorkspaceSynchronized, Goto, End, At,
     LibraryInv, TypeOK
<1>7. UNCHANGED <<stored, artifact, disk, history, head>>
  BY DEF UpdateSourceWorkspaceCurrent, MarkSourceWorkspaceSynchronized
<1>8. row # None
  BY <1>4, LibraryConstants
<1>9. PICK r \in CallStates : /\ r = next /\ r.pc \in {"idle", "fetch"}
                              /\ r.pc = "fetch" => r.ws = w
  <2>1. next \in CallStates /\ next.pc \in {"idle", "fetch"}
        /\ (next.pc = "fetch" => next.ws = w)
    BY <1>1, IdleType, IdleIsOK DEF CallStates, Labels
  <2> HIDE DEF next
  <2> QED
    BY <2>1
<1>10. \A d \in Calls \ {c} : At(d, "insert") => call[d].ws # w
  BY <1>1, CallsAreOK DEF CallOK, At
<1> HIDE DEF row, next, w, t, k
<1>11. CallOK(r)'
  <2>1. workspace'[w] # None
    BY <1>1, <1>5, <1>8 DEF LibraryInv, TypeOK
  <2> QED
    BY <1>1, <1>9, <2>1 DEF CallOK, OnTree, OnBase, OnRow, OnParent, OnOwnCommit
<1>12. call' = [call EXCEPT ![c] = r] /\ r.pc # "insert" /\ artifact[row.base] # None
       /\ (row.synced # None => row.synced \in Commits /\ history[row.synced] # None
                                 /\ history[row.synced].from = w)
  BY <1>2, <1>3, <1>4, <1>6, <1>9
<1> QED
  BY <1>1, <1>2, <1>4, <1>5, <1>7, <1>9, <1>10, <1>11, <1>12, RowStep

-----------------------------------------------------------------------------
(* Push.                                                                   *)

LEMMA PushCalls ==
    ASSUME LibraryInv, NEW c \in Calls, PushFetch(c) \/ PushTake(c) \/ PushConfirm(c)
    PROVE  LibraryInv'
<1> DEFINE w == call[c].ws
<1>1. call[c] \in CallStates /\ CallOK(call[c]) /\ w \in Workspaces /\ workspace[w] # None
  BY CallsAreOK DEF PushFetch, PushTake, PushConfirm, At, CallOK, OnRow
<1>2. head \in Commits /\ history[head] # None /\ disk[w] \in Trees
  BY <1>1, BaseOfRow DEF LibraryInv, TypeOK, HeadInv
<1>3. CASE PushFetch(c)
  <2> DEFINE r == [call[c] EXCEPT !.commit = head, !.pc = "take"]
  <2>1. call' = [call EXCEPT ![c] = r]
    BY <1>1, <1>3 DEF PushFetch, LibraryInv, TypeOK
  <2>2. r \in CallStates /\ r.pc = "take" /\ r.ws = w /\ r.commit = head
    BY <1>1, <1>2 DEF CallStates, Labels, MaybeCommit
  <2> HIDE DEF r
  <2>3. CallOK(r)
    BY <1>1, <1>2, <1>3, <2>2 DEF PushFetch, CallOK, OnTree, OnBase, OnRow, OnParent,
       OnOwnCommit
  <2> QED
    BY <1>3, <2>1, <2>2, <2>3, CallStep DEF PushFetch
<1>4. CASE PushTake(c)
  <2> DEFINE r == [call[c] EXCEPT !.tree = disk[w], !.pc = "push"]
  <2>1. call' = [call EXCEPT ![c] = r] /\ call[c].pc = "take"
    BY <1>1, <1>4 DEF PushTake, At, LibraryInv, TypeOK
  <2>2. r \in CallStates /\ r.pc = "push" /\ r.ws = w /\ r.tree = disk[w]
        /\ r.commit = call[c].commit
    BY <1>1, <1>2 DEF CallStates, Labels, MaybeTree
  <2> HIDE DEF r
  <2>3. CallOK(r)
    BY <1>1, <1>2, <2>1, <2>2 DEF CallOK, OnTree, OnBase, OnRow, OnParent, OnOwnCommit
  <2> QED
    BY <1>4, <2>1, <2>2, <2>3, CallStep DEF PushTake
<1>5. CASE PushConfirm(c)
  <2>1. CallOK([call[c] EXCEPT !.pc = "rehash"]) /\ "rehash" \in Labels
    BY <1>1, <1>5 DEF PushConfirm, At, CallOK, CallStates, Labels, OnTree, OnBase, OnRow,
       OnParent, OnOwnCommit
  <2> QED
    BY <1>5, <2>1, GotoStep DEF PushConfirm
<1> QED
  BY <1>3, <1>4, <1>5

\* A new commit on top of the branch.
LEMMA CommitStep ==
    ASSUME LibraryInv, NEW k \in Commits, NEW h \in History, history[k] = None,
           history' = [history EXCEPT ![k] = h], head' = k, h.parent = head,
           h.from # None => workspace[h.from] # None /\ head = workspace[h.from].commit,
           call' \in [Calls -> CallStates], CallInv', OwnDirectory',
           UNCHANGED <<stored, artifact, disk, workspace>>
    PROVE  LibraryInv'
<1>1. h # None /\ \A x \in Commits : history'[x] = IF x = k THEN h ELSE history[x]
  BY LibraryConstants DEF LibraryInv, TypeOK
<1>2. TypeOK'
  BY DEF LibraryInv, TypeOK
<1>3. HeadInv'
  BY <1>1 DEF HeadInv
<1>4. PushesBuildOnTheirBase'
  BY <1>1 DEF LibraryInv, PushesBuildOnTheirBase
<1>5. SynchronizedWithOwnCommit'
  <2>1. \A w \in Workspaces : workspace[w] # None => workspace[w].synced \in MaybeCommit
    BY BaseOfRow DEF WorkspaceRows
  <2> QED
    BY <1>1, <2>1 DEF LibraryInv, SynchronizedWithOwnCommit, MaybeCommit
<1>6. StoredInv' /\ RowsHaveTheirTrees'
  BY DEF LibraryInv, StoredInv, RowsHaveTheirTrees, Usable
<1> QED
  BY <1>2, <1>3, <1>4, <1>5, <1>6 DEF LibraryInv

LEMMA PushRefStep == ASSUME LibraryInv, NEW c \in Calls, PushRef(c) PROVE LibraryInv'
<1> DEFINE w == call[c].ws
           h == [parent |-> head, tree |-> call[c].tree, from |-> w]
<1>1. /\ call[c] \in CallStates /\ CallOK(call[c]) /\ w \in Workspaces /\ workspace[w] # None
      /\ call[c].tree \in Trees /\ call[c].commit = workspace[w].commit /\ head = call[c].commit
      /\ UNCHANGED <<stored, artifact, disk, workspace>>
  BY CallsAreOK DEF PushRef, At, CallOK, OnRow, OnTree, OnParent
<1>2. PICK k \in Commits :
         /\ history[k] = None /\ history' = [history EXCEPT ![k] = h] /\ head' = k
         /\ End(c) \/ call' = [call EXCEPT ![c].commit = k, ![c].pc = "confirm"]
  BY DEF PushRef
<1>3. h \in History /\ h.from = w /\ h.parent = head /\ h # None
  BY <1>1, LibraryConstants DEF LibraryInv, TypeOK, History, MaybeCommit
<1>4. history'[k] = h /\ \A x \in Commits : history[x] # None => history'[x] = history[x]
  BY <1>2 DEF LibraryInv, TypeOK
<1>5. PICK r \in CallStates :
         /\ call' = [call EXCEPT ![c] = r] /\ r.pc \in {"idle", "confirm"}
         /\ r.pc = "confirm" => r.commit = k /\ r.ws = w
  <2>1. CASE End(c)
    BY <2>1, IdleType, IdleIsOK DEF End
  <2>2. CASE call' = [call EXCEPT ![c].commit = k, ![c].pc = "confirm"]
    <3> DEFINE r == [call[c] EXCEPT !.commit = k, !.pc = "confirm"]
    <3>1. r \in CallStates /\ r.pc = "confirm" /\ r.commit = k /\ r.ws = w
      BY <1>1 DEF CallStates, Labels, MaybeCommit
    <3>2. call' = [call EXCEPT ![c] = r]
      BY <1>1, <2>2 DEF LibraryInv, TypeOK
    <3> HIDE DEF r
    <3> QED
      BY <3>1, <3>2
  <2> QED
    BY <1>2, <2>1, <2>2
<1> HIDE DEF w, h
<1>6. call'[c] = r /\ \A d \in Calls \ {c} : call'[d] = call[d]
  BY <1>5, OneCallMoves
<1>7. CallInv'
  <2>1. CallOK(call[c])'
    BY <1>1, <1>3, <1>4, <1>5, <1>6 DEF CallOK, OnTree, OnBase, OnRow, OnParent, OnOwnCommit
  <2>2. ASSUME NEW d \in Calls \ {c} PROVE CallOK(call[d])'
    <3>1. At(d, "insert") => workspace'[call[d].ws] = None /\ disk'[call[d].ws] # None
      BY <1>1, CallsAreOK DEF CallOK, At
    <3> QED
      BY <1>1, <1>4, <1>6, <3>1, OtherCalls
  <2> QED
    BY <2>1, <2>2 DEF CallInv
<1>8. OwnDirectory'
  BY <1>5, <1>6 DEF LibraryInv, OwnDirectory, At
<1>9. call' \in [Calls -> CallStates]
  BY <1>5 DEF LibraryInv, TypeOK
<1> QED
  BY <1>1, <1>2, <1>3, <1>7, <1>8, <1>9, CommitStep

LEMMA ForeignPushStep == ASSUME LibraryInv, ForeignPush PROVE LibraryInv'
<1>1. PICK k \in Commits, t \in Trees :
         /\ history[k] = None /\ head' = k
         /\ history' = [history EXCEPT ![k] = [parent |-> head, tree |-> t, from |-> None]]
  BY DEF ForeignPush
<1> DEFINE h == [parent |-> head, tree |-> t, from |-> None]
<1>2. h \in History /\ h.parent = head /\ h.from = None
  BY DEF LibraryInv, TypeOK, History, MaybeCommit
<1>3. history' = [history EXCEPT ![k] = h] /\ UNCHANGED <<stored, artifact, disk, workspace, call>>
  BY <1>1 DEF ForeignPush
<1> HIDE DEF h
<1>4. CallInv'
  <2>1. \A x \in Commits : history[x] # None => history'[x] = history[x]
    BY <1>1, <1>3 DEF LibraryInv, TypeOK
  <2>2. ASSUME NEW d \in Calls PROVE CallOK(call[d])'
    <3>1. At(d, "insert") => workspace'[call[d].ws] = None /\ disk'[call[d].ws] # None
      BY <1>3, CallsAreOK DEF CallOK, At
    <3> QED
      BY <1>3, <2>1, <3>1, OtherCalls
  <2> QED
    BY <2>2 DEF CallInv
<1>5. OwnDirectory' /\ call' \in [Calls -> CallStates]
  BY <1>3 DEF LibraryInv, TypeOK, OwnDirectory, At
<1> QED
  BY <1>1, <1>2, <1>3, <1>4, <1>5, CommitStep

LEMMA StudioStopsStep == ASSUME LibraryInv, StudioStops PROVE LibraryInv'
<1>1. UNCHANGED <<stored, artifact, disk, workspace, history, head>>
      /\ \A c \in Calls : call'[c] = Idle
  BY DEF StudioStops
<1>2. TypeOK'
  BY <1>1, IdleType DEF StudioStops, LibraryInv, TypeOK
<1>3. CallInv'
  BY <1>1, IdleIsOK DEF CallInv, CallOK, OnTree, OnBase, OnRow, OnParent, OnOwnCommit
<1>4. OwnDirectory'
  BY <1>1, IdleIsOK DEF OwnDirectory, At
<1>5. StoredInv' /\ HeadInv' /\ PushesBuildOnTheirBase' /\ SynchronizedWithOwnCommit'
  BY <1>1 DEF LibraryInv, StoredInv, HeadInv, PushesBuildOnTheirBase, SynchronizedWithOwnCommit
<1>6. RowsHaveTheirTrees'
  BY <1>1 DEF LibraryInv, RowsHaveTheirTrees, Usable
<1> QED
  BY <1>2, <1>3, <1>4, <1>5, <1>6 DEF LibraryInv

-----------------------------------------------------------------------------
(* The theorems.                                                           *)

LEMMA LibraryStutter == ASSUME LibraryInv, UNCHANGED vars PROVE LibraryInv'
  BY DEF vars, LibraryInv, TypeOK, CallInv, CallOK, OwnDirectory, At, StoredInv, HeadInv,
     RowsHaveTheirTrees, Usable, PushesBuildOnTheirBase, SynchronizedWithOwnCommit

\* The inductive invariant: every digest names its own tree, the branch has a
\* head, and each call under way knows what its label says.
THEOREM LibraryInductive == Spec => []LibraryInv
<1>1. LibraryInv /\ [Next]_vars => LibraryInv'
  <2> SUFFICES ASSUME LibraryInv, [Next]_vars PROVE LibraryInv'
    OBVIOUS
  <2>1. CASE UNCHANGED vars
    BY <2>1, LibraryStutter
  <2>2. CASE Next
    BY <2>2, ImportSteps, PublishSteps, BeginWorkspaceStep, CopyStep, InsertSteps,
       WorkspaceCalls, EditSteps, RowUpdates, PushCalls, PushRefStep, ForeignPushStep,
       StudioStopsStep DEF Next
  <2> QED
    BY <2>1, <2>2
<1> QED
  BY <1>1, LibraryInit, PTL DEF Spec

\* Type correctness of trees, rows, branch and calls.
THEOREM LibraryTypesHold == Spec => []TypeOK
<1>1. LibraryInv => TypeOK
  BY DEF LibraryInv
<1> QED
  BY <1>1, LibraryInductive, PTL

\* However imports, edits and stops of the process interleave, every snapshot
\* row names a tree that is there with its digest, and every workspace row has
\* a directory and a base (importSnapshot, createWorkspace).
THEOREM RowsKeepTheirTrees == Spec => []RowsHaveTheirTrees
<1>1. LibraryInv => RowsHaveTheirTrees
  BY DEF LibraryInv
<1> QED
  BY <1>1, LibraryInductive, PTL

\* PushCustomModule never undoes a commit it has not seen: its commit's parent
\* is the commit the workspace was made from.
THEOREM PushesAreFastForward == Spec => []PushesBuildOnTheirBase
<1>1. LibraryInv => PushesBuildOnTheirBase
  BY DEF LibraryInv
<1> QED
  BY <1>1, LibraryInductive, PTL

\* A workspace is marked as synchronized only with a commit that was made from
\* it, even when others push and answers are lost.
THEOREM MarksAreOwnCommits == Spec => []SynchronizedWithOwnCommit
<1>1. LibraryInv => SynchronizedWithOwnCommit
  BY DEF LibraryInv
<1> QED
  BY <1>1, LibraryInductive, PTL

=============================================================================
