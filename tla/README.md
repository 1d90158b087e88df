# VPSmith: TLA+ models, checks and proofs

VPSmith Studio is a local Go program that manages VPS targets. It compiles module
sources into *execution bundles*, uploads a bundle over SSH, starts a detached Python
runner on the target, follows the run through the proof files the runner writes, and
keeps an append-only local history of what ran. This directory holds the TLA+ modules
that model this system, the TLC configurations that check them and the TLAPS proofs.

## 1. Inventory

| component | source (under `src/internal`) | state | operations | what is hard |
|---|---|---|---|---|
| target runner | `targetrunner/parts/*.inc` | two history roots (bootstrap, Core) with bundles, proofs, claims and `structural.lock`; marker `.active`; one process per run | open root, lock, claim, wait for secrets, run steps, validate, promote, finish, fail | several runners at once; killed anywhere; the root changes under a live runner |
| execution SSH adapter | `targetgateway/execution_*.go` | none locally; the remote files above, the transient unit, the secret FIFO | upload, start, observe, send secrets | an observation is four reads at four moments; lost requests and replies; a FIFO without a reader |
| executor | `execution/executor.go` | one call: status, error, secrets-sent flag, last observation | `Execute`, `Reconcile` | decisions on stale observations; an unbounded polling loop; every error path |
| execution history adapter | `executionstate/adapter.go` | tables of bundles and execution records | `RegisterBundle`, `Finished` | snapshot first, transaction later |
| management state store | `managementstate/store.go`, `types.go`, `migrations.go`, `crypto.go`, ... | SQLite tables, encrypted secrets | `Snapshot`, `Change`, `ResolveSecret`, migrations | writers between a snapshot and a change |
| management recovery | `managementstate/recovery.go`, ... | the same tables | `ReplaceFromRecovery`, source migration | all or nothing |
| gateway and trust | `targetgateway/gateway.go`, `identity.go`, `enrollment*.go`, `ssh_transport.go`, `bootstrap/bootstrap.go` | target rows with address, host key, trust, identity, desired and observed state | prepare a target, ensure its identity, observe, confirm and reset a host key, strict session, inspect, enrol | the row changes between a check and the connection that relies on it; the machine at an address is replaced |
| runtime control | `targetgateway/runtime_*.go` | running units on the target | start, stop, restart, health checks | the session it runs in |
| source library | `sourcelibrary/*.go` | snapshots, workspaces, content-addressed trees | import, edit, refresh, push, merge, adopt | files and rows change in separate steps; remote drift |
| backup and restore | `backuprestore/*.go`, `targetgateway/storage_backup.go` | catalogue rows, envelope files, tombstones | create, inspect, restore, export, delete, storage copy | a crash between file and row; the runtime must be started again after a copy |
| recovery package | `recoverypackage/service.go` | sources, bundle files, state, catalogue | export, import, reconnection report | several stores are published one after the other and rolled back |
| target inspector | `targetgateway/inspector.go`, `network_planning.go` | none; seven remote reads | host, Cloud-init, hardening, Core, module, network facts | the reads are apart in time |
| deployment compiler and generators | `deployment/*.go`, `deploymentinput/network.go` | none of their own; contracts, registry and observed facts go in, a plan with generated files comes out | `Prepare` for install, update, reconfigure, uninstall, restore, validate | facts are stale when the plan runs; providers, subnets, names and claims must fit together |
| execution bundle, module contract | `executionbundle/*.go`, `modulecontract/*.go` | bundle files; contracts are pure | pack, hash, verify, validate | references between the lists of a contract |
| studio, application, registry, release info, hashing | the rest | wiring | HTTP, parsing | nothing concurrent of their own |

How they interact: Studio calls `Executor.Execute`; the executor asks the history adapter
to register the bundle, the SSH adapter to upload, start, observe and deliver secrets,
and the history adapter to import the terminal proof. Executor and runner share no
memory: everything the executor knows comes from an observation that is old when it is
used. Runners know each other only through the files of a root.

What makes each part correct:

* runner: one structural writer per lock, a structural bundle is applied at most once per
  root, a refused run mutated nothing, success means every step, the validation and the
  promotion were done, a terminal proof is rewritten at most once, to failed, by its own runner, and not
  after that unit ended, and whoever sees `.active` finds the promoted history complete;
* executor: what it reports and records happened on the target, a run it calls
  interrupted is over, *not started* really permits a retry, secrets go only to a run that
  owns its bundle's claim, and calls return;
* history: append-only, every record refers to a registered bundle;
* backup store: a catalogued artifact has its bytes, a reported deletion is complete, a failed
  creation leaves nothing;
* recovery import: no row names an object that is not on disk, a failed import leaves what it
  found, a successful one has everything in place;
* trust: a command reaches only a machine with a key the user confirmed for the target, recorded facts and
  enrolments are those of one machine and true, an administrative identity is made once;
* source library: every row has its bytes, a push builds on the commit the files came from, *synchronized* names
  a commit made from this workspace, and a package that was exported can be imported;
* planning: what a successful run leaves is wired, resolvable and without collisions, and a stale plan removes
  nothing it did not know of.

The full list of hazards, each at its source line with the properties that cover it, is
in `PROJECT.json`.

## 2. Modules

| module | content |
|---|---|
| `TargetRunner` | the target: roots, locks, claims, proofs, all runner processes, and the target side of the SSH scripts; its properties and inductive invariant |
| `RunLifecycle` | abstract specification: what a bundle run promises, without locks, files or roots; a run may take its success back until it has left |
| `Execution` | EXTENDS `TargetRunner` with the executor's calls, the observation in its separate reads, the start request as a message, and the local history; `ExecNext` composes both sides |
| `BackupCatalogue` | the backup store: artifact files, tombstones, catalogue rows, concurrent `Create` and `Delete` calls, restarts |
| `ArtifactLife` | abstract specification: what the backup store promises about an artifact, without calls, files or transactions |
| `RecoveryImport` | EXTENDS `BackupCatalogue` with the import of a recovery package over source trees, bundle files, package file and management state, and with the calls that publish trees and bundles beside it |
| `Trust` | target rows, host keys, sessions, inspections and enrolments while machines come and go |
| `SourceLibrary` | snapshots, workspaces and the Git branch: imports, edits, merges and pushes |
| `SourceExport` | EXTENDS `SourceLibrary` with the production of a recovery package |
| `ModuleContract` | what `module.yaml` may say: the validation of a contract as predicates over its lists |
| `Planning` | EXTENDS `ModuleContract`: network and module facts, `Compiler.Prepare`, the generated files and their application by a run |
| `MCTargetRunner`, `MCExecution`, `MCRecoveryImport`, `MCTrust`, `MCSourceLibrary`, `MCPlanning` | symmetry sets and constant values for TLC; `MCPlanning` holds the contracts and requests |
| `TargetRunnerProofs` | the target's inductive invariant and the safety theorems |
| `LifecycleRefinement` | `TargetRunner` implements `RunLifecycle` |
| `ExecutionProofs` | lemmas on the composed system: its steps are target steps, typing, what the target never takes back |
| `ClientProofs` | the invariant of the composed system and its theorems |
| `RecoveryProofs` | the inductive invariants and theorems of backup store and import; the store implements `ArtifactLife` |
| `TrustProofs` | the inductive invariant and theorems of `Trust` |
| `SourceLibraryProofs` | the inductive invariant and theorems of `SourceLibrary` |
| `PlanningProofs` | lemmas on links, generated files and claims, the inductive invariant and theorems of `Planning` |

### TargetRunner and the code

`pc[r]` is the place of the process of run `r` in `execute()` (`03.inc` to `05.inc`):
`launched` (unit started), `opened` (root chosen, lock file open, first proof written),
`locked`, `claimed`, `awaiting` (blocked on the FIFO), `received`, `writing` (secret files),
`steps`, `stepfailed`, `validated`, `promoting`, `copying`, `copied`, `marked`,
`promoted`, `finished` (the success proof is visible, its write has not returned), `exiting`, `done`; `duplicate` is a claim
that exists already, `refused` the exit after `EAGAIN`, `dead` a killed process. Each action is the code between two points at which another process can see a
difference: an atomic `write_proof`, a lock operation, an `O_EXCL` claim, one copy of a
promotion. `proofs`, `claims`, `bundles`, `holders` and `probing` are indexed by root, as the
files are. `activator` is the run that first created `.active`; every script and every
new runner chooses its root from that marker. `productive` and `succeeded` are history
variables: the structural runs that began to write on the host, and the runs whose success proof was visible.

`write_proof` can raise before its `os.replace` and after it, in `os.chmod` or `fsync_dir` (`00.inc:72`). After the success write that
exception reaches `except Exception` (`05.inc:46`), and `Fail` overwrites a proof that readers may have seen; so `Finish` ends in `finished`, from which a run
leaves or fails. The same holds of the proof
of a duplicate. `InScript(r)` holds while a step of `r` runs: nothing bounds its time.

`Kill` can end a process at any label and releases its flock, as the kernel does.
`ProbeLock` and `ProbeRelease` are the `flock -n ... -c true` of an observation, which
really holds the exclusive lock for a moment.

### Execution and the code

`call[r]` is the place of the current `Execute` or `Reconcile` call for run `r`. An observation
is `ObserveRoot`, `ObserveProof`, `ObserveLock` (or `ObserveFreeLock` and
`ObserveUnlock`), `ObserveUnit`: the four reads of the remote script in their order,
with any target step in between. `Classify` is `classify`. `startMsg[r]` is the start
request: under way, accepted or refused, so that a call may give up while the request
still arrives. `RegisterBundle` and `Finished` are split where the code takes a snapshot and
later opens a transaction. Every error return of `Execute` and `Reconcile` is an action;
`CallLost` is the end of the Studio process.

### BackupCatalogue, RecoveryImport and the code

`call[c]` is the place of call `c` in `Manager.Create`, `Manager.Delete` or `Service.Import`, or the
way it ended; `subject[c]` is its artifact. Each action is the code up to the next
change another call can see: a link or rename to a final name, a transaction, a removal.
`stored` and `tombstones` are the names below the backup root, `catalogue` the rows of
`backups`, `objects` the trees and bundle files at their final place, `refs` the objects that
rows of the management state name. `issued` holds the ids in use: `NewBackupArtifactID` is fresh. `todo`, `staged` and `published` are the lists of the two
`RecoveryImport` values of one import, trees before bundles as `Import` handles them, and in
reverse when the deferred `Close` calls roll back. `loading` are calls of `importSnapshot` and of
`Assemble` with the later registration. `StudioRestart` ends everything between two
steps: deferred roll-backs do not run. `found` is a history variable.

### Trust and the code

`row` is what the management state keeps of a target, `call[c]` a handler of Studio between two points at which
another call or the network can interfere: after the copy of the row (`Gateway.target`), after the
key scan, between two ssh processes, before a transaction. A *machine* is an installation of a server: a reinstalled
VPS is another machine with other host keys (`FreshHostKeys`; Cloud-init makes them on the first boot). `Assign` lets the provider
put any machine at any address at any time. A scan returns the keys the machine answers with before the timeout, any
non-empty part of them, and `selectHostKey` takes the one key of the preferred algorithm. `Connects` is an ssh process
with a known-hosts file that holds the session's key alone. `ReadPart` is one remote read of an inspection;
`from` collects the machines that answered. `confirmed`, `reached` and `enrolled` are history variables. Every operation with a strict session (logs, upload, start,
observation, secrets, runtime control, storage copies) is the same session with commands, so the property about commands covers all of them.

### SourceLibrary, SourceExport and the code

A tree stands for its digest. `stored[d]` is the directory of a digest and could hold another tree (a mutant makes it so); `disk[w]` is a
workspace directory. Each action is the code up to the next rename, transaction or Git command. `ResolveSecret` keeps the store's
read lock while Git works with the token, which is `MayCommit`. `PushRef` may take effect and
lose its answer. `SourceExport` adds `pack`: the state in one transaction, the list of rows later,
then each tree, a workspace being hashed first and copied after that. `PrepareRecoveryImport` is what an import asks of the package.

### ModuleContract, Planning and the code

A contract is a record of the lists of `module.yaml`; the form of single fields is one Boolean. `catalogue` says which contract a package holds, `registry`
what digest an image reference has now. `files` are the generated files on the target with what they refer to, `nets` its Podman
networks. A subnet is the set of its /24 blocks. An observation is built up in `scan` by separate reads, in the order in which
`sshTransport` (`ssh_transport.go:109`) and the inspector start their ssh processes: `ReadModules` (the inventory `modules.json`), `ReadArtifact` (one file of the
inventory's list, with its hash), `ReadLinks` and `ReadLink` (the inventory of links and the networks it names), `ReadNetworks`; a run may write between any two of them. `Inspect`
stores the result, or `InspectFails` ends it when the reads contradict each other. Hashes are pairs of a path and its content, so what is not listed in
`modules.json` has none. Who fills `deployment.Request.Observed` from these facts is not in the source (only `deploymentinput.Networks` is), so the caller is external: `"inspected"` passes on what the
inspector found, `"identified"` adds the module ids and image digests that the inspector does not read, as the compiler's tests do; the compiler then compares them, so it admits fewer requests. `Prepare` is `Compiler.Prepare` with each of its refusals as a
conjunct. `deriveLinks` is the set of results of the compiler's loop: a choice of one subnet per dependency in which every choice
is what `selectLinkSubnet` returns after the earlier ones (`Before`), so there is one result or, when the code returns an error, none.
Stating it this way instead of folding over the loop changes no behaviour and lets the result be reasoned about without induction. `apply_artifact` is one file of a run; `Fail` stops a run anywhere. The reductions are stated at the actions: a request made during a run is taken
at its end (`Prepare` reads nothing a run changes), networks and tags change between runs (a run reads neither), the artifacts are read at once between runs (only runs change files), and an observation is
begun only while its result can still be planned with (`CanPlan`).

### Abstractions

* A bundle is its digest, two runs of one bundle share the digest; digest collisions
  and a proof whose ids differ from its file name are left out.
* The manifest has `StepCount` steps; what a step does to the host is not modelled, only
  that it succeeds, reports a failure or raises.
* Files are durable once written.
* In `calls` and `progress` the calls of one run are followed. Of the other run's calls only their effects are there, each at any moment (`OtherStep`, `OtherProbe`,
  `OtherRegistration` of `MCExecution`), which allows more than these calls do: a property of the followed run that holds there holds beside real calls. `progress` leaves out the other
  calls' lock probes.
* A failure before the first proof (unreadable bundle) leaves the same trace as a kill.
* An action unit started by a step is part of its runner.
* An archive, a tree or a bundle file is whole or absent; a stored object with other bytes
  than its name says is the error case of the step that finds it. Workspace trees count as trees.
* The `os.Remove` calls of a roll-back succeed (the code ignores their errors); the rename that puts a deleted
  artifact back may fail.
* Embedded sources are registered when the Studio opens, or not yet (`Embedded`); of the tables `Fresh` counts only targets, backups
  and bundles appear.
* The inventories an inspection reads are `Inventory` reads alike; hardening and Core facts of a machine may be anything.

## 3. Runs

| run | bounds | shows |
|---|---|---|
| `runs` | 2 runs; Core, module and Core-validation bundles; 1 step; fairness | type, lock exclusion (structural against structural and against validation), one outcome per run, success is earned, a refused run mutated nothing, a bundle is applied once per root, the promoted one never again, promotion complete, a terminal proof is rewritten only to failed and by its living runner, the target implements `RunLifecycle`, a started unit ends, waits for secrets or is in an action script |
| `calls` | 2 runs of a Core or a module bundle each, 1 step; one run followed with its calls, the other with all that its runner and its calls do to target and history | an `Execute` call and later `Reconcile` calls beside those of another run: reports and records are true, interrupted means dead, secrets follow the claim, not-started permits a retry |
| `progress` | 2 runs, one followed with its calls beside one that takes part on the target; a module and a Core bundle, so that the other may promote; 1 step; fairness | history append-only, calls return and runs end, except in the situations of section 4 |
| `imports` | 2 calls, one of which may import; an own package, an own restore point and a foreign package with a tree and a bundle; a loader of another tree | rows and bytes of the catalogue agree, reported deletions and failed creations leave nothing, no dangling rows, failed imports take back exactly their own, the store implements `ArtifactLife` |
| `trust` | 1 target, 1 address, 2 calls, 2 machines (one with two keys), 2 secrets, 1 definition, 1 inventory read | commands reach confirmed machines, an inspection is of one machine, enrolments are true, an identity is made once |
| `library` | 2 calls, 2 trees, 3 commits, 2 snapshots, 1 workspace | rows have their trees, pushes build on their base, synchronized means the own commit |
| `planning` | 3 instances, 4 packages in 6 catalogues, 9 requests, 2 subnets to probe, 2 inspections in separate reads, 2 runs, 1 foreign change; the caller `"inspected"` | dependencies are wired, units resolve, claims are exclusive, no module is lost to a stale plan |
| `replay`, `fresh`, `replace`, `export`, `replan` | the smallest instance that shows each | see section 6 |

Why the bounds are enough: the properties of the target speak of one run or of a pair of runs on a
pair of roots, and interference passes through locks, claims and the marker, which two
runs can contend for; a kill and a retry of one bundle need two runs. The step loop is entered and left with one
step, and the proofs hold for any number of steps, zero included. `progress` needs the second run: only
another run can promote while the followed one is under bootstrap, or hold the lock that the followed run's caller looks at. In `imports` two calls can hold the same artifact or
different ones, which are all the ways in which calls meet. In `trust` two machines are enough for every replacement behind a
session, and two calls for every race on a row; that two targets never share an identity has no case
with one target and rests on the proof. All these safety properties are proved for any number of runs, bundles,
steps, calls, artifacts, targets, machines, trees, commits, contracts and requests (section 5). In `library` three commits are the one a
workspace was made from, a foreign one and an own one, in any order; two snapshots let a merge have an old and a new base. In `planning` two
runs are a deployment and a second one from facts that may be those before or after it; the catalogues hold a sound set of modules, a provider
that loses its interface, four contracts or pairs with one mistake each, and the requests include an ambiguous provider, a claim
held by others and the removal of a provider. The bound of 2 inspections leaves one inspection per run.

Deadlock is checked except in `planning` and `replan`, where behaviours end when the bounds on runs and inspections are used up.

## 4. Fairness

* `RunnerStep(r)` is weakly fair except in an action script: systemd started the unit, nothing suspends it, and each of its
  steps is enabled until it is taken. An action script has no timeout (`02.inc:180`), so nothing says that it ends (`InScript`).
  Waiting for secrets is *not* a step of the runner.
* `ClientStep(r)`, the arrival or refusal of a start request and the end of a lock probe are
  weakly fair: a call that is not cancelled goes on and an SSH command completes or fails.
* `SendSecrets(r)` is weakly fair: a stream offered to a runner that reads the FIFO arrives.
* `Kill`, `CallLost`, cancellation and errors are never assumed to happen. A delivery to a
  runner that died is not assumed to end: opening a FIFO without a reader blocks.

`CallReturns` and `RunEnds` name the situations in which the code really waits for ever, and TLC finds a counterexample when any of them is left out:

* a delivery to a runner that died: the FIFO has no reader;
* a runner whose caller ended before it delivered the secrets; the runner keeps the structural lock;
* a runner that waits under bootstrap after another run promoted (`Unseen`): observations read Core only (`execution_ssh.go:91`), so the unit
  runs, no proof is found, the secrets are never sent and the executor polls on;
* an action script that does not end (`InScript`);
* a run that is over without a terminal proof while every observation finds the lock taken by another run or another probe
  (`LockedOut`): `executor.go:177` takes the lock for the run's own and polls on.

The exceptions are states, and a leads-to starts again after each of them: a call that has left one of these situations must again return or meet one.

## 5. Proofs

Assumptions on constants: `BundleKinds` (validation and Core bundles are bundles), `StepCountNat`
(the step count is a natural number) and `NoRunFresh` (`NoRun` is not a run); `ArtifactKinds`,
`PackageContents`, `CallKinds`, `LocalObjects`, `EmbeddedTrees` (which sets contain which) and `NoLoadFresh` for the import;
`TrustConstants` (types) and `FreshHostKeys` (no two machines share a host key) for trust; `LibraryConstants` (releases are trees, and `None` is
neither a row nor an element of the other sets); and for planning `PlanningConstants` (types; the desired modules have an order without repetition, as `compileModules` sorts
them by an instance id that is a map key), `NamesOfAnInstance` (an object's name is the instance's prefix and its own id, so one instance does not name
two objects alike, while two instances may), `ContractFields` (the shape of two record types of `modulecontract/types.go`) and `RequestedModules`
(every instance and relationship a request can lead to is among those the model has a name and a seed for). Nothing is assumed finite; that a relationship
stands for its SHA-256 prefix in names and labels is the abstraction the code shares.

**Target.** `IndInv` strengthens the safety properties by what the code relies on without
saying so: a process between its lock and its exit is a holder of the lock of its own
root and holders are exactly such processes; locks are compatible; a structural process
past its claim finds the claim in its root, and at most one run per root and bundle got that far; a
proof is terminal only for a process at `duplicate`, `finished` or its end, and a success that is visible is in `succeeded`; a process in the promotion chose the
bootstrap root; and what a promotion has copied so far is there. `Inductive` proves it with one
step per action; `TypeCorrect`, `LockExcludes`, `AppliedAtMostOncePerRoot`,
`PromotedBundleIsNeverReplayed`, `PromotionIsComplete`, `OutcomesAreUnique`, `SuccessIsEarned`,
`RefusedRunsChangeNothing` and `TerminalProofsSettle` follow; the last says that a terminal proof is only ever rewritten to failed, by its own runner after
the write of that proof, and that every other terminal proof stays. `TargetImplementsLifecycle` maps a run to its outcome (*absent*, *running*,
*success*, *failed*, *interrupted*), its place, whether it has left and whether it mutated, and shows that every step of the target is a step of `RunLifecycle` or
a stutter.

**Composition.** `ExecutionImplementsTarget` proves `ExecSpec => Spec`, so each theorem on the target
holds with the executor around it. The argument for the executor is that the target
never takes back what a call may have seen: a claim and a chosen root
stay, and of a terminal proof that it was shown (`Shown`: a failed proof is still there, a success is in `succeeded`; `ShownKeeps`), and a process that ended does not come back
(`RunnerNeverStarts`). `ClientInv` says of every observation, however old, only facts
of this kind, which is why it is inductive. From it: `ClientTypesHold`, `RecordsAreFaithful`, `ReportsAreFaithful`, `InterruptedRunsAreDead`,
`SecretsFollowClaims`, `NotStartedIsSafe`; and `HistoryIsAppendOnly`.

**Backup store and import.** `CatInv` adds to the store's properties that an id is used once, that a creation has
its artifact for itself, and that the bytes of an artifact are in one place and a
deletion that moved them is alone with them: without that, the second of two deletions could remove
what the first one puts back. It is inductive beside any imports (`StoreInductive`), and
`CataloguedBytesSurvive`, `DeletionsAreComplete` and `FailedCreationsLeaveNothing` follow. They speak of artifacts
made here; an imported package can be imported again while it is deleted. `ImportInv` says of an import that what it
still has to examine, what it staged and what is in place make up the package, that
no row names what it may take back, and that the package's objects on disk are those it found and those it published.
It needs the hypothesis `Undisturbed`: one import at a time, and nobody else publishes an object
of the package meanwhile. `RowsNeverDangle` and `FailedImportsLeaveNothing` are proved under it, for any packages and
objects; section 6 says what happens without it.

`StoreKeepsItsPromise` shows that the store implements `ArtifactLife` under the mapping `Life` and `Bytes`: every step of `Create`, `Delete`, an import
or a restart is a step of the abstract life of the artifacts made here, or none. Beyond `CatInv` it needs `RowInv`: a deletion between its look-up and its
rename finds its row or no bytes, and from the rename on the row is still there. Without it a deletion that fails could put back the bytes of an artifact that another
deletion has removed. A restart maps to the abandonment of all creations under way at once.
`GoneIsForever` uses the refinement: an artifact that was deleted or whose creation failed never returns to the catalogue.

**Trust.** `TrustInv` follows a key from the user's confirmation to the machine: every key a row, a copy of a row, a session or a confirmation
under way holds was confirmed for that target (`KeyInv`), although rows and copies disagree at almost any time; an
inspection has read only machines that hold its session's key, which by `FreshHostKeys` is one machine, and what it found
is what that machine has finished (`ReadInv`); at most one call prepares a target and nothing is desired of it until then, so a
desired state never changes once an enrolment relies on it (`DesiredInv`); identities are distinct stored
secrets (`IdentityInv`). It is inductive with one step per operation (`TrustInductive`), and `TrustTypesHold`, `CommandsAreConfirmed`,
`InspectionsAreOfOneMachine`, `EnrolmentsHold` and the action property `IdentitiesStay` follow.

**Source library.** `LibraryInv` says that the directory of a digest holds that tree or nothing (`StoredInv`), that a workspace directory being filled
belongs to one call (`OwnDirectory`), and, for each place of a call, what it still may rely on of all it has read (`CallOK`): the base and the row it found are still there, the commit it
pushes on is the one its row records, and between the push and the mark its commit exists and was made from its workspace. Calls interleave at every rename,
transaction and Git command; the clauses are those that no other call can make false. `LibraryInductive` proves it for any number of calls, trees and commits; `LibraryTypesHold`, `RowsKeepTheirTrees`,
`PushesAreFastForward` and `MarksAreOwnCommits` follow.

**Planning.** The argument has two halves. The first is about one `Prepare` and needs no history: if the contracts pass `validate`, every dependency is
resolved and the claims are disjoint, then the generated files alone are a deployment in which every dependency is `Served`, every name `Resolved` and
every claim `Exclusive`. The lemmas follow the compiler: `SelectedSubnet` (a candidate is a subnet), `DerivedLinks` (each
dependency has one link, no two links share relationship or subnet; two dependencies with one relationship would be equal list entries, which
`validateIntegration` forbids), `GeneratedUnit` (the unit with a container's name was made for this container: another instance with an object of the same name would share a
claim), `GeneratedServed`, `GeneratedResolved`, `GeneratedExclusive`. The second half is the inductive invariant `PlanningInv`: every prepared plan
and the plan of every run under way is such a deployment (`PlanOK`), the files on the target have well-formed inventories although they may come from several
plans, and no finished or half-read observation holds a hash of `modules.json` (`Unhashed`, `ScanOK`), because no module's artifact list contains it. A plan therefore replaces an inventory only if it
never saw one, and the runner refuses that when one is there: this is why `ModulesAreNotLost` holds, and the same fact makes `replan` of section 6 fail. A run then only has to show, in
`post_state`, that the plan's files are in place (`ExtendedFiles`), and during a run each inventory is the old one or the plan's (`AppliedFile`). From
`PlanningInductive` follow `PlanningTypesHold`, `LinksStayWired`, `UnitsAlwaysResolve`, `ClaimsStayExclusive` and the action property `ModulesAreNotLost`, for
any contracts, requests, foreign networks and number of runs.

All inductive invariants were checked by TLC on the instances of section 3 before they were proved.

**Only model-checked:** the liveness properties `RunnerTerminates`, `CallReturns` and `RunEnds`, because reasoning about `ENABLED` and fairness is
outside the prover used here. The five violations of section 6 are counterexamples and have no proofs.

## 6. Where the documents and the code differ

Each is a run whose property is violated.

* `replay` (`AtMostOnce`): the claim of a bundle is looked for under the current root only,
  and a promotion copies only the promoter's claim. A bundle that was started under
  bootstrap can be applied again under Core, although `docs/adr/0006-secure-target-execution.md` says that a partially failed structural
  bundle is not replayable.
* `fresh` (`FreshStateAccepts`): a comment in `managementstate/recovery.go` says that the embedded registrations are replaced by an import. The trigger
  `source_artifacts_no_delete` aborts that replacement, and `application.Open` always registers the embedded sources first.
* `replace` (`TrustReplacedOnlyAfterReset`): decision 0004 says that trust is replaced only after `ResetTrust`. Of two concurrent
  confirmations of different keys the later one overwrites the earlier: both saw an untrusted row. (Both keys were confirmed by the
  user, and `CommandsAreConfirmed` holds all the same.)
* `export` (`PackagesRestore`): the state and the sources of a recovery package are read at different times, so a workspace changed in between
  makes a package that its own import refuses.
* `replan` (`FreshPlansApply`): `docs/adr/0005-step-5-deployment-compiler.md` says that generated files are replaced as complete outputs. The hashes of
  `caddy-networks.conf`, `modules.json` and `link-networks.json` are never observed, and the runner refuses to replace a file whose old content
  the plan does not know: the second plan that changes one of them ends as drift.

Met while modelling and kept in the models, without a run of their own:

* each root has its own lock (`03.inc:76`), so after a promotion a bootstrap runner that is still alive and a Core runner may mutate
  together, although ADR 0006 wants one structural writer at a time;
* the exclusive `flock -n` of an observation (`execution_ssh.go:96`) can make a runner's non-blocking lock fail, and the run is
  refused as locked although no other run is there;
* the promotion test ignores the bundle's kind (`05.inc:38`): a validation of a Core subject can create the Core history;
* after a promotion the proofs of other bootstrap runs are not observed any more (`execution_ssh.go:91`); a run that waits for secrets there is never given them,
  and its `Execute` polls without end (section 4);
* the lock says that somebody holds it, not who (`executor.go:177`): a run that is over without a proof is followed on while others hold it;
* the success proof can be overwritten by a failed one (`05.inc:46`) after a caller read it. The local history then records success for ever while the target says
  failed, although ADR 0006 (line 92) calls the target proof the canonical fact;
* proof, lock and unit are read in this order (`execution_ssh.go:93`): a run that finishes in between is reported as interrupted
  although its terminal proof exists. That it is over is proved, and a later `Reconcile` reads the proof;
* of two overlapping imports of one package the first can reuse a tree the second has published, and the second's roll-back removes it
  (`sourcelibrary/recovery.go:204`);
* `PushCustomModule` hashes the workspace again after the push (`library.go:288`): when it was edited meanwhile, the row says
  *synchronized* with the digest of files that were not pushed;
* `chooseSubnet` compares subnets as strings (`graph.go:119`): a foreign 10.240.0.0/16 does not keep one of its /24 blocks from being chosen,
  although ADR 0005 speaks of a collision-free candidate;
* a stop of the Studio between the rename and the row of a `Delete` leaves a catalogued artifact in its tombstone, where it is safe but where every
  later `Delete` ends with "tombstone already exists".

## 7. Not modelled

* Parsing of command output, text of generated files, packing and hashing of archives, envelope encryption, OCI registry protocol, HTTP and wiring: no control
  worth a state machine, or pure functions of data the properties do not tell apart.
* Schema migrations and the encryption of secrets: they run before anything else and alone.
* The Core plan and the bootstrap template of the deployment compiler, and the comparison after a reconnection: no later step of the modelled
  system reads their results.
* The stop and start of containers around a storage copy: one remote script with a trap, whose order the shell decides; the sessions it
  runs in are in `Trust`.
* Durability of unsynced file copies (`03.inc:57`) and systemd's stop of an action unit (`02.inc:155`): their semantics are not in the source.

## 8. Plan

1. The hypotheses under which the statements of section 6 that are violated do hold, as theorems: `AtMostOnce` without a promotion between two runs, trust replacement
   with confirmations one at a time, plans when every generated file is hashed.
2. The composition of `Planning` with `TargetRunner`, so that a run's claim and proof go with its files.
