---------------------------- MODULE TargetRunner ----------------------------
(***************************************************************************)
(* The bundle-local runner (internal/targetrunner/parts, assembled     *)
(* into runner.py) on one target VPS, together with the target side of the *)
(* SSH adapter (targetgateway/execution_ssh.go): bundle upload, detached   *)
(* start, the lock probe of an observation and the secret FIFO.            *)
(*                                                                         *)
(* Many runner processes may be alive at once.  They share two history     *)
(* roots: the bootstrap area under /var/tmp and, once the marker .active   *)
(* exists, the Core area under /var/lib.  Each root has its own bundles,   *)
(* proofs, claims and its own structural.lock.                             *)
(***************************************************************************)
EXTENDS Naturals, FiniteSets

CONSTANTS
    Runs,               \* run ids; every Execute allocates a fresh one
    Bundles,            \* content-addressed bundle ids
    ValidationBundles,  \* bundles whose manifest kind is "validation"
    CoreBundles,        \* bundles whose manifest subject_kind is "core"
    StepCount,          \* number of steps in a manifest
    NoRun               \* absence of a run

ASSUME BundleKinds == ValidationBundles \subseteq Bundles /\ CoreBundles \subseteq Bundles
ASSUME StepCountNat == StepCount \in Nat
ASSUME NoRunFresh == NoRun \notin Runs

VARIABLES
    bundleOf,   \* the bundle each run id is asked to execute
    bundles,    \* per root: the bundle files present
    proofs,     \* per root: the proof file of each run
    claims,     \* per root: the bundles that have a claim file
    holders,    \* per root: the runs whose process holds structural.lock
    probing,    \* per root: the observations whose flock probe holds it
    activator,  \* the run that first wrote .active (NoRun: no marker)
    pc,         \* where each runner process is
    root,       \* the root that process chose
    step,       \* the manifest steps that process completed
    productive, \* history: structural runs that reached productive mutation
    succeeded   \* history: runs whose success proof was visible

vars == <<bundleOf, bundles, proofs, claims, holders, probing, activator,
          pc, root, step, productive, succeeded>>

Roots == {"bootstrap", "core"}

PcLabels == {"none", "launched", "opened", "refused", "locked", "claimed",
             "awaiting", "received", "writing", "steps", "stepfailed",
             "validated", "promoting", "copying", "copied", "marked",
             "promoted", "duplicate", "finished", "exiting", "done", "dead"}

\* Labels at which the process has structural.lock.
Critical == PcLabels \ {"none", "launched", "opened", "refused", "done", "dead"}

\* Labels after a structural run's claim and before its final proof.
AfterClaim == Critical \ {"locked", "duplicate", "finished", "exiting"}

Phases == {"none", "verifying", "lock", "preconditions", "duplicate",
           "awaiting-secrets", "steps", "post-validation",
           "promoting-history", "failed", "finished"}

Statuses == {"none", "running", "failed", "success"}

ProofDocs == [status : Statuses, phase : Phases, steps : 0 .. StepCount]

NoProof == [status |-> "none", phase |-> "none", steps |-> 0]

Terminal(p) == p.status \in {"success", "failed"}

TypeOK ==
    /\ bundleOf \in [Runs -> Bundles]
    /\ bundles \in [Roots -> SUBSET Bundles]
    /\ proofs \in [Roots -> [Runs -> ProofDocs]]
    /\ claims \in [Roots -> SUBSET Bundles]
    /\ holders \in [Roots -> SUBSET Runs]
    /\ probing \in [Roots -> SUBSET Runs]
    /\ activator \in Runs \cup {NoRun}
    /\ pc \in [Runs -> PcLabels]
    /\ root \in [Runs -> Roots \cup {"none"}]
    /\ step \in [Runs -> 0 .. StepCount]
    /\ productive \subseteq Runs
    /\ succeeded \subseteq Runs

-----------------------------------------------------------------------------
(* Derived state.                                                          *)

Structural(r) == bundleOf[r] \notin ValidationBundles

\* The transient unit vpsmith-exec-<run> is active.
UnitRunning(r) == pc[r] \notin {"none", "done", "dead"}

CoreActive == activator # NoRun

\* root_for_run(), and the same two-line test in every SSH script.
CurrentRoot == IF CoreActive THEN "core" ELSE "bootstrap"

\* A runner opens (and so creates) the lock file of the root it chose.
LockFileExists(rt) == \E r \in Runs : root[r] = rt

\* Whether a successful run has to move the bootstrap history to Core.
Promotes(r) == root[r] = "bootstrap" /\ bundleOf[r] \in CoreBundles

\* proof_file: it is redirected to the Core root only after promotion.
ProofFile(r) ==
    IF pc[r] = "promoted" \/ (pc[r] = "finished" /\ Promotes(r))
    THEN "core" ELSE root[r]

\* Mutant of LockFree: a validation is let in beside a structural run.
LockFreeMixed(r) ==
    /\ probing[root[r]] = {}
    /\ \A s \in holders[root[r]] : ~Structural(r) \/ ~Structural(s)

\* flock(LOCK_SH or LOCK_EX, LOCK_NB) succeeds for r.
LockFree(r) ==
    /\ probing[root[r]] = {}
    /\ \A s \in holders[root[r]] : ~Structural(r) /\ ~Structural(s)

-----------------------------------------------------------------------------
Init ==
    /\ bundleOf \in [Runs -> Bundles]
    /\ bundles = [rt \in Roots |-> {}]
    /\ proofs = [rt \in Roots |-> [r \in Runs |-> NoProof]]
    /\ claims = [rt \in Roots |-> {}]
    /\ holders = [rt \in Roots |-> {}]
    /\ probing = [rt \in Roots |-> {}]
    /\ activator = NoRun
    /\ pc = [r \in Runs |-> "none"]
    /\ root = [r \in Runs |-> "none"]
    /\ step = [r \in Runs |-> 0]
    /\ productive = {}
    /\ succeeded = {}

-----------------------------------------------------------------------------
(* Operations the SSH adapter performs on the target.                      *)

\* The bundle id is a digest of its content, so an existing file always has
\* the same bytes and a re-upload leaves it alone.
UploadExecution(b) ==
    /\ bundles' = [bundles EXCEPT ![CurrentRoot] = @ \cup {b}]
    /\ UNCHANGED <<bundleOf, proofs, claims, holders, probing, activator, pc,
                   root, step, productive, succeeded>>

\* Mutant of StartExecution: the unit of a run that has ended is started again.
StartExecutionAgain(r) ==
    /\ ~UnitRunning(r)
    /\ bundleOf[r] \in bundles[CurrentRoot]
    /\ pc' = [pc EXCEPT ![r] = "launched"]
    /\ UNCHANGED <<bundleOf, bundles, proofs, claims, holders, probing,
                   activator, root, step, productive, succeeded>>

\* The script finds the bundle in the current root and starts the unit; the
\* unit name contains the run id, so one run id starts at most once.
StartExecution(r) ==
    /\ pc[r] = "none"
    /\ bundleOf[r] \in bundles[CurrentRoot]
    /\ pc' = [pc EXCEPT ![r] = "launched"]
    /\ UNCHANGED <<bundleOf, bundles, proofs, claims, holders, probing,
                   activator, root, step, productive, succeeded>>

\* "flock -n structural.lock -c true" gets the exclusive lock for a moment.
ProbeLock(o, rt) ==
    /\ LockFileExists(rt)
    /\ holders[rt] = {}
    /\ probing[rt] = {}
    /\ probing' = [probing EXCEPT ![rt] = {o}]
    /\ UNCHANGED <<bundleOf, bundles, proofs, claims, holders, activator, pc,
                   root, step, productive, succeeded>>

ProbeRelease(o, rt) ==
    /\ o \in probing[rt]
    /\ probing' = [probing EXCEPT ![rt] = @ \ {o}]
    /\ UNCHANGED <<bundleOf, bundles, proofs, claims, holders, activator, pc,
                   root, step, productive, succeeded>>

\* The secret stream is written to the FIFO the runner is blocked on.
ReceiveSecrets(r) ==
    /\ pc[r] = "awaiting"
    /\ pc' = [pc EXCEPT ![r] = "received"]
    /\ UNCHANGED <<bundleOf, bundles, proofs, claims, holders, probing,
                   activator, root, step, productive, succeeded>>

-----------------------------------------------------------------------------
(* The runner process.  Every write_proof is one atomic os.replace; it may *)
(* still raise after that, in chmod or in the fsync of the directory.      *)

\* Advance process r to label l and replace its proof file.
Advance(r, l, p) ==
    /\ pc' = [pc EXCEPT ![r] = l]
    /\ proofs' = [proofs EXCEPT ![ProofFile(r)][r] = p]

Doc(st, phase, n) == [status |-> st, phase |-> phase, steps |-> n]

\* execute(): verify the bundle, choose the root, open the lock file and
\* write the first proof.
OpenRoot(r) ==
    /\ pc[r] = "launched"
    /\ root' = [root EXCEPT ![r] = CurrentRoot]
    /\ pc' = [pc EXCEPT ![r] = "opened"]
    /\ proofs' = [proofs EXCEPT ![CurrentRoot][r] = Doc("running", "verifying", step[r])]
    /\ UNCHANGED <<bundleOf, bundles, claims, holders, probing, activator,
                   step, productive, succeeded>>

TakeLock(r) ==
    /\ pc[r] = "opened"
    /\ LockFree(r)
    /\ holders' = [holders EXCEPT ![root[r]] = @ \cup {r}]
    /\ Advance(r, "locked", Doc("running", "preconditions", step[r]))
    /\ UNCHANGED <<bundleOf, bundles, claims, probing, activator, root, step,
                   productive, succeeded>>

\* EAGAIN: "structural operation is locked", exit 75.
LockRefused(r) ==
    /\ pc[r] = "opened"
    /\ ~LockFree(r)
    /\ Advance(r, "refused", Doc("failed", "lock", step[r]))
    /\ UNCHANGED <<bundleOf, bundles, claims, holders, probing, activator,
                   root, step, productive, succeeded>>

\* Mutant of Claim: the claim file is opened without O_EXCL.
ClaimShared(r) ==
    /\ pc[r] = "locked"
    /\ pc' = [pc EXCEPT ![r] = "claimed"]
    /\ claims' = [claims EXCEPT ![root[r]] = @ \cup ({bundleOf[r]} \ ValidationBundles)]
    /\ UNCHANGED <<bundleOf, bundles, proofs, holders, probing, activator,
                   root, step, productive, succeeded>>

\* Preconditions hold; a structural run creates its claim with O_EXCL.  The
\* run id written into the file is never read, so only its presence counts.
Claim(r) ==
    /\ pc[r] = "locked"
    /\ Structural(r) => bundleOf[r] \notin claims[root[r]]
    /\ pc' = [pc EXCEPT ![r] = "claimed"]
    /\ claims' = IF Structural(r)
                 THEN [claims EXCEPT ![root[r]] = @ \cup {bundleOf[r]}]
                 ELSE claims
    /\ UNCHANGED <<bundleOf, bundles, proofs, holders, probing, activator,
                   root, step, productive, succeeded>>

\* Mutant of Duplicate: the claim is looked at only after the secrets are written.
DuplicateLate(r) ==
    /\ pc[r] = "steps"
    /\ Structural(r)
    /\ bundleOf[r] \in claims[root[r]]
    /\ Advance(r, "duplicate", Doc("failed", "duplicate", step[r]))
    /\ UNCHANGED <<bundleOf, bundles, claims, holders, probing, activator,
                   root, step, productive, succeeded>>

\* FileExistsError: "bundle was already started", exit 76.  The proof is
\* visible; whether its write_proof returns or raises is open.
Duplicate(r) ==
    /\ pc[r] = "locked"
    /\ Structural(r)
    /\ bundleOf[r] \in claims[root[r]]
    /\ Advance(r, "duplicate", Doc("failed", "duplicate", step[r]))
    /\ UNCHANGED <<bundleOf, bundles, claims, holders, probing, activator,
                   root, step, productive, succeeded>>

\* Create the FIFO, publish awaiting-secrets and block opening the FIFO.
AwaitSecrets(r) ==
    /\ pc[r] = "claimed"
    /\ Advance(r, "awaiting", Doc("running", "awaiting-secrets", step[r]))
    /\ UNCHANGED <<bundleOf, bundles, claims, holders, probing, activator,
                   root, step, productive, succeeded>>

\* The stream is truncated or malformed: read_secrets raises.
SecretsBroken(r) ==
    /\ pc[r] = "awaiting"
    /\ Advance(r, "exiting", Doc("failed", "failed", step[r]))
    /\ UNCHANGED <<bundleOf, bundles, claims, holders, probing, activator,
                   root, step, productive, succeeded>>

\* materialize_secrets: the set matches the manifest; a structural run then
\* starts writing secret files, its first productive mutation.
CheckSecrets(r) ==
    /\ pc[r] = "received"
    /\ productive' = IF Structural(r) THEN productive \cup {r} ELSE productive
    /\ pc' = [pc EXCEPT ![r] = "writing"]
    /\ UNCHANGED <<bundleOf, bundles, proofs, claims, holders, probing,
                   activator, root, step, succeeded>>

MaterializeSecrets(r) ==
    /\ pc[r] = "writing"
    /\ Advance(r, "steps", Doc("running", "steps", step[r]))
    /\ UNCHANGED <<bundleOf, bundles, claims, holders, probing, activator,
                   root, step, productive, succeeded>>

\* Mutant of RunStep: the loop runs once more than there are steps.
RunStepBeyond(r) ==
    /\ pc[r] = "steps"
    /\ step[r] <= StepCount
    /\ step' = [step EXCEPT ![r] = @ + 1]
    /\ \E after \in {"steps", "stepfailed"} :
          Advance(r, after, Doc("running", "steps", step[r] + 1))
    /\ UNCHANGED <<bundleOf, bundles, claims, holders, probing, activator,
                   root, productive, succeeded>>

\* One turn of the step loop: the result is appended, then its exit code is
\* examined.
RunStep(r) ==
    /\ pc[r] = "steps"
    /\ step[r] < StepCount
    /\ step' = [step EXCEPT ![r] = @ + 1]
    /\ \E after \in {"steps", "stepfailed"} :
          Advance(r, after, Doc("running", "steps", step[r] + 1))
    /\ UNCHANGED <<bundleOf, bundles, claims, holders, probing, activator,
                   root, productive, succeeded>>

\* A step that raises is appended with exit code 1 and ends the run at once.
StepRaises(r) ==
    /\ pc[r] = "steps"
    /\ step[r] < StepCount
    /\ step' = [step EXCEPT ![r] = @ + 1]
    /\ Advance(r, "exiting", Doc("failed", "failed", step[r] + 1))
    /\ UNCHANGED <<bundleOf, bundles, claims, holders, probing, activator,
                   root, productive, succeeded>>

\* Mutant of PostValidate: the step loop is left before its end.
PostValidateEarly(r) ==
    /\ pc[r] = "steps"
    /\ Advance(r, "validated", Doc("running", "post-validation", step[r]))
    /\ UNCHANGED <<bundleOf, bundles, claims, holders, probing, activator,
                   root, step, productive, succeeded>>

\* post_state() found every expected artifact.
PostValidate(r) ==
    /\ pc[r] = "steps"
    /\ step[r] = StepCount
    /\ Advance(r, "validated", Doc("running", "post-validation", step[r]))
    /\ UNCHANGED <<bundleOf, bundles, claims, holders, probing, activator,
                   root, step, productive, succeeded>>

\* Mutant of BeginPromotion: the final proof is written before the promotion.
BeginPromotionFinished(r) ==
    /\ pc[r] = "validated"
    /\ Promotes(r)
    /\ Advance(r, "promoting", Doc("success", "finished", step[r]))
    /\ UNCHANGED <<bundleOf, bundles, claims, holders, probing, activator,
                   root, step, productive, succeeded>>

BeginPromotion(r) ==
    /\ pc[r] = "validated"
    /\ Promotes(r)
    /\ Advance(r, "promoting", Doc("running", "promoting-history", step[r]))
    /\ UNCHANGED <<bundleOf, bundles, claims, holders, probing, activator,
                   root, step, productive, succeeded>>

\* promote_first_core: the bundle, then the proof, are copied to Core.
CopyBundleAndProof(r) ==
    /\ pc[r] = "promoting"
    /\ bundles' = [bundles EXCEPT !["core"] = @ \cup {bundleOf[r]}]
    /\ proofs' = [proofs EXCEPT !["core"][r] = proofs["bootstrap"][r]]
    /\ pc' = [pc EXCEPT ![r] = "copying"]
    /\ UNCHANGED <<bundleOf, claims, holders, probing, activator, root, step,
                   productive, succeeded>>

\* Mutant of CopyClaim: the claim stays behind in the bootstrap area.
CopyClaimForgotten(r) ==
    /\ pc[r] = "copying"
    /\ pc' = [pc EXCEPT ![r] = "copied"]
    /\ UNCHANGED <<bundleOf, bundles, proofs, claims, holders, probing, activator,
                   root, step, productive, succeeded>>

\* "if claim.exists()": a validation never claims its bundle.
CopyClaim(r) ==
    /\ pc[r] = "copying"
    /\ claims' = [claims EXCEPT !["core"] =
                     @ \cup (claims["bootstrap"] \cap {bundleOf[r]})]
    /\ pc' = [pc EXCEPT ![r] = "copied"]
    /\ UNCHANGED <<bundleOf, bundles, proofs, holders, probing, activator,
                   root, step, productive, succeeded>>

\* Mutant of ActivateCore: the marker is written before the claim is copied.
ActivateCoreEarly(r) ==
    /\ pc[r] = "copying"
    /\ activator' = IF CoreActive THEN activator ELSE r
    /\ pc' = [pc EXCEPT ![r] = "marked"]
    /\ UNCHANGED <<bundleOf, bundles, proofs, claims, holders, probing, root,
                   step, productive, succeeded>>

\* The marker is written; every later script and runner uses the Core root.
ActivateCore(r) ==
    /\ pc[r] = "copied"
    /\ activator' = IF CoreActive THEN activator ELSE r
    /\ pc' = [pc EXCEPT ![r] = "marked"]
    /\ UNCHANGED <<bundleOf, bundles, proofs, claims, holders, probing, root,
                   step, productive, succeeded>>

\* promote_first_core returned: proof_file becomes the Core copy.
RedirectProof(r) ==
    /\ pc[r] = "marked"
    /\ pc' = [pc EXCEPT ![r] = "promoted"]
    /\ UNCHANGED <<bundleOf, bundles, proofs, claims, holders, probing,
                   activator, root, step, productive, succeeded>>

\* The success proof is visible; its write_proof may still raise.
Finish(r) ==
    /\ \/ pc[r] = "validated" /\ ~Promotes(r)
       \/ pc[r] = "promoted"
    /\ Advance(r, "finished", Doc("success", "finished", step[r]))
    /\ succeeded' = succeeded \cup {r}
    /\ UNCHANGED <<bundleOf, bundles, claims, holders, probing, activator,
                   root, step, productive>>

\* Any exception inside the locked section: a failed precondition, a secret
\* set that does not match, a post-state mismatch or an I/O error.  One raised
\* by the write of a terminal proof replaces the proof that is visible already.
Fail(r) ==
    /\ pc[r] \in Critical \ {"awaiting", "exiting"}
    /\ Advance(r, "exiting", Doc("failed", "failed", step[r]))
    /\ UNCHANGED <<bundleOf, bundles, claims, holders, probing, activator,
                   root, step, productive, succeeded>>

\* Mutant of Exit: a run refused by the lock stays.
ExitLockedOnly(r) ==
    /\ pc[r] \in {"duplicate", "finished", "exiting"}
    /\ holders' = [holders EXCEPT ![root[r]] = @ \ {r}]
    /\ pc' = [pc EXCEPT ![r] = "done"]
    /\ UNCHANGED <<bundleOf, bundles, proofs, claims, probing, activator,
                   root, step, productive, succeeded>>

\* The finally block unlocks, then the process and its unit end.
Exit(r) ==
    /\ pc[r] \in {"duplicate", "finished", "exiting", "refused"}
    /\ holders' = [holders EXCEPT ![root[r]] = @ \ {r}]
    /\ pc' = [pc EXCEPT ![r] = "done"]
    /\ UNCHANGED <<bundleOf, bundles, proofs, claims, probing, activator,
                   root, step, productive, succeeded>>

\* The process dies without its handlers: killed, out of memory, host reboot
\* or an exception outside the handled section.  The kernel drops its lock.
Kill(r) ==
    /\ UnitRunning(r)
    /\ holders' = [rt \in Roots |-> holders[rt] \ {r}]
    /\ pc' = [pc EXCEPT ![r] = "dead"]
    /\ UNCHANGED <<bundleOf, bundles, proofs, claims, probing, activator,
                   root, step, productive, succeeded>>

-----------------------------------------------------------------------------
\* What the scheduler runs without outside help.
RunnerStep(r) ==
    \/ OpenRoot(r) \/ TakeLock(r) \/ LockRefused(r) \/ Claim(r) \/ Duplicate(r)
    \/ AwaitSecrets(r) \/ CheckSecrets(r) \/ MaterializeSecrets(r)
    \/ RunStep(r) \/ StepRaises(r) \/ PostValidate(r) \/ BeginPromotion(r)
    \/ CopyBundleAndProof(r) \/ CopyClaim(r) \/ ActivateCore(r)
    \/ RedirectProof(r) \/ Finish(r) \/ Fail(r) \/ Exit(r)

\* What a management station, or a fault, does to the target.
Environment ==
    \/ \E b \in Bundles : UploadExecution(b)
    \/ \E r \in Runs : StartExecution(r) \/ ReceiveSecrets(r)
                       \/ SecretsBroken(r) \/ Kill(r)
    \/ \E o \in Runs, rt \in Roots : ProbeLock(o, rt) \/ ProbeRelease(o, rt)

Next == Environment \/ \E r \in Runs : RunnerStep(r)

Spec == Init /\ [][Next]_vars

\* The runner is at a step of the manifest; an action script has no timeout.
InScript(r) == pc[r] = "steps" /\ step[r] < StepCount

\* A started unit is scheduled by systemd and the kernel, but a script need not
\* end; the flock probe is "-c true" and ends by itself.
Fairness ==
    /\ \A r \in Runs : WF_vars(RunnerStep(r) /\ ~InScript(r))
    /\ \A o \in Runs, rt \in Roots : WF_vars(ProbeRelease(o, rt))

FairSpec == Spec /\ Fairness
-----------------------------------------------------------------------------
(* Correctness.                                                            *)

\* The structural lock: a runner inside the locked section holds the lock of
\* the root it chose, and a structural runner shares it with no other runner.
LockExclusion ==
    \A r \in Runs : pc[r] \in Critical =>
        /\ r \in holders[root[r]]
        /\ Structural(r) => holders[root[r]] = {r}

\* A run that owns the claim of its bundle.
Claimed(r) == Structural(r) /\ (pc[r] \in AfterClaim \/ r \in productive)

\* Under one root, two different runs never both reach the productive part of
\* the same structural bundle, whatever was killed, failed or retried before:
\* the claim outlives the run that made it.
AtMostOncePerRoot ==
    \A r, s \in productive :
        (root[r] = root[s] /\ bundleOf[r] = bundleOf[s]) => r = s

\* The structural bundle whose run moved the history to Core is applied by no
\* other run, under either root: promotion carries its claim along before the
\* marker makes runners use the Core root.
PromotedNeverReplayed ==
    (CoreActive /\ Structural(activator)) =>
        \A r \in productive : bundleOf[r] = bundleOf[activator] => r = activator

\* The marker is written last: whoever sees the Core root active finds there
\* the bundle, the claim and a proof of the run that promoted, whether or not
\* that run survived the promotion.
PromotionComplete ==
    CoreActive =>
        /\ bundleOf[activator] \in bundles["core"]
        /\ Structural(activator) => bundleOf[activator] \in claims["core"]
        /\ proofs["core"][activator] # NoProof

\* A run has one outcome: of its proofs under the two roots at most one is
\* terminal, even when promotion fails half way.
OneOutcome ==
    \A r \in Runs :
        ~(Terminal(proofs["bootstrap"][r]) /\ Terminal(proofs["core"][r]))

\* A success proof is written only after every step of the manifest, after
\* productive mutation of a structural bundle, and for a Core bundle under the
\* active Core root.
SuccessMeansComplete ==
    \A r \in Runs, rt \in Roots : proofs[rt][r].status = "success" =>
        /\ proofs[rt][r].steps = StepCount
        /\ Structural(r) => r \in productive
        /\ bundleOf[r] \in CoreBundles => CoreActive /\ rt = "core"

\* A run refused by the lock or as a duplicate mutated nothing.
RejectedNeverMutates ==
    \A r \in Runs, rt \in Roots :
        proofs[rt][r].phase \in {"lock", "duplicate"} => r \notin productive

\* What a step may do to a terminal proof: nothing, unless its own runner is
\* still alive and the write of that proof raised.
SettlesTerminalProofs ==
    \A r \in Runs, rt \in Roots :
        Terminal(proofs[rt][r]) =>
            \/ proofs'[rt][r] = proofs[rt][r]
            \/ /\ UnitRunning(r)
               /\ proofs[rt][r].phase \in {"duplicate", "finished"}
               /\ proofs'[rt][r].status = "failed" /\ proofs'[rt][r].phase = "failed"

\* A terminal proof is rewritten at most once, to "failed" and by its own runner
\* while its unit is alive: no other run, no copy made by a promotion and no
\* later start changes it, and the proof of a unit that has ended is final.
TerminalProofSettles == [][SettlesTerminalProofs]_vars

\* A started unit ends, unless it is left waiting for its secrets or a script
\* of the bundle does not end.
RunnerTerminates ==
    \A r \in Runs :
        UnitRunning(r) ~> (~UnitRunning(r) \/ pc[r] = "awaiting" \/ InScript(r))

\* Some proof of r has status st.
Written(r, st) == \E rt \in Roots : proofs[rt][r].status = st

\* Status st was visible in a proof of r, now or earlier.
Shown(r, st) == IF st = "success" THEN r \in succeeded ELSE Written(r, st)

\* The life of a run as RunLifecycle sees it: the terminal proof decides, else
\* the process.
Outcome(r) ==
    IF Written(r, "success") THEN "success"
    ELSE IF Written(r, "failed") THEN "failed"
    ELSE IF UnitRunning(r) THEN "running"
    ELSE IF pc[r] = "none" THEN "absent"
    ELSE "interrupted"

\* The runs whose process is gone.
Ended == {r \in Runs : pc[r] \in {"done", "dead"}}

Lifecycle == INSTANCE RunLifecycle WITH
    Places <- Roots, place <- root, mutated <- productive,
    outcome <- [r \in Runs |-> Outcome(r)],
    ended <- Ended

\* Locks, claims, proofs and promotion together implement RunLifecycle.
ImplementsLifecycle == Lifecycle!Spec

-----------------------------------------------------------------------------
(* The inductive invariant behind the safety properties.                   *)

Promoting == {"promoting", "copying", "copied", "marked", "promoted"}

\* Labels at which a structural run has begun to mutate.
Mutating == {"writing", "steps", "stepfailed", "validated"} \cup Promoting

\* A process settles on its root, and touches nothing before that.
RootInv ==
    \A r \in Runs :
        /\ pc[r] \in {"none", "launched"} =>
              /\ root[r] = "none"
              /\ r \notin productive
              /\ \A rt \in Roots : proofs[rt][r] = NoProof
        /\ pc[r] \notin {"none", "launched", "dead"} => root[r] # "none"
        /\ r \in productive => root[r] # "none" /\ Structural(r)
        /\ root[r] = "core" => CoreActive

\* structural.lock is held exactly by the processes in the locked section.
LockInv ==
    /\ \A r \in Runs, rt \in Roots :
          r \in holders[rt] <=> pc[r] \in Critical /\ root[r] = rt
    /\ \A rt \in Roots : \A r, s \in holders[rt] :
          r = s \/ (~Structural(r) /\ ~Structural(s))

\* A claim outlives its run and is taken by one run of a root.
ClaimInv ==
    /\ \A r \in Runs : Claimed(r) => bundleOf[r] \in claims[root[r]]
    /\ \A r, s \in Runs :
          (Claimed(r) /\ Claimed(s) /\ root[r] = root[s] /\ bundleOf[r] = bundleOf[s])
              => r = s

\* What the promoting process has done at each label, and what the marker
\* therefore guarantees.
PromotionInv ==
    /\ \A r \in Runs :
          /\ pc[r] \in Mutating /\ Structural(r) => r \in productive
          /\ pc[r] \in Promoting =>
                /\ root[r] = "bootstrap"
                /\ bundleOf[r] \in CoreBundles
                /\ proofs["bootstrap"][r] # NoProof
          /\ pc[r] \in Promoting \ {"promoting"} =>
                /\ bundleOf[r] \in bundles["core"]
                /\ proofs["core"][r] # NoProof
          /\ pc[r] \in {"copied", "marked", "promoted"} /\ Structural(r) =>
                bundleOf[r] \in claims["core"]
          /\ pc[r] \in {"marked", "promoted"} => CoreActive
    /\ CoreActive =>
          /\ bundleOf[activator] \in bundles["core"]
          /\ proofs["core"][activator] # NoProof
    /\ CoreActive /\ Structural(activator) =>
          /\ bundleOf[activator] \in claims["core"]
          /\ activator \in productive
          /\ root[activator] = "bootstrap"
          /\ \A r \in Runs : Claimed(r) /\ root[r] = "core" =>
                bundleOf[r] # bundleOf[activator]

\* A process that still works has no terminal proof, one whose last write may
\* yet raise has that proof only, and what the written proofs say is true.
ProofInv ==
    \A r \in Runs :
        /\ pc[r] \in {"opened", "locked"} \cup AfterClaim =>
              \A rt \in Roots : ~Terminal(proofs[rt][r])
        /\ pc[r] \in {"duplicate", "finished"} =>
              \A rt \in Roots : Terminal(proofs[rt][r]) =>
                  rt = ProofFile(r) /\ proofs[rt][r].phase = pc[r]
        /\ \A rt \in Roots : proofs[rt][r].phase \in {"lock", "duplicate"} =>
              Terminal(proofs[rt][r]) /\ r \notin productive
        /\ pc[r] \in {"opened", "locked", "claimed", "awaiting", "received"} =>
              r \notin productive
        /\ pc[r] \in {"validated"} \cup Promoting => step[r] = StepCount
        /\ pc[r] \in {"duplicate", "finished", "exiting", "refused", "done"} =>
              \E rt \in Roots : Terminal(proofs[rt][r])
        /\ Written(r, "success") => r \in succeeded

IndInv ==
    /\ TypeOK /\ RootInv /\ LockInv /\ ClaimInv /\ PromotionInv /\ ProofInv
    /\ OneOutcome /\ SuccessMeansComplete

-----------------------------------------------------------------------------
(* What docs/adr/0006-secure-target-execution.md says and the runner does  *)
(* not guarantee.                                                          *)

\* "A partially failed structural bundle is intentionally not replayable under
\* the same bundle identity": at most one productive run per bundle, whatever
\* root each run used.
AtMostOnce ==
    \A r, s \in productive : bundleOf[r] = bundleOf[s] => r = s

=============================================================================
