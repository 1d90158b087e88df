----------------------------- MODULE Execution -----------------------------
(***************************************************************************)
(* The management station: execution.Executor (Execute and Reconcile), the *)
(* history adapter of internal/executionstate and the SSH exchange with    *)
(* the target, composed with the runners of TargetRunner.                  *)
(*                                                                         *)
(* Every run id belongs to one Execute call and to the Reconcile calls     *)
(* made later for it.  Calls for different runs run concurrently.          *)
(***************************************************************************)
EXTENDS TargetRunner

VARIABLES
    call,       \* where the current call for each run is
    op,         \* which of the two operations that call is
    obs,        \* the observation the call is collecting
    status,     \* Run.Status of that call
    err,        \* the error a returned call carries
    sent,       \* Execute's secretSent
    startMsg,   \* the start request of each run
    regBundles, \* execution_bundles rows in the local history
    records     \* the outcome column of each run's execution_records row

callVars == <<call, op, obs, status, err, sent>>
clientVars == <<callVars, startMsg, regBundles, records>>
allVars == <<vars, clientVars>>

CallLabels == {"idle", "register", "insert", "start", "starting", "observe",
               "readproof", "probe", "probing", "unit", "decide", "sending",
               "finishing", "appending", "returned"}

RunStatuses == {"not-started", "running", "interrupted", "failed", "success",
                "unknown"}

\* What the executor looks at in a proof document.
ProofView(p) ==
    IF p.status = "running" /\ p.phase = "awaiting-secrets"
    THEN "awaiting" ELSE p.status

Observations == [root : Roots \cup {"none"},
                 proof : {"none", "running", "awaiting", "success", "failed"},
                 lock : BOOLEAN, unit : BOOLEAN]

NoObs == [root |-> "none", proof |-> "none", lock |-> FALSE, unit |-> FALSE]

ClientTypeOK ==
    /\ call \in [Runs -> CallLabels]
    /\ op \in [Runs -> {"execute", "reconcile"}]
    /\ obs \in [Runs -> Observations]
    /\ status \in [Runs -> RunStatuses]
    /\ err \in [Runs -> {"nil", "unknown", "other"}]
    /\ sent \in [Runs -> BOOLEAN]
    /\ startMsg \in [Runs -> {"none", "inflight", "accepted"}]
    /\ regBundles \subseteq Bundles
    /\ records \in [Runs -> {"none", "success", "failed"}]

ClientInit ==
    /\ call = [r \in Runs |-> "idle"]
    /\ op = [r \in Runs |-> "execute"]
    /\ obs = [r \in Runs |-> NoObs]
    /\ status = [r \in Runs |-> "not-started"]
    /\ err = [r \in Runs |-> "nil"]
    /\ sent = [r \in Runs |-> FALSE]
    /\ startMsg = [r \in Runs |-> "none"]
    /\ regBundles = {}
    /\ records = [r \in Runs |-> "none"]

-----------------------------------------------------------------------------
\* Mutant of Classify: the state of the transient unit is not looked at.
ClassifyByLock(o) ==
    IF o.proof \in {"success", "failed"} THEN o.proof
    ELSE IF o.lock THEN "running"
    ELSE IF o.proof = "none" THEN "not-started"
    ELSE "interrupted"

\* classify(run, obs).Status
Classify(o) ==
    IF o.proof \in {"success", "failed"} THEN o.proof
    ELSE IF o.lock \/ o.unit THEN "running"
    ELSE IF o.proof = "none" THEN "not-started"
    ELSE "interrupted"

\* The call for r proceeds to label l with everything else as it was.
Goto(r, l) ==
    /\ call' = [call EXCEPT ![r] = l]
    /\ UNCHANGED <<op, obs, status, err, sent>>

\* The call for r returns Run.Status s and an error of class e.
Return(r, s, e) ==
    /\ call' = [call EXCEPT ![r] = "returned"]
    /\ status' = [status EXCEPT ![r] = s]
    /\ err' = [err EXCEPT ![r] = e]
    /\ obs' = [obs EXCEPT ![r] = NoObs]
    /\ sent' = [sent EXCEPT ![r] = FALSE]
    /\ op' = op

Observing(r) == call[r] \in {"observe", "readproof", "probe", "probing", "unit"}
InCall(r) == call[r] \notin {"idle", "returned"}

-----------------------------------------------------------------------------
(* Execute: upload and registration.                                       *)

UploadBundle(r) ==
    /\ call[r] = "idle"
    /\ UploadExecution(bundleOf[r])
    /\ Goto(r, "register")
    /\ UNCHANGED <<startMsg, regBundles, records>>

\* The bundle may have arrived although the upload reports an error.
UploadError(r) ==
    /\ call[r] = "idle"
    /\ UploadExecution(bundleOf[r]) \/ UNCHANGED vars
    /\ Return(r, "not-started", "other")
    /\ UNCHANGED <<startMsg, regBundles, records>>

\* RegisterBundle looks the bundle up in a snapshot ...
RegisterBundle(r) ==
    /\ call[r] = "register"
    /\ Goto(r, IF bundleOf[r] \in regBundles THEN "start" ELSE "insert")
    /\ UNCHANGED <<vars, startMsg, regBundles, records>>

\* ... and appends it in a later transaction, whose primary key refuses a row
\* that another call added in between.
AppendExecutionBundle(r) ==
    /\ call[r] = "insert"
    /\ IF bundleOf[r] \in regBundles
       THEN Return(r, "not-started", "other")
       ELSE Goto(r, "start")
    /\ regBundles' = regBundles \cup {bundleOf[r]}
    /\ UNCHANGED <<vars, startMsg, records>>

RegisterError(r) ==
    /\ call[r] \in {"register", "insert"}
    /\ Return(r, "not-started", "other")
    /\ UNCHANGED <<vars, startMsg, regBundles, records>>

-----------------------------------------------------------------------------
(* Execute: the detached start.  The remote script runs on its own time.   *)

Start(r) ==
    /\ call[r] = "start"
    /\ Goto(r, "starting")
    /\ startMsg' = [startMsg EXCEPT ![r] = "inflight"]
    /\ UNCHANGED <<vars, regBundles, records>>

StartArrives(r) ==
    /\ startMsg[r] = "inflight"
    /\ StartExecution(r)
    /\ startMsg' = [startMsg EXCEPT ![r] = "accepted"]
    /\ UNCHANGED <<callVars, regBundles, records>>

\* The bundle is missing in the current root, or a host command is; nothing
\* of the request is left on the target.
StartRejected(r) ==
    /\ startMsg[r] = "inflight"
    /\ startMsg' = [startMsg EXCEPT ![r] = "none"]
    /\ UNCHANGED <<vars, callVars, regBundles, records>>

StartReply(r) ==
    /\ call[r] = "starting"
    /\ startMsg[r] = "accepted"
    /\ call' = [call EXCEPT ![r] = "observe"]
    /\ status' = [status EXCEPT ![r] = "running"]
    /\ UNCHANGED <<vars, op, obs, err, sent, startMsg, regBundles, records>>

\* Mutant of StartError: a failed SSH call is taken for a start that never was.
StartErrorCertain(r) ==
    /\ call[r] = "starting"
    /\ Return(r, "not-started", "other")
    /\ UNCHANGED <<vars, startMsg, regBundles, records>>

\* Refused, reply lost, or given up while the request is still under way.
StartError(r) ==
    /\ call[r] = "starting"
    /\ Return(r, "unknown", "unknown")
    /\ UNCHANGED <<vars, startMsg, regBundles, records>>

-----------------------------------------------------------------------------
(* ObserveExecution: one remote script, five reads at five moments.        *)

Observe(r, l, o) ==
    /\ call' = [call EXCEPT ![r] = l]
    /\ obs' = [obs EXCEPT ![r] = o]
    /\ UNCHANGED <<op, status, err, sent, startMsg, regBundles, records>>

ObserveRoot(r) ==
    /\ call[r] = "observe"
    /\ Observe(r, "readproof", [NoObs EXCEPT !.root = CurrentRoot])
    /\ UNCHANGED vars

ObserveProof(r) ==
    /\ call[r] = "readproof"
    /\ Observe(r, "probe", [obs[r] EXCEPT !.proof =
                                  ProofView(proofs[obs[r].root][r])])
    /\ UNCHANGED vars

\* No lock file, or flock -n finds it held by a runner or another probe.
ObserveLock(r) ==
    /\ call[r] = "probe"
    /\ LET rt == obs[r].root
           held == LockFileExists(rt) /\ (holders[rt] # {} \/ probing[rt] # {})
       IN  /\ ~LockFileExists(rt) \/ held
           /\ Observe(r, "unit", [obs[r] EXCEPT !.lock = held, !.root = "none"])
    /\ UNCHANGED vars

\* flock -n gets the free lock and holds it while "true" runs.
ObserveFreeLock(r) ==
    /\ call[r] = "probe"
    /\ ProbeLock(r, obs[r].root)
    /\ Observe(r, "probing", obs[r])

\* The probe ends, also when nobody waits for the observation any more.
ObserveUnlock(r) ==
    \E rt \in Roots :
        /\ ProbeRelease(r, rt)
        /\ IF call[r] = "probing" /\ obs[r].root = rt
           THEN Observe(r, "unit", [obs[r] EXCEPT !.root = "none"])
           ELSE UNCHANGED clientVars

ObserveUnit(r) ==
    /\ call[r] = "unit"
    /\ Observe(r, "decide", [obs[r] EXCEPT !.unit = UnitRunning(r)])
    /\ UNCHANGED vars

\* The SSH command fails or is cut off.  Only Execute wraps ErrStatusUnknown.
ObserveError(r) ==
    /\ Observing(r)
    /\ Return(r, "unknown", IF op[r] = "execute" THEN "unknown" ELSE "other")
    /\ UNCHANGED <<vars, startMsg, regBundles, records>>

-----------------------------------------------------------------------------
(* The body of Execute's loop after an observation.                        *)

Deciding(r) == call[r] = "decide" /\ op[r] = "execute"

Disappeared(o) == o.proof = "none" /\ ~o.lock /\ ~o.unit

\* Mutant of NeedsSecrets: any proof of a live run is an invitation.
NeedsSecretsSoon(r) == ~sent[r] /\ obs[r].proof \in {"running", "awaiting"}

NeedsSecrets(r) == ~sent[r] /\ obs[r].proof = "awaiting"

\* "started execution disappeared before producing a proof"
DecideDisappeared(r) ==
    /\ Deciding(r)
    /\ Disappeared(obs[r])
    /\ Return(r, "unknown", "unknown")
    /\ UNCHANGED <<vars, startMsg, regBundles, records>>

\* run = classify(run, obs); the call goes on to label l.
Classified(r, l) ==
    /\ call' = [call EXCEPT ![r] = l]
    /\ status' = [status EXCEPT ![r] = Classify(obs[r])]
    /\ obs' = [obs EXCEPT ![r] = NoObs]
    /\ UNCHANGED <<op, err, sent>>

ResolveSecrets(r) ==
    /\ Deciding(r)
    /\ NeedsSecrets(r)
    /\ Classified(r, "sending")
    /\ UNCHANGED <<vars, startMsg, regBundles, records>>

\* A secret is unset or cannot be decrypted: the call ends, the runner waits.
ResolveError(r) ==
    /\ Deciding(r)
    /\ NeedsSecrets(r)
    /\ Return(r, Classify(obs[r]), "other")
    /\ UNCHANGED <<vars, startMsg, regBundles, records>>

\* Mutant of DecideTerminal: whatever proof there is gets imported.
DecideTerminalAny(r) ==
    /\ Deciding(r)
    /\ obs[r].proof # "none"
    /\ Classified(r, "finishing")
    /\ UNCHANGED <<vars, startMsg, regBundles, records>>

DecideTerminal(r) ==
    /\ Deciding(r)
    /\ obs[r].proof \in {"success", "failed"}
    /\ Classified(r, "finishing")
    /\ UNCHANGED <<vars, startMsg, regBundles, records>>

\* Mutant of DecideInterrupted: an interrupted run is polled again.
DecideInterruptedPolls(r) ==
    /\ Deciding(r)
    /\ ~NeedsSecrets(r)
    /\ Classify(obs[r]) = "interrupted"
    /\ Classified(r, "observe")
    /\ UNCHANGED <<vars, startMsg, regBundles, records>>

DecideInterrupted(r) ==
    /\ Deciding(r)
    /\ ~NeedsSecrets(r)
    /\ Classify(obs[r]) = "interrupted"
    /\ Return(r, "interrupted", "unknown")
    /\ UNCHANGED <<vars, startMsg, regBundles, records>>

\* Mutant of DecideRunning: a run that waits for secrets is only polled.
DecideRunningBlind(r) ==
    /\ Deciding(r)
    /\ Classify(obs[r]) = "running"
    /\ Classified(r, "observe") \/ Return(r, "unknown", "unknown")
    /\ UNCHANGED <<vars, startMsg, regBundles, records>>

DecideRunning(r) ==
    /\ Deciding(r)
    /\ ~NeedsSecrets(r)
    /\ Classify(obs[r]) = "running"
    /\ Classified(r, "observe") \/ Return(r, "unknown", "unknown")
    /\ UNCHANGED <<vars, startMsg, regBundles, records>>

-----------------------------------------------------------------------------
(* SendSecrets, then the rest of the same loop iteration.                  *)

\* Delivered and acknowledged: the loop polls again.  (A run classified as
\* interrupted has no reader, so its delivery never succeeds.)
SendSecrets(r) ==
    /\ call[r] = "sending"
    /\ ReceiveSecrets(r)
    /\ sent' = [sent EXCEPT ![r] = TRUE]
    /\ call' = [call EXCEPT ![r] = "observe"]
    /\ UNCHANGED <<op, obs, status, err, startMsg, regBundles, records>>

\* Not delivered (no FIFO, session refused), cut off half way, or delivered
\* with the reply lost.
SendError(r) ==
    /\ call[r] = "sending"
    /\ UNCHANGED vars \/ SecretsBroken(r) \/ ReceiveSecrets(r)
    /\ Return(r, "unknown", "unknown")
    /\ UNCHANGED <<startMsg, regBundles, records>>

-----------------------------------------------------------------------------
(* History import, shared by Execute and Reconcile.                        *)

\* What a call whose terminal proof is in the history returns.
FinishedReturn(r) ==
    Return(r, status[r],
           IF op[r] = "execute" /\ status[r] = "failed" THEN "other" ELSE "nil")

\* Finished finds the record in a snapshot: it must say the same.
FinishedKnown(r) ==
    /\ call[r] = "finishing"
    /\ records[r] # "none"
    /\ IF records[r] = status[r]
       THEN FinishedReturn(r)
       ELSE Return(r, status[r], "other")
    /\ UNCHANGED <<vars, startMsg, regBundles, records>>

FinishedNew(r) ==
    /\ call[r] = "finishing"
    /\ records[r] = "none"
    /\ Goto(r, "appending")
    /\ UNCHANGED <<vars, startMsg, regBundles, records>>

\* Mutant of AppendExecutionRecord: every terminal proof is imported as a success.
AppendRecordSuccess(r) ==
    /\ call[r] = "appending"
    /\ bundleOf[r] \in regBundles
    /\ records' = [records EXCEPT ![r] = "success"]
    /\ FinishedReturn(r)
    /\ UNCHANGED <<vars, startMsg, regBundles>>

\* The row references the bundle's row: the foreign key must hold.
AppendExecutionRecord(r) ==
    /\ call[r] = "appending"
    /\ bundleOf[r] \in regBundles
    /\ records' = [records EXCEPT ![r] = status[r]]
    /\ FinishedReturn(r)
    /\ UNCHANGED <<vars, startMsg, regBundles>>

\* Mutants of FinishedError: the failed import is not reported, or it undoes what
\* an earlier import recorded.
FinishedErrorIgnored(r) ==
    /\ call[r] \in {"finishing", "appending"}
    /\ Return(r, status[r], "nil")
    /\ UNCHANGED <<vars, startMsg, regBundles, records>>

FinishedErrorUndoes(r) ==
    /\ call[r] \in {"finishing", "appending"}
    /\ records' = [records EXCEPT ![r] = "none"]
    /\ Return(r, status[r], "other")
    /\ UNCHANGED <<vars, startMsg, regBundles>>

FinishedError(r) ==
    /\ call[r] \in {"finishing", "appending"}
    /\ Return(r, status[r], "other")
    /\ UNCHANGED <<vars, startMsg, regBundles, records>>

-----------------------------------------------------------------------------
(* Reconcile, and the loss of the management process.                      *)

Reconcile(r) ==
    /\ call[r] = "returned"
    /\ call' = [call EXCEPT ![r] = "observe"]
    /\ op' = [op EXCEPT ![r] = "reconcile"]
    /\ status' = [status EXCEPT ![r] = "unknown"]
    /\ err' = [err EXCEPT ![r] = "nil"]
    /\ UNCHANGED <<vars, obs, sent, startMsg, regBundles, records>>

ReconcileDecide(r) ==
    /\ call[r] = "decide"
    /\ op[r] = "reconcile"
    /\ IF obs[r].proof \in {"success", "failed"}
       THEN Classified(r, "finishing")
       ELSE Return(r, Classify(obs[r]), "nil")
    /\ UNCHANGED <<vars, startMsg, regBundles, records>>

\* The Studio process stops in the middle of a call.  Nothing of the call is
\* left; the operator knows no more than after an unknown result.
CallLost(r) ==
    /\ InCall(r)
    /\ Return(r, "unknown", "unknown")
    /\ UNCHANGED <<vars, startMsg, regBundles, records>>

-----------------------------------------------------------------------------
\* The steps a live call takes by itself or gets from a completed SSH command.
ClientStep(r) ==
    \/ RegisterBundle(r) \/ AppendExecutionBundle(r) \/ RegisterError(r)
    \/ Start(r) \/ StartReply(r) \/ StartError(r)
    \/ ObserveRoot(r) \/ ObserveProof(r) \/ ObserveLock(r)
    \/ ObserveFreeLock(r) \/ ObserveUnit(r) \/ ObserveError(r)
    \/ DecideDisappeared(r) \/ ResolveSecrets(r) \/ ResolveError(r)
    \/ DecideTerminal(r) \/ DecideInterrupted(r) \/ DecideRunning(r)
    \/ FinishedKnown(r) \/ FinishedNew(r) \/ AppendExecutionRecord(r)
    \/ FinishedError(r) \/ ReconcileDecide(r)

\* The stream and the detached start need the target to take part.
RemoteStep(r) ==
    \/ StartArrives(r) \/ StartRejected(r) \/ ObserveUnlock(r)
    \/ SendSecrets(r) \/ SendError(r)

TargetStep(r) == (RunnerStep(r) \/ Kill(r)) /\ UNCHANGED clientVars

ExecInit == Init /\ ClientInit

\* Everything that can happen to run r, its calls and its process.
ExecStep(r) ==
    \/ UploadBundle(r) \/ UploadError(r) \/ Reconcile(r) \/ CallLost(r)
    \/ ClientStep(r) \/ RemoteStep(r) \/ TargetStep(r)

ExecNext == \E r \in Runs : ExecStep(r)

ExecSpec == ExecInit /\ [][ExecNext]_allVars

\* A live call goes on, SSH commands complete, and a stream offered to a
\* waiting runner reaches it.  Cancelling, crashing and killing are not fair:
\* they may never happen.  A delivery to a runner that is gone is not assumed to
\* end either, because opening a FIFO without a reader blocks, and neither is an
\* action script, which runs without a timeout.
CallFairness(r) ==
    /\ WF_allVars(ClientStep(r))
    /\ WF_allVars(StartArrives(r) \/ StartRejected(r))
    /\ WF_allVars(ObserveUnlock(r))
    /\ WF_allVars(SendSecrets(r))

ProcessFairness(r) == WF_allVars(RunnerStep(r) /\ ~InScript(r) /\ UNCHANGED clientVars)

ExecFairness == \A r \in Runs : CallFairness(r) /\ ProcessFairness(r)

ExecFairSpec == ExecSpec /\ ExecFairness

-----------------------------------------------------------------------------
(* Correctness.                                                            *)

\* The local history never says more than the target said: a record has its
\* bundle row and repeats the outcome of a terminal target proof of that run.  A
\* failure is still there; a success was, before its write may have raised.
RecordFaithful ==
    \A r \in Runs : records[r] # "none" =>
        bundleOf[r] \in regBundles /\ Shown(r, records[r])

\* A call that returns a terminal status without an error has recorded it, and
\* a terminal status is never reported for a run the target did not finish.
ReportFaithful ==
    \A r \in Runs : (call[r] = "returned" /\ status[r] \in {"success", "failed"}) =>
        /\ Shown(r, status[r])
        /\ err[r] = "nil" => records[r] = status[r]

\* A run reported interrupted is over: although proof, lock and unit are read
\* at different moments, its process never mutates the target afterwards.
InterruptedIsDead ==
    \A r \in Runs : status[r] = "interrupted" => pc[r] \in {"done", "dead"}

\* The claim of r's bundle in r's root exists and no other run works under it.
OwnsClaim(r) ==
    /\ root[r] \in Roots
    /\ bundleOf[r] \in claims[root[r]]
    /\ \A s \in Runs \ {r} :
          Claimed(s) /\ root[s] = root[r] => bundleOf[s] # bundleOf[r]

\* Secrets leave the management state only for a run that made the claim of its
\* bundle, even when the observation that asked for them is stale.
SecretsAfterClaim ==
    \A r \in Runs : call[r] = "sending" /\ Structural(r) => OwnsClaim(r)

\* Execute reports not-started only for a run that never can start: no start
\* request of it exists, so the caller may simply try again.
RetryIsSafe ==
    \A r \in Runs :
        (call[r] = "returned" /\ op[r] = "execute" /\ status[r] = "not-started")
            => startMsg[r] = "none" /\ pc[r] = "none"

\* The local history is append-only.
HistoryImmutable ==
    [][/\ regBundles \subseteq regBundles'
       /\ \A r \in Runs : records[r] # "none" => records'[r] = records[r]]_allVars

\* A run that opened the bootstrap root waits there for its secrets while another
\* run has activated Core: observations read the Core root only.
Unseen(r) == CoreActive /\ root[r] = "bootstrap" /\ pc[r] = "awaiting"

\* r's process is over, and what its call saw of the lock is another run's runner
\* or another observation's probe.
LockedOut(r) == call[r] = "decide" /\ obs[r].lock /\ pc[r] \in {"done", "dead"}

\* Execute and Reconcile return.  What can keep Execute polling or blocked for
\* ever: a delivery to a runner that died after it asked for the secrets, a
\* runner that waits where no observation looks, an action script without end,
\* and a lock that others hold again at every observation.
CallReturns ==
    \A r \in Runs :
        InCall(r) ~> \/ call[r] = "returned"
                     \/ call[r] = "sending" /\ pc[r] = "dead"
                     \/ Unseen(r) \/ InScript(r) \/ LockedOut(r)

\* A started run ends, unless an action script does not, or it waits for secrets
\* that no call will send: its call has ended, or cannot see it waiting.
RunEnds ==
    \A r \in Runs :
        UnitRunning(r) ~> \/ ~UnitRunning(r)
                          \/ InScript(r)
                          \/ pc[r] = "awaiting" /\ (~InCall(r) \/ Unseen(r))

-----------------------------------------------------------------------------
(* The inductive invariant of the client side.                             *)

\* A runner exists only after its start request was accepted, and a call that
\* has not asked for a start has no request under way.
StartInv ==
    \A r \in Runs :
        /\ pc[r] # "none" => startMsg[r] = "accepted"
        /\ startMsg[r] # "none" => call[r] \notin {"idle", "register", "insert", "start"}
        /\ call[r] = "returned" /\ op[r] = "execute" /\ status[r] = "not-started"
              => startMsg[r] = "none"

\* A proof that asks for secrets was written under the claim.
AwaitInv ==
    \A r \in Runs, rt \in Roots :
        proofs[rt][r].phase = "awaiting-secrets" /\ Structural(r) => OwnsClaim(r)

\* What an observation of r, however old, still says truly.
ObservationTrue(r) ==
    /\ call[r] \in {"readproof", "probe", "probing"} => obs[r].root \in Roots
    /\ obs[r].proof # "none" => pc[r] \notin {"none", "launched"}
    /\ \A st \in {"success", "failed"} : obs[r].proof = st => Shown(r, st)
    /\ obs[r].proof = "awaiting" /\ Structural(r) => OwnsClaim(r)
    /\ call[r] = "decide" /\ obs[r].proof # "none" /\ ~obs[r].unit =>
          pc[r] \in {"done", "dead"}

\* What the calls for r have concluded, and what the history holds, is true.
ReportTrue(r) ==
    /\ call[r] \in {"finishing", "appending"} => status[r] \in {"success", "failed"}
    /\ status[r] \in {"success", "failed"} =>
          call[r] \in {"finishing", "appending", "returned"}
    /\ \A st \in {"success", "failed"} : status[r] = st \/ records[r] = st => Shown(r, st)
    /\ call[r] = "appending" => records[r] = "none"
    /\ records[r] # "none" => bundleOf[r] \in regBundles
    /\ call[r] = "returned" /\ status[r] \in {"success", "failed"} /\ err[r] = "nil"
          => records[r] = status[r]
    /\ status[r] = "interrupted" => pc[r] \in {"done", "dead"}
    /\ call[r] = "sending" =>
          /\ pc[r] \notin {"none", "launched"}
          /\ Structural(r) => OwnsClaim(r)

ObservationInv == \A r \in Runs : ObservationTrue(r)

ReportInv == \A r \in Runs : ReportTrue(r)

ClientInv ==
    ClientTypeOK /\ StartInv /\ AwaitInv /\ ObservationInv /\ ReportInv

=============================================================================
