-------------------------- MODULE ExecutionProofs --------------------------
(***************************************************************************)
(* The lemmas about Execution that ClientProofs rests on: what the target  *)
(* never takes back, that every step is a step of TargetRunner, and types. *)
(***************************************************************************)
EXTENDS Execution, TargetRunnerProofs

\* What no step on the target ever takes back.
TargetKeeps ==
    /\ bundleOf' = bundleOf
    /\ succeeded \subseteq succeeded'
    /\ \A rt \in Roots : claims[rt] \subseteq claims'[rt]
    /\ \A s \in Runs :
        /\ pc[s] \in {"done", "dead"} => pc'[s] = pc[s]
        /\ pc[s] \notin {"none", "launched"} =>
              pc'[s] \notin {"none", "launched"} /\ root'[s] = root[s]
        /\ Claimed(s)' =>
              /\ root'[s] = root[s]
              /\ Claimed(s) \/ bundleOf[s] \notin claims[root[s]]

\* A terminal status once shown was shown for good.
ShownKeeps ==
    \A s \in Runs, st \in {"success", "failed"} : Shown(s, st) => Shown(s, st)'

\* Roots, claims and the end of a process are never undone.
LEMMA KeepsStep ==
  ASSUME TypeOK, RootInv, [Next]_vars
  PROVE  TargetKeeps
<1> USE DEF TypeOK, RootInv, TargetKeeps, Roots, PcLabels, Critical, UnitRunning,
           Structural, Advance, Claimed, AfterClaim
<1>1. ASSUME NEW r \in Runs, StartExecution(r) PROVE TargetKeeps
  BY <1>1 DEF StartExecution
<1>2. ASSUME NEW r \in Runs, ReceiveSecrets(r) PROVE TargetKeeps
  BY <1>2 DEF ReceiveSecrets
<1>3. ASSUME NEW r \in Runs, SecretsBroken(r) PROVE TargetKeeps
  BY <1>3 DEF SecretsBroken
<1>4. ASSUME NEW r \in Runs, Kill(r) PROVE TargetKeeps
  BY <1>4 DEF Kill
<1>5. ASSUME NEW r \in Runs, OpenRoot(r) PROVE TargetKeeps
  BY <1>5 DEF OpenRoot
<1>6. ASSUME NEW r \in Runs, TakeLock(r) PROVE TargetKeeps
  BY <1>6 DEF TakeLock
<1>7. ASSUME NEW r \in Runs, LockRefused(r) PROVE TargetKeeps
  BY <1>7 DEF LockRefused
<1>8. ASSUME NEW r \in Runs, Claim(r) PROVE TargetKeeps
  BY <1>8 DEF Claim
<1>9. ASSUME NEW r \in Runs, Duplicate(r) PROVE TargetKeeps
  BY <1>9 DEF Duplicate
<1>10. ASSUME NEW r \in Runs, AwaitSecrets(r) PROVE TargetKeeps
  BY <1>10 DEF AwaitSecrets
<1>11. ASSUME NEW r \in Runs, CheckSecrets(r) PROVE TargetKeeps
  BY <1>11 DEF CheckSecrets
<1>12. ASSUME NEW r \in Runs, MaterializeSecrets(r) PROVE TargetKeeps
  BY <1>12 DEF MaterializeSecrets
<1>13. ASSUME NEW r \in Runs, RunStep(r) PROVE TargetKeeps
  BY <1>13 DEF RunStep
<1>14. ASSUME NEW r \in Runs, StepRaises(r) PROVE TargetKeeps
  BY <1>14 DEF StepRaises
<1>15. ASSUME NEW r \in Runs, PostValidate(r) PROVE TargetKeeps
  BY <1>15 DEF PostValidate
<1>16. ASSUME NEW r \in Runs, BeginPromotion(r) PROVE TargetKeeps
  BY <1>16 DEF BeginPromotion
<1>17. ASSUME NEW r \in Runs, CopyBundleAndProof(r) PROVE TargetKeeps
  BY <1>17 DEF CopyBundleAndProof
<1>18. ASSUME NEW r \in Runs, CopyClaim(r) PROVE TargetKeeps
  BY <1>18 DEF CopyClaim
<1>19. ASSUME NEW r \in Runs, ActivateCore(r) PROVE TargetKeeps
  BY <1>19 DEF ActivateCore
<1>20. ASSUME NEW r \in Runs, RedirectProof(r) PROVE TargetKeeps
  BY <1>20 DEF RedirectProof
<1>21. ASSUME NEW r \in Runs, Finish(r) PROVE TargetKeeps
  BY <1>21 DEF Finish
<1>22. ASSUME NEW r \in Runs, Fail(r) PROVE TargetKeeps
  BY <1>22 DEF Fail
<1>23. ASSUME NEW r \in Runs, Exit(r) PROVE TargetKeeps
  BY <1>23 DEF Exit
<1>24. ASSUME NEW o \in Runs, NEW rt \in Roots, ProbeLock(o, rt) PROVE TargetKeeps
  BY <1>24 DEF ProbeLock
<1>25. ASSUME NEW o \in Runs, NEW rt \in Roots, ProbeRelease(o, rt) PROVE TargetKeeps
  BY <1>25 DEF ProbeRelease
<1>26. ASSUME NEW b \in Bundles, UploadExecution(b) PROVE TargetKeeps
  BY <1>26 DEF UploadExecution
<1>27. CASE UNCHANGED vars
  BY <1>27 DEF vars
<1>28. QED
  BY <1>1, <1>2, <1>3, <1>4, <1>5, <1>6, <1>7, <1>8, <1>9, <1>10, <1>11, <1>12, <1>13,
     <1>14, <1>15, <1>16, <1>17, <1>18, <1>19, <1>20, <1>21, <1>22, <1>23, <1>24,
     <1>25, <1>26, <1>27 DEF Next, Environment, RunnerStep

\* A proof asks for secrets only under the claim, and promotion copies both.
LEMMA AwaitStep ==
  ASSUME TypeOK, RootInv, ClaimInv, AwaitInv, [Next]_vars
  PROVE  AwaitInv'
<1> USE DEF TypeOK, RootInv, ClaimInv, Claimed, AwaitInv, OwnsClaim, Roots, PcLabels, Critical,
           AfterClaim, NoProof, UnitRunning, Structural, Advance, Doc, Promotes, ProofFile,
           CurrentRoot
<1>1. ASSUME NEW r \in Runs, StartExecution(r) PROVE AwaitInv'
  BY <1>1 DEF StartExecution
<1>2. ASSUME NEW r \in Runs, ReceiveSecrets(r) PROVE AwaitInv'
  BY <1>2 DEF ReceiveSecrets
<1>3. ASSUME NEW r \in Runs, SecretsBroken(r) PROVE AwaitInv'
  BY <1>3 DEF SecretsBroken
<1>4. ASSUME NEW r \in Runs, Kill(r) PROVE AwaitInv'
  BY <1>4 DEF Kill
<1>5. ASSUME NEW r \in Runs, OpenRoot(r) PROVE AwaitInv'
  BY <1>5 DEF OpenRoot
<1>6. ASSUME NEW r \in Runs, TakeLock(r) PROVE AwaitInv'
  BY <1>6 DEF TakeLock
<1>7. ASSUME NEW r \in Runs, LockRefused(r) PROVE AwaitInv'
  BY <1>7 DEF LockRefused
<1>8. ASSUME NEW r \in Runs, Claim(r) PROVE AwaitInv'
  BY <1>8 DEF Claim
<1>9. ASSUME NEW r \in Runs, Duplicate(r) PROVE AwaitInv'
  BY <1>9 DEF Duplicate
<1>10. ASSUME NEW r \in Runs, AwaitSecrets(r) PROVE AwaitInv'
  BY <1>10 DEF AwaitSecrets
<1>11. ASSUME NEW r \in Runs, CheckSecrets(r) PROVE AwaitInv'
  BY <1>11 DEF CheckSecrets
<1>12. ASSUME NEW r \in Runs, MaterializeSecrets(r) PROVE AwaitInv'
  BY <1>12 DEF MaterializeSecrets
<1>13. ASSUME NEW r \in Runs, RunStep(r) PROVE AwaitInv'
  BY <1>13 DEF RunStep
<1>14. ASSUME NEW r \in Runs, StepRaises(r) PROVE AwaitInv'
  BY <1>14 DEF StepRaises
<1>15. ASSUME NEW r \in Runs, PostValidate(r) PROVE AwaitInv'
  BY <1>15 DEF PostValidate
<1>16. ASSUME NEW r \in Runs, BeginPromotion(r) PROVE AwaitInv'
  BY <1>16 DEF BeginPromotion
<1>17. ASSUME NEW r \in Runs, CopyBundleAndProof(r) PROVE AwaitInv'
  BY <1>17 DEF CopyBundleAndProof
<1>18. ASSUME NEW r \in Runs, CopyClaim(r) PROVE AwaitInv'
  BY <1>18 DEF CopyClaim
<1>19. ASSUME NEW r \in Runs, ActivateCore(r) PROVE AwaitInv'
  BY <1>19 DEF ActivateCore
<1>20. ASSUME NEW r \in Runs, RedirectProof(r) PROVE AwaitInv'
  BY <1>20 DEF RedirectProof
<1>21. ASSUME NEW r \in Runs, Finish(r) PROVE AwaitInv'
  BY <1>21 DEF Finish
<1>22. ASSUME NEW r \in Runs, Fail(r) PROVE AwaitInv'
  BY <1>22 DEF Fail
<1>23. ASSUME NEW r \in Runs, Exit(r) PROVE AwaitInv'
  BY <1>23 DEF Exit
<1>24. ASSUME NEW o \in Runs, NEW rt \in Roots, ProbeLock(o, rt) PROVE AwaitInv'
  BY <1>24 DEF ProbeLock
<1>25. ASSUME NEW o \in Runs, NEW rt \in Roots, ProbeRelease(o, rt) PROVE AwaitInv'
  BY <1>25 DEF ProbeRelease
<1>26. ASSUME NEW b \in Bundles, UploadExecution(b) PROVE AwaitInv'
  BY <1>26 DEF UploadExecution
<1>27. CASE UNCHANGED vars
  BY <1>27 DEF vars
<1>28. QED
  BY <1>1, <1>2, <1>3, <1>4, <1>5, <1>6, <1>7, <1>8, <1>9, <1>10, <1>11, <1>12, <1>13,
     <1>14, <1>15, <1>16, <1>17, <1>18, <1>19, <1>20, <1>21, <1>22, <1>23, <1>24,
     <1>25, <1>26, <1>27 DEF Next, Environment, RunnerStep

\* ShownKeeps: a failure is never rewritten into anything else.
LEMMA ShownStep ==
  ASSUME SettlesTerminalProofs, TargetKeeps
  PROVE  ShownKeeps
BY DEF SettlesTerminalProofs, TargetKeeps, ShownKeeps, Shown, Written, Terminal, Roots

\* Only a start request makes a process appear.
LEMMA RunnerNeverStarts ==
  ASSUME TypeOK, NEW r \in Runs, RunnerStep(r) \/ Kill(r), NEW s \in Runs,
         pc[s] = "none"
  PROVE  pc'[s] = "none"
BY DEF TypeOK, RunnerStep, Kill, UnitRunning, OpenRoot, TakeLock, LockRefused, Claim,
       Duplicate, AwaitSecrets, CheckSecrets, MaterializeSecrets, RunStep, StepRaises,
       PostValidate, BeginPromotion, CopyBundleAndProof, CopyClaim, ActivateCore,
       RedirectProof, Finish, Fail, Exit, Advance, Critical, PcLabels

\* Every step of the composed system is, for the target, a step or a stutter.
LEMMA ExecStepIsTargetStep ==
  ASSUME TypeOK, ObservationInv, [ExecNext]_allVars
  PROVE  [Next]_vars
<1>1. ASSUME NEW r \in Runs,
             UploadBundle(r) \/ UploadError(r) \/ Reconcile(r) \/ CallLost(r)
      PROVE  [Next]_vars
  BY <1>1 DEF TypeOK, UploadBundle, UploadError, Reconcile, CallLost, Next,
              Environment, vars
<1>2. ASSUME NEW r \in Runs, ClientStep(r) PROVE [Next]_vars
  <2>1. CASE ObserveFreeLock(r)
    <3>1. ProbeLock(r, obs[r].root) /\ obs[r].root \in Roots
      BY <2>1 DEF ObserveFreeLock, ObservationInv, ObservationTrue
    <3> QED
      BY <3>1 DEF Next, Environment
  <2>2. CASE ~ObserveFreeLock(r)
    BY <1>2, <2>2 DEF ClientStep, RegisterBundle, AppendExecutionBundle,
       RegisterError, Start, StartReply, StartError, ObserveRoot, ObserveProof,
       ObserveLock, ObserveUnit, ObserveError, DecideDisappeared, ResolveSecrets,
       ResolveError, DecideTerminal, DecideInterrupted, DecideRunning, FinishedKnown,
       FinishedNew, AppendExecutionRecord, FinishedError, ReconcileDecide
  <2> QED
    BY <2>1, <2>2
<1>3. ASSUME NEW r \in Runs, RemoteStep(r) PROVE [Next]_vars
  BY <1>3 DEF RemoteStep, StartArrives, StartRejected, ObserveUnlock, SendSecrets,
              SendError, Next, Environment
<1>4. ASSUME NEW r \in Runs, TargetStep(r) PROVE [Next]_vars
  BY <1>4 DEF TargetStep, Next, Environment
<1>5. CASE UNCHANGED allVars
  BY <1>5 DEF allVars
<1> QED
  BY <1>1, <1>2, <1>3, <1>4, <1>5 DEF ExecNext, ExecStep

\* Types of the variables of a call.
CallTypeOK ==
    /\ call \in [Runs -> CallLabels]
    /\ op \in [Runs -> {"execute", "reconcile"}]
    /\ obs \in [Runs -> Observations]
    /\ status \in [Runs -> RunStatuses]
    /\ err \in [Runs -> {"nil", "unknown", "other"}]
    /\ sent \in [Runs -> BOOLEAN]

\* Proceeding to another label keeps the types of a call.
LEMMA GotoType ==
  ASSUME CallTypeOK, NEW r \in Runs, NEW l \in CallLabels, Goto(r, l)
  PROVE  CallTypeOK'
BY DEF CallTypeOK, Goto

\* Returning keeps the types of a call.
LEMMA ReturnType ==
  ASSUME CallTypeOK, NEW r \in Runs, NEW s \in RunStatuses,
         NEW e \in {"nil", "unknown", "other"}, Return(r, s, e)
  PROVE  CallTypeOK'
BY DEF CallTypeOK, Return, CallLabels, Observations, NoObs

\* Noting an observation keeps the types of a call.
LEMMA ObserveType ==
  ASSUME CallTypeOK, NEW r \in Runs, NEW l \in CallLabels, NEW o \in Observations,
         Observe(r, l, o)
  PROVE  CallTypeOK'
BY DEF CallTypeOK, Observe

\* classify yields one of the statuses of a run.
LEMMA ClassifyType ==
  ASSUME NEW o \in Observations
  PROVE  Classify(o) \in RunStatuses
BY DEF Classify, Observations, RunStatuses

\* Taking over the classified status keeps the types of a call.
LEMMA ClassifiedType ==
  ASSUME CallTypeOK, NEW r \in Runs, NEW l \in CallLabels, Classified(r, l)
  PROVE  CallTypeOK'
<1>1. Classify(obs[r]) \in RunStatuses
  BY ClassifyType DEF CallTypeOK
<1> QED
  BY <1>1 DEF CallTypeOK, Classified, Observations, NoObs

\* Reading a proof document yields one of the views the executor tells apart.
LEMMA ProofViewType ==
  ASSUME NEW p \in ProofDocs
  PROVE  ProofView(p) \in {"none", "running", "awaiting", "success", "failed"}
BY DEF ProofView, ProofDocs, Statuses

\* The answers of the lock probe and of systemctl are Booleans.
LEMMA SeenType ==
  ASSUME NEW o \in Observations, NEW h \in BOOLEAN
  PROVE  /\ [o EXCEPT !.lock = h, !.root = "none"] \in Observations
         /\ [o EXCEPT !.unit = h] \in Observations
BY DEF Observations

\* Every step keeps the types of the client's variables.
LEMMA ClientTypeStep ==
  ASSUME TypeOK, ClientTypeOK, ObservationInv, ReportInv, [ExecNext]_allVars
  PROVE  ClientTypeOK'
<1>0. CallTypeOK
  BY DEF ClientTypeOK, CallTypeOK
<1> USE <1>0 DEF ClientTypeOK
<1>1. ASSUME NEW r \in Runs, UploadBundle(r) PROVE ClientTypeOK'
  <2>1. CallTypeOK'
    BY <1>1, GotoType DEF UploadBundle, CallLabels, RunStatuses
  <2> QED
    BY <1>1, <2>1 DEF CallTypeOK, UploadBundle
<1>2. ASSUME NEW r \in Runs, UploadError(r) PROVE ClientTypeOK'
  <2>1. CallTypeOK'
    BY <1>2, ReturnType DEF UploadError, CallLabels, RunStatuses
  <2> QED
    BY <1>2, <2>1 DEF CallTypeOK, UploadError
<1>3. ASSUME NEW r \in Runs, RegisterBundle(r) PROVE ClientTypeOK'
  <2>1. CallTypeOK'
    BY <1>3, GotoType DEF RegisterBundle, CallLabels, RunStatuses
  <2> QED
    BY <1>3, <2>1 DEF CallTypeOK, RegisterBundle
<1>4. ASSUME NEW r \in Runs, AppendExecutionBundle(r) PROVE ClientTypeOK'
  <2>1. CallTypeOK'
    <3>1. CASE bundleOf[r] \in regBundles
      BY <1>4, <3>1, ReturnType DEF AppendExecutionBundle, RunStatuses
    <3>2. CASE bundleOf[r] \notin regBundles
      BY <1>4, <3>2, GotoType DEF AppendExecutionBundle, CallLabels
    <3> QED
      BY <3>1, <3>2
  <2>2. regBundles' \subseteq Bundles
    BY <1>4 DEF AppendExecutionBundle, TypeOK
  <2> QED
    BY <1>4, <2>1, <2>2 DEF CallTypeOK, AppendExecutionBundle
<1>5. ASSUME NEW r \in Runs, RegisterError(r) PROVE ClientTypeOK'
  <2>1. CallTypeOK'
    BY <1>5, ReturnType DEF RegisterError, CallLabels, RunStatuses
  <2> QED
    BY <1>5, <2>1 DEF CallTypeOK, RegisterError
<1>6. ASSUME NEW r \in Runs, Start(r) PROVE ClientTypeOK'
  <2>1. CallTypeOK'
    BY <1>6, GotoType DEF Start, CallLabels, RunStatuses
  <2> QED
    BY <1>6, <2>1 DEF CallTypeOK, Start
<1>7. ASSUME NEW r \in Runs, StartArrives(r) PROVE ClientTypeOK'
  BY <1>7 DEF StartArrives, CallTypeOK, callVars, clientVars
<1>8. ASSUME NEW r \in Runs, StartRejected(r) PROVE ClientTypeOK'
  BY <1>8 DEF StartRejected, CallTypeOK, callVars, clientVars
<1>9. ASSUME NEW r \in Runs, StartReply(r) PROVE ClientTypeOK'
  BY <1>9 DEF StartReply, CallTypeOK, CallLabels, RunStatuses
<1>10. ASSUME NEW r \in Runs, StartError(r) PROVE ClientTypeOK'
  <2>1. CallTypeOK'
    BY <1>10, ReturnType DEF StartError, CallLabels, RunStatuses
  <2> QED
    BY <1>10, <2>1 DEF CallTypeOK, StartError
<1>11. ASSUME NEW r \in Runs, ObserveRoot(r) PROVE ClientTypeOK'
  <2>1. [NoObs EXCEPT !.root = CurrentRoot] \in Observations
    BY <1>11 DEF ObserveRoot, CallTypeOK, Observations, NoObs, CurrentRoot, Roots
  <2>2. CallTypeOK'
    BY <1>11, <2>1, ObserveType DEF ObserveRoot, CallLabels
  <2> QED
    BY <1>11, <2>2 DEF CallTypeOK, ObserveRoot, Observe
<1>12. ASSUME NEW r \in Runs, ObserveProof(r) PROVE ClientTypeOK'
  <2>1. ProofView(proofs[obs[r].root][r])
          \in {"none", "running", "awaiting", "success", "failed"}
    BY <1>12, ProofViewType DEF ObserveProof, ObservationInv, ObservationTrue, TypeOK
  <2>2. [obs[r] EXCEPT !.proof = ProofView(proofs[obs[r].root][r])] \in Observations
    BY <2>1 DEF CallTypeOK, Observations
  <2>3. CallTypeOK'
    BY <1>12, <2>2, ObserveType DEF ObserveProof, CallLabels
  <2> QED
    BY <1>12, <2>3 DEF CallTypeOK, ObserveProof, Observe
<1>13. ASSUME NEW r \in Runs, ObserveLock(r) PROVE ClientTypeOK'
  <2>1. PICK held \in BOOLEAN :
          Observe(r, "unit", [obs[r] EXCEPT !.lock = held, !.root = "none"])
    BY <1>13 DEF ObserveLock
  <2>2. [obs[r] EXCEPT !.lock = held, !.root = "none"] \in Observations
    BY SeenType DEF CallTypeOK
  <2>3. CallTypeOK'
    BY <2>1, <2>2, ObserveType DEF CallLabels
  <2> QED
    BY <2>1, <2>3 DEF CallTypeOK, Observe
<1>14. ASSUME NEW r \in Runs, ObserveFreeLock(r) PROVE ClientTypeOK'
  <2>1. obs[r] \in Observations
    BY <1>14 DEF ObserveFreeLock, CallTypeOK, Observations, NoObs
  <2>2. CallTypeOK'
    BY <1>14, <2>1, ObserveType DEF ObserveFreeLock, CallLabels
  <2> QED
    BY <1>14, <2>2 DEF CallTypeOK, ObserveFreeLock, Observe
<1>15. ASSUME NEW r \in Runs, ObserveUnlock(r) PROVE ClientTypeOK'
  <2>1. CASE UNCHANGED clientVars
    BY <2>1 DEF clientVars, callVars, CallTypeOK
  <2>2. CASE Observe(r, "unit", [obs[r] EXCEPT !.root = "none"])
    <3>1. [obs[r] EXCEPT !.root = "none"] \in Observations
      BY DEF CallTypeOK, Observations
    <3>2. CallTypeOK'
      BY <2>2, <3>1, ObserveType DEF CallLabels
    <3> QED
      BY <2>2, <3>2 DEF Observe, CallTypeOK
  <2> QED
    BY <1>15, <2>1, <2>2 DEF CallTypeOK, ObserveUnlock
<1>16. ASSUME NEW r \in Runs, ObserveUnit(r) PROVE ClientTypeOK'
  <2>1. [obs[r] EXCEPT !.unit = UnitRunning(r)] \in Observations
    <3>1. obs[r] \in Observations /\ UnitRunning(r) \in BOOLEAN
      BY DEF CallTypeOK, UnitRunning
    <3> QED
      BY <3>1, SeenType
  <2>2. CallTypeOK'
    BY <1>16, <2>1, ObserveType DEF ObserveUnit, CallLabels
  <2> QED
    BY <1>16, <2>2 DEF CallTypeOK, ObserveUnit, Observe
<1>17. ASSUME NEW r \in Runs, ObserveError(r) PROVE ClientTypeOK'
  <2>1. CallTypeOK'
    BY <1>17, ReturnType DEF ObserveError, CallLabels, RunStatuses
  <2> QED
    BY <1>17, <2>1 DEF CallTypeOK, ObserveError
<1>18. ASSUME NEW r \in Runs, DecideDisappeared(r) PROVE ClientTypeOK'
  <2>1. CallTypeOK'
    BY <1>18, ReturnType DEF DecideDisappeared, CallLabels, RunStatuses
  <2> QED
    BY <1>18, <2>1 DEF CallTypeOK, DecideDisappeared
<1>19. ASSUME NEW r \in Runs, ResolveSecrets(r) PROVE ClientTypeOK'
  <2>1. CallTypeOK'
    BY <1>19, ClassifiedType DEF ResolveSecrets, CallLabels, RunStatuses
  <2> QED
    BY <1>19, <2>1 DEF CallTypeOK, ResolveSecrets
<1>20. ASSUME NEW r \in Runs, ResolveError(r) PROVE ClientTypeOK'
  <2>1. CallTypeOK'
    BY <1>20, ReturnType, ClassifyType DEF ResolveError, CallTypeOK
  <2> QED
    BY <1>20, <2>1 DEF CallTypeOK, ResolveError
<1>21. ASSUME NEW r \in Runs, DecideTerminal(r) PROVE ClientTypeOK'
  <2>1. CallTypeOK'
    BY <1>21, ClassifiedType DEF DecideTerminal, CallLabels, RunStatuses
  <2> QED
    BY <1>21, <2>1 DEF CallTypeOK, DecideTerminal
<1>22. ASSUME NEW r \in Runs, DecideInterrupted(r) PROVE ClientTypeOK'
  <2>1. CallTypeOK'
    BY <1>22, ReturnType DEF DecideInterrupted, CallLabels, RunStatuses
  <2> QED
    BY <1>22, <2>1 DEF CallTypeOK, DecideInterrupted
<1>23. ASSUME NEW r \in Runs, DecideRunning(r) PROVE ClientTypeOK'
  <2>1. CallTypeOK'
    <3>1. CASE Classified(r, "observe")
      BY <3>1, ClassifiedType DEF CallLabels
    <3>2. CASE Return(r, "unknown", "unknown")
      BY <3>2, ReturnType DEF RunStatuses
    <3> QED
      BY <1>23, <3>1, <3>2 DEF DecideRunning
  <2> QED
    BY <1>23, <2>1 DEF CallTypeOK, DecideRunning
<1>24. ASSUME NEW r \in Runs, SendSecrets(r) PROVE ClientTypeOK'
  BY <1>24 DEF SendSecrets, CallTypeOK, CallLabels
<1>25. ASSUME NEW r \in Runs, SendError(r) PROVE ClientTypeOK'
  <2>1. CallTypeOK'
    BY <1>25, ReturnType DEF SendError, CallLabels, RunStatuses
  <2> QED
    BY <1>25, <2>1 DEF CallTypeOK, SendError
<1>26. ASSUME NEW r \in Runs, FinishedKnown(r) PROVE ClientTypeOK'
  <2>1. \E e \in {"nil", "unknown", "other"} : Return(r, status[r], e)
    BY <1>26 DEF FinishedKnown, FinishedReturn
  <2>2. CallTypeOK'
    BY <2>1, ReturnType DEF CallTypeOK
  <2> QED
    BY <1>26, <2>2 DEF CallTypeOK, FinishedKnown
<1>27. ASSUME NEW r \in Runs, FinishedNew(r) PROVE ClientTypeOK'
  <2>1. CallTypeOK'
    BY <1>27, GotoType DEF FinishedNew, CallLabels, RunStatuses
  <2> QED
    BY <1>27, <2>1 DEF CallTypeOK, FinishedNew
<1>28. ASSUME NEW r \in Runs, AppendExecutionRecord(r) PROVE ClientTypeOK'
  <2>1. \E e \in {"nil", "unknown", "other"} : Return(r, status[r], e)
    BY <1>28 DEF AppendExecutionRecord, FinishedReturn
  <2>2. CallTypeOK'
    BY <2>1, ReturnType DEF CallTypeOK
  <2>3. status[r] \in {"success", "failed"}
    BY <1>28 DEF AppendExecutionRecord, ReportInv, ReportTrue
  <2> QED
    BY <1>28, <2>2, <2>3 DEF CallTypeOK, AppendExecutionRecord
<1>29. ASSUME NEW r \in Runs, FinishedError(r) PROVE ClientTypeOK'
  <2>1. CallTypeOK'
    BY <1>29, ReturnType DEF FinishedError, CallTypeOK
  <2> QED
    BY <1>29, <2>1 DEF CallTypeOK, FinishedError
<1>30. ASSUME NEW r \in Runs, Reconcile(r) PROVE ClientTypeOK'
  BY <1>30 DEF Reconcile, CallTypeOK, CallLabels, RunStatuses
<1>31. ASSUME NEW r \in Runs, ReconcileDecide(r) PROVE ClientTypeOK'
  <2>1. CallTypeOK'
    <3>1. CASE Classified(r, "finishing")
      BY <3>1, ClassifiedType DEF CallLabels
    <3>2. CASE Return(r, Classify(obs[r]), "nil")
      BY <3>2, ReturnType, ClassifyType DEF CallTypeOK
    <3> QED
      BY <1>31, <3>1, <3>2 DEF ReconcileDecide
  <2> QED
    BY <1>31, <2>1 DEF CallTypeOK, ReconcileDecide
<1>32. ASSUME NEW r \in Runs, CallLost(r) PROVE ClientTypeOK'
  <2>1. CallTypeOK'
    BY <1>32, ReturnType DEF CallLost, CallLabels, RunStatuses
  <2> QED
    BY <1>32, <2>1 DEF CallTypeOK, CallLost
<1>33. ASSUME NEW r \in Runs, TargetStep(r) PROVE ClientTypeOK'
  BY <1>33 DEF TargetStep, CallTypeOK, callVars, clientVars
<1>34. CASE UNCHANGED allVars
  BY <1>34 DEF CallTypeOK, allVars, clientVars, callVars, vars
<1>35. QED
  BY <1>1, <1>2, <1>3, <1>4, <1>5, <1>6, <1>7, <1>8, <1>9, <1>10, <1>11,
     <1>12, <1>13, <1>14, <1>15, <1>16, <1>17, <1>18, <1>19, <1>20, <1>21,
     <1>22, <1>23, <1>24, <1>25, <1>26, <1>27, <1>28, <1>29, <1>30, <1>31,
     <1>32, <1>33, <1>34 DEF ExecNext, ExecStep, ClientStep, RemoteStep
=============================================================================
