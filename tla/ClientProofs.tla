---------------------------- MODULE ClientProofs ----------------------------
(***************************************************************************)
(* The theorems about Execution: the composed system implements            *)
(* TargetRunner, and what the executor concludes from its observations,    *)
(* which are stale and not atomic, stays true.                             *)
(***************************************************************************)
EXTENDS ExecutionProofs

-----------------------------------------------------------------------------
(* What a call knows about its run stays true while the target moves on.   *)

\* Calls for other runs are left alone.
Frame(r) ==
    /\ \A s \in Runs \ {r} :
          /\ call'[s] = call[s] /\ obs'[s] = obs[s] /\ status'[s] = status[s]
          /\ err'[s] = err[s] /\ records'[s] = records[s]
    /\ regBundles \subseteq regBundles'

\* A step of one call changes no other call.
LEMMA FrameStep ==
  ASSUME ClientTypeOK, NEW r \in Runs,
         \/ UploadBundle(r) \/ UploadError(r) \/ Reconcile(r) \/ CallLost(r)
         \/ ClientStep(r) \/ RemoteStep(r) \/ TargetStep(r)
  PROVE  Frame(r)
<1> USE DEF ClientTypeOK, Frame
<1>1. CASE UploadBundle(r)
  BY <1>1 DEF UploadBundle, Goto, Return, Observe, Classified, FinishedReturn,
     callVars, clientVars
<1>2. CASE UploadError(r)
  BY <1>2 DEF UploadError, Goto, Return, Observe, Classified, FinishedReturn,
     callVars, clientVars
<1>3. CASE RegisterBundle(r)
  BY <1>3 DEF RegisterBundle, Goto, Return, Observe, Classified, FinishedReturn,
     callVars, clientVars
<1>4. CASE AppendExecutionBundle(r)
  BY <1>4 DEF AppendExecutionBundle, Goto, Return, Observe, Classified,
     FinishedReturn, callVars, clientVars
<1>5. CASE RegisterError(r)
  BY <1>5 DEF RegisterError, Goto, Return, Observe, Classified, FinishedReturn,
     callVars, clientVars
<1>6. CASE Start(r)
  BY <1>6 DEF Start, Goto, Return, Observe, Classified, FinishedReturn, callVars,
     clientVars
<1>7. CASE StartArrives(r)
  BY <1>7 DEF StartArrives, Goto, Return, Observe, Classified, FinishedReturn,
     callVars, clientVars
<1>8. CASE StartRejected(r)
  BY <1>8 DEF StartRejected, Goto, Return, Observe, Classified, FinishedReturn,
     callVars, clientVars
<1>9. CASE StartReply(r)
  BY <1>9 DEF StartReply, Goto, Return, Observe, Classified, FinishedReturn, callVars,
     clientVars
<1>10. CASE StartError(r)
  BY <1>10 DEF StartError, Goto, Return, Observe, Classified, FinishedReturn,
     callVars, clientVars
<1>11. CASE ObserveRoot(r)
  BY <1>11 DEF ObserveRoot, Goto, Return, Observe, Classified, FinishedReturn,
     callVars, clientVars
<1>12. CASE ObserveProof(r)
  BY <1>12 DEF ObserveProof, Goto, Return, Observe, Classified, FinishedReturn,
     callVars, clientVars
<1>13. CASE ObserveLock(r)
  BY <1>13 DEF ObserveLock, Goto, Return, Observe, Classified, FinishedReturn,
     callVars, clientVars
<1>14. CASE ObserveFreeLock(r)
  BY <1>14 DEF ObserveFreeLock, Goto, Return, Observe, Classified, FinishedReturn,
     callVars, clientVars
<1>15. CASE ObserveUnlock(r)
  BY <1>15 DEF ObserveUnlock, Goto, Return, Observe, Classified, FinishedReturn,
     callVars, clientVars
<1>16. CASE ObserveUnit(r)
  BY <1>16 DEF ObserveUnit, Goto, Return, Observe, Classified, FinishedReturn,
     callVars, clientVars
<1>17. CASE ObserveError(r)
  BY <1>17 DEF ObserveError, Goto, Return, Observe, Classified, FinishedReturn,
     callVars, clientVars
<1>18. CASE DecideDisappeared(r)
  BY <1>18 DEF DecideDisappeared, Goto, Return, Observe, Classified, FinishedReturn,
     callVars, clientVars
<1>19. CASE ResolveSecrets(r)
  BY <1>19 DEF ResolveSecrets, Goto, Return, Observe, Classified, FinishedReturn,
     callVars, clientVars
<1>20. CASE ResolveError(r)
  BY <1>20 DEF ResolveError, Goto, Return, Observe, Classified, FinishedReturn,
     callVars, clientVars
<1>21. CASE DecideTerminal(r)
  BY <1>21 DEF DecideTerminal, Goto, Return, Observe, Classified, FinishedReturn,
     callVars, clientVars
<1>22. CASE DecideInterrupted(r)
  BY <1>22 DEF DecideInterrupted, Goto, Return, Observe, Classified, FinishedReturn,
     callVars, clientVars
<1>23. CASE DecideRunning(r)
  BY <1>23 DEF DecideRunning, Goto, Return, Observe, Classified, FinishedReturn,
     callVars, clientVars
<1>24. CASE SendSecrets(r)
  BY <1>24 DEF SendSecrets, Goto, Return, Observe, Classified, FinishedReturn,
     callVars, clientVars
<1>25. CASE SendError(r)
  BY <1>25 DEF SendError, Goto, Return, Observe, Classified, FinishedReturn, callVars,
     clientVars
<1>26. CASE FinishedKnown(r)
  BY <1>26 DEF FinishedKnown, Goto, Return, Observe, Classified, FinishedReturn,
     callVars, clientVars
<1>27. CASE FinishedNew(r)
  BY <1>27 DEF FinishedNew, Goto, Return, Observe, Classified, FinishedReturn,
     callVars, clientVars
<1>28. CASE AppendExecutionRecord(r)
  BY <1>28 DEF AppendExecutionRecord, Goto, Return, Observe, Classified,
     FinishedReturn, callVars, clientVars
<1>29. CASE FinishedError(r)
  BY <1>29 DEF FinishedError, Goto, Return, Observe, Classified, FinishedReturn,
     callVars, clientVars
<1>30. CASE Reconcile(r)
  BY <1>30 DEF Reconcile, Goto, Return, Observe, Classified, FinishedReturn, callVars,
     clientVars
<1>31. CASE ReconcileDecide(r)
  BY <1>31 DEF ReconcileDecide, Goto, Return, Observe, Classified, FinishedReturn,
     callVars, clientVars
<1>32. CASE CallLost(r)
  BY <1>32 DEF CallLost, Goto, Return, Observe, Classified, FinishedReturn, callVars,
     clientVars
<1>33. CASE TargetStep(r)
  BY <1>33 DEF TargetStep, Goto, Return, Observe, Classified, FinishedReturn,
     callVars, clientVars
<1> QED
  BY <1>1, <1>2, <1>3, <1>4, <1>5, <1>6, <1>7, <1>8, <1>9, <1>10, <1>11, <1>12, <1>13,
     <1>14, <1>15, <1>16, <1>17, <1>18, <1>19, <1>20, <1>21, <1>22, <1>23, <1>24,
     <1>25, <1>26, <1>27, <1>28, <1>29, <1>30, <1>31, <1>32, <1>33 DEF ClientStep,
     RemoteStep

\* A structural run keeps its claim.
LEMMA ClaimKept ==
  ASSUME TypeOK, TargetKeeps, NEW s \in Runs, pc[s] \notin {"none", "launched"},
         OwnsClaim(s)
  PROVE  OwnsClaim(s)'
BY DEF TypeOK, TargetKeeps, OwnsClaim, Roots

\* What an old observation says of the target stays true.
LEMMA ObservationSame ==
  ASSUME TypeOK, TargetKeeps, ShownKeeps, NEW s \in Runs, ObservationTrue(s),
         obs'[s].proof = obs[s].proof,
         call'[s] \in {"readproof", "probe", "probing"} => obs'[s].root \in Roots,
         call'[s] = "decide" /\ obs[s].proof # "none" /\ ~obs'[s].unit =>
             pc'[s] \in {"done", "dead"}
  PROVE  ObservationTrue(s)'
<1>1. \A st \in {"success", "failed"} : obs[s].proof = st => Shown(s, st)'
  BY DEF ObservationTrue, ShownKeeps
<1>2. obs[s].proof = "awaiting" /\ Structural(s)' => OwnsClaim(s)'
  BY ClaimKept DEF ObservationTrue, TargetKeeps, Structural
<1> QED
  BY <1>1, <1>2 DEF ObservationTrue, TargetKeeps

\* An observation that is kept as it is stays true.
LEMMA ObservationKept ==
  ASSUME TypeOK, TargetKeeps, ShownKeeps, NEW s \in Runs, ObservationTrue(s),
         obs'[s] = obs[s],
         call'[s] = call[s] \/ call'[s] \notin {"readproof", "probe", "probing", "decide"}
  PROVE  ObservationTrue(s)'
<1>1. call'[s] \in {"readproof", "probe", "probing"} => obs'[s].root \in Roots
  BY DEF ObservationTrue
<1>2. call'[s] = "decide" /\ obs[s].proof # "none" /\ ~obs'[s].unit =>
        pc'[s] \in {"done", "dead"}
  BY DEF ObservationTrue, TargetKeeps
<1> QED
  BY <1>1, <1>2, ObservationSame

\* No observation says nothing.
LEMMA ObservationCleared ==
  ASSUME NEW s \in Runs, obs'[s] = NoObs, call'[s] \notin {"readproof", "probe", "probing"}
  PROVE  ObservationTrue(s)'
BY DEF ObservationTrue, NoObs

\* What calls concluded and the history says stays true.
LEMMA ReportKept ==
  ASSUME TypeOK, ClientTypeOK, TargetKeeps, ShownKeeps, NEW s \in Runs, ReportTrue(s),
         call'[s] = call[s], status'[s] = status[s], err'[s] = err[s],
         records'[s] = records[s], regBundles \subseteq regBundles'
  PROVE  ReportTrue(s)'
<1>1. \A st \in {"success", "failed"} : status[s] = st \/ records[s] = st => Shown(s, st)'
  BY DEF ReportTrue, ShownKeeps
<1>2. call[s] = "sending" /\ Structural(s)' => OwnsClaim(s)'
  BY ClaimKept DEF ReportTrue, TargetKeeps, Structural
<1> QED
  BY <1>1, <1>2 DEF ReportTrue, TargetKeeps

\* A call that proceeds or returns without a conclusion leaves the history as
\* true as it was.
LEMMA ReportOpen ==
  ASSUME TypeOK, ClientTypeOK, TargetKeeps, ShownKeeps, NEW r \in Runs, ReportTrue(r),
         status'[r] \in {"not-started", "running", "unknown"},
         call'[r] \notin {"finishing", "appending", "sending"},
         records'[r] = records[r], regBundles \subseteq regBundles'
  PROVE  ReportTrue(r)'
<1>1. \A st \in {"success", "failed"} : records[r] = st => Shown(r, st)'
  BY DEF ReportTrue, ShownKeeps
<1> QED
  BY <1>1 DEF ReportTrue, TargetKeeps

\* Going on inside a call before a conclusion is reached.
LEMMA ReportGoto ==
  ASSUME TypeOK, ClientTypeOK, TargetKeeps, ShownKeeps, NEW r \in Runs, ReportTrue(r),
         call[r] \notin {"finishing", "appending", "returned"},
         call'[r] \notin {"finishing", "appending", "sending"},
         status'[r] = status[r],
         records'[r] = records[r], regBundles \subseteq regBundles'
  PROVE  ReportTrue(r)'
<1>1. \A st \in {"success", "failed"} : records[r] = st => Shown(r, st)'
  BY DEF ReportTrue, ShownKeeps
<1> QED
  BY <1>1 DEF ReportTrue, TargetKeeps

\* A step of the call for r, or of its runner, keeps its observation true.
LEMMA ActorObservation ==
  ASSUME TypeOK, ClientTypeOK, RootInv, ProofInv, AwaitInv, ObservationInv, ReportInv,
         TargetKeeps, ShownKeeps, NEW r \in Runs,
         \/ UploadBundle(r) \/ UploadError(r) \/ Reconcile(r) \/ CallLost(r)
         \/ ClientStep(r) \/ RemoteStep(r) \/ TargetStep(r)
  PROVE  ObservationTrue(r)'
<1>0. ObservationTrue(r) /\ ReportTrue(r)
  BY DEF ObservationInv, ReportInv
<1>1. CASE UploadBundle(r)
  BY <1>0, <1>1, ObservationKept DEF UploadBundle, Goto, Return, Observe, Classified,
     FinishedReturn, callVars, clientVars
<1>2. CASE UploadError(r)
  BY <1>2, ObservationCleared DEF UploadError, ClientTypeOK, Goto, Return, Observe,
     Classified, FinishedReturn, callVars, clientVars
<1>3. CASE RegisterBundle(r)
  BY <1>0, <1>3, ObservationKept DEF RegisterBundle, Goto, Return, Observe,
     Classified, FinishedReturn, callVars, clientVars
<1>4. CASE AppendExecutionBundle(r)
  <2>1. CASE obs'[r] = obs[r]
    BY <1>0, <1>4, <2>1, ObservationKept DEF AppendExecutionBundle, ClientTypeOK,
       Goto, Return
  <2>2. CASE obs'[r] = NoObs
    BY <1>4, <2>2, ObservationCleared DEF AppendExecutionBundle, ClientTypeOK, Goto,
       Return
  <2> QED
    BY <1>4, <2>1, <2>2 DEF AppendExecutionBundle, ClientTypeOK, Goto, Return
<1>5. CASE RegisterError(r)
  BY <1>5, ObservationCleared DEF RegisterError, ClientTypeOK, Goto, Return, Observe,
     Classified, FinishedReturn, callVars, clientVars
<1>6. CASE Start(r)
  BY <1>0, <1>6, ObservationKept DEF Start, Goto, Return, Observe, Classified,
     FinishedReturn, callVars, clientVars
<1>7. CASE StartArrives(r)
  BY <1>0, <1>7, ObservationKept DEF StartArrives, Goto, Return, Observe, Classified,
     FinishedReturn, callVars, clientVars
<1>8. CASE StartRejected(r)
  BY <1>0, <1>8, ObservationKept DEF StartRejected, Goto, Return, Observe, Classified,
     FinishedReturn, callVars, clientVars
<1>9. CASE StartReply(r)
  BY <1>0, <1>9, ObservationKept DEF StartReply, Goto, Return, Observe, Classified,
     FinishedReturn, callVars, clientVars
<1>10. CASE StartError(r)
  BY <1>10, ObservationCleared DEF StartError, ClientTypeOK, Goto, Return, Observe,
     Classified, FinishedReturn, callVars, clientVars
<1>11. CASE ObserveRoot(r)
  <2>1. call'[r] = "readproof" /\ obs'[r].root \in Roots /\ obs'[r].proof = "none"
    BY <1>11 DEF ObserveRoot, Observe, NoObs, CurrentRoot, Roots, ClientTypeOK
  <2> QED
    BY <2>1 DEF ObservationTrue
<1>12. CASE ObserveProof(r)
  <2> DEFINE rt == obs[r].root
             p == proofs[rt][r]
  <2>1. /\ call'[r] = "probe" /\ obs'[r].root = rt /\ rt \in Roots
        /\ obs'[r].proof = ProofView(p)
    BY <1>0, <1>12 DEF ObserveProof, Observe, ObservationTrue, ClientTypeOK,
       Observations
  <2>2. UNCHANGED vars /\ p \in ProofDocs
    BY <1>12, <2>1 DEF ObserveProof, TypeOK
  <2>3. p # NoProof => pc[r] \notin {"none", "launched"}
    BY <2>1 DEF RootInv
  <2>4. ProofView(p) # "none" => p # NoProof
    BY DEF ProofView, NoProof
  <2>5. ASSUME NEW st \in {"success", "failed"}, ProofView(p) = st PROVE Shown(r, st)'
    <3>1. Shown(r, st)
      BY <2>1, <2>2, <2>5 DEF ProofView, ProofInv, Shown, Written
    <3> QED
      BY <3>1 DEF ShownKeeps
  <2>6. ProofView(p) = "awaiting" /\ Structural(r)' => OwnsClaim(r)'
    BY <2>1, <2>2, <2>3, <2>4, ClaimKept
       DEF ProofView, AwaitInv, ProofDocs, Statuses, Structural, vars
  <2> QED
    BY <2>1, <2>2, <2>3, <2>4, <2>5, <2>6 DEF ObservationTrue, vars
<1>13. CASE ObserveLock(r)
  <2>1. call'[r] = "unit" /\ obs'[r].proof = obs[r].proof
    BY <1>13 DEF ObserveLock, Observe, ClientTypeOK, Observations
  <2> QED
    BY <1>0, <2>1, ObservationSame
<1>14. CASE ObserveFreeLock(r)
  <2>1. call[r] = "probe" /\ call'[r] = "probing" /\ obs'[r] = obs[r]
    BY <1>14 DEF ObserveFreeLock, Observe, ClientTypeOK
  <2>2. obs'[r].root \in Roots
    BY <1>0, <2>1 DEF ObservationTrue
  <2> QED
    BY <1>0, <2>1, <2>2, ObservationSame
<1>15. CASE ObserveUnlock(r)
  <2>1. CASE UNCHANGED clientVars
    BY <1>0, <2>1, ObservationKept DEF clientVars, callVars
  <2>2. CASE Observe(r, "unit", [obs[r] EXCEPT !.root = "none"])
    <3>1. call'[r] = "unit" /\ obs'[r].proof = obs[r].proof
      BY <2>2 DEF Observe, ClientTypeOK, Observations
    <3> QED
      BY <1>0, <3>1, ObservationSame
  <2> QED
    BY <1>15, <2>1, <2>2 DEF ObserveUnlock
<1>16. CASE ObserveUnit(r)
  <2>1. /\ call'[r] = "decide" /\ obs'[r].proof = obs[r].proof
        /\ obs'[r].unit = UnitRunning(r)
    BY <1>16 DEF ObserveUnit, Observe, ClientTypeOK, Observations
  <2>2. obs[r].proof # "none" /\ ~obs'[r].unit => pc'[r] \in {"done", "dead"}
    BY <1>0, <1>16, <2>1 DEF ObserveUnit, ObservationTrue, UnitRunning, vars
  <2> QED
    BY <1>0, <2>1, <2>2, ObservationSame
<1>17. CASE ObserveError(r)
  BY <1>17, ObservationCleared DEF ObserveError, ClientTypeOK, Goto, Return, Observe,
     Classified, FinishedReturn, callVars, clientVars
<1>18. CASE DecideDisappeared(r)
  BY <1>18, ObservationCleared DEF DecideDisappeared, ClientTypeOK, Goto, Return,
     Observe, Classified, FinishedReturn, callVars, clientVars
<1>19. CASE ResolveSecrets(r)
  BY <1>19, ObservationCleared DEF ResolveSecrets, ClientTypeOK, Goto, Return,
     Observe, Classified, FinishedReturn, callVars, clientVars
<1>20. CASE ResolveError(r)
  BY <1>20, ObservationCleared DEF ResolveError, ClientTypeOK, Goto, Return, Observe,
     Classified, FinishedReturn, callVars, clientVars
<1>21. CASE DecideTerminal(r)
  BY <1>21, ObservationCleared DEF DecideTerminal, ClientTypeOK, Goto, Return,
     Observe, Classified, FinishedReturn, callVars, clientVars
<1>22. CASE DecideInterrupted(r)
  BY <1>22, ObservationCleared DEF DecideInterrupted, ClientTypeOK, Goto, Return,
     Observe, Classified, FinishedReturn, callVars, clientVars
<1>23. CASE DecideRunning(r)
  BY <1>23, ObservationCleared DEF DecideRunning, ClientTypeOK, Goto, Return, Observe,
     Classified, FinishedReturn, callVars, clientVars
<1>24. CASE SendSecrets(r)
  BY <1>0, <1>24, ObservationKept DEF SendSecrets, Goto, Return, Observe, Classified,
     FinishedReturn, callVars, clientVars
<1>25. CASE SendError(r)
  BY <1>25, ObservationCleared DEF SendError, ClientTypeOK, Goto, Return, Observe,
     Classified, FinishedReturn, callVars, clientVars
<1>26. CASE FinishedKnown(r)
  BY <1>26, ObservationCleared DEF FinishedKnown, ClientTypeOK, Goto, Return, Observe,
     Classified, FinishedReturn, callVars, clientVars
<1>27. CASE FinishedNew(r)
  BY <1>0, <1>27, ObservationKept DEF FinishedNew, Goto, Return, Observe, Classified,
     FinishedReturn, callVars, clientVars
<1>28. CASE AppendExecutionRecord(r)
  BY <1>28, ObservationCleared DEF AppendExecutionRecord, ClientTypeOK, Goto, Return,
     Observe, Classified, FinishedReturn, callVars, clientVars
<1>29. CASE FinishedError(r)
  BY <1>29, ObservationCleared DEF FinishedError, ClientTypeOK, Goto, Return, Observe,
     Classified, FinishedReturn, callVars, clientVars
<1>30. CASE Reconcile(r)
  BY <1>0, <1>30, ObservationKept DEF Reconcile, Goto, Return, Observe, Classified,
     FinishedReturn, callVars, clientVars
<1>31. CASE ReconcileDecide(r)
  BY <1>31, ObservationCleared DEF ReconcileDecide, ClientTypeOK, Goto, Return,
     Observe, Classified, FinishedReturn, callVars, clientVars
<1>32. CASE CallLost(r)
  BY <1>32, ObservationCleared DEF CallLost, ClientTypeOK, Goto, Return, Observe,
     Classified, FinishedReturn, callVars, clientVars
<1>33. CASE TargetStep(r)
  BY <1>0, <1>33, ObservationKept DEF TargetStep, Goto, Return, Observe, Classified,
     FinishedReturn, callVars, clientVars
<1> QED
  BY <1>1, <1>2, <1>3, <1>4, <1>5, <1>6, <1>7, <1>8, <1>9, <1>10, <1>11, <1>12,
     <1>13, <1>14, <1>15, <1>16, <1>17, <1>18, <1>19, <1>20, <1>21, <1>22, <1>23,
     <1>24, <1>25, <1>26, <1>27, <1>28, <1>29, <1>30, <1>31, <1>32, <1>33 DEF
     ClientStep, RemoteStep

\* A terminal status that classify found is one the target has written.
LEMMA ReportTerminal ==
  ASSUME ClientTypeOK, ShownKeeps, NEW r \in Runs, ObservationTrue(r), ReportTrue(r),
         UNCHANGED vars,
         obs[r].proof \in {"success", "failed"}, Classified(r, "finishing"),
         UNCHANGED <<regBundles, records>>
  PROVE  ReportTrue(r)'
<1>0. Classify(obs[r]) = obs[r].proof
  BY DEF Classify
<1>1. call'[r] = "finishing" /\ status'[r] = obs[r].proof
  BY <1>0 DEF ClientTypeOK, Classified
<1>2. \A st \in {"success", "failed"} : obs[r].proof = st \/ records[r] = st => Shown(r, st)'
  BY DEF ObservationTrue, ReportTrue, ShownKeeps
<1> QED
  BY <1>1, <1>2 DEF ReportTrue, vars

\* Any other status that Reconcile returns is no conclusion, or the truth that
\* the process is gone.
LEMMA ReportOther ==
  ASSUME ClientTypeOK, ShownKeeps, NEW r \in Runs, ObservationTrue(r), ReportTrue(r),
         UNCHANGED vars,
         call[r] = "decide", obs[r].proof \notin {"success", "failed"},
         Return(r, Classify(obs[r]), "nil"), UNCHANGED <<regBundles, records>>
  PROVE  ReportTrue(r)'
<1>1. call'[r] = "returned" /\ status'[r] = Classify(obs[r])
  BY DEF ClientTypeOK, Return
<1>2. /\ Classify(obs[r]) \in {"running", "not-started", "interrupted"}
      /\ Classify(obs[r]) = "interrupted" => obs[r].proof # "none" /\ ~obs[r].unit
  BY DEF Classify
<1>3. Classify(obs[r]) = "interrupted" => pc'[r] \in {"done", "dead"}
  BY <1>2 DEF ObservationTrue, vars
<1>4. \A st \in {"success", "failed"} : records[r] = st => Shown(r, st)'
  BY DEF ReportTrue, ShownKeeps
<1> QED
  BY <1>1, <1>2, <1>3, <1>4 DEF ReportTrue, vars

\* A step of the call for r, or of its runner, keeps its conclusions true.
LEMMA ActorReport ==
  ASSUME TypeOK, ClientTypeOK, RootInv, ProofInv, AwaitInv, ObservationInv, ReportInv,
         TargetKeeps, ShownKeeps, NEW r \in Runs,
         \/ UploadBundle(r) \/ UploadError(r) \/ Reconcile(r) \/ CallLost(r)
         \/ ClientStep(r) \/ RemoteStep(r) \/ TargetStep(r)
  PROVE  ReportTrue(r)'
<1>0. ObservationTrue(r) /\ ReportTrue(r)
  BY DEF ObservationInv, ReportInv
<1>1. CASE UploadBundle(r)
  BY <1>0, <1>1, ReportGoto DEF UploadBundle, ClientTypeOK, Goto, Observe
<1>2. CASE UploadError(r)
  BY <1>0, <1>2, ReportOpen DEF UploadError, ClientTypeOK, Return
<1>3. CASE RegisterBundle(r)
  BY <1>0, <1>3, ReportGoto DEF RegisterBundle, ClientTypeOK, Goto, Observe
<1>4. CASE AppendExecutionBundle(r)
  <2>1. CASE bundleOf[r] \in regBundles
    BY <1>0, <1>4, <2>1, ReportOpen DEF AppendExecutionBundle, ClientTypeOK, Return
  <2>2. CASE bundleOf[r] \notin regBundles
    BY <1>0, <1>4, <2>2, ReportGoto DEF AppendExecutionBundle, ClientTypeOK, Goto
  <2> QED
    BY <2>1, <2>2
<1>5. CASE RegisterError(r)
  BY <1>0, <1>5, ReportOpen DEF RegisterError, ClientTypeOK, Return
<1>6. CASE Start(r)
  BY <1>0, <1>6, ReportGoto DEF Start, ClientTypeOK, Goto, Observe
<1>7. CASE StartArrives(r)
  BY <1>0, <1>7, ReportKept DEF StartArrives, clientVars, callVars
<1>8. CASE StartRejected(r)
  BY <1>0, <1>8, ReportKept DEF StartRejected, clientVars, callVars
<1>9. CASE StartReply(r)
  BY <1>0, <1>9, ReportOpen DEF StartReply, ClientTypeOK, Return
<1>10. CASE StartError(r)
  BY <1>0, <1>10, ReportOpen DEF StartError, ClientTypeOK, Return
<1>11. CASE ObserveRoot(r)
  BY <1>0, <1>11, ReportGoto DEF ObserveRoot, ClientTypeOK, Goto, Observe
<1>12. CASE ObserveProof(r)
  BY <1>0, <1>12, ReportGoto DEF ObserveProof, ClientTypeOK, Goto, Observe
<1>13. CASE ObserveLock(r)
  BY <1>0, <1>13, ReportGoto DEF ObserveLock, ClientTypeOK, Goto, Observe
<1>14. CASE ObserveFreeLock(r)
  BY <1>0, <1>14, ReportGoto DEF ObserveFreeLock, ClientTypeOK, Goto, Observe
<1>15. CASE ObserveUnlock(r)
  <2>1. CASE UNCHANGED clientVars
    BY <1>0, <2>1, ReportKept DEF clientVars, callVars
  <2>2. CASE call[r] = "probing" /\ Observe(r, "unit", [obs[r] EXCEPT !.root = "none"])
    BY <1>0, <2>2, ReportGoto DEF Observe, ClientTypeOK
  <2> QED
    BY <1>15, <2>1, <2>2 DEF ObserveUnlock
<1>16. CASE ObserveUnit(r)
  BY <1>0, <1>16, ReportGoto DEF ObserveUnit, ClientTypeOK, Goto, Observe
<1>17. CASE ObserveError(r)
  BY <1>0, <1>17, ReportOpen DEF ObserveError, ClientTypeOK, Return
<1>18. CASE DecideDisappeared(r)
  BY <1>0, <1>18, ReportOpen DEF DecideDisappeared, ClientTypeOK, Return
<1>19. CASE ResolveSecrets(r)
  <2>1. /\ call'[r] = "sending" /\ records' = records /\ regBundles' = regBundles
        /\ UNCHANGED vars /\ obs[r].proof = "awaiting"
        /\ status'[r] \in {"running", "interrupted"}
        /\ status'[r] = "interrupted" => call[r] = "decide" /\ ~obs[r].unit
    BY <1>19 DEF ResolveSecrets, ClientTypeOK, Deciding, NeedsSecrets, Classified, Classify
  <2>2. \A st \in {"success", "failed"} : records[r] = st => Shown(r, st)'
    BY <1>0 DEF ReportTrue, ShownKeeps
  <2>3. Structural(r)' => OwnsClaim(r)'
    BY <1>0, <2>1, ClaimKept DEF ObservationTrue, Structural, vars
  <2> QED
    BY <1>0, <2>1, <2>2, <2>3 DEF ReportTrue, ObservationTrue, vars
<1>20. CASE ResolveError(r)
  BY <1>0, <1>20
     DEF ResolveError, ReportTrue, ObservationTrue, ClientTypeOK, Observations, 
         Deciding, NeedsSecrets, Classified, Classify, Return, Shown, Written, OwnsClaim, Structural, vars
<1>21. CASE DecideTerminal(r)
  BY <1>0, <1>21, ReportTerminal DEF DecideTerminal
<1>22. CASE DecideInterrupted(r)
  BY <1>0, <1>22
     DEF DecideInterrupted, ReportTrue, ObservationTrue, ClientTypeOK, Observations, 
         Deciding, NeedsSecrets, Classified, Classify, Return, Shown, Written, OwnsClaim, Structural, vars
<1>23. CASE DecideRunning(r)
  BY <1>0, <1>23, ReportOpen DEF DecideRunning, ClientTypeOK, Return, Classified
<1>24. CASE SendSecrets(r)
  BY <1>0, <1>24, ReportGoto DEF SendSecrets, ClientTypeOK, Goto, Observe
<1>25. CASE SendError(r)
  BY <1>0, <1>25, ReportOpen DEF SendError, ClientTypeOK, Return
<1>26. CASE FinishedKnown(r)
  BY <1>0, <1>26 DEF FinishedKnown, ReportTrue, ClientTypeOK, Return, FinishedReturn,
     Shown, Written, vars
<1>27. CASE FinishedNew(r)
  <2>1. Shown(r, status[r])'
    BY <1>0, <1>27 DEF FinishedNew, ReportTrue, vars, Shown, Written, Goto
  <2> QED
    BY <1>0, <1>27, <2>1
       DEF FinishedNew, ReportTrue, ClientTypeOK, Goto, Shown, Written
<1>28. CASE AppendExecutionRecord(r)
  BY <1>0, <1>28 DEF AppendExecutionRecord, ReportTrue, ClientTypeOK, Return,
     FinishedReturn, Shown, Written, vars
<1>29. CASE FinishedError(r)
  BY <1>0, <1>29 DEF FinishedError, ReportTrue, ClientTypeOK, Return, FinishedReturn,
     Shown, Written, vars
<1>30. CASE Reconcile(r)
  BY <1>0, <1>30, ReportOpen DEF Reconcile, ClientTypeOK, Return
<1>31. CASE ReconcileDecide(r)
  BY <1>0, <1>31, ReportTerminal, ReportOther DEF ReconcileDecide
<1>32. CASE CallLost(r)
  BY <1>0, <1>32, ReportOpen DEF CallLost, ClientTypeOK, Return
<1>33. CASE TargetStep(r)
  BY <1>0, <1>33, ReportKept DEF TargetStep, clientVars, callVars
<1> QED
  BY <1>1, <1>2, <1>3, <1>4, <1>5, <1>6, <1>7, <1>8, <1>9, <1>10, <1>11, <1>12,
     <1>13, <1>14, <1>15, <1>16, <1>17, <1>18, <1>19, <1>20, <1>21, <1>22, <1>23,
     <1>24, <1>25, <1>26, <1>27, <1>28, <1>29, <1>30, <1>31, <1>32, <1>33 DEF
     ClientStep, RemoteStep

\* Every step keeps what all calls know and have concluded true.
LEMMA KnowledgeStep ==
  ASSUME TypeOK, ClientTypeOK, RootInv, ProofInv, AwaitInv, ObservationInv, ReportInv,
         TargetKeeps, ShownKeeps, [ExecNext]_allVars
  PROVE  ObservationInv' /\ ReportInv'
<1>1. ASSUME NEW r \in Runs, NEW s \in Runs,
             \/ UploadBundle(r) \/ UploadError(r) \/ Reconcile(r) \/ CallLost(r)
             \/ ClientStep(r) \/ RemoteStep(r) \/ TargetStep(r)
      PROVE  ObservationTrue(s)' /\ ReportTrue(s)'
  <2>1. CASE s = r
    BY <1>1, <2>1, ActorObservation, ActorReport
  <2>2. CASE s # r
    <3>1. Frame(r)
      BY <1>1, FrameStep
    <3> QED
      BY <2>2, <3>1, ObservationKept, ReportKept DEF Frame, ObservationInv, ReportInv
  <2> QED
    BY <2>1, <2>2
<1>2. ASSUME NEW s \in Runs, UNCHANGED allVars
      PROVE  ObservationTrue(s)' /\ ReportTrue(s)'
  BY <1>2, ObservationKept, ReportKept
     DEF ObservationInv, ReportInv, allVars, clientVars, callVars
<1>3. CASE ExecNext
  BY <1>1, <1>3 DEF ExecNext, ExecStep, ObservationInv, ReportInv
<1> QED
  BY <1>2, <1>3 DEF ObservationInv, ReportInv

-----------------------------------------------------------------------------
(* Start requests, processes and not-started reports.                      *)

\* Nothing but StartArrives makes a process, and only Start makes a request.
LEMMA StartStep ==
  ASSUME TypeOK, ClientTypeOK, StartInv, ReportInv, NEW r \in Runs,
         \/ UploadBundle(r) \/ UploadError(r) \/ Reconcile(r) \/ CallLost(r)
         \/ ClientStep(r) \/ RemoteStep(r) \/ TargetStep(r)
  PROVE  StartInv'
<1> USE DEF TypeOK, ClientTypeOK, StartInv, UploadExecution, StartExecution,
           ProbeLock, ProbeRelease, ReceiveSecrets, SecretsBroken, Advance, vars,
           clientVars, callVars, Goto, Return, Observe, Classified, FinishedReturn,
           NoObs
<1>1. CASE UploadBundle(r)
  BY <1>1 DEF UploadBundle
<1>2. CASE UploadError(r)
  BY <1>2 DEF UploadError
<1>3. CASE RegisterBundle(r)
  BY <1>3 DEF RegisterBundle
<1>4. CASE AppendExecutionBundle(r)
  BY <1>4 DEF AppendExecutionBundle
<1>5. CASE RegisterError(r)
  BY <1>5 DEF RegisterError
<1>6. CASE Start(r)
  BY <1>6 DEF Start
<1>7. CASE StartArrives(r)
  BY <1>7 DEF StartArrives
<1>8. CASE StartRejected(r)
  BY <1>8 DEF StartRejected
<1>9. CASE StartReply(r)
  BY <1>9 DEF StartReply
<1>10. CASE StartError(r)
  BY <1>10 DEF StartError
<1>11. CASE ObserveRoot(r)
  BY <1>11 DEF ObserveRoot
<1>12. CASE ObserveProof(r)
  BY <1>12 DEF ObserveProof
<1>13. CASE ObserveLock(r)
  BY <1>13 DEF ObserveLock
<1>14. CASE ObserveFreeLock(r)
  BY <1>14 DEF ObserveFreeLock
<1>15. CASE ObserveUnlock(r)
  BY <1>15 DEF ObserveUnlock
<1>16. CASE ObserveUnit(r)
  BY <1>16 DEF ObserveUnit
<1>17. CASE ObserveError(r)
  BY <1>17 DEF ObserveError, Observing
<1>18. CASE DecideDisappeared(r)
  BY <1>18 DEF DecideDisappeared, Deciding
<1>19. CASE ResolveSecrets(r)
  BY <1>19 DEF ResolveSecrets, Deciding
<1>20. CASE ResolveError(r)
  BY <1>20 DEF ResolveError, Deciding, NeedsSecrets, Classify
<1>21. CASE DecideTerminal(r)
  BY <1>21 DEF DecideTerminal, Deciding
<1>22. CASE DecideInterrupted(r)
  BY <1>22 DEF DecideInterrupted, Deciding
<1>23. CASE DecideRunning(r)
  <2>1. CASE Classified(r, "observe")
    BY <1>23, <2>1 DEF DecideRunning, Deciding
  <2>2. CASE Return(r, "unknown", "unknown")
    BY <1>23, <2>2 DEF DecideRunning, Deciding
  <2> QED
    BY <1>23, <2>1, <2>2 DEF DecideRunning
<1>24. CASE SendSecrets(r)
  BY <1>24 DEF SendSecrets
<1>25. CASE SendError(r)
  BY <1>25 DEF SendError
<1>26. CASE FinishedKnown(r)
  BY <1>26 DEF FinishedKnown, ReportInv, ReportTrue
<1>27. CASE FinishedNew(r)
  BY <1>27 DEF FinishedNew
<1>28. CASE AppendExecutionRecord(r)
  BY <1>28 DEF AppendExecutionRecord, ReportInv, ReportTrue
<1>29. CASE FinishedError(r)
  BY <1>29 DEF FinishedError, ReportInv, ReportTrue
<1>30. CASE Reconcile(r)
  BY <1>30 DEF Reconcile
<1>31. CASE ReconcileDecide(r)
  BY <1>31 DEF ReconcileDecide
<1>32. CASE CallLost(r)
  BY <1>32 DEF CallLost, InCall
<1>33. CASE TargetStep(r)
  BY <1>33, RunnerNeverStarts DEF TargetStep
<1> QED
  BY <1>1, <1>2, <1>3, <1>4, <1>5, <1>6, <1>7, <1>8, <1>9, <1>10, <1>11, <1>12,
     <1>13, <1>14, <1>15, <1>16, <1>17, <1>18, <1>19, <1>20, <1>21, <1>22, <1>23,
     <1>24, <1>25, <1>26, <1>27, <1>28, <1>29, <1>30, <1>31, <1>32, <1>33 DEF
     ClientStep, RemoteStep

-----------------------------------------------------------------------------
(* The theorems.                                                           *)

\* The initial state satisfies the client's invariant.
LEMMA ClientInitInv == ExecInit => IndInv /\ ClientInv
<1> SUFFICES ASSUME ExecInit PROVE IndInv /\ ClientInv
  OBVIOUS
<1>1. IndInv
  BY InitInd DEF ExecInit
<1>2. ClientTypeOK
  BY DEF ExecInit, ClientInit, ClientTypeOK, CallLabels, RunStatuses, Observations,
         NoObs
<1>3. StartInv
  BY DEF ExecInit, ClientInit, StartInv, Init
<1>4. AwaitInv
  BY DEF ExecInit, AwaitInv, Init, NoProof
<1>5. ObservationInv /\ ReportInv
  BY DEF ExecInit, ClientInit, ObservationInv, ObservationTrue, ReportInv, ReportTrue,
         NoObs
<1> QED
  BY <1>1, <1>2, <1>3, <1>4, <1>5 DEF ClientInv

\* Every step of the composed system preserves both invariants.
LEMMA ClientIndStep ==
  ASSUME IndInv, ClientInv, [ExecNext]_allVars
  PROVE  IndInv' /\ ClientInv'
<1> USE DEF IndInv, ClientInv
<1>1. [Next]_vars
  BY ExecStepIsTargetStep
<1>2. IndInv'
  BY <1>1, IndStep
<1>3. TargetKeeps
  BY <1>1, KeepsStep
<1>4. ShownKeeps
  <2>1. SettlesTerminalProofs
    BY <1>1, StableStep
  <2> QED
    BY <1>3, <2>1, ShownStep
<1>5. ClientTypeOK'
  BY ClientTypeStep
<1>6. AwaitInv'
  BY <1>1, AwaitStep
<1>7. ObservationInv' /\ ReportInv'
  BY <1>3, <1>4, KnowledgeStep
<1>8. StartInv'
  <2>1. CASE ExecNext
    BY <2>1, StartStep DEF ExecNext, ExecStep
  <2>2. CASE UNCHANGED allVars
    BY <2>2 DEF allVars, vars, clientVars, callVars, StartInv
  <2> QED
    BY <2>1, <2>2
<1> QED
  BY <1>2, <1>5, <1>6, <1>7, <1>8

\* The invariants of the target and of the client hold in every reachable state,
\* for any number of runs and bundles.
THEOREM ClientInductive == ExecSpec => [](IndInv /\ ClientInv)
<1>1. (IndInv /\ ClientInv) /\ [ExecNext]_allVars => (IndInv /\ ClientInv)'
  BY ClientIndStep
<1> QED
  BY <1>1, ClientInitInv, PTL DEF ExecSpec

\* Executors driving the target do nothing that TargetRunner does not allow: every
\* property proved of Spec holds of the composed system.
THEOREM ExecutionImplementsTarget == ExecSpec => Spec
<1>1. IndInv /\ ClientInv /\ [ExecNext]_allVars => [Next]_vars
  BY ExecStepIsTargetStep DEF IndInv, ClientInv
<1>2. ExecInit => Init
  BY DEF ExecInit
<1> QED
  BY <1>1, <1>2, ClientInductive, PTL DEF ExecSpec, Spec

\* Types of the client's state.
THEOREM ClientTypesHold == ExecSpec => []ClientTypeOK
<1>1. ClientInv => ClientTypeOK
  BY DEF ClientInv
<1> QED
  BY <1>1, ClientInductive, PTL

\* The history repeats only outcomes that a proof on the target showed.
THEOREM RecordsAreFaithful == ExecSpec => []RecordFaithful
<1>1. ClientInv => RecordFaithful
  BY DEF ClientInv, ClientTypeOK, ReportInv, ReportTrue, RecordFaithful
<1> QED
  BY <1>1, ClientInductive, PTL

\* A reported outcome is one that a proof on the target showed.
THEOREM ReportsAreFaithful == ExecSpec => []ReportFaithful
<1>1. ClientInv => ReportFaithful
  BY DEF ClientInv, ReportInv, ReportTrue, ReportFaithful
<1> QED
  BY <1>1, ClientInductive, PTL

\* A run reported as interrupted is over, however its observation raced with it.
THEOREM InterruptedRunsAreDead == ExecSpec => []InterruptedIsDead
<1>1. ClientInv => InterruptedIsDead
  BY DEF ClientInv, ReportInv, ReportTrue, InterruptedIsDead
<1> QED
  BY <1>1, ClientInductive, PTL

\* Secrets are sent only to the run that made the claim of its bundle.
THEOREM SecretsFollowClaims == ExecSpec => []SecretsAfterClaim
<1>1. ClientInv => SecretsAfterClaim
  BY DEF ClientInv, ReportInv, ReportTrue, SecretsAfterClaim
<1> QED
  BY <1>1, ClientInductive, PTL

\* Execute says not-started only of a run that cannot start any more.
THEOREM NotStartedIsSafe == ExecSpec => []RetryIsSafe
<1>1. ClientInv => RetryIsSafe
  BY DEF ClientInv, StartInv, RetryIsSafe
<1> QED
  BY <1>1, ClientInductive, PTL

\* What one step does to the local history.
LEMMA HistoryStep ==
  ASSUME ClientTypeOK, ReportInv, [ExecNext]_allVars
  PROVE  /\ regBundles \subseteq regBundles'
         /\ \A s \in Runs : records[s] # "none" => records'[s] = records[s]
<1>1. ASSUME NEW r \in Runs, AppendExecutionRecord(r), NEW s \in Runs, records[s] # "none"
      PROVE  records'[s] = records[s]
  BY <1>1 DEF AppendExecutionRecord, ReportInv, ReportTrue, ClientTypeOK
<1>2. ASSUME NEW r \in Runs, AppendExecutionRecord(r)
      PROVE  regBundles \subseteq regBundles'
  BY <1>2 DEF AppendExecutionRecord
<1>3. ASSUME NEW r \in Runs, ~AppendExecutionRecord(r),
             \/ UploadBundle(r) \/ UploadError(r) \/ Reconcile(r) \/ CallLost(r)
             \/ ClientStep(r) \/ RemoteStep(r) \/ TargetStep(r)
      PROVE  records' = records /\ regBundles \subseteq regBundles'
  BY <1>3 DEF UploadBundle, UploadError, RegisterBundle, AppendExecutionBundle,
     RegisterError, Start, StartArrives, StartRejected, StartReply, StartError,
     ObserveRoot, ObserveProof, ObserveLock, ObserveFreeLock, ObserveUnlock,
     ObserveUnit, ObserveError, DecideDisappeared, ResolveSecrets, ResolveError,
     DecideTerminal, DecideInterrupted, DecideRunning, SendSecrets, SendError,
     FinishedKnown, FinishedNew, FinishedError, Reconcile, ReconcileDecide, CallLost,
     TargetStep, ClientStep, RemoteStep, Observe, clientVars
<1>4. CASE UNCHANGED allVars
  BY <1>4 DEF allVars, clientVars
<1> QED
  BY <1>1, <1>2, <1>3, <1>4 DEF ExecNext, ExecStep

\* No step removes a bundle row or changes an execution record.
THEOREM HistoryIsAppendOnly == ExecSpec => HistoryImmutable
<1>1. ClientInv /\ [ExecNext]_allVars =>
        [/\ regBundles \subseteq regBundles'
         /\ \A r \in Runs : records[r] # "none" => records'[r] = records[r]]_allVars
  BY HistoryStep DEF ClientInv
<1> QED
  BY <1>1, ClientInductive, PTL DEF ExecSpec, HistoryImmutable
=============================================================================
