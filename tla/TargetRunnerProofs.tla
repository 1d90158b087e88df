------------------------- MODULE TargetRunnerProofs -------------------------
(***************************************************************************)
(* Proofs about TargetRunner for every set of runs and bundles and every   *)
(* number of steps.  IndInv is the inductive invariant; its parts are      *)
(* proved one lemma each, in the order in which they depend on each other. *)
(***************************************************************************)
EXTENDS TargetRunner, TLAPS

\* Every action keeps the types of the variables: in particular the step
\* counter stays within the manifest.
LEMMA TypeStep ==
  ASSUME TypeOK, [Next]_vars
  PROVE  TypeOK'
<1> USE StepCountNat, NoRunFresh DEF TypeOK, Roots, PcLabels, ProofDocs, Phases, Statuses,
           Advance, Doc, Structural, CurrentRoot, CoreActive, Promotes, ProofFile
<1>1. ASSUME NEW r \in Runs, StartExecution(r) PROVE TypeOK'
  BY <1>1 DEF StartExecution
<1>2. ASSUME NEW r \in Runs, ReceiveSecrets(r) PROVE TypeOK'
  BY <1>2 DEF ReceiveSecrets
<1>3. ASSUME NEW r \in Runs, SecretsBroken(r) PROVE TypeOK'
  BY <1>3 DEF SecretsBroken
<1>4. ASSUME NEW r \in Runs, Kill(r) PROVE TypeOK'
  BY <1>4 DEF Kill
<1>5. ASSUME NEW r \in Runs, OpenRoot(r) PROVE TypeOK'
  BY <1>5 DEF OpenRoot
<1>6. ASSUME NEW r \in Runs, TakeLock(r) PROVE TypeOK'
  BY <1>6 DEF TakeLock
<1>7. ASSUME NEW r \in Runs, LockRefused(r) PROVE TypeOK'
  BY <1>7 DEF LockRefused
<1>8. ASSUME NEW r \in Runs, Claim(r) PROVE TypeOK'
  <2>1. bundleOf[r] \in Bundles /\ pc' \in [Runs -> PcLabels]
    BY <1>8 DEF Claim
  <2>2. claims' \in [Roots -> SUBSET Bundles]
    BY <1>8, <2>1 DEF Claim
  <2> QED
    BY <1>8, <2>1, <2>2 DEF Claim
<1>9. ASSUME NEW r \in Runs, Duplicate(r) PROVE TypeOK'
  BY <1>9 DEF Duplicate
<1>10. ASSUME NEW r \in Runs, AwaitSecrets(r) PROVE TypeOK'
  BY <1>10 DEF AwaitSecrets
<1>11. ASSUME NEW r \in Runs, CheckSecrets(r) PROVE TypeOK'
  BY <1>11 DEF CheckSecrets
<1>12. ASSUME NEW r \in Runs, MaterializeSecrets(r) PROVE TypeOK'
  BY <1>12 DEF MaterializeSecrets
<1>13. ASSUME NEW r \in Runs, RunStep(r) PROVE TypeOK'
  <2>1. step[r] + 1 \in 0 .. StepCount
    BY <1>13 DEF RunStep
  <2>2. PICK after \in {"steps", "stepfailed"} :
          Advance(r, after, Doc("running", "steps", step[r] + 1))
    BY <1>13 DEF RunStep
  <2> QED
    BY <1>13, <2>1, <2>2 DEF RunStep
<1>14. ASSUME NEW r \in Runs, StepRaises(r) PROVE TypeOK'
  <2>1. step[r] + 1 \in 0 .. StepCount
    BY <1>14 DEF StepRaises
  <2> QED
    BY <1>14, <2>1 DEF StepRaises
<1>15. ASSUME NEW r \in Runs, PostValidate(r) PROVE TypeOK'
  BY <1>15 DEF PostValidate
<1>16. ASSUME NEW r \in Runs, BeginPromotion(r) PROVE TypeOK'
  BY <1>16 DEF BeginPromotion
<1>17. ASSUME NEW r \in Runs, CopyBundleAndProof(r) PROVE TypeOK'
  BY <1>17 DEF CopyBundleAndProof
<1>18. ASSUME NEW r \in Runs, CopyClaim(r) PROVE TypeOK'
  BY <1>18 DEF CopyClaim
<1>19. ASSUME NEW r \in Runs, ActivateCore(r) PROVE TypeOK'
  BY <1>19 DEF ActivateCore
<1>20. ASSUME NEW r \in Runs, RedirectProof(r) PROVE TypeOK'
  BY <1>20 DEF RedirectProof
<1>21. ASSUME NEW r \in Runs, Finish(r) PROVE TypeOK'
  BY <1>21 DEF Finish
<1>22. ASSUME NEW r \in Runs, Fail(r) PROVE TypeOK'
  BY <1>22 DEF Fail
<1>23. ASSUME NEW r \in Runs, Exit(r) PROVE TypeOK'
  BY <1>23 DEF Exit
<1>24. ASSUME NEW o \in Runs, NEW rt \in Roots, ProbeLock(o, rt) PROVE TypeOK'
  BY <1>24 DEF ProbeLock
<1>25. ASSUME NEW o \in Runs, NEW rt \in Roots, ProbeRelease(o, rt) PROVE TypeOK'
  BY <1>25 DEF ProbeRelease
<1>26. ASSUME NEW b \in Bundles, UploadExecution(b) PROVE TypeOK'
  BY <1>26 DEF UploadExecution
<1>27. CASE UNCHANGED vars
  BY <1>27 DEF vars
<1>28. QED
  BY <1>1, <1>2, <1>3, <1>4, <1>5, <1>6, <1>7, <1>8, <1>9, <1>10, <1>11, <1>12, <1>13,
     <1>14, <1>15, <1>16, <1>17, <1>18, <1>19, <1>20, <1>21, <1>22, <1>23, <1>24,
     <1>25, <1>26, <1>27 DEF Next, Environment, RunnerStep

\* RootInv is inductive: only OpenRoot chooses a root, and it chooses Core only
\* behind the marker.
LEMMA RootStep ==
  ASSUME TypeOK, RootInv, [Next]_vars
  PROVE  RootInv'
<1> USE NoRunFresh DEF TypeOK, RootInv, Roots, Critical, PcLabels, NoProof, Advance,
           Doc, Structural, CurrentRoot, CoreActive, Promotes, ProofFile
<1>1. ASSUME NEW r \in Runs, StartExecution(r) PROVE RootInv'
  BY <1>1 DEF StartExecution
<1>2. ASSUME NEW r \in Runs, ReceiveSecrets(r) PROVE RootInv'
  BY <1>2 DEF ReceiveSecrets
<1>3. ASSUME NEW r \in Runs, SecretsBroken(r) PROVE RootInv'
  BY <1>3 DEF SecretsBroken
<1>4. ASSUME NEW r \in Runs, Kill(r) PROVE RootInv'
  BY <1>4 DEF Kill
<1>5. ASSUME NEW r \in Runs, OpenRoot(r) PROVE RootInv'
  BY <1>5 DEF OpenRoot
<1>6. ASSUME NEW r \in Runs, TakeLock(r) PROVE RootInv'
  BY <1>6 DEF TakeLock
<1>7. ASSUME NEW r \in Runs, LockRefused(r) PROVE RootInv'
  BY <1>7 DEF LockRefused
<1>8. ASSUME NEW r \in Runs, Claim(r) PROVE RootInv'
  BY <1>8 DEF Claim
<1>9. ASSUME NEW r \in Runs, Duplicate(r) PROVE RootInv'
  BY <1>9 DEF Duplicate
<1>10. ASSUME NEW r \in Runs, AwaitSecrets(r) PROVE RootInv'
  BY <1>10 DEF AwaitSecrets
<1>11. ASSUME NEW r \in Runs, CheckSecrets(r) PROVE RootInv'
  BY <1>11 DEF CheckSecrets
<1>12. ASSUME NEW r \in Runs, MaterializeSecrets(r) PROVE RootInv'
  BY <1>12 DEF MaterializeSecrets
<1>13. ASSUME NEW r \in Runs, RunStep(r) PROVE RootInv'
  BY <1>13 DEF RunStep
<1>14. ASSUME NEW r \in Runs, StepRaises(r) PROVE RootInv'
  BY <1>14 DEF StepRaises
<1>15. ASSUME NEW r \in Runs, PostValidate(r) PROVE RootInv'
  BY <1>15 DEF PostValidate
<1>16. ASSUME NEW r \in Runs, BeginPromotion(r) PROVE RootInv'
  BY <1>16 DEF BeginPromotion
<1>17. ASSUME NEW r \in Runs, CopyBundleAndProof(r) PROVE RootInv'
  BY <1>17 DEF CopyBundleAndProof
<1>18. ASSUME NEW r \in Runs, CopyClaim(r) PROVE RootInv'
  BY <1>18 DEF CopyClaim
<1>19. ASSUME NEW r \in Runs, ActivateCore(r) PROVE RootInv'
  BY <1>19 DEF ActivateCore
<1>20. ASSUME NEW r \in Runs, RedirectProof(r) PROVE RootInv'
  BY <1>20 DEF RedirectProof
<1>21. ASSUME NEW r \in Runs, Finish(r) PROVE RootInv'
  BY <1>21 DEF Finish
<1>22. ASSUME NEW r \in Runs, Fail(r) PROVE RootInv'
  BY <1>22 DEF Fail
<1>23. ASSUME NEW r \in Runs, Exit(r) PROVE RootInv'
  BY <1>23 DEF Exit
<1>24. ASSUME NEW o \in Runs, NEW rt \in Roots, ProbeLock(o, rt) PROVE RootInv'
  BY <1>24 DEF ProbeLock
<1>25. ASSUME NEW o \in Runs, NEW rt \in Roots, ProbeRelease(o, rt) PROVE RootInv'
  BY <1>25 DEF ProbeRelease
<1>26. ASSUME NEW b \in Bundles, UploadExecution(b) PROVE RootInv'
  BY <1>26 DEF UploadExecution
<1>27. CASE UNCHANGED vars
  BY <1>27 DEF vars
<1>28. QED
  BY <1>1, <1>2, <1>3, <1>4, <1>5, <1>6, <1>7, <1>8, <1>9, <1>10, <1>11, <1>12, <1>13,
     <1>14, <1>15, <1>16, <1>17, <1>18, <1>19, <1>20, <1>21, <1>22, <1>23, <1>24,
     <1>25, <1>26, <1>27 DEF Next, Environment, RunnerStep

\* LockInv is inductive: flock grants are compatible with the holders, and a
\* process leaves the locked section only by releasing or by dying.
LEMMA LockStep ==
  ASSUME TypeOK, RootInv, LockInv, [Next]_vars
  PROVE  LockInv'
<1> USE DEF TypeOK, RootInv, LockInv, Roots, Critical, PcLabels, Structural,
           UnitRunning, LockFree, CurrentRoot, Advance
<1>1. ASSUME NEW r \in Runs, StartExecution(r) PROVE LockInv'
  BY <1>1 DEF StartExecution
<1>2. ASSUME NEW r \in Runs, ReceiveSecrets(r) PROVE LockInv'
  BY <1>2 DEF ReceiveSecrets
<1>3. ASSUME NEW r \in Runs, SecretsBroken(r) PROVE LockInv'
  BY <1>3 DEF SecretsBroken
<1>4. ASSUME NEW r \in Runs, Kill(r) PROVE LockInv'
  BY <1>4 DEF Kill
<1>5. ASSUME NEW r \in Runs, OpenRoot(r) PROVE LockInv'
  BY <1>5 DEF OpenRoot
<1>6. ASSUME NEW r \in Runs, TakeLock(r) PROVE LockInv'
  BY <1>6 DEF TakeLock
<1>7. ASSUME NEW r \in Runs, LockRefused(r) PROVE LockInv'
  BY <1>7 DEF LockRefused
<1>8. ASSUME NEW r \in Runs, Claim(r) PROVE LockInv'
  BY <1>8 DEF Claim
<1>9. ASSUME NEW r \in Runs, Duplicate(r) PROVE LockInv'
  BY <1>9 DEF Duplicate
<1>10. ASSUME NEW r \in Runs, AwaitSecrets(r) PROVE LockInv'
  BY <1>10 DEF AwaitSecrets
<1>11. ASSUME NEW r \in Runs, CheckSecrets(r) PROVE LockInv'
  BY <1>11 DEF CheckSecrets
<1>12. ASSUME NEW r \in Runs, MaterializeSecrets(r) PROVE LockInv'
  BY <1>12 DEF MaterializeSecrets
<1>13. ASSUME NEW r \in Runs, RunStep(r) PROVE LockInv'
  BY <1>13 DEF RunStep
<1>14. ASSUME NEW r \in Runs, StepRaises(r) PROVE LockInv'
  BY <1>14 DEF StepRaises
<1>15. ASSUME NEW r \in Runs, PostValidate(r) PROVE LockInv'
  BY <1>15 DEF PostValidate
<1>16. ASSUME NEW r \in Runs, BeginPromotion(r) PROVE LockInv'
  BY <1>16 DEF BeginPromotion
<1>17. ASSUME NEW r \in Runs, CopyBundleAndProof(r) PROVE LockInv'
  BY <1>17 DEF CopyBundleAndProof
<1>18. ASSUME NEW r \in Runs, CopyClaim(r) PROVE LockInv'
  BY <1>18 DEF CopyClaim
<1>19. ASSUME NEW r \in Runs, ActivateCore(r) PROVE LockInv'
  BY <1>19 DEF ActivateCore
<1>20. ASSUME NEW r \in Runs, RedirectProof(r) PROVE LockInv'
  BY <1>20 DEF RedirectProof
<1>21. ASSUME NEW r \in Runs, Finish(r) PROVE LockInv'
  BY <1>21 DEF Finish
<1>22. ASSUME NEW r \in Runs, Fail(r) PROVE LockInv'
  BY <1>22 DEF Fail
<1>23. ASSUME NEW r \in Runs, Exit(r) PROVE LockInv'
  BY <1>23 DEF Exit
<1>24. ASSUME NEW o \in Runs, NEW rt \in Roots, ProbeLock(o, rt) PROVE LockInv'
  BY <1>24 DEF ProbeLock
<1>25. ASSUME NEW o \in Runs, NEW rt \in Roots, ProbeRelease(o, rt) PROVE LockInv'
  BY <1>25 DEF ProbeRelease
<1>26. ASSUME NEW b \in Bundles, UploadExecution(b) PROVE LockInv'
  BY <1>26 DEF UploadExecution
<1>27. CASE UNCHANGED vars
  BY <1>27 DEF vars
<1>28. QED
  BY <1>1, <1>2, <1>3, <1>4, <1>5, <1>6, <1>7, <1>8, <1>9, <1>10, <1>11, <1>12, <1>13,
     <1>14, <1>15, <1>16, <1>17, <1>18, <1>19, <1>20, <1>21, <1>22, <1>23, <1>24,
     <1>25, <1>26, <1>27 DEF Next, Environment, RunnerStep

\* ClaimInv is inductive: O_EXCL refuses a second claim and nothing deletes one.
LEMMA ClaimStep ==
  ASSUME TypeOK, RootInv, ClaimInv, [Next]_vars
  PROVE  ClaimInv'
<1> USE DEF TypeOK, RootInv, ClaimInv, Roots, Claimed, Critical, AfterClaim,
           PcLabels, Structural, UnitRunning, CurrentRoot, Advance
<1>1. ASSUME NEW r \in Runs, StartExecution(r) PROVE ClaimInv'
  BY <1>1 DEF StartExecution
<1>2. ASSUME NEW r \in Runs, ReceiveSecrets(r) PROVE ClaimInv'
  BY <1>2 DEF ReceiveSecrets
<1>3. ASSUME NEW r \in Runs, SecretsBroken(r) PROVE ClaimInv'
  BY <1>3 DEF SecretsBroken
<1>4. ASSUME NEW r \in Runs, Kill(r) PROVE ClaimInv'
  BY <1>4 DEF Kill
<1>5. ASSUME NEW r \in Runs, OpenRoot(r) PROVE ClaimInv'
  BY <1>5 DEF OpenRoot
<1>6. ASSUME NEW r \in Runs, TakeLock(r) PROVE ClaimInv'
  BY <1>6 DEF TakeLock
<1>7. ASSUME NEW r \in Runs, LockRefused(r) PROVE ClaimInv'
  BY <1>7 DEF LockRefused
<1>8. ASSUME NEW r \in Runs, Claim(r) PROVE ClaimInv'
  BY <1>8 DEF Claim
<1>9. ASSUME NEW r \in Runs, Duplicate(r) PROVE ClaimInv'
  BY <1>9 DEF Duplicate
<1>10. ASSUME NEW r \in Runs, AwaitSecrets(r) PROVE ClaimInv'
  BY <1>10 DEF AwaitSecrets
<1>11. ASSUME NEW r \in Runs, CheckSecrets(r) PROVE ClaimInv'
  BY <1>11 DEF CheckSecrets
<1>12. ASSUME NEW r \in Runs, MaterializeSecrets(r) PROVE ClaimInv'
  BY <1>12 DEF MaterializeSecrets
<1>13. ASSUME NEW r \in Runs, RunStep(r) PROVE ClaimInv'
  BY <1>13 DEF RunStep
<1>14. ASSUME NEW r \in Runs, StepRaises(r) PROVE ClaimInv'
  BY <1>14 DEF StepRaises
<1>15. ASSUME NEW r \in Runs, PostValidate(r) PROVE ClaimInv'
  BY <1>15 DEF PostValidate
<1>16. ASSUME NEW r \in Runs, BeginPromotion(r) PROVE ClaimInv'
  BY <1>16 DEF BeginPromotion
<1>17. ASSUME NEW r \in Runs, CopyBundleAndProof(r) PROVE ClaimInv'
  BY <1>17 DEF CopyBundleAndProof
<1>18. ASSUME NEW r \in Runs, CopyClaim(r) PROVE ClaimInv'
  BY <1>18 DEF CopyClaim
<1>19. ASSUME NEW r \in Runs, ActivateCore(r) PROVE ClaimInv'
  BY <1>19 DEF ActivateCore
<1>20. ASSUME NEW r \in Runs, RedirectProof(r) PROVE ClaimInv'
  BY <1>20 DEF RedirectProof
<1>21. ASSUME NEW r \in Runs, Finish(r) PROVE ClaimInv'
  BY <1>21 DEF Finish
<1>22. ASSUME NEW r \in Runs, Fail(r) PROVE ClaimInv'
  BY <1>22 DEF Fail
<1>23. ASSUME NEW r \in Runs, Exit(r) PROVE ClaimInv'
  BY <1>23 DEF Exit
<1>24. ASSUME NEW o \in Runs, NEW rt \in Roots, ProbeLock(o, rt) PROVE ClaimInv'
  BY <1>24 DEF ProbeLock
<1>25. ASSUME NEW o \in Runs, NEW rt \in Roots, ProbeRelease(o, rt) PROVE ClaimInv'
  BY <1>25 DEF ProbeRelease
<1>26. ASSUME NEW b \in Bundles, UploadExecution(b) PROVE ClaimInv'
  BY <1>26 DEF UploadExecution
<1>27. CASE UNCHANGED vars
  BY <1>27 DEF vars
<1>28. QED
  BY <1>1, <1>2, <1>3, <1>4, <1>5, <1>6, <1>7, <1>8, <1>9, <1>10, <1>11, <1>12, <1>13,
     <1>14, <1>15, <1>16, <1>17, <1>18, <1>19, <1>20, <1>21, <1>22, <1>23, <1>24,
     <1>25, <1>26, <1>27 DEF Next, Environment, RunnerStep

\* PromotionInv is inductive: promote_first_core copies bundle, proof and claim
\* before it writes the marker.
LEMMA PromotionStep ==
  ASSUME TypeOK, RootInv, ClaimInv, PromotionInv, [Next]_vars
  PROVE  PromotionInv'
<1> USE NoRunFresh DEF TypeOK, RootInv, ClaimInv, PromotionInv, Promoting, Mutating,
           Claimed, Critical, AfterClaim, PcLabels, Roots, NoProof, Advance, Doc,
           Structural, Promotes, CurrentRoot, CoreActive, ProofFile
<1>1. ASSUME NEW r \in Runs, StartExecution(r) PROVE PromotionInv'
  BY <1>1 DEF StartExecution
<1>2. ASSUME NEW r \in Runs, ReceiveSecrets(r) PROVE PromotionInv'
  BY <1>2 DEF ReceiveSecrets
<1>3. ASSUME NEW r \in Runs, SecretsBroken(r) PROVE PromotionInv'
  BY <1>3 DEF SecretsBroken
<1>4. ASSUME NEW r \in Runs, Kill(r) PROVE PromotionInv'
  BY <1>4 DEF Kill
<1>5. ASSUME NEW r \in Runs, OpenRoot(r) PROVE PromotionInv'
  BY <1>5 DEF OpenRoot
<1>6. ASSUME NEW r \in Runs, TakeLock(r) PROVE PromotionInv'
  BY <1>6 DEF TakeLock
<1>7. ASSUME NEW r \in Runs, LockRefused(r) PROVE PromotionInv'
  BY <1>7 DEF LockRefused
<1>8. ASSUME NEW r \in Runs, Claim(r) PROVE PromotionInv'
  BY <1>8 DEF Claim
<1>9. ASSUME NEW r \in Runs, Duplicate(r) PROVE PromotionInv'
  BY <1>9 DEF Duplicate
<1>10. ASSUME NEW r \in Runs, AwaitSecrets(r) PROVE PromotionInv'
  BY <1>10 DEF AwaitSecrets
<1>11. ASSUME NEW r \in Runs, CheckSecrets(r) PROVE PromotionInv'
  BY <1>11 DEF CheckSecrets
<1>12. ASSUME NEW r \in Runs, MaterializeSecrets(r) PROVE PromotionInv'
  BY <1>12 DEF MaterializeSecrets
<1>13. ASSUME NEW r \in Runs, RunStep(r) PROVE PromotionInv'
  BY <1>13 DEF RunStep
<1>14. ASSUME NEW r \in Runs, StepRaises(r) PROVE PromotionInv'
  BY <1>14 DEF StepRaises
<1>15. ASSUME NEW r \in Runs, PostValidate(r) PROVE PromotionInv'
  BY <1>15 DEF PostValidate
<1>16. ASSUME NEW r \in Runs, BeginPromotion(r) PROVE PromotionInv'
  BY <1>16 DEF BeginPromotion
<1>17. ASSUME NEW r \in Runs, CopyBundleAndProof(r) PROVE PromotionInv'
  BY <1>17 DEF CopyBundleAndProof
<1>18. ASSUME NEW r \in Runs, CopyClaim(r) PROVE PromotionInv'
  BY <1>18 DEF CopyClaim
<1>19. ASSUME NEW r \in Runs, ActivateCore(r) PROVE PromotionInv'
  BY <1>19 DEF ActivateCore
<1>20. ASSUME NEW r \in Runs, RedirectProof(r) PROVE PromotionInv'
  BY <1>20 DEF RedirectProof
<1>21. ASSUME NEW r \in Runs, Finish(r) PROVE PromotionInv'
  BY <1>21 DEF Finish
<1>22. ASSUME NEW r \in Runs, Fail(r) PROVE PromotionInv'
  BY <1>22 DEF Fail
<1>23. ASSUME NEW r \in Runs, Exit(r) PROVE PromotionInv'
  BY <1>23 DEF Exit
<1>24. ASSUME NEW o \in Runs, NEW rt \in Roots, ProbeLock(o, rt) PROVE PromotionInv'
  BY <1>24 DEF ProbeLock
<1>25. ASSUME NEW o \in Runs, NEW rt \in Roots, ProbeRelease(o, rt) PROVE PromotionInv'
  BY <1>25 DEF ProbeRelease
<1>26. ASSUME NEW b \in Bundles, UploadExecution(b) PROVE PromotionInv'
  BY <1>26 DEF UploadExecution
<1>27. CASE UNCHANGED vars
  BY <1>27 DEF vars
<1>28. QED
  BY <1>1, <1>2, <1>3, <1>4, <1>5, <1>6, <1>7, <1>8, <1>9, <1>10, <1>11, <1>12, <1>13,
     <1>14, <1>15, <1>16, <1>17, <1>18, <1>19, <1>20, <1>21, <1>22, <1>23, <1>24,
     <1>25, <1>26, <1>27 DEF Next, Environment, RunnerStep

\* ProofInv is inductive: after a terminal proof a process writes at most the
\* failure that the write of that proof raised.
LEMMA ProofStep ==
  ASSUME TypeOK, RootInv, PromotionInv, ProofInv, [Next]_vars
  PROVE  ProofInv'
<1> USE StepCountNat DEF TypeOK, RootInv, PromotionInv, ProofInv, Promoting, Critical,
           AfterClaim, PcLabels, Roots, NoProof, Terminal, Advance, Doc, UnitRunning,
           Structural, CurrentRoot, CoreActive, Promotes, ProofFile, Written
<1>1. ASSUME NEW r \in Runs, StartExecution(r) PROVE ProofInv'
  BY <1>1 DEF StartExecution
<1>2. ASSUME NEW r \in Runs, ReceiveSecrets(r) PROVE ProofInv'
  BY <1>2 DEF ReceiveSecrets
<1>3. ASSUME NEW r \in Runs, SecretsBroken(r) PROVE ProofInv'
  BY <1>3 DEF SecretsBroken
<1>4. ASSUME NEW r \in Runs, Kill(r) PROVE ProofInv'
  BY <1>4 DEF Kill
<1>5. ASSUME NEW r \in Runs, OpenRoot(r) PROVE ProofInv'
  BY <1>5 DEF OpenRoot
<1>6. ASSUME NEW r \in Runs, TakeLock(r) PROVE ProofInv'
  BY <1>6 DEF TakeLock
<1>7. ASSUME NEW r \in Runs, LockRefused(r) PROVE ProofInv'
  BY <1>7 DEF LockRefused
<1>8. ASSUME NEW r \in Runs, Claim(r) PROVE ProofInv'
  BY <1>8 DEF Claim
<1>9. ASSUME NEW r \in Runs, Duplicate(r) PROVE ProofInv'
  BY <1>9 DEF Duplicate
<1>10. ASSUME NEW r \in Runs, AwaitSecrets(r) PROVE ProofInv'
  BY <1>10 DEF AwaitSecrets
<1>11. ASSUME NEW r \in Runs, CheckSecrets(r) PROVE ProofInv'
  BY <1>11 DEF CheckSecrets
<1>12. ASSUME NEW r \in Runs, MaterializeSecrets(r) PROVE ProofInv'
  BY <1>12 DEF MaterializeSecrets
<1>13. ASSUME NEW r \in Runs, RunStep(r) PROVE ProofInv'
  BY <1>13 DEF RunStep
<1>14. ASSUME NEW r \in Runs, StepRaises(r) PROVE ProofInv'
  BY <1>14 DEF StepRaises
<1>15. ASSUME NEW r \in Runs, PostValidate(r) PROVE ProofInv'
  BY <1>15 DEF PostValidate
<1>16. ASSUME NEW r \in Runs, BeginPromotion(r) PROVE ProofInv'
  BY <1>16 DEF BeginPromotion
<1>17. ASSUME NEW r \in Runs, CopyBundleAndProof(r) PROVE ProofInv'
  BY <1>17 DEF CopyBundleAndProof
<1>18. ASSUME NEW r \in Runs, CopyClaim(r) PROVE ProofInv'
  BY <1>18 DEF CopyClaim
<1>19. ASSUME NEW r \in Runs, ActivateCore(r) PROVE ProofInv'
  BY <1>19 DEF ActivateCore
<1>20. ASSUME NEW r \in Runs, RedirectProof(r) PROVE ProofInv'
  BY <1>20 DEF RedirectProof
<1>21. ASSUME NEW r \in Runs, Finish(r) PROVE ProofInv'
  BY <1>21 DEF Finish
<1>22. ASSUME NEW r \in Runs, Fail(r) PROVE ProofInv'
  BY <1>22 DEF Fail
<1>23. ASSUME NEW r \in Runs, Exit(r) PROVE ProofInv'
  BY <1>23 DEF Exit
<1>24. ASSUME NEW o \in Runs, NEW rt \in Roots, ProbeLock(o, rt) PROVE ProofInv'
  BY <1>24 DEF ProbeLock
<1>25. ASSUME NEW o \in Runs, NEW rt \in Roots, ProbeRelease(o, rt) PROVE ProofInv'
  BY <1>25 DEF ProbeRelease
<1>26. ASSUME NEW b \in Bundles, UploadExecution(b) PROVE ProofInv'
  BY <1>26 DEF UploadExecution
<1>27. CASE UNCHANGED vars
  BY <1>27 DEF vars
<1> HIDE DEF ProofInv, TypeOK, RootInv, PromotionInv
<1>28. QED
  BY <1>1, <1>2, <1>3, <1>4, <1>5, <1>6, <1>7, <1>8, <1>9, <1>10, <1>11, <1>12, <1>13,
     <1>14, <1>15, <1>16, <1>17, <1>18, <1>19, <1>20, <1>21, <1>22, <1>23, <1>24,
     <1>25, <1>26, <1>27 DEF Next, Environment, RunnerStep

\* OneOutcome and SuccessMeansComplete follow the promoting process through
\* its change of proof file.
LEMMA OutcomeStep ==
  ASSUME TypeOK, RootInv, PromotionInv, ProofInv,
         OneOutcome, SuccessMeansComplete, [Next]_vars
  PROVE  (OneOutcome /\ SuccessMeansComplete)'
<1> USE NoRunFresh DEF TypeOK, RootInv, PromotionInv, ProofInv, OneOutcome,
           SuccessMeansComplete, Promoting, Mutating, Critical, AfterClaim, PcLabels,
           Roots, NoProof, Terminal, Advance, Doc, Structural, Promotes, CurrentRoot,
           CoreActive, ProofFile
<1>1. ASSUME NEW r \in Runs, StartExecution(r) PROVE (OneOutcome /\ SuccessMeansComplete)'
  BY <1>1 DEF StartExecution
<1>2. ASSUME NEW r \in Runs, ReceiveSecrets(r) PROVE (OneOutcome /\ SuccessMeansComplete)'
  BY <1>2 DEF ReceiveSecrets
<1>3. ASSUME NEW r \in Runs, SecretsBroken(r) PROVE (OneOutcome /\ SuccessMeansComplete)'
  BY <1>3 DEF SecretsBroken
<1>4. ASSUME NEW r \in Runs, Kill(r) PROVE (OneOutcome /\ SuccessMeansComplete)'
  BY <1>4 DEF Kill
<1>5. ASSUME NEW r \in Runs, OpenRoot(r) PROVE (OneOutcome /\ SuccessMeansComplete)'
  BY <1>5 DEF OpenRoot
<1>6. ASSUME NEW r \in Runs, TakeLock(r) PROVE (OneOutcome /\ SuccessMeansComplete)'
  BY <1>6 DEF TakeLock
<1>7. ASSUME NEW r \in Runs, LockRefused(r) PROVE (OneOutcome /\ SuccessMeansComplete)'
  BY <1>7 DEF LockRefused
<1>8. ASSUME NEW r \in Runs, Claim(r) PROVE (OneOutcome /\ SuccessMeansComplete)'
  BY <1>8 DEF Claim
<1>9. ASSUME NEW r \in Runs, Duplicate(r) PROVE (OneOutcome /\ SuccessMeansComplete)'
  BY <1>9 DEF Duplicate
<1>10. ASSUME NEW r \in Runs, AwaitSecrets(r) PROVE (OneOutcome /\ SuccessMeansComplete)'
  BY <1>10 DEF AwaitSecrets
<1>11. ASSUME NEW r \in Runs, CheckSecrets(r) PROVE (OneOutcome /\ SuccessMeansComplete)'
  BY <1>11 DEF CheckSecrets
<1>12. ASSUME NEW r \in Runs, MaterializeSecrets(r) PROVE (OneOutcome /\ SuccessMeansComplete)'
  BY <1>12 DEF MaterializeSecrets
<1>13. ASSUME NEW r \in Runs, RunStep(r) PROVE (OneOutcome /\ SuccessMeansComplete)'
  BY <1>13 DEF RunStep
<1>14. ASSUME NEW r \in Runs, StepRaises(r) PROVE (OneOutcome /\ SuccessMeansComplete)'
  BY <1>14 DEF StepRaises
<1>15. ASSUME NEW r \in Runs, PostValidate(r) PROVE (OneOutcome /\ SuccessMeansComplete)'
  BY <1>15 DEF PostValidate
<1>16. ASSUME NEW r \in Runs, BeginPromotion(r) PROVE (OneOutcome /\ SuccessMeansComplete)'
  BY <1>16 DEF BeginPromotion
<1>17. ASSUME NEW r \in Runs, CopyBundleAndProof(r) PROVE (OneOutcome /\ SuccessMeansComplete)'
  BY <1>17 DEF CopyBundleAndProof
<1>18. ASSUME NEW r \in Runs, CopyClaim(r) PROVE (OneOutcome /\ SuccessMeansComplete)'
  BY <1>18 DEF CopyClaim
<1>19. ASSUME NEW r \in Runs, ActivateCore(r) PROVE (OneOutcome /\ SuccessMeansComplete)'
  BY <1>19 DEF ActivateCore
<1>20. ASSUME NEW r \in Runs, RedirectProof(r) PROVE (OneOutcome /\ SuccessMeansComplete)'
  BY <1>20 DEF RedirectProof
<1>21. ASSUME NEW r \in Runs, Finish(r) PROVE (OneOutcome /\ SuccessMeansComplete)'
  BY <1>21 DEF Finish
<1>22. ASSUME NEW r \in Runs, Fail(r) PROVE (OneOutcome /\ SuccessMeansComplete)'
  BY <1>22 DEF Fail
<1>23. ASSUME NEW r \in Runs, Exit(r) PROVE (OneOutcome /\ SuccessMeansComplete)'
  BY <1>23 DEF Exit
<1>24. ASSUME NEW o \in Runs, NEW rt \in Roots, ProbeLock(o, rt) PROVE (OneOutcome /\ SuccessMeansComplete)'
  BY <1>24 DEF ProbeLock
<1>25. ASSUME NEW o \in Runs, NEW rt \in Roots, ProbeRelease(o, rt) PROVE (OneOutcome /\ SuccessMeansComplete)'
  BY <1>25 DEF ProbeRelease
<1>26. ASSUME NEW b \in Bundles, UploadExecution(b) PROVE (OneOutcome /\ SuccessMeansComplete)'
  BY <1>26 DEF UploadExecution
<1>27. CASE UNCHANGED vars
  BY <1>27 DEF vars
<1>28. QED
  BY <1>1, <1>2, <1>3, <1>4, <1>5, <1>6, <1>7, <1>8, <1>9, <1>10, <1>11, <1>12, <1>13,
     <1>14, <1>15, <1>16, <1>17, <1>18, <1>19, <1>20, <1>21, <1>22, <1>23, <1>24,
     <1>25, <1>26, <1>27 DEF Next, Environment, RunnerStep

\* Only a runner whose last write raised rewrites a terminal proof: the other
\* processes that still write have none.
LEMMA StableStep ==
  ASSUME TypeOK, RootInv, ProofInv, [Next]_vars
  PROVE  SettlesTerminalProofs
<1> USE DEF TypeOK, RootInv, ProofInv, SettlesTerminalProofs, Roots, Critical, AfterClaim,
           PcLabels, Terminal, NoProof, Doc, Advance, Promotes, ProofFile, CurrentRoot,
           UnitRunning
<1>1. ASSUME NEW r \in Runs, StartExecution(r) PROVE SettlesTerminalProofs
  BY <1>1 DEF StartExecution
<1>2. ASSUME NEW r \in Runs, ReceiveSecrets(r) PROVE SettlesTerminalProofs
  BY <1>2 DEF ReceiveSecrets
<1>3. ASSUME NEW r \in Runs, SecretsBroken(r) PROVE SettlesTerminalProofs
  BY <1>3 DEF SecretsBroken
<1>4. ASSUME NEW r \in Runs, Kill(r) PROVE SettlesTerminalProofs
  BY <1>4 DEF Kill
<1>5. ASSUME NEW r \in Runs, OpenRoot(r) PROVE SettlesTerminalProofs
  BY <1>5 DEF OpenRoot
<1>6. ASSUME NEW r \in Runs, TakeLock(r) PROVE SettlesTerminalProofs
  BY <1>6 DEF TakeLock
<1>7. ASSUME NEW r \in Runs, LockRefused(r) PROVE SettlesTerminalProofs
  BY <1>7 DEF LockRefused
<1>8. ASSUME NEW r \in Runs, Claim(r) PROVE SettlesTerminalProofs
  BY <1>8 DEF Claim
<1>9. ASSUME NEW r \in Runs, Duplicate(r) PROVE SettlesTerminalProofs
  BY <1>9 DEF Duplicate
<1>10. ASSUME NEW r \in Runs, AwaitSecrets(r) PROVE SettlesTerminalProofs
  BY <1>10 DEF AwaitSecrets
<1>11. ASSUME NEW r \in Runs, CheckSecrets(r) PROVE SettlesTerminalProofs
  BY <1>11 DEF CheckSecrets
<1>12. ASSUME NEW r \in Runs, MaterializeSecrets(r) PROVE SettlesTerminalProofs
  BY <1>12 DEF MaterializeSecrets
<1>13. ASSUME NEW r \in Runs, RunStep(r) PROVE SettlesTerminalProofs
  BY <1>13 DEF RunStep
<1>14. ASSUME NEW r \in Runs, StepRaises(r) PROVE SettlesTerminalProofs
  BY <1>14 DEF StepRaises
<1>15. ASSUME NEW r \in Runs, PostValidate(r) PROVE SettlesTerminalProofs
  BY <1>15 DEF PostValidate
<1>16. ASSUME NEW r \in Runs, BeginPromotion(r) PROVE SettlesTerminalProofs
  BY <1>16 DEF BeginPromotion
<1>17. ASSUME NEW r \in Runs, CopyBundleAndProof(r) PROVE SettlesTerminalProofs
  BY <1>17 DEF CopyBundleAndProof
<1>18. ASSUME NEW r \in Runs, CopyClaim(r) PROVE SettlesTerminalProofs
  BY <1>18 DEF CopyClaim
<1>19. ASSUME NEW r \in Runs, ActivateCore(r) PROVE SettlesTerminalProofs
  BY <1>19 DEF ActivateCore
<1>20. ASSUME NEW r \in Runs, RedirectProof(r) PROVE SettlesTerminalProofs
  BY <1>20 DEF RedirectProof
<1>21. ASSUME NEW r \in Runs, Finish(r) PROVE SettlesTerminalProofs
  BY <1>21 DEF Finish
<1>22. ASSUME NEW r \in Runs, Fail(r) PROVE SettlesTerminalProofs
  BY <1>22 DEF Fail
<1>23. ASSUME NEW r \in Runs, Exit(r) PROVE SettlesTerminalProofs
  BY <1>23 DEF Exit
<1>24. ASSUME NEW o \in Runs, NEW rt \in Roots, ProbeLock(o, rt) PROVE SettlesTerminalProofs
  BY <1>24 DEF ProbeLock
<1>25. ASSUME NEW o \in Runs, NEW rt \in Roots, ProbeRelease(o, rt) PROVE SettlesTerminalProofs
  BY <1>25 DEF ProbeRelease
<1>26. ASSUME NEW b \in Bundles, UploadExecution(b) PROVE SettlesTerminalProofs
  BY <1>26 DEF UploadExecution
<1>27. CASE UNCHANGED vars
  BY <1>27 DEF vars
<1>28. QED
  BY <1>1, <1>2, <1>3, <1>4, <1>5, <1>6, <1>7, <1>8, <1>9, <1>10, <1>11, <1>12, <1>13,
     <1>14, <1>15, <1>16, <1>17, <1>18, <1>19, <1>20, <1>21, <1>22, <1>23, <1>24,
     <1>25, <1>26, <1>27 DEF Next, Environment, RunnerStep

\* The initial state satisfies every part of the invariant.
LEMMA InitInd == Init => IndInv
<1> SUFFICES ASSUME Init PROVE IndInv
  OBVIOUS
<1>1. TypeOK
  BY StepCountNat DEF Init, TypeOK, Roots, PcLabels, ProofDocs, Phases, Statuses,
                      NoProof
<1>2. RootInv /\ LockInv /\ ClaimInv
  BY DEF Init, RootInv, LockInv, ClaimInv, Claimed, Roots, Critical, AfterClaim,
         PcLabels, NoProof
<1>3. PromotionInv /\ ProofInv
  BY DEF Init, PromotionInv, ProofInv, Promoting, Mutating, CoreActive, Roots,
         Critical, AfterClaim, PcLabels, NoProof, Terminal, Written
<1>4. OneOutcome /\ SuccessMeansComplete
  BY DEF Init, OneOutcome, SuccessMeansComplete, Roots, NoProof, Terminal
<1> QED
  BY <1>1, <1>2, <1>3, <1>4 DEF IndInv

\* Every step on the target preserves the invariant.
LEMMA IndStep ==
  ASSUME IndInv, [Next]_vars
  PROVE  IndInv'
BY TypeStep, RootStep, LockStep, ClaimStep, PromotionStep, ProofStep, OutcomeStep
   DEF IndInv

\* IndInv holds in every reachable state, whatever runners are started, killed
\* or left waiting on the target.
THEOREM Inductive == Spec => []IndInv
<1>1. IndInv /\ [Next]_vars => IndInv'
  BY IndStep
<1> QED
  BY <1>1, InitInd, PTL DEF Spec

-----------------------------------------------------------------------------
\* The variables of the target keep their types.
THEOREM TypeCorrect == Spec => []TypeOK
<1>1. IndInv => TypeOK
  BY DEF IndInv
<1> QED
  BY <1>1, Inductive, PTL

\* The structural lock excludes: on one root a structural runner in the locked
\* section is alone there.
THEOREM LockExcludes == Spec => []LockExclusion
<1>1. IndInv => LockExclusion
  <2> SUFFICES ASSUME IndInv, NEW r \in Runs, pc[r] \in Critical
               PROVE  r \in holders[root[r]]
                      /\ (Structural(r) => holders[root[r]] = {r})
    BY DEF LockExclusion
  <2>1. root[r] \in Roots /\ holders[root[r]] \subseteq Runs
    BY DEF IndInv, TypeOK, RootInv, Critical, PcLabels, Roots
  <2>2. r \in holders[root[r]]
    BY <2>1 DEF IndInv, LockInv
  <2>3. ASSUME Structural(r), NEW s \in holders[root[r]] PROVE s = r
    BY <2>1, <2>2, <2>3 DEF IndInv, LockInv
  <2> QED
    BY <2>2, <2>3
<1> QED
  BY <1>1, Inductive, PTL

\* A structural bundle is applied at most once under one history root, for any
\* number of runs, interruptions and retries: the claim survives its run.
THEOREM AppliedAtMostOncePerRoot == Spec => []AtMostOncePerRoot
<1>1. IndInv => AtMostOncePerRoot
  BY DEF IndInv, TypeOK, RootInv, ClaimInv, Claimed, AtMostOncePerRoot
<1> QED
  BY <1>1, Inductive, PTL

\* The bundle whose run established the Core history is applied by no other run,
\* although its claim was made under the other root.
THEOREM PromotedBundleIsNeverReplayed == Spec => []PromotedNeverReplayed
<1>1. IndInv => PromotedNeverReplayed
  <2> SUFFICES ASSUME IndInv, CoreActive, Structural(activator),
                      NEW r \in productive, bundleOf[r] = bundleOf[activator]
               PROVE  r = activator
    BY DEF PromotedNeverReplayed
  <2>1. activator \in Runs /\ r \in Runs /\ Claimed(r) /\ Claimed(activator)
    BY DEF IndInv, TypeOK, RootInv, PromotionInv, Claimed, CoreActive
  <2>2. root[r] = root[activator]
    BY <2>1 DEF IndInv, TypeOK, RootInv, PromotionInv, Roots
  <2> QED
    BY <2>1, <2>2 DEF IndInv, ClaimInv
<1> QED
  BY <1>1, Inductive, PTL

\* Whoever sees the marker sees a complete first Core history.
THEOREM PromotionIsComplete == Spec => []PromotionComplete
<1>1. IndInv => PromotionComplete
  BY DEF IndInv, PromotionInv, PromotionComplete
<1> QED
  BY <1>1, Inductive, PTL

\* A run never has two terminal proofs that differ.
THEOREM OutcomesAreUnique == Spec => []OneOutcome
<1>1. IndInv => OneOutcome
  BY DEF IndInv, ProofInv
<1> QED
  BY <1>1, Inductive, PTL

\* A success proof is earned: claim, steps and validation came before it.
THEOREM SuccessIsEarned == Spec => []SuccessMeansComplete
<1>1. IndInv => SuccessMeansComplete
  BY DEF IndInv, ProofInv
<1> QED
  BY <1>1, Inductive, PTL

\* A run that was refused changed nothing.
THEOREM RefusedRunsChangeNothing == Spec => []RejectedNeverMutates
<1>1. IndInv => RejectedNeverMutates
  BY DEF IndInv, ProofInv, RejectedNeverMutates
<1> QED
  BY <1>1, Inductive, PTL

\* A terminal proof settles: its own live runner may replace it by the failure
\* its write raised, and nothing on the target changes it otherwise.
THEOREM TerminalProofsSettle == Spec => TerminalProofSettles
<1>1. IndInv /\ [Next]_vars => [SettlesTerminalProofs]_vars
  BY StableStep DEF IndInv
<1> QED
  BY <1>1, Inductive, PTL DEF Spec, TerminalProofSettles
=============================================================================
