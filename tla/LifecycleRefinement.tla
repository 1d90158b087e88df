------------------------ MODULE LifecycleRefinement ------------------------
(***************************************************************************)
(* TargetRunner implements RunLifecycle: every step of a runner, of the    *)
(* SSH adapter or of a fault is a step of the abstract life of one run, or *)
(* changes nothing that RunLifecycle can see.                              *)
(***************************************************************************)
EXTENDS TargetRunnerProofs

\* The outcome of a run depends on its own process and proofs only.
LEMMA OutcomeLocal ==
  ASSUME NEW s \in Runs, pc'[s] = pc[s],
         \A rt \in Roots : proofs'[rt][s] = proofs[rt][s]
  PROVE  Outcome(s)' = Outcome(s)
BY DEF Outcome, Written, UnitRunning, Roots

\* A step of r that neither ends nor revives its process ends no run.
LEMMA EndedLocal ==
  ASSUME NEW r \in Runs, \A s \in Runs \ {r} : pc'[s] = pc[s],
         pc[r] \notin {"done", "dead"}, pc'[r] \notin {"done", "dead"}
  PROVE  Ended' = Ended
BY DEF Ended

\* A step that takes r's process away ends that run and no other.
LEMMA EndedGrows ==
  ASSUME NEW r \in Runs, \A s \in Runs \ {r} : pc'[s] = pc[s],
         pc'[r] \in {"done", "dead"}
  PROVE  Ended' = Ended \cup {r}
BY DEF Ended

\* Every initial state of the target is one of the abstract specification.
LEMMA RefineInit == Init => Lifecycle!Init
BY DEF Init, Lifecycle!Init, Outcome, Written, UnitRunning, Roots, NoProof, Ended

\* The transient unit starts: the abstract run starts.
LEMMA RefineStart ==
  ASSUME IndInv, NEW r \in Runs, StartExecution(r)
  PROVE  Lifecycle!Start(r)
<1>1. Outcome(r) = "absent" /\ Outcome(r)' = "running"
  BY DEF StartExecution, Outcome, Written, UnitRunning, IndInv, TypeOK, RootInv,
         NoProof, Roots
<1>2. \A s \in Runs \ {r} : Outcome(s)' = Outcome(s)
  BY OutcomeLocal DEF StartExecution, IndInv, TypeOK
<1>3. Ended' = Ended
  BY EndedLocal DEF StartExecution, IndInv, TypeOK
<1> QED
  BY <1>1, <1>2, <1>3 DEF Lifecycle!Start, StartExecution

\* The runner chooses its root: the abstract run settles.
LEMMA RefineSettle ==
  ASSUME IndInv, NEW r \in Runs, OpenRoot(r)
  PROVE  Lifecycle!Settle(r)
<1>1. Outcome(r) = "running" /\ Outcome(r)' = "running"
  BY DEF OpenRoot, Outcome, Written, UnitRunning, IndInv, TypeOK, RootInv, NoProof,
         Roots, CurrentRoot, Doc
<1>2. \A s \in Runs \ {r} : Outcome(s)' = Outcome(s)
  BY OutcomeLocal DEF OpenRoot, IndInv, TypeOK, CurrentRoot, Roots
<1>3. root[r] = "none" /\ CurrentRoot \in Roots
  BY DEF OpenRoot, IndInv, RootInv, CurrentRoot, Roots
<1>4. [s \in Runs |-> Outcome(s)]' = [s \in Runs |-> Outcome(s)]
  BY <1>1, <1>2
<1>5. Ended' = Ended
  BY EndedLocal DEF OpenRoot, IndInv, TypeOK
<1> QED
  BY <1>1, <1>3, <1>4, <1>5 DEF Lifecycle!Settle, OpenRoot

\* A structural run begins to write: no other run of its bundle has mutated from
\* the same root, because it owns the claim.  A validation changes nothing.
LEMMA RefineMutate ==
  ASSUME IndInv, NEW r \in Runs, CheckSecrets(r)
  PROVE  Lifecycle!Mutate(r) \/ UNCHANGED Lifecycle!vars
<1>1. \A s \in Runs : Outcome(s)' = Outcome(s)
  BY DEF CheckSecrets, Outcome, Written, UnitRunning, IndInv, TypeOK, PcLabels
<1>2. [s \in Runs |-> Outcome(s)]' = [s \in Runs |-> Outcome(s)]
  BY <1>1
<1>3. Ended' = Ended
  BY EndedLocal DEF CheckSecrets, IndInv, TypeOK
<1>4. CASE Structural(r)
  <2>1. Outcome(r) = "running" /\ root[r] # "none"
    BY DEF CheckSecrets, Outcome, Written, UnitRunning, IndInv, TypeOK, RootInv,
           ProofInv, Terminal, Critical, AfterClaim, PcLabels
  <2>2. \A s \in productive :
          s = r \/ root[s] # root[r] \/ bundleOf[s] # bundleOf[r]
    BY <1>4 DEF CheckSecrets, IndInv, TypeOK, RootInv, ClaimInv, Claimed, Critical,
                AfterClaim, PcLabels
  <2>3. productive' = productive \cup {r}
    BY <1>4 DEF CheckSecrets
  <2> QED
    BY <1>2, <1>3, <2>1, <2>2, <2>3 DEF Lifecycle!Mutate, CheckSecrets
<1>5. CASE ~Structural(r)
  BY <1>2, <1>5, <1>3 DEF Lifecycle!vars, CheckSecrets
<1> QED
  BY <1>4, <1>5

\* What a step has to do to the outcome of r to be the showing of it.
LEMMA ShownOutcome ==
  ASSUME NEW r \in Runs, Outcome(r) = "running", Outcome(r)' \in {"success", "failed"},
         \A s \in Runs \ {r} : Outcome(s)' = Outcome(s),
         UNCHANGED <<bundleOf, root, productive, Ended>>
  PROVE  Lifecycle!Show(r)
BY DEF Lifecycle!Show

\* The first terminal proof of a run shows its outcome.
LEMMA RefineShow ==
  ASSUME IndInv, NEW r \in Runs,
         \/ LockRefused(r) \/ Duplicate(r) \/ SecretsBroken(r)
         \/ StepRaises(r) \/ Finish(r)
         \/ Fail(r) /\ pc[r] \notin {"duplicate", "finished"}
  PROVE  Lifecycle!Show(r)
<1> USE DEF IndInv, TypeOK, RootInv, PromotionInv, ProofInv, Promoting, Critical,
            AfterClaim, PcLabels, Advance, Promotes, ProofFile, Roots
<1>1. CASE LockRefused(r)
  <2>1. Outcome(r) = "running" /\ Outcome(r)' \in {"success", "failed"}
    BY <1>1 DEF LockRefused, Outcome, Written, UnitRunning, Terminal, Doc
  <2>2. \A s \in Runs \ {r} : Outcome(s)' = Outcome(s)
    BY <1>1, OutcomeLocal DEF LockRefused
  <2>3. Ended' = Ended
    BY <1>1, EndedLocal DEF LockRefused
  <2> QED
    BY <1>1, <2>1, <2>2, <2>3, ShownOutcome DEF LockRefused
<1>2. CASE Duplicate(r)
  <2>1. Outcome(r) = "running" /\ Outcome(r)' \in {"success", "failed"}
    BY <1>2 DEF Duplicate, Outcome, Written, UnitRunning, Terminal, Doc
  <2>2. \A s \in Runs \ {r} : Outcome(s)' = Outcome(s)
    BY <1>2, OutcomeLocal DEF Duplicate
  <2>3. Ended' = Ended
    BY <1>2, EndedLocal DEF Duplicate
  <2> QED
    BY <1>2, <2>1, <2>2, <2>3, ShownOutcome DEF Duplicate
<1>3. CASE SecretsBroken(r)
  <2>1. Outcome(r) = "running" /\ Outcome(r)' \in {"success", "failed"}
    BY <1>3 DEF SecretsBroken, Outcome, Written, UnitRunning, Terminal, Doc
  <2>2. \A s \in Runs \ {r} : Outcome(s)' = Outcome(s)
    BY <1>3, OutcomeLocal DEF SecretsBroken
  <2>3. Ended' = Ended
    BY <1>3, EndedLocal DEF SecretsBroken
  <2> QED
    BY <1>3, <2>1, <2>2, <2>3, ShownOutcome DEF SecretsBroken
<1>4. CASE StepRaises(r)
  <2>1. Outcome(r) = "running" /\ Outcome(r)' \in {"success", "failed"}
    BY <1>4 DEF StepRaises, Outcome, Written, UnitRunning, Terminal, Doc
  <2>2. \A s \in Runs \ {r} : Outcome(s)' = Outcome(s)
    BY <1>4, OutcomeLocal DEF StepRaises
  <2>3. Ended' = Ended
    BY <1>4, EndedLocal DEF StepRaises
  <2> QED
    BY <1>4, <2>1, <2>2, <2>3, ShownOutcome DEF StepRaises
<1>5. CASE Finish(r)
  <2>1. Outcome(r) = "running" /\ Outcome(r)' \in {"success", "failed"}
    BY <1>5 DEF Finish, Outcome, Written, UnitRunning, Terminal, Doc
  <2>2. \A s \in Runs \ {r} : Outcome(s)' = Outcome(s)
    BY <1>5, OutcomeLocal DEF Finish
  <2>3. Ended' = Ended
    BY <1>5, EndedLocal DEF Finish
  <2> QED
    BY <1>5, <2>1, <2>2, <2>3, ShownOutcome DEF Finish
<1>6. CASE Fail(r) /\ pc[r] \notin {"duplicate", "finished"}
  <2>1. Outcome(r) = "running" /\ Outcome(r)' \in {"success", "failed"}
    BY <1>6 DEF Fail, Outcome, Written, UnitRunning, Terminal, Doc
  <2>2. \A s \in Runs \ {r} : Outcome(s)' = Outcome(s)
    BY <1>6, OutcomeLocal DEF Fail
  <2>3. Ended' = Ended
    BY <1>6, EndedLocal DEF Fail
  <2> QED
    BY <1>6, <2>1, <2>2, <2>3, ShownOutcome DEF Fail
<1> QED
  BY <1>1, <1>2, <1>3, <1>4, <1>5, <1>6

\* When the write of the success proof raises, the run takes its outcome back;
\* a duplicate stays failed.
LEMMA RefineRetract ==
  ASSUME IndInv, NEW r \in Runs, Fail(r), pc[r] \in {"duplicate", "finished"}
  PROVE  Lifecycle!Retract(r) \/ UNCHANGED Lifecycle!vars
<1> USE DEF IndInv, TypeOK, RootInv, ProofInv, PcLabels, Critical, Advance, Roots
<1>1. \A s \in Runs \ {r} : Outcome(s)' = Outcome(s)
  BY OutcomeLocal DEF Fail
<1>2. Ended' = Ended /\ r \notin Ended
  BY EndedLocal DEF Fail, Ended
<1>3. Outcome(r) \in {"success", "failed"}
  BY DEF Outcome, Written, Terminal
<1>4. ProofFile(r) \in Roots /\ proofs'[ProofFile(r)][r] = Doc("failed", "failed", step[r])
  BY DEF Fail, ProofFile, Promotes
<1>5. \A rt \in Roots \ {ProofFile(r)} : ~Terminal(proofs[rt][r]) /\ proofs'[rt][r] = proofs[rt][r]
  BY DEF Fail
<1>6. Outcome(r)' = "failed"
  BY <1>4, <1>5 DEF Outcome, Written, Terminal, Doc
<1>7. CASE Outcome(r) = "success"
  BY <1>1, <1>2, <1>6, <1>7 DEF Lifecycle!Retract, Fail
<1>8. CASE Outcome(r) = "failed"
  <2>1. [s \in Runs |-> Outcome(s)]' = [s \in Runs |-> Outcome(s)]
    BY <1>1, <1>6, <1>8
  <2> QED
    BY <1>2, <2>1 DEF Lifecycle!vars, Fail
<1> QED
  BY <1>3, <1>7, <1>8

\* The process ends behind its terminal proof: the run leaves with that outcome.
LEMMA RefineExit ==
  ASSUME IndInv, NEW r \in Runs, Exit(r)
  PROVE  Lifecycle!Leave(r)
<1> USE DEF IndInv, TypeOK, ProofInv, PcLabels
<1>1. \A s \in Runs \ {r} : Outcome(s)' = Outcome(s)
  BY OutcomeLocal DEF Exit
<1>2. Ended' = Ended \cup {r}
  BY EndedGrows DEF Exit
<1>3. Outcome(r) \in {"success", "failed"} /\ Outcome(r)' = Outcome(r)
  BY DEF Exit, Outcome, Written, Terminal
<1>4. [s \in Runs |-> Outcome(s)]' = [s \in Runs |-> Outcome(s)]
  BY <1>1, <1>3
<1> QED
  BY <1>2, <1>3, <1>4 DEF Exit, Lifecycle!Leave

\* A killed process leaves its run interrupted, unless the terminal proof was
\* already visible.
LEMMA RefineKill ==
  ASSUME IndInv, NEW r \in Runs, Kill(r)
  PROVE  Lifecycle!Leave(r) \/ Lifecycle!Interrupt(r)
<1>1. \A s \in Runs \ {r} : Outcome(s)' = Outcome(s)
  BY OutcomeLocal DEF Kill, IndInv, TypeOK
<1>2. Ended' = Ended \cup {r}
  BY EndedGrows DEF Kill, IndInv, TypeOK
<1>3. CASE Written(r, "success") \/ Written(r, "failed")
  <2>1. Outcome(r) \in {"success", "failed"} /\ Outcome(r)' = Outcome(r)
    BY <1>3 DEF Kill, Outcome, Written
  <2>2. [s \in Runs |-> Outcome(s)]' = [s \in Runs |-> Outcome(s)]
    BY <1>1, <2>1
  <2> QED
    BY <1>2, <2>1, <2>2 DEF Kill, Lifecycle!Leave
<1>4. CASE ~Written(r, "success") /\ ~Written(r, "failed")
  <2>1. Outcome(r) = "running" /\ Outcome(r)' = "interrupted"
    BY <1>4 DEF Kill, Outcome, Written, UnitRunning, IndInv, TypeOK
  <2> QED
    BY <1>1, <1>2, <2>1 DEF Kill, Lifecycle!Interrupt
<1> QED
  BY <1>3, <1>4

\* Everything else a runner does is invisible: locks, claims, running proofs and
\* the promotion of the history.
LEMMA RefineStutter ==
  ASSUME IndInv, NEW r \in Runs,
         \/ ReceiveSecrets(r) \/ TakeLock(r) \/ Claim(r) \/ AwaitSecrets(r)
         \/ MaterializeSecrets(r) \/ RunStep(r) \/ PostValidate(r) \/ BeginPromotion(r)
         \/ CopyBundleAndProof(r) \/ CopyClaim(r) \/ ActivateCore(r) \/ RedirectProof(r)
  PROVE  UNCHANGED Lifecycle!vars
<1> USE DEF IndInv, TypeOK, RootInv, PromotionInv, ProofInv, Promoting, Critical,
            AfterClaim, PcLabels, Advance, Promotes, ProofFile, Roots
<1>1. ASSUME \A s \in Runs : Outcome(s)' = Outcome(s)
      PROVE  [s \in Runs |-> Outcome(s)]' = [s \in Runs |-> Outcome(s)]
  BY <1>1
<1>2. CASE ReceiveSecrets(r)
  <2>1. \A s \in Runs \ {r} : Outcome(s)' = Outcome(s)
    BY <1>2, OutcomeLocal DEF ReceiveSecrets
  <2>2. Outcome(r)' = Outcome(r)
    BY <1>2 DEF ReceiveSecrets, Outcome, Written, UnitRunning, Terminal, Doc
  <2>3. Ended' = Ended
    BY <1>2, EndedLocal DEF ReceiveSecrets
  <2> QED
    BY <1>1, <1>2, <2>1, <2>2, <2>3 DEF ReceiveSecrets, Lifecycle!vars
<1>3. CASE TakeLock(r)
  <2>1. \A s \in Runs \ {r} : Outcome(s)' = Outcome(s)
    BY <1>3, OutcomeLocal DEF TakeLock
  <2>2. Outcome(r)' = Outcome(r)
    BY <1>3 DEF TakeLock, Outcome, Written, UnitRunning, Terminal, Doc
  <2>3. Ended' = Ended
    BY <1>3, EndedLocal DEF TakeLock
  <2> QED
    BY <1>1, <1>3, <2>1, <2>2, <2>3 DEF TakeLock, Lifecycle!vars
<1>4. CASE Claim(r)
  <2>1. \A s \in Runs \ {r} : Outcome(s)' = Outcome(s)
    BY <1>4, OutcomeLocal DEF Claim
  <2>2. Outcome(r)' = Outcome(r)
    BY <1>4 DEF Claim, Outcome, Written, UnitRunning, Terminal, Doc
  <2>3. Ended' = Ended
    BY <1>4, EndedLocal DEF Claim
  <2> QED
    BY <1>1, <1>4, <2>1, <2>2, <2>3 DEF Claim, Lifecycle!vars
<1>5. CASE AwaitSecrets(r)
  <2>1. \A s \in Runs \ {r} : Outcome(s)' = Outcome(s)
    BY <1>5, OutcomeLocal DEF AwaitSecrets
  <2>2. Outcome(r)' = Outcome(r)
    BY <1>5 DEF AwaitSecrets, Outcome, Written, UnitRunning, Terminal, Doc
  <2>3. Ended' = Ended
    BY <1>5, EndedLocal DEF AwaitSecrets
  <2> QED
    BY <1>1, <1>5, <2>1, <2>2, <2>3 DEF AwaitSecrets, Lifecycle!vars
<1>6. CASE MaterializeSecrets(r)
  <2>1. \A s \in Runs \ {r} : Outcome(s)' = Outcome(s)
    BY <1>6, OutcomeLocal DEF MaterializeSecrets
  <2>2. Outcome(r)' = Outcome(r)
    BY <1>6 DEF MaterializeSecrets, Outcome, Written, UnitRunning, Terminal, Doc
  <2>3. Ended' = Ended
    BY <1>6, EndedLocal DEF MaterializeSecrets
  <2> QED
    BY <1>1, <1>6, <2>1, <2>2, <2>3 DEF MaterializeSecrets, Lifecycle!vars
<1>7. CASE RunStep(r)
  <2>1. \A s \in Runs \ {r} : Outcome(s)' = Outcome(s)
    BY <1>7, OutcomeLocal DEF RunStep
  <2>2. Outcome(r)' = Outcome(r)
    BY <1>7 DEF RunStep, Outcome, Written, UnitRunning, Terminal, Doc
  <2>3. Ended' = Ended
    BY <1>7, EndedLocal DEF RunStep
  <2> QED
    BY <1>1, <1>7, <2>1, <2>2, <2>3 DEF RunStep, Lifecycle!vars
<1>8. CASE PostValidate(r)
  <2>1. \A s \in Runs \ {r} : Outcome(s)' = Outcome(s)
    BY <1>8, OutcomeLocal DEF PostValidate
  <2>2. Outcome(r)' = Outcome(r)
    BY <1>8 DEF PostValidate, Outcome, Written, UnitRunning, Terminal, Doc
  <2>3. Ended' = Ended
    BY <1>8, EndedLocal DEF PostValidate
  <2> QED
    BY <1>1, <1>8, <2>1, <2>2, <2>3 DEF PostValidate, Lifecycle!vars
<1>9. CASE BeginPromotion(r)
  <2>1. \A s \in Runs \ {r} : Outcome(s)' = Outcome(s)
    BY <1>9, OutcomeLocal DEF BeginPromotion
  <2>2. Outcome(r)' = Outcome(r)
    BY <1>9 DEF BeginPromotion, Outcome, Written, UnitRunning, Terminal, Doc
  <2>3. Ended' = Ended
    BY <1>9, EndedLocal DEF BeginPromotion
  <2> QED
    BY <1>1, <1>9, <2>1, <2>2, <2>3 DEF BeginPromotion, Lifecycle!vars
<1>10. CASE CopyBundleAndProof(r)
  <2>1. \A s \in Runs \ {r} : Outcome(s)' = Outcome(s)
    BY <1>10, OutcomeLocal DEF CopyBundleAndProof
  <2>2. Outcome(r)' = Outcome(r)
    BY <1>10 DEF CopyBundleAndProof, Outcome, Written, UnitRunning, Terminal, Doc
  <2>3. Ended' = Ended
    BY <1>10, EndedLocal DEF CopyBundleAndProof
  <2> QED
    BY <1>1, <1>10, <2>1, <2>2, <2>3 DEF CopyBundleAndProof, Lifecycle!vars
<1>11. CASE CopyClaim(r)
  <2>1. \A s \in Runs \ {r} : Outcome(s)' = Outcome(s)
    BY <1>11, OutcomeLocal DEF CopyClaim
  <2>2. Outcome(r)' = Outcome(r)
    BY <1>11 DEF CopyClaim, Outcome, Written, UnitRunning, Terminal, Doc
  <2>3. Ended' = Ended
    BY <1>11, EndedLocal DEF CopyClaim
  <2> QED
    BY <1>1, <1>11, <2>1, <2>2, <2>3 DEF CopyClaim, Lifecycle!vars
<1>12. CASE ActivateCore(r)
  <2>1. \A s \in Runs \ {r} : Outcome(s)' = Outcome(s)
    BY <1>12, OutcomeLocal DEF ActivateCore
  <2>2. Outcome(r)' = Outcome(r)
    BY <1>12 DEF ActivateCore, Outcome, Written, UnitRunning, Terminal, Doc
  <2>3. Ended' = Ended
    BY <1>12, EndedLocal DEF ActivateCore
  <2> QED
    BY <1>1, <1>12, <2>1, <2>2, <2>3 DEF ActivateCore, Lifecycle!vars
<1>13. CASE RedirectProof(r)
  <2>1. \A s \in Runs \ {r} : Outcome(s)' = Outcome(s)
    BY <1>13, OutcomeLocal DEF RedirectProof
  <2>2. Outcome(r)' = Outcome(r)
    BY <1>13 DEF RedirectProof, Outcome, Written, UnitRunning, Terminal, Doc
  <2>3. Ended' = Ended
    BY <1>13, EndedLocal DEF RedirectProof
  <2> QED
    BY <1>1, <1>13, <2>1, <2>2, <2>3 DEF RedirectProof, Lifecycle!vars
<1> QED
  BY <1>2, <1>3, <1>4, <1>5, <1>6, <1>7, <1>8, <1>9, <1>10, <1>11, <1>12, <1>13

\* Uploads and lock probes are invisible too.
LEMMA RefineIdle ==
  ASSUME \/ \E b \in Bundles : UploadExecution(b)
         \/ \E o \in Runs, rt \in Roots : ProbeLock(o, rt) \/ ProbeRelease(o, rt)
         \/ UNCHANGED vars
  PROVE  UNCHANGED Lifecycle!vars
<1>1. UNCHANGED <<bundleOf, root, productive, pc, proofs>>
  BY DEF UploadExecution, ProbeLock, ProbeRelease, vars
<1>2. [s \in Runs |-> Outcome(s)]' = [s \in Runs |-> Outcome(s)]
  BY <1>1 DEF Outcome, Written, UnitRunning
<1>3. Ended' = Ended
  BY <1>1 DEF Ended
<1> QED
  BY <1>1, <1>2, <1>3 DEF Lifecycle!vars

\* The runner protocol implements the abstract life of its runs: started once,
\* settled in one root, mutating at most once per root and bundle and only while
\* running, showing one outcome that is final once the run has left.
THEOREM TargetImplementsLifecycle == Spec => ImplementsLifecycle
<1>1. IndInv /\ [Next]_vars => [Lifecycle!Next]_(Lifecycle!vars)
  <2> SUFFICES ASSUME IndInv, [Next]_vars
               PROVE  Lifecycle!Next \/ UNCHANGED Lifecycle!vars
    OBVIOUS
  <2>1. ASSUME NEW r \in Runs,
               RunnerStep(r) \/ StartExecution(r) \/ ReceiveSecrets(r)
                 \/ SecretsBroken(r) \/ Kill(r)
        PROVE  Lifecycle!Next \/ UNCHANGED Lifecycle!vars
    BY <2>1, RefineStart, RefineSettle, RefineMutate, RefineShow, RefineRetract,
       RefineExit, RefineKill, RefineStutter DEF RunnerStep, Lifecycle!Next
  <2> QED
    BY <2>1, RefineIdle DEF Next, Environment
<1> QED
  BY <1>1, RefineInit, Inductive, PTL DEF Spec, ImplementsLifecycle, Lifecycle!Spec
=============================================================================
