---------------------------- MODULE MCExecution ----------------------------
(***************************************************************************)
(* Small instances of Execution for TLC: one run with its calls, beside    *)
(* runs of which only the effects on the target and on the local history   *)
(* are seen.  Whatever the calls for such a run do to the others is one of *)
(* the steps below, in any order, so these calls need no state of their    *)
(* own.                                                                    *)
(***************************************************************************)
EXTENDS Execution, TLC

CONSTANT Others  \* the runs whose calls are not followed

OtherStep(o) ==
    /\ \/ UploadExecution(bundleOf[o]) \/ StartExecution(o) \/ ReceiveSecrets(o)
       \/ SecretsBroken(o) \/ RunnerStep(o) \/ Kill(o)
    /\ UNCHANGED clientVars

AmongNext ==
    \/ \E r \in Runs \ Others : ExecStep(r)
    \/ \E o \in Others : OtherStep(o)

-----------------------------------------------------------------------------
(* Safety: the other calls also probe the locks and register their bundle. *)

OtherProbe(o) ==
    \/ \E rt \in Roots : ProbeLock(o, rt) /\ UNCHANGED clientVars
    \/ ObserveUnlock(o)

OtherRegistration(o) ==
    /\ regBundles' = regBundles \cup {bundleOf[o]}
    /\ UNCHANGED <<vars, callVars, startMsg, records>>

AmongCallsNext ==
    AmongNext \/ \E o \in Others : OtherProbe(o) \/ OtherRegistration(o)

AmongCalls == ExecInit /\ [][AmongCallsNext]_allVars

-----------------------------------------------------------------------------
(* Progress, beside runners alone.                                         *)

\* The others apply Core bundles.
AmongInit == ExecInit /\ \A o \in Others : bundleOf[o] \in CoreBundles

\* Of the others' runs only the process is assumed to go on: nobody has to start
\* one or to send it its secrets.
AmongOthers ==
    /\ AmongInit
    /\ [][AmongNext]_allVars
    /\ \A r \in Runs \ Others : CallFairness(r)
    /\ \A r \in Runs : ProcessFairness(r)
=============================================================================
