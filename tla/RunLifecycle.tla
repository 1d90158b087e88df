---------------------------- MODULE RunLifecycle ----------------------------
(***************************************************************************)
(* What the execution protocol promises about its runs, without locks,     *)
(* claims, proofs or processes: a run starts once, settles in one place,   *)
(* mutates only while it runs and only if no other run of its bundle has   *)
(* mutated from that place, and shows an outcome.  A run that has not left *)
(* yet may take its success back; an outcome is final once it has left.    *)
(***************************************************************************)
CONSTANTS Runs, Bundles, Places

VARIABLES
    bundleOf,  \* the bundle of each run
    place,     \* where a run keeps its history ("none": not settled)
    outcome,   \* the life of each run
    ended,     \* the runs that have left the target
    mutated    \* the runs that changed the target

vars == <<bundleOf, place, outcome, ended, mutated>>

Init ==
    /\ bundleOf \in [Runs -> Bundles]
    /\ place = [r \in Runs |-> "none"]
    /\ outcome = [r \in Runs |-> "absent"]
    /\ ended = {}
    /\ mutated = {}

Start(r) ==
    /\ outcome[r] = "absent"
    /\ outcome' = [outcome EXCEPT ![r] = "running"]
    /\ UNCHANGED <<bundleOf, place, ended, mutated>>

Settle(r) ==
    /\ outcome[r] = "running"
    /\ place[r] = "none"
    /\ \E p \in Places : place' = [place EXCEPT ![r] = p]
    /\ UNCHANGED <<bundleOf, outcome, ended, mutated>>

Mutate(r) ==
    /\ outcome[r] = "running"
    /\ place[r] # "none"
    /\ \A s \in mutated : s = r \/ place[s] # place[r] \/ bundleOf[s] # bundleOf[r]
    /\ mutated' = mutated \cup {r}
    /\ UNCHANGED <<bundleOf, place, outcome, ended>>

Show(r) ==
    /\ outcome[r] = "running"
    /\ \E o \in {"success", "failed"} : outcome' = [outcome EXCEPT ![r] = o]
    /\ UNCHANGED <<bundleOf, place, ended, mutated>>

Retract(r) ==
    /\ outcome[r] = "success"
    /\ r \notin ended
    /\ outcome' = [outcome EXCEPT ![r] = "failed"]
    /\ UNCHANGED <<bundleOf, place, ended, mutated>>

Leave(r) ==
    /\ outcome[r] \in {"success", "failed"}
    /\ ended' = ended \cup {r}
    /\ UNCHANGED <<bundleOf, place, outcome, mutated>>

Interrupt(r) ==
    /\ outcome[r] = "running"
    /\ outcome' = [outcome EXCEPT ![r] = "interrupted"]
    /\ ended' = ended \cup {r}
    /\ UNCHANGED <<bundleOf, place, mutated>>

Next ==
    \E r \in Runs :
        Start(r) \/ Settle(r) \/ Mutate(r) \/ Show(r) \/ Retract(r) \/ Leave(r) \/ Interrupt(r)

Spec == Init /\ [][Next]_vars
=============================================================================
