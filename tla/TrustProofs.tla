----------------------------- MODULE TrustProofs -----------------------------
(***************************************************************************)
(* Proofs about Trust, for any number of targets, calls, machines and keys. *)
(***************************************************************************)
EXTENDS Trust, TLAPS

LEMMA IdleType ==
    ASSUME NEW t \in Targets PROVE Idle(t) \in CallStates
  BY TrustConstants DEF Idle, CallStates, NoSnap, Snaps, Labels, InspectOps, LastRead,
     HardeningRead

LEMMA TypeInit == Init => TypeOK
  BY IdleType DEF Init, TypeOK, NoRow, Rows

LEMMA GotoType ==
    ASSUME TypeOK, NEW c \in Calls, NEW l \in Labels, Goto(c, l)
    PROVE  call' \in [Calls -> CallStates]
  BY DEF TypeOK, Goto, CallStates

LEMMA EndType ==
    ASSUME TypeOK, NEW c \in Calls, End(c)
    PROVE  call' \in [Calls -> CallStates]
<1>1. call[c].target \in Targets
  BY DEF TypeOK, CallStates
<1> QED
  BY <1>1, IdleType DEF TypeOK, End

-----------------------------------------------------------------------------
(* Steps of a call that change nothing but the call itself.                *)

InPreparation == {"ensure", "render", "desire"}

\* What TrustInv asks of one call.
CallOK(r) ==
    /\ r.snap.key # None => <<r.target, r.snap.key>> \in confirmed
    /\ r.arg # None => <<r.target, r.arg>> \in confirmed
    /\ r.pc # "read" => r.from = {}
    /\ r.from = {} => r.found = None
    /\ \A m \in r.from : r.snap.key \in HostKeys[m] /\ r.found \in {None, cloud[m]}
    /\ r.op = "enroll" /\ r.want # None => row[r.target].desired = r.want

LEMMA CallsAreOK ==
    ASSUME TrustInv, NEW c \in Calls PROVE CallOK(call[c]) /\ call[c] \in CallStates
  BY DEF TrustInv, TypeOK, CallOK, KeyInv, ReadInv, DesiredInv, At

LEMMA IdleIsOK == ASSUME NEW t \in Targets PROVE CallOK(Idle(t))
  BY DEF Idle, CallOK, NoSnap

\* A call may move to any state that is in order, as long as it does not
\* begin to prepare a target.
LEMMA CallStep ==
    ASSUME TrustInv, NEW c \in Calls,
           call' \in [Calls -> CallStates], CallOK(call'[c]),
           \A d \in Calls \ {c} : call'[d] = call[d],
           call'[c].pc \in InPreparation
               => call[c].pc \in InPreparation /\ call'[c].target = call[c].target,
           UNCHANGED <<row, secrets, online, cloud, confirmed, reached, enrolled>>
    PROVE  TrustInv'
<1>1. TypeOK'
  BY DEF TrustInv, TypeOK
<1>2. KeyInv'
  BY DEF TrustInv, KeyInv, CallOK
<1>3. ReadInv'
  BY DEF TrustInv, ReadInv, CallOK, At
<1>4. DesiredInv'
  BY DEF TrustInv, DesiredInv, CallOK, Preparing, InPreparation
<1>5. IdentityInv' /\ CommandsReachConfirmedMachines' /\ InspectionsOfOneMachine'
      /\ EnrolmentsAreTrue'
  BY DEF TrustInv, IdentityInv, CommandsReachConfirmedMachines,
     InspectionsOfOneMachine, EnrolmentsAreTrue
<1> QED
  BY <1>1, <1>2, <1>3, <1>4, <1>5 DEF TrustInv

LEMMA EndStep ==
    ASSUME TrustInv, NEW c \in Calls, End(c),
           UNCHANGED <<row, secrets, online, cloud, confirmed, reached, enrolled>>
    PROVE  TrustInv'
<1>1. call[c].target \in Targets /\ call \in [Calls -> CallStates] /\ TypeOK
  BY DEF TrustInv, TypeOK, CallStates
<1>2. call' \in [Calls -> CallStates]
  BY <1>1, EndType
<1>3. call'[c] = Idle(call[c].target) /\ \A d \in Calls \ {c} : call'[d] = call[d]
  BY <1>1 DEF End
<1>4. CallOK(call'[c]) /\ call'[c].pc \notin InPreparation
  BY <1>1, <1>3, IdleIsOK DEF Idle, InPreparation
<1> QED
  BY <1>2, <1>3, <1>4, CallStep

LEMMA KeyTypes ==
    ASSUME NEW m \in Machines, NEW k \in HostKeys[m] PROVE k \in Keys /\ k # None
  BY TrustConstants

\* A machine answers at most one Machines value for a key.
LEMMA OneHolder ==
    ASSUME NEW m \in Machines, NEW n \in Machines, NEW k,
           k \in HostKeys[m], k \in HostKeys[n]
    PROVE  m = n
  BY FreshHostKeys

LEMMA ObservedKeys == ASSUME TypeOK, NEW a \in Addresses \cup {None}, NEW k \in ObserveHostKey(a)
    PROVE k \in Keys
<1>1. PICK lines \in KeyScans(a) : k \in selectHostKey(lines)
  BY DEF ObserveHostKey
<1>2. k \in lines
  BY <1>1 DEF selectHostKey
<1>3. a \in Addresses /\ online[a] \in Machines /\ lines \in SUBSET HostKeys[online[a]]
  BY <1>1 DEF KeyScans, TypeOK
<1> QED
  BY <1>2, <1>3, KeyTypes

LEMMA PrepareNewTargetStep ==
    ASSUME TrustInv, NEW c \in Calls, NEW t \in Targets, NEW v \in Versions,
           PrepareNewTarget(c, t, v)
    PROVE  TrustInv'
<1> DEFINE r == [Idle(t) EXCEPT !.op = "prepare", !.pc = "create", !.want = v]
<1>1. call \in [Calls -> CallStates] /\ call' = [call EXCEPT ![c] = r]
  BY DEF TrustInv, TypeOK, PrepareNewTarget
<1>2. r \in CallStates /\ CallOK(r) /\ r.pc \notin InPreparation
  BY TrustConstants, IdleType DEF Idle, CallOK, NoSnap, CallStates, Labels, InPreparation
<1>3. call' \in [Calls -> CallStates] /\ call'[c] = r /\ \A d \in Calls \ {c} : call'[d] = call[d]
  BY <1>1, <1>2
<1> QED
  BY <1>2, <1>3, CallStep DEF PrepareNewTarget

LEMMA PrepareBootstrapStep ==
    ASSUME TrustInv, NEW c \in Calls, PrepareBootstrap(c) PROVE TrustInv'
<1>1. CASE End(c)
  BY <1>1, EndStep DEF PrepareBootstrap
<1>2. CASE Goto(c, "desire")
  <2>1. TypeOK /\ call \in [Calls -> CallStates] /\ call[c] \in CallStates /\ CallOK(call[c])
    BY CallsAreOK DEF TrustInv, TypeOK
  <2>2. call' \in [Calls -> CallStates]
    BY <2>1, <1>2, GotoType DEF Labels
  <2>3. /\ call'[c] = [call[c] EXCEPT !.pc = "desire"]
        /\ \A d \in Calls \ {c} : call'[d] = call[d]
    BY <2>1, <1>2 DEF Goto
  <2>4. CallOK(call'[c]) /\ call'[c].target = call[c].target /\ call[c].pc \in InPreparation
    BY <2>1, <2>3 DEF CallOK, CallStates, PrepareBootstrap, At, InPreparation
  <2> QED
    BY <2>2, <2>3, <2>4, CallStep DEF PrepareBootstrap
<1> QED
  BY <1>1, <1>2 DEF PrepareBootstrap

LEMMA SnapshotFacts ==
    ASSUME TrustInv, NEW c \in Calls, NEW t \in Targets, NEW opn, NEW l, NEW k,
           opn \in InspectOps \cup {"confirm", "command"},
           l \in {"scan", "lookup"}, k \in Keys \cup {None},
           Snapshot(c, t, opn, l, k)
    PROVE  /\ call' \in [Calls -> CallStates]
           /\ \A d \in Calls \ {c} : call'[d] = call[d]
           /\ call'[c].pc = l /\ call'[c].target = t /\ call'[c].arg = k
           /\ call'[c].snap = Copy(row[t])
           /\ call'[c].from = {} /\ call'[c].found = None
           /\ call'[c].op = "enroll" => call'[c].want = row[t].desired
<1> DEFINE w == IF opn = "enroll" THEN row[t].desired ELSE None
           r == [Idle(t) EXCEPT !.op = opn, !.pc = l, !.snap = Copy(row[t]), !.arg = k,
                     !.want = w]
<1>1. call \in [Calls -> CallStates] /\ row[t] \in Rows
  BY DEF TrustInv, TypeOK
<1>2. call' = [call EXCEPT ![c] = r]
  BY DEF Snapshot
<1>w. w \in Versions \cup {None} /\ (opn = "enroll" => w = row[t].desired)
  BY <1>1 DEF Rows
<1> HIDE DEF w
<1>3. Copy(row[t]) \in Snaps
  BY <1>1 DEF Copy, Snaps, Rows
<1>4. /\ r \in CallStates /\ r.pc = l /\ r.target = t /\ r.arg = k
      /\ r.snap = Copy(row[t]) /\ r.from = {} /\ r.found = None
      /\ r.op = "enroll" => r.want = row[t].desired
  BY <1>w, <1>3, IdleType DEF Idle, CallStates, Labels
<1> QED
  BY <1>1, <1>2, <1>4

LEMMA SnapshotStep ==
    ASSUME TrustInv, NEW c \in Calls, NEW t \in Targets, NEW opn, NEW l,
           opn \in InspectOps \cup {"confirm", "command"}, l \in {"scan", "lookup"},
           Snapshot(c, t, opn, l, None),
           UNCHANGED <<row, secrets, online, cloud, confirmed, reached, enrolled>>
    PROVE  TrustInv'
<1>1. /\ call' \in [Calls -> CallStates]
      /\ \A d \in Calls \ {c} : call'[d] = call[d]
      /\ call'[c].pc = l /\ call'[c].target = t /\ call'[c].arg = None
      /\ call'[c].snap = Copy(row[t])
      /\ call'[c].from = {} /\ call'[c].found = None
      /\ call'[c].op = "enroll" => call'[c].want = row[t].desired
  BY SnapshotFacts
<1>2. call'[c].snap.key = row[t].key
  BY <1>1 DEF Copy
<1>3. row[t].key # None => <<t, row[t].key>> \in confirmed
  BY DEF TrustInv, KeyInv
<1>4. CallOK(call'[c]) /\ call'[c].pc \notin InPreparation
  BY <1>1, <1>2, <1>3 DEF CallOK, InPreparation
<1> QED
  BY <1>1, <1>4, CallStep

LEMMA EnrollSessionStep ==
    ASSUME TrustInv, NEW c \in Calls, EnrollSession(c) PROVE TrustInv'
<1> DEFINE t == call[c].target
<1>1. call \in [Calls -> CallStates] /\ call[c] \in CallStates /\ CallOK(call[c])
      /\ t \in Targets /\ row[t] \in Rows
  BY CallsAreOK DEF TrustInv, TypeOK, CallStates
<1>2. Copy(row[t]) \in Snaps /\ Copy(row[t]).key = row[t].key
  BY <1>1 DEF Copy, Snaps, Rows
<1>3. /\ call'[c] = [call[c] EXCEPT !.snap = Copy(row[t]), !.pc = "scan"]
      /\ \A d \in Calls \ {c} : call'[d] = call[d]
      /\ call' \in [Calls -> CallStates]
  BY <1>1, <1>2 DEF EnrollSession, CallStates, Labels
<1>4. row[t].key # None => <<t, row[t].key>> \in confirmed
  BY <1>1 DEF TrustInv, KeyInv
<1>5. CallOK(call'[c]) /\ call'[c].pc \notin InPreparation
  BY <1>1, <1>2, <1>3, <1>4 DEF CallOK, InPreparation, EnrollSession, At, CallStates
<1> QED
  BY <1>3, <1>5, CallStep DEF EnrollSession

LEMMA ReobserveStep ==
    ASSUME TrustInv, NEW c \in Calls, Reobserve(c) PROVE TrustInv'
<1>1. CASE End(c)
  BY <1>1, EndStep DEF Reobserve
<1>2. CASE call' = [call EXCEPT ![c].snap = NoSnap, ![c].pc = "commit"]
  <2>1. call \in [Calls -> CallStates] /\ call[c] \in CallStates /\ CallOK(call[c])
    BY CallsAreOK DEF TrustInv, TypeOK
  <2>2. NoSnap \in Snaps /\ NoSnap.key = None
    BY DEF NoSnap, Snaps
  <2>3. /\ call'[c] = [call[c] EXCEPT !.snap = NoSnap, !.pc = "commit"]
        /\ \A d \in Calls \ {c} : call'[d] = call[d]
        /\ call' \in [Calls -> CallStates]
    BY <1>2, <2>1, <2>2 DEF CallStates, Labels
  <2>4. CallOK(call'[c]) /\ call'[c].pc \notin InPreparation
    BY <2>1, <2>2, <2>3 DEF CallOK, InPreparation, Reobserve, At, CallStates
  <2> QED
    BY <2>3, <2>4, CallStep DEF Reobserve
<1> QED
  BY <1>1, <1>2 DEF Reobserve

LEMMA strictSessionStep ==
    ASSUME TrustInv, NEW c \in Calls, strictSession(c) PROVE TrustInv'
<1> DEFINE s == call[c].snap
           n == [NoSnap EXCEPT !.address = s.address, !.key = s.key]
           l == IF call[c].op \in InspectOps THEN "read" ELSE "run"
<1>1. call \in [Calls -> CallStates] /\ call[c] \in CallStates /\ CallOK(call[c]) /\ s \in Snaps
  BY CallsAreOK DEF TrustInv, TypeOK, CallStates
<1>2. n \in Snaps /\ n.key = s.key
  BY <1>1 DEF NoSnap, Snaps
<1>3. /\ call'[c] = [call[c] EXCEPT !.snap = n, !.pc = l]
      /\ \A d \in Calls \ {c} : call'[d] = call[d]
      /\ call' \in [Calls -> CallStates]
  BY <1>1, <1>2 DEF strictSession, CallStates, Labels
<1>4. CallOK(call'[c]) /\ call'[c].pc \notin InPreparation
  BY <1>1, <1>2, <1>3 DEF CallOK, InPreparation, strictSession, At, CallStates
<1> QED
  BY <1>3, <1>4, CallStep DEF strictSession

LEMMA SkipReadStep ==
    ASSUME TrustInv, NEW c \in Calls, SkipRead(c) PROVE TrustInv'
<1>1. call \in [Calls -> CallStates] /\ call[c] \in CallStates /\ CallOK(call[c])
  BY CallsAreOK DEF TrustInv, TypeOK
<1>2. call[c].at \in 1..(LastRead + 1) /\ LastRead \in Nat /\ call[c].at <= LastRead
  BY <1>1, TrustConstants DEF CallStates, LastRead, HardeningRead, SkipRead
<1>3. /\ call'[c] = [call[c] EXCEPT !.at = @ + 1]
      /\ \A d \in Calls \ {c} : call'[d] = call[d]
      /\ call' \in [Calls -> CallStates]
  BY <1>1, <1>2 DEF SkipRead, CallStates
<1>4. CallOK(call'[c]) /\ call'[c].pc \notin InPreparation
  BY <1>1, <1>3 DEF CallOK, InPreparation, SkipRead, At, CallStates
<1> QED
  BY <1>3, <1>4, CallStep DEF SkipRead

-----------------------------------------------------------------------------
(* Steps that change rows, secrets or history, but no call.                *)

\* Facts about rows that a step must keep when no call moves.
LEMMA RowStep ==
    ASSUME TrustInv, row' \in [Targets -> Rows], secrets' \in SUBSET Secrets,
           \A t \in Targets : /\ row'[t].key \in {row[t].key, None}
                              /\ row'[t].exists = row[t].exists
                              /\ row'[t].desired = row[t].desired
                              /\ row'[t].observed = row[t].observed,
           IdentityInv',
           UNCHANGED <<call, online, cloud, confirmed, reached, enrolled>>
    PROVE  TrustInv'
<1>0. call \in [Calls -> CallStates] /\ \A c \in Calls : call[c].target \in Targets
  BY DEF TrustInv, TypeOK, CallStates
<1>1. TypeOK'
  BY DEF TrustInv, TypeOK
<1>2. KeyInv'
  BY DEF TrustInv, KeyInv
<1>3. ReadInv'
  BY DEF TrustInv, ReadInv, At
<1>4. DesiredInv'
  BY <1>0 DEF TrustInv, DesiredInv, Preparing
<1>5. CommandsReachConfirmedMachines'
  BY DEF TrustInv, CommandsReachConfirmedMachines
<1>6. InspectionsOfOneMachine'
  BY DEF TrustInv, InspectionsOfOneMachine
<1>7. EnrolmentsAreTrue'
  <2>1. \A e \in enrolled : e[1] \in Targets
    BY DEF TrustInv, TypeOK
  <2> QED
    BY <2>1 DEF TrustInv, EnrolmentsAreTrue
<1> QED
  BY <1>1, <1>2, <1>3, <1>4, <1>5, <1>6, <1>7 DEF TrustInv

\* EnsureIdentity changes no field of a row but the identity, and that only
\* from none to a secret no other row refers to.
LEMMA EnsureFacts ==
    ASSUME TrustInv, NEW t \in Targets, EnsureIdentity(t)
    PROVE  /\ row' \in [Targets -> Rows] /\ secrets' \in SUBSET Secrets
           /\ \A u \in Targets : /\ row'[u].key = row[u].key
                                 /\ row'[u].exists = row[u].exists
                                 /\ row'[u].desired = row[u].desired
                                 /\ row'[u].observed = row[u].observed
                                 /\ row[u].identity # None
                                       => row'[u].identity = row[u].identity
           /\ IdentityInv'
<1>0. row \in [Targets -> Rows] /\ secrets \in SUBSET Secrets /\ IdentityInv
  BY DEF TrustInv, TypeOK
<1>1. CASE UNCHANGED <<row, secrets>>
  BY <1>0, <1>1 DEF IdentityInv
<1>2. CASE /\ row[t].identity = None
           /\ \E s \in Secrets : CreateSecret(s) /\ SetSSHIdentity(t, s)
  <2>1. PICK s \in Secrets : s \notin secrets /\ secrets' = secrets \cup {s}
                             /\ row' = [row EXCEPT ![t]["identity"] = s]
    BY <1>2 DEF CreateSecret, SetSSHIdentity, SetRow
  <2>2. row' = [row EXCEPT ![t] = [row[t] EXCEPT !.identity = s]]
    BY <2>1
  <2>3. row'[t] = [row[t] EXCEPT !.identity = s] /\ \A u \in Targets \ {t} : row'[u] = row[u]
    BY <1>0, <2>2
  <2>4. row[t] \in Rows /\ row'[t] \in Rows /\ row'[t].identity = s
        /\ row'[t].key = row[t].key /\ row'[t].exists = row[t].exists
        /\ row'[t].desired = row[t].desired /\ row'[t].observed = row[t].observed
    BY <1>0, <2>3 DEF Rows
  <2>5. row' \in [Targets -> Rows]
    BY <1>0, <2>2, <2>4
  <2>6. IdentityInv'
    BY <1>0, <2>1, <2>3, <2>4 DEF IdentityInv
  <2> QED
    BY <1>0, <1>2, <2>1, <2>3, <2>4, <2>5, <2>6
<1> QED
  BY <1>1, <1>2 DEF EnsureIdentity, SSHIdentitySecretID

LEMMA EnsureCallStep ==
    ASSUME TrustInv, NEW c \in Calls, NEW t \in Targets, EnsureCall(c, t) PROVE TrustInv'
  BY EnsureFacts, RowStep DEF EnsureCall

LEMMA SetTargetAddressStep ==
    ASSUME TrustInv, NEW t \in Targets, NEW a \in Addresses, SetTargetAddress(t, a)
    PROVE  TrustInv'
<1>0. row \in [Targets -> Rows] /\ secrets \in SUBSET Secrets /\ IdentityInv /\ row[t] \in Rows
  BY DEF TrustInv, TypeOK
<1>1. row' = [row EXCEPT ![t]["address"] = a]
  BY DEF SetTargetAddress, SetRow
<1>2. row'[t] = [row[t] EXCEPT !.address = a] /\ \A u \in Targets \ {t} : row'[u] = row[u]
  BY <1>0, <1>1
<1>3. /\ row'[t] \in Rows /\ row'[t].key = row[t].key /\ row'[t].exists = row[t].exists
      /\ row'[t].desired = row[t].desired /\ row'[t].observed = row[t].observed
      /\ row'[t].identity = row[t].identity
  BY <1>0, <1>2 DEF Rows
<1>4. row' \in [Targets -> Rows]
  BY <1>0, <1>1, <1>2, <1>3
<1>5. secrets' = secrets /\ \A u \in Targets : row'[u].identity = row[u].identity
  BY <1>2, <1>3 DEF SetTargetAddress
<1>6. IdentityInv'
  BY <1>0, <1>5 DEF IdentityInv
<1> QED
  BY <1>0, <1>2, <1>3, <1>4, <1>6, RowStep DEF SetTargetAddress

LEMMA ResetTrustStep ==
    ASSUME TrustInv, NEW t \in Targets, ResetTrust(t) PROVE TrustInv'
<1>0. row \in [Targets -> Rows] /\ secrets \in SUBSET Secrets /\ IdentityInv /\ row[t] \in Rows
  BY DEF TrustInv, TypeOK
<1>1. /\ row'[t] = [row[t] EXCEPT !.key = None, !.trusted = FALSE]
      /\ \A u \in Targets \ {t} : row'[u] = row[u]
  BY <1>0 DEF ResetTrust
<1>2. /\ row'[t] \in Rows /\ row'[t].key = None /\ row'[t].exists = row[t].exists
      /\ row'[t].desired = row[t].desired /\ row'[t].observed = row[t].observed
      /\ row'[t].identity = row[t].identity
  BY <1>0, <1>1 DEF Rows
<1>3. row' \in [Targets -> Rows]
  BY <1>0, <1>1, <1>2 DEF ResetTrust
<1>4. IdentityInv'
  BY <1>0, <1>1, <1>2 DEF IdentityInv, ResetTrust
<1> QED
  BY <1>0, <1>1, <1>2, <1>3, <1>4, RowStep DEF ResetTrust

\* The network and the machines: a machine finishes Cloud-init once.
LEMMA MachineStep ==
    ASSUME TrustInv,
           \/ \E a \in Addresses, m \in Machines \cup {None} : Assign(a, m)
           \/ \E m \in Machines, v \in Versions : Boot(m, v)
    PROVE  TrustInv'
<1>0. /\ UNCHANGED <<row, secrets, call, confirmed, reached, enrolled>>
      /\ online' \in [Addresses -> Machines \cup {None}]
      /\ cloud' \in [Machines -> Versions \cup {None}]
      /\ \A m \in Machines : cloud[m] # None => cloud'[m] = cloud[m]
  BY DEF TrustInv, TypeOK, Assign, Boot
<1>1. TypeOK'
  BY <1>0 DEF TrustInv, TypeOK
<1>2. KeyInv' /\ DesiredInv' /\ IdentityInv'
  BY <1>0 DEF TrustInv, KeyInv, DesiredInv, IdentityInv, Preparing
<1>3. CommandsReachConfirmedMachines' /\ InspectionsOfOneMachine'
  BY <1>0 DEF TrustInv, CommandsReachConfirmedMachines, InspectionsOfOneMachine
<1>4. ReadInv'
  <2>1. \A c \in Calls : call[c].from \subseteq Machines
    BY DEF TrustInv, TypeOK, CallStates
  <2> QED
    BY <1>0, <2>1 DEF TrustInv, ReadInv, At
<1>5. EnrolmentsAreTrue'
  <2>1. \A e \in enrolled : e[2] \in Machines /\ e[3] # None
    BY TrustConstants DEF TrustInv, TypeOK
  <2> QED
    BY <1>0, <2>1 DEF TrustInv, EnrolmentsAreTrue
<1> QED
  BY <1>1, <1>2, <1>3, <1>4, <1>5 DEF TrustInv

LEMMA StudioStopsStep == ASSUME TrustInv, StudioStops PROVE TrustInv'
<1>1. \A c \in Calls : call[c].target \in Targets
  BY DEF TrustInv, TypeOK, CallStates
<1>2. \A c \in Calls : /\ call'[c] \in CallStates /\ CallOK(call'[c])
                       /\ call'[c].pc = "idle"
  BY <1>1, IdleType, IdleIsOK DEF StudioStops, Idle
<1>3. UNCHANGED <<row, secrets, online, cloud, confirmed, reached, enrolled>>
      /\ call' \in [Calls -> CallStates]
  BY <1>2 DEF StudioStops
<1>4. TypeOK' /\ KeyInv' /\ ReadInv'
  BY <1>2, <1>3 DEF TrustInv, TypeOK, KeyInv, ReadInv, At, CallOK
<1>5. DesiredInv' /\ IdentityInv'
  BY <1>2, <1>3 DEF TrustInv, DesiredInv, IdentityInv, Preparing, CallOK
<1>6. CommandsReachConfirmedMachines' /\ InspectionsOfOneMachine' /\ EnrolmentsAreTrue'
  BY <1>3 DEF TrustInv, CommandsReachConfirmedMachines, InspectionsOfOneMachine,
     EnrolmentsAreTrue
<1> QED
  BY <1>4, <1>5, <1>6 DEF TrustInv

-----------------------------------------------------------------------------
(* Steps that change a call and something else.                            *)

LEMMA MoveStep ==
    ASSUME TrustInv, NEW c \in Calls, TypeOK', CallOK(call[c])',
           \A d \in Calls \ {c} : call'[d] = call[d],
           call'[c].pc \in InPreparation
               => call[c].pc \in InPreparation /\ call'[c].target = call[c].target,
           \A t \in Targets : /\ row'[t].exists = row[t].exists
                              /\ row'[t].desired = row[t].desired
                              /\ row'[t].key # None => <<t, row'[t].key>> \in confirmed',
           cloud' = cloud, confirmed \subseteq confirmed',
           IdentityInv', CommandsReachConfirmedMachines', InspectionsOfOneMachine',
           EnrolmentsAreTrue'
    PROVE  TrustInv'
<1>0. \A d \in Calls : call[d].target \in Targets /\ call'[d].target \in Targets
  BY DEF TrustInv, TypeOK, CallStates
<1>x. \A t \in Targets : row[t].exists \in BOOLEAN /\ row'[t].exists \in BOOLEAN
  BY DEF TrustInv, TypeOK, Rows
<1>1. KeyInv'
  BY DEF TrustInv, KeyInv, CallOK
<1>2. ReadInv'
  BY DEF TrustInv, ReadInv, CallOK, At
<1>3. DesiredInv'
  <2>0. DesiredInv
    BY DEF TrustInv
  <2>1. \A d \in Calls : Preparing(d)' => Preparing(d) /\ call'[d].target = call[d].target
    BY DEF Preparing, InPreparation
  <2>2. \A t \in Targets : ~row'[t].exists => row'[t].desired = None
    BY <1>x, <2>0 DEF DesiredInv
  <2>3. \A d \in Calls : Preparing(d)' => /\ row'[call'[d].target].exists
                                          /\ row'[call'[d].target].desired = None
    <3> SUFFICES ASSUME NEW d \in Calls, Preparing(d)'
                 PROVE  row'[call'[d].target].exists /\ row'[call'[d].target].desired = None
      OBVIOUS
    <3>1. Preparing(d) /\ call'[d].target = call[d].target /\ call[d].target \in Targets
      BY <1>0, <2>1
    <3>2. row[call[d].target].exists /\ row[call[d].target].desired = None
      BY <2>0, <3>1 DEF DesiredInv
    <3> QED
      BY <1>x, <3>1, <3>2
  <2>4. \A d, e \in Calls : Preparing(d)' /\ Preparing(e)'
            /\ call'[d].target = call'[e].target => d = e
    BY <2>0, <2>1 DEF DesiredInv
  <2>5. \A d \in Calls : call'[d].op = "enroll" /\ call'[d].want # None
            => row'[call'[d].target].desired = call'[d].want
    <3>1. call'[c].op = "enroll" /\ call'[c].want # None
             => row'[call'[c].target].desired = call'[c].want
      BY DEF CallOK
    <3>2. \A d \in Calls \ {c} : call[d].op = "enroll" /\ call[d].want # None
             => row'[call[d].target].desired = call[d].want
      BY <1>0, <2>0 DEF DesiredInv
    <3> QED
      BY <3>1, <3>2
  <2> QED
    BY <2>2, <2>3, <2>4, <2>5 DEF DesiredInv
<1> QED
  BY <1>1, <1>2, <1>3 DEF TrustInv

\* The histories stay true when rows keep what they desire.
LEMMA HistoriesStay ==
    ASSUME TrustInv, confirmed \subseteq confirmed',
           UNCHANGED <<cloud, reached, enrolled>>,
           \A t \in Targets : row'[t].desired = row[t].desired
    PROVE  CommandsReachConfirmedMachines' /\ EnrolmentsAreTrue'
<1>1. \A e \in enrolled : e[1] \in Targets
  BY DEF TrustInv, TypeOK
<1> QED
  BY <1>1 DEF TrustInv, CommandsReachConfirmedMachines, EnrolmentsAreTrue

LEMMA ConfirmHostKeyStep ==
    ASSUME TrustInv, NEW c \in Calls, NEW t \in Targets, NEW k \in Accepted,
           ConfirmHostKey(c, t, k)
    PROVE  TrustInv'
<1>0. k \in Keys /\ confirmed' = confirmed \cup {<<t, k>>}
      /\ UNCHANGED <<row, secrets, online, cloud, reached, enrolled>>
  BY TrustConstants DEF ConfirmHostKey
<1>1. /\ call' \in [Calls -> CallStates]
      /\ \A d \in Calls \ {c} : call'[d] = call[d]
      /\ call'[c].pc = "scan" /\ call'[c].target = t /\ call'[c].arg = k
      /\ call'[c].snap = Copy(row[t])
      /\ call'[c].from = {} /\ call'[c].found = None
      /\ call'[c].op = "enroll" => call'[c].want = row[t].desired
  BY <1>0, SnapshotFacts DEF ConfirmHostKey
<1>2. call'[c].snap.key = row[t].key
  BY <1>1 DEF Copy
<1>3. \A u \in Targets : row[u].key # None => <<u, row[u].key>> \in confirmed'
  BY <1>0 DEF TrustInv, KeyInv
<1>4. CallOK(call[c])' /\ call'[c].pc \notin InPreparation
  BY <1>0, <1>1, <1>2, <1>3 DEF CallOK, InPreparation
<1>5. TypeOK'
  BY <1>0, <1>1 DEF TrustInv, TypeOK
<1>6. IdentityInv' /\ InspectionsOfOneMachine'
  BY <1>0 DEF TrustInv, IdentityInv, InspectionsOfOneMachine
<1>7. CommandsReachConfirmedMachines' /\ EnrolmentsAreTrue'
  BY <1>0, HistoriesStay
<1> QED
  BY <1>0, <1>1, <1>3, <1>4, <1>5, <1>6, <1>7, MoveStep

LEMMA EnsureForPrepareStep ==
    ASSUME TrustInv, NEW c \in Calls, EnsureForPrepare(c) PROVE TrustInv'
<1> DEFINE t == call[c].target
<1>0. /\ TypeOK /\ call \in [Calls -> CallStates] /\ call[c] \in CallStates
      /\ CallOK(call[c]) /\ t \in Targets
  BY CallsAreOK DEF TrustInv, TypeOK, CallStates
<1>1. /\ row' \in [Targets -> Rows] /\ secrets' \in SUBSET Secrets
      /\ \A u \in Targets : /\ row'[u].key = row[u].key
                            /\ row'[u].exists = row[u].exists
                            /\ row'[u].desired = row[u].desired
                            /\ row'[u].observed = row[u].observed
      /\ IdentityInv'
  BY <1>0, EnsureFacts DEF EnsureForPrepare
<1>2. /\ Goto(c, "render") /\ At(c, "ensure")
      /\ UNCHANGED <<online, cloud, confirmed, reached, enrolled>>
  BY DEF EnsureForPrepare
<1>3. /\ call'[c] = [call[c] EXCEPT !.pc = "render"]
      /\ \A d \in Calls \ {c} : call'[d] = call[d]
      /\ call' \in [Calls -> CallStates]
  BY <1>0, <1>2, GotoType DEF Goto, Labels
<1>4. /\ call'[c].target = t /\ call[c].pc \in InPreparation /\ call'[c].pc = "render"
      /\ call'[c].snap = call[c].snap /\ call'[c].arg = call[c].arg
      /\ call'[c].op = call[c].op /\ call'[c].want = call[c].want
      /\ call'[c].from = {} /\ call'[c].found = None
  BY <1>0, <1>2, <1>3 DEF CallOK, InPreparation, At, CallStates
<1>5. CallOK(call[c])'
  BY <1>0, <1>1, <1>2, <1>4 DEF CallOK
<1>6. TypeOK'
  BY <1>0, <1>1, <1>2, <1>3 DEF TypeOK
<1>7. InspectionsOfOneMachine'
  BY <1>1 DEF TrustInv, InspectionsOfOneMachine
<1>8. CommandsReachConfirmedMachines' /\ EnrolmentsAreTrue'
  BY <1>1, <1>2, HistoriesStay
<1>9. \A u \in Targets : row'[u].key # None => <<u, row'[u].key>> \in confirmed'
  BY <1>1, <1>2 DEF TrustInv, KeyInv
<1> QED
  BY <1>1, <1>2, <1>3, <1>4, <1>5, <1>6, <1>7, <1>8, <1>9, MoveStep

\* A call that ends is in order whatever the rows and histories are.
LEMMA EndFacts ==
    ASSUME TrustInv, NEW c \in Calls, End(c)
    PROVE  /\ call' \in [Calls -> CallStates]
           /\ \A d \in Calls \ {c} : call'[d] = call[d]
           /\ CallOK(call[c])' /\ call'[c].pc = "idle" /\ call'[c].op = "none"
<1>1. call[c].target \in Targets /\ call \in [Calls -> CallStates] /\ TypeOK
  BY DEF TrustInv, TypeOK, CallStates
<1>2. call'[c] = Idle(call[c].target) /\ \A d \in Calls \ {c} : call'[d] = call[d]
  BY <1>1 DEF End
<1>3. /\ call'[c].pc = "idle" /\ call'[c].op = "none" /\ call'[c].snap.key = None
      /\ call'[c].arg = None /\ call'[c].from = {} /\ call'[c].found = None
  BY <1>2 DEF Idle, NoSnap
<1> QED
  BY <1>1, <1>2, <1>3, EndType DEF CallOK

LEMMA TrustedStep ==
    ASSUME TrustInv, NEW c \in Calls, Trusted(c) PROVE TrustInv'
<1> DEFINE t == call[c].target
           k == call[c].arg
<1>0. /\ TypeOK /\ row \in [Targets -> Rows] /\ t \in Targets /\ row[t] \in Rows
      /\ k \in Keys \cup {None} /\ (k # None => <<t, k>> \in confirmed)
  BY CallsAreOK DEF TrustInv, TypeOK, CallStates, CallOK
<1>1. /\ row'[t] = [row[t] EXCEPT !.key = k, !.trusted = TRUE]
      /\ \A u \in Targets \ {t} : row'[u] = row[u]
      /\ row' \in [Targets -> Rows]
  BY <1>0 DEF Trusted, Rows
<1>2. /\ row'[t].key = k /\ row'[t].exists = row[t].exists
      /\ row'[t].desired = row[t].desired /\ row'[t].observed = row[t].observed
      /\ row'[t].identity = row[t].identity
  BY <1>0, <1>1 DEF Rows
<1>3. End(c) /\ UNCHANGED <<secrets, online, cloud, confirmed, reached, enrolled>>
  BY DEF Trusted
<1>4. \A u \in Targets : /\ row'[u].exists = row[u].exists
                         /\ row'[u].desired = row[u].desired
                         /\ row'[u].observed = row[u].observed
                         /\ row'[u].identity = row[u].identity
                         /\ row'[u].key # None => <<u, row'[u].key>> \in confirmed'
  BY <1>0, <1>1, <1>2, <1>3 DEF TrustInv, KeyInv
<1>5. /\ call' \in [Calls -> CallStates]
      /\ \A d \in Calls \ {c} : call'[d] = call[d]
      /\ CallOK(call[c])' /\ call'[c].pc = "idle"
  BY <1>3, EndFacts
<1>6. TypeOK'
  BY <1>0, <1>1, <1>3, <1>5 DEF TypeOK
<1>7. IdentityInv' /\ InspectionsOfOneMachine'
  <2>1. IdentityInv /\ secrets' = secrets
        /\ \A u \in Targets : row'[u].identity = row[u].identity
    BY <1>3, <1>4 DEF TrustInv
  <2>2. IdentityInv'
    BY <2>1 DEF IdentityInv
  <2> QED
    BY <1>4, <2>2 DEF TrustInv, InspectionsOfOneMachine
<1>8. CommandsReachConfirmedMachines' /\ EnrolmentsAreTrue'
  BY <1>3, <1>4, HistoriesStay
<1> QED
  BY <1>3, <1>4, <1>5, <1>6, <1>7, <1>8, MoveStep DEF InPreparation

\* ssh reaches a machine that holds the session's key: a confirmed one.
LEMMA ReachedIsConfirmed ==
    ASSUME TrustInv, NEW c \in Calls, NEW m \in Machines, Connects(c, m),
           reached' = reached \cup {<<call[c].target, m>>},
           UNCHANGED <<confirmed>>
    PROVE  /\ CommandsReachConfirmedMachines'
           /\ call[c].snap.key \in HostKeys[m]
           /\ <<call[c].target, call[c].snap.key>> \in confirmed
           /\ reached' \in SUBSET (Targets \X Machines)
<1>1. /\ call[c].target \in Targets /\ reached \in SUBSET (Targets \X Machines)
      /\ CallOK(call[c])
  BY CallsAreOK DEF TrustInv, TypeOK, CallStates
<1>2. call[c].snap.key \in HostKeys[m] /\ call[c].snap.key # None
  BY KeyTypes DEF Connects
<1>3. <<call[c].target, call[c].snap.key>> \in confirmed
  BY <1>1, <1>2 DEF CallOK
<1> DEFINE e == <<call[c].target, m>>
<1>4. e[1] = call[c].target /\ e[2] = m
  OBVIOUS
<1>5. \E k \in HostKeys[e[2]] : <<e[1], k>> \in confirmed
  BY <1>2, <1>3, <1>4
<1> HIDE DEF e
<1>6. CommandsReachConfirmedMachines'
  BY <1>5 DEF TrustInv, CommandsReachConfirmedMachines, e
<1> QED
  BY <1>1, <1>2, <1>3, <1>6

LEMMA runRemoteStep ==
    ASSUME TrustInv, NEW c \in Calls, runRemote(c) PROVE TrustInv'
<1>1. PICK m \in Machines : Connects(c, m)
                            /\ reached' = reached \cup {<<call[c].target, m>>}
  BY DEF runRemote
<1>2. UNCHANGED <<row, secrets, call, online, cloud, confirmed, enrolled>>
  BY DEF runRemote
<1>3. CommandsReachConfirmedMachines' /\ reached' \in SUBSET (Targets \X Machines)
  BY <1>1, <1>2, ReachedIsConfirmed
<1>4. TypeOK' /\ KeyInv' /\ ReadInv'
  BY <1>2, <1>3 DEF TrustInv, TypeOK, KeyInv, ReadInv, At
<1>5. DesiredInv' /\ IdentityInv' /\ InspectionsOfOneMachine' /\ EnrolmentsAreTrue'
  BY <1>2 DEF TrustInv, DesiredInv, Preparing, IdentityInv, InspectionsOfOneMachine,
     EnrolmentsAreTrue
<1> QED
  BY <1>3, <1>4, <1>5 DEF TrustInv

LEMMA ReadPartStep ==
    ASSUME TrustInv, NEW c \in Calls, ReadPart(c) PROVE TrustInv'
<1> DEFINE r == call[c]
<1>1. PICK m \in Machines :
          /\ Connects(c, m) /\ reached' = reached \cup {<<r.target, m>>}
          /\ call' = [call EXCEPT ![c] =
                [r EXCEPT !.at = r.at + 1, !.from = r.from \cup {m},
                    !.found = IF r.at = CloudRead THEN cloud[m] ELSE r.found]]
  BY DEF ReadPart
<1>2. /\ UNCHANGED <<row, secrets, online, cloud, confirmed, enrolled>>
      /\ r.pc = "read" /\ r.at <= LastRead
  BY DEF ReadPart, At
<1>3. /\ CommandsReachConfirmedMachines' /\ reached' \in SUBSET (Targets \X Machines)
      /\ r.snap.key \in HostKeys[m]
  BY <1>1, <1>2, ReachedIsConfirmed
<1>4. /\ TypeOK /\ call \in [Calls -> CallStates] /\ r \in CallStates /\ CallOK(r)
      /\ cloud[m] \in Versions \cup {None} /\ r.from \subseteq Machines
      /\ r.at \in 1..(LastRead + 1) /\ r.found \in Versions \cup {None}
  BY CallsAreOK DEF TrustInv, TypeOK, CallStates
<1>5. LastRead \in Nat
  BY TrustConstants DEF LastRead, HardeningRead
<1> DEFINE f == IF r.at = CloudRead THEN cloud[m] ELSE r.found
           n == [r EXCEPT !.at = r.at + 1, !.from = r.from \cup {m}, !.found = f]
<1>6. f \in Versions \cup {None} /\ f \in {cloud[m], r.found}
  BY <1>4
<1>7. call' = [call EXCEPT ![c] = n]
  BY <1>1
<1> HIDE DEF f
<1>a. r.at + 1 \in 1..(LastRead + 1)
  BY <1>2, <1>4, <1>5
<1>8. /\ n \in CallStates /\ n.pc = "read" /\ n.op = r.op /\ n.target = r.target
      /\ n.snap = r.snap /\ n.arg = r.arg /\ n.want = r.want
      /\ n.from = r.from \cup {m} /\ n.found = f
  BY <1>2, <1>4, <1>6, <1>a DEF CallStates
<1>9. call'[c] = n /\ call' \in [Calls -> CallStates]
      /\ \A d \in Calls \ {c} : call'[d] = call[d]
  BY <1>4, <1>7, <1>8
<1> HIDE DEF n
<1>10. \A o \in n.from : o = m
  <2>1. \A o \in r.from : r.snap.key \in HostKeys[o]
    BY <1>4 DEF CallOK
  <2> QED
    BY <1>3, <1>4, <1>8, <2>1, OneHolder
<1>11. f \in {None, cloud[m]}
  <2>1. CASE r.at = CloudRead
    BY <2>1 DEF f
  <2>2. CASE r.from = {} /\ r.at # CloudRead
    BY <1>4, <2>2 DEF f, CallOK
  <2>3. CASE r.from # {} /\ r.at # CloudRead
    <3>1. PICK o \in r.from : TRUE
      BY <2>3
    <3>2. o = m /\ r.found \in {None, cloud[o]}
      BY <1>4, <1>8, <1>10, <3>1 DEF CallOK
    <3> QED
      BY <2>3, <3>2 DEF f
  <2> QED
    BY <2>1, <2>2, <2>3
<1>12. CallOK(call[c])'
  BY <1>2, <1>3, <1>4, <1>8, <1>9, <1>10, <1>11 DEF CallOK
<1>13. TypeOK'
  BY <1>2, <1>3, <1>4, <1>9 DEF TypeOK
<1>14. IdentityInv' /\ InspectionsOfOneMachine' /\ EnrolmentsAreTrue'
  BY <1>2 DEF TrustInv, IdentityInv, InspectionsOfOneMachine, EnrolmentsAreTrue
<1>15. \A t \in Targets : row'[t].key # None => <<t, row'[t].key>> \in confirmed'
  BY <1>2 DEF TrustInv, KeyInv
<1> QED
  BY <1>2, <1>3, <1>8, <1>9, <1>12, <1>13, <1>14, <1>15, MoveStep DEF InPreparation

LEMMA RecordObservedStateStep ==
    ASSUME TrustInv, NEW c \in Calls, RecordObservedState(c) PROVE TrustInv'
<1> DEFINE r == call[c]
           t == r.target
<1>0. /\ TypeOK /\ row \in [Targets -> Rows] /\ t \in Targets /\ row[t] \in Rows
      /\ r \in CallStates /\ CallOK(r) /\ r.from \subseteq Machines
      /\ r.found \in Versions \cup {None}
  BY CallsAreOK DEF TrustInv, TypeOK, CallStates
<1>1. End(c) /\ UNCHANGED <<secrets, online, cloud, confirmed, reached>>
  BY DEF RecordObservedState
<1>2. CASE UNCHANGED <<row, enrolled>>
  BY <1>1, <1>2, EndStep
<1>3. CASE /\ r.op = "inspect" \/ (r.op = "enroll" /\ validateEnrollment(r))
           /\ SetRow(t, "observed", r.from)
           /\ enrolled' = IF r.op = "inspect" THEN enrolled
                          ELSE enrolled \cup {<<t, m, r.found>> : m \in r.from}
  <2>1. row' = [row EXCEPT ![t] = [row[t] EXCEPT !.observed = r.from]]
    BY <1>3 DEF SetRow
  <2>2. row'[t] = [row[t] EXCEPT !.observed = r.from] /\ \A u \in Targets \ {t} : row'[u] = row[u]
    BY <1>0, <2>1
  <2>3. /\ row'[t] \in Rows /\ row'[t].observed = r.from /\ row'[t].key = row[t].key
        /\ row'[t].exists = row[t].exists /\ row'[t].desired = row[t].desired
        /\ row'[t].identity = row[t].identity
    BY <1>0, <2>2 DEF Rows
  <2>4. row' \in [Targets -> Rows]
    BY <1>0, <2>1, <2>2, <2>3
  <2>5. \A u \in Targets : /\ row'[u].exists = row[u].exists
                           /\ row'[u].desired = row[u].desired
                           /\ row'[u].key # None => <<u, row'[u].key>> \in confirmed'
    BY <1>1, <2>2, <2>3 DEF TrustInv, KeyInv
  <2>6. IdentityInv'
    <3>1. IdentityInv /\ secrets' = secrets
          /\ \A u \in Targets : row'[u].identity = row[u].identity
      BY <1>1, <2>2, <2>3 DEF TrustInv
    <3> QED
      BY <3>1 DEF IdentityInv
  <2>7. InspectionsOfOneMachine'
    <3>1. \A m, n \in r.from : m = n
      BY <1>0, OneHolder DEF CallOK
    <3> QED
      BY <2>2, <2>3, <3>1 DEF TrustInv, InspectionsOfOneMachine
  <2>8. /\ call' \in [Calls -> CallStates]
        /\ \A d \in Calls \ {c} : call'[d] = call[d]
        /\ CallOK(call[c])' /\ call'[c].pc = "idle"
    BY <1>1, EndFacts
  <2>9. \A m \in r.from : r.op = "enroll" =>
            /\ r.found # None /\ r.found = cloud[m] /\ row[t].desired = r.found
            /\ \E k \in HostKeys[m] : <<t, k>> \in confirmed
    <3> SUFFICES ASSUME NEW m \in r.from, r.op = "enroll"
                 PROVE  /\ r.found # None /\ r.found = cloud[m] /\ row[t].desired = r.found
                        /\ \E k \in HostKeys[m] : <<t, k>> \in confirmed
      OBVIOUS
    <3>1. r.found # None /\ r.want = r.found
      BY <1>3 DEF validateEnrollment
    <3>2. m \in Machines /\ r.snap.key \in HostKeys[m] /\ r.found = cloud[m]
      BY <1>0, <3>1 DEF CallOK
    <3>3. r.snap.key # None
      BY <3>2, KeyTypes
    <3> QED
      BY <1>0, <3>1, <3>2, <3>3 DEF CallOK
  <2>10. \A e \in enrolled' : \/ e \in enrolled
                              \/ \E m \in r.from : e = <<t, m, r.found>> /\ r.op = "enroll"
    <3>1. CASE r.op = "inspect"
      BY <1>3, <3>1
    <3>2. CASE r.op = "enroll"
      BY <1>3, <3>2
    <3> QED
      BY <1>3, <3>1, <3>2
  <2>11. enrolled' \in SUBSET (Targets \X Machines \X Versions)
    <3>1. enrolled \in SUBSET (Targets \X Machines \X Versions)
      BY <1>0 DEF TypeOK
    <3>2. \A m \in r.from : r.op = "enroll" => m \in Machines /\ r.found \in Versions
      BY <1>0, <2>9
    <3> QED
      BY <1>0, <2>10, <3>1, <3>2
  <2>12. TypeOK'
    BY <1>0, <1>1, <2>4, <2>8, <2>11 DEF TypeOK
  <2>13. EnrolmentsAreTrue'
    <3> SUFFICES ASSUME NEW e \in enrolled'
                 PROVE  /\ cloud[e[2]] = e[3] /\ row'[e[1]].desired = e[3]
                        /\ \E k \in HostKeys[e[2]] : <<e[1], k>> \in confirmed
      BY <1>1 DEF EnrolmentsAreTrue
    <3>1. CASE e \in enrolled
      <4>1. e[1] \in Targets
        BY <1>0, <3>1 DEF TypeOK
      <4> QED
        BY <2>5, <3>1, <4>1 DEF TrustInv, EnrolmentsAreTrue
    <3>2. CASE \E m \in r.from : e = <<t, m, r.found>> /\ r.op = "enroll"
      <4>1. PICK m \in r.from : e = <<t, m, r.found>> /\ r.op = "enroll"
        BY <3>2
      <4>2. e[1] = t /\ e[2] = m /\ e[3] = r.found
        BY <4>1
      <4>3. /\ r.found = cloud[m] /\ row[t].desired = r.found
            /\ \E k \in HostKeys[m] : <<t, k>> \in confirmed
        BY <2>9, <4>1
      <4> QED
        BY <2>3, <4>2, <4>3
    <3> QED
      BY <2>10, <3>1, <3>2
  <2>14. CommandsReachConfirmedMachines'
    BY <1>1 DEF TrustInv, CommandsReachConfirmedMachines
  <2> QED
    BY <1>1, <2>5, <2>6, <2>7, <2>8, <2>12, <2>13, <2>14, MoveStep DEF InPreparation
<1> QED
  BY <1>2, <1>3 DEF RecordObservedState

LEMMA CreatePendingTargetStep ==
    ASSUME TrustInv, NEW c \in Calls, CreatePendingTarget(c) PROVE TrustInv'
<1> DEFINE t == call[c].target
<1>0. /\ TypeOK /\ row \in [Targets -> Rows] /\ t \in Targets /\ row[t] \in Rows
      /\ call \in [Calls -> CallStates] /\ call[c] \in CallStates /\ CallOK(call[c])
      /\ DesiredInv /\ call[c].pc = "create" /\ ~row[t].exists
  BY CallsAreOK DEF TrustInv, TypeOK, CallStates, CreatePendingTarget, At
<1>1. Goto(c, "ensure") /\ UNCHANGED <<secrets, online, cloud, confirmed, reached, enrolled>>
  BY DEF CreatePendingTarget
<1>2. row' = [row EXCEPT ![t] = [row[t] EXCEPT !.exists = TRUE]]
  BY DEF CreatePendingTarget, SetRow
<1>3. row'[t] = [row[t] EXCEPT !.exists = TRUE] /\ \A u \in Targets \ {t} : row'[u] = row[u]
  BY <1>0, <1>2
<1>4. /\ row'[t] \in Rows /\ row'[t].observed = row[t].observed /\ row'[t].key = row[t].key
      /\ row'[t].exists = TRUE /\ row'[t].desired = row[t].desired
      /\ row'[t].identity = row[t].identity
  BY <1>0, <1>3 DEF Rows
<1>5. row' \in [Targets -> Rows]
  BY <1>0, <1>2, <1>4
<1>6. \A u \in Targets : /\ row'[u].desired = row[u].desired
                         /\ row'[u].identity = row[u].identity
                         /\ row'[u].observed = row[u].observed
                         /\ row'[u].key = row[u].key
  BY <1>3, <1>4
<1>7. /\ call'[c] = [call[c] EXCEPT !.pc = "ensure"]
      /\ \A d \in Calls \ {c} : call'[d] = call[d]
      /\ call' \in [Calls -> CallStates]
  BY <1>0, <1>1, GotoType DEF Goto, Labels
<1>8. /\ call'[c].target = t /\ call'[c].pc = "ensure"
      /\ call'[c].snap = call[c].snap /\ call'[c].arg = call[c].arg
      /\ call'[c].op = call[c].op /\ call'[c].want = call[c].want
      /\ call'[c].from = {} /\ call'[c].found = None
  BY <1>0, <1>7 DEF CallOK, CallStates
<1>9. TypeOK'
  BY <1>0, <1>1, <1>5, <1>7 DEF TypeOK
<1>10. CommandsReachConfirmedMachines' /\ EnrolmentsAreTrue'
  BY <1>1, <1>6, HistoriesStay
<1>11. InspectionsOfOneMachine'
  BY <1>6 DEF TrustInv, InspectionsOfOneMachine
<1>12. IdentityInv'
  <2>1. IdentityInv /\ secrets' = secrets
        /\ \A u \in Targets : row'[u].identity = row[u].identity
    BY <1>1, <1>6 DEF TrustInv
  <2> QED
    BY <2>1 DEF IdentityInv
<1>13. KeyInv'
  <2>1. KeyInv /\ confirmed' = confirmed
    BY <1>1 DEF TrustInv
  <2>2. \A u \in Targets : row'[u].key # None => <<u, row'[u].key>> \in confirmed'
    BY <1>6, <2>1 DEF KeyInv
  <2>3. \A d \in Calls : /\ call'[d].target = call[d].target
                         /\ call'[d].snap = call[d].snap /\ call'[d].arg = call[d].arg
    BY <1>7, <1>8
  <2> QED
    BY <2>1, <2>2, <2>3 DEF KeyInv
<1>14. ReadInv'
  BY <1>1, <1>7, <1>8 DEF TrustInv, ReadInv, At
<1>15. DesiredInv'
  <2>0. \A d \in Calls : call[d].target \in Targets
    BY <1>0 DEF CallStates
  <2>1. row[t].desired = None /\ \A d \in Calls : Preparing(d) => call[d].target # t
    BY <1>0 DEF DesiredInv
  <2>2. \A u \in Targets : ~row'[u].exists => row'[u].desired = None
    BY <1>0, <1>3, <1>4 DEF DesiredInv
  <2>3. \A d \in Calls \ {c} : (Preparing(d)' => Preparing(d)) /\ call'[d] = call[d]
    BY <1>7 DEF Preparing
  <2>4. \A d \in Calls : Preparing(d)' => /\ row'[call'[d].target].exists
                                          /\ row'[call'[d].target].desired = None
    <3>1. \A d \in Calls \ {c} : Preparing(d)' =>
              /\ row'[call[d].target] = row[call[d].target]
              /\ row[call[d].target].exists /\ row[call[d].target].desired = None
      BY <1>0, <1>3, <2>0, <2>1, <2>3 DEF DesiredInv
    <3>2. row'[call'[c].target].exists /\ row'[call'[c].target].desired = None
      BY <1>4, <1>8, <2>1
    <3> QED
      BY <2>3, <3>1, <3>2
  <2>5. \A d, e \in Calls : Preparing(d)' /\ Preparing(e)'
            /\ call'[d].target = call'[e].target => d = e
    BY <1>0, <1>8, <2>1, <2>3 DEF DesiredInv
  <2>6. \A d \in Calls : call'[d].op = "enroll" /\ call'[d].want # None
            => row'[call'[d].target].desired = call'[d].want
    <3>1. \A d \in Calls : /\ call'[d].target = call[d].target
                           /\ call'[d].op = call[d].op /\ call'[d].want = call[d].want
      BY <1>7, <1>8
    <3>2. \A d \in Calls : call[d].op = "enroll" /\ call[d].want # None
              => row[call[d].target].desired = call[d].want
      BY <1>0 DEF DesiredInv
    <3> QED
      BY <1>6, <2>0, <3>1, <3>2
  <2> QED
    BY <2>2, <2>4, <2>5, <2>6 DEF DesiredInv
<1> QED
  BY <1>9, <1>10, <1>11, <1>12, <1>13, <1>14, <1>15 DEF TrustInv

LEMMA SetDesiredStateStep ==
    ASSUME TrustInv, NEW c \in Calls, SetDesiredState(c) PROVE TrustInv'
<1> DEFINE t == call[c].target
           v == call[c].want
<1>0. /\ TypeOK /\ row \in [Targets -> Rows] /\ t \in Targets /\ row[t] \in Rows
      /\ v \in Versions \cup {None} /\ DesiredInv /\ call[c].pc = "desire"
      /\ call \in [Calls -> CallStates]
  BY DEF TrustInv, TypeOK, CallStates, SetDesiredState, At
<1>1. End(c) /\ UNCHANGED <<secrets, online, cloud, confirmed, reached, enrolled>>
  BY DEF SetDesiredState
<1>2. row' = [row EXCEPT ![t] = [row[t] EXCEPT !.desired = v]]
  BY DEF SetDesiredState, SetRow
<1>3. row'[t] = [row[t] EXCEPT !.desired = v] /\ \A u \in Targets \ {t} : row'[u] = row[u]
  BY <1>0, <1>2
<1>4. /\ row'[t] \in Rows /\ row'[t].observed = row[t].observed /\ row'[t].key = row[t].key
      /\ row'[t].exists = row[t].exists /\ row'[t].desired = v
      /\ row'[t].identity = row[t].identity
  BY <1>0, <1>3 DEF Rows
<1>5. row' \in [Targets -> Rows]
  BY <1>0, <1>2, <1>4
<1>6. \A u \in Targets : /\ row'[u].identity = row[u].identity
                         /\ row'[u].observed = row[u].observed
                         /\ row'[u].key = row[u].key
  BY <1>3, <1>4
<1>7. /\ call' \in [Calls -> CallStates]
      /\ \A d \in Calls \ {c} : call'[d] = call[d]
      /\ CallOK(call[c])' /\ call'[c].pc = "idle" /\ call'[c].op = "none"
  BY <1>1, EndFacts
<1>8. Preparing(c)
  BY <1>0 DEF Preparing
<1>9. /\ row[t].exists /\ row[t].desired = None
      /\ \A d \in Calls : Preparing(d) /\ call[d].target = t => d = c
  BY <1>0, <1>8 DEF DesiredInv
<1>10. TypeOK'
  BY <1>0, <1>1, <1>5, <1>7 DEF TypeOK
<1>11. CommandsReachConfirmedMachines' /\ InspectionsOfOneMachine'
  BY <1>1, <1>6 DEF TrustInv, CommandsReachConfirmedMachines, InspectionsOfOneMachine
<1>12. EnrolmentsAreTrue'
  <2>1. \A e \in enrolled : e[1] \in Targets /\ e[3] # None
    BY <1>0, TrustConstants DEF TypeOK
  <2>2. EnrolmentsAreTrue
    BY DEF TrustInv
  <2>3. \A e \in enrolled : e[1] # t /\ row'[e[1]] = row[e[1]]
    BY <1>3, <1>9, <2>1, <2>2 DEF EnrolmentsAreTrue
  <2> QED
    BY <1>1, <2>2, <2>3 DEF EnrolmentsAreTrue
<1>13. IdentityInv'
  <2>1. IdentityInv /\ secrets' = secrets
        /\ \A u \in Targets : row'[u].identity = row[u].identity
    BY <1>1, <1>6 DEF TrustInv
  <2> QED
    BY <2>1 DEF IdentityInv
<1>14. KeyInv'
  <2>1. KeyInv /\ confirmed' = confirmed
    BY <1>1 DEF TrustInv
  <2>2. \A u \in Targets : row'[u].key # None => <<u, row'[u].key>> \in confirmed'
    BY <1>6, <2>1 DEF KeyInv
  <2> QED
    BY <1>7, <2>1, <2>2 DEF KeyInv, CallOK
<1>15. ReadInv'
  BY <1>1, <1>7 DEF TrustInv, ReadInv, At, CallOK
<1>16. DesiredInv'
  <2>0. \A d \in Calls : call[d].target \in Targets
    BY <1>0 DEF CallStates
  <2>1. \A u \in Targets : ~row'[u].exists => row'[u].desired = None
    <3>1. row'[t].exists
      BY <1>4, <1>9
    <3>2. \A u \in Targets \ {t} : ~row'[u].exists => row'[u].desired = None
      BY <1>0, <1>3 DEF DesiredInv
    <3> QED
      BY <3>1, <3>2
  <2>2. ~Preparing(c)'
    BY <1>7 DEF Preparing
  <2>3. \A d \in Calls : Preparing(d)' => d # c /\ Preparing(d) /\ call'[d] = call[d]
    BY <1>7, <2>2 DEF Preparing
  <2>4. \A d \in Calls : Preparing(d)' => row'[call[d].target] = row[call[d].target]
    BY <1>3, <1>9, <2>0, <2>3
  <2>5. \A d \in Calls : Preparing(d)' => /\ row'[call'[d].target].exists
                                          /\ row'[call'[d].target].desired = None
    <3> SUFFICES ASSUME NEW d \in Calls, Preparing(d)'
                 PROVE  row'[call'[d].target].exists /\ row'[call'[d].target].desired = None
      OBVIOUS
    <3>1. row[call[d].target].exists /\ row[call[d].target].desired = None
      BY <1>0, <2>3 DEF DesiredInv
    <3> QED
      BY <2>3, <2>4, <3>1
  <2>6. \A d, e \in Calls : Preparing(d)' /\ Preparing(e)'
            /\ call'[d].target = call'[e].target => d = e
    BY <1>0, <2>3 DEF DesiredInv
  <2>7. \A d \in Calls \ {c} : call[d].op = "enroll" /\ call[d].want # None
            => row'[call[d].target].desired = call[d].want
    BY <1>0, <1>3, <1>9, <2>0 DEF DesiredInv
  <2>8. \A d \in Calls : call'[d].op = "enroll" /\ call'[d].want # None
            => row'[call'[d].target].desired = call'[d].want
    BY <1>7, <2>7
  <2> QED
    BY <2>1, <2>5, <2>6, <2>8 DEF DesiredInv
<1> QED
  BY <1>10, <1>11, <1>12, <1>13, <1>14, <1>15, <1>16 DEF TrustInv

-----------------------------------------------------------------------------
(* The theorems.                                                           *)

LEMMA TrustInit == Init => TrustInv
<1> SUFFICES ASSUME Init PROVE TrustInv
  OBVIOUS
<1>1. TypeOK
  BY TypeInit
<1>2. \A c \in Calls : \E t \in Targets : call[c] = Idle(t)
  BY DEF Init
<1>3. \A c \in Calls : /\ call[c].pc = "idle" /\ call[c].op = "none"
                       /\ call[c].snap.key = None /\ call[c].arg = None
                       /\ call[c].from = {} /\ call[c].found = None
  <2>1. \A t \in Targets : /\ Idle(t).pc = "idle" /\ Idle(t).op = "none"
                           /\ Idle(t).snap.key = None /\ Idle(t).arg = None
                           /\ Idle(t).from = {} /\ Idle(t).found = None
    BY DEF Idle, NoSnap
  <2> QED
    BY <1>2, <2>1
<1>4. \A t \in Targets : /\ row[t].key = None /\ row[t].desired = None
                         /\ row[t].identity = None /\ row[t].observed = {}
  BY DEF Init, NoRow
<1>5. KeyInv /\ ReadInv
  BY <1>3, <1>4 DEF KeyInv, ReadInv, At
<1>6. DesiredInv
  BY <1>3, <1>4 DEF DesiredInv, Preparing
<1>7. IdentityInv /\ CommandsReachConfirmedMachines /\ InspectionsOfOneMachine
      /\ EnrolmentsAreTrue
  <2>1. IdentityInv
    BY <1>4 DEF IdentityInv
  <2>2. InspectionsOfOneMachine
    BY <1>4 DEF InspectionsOfOneMachine
  <2> QED
    BY <2>1, <2>2 DEF Init, CommandsReachConfirmedMachines, EnrolmentsAreTrue
<1> QED
  BY <1>1, <1>5, <1>6, <1>7 DEF TrustInv

LEMMA TrustStutter == ASSUME TrustInv, UNCHANGED vars PROVE TrustInv'
<1>1. TypeOK' /\ KeyInv' /\ ReadInv'
  BY DEF TrustInv, vars, TypeOK, KeyInv, ReadInv, At
<1>2. DesiredInv' /\ IdentityInv'
  BY DEF TrustInv, vars, DesiredInv, Preparing, IdentityInv
<1>3. CommandsReachConfirmedMachines' /\ InspectionsOfOneMachine' /\ EnrolmentsAreTrue'
  BY DEF TrustInv, vars, CommandsReachConfirmedMachines, InspectionsOfOneMachine,
     EnrolmentsAreTrue
<1> QED
  BY <1>1, <1>2, <1>3 DEF TrustInv

\* The calls that begin with a copy of the row.
SessionBegins(c, t) ==
    \/ Inspect(c, t) \/ Enroll(c, t) \/ Logs(c, t) \/ Upload(c, t) \/ StartRun(c, t)
    \/ ObserveRun(c, t) \/ SendSecrets(c, t) \/ Control(c, t) \/ Healthcheck(c, t)
    \/ PrepareStorageCopy(c, t) \/ TransferStorageCopy(c, t) \/ CleanupStorageCopy(c, t)

LEMMA SessionBeginsStep ==
    ASSUME TrustInv, NEW c \in Calls, NEW t \in Targets, SessionBegins(c, t)
    PROVE  TrustInv'
<1>1. CASE Enroll(c, t)
  BY <1>1, SnapshotStep DEF Enroll, InspectOps
<1>2. CASE \E opn \in {"inspect", "command"} : Begin(c, t, opn)
  BY <1>2, SnapshotStep DEF Begin, InspectOps
<1> QED
  BY <1>1, <1>2 DEF SessionBegins, Inspect, Logs, Upload, StartRun, ObserveRun,
     SendSecrets, Control, Healthcheck, PrepareStorageCopy, TransferStorageCopy,
     CleanupStorageCopy

LEMMA SessionEndsStep ==
    ASSUME TrustInv, NEW c \in Calls, ScanEnds(c) \/ SessionEnds(c) PROVE TrustInv'
  BY EndStep DEF ScanEnds, SessionEnds

\* Every way Next can be taken, one disjunct per operation.
LEMMA NextCases ==
    ASSUME Next
    PROVE  \/ \E c \in Calls, t \in Targets :
                 \/ \E v \in Versions : PrepareNewTarget(c, t, v)
                 \/ EnsureCall(c, t)
                 \/ \E k \in Accepted : ConfirmHostKey(c, t, k)
                 \/ SessionBegins(c, t)
           \/ \E c \in Calls :
                 \/ CreatePendingTarget(c) \/ EnsureForPrepare(c)
                 \/ PrepareBootstrap(c) \/ SetDesiredState(c)
                 \/ ScanEnds(c) \/ Reobserve(c) \/ Trusted(c)
                 \/ EnrollSession(c) \/ strictSession(c) \/ runRemote(c)
                 \/ SkipRead(c) \/ ReadPart(c) \/ SessionEnds(c)
                 \/ RecordObservedState(c)
           \/ \E t \in Targets : ResetTrust(t) \/ \E a \in Addresses : SetTargetAddress(t, a)
           \/ \E a \in Addresses, m \in Machines \cup {None} : Assign(a, m)
           \/ \E m \in Machines, v \in Versions : Boot(m, v)
           \/ StudioStops
  BY Zenon DEF Next, SessionBegins

LEMMA TrustNext == ASSUME TrustInv, Next PROVE TrustInv'
<1>1. ASSUME NEW c \in Calls, NEW t \in Targets,
             \/ \E v \in Versions : PrepareNewTarget(c, t, v)
             \/ EnsureCall(c, t)
             \/ \E k \in Accepted : ConfirmHostKey(c, t, k)
             \/ SessionBegins(c, t)
      PROVE  TrustInv'
  BY <1>1, PrepareNewTargetStep, EnsureCallStep, ConfirmHostKeyStep, SessionBeginsStep
<1>2. ASSUME NEW c \in Calls,
             \/ CreatePendingTarget(c) \/ EnsureForPrepare(c)
             \/ PrepareBootstrap(c) \/ SetDesiredState(c)
             \/ ScanEnds(c) \/ Reobserve(c) \/ Trusted(c)
             \/ EnrollSession(c) \/ strictSession(c) \/ runRemote(c)
             \/ SkipRead(c) \/ ReadPart(c) \/ SessionEnds(c)
             \/ RecordObservedState(c)
      PROVE  TrustInv'
  BY <1>2, CreatePendingTargetStep, EnsureForPrepareStep, PrepareBootstrapStep,
     SetDesiredStateStep, SessionEndsStep, ReobserveStep, TrustedStep, EnrollSessionStep,
     strictSessionStep, runRemoteStep, SkipReadStep, ReadPartStep, RecordObservedStateStep
<1>3. ASSUME NEW t \in Targets, ResetTrust(t) \/ \E a \in Addresses : SetTargetAddress(t, a)
      PROVE  TrustInv'
  BY <1>3, ResetTrustStep, SetTargetAddressStep
<1> QED
  BY <1>1, <1>2, <1>3, MachineStep, StudioStopsStep, NextCases

\* The inductive invariant of the trust model holds of every behaviour.
THEOREM TrustInductive == Spec => []TrustInv
<1>1. TrustInv /\ [Next]_vars => TrustInv'
  BY TrustNext, TrustStutter
<1> QED
  BY <1>1, TrustInit, PTL DEF Spec

\* Rows, calls and histories keep their types.
THEOREM TrustTypesHold == Spec => []TypeOK
<1>1. TrustInv => TypeOK
  BY DEF TrustInv
<1> QED
  BY <1>1, TrustInductive, PTL

\* Every command of a target runs on a machine that holds a key the user
\* confirmed for it, however ConfirmHostKey, ResetTrust, SetTargetAddress, the
\* sessions and the machines interleave.
THEOREM CommandsAreConfirmed == Spec => []CommandsReachConfirmedMachines
<1>1. TrustInv => CommandsReachConfirmedMachines
  BY DEF TrustInv
<1> QED
  BY <1>1, TrustInductive, PTL

\* What RecordObservedState stores comes from one machine.
THEOREM InspectionsAreOfOneMachine == Spec => []InspectionsOfOneMachine
<1>1. TrustInv => InspectionsOfOneMachine
  BY DEF TrustInv
<1> QED
  BY <1>1, TrustInductive, PTL

\* An enrolment that Enroll reports is true of the machine and of the target.
THEOREM EnrolmentsHold == Spec => []EnrolmentsAreTrue
<1>1. TrustInv => EnrolmentsAreTrue
  BY DEF TrustInv
<1> QED
  BY <1>1, TrustInductive, PTL

\* No step changes an identity that a row refers to.
IdentityKept == \A t \in Targets : row[t].identity # None => row'[t].identity = row[t].identity

LEMMA SetRowKeeps ==
    ASSUME TrustInv, NEW t \in Targets, NEW v,
           \/ SetRow(t, "exists", v) \/ SetRow(t, "desired", v)
           \/ SetRow(t, "address", v) \/ SetRow(t, "observed", v)
    PROVE  IdentityKept
<1>1. row \in [Targets -> Rows] /\ row[t] \in Rows
  BY DEF TrustInv, TypeOK
<1>2. /\ \A u \in Targets \ {t} : row'[u] = row[u]
      /\ \/ row'[t] = [row[t] EXCEPT !.exists = v] \/ row'[t] = [row[t] EXCEPT !.desired = v]
         \/ row'[t] = [row[t] EXCEPT !.address = v] \/ row'[t] = [row[t] EXCEPT !.observed = v]
  BY <1>1 DEF SetRow
<1>3. row'[t].identity = row[t].identity
  BY <1>1, <1>2 DEF Rows
<1> QED
  BY <1>2, <1>3 DEF IdentityKept

LEMMA IdentityKeptNext == ASSUME TrustInv, Next PROVE IdentityKept
<1>0. /\ row \in [Targets -> Rows]
      /\ \A c \in Calls : call[c].target \in Targets
  BY DEF TrustInv, TypeOK, CallStates
<1>1. ASSUME UNCHANGED row PROVE IdentityKept
  BY <1>1 DEF IdentityKept
<1>2. ASSUME NEW t \in Targets, EnsureIdentity(t) PROVE IdentityKept
  BY <1>2, EnsureFacts DEF IdentityKept
<1>3. ASSUME NEW c \in Calls, NEW t \in Targets, SessionBegins(c, t) PROVE UNCHANGED row
  BY <1>3 DEF SessionBegins, Inspect, Enroll, Logs, Upload, StartRun, ObserveRun,
     SendSecrets, Control, Healthcheck, PrepareStorageCopy, TransferStorageCopy,
     CleanupStorageCopy, Begin
<1>4. ASSUME NEW c \in Calls, NEW t \in Targets,
             \/ \E v \in Versions : PrepareNewTarget(c, t, v)
             \/ EnsureCall(c, t)
             \/ \E k \in Accepted : ConfirmHostKey(c, t, k)
             \/ SessionBegins(c, t)
      PROVE  IdentityKept
  BY <1>1, <1>2, <1>3, <1>4 DEF PrepareNewTarget, EnsureCall, ConfirmHostKey
<1>5. ASSUME NEW c \in Calls, NEW t \in Targets,
             \/ row' = [row EXCEPT ![t].key = call[c].arg, ![t].trusted = TRUE]
             \/ row' = [row EXCEPT ![t].key = None, ![t].trusted = FALSE]
      PROVE  IdentityKept
  BY <1>0, <1>5 DEF IdentityKept, Rows
<1>6. ASSUME NEW c \in Calls,
             \/ CreatePendingTarget(c) \/ EnsureForPrepare(c) \/ SetDesiredState(c)
             \/ Trusted(c) \/ RecordObservedState(c)
      PROVE  IdentityKept
  <2>1. CASE CreatePendingTarget(c) \/ SetDesiredState(c)
    BY <1>0, <2>1, SetRowKeeps DEF CreatePendingTarget, SetDesiredState
  <2>2. CASE EnsureForPrepare(c)
    BY <1>0, <1>2, <2>2 DEF EnsureForPrepare
  <2>3. CASE Trusted(c)
    BY <1>0, <1>5, <2>3 DEF Trusted
  <2>4. CASE RecordObservedState(c)
    BY <1>0, <1>1, <2>4, SetRowKeeps DEF RecordObservedState
  <2> QED
    BY <1>6, <2>1, <2>2, <2>3, <2>4
<1>7. ASSUME NEW c \in Calls,
             \/ PrepareBootstrap(c) \/ ScanEnds(c) \/ Reobserve(c) \/ EnrollSession(c)
             \/ strictSession(c) \/ runRemote(c) \/ SkipRead(c) \/ ReadPart(c)
             \/ SessionEnds(c)
      PROVE  UNCHANGED row
  BY <1>7 DEF PrepareBootstrap, ScanEnds, Reobserve, EnrollSession, strictSession,
     runRemote, SkipRead, ReadPart, SessionEnds
<1>8. ASSUME NEW t \in Targets, ResetTrust(t) \/ \E a \in Addresses : SetTargetAddress(t, a)
      PROVE  IdentityKept
  <2>1. CASE ResetTrust(t)
    <3>1. row'[t] = [row[t] EXCEPT !.key = None, !.trusted = FALSE]
          /\ \A u \in Targets \ {t} : row'[u] = row[u]
      BY <1>0, <2>1 DEF ResetTrust
    <3>2. row[t] \in Rows
      BY <1>0
    <3>3. row'[t].identity = row[t].identity
      BY <3>1, <3>2 DEF Rows
    <3> QED
      BY <3>1, <3>3 DEF IdentityKept
  <2>2. CASE \E a \in Addresses : SetTargetAddress(t, a)
    BY <2>2, SetRowKeeps DEF SetTargetAddress
  <2> QED
    BY <1>8, <2>1, <2>2
<1>9. ASSUME \/ \E a \in Addresses, m \in Machines \cup {None} : Assign(a, m)
             \/ \E m \in Machines, v \in Versions : Boot(m, v)
             \/ StudioStops
      PROVE  UNCHANGED row
  BY <1>9 DEF Assign, Boot, StudioStops
<1> QED
  BY <1>1, <1>4, <1>6, <1>7, <1>8, <1>9, NextCases

\* EnsureIdentity makes a target's identity once: no later step of any call
\* changes it, and no two targets come to share one.
THEOREM IdentitiesStay == Spec => IdentitiesAreMadeOnce
<1> DEFINE A == \A t \in Targets :
          /\ row[t].identity # None => row'[t].identity = row[t].identity
          /\ \A u \in Targets \ {t} : row'[t].identity # None
                => row'[t].identity # row'[u].identity
<1>1. TrustInv /\ TrustInv' /\ [Next]_vars => [A]_vars
  <2> SUFFICES ASSUME TrustInv, TrustInv', Next PROVE A
    OBVIOUS
  <2>1. IdentityKept
    BY IdentityKeptNext
  <2>2. IdentityInv'
    BY DEF TrustInv
  <2> QED
    BY <2>1, <2>2 DEF IdentityKept, IdentityInv
<1>2. Spec => [][A]_vars
  BY <1>1, TrustInductive, PTL DEF Spec
<1> QED
  BY <1>2 DEF IdentitiesAreMadeOnce

=============================================================================
