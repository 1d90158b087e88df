-------------------------------- MODULE Trust --------------------------------
(***************************************************************************)
(* Trust in a target's SSH host key (internal/targetgateway), from the     *)
(* pending target of internal/bootstrap to the sessions every remote       *)
(* operation opens.  The HTTP handlers of Studio run concurrently and the  *)
(* gateway holds no lock: a call copies the target's row, talks to the     *)
(* network, and acts on the copy.  Machines come and go at an address.     *)
(***************************************************************************)
EXTENDS Naturals

CONSTANTS
    Targets, Addresses, Calls,
    Machines,   \* installations of a server: a reinstalled VPS is a new one
    Keys,       \* SSH host keys; a key determines algorithm and fingerprint
    Accepted,   \* the keys the user is ready to confirm
    Secrets,    \* secret ids the management state can hand out
    Versions,   \* versions of the released Cloud-init definition
    HostKeys,   \* the host keys of a machine
    Inventory,  \* how many inventories an inspection reads (four in the code)
    Rank,       \* preference of a key's algorithm, 0 when not supported
    None

ASSUME TrustConstants ==
    /\ None \notin Addresses \cup Keys \cup Secrets \cup Versions \cup Machines
    /\ HostKeys \in [Machines -> SUBSET Keys]
    /\ Rank \in [Keys -> Nat]
    /\ Accepted \subseteq Keys
    /\ Inventory \in Nat

\* Cloud-init makes fresh host keys on the first boot of a machine.
ASSUME FreshHostKeys ==
    \A m, n \in Machines : m # n => HostKeys[m] \cap HostKeys[n] = {}

VARIABLES
    row,        \* the target rows of the management state
    secrets,    \* secrets with a value
    call,       \* the calls under way
    online,     \* the machine that answers at an address
    cloud,      \* the Cloud-init definition a machine has finished
    confirmed,  \* history: the keys the user confirmed for a target
    reached,    \* history: the machines a target's commands ran on
    enrolled    \* history: enrolments reported as successful

vars == <<row, secrets, call, online, cloud, confirmed, reached, enrolled>>

\* The remote reads of one inspection, in order, each an ssh process: the
\* host, the Cloud-init status, its hardening, then Core, modules and networks.
CloudRead == 2
HardeningRead == 3
LastRead == HardeningRead + Inventory

InspectOps == {"inspect", "enroll"}

Rows == [exists : BOOLEAN, address : Addresses \cup {None},
         trusted : BOOLEAN, key : Keys \cup {None},
         identity : Secrets \cup {None}, desired : Versions \cup {None},
         observed : SUBSET Machines]

\* What a session keeps of the row it read.
Snaps == [address : Addresses \cup {None}, trusted : BOOLEAN,
          key : Keys \cup {None}, identity : Secrets \cup {None}]

NoSnap == [address |-> None, trusted |-> FALSE, key |-> None, identity |-> None]

Copy(r) == [address |-> r.address, trusted |-> r.trusted, key |-> r.key,
            identity |-> r.identity]

NoRow == [exists |-> FALSE, address |-> None, trusted |-> FALSE, key |-> None,
          identity |-> None, desired |-> None, observed |-> {}]

Labels == {"idle", "create", "ensure", "render", "desire", "lookup", "scan",
           "commit", "run", "read"}

CallStates ==
    [op : InspectOps \cup {"none", "prepare", "confirm", "command"},
     pc : Labels, target : Targets, snap : Snaps, arg : Keys \cup {None},
     want : Versions \cup {None}, at : 1..(LastRead + 1),
     from : SUBSET Machines, found : Versions \cup {None}]

Idle(t) == [op |-> "none", pc |-> "idle", target |-> t, snap |-> NoSnap,
            arg |-> None, want |-> None, at |-> 1, from |-> {},
            found |-> None]

Init ==
    /\ row = [t \in Targets |-> NoRow]
    /\ secrets = {}
    /\ call \in [Calls -> {Idle(t) : t \in Targets}]
    /\ online = [a \in Addresses |-> None]
    /\ cloud = [m \in Machines |-> None]
    /\ confirmed = {} /\ reached = {} /\ enrolled = {}

At(c, l) == call[c].pc = l

Goto(c, l) == call' = [call EXCEPT ![c].pc = l]

End(c) == call' = [call EXCEPT ![c] = Idle(@.target)]

SetRow(t, f, v) == row' = [row EXCEPT ![t][f] = v]

-----------------------------------------------------------------------------
(* Bootstrap of a target.                                                  *)

\* PrepareNewTarget: the released Cloud-init source is resolved first, the id
\* is fresh, and the row, the identity, the rendered artifact and the desired
\* state follow in steps of their own.
PrepareNewTarget(c, t, v) ==
    /\ At(c, "idle") /\ ~row[t].exists
    /\ call' = [call EXCEPT ![c] =
                   [Idle(t) EXCEPT !.op = "prepare", !.pc = "create", !.want = v]]
    /\ UNCHANGED <<row, secrets, online, cloud, confirmed, reached, enrolled>>

CreatePendingTarget(c) ==
    /\ At(c, "create") /\ ~row[call[c].target].exists
    /\ SetRow(call[c].target, "exists", TRUE)
    /\ Goto(c, "ensure")
    /\ UNCHANGED <<secrets, online, cloud, confirmed, reached, enrolled>>

\* A secret with a fresh id and a value.
CreateSecret(s) == s \notin secrets /\ secrets' = secrets \cup {s}

SSHIdentitySecretID(t) == row[t].identity

SetSSHIdentity(t, s) == SetRow(t, "identity", s)

\* Mutant: the identity reference is not read before a seed is stored.
EnsureIdentity_Always(t) ==
    /\ row[t].exists
    /\ \E s \in Secrets : CreateSecret(s) /\ SetSSHIdentity(t, s)

\* One transaction reads the identity reference and, when there is none,
\* stores a new seed and sets the reference.
EnsureIdentity(t) ==
    /\ row[t].exists
    /\ \/ SSHIdentitySecretID(t) # None /\ UNCHANGED <<row, secrets>>
       \/ /\ SSHIdentitySecretID(t) = None
          /\ \E s \in Secrets : CreateSecret(s) /\ SetSSHIdentity(t, s)

EnsureForPrepare(c) ==
    /\ At(c, "ensure") /\ EnsureIdentity(call[c].target) /\ Goto(c, "render")
    /\ UNCHANGED <<online, cloud, confirmed, reached, enrolled>>

EnsureCall(c, t) ==
    /\ At(c, "idle") /\ EnsureIdentity(t)
    /\ UNCHANGED <<call, online, cloud, confirmed, reached, enrolled>>

\* PrepareBootstrap renders the template; an error ends the call and leaves
\* the pending target behind.
PrepareBootstrap(c) ==
    /\ At(c, "render")
    /\ Goto(c, "desire") \/ End(c)
    /\ UNCHANGED <<row, secrets, online, cloud, confirmed, reached, enrolled>>

SetDesiredState(c) ==
    /\ At(c, "desire")
    /\ SetRow(call[c].target, "desired", call[c].want)
    /\ End(c)
    /\ UNCHANGED <<secrets, online, cloud, confirmed, reached, enrolled>>

\* Only the address column changes: a confirmed key stays confirmed.
SetTargetAddress(t, a) ==
    /\ row[t].exists /\ SetRow(t, "address", a)
    /\ UNCHANGED <<secrets, call, online, cloud, confirmed, reached, enrolled>>

-----------------------------------------------------------------------------
(* Host keys.                                                              *)

\* Gateway.target: a copy of the row as it is now.
Snapshot(c, t, opn, l, k) ==
    /\ At(c, "idle") /\ row[t].exists
    /\ call' = [call EXCEPT ![c] =
                   [Idle(t) EXCEPT !.op = opn, !.pc = l, !.snap = Copy(row[t]),
                       !.arg = k,
                       !.want = IF opn = "enroll" THEN row[t].desired ELSE None]]

\* The one key of the most preferred algorithm among the scanned lines; none
\* when that algorithm has two keys or no algorithm is supported.
selectHostKey(lines) ==
    {k \in lines : Rank[k] > 0
        /\ \A j \in lines \ {k} : Rank[j] > 0 => Rank[j] > Rank[k]}

\* ssh-keyscan at an address: the machine there answers with its keys, or
\* with some of them before the scan's timeout, or not at all.
KeyScans(a) ==
    IF a = None \/ online[a] = None THEN {} ELSE SUBSET HostKeys[online[a]] \ {{}}

\* The keys an observation at an address may return: ObserveHostKey shows one
\* of them to the user and changes nothing.
ObserveHostKey(a) == UNION {selectHostKey(lines) : lines \in KeyScans(a)}

ConfirmHostKey(c, t, k) ==
    /\ Snapshot(c, t, "confirm", "scan", k)
    /\ confirmed' = confirmed \cup {<<t, k>>}
    /\ UNCHANGED <<row, secrets, online, cloud, reached, enrolled>>

\* The scan fails, the call refuses what it shows, or the copied row lacks
\* what the call needs.
ScanEnds(c) ==
    /\ At(c, "scan") /\ End(c)
    /\ UNCHANGED <<row, secrets, online, cloud, confirmed, reached, enrolled>>

\* Mutant: the re-observed key is not compared with the confirmed one.
Reobserve_NoCompare(c) ==
    LET s == call[c].snap IN
    /\ At(c, "scan") /\ call[c].op = "confirm" /\ ~s.trusted
    /\ \E k \in ObserveHostKey(s.address) :
          call' = [call EXCEPT ![c].snap = NoSnap, ![c].pc = "commit", ![c].arg = k]
    /\ UNCHANGED <<row, secrets, online, cloud, confirmed, reached, enrolled>>

\* The second observation of ConfirmHostKey: the key must be the confirmed
\* one, and a row that was trusted in the copy is left as it is.
Reobserve(c) ==
    LET s == call[c].snap IN
    /\ At(c, "scan") /\ call[c].op = "confirm"
    /\ call[c].arg \in ObserveHostKey(s.address)
    /\ \/ s.trusted /\ End(c)
       \/ /\ ~s.trusted
          /\ call' = [call EXCEPT ![c].snap = NoSnap, ![c].pc = "commit"]
    /\ UNCHANGED <<row, secrets, online, cloud, confirmed, reached, enrolled>>

\* SetSSHTrust in a transaction of its own: nothing of the row is read again.
Trusted(c) ==
    /\ At(c, "commit")
    /\ row' = [row EXCEPT ![call[c].target].key = call[c].arg,
                          ![call[c].target].trusted = TRUE]
    /\ End(c)
    /\ UNCHANGED <<secrets, online, cloud, confirmed, reached, enrolled>>

ResetTrust(t) ==
    /\ row[t].exists
    /\ row' = [row EXCEPT ![t].key = None, ![t].trusted = FALSE]
    /\ UNCHANGED <<secrets, call, online, cloud, confirmed, reached, enrolled>>

-----------------------------------------------------------------------------
(* Strict sessions.                                                        *)

Begin(c, t, opn) ==
    /\ Snapshot(c, t, opn, "scan", None)
    /\ UNCHANGED <<row, secrets, online, cloud, confirmed, reached, enrolled>>

Inspect(c, t) == Begin(c, t, "inspect")
Logs(c, t) == Begin(c, t, "command")
Upload(c, t) == Begin(c, t, "command")
StartRun(c, t) == Begin(c, t, "command")
ObserveRun(c, t) == Begin(c, t, "command")
SendSecrets(c, t) == Begin(c, t, "command")
Control(c, t) == Begin(c, t, "command")
Healthcheck(c, t) == Begin(c, t, "command")
PrepareStorageCopy(c, t) == Begin(c, t, "command")
TransferStorageCopy(c, t) == Begin(c, t, "command")
CleanupStorageCopy(c, t) == Begin(c, t, "command")

\* Enroll reads the row for the desired definition, and strictSession reads
\* it again for the session.
Enroll(c, t) ==
    /\ Snapshot(c, t, "enroll", "lookup", None)
    /\ UNCHANGED <<row, secrets, online, cloud, confirmed, reached, enrolled>>

EnrollSession(c) ==
    /\ At(c, "lookup")
    /\ call' = [call EXCEPT ![c].snap = Copy(row[call[c].target]),
                          ![c].pc = "scan"]
    /\ UNCHANGED <<row, secrets, online, cloud, confirmed, reached, enrolled>>

\* strictSession: trust and key in the copy, the same key observed now, and
\* an identity whose seed resolves.  The session keeps address and key.
strictSession(c) ==
    LET s == call[c].snap IN
    /\ At(c, "scan") /\ call[c].op \in InspectOps \cup {"command"}
    /\ s.trusted /\ s.key # None
    /\ s.key \in ObserveHostKey(s.address)
    /\ s.identity \in secrets
    /\ call' = [call EXCEPT
          ![c].snap = [NoSnap EXCEPT !.address = s.address, !.key = s.key],
          ![c].pc = IF call[c].op \in InspectOps THEN "read" ELSE "run"]
    /\ UNCHANGED <<row, secrets, online, cloud, confirmed, reached, enrolled>>

\* Mutant: ssh runs with StrictHostKeyChecking=no.
Connects_Lax(c, m) ==
    call[c].snap.address # None /\ online[call[c].snap.address] = m

\* prepareSSHInvocation: ssh to the session's address with a known-hosts file
\* that holds the session's key alone and StrictHostKeyChecking=yes.
Connects(c, m) ==
    LET s == call[c].snap IN
    /\ s.address # None /\ online[s.address] = m
    /\ s.key \in HostKeys[m]

\* runRemote of an operation that sends commands: any number of them.
runRemote(c) ==
    /\ At(c, "run")
    /\ \E m \in Machines : Connects(c, m)
          /\ reached' = reached \cup {<<call[c].target, m>>}
    /\ UNCHANGED <<row, secrets, call, online, cloud, confirmed, enrolled>>

\* ssh fails, the remote command fails, or the operation is complete.
SessionEnds(c) ==
    /\ \E l \in {"run", "read", "lookup"} : At(c, l)
    /\ End(c)
    /\ UNCHANGED <<row, secrets, online, cloud, confirmed, reached, enrolled>>

\* The hardening is read only when Cloud-init reports success.
Skips(r) == r.at = HardeningRead /\ r.found = None

SkipRead(c) ==
    /\ At(c, "read") /\ call[c].at <= LastRead /\ Skips(call[c])
    /\ call' = [call EXCEPT ![c].at = @ + 1]
    /\ UNCHANGED <<row, secrets, online, cloud, confirmed, reached, enrolled>>

\* Mutant: one read too many.
ReadPart_TooMany(c) ==
    /\ At(c, "read") /\ ~Skips(call[c])
    /\ \E m \in Machines : Connects(c, m)
    /\ call' = [call EXCEPT ![c].at = @ + 1]
    /\ UNCHANGED <<row, secrets, online, cloud, confirmed, reached, enrolled>>

ReadPart(c) ==
    LET r == call[c] IN
    /\ At(c, "read") /\ r.at <= LastRead /\ ~Skips(r)
    /\ \E m \in Machines : Connects(c, m)
          /\ reached' = reached \cup {<<r.target, m>>}
          /\ call' = [call EXCEPT ![c] =
                [r EXCEPT !.at = r.at + 1, !.from = r.from \cup {m},
                    !.found = IF r.at = CloudRead THEN cloud[m] ELSE r.found]]
    /\ UNCHANGED <<row, secrets, online, cloud, confirmed, enrolled>>

\* Mutant: the finished definition is not compared with the desired one.
validateEnrollment_AnyVersion(r) == r.found # None

\* validateEnrollment against the desired state of the first copy.  It also
\* refuses any host whose facts differ from Primary Host Hardening, or that
\* has Core or modules: those facts are the machine's, and may be anything.
validateEnrollment(r) == r.found # None /\ r.want = r.found

\* RecordObservedState; an enrolment is recorded and reported only when valid.
RecordObservedState(c) ==
    LET r == call[c] IN
    /\ At(c, "read") /\ r.at > LastRead
    /\ \/ r.op = "enroll" /\ UNCHANGED <<row, enrolled>>
       \/ /\ r.op = "inspect" \/ (r.op = "enroll" /\ validateEnrollment(r))
          /\ SetRow(r.target, "observed", r.from)
          /\ enrolled' = IF r.op = "inspect" THEN enrolled
                         ELSE enrolled \cup {<<r.target, m, r.found>> : m \in r.from}
    /\ End(c)
    /\ UNCHANGED <<secrets, online, cloud, confirmed, reached>>

-----------------------------------------------------------------------------
(* The network and the machines (external).                                *)

\* The provider puts a machine at an address, or takes it away.
Assign(a, m) ==
    /\ online' = [online EXCEPT ![a] = m]
    /\ UNCHANGED <<row, secrets, call, cloud, confirmed, reached, enrolled>>

\* Cloud-init finishes on a machine, once.
Boot(m, v) ==
    /\ cloud[m] = None
    /\ cloud' = [cloud EXCEPT ![m] = v]
    /\ UNCHANGED <<row, secrets, call, online, confirmed, reached, enrolled>>

\* The Studio process stops; rows and secrets are on disk.
StudioStops ==
    /\ call' = [c \in Calls |-> Idle(call[c].target)]
    /\ UNCHANGED <<row, secrets, online, cloud, confirmed, reached, enrolled>>

Next ==
    \/ \E c \in Calls :
         \/ \E t \in Targets :
              \/ \E v \in Versions : PrepareNewTarget(c, t, v)
              \/ EnsureCall(c, t)
              \/ \E k \in Accepted : ConfirmHostKey(c, t, k)
              \/ Inspect(c, t) \/ Enroll(c, t) \/ Logs(c, t)
              \/ Upload(c, t) \/ StartRun(c, t) \/ ObserveRun(c, t)
              \/ SendSecrets(c, t) \/ Control(c, t) \/ Healthcheck(c, t)
              \/ PrepareStorageCopy(c, t) \/ TransferStorageCopy(c, t)
              \/ CleanupStorageCopy(c, t)
         \/ CreatePendingTarget(c) \/ EnsureForPrepare(c)
         \/ PrepareBootstrap(c) \/ SetDesiredState(c)
         \/ ScanEnds(c) \/ Reobserve(c) \/ Trusted(c)
         \/ EnrollSession(c) \/ strictSession(c) \/ runRemote(c)
         \/ SkipRead(c) \/ ReadPart(c) \/ SessionEnds(c)
         \/ RecordObservedState(c)
    \/ \E t \in Targets : ResetTrust(t) \/ \E a \in Addresses : SetTargetAddress(t, a)
    \/ \E a \in Addresses, m \in Machines \cup {None} : Assign(a, m)
    \/ \E m \in Machines, v \in Versions : Boot(m, v)
    \/ StudioStops

Spec == Init /\ [][Next]_vars

-----------------------------------------------------------------------------
(* Properties.                                                             *)

TypeOK ==
    /\ row \in [Targets -> Rows]
    /\ secrets \in SUBSET Secrets
    /\ call \in [Calls -> CallStates]
    /\ online \in [Addresses -> Machines \cup {None}]
    /\ cloud \in [Machines -> Versions \cup {None}]
    /\ confirmed \in SUBSET (Targets \X Keys)
    /\ reached \in SUBSET (Targets \X Machines)
    /\ enrolled \in SUBSET (Targets \X Machines \X Versions)

\* A command of a target, whatever session it belongs to, runs only on a
\* machine that holds a key the user confirmed for this target: although the
\* address, the machine behind it, the key and the trust may all change
\* between the row a session copied and its last ssh process.
CommandsReachConfirmedMachines ==
    \A r \in reached : \E k \in HostKeys[r[2]] : <<r[1], k>> \in confirmed

\* The observed state recorded for a target is that of one machine, even when
\* the address moves to another machine between two reads of the inspection.
InspectionsOfOneMachine ==
    \A t \in Targets : \A m, n \in row[t].observed : m = n

\* An enrolment reported as successful is true: the machine that was inspected
\* has finished Cloud-init with the definition the target desires, and the
\* user confirmed a key of that machine for that target.
EnrolmentsAreTrue ==
    \A e \in enrolled :
        /\ cloud[e[2]] = e[3]
        /\ row[e[1]].desired = e[3]
        /\ \E k \in HostKeys[e[2]] : <<e[1], k>> \in confirmed

\* The administrative identity of a target is made once: no later call changes
\* it, and no two targets share one (EnsureIdentity under concurrent calls).
IdentitiesAreMadeOnce ==
    [][\A t \in Targets :
          /\ row[t].identity # None => row'[t].identity = row[t].identity
          /\ \A u \in Targets \ {t} : row'[t].identity # None
                => row'[t].identity # row'[u].identity]_vars

\* What decision 0004 says of a trusted key: another one takes its place only
\* after ResetTrust.
TrustReplacedOnlyAfterReset ==
    [][\A t \in Targets : row[t].trusted /\ row'[t].trusted
          => row'[t].key = row[t].key]_vars

-----------------------------------------------------------------------------
(* The inductive invariant behind these properties (see TrustProofs).      *)

\* Every key a row, a session or a confirmation holds was confirmed.
KeyInv ==
    /\ \A t \in Targets : row[t].key # None => <<t, row[t].key>> \in confirmed
    /\ \A c \in Calls :
          /\ call[c].snap.key # None => <<call[c].target, call[c].snap.key>> \in confirmed
          /\ call[c].arg # None => <<call[c].target, call[c].arg>> \in confirmed

\* An inspection read only machines that hold its session's key.
ReadInv ==
    \A c \in Calls :
        /\ ~At(c, "read") => call[c].from = {}
        /\ call[c].from = {} => call[c].found = None
        /\ \A m \in call[c].from : /\ call[c].snap.key \in HostKeys[m]
                                   /\ call[c].found \in {None, cloud[m]}

Preparing(c) == call[c].pc \in {"ensure", "render", "desire"}

\* One call at most prepares a target, and until it ends nothing is desired.
DesiredInv ==
    /\ \A t \in Targets : ~row[t].exists => row[t].desired = None
    /\ \A c \in Calls : Preparing(c) => /\ row[call[c].target].exists
                                        /\ row[call[c].target].desired = None
    /\ \A c, d \in Calls :
          Preparing(c) /\ Preparing(d) /\ call[c].target = call[d].target => c = d
    /\ \A c \in Calls : call[c].op = "enroll" /\ call[c].want # None
          => row[call[c].target].desired = call[c].want

IdentityInv ==
    /\ \A t \in Targets : row[t].identity # None => row[t].identity \in secrets
    /\ \A t, u \in Targets : row[t].identity # None /\ t # u
          => row[t].identity # row[u].identity

TrustInv ==
    /\ TypeOK /\ KeyInv /\ ReadInv /\ DesiredInv /\ IdentityInv
    /\ CommandsReachConfirmedMachines /\ InspectionsOfOneMachine /\ EnrolmentsAreTrue

=============================================================================
