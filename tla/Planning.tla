------------------------------ MODULE Planning ------------------------------
(***************************************************************************)
(* From the facts of a target to a deployed plan: the network facts of the *)
(* inspector, deploymentinput.Networks, deployment.Compiler.Prepare, and   *)
(* the artifacts the target runner applies.  Planning and execution are    *)
(* separate calls: between the inspection, the plan and its execution, the *)
(* target, the registry and other plans move on.                           *)
(***************************************************************************)
EXTENDS ModuleContract

CONSTANTS
    Order,          \* the module instances, in the order of their names
    Packages,       \* immutable module packages
    Catalogues,     \* the contracts the packages may hold
    Core,           \* the core contract of the target
    Digests,        \* manifest digests a registry can answer
    Named,          \* what objects of an instance are called
    Seed,           \* where a relationship starts to look for a subnet
    Requests,       \* what a caller may ask the compiler for
    Probes,         \* candidate Link-Net subnets (4096 in the code)
    ForeignNetworks, \* networks that others may create
    Callers,        \* which observed facts a caller hands to the compiler
    MaxForeign,     \* bound: foreign network changes and image retags
    MaxRuns,        \* bound: executions
    MaxInspections, \* bound: inspections
    None

Instances == Range(Order)
Relationships == DOMAIN Seed

\* What the instances' objects are called in the contracts.
Objects == UNION {UNION {Ids(cat[p].containers) \cup Ids(cat[p].networks) : p \in Packages} :
                     cat \in Catalogues}

ASSUME PlanningConstants ==
    /\ Probes \in Nat \ {0} /\ MaxForeign \in Nat /\ MaxRuns \in Nat /\ MaxInspections \in Nat
    /\ Callers \subseteq {"inspected", "identified"} /\ Callers # {}
    /\ Digests # {} /\ IsInjective(Order)
    /\ \A r \in Relationships : Seed[r] \in Nat /\ r # None
    /\ \A n \in ForeignNetworks : n.rel \in Relationships \cup {None}

\* A name is made from the instance and the object, so one instance never
\* gives two of its objects the same name.
ASSUME NamesOfAnInstance ==
    /\ Instances \X Objects \subseteq DOMAIN Named
    /\ \A i \in Instances : \A x, y \in Objects : Named[<<i, x>>] = Named[<<i, y>>] => x = y

\* Storage has a path, and a dependency is a record of three fields.
ASSUME ContractFields ==
    \A cat \in Catalogues : \A p \in Packages :
        /\ \A s \in Range(cat[p].persistent) : s.path # None
        /\ \A d \in Range(cat[p].dependencies) :
              d = [module |-> d.module, interface |-> d.interface, consumer |-> d.consumer]

\* Every instance of a request is known, and so is every relationship that
\* its modules can have.
ASSUME RequestedModules ==
    \A req \in Requests :
        /\ DOMAIN req.mods \subseteq Instances
        /\ \A cat \in Catalogues : \A i, j \in DOMAIN req.mods :
              \A d \in Range(cat[req.mods[j].package].dependencies) :
                 /\ cat[req.mods[i].package].id = d.module
                 /\ d.interface \in Ids(cat[req.mods[i].package].interfaces)
                 => <<i, d.interface, j, d.consumer>> \in Relationships

VARIABLES
    catalogue,  \* what the packages hold
    registry,   \* image reference -> manifest digest
    files,      \* generated files on the target, path -> content
    nets,       \* the Podman networks of the target
    scan,       \* the inspection under way
    obs,        \* the observed state in the management state
    plan,       \* the prepared operation
    run,        \* the execution under way, or the last one
    foreign, runs, inspections  \* counters for the bounds

vars == <<catalogue, registry, files, nets, scan, obs, plan, run, foreign, runs, inspections>>

Empty == [x \in {} |-> None]

\* A module's files, containers and networks are named after its instance;
\* distinct pairs may have the same name.
Name(i, x) == Named[<<i, x>>]

Caddyfile == <<"core", "Caddyfile">>
Authelia == <<"core", "authelia-access-control.yml">>
CaddyNetworks == <<"core", "caddy-networks.conf">>
LinkInventory == <<"inventory", "link-networks.json">>
ModuleInventory == <<"inventory", "modules.json">>
ContainerFile(i, c) == <<"container", Name(i, c)>>
NetworkFile(i, n) == <<"network", Name(i, n)>>
LinkFile(rel) == <<"link", rel>>

Installed(fs) == IF ModuleInventory \in DOMAIN fs THEN fs[ModuleInventory] ELSE {}
Declared(fs) == IF LinkInventory \in DOMAIN fs THEN fs[LinkInventory] ELSE {}

\* Mutant: the probe does not wrap around.
Candidate_Unmasked(v) == {v}

\* A subnet is the set of its /24 blocks.
Candidate(v) == {v % Probes}

NoScan == [at |-> "idle", modules |-> {}, todo |-> {}, hashes |-> {}, links |-> {},
           present |-> {}, networks |-> {}, seen |-> Empty]

NoObservation == [modules |-> {}, ids |-> FALSE, hashes |-> {}, networks |-> {},
                  seen |-> Empty]

NoRun == [status |-> "none", plan |-> None, todo |-> {}, fresh |-> FALSE]

Refs == UNION {UNION {cat[p].images : p \in Packages} : cat \in Catalogues}

Init ==
    /\ catalogue \in Catalogues
    /\ registry \in [Refs -> {CHOOSE d \in Digests : TRUE}]
    /\ files = Empty /\ nets = {}
    /\ scan = NoScan /\ obs = NoObservation /\ plan = None /\ run = NoRun
    /\ foreign = 0 /\ runs = 0 /\ inspections = 0

-----------------------------------------------------------------------------
(* Others on the target and in the registry.                               *)

\* Bound: facts, networks and the registry are followed while a plan can still
\* be made from them.
CanPlan == runs < IF plan = None THEN MaxRuns ELSE MaxRuns - 1

\* (A run touches neither networks nor registry: they change between runs.)
Disturb ==
    run.status # "running" /\ CanPlan /\ foreign < MaxForeign /\ foreign' = foreign + 1

\* Podman gives every network a name and address ranges of its own.
Fits(name, subnets) ==
    \A n \in nets : n.name # name /\ (UNION n.subnets) \cap (UNION subnets) = {}

\* It may have the name of a Link-Net or the label of a relationship.
ForeignNetwork(n) ==
    /\ Disturb /\ Fits(n.name, n.subnets)
    /\ nets' = nets \cup {n}
    /\ UNCHANGED <<catalogue, registry, files, scan, obs, plan, run, runs, inspections>>

RemoveNetwork(n) ==
    /\ Disturb /\ nets' = nets \ {n}
    /\ UNCHANGED <<catalogue, registry, files, scan, obs, plan, run, runs, inspections>>

Retag(ref, d) ==
    /\ Disturb /\ registry[ref] # d /\ registry' = [registry EXCEPT ![ref] = d]
    /\ UNCHANGED <<catalogue, files, nets, scan, obs, plan, run, runs, inspections>>

\* systemd creates the network of a generated Link-Net unit.
CreateLinkNetwork(p) ==
    /\ p[1] = "link" /\ CanPlan /\ Fits(p, {files[p]})
    /\ nets' = nets \cup {[name |-> p, subnets |-> {files[p]}, rel |-> p[2]]}
    /\ UNCHANGED <<catalogue, registry, files, scan, obs, plan, run, foreign, runs, inspections>>

-----------------------------------------------------------------------------
(* The observation: every read is an ssh process of its own, and a run, a  *)
(* Link-Net or other networks may come between two of them.                *)

Reads(step) == CanPlan /\ scan.at = step

\* The hashes of artifacts, each read for each module that lists it.
Hashes(reads) == {<<p, files[p]>> : p \in {x[2] : x \in reads} \cap DOMAIN files}

\* moduleFacts: modules.json, then the artifacts its entries list.  (Files
\* change only in a run: between runs the artifacts are read at once, and an
\* inspection whose reads a run separates is taken to start in that run.)
ReadModules ==
    LET reads == UNION {{e.instance} \X e.managed : e \in Installed(files)}
        now == IF run.status = "running" THEN {} ELSE reads
    IN  /\ Reads("idle") /\ inspections < MaxInspections /\ inspections' = inspections + 1
        /\ scan' = [NoScan EXCEPT !.at = "artifacts", !.modules = Installed(files),
                      !.todo = reads \ now, !.hashes = Hashes(now),
                      !.seen = IF run.status = "successful" THEN files ELSE Empty]
        /\ UNCHANGED <<catalogue, registry, files, nets, obs, plan, run, foreign, runs>>

\* The order of the paths of artifacts.
Phase(p) == CASE p = Caddyfile -> 1 [] p = Authelia -> 2 [] p = CaddyNetworks -> 3
              [] p = LinkInventory -> 4 [] p = ModuleInventory -> 5 [] OTHER -> 6

Place(i) == CHOOSE k \in DOMAIN Order : Order[k] = i

Before(v, w) == v[1] < w[1] \/ (v[1] = w[1] /\ v[2] < w[2])

\* Module after module, and the artifacts of a module in the order of paths.
NextArtifact ==
    CHOOSE x \in scan.todo : \A y \in scan.todo :
        ~Before(<<Place(y[1]), Phase(y[2])>>, <<Place(x[1]), Phase(x[2])>>)

ReadArtifact ==
    /\ Reads("artifacts")
    /\ \E x \in scan.todo :
          /\ x = NextArtifact
          /\ scan' = [scan EXCEPT !.todo = @ \ {x}, !.hashes = @ \cup Hashes({x})]
    /\ UNCHANGED <<catalogue, registry, files, nets, obs, plan, run, foreign, runs, inspections>>

\* linkFacts: link-networks.json, then the network of every entry.
ReadLinks ==
    /\ Reads("artifacts") /\ scan.todo = {}
    /\ scan' = [scan EXCEPT !.at = "links", !.links = Declared(files), !.todo = Declared(files)]
    /\ UNCHANGED <<catalogue, registry, files, nets, obs, plan, run, foreign, runs, inspections>>

Present(l) == \E n \in nets : n.name = LinkFile(l.rel)

ReadLink ==
    /\ Reads("links") /\ scan.todo # {}
    /\ LET l == CHOOSE l \in scan.todo : TRUE
       IN  scan' = [scan EXCEPT !.todo = @ \ {l},
                      !.present = @ \cup {k \in {l} : Present(k)}]
    /\ UNCHANGED <<catalogue, registry, files, nets, obs, plan, run, foreign, runs, inspections>>

\* planningNetworkFacts: all networks, then link-networks.json once more.
ReadNetworks ==
    /\ Reads("links") /\ scan.todo = {}
    /\ scan' = [scan EXCEPT !.at = "networks", !.networks = nets]
    /\ UNCHANGED <<catalogue, registry, files, nets, obs, plan, run, foreign, runs, inspections>>

\* The entry of the second read that has the name of a link of the first.
Entries(l) == {d \in Declared(files) : d.rel = l.rel}

\* An entry matches when the listed network has the one subnet and the
\* relationship label it declares.
DefinitionMatches(l) ==
    \E d \in Entries(l) :
        [name |-> LinkFile(d.rel), subnets |-> {d.subnet}, rel |-> d.rel] \in scan.networks

\* A link of the first read must be in the second, and a Link-Net that differs
\* from its definition refuses the whole observation.
NetworksAgree ==
    /\ \A l \in scan.links : Entries(l) # {}
    /\ \A l \in scan.present : DefinitionMatches(l)

\* The networks the compiler is given: matching Link-Nets with their
\* relationship, every other network as foreign, once for each subnet.
Networks ==
    LET managed == UNION {Entries(l) : l \in scan.present}
        others == {n \in scan.networks : \A l \in managed : n.name # LinkFile(l.rel)}
    IN  {[name |-> LinkFile(l.rel), subnet |-> l.subnet, rel |-> l.rel] : l \in managed}
        \cup (UNION {{[name |-> n.name, subnet |-> s, rel |-> None] : s \in n.subnets} :
                        n \in others})
        \cup {[name |-> n.name, subnet |-> None, rel |-> None] :
                 n \in {x \in others : x.subnets = {}}}

\* The last read, and what the compiler's caller makes of the facts.  The
\* inspector reads neither module ids nor image digests of modules.json; a
\* caller may add them ("identified"), as the compiler's tests do.
Inspect(caller) ==
    /\ Reads("networks") /\ NetworksAgree
    /\ obs' = [modules |-> {[e EXCEPT !.images = IF caller = "identified" THEN @ ELSE Empty] :
                               e \in scan.modules},
               ids |-> caller = "identified", hashes |-> scan.hashes,
               networks |-> Networks, seen |-> IF scan.seen = files THEN files ELSE Empty]
    /\ scan' = NoScan
    /\ UNCHANGED <<catalogue, registry, files, nets, plan, run, foreign, runs, inspections>>

\* The reads contradict each other: nothing is recorded.  (An inspection that
\* fails in one of its commands records nothing either: it is not started.)
InspectFails ==
    /\ Reads("networks") /\ ~NetworksAgree /\ scan' = NoScan
    /\ UNCHANGED <<catalogue, registry, files, nets, obs, plan, run, foreign, runs, inspections>>

-----------------------------------------------------------------------------
(* Compiler.Prepare.  A request names an operation, a subject, the desired *)
(* modules (instance -> package and secret bindings), the package of a     *)
(* subject to uninstall, and claims that others hold on the target.        *)

Operations == {"install", "update", "reconfigure", "uninstall", "restore", "validate"}

Contract(mods, i) == catalogue[mods[i].package]

validateSecretBindings(m, bindings) == DOMAIN bindings = Ids(m.secrets)

Compiling == [cat \in Catalogues |-> {p \in Packages : Compile(cat[p])}]

CompilesFor(mod) ==
    /\ mod.package \in Compiling[catalogue] /\ catalogue[mod.package].core = Core
    /\ validateSecretBindings(catalogue[mod.package], mod.secrets)

compileModules(mods) == \A i \in DOMAIN mods : CompilesFor(mods[i])

Images(mod) == [r \in catalogue[mod.package].images |-> registry[r]]

validateSubject(op, subject, mods) == op # "uninstall" => subject \in DOMAIN mods

\* The frozen package of a module to uninstall is the installed one, and its
\* images still have the digests that were observed.
compileDetachedSubject(op, subject, mods, source) ==
    op = "uninstall" =>
        /\ subject \notin DOMAIN mods /\ CompilesFor(source)
        /\ \E e \in obs.modules :
              /\ e.instance = subject /\ e.package = source.package
              /\ \A r \in DOMAIN e.images : e.images[r] = registry[r]

Providers(mods, module) == {i \in DOMAIN mods : Contract(mods, i).id = module}

Offers(mods, i, d) == d.interface \in Ids(Contract(mods, i).interfaces)

\* Mutant: the first of several providers is taken.
resolveProvider_First(mods, d) == \E i \in Providers(mods, d.module) : Offers(mods, i, d)

resolveProvider(mods, d) ==
    \E i \in Providers(mods, d.module) :
        Providers(mods, d.module) = {i} /\ Offers(mods, i, d)

\* The dependencies of the desired modules, <<k, j>> for the j-th of Order[k],
\* in the order of consumers and of their contract.
Wants(mods) ==
    UNION {{k} \X DOMAIN Contract(mods, Order[k]).dependencies :
              k \in {x \in DOMAIN Order : Order[x] \in DOMAIN mods}}

Dependency(mods, w) == Contract(mods, Order[w[1]]).dependencies[w[2]]

Relationship(mods, w) ==
    LET d == Dependency(mods, w)
    IN  <<CHOOSE i \in Providers(mods, d.module) : Offers(mods, i, d),
          d.interface, Order[w[1]], d.consumer>>

\* Networks that contradict each other refuse the request.
ObservedConsistent(ns) ==
    \A n, m \in ns :
        LET same == n.rel = m.rel /\ (n.rel = None => n.name = m.name)
        IN  /\ n.name = m.name => same
            /\ n.subnet # None /\ n.subnet = m.subnet => same
            /\ n.rel # None /\ n.rel = m.rel => n = m

\* The first candidate from the relationship's seed on that no network uses.
chooseSubnet(rel, used, links) ==
    LET taken == used \cup {l.subnet : l \in links}
        free == {k \in 0..(Probes - 1) : Candidate(Seed[rel] + k) \notin taken}
    IN  IF free = {} THEN None ELSE Candidate(Seed[rel] + Min(free))

\* A relationship keeps the subnet it was observed with; a new one needs an
\* unused name and takes a candidate.
selectLinkSubnet(rel, links) ==
    LET own == {n \in obs.networks : n.rel = rel}
        named == {n \in obs.networks : n.name = LinkFile(rel)}
    IN  CASE own # {} ->
               LET n == CHOOSE n \in own : TRUE
               IN  IF n.name # LinkFile(rel) \/ \E l \in links : l.subnet = n.subnet
                   THEN None ELSE n.subnet
          [] own = {} /\ named # {} -> None
          [] OTHER -> chooseSubnet(rel, {n.subnet : n \in obs.networks}, links)

LinksFor(mods, wants, subnet) ==
    {[rel |-> Relationship(mods, w), subnet |-> subnet[w]] : w \in wants}

\* The links of the desired modules, each chosen after the earlier ones; no
\* result when a dependency cannot be resolved or linked.
deriveLinks(mods) ==
    LET wants == Wants(mods)
        subnets == {Candidate(Seed[r] + k) : r \in Relationships, k \in 0..(Probes - 1)}
                   \cup {n.subnet : n \in obs.networks}
        Chosen(subnet, w) ==
          subnet[w] = selectLinkSubnet(Relationship(mods, w),
                          LinksFor(mods, {v \in wants : Before(v, w)}, subnet))
    IN  {LinksFor(mods, wants, subnet) : subnet \in
            {f \in [wants -> subnets \ {None}] :
                /\ ObservedConsistent(obs.networks)
                /\ \A w \in wants : resolveProvider(mods, Dependency(mods, w)) /\ Chosen(f, w)}}

\* What an instance claims for itself.
deriveClaims(mods, i) ==
    LET m == Contract(mods, i)
    IN  {<<"container", Name(i, c)>> : c \in Ids(m.containers)}
        \cup {<<"path", s.path>> : s \in Range(m.persistent)}
        \cup {<<"network", Name(i, n)>> : n \in Ids(m.networks)}
        \cup {<<"hostname", r.host>> : r \in Range(m.routes)}
        \cup {<<"secret", mods[i].secrets[s]>> : s \in DOMAIN mods[i].secrets}

\* Mutant: only claims that others hold on the target are compared.
validateClaims_Observed(mods, links, claims) ==
    \A i \in DOMAIN mods :
        \A c \in claims : c.claim \in deriveClaims(mods, i) => c.owner = i

\* Claims of two owners are disjoint, and a claim observed on the target
\* belongs to the instance that makes it.
validateClaims(mods, links, claims) ==
    /\ \A i, j \in DOMAIN mods :
          i # j => deriveClaims(mods, i) \cap deriveClaims(mods, j) = {}
    /\ \A l, k \in links : l # k => l.subnet # k.subnet
    /\ \A i \in DOMAIN mods :
          \A c \in claims : c.claim \in deriveClaims(mods, i) => c.owner = i

validateProviderRemoval(op, subject, mods) ==
    op = "uninstall" /\ obs.ids =>
        \A e \in obs.modules : e.instance = subject =>
            \A i \in DOMAIN mods :
                \A d \in Range(Contract(mods, i).dependencies) :
                    d.module # catalogue[e.package].id

\* The versions a subject was observed with.
Versions(subject) ==
    {catalogue[e.package].version : e \in {x \in obs.modules : x.instance = subject}}

validateUpdate(op, subject, mods) ==
    op = "update" =>
        \E v \in Versions(subject) : v \in DOMAIN Contract(mods, subject).updateFrom

\* buildPlan: the transition's actions, then the subject's validation.
Actions(op, subject, mods) ==
    LET m == Contract(mods, subject)
        v == CHOOSE v \in Versions(subject) : TRUE
    IN  IF subject \notin DOMAIN mods THEN <<>>
        ELSE (IF op = "update" THEN m.updateFrom[v] ELSE <<>>) \o <<m.validation>>

\* Assemble refuses two files with one path; action files are named after
\* their scripts.
Assembles(subject, mods, actions) ==
    subject \in DOMAIN mods =>
        \A a, b \in Range(actions) :
            Contract(mods, subject).actions[a] = Contract(mods, subject).actions[b] => a = b

-----------------------------------------------------------------------------
(* The generators: every file is a complete output of the desired state.   *)

\* Containers on the two ends of a relationship.
ProviderEnd(mods, rel) ==
    LET f == CHOOSE f \in Range(Contract(mods, rel[1]).interfaces) : f.id = rel[2]
    IN  <<rel[1], f.container>>

ConsumerEnd(rel) == <<rel[3], rel[4]>>

storagePath(m, id) ==
    IF id \in Ids(m.persistent)
    THEN (CHOOSE s \in Range(m.persistent) : s.id = id).path ELSE None

generateContainer(mods, i, c, links) ==
    LET provided == {l \in links : ProviderEnd(mods, l.rel) = <<i, c.id>>}
        consumed == {l \in links : ConsumerEnd(l.rel) = <<i, c.id>>}
    IN  [image |-> Images(mods[i])[c.image],
         networks |-> {NetworkFile(i, n) : n \in Range(c.networks)}
                      \cup {LinkFile(l.rel) : l \in provided \cup consumed},
         aliases |-> {l.rel : l \in provided},
         volumes |-> {storagePath(Contract(mods, i), x.storage) : x \in Range(c.mounts)},
         secrets |-> {mods[i].secrets[s.id] : s \in
                         {x \in Range(Contract(mods, i).secrets) : c.id \in x.containers}}]

\* One site of Caddyfile, and one rule of Authelia, for every route.
Routes(mods) ==
    UNION {{[instance |-> i, route |-> r] : r \in Range(Contract(mods, i).routes)} :
              i \in DOMAIN mods}

\* The edge networks of the containers that have a route.
generateCaddyNetworks(mods) ==
    UNION {{NetworkFile(i, n.id) : n \in {x \in Range(Contract(mods, i).networks) :
              /\ x.role = "edge"
              /\ \E c \in Range(Contract(mods, i).containers) :
                    /\ x.id \in Range(c.networks)
                    /\ \E r \in Range(Contract(mods, i).routes) : r.container = c.id}} :
              i \in DOMAIN mods}

Quadlets(mods, i) ==
    {ContainerFile(i, c) : c \in Ids(Contract(mods, i).containers)}
    \cup {NetworkFile(i, n) : n \in Ids(Contract(mods, i).networks)}

\* An entry of modules.json; caddy-networks.conf and the inventories are not
\* among the managed artifacts of a module.
generateInventory(mods, links) ==
    {[instance |-> i, package |-> mods[i].package, images |-> Images(mods[i]),
      managed |-> Quadlets(mods, i) \cup {Caddyfile, Authelia}
                  \cup {LinkFile(l.rel) : l \in {x \in links : i \in {x.rel[1], x.rel[3]}}}] :
        i \in DOMAIN mods}

\* The paths of the generated files, and what each file says.
Paths(mods, links) ==
    {Caddyfile, Authelia, CaddyNetworks, LinkInventory, ModuleInventory}
    \cup (UNION {Quadlets(mods, i) : i \in DOMAIN mods})
    \cup {LinkFile(l.rel) : l \in links}

Content(mods, links, p) ==
    LET Part(list) == CHOOSE x \in UNION {{i} \X Range(Contract(mods, i)[list]) :
                                             i \in DOMAIN mods} :
                         Name(x[1], x[2].id) = p[2]
    IN  CASE p \in {Caddyfile, Authelia} -> Routes(mods)
          [] p = CaddyNetworks -> generateCaddyNetworks(mods)
          [] p = LinkInventory -> links
          [] p = ModuleInventory -> generateInventory(mods, links)
          [] p[1] = "link" -> (CHOOSE l \in links : l.rel = p[2]).subnet
          [] p[1] = "network" -> Part("networks")[2].role
          [] p[1] = "container" ->
               LET x == Part("containers") IN generateContainer(mods, x[1], x[2], links)

generateArtifacts(mods, links) == [p \in Paths(mods, links) |-> Content(mods, links, p)]

\* What was observed of modules and their artifacts travels with the plan.
preconditions ==
    [modules |-> {[instance |-> e.instance, package |-> e.package] : e \in obs.modules},
     hashes |-> obs.hashes, seen |-> obs.seen]

\* Preparing reads nothing that a run changes, so a request made during a run
\* is taken at its end; a plan that is replaced before it runs is not made, and
\* an inspection that ends after the last plan is made is not followed.
Prepare(req) ==
    LET mods == req.mods
        actions == Actions(req.op, req.subject, mods)
    IN  /\ run.status # "running" /\ plan = None /\ CanPlan
        /\ scan.at = "idle" \/ runs + 1 < MaxRuns
        /\ compileModules(mods)
        /\ validateSubject(req.op, req.subject, mods)
        /\ compileDetachedSubject(req.op, req.subject, mods, req.source)
        /\ validateProviderRemoval(req.op, req.subject, mods)
        /\ validateUpdate(req.op, req.subject, mods)
        /\ Assembles(req.subject, mods, actions)
        /\ \E links \in deriveLinks(mods) :
              /\ validateClaims(mods, links, req.claims)
              /\ plan' = [validation |-> req.op = "validate", actions |-> actions,
                          links |-> links, files |-> generateArtifacts(mods, links),
                          known |-> preconditions]
        /\ UNCHANGED <<catalogue, registry, files, nets, scan, obs, run, foreign, runs, inspections>>

-----------------------------------------------------------------------------
(* The execution of a plan by the target runner (see TargetRunner).        *)

check_preconditions(o) ==
    /\ \A e \in o.modules :
          \E x \in Installed(files) : x.instance = e.instance /\ x.package = e.package
    /\ \A h \in o.hashes : h[1] \in DOMAIN files /\ files[h[1]] = h[2]

StartRun ==
    /\ plan # None /\ run.status # "running" /\ runs < MaxRuns
    /\ check_preconditions(plan.known)
    /\ run' = [status |-> "running", plan |-> plan,
               fresh |-> run.status = "successful" /\ plan.known.seen = files,
               todo |-> IF plan.validation THEN {} ELSE DOMAIN plan.files]
    /\ runs' = runs + 1 /\ plan' = None
    /\ UNCHANGED <<catalogue, registry, files, nets, scan, obs, foreign, inspections>>

\* Files are applied in the order of their paths in the bundle.
NextFile == CHOOSE p \in run.todo : \A q \in run.todo : Phase(p) <= Phase(q)

\* Mutant: a file is replaced whatever it holds.
Replaceable_Always(p) == TRUE

\* A file is replaced only by the plan that knows its old content.
Replaceable(p) ==
    p \in DOMAIN files =>
        files[p] = run.plan.files[p] \/ <<p, files[p]>> \in run.plan.known.hashes

apply_artifact ==
    /\ run.status = "running" /\ run.todo # {}
    /\ LET p == NextFile IN
         /\ Replaceable(p)
         /\ files' = [q \in DOMAIN files \cup {p} |->
                        IF q = p THEN run.plan.files[p] ELSE files[q]]
         /\ run' = [run EXCEPT !.todo = @ \ {p}]
    /\ UNCHANGED <<catalogue, registry, nets, scan, obs, plan, foreign, runs, inspections>>

Stop(status) ==
    /\ run' = [run EXCEPT !.status = status, !.plan = None, !.todo = {}]
    /\ UNCHANGED <<catalogue, registry, files, nets, scan, obs, plan, foreign, runs, inspections>>

Drift ==
    /\ run.status = "running" /\ run.todo # {} /\ ~Replaceable(NextFile)
    /\ Stop("drift")

\* The actions ran, and every file of the desired state is as generated.
post_state ==
    /\ run.status = "running" /\ run.todo = {}
    /\ \A p \in DOMAIN run.plan.files : p \in DOMAIN files /\ files[p] = run.plan.files[p]
    /\ Stop("successful")

\* A step failed, the post-state differs, or the runner was killed.
Fail == run.status = "running" /\ Stop("failed")

-----------------------------------------------------------------------------
Next ==
    \/ \E n \in ForeignNetworks : ForeignNetwork(n)
    \/ \E n \in nets : RemoveNetwork(n)
    \/ \E r \in Refs, d \in Digests : Retag(r, d)
    \/ \E p \in DOMAIN files : CreateLinkNetwork(p)
    \/ ReadModules \/ ReadArtifact \/ ReadLinks \/ ReadLink \/ ReadNetworks
    \/ (\E caller \in Callers : Inspect(caller)) \/ InspectFails
    \/ \E r \in Requests : Prepare(r)
    \/ StartRun \/ apply_artifact \/ Drift \/ post_state \/ Fail

Spec == Init /\ [][Next]_vars

-----------------------------------------------------------------------------
Subnets == {{b} : b \in 0..(Probes - 1)}

LinkEntries == [rel : Relationships, subnet : Subnets]

FilesOK(fs) ==
    /\ Declared(fs) \subseteq LinkEntries
    /\ \A e \in Installed(fs) :
          e.instance \in Instances /\ e.package \in Packages /\ e.managed # {}

\* Types, and an inventory names an instance and a relationship once.
TypeOK ==
    /\ catalogue \in Catalogues /\ registry \in [Refs -> Digests]
    /\ FilesOK(files) /\ FilesOK(scan.seen) /\ FilesOK(obs.seen)
    /\ scan.at \in {"idle", "artifacts", "links", "networks"}
    /\ scan.present \subseteq scan.links /\ scan.links \subseteq LinkEntries
    /\ \A n \in nets : n.rel \in Relationships \cup {None}
    /\ \A n \in obs.networks : n.rel \in Relationships \cup {None}
    /\ plan # None => FilesOK(plan.files) /\ plan.links \subseteq LinkEntries
    /\ run.status \in {"none", "running", "successful", "failed", "drift"}
    /\ run.status = "running" <=> run.plan # None
    /\ foreign \in 0..MaxForeign /\ runs \in 0..MaxRuns
    /\ inspections \in 0..MaxInspections
    /\ \A e, x \in Installed(files) : e.instance = x.instance => e = x
    /\ \A l, k \in Declared(files) : l.rel = k.rel => l = k

Unit(fs, i, c) == fs[ContainerFile(i, c)]

Wired(fs, e, d) ==
    \E l \in Declared(fs), x \in Installed(fs) :
        LET rel == l.rel IN
        /\ rel = <<x.instance, d.interface, e.instance, d.consumer>>
        /\ catalogue[x.package].id = d.module
        /\ LinkFile(rel) \in DOMAIN fs /\ fs[LinkFile(rel)] = l.subnet
        /\ ContainerFile(e.instance, d.consumer) \in DOMAIN fs
        /\ LinkFile(rel) \in Unit(fs, e.instance, d.consumer).networks
        /\ \E f \in Range(catalogue[x.package].interfaces) :
              /\ f.id = d.interface
              /\ ContainerFile(x.instance, f.container) \in DOMAIN fs
              /\ LinkFile(rel) \in Unit(fs, x.instance, f.container).networks
              /\ rel \in Unit(fs, x.instance, f.container).aliases

\* Every dependency of a module in these files is served: one module of the
\* wanted kind offers the interface, both containers join a network of their
\* own, and no other link has its subnet.
Served(fs) ==
    /\ \A e \in Installed(fs) :
          \A d \in Range(catalogue[e.package].dependencies) :
              /\ Wired(fs, e, d)
              /\ \A x, y \in Installed(fs) :
                    catalogue[x.package].id = d.module /\ catalogue[y.package].id = d.module
                       => x = y
    /\ \A l, k \in Declared(fs) : l # k => l.subnet # k.subnet

\* Every name that a generated unit or an inventory entry uses is there.
Resolved(fs) ==
    \A e \in Installed(fs) :
        /\ e.managed \subseteq DOMAIN fs
        /\ \A c \in Range(catalogue[e.package].containers) :
              /\ ContainerFile(e.instance, c.id) \in DOMAIN fs
              /\ Unit(fs, e.instance, c.id).networks \subseteq DOMAIN fs
              /\ None \notin Unit(fs, e.instance, c.id).volumes
              /\ Unit(fs, e.instance, c.id).image = e.images[c.image]

\* No two modules of an inventory own the same unit, storage path, network or
\* hostname.
Exclusive(installed) ==
    LET mods == [i \in {e.instance : e \in installed} |->
                   [package |-> (CHOOSE e \in installed : e.instance = i).package,
                    secrets |-> Empty]]
    IN  \A i, j \in DOMAIN mods :
           i # j => deriveClaims(mods, i) \cap deriveClaims(mods, j) = {}

\* After a successful run, and until the next one starts, every dependency of
\* an installed module is served (deriveLinks, generateArtifacts, post_state).
LinksAreWired == run.status = "successful" => Served(files)

\* After a successful run every name that a generated unit or an inventory
\* entry uses is there: networks, storage, the image digest that modules.json
\* records, and the managed artifacts (module validation, generateContainer).
UnitsResolve == run.status = "successful" => Resolved(files)

\* No two modules of the inventory ever own the same unit, storage path,
\* network or hostname (validateClaims), whatever plans were executed.
ClaimsExclusive == Exclusive(Installed(files))

\* A module disappears from the inventory only by a plan whose observation
\* listed it: a stale plan never undoes an installation it did not know of.
\* check_preconditions has no precondition for absent modules; what protects
\* them is apply_artifact, which refuses to replace a file whose content the
\* plan does not know, and no plan knows that of modules.json: no entry lists
\* it as a managed artifact, so no inspection hashes it (see FreshPlansApply).
NoModuleLost ==
    [][\A e \in Installed(files) :
          \/ \E x \in Installed(files') : x.instance = e.instance
          \/ \E x \in run.plan.known.modules : x.instance = e.instance]_vars

\* "generated files are replaced as complete outputs": on a target that was
\* deployed successfully, a plan made from its current facts is not refused as
\* drift.
FreshPlansApply == run.status = "drift" => ~run.fresh

=============================================================================
