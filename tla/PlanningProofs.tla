--------------------------- MODULE PlanningProofs ---------------------------
(***************************************************************************)
(* Proofs about Planning, for any contracts, requests, instances, foreign  *)
(* networks and bounds.                                                    *)
(***************************************************************************)
EXTENDS Planning, WellFoundedInduction, TLAPS

-----------------------------------------------------------------------------
(* Smallest elements.                                                      *)

LEMMA LeastNatural ==
    ASSUME NEW S, S \subseteq Nat, S # {}
    PROVE  \E x \in S : \A y \in S : x <= y
<1> DEFINE R == OpToRel(<, Nat)
<1>1. IsWellFoundedOn(R, Nat)
  BY NatLessThanWellFounded
<1>2. \A x, y \in Nat : y < x => <<y, x>> \in R
  BY DEF OpToRel
<1> HIDE DEF R
<1>3. \E x \in S : \A y \in S : ~(<<y, x>> \in R)
  BY <1>1, WFMin
<1>4. PICK x \in S : \A y \in S : ~(<<y, x>> \in R)
  BY <1>3
<1>5. ASSUME NEW y \in S PROVE x <= y
  <2>1. ~(y < x)
    BY <1>2, <1>4
  <2> QED
    BY <2>1
<1> QED
  BY <1>5

LEMMA MinIsElement == ASSUME NEW S, S \subseteq Nat, S # {} PROVE Min(S) \in S
<1>1. \E x \in S : \A y \in S : x <= y
  BY LeastNatural
<1> QED
  BY <1>1 DEF Min

LEMMA CandidateIsSubnet == ASSUME NEW v \in Nat PROVE Candidate(v) \in Subnets
<1>1. v % Probes \in 0..(Probes - 1)
  BY PlanningConstants
<1> QED
  BY <1>1 DEF Candidate, Subnets

LEMMA NextFileIsNext ==
    ASSUME run.todo # {} PROVE NextFile \in run.todo
<1> DEFINE phases == {Phase(p) : p \in run.todo}
<1>1. \A p : Phase(p) \in Nat
  BY DEF Phase
<1>2. PICK x \in phases : \A y \in phases : x <= y
  <2>1. phases \subseteq Nat /\ phases # {}
    BY <1>1
  <2> HIDE DEF phases
  <2> QED
    BY <2>1, LeastNatural
<1>3. \E p \in run.todo : \A q \in run.todo : Phase(p) <= Phase(q)
  BY <1>2
<1> QED
  BY <1>3 DEF NextFile

-----------------------------------------------------------------------------
(* The links of a request.                                                 *)

\* No hash is one of modules.json: no entry lists it as a managed artifact.
Unhashed(hashes) == \A h \in hashes : h[1] # ModuleInventory

\* What an observation says about links and artifacts.
ObservationOK(o) ==
    /\ FilesOK(o.seen)
    /\ \A n \in o.networks : /\ n.rel \in Relationships \cup {None}
                             /\ n.rel # None => n.subnet \in Subnets
    /\ Unhashed(o.hashes)

\* A dependency of i is linked to its only provider.
Linked(mods, links, i, d) ==
    \E l \in links, p \in DOMAIN mods :
        /\ l.rel = <<p, d.interface, i, d.consumer>>
        /\ Providers(mods, d.module) = {p} /\ Offers(mods, p, d)

\* What deriveLinks and validateClaims establish.
LinksOK(mods, links) ==
    /\ links \subseteq LinkEntries
    /\ \A l, k \in links : l.rel = k.rel => l = k
    /\ \A l, k \in links : l # k => l.subnet # k.subnet
    /\ \A i \in DOMAIN mods : \A d \in Range(Contract(mods, i).dependencies) :
          Linked(mods, links, i, d)

LEMMA SelectedSubnet ==
    ASSUME ObservationOK(obs), NEW rel \in Relationships, NEW links,
           selectLinkSubnet(rel, links) # None
    PROVE  selectLinkSubnet(rel, links) \in Subnets
<1> DEFINE own == {n \in obs.networks : n.rel = rel}
           named == {n \in obs.networks : n.name = LinkFile(rel)}
           used == {n.subnet : n \in obs.networks}
<1>1. CASE own # {}
  <2> DEFINE n == CHOOSE n \in own : TRUE
  <2>1. n \in own
    BY <1>1
  <2>2. selectLinkSubnet(rel, links) = n.subnet
    BY <1>1 DEF selectLinkSubnet
  <2> HIDE DEF n
  <2> QED
    BY <2>1, <2>2, PlanningConstants DEF ObservationOK
<1>2. CASE own = {}
  <2>1. selectLinkSubnet(rel, links) = chooseSubnet(rel, used, links)
    BY <1>2 DEF selectLinkSubnet
  <2> HIDE DEF used
  <2> DEFINE taken == used \cup {l.subnet : l \in links}
             free == {k \in 0..(Probes - 1) : Candidate(Seed[rel] + k) \notin taken}
  <2>2. free # {} /\ chooseSubnet(rel, used, links) = Candidate(Seed[rel] + Min(free))
    BY <2>1 DEF chooseSubnet
  <2>3. free \subseteq Nat
    BY PlanningConstants
  <2> HIDE DEF free
  <2>4. Min(free) \in Nat /\ Seed[rel] \in Nat
    BY <2>2, <2>3, MinIsElement, PlanningConstants
  <2>5. Seed[rel] + Min(free) \in Nat
    BY <2>4
  <2> QED
    BY <2>1, <2>2, <2>5, CandidateIsSubnet
<1> QED
  BY <1>1, <1>2

LEMMA ResolvedProvider ==
    ASSUME NEW mods, NEW w, resolveProvider(mods, Dependency(mods, w))
    PROVE  \E p \in DOMAIN mods :
              /\ Relationship(mods, w) = <<p, Dependency(mods, w).interface, Order[w[1]],
                                           Dependency(mods, w).consumer>>
              /\ Providers(mods, Dependency(mods, w).module) = {p}
              /\ Contract(mods, p).id = Dependency(mods, w).module
              /\ Offers(mods, p, Dependency(mods, w))
<1> DEFINE d == Dependency(mods, w)
<1>1. PICK p \in Providers(mods, d.module) :
         Providers(mods, d.module) = {p} /\ Offers(mods, p, d)
  BY DEF resolveProvider
<1>2. p \in DOMAIN mods /\ Contract(mods, p).id = d.module
  BY <1>1 DEF Providers
<1>3. (CHOOSE i \in Providers(mods, d.module) : Offers(mods, i, d)) = p
  BY <1>1
<1>4. Relationship(mods, w) = <<p, d.interface, Order[w[1]], d.consumer>>
  BY <1>3 DEF Relationship
<1> HIDE DEF d
<1> QED
  BY <1>1, <1>2, <1>4 DEF d

\* A dependency has one place in the order, and every place is a dependency.
LEMMA WantsOfModule ==
    ASSUME NEW mods, DOMAIN mods \subseteq Instances
    PROVE  /\ \A i \in DOMAIN mods : \A d \in Range(Contract(mods, i).dependencies) :
                 \E w \in Wants(mods) : Order[w[1]] = i /\ Dependency(mods, w) = d
           /\ \A w \in Wants(mods) :
                 /\ Order[w[1]] \in DOMAIN mods /\ w[1] \in DOMAIN Order
                 /\ w[2] \in DOMAIN Contract(mods, Order[w[1]]).dependencies
                 /\ w = <<w[1], w[2]>>
                 /\ Dependency(mods, w) \in Range(Contract(mods, Order[w[1]]).dependencies)
<1>1. ASSUME NEW i \in DOMAIN mods, NEW d \in Range(Contract(mods, i).dependencies)
      PROVE  \E w \in Wants(mods) : Order[w[1]] = i /\ Dependency(mods, w) = d
  <2>1. PICK k \in DOMAIN Order : Order[k] = i
    BY DEF Instances, Range
  <2>2. PICK j \in DOMAIN Contract(mods, i).dependencies : Contract(mods, i).dependencies[j] = d
    BY DEF Range
  <2>3. <<k, j>> \in Wants(mods)
    BY <2>1, <2>2 DEF Wants
  <2>4. Order[<<k, j>>[1]] = i /\ Dependency(mods, <<k, j>>) = d
    BY <2>1, <2>2 DEF Dependency
  <2> QED
    BY <2>3, <2>4
<1>2. ASSUME NEW w \in Wants(mods)
      PROVE  /\ Order[w[1]] \in DOMAIN mods /\ w[1] \in DOMAIN Order
             /\ w[2] \in DOMAIN Contract(mods, Order[w[1]]).dependencies
             /\ w = <<w[1], w[2]>>
             /\ Dependency(mods, w) \in Range(Contract(mods, Order[w[1]]).dependencies)
  <2>1. PICK k \in DOMAIN Order : Order[k] \in DOMAIN mods
           /\ w \in {k} \X DOMAIN Contract(mods, Order[k]).dependencies
    BY DEF Wants
  <2>2. w[1] = k /\ w[2] \in DOMAIN Contract(mods, Order[k]).dependencies /\ w = <<w[1], w[2]>>
    BY <2>1
  <2> QED
    BY <2>1, <2>2 DEF Dependency, Range
<1> QED
  BY <1>1, <1>2

\* A desired module is a package whose contract compiles.
LEMMA CompiledModule ==
    ASSUME catalogue \in Catalogues, NEW mods, compileModules(mods), NEW i \in DOMAIN mods
    PROVE  mods[i].package \in Packages /\ validate(Contract(mods, i))
  BY DEF compileModules, CompilesFor, Compiling, Compile, Contract

LEMMA DerivedLinks ==
    ASSUME catalogue \in Catalogues, ObservationOK(obs), NEW req \in Requests,
           compileModules(req.mods), NEW links \in deriveLinks(req.mods),
           validateClaims(req.mods, links, req.claims)
    PROVE  LinksOK(req.mods, links)
<1> DEFINE mods == req.mods
           wants == Wants(mods)
           Earlier(f, w) == LinksFor(mods, {v \in wants : Before(v, w)}, f)
<1>1. DOMAIN mods \subseteq Instances
  BY RequestedModules
<1>2. PICK f : /\ links = LinksFor(mods, wants, f)
               /\ \A w \in wants : /\ resolveProvider(mods, Dependency(mods, w))
                                   /\ f[w] # None
                                   /\ f[w] = selectLinkSubnet(Relationship(mods, w), Earlier(f, w))
  BY DEF deriveLinks
<1>3. ASSUME NEW w \in wants
      PROVE  \E p \in DOMAIN mods :
              /\ Relationship(mods, w) = <<p, Dependency(mods, w).interface, Order[w[1]],
                                           Dependency(mods, w).consumer>>
              /\ Providers(mods, Dependency(mods, w).module) = {p}
              /\ Contract(mods, p).id = Dependency(mods, w).module
              /\ Offers(mods, p, Dependency(mods, w))
  BY <1>2, ResolvedProvider
<1>4. ASSUME NEW w \in wants PROVE Relationship(mods, w) \in Relationships
  <2>1. PICK p \in DOMAIN mods :
              /\ Relationship(mods, w) = <<p, Dependency(mods, w).interface, Order[w[1]],
                                           Dependency(mods, w).consumer>>
              /\ Contract(mods, p).id = Dependency(mods, w).module
              /\ Offers(mods, p, Dependency(mods, w))
    BY <1>3
  <2>2. Order[w[1]] \in DOMAIN mods
        /\ Dependency(mods, w) \in Range(Contract(mods, Order[w[1]]).dependencies)
    BY <1>1, WantsOfModule
  <2> QED
    BY <2>1, <2>2, RequestedModules DEF Contract, Offers
<1>5. links \subseteq LinkEntries
  <2>1. ASSUME NEW w \in wants PROVE f[w] \in Subnets
    BY <1>2, <1>4, SelectedSubnet
  <2> QED
    BY <1>2, <1>4, <2>1 DEF LinksFor, LinkEntries
<1>6. ASSUME NEW v \in wants, NEW w \in wants, Relationship(mods, v) = Relationship(mods, w)
      PROVE  v = w
  <2> DEFINE d == Dependency(mods, v)
             e == Dependency(mods, w)
             i == Order[v[1]]
             deps == Contract(mods, i).dependencies
  <2>1. PICK p : Relationship(mods, v) = <<p, d.interface, i, d.consumer>>
                 /\ Contract(mods, p).id = d.module
    BY <1>3
  <2>2. PICK q : Relationship(mods, w) = <<q, e.interface, Order[w[1]], e.consumer>>
                 /\ Contract(mods, q).id = e.module
    BY <1>3
  <2>3. p = q /\ d.interface = e.interface /\ i = Order[w[1]] /\ d.consumer = e.consumer
    <3>1. <<p, d.interface, i, d.consumer>> = <<q, e.interface, Order[w[1]], e.consumer>>
      BY <1>6, <2>1, <2>2
    <3> HIDE DEF d, e, i
    <3> QED
      BY <3>1
  <2>4. d.module = e.module
    BY <2>1, <2>2, <2>3
  <2>5. v[1] = w[1]
    BY <1>1, <2>3, WantsOfModule, PlanningConstants DEF IsInjective
  <2>6. i \in DOMAIN mods /\ d \in Range(deps) /\ e \in Range(deps)
    BY <1>1, <2>3, WantsOfModule
  <2>7. d = [module |-> d.module, interface |-> d.interface, consumer |-> d.consumer]
        /\ e = [module |-> e.module, interface |-> e.interface, consumer |-> e.consumer]
    <3>1. mods[i].package \in Packages
      BY <2>6, CompiledModule
    <3> QED
      BY <2>6, <3>1, ContractFields DEF Contract
  <2>8. d = e
    BY <2>3, <2>4, <2>7
  <2>9. v[2] \in DOMAIN deps /\ w[2] \in DOMAIN deps /\ deps[v[2]] = deps[w[2]]
    BY <1>1, <2>3, <2>8, WantsOfModule DEF Dependency
  <2>10. IsInjective(deps)
    BY <2>6, CompiledModule DEF validate, validateIntegration
  <2>11. v[2] = w[2]
    BY <2>9, <2>10 DEF IsInjective
  <2> QED
    BY <1>1, <2>5, <2>11, WantsOfModule
<1>7. ASSUME NEW l \in links, NEW k \in links, l.rel = k.rel PROVE l = k
  <2>1. PICK v \in wants : l = [rel |-> Relationship(mods, v), subnet |-> f[v]]
    BY <1>2 DEF LinksFor
  <2>2. PICK w \in wants : k = [rel |-> Relationship(mods, w), subnet |-> f[w]]
    BY <1>2 DEF LinksFor
  <2>3. v = w
    BY <1>6, <1>7, <2>1, <2>2
  <2> QED
    BY <2>1, <2>2, <2>3
<1>8. ASSUME NEW i \in DOMAIN mods, NEW d \in Range(Contract(mods, i).dependencies)
      PROVE  Linked(mods, links, i, d)
  <2>1. PICK w \in wants : Order[w[1]] = i /\ Dependency(mods, w) = d
    BY <1>1, WantsOfModule
  <2>2. PICK p \in DOMAIN mods : /\ Relationship(mods, w) = <<p, d.interface, i, d.consumer>>
                                 /\ Providers(mods, d.module) = {p} /\ Offers(mods, p, d)
    BY <1>3, <2>1
  <2>3. [rel |-> Relationship(mods, w), subnet |-> f[w]] \in links
    BY <1>2 DEF LinksFor
  <2> DEFINE l == [rel |-> Relationship(mods, w), subnet |-> f[w]]
  <2>4. l \in links /\ l.rel = <<p, d.interface, i, d.consumer>>
    BY <2>2, <2>3
  <2> HIDE DEF l
  <2> QED
    BY <2>2, <2>4 DEF Linked
<1>9. \A l, k \in links : l # k => l.subnet # k.subnet
  BY DEF validateClaims
<1> QED
  BY <1>5, <1>7, <1>8, <1>9 DEF LinksOK

-----------------------------------------------------------------------------
(* The generated files.                                                    *)

\* What a request has passed when its files are generated.
Prepared(mods, links) ==
    /\ catalogue \in Catalogues /\ DOMAIN mods \subseteq Instances
    /\ compileModules(mods) /\ LinksOK(mods, links)
    /\ \A i, j \in DOMAIN mods : i # j => deriveClaims(mods, i) \cap deriveClaims(mods, j) = {}

LEMMA GeneratedPaths ==
    ASSUME NEW mods, NEW links
    PROVE  /\ DOMAIN generateArtifacts(mods, links) = Paths(mods, links)
           /\ \A p \in Paths(mods, links) :
                 generateArtifacts(mods, links)[p] = Content(mods, links, p)
  BY DEF generateArtifacts

LEMMA GeneratedMembers ==
    ASSUME NEW mods, NEW links
    PROVE  /\ {Caddyfile, Authelia, LinkInventory, ModuleInventory} \subseteq Paths(mods, links)
           /\ \A i \in DOMAIN mods : Quadlets(mods, i) \subseteq Paths(mods, links)
           /\ \A l \in links : LinkFile(l.rel) \in Paths(mods, links)
<1>1. {Caddyfile, Authelia, LinkInventory, ModuleInventory} \subseteq Paths(mods, links)
  BY DEF Paths
<1>2. ASSUME NEW i \in DOMAIN mods PROVE Quadlets(mods, i) \subseteq Paths(mods, links)
  BY DEF Paths
<1>3. ASSUME NEW l \in links PROVE LinkFile(l.rel) \in Paths(mods, links)
  <2>1. LinkFile(l.rel) \in {LinkFile(k.rel) : k \in links}
    OBVIOUS
  <2>2. {LinkFile(k.rel) : k \in links} \subseteq Paths(mods, links)
    BY DEF Paths
  <2> QED
    BY <2>1, <2>2
<1> QED
  BY <1>1, <1>2, <1>3

LEMMA GeneratedInventories ==
    ASSUME NEW mods, NEW links
    PROVE  /\ ModuleInventory \in DOMAIN generateArtifacts(mods, links)
           /\ LinkInventory \in DOMAIN generateArtifacts(mods, links)
           /\ generateArtifacts(mods, links)[ModuleInventory] = generateInventory(mods, links)
           /\ generateArtifacts(mods, links)[LinkInventory] = links
<1>1. ModuleInventory # LinkInventory /\ ModuleInventory # CaddyNetworks
      /\ LinkInventory # CaddyNetworks
      /\ ModuleInventory \notin {Caddyfile, Authelia} /\ LinkInventory \notin {Caddyfile, Authelia}
  BY DEF ModuleInventory, LinkInventory, CaddyNetworks, Caddyfile, Authelia
<1>2. ModuleInventory[1] = "inventory" /\ LinkInventory[1] = "inventory"
  BY DEF ModuleInventory, LinkInventory
<1>3. Content(mods, links, ModuleInventory) = generateInventory(mods, links)
      /\ Content(mods, links, LinkInventory) = links
  BY <1>1, <1>2 DEF Content
<1> QED
  BY <1>3, GeneratedPaths, GeneratedMembers

LEMMA GeneratedLink ==
    ASSUME NEW mods, NEW links, LinksOK(mods, links), NEW l \in links
    PROVE  /\ LinkFile(l.rel) \in DOMAIN generateArtifacts(mods, links)
           /\ generateArtifacts(mods, links)[LinkFile(l.rel)] = l.subnet
<1> DEFINE p == LinkFile(l.rel)
<1>1. p \in Paths(mods, links)
  BY GeneratedMembers
<1>2. p[1] = "link" /\ p[2] = l.rel
  BY DEF LinkFile
<1>3. p \notin {Caddyfile, Authelia} /\ p # CaddyNetworks /\ p # LinkInventory
      /\ p # ModuleInventory
  BY <1>2 DEF Caddyfile, Authelia, CaddyNetworks, LinkInventory, ModuleInventory
<1>4. (CHOOSE k \in links : k.rel = p[2]) = l
  <2>1. \A k \in links : k.rel = p[2] => k = l
    BY <1>2 DEF LinksOK
  <2> HIDE DEF p
  <2> QED
    BY <1>2, <2>1
<1> HIDE DEF p
<1>5. Content(mods, links, p) = (CHOOSE k \in links : k.rel = p[2]).subnet
  BY <1>2, <1>3 DEF Content
<1> QED
  BY <1>1, <1>4, <1>5, GeneratedPaths DEF p

\* The unit with the name of a container is made for this container.
LEMMA GeneratedUnit ==
    ASSUME NEW mods, NEW links, Prepared(mods, links), NEW i \in DOMAIN mods,
           NEW c \in Range(Contract(mods, i).containers)
    PROVE  /\ ContainerFile(i, c.id) \in DOMAIN generateArtifacts(mods, links)
           /\ generateArtifacts(mods, links)[ContainerFile(i, c.id)]
                 = generateContainer(mods, i, c, links)
<1> DEFINE p == ContainerFile(i, c.id)
           parts == UNION {{j} \X Range(Contract(mods, j)["containers"]) : j \in DOMAIN mods}
           x == CHOOSE y \in parts : Name(y[1], y[2].id) = p[2]
<1>1. c.id \in Ids(Contract(mods, i).containers)
  BY DEF Ids, Range
<1>2. p \in Paths(mods, links)
  <2>1. p \in Quadlets(mods, i)
    BY <1>1 DEF Quadlets
  <2> QED
    BY <2>1, GeneratedMembers
<1>3. p[1] = "container" /\ p[2] = Name(i, c.id)
  BY DEF ContainerFile
<1>4. p \notin {Caddyfile, Authelia} /\ p # CaddyNetworks /\ p # LinkInventory
      /\ p # ModuleInventory /\ p[1] # "link" /\ p[1] # "network"
  BY <1>3 DEF Caddyfile, Authelia, CaddyNetworks, LinkInventory, ModuleInventory
<1>5. <<i, c>> \in parts /\ Name(<<i, c>>[1], <<i, c>>[2].id) = p[2]
  BY <1>3
<1>6. x \in parts /\ Name(x[1], x[2].id) = p[2]
  BY <1>5
<1>7. x = <<x[1], x[2]>> /\ x[1] \in DOMAIN mods /\ x[2] \in Range(Contract(mods, x[1]).containers)
  BY <1>6
<1> HIDE DEF x, p, parts
<1>8. x[2].id \in Ids(Contract(mods, x[1]).containers)
  BY <1>7 DEF Ids, Range
<1>9. x[1] = i
  <2>1. <<"container", Name(i, c.id)>> \in deriveClaims(mods, i)
    BY <1>1 DEF deriveClaims
  <2>2. <<"container", Name(i, c.id)>> \in deriveClaims(mods, x[1])
    BY <1>3, <1>6, <1>8 DEF deriveClaims
  <2> QED
    BY <1>7, <2>1, <2>2 DEF Prepared
<1>10. x[2].id = c.id
  <2>1. mods[i].package \in Packages
    BY CompiledModule DEF Prepared
  <2>2. Ids(Contract(mods, i).containers) \subseteq Objects
    BY <2>1 DEF Objects, Contract, Prepared
  <2>3. Named[<<i, x[2].id>>] = Named[<<i, c.id>>]
    BY <1>3, <1>6, <1>9 DEF Name
  <2> QED
    BY <1>1, <1>8, <1>9, <2>2, <2>3, NamesOfAnInstance DEF Prepared
<1>11. x[2] = c
  <2>1. \A a, b \in DOMAIN Contract(mods, i).containers :
           Contract(mods, i).containers[a].id = Contract(mods, i).containers[b].id => a = b
    BY CompiledModule DEF Prepared, validate, validateContainers, Once, IsInjective
  <2> QED
    BY <1>7, <1>9, <1>10, <2>1 DEF Range
<1>12. Content(mods, links, p) = generateContainer(mods, x[1], x[2], links)
  BY <1>3, <1>4 DEF Content, x, parts
<1> QED
  BY <1>2, <1>9, <1>11, <1>12, GeneratedPaths DEF p

\* The inventory lists the desired modules, once each.
LEMMA GeneratedModules ==
    ASSUME NEW mods, NEW links
    PROVE  LET G == generateArtifacts(mods, links) IN
           /\ Installed(G) = generateInventory(mods, links) /\ Declared(G) = links
           /\ \A e \in Installed(G) :
                 /\ e.instance \in DOMAIN mods /\ e.package = mods[e.instance].package
                 /\ e.images = Images(mods[e.instance])
                 /\ e.managed = Quadlets(mods, e.instance) \cup {Caddyfile, Authelia}
                       \cup {LinkFile(l.rel) : l \in
                                {x \in links : e.instance \in {x.rel[1], x.rel[3]}}}
           /\ \A e, x \in Installed(G) : e.instance = x.instance => e = x
           /\ \A i \in DOMAIN mods : \E e \in Installed(G) : e.instance = i
<1> DEFINE G == generateArtifacts(mods, links)
           Entry(i) == [instance |-> i, package |-> mods[i].package, images |-> Images(mods[i]),
                        managed |-> Quadlets(mods, i) \cup {Caddyfile, Authelia}
                           \cup {LinkFile(l.rel) : l \in
                                    {x \in links : i \in {x.rel[1], x.rel[3]}}}]
<1>1. Installed(G) = generateInventory(mods, links) /\ Declared(G) = links
  BY GeneratedInventories DEF Installed, Declared
<1>2. Installed(G) = {Entry(i) : i \in DOMAIN mods}
  BY <1>1 DEF generateInventory
<1>3. ASSUME NEW i \in DOMAIN mods
      PROVE  /\ Entry(i).instance = i /\ Entry(i).package = mods[i].package
             /\ Entry(i).images = Images(mods[i])
             /\ Entry(i).managed = Quadlets(mods, i) \cup {Caddyfile, Authelia}
                  \cup {LinkFile(l.rel) : l \in {x \in links : i \in {x.rel[1], x.rel[3]}}}
  OBVIOUS
<1> HIDE DEF G, Entry
<1>4. ASSUME NEW e \in Installed(G)
      PROVE  /\ e.instance \in DOMAIN mods /\ e.package = mods[e.instance].package
             /\ e.images = Images(mods[e.instance])
             /\ e.managed = Quadlets(mods, e.instance) \cup {Caddyfile, Authelia}
                   \cup {LinkFile(l.rel) : l \in
                            {x \in links : e.instance \in {x.rel[1], x.rel[3]}}}
             /\ e = Entry(e.instance)
  <2>1. PICK i \in DOMAIN mods : e = Entry(i)
    BY <1>2
  <2>2. e.instance = i
    BY <1>3, <2>1
  <2> QED
    BY <1>3, <2>1, <2>2
<1>5. \A e, x \in Installed(G) : e.instance = x.instance => e = x
  BY <1>4
<1>6. \A i \in DOMAIN mods : \E e \in Installed(G) : e.instance = i
  BY <1>2, <1>3
<1> QED
  BY <1>1, <1>4, <1>5, <1>6 DEF G

\* A desired set that passed all checks generates files in which every
\* dependency is served.
LEMMA GeneratedServed ==
    ASSUME NEW mods, NEW links, Prepared(mods, links)
    PROVE  Served(generateArtifacts(mods, links))
<1> DEFINE G == generateArtifacts(mods, links)
<1>0. /\ Declared(G) = links
      /\ \A e \in Installed(G) : e.instance \in DOMAIN mods /\ e.package = mods[e.instance].package
      /\ \A e, x \in Installed(G) : e.instance = x.instance => e = x
      /\ \A i \in DOMAIN mods : \E e \in Installed(G) : e.instance = i
  BY GeneratedModules
<1>1. \A l \in links : LinkFile(l.rel) \in DOMAIN G /\ G[LinkFile(l.rel)] = l.subnet
  BY GeneratedLink DEF Prepared
<1>2. \A i \in DOMAIN mods : \A c \in Range(Contract(mods, i).containers) :
         ContainerFile(i, c.id) \in DOMAIN G
         /\ G[ContainerFile(i, c.id)] = generateContainer(mods, i, c, links)
  BY GeneratedUnit
<1> HIDE DEF G
<1>3. \A e \in Installed(G) : catalogue[e.package] = Contract(mods, e.instance)
  BY <1>0 DEF Contract
<1>4. ASSUME NEW e \in Installed(G), NEW d \in Range(catalogue[e.package].dependencies)
      PROVE  Wired(G, e, d)
  <2> DEFINE i == e.instance
  <2>1. i \in DOMAIN mods /\ d \in Range(Contract(mods, i).dependencies)
    BY <1>0, <1>3
  <2>2. PICK l \in links, p \in DOMAIN mods :
           /\ l.rel = <<p, d.interface, i, d.consumer>>
           /\ Providers(mods, d.module) = {p} /\ Offers(mods, p, d)
    BY <2>1 DEF Prepared, LinksOK, Linked
  <2>3. PICK x \in Installed(G) : x.instance = p
    BY <1>0
  <2>4. Contract(mods, p).id = d.module /\ catalogue[x.package] = Contract(mods, p)
    BY <1>3, <2>2, <2>3 DEF Providers
  <2>5. validateIntegration(Contract(mods, i)) /\ validateIntegration(Contract(mods, p))
    BY <2>1, CompiledModule DEF Prepared, validate
  <2>6. PICK c \in Range(Contract(mods, i).containers) : c.id = d.consumer
    BY <2>1, <2>5 DEF validateIntegration, Ids, Range
  <2> DEFINE f == CHOOSE f \in Range(Contract(mods, p).interfaces) : f.id = d.interface
  <2>7. f \in Range(Contract(mods, p).interfaces) /\ f.id = d.interface
    BY <2>2 DEF Offers, Ids, Range
  <2> HIDE DEF i
  <2>8. ProviderEnd(mods, l.rel) = <<p, f.container>> /\ ConsumerEnd(l.rel) = <<i, d.consumer>>
    <3>1. l.rel[1] = p /\ l.rel[2] = d.interface /\ l.rel[3] = i /\ l.rel[4] = d.consumer
      BY <2>2
    <3> QED
      BY <3>1 DEF ProviderEnd, ConsumerEnd
  <2> HIDE DEF f
  <2>9. PICK b \in Range(Contract(mods, p).containers) : b.id = f.container
    BY <2>5, <2>7 DEF validateIntegration, Ids, Range
  <2>10. LinkFile(l.rel) \in generateContainer(mods, i, c, links).networks
    BY <2>6, <2>8 DEF generateContainer
  <2>11. LinkFile(l.rel) \in generateContainer(mods, p, b, links).networks
         /\ l.rel \in generateContainer(mods, p, b, links).aliases
    BY <2>8, <2>9 DEF generateContainer
  <2>12. /\ ContainerFile(i, d.consumer) \in DOMAIN G
         /\ LinkFile(l.rel) \in Unit(G, i, d.consumer).networks
    BY <1>2, <2>1, <2>6, <2>10 DEF Unit
  <2>13. /\ ContainerFile(p, f.container) \in DOMAIN G
         /\ LinkFile(l.rel) \in Unit(G, p, f.container).networks
         /\ l.rel \in Unit(G, p, f.container).aliases
    BY <1>2, <2>9, <2>11 DEF Unit
  <2>14. l \in Declared(G) /\ LinkFile(l.rel) \in DOMAIN G /\ G[LinkFile(l.rel)] = l.subnet
    BY <1>0, <1>1
  <2> QED
    BY <2>2, <2>3, <2>4, <2>7, <2>12, <2>13, <2>14 DEF Wired, i
<1>5. ASSUME NEW e \in Installed(G), NEW d \in Range(catalogue[e.package].dependencies),
             NEW x \in Installed(G), NEW y \in Installed(G),
             catalogue[x.package].id = d.module, catalogue[y.package].id = d.module
      PROVE  x = y
  <2>1. PICK p \in DOMAIN mods : Providers(mods, d.module) = {p}
    <3>1. e.instance \in DOMAIN mods /\ d \in Range(Contract(mods, e.instance).dependencies)
      BY <1>0, <1>3
    <3>2. Linked(mods, links, e.instance, d)
      BY <3>1 DEF Prepared, LinksOK
    <3> QED
      BY <3>2 DEF Linked
  <2>2. x.instance \in Providers(mods, d.module) /\ y.instance \in Providers(mods, d.module)
    BY <1>0, <1>3, <1>5 DEF Providers
  <2> QED
    BY <1>0, <2>1, <2>2
<1>6. \A l, k \in Declared(G) : l # k => l.subnet # k.subnet
  BY <1>0 DEF Prepared, LinksOK
<1> QED
  BY <1>4, <1>5, <1>6 DEF Served, G

\* Its units and entries use only names that are there.
LEMMA GeneratedResolved ==
    ASSUME NEW mods, NEW links, Prepared(mods, links)
    PROVE  Resolved(generateArtifacts(mods, links))
<1> DEFINE G == generateArtifacts(mods, links)
<1>1. \A e \in Installed(G) :
         /\ e.instance \in DOMAIN mods /\ e.package = mods[e.instance].package
         /\ e.images = Images(mods[e.instance])
         /\ e.managed = Quadlets(mods, e.instance) \cup {Caddyfile, Authelia}
               \cup {LinkFile(l.rel) : l \in {x \in links : e.instance \in {x.rel[1], x.rel[3]}}}
  BY GeneratedModules
<1>2. DOMAIN G = Paths(mods, links)
  BY GeneratedPaths
<1>3. \A i \in DOMAIN mods : \A c \in Range(Contract(mods, i).containers) :
         ContainerFile(i, c.id) \in DOMAIN G
         /\ G[ContainerFile(i, c.id)] = generateContainer(mods, i, c, links)
  BY GeneratedUnit
<1> HIDE DEF G
<1> SUFFICES ASSUME NEW e \in Installed(G)
             PROVE  /\ e.managed \subseteq DOMAIN G
                    /\ \A c \in Range(catalogue[e.package].containers) :
                          /\ ContainerFile(e.instance, c.id) \in DOMAIN G
                          /\ Unit(G, e.instance, c.id).networks \subseteq DOMAIN G
                          /\ None \notin Unit(G, e.instance, c.id).volumes
                          /\ Unit(G, e.instance, c.id).image = e.images[c.image]
  BY DEF Resolved, G
<1> DEFINE i == e.instance
           m == Contract(mods, i)
<1>4. i \in DOMAIN mods /\ catalogue[e.package] = m
  BY <1>1 DEF Contract
<1>5. mods[i].package \in Packages /\ validate(m)
  BY <1>4, CompiledModule DEF Prepared
<1>6. e.managed \subseteq DOMAIN G
  <2>1. Quadlets(mods, i) \subseteq Paths(mods, links)
    BY <1>4, GeneratedMembers
  <2>2. {Caddyfile, Authelia} \subseteq Paths(mods, links)
    BY GeneratedMembers
  <2>3. {LinkFile(l.rel) : l \in {x \in links : i \in {x.rel[1], x.rel[3]}}}
           \subseteq Paths(mods, links)
    BY GeneratedMembers
  <2> QED
    BY <1>1, <1>2, <2>1, <2>2, <2>3
<1>7. ASSUME NEW c \in Range(m.containers)
      PROVE  /\ ContainerFile(i, c.id) \in DOMAIN G
             /\ Unit(G, i, c.id).networks \subseteq DOMAIN G
             /\ None \notin Unit(G, i, c.id).volumes
             /\ Unit(G, i, c.id).image = e.images[c.image]
  <2> DEFINE provided == {l \in links : ProviderEnd(mods, l.rel) = <<i, c.id>>}
             consumed == {l \in links : ConsumerEnd(l.rel) = <<i, c.id>>}
  <2>1. ContainerFile(i, c.id) \in DOMAIN G /\ Unit(G, i, c.id) = generateContainer(mods, i, c, links)
    BY <1>3, <1>4 DEF Unit
  <2>2. /\ Unit(G, i, c.id).networks = {NetworkFile(i, n) : n \in Range(c.networks)}
                                       \cup {LinkFile(l.rel) : l \in provided \cup consumed}
        /\ Unit(G, i, c.id).volumes = {storagePath(m, x.storage) : x \in Range(c.mounts)}
        /\ Unit(G, i, c.id).image = Images(mods[i])[c.image]
    BY <2>1 DEF generateContainer
  <2>3. ASSUME NEW n \in Range(c.networks) PROVE NetworkFile(i, n) \in DOMAIN G
    <3>1. n \in Ids(m.networks)
      BY <1>5 DEF validate, validateNetworks
    <3>2. NetworkFile(i, n) \in Quadlets(mods, i)
      BY <3>1 DEF Quadlets
    <3> QED
      BY <1>2, <1>4, <3>2, GeneratedMembers
  <2>4. ASSUME NEW l \in provided \cup consumed PROVE LinkFile(l.rel) \in DOMAIN G
    <3>1. l \in links
      OBVIOUS
    <3> QED
      BY <1>2, <3>1, GeneratedMembers
  <2>5. ASSUME NEW x \in Range(c.mounts) PROVE storagePath(m, x.storage) # None
    <3> DEFINE s == CHOOSE s \in Range(m.persistent) : s.id = x.storage
    <3>1. x.storage \in Ids(m.persistent)
      BY <1>5 DEF validate, validateStorage
    <3>2. s \in Range(m.persistent)
      BY <3>1 DEF Ids, Range
    <3>3. storagePath(m, x.storage) = s.path
      BY <3>1 DEF storagePath
    <3> HIDE DEF s
    <3>4. m = catalogue[mods[i].package]
      BY DEF Contract
    <3> QED
      BY <1>5, <3>2, <3>3, <3>4, ContractFields DEF Prepared
  <2>6. e.images = Images(mods[i])
    BY <1>1
  <2> QED
    BY <2>1, <2>2, <2>3, <2>4, <2>5, <2>6
<1> QED
  BY <1>4, <1>6, <1>7

\* Two of its modules share nothing.
LEMMA GeneratedExclusive ==
    ASSUME NEW mods, NEW links, Prepared(mods, links)
    PROVE  Exclusive(Installed(generateArtifacts(mods, links)))
<1> DEFINE G == generateArtifacts(mods, links)
           Is == Installed(G)
           own == [i \in {e.instance : e \in Is} |->
                     [package |-> (CHOOSE e \in Is : e.instance = i).package,
                      secrets |-> Empty]]
<1>1. \A e \in Is : e.instance \in DOMAIN mods /\ e.package = mods[e.instance].package
  BY GeneratedModules
<1> HIDE DEF G, Is
<1>2. ASSUME NEW i \in DOMAIN own
      PROVE  /\ i \in DOMAIN mods /\ own[i].package = mods[i].package
             /\ DOMAIN own[i].secrets = {}
  <2> DEFINE e == CHOOSE e \in Is : e.instance = i
  <2>1. e \in Is /\ e.instance = i
    OBVIOUS
  <2>2. own[i].package = e.package /\ own[i].secrets = Empty
    OBVIOUS
  <2> HIDE DEF e, own
  <2>3. DOMAIN Empty = {}
    BY DEF Empty
  <2> QED
    BY <1>1, <2>1, <2>2, <2>3
<1> HIDE DEF own
<1>3. ASSUME NEW i \in DOMAIN own
      PROVE  deriveClaims(own, i) \subseteq deriveClaims(mods, i)
  <2>1. Contract(own, i) = Contract(mods, i)
    BY <1>2 DEF Contract
  <2>2. DOMAIN own[i].secrets = {}
    BY <1>2
  <2> QED
    BY <2>1, <2>2 DEF deriveClaims
<1>4. ASSUME NEW i \in DOMAIN own, NEW j \in DOMAIN own, i # j
      PROVE  deriveClaims(own, i) \cap deriveClaims(own, j) = {}
  <2>1. deriveClaims(mods, i) \cap deriveClaims(mods, j) = {}
    BY <1>2, <1>4 DEF Prepared
  <2> QED
    BY <1>3, <2>1
<1> QED
  BY <1>4 DEF Exclusive, own, Is, G

-----------------------------------------------------------------------------
(* The inductive invariant: what TypeOK says of the files on the target    *)
(* holds of every prepared plan as well, and a plan's files alone are a    *)
(* deployment in which links, names and claims are right.  A run then only *)
(* has to show that it leaves the plan's files behind.                     *)

\* Generated files, their inventories' entries, and what is linked.
FilesInv(fs) ==
    /\ FilesOK(fs)
    /\ \A e \in Installed(fs) : DOMAIN e = {"instance", "package", "images", "managed"}
    /\ \A e, x \in Installed(fs) : e.instance = x.instance => e = x
    /\ \A l, k \in Declared(fs) : l.rel = k.rel => l = k
    /\ \A p \in DOMAIN fs : p[1] = "link" => p[2] \in Relationships
    /\ \A e \in Installed(fs) : ModuleInventory \notin e.managed

\* What an inspection has read so far.
ScanOK(s) ==
    /\ DOMAIN s = {"at", "modules", "todo", "hashes", "links", "present", "networks", "seen"}
    /\ s.at \in {"idle", "artifacts", "links", "networks"}
    /\ s.present \subseteq s.links /\ s.links \subseteq LinkEntries
    /\ FilesOK(s.seen) /\ Unhashed(s.hashes)
    /\ s.at = "artifacts" => s.present = {} /\ \A x \in s.todo : x[2] # ModuleInventory
    /\ s.at = "links" => s.todo \subseteq s.links

PlanOK(pl) ==
    /\ FilesInv(pl.files) /\ pl.links \subseteq LinkEntries
    /\ LinkInventory \in DOMAIN pl.files /\ ModuleInventory \in DOMAIN pl.files
    /\ Served(pl.files) /\ Resolved(pl.files) /\ Exclusive(Installed(pl.files))
    /\ Unhashed(pl.known.hashes)

PlanningInv ==
    /\ TypeOK
    /\ DOMAIN run = {"status", "plan", "todo", "fresh"}
    /\ FilesInv(files) /\ ScanOK(scan) /\ ObservationOK(obs)
    /\ plan # None => PlanOK(plan)
    /\ run.status = "running" => PlanOK(run.plan) /\ run.todo \subseteq DOMAIN run.plan.files
    /\ LinksAreWired /\ UnitsResolve /\ ClaimsExclusive

\* A plan's files have the right types.
LEMMA GeneratedTypes ==
    ASSUME NEW mods, NEW links, Prepared(mods, links)
    PROVE  FilesInv(generateArtifacts(mods, links))
<1> DEFINE G == generateArtifacts(mods, links)
<1>1. /\ Installed(G) = generateInventory(mods, links) /\ Declared(G) = links
      /\ \A e \in Installed(G) :
            /\ e.instance \in DOMAIN mods /\ e.package = mods[e.instance].package
            /\ e.managed = Quadlets(mods, e.instance) \cup {Caddyfile, Authelia}
                  \cup {LinkFile(l.rel) : l \in
                           {x \in links : e.instance \in {x.rel[1], x.rel[3]}}}
      /\ \A e, x \in Installed(G) : e.instance = x.instance => e = x
  BY GeneratedModules
<1>2. DOMAIN G = Paths(mods, links)
  BY GeneratedPaths
<1> HIDE DEF G
<1>3. FilesOK(G)
  <2>1. Declared(G) \subseteq LinkEntries
    BY <1>1 DEF Prepared, LinksOK
  <2>2. ASSUME NEW e \in Installed(G)
        PROVE  e.instance \in Instances /\ e.package \in Packages /\ e.managed # {}
    <3>1. e.instance \in DOMAIN mods /\ e.package = mods[e.instance].package
          /\ Caddyfile \in e.managed
      BY <1>1
    <3>2. mods[e.instance].package \in Packages
      BY <3>1, CompiledModule DEF Prepared
    <3> QED
      BY <3>1, <3>2 DEF Prepared
  <2> QED
    BY <2>1, <2>2 DEF FilesOK
<1>4. \A e \in Installed(G) : DOMAIN e = {"instance", "package", "images", "managed"}
  BY <1>1 DEF generateInventory
<1>5. \A l, k \in Declared(G) : l.rel = k.rel => l = k
  BY <1>1 DEF Prepared, LinksOK
<1>6. ASSUME NEW p \in DOMAIN G, p[1] = "link" PROVE p[2] \in Relationships
  <2>1. p \notin {Caddyfile, Authelia, CaddyNetworks, LinkInventory, ModuleInventory}
    BY <1>6 DEF Caddyfile, Authelia, CaddyNetworks, LinkInventory, ModuleInventory
  <2>2. p \notin UNION {Quadlets(mods, i) : i \in DOMAIN mods}
    BY <1>6 DEF Quadlets, ContainerFile, NetworkFile
  <2>3. p \in {LinkFile(l.rel) : l \in links}
    BY <1>2, <2>1, <2>2 DEF Paths
  <2>4. PICK l \in links : p = LinkFile(l.rel)
    BY <2>3
  <2>5. l.rel \in Relationships
    BY DEF Prepared, LinksOK, LinkEntries
  <2> QED
    BY <2>4, <2>5 DEF LinkFile
<1>7. ASSUME NEW e \in Installed(G) PROVE ModuleInventory \notin e.managed
  <2>1. ModuleInventory \notin Quadlets(mods, e.instance)
    BY DEF ModuleInventory, Quadlets, ContainerFile, NetworkFile
  <2>2. ModuleInventory \notin {Caddyfile, Authelia}
    BY DEF ModuleInventory, Caddyfile, Authelia
  <2>3. \A r : ModuleInventory # LinkFile(r)
    BY DEF ModuleInventory, LinkFile
  <2> QED
    BY <1>1, <2>1, <2>2, <2>3
<1> QED
  BY <1>1, <1>3, <1>4, <1>5, <1>6, <1>7 DEF FilesInv, G

\* What Compiler.Prepare hands out is a deployment of its own.
LEMMA PreparedPlan ==
    ASSUME catalogue \in Catalogues, ObservationOK(obs), NEW req \in Requests,
           compileModules(req.mods), NEW links \in deriveLinks(req.mods),
           validateClaims(req.mods, links, req.claims),
           NEW pl, pl.files = generateArtifacts(req.mods, links), pl.links = links,
           pl.known = preconditions
    PROVE  PlanOK(pl)
<1> DEFINE mods == req.mods
<1>1. LinksOK(mods, links)
  BY DerivedLinks
<1>2. Prepared(mods, links)
  BY <1>1, RequestedModules DEF Prepared, validateClaims
<1> HIDE DEF mods
<1>3. /\ LinkInventory \in DOMAIN generateArtifacts(mods, links)
      /\ ModuleInventory \in DOMAIN generateArtifacts(mods, links)
  BY GeneratedInventories
<1>4. FilesInv(pl.files) /\ Served(pl.files) /\ Resolved(pl.files)
      /\ Exclusive(Installed(pl.files))
  BY <1>2, GeneratedTypes, GeneratedServed, GeneratedResolved, GeneratedExclusive DEF mods
<1>5. Unhashed(pl.known.hashes)
  BY DEF preconditions, ObservationOK
<1> QED
  BY <1>1, <1>3, <1>4, <1>5 DEF PlanOK, LinksOK, mods

\* Files that hold all that a plan generated are a deployment, too.
LEMMA ExtendedFiles ==
    ASSUME NEW gs, NEW fs, LinkInventory \in DOMAIN gs, ModuleInventory \in DOMAIN gs,
           \A p \in DOMAIN gs : p \in DOMAIN fs /\ fs[p] = gs[p]
    PROVE  /\ Installed(fs) = Installed(gs) /\ Declared(fs) = Declared(gs)
           /\ Served(gs) => Served(fs)
           /\ Resolved(gs) => Resolved(fs)
<1>1. Installed(fs) = Installed(gs) /\ Declared(fs) = Declared(gs)
  BY DEF Installed, Declared
<1>2. ASSUME Served(gs) PROVE Served(fs)
  <2>1. ASSUME NEW e, NEW d, Wired(gs, e, d) PROVE Wired(fs, e, d)
    BY <1>1, <2>1 DEF Wired, Unit
  <2> QED
    BY <1>1, <1>2, <2>1 DEF Served
<1>3. ASSUME Resolved(gs) PROVE Resolved(fs)
  BY <1>1, <1>3 DEF Resolved, Unit
<1> QED
  BY <1>1, <1>2, <1>3

-----------------------------------------------------------------------------
(* No step changes the catalogue, so what is said of some files stays.     *)

LEMMA ServedStays ==
    ASSUME catalogue' = catalogue, NEW fs
    PROVE  Served(fs)' <=> Served(fs)
<1>1. \A e, d : Wired(fs, e, d)' <=> Wired(fs, e, d)
  BY DEF Wired
<1> QED
  BY <1>1 DEF Served

LEMMA ResolvedStays ==
    ASSUME catalogue' = catalogue, NEW fs
    PROVE  Resolved(fs)' <=> Resolved(fs)
  BY DEF Resolved

LEMMA ExclusiveStays ==
    ASSUME catalogue' = catalogue, NEW installed
    PROVE  Exclusive(installed)' <=> Exclusive(installed)
<1>1. \A mods, i : Contract(mods, i)' = Contract(mods, i)
  BY DEF Contract
<1>2. \A mods, i : deriveClaims(mods, i)' = deriveClaims(mods, i)
  BY <1>1 DEF deriveClaims
<1> QED
  BY <1>2 DEF Exclusive

\* The same for the files on the target and for the plan of a run.
LEMMA FilesAfter ==
    ASSUME catalogue' = catalogue, NEW fs, files' = fs
    PROVE  /\ Served(files)' <=> Served(fs)
           /\ Resolved(files)' <=> Resolved(fs)
           /\ Exclusive(Installed(files))' <=> Exclusive(Installed(fs))
<1>1. Served(files)' <=> Served(fs)'
  BY DEF Served, Wired, Unit
<1>2. Resolved(files)' <=> Resolved(fs)'
  BY DEF Resolved, Unit
<1>3. Exclusive(Installed(files))' <=> Exclusive(Installed(fs))'
  BY DEF Exclusive
<1> QED
  BY <1>1, <1>2, <1>3, ServedStays, ResolvedStays, ExclusiveStays

LEMMA PlanAfter ==
    ASSUME catalogue' = catalogue, NEW pl, plan' = pl
    PROVE  PlanOK(plan)' <=> PlanOK(pl)
<1>1. Served(plan.files)' <=> Served(pl.files)'
  BY DEF Served, Wired, Unit
<1>2. Resolved(plan.files)' <=> Resolved(pl.files)'
  BY DEF Resolved, Unit
<1>3. Exclusive(Installed(plan.files))' <=> Exclusive(Installed(pl.files))'
  BY DEF Exclusive
<1> QED
  BY <1>1, <1>2, <1>3, ServedStays, ResolvedStays, ExclusiveStays DEF PlanOK

LEMMA RunAfter ==
    ASSUME catalogue' = catalogue, NEW pl, run'.plan = pl
    PROVE  PlanOK(run.plan)' <=> PlanOK(pl)
<1>1. Served(run.plan.files)' <=> Served(pl.files)'
  BY DEF Served, Wired, Unit
<1>2. Resolved(run.plan.files)' <=> Resolved(pl.files)'
  BY DEF Resolved, Unit
<1>3. Exclusive(Installed(run.plan.files))' <=> Exclusive(Installed(pl.files))'
  BY DEF Exclusive
<1> QED
  BY <1>1, <1>2, <1>3, ServedStays, ResolvedStays, ExclusiveStays DEF PlanOK

-----------------------------------------------------------------------------
(* Every step keeps the invariant.                                         *)

\* A step that changes neither files, plan nor run.
LEMMA StepBeside ==
    ASSUME PlanningInv, UNCHANGED <<catalogue, files, plan, run>>,
           registry' \in [Refs -> Digests],
           \A n \in nets' : n.rel \in Relationships \cup {None},
           ScanOK(scan'), ObservationOK(obs'),
           foreign' \in 0..MaxForeign, runs' \in 0..MaxRuns,
           inspections' \in 0..MaxInspections
    PROVE  PlanningInv'
<1>1. TypeOK'
  BY DEF PlanningInv, TypeOK, ScanOK, ObservationOK
<1>2. PICK fs : fs = files
  OBVIOUS
<1>3. LinksAreWired' /\ UnitsResolve' /\ ClaimsExclusive'
  BY <1>2, FilesAfter DEF PlanningInv, LinksAreWired, UnitsResolve, ClaimsExclusive
<1>4. (plan # None => PlanOK(plan))'
  <2>1. PICK pl : pl = plan
    OBVIOUS
  <2> QED
    BY <2>1, PlanAfter DEF PlanningInv
<1>5. (run.status = "running" => PlanOK(run.plan) /\ run.todo \subseteq DOMAIN run.plan.files)'
  <2>1. PICK pl : pl = run.plan
    OBVIOUS
  <2> QED
    BY <2>1, RunAfter DEF PlanningInv
<1> QED
  BY <1>1, <1>3, <1>4, <1>5 DEF PlanningInv

LEMMA DisturbStep ==
    ASSUME PlanningInv,
           \/ \E n \in ForeignNetworks : ForeignNetwork(n)
           \/ \E n \in nets : RemoveNetwork(n)
           \/ \E r \in Refs, d \in Digests : Retag(r, d)
           \/ \E p \in DOMAIN files : CreateLinkNetwork(p)
    PROVE  PlanningInv'
<1>0. /\ UNCHANGED <<catalogue, files, plan, run, scan, obs, runs, inspections>>
      /\ foreign' = foreign \/ Disturb
  BY DEF ForeignNetwork, RemoveNetwork, Retag, CreateLinkNetwork
<1>1. foreign' \in 0..MaxForeign
  BY <1>0, PlanningConstants DEF PlanningInv, TypeOK, Disturb
<1>2. registry' \in [Refs -> Digests]
  BY DEF PlanningInv, TypeOK, ForeignNetwork, RemoveNetwork, Retag, CreateLinkNetwork
<1>3. \A n \in nets' : n.rel \in Relationships \cup {None}
  <2>1. CASE \E p \in DOMAIN files : CreateLinkNetwork(p)
    <3>1. PICK p \in DOMAIN files : CreateLinkNetwork(p)
      BY <2>1
    <3>2. p[2] \in Relationships
      BY <3>1 DEF CreateLinkNetwork, PlanningInv, FilesInv
    <3> QED
      BY <3>1, <3>2 DEF CreateLinkNetwork, PlanningInv, TypeOK
  <2> QED
    BY <2>1, PlanningConstants DEF PlanningInv, TypeOK, ForeignNetwork, RemoveNetwork, Retag
<1> QED
  BY <1>0, <1>1, <1>2, <1>3, StepBeside DEF PlanningInv, TypeOK

\* The hashes of artifacts that are not modules.json.
LEMMA HashesOfArtifacts ==
    ASSUME NEW reads, \A x \in reads : x[2] # ModuleInventory
    PROVE  Unhashed(Hashes(reads))
  BY DEF Unhashed, Hashes

LEMMA NoFiles == FilesOK(Empty)
  BY DEF FilesOK, Empty, Installed, Declared

LEMMA ReadStep ==
    ASSUME PlanningInv,
           ReadModules \/ ReadArtifact \/ ReadLinks \/ ReadLink \/ ReadNetworks \/ InspectFails
    PROVE  PlanningInv'
<1>1. /\ UNCHANGED <<catalogue, files, plan, run, registry, nets, obs, foreign, runs>>
      /\ inspections' \in 0..MaxInspections
  <2>1. UNCHANGED <<catalogue, files, plan, run, registry, nets, obs, foreign, runs>>
    BY DEF ReadModules, ReadArtifact, ReadLinks, ReadLink, ReadNetworks, InspectFails
  <2>2. inspections' = inspections
        \/ (inspections < MaxInspections /\ inspections' = inspections + 1)
    BY DEF ReadModules, ReadArtifact, ReadLinks, ReadLink, ReadNetworks, InspectFails
  <2>3. inspections \in 0..MaxInspections
    BY DEF PlanningInv, TypeOK
  <2>4. inspections' \in 0..MaxInspections
    BY <2>2, <2>3, PlanningConstants
  <2> QED
    BY <2>1, <2>4
<1>2. ScanOK(scan) /\ FilesInv(files)
  BY DEF PlanningInv
<1>3. ScanOK(NoScan)
  <2>1. Unhashed({}) /\ FilesOK(Empty)
    BY NoFiles DEF Unhashed
  <2> QED
    BY <2>1 DEF ScanOK, NoScan
<1>4. CASE ReadModules
  <2> DEFINE reads == UNION {{e.instance} \X e.managed : e \in Installed(files)}
             now == IF run.status = "running" THEN {} ELSE reads
             seen == IF run.status = "successful" THEN files ELSE Empty
  <2>1. scan' = [NoScan EXCEPT !.at = "artifacts", !.modules = Installed(files),
                   !.todo = reads \ now, !.hashes = Hashes(now), !.seen = seen]
    BY <1>4 DEF ReadModules
  <2>2. \A x \in reads : x[2] # ModuleInventory
    BY <1>2 DEF FilesInv
  <2>3. now \subseteq reads
    OBVIOUS
  <2>4. FilesOK(seen)
    BY <1>2, NoFiles DEF FilesInv
  <2> HIDE DEF reads, now, seen
  <2>5. Unhashed(Hashes(now))
    BY <2>2, <2>3, HashesOfArtifacts
  <2>6. /\ DOMAIN scan' = DOMAIN NoScan /\ scan'.at = "artifacts" /\ scan'.todo = reads \ now
        /\ scan'.hashes = Hashes(now) /\ scan'.seen = seen
        /\ scan'.links = NoScan.links /\ scan'.present = NoScan.present
    BY <2>1 DEF NoScan
  <2>7. ScanOK(scan')
    <3>1. DOMAIN scan' = {"at", "modules", "todo", "hashes", "links", "present", "networks", "seen"}
      BY <1>3, <2>6 DEF ScanOK
    <3>2. scan'.present = {} /\ scan'.links = {}
      BY <2>6 DEF NoScan
    <3>3. \A x \in scan'.todo : x[2] # ModuleInventory
      BY <2>2, <2>6
    <3> QED
      BY <2>4, <2>5, <2>6, <3>1, <3>2, <3>3 DEF ScanOK
  <2> QED
    BY <1>1, <2>7, StepBeside DEF PlanningInv, TypeOK
<1>5. CASE ReadArtifact
  <2>1. PICK x \in scan.todo :
           scan' = [scan EXCEPT !.todo = @ \ {x}, !.hashes = @ \cup Hashes({x})]
    BY <1>5 DEF ReadArtifact
  <2>2. scan.at = "artifacts"
    BY <1>5 DEF ReadArtifact, Reads
  <2>3. Unhashed(Hashes({x}))
    BY <1>2, <2>1, <2>2, HashesOfArtifacts DEF ScanOK
  <2>4. /\ DOMAIN scan' = DOMAIN scan /\ scan'.at = "artifacts" /\ scan'.todo \subseteq scan.todo
        /\ scan'.hashes = scan.hashes \cup Hashes({x}) /\ scan'.seen = scan.seen
        /\ scan'.links = scan.links /\ scan'.present = scan.present
    BY <1>2, <2>1, <2>2 DEF ScanOK
  <2>5. Unhashed(scan'.hashes)
    BY <1>2, <2>3, <2>4 DEF ScanOK, Unhashed
  <2>6. ScanOK(scan')
    BY <1>2, <2>2, <2>4, <2>5 DEF ScanOK
  <2> QED
    BY <1>1, <2>6, StepBeside DEF PlanningInv, TypeOK
<1>6. CASE ReadLinks
  <2>1. scan' = [scan EXCEPT !.at = "links", !.links = Declared(files), !.todo = Declared(files)]
    BY <1>6 DEF ReadLinks
  <2>2. scan.at = "artifacts" /\ Declared(files) \subseteq LinkEntries
    BY <1>2, <1>6 DEF ReadLinks, Reads, FilesInv, FilesOK
  <2>3. /\ DOMAIN scan' = DOMAIN scan /\ scan'.at = "links" /\ scan'.todo = Declared(files)
        /\ scan'.hashes = scan.hashes /\ scan'.seen = scan.seen
        /\ scan'.links = Declared(files) /\ scan'.present = scan.present
    BY <1>2, <2>1 DEF ScanOK
  <2>4. scan.present = {}
    BY <1>2, <2>2 DEF ScanOK
  <2>5. ScanOK(scan')
    BY <1>2, <2>2, <2>3, <2>4 DEF ScanOK
  <2> QED
    BY <1>1, <2>5, StepBeside DEF PlanningInv, TypeOK
<1>7. CASE ReadLink
  <2> DEFINE l == CHOOSE l \in scan.todo : TRUE
             found == {k \in {l} : Present(k)}
  <2>1. scan' = [scan EXCEPT !.todo = @ \ {l}, !.present = @ \cup found]
    BY <1>7 DEF ReadLink
  <2>2. scan.at = "links" /\ l \in scan.todo
    BY <1>7 DEF ReadLink, Reads
  <2>3. found \subseteq scan.links
    BY <1>2, <2>2 DEF ScanOK
  <2> HIDE DEF l, found
  <2>4. /\ DOMAIN scan' = DOMAIN scan /\ scan'.at = "links" /\ scan'.todo \subseteq scan.todo
        /\ scan'.hashes = scan.hashes /\ scan'.seen = scan.seen
        /\ scan'.links = scan.links /\ scan'.present = scan.present \cup found
    BY <1>2, <2>1, <2>2 DEF ScanOK
  <2>5. ScanOK(scan')
    BY <1>2, <2>2, <2>3, <2>4 DEF ScanOK
  <2> QED
    BY <1>1, <2>5, StepBeside DEF PlanningInv, TypeOK
<1>8. CASE ReadNetworks
  <2>1. scan' = [scan EXCEPT !.at = "networks", !.networks = nets]
    BY <1>8 DEF ReadNetworks
  <2>2. /\ DOMAIN scan' = DOMAIN scan /\ scan'.at = "networks"
        /\ scan'.hashes = scan.hashes /\ scan'.seen = scan.seen
        /\ scan'.links = scan.links /\ scan'.present = scan.present
    BY <1>2, <2>1 DEF ScanOK
  <2>3. ScanOK(scan')
    BY <1>2, <2>2 DEF ScanOK
  <2> QED
    BY <1>1, <2>3, StepBeside DEF PlanningInv, TypeOK
<1>9. CASE InspectFails
  BY <1>1, <1>3, <1>9, StepBeside DEF InspectFails, PlanningInv, TypeOK
<1> QED
  BY <1>4, <1>5, <1>6, <1>7, <1>8, <1>9

\* An inspection describes links of the inventory and artifacts of modules.
LEMMA InspectStep ==
    ASSUME PlanningInv, NEW caller \in Callers, Inspect(caller)
    PROVE  PlanningInv'
<1>1. /\ UNCHANGED <<catalogue, files, plan, run, registry, nets, foreign, runs, inspections>>
      /\ scan' = NoScan
  BY DEF Inspect
<1>2. /\ obs'.hashes = scan.hashes /\ obs'.networks = Networks
      /\ obs'.seen = IF scan.seen = files THEN files ELSE Empty
  BY DEF Inspect
<1>3. ASSUME NEW n \in Networks
      PROVE  /\ n.rel \in Relationships \cup {None}
             /\ n.rel # None => n.subnet \in Subnets
  <2>1. \A l \in Declared(files) : l.rel \in Relationships /\ l.subnet \in Subnets
    BY DEF PlanningInv, FilesInv, FilesOK, LinkEntries
  <2>2. UNION {Entries(l) : l \in scan.present} \subseteq Declared(files)
    BY DEF Entries
  <2> QED
    BY <2>1, <2>2 DEF Networks
<1>4. FilesOK(obs'.seen) /\ Unhashed(obs'.hashes)
  BY <1>2, NoFiles DEF PlanningInv, FilesInv, ScanOK
<1>5. ObservationOK(obs')
  BY <1>2, <1>3, <1>4 DEF ObservationOK
<1>6. ScanOK(scan')
  <2>1. Unhashed({}) /\ FilesOK(Empty)
    BY NoFiles DEF Unhashed
  <2> QED
    BY <1>1, <2>1 DEF ScanOK, NoScan
<1> QED
  BY <1>1, <1>5, <1>6, StepBeside DEF PlanningInv, TypeOK

LEMMA PrepareStep ==
    ASSUME PlanningInv, NEW req \in Requests, Prepare(req)
    PROVE  PlanningInv'
<1>1. PICK links \in deriveLinks(req.mods) :
         /\ validateClaims(req.mods, links, req.claims)
         /\ plan' = [validation |-> req.op = "validate",
                     actions |-> Actions(req.op, req.subject, req.mods), links |-> links,
                     files |-> generateArtifacts(req.mods, links), known |-> preconditions]
  BY DEF Prepare
<1>2. /\ UNCHANGED <<catalogue, registry, files, nets, scan, obs, run, foreign, runs, inspections>>
      /\ compileModules(req.mods)
  BY DEF Prepare
<1>3. PICK pl : pl = plan'
  OBVIOUS
<1>4. /\ pl.files = generateArtifacts(req.mods, links) /\ pl.links = links
      /\ pl.known = preconditions
  BY <1>1, <1>3
<1>5. catalogue \in Catalogues /\ ObservationOK(obs)
  BY DEF PlanningInv, TypeOK
<1>6. PlanOK(pl)
  BY <1>1, <1>2, <1>4, <1>5, PreparedPlan
<1>7. PlanOK(plan)'
  BY <1>2, <1>3, <1>6, PlanAfter
<1>8. TypeOK'
  BY <1>2, <1>3, <1>6 DEF PlanningInv, TypeOK, PlanOK, FilesInv
<1>9. PICK fs : fs = files
  OBVIOUS
<1>10. LinksAreWired' /\ UnitsResolve' /\ ClaimsExclusive'
  BY <1>2, <1>9, FilesAfter DEF PlanningInv, LinksAreWired, UnitsResolve, ClaimsExclusive
<1>11. (run.status = "running" => PlanOK(run.plan) /\ run.todo \subseteq DOMAIN run.plan.files)'
  <2>1. PICK r : r = run.plan
    OBVIOUS
  <2> QED
    BY <1>2, <2>1, RunAfter DEF PlanningInv
<1> QED
  BY <1>2, <1>7, <1>8, <1>10, <1>11 DEF PlanningInv

LEMMA StartStep ==
    ASSUME PlanningInv, StartRun
    PROVE  PlanningInv'
<1>1. /\ UNCHANGED <<catalogue, registry, files, nets, scan, obs, foreign, inspections>>
      /\ plan # None /\ plan' = None /\ runs' \in 0..MaxRuns
  BY PlanningConstants DEF StartRun, PlanningInv, TypeOK
<1>2. /\ run' = [status |-> "running", plan |-> plan,
                 fresh |-> run.status = "successful" /\ plan.known.seen = files,
                 todo |-> IF plan.validation THEN {} ELSE DOMAIN plan.files]
  BY DEF StartRun
<1>3. run'.status = "running" /\ run'.plan = plan /\ run'.todo \subseteq DOMAIN plan.files
      /\ DOMAIN run' = {"status", "plan", "todo", "fresh"}
  BY <1>2
<1>4. PlanOK(run.plan)'
  <2>1. PICK pl : pl = plan
    OBVIOUS
  <2> QED
    BY <1>1, <1>3, <2>1, RunAfter DEF PlanningInv
<1>5. TypeOK'
  BY <1>1, <1>3 DEF PlanningInv, TypeOK
<1>6. LinksAreWired' /\ UnitsResolve'
  BY <1>3 DEF LinksAreWired, UnitsResolve
<1>7. ClaimsExclusive'
  <2>1. PICK fs : fs = files
    OBVIOUS
  <2> QED
    BY <1>1, <2>1, FilesAfter DEF PlanningInv, ClaimsExclusive
<1> QED
  BY <1>1, <1>3, <1>4, <1>5, <1>6, <1>7 DEF PlanningInv

\* One file later, an inventory is the old one or the plan's.
LEMMA AppliedFile ==
    ASSUME PlanningInv, apply_artifact
    PROVE  \E p \in run.todo :
              /\ p \in DOMAIN run.plan.files /\ Replaceable(p)
              /\ files' = [q \in DOMAIN files \cup {p} |->
                             IF q = p THEN run.plan.files[p] ELSE files[q]]
              /\ Installed(files') = IF p = ModuleInventory THEN Installed(run.plan.files)
                                     ELSE Installed(files)
              /\ Declared(files') = IF p = LinkInventory THEN Declared(run.plan.files)
                                    ELSE Declared(files)
<1> DEFINE p == NextFile
<1>1. p \in run.todo
  BY NextFileIsNext DEF apply_artifact
<1>2. p \in DOMAIN run.plan.files
  BY <1>1 DEF PlanningInv, apply_artifact
<1>3. /\ Replaceable(p)
      /\ files' = [q \in DOMAIN files \cup {p} |->
                     IF q = p THEN run.plan.files[p] ELSE files[q]]
  BY DEF apply_artifact
<1> HIDE DEF p
<1>4. Installed(files') = IF p = ModuleInventory THEN Installed(run.plan.files)
                          ELSE Installed(files)
  BY <1>2, <1>3 DEF Installed
<1>5. Declared(files') = IF p = LinkInventory THEN Declared(run.plan.files) ELSE Declared(files)
  BY <1>2, <1>3 DEF Declared
<1> QED
  BY <1>1, <1>2, <1>3, <1>4, <1>5

LEMMA ApplyStep ==
    ASSUME PlanningInv, apply_artifact
    PROVE  PlanningInv'
<1>1. PICK p \in run.todo :
              /\ p \in DOMAIN run.plan.files
              /\ files' = [q \in DOMAIN files \cup {p} |->
                             IF q = p THEN run.plan.files[p] ELSE files[q]]
              /\ Installed(files') = IF p = ModuleInventory THEN Installed(run.plan.files)
                                     ELSE Installed(files)
              /\ Declared(files') = IF p = LinkInventory THEN Declared(run.plan.files)
                                    ELSE Declared(files)
  BY AppliedFile
<1>2. /\ UNCHANGED <<catalogue, registry, nets, scan, obs, plan, foreign, runs, inspections>>
      /\ run.status = "running" /\ PlanOK(run.plan)
      /\ run' = [run EXCEPT !.todo = @ \ {NextFile}]
      /\ DOMAIN run = {"status", "plan", "todo", "fresh"}
  BY DEF apply_artifact, PlanningInv
<1>3. run'.status = "running" /\ run'.plan = run.plan /\ run'.todo \subseteq run.todo
      /\ DOMAIN run' = {"status", "plan", "todo", "fresh"}
  BY <1>2
<1>4. FilesInv(files')
  <2>1. FilesInv(files) /\ FilesInv(run.plan.files)
    BY <1>2 DEF PlanningInv, PlanOK
  <2>2. FilesOK(files')
    BY <1>1, <2>1 DEF FilesInv, FilesOK
  <2>3. \A q \in DOMAIN files' : q[1] = "link" => q[2] \in Relationships
    BY <1>1, <2>1 DEF FilesInv
  <2> QED
    BY <1>1, <2>1, <2>2, <2>3 DEF FilesInv
<1>5. TypeOK'
  BY <1>2, <1>3, <1>4 DEF PlanningInv, TypeOK, FilesInv
<1>6. ClaimsExclusive'
  <2>1. PICK fs : fs = files'
    OBVIOUS
  <2>2. Exclusive(Installed(fs))
    BY <1>1, <1>2, <2>1 DEF PlanningInv, PlanOK, ClaimsExclusive
  <2> QED
    BY <1>2, <2>1, <2>2, FilesAfter DEF ClaimsExclusive
<1>7. LinksAreWired' /\ UnitsResolve'
  BY <1>3 DEF LinksAreWired, UnitsResolve
<1>8. (plan # None => PlanOK(plan))'
  <2>1. PICK pl : pl = plan
    OBVIOUS
  <2> QED
    BY <1>2, <2>1, PlanAfter DEF PlanningInv
<1>9. (run.status = "running" => PlanOK(run.plan) /\ run.todo \subseteq DOMAIN run.plan.files)'
  <2>1. PICK pl : pl = run.plan
    OBVIOUS
  <2>2. PlanOK(run.plan)'
    BY <1>2, <1>3, <2>1, RunAfter
  <2> QED
    BY <1>2, <1>3, <2>2 DEF PlanningInv
<1> QED
  BY <1>2, <1>3, <1>4, <1>5, <1>6, <1>7, <1>8, <1>9 DEF PlanningInv

\* The end of a run; a successful one leaves a deployment behind.
LEMMA StopStep ==
    ASSUME PlanningInv, NEW status \in {"successful", "failed", "drift"}, Stop(status),
           status = "successful" => Served(files) /\ Resolved(files)
    PROVE  PlanningInv'
<1>1. /\ UNCHANGED <<catalogue, registry, files, nets, scan, obs, plan, foreign, runs, inspections>>
      /\ run'.status = status /\ run'.plan = None
      /\ DOMAIN run' = {"status", "plan", "todo", "fresh"}
  BY DEF Stop, PlanningInv
<1>2. TypeOK'
  BY <1>1 DEF PlanningInv, TypeOK
<1>3. PICK fs : fs = files
  OBVIOUS
<1>4. LinksAreWired' /\ UnitsResolve' /\ ClaimsExclusive'
  BY <1>1, <1>3, FilesAfter DEF PlanningInv, LinksAreWired, UnitsResolve, ClaimsExclusive
<1>5. (plan # None => PlanOK(plan))'
  <2>1. PICK pl : pl = plan
    OBVIOUS
  <2> QED
    BY <1>1, <2>1, PlanAfter DEF PlanningInv
<1> QED
  BY <1>1, <1>2, <1>4, <1>5 DEF PlanningInv

LEMMA PostStateStep ==
    ASSUME PlanningInv, post_state
    PROVE  PlanningInv'
<1>1. /\ PlanOK(run.plan) /\ Stop("successful")
      /\ \A p \in DOMAIN run.plan.files : p \in DOMAIN files /\ files[p] = run.plan.files[p]
  BY DEF post_state, PlanningInv
<1>2. Served(files) /\ Resolved(files)
  BY <1>1, ExtendedFiles DEF PlanOK
<1> QED
  BY <1>1, <1>2, StopStep

\* The initial state is an empty target.
LEMMA InitialPlanning == Init => PlanningInv
<1> SUFFICES ASSUME Init PROVE PlanningInv
  OBVIOUS
<1>1. Installed(files) = {} /\ Declared(files) = {} /\ DOMAIN files = {}
  BY DEF Init, Empty, Installed, Declared
<1>2. FilesOK(files) /\ FilesInv(files)
  BY <1>1 DEF FilesOK, FilesInv
<1>3. ObservationOK(obs)
  <2>1. obs.networks = {} /\ obs.seen = files /\ obs.hashes = {}
    BY DEF Init, NoObservation
  <2> QED
    BY <1>2, <2>1 DEF ObservationOK, Unhashed
<1>4. run.status = "none" /\ run.plan = None /\ DOMAIN run = {"status", "plan", "todo", "fresh"}
  BY DEF Init, NoRun
<1>5. registry \in [Refs -> Digests]
  <2>1. (CHOOSE d \in Digests : TRUE) \in Digests
    BY PlanningConstants
  <2> QED
    BY <2>1 DEF Init
<1>8. ScanOK(scan)
  <2>1. Unhashed({}) /\ FilesOK(Empty)
    BY NoFiles DEF Unhashed
  <2> QED
    BY <2>1 DEF Init, ScanOK, NoScan
<1>6. TypeOK
  BY <1>1, <1>2, <1>3, <1>4, <1>5, <1>8, PlanningConstants
     DEF Init, TypeOK, ScanOK, ObservationOK
<1>7. ClaimsExclusive
  <2>1. {e.instance : e \in Installed(files)} = {}
    BY <1>1
  <2> QED
    BY <2>1 DEF ClaimsExclusive, Exclusive
<1> QED
  BY <1>2, <1>3, <1>4, <1>6, <1>7, <1>8 DEF Init, PlanningInv, LinksAreWired, UnitsResolve

LEMMA PlanningStep == PlanningInv /\ [Next]_vars => PlanningInv'
<1> SUFFICES ASSUME PlanningInv, [Next]_vars PROVE PlanningInv'
  OBVIOUS
<1>1. CASE \/ \E n \in ForeignNetworks : ForeignNetwork(n)
           \/ \E n \in nets : RemoveNetwork(n)
           \/ \E r \in Refs, d \in Digests : Retag(r, d)
           \/ \E p \in DOMAIN files : CreateLinkNetwork(p)
  BY <1>1, DisturbStep
<1>2. CASE \/ ReadModules \/ ReadArtifact \/ ReadLinks \/ ReadLink \/ ReadNetworks
           \/ (\E caller \in Callers : Inspect(caller)) \/ InspectFails
  BY <1>2, ReadStep, InspectStep
<1>3. CASE \E r \in Requests : Prepare(r)
  BY <1>3, PrepareStep
<1>4. CASE StartRun
  BY <1>4, StartStep
<1>5. CASE apply_artifact
  BY <1>5, ApplyStep
<1>6. CASE Drift \/ Fail
  BY <1>6, StopStep DEF Drift, Fail
<1>7. CASE post_state
  BY <1>7, PostStateStep
<1>8. CASE UNCHANGED vars
  <2>1. UNCHANGED <<catalogue, files, plan, run, registry, nets, scan, obs, foreign, runs,
                  inspections>>
    BY <1>8 DEF vars
  <2> QED
    BY <2>1, StepBeside DEF PlanningInv, TypeOK
<1> QED
  BY <1>1, <1>2, <1>3, <1>4, <1>5, <1>6, <1>7, <1>8 DEF Next

-----------------------------------------------------------------------------
(* The theorems.                                                           *)

\* PlanningInv is an invariant of planning and execution, however many
\* inspections, plans and runs there are and whatever others do in between.
THEOREM PlanningInductive == Spec => []PlanningInv
  BY InitialPlanning, PlanningStep, PTL DEF Spec

\* Facts, plans and files are well formed; in particular modules.json and
\* link-networks.json never name an instance or a relationship twice.
THEOREM PlanningTypesHold == Spec => []TypeOK
<1>1. PlanningInv => TypeOK
  BY DEF PlanningInv
<1> QED
  BY <1>1, PlanningInductive, PTL

\* What deriveLinks resolves and generateArtifacts writes is what post_state
\* confirms: after a successful run every dependency of an installed module is
\* served over a Link-Net of its own, for any contracts and any history.
THEOREM LinksStayWired == Spec => []LinksAreWired
<1>1. PlanningInv => LinksAreWired
  BY DEF PlanningInv
<1> QED
  BY <1>1, PlanningInductive, PTL

\* A contract that passed validate generates units that use only networks,
\* storage, images and artifacts that the same plan generates or records.
THEOREM UnitsAlwaysResolve == Spec => []UnitsResolve
<1>1. PlanningInv => UnitsResolve
  BY DEF PlanningInv
<1> QED
  BY <1>1, PlanningInductive, PTL

\* validateClaims compares only the modules of one request, yet no two
\* installed modules ever claim the same object: modules.json is replaced as a
\* whole, so it is always the inventory of one request.
THEOREM ClaimsStayExclusive == Spec => []ClaimsExclusive
<1>1. PlanningInv => ClaimsExclusive
  BY DEF PlanningInv
<1> QED
  BY <1>1, PlanningInductive, PTL

\* A stale plan loses no module it did not know of: no observation has a hash
\* of modules.json (Unhashed), so apply_artifact leaves an inventory that is
\* there as it is, however inspections, plans and runs interleave.
THEOREM ModulesAreNotLost == Spec => NoModuleLost
<1> DEFINE Known == \A e \in Installed(files) :
                       \/ \E x \in Installed(files') : x.instance = e.instance
                       \/ \E x \in run.plan.known.modules : x.instance = e.instance
<1>1. ASSUME PlanningInv, apply_artifact PROVE Known
  <2>1. PICK p \in run.todo :
           /\ Replaceable(p) /\ p \in DOMAIN run.plan.files
           /\ Installed(files') = IF p = ModuleInventory THEN Installed(run.plan.files)
                                  ELSE Installed(files)
    BY <1>1, AppliedFile
  <2>2. CASE p # ModuleInventory \/ ModuleInventory \notin DOMAIN files
    BY <2>1, <2>2 DEF Installed
  <2>3. CASE p = ModuleInventory /\ files[p] = run.plan.files[p] /\ p \in DOMAIN files
    BY <2>1, <2>3 DEF Installed
  <2>4. <<ModuleInventory, files[ModuleInventory]>> \notin run.plan.known.hashes
    BY <1>1 DEF apply_artifact, PlanningInv, PlanOK, Unhashed
  <2> QED
    BY <2>1, <2>2, <2>3, <2>4 DEF Replaceable
<1>2. ASSUME PlanningInv, [Next]_vars, ~apply_artifact PROVE files' = files
  BY <1>2 DEF Next, vars, ForeignNetwork, RemoveNetwork, Retag, CreateLinkNetwork, ReadModules,
              ReadArtifact, ReadLinks, ReadLink, ReadNetworks, Inspect, InspectFails, Prepare,
              StartRun, Drift, post_state, Fail, Stop
<1>3. PlanningInv /\ [Next]_vars => [Known]_vars
  <2>1. ASSUME files' = files PROVE Known
    BY <2>1
  <2> QED
    BY <1>1, <1>2, <2>1
<1> QED
  BY <1>3, PlanningInductive, PTL DEF Spec, NoModuleLost

=============================================================================
