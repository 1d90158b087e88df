--------------------------- MODULE ModuleContract ---------------------------
(***************************************************************************)
(* The module contract (internal/modulecontract): what module.yaml may say *)
(* and still compile.  A contract is a record of the lists of module.yaml, *)
(* in the order normalize leaves them in; "form" stands for the form of    *)
(* every single field (identifiers, exact versions, image references,      *)
(* paths, ports, hostnames, positive resources, the uninstall contract).   *)
(***************************************************************************)
EXTENDS Naturals, Sequences, FiniteSets, SequencesExt

Ids(list) == {list[i].id : i \in DOMAIN list}

\* The map of values already seen that every loop of validate keeps.
Once(list, Key(_)) == IsInjective([i \in DOMAIN list |-> Key(list[i])])

Roles == {"edge", "internal", "app", "egress"}

validateContainers(m) ==
    /\ Once(m.containers, LAMBDA c : c.id)
    /\ \A c \in Range(m.containers) :
          /\ c.image \in m.images
          /\ IsInjective(c.networks)
          /\ Once(c.mounts, LAMBDA x : x.target)

\* Mutant: mounts are not looked up in the persistent storage.
validateStorage_AnyMount(m) ==
    /\ Once(m.persistent, LAMBDA s : s.id)
    /\ Once(m.persistent, LAMBDA s : s.path)

validateStorage(m) ==
    /\ Once(m.persistent, LAMBDA s : s.id)
    /\ Once(m.persistent, LAMBDA s : s.path)
    /\ \A c \in Range(m.containers) :
          \A x \in Range(c.mounts) : x.storage \in Ids(m.persistent)

validateNetworks(m) ==
    /\ Once(m.networks, LAMBDA n : n.id)
    /\ \A n \in Range(m.networks) : n.role \in Roles
    /\ \A c \in Range(m.containers) : Range(c.networks) \subseteq Ids(m.networks)

\* A target (variable or file) of a container receives one secret, and no
\* container sets a variable that a secret is delivered in.
validateSecrets(m) ==
    /\ Once(m.secrets, LAMBDA s : s.id)
    /\ \A s \in Range(m.secrets) :
          s.containers # {} /\ s.containers \subseteq Ids(m.containers)
    /\ \A s, t \in Range(m.secrets) :
          s.delivery = t.delivery /\ s.target = t.target /\ s # t
             => s.containers \cap t.containers = {}
    /\ \A c \in Range(m.containers) :
          \A s \in Range(m.secrets) :
             s.delivery = "environment" => s.target \notin c.environment

RolesOf(m, c) ==
    {n.role : n \in {x \in Range(m.networks) :
        \E d \in Range(m.containers) : d.id = c /\ x.id \in Range(d.networks)}}

validateIntegration(m) ==
    /\ \A e \in Range(m.egress) : e \in Ids(m.containers) /\ "egress" \in RolesOf(m, e)
    /\ \A r \in Range(m.routes) :
          r.container \in Ids(m.containers) /\ "edge" \in RolesOf(m, r.container)
    /\ Once(m.routes, LAMBDA r : <<r.host, r.prefix>>)
    /\ m.healthchecks \subseteq Ids(m.containers)
    /\ Once(m.interfaces, LAMBDA f : f.id)
    /\ \A f \in Range(m.interfaces) : f.container \in Ids(m.containers)
    /\ IsInjective(m.dependencies)
    /\ \A d \in Range(m.dependencies) :
          d.module # m.id /\ d.consumer \in Ids(m.containers)

validateActions(m) ==
    /\ m.validation \in DOMAIN m.actions
    /\ \A v \in DOMAIN m.updateFrom :
          v # m.version /\ Range(m.updateFrom[v]) \subseteq DOMAIN m.actions

validate(m) ==
    /\ m.form
    /\ m.images # {} /\ m.containers # <<>>
    /\ validateContainers(m) /\ validateStorage(m) /\ validateNetworks(m)
    /\ validateSecrets(m) /\ validateIntegration(m) /\ validateActions(m)

\* The scripts the actions name are read from the package.
Compile(m) == validate(m) /\ Range(m.actions) \subseteq m.scripts

=============================================================================
