----------------------------- MODULE MCPlanning -----------------------------
(* A database module in two versions and two modules that depend on it.    *)
EXTENDS Planning

Instance3 == <<"a", "b", "c">>

Main == [id |-> "main", image |-> "img", networks |-> <<>>, mounts |-> <<>>,
         environment |-> {}]

Blank == [id |-> "db", version |-> "1", core |-> "1", form |-> TRUE, images |-> {"img"},
          containers |-> <<Main>>, persistent |-> <<>>, networks |-> <<>>,
          secrets |-> <<>>, egress |-> <<>>, routes |-> <<>>, healthchecks |-> {"main"},
          interfaces |-> <<>>, dependencies |-> <<>>,
          actions |-> [check |-> "check.sh"], validation |-> "check",
          updateFrom |-> Empty, scripts |-> {"check.sh", "migrate.sh"}]

Db1 == [Blank EXCEPT !.interfaces = <<[id |-> "sql", container |-> "main"]>>,
          !.persistent = <<[id |-> "data", path |-> "/data"]>>,
          !.containers = <<[Main EXCEPT !.mounts = <<[storage |-> "data", target |-> "/db"]>>]>>]

\* The second version keeps its data elsewhere.
Db2 == [Db1 EXCEPT !.version = "2", !.persistent[1].path = "/data2",
          !.updateFrom = ("1" :> <<"migrate">>),
          !.actions = ("check" :> "check.sh") @@ ("migrate" :> "migrate.sh")]

NeedsDb == <<[module |-> "db", interface |-> "sql", consumer |-> "main"]>>

Web == [Blank EXCEPT !.id = "web", !.dependencies = NeedsDb,
          !.networks = <<[id |-> "front", role |-> "edge"]>>,
          !.containers = <<[Main EXCEPT !.networks = <<"front">>]>>,
          !.routes = <<[host |-> "h1", prefix |-> "/", container |-> "main"]>>,
          !.secrets = <<[id |-> "key", delivery |-> "file", target |-> "/key",
                         containers |-> {"main"}]>>]

Job == [Blank EXCEPT !.id = "job", !.dependencies = NeedsDb]

Base == [db1 |-> Db1, db2 |-> Db2, web |-> Web, job |-> Job]

Malformed == [Blank EXCEPT !.form = FALSE]

Only(ps) == [p \in DOMAIN Base |-> IF p \in ps THEN Base[p] ELSE Malformed]

\* The base, a version of the database without its interface, contracts with
\* one mistake, and two modules with objects of one name.
MCCatalogues ==
    {Base,
     [Only({"db1", "db2", "web"}) EXCEPT !.db2.interfaces = <<>>],
     [Only({"db1", "web"}) EXCEPT !.db1.persistent = <<>>],
     [Only({"db1", "web"}) EXCEPT !.web.networks = <<>>],
     [Only({"db1", "db2"}) EXCEPT !.db2.actions["migrate"] = "check.sh"],
     [Only({"db1", "web", "job"}) EXCEPT
         !.job.containers = <<Main, [Main EXCEPT !.id = "helper"]>>,
         !.web.containers = <<[Main EXCEPT !.networks = <<"front">>],
                              [Main EXCEPT !.id = "x-helper"]>>]}

\* Instance c is called b-x on the target.
MCNamed == [p \in {"a", "b", "c"} \X {"main", "helper", "x-helper", "front"} |->
               IF p = <<"b", "x-helper">> THEN <<"c", "helper">> ELSE p]

MCSeed == [r \in {<<"a", "sql", "b", "main">>, <<"a", "sql", "c", "main">>,
                  <<"b", "sql", "c", "main">>} |-> 1]

Foreign(n, s, r) == [name |-> n, subnets |-> s, rel |-> r]

\* A network with a candidate subnet, the name of a Link-Net and the label of
\* another, and one that spans two candidates.
MCForeignNetworks ==
    {Foreign(LinkFile(<<"a", "sql", "c", "main">>), {{0}}, <<"a", "sql", "b", "main">>),
     Foreign(None, {{0, 1}}, None)}

Mod(p) == [package |-> p, secrets |-> IF p = "web" THEN [key |-> "k1"] ELSE Empty]

Mods(x, y, z) ==
    LET f == [a |-> x, b |-> y, c |-> z]
    IN  [i \in {k \in DOMAIN f : f[k] # None} |-> Mod(f[i])]

Ask(op, s, m) == [op |-> op, subject |-> s, mods |-> m, source |-> Mod("db1"), claims |-> {}]

MCRequests ==
    {Ask("install", "b", Mods("db1", "web", "job")),
     Ask("install", "c", Mods("db1", "db2", "job")),
     Ask("update", "a", Mods("db2", "web", None)),
     Ask("validate", "a", Mods("db1", "web", None)),
     [Ask("restore", "b", Mods("db1", "web", "job")) EXCEPT
         !.claims = {[claim |-> <<"hostname", "h1">>, owner |-> None]}],
     [Ask("reconfigure", "b", [Mods("db1", "web", None) EXCEPT !.b.secrets.key = "k2"]) EXCEPT
         !.claims = {[claim |-> <<"hostname", "h1">>, owner |-> "b"]}],
     [Ask("uninstall", "c", Mods("db1", "web", None)) EXCEPT !.source = Mod("job")],
     Ask("uninstall", "a", Mods(None, None, "job")),
     Ask("uninstall", "a", Mods(None, None, None))}

=============================================================================
