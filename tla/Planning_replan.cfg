SPECIFICATION Spec
CONSTANTS
    None = None
    Order <- Instance3
    Packages = {"db1", "db2", "web", "job"}
    Catalogues <- MCCatalogues
    Core = "1"
    Digests = {d1, d2}
    Named <- MCNamed
    Seed <- MCSeed
    Requests <- MCRequests
    Probes = 2
    ForeignNetworks <- MCForeignNetworks
    Callers = {"inspected", "identified"}
    MaxForeign = 1
    MaxRuns = 2
    MaxInspections = 2
INVARIANT FreshPlansApply
CHECK_DEADLOCK FALSE
