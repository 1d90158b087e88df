SPECIFICATION Spec
CONSTANTS
    Calls = {c1, c2}
    Trees = {x, y}
    Releases = {x, y}
    Commits = {k1, k2, k3}
    Snapshots = {s1, s2}
    Workspaces = {w1}
    None = None
SYMMETRY Symm
INVARIANTS
    TypeOK
    RowsHaveTheirTrees
    PushesBuildOnTheirBase
    SynchronizedWithOwnCommit
