SPECIFICATION ExportSpec
CONSTANTS
    Calls = {c1}
    Trees = {x, y}
    Releases = {x}
    Commits = {k1}
    Snapshots = {s1}
    Workspaces = {w1}
    None = None
INVARIANT PackagesRestore
