--------------------------- MODULE MCSourceLibrary ---------------------------
EXTENDS SourceLibrary, TLC

Symm == Permutations(Calls) \cup Permutations(Commits)
        \cup Permutations(Snapshots) \cup Permutations(Workspaces)
=============================================================================
