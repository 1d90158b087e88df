SPECIFICATION Spec
CONSTANTS
    Targets = {t1}
    Addresses = {a1}
    Calls = {c1, c2}
    m1 = m1
    m2 = m2
    ed1 = ed1
    rsa1 = rsa1
    ed2 = ed2
    Machines = {m1, m2}
    Keys = {ed1, rsa1, ed2}
    Accepted = {ed1, ed2}
    Secrets = {s1, s2}
    Versions = {v1}
    HostKeys <- MCHostKeys
    Rank <- MCRank
    Inventory = 1
    None = None
SYMMETRY Symm
PROPERTY TrustReplacedOnlyAfterReset
