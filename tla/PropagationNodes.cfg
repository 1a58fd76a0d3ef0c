SPECIFICATION NodesSpec
CONSTANTS
    n1 = n1
    n2 = n2
    n3 = n3
    Node <- DirectoryNodes
    NoNode = NoNode
    HopCounts <- DirectoryHops
    MAX_PROPAGATION_NODES = 2
    NODE_STALE_TIMEOUT = 1
    MaxTime = 5
SYMMETRY DirectorySymmetry
INVARIANT ListedIsLatest
INVARIANT FreshIsListed
INVARIANT EffectiveIsBest
