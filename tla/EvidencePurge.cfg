SPECIFICATION Spec
CONSTANTS
    cli = cli
    p1 = p1
    p2 = p2
    n1 = n1
    d1 = d1
    d2 = d2
    Daemon = Daemon
    Clis <- MCClis
    Projects <- MCProjects
    Names <- MCNames
    Digests <- MCDigests
    None = None
    PageLimit = 1
    MaxPuts = 2
    MaxRounds = 2
INVARIANT
    PurgeNeverRefused
