\* A loop and a one-shot process over three peers, any of which may have
\* been renamed in the watchlist.
CONSTANTS
    Procs = {p1, p2}
    Loops = {p1}
    NumPeers = 3
    Floor = 1
    Interval = 1
    MinDelay = 2
    CoolTime = 2
    MaxFaults = 2
    Nobody = Nobody
SPECIFICATION FairSpec
INVARIANTS SessionNeedsLock SessionIsReleased LockIsNotLeaked
PROPERTIES EveryPeerIsReached
