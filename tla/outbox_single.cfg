\* One sender, and the CLI calls one after the other, as the README runs them.
CONSTANTS
    Peers = {p1, p2}
    Clients = {c1}
    Senders = {s1}
    MaxItems = 3
    MaxTime = 3
    MaxFaults = 1
    MaxEdits = 0
    HourLen = 2
    GlobalPerHour = 2
    PeerPerHour = 1
    MinGap = 1
SPECIFICATION FairSpec
INVARIANTS TypeOK LedgerExact GapKept
PROPERTIES TransmitsOnlyApproved PassEnds
