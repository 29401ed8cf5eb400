\* Two CLI processes decide the same row.
CONSTANTS
    Peers = {p1}
    Clients = {c1, c2}
    Senders = {s1}
    MaxItems = 1
    MaxTime = 1
    MaxFaults = 1
    MaxEdits = 1
    HourLen = 1
    GlobalPerHour = 2
    PeerPerHour = 2
    MinGap = 1
SPECIFICATION Spec
SYMMETRY Symmetry
INVARIANTS OneDecisionPerItem
