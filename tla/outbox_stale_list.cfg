\* Two senders hold the same list of approved rows.
CONSTANTS
    Peers = {p1}
    Clients = {c1}
    Senders = {s1, s2}
    MaxItems = 1
    MaxTime = 1
    MaxFaults = 0
    MaxEdits = 1
    HourLen = 1
    GlobalPerHour = 2
    PeerPerHour = 2
    MinGap = 1
SPECIFICATION Spec
SYMMETRY Symmetry
PROPERTIES TransmitsOnlyApproved
