\* Two senders and two CLI processes work on the same rows at once and compete for
\* the last place of a rate window, while sending is switched on and off.
CONSTANTS
    Peers = {p1}
    Clients = {c1, c2}
    Senders = {s1, s2}
    MaxItems = 2
    MaxTime = 1
    MaxFaults = 0
    MaxEdits = 1
    HourLen = 2
    GlobalPerHour = 1
    PeerPerHour = 1
    MinGap = 1
SPECIFICATION Spec
SYMMETRY Symmetry
INVARIANTS NothingLeavesUnapproved SentIsDelivered DeliveryBound RateBound
PROPERTIES ImplementsEgress SwitchOffHolds
