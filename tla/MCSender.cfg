SPECIFICATION Spec
CONSTANTS
    c1 = c1
    c2 = c2
    c3 = c3
    t1 = t1
    NoTracker = NoTracker
    Ping = Ping
    Trackers = {t1}
    Calls = {c1, c2, c3}
    Group <- Three
    Malformed = {}
    MaxPacket = 2
    MaxRetries = 1
    MaxPings = 1
    MaxServices = 0
CONSTRAINT Bounded
SYMMETRY Alike
INVARIANTS
    TypeOK
    DeliveryCertainty
    PacketKeptWhole
    ReservationExclusive
    NoOverlap
CHECK_DEADLOCK FALSE
PROPERTIES Promised
