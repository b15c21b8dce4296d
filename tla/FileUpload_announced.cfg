SPECIFICATION Spec
CONSTANTS
    Uploaders = {"up1", "up2"}
    Announced = {0, 4, 5}
    Available = {3, 4, 5, 6}
    PartSize = 2
    MaxUploadFaults = 0
INVARIANTS
    AsAnnounced
CHECK_DEADLOCK FALSE
