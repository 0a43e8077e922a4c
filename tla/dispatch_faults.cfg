SPECIFICATION Spec
CONSTANTS
    c1 = c1
    c2 = c2
    r1 = r1
    r2 = r2
    r3 = r3
    d1 = d1
    NoDelivery = NoDelivery
    NoTask = NoTask
    Dispatchers = {c1, c2}
    Projects <- OneProject
    MaxConcurrent <- OneSlot
    Requests = {r1, r2, r3}
    Recurring = {}
    ProjectOf <- TrioProject
    Deliveries = {d1}
    DeliveryOf <- TrioDelivery
    Modes <- BothModes
    MayFail = TRUE
INVARIANTS
    QuotaHonoured
    OneRunPerDelivery
    TaskInOnePlace
SYMMETRY Interchangeable
