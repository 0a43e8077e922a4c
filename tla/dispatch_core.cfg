SPECIFICATION FairSpec
CONSTANTS
    c1 = c1
    c2 = c2
    r1 = r1
    r2 = r2
    r3 = r3
    d1 = d1
    NoDelivery = NoDelivery
    NoTask = NoTask
    Dispatchers = {c1, c2}
    Projects <- TwoProjects
    MaxConcurrent <- OneSlotEach
    Requests = {r1, r2, r3}
    Recurring = {r1, r2, r3}
    ProjectOf <- MixedProject
    Deliveries = {d1}
    DeliveryOf <- MixedDelivery
    Modes <- BothModes
    MayFail = FALSE
PROPERTIES
    EveryTaskServed
