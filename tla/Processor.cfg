\* Every processor and feature of Registrations.  The workspace may be deleted,
\* after which nothing happens.
CONSTANTS
    Usages <- Registered
    Default <- DefaultOfAll
    NoProcessor = "NoProcessor"
    Features <- AllFeatures
    Started <- RunByName
    Asked <- AllFeatures
    Withdrawn <- AllFeatures
    MaxRequests = 3
SPECIFICATION Spec
INVARIANTS
    NotCircular
    RequiredHold
    RequestsDeliver
PROPERTIES
    RequestsEnd
    KeepsPromise
CHECK_DEADLOCK FALSE
