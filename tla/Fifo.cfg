SPECIFICATION FairSpec
CONSTANTS
    Producers = {p1, p2}
    Consumers = {c1, c2}
    Items = {j1, j2, j3, j4}
    Limits <- MCLimits
INVARIANTS
    TypeOK
    Bounded
    NoOneOversleeps
PROPERTIES
    ImplementsQueue
    WaitingIsServed
    JobsAreTaken
