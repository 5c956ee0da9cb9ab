SPECIFICATION Spec
CONSTANTS
    Worker = {w1, w2}
    Image = {i1, i2}
    Child = {c1}
    Large = {c1}
    Skipped = {i2}
    Scanner = {sc1, sc2}
    NoScanner = NoScanner
    NullSbuf = NullSbuf
    MainThreadWaits = TRUE
    Spurious = TRUE
INVARIANTS
    TypeOK
    CountersExact
    PillsMatchWorkers
    JoinedMeansGone
    AtMostOnce
    NothingLost
PROPERTIES
    WaitReturnsDrained
    CallsReturn
    ImplementsWorkPool
