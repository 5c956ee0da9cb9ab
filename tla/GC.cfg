SPECIFICATION GCSpec
CONSTANTS
    Worker = {w1, w2}
    Image = {i1}
    Child = {c1, s1}
    Large = {c1}
    Skipped = {c1}
    Slice = {s1}
    Scanner = {sc1, sc2}
    NoScanner = NoScanner
    NullSbuf = NullSbuf
    MainThreadWaits = FALSE
    Spurious = FALSE
INVARIANTS GCTypeOK RefCountExact NoUseAfterFree
PROPERTIES ScheduledIsDeleted
