SPECIFICATION GCSpec
CONSTANTS
    Worker = {w1, w2}
    Image = {i1}
    Child = {s1}
    Large = {}
    Skipped = {}
    Slice = {s1}
    Scanner = {sc1, sc2}
    NoScanner = NoScanner
    NullSbuf = NullSbuf
    MainThreadWaits = FALSE
    Spurious = FALSE
INVARIANTS FreedAtZero
