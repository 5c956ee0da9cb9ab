SPECIFICATION Spec
CONSTANTS
    big = big
    small = small
    none = none
    plain = plain
    decoder = decoder
    carver = carver
    Content = {big}
    Scanner = {plain, decoder}
    NoScanner = NoScanner
    bufsize <- MCbufsize
    Suits <- MCSuits
    OccursIn <- MCOccursIn
    depth0_only = {}
    scan_seen_before = {}
    recurse_always = {}
    scanner_wants <- MCnothing
    scanner_produces <- MCnothing
    Named = {plain, decoder}
    max_depth = 2
    AlertRecorder = TRUE
    DiskMayFill = TRUE
    MaxScheduled = 1
    MaxRecursions = 1
INVARIANTS NoExceptionEscapes
