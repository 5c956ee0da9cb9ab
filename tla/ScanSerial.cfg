SPECIFICATION Spec
CONSTANTS
    big = big
    small = small
    none = none
    plain = plain
    decoder = decoder
    carver = carver
    Content = {big, small, none}
    Scanner = {plain, decoder, carver}
    NoScanner = NoScanner
    bufsize <- MCbufsize
    Suits <- MCSuits
    OccursIn <- MCOccursIn
    depth0_only = {carver}
    scan_seen_before = {decoder}
    recurse_always = {decoder}
    scanner_wants <- MCwants
    scanner_produces <- MCproduces
    Named = {plain, decoder}
    max_depth = 2
    AlertRecorder = TRUE
    DiskMayFill = TRUE
    MaxScheduled = 1
    MaxRecursions = 1
INVARIANTS TypeOK SeenOnce NothingKept
PROPERTIES Terminates
