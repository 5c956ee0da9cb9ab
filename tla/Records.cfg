SPECIFICATION Spec
CONSTANTS
    image = image
    blank = blank
    left = left
    right = right
    deep = deep
    deeper = deeper
    Worker = {w1, w2}
    Image = {image}
    Child = {left, right, deep, deeper, blank}
    Scanner = {sc1, sc2}
    NoScanner = NoScanner
    NullSbuf = NullSbuf
    ParentOf <- MCParentOf
    hash <- MChash
    bufsize <- MCbufsize
    scan_seen_before = {sc2}
    depth <- MCdepth
    max_depth = 3
SYMMETRY WorkerSymmetry
INVARIANTS TypeOK MaxDepthExact  StopMeansDone
