SPECIFICATION Spec
CONSTANTS
    jpeg = jpeg
    longer = longer
    copy = copy
    pixels = pixels
    more = more
    here = here
    there = there
    Thread = {t1, t2}
    Text = {long}
    Long = {long}
    Object = {jpeg, longer, copy}
    Data = {pixels, more}
    data <- MCdata
    Name = {here, there}
    filename <- MCfilename
    filesize <- MCfilesize
    files_per_dir = 2
    Header = Header
    CACHED = CACHED
    NoData = NoData
    NoPath = NoPath
    Empty = Empty
    Cut = Cut
    Mixed = Mixed
    IntSpan = 5
    DiskMayFill = TRUE
    MemoryMayFail = TRUE
    MaxCalls = 3
    MaxCrashes = 1
SYMMETRY ThreadSymmetry
INVARIANTS TypeOK  
PROPERTIES LinesKept
