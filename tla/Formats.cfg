SPECIFICATION FormatsSpec
CONSTANTS
    outer = outer
    full = full
    stale = stale
    t0 = t0
    t1 = t1
    t2 = t2
    c0 = c0
    c1 = c1
    c2 = c2
    file = file
    manifest = manifest
    x = x
    y = y
    mx = mx
    my = my
    escaping = escaping
    None = None
    Unset = Unset
    Absent = Absent
    Repository = {outer, full, stale}
    Tree = {t0, t1, t2}
    Commit = {c0, c1, c2}
    Path = {file, manifest, x, y}
    Artifacts = {manifest}
    Module = {mx, my, escaping}
    Safe = {mx, my}
    Line <- ConfigLines
    Name = {"a", "b"}
    Url = {"https"}
    Family = {"sha256"}
    Hashed = {"#"}
    MaxLines = 8
    RecordLine <- RecordLines
    MaxRecords = 6
    Byte <- Bytes
    Escaped <- Escapes
    MaxBytes = 4
    DataLine <- DataLines
    Selected = {"Cc", "Cn", "Zs"}
    LastPoint = 4
    MaxData = 5
INVARIANTS
    ReadsTheManual
    ReadsTheCanonicalText
    PathsSurvive
    TableIsTheDataFile
    CoversTheSnapshot
    HistoryStaysReadable
    WalkIsBounded
CHECK_DEADLOCK FALSE
