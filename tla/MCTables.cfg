SPECIFICATION AllSpec
CONSTANTS
    a = a  b = b
    Labels = {a, b}
    Values = {v}
    NoValue = NoValue
    p1 = p1  p2 = p2  t1 = t1  t2 = t2
    Procs = {p1, p2}
    Tasks = {t1, t2}
    Home <- OneHome
    Links <- OneLink
    MaxId = 3
    Writers = {w1, w2}
    MaxRow = 3
    MaxBatch = 2
CHECK_DEADLOCK FALSE
INVARIANTS CachedIsTheRow SnapshotIsWhole
PROPERTIES OnlyNamedNodes IsLabelGraph
