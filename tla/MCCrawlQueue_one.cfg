SPECIFICATION Spec
CONSTANTS
    left = left
    right = right
    shallow = shallow
    deep = deep
    p1 = p1
    p2 = p2
    w1 = w1
    w2 = w2
    NoJob = NoJob
    Ids = {1, 2, 3}
    Jobs <- ForkJobs
    JobId <- ForkJobId
    Rank <- ForkRank
    Succ <- ForkSucc
    Seeds = {left, right}
    Flaky = {shallow}
    Pods = {p1}
    Workers = {w1, w2}
    Home <- OneHome
    MaxFailures = 1
    Events = {"crash", "error"}
    MaxEvents = 1
    MaxStarts = 2
    MaxCopies = 2
CHECK_DEADLOCK FALSE
INVARIANTS TypeOK OnePlace LeaseHeld
SYMMETRY WorkerSymmetry
PROPERTIES OneLifetime
