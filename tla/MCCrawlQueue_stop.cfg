SPECIFICATION Spec
CONSTANTS
    left = left
    right = right
    shallow = shallow
    deep = deep
    p1 = p1
    p2 = p2
    w1 = w1
    w2 = w2
    NoJob = NoJob
    Ids = {1, 2, 3}
    Jobs <- JoinJobs
    JobId <- JoinJobId
    Rank <- JoinRank
    Succ <- JoinSucc
    Seeds = {left, right}
    Flaky = {left}
    Pods = {p1}
    Workers = {w1, w2}
    Home <- OneHome
    MaxFailures = 1
    Events = {"sigterm"}
    MaxEvents = 1
    MaxStarts = 2
    MaxCopies = 2
CHECK_DEADLOCK FALSE
PROPERTIES StoppedHandsOutNothing
