SPECIFICATION AllSpec
CONSTANTS
    left = left
    right = right
    shallow = shallow
    deep = deep
    p1 = p1
    p2 = p2
    w1 = w1
    w2 = w2
    NoJob = NoJob
    Ids = {1, 2, 3}
    Jobs <- ChainJobs
    JobId <- ChainJobId
    Rank <- ChainRank
    Succ <- ChainSucc
    Seeds = {left}
    Flaky = {}
    Pods = {p1, p2}
    Workers = {w1, w2}
    Home <- TwoHomes
    MaxFailures = 1
    Events = {"crash", "sigterm"}
    MaxEvents = 1
    MaxStarts = 2
    MaxCopies = 2
CHECK_DEADLOCK FALSE
PROPERTIES EverySeenSettles CrawlEnds
