SPECIFICATION AllSpec
CONSTANTS
    k1 = k1  k2 = k2  k3 = k3
    Hosts = {h1, h2, h3}
    Workers = {w1}
    Runs = 2
    Overlap = FALSE
    MaxAge = 1
    MaxTime = 3
    MaxMishaps = 1
    Resumed = {h1, h2}
    Pods = {p1, p2}
    MaxKills = 1
    Callers = {t1, t2}
    Keys = {k1, k2, k3}
    MaxCalls = 3
    Orders <- Lists
CHECK_DEADLOCK FALSE
INVARIANTS OneSurvey UnsavedIsDue AllSaved InOrder ReturnedIsThere
PROPERTIES RunsEnd AllReady RaisesOnlyCrossed
