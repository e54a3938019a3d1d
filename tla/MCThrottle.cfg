SPECIFICATION AllSpec
CONSTANTS
    Origins = {o1, o2}
    Tasks = {t1, t2}
    NoOrigin = NoOrigin
    Tokens = 2
    Horizon = 2
    StepsBack = FALSE
    MaxTorn = 1
    Peeks = TRUE
    Clients <- AllClients
    PageWindows = 2
    MaxRecursions = 2
    MaxFollowed = 1
    MaxRequests = 2
CHECK_DEADLOCK FALSE
INVARIANTS WithinLimit LimitSetBack EachGetIsPaid
PROPERTIES NoIdleWait CallsEnd
