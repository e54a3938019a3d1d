SPECIFICATION AllSpec
CONSTANTS
    seed = seed  annActor = annActor  bobActor = bobActor
    followers = followers  followersPage = followersPage  followingPage = followingPage
    ann = ann  bob = bob
    evan = evan  alice = alice
    addSeeds = addSeeds  main = main  w1 = w1  w2 = w2
    NoActor = NoActor  NoJob = NoJob  NoScript = NoScript  NoId = NoId
    Jobs <- Web
    Ids <- Web
    JobId <- WebId
    Rank <- WebRank
    Workers = {w1}
    Owners = {ann, bob}
    TypeOf <- WebType
    OwnerOf <- WebOwner
    DirectionOf <- WebDirection
    HostOf <- OneHost
    Neighbor <- Listing
    SeedActors = {ann}
    Scripts = {"failed", "status"}
    MaxRuns = 2
    MaxKills = 1
    MaxFails = 1
    FailedJobs <- WebFailed
    StatusJobs <- WebStatus
    Seeds = {evan, alice}
    SeedIds = {evan, alice}
    SeedId <- OneSeedEach
    SeedRank <- SeedOrder
    Seeders = {addSeeds, main}
    Composite = {main}
    File <- SeedFiles
    Crawlers = {w1, w2}
    Home <- Pods
    FixupJobs = {ann, bob}
    Nameless = {bob}
    Kinds = {"queue", "priority", "zero", "crc", "hash"}
    SeenIds = {ann, bob}
    MaxRepeats = 0
    BatchSize = 2
    MaxScriptKills = 2
    MaxLapses = 1
    Parts = {"race"}
CHECK_DEADLOCK FALSE
INVARIANTS FailedIsKept
