SPECIFICATION AllSpec
CONSTANTS
    seed = seed
    ann = ann
    bob = bob
    cat = cat
    dan = dan
    eve = eve
    p1 = p1
    p2 = p2
    q1 = q1
    q2 = q2
    annFollowers = annFollowers
    bobFollowing = bobFollowing
    catFollowers = catFollowers
    catFollowing = catFollowing
    danFollowing = danFollowing
    w1 = w1
    w2 = w2
    NoPage = NoPage
    BadLink = BadLink
    NoJob = NoJob
    Webfingers = {seed}
    Actors = {ann, bob, cat, dan, eve}
    Collections = {annFollowers, bobFollowing, catFollowers, catFollowing, danFollowing}
    Pages = {p1, p2, q1, q2}
    ActorOf <- WebActorOf
    Shares <- WebShares
    Owner <- WebOwner
    Direction <- WebDirection
    Declared <- WebDeclared
    First <- WebFirst
    Next <- WebNext
    Walk <- WebWalk
    WithItems <- WebWithItems
    Members <- WebMembers
    MaxDepth = 2
    Workers = {w1, w2}
    Mishaps = {"status", "raise", "again"}
    MaxMishaps = 3
CHECK_DEADLOCK FALSE
INVARIANTS LastPageIsLast
