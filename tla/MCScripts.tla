------------------------------ MODULE MCScripts ------------------------------
(***************************************************************************)
(* ScriptParts with jobs to recover of two actors of one host, ann with     *)
(* both collections and the pages their walks ended at, and bob listed by   *)
(* ann; with two seed files that have a seed in common, a worker of main.py *)
(* and one of another pod; and fix-ups of the members of two jobs.          *)
(***************************************************************************)
EXTENDS ScriptParts, TLC

CONSTANTS
    seed, annActor, bobActor, followers, followersPage, followingPage, ann, bob,
    evan, alice, addSeeds, main, w1, w2

Web == {seed, annActor, bobActor, followers, followersPage, followingPage}
WebFailed == {seed, bobActor, followers, followersPage}
WebStatus == {bobActor, annActor, followers, followersPage, followingPage}
SeedJobs == {evan, alice}

Self(S) == [j \in S |-> j]
NoOrder(S) == [j \in S |-> 0]

WebId == Self(Web)
WebRank == NoOrder(Web)
WebType == [j \in Web |->
    CASE j = seed -> "webfinger"
      [] j \in {annActor, bobActor} -> "actor"
      [] j = followers -> "collection"
      [] OTHER -> "page"]
WebOwner == [j \in Web |-> IF j \in {seed, bobActor} THEN bob ELSE ann]
WebDirection == [j \in Web |->
    CASE j \in {followers, followersPage} -> "followers"
      [] j = followingPage -> "following"
      [] OTHER -> "none"]
OneHost == [a \in {ann, bob} |-> "host"]
Listing == (ann :> NoActor) @@ (bob :> ann)

OneSeedEach == Self(SeedJobs)
SeedOrder == NoOrder(SeedJobs)
SeedFiles == (addSeeds :> {evan, alice}) @@ (main :> {alice})
Pods == (w1 :> main) @@ (w2 :> NoScript)
=============================================================================
