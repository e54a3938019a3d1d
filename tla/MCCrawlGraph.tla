---------------------------- MODULE MCCrawlGraph ----------------------------
(***************************************************************************)
(* A small web.  ann's followers are on two pages that lead in a circle,    *)
(* bob on the first and cat on the second; bob follows cat, so that cat is  *)
(* one or two links from the seed.  The first of the two pages of cat's     *)
(* followers has items that have no ids, dan is on the second.  dan is at   *)
(* the last level, and whoever he follows is beyond it.  The first state    *)
(* chooses who works on it:                                                 *)
(*   single  one worker, with mishaps of all kinds                          *)
(*   again   one worker, whose jobs may be delivered again                  *)
(*   beside  two workers, with a mishap of any kind                         *)
(***************************************************************************)
EXTENDS CrawlGraph, TLC

CONSTANTS seed, ann, bob, cat, dan, eve, p1, p2, q1, q2, annFollowers, bobFollowing,
          catFollowers, catFollowing, danFollowing, w1, w2

WebActorOf == (seed :> ann)
WebShares == (ann :> {annFollowers}) @@ (bob :> {bobFollowing})
             @@ (cat :> {catFollowers, catFollowing}) @@ (dan :> {danFollowing}) @@ (eve :> {})
WebOwner == (annFollowers :> ann) @@ (bobFollowing :> bob) @@ (catFollowers :> cat)
            @@ (catFollowing :> cat) @@ (danFollowing :> dan)
WebDirection == (annFollowers :> "followers") @@ (bobFollowing :> "following")
                @@ (catFollowers :> "followers") @@ (catFollowing :> "following")
                @@ (danFollowing :> "following")
WebDeclared == (annFollowers :> "first") @@ (bobFollowing :> "items")
               @@ (catFollowers :> "first") @@ (catFollowing :> "empty")
               @@ (danFollowing :> "items")
WebFirst == [c \in Collections |-> IF c = annFollowers THEN p1
                                   ELSE IF c = catFollowers THEN q1 ELSE NoPage]
WebNext == (p1 :> p2) @@ (p2 :> p1) @@ (q1 :> q2) @@ (q2 :> NoPage)
WebWalk == (p1 :> annFollowers) @@ (p2 :> annFollowers) @@ (q1 :> catFollowers)
           @@ (q2 :> catFollowers)
WebWithItems == {p1, p2, q1, q2, bobFollowing, danFollowing}
WebMembers == (p1 :> {bob}) @@ (p2 :> {cat}) @@ (q1 :> {}) @@ (q2 :> {dan}) @@ (annFollowers :> {})
              @@ (bobFollowing :> {cat}) @@ (catFollowers :> {})
              @@ (catFollowing :> {}) @@ (danFollowing :> {eve})

VARIABLE part

Single == INSTANCE CrawlGraph WITH Workers <- {w1}, MaxMishaps <- 2

Again == INSTANCE CrawlGraph WITH Workers <- {w1}, Mishaps <- {"again"}

Beside == INSTANCE CrawlGraph WITH MaxMishaps <- 1

allVars == <<vars, part>>

AllInit == Init /\ part \in {"single", "again", "beside"}

AllNext ==
    /\ UNCHANGED part
    /\ \/ part = "single" /\ Single!CrawlNext
       \/ part = "again" /\ Again!CrawlNext
       \/ part = "beside" /\ Beside!CrawlNext

\* The fairness of FairSpec, for the workers that there are.
AllSpec ==
    /\ AllInit /\ [][AllNext]_allVars
    /\ \A w \in Workers : WF_vars((part = "beside" \/ w = w1) /\ Handle(w))
=============================================================================
