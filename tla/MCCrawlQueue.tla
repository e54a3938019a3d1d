---------------------------- MODULE MCCrawlQueue ----------------------------
(***************************************************************************)
(* Small webs for TLC.                                                      *)
(***************************************************************************)
EXTENDS CrawlQueue, TLC

CONSTANTS left, right, shallow, deep, p1, p2, w1, w2

\* Fork: two seeds, worked on at the same time, discover one actor at
\* different depths; the deeper job would lead back to a seed.
ForkJobs == {left, right, shallow, deep}
ForkJobId == (left :> 1) @@ (right :> 2) @@ (shallow :> 3) @@ (deep :> 3)
ForkRank == (left :> 0) @@ (right :> 0) @@ (shallow :> 1) @@ (deep :> 2)
ForkSucc == (left :> {shallow}) @@ (right :> {deep}) @@ (shallow :> {}) @@ (deep :> {left})

\* Join: two seeds discover the same job.
JoinJobs == {left, right, shallow}
JoinJobId == (left :> 1) @@ (right :> 2) @@ (shallow :> 3)
JoinRank == (left :> 0) @@ (right :> 0) @@ (shallow :> 1)
JoinSucc == (left :> {shallow}) @@ (right :> {shallow}) @@ (shallow :> {})

\* Chain: a seed discovers a job.
ChainJobs == {left, shallow}
ChainJobId == (left :> 1) @@ (shallow :> 3)
ChainRank == (left :> 0) @@ (shallow :> 1)
ChainSucc == (left :> {shallow}) @@ (shallow :> {})

\* One pod with two workers, and two pods with one worker each.
OneHome == (w1 :> p1) @@ (w2 :> p1)
TwoHomes == (w1 :> p1) @@ (w2 :> p2)
WorkerSymmetry == Permutations({w1, w2})
PodSymmetry == {f \in Permutations({p1, p2, w1, w2}) :
                    \A w \in {w1, w2} : f[w] \in {w1, w2} /\ TwoHomes[f[w]] = f[TwoHomes[w]]}
=============================================================================
