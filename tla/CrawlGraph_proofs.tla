-------------------------- MODULE CrawlGraph_proofs --------------------------
(***************************************************************************)
(* Theorems of CrawlGraph, for any web, workers and mishaps: what the       *)
(* handlers leave in the graph and in the queue, however their awaits       *)
(* interleave and however often a job fails or is delivered again.          *)
(***************************************************************************)
EXTENDS CrawlGraph, WellFoundedInduction, TLAPS

-----------------------------------------------------------------------------
(* Within is well defined. *)

\* A set of naturals has a least element: induction, as a fact about sets.
LEMMA LeastNatural ==
  ASSUME NEW T \in SUBSET Nat, T # {}
  PROVE  \E m \in T : \A n \in T : m <= n
<1> DEFINE R == {e \in Nat \X Nat : e[1] < e[2]}
<1>1. IsWellFoundedOn(R, Nat)
  BY NatLessThanWellFounded DEF OpToRel
<1>2. \A m, n \in T : n < m => <<n, m>> \in R
  OBVIOUS
<1> HIDE DEF R
<1>3. PICK m \in T : \A n \in T : ~ (<<n, m>> \in R)
  BY <1>1, WFMin
<1>4. \A n \in T : ~ (n < m)
  BY <1>2, <1>3
<1>5. \A n \in T : n \in Nat
  OBVIOUS
<1>6. QED
  BY <1>4, <1>5

\* What the actors of S list.
ListedBy(S) == UNION {Lists(c) : c \in UNION {Shares[a] : a \in S}}

Levels(f, n) ==
    f = [k \in 0 .. n |-> IF k = 0 THEN {ActorOf[s] : s \in Webfingers}
                          ELSE f[k - 1] \union ListedBy(f[k - 1])]

\* There are levels up to any n: were there a first n without, one more than the
\* levels before it would do.
LEMMA WithinIsLevels == Levels(Within, MaxDepth)
<1> DEFINE T == {n \in 0 .. MaxDepth : ~ \E f : Levels(f, n)}
<1>1. MaxDepth \in Nat
  BY WebAssumption
<1>2. \E f : Levels(f, 0)
  <2>1. Levels([k \in 0 .. 0 |-> {ActorOf[s] : s \in Webfingers}], 0)
    BY DEF Levels
  <2>2. QED
    BY <2>1
<1>3. ASSUME NEW n \in 0 .. MaxDepth, n # 0, NEW f, Levels(f, n - 1)
      PROVE  \E h : Levels(h, n)
  <2> DEFINE g == [k \in 0 .. n |-> IF k = n THEN f[n - 1] \union ListedBy(f[n - 1]) ELSE f[k]]
  <2>1. n \in Nat /\ n - 1 \in Nat /\ n \in 0 .. n
    BY <1>1, <1>3
  <2>2. \A k \in 0 .. n - 1 : f[k] = IF k = 0 THEN {ActorOf[s] : s \in Webfingers}
                                     ELSE f[k - 1] \union ListedBy(f[k - 1])
    BY <1>3 DEF Levels
  <2>3. \A k \in 0 .. n : k # n => k \in 0 .. n - 1 /\ g[k] = f[k]
    BY <2>1
  <2>4. g[n] = g[n - 1] \union ListedBy(g[n - 1])
    BY <1>3, <2>1
  <2>5. \A k \in 0 .. n : k # 0 => k - 1 \in 0 .. n /\ k - 1 # n
    BY <2>1
  <2>6. ASSUME NEW k \in 0 .. n
        PROVE  g[k] = IF k = 0 THEN {ActorOf[s] : s \in Webfingers}
                      ELSE g[k - 1] \union ListedBy(g[k - 1])
    <3>1. CASE k = n
      BY <1>3, <2>4, <3>1
    <3>2. CASE k # n
      BY <2>2, <2>3, <2>5, <3>2
    <3>3. QED
      BY <3>1, <3>2
  <2>7. g = [k \in 0 .. n |-> g[k]]
    OBVIOUS
  <2> HIDE DEF g
  <2>8. Levels(g, n)
    BY <2>6, <2>7 DEF Levels
  <2>9. QED
    BY <2>8
<1>4. T = {}
  <2> SUFFICES ASSUME T # {} PROVE FALSE
    OBVIOUS
  <2>1. T \in SUBSET Nat
    BY <1>1
  <2>2. PICK n \in T : \A m \in T : n <= m
    <3> HIDE DEF T
    <3>1. QED
      BY <2>1, LeastNatural
  <2>3. n \in 0 .. MaxDepth /\ ~ \E f : Levels(f, n)
    BY <2>2
  <2>4. n # 0
    BY <1>2, <2>3
  <2>5. n - 1 \in 0 .. MaxDepth /\ n - 1 \notin T
    BY <1>1, <2>2, <2>3, <2>4
  <2>6. PICK f : Levels(f, n - 1)
    BY <2>5
  <2>7. QED
    BY <1>3, <2>3, <2>4, <2>6
<1>5. \E f : Levels(f, MaxDepth)
  BY <1>1, <1>4
<1>6. QED
  BY <1>5 DEF Within, Levels, ListedBy

\* The seeds' actors, and one level after another.
LEMMA WithinRules ==
  /\ \A s \in Webfingers : ActorOf[s] \in Within[0]
  /\ \A k \in 0 .. MaxDepth : k < MaxDepth =>
        \A a \in Within[k] : \A c \in Shares[a] : Lists(c) \subseteq Within[k + 1]
<1>1. MaxDepth \in Nat /\ 0 \in 0 .. MaxDepth
  BY WebAssumption
<1>2. \A k \in 0 .. MaxDepth : k < MaxDepth => k + 1 \in 0 .. MaxDepth /\ k + 1 # 0 /\ k + 1 - 1 = k
  BY <1>1
<1>3. /\ Within[0] = {ActorOf[s] : s \in Webfingers}
      /\ \A k \in 0 .. MaxDepth : k # 0 => Within[k] = Within[k - 1] \union ListedBy(Within[k - 1])
  BY <1>1, WithinIsLevels DEF Levels
<1>4. ASSUME NEW k \in 0 .. MaxDepth, k < MaxDepth
      PROVE  ListedBy(Within[k]) \subseteq Within[k + 1]
  BY <1>2, <1>3, <1>4
<1>5. \A S : \A a \in S : \A c \in Shares[a] : Lists(c) \subseteq ListedBy(S)
  BY DEF ListedBy
<1>6. QED
  BY <1>3, <1>4, <1>5

-----------------------------------------------------------------------------
(* The invariant. *)

CollOf(j) == IF j.type = "page" THEN Walk[j.subject] ELSE j.subject

\* The job lists actors that its handler follows.
HasItems(j) ==
    /\ \/ j.type = "page"
       \/ j.type = "collection" /\ j.depth < MaxDepth /\ Declared[j.subject] = "items"
    /\ j.subject \in WithItems

\* A job is of something that the crawl may come to, at its depth or less.
JobOK(j) ==
    /\ j \in Jobs
    /\ j.type = "webfinger" => j.subject \in Webfingers
    /\ j.type = "actor" => j.subject \in Actors /\ j.subject \in Within[j.depth]
    /\ j.type = "collection" => j.subject \in Collections
    /\ j.type = "page" => /\ j.subject \in Pages /\ j.depth < MaxDepth
                          /\ Declared[Walk[j.subject]] = "first"
    /\ j.type \in {"collection", "page"} =>
          CollOf(j) \in Shares[Owner[CollOf(j)]] /\ Owner[CollOf(j)] \in Within[j.depth]

\* What a handler may be at, for which jobs.
Place(r) ==
    /\ r.at # "idle" => JobOK(r.job)
    /\ r.at = "resolve" => r.job.type = "webfinger"
    /\ r.at = "check" => r.job.type = "actor"
    /\ r.at = "mark" => r.job.type = "page"
    /\ r.at \in {"fetch", "save"} => r.job.type # "webfinger"
    /\ r.at \in {"nodes", "edges"} => HasItems(r.job)
    /\ r.at \in {"depths", "stamp", "dates"} => r.job.type = "webfinger" \/ HasItems(r.job)
    /\ r.at = "offer" => r.job.type \in {"webfinger", "actor"} \/ HasItems(r.job)
    /\ r.at = "link" =>
          \/ r.job.type = "page" /\ HasItems(r.job) /\ Next[r.job.subject] \in Pages
          \/ /\ r.job.type = "collection" /\ r.job.depth < MaxDepth
             /\ Declared[r.job.subject] = "first" /\ First[r.job.subject] \in Pages
    /\ r.at = "stamp" =>
          r.blank \subseteq (IF r.job.type = "webfinger" THEN {ActorOf[r.job.subject]}
                                                         ELSE Members[r.job.subject])
    /\ r.at # "save" => r.ok
    /\ r.at # "offer" => r.todo = {}
    /\ r.at = "offer" =>
          \A k \in r.todo : /\ JobOK(k)
                            /\ IF r.job.type = "actor"
                               THEN k.type = "collection" /\ k.subject \in Shares[r.job.subject]
                               ELSE k.type = "actor"

\* The actors that have been fetched, or offered to the queue.
Followed == seen \union {a \in Actors : actor[a].fetched}

\* The actors that a job lists have their nodes and edges.
Written(j, N, E) == \A a \in Members[j.subject] : a \in N /\ Edge(CollOf(j), a) \in E

Offers(r) == {k.subject : k \in r.todo}

\* The jobs that are half offered, and those that were given to the dispatcher.
Halves == UNION {half[w] : w \in Workers}
Held == queue \union failed \union Halves \union lost

\* What a handler has done before it is where it is, with the nodes N, the edges E,
\* the ids S that were offered and the actors F that are followed.
Progress(r, N, E, S, F) ==
    /\ r.at # "idle" => r.job.subject \in S
    /\ r.at # "idle" /\ r.job.type \in {"collection", "page"} => Owner[CollOf(r.job)] \in S
    /\ r.at = "edges" => Members[r.job.subject] \subseteq N
    /\ r.at \in {"depths", "stamp", "dates", "offer", "link", "save"} =>
          (r.ok /\ HasItems(r.job) => Written(r.job, N, E))
    /\ r.at = "offer" /\ r.job.type = "actor" => Shares[r.job.subject] \subseteq S \union Offers(r)
    /\ r.at = "offer" /\ r.job.type = "webfinger" =>
          ActorOf[r.job.subject] \in F \union Offers(r)
    /\ r.at = "offer" /\ r.job.type \in {"collection", "page"} =>
          Members[r.job.subject] \subseteq F \union Offers(r)
    /\ r.at = "save" /\ r.ok /\ r.job.type = "actor" => Shares[r.job.subject] \subseteq S
    /\ r.at \in {"link", "save"} =>
          (r.ok /\ HasItems(r.job) => Members[r.job.subject] \subseteq F)

TasksOK ==
    \A w \in Workers : Place(task[w]) /\ Progress(task[w], nodes, edges, seen, Followed)

JobsOK ==
    \A j \in Held :
        /\ JobOK(j) /\ j.subject \in seen
        /\ j.type \in {"collection", "page"} => Owner[CollOf(j)] \in seen

\* Only a handler offers, and no handler offers a webfinger.
HalvesOK ==
    /\ \A w \in Workers : half[w] # {} => task[w].at # "idle"
    /\ \A j \in Halves \union lost : j.type # "webfinger"

\* A page that has been read: its edges are there, and its actors were offered.
PageRead(p, N, E, F) ==
    /\ p \in WithItems
    /\ \A a \in Members[p] : a \in N /\ Edge(Walk[p], a) \in E /\ a \in F

\* A page the crawl knows of is the first one of its collection, or the pages up to
\* it have been read: S are those pages.
PagesOK ==
    \A p \in seen \intersect Pages : \E S \in SUBSET Pages :
        /\ p \in S /\ First[Walk[p]] \in S
        /\ \A q \in S : /\ Walk[q] = Walk[p]
                        /\ q # p => PageRead(q, nodes, edges, Followed) /\ Next[q] \in S

\* pages_complete, and what it says of the actors too.
CompleteOK ==
    \A c \in Collections : coll[c].complete =>
        \A a \in Lists(c) : a \in nodes /\ Edge(c, a) \in edges /\ a \in Followed

DepthsOK == \A a \in Actors : actor[a].depth # -1 => a \in Within[actor[a].depth]

CrawlInv ==
    /\ TypeOK /\ TasksOK /\ JobsOK /\ HalvesOK
    /\ PagesOK /\ CompleteOK /\ DepthsOK /\ FetchedIsFollowed

\* The actors a job lists are one level on.
LEMMA ItemsLevel ==
  ASSUME NEW j, JobOK(j), HasItems(j)
  PROVE  /\ j.depth \in 0 .. MaxDepth /\ j.depth + 1 \in 0 .. MaxDepth
         /\ CollOf(j) \in Collections /\ Owner[CollOf(j)] \in Actors
         /\ Members[j.subject] \subseteq Actors
         /\ Members[j.subject] \subseteq Lists(CollOf(j))
         /\ Members[j.subject] \subseteq Within[j.depth + 1]
<1>1. j.depth \in 0 .. MaxDepth /\ MaxDepth \in Nat
  BY WebAssumption DEF JobOK, Jobs
<1>2. CASE j.type = "page"
  <2>1. /\ j.subject \in Pages /\ j.depth < MaxDepth /\ CollOf(j) = Walk[j.subject]
        /\ Declared[CollOf(j)] = "first"
        /\ CollOf(j) \in Shares[Owner[CollOf(j)]] /\ Owner[CollOf(j)] \in Within[j.depth]
    <3>1. CollOf(j) = Walk[j.subject]
      BY <1>2 DEF CollOf
    <3>2. QED
      BY <1>2, <3>1 DEF JobOK
  <2> CollOf(j) \in Collections
    BY <2>1, WebAssumption
  <2>2. Owner[CollOf(j)] \in Actors /\ Members[j.subject] \subseteq Actors
    BY <2>1, WebAssumption
  <2>3. Members[j.subject] \subseteq Lists(CollOf(j))
    BY <2>1 DEF Lists
  <2>4. Lists(CollOf(j)) \subseteq Within[j.depth + 1]
    BY <1>1, <2>1, WithinRules
  <2>5. QED
    BY <1>1, <2>1, <2>2, <2>3, <2>4
<1>3. CASE j.type = "collection"
  <2>1. /\ j.subject \in Collections /\ j.depth < MaxDepth /\ CollOf(j) = j.subject
        /\ Declared[CollOf(j)] = "items"
        /\ CollOf(j) \in Shares[Owner[CollOf(j)]] /\ Owner[CollOf(j)] \in Within[j.depth]
    BY <1>3, WebAssumption DEF JobOK, CollOf, HasItems
  <2>2. Owner[CollOf(j)] \in Actors /\ Members[j.subject] \subseteq Actors
    BY <2>1, WebAssumption
  <2>3. Members[j.subject] \subseteq Lists(CollOf(j))
    BY <2>1 DEF Lists
  <2>4. Lists(CollOf(j)) \subseteq Within[j.depth + 1]
    BY <1>1, <2>1, WithinRules
  <2>5. QED
    BY <1>1, <2>1, <2>2, <2>3, <2>4
<1>4. QED
  BY <1>2, <1>3 DEF HasItems

-----------------------------------------------------------------------------
(* Steps. *)

Step(w) == Handle(w) \/ StatusError(w) \/ Raise(w) \/ Redeliver(w)

\* The graph and the seen set only grow, and one worker moves.
Grows(w) ==
    /\ nodes \subseteq nodes' /\ edges \subseteq edges' /\ seen \subseteq seen'
    /\ Followed \subseteq Followed'
    /\ \A u \in Workers : u # w => task'[u] = task[u]

LEMMA StepGrows ==
  ASSUME TypeOK, NEW w \in Workers, Step(w)
  PROVE  Grows(w)
<1>1. task \in [Workers -> [at : Steps, job : Jobs \union {NoJob}, todo : SUBSET Jobs,
                            blank : SUBSET Actors, ok : BOOLEAN]]
  BY DEF TypeOK
<1>2. \A u \in Workers : u # w => task'[u] = task[u]
  BY <1>1 DEF Step, Handle, Take, Resolve, Check, Mark, FetchActor, FetchCollection, FetchPage,
       EnsureNodes, EnsureEdges, ReadDepths, StampDepths, ReadDates, Offer, Offered, Link, Push,
       SaveActor, SaveCollection, SavePage, StatusError, Raise, Redeliver, CutOff, Goto, Finish
<1>3. nodes \subseteq nodes' /\ edges \subseteq edges' /\ seen \subseteq seen'
  BY DEF Step, Handle, Take, Resolve, Check, Mark, FetchActor, FetchCollection, FetchPage,
       EnsureNodes, EnsureEdges, ReadDepths, StampDepths, ReadDates, Offer, Offered, Link, Push,
       SaveActor, SaveCollection, SavePage, StatusError, Raise, Redeliver, CutOff, EnqueueIfUnseen,
       graph, dispatcher
<1>4. actor \in [Actors -> [depth : -1 .. MaxDepth, fetched : BOOLEAN, refused : BOOLEAN]]
  BY DEF TypeOK
<1>5. ASSUME StampDepths(w), NEW a \in Actors
      PROVE  actor[a].fetched => actor'[a].fetched
  <2>1. actor'[a].fetched = actor[a].fetched
    BY <1>4, <1>5 DEF StampDepths
  <2>2. QED
    BY <2>1, Zenon
<1>6. ASSUME SaveActor(w), NEW a \in Actors
      PROVE  actor[a].fetched => actor'[a].fetched
  <2>1. CASE a # Subject(w)
    <3>1. actor'[a] = actor[a]
      BY <1>4, <1>6, <2>1 DEF SaveActor
    <3>2. QED
      BY <3>1, Zenon
  <2>2. CASE a = Subject(w)
    <3>1. actor'[a].fetched = (actor[a].fetched \/ task[w].ok)
      BY <1>4, <1>6, <2>2 DEF SaveActor
    <3>2. QED
      BY <3>1, Zenon
  <2>3. QED
    BY <2>1, <2>2
<1>7. ASSUME actor' = actor, NEW a \in Actors
      PROVE  actor[a].fetched => actor'[a].fetched
  BY <1>7, Zenon
<1>8. StampDepths(w) \/ SaveActor(w) \/ actor' = actor
  BY DEF Step, Handle, Take, Resolve, Check, Mark, FetchActor, FetchCollection, FetchPage,
       EnsureNodes, EnsureEdges, ReadDepths, ReadDates, Offer, Offered, Link, Push,
       SaveCollection, SavePage, StatusError, Raise, Redeliver, CutOff, EnqueueIfUnseen, graph, dispatcher
<1>9. \A a \in Actors : actor[a].fetched => actor'[a].fetched
  BY <1>5, <1>6, <1>7, <1>8
<1>10. Followed \subseteq Followed'
  BY <1>3, <1>9 DEF Followed
<1>11. QED
  BY <1>2, <1>3, <1>10 DEF Grows

\* The jobs that are half offered, when a worker's change.
LEMMA HalvesAre ==
  ASSUME TypeOK, NEW w \in Workers, NEW S, half' = [half EXCEPT ![w] = S]
  PROVE  /\ Halves' \subseteq Halves \union S /\ S \subseteq Halves'
         /\ Halves \subseteq Halves' \union half[w]
         /\ half'[w] = S /\ \A u \in Workers : u # w => half'[u] = half[u]
<1>1. half \in [Workers -> SUBSET Jobs]
  BY DEF TypeOK
<1>2. half'[w] = S /\ \A u \in Workers : u # w => half'[u] = half[u]
  BY <1>1
<1>3. QED
  BY <1>2 DEF Halves

\* Of the jobs that the dispatcher was given only the one that a worker takes is gone.
LEMMA HeldStays ==
  ASSUME TypeOK, NEW w \in Workers, Step(w)
  PROVE  /\ \A j \in Held : j \in Held' \/ (Take(w) /\ queue' = queue \ {j})
         /\ lost \subseteq lost'
         /\ \A u \in Workers : u # w => half'[u] = half[u]
<1>1. CASE Take(w)
  <2>1. PICK k \in queue : queue' = queue \ {k}
    BY <1>1 DEF Take
  <2>2. failed' = failed /\ half' = half /\ lost' = lost
    BY <1>1 DEF Take
  <2>3. Halves' = Halves
    BY <2>2 DEF Halves
  <2>4. QED
    BY <1>1, <2>1, <2>2, <2>3 DEF Held
<1>2. CASE Offer(w) \/ Link(w)
  <2>1. PICK j : EnqueueIfUnseen(w, j) /\ half[w] = {}
    BY <1>2 DEF Offer, Link, At
  <2>2. queue' = queue /\ failed' = failed /\ lost' = lost
        /\ (half' = half \/ half' = [half EXCEPT ![w] = {j}])
    BY <2>1 DEF EnqueueIfUnseen
  <2>3. Halves \subseteq Halves' /\ \A u \in Workers : u # w => half'[u] = half[u]
    <3>1. CASE half' = half
      BY <3>1 DEF Halves
    <3>2. CASE half' = [half EXCEPT ![w] = {j}]
      BY <2>1, <3>2, HalvesAre
    <3>3. QED
      BY <2>2, <3>1, <3>2
  <2>4. QED
    BY <2>2, <2>3 DEF Held
<1>3. CASE Push(w)
  <2>1. queue' = queue \union half[w] /\ half' = [half EXCEPT ![w] = {}]
        /\ failed' = failed /\ lost' = lost
    BY <1>3 DEF Push
  <2>2. Halves \subseteq Halves' \union half[w] /\ \A u \in Workers : u # w => half'[u] = half[u]
    BY <2>1, HalvesAre
  <2>3. QED
    BY <2>1, <2>2 DEF Held
<1>4. CASE CutOff(w) /\ queue \subseteq queue' /\ failed \subseteq failed'
  <2>1. lost' = lost \union half[w] /\ half' = [half EXCEPT ![w] = {}]
    BY <1>4 DEF CutOff
  <2>2. Halves \subseteq Halves' \union half[w] /\ \A u \in Workers : u # w => half'[u] = half[u]
    BY <2>1, HalvesAre
  <2>3. QED
    BY <1>4, <2>1, <2>2 DEF Held
<1>5. CASE half' = half /\ lost' = lost /\ queue \subseteq queue' /\ failed \subseteq failed'
  <2>1. Halves' = Halves
    BY <1>5 DEF Halves
  <2>2. QED
    BY <1>5, <2>1 DEF Held
<1>6. Raise(w) => CutOff(w) /\ queue \subseteq queue' /\ failed \subseteq failed'
  BY DEF Raise
<1>7. Redeliver(w) => /\ CutOff(w) \/ (half' = half /\ lost' = lost)
                      /\ queue \subseteq queue' /\ failed \subseteq failed'
  BY DEF Redeliver
<1>8. QED
  BY <1>1, <1>2, <1>3, <1>4, <1>5, <1>6, <1>7
     DEF Step, Handle, Resolve, Check, Mark, FetchActor, FetchCollection, FetchPage,
       EnsureNodes, EnsureEdges, ReadDepths, StampDepths, ReadDates, Offered,
       SaveActor, SaveCollection, SavePage, StatusError, dispatcher

\* Who has worked, and what has happened.
LEMMA PastStep ==
  ASSUME NEW w \in Workers, Step(w)
  PROVE  /\ crew \subseteq crew' /\ crew' \subseteq crew \union {w}
         /\ met \subseteq met' /\ (met' = met \/ \E m \in Mishaps : met' = met \union {m})
         /\ Take(w) => w \in crew'
         /\ StatusError(w) => "status" \in met'
         /\ Raise(w) => "raise" \in met'
BY DEF Step, Handle, Take, Resolve, Check, Mark, FetchActor, FetchCollection, FetchPage,
     EnsureNodes, EnsureEdges, ReadDepths, StampDepths, ReadDates, Offer, Offered, Link, Push,
     SaveActor, SaveCollection, SavePage, StatusError, Raise, Redeliver, CutOff, Mishap, past

\* What a handler has done stays done.
LEMMA ProgressStays ==
  ASSUME NEW r, NEW N, NEW E, NEW S, NEW F, NEW N2, NEW E2, NEW S2, NEW F2,
         N \subseteq N2, E \subseteq E2, S \subseteq S2, F \subseteq F2,
         Progress(r, N, E, S, F)
  PROVE  Progress(r, N2, E2, S2, F2)
BY DEF Progress, Written

LEMMA IdleIsFine ==
  ASSUME NEW N, NEW E, NEW S, NEW F
  PROVE  Place(Idle) /\ Progress(Idle, N, E, S, F)
BY DEF Idle, Place, Progress

LEMMA WalksStay ==
  /\ \A c \in Collections : First[c] \in Pages => Walk[First[c]] = c
  /\ \A p \in Pages : Next[p] \in Pages => Walk[Next[p]] = Walk[p]
BY WebAssumption

\* The job of the first or the next page.
LEMMA LinkJob ==
  ASSUME NEW r, Place(r), r.at = "link",
         NEW p, p = IF r.job.type = "page" THEN Next[r.job.subject] ELSE First[r.job.subject],
         NEW k, k = [type |-> "page", depth |-> r.job.depth, subject |-> p]
  PROVE  /\ JobOK(k) /\ p \in Pages /\ CollOf(k) = CollOf(r.job) /\ Walk[p] = CollOf(r.job)
         /\ r.job.type \in {"page", "collection"}
<1>1. k.type = "page" /\ k.depth = r.job.depth /\ k.subject = p
  OBVIOUS
<1>2. JobOK(r.job) /\ r.job.type \in {"page", "collection"}
  BY DEF Place
<1>3. p \in Pages /\ Walk[p] = CollOf(r.job) /\ r.job.depth < MaxDepth /\ Declared[Walk[p]] = "first"
  <2>1. CASE r.job.type = "page"
    <3>1. r.job.subject \in Pages /\ Next[r.job.subject] \in Pages /\ p = Next[r.job.subject]
      BY <2>1 DEF Place, JobOK
    <3>2. Walk[p] = Walk[r.job.subject]
      BY <3>1, WalksStay
    <3>3. QED
      BY <1>2, <2>1, <3>1, <3>2 DEF JobOK, CollOf
  <2>2. CASE r.job.type = "collection"
    <3>1. r.job.subject \in Collections /\ First[r.job.subject] \in Pages /\ p = First[r.job.subject]
          /\ r.job.depth < MaxDepth /\ Declared[r.job.subject] = "first"
      BY <2>2 DEF Place, JobOK
    <3>2. Walk[p] = r.job.subject
      BY <3>1, WalksStay
    <3>3. QED
      BY <2>2, <3>1, <3>2 DEF CollOf
  <2>3. QED
    BY <1>2, <2>1, <2>2
<1>4. CollOf(k) = CollOf(r.job)
  BY <1>1, <1>3 DEF CollOf
<1>5. k \in Jobs
  BY <1>2, <1>3 DEF Jobs, JobOK, Types, Subjects
<1>6. CollOf(k) \in Shares[Owner[CollOf(k)]] /\ Owner[CollOf(k)] \in Within[k.depth]
  BY <1>1, <1>2, <1>4 DEF JobOK
<1>7. JobOK(k)
  BY <1>1, <1>3, <1>5, <1>6 DEF JobOK
<1>8. QED
  BY <1>2, <1>3, <1>4, <1>7

TaskRec == [at : Steps, job : Jobs \union {NoJob}, todo : SUBSET Jobs,
            blank : SUBSET Actors, ok : BOOLEAN]

\* The jobs a handler offers.
LEMMA OfferedCollections ==
  ASSUME NEW j, JobOK(j), j.type = "actor",
         NEW k \in [type : {"collection"}, subject : Shares[j.subject], depth : {j.depth}]
  PROVE  JobOK(k) /\ k.type = "collection" /\ k.subject \in Shares[j.subject]
<1>1. k.type = "collection" /\ k.subject \in Shares[j.subject] /\ k.depth = j.depth
  OBVIOUS
<1>2. j.subject \in Actors /\ j.subject \in Within[j.depth] /\ j.depth \in 0 .. MaxDepth
  BY DEF JobOK, Jobs
<1>3. k.subject \in Collections /\ Owner[k.subject] = j.subject
  BY <1>1, <1>2, WebAssumption
<1>4. k \in Jobs
  BY <1>1, <1>2, <1>3 DEF Jobs, Types, Subjects
<1>5. QED
  BY <1>1, <1>2, <1>3, <1>4 DEF JobOK, CollOf

\* The actors that a job comes upon, and their level.
LEMMA IdsLevel ==
  ASSUME NEW w, JobOK(task[w].job), Type(w) = "webfinger" \/ HasItems(task[w].job)
  PROVE  Level(w) \in 0 .. MaxDepth /\ Ids(w) \subseteq Actors /\ Ids(w) \subseteq Within[Level(w)]
<1>1. CASE Type(w) = "webfinger"
  <2>1. Subject(w) \in Webfingers /\ Level(w) = 0 /\ Ids(w) = {ActorOf[Subject(w)]}
    BY <1>1 DEF JobOK, Type, Subject, Level, Ids
  <2>2. ActorOf[Subject(w)] \in Actors /\ ActorOf[Subject(w)] \in Within[0] /\ MaxDepth \in Nat
    BY <2>1, WithinRules, WebAssumption
  <2>3. QED
    BY <2>1, <2>2
<1>2. CASE Type(w) # "webfinger"
  <2>1. Level(w) = task[w].job.depth + 1 /\ Ids(w) = Members[task[w].job.subject]
    BY <1>2 DEF Level, Ids, Depth, Subject
  <2>2. HasItems(task[w].job)
    BY <1>2
  <2>3. QED
    BY <2>1, <2>2, ItemsLevel
<1>3. QED
  BY <1>1, <1>2

LEMMA OfferedActors ==
  ASSUME NEW w, JobOK(task[w].job), Type(w) = "webfinger" \/ HasItems(task[w].job),
         NEW S \in SUBSET Ids(w), NEW k \in ActorJobs(w, S)
  PROVE  JobOK(k) /\ k.type = "actor"
<1>1. k.type = "actor" /\ k.subject \in S /\ k.depth = Level(w)
      /\ k = [type |-> "actor", subject |-> k.subject, depth |-> k.depth]
  BY DEF ActorJobs
<1>2. k.depth \in 0 .. MaxDepth /\ k.subject \in Actors /\ k.subject \in Within[k.depth]
  BY <1>1, IdsLevel
<1>3. k \in Jobs
  BY <1>1, <1>2 DEF Jobs, Types, Subjects
<1>4. QED
  BY <1>1, <1>2, <1>3 DEF JobOK

\* The worker that moves is where its job may be, and has done what comes before.
LEMMA TaskStep ==
  ASSUME CrawlInv, NEW w \in Workers, Step(w)
  PROVE  Place(task'[w]) /\ Progress(task'[w], nodes', edges', seen', Followed')
<1> DEFINE r == task[w]
           s == task'[w]
<1>1. task \in [Workers -> TaskRec] /\ r \in TaskRec /\ r.ok \in BOOLEAN
  <2>1. task \in [Workers -> TaskRec]
    BY DEF CrawlInv, TypeOK, TaskRec
  <2>2. QED
    BY <2>1 DEF TaskRec
<1>2. Place(r) /\ Progress(r, nodes, edges, seen, Followed)
  BY DEF CrawlInv, TasksOK
<1>3. Progress(r, nodes', edges', seen', Followed')
  <2>1. Grows(w)
    BY StepGrows DEF CrawlInv
  <2>2. QED
    BY <1>2, <2>1, ProgressStays DEF Grows
<1>4. r.at # "idle" => JobOK(r.job) /\ r.job.type \in Types
  BY <1>2 DEF Place, JobOK, Jobs
<1>5. ASSUME Finish(w)
      PROVE  Place(s) /\ Progress(s, nodes', edges', seen', Followed')
  <2>1. s = Idle
    BY <1>1, <1>5 DEF Finish
  <2>2. QED
    BY <2>1, IdleIsFine
<1>6. ASSUME NEW step, Goto(w, step)
      PROVE  s.at = step /\ s.job = r.job /\ s.todo = r.todo /\ s.blank = r.blank /\ s.ok = r.ok
  BY <1>1, <1>6 DEF Goto, TaskRec
<1>7. CASE Take(w)
  <2>1. PICK j \in queue :
           task' = [task EXCEPT ![w].job = j, ![w].at =
                         CASE j.type = "webfinger" -> "resolve" [] j.type = "actor" -> "check"
                           [] j.type = "collection" -> "fetch" [] j.type = "page" -> "mark"]
    BY <1>7 DEF Take
  <2>2. /\ s.job = j /\ s.todo = r.todo /\ s.ok = r.ok
        /\ s.at = CASE j.type = "webfinger" -> "resolve" [] j.type = "actor" -> "check"
                    [] j.type = "collection" -> "fetch" [] j.type = "page" -> "mark"
    BY <1>1, <2>1 DEF TaskRec
  <2>3. /\ JobOK(j) /\ j.type \in Types /\ j.subject \in seen
        /\ j.type \in {"collection", "page"} => Owner[CollOf(j)] \in seen
    BY DEF CrawlInv, JobsOK, Held, JobOK, Jobs
  <2>4. r.at = "idle" /\ seen' = seen
    BY <1>7 DEF Take, At
  <2>5. s.at \in {"resolve", "check", "fetch", "mark"} /\ s.at # "idle"
    BY <2>2, <2>3 DEF Types
  <2>6. r.ok /\ r.todo = {}
    BY <1>2, <2>4 DEF Place
  <2>7. /\ s.at = "resolve" => j.type = "webfinger"
        /\ s.at = "check" => j.type = "actor"
        /\ s.at = "mark" => j.type = "page"
        /\ s.at = "fetch" => j.type = "collection"
    BY <2>2, <2>3 DEF Types
  <2>8. Place(s)
    BY <2>2, <2>3, <2>5, <2>6, <2>7 DEF Place
  <2>9. Progress(s, nodes', edges', seen', Followed')
    BY <2>2, <2>3, <2>4, <2>5 DEF Progress
  <2>10. QED
    BY <2>8, <2>9
<1>8. CASE Resolve(w)
  <2>1. r.at = "resolve" /\ s.at = "depths" /\ s.job = r.job /\ s.todo = r.todo /\ s.ok = r.ok
    BY <1>6, <1>8 DEF Resolve, At
  <2>2. QED
    BY <1>2, <1>3, <2>1 DEF Place, Progress, HasItems
<1>9. CASE Check(w)
  <2>1. CASE Finish(w)
    BY <1>5, <2>1
  <2>2. CASE Goto(w, "fetch")
    <3>1. r.at = "check" /\ s.at = "fetch" /\ s.job = r.job /\ s.todo = r.todo /\ s.ok = r.ok
      BY <1>6, <1>9, <2>2 DEF Check, At
    <3>2. QED
      BY <1>2, <1>3, <3>1 DEF Place, Progress
  <2>3. QED
    BY <1>9, <2>1, <2>2 DEF Check
<1>10. CASE Mark(w)
  <2>1. r.at = "mark" /\ s.at = "fetch" /\ s.job = r.job /\ s.todo = r.todo /\ s.ok = r.ok
    BY <1>6, <1>10 DEF Mark, At
  <2>2. QED
    BY <1>2, <1>3, <2>1 DEF Place, Progress
<1>11. CASE FetchActor(w)
  <2>1. /\ r.at = "fetch" /\ s.at = "offer" /\ s.job = r.job /\ s.ok = r.ok
        /\ r.job.type = "actor"
        /\ s.todo = [type : {"collection"}, subject : Shares[r.job.subject], depth : {r.job.depth}]
    BY <1>1, <1>11 DEF FetchActor, At, Type, CollectionJobs, Subject, Depth, TaskRec
  <2>2. JobOK(r.job)
    BY <1>4, <2>1
  <2>3. \A k \in s.todo : JobOK(k) /\ k.type = "collection" /\ k.subject \in Shares[r.job.subject]
    BY <2>1, <2>2, OfferedCollections
  <2>4. Place(s)
    BY <1>2, <2>1, <2>2, <2>3 DEF Place
  <2>5. Shares[r.job.subject] \subseteq Offers(s)
    <3>1. SUFFICES ASSUME NEW c \in Shares[r.job.subject] PROVE c \in Offers(s)
      OBVIOUS
    <3>2. [type |-> "collection", subject |-> c, depth |-> r.job.depth] \in s.todo
      BY <2>1
    <3>3. QED
      BY <3>2 DEF Offers
  <2>6. Progress(s, nodes', edges', seen', Followed')
    BY <1>3, <2>1, <2>5 DEF Progress, HasItems
  <2>7. QED
    BY <2>4, <2>6
<1>12. CASE FetchCollection(w)
  <2>1. /\ r.at = "fetch" /\ s.job = r.job /\ s.todo = r.todo /\ s.ok = r.ok
        /\ r.job.type = "collection" /\ JobOK(r.job)
        /\ s.at = IF FirstPage(w) THEN "link" ELSE IF Inline(w) THEN "nodes" ELSE "save"
    BY <1>4, <1>6, <1>12 DEF FetchCollection, At, Type
  <2>2. /\ FirstPage(w) => /\ r.job.depth < MaxDepth /\ Declared[r.job.subject] = "first"
                           /\ First[r.job.subject] \in Pages
        /\ Inline(w) = HasItems(r.job)
    BY <2>1 DEF FirstPage, Inline, Walks, HasItems, Subject, Depth
  <2>3. Place(s)
    BY <1>2, <2>1, <2>2 DEF Place
  <2>4. HasItems(r.job) => ~ FirstPage(w)
    BY <2>1, <2>2 DEF HasItems
  <2>5. Progress(s, nodes', edges', seen', Followed')
    BY <1>3, <2>1, <2>2, <2>4 DEF Progress
  <2>6. QED
    BY <2>3, <2>5
<1>13. CASE FetchPage(w)
  <2>1. /\ r.at = "fetch" /\ s.job = r.job /\ s.todo = r.todo /\ s.ok = r.ok
        /\ r.job.type = "page" /\ JobOK(r.job)
        /\ s.at = IF HasItems(r.job) THEN "nodes" ELSE "save"
    BY <1>4, <1>6, <1>13 DEF FetchPage, At, Type, Subject, HasItems
  <2>2. Place(s)
    BY <1>2, <2>1 DEF Place
  <2>3. Progress(s, nodes', edges', seen', Followed')
    BY <1>3, <2>1 DEF Progress
  <2>4. QED
    BY <2>2, <2>3
<1>14. CASE EnsureNodes(w)
  <2>1. /\ r.at = "nodes" /\ s.at = "edges" /\ s.job = r.job /\ s.todo = r.todo /\ s.ok = r.ok
        /\ nodes' = nodes \union Ids(w) /\ HasItems(r.job)
    BY <1>2, <1>6, <1>14 DEF EnsureNodes, At, Place
  <2>2. Ids(w) = Members[r.job.subject]
    BY <2>1 DEF HasItems, Ids, Type, Subject
  <2>3. Place(s)
    BY <1>2, <2>1 DEF Place
  <2>4. Progress(s, nodes', edges', seen', Followed')
    BY <1>3, <2>1, <2>2 DEF Progress
  <2>5. QED
    BY <2>3, <2>4
<1>15. CASE EnsureEdges(w)
  <2>1. /\ r.at = "edges" /\ s.at = "depths" /\ s.job = r.job /\ s.todo = r.todo /\ s.ok = r.ok
        /\ edges' = edges \union {Edge(Coll(w), a) : a \in Ids(w) \intersect nodes}
        /\ nodes' = nodes /\ HasItems(r.job)
    BY <1>2, <1>6, <1>15 DEF EnsureEdges, At, Place
  <2>2. Ids(w) = Members[r.job.subject] /\ Coll(w) = CollOf(r.job)
    BY <2>1 DEF HasItems, Ids, Coll, CollOf, Type, Subject
  <2>3. Members[r.job.subject] \subseteq nodes
    BY <1>2, <2>1 DEF Progress
  <2>4. Written(r.job, nodes', edges')
    BY <2>1, <2>2, <2>3 DEF Written
  <2>5. Place(s)
    BY <1>2, <2>1 DEF Place
  <2>6. Progress(s, nodes', edges', seen', Followed')
    BY <1>3, <2>1, <2>4 DEF Progress
  <2>7. QED
    BY <2>5, <2>6
<1>16. CASE ReadDepths(w)
  <2>1. /\ r.at = "depths" /\ s.at = "stamp" /\ s.job = r.job /\ s.todo = r.todo /\ s.ok = r.ok
        /\ s.blank \subseteq Ids(w)
    BY <1>1, <1>16 DEF ReadDepths, At, TaskRec
  <2>2. Place(s)
    BY <1>2, <2>1 DEF Place, Ids, Type, Subject
  <2>3. Progress(s, nodes', edges', seen', Followed')
    BY <1>3, <2>1 DEF Progress
  <2>4. QED
    BY <2>2, <2>3
<1>17. CASE StampDepths(w)
  <2>1. r.at = "stamp" /\ s.at = "dates" /\ s.job = r.job /\ s.todo = r.todo /\ s.ok = r.ok
    BY <1>6, <1>17 DEF StampDepths, At
  <2>2. QED
    BY <1>2, <1>3, <2>1 DEF Place, Progress
<1>18. CASE ReadDates(w)
  <2> DEFINE A == {a \in Ids(w) : ~actor[a].fetched}
  <2>1. /\ r.at = "dates" /\ s.at = "offer" /\ s.job = r.job /\ s.ok = r.ok
        /\ s.todo = ActorJobs(w, A) /\ actor' = actor /\ seen' = seen
    BY <1>1, <1>18 DEF ReadDates, At, TaskRec, graph, dispatcher
  <2>2. JobOK(r.job) /\ (Type(w) = "webfinger" \/ HasItems(r.job))
    BY <1>2, <1>4, <2>1 DEF Place, Type
  <2>3. \A k \in s.todo : JobOK(k) /\ k.type = "actor"
    BY <2>1, <2>2, OfferedActors
  <2>4. Place(s)
    BY <1>2, <2>1, <2>2, <2>3 DEF Place, Type, HasItems
  <2>5. Ids(w) \subseteq Followed' \union Offers(s)
    <3>1. SUFFICES ASSUME NEW a \in Ids(w) PROVE a \in Followed' \union Offers(s)
      OBVIOUS
    <3>2. CASE a \in A
      <4>1. [type |-> "actor", subject |-> a, depth |-> Level(w)] \in s.todo
        BY <2>1, <3>2 DEF ActorJobs
      <4>2. QED
        BY <4>1 DEF Offers
    <3>3. CASE a \notin A
      <4>1. a \in Actors /\ actor[a].fetched
        BY <2>2, <3>3, IdsLevel
      <4>2. a \in Followed
        BY <4>1 DEF Followed
      <4>3. Followed' = Followed
        BY <2>1 DEF Followed
      <4>4. QED
        BY <4>2, <4>3
    <3>4. QED
      BY <3>2, <3>3
  <2>6. /\ r.job.type = "webfinger" => ActorOf[r.job.subject] \in Followed' \union Offers(s)
        /\ r.job.type \in {"collection", "page"} =>
              Members[r.job.subject] \subseteq Followed' \union Offers(s)
    BY <2>5 DEF Ids, Type, Subject
  <2>7. r.job.type # "actor"
    BY <2>2 DEF Type, HasItems
  <2>8. Progress(s, nodes', edges', seen', Followed')
    BY <1>3, <2>1, <2>6, <2>7 DEF Progress
  <2>9. QED
    BY <2>4, <2>8
<1>19. CASE Offer(w)
  <2>1. PICK j \in r.todo : EnqueueIfUnseen(w, j) /\ task' = [task EXCEPT ![w].todo = @ \ {j}]
    BY <1>19 DEF Offer
  <2>2. /\ r.at = "offer" /\ s.at = "offer" /\ s.job = r.job /\ s.ok = r.ok
        /\ s.todo = r.todo \ {j} /\ j.subject \in seen'
    BY <1>1, <1>19, <2>1 DEF Offer, At, TaskRec, EnqueueIfUnseen
  <2>3. Place(s)
    BY <1>2, <2>2 DEF Place
  <2>4. Offers(r) \subseteq Offers(s) \union seen' /\ seen' \subseteq Followed'
    BY <2>2 DEF Offers, Followed
  <2>5. Progress(s, nodes', edges', seen', Followed')
    BY <1>3, <2>2, <2>4 DEF Progress
  <2>6. QED
    BY <2>3, <2>5
<1>20. CASE Offered(w)
  <2>1. r.at = "offer" /\ Offers(r) = {} /\ r.todo = {}
    BY <1>20 DEF Offered, At, Offers
  <2>2. CASE Finish(w)
    BY <1>5, <2>2
  <2>3. CASE r.job.type # "webfinger"
              /\ Goto(w, IF Type(w) = "page" /\ Next[Subject(w)] \in Pages THEN "link" ELSE "save")
    <3>1. /\ s.job = r.job /\ s.todo = r.todo /\ s.ok = r.ok
          /\ s.at = IF r.job.type = "page" /\ Next[r.job.subject] \in Pages THEN "link" ELSE "save"
      BY <1>6, <2>3 DEF Type, Subject
    <3>2. Place(s)
      BY <1>2, <2>1, <2>3, <3>1 DEF Place
    <3>3. Progress(s, nodes', edges', seen', Followed')
      BY <1>3, <2>1, <2>3, <3>1 DEF Progress, HasItems
    <3>4. QED
      BY <3>2, <3>3
  <2>4. QED
    BY <1>20, <2>2, <2>3 DEF Offered, Type
<1>21. CASE Link(w)
  <2>1. r.at = "link" /\ s.at = "save" /\ s.job = r.job /\ s.todo = r.todo /\ s.ok = r.ok
    BY <1>6, <1>21 DEF Link, At
  <2>2. Place(s)
    BY <1>2, <2>1 DEF Place
  <2>3. Progress(s, nodes', edges', seen', Followed')
    BY <1>2, <1>3, <2>1 DEF Progress, Place
  <2>4. QED
    BY <2>2, <2>3
<1>22. CASE SaveActor(w) \/ SaveCollection(w) \/ SavePage(w) \/ Raise(w)
  BY <1>5, <1>22 DEF SaveActor, SaveCollection, SavePage, Raise, CutOff
<1>23. CASE StatusError(w)
  <2>1. /\ r.at = "fetch" /\ s.at = "save" /\ s.job = r.job /\ s.todo = r.todo
        /\ s.ok = FALSE
    BY <1>1, <1>23 DEF StatusError, At, TaskRec
  <2>2. Place(s)
    BY <1>2, <2>1 DEF Place
  <2>3. Progress(s, nodes', edges', seen', Followed')
    BY <1>3, <2>1 DEF Progress
  <2>4. QED
    BY <2>2, <2>3
<1>24. CASE Redeliver(w)
  <2>1. CASE Finish(w)
    BY <1>5, <2>1
  <2>2. CASE task' = task
    BY <1>2, <1>3, <2>2
  <2>3. QED
    BY <1>24, <2>1, <2>2 DEF Redeliver, CutOff
<1>25. CASE Push(w)
  <2>1. task' = task
    BY <1>25 DEF Push
  <2>2. QED
    BY <1>2, <1>3, <2>1
<1>26. QED
  BY <1>7, <1>8, <1>9, <1>10, <1>11, <1>12, <1>13, <1>14, <1>15, <1>16, <1>17, <1>18, <1>19,
     <1>20, <1>21, <1>22, <1>23, <1>24, <1>25 DEF Step, Handle

LinkTo(r) == IF r.job.type = "page" THEN Next[r.job.subject] ELSE First[r.job.subject]
LinkedJob(r) == [type |-> "page", depth |-> r.job.depth, subject |-> LinkTo(r)]

\* Where jobs and ids come from.
LEMMA NewJobs ==
  ASSUME TypeOK, NEW w \in Workers, Step(w)
  PROVE  /\ \A j \in queue' \union failed' :
               j \in queue \union failed \union half[w] \/ (task[w].at # "idle" /\ j = task[w].job)
         /\ \A j \in Halves' \union lost' :
               \/ j \in Halves \union lost
               \/ j \in half'[w] /\ task[w].at = "offer" /\ j \in task[w].todo /\ j.subject \in seen'
               \/ j \in half'[w] /\ task[w].at = "link" /\ j = LinkedJob(task[w]) /\ j.subject \in seen'
         /\ \A j \in half'[w] :
               \/ j \in half[w]
               \/ task[w].at = "offer" /\ j \in task[w].todo
               \/ task[w].at = "link" /\ j = LinkedJob(task[w])
         /\ half'[w] # {} => half[w] # {} \/ task[w].at \in {"offer", "link"}
         /\ \A x \in seen' :
               \/ x \in seen
               \/ task[w].at = "offer" /\ \E j \in task[w].todo : x = j.subject /\ j \in Halves'
               \/ /\ task[w].at = "link" /\ x = LinkTo(task[w])
                  /\ LinkedJob(task[w]) \in Halves'
<1>1. half[w] \subseteq Halves
  BY DEF Halves
<1>2. CASE Take(w)
  BY <1>2 DEF Take, Halves
<1>3. ASSUME NEW j, EnqueueIfUnseen(w, j), half[w] = {},
             \/ task[w].at = "offer" /\ j \in task[w].todo
             \/ task[w].at = "link" /\ j = LinkedJob(task[w])
      PROVE  /\ queue' = queue /\ failed' = failed /\ lost' = lost /\ j.subject \in seen'
             /\ Halves' \subseteq Halves \union half'[w] /\ half'[w] \subseteq {j}
             /\ \A x \in seen' : x \in seen \/ (x = j.subject /\ j \in Halves')
  <2>1. /\ queue' = queue /\ failed' = failed /\ lost' = lost
        /\ seen' = seen \union {j.subject}
        /\ half' = IF j.subject \in seen THEN half ELSE [half EXCEPT ![w] = {j}]
    BY <1>3 DEF EnqueueIfUnseen
  <2>2. CASE j.subject \in seen
    BY <1>3, <2>1, <2>2 DEF Halves
  <2>3. CASE j.subject \notin seen
    <3>1. half' = [half EXCEPT ![w] = {j}]
      BY <2>1, <2>3
    <3>2. Halves' \subseteq Halves \union {j} /\ {j} \subseteq Halves' /\ half'[w] = {j}
      BY <3>1, HalvesAre
    <3>3. QED
      BY <2>1, <3>2
  <2>4. QED
    BY <2>2, <2>3
<1>4. CASE Offer(w)
  <2>1. PICK j \in task[w].todo : EnqueueIfUnseen(w, j)
    BY <1>4 DEF Offer
  <2>2. task[w].at = "offer" /\ half[w] = {}
    BY <1>4 DEF Offer, At
  <2>3. QED
    BY <1>3, <2>1, <2>2
<1>5. CASE Link(w)
  <2>1. EnqueueIfUnseen(w, LinkedJob(task[w])) /\ task[w].at = "link" /\ half[w] = {}
    BY <1>5 DEF Link, LinkedJob, LinkTo, Type, Subject, Depth, At
  <2>2. LinkedJob(task[w]).subject = LinkTo(task[w])
    BY DEF LinkedJob
  <2>3. QED
    BY <1>3, <2>1, <2>2
<1>6. CASE Push(w)
  <2>1. /\ queue' = queue \union half[w] /\ half' = [half EXCEPT ![w] = {}]
        /\ failed' = failed /\ lost' = lost /\ seen' = seen
    BY <1>6 DEF Push
  <2>2. Halves' \subseteq Halves /\ half'[w] = {}
    BY <2>1, HalvesAre
  <2>3. QED
    BY <2>1, <2>2
<1>7. ASSUME CutOff(w)
      PROVE  Halves' \union lost' \subseteq Halves \union lost /\ half'[w] = {}
  <2>1. lost' = lost \union half[w] /\ half' = [half EXCEPT ![w] = {}]
    BY <1>7 DEF CutOff
  <2>2. Halves' \subseteq Halves /\ half'[w] = {}
    BY <2>1, HalvesAre
  <2>3. QED
    BY <1>1, <2>1, <2>2
<1>8. CASE Raise(w)
  BY <1>7, <1>8 DEF Raise
<1>9. CASE Redeliver(w)
  <2>1. CASE CutOff(w)
    BY <1>7, <1>9, <2>1 DEF Redeliver
  <2>2. CASE half' = half /\ lost' = lost
    BY <1>9, <2>2 DEF Redeliver, Halves
  <2>3. QED
    BY <1>9, <2>1, <2>2 DEF Redeliver
<1>10. CASE /\ queue' = queue /\ failed' = failed /\ seen' = seen
            /\ half' = half /\ lost' = lost
  BY <1>10 DEF Halves
<1>11. QED
  BY <1>2, <1>4, <1>5, <1>6, <1>8, <1>9, <1>10
     DEF Step, Handle, Resolve, Check, Mark, FetchActor, FetchCollection, FetchPage,
       EnsureNodes, EnsureEdges, ReadDepths, StampDepths, ReadDates, Offered,
       SaveActor, SaveCollection, SavePage, StatusError, dispatcher

LEMMA SharesAndOwner ==
  \A a \in Actors : \A c \in Shares[a] : c \in Collections /\ Owner[c] = a
BY WebAssumption

LEMMA JobsStep ==
  ASSUME CrawlInv, NEW w \in Workers, Step(w)
  PROVE  JobsOK'
<1> DEFINE r == task[w]
<1>1. Place(r) /\ Progress(r, nodes, edges, seen, Followed) /\ TypeOK
  BY DEF CrawlInv, TasksOK
<1>2. seen \subseteq seen'
  BY StepGrows DEF CrawlInv, Grows
<1>3. SUFFICES ASSUME NEW j \in Held'
               PROVE  /\ JobOK(j) /\ j.subject \in seen'
                      /\ j.type \in {"collection", "page"} => Owner[CollOf(j)] \in seen'
  BY DEF JobsOK
<1>4. CASE j \in Held
  BY <1>2, <1>4 DEF CrawlInv, JobsOK
<1>5. CASE r.at # "idle" /\ j = r.job
  BY <1>1, <1>2, <1>5 DEF Place, Progress
<1>6. CASE r.at = "offer" /\ j \in r.todo /\ j.subject \in seen'
  <2>1. JobOK(j) /\ r.job.subject \in seen /\ JobOK(r.job)
    BY <1>1, <1>6 DEF Place, Progress
  <2>2. CASE r.job.type = "actor"
    <3>1. j.type = "collection" /\ j.subject \in Shares[r.job.subject] /\ r.job.subject \in Actors
      BY <1>1, <1>6, <2>1, <2>2 DEF Place, JobOK
    <3>2. Owner[j.subject] = r.job.subject
      BY <3>1, SharesAndOwner
    <3>3. QED
      BY <1>2, <1>6, <2>1, <3>1, <3>2 DEF CollOf
  <2>3. CASE r.job.type # "actor"
    <3>1. j.type = "actor"
      BY <1>1, <1>6, <2>3 DEF Place
    <3>2. QED
      BY <1>6, <2>1, <3>1
  <2>4. QED
    BY <2>2, <2>3
<1>7. CASE r.at = "link" /\ j = LinkedJob(r) /\ j.subject \in seen'
  <2>1. JobOK(j) /\ CollOf(j) = CollOf(r.job) /\ r.job.type \in {"page", "collection"}
    BY <1>1, <1>7, LinkJob DEF LinkedJob, LinkTo
  <2>2. Owner[CollOf(r.job)] \in seen
    BY <1>1, <1>7, <2>1 DEF Progress
  <2>3. QED
    BY <1>2, <1>7, <2>1, <2>2
<1>8. half[w] \subseteq Halves
  BY DEF Halves
<1>9. QED
  BY <1>1, <1>4, <1>5, <1>6, <1>7, <1>8, NewJobs DEF Held

LEMMA HalvesStep ==
  ASSUME CrawlInv, NEW w \in Workers, Step(w)
  PROVE  HalvesOK'
<1> DEFINE r == task[w]
           s == task'[w]
<1>1. /\ HalvesOK /\ Place(r) /\ TypeOK
      /\ task \in [Workers -> TaskRec] /\ half \in [Workers -> SUBSET Jobs]
  BY DEF CrawlInv, TasksOK, TypeOK, TaskRec
<1>2. \A u \in Workers : u # w => half'[u] = half[u] /\ task'[u] = task[u]
  BY <1>1, HeldStays, StepGrows DEF Grows
<1>3. half'[w] # {} => s.at # "idle"
  <2>1. CASE Take(w)
    BY <2>1 DEF Take, At
  <2>2. CASE Offer(w)
    <3>1. PICK j \in r.todo : task' = [task EXCEPT ![w].todo = @ \ {j}]
      BY <2>2 DEF Offer
    <3>2. r.at = "offer" /\ s.at = r.at
      BY <1>1, <2>2, <3>1 DEF Offer, At, TaskRec
    <3>3. QED
      BY <3>2
  <2>3. CASE Link(w)
    <3>1. s.at = "save"
      BY <1>1, <2>3 DEF Link, Goto, TaskRec
    <3>2. QED
      BY <3>1
  <2>4. CASE half' = [half EXCEPT ![w] = {}]
    BY <1>1, <2>4
  <2>5. CASE half' = half /\ task' = task
    BY <1>1, <2>5 DEF HalvesOK
  <2>6. CASE half' = half /\ half[w] = {}
    BY <2>6
  <2>7. QED
    BY <2>1, <2>2, <2>3, <2>4, <2>5, <2>6
       DEF Step, Handle, Resolve, Check, Mark, FetchActor, FetchCollection, FetchPage,
         EnsureNodes, EnsureEdges, ReadDepths, StampDepths, ReadDates, Offered, Push,
         SaveActor, SaveCollection, SavePage, StatusError, Raise, Redeliver, CutOff, dispatcher, At
<1>4. ASSUME NEW j \in Halves' \union lost' PROVE j.type # "webfinger"
  <2>1. CASE j \in Halves \union lost
    BY <1>1, <2>1 DEF HalvesOK
  <2>2. CASE r.at = "offer" /\ j \in r.todo
    BY <1>1, <2>2 DEF Place
  <2>3. CASE j = LinkedJob(r)
    BY <2>3 DEF LinkedJob
  <2>4. QED
    BY <1>1, <2>1, <2>2, <2>3, NewJobs
<1>5. QED
  BY <1>1, <1>2, <1>3, <1>4 DEF HalvesOK

LEMMA OthersStep ==
  ASSUME CrawlInv, NEW w \in Workers, Step(w)
  PROVE  TasksOK'
<1>1. Grows(w)
  BY StepGrows DEF CrawlInv
<1>2. Place(task'[w]) /\ Progress(task'[w], nodes', edges', seen', Followed')
  BY TaskStep
<1>3. ASSUME NEW u \in Workers, u # w
      PROVE  Place(task'[u]) /\ Progress(task'[u], nodes', edges', seen', Followed')
  <2>1. task'[u] = task[u]
    BY <1>1, <1>3 DEF Grows
  <2>2. Place(task[u]) /\ Progress(task[u], nodes, edges, seen, Followed)
    BY DEF CrawlInv, TasksOK
  <2>3. Progress(task[u], nodes', edges', seen', Followed')
    BY <1>1, <2>2, ProgressStays DEF Grows
  <2>4. QED
    BY <2>1, <2>2, <2>3
<1>4. QED
  BY <1>2, <1>3 DEF TasksOK

LEMMA Apart ==
  /\ Webfingers \intersect Actors = {} /\ Webfingers \intersect Collections = {}
  /\ Webfingers \intersect Pages = {} /\ Actors \intersect Collections = {}
  /\ Actors \intersect Pages = {} /\ Collections \intersect Pages = {}
BY WebAssumption

\* A page that a handler is done with has been read.
LEMMA ReadAtTheEnd ==
  ASSUME NEW r, NEW N, NEW E, NEW S, NEW F, Progress(r, N, E, S, F),
         r.at \in {"link", "save"}, r.ok, r.job.type = "page", r.job.subject \in WithItems
  PROVE  PageRead(r.job.subject, N, E, F)
BY DEF Progress, HasItems, Written, PageRead, CollOf

LEMMA PagesStep ==
  ASSUME CrawlInv, NEW w \in Workers, Step(w)
  PROVE  PagesOK'
<1> DEFINE r == task[w]
<1>1. Place(r) /\ Progress(r, nodes, edges, seen, Followed)
  BY DEF CrawlInv, TasksOK
<1>2. nodes \subseteq nodes' /\ edges \subseteq edges' /\ Followed \subseteq Followed'
  BY StepGrows DEF CrawlInv, Grows
<1>3. \A p : PageRead(p, nodes, edges, Followed) => PageRead(p, nodes', edges', Followed')
  BY <1>2 DEF PageRead
<1>4. ASSUME NEW p \in seen \intersect Pages
      PROVE  \E S \in SUBSET Pages :
               /\ p \in S /\ First[Walk[p]] \in S
               /\ \A q \in S : /\ Walk[q] = Walk[p]
                               /\ q # p => PageRead(q, nodes', edges', Followed') /\ Next[q] \in S
  BY <1>3 DEF CrawlInv, PagesOK
<1>5. SUFFICES ASSUME NEW p \in seen' \intersect Pages
               PROVE  \E S \in SUBSET Pages :
                        /\ p \in S /\ First[Walk[p]] \in S
                        /\ \A q \in S : /\ Walk[q] = Walk[p]
                                        /\ q # p => PageRead(q, nodes', edges', Followed') /\ Next[q] \in S
  BY DEF PagesOK
<1>6. CASE p \in seen
  BY <1>4, <1>6
<1>7. CASE r.at = "link" /\ p = LinkTo(r) /\ p \notin seen
  <2>1. Walk[p] = CollOf(r.job) /\ r.job.type \in {"page", "collection"} /\ JobOK(r.job)
    <3>1. JobOK(r.job)
      BY <1>1, <1>7 DEF Place
    <3>2. QED
      BY <1>1, <1>7, <3>1, LinkJob DEF LinkTo
  <2>2. CASE r.job.type = "collection"
    <3>1. r.job.subject = Walk[p] /\ p = First[Walk[p]]
      BY <1>7, <2>1, <2>2 DEF CollOf, LinkTo
    <3>2. WITNESS {p} \in SUBSET Pages
    <3>3. QED
      BY <3>1
  <2>3. CASE r.job.type = "page"
    <3> DEFINE o == r.job.subject
    <3>1. Walk[p] = Walk[o] /\ p = Next[o] /\ o \in Pages /\ o \in seen /\ o # p
      BY <1>1, <1>7, <2>1, <2>3 DEF CollOf, LinkTo, JobOK, Progress
    <3>2. r.ok /\ o \in WithItems
      BY <1>1, <1>7, <2>3 DEF Place, HasItems
    <3>3. PageRead(o, nodes', edges', Followed')
      BY <1>1, <1>3, <1>7, <2>3, <3>2, ReadAtTheEnd
    <3>4. PICK S \in SUBSET Pages :
               /\ o \in S /\ First[Walk[o]] \in S
               /\ \A q \in S : /\ Walk[q] = Walk[o]
                               /\ q # o => PageRead(q, nodes', edges', Followed') /\ Next[q] \in S
      BY <1>4, <3>1
    <3> DEFINE T == S \union {p}
    <3>5. T \in SUBSET Pages /\ p \in T /\ First[Walk[p]] \in T
      BY <3>1, <3>4
    <3>6. ASSUME NEW q \in T
          PROVE  /\ Walk[q] = Walk[p]
                 /\ q # p => PageRead(q, nodes', edges', Followed') /\ Next[q] \in T
      <4>1. CASE q = p
        BY <4>1
      <4>2. CASE q = o /\ q # p
        BY <3>1, <3>3, <4>2
      <4>3. CASE q # o /\ q # p
        BY <3>1, <3>4, <4>3
      <4>4. QED
        BY <4>1, <4>2, <4>3
    <3> HIDE DEF T
    <3>7. QED
      BY <3>5, <3>6
  <2>4. QED
    BY <2>1, <2>2, <2>3
<1>8. CASE r.at = "offer" /\ \E j \in r.todo : p = j.subject
  <2>1. PICK j \in r.todo : p = j.subject
    BY <1>8
  <2>2. JobOK(j) /\ j.type \in {"collection", "actor"}
    BY <1>1, <1>8 DEF Place
  <2>3. p \in Collections \union Actors
    BY <2>1, <2>2 DEF JobOK
  <2>4. QED
    BY <2>3, Apart
<1>9. TypeOK
  BY DEF CrawlInv
<1>10. QED
  BY <1>6, <1>7, <1>8, <1>9, NewJobs

\* Closed from its first page on, a set of pages with the pages of other walks is all.
LEMMA WholeWalk ==
  ASSUME NEW c \in Collections, NEW S \in SUBSET Pages,
         First[c] \in Pages => First[c] \in S,
         \A q \in S \intersect WithItems : Next[q] \in Pages => Next[q] \in S
  PROVE  {q \in Pages : Walk[q] = c} \subseteq S
<1> DEFINE T == S \union {q \in Pages : Walk[q] # c}
<1>1. T \in SUBSET Pages
  OBVIOUS
<1>2. ASSUME NEW d \in Collections, First[d] \in Pages
      PROVE  First[d] \in T
  BY <1>2, WalksStay
<1>3. ASSUME NEW p \in T \intersect WithItems, Next[p] \in Pages
      PROVE  Next[p] \in T
  BY <1>3, WalksStay
<1>4. \A U \in SUBSET Pages :
          (/\ \A d \in Collections : First[d] \in Pages => First[d] \in U
           /\ \A p \in U \intersect WithItems : Next[p] \in Pages => Next[p] \in U)
          => U = Pages
  BY WebAssumption
<1>5. T = Pages
  <2> HIDE DEF T
  <2>1. QED
    BY <1>1, <1>2, <1>3, <1>4
<1>6. QED
  BY <1>5

\* What a handler writes of a collection that is complete.
LEMMA CompleteStep ==
  ASSUME CrawlInv, NEW w \in Workers, Step(w)
  PROVE  CompleteOK'
<1> DEFINE r == task[w]
<1>1. Place(r) /\ Progress(r, nodes, edges, seen, Followed) /\ r.ok \in BOOLEAN
  BY DEF CrawlInv, TasksOK, TypeOK
<1>2. nodes \subseteq nodes' /\ edges \subseteq edges' /\ Followed \subseteq Followed'
  BY StepGrows DEF CrawlInv, Grows
<1>3. coll \in [Collections -> [shared : {"unknown", "yes", "no"}, page : Pages \union {NoPage},
                                status : Pages \union {NoPage}, complete : BOOLEAN,
                                refused : SUBSET {"collection", "page"}]]
  BY DEF CrawlInv, TypeOK
<1>4. SUFFICES ASSUME NEW c \in Collections, coll'[c].complete
               PROVE  \A a \in Lists(c) : a \in nodes /\ Edge(c, a) \in edges /\ a \in Followed
  BY <1>2 DEF CompleteOK
<1>5. CASE coll[c].complete
  BY <1>5 DEF CrawlInv, CompleteOK
<1>6. CASE SaveCollection(w) /\ ~ coll[c].complete
  <2>1. r.at = "save" /\ r.job.type = "collection"
    BY <1>6 DEF SaveCollection, At, Type
  <2>2. r.ok /\ c = r.job.subject /\ Inline(w)
    <3>1. CASE ~ r.ok
      <4>1. coll'[c].complete = coll[c].complete
        BY <1>3, <1>6, <3>1 DEF SaveCollection
      <4>2. QED
        BY <1>4, <1>6, <4>1, Zenon
    <3>2. CASE r.ok /\ c # r.job.subject
      <4>1. coll'[c] = coll[c]
        BY <1>3, <1>6, <3>2 DEF SaveCollection, Subject
      <4>2. QED
        BY <1>4, <1>6, <4>1, Zenon
    <3>3. CASE r.ok /\ c = r.job.subject
      <4>1. coll'[c].complete = (coll[c].complete \/ Inline(w))
        <5>1. coll' = [coll EXCEPT ![c].shared = Sharing(w), ![c].complete = @ \/ Inline(w),
                                   ![c].refused = @ \ {"collection"}]
          BY <1>6, <3>3 DEF SaveCollection, Subject
        <5>2. QED
          BY <1>3, <5>1
      <4>2. Inline(w)
        BY <1>4, <1>6, <4>1, Zenon
      <4>3. QED
        BY <3>3, <4>2
    <3>4. QED
      BY <3>1, <3>2, <3>3
  <2>3. HasItems(r.job) /\ Declared[c] = "items"
    BY <2>1, <2>2 DEF Inline, Walks, HasItems, Subject, Depth
  <2>4. Lists(c) = Members[c] /\ CollOf(r.job) = c
    BY <2>1, <2>2, <2>3 DEF Lists, CollOf
  <2>5. Written(r.job, nodes, edges) /\ Members[c] \subseteq Followed
    BY <1>1, <2>1, <2>2, <2>3 DEF Progress
  <2>6. QED
    BY <2>2, <2>4, <2>5 DEF Written
<1>7. CASE SavePage(w) /\ ~ coll[c].complete
  <2> DEFINE o == r.job.subject
  <2>1. r.at = "save" /\ r.job.type = "page" /\ JobOK(r.job) /\ Coll(w) = Walk[o]
    BY <1>1, <1>7 DEF SavePage, At, Type, Subject, Place, Coll
  <2>2. c = Walk[o] /\ Ends(w)
    <3>1. CASE c # Walk[o]
      <4>1. coll'[c] = coll[c]
        BY <1>3, <1>7, <2>1, <3>1 DEF SavePage
      <4>2. QED
        BY <1>4, <1>7, <4>1, Zenon
    <3>2. CASE c = Walk[o]
      <4>1. coll'[c].complete = Ends(w)
        BY <1>3, <1>7, <2>1, <3>2 DEF SavePage
      <4>2. QED
        BY <1>4, <3>2, <4>1, Zenon
    <3>3. QED
      BY <3>1, <3>2
  <2>3. /\ o \in Pages /\ Declared[c] = "first" /\ o \in seen /\ r.ok
        /\ o \notin WithItems \/ Next[o] = NoPage
    BY <1>1, <2>1, <2>2 DEF JobOK, Progress, Ends, Subject
  <2>4. Next[o] = NoPage => Next[o] \notin Pages
    BY WebAssumption
  <2>5. o \in WithItems => PageRead(o, nodes, edges, Followed)
    BY <1>1, <2>1, <2>3, ReadAtTheEnd
  <2>6. PICK S \in SUBSET Pages :
               /\ o \in S /\ First[Walk[o]] \in S
               /\ \A q \in S : /\ Walk[q] = Walk[o]
                               /\ q # o => PageRead(q, nodes, edges, Followed) /\ Next[q] \in S
    BY <2>3 DEF CrawlInv, PagesOK
  <2>7. {q \in Pages : Walk[q] = c} \subseteq S
    <3>1. \A q \in S \intersect WithItems : Next[q] \in Pages => Next[q] \in S
      BY <2>3, <2>4, <2>6
    <3>2. First[c] \in S
      BY <2>2, <2>6
    <3>3. QED
      BY <3>1, <3>2, WholeWalk
  <2>8. \A q \in S : q \in WithItems => PageRead(q, nodes, edges, Followed)
    BY <2>5, <2>6
  <2>9. Lists(c) = UNION {Members[p] : p \in {q \in Pages : Walk[q] = c}}
    BY <2>3 DEF Lists
  <2>10. ASSUME NEW a \in Lists(c)
         PROVE  a \in nodes /\ Edge(c, a) \in edges /\ a \in Followed
    <3>1. PICK q \in S : Walk[q] = c /\ a \in Members[q]
      BY <2>7, <2>9
    <3>2. PageRead(q, nodes, edges, Followed)
      BY <2>8, <3>1, WebAssumption
    <3>3. QED
      BY <3>1, <3>2 DEF PageRead
  <2>11. QED
    BY <2>10
<1>8. CASE Mark(w) /\ ~ coll[c].complete
  <2>1. CASE c = Coll(w)
    <3>1. coll'[c].complete = FALSE
      BY <1>3, <1>8, <2>1 DEF Mark
    <3>2. QED
      BY <1>4, <3>1, Zenon
  <2>2. CASE c # Coll(w)
    <3>1. coll'[c] = coll[c]
      BY <1>3, <1>8, <2>2 DEF Mark
    <3>2. QED
      BY <1>4, <1>8, <3>1, Zenon
  <2>3. QED
    BY <2>1, <2>2
<1>9. CASE coll' = coll /\ ~ coll[c].complete
  BY <1>4, <1>9, Zenon
<1>10. SaveCollection(w) \/ SavePage(w) \/ Mark(w) \/ coll' = coll
  BY DEF Step, Handle, Take, Resolve, Check, FetchActor, FetchCollection, FetchPage,
       EnsureNodes, EnsureEdges, ReadDepths, StampDepths, ReadDates, Offer, Offered, Link, Push,
       SaveActor, StatusError, Raise, Redeliver, CutOff, graph
<1>11. QED
  BY <1>5, <1>6, <1>7, <1>8, <1>9, <1>10

LEMMA DepthsStep ==
  ASSUME CrawlInv, NEW w \in Workers, Step(w)
  PROVE  DepthsOK' /\ FetchedIsFollowed'
         /\ actor' \in [Actors -> [depth : -1 .. MaxDepth, fetched : BOOLEAN, refused : BOOLEAN]]
<1> DEFINE r == task[w]
<1>1. Place(r) /\ Progress(r, nodes, edges, seen, Followed) /\ r.ok \in BOOLEAN
  BY DEF CrawlInv, TasksOK, TypeOK
<1>2. actor \in [Actors -> [depth : -1 .. MaxDepth, fetched : BOOLEAN, refused : BOOLEAN]]
      /\ MaxDepth \in Nat
  BY WebAssumption DEF CrawlInv, TypeOK
<1>3. seen \subseteq seen'
  BY StepGrows DEF CrawlInv, Grows
<1>4. DepthsOK /\ FetchedIsFollowed
  BY DEF CrawlInv
<1>5. CASE StampDepths(w)
  <2>1. r.at = "stamp" /\ JobOK(r.job) /\ (Type(w) = "webfinger" \/ HasItems(r.job))
        /\ r.blank \subseteq Ids(w)
    BY <1>1, <1>5 DEF StampDepths, At, Place, Type, Ids, Subject
  <2>2. Level(w) \in 0 .. MaxDepth /\ Ids(w) \subseteq Within[Level(w)]
    BY <2>1, IdsLevel
  <2>3. \A a \in Actors : actor'[a].fetched = actor[a].fetched
    BY <1>2, <1>5 DEF StampDepths
  <2>4. \A a \in Actors : actor'[a].depth = IF a \in r.blank THEN Level(w) ELSE actor[a].depth
    BY <1>2, <1>5 DEF StampDepths
  <2>5. DepthsOK'
    BY <1>4, <2>1, <2>2, <2>4 DEF DepthsOK
  <2>6. \A a \in Actors : actor[a].fetched => Shares[a] \subseteq seen'
    BY <1>3, <1>4 DEF FetchedIsFollowed
  <2>7. FetchedIsFollowed'
    BY <2>3, <2>6, Zenon DEF FetchedIsFollowed
  <2>8. actor' \in [Actors -> [depth : -1 .. MaxDepth, fetched : BOOLEAN, refused : BOOLEAN]]
    BY <1>2, <1>5, <2>2 DEF StampDepths
  <2>9. QED
    BY <2>5, <2>7, <2>8
<1>6. CASE SaveActor(w)
  <2> DEFINE b == r.job.subject
  <2>1. r.at = "save" /\ r.job.type = "actor" /\ JobOK(r.job)
    BY <1>1, <1>6 DEF SaveActor, At, Type, Place
  <2>2. b \in Actors /\ r.job.depth \in 0 .. MaxDepth /\ b \in Within[r.job.depth]
    BY <2>1 DEF JobOK, Jobs
  <2>3. r.ok => Shares[b] \subseteq seen
    BY <1>1, <2>1 DEF Progress
  <2>4. /\ actor'[b].depth = r.job.depth
        /\ actor'[b].fetched = (actor[b].fetched \/ r.ok)
        /\ \A a \in Actors : a # b => actor'[a] = actor[a]
    BY <1>2, <1>6, <2>2 DEF SaveActor, Subject, Depth
  <2>5. DepthsOK'
    BY <1>4, <2>2, <2>4 DEF DepthsOK
  <2>6. ASSUME NEW a \in Actors, actor'[a].fetched
        PROVE  Shares[a] \subseteq seen'
    <3>1. CASE a = b
      <4>1. actor[b].fetched \/ r.ok
        BY <2>4, <2>6, <3>1, Zenon
      <4>2. actor[b].fetched => Shares[b] \subseteq seen
        BY <1>4, <2>2 DEF FetchedIsFollowed
      <4>3. QED
        BY <1>3, <2>3, <3>1, <4>1, <4>2
    <3>2. CASE a # b
      <4>1. actor[a].fetched
        BY <2>4, <2>6, <3>2, Zenon
      <4>2. QED
        BY <1>3, <1>4, <4>1 DEF FetchedIsFollowed
    <3>3. QED
      BY <3>1, <3>2
  <2>7. FetchedIsFollowed'
    BY <2>6 DEF FetchedIsFollowed
  <2>8. actor' \in [Actors -> [depth : -1 .. MaxDepth, fetched : BOOLEAN, refused : BOOLEAN]]
    BY <1>1, <1>2, <1>6, <2>2 DEF SaveActor, Subject, Depth
  <2>9. QED
    BY <2>5, <2>7, <2>8
<1>7. CASE actor' = actor
  <2>1. \A a \in Actors : actor[a].fetched => Shares[a] \subseteq seen'
    BY <1>3, <1>4 DEF FetchedIsFollowed
  <2>2. FetchedIsFollowed'
    BY <1>7, <2>1, Zenon DEF FetchedIsFollowed
  <2>3. QED
    BY <1>2, <1>4, <1>7, <2>2 DEF DepthsOK
<1>8. StampDepths(w) \/ SaveActor(w) \/ actor' = actor
  BY DEF Step, Handle, Take, Resolve, Check, Mark, FetchActor, FetchCollection, FetchPage,
       EnsureNodes, EnsureEdges, ReadDepths, ReadDates, Offer, Offered, Link, Push,
       SaveCollection, SavePage, StatusError, Raise, Redeliver, CutOff, EnqueueIfUnseen, graph, dispatcher
<1>9. QED
  BY <1>5, <1>6, <1>7, <1>8

LEMMA TypeStep ==
  ASSUME CrawlInv, NEW w \in Workers, Step(w)
  PROVE  TypeOK'
<1> DEFINE r == task[w]
           CollRec == [shared : {"unknown", "yes", "no"}, page : Pages \union {NoPage},
                       status : Pages \union {NoPage}, complete : BOOLEAN,
                       refused : SUBSET {"collection", "page"}]
<1>1. /\ Place(r) /\ r \in TaskRec /\ task \in [Workers -> TaskRec]
      /\ r.at # "idle" => JobOK(r.job)
  <2>1. task \in [Workers -> TaskRec] /\ Place(r)
    BY DEF CrawlInv, TasksOK, TypeOK, TaskRec
  <2>2. QED
    BY <2>1 DEF Place
<1>2. /\ nodes \subseteq Actors /\ edges \subseteq Actors \X Actors \X {"followers", "following"}
      /\ queue \subseteq Jobs /\ failed \subseteq Jobs /\ seen \subseteq Subjects
      /\ mishaps \in 0 .. MaxMishaps /\ met \subseteq Mishaps /\ crew \subseteq Workers
      /\ coll \in [Collections -> CollRec]
  BY DEF CrawlInv, TypeOK
<1>3. /\ r.at \in {"fetch", "mark", "save"} /\ Type(w) \in {"collection", "page"} =>
            Coll(w) \in Collections /\ Owner[Coll(w)] \in Actors
      /\ r.at \in {"fetch", "mark", "save"} /\ Type(w) = "page" => Subject(w) \in Pages
  <2>1. SUFFICES ASSUME JobOK(r.job), Type(w) \in {"collection", "page"}
                 PROVE  /\ Coll(w) \in Collections /\ Owner[Coll(w)] \in Actors
                        /\ Type(w) = "page" => Subject(w) \in Pages
    BY <1>1
  <2>2. CASE Type(w) = "page"
    <3>1. Subject(w) \in Pages /\ Coll(w) = Walk[Subject(w)]
      BY <2>1, <2>2 DEF JobOK, Type, Subject, Coll
    <3>2. QED
      BY <3>1, WebAssumption
  <2>3. CASE Type(w) = "collection"
    <3>1. Subject(w) \in Collections /\ Coll(w) = Subject(w)
      BY <2>1, <2>3 DEF JobOK, Type, Subject, Coll
    <3>2. QED
      BY <2>3, <3>1, WebAssumption
  <2>4. QED
    BY <2>1, <2>2, <2>3
<1>4. nodes' \subseteq Actors
  <2>1. CASE Resolve(w) \/ EnsureNodes(w)
    <3>1. JobOK(r.job) /\ (Type(w) = "webfinger" \/ HasItems(r.job)) /\ nodes' = nodes \union Ids(w)
      BY <1>1, <2>1 DEF Resolve, EnsureNodes, At, Place, Type
    <3>2. QED
      BY <1>2, <3>1, IdsLevel
  <2>2. CASE Check(w)
    BY <1>1, <1>2, <2>2 DEF Check, At, Place, JobOK, Subject
  <2>3. CASE Mark(w)
    BY <1>1, <1>2, <1>3, <2>3 DEF Mark, At, Place, Type
  <2>4. CASE FetchCollection(w)
    BY <1>2, <1>3, <2>4 DEF FetchCollection, At, Type
  <2>5. CASE nodes' = nodes
    BY <1>2, <2>5
  <2>6. QED
    BY <2>1, <2>2, <2>3, <2>4, <2>5
       DEF Step, Handle, Take, FetchActor, FetchPage, EnsureEdges, ReadDepths, StampDepths,
         ReadDates, Offer, Offered, Link, Push, SaveActor, SaveCollection, SavePage,
         StatusError, Raise, Redeliver, CutOff, graph
<1>5. edges' \subseteq Actors \X Actors \X {"followers", "following"}
  <2>1. CASE EnsureEdges(w)
    <3>1. JobOK(r.job) /\ HasItems(r.job)
      BY <1>1, <2>1 DEF EnsureEdges, At, Place
    <3>2. Coll(w) = CollOf(r.job)
      BY DEF Coll, CollOf, Type, Subject
    <3>3. Coll(w) \in Collections /\ Owner[Coll(w)] \in Actors
      BY <3>1, <3>2, ItemsLevel
    <3>4. Direction[Coll(w)] \in {"followers", "following"}
      BY <3>3, WebAssumption
    <3>5. \A a \in Actors : Edge(Coll(w), a) \in Actors \X Actors \X {"followers", "following"}
      BY <3>3, <3>4 DEF Edge
    <3>6. edges' = edges \union {Edge(Coll(w), a) : a \in Ids(w) \intersect nodes}
      BY <2>1 DEF EnsureEdges
    <3>7. QED
      BY <1>2, <3>5, <3>6
  <2>2. CASE edges' = edges
    BY <1>2, <2>2
  <2>3. QED
    BY <2>1, <2>2
       DEF Step, Handle, Take, Resolve, Check, Mark, FetchActor, FetchCollection, FetchPage,
         EnsureNodes, ReadDepths, StampDepths, ReadDates, Offer, Offered, Link, Push,
         SaveActor, SaveCollection, SavePage, StatusError, Raise, Redeliver, CutOff, graph
<1>6. coll' \in [Collections -> CollRec]
  <2>1. CASE Mark(w)
    <3>1. Subject(w) \in Pages /\ Coll(w) \in Collections
      BY <1>1, <1>3, <2>1 DEF Mark, At, Place, Type
    <3>2. coll' = [coll EXCEPT ![Coll(w)] = [@ EXCEPT !.page = Subject(w), !.complete = FALSE]]
      BY <1>2, <2>1, <3>1 DEF Mark
    <3>3. coll[Coll(w)] \in CollRec
      BY <1>2, <3>1
    <3>4. [coll[Coll(w)] EXCEPT !.page = Subject(w), !.complete = FALSE] \in CollRec
      BY <3>1, <3>3
    <3>5. QED
      BY <1>2, <3>1, <3>2, <3>4
  <2>2. CASE SaveCollection(w)
    <3>1. Subject(w) \in Collections
      BY <1>1, <2>2 DEF SaveCollection, At, Type, JobOK, Subject
    <3>2. Sharing(w) \in {"unknown", "yes", "no"}
      BY <1>2, <3>1 DEF Sharing
    <3>3. (coll[Subject(w)].complete \/ Inline(w)) \in BOOLEAN
      OBVIOUS
    <3>4. coll[Subject(w)] \in CollRec
      BY <1>2, <3>1
    <3>5. CASE ~ r.ok
      <4> DEFINE new == [coll[Subject(w)] EXCEPT
                           !.refused = coll[Subject(w)].refused \union {"collection"}]
      <4>1. coll' = [coll EXCEPT ![Subject(w)] = new]
        BY <1>2, <2>2, <3>1, <3>5 DEF SaveCollection
      <4>2. new \in CollRec
        BY <3>4
      <4> HIDE DEF new
      <4>3. QED
        BY <1>2, <3>1, <4>1, <4>2
    <3>6. CASE r.ok
      <4> DEFINE new == [coll[Subject(w)] EXCEPT !.shared = Sharing(w), !.complete = @ \/ Inline(w),
                                                 !.refused = @ \ {"collection"}]
      <4>1. coll' = [coll EXCEPT ![Subject(w)] = new]
        BY <1>2, <2>2, <3>1, <3>6 DEF SaveCollection
      <4>2. new \in CollRec
        BY <3>2, <3>3, <3>4
      <4>3. QED
        BY <1>2, <3>1, <4>1, <4>2
    <3>7. QED
      BY <3>5, <3>6
  <2>3. CASE SavePage(w)
    <3>1. Subject(w) \in Pages /\ Coll(w) \in Collections
      BY <1>3, <2>3 DEF SavePage, At
    <3>2. Ends(w) \in BOOLEAN
      BY DEF Ends
    <3>3. QED
      BY <1>2, <2>3, <3>1, <3>2 DEF SavePage
  <2>4. CASE coll' = coll
    BY <1>2, <2>4
  <2>5. QED
    BY <2>1, <2>2, <2>3, <2>4
       DEF Step, Handle, Take, Resolve, Check, FetchActor, FetchCollection, FetchPage,
         EnsureNodes, EnsureEdges, ReadDepths, StampDepths, ReadDates, Offer, Offered, Link, Push,
         SaveActor, StatusError, Raise, Redeliver, CutOff, graph
<1>7. /\ queue' \subseteq Jobs /\ failed' \subseteq Jobs /\ lost' \subseteq Jobs
      /\ half' \in [Workers -> SUBSET Jobs]
  <2>1. Held' \subseteq Jobs
    BY JobsStep DEF JobsOK, JobOK
  <2>2. \A u \in Workers : half'[u] \subseteq Halves'
    BY DEF Halves
  <2>3. half' = [u \in Workers |-> half'[u]]
    <3>1. half \in [Workers -> SUBSET Jobs]
      BY DEF CrawlInv, TypeOK
    <3>2. half' = half \/ \E S : half' = [half EXCEPT ![w] = S]
      <4>1. Offer(w) => \E j : EnqueueIfUnseen(w, j)
        BY DEF Offer
      <4>2. QED
        BY <4>1
           DEF Step, Handle, Take, Resolve, Check, Mark, FetchActor, FetchCollection, FetchPage,
             EnsureNodes, EnsureEdges, ReadDepths, StampDepths, ReadDates, Offered, Link, Push,
             SaveActor, SaveCollection, SavePage, StatusError, Raise, Redeliver, CutOff,
             EnqueueIfUnseen, dispatcher
    <3>3. QED
      BY <3>1, <3>2
  <2>4. QED
    BY <2>1, <2>2, <2>3 DEF Held
<1>8. seen' \subseteq Subjects
  <2>1. ASSUME NEW x \in seen' PROVE x \in Subjects
    <3>1. CASE x \in seen
      BY <1>2, <3>1
    <3>2. CASE r.at = "offer" /\ \E j \in r.todo : x = j.subject
      BY <1>1, <3>2 DEF Place, JobOK, Jobs
    <3>3. CASE r.at = "link" /\ x = LinkTo(r)
      <4>1. x \in Pages
        BY <1>1, <3>3, LinkJob DEF LinkTo
      <4>2. QED
        BY <4>1 DEF Subjects
    <3>4. TypeOK
      BY DEF CrawlInv
    <3>5. QED
      BY <3>1, <3>2, <3>3, <3>4, NewJobs
  <2>2. QED
    BY <2>1
<1>9. task' \in [Workers -> TaskRec]
  <2>1. Idle \in TaskRec
    BY DEF Idle, TaskRec, Steps
  <2>2. CASE Take(w)
    <3>1. PICK j \in queue :
             task' = [task EXCEPT ![w].job = j, ![w].at =
                           CASE j.type = "webfinger" -> "resolve" [] j.type = "actor" -> "check"
                             [] j.type = "collection" -> "fetch" [] j.type = "page" -> "mark"]
      BY <2>2 DEF Take
    <3>2. j \in Jobs /\ j.type \in Types
      BY <1>2 DEF Jobs
    <3>3. (CASE j.type = "webfinger" -> "resolve" [] j.type = "actor" -> "check"
             [] j.type = "collection" -> "fetch" [] j.type = "page" -> "mark") \in Steps
      BY <3>2 DEF Types, Steps
    <3>4. QED
      BY <1>1, <3>1, <3>2, <3>3 DEF TaskRec
  <2>3. CASE \E step \in Steps : Goto(w, step)
    BY <1>1, <2>3 DEF Goto, TaskRec
  <2>4. CASE Finish(w) \/ task' = task
    BY <1>1, <2>1, <2>4 DEF Finish
  <2>5. CASE ReadDepths(w)
    <3>1. JobOK(r.job) /\ (Type(w) = "webfinger" \/ HasItems(r.job))
      BY <1>1, <2>5 DEF ReadDepths, At, Place, Type
    <3>2. Ids(w) \subseteq Actors /\ "stamp" \in Steps
      BY <3>1, IdsLevel DEF Steps
    <3>3. QED
      BY <1>1, <2>5, <3>2 DEF ReadDepths, TaskRec
  <2>6. CASE FetchActor(w) \/ ReadDates(w) \/ Offer(w)
    <3>1. PICK S : task' = [task EXCEPT ![w].at = "offer", ![w].todo = S] \/
                   (r.at = "offer" /\ task' = [task EXCEPT ![w].todo = S])
      <4>1. Offer(w) => \E j \in r.todo : r.at = "offer" /\ task' = [task EXCEPT ![w].todo = @ \ {j}]
        BY DEF Offer, At
      <4>2. QED
        BY <2>6, <4>1 DEF FetchActor, ReadDates
    <3>2. task'[w].todo = S /\ task'[w].at = "offer"
      BY <1>1, <3>1 DEF TaskRec
    <3>3. S \subseteq Jobs
      BY <3>2, TaskStep DEF Place, JobOK
    <3>4. QED
      BY <1>1, <3>1, <3>3 DEF TaskRec, Steps
  <2>7. CASE StatusError(w)
    BY <1>1, <2>7 DEF StatusError, TaskRec, Steps
  <2>8. QED
    BY <2>2, <2>3, <2>4, <2>5, <2>6, <2>7
       DEF Step, Handle, Resolve, Check, Mark, FetchCollection, FetchPage,
         EnsureNodes, EnsureEdges, StampDepths, Offered, Link, Push,
         SaveActor, SaveCollection, SavePage, Push, Raise, Redeliver, CutOff, Steps
<1>10. mishaps' \in 0 .. MaxMishaps
  <2>1. mishaps' = mishaps \/ (mishaps < MaxMishaps /\ mishaps' = mishaps + 1)
    BY DEF Step, Handle, Take, Resolve, Check, Mark, FetchActor, FetchCollection, FetchPage,
         EnsureNodes, EnsureEdges, ReadDepths, StampDepths, ReadDates, Offer, Offered, Link, Push,
         SaveActor, SaveCollection, SavePage, StatusError, Raise, Redeliver, CutOff, Mishap, past
  <2>2. mishaps \in 0 .. MaxMishaps /\ MaxMishaps \in Nat
    BY <1>2, WebAssumption
  <2>3. QED
    BY <2>1, <2>2
<1>11. actor' \in [Actors -> [depth : -1 .. MaxDepth, fetched : BOOLEAN, refused : BOOLEAN]]
  BY DepthsStep
<1>12. met' \subseteq Mishaps /\ crew' \subseteq Workers
  BY <1>2, PastStep
<1>13. QED
  BY <1>4, <1>5, <1>6, <1>7, <1>8, <1>9, <1>10, <1>11, <1>12 DEF TypeOK, TaskRec

-----------------------------------------------------------------------------
LEMMA CrawlInit == Init => CrawlInv
<1> SUFFICES ASSUME Init PROVE CrawlInv
  OBVIOUS
<1>1. MaxDepth \in Nat /\ MaxMishaps \in Nat /\ ActorOf \in [Webfingers -> Actors]
  BY WebAssumption
<1>2. \A w \in Workers : task[w] = Idle
  BY DEF Init
<1>3. queue = [type : {"webfinger"}, subject : Webfingers, depth : {0}] /\ failed = {}
      /\ seen = Webfingers /\ lost = {} /\ Halves = {}
  BY DEF Init, Halves
<1>4. \A j \in queue : JobOK(j) /\ j.type = "webfinger" /\ j.subject \in seen
  <2>1. \A j \in queue : j.type = "webfinger" /\ j.subject \in Webfingers /\ j \in Jobs
    BY <1>1, <1>3 DEF Jobs, Types, Subjects
  <2>2. QED
    BY <1>3, <2>1 DEF JobOK
<1>5. JobsOK
  <2>1. Held = queue
    BY <1>3 DEF Held
  <2>2. \A j \in queue : j.type \notin {"collection", "page"}
    BY <1>4
  <2>3. QED
    BY <1>4, <2>1, <2>2 DEF JobsOK
<1>6. TasksOK
  BY <1>2, IdleIsFine DEF TasksOK
<1>7. PagesOK
  BY <1>3, Apart DEF PagesOK
<1>8. CompleteOK
  <2>1. \A c \in Collections : coll[c].complete = FALSE
    BY DEF Init
  <2>2. QED
    BY <2>1, Zenon DEF CompleteOK
<1>9. DepthsOK
  BY DEF Init, DepthsOK
<1>10. FetchedIsFollowed
  <2>1. \A a \in Actors : actor[a].fetched = FALSE
    BY DEF Init
  <2>2. QED
    BY <2>1, Zenon DEF FetchedIsFollowed
<1>11. TypeOK
  <2>1. Idle \in TaskRec
    BY DEF Idle, TaskRec, Steps
  <2>2. queue \subseteq Jobs /\ seen \subseteq Subjects
    BY <1>3, <1>4 DEF JobOK, Subjects
  <2>3. actor \in [Actors -> [depth : -1 .. MaxDepth, fetched : BOOLEAN, refused : BOOLEAN]]
    BY <1>1 DEF Init
  <2>4. QED
    BY <1>1, <2>1, <2>2, <2>3 DEF Init, TypeOK, TaskRec
<1>12. HalvesOK
  BY <1>3 DEF Init, HalvesOK
<1>13. QED
  BY <1>5, <1>6, <1>7, <1>8, <1>9, <1>10, <1>11, <1>12 DEF CrawlInv

LEMMA CrawlStep == CrawlInv /\ [CrawlNext]_vars => CrawlInv'
<1> SUFFICES ASSUME CrawlInv, [CrawlNext]_vars PROVE CrawlInv'
  OBVIOUS
<1>1. CASE CrawlNext
  <2>1. PICK w \in Workers : Step(w)
    BY <1>1 DEF CrawlNext, Step
  <2>2. QED
    BY <2>1, TypeStep, OthersStep, JobsStep, HalvesStep, PagesStep, CompleteStep, DepthsStep DEF CrawlInv
<1>2. CASE UNCHANGED vars
  <2>1. nodes' = nodes /\ edges' = edges /\ actor' = actor /\ coll' = coll /\ queue' = queue
        /\ seen' = seen /\ failed' = failed /\ task' = task /\ mishaps' = mishaps
        /\ met' = met /\ crew' = crew /\ half' = half /\ lost' = lost
    BY <1>2 DEF vars, graph, dispatcher, past
  <2>2. TypeOK' /\ JobsOK' /\ HalvesOK' /\ DepthsOK'
    BY <2>1 DEF CrawlInv, TypeOK, JobsOK, Held, Halves, HalvesOK, DepthsOK
  <2>3. Followed' = Followed
    BY <2>1 DEF Followed
  <2>4. TasksOK' /\ PagesOK'
    BY <2>1, <2>3 DEF CrawlInv, TasksOK, PagesOK
  <2>5. FetchedIsFollowed'
    BY <2>1, Zenon DEF CrawlInv, FetchedIsFollowed
  <2>6. CompleteOK'
    BY <2>1, <2>3, Zenon DEF CrawlInv, CompleteOK
  <2>7. QED
    BY <2>2, <2>4, <2>5, <2>6 DEF CrawlInv
<1>3. QED
  BY <1>1, <1>2

\* What the handlers have done before each of their awaits holds wherever they stand,
\* whatever the others do there: the invariant the next theorems are read from.
THEOREM CrawlInvariant == Spec => []CrawlInv
BY CrawlInit, CrawlStep, PTL DEF Spec

\* The graph, the queue and the tasks keep their types.
THEOREM CrawlTypeOK == Spec => []TypeOK
<1>1. CrawlInv => TypeOK
  BY DEF CrawlInv
<1>2. QED
  BY CrawlInvariant, <1>1, PTL

\* set_depths and the depths in the jobs: none is less than a path from the seeds, and
\* none is more than max_depth, though handlers overwrite each other's.
THEOREM DepthsArePaths == Spec => []DepthIsAPath
<1>1. CrawlInv => DepthIsAPath
  <2> SUFFICES ASSUME CrawlInv PROVE DepthIsAPath
    OBVIOUS
  <2>1. \A a \in Actors : actor[a].depth # -1 =>
          actor[a].depth <= MaxDepth /\ a \in Within[actor[a].depth]
    <3>1. \A a \in Actors : actor[a].depth \in -1 .. MaxDepth
      BY DEF CrawlInv, TypeOK
    <3>2. QED
      BY <3>1, WebAssumption DEF CrawlInv, DepthsOK
  <2>2. \A j \in queue : /\ j.depth <= MaxDepth
                         /\ j.type = "actor" => j.subject \in Within[j.depth]
    <3>1. \A j \in queue : j.depth \in 0 .. MaxDepth
      BY DEF CrawlInv, TypeOK, Jobs
    <3>2. QED
      BY <3>1, WebAssumption DEF CrawlInv, JobsOK, Held, JobOK
  <2>3. QED
    BY <2>1, <2>2 DEF DepthIsAPath
<1>2. QED
  BY CrawlInvariant, <1>1, PTL

\* Whichever handlers read the pages of a walk, and however often: when the last of
\* them says pages_complete, the edges to everybody the collection lists are there.
THEOREM CompleteWalksAreWhole == Spec => []CompleteIsWhole
<1>1. CrawlInv => CompleteIsWhole
  BY Zenon DEF CrawlInv, CompleteOK, CompleteIsWhole
<1>2. QED
  BY CrawlInvariant, <1>1, PTL

\* An actor with a last_fetch_date, which handle_actor does not fetch again, has had
\* all its collections offered to the queue.
THEOREM FetchedAreFollowed == Spec => []FetchedIsFollowed
<1>1. CrawlInv => FetchedIsFollowed
  BY DEF CrawlInv
<1>2. QED
  BY CrawlInvariant, <1>1, PTL

-----------------------------------------------------------------------------
(* Nobody is overlooked. *)

InHand == {task[w].job : w \in {v \in Workers : task[v].at # "idle"}}
KnownJobs == Held \union InHand

\* An actor that was offered is in a job, or has been handled.
SeenActors ==
    \A a \in seen \intersect Actors :
        \/ actor[a].fetched \/ actor[a].refused
        \/ \E j \in KnownJobs : j.type = "actor" /\ j.subject = a

\* A node that was not offered yet is a seed's, or listed by a walk not complete.
NodesTraced ==
    \A a \in nodes :
        \/ a \in Followed
        \/ \E j \in KnownJobs : j.type = "webfinger" /\ ActorOf[j.subject] = a
        \/ \E c \in Collections : ~ coll[c].complete /\ a \in Lists(c)

\* What a crawl at rest owes: a node it has no answer of was come upon by a job that
\* failed, or is listed by a collection whose walk was not read to its end, or was
\* offered by a handler that was cut off between SADD and ZADD.
Unfinished ==
    AtRest => \A a \in nodes :
        \/ actor[a].fetched \/ actor[a].refused
        \/ \E j \in failed : a \in Found(j)
        \/ \E j \in lost : j.subject = a
        \/ \E c \in Collections : ~ coll[c].complete /\ a \in Lists(c)

\* So far there were no errors with a status, or no jobs that were delivered again.
OneKind == ~ ({"again", "status"} \subseteq met)

\* The actors of a job's items.
ItemsOf(j) == IF j.type = "webfinger" THEN {ActorOf[j.subject]}
              ELSE IF HasItems(j) THEN Members[j.subject] ELSE {}

\* What comes after the nodes are made, up to the offers.
Following == {"nodes", "edges", "depths", "stamp", "dates", "offer"}

\* A task that will offer a: cut off, it is either delivered again or a failed job.
BusyWith(r, a) ==
    /\ r.at # "idle" /\ a \in ItemsOf(r.job)
    /\ "again" \in met \/ r.at \in Following

\* Without errors with a status, every task goes through its whole handler.
AllAnswered == "status" \notin met => \A w \in Workers : task[w].ok

\* A node is followed up, about to be, or a failed job will tell of it.
EveryNode ==
    OneKind => \A a \in nodes :
        \/ a \in Followed
        \/ \E w \in Workers : BusyWith(task[w], a)
        \/ \E j \in failed : a \in ItemsOf(j)
        \/ "again" \in met /\ \E j \in queue : a \in ItemsOf(j)

LEMMA AnsweredStays ==
  ASSUME CrawlInv, NEW w \in Workers, Step(w), NEW a \in Actors,
         actor[a].fetched \/ actor[a].refused
  PROVE  actor'[a].fetched \/ actor'[a].refused
<1>1. actor \in [Actors -> [depth : -1 .. MaxDepth, fetched : BOOLEAN, refused : BOOLEAN]]
      /\ task[w].ok \in BOOLEAN
  BY DEF CrawlInv, TypeOK
<1>2. CASE StampDepths(w)
  <2>1. actor'[a].fetched = actor[a].fetched /\ actor'[a].refused = actor[a].refused
    BY <1>1, <1>2 DEF StampDepths
  <2>2. QED
    BY <2>1, Zenon
<1>3. CASE SaveActor(w) /\ a = Subject(w)
  <2>1. /\ actor'[a].fetched = (actor[a].fetched \/ task[w].ok)
        /\ actor'[a].refused = ~ task[w].ok
    BY <1>1, <1>3 DEF SaveActor
  <2>2. QED
    BY <2>1, Zenon
<1>4. CASE actor' = actor \/ (SaveActor(w) /\ a # Subject(w))
  <2>1. actor'[a] = actor[a]
    BY <1>1, <1>4 DEF SaveActor
  <2>2. QED
    BY <2>1, Zenon
<1>5. StampDepths(w) \/ SaveActor(w) \/ actor' = actor
  BY DEF Step, Handle, Take, Resolve, Check, Mark, FetchActor, FetchCollection, FetchPage,
       EnsureNodes, EnsureEdges, ReadDepths, ReadDates, Offer, Offered, Link, Push,
       SaveCollection, SavePage, StatusError, Raise, Redeliver, CutOff, EnqueueIfUnseen, graph, dispatcher
<1>6. QED
  BY <1>2, <1>3, <1>4, <1>5

\* What becomes of the job that a worker takes, holds or lets go.
LEMMA HandStep ==
  ASSUME CrawlInv, NEW w \in Workers, Step(w)
  PROVE  \/ /\ task[w].at = "idle" /\ task'[w].at # "idle" /\ task'[w].job \in queue
            /\ queue' = queue \ {task'[w].job} /\ failed' = failed
         \/ /\ task[w].at # "idle" /\ queue \subseteq queue' /\ failed \subseteq failed'
            /\ \/ /\ task'[w].at # "idle" /\ task'[w].job = task[w].job
                  /\ task[w].at \in Following =>
                        task'[w].at \in Following \/ (task[w].at = "offer" /\ task[w].todo = {})
               \/ task[w].job \in failed'
               \/ task[w].job \in queue' /\ "again" \in met'
               \/ task[w].job.type = "actor" /\ actor'[task[w].job.subject].fetched
               \/ task[w].at = "offer" /\ task[w].todo = {} /\ task[w].job.type = "webfinger"
               \/ /\ task[w].at = "save"
                  /\ task[w].job.type = "actor" =>
                        \/ actor'[task[w].job.subject].fetched
                        \/ actor'[task[w].job.subject].refused
<1> DEFINE r == task[w]
           s == task'[w]
           Kept == /\ s.at # "idle" /\ s.job = r.job
                   /\ r.at \in Following => s.at \in Following \/ (r.at = "offer" /\ r.todo = {})
<1>1. task \in [Workers -> TaskRec] /\ r \in TaskRec /\ Place(r)
  <2>1. task \in [Workers -> TaskRec] /\ Place(r)
    BY DEF CrawlInv, TasksOK, TypeOK, TaskRec
  <2>2. QED
    BY <2>1
<1>2. CASE Take(w)
  <2>1. PICK j \in queue :
           /\ queue' = queue \ {j}
           /\ task' = [task EXCEPT ![w].job = j, ![w].at =
                         CASE j.type = "webfinger" -> "resolve" [] j.type = "actor" -> "check"
                           [] j.type = "collection" -> "fetch" [] j.type = "page" -> "mark"]
    BY <1>2 DEF Take
  <2>2. j.type \in Types
    BY DEF CrawlInv, TypeOK, Jobs
  <2>3. s.job = j /\ s.at \in {"resolve", "check", "fetch", "mark"}
    BY <1>1, <2>1, <2>2 DEF TaskRec, Types
  <2>4. QED
    BY <1>2, <2>1, <2>3 DEF Take, At
<1>3. ASSUME NEW step, Goto(w, step)
      PROVE  s.at = step /\ s.job = r.job
  BY <1>1, <1>3 DEF Goto, TaskRec
<1>4. ASSUME ~ Take(w)
      PROVE  r.at # "idle" /\ queue \subseteq queue' /\ failed \subseteq failed'
  <2>1. Push(w) => r.at # "idle" /\ queue \subseteq queue' /\ failed \subseteq failed'
    BY DEF CrawlInv, HalvesOK, Push
  <2>2. QED
    BY <1>4, <2>1
     DEF Step, Handle, Resolve, Check, Mark, FetchActor, FetchCollection, FetchPage,
       EnsureNodes, EnsureEdges, ReadDepths, StampDepths, ReadDates, Offer, Offered, Link,
       SaveActor, SaveCollection, SavePage, StatusError, Raise, Redeliver,
       EnqueueIfUnseen, At, dispatcher
<1>5. CASE Resolve(w) \/ Mark(w) \/ FetchCollection(w) \/ FetchPage(w)
           \/ EnsureNodes(w) \/ EnsureEdges(w) \/ StampDepths(w) \/ Link(w)
  <2>1. Kept
    BY <1>3, <1>5 DEF Resolve, Mark, FetchCollection, FetchPage, EnsureNodes, EnsureEdges,
         StampDepths, Link, At, Following
  <2>2. ~ Take(w)
    BY <1>5 DEF Resolve, Mark, FetchCollection, FetchPage, EnsureNodes, EnsureEdges,
         StampDepths, Link, At, Take
  <2>3. QED
    BY <1>4, <2>1, <2>2
<1>6. CASE FetchActor(w) \/ ReadDepths(w) \/ ReadDates(w) \/ Offer(w) \/ StatusError(w)
  <2>1. Kept
    BY <1>1, <1>6 DEF FetchActor, ReadDepths, ReadDates, Offer, StatusError, At, Following, TaskRec
  <2>2. ~ Take(w)
    BY <1>6 DEF FetchActor, ReadDepths, ReadDates, Offer, StatusError, At, Take
  <2>3. QED
    BY <1>4, <2>1, <2>2
<1>7. CASE Check(w)
  <2>1. r.at = "check" /\ r.job.type = "actor" /\ ~ Take(w) /\ actor' = actor
    BY <1>1, <1>7 DEF Check, At, Take, Place
  <2>2. CASE actor[r.job.subject].fetched
    <3>1. actor'[r.job.subject].fetched
      BY <2>1, <2>2, Zenon
    <3>2. QED
      BY <1>4, <2>1, <3>1
  <2>3. CASE Goto(w, "fetch")
    BY <1>3, <1>4, <2>1, <2>3 DEF Following
  <2>4. QED
    BY <1>7, <2>2, <2>3 DEF Check, Subject
<1>8. CASE Offered(w)
  <2>1. r.at = "offer" /\ r.todo = {} /\ ~ Take(w)
    BY <1>8 DEF Offered, At, Take
  <2>2. CASE r.job.type = "webfinger"
    BY <1>4, <2>1, <2>2
  <2>3. CASE r.job.type # "webfinger"
    <3>1. s.at \in {"link", "save"} /\ s.job = r.job
      BY <1>3, <1>8, <2>3 DEF Offered, Type
    <3>2. QED
      BY <1>4, <2>1, <3>1
  <2>4. QED
    BY <2>2, <2>3
<1>9. CASE SaveActor(w)
  <2>1. r.at = "save" /\ ~ Take(w) /\ Subject(w) = r.job.subject /\ r.job.subject \in Actors
    BY <1>1, <1>9 DEF SaveActor, At, Take, Subject, Place, JobOK, Type
  <2>2. /\ actor'[r.job.subject].fetched = (actor[r.job.subject].fetched \/ r.ok)
        /\ actor'[r.job.subject].refused = ~ r.ok
    BY <1>9, <2>1 DEF SaveActor, CrawlInv, TypeOK
  <2>3. actor'[r.job.subject].fetched \/ actor'[r.job.subject].refused
    BY <2>2, Zenon
  <2>4. QED
    BY <1>4, <2>1, <2>3
<1>10. CASE SaveCollection(w) \/ SavePage(w)
  <2>1. r.at = "save" /\ r.job.type # "actor" /\ ~ Take(w)
    BY <1>10 DEF SaveCollection, SavePage, At, Take, Type
  <2>2. QED
    BY <1>4, <2>1
<1>11. CASE Raise(w)
  <2>1. r.job \in failed' /\ ~ Take(w)
    BY <1>11 DEF Raise, At, Take
  <2>2. QED
    BY <1>4, <2>1
<1>12. CASE Redeliver(w)
  <2>1. r.job \in queue' /\ "again" \in met' /\ ~ Take(w)
    BY <1>12 DEF Redeliver, At, Take, Mishap
  <2>2. QED
    BY <1>4, <2>1
<1>13. CASE Push(w)
  <2>1. task' = task /\ ~ Take(w)
    BY <1>13 DEF Push, Take, At
  <2>2. Kept
    BY <1>4, <2>1
  <2>3. QED
    BY <1>4, <2>1, <2>2
<1>14. QED
  BY <1>2, <1>5, <1>6, <1>7, <1>8, <1>9, <1>10, <1>11, <1>12, <1>13 DEF Step, Handle

\* A job that the dispatcher was given is with it until a worker takes it.
LEMMA HeldOrTaken ==
  ASSUME CrawlInv, NEW w \in Workers, Step(w), NEW j \in Held
  PROVE  j \in Held' \/ (j = task'[w].job /\ task'[w].at # "idle")
<1>1. j \in Held' \/ (Take(w) /\ queue' = queue \ {j})
  BY HeldStays DEF CrawlInv
<1>2. CASE Take(w) /\ queue' = queue \ {j} /\ j \notin Held'
  <2>1. task[w].at = "idle" /\ failed' = failed /\ half' = half /\ lost' = lost
    BY <1>2 DEF Take, At
  <2>2. j \in queue
    BY <1>2, <2>1 DEF Held, Halves
  <2>3. task'[w].at # "idle" /\ task'[w].job \in queue /\ queue' = queue \ {task'[w].job}
    BY <2>1, HandStep
  <2>4. QED
    BY <1>2, <2>2, <2>3
<1>3. QED
  BY <1>1, <1>2

\* A job stays known until it is handled.
LEMMA KnownStays ==
  ASSUME CrawlInv, NEW w \in Workers, Step(w), NEW j \in KnownJobs
  PROVE  \/ j \in KnownJobs'
         \/ j.type = "actor" /\ (actor'[j.subject].fetched \/ actor'[j.subject].refused)
         \/ j.type = "webfinger" /\ ActorOf[j.subject] \in Followed'
         \/ j.type \in {"collection", "page"}
<1> DEFINE r == task[w]
           s == task'[w]
<1>1. \A u \in Workers : u # w => task'[u] = task[u]
  BY StepGrows DEF CrawlInv, Grows
<1>2. Place(r) /\ Progress(r, nodes, edges, seen, Followed) /\ Followed \subseteq Followed'
  BY StepGrows DEF CrawlInv, TasksOK, Grows
<1>3. s.at # "idle" => s.job \in KnownJobs'
  BY DEF KnownJobs, InHand
<1>4. CASE j \in Held
  <2>1. j \in Held' \/ (j = s.job /\ s.at # "idle")
    BY <1>4, HeldOrTaken
  <2>2. QED
    BY <1>3, <2>1 DEF KnownJobs
<1>5. CASE j \in InHand
  <2>1. PICK u \in Workers : task[u].at # "idle" /\ j = task[u].job
    BY <1>5 DEF InHand
  <2>2. CASE u # w
    <3>1. task'[u].at # "idle" /\ j = task'[u].job
      BY <1>1, <2>1, <2>2
    <3>2. QED
      BY <3>1 DEF KnownJobs, InHand
  <2>3. CASE u = w
    <3>1. r.at # "idle" /\ j = r.job /\ JobOK(j) /\ j.type \in Types
      BY <1>2, <2>1, <2>3 DEF Place, JobOK, Jobs
    <3>2. CASE s.at # "idle" /\ s.job = r.job
      BY <1>3, <3>1, <3>2
    <3>3. CASE j \in queue' \union failed'
      BY <3>3 DEF KnownJobs, Held
    <3>4. CASE j.type = "actor" /\ (actor'[j.subject].fetched \/ actor'[j.subject].refused)
      BY <3>4
    <3>5. CASE r.at = "offer" /\ r.todo = {} /\ j.type = "webfinger"
      <4>1. ActorOf[j.subject] \in Followed \union Offers(r) /\ Offers(r) = {}
        BY <1>2, <3>1, <3>5 DEF Progress, Offers
      <4>2. QED
        BY <1>2, <3>5, <4>1
    <3>6. CASE r.at = "save" /\ j.type # "actor"
      <4>1. j.type # "webfinger"
        BY <1>2, <3>1, <3>6 DEF Place
      <4>2. QED
        BY <3>1, <3>6, <4>1 DEF Types
    <3>7. QED
      <4>1. \/ s.at # "idle" /\ s.job = r.job
            \/ j \in queue' \union failed'
            \/ j.type = "actor" /\ actor'[j.subject].fetched
            \/ r.at = "offer" /\ r.todo = {} /\ j.type = "webfinger"
            \/ /\ r.at = "save"
               /\ j.type = "actor" => actor'[j.subject].fetched \/ actor'[j.subject].refused
        BY <3>1, HandStep
      <4>2. QED
        BY <3>2, <3>3, <3>4, <3>5, <3>6, <4>1
  <2>4. QED
    BY <2>2, <2>3
<1>6. QED
  BY <1>4, <1>5 DEF KnownJobs

LEMMA SeenActorsStep ==
  ASSUME CrawlInv, SeenActors, NEW w \in Workers, Step(w)
  PROVE  SeenActors'
<1> DEFINE r == task[w]
<1>1. Place(r) /\ TypeOK
  BY DEF CrawlInv, TasksOK
<1>2. SUFFICES ASSUME NEW a \in seen' \intersect Actors
               PROVE  \/ actor'[a].fetched \/ actor'[a].refused
                      \/ \E j \in KnownJobs' : j.type = "actor" /\ j.subject = a
  BY Zenon DEF SeenActors
<1>3. CASE a \in seen
  <2>1. CASE actor[a].fetched \/ actor[a].refused
    BY <2>1, AnsweredStays
  <2>2. CASE \E j \in KnownJobs : j.type = "actor" /\ j.subject = a
    <3>1. PICK j \in KnownJobs : j.type = "actor" /\ j.subject = a
      BY <2>2
    <3>2. j \in KnownJobs' \/ actor'[a].fetched \/ actor'[a].refused
      BY <3>1, KnownStays
    <3>3. QED
      BY <3>1, <3>2
  <2>3. QED
    BY <1>3, <2>1, <2>2 DEF SeenActors
<1>4. CASE a \notin seen
  <2>1. CASE r.at = "offer" /\ \E j \in r.todo : a = j.subject /\ j \in Halves'
    <3>1. PICK j \in r.todo : a = j.subject /\ j \in Halves'
      BY <2>1
    <3>2. JobOK(j) /\ j.type \in {"collection", "actor"}
      BY <1>1, <2>1 DEF Place
    <3>3. j.type = "actor"
      <4>1. j.type = "collection" => a \in Collections
        BY <3>1, <3>2 DEF JobOK
      <4>2. QED
        BY <3>2, <4>1, Apart
    <3>4. QED
      BY <3>1, <3>3 DEF KnownJobs, Held
  <2>2. CASE r.at = "link" /\ a = LinkTo(r)
    <3>1. a \in Pages
      BY <1>1, <2>2, LinkJob DEF LinkTo
    <3>2. QED
      BY <3>1, Apart
  <2>3. QED
    BY <1>1, <1>4, <2>1, <2>2, NewJobs
<1>5. QED
  BY <1>3, <1>4

\* A new node is of the job's items, or it has been offered before.
LEMMA NewNodes ==
  ASSUME CrawlInv, NEW w \in Workers, Step(w), NEW a \in nodes', a \notin nodes
  PROVE  \/ a \in Followed'
         \/ /\ a \in ItemsOf(task[w].job) /\ task'[w].job = task[w].job /\ task'[w].at \in Following
            /\ task[w].at # "idle" /\ JobOK(task[w].job)
            /\ task[w].job.type = "webfinger" \/ HasItems(task[w].job)
<1> DEFINE r == task[w]
           s == task'[w]
<1>1. Place(r) /\ Progress(r, nodes, edges, seen, Followed) /\ Followed \subseteq Followed'
      /\ task \in [Workers -> TaskRec] /\ seen \subseteq Followed
  BY StepGrows DEF CrawlInv, TasksOK, TypeOK, TaskRec, Grows, Followed
<1>2. CASE Resolve(w) \/ EnsureNodes(w)
  <2>1. /\ r.at \in {"resolve", "nodes"} /\ s.at \in {"depths", "edges"} /\ s.job = r.job
        /\ nodes' = nodes \union Ids(w)
    BY <1>1, <1>2 DEF Resolve, EnsureNodes, At, Goto, TaskRec
  <2>2. JobOK(r.job) /\ (r.job.type = "webfinger" \/ HasItems(r.job))
    BY <1>1, <2>1 DEF Place
  <2>3. Ids(w) = ItemsOf(r.job)
    BY <2>2 DEF Ids, ItemsOf, Type, Subject
  <2>4. QED
    BY <2>1, <2>2, <2>3 DEF Following
<1>3. CASE Check(w)
  <2>1. a = r.job.subject /\ r.at = "check"
    BY <1>3 DEF Check, Subject, At
  <2>2. QED
    BY <1>1, <2>1 DEF Progress
<1>4. CASE Mark(w) \/ FetchCollection(w)
  <2>1. a = Owner[Coll(w)] /\ r.at \in {"mark", "fetch"}
        /\ (r.at = "fetch" => r.job.type = "collection")
    BY <1>4 DEF Mark, FetchCollection, At, Type
  <2>2. r.job.type \in {"page", "collection"} /\ Coll(w) = CollOf(r.job)
    BY <1>1, <2>1 DEF Place, Coll, CollOf, Type, Subject
  <2>3. QED
    BY <1>1, <2>1, <2>2 DEF Progress
<1>5. CASE nodes' = nodes
  BY <1>5
<1>6. QED
  BY <1>2, <1>3, <1>4, <1>5
     DEF Step, Handle, Take, FetchActor, FetchPage, EnsureEdges, ReadDepths, StampDepths,
       ReadDates, Offer, Offered, Link, Push, SaveActor, SaveCollection, SavePage,
       StatusError, Raise, Redeliver, CutOff, graph

LEMMA TracedStep ==
  ASSUME CrawlInv, CrawlInv', NodesTraced, NEW w \in Workers, Step(w)
  PROVE  NodesTraced'
<1> DEFINE r == task[w]
           s == task'[w]
<1>1. Followed \subseteq Followed'
  BY StepGrows DEF CrawlInv, Grows
<1>2. SUFFICES ASSUME NEW a \in nodes', a \notin Followed'
               PROVE  \/ \E j \in KnownJobs' : j.type = "webfinger" /\ ActorOf[j.subject] = a
                      \/ \E c \in Collections : ~ coll'[c].complete /\ a \in Lists(c)
  BY Zenon DEF NodesTraced
<1>3. ASSUME NEW c \in Collections, a \in Lists(c)
      PROVE  ~ coll'[c].complete
  <2>1. CompleteOK'
    BY DEF CrawlInv
  <2>2. QED
    BY <1>2, <1>3, <2>1, Zenon DEF CompleteOK
<1>4. CASE \E c \in Collections : a \in Lists(c)
  BY <1>3, <1>4
<1>5. CASE \E j \in KnownJobs : j.type = "webfinger" /\ ActorOf[j.subject] = a
  <2>1. PICK j \in KnownJobs : j.type = "webfinger" /\ ActorOf[j.subject] = a
    BY <1>5
  <2>2. j \in KnownJobs'
    BY <1>2, <2>1, KnownStays
  <2>3. QED
    BY <2>1, <2>2
<1>6. CASE a \notin nodes
  <2>1. /\ a \in ItemsOf(r.job) /\ s.job = r.job /\ s.at \in Following
        /\ JobOK(r.job) /\ (r.job.type = "webfinger" \/ HasItems(r.job))
    BY <1>2, <1>6, NewNodes
  <2>2. CASE r.job.type = "webfinger"
    <3>1. a = ActorOf[r.job.subject] /\ s.job \in KnownJobs'
      BY <2>1, <2>2 DEF ItemsOf, KnownJobs, InHand, Following
    <3>2. QED
      BY <2>1, <2>2, <3>1
  <2>3. CASE HasItems(r.job)
    <3>1. a \in Lists(CollOf(r.job)) /\ CollOf(r.job) \in Collections
      BY <2>1, <2>3, ItemsLevel DEF ItemsOf, HasItems
    <3>2. QED
      BY <1>4, <3>1
  <2>4. QED
    BY <2>1, <2>2, <2>3
<1>7. QED
  BY <1>1, <1>2, <1>4, <1>5, <1>6 DEF NodesTraced

TraceInv == CrawlInv /\ SeenActors /\ NodesTraced

LEMMA TraceInvariant == Spec => []TraceInv
<1>1. Init => TraceInv
  <2> SUFFICES ASSUME Init PROVE TraceInv
    OBVIOUS
  <2>1. nodes = {} /\ seen = Webfingers
    BY DEF Init
  <2>2. SeenActors
    BY <2>1, Apart DEF SeenActors
  <2>3. NodesTraced
    BY <2>1 DEF NodesTraced
  <2>4. QED
    BY <2>2, <2>3, CrawlInit DEF TraceInv
<1>2. TraceInv /\ [CrawlNext]_vars => TraceInv'
  <2> SUFFICES ASSUME TraceInv, [CrawlNext]_vars PROVE TraceInv'
    OBVIOUS
  <2>1. CrawlInv'
    BY CrawlStep DEF TraceInv
  <2>2. CASE CrawlNext
    <3>1. PICK w \in Workers : Step(w)
      BY <2>2 DEF CrawlNext, Step
    <3>2. QED
      BY <2>1, <3>1, SeenActorsStep, TracedStep DEF TraceInv
  <2>3. CASE UNCHANGED vars
    <3>1. nodes' = nodes /\ actor' = actor /\ coll' = coll /\ queue' = queue
          /\ seen' = seen /\ failed' = failed /\ task' = task /\ half' = half /\ lost' = lost
      BY <2>3 DEF vars, graph, dispatcher
    <3>2. KnownJobs' = KnownJobs /\ Followed' = Followed
      BY <3>1 DEF KnownJobs, Held, Halves, InHand, Followed
    <3>3. SeenActors'
      BY <3>1, <3>2, Zenon DEF TraceInv, SeenActors
    <3>4. NodesTraced'
      BY <3>1, <3>2, Zenon DEF TraceInv, NodesTraced
    <3>5. QED
      BY <2>1, <3>3, <3>4 DEF TraceInv
  <2>4. QED
    BY <2>2, <2>3
<1>3. QED
  BY <1>1, <1>2, PTL DEF Spec

\* At rest the jobs that are known have failed or are lost.
LEMMA KnownAtRest ==
  ASSUME AtRest
  PROVE  KnownJobs = failed \union lost
<1>1. \A w \in Workers : task[w].at = "idle" /\ half[w] = {}
  BY DEF AtRest, At
<1>2. Halves = {} /\ InHand = {} /\ queue = {}
  BY <1>1 DEF Halves, InHand, AtRest
<1>3. QED
  BY <1>2 DEF KnownJobs, Held

\* At rest a followed node is fetched, has refused, is in a failed job or in a lost one.
LEMMA FollowedAtRest ==
  ASSUME CrawlInv, SeenActors, AtRest, NEW a \in Actors, a \in Followed
  PROVE  \/ actor[a].fetched \/ actor[a].refused
         \/ \E j \in failed : a \in Found(j)
         \/ \E j \in lost : j.subject = a
<1>1. CASE actor[a].fetched
  BY <1>1
<1>2. CASE a \in seen
  <2>1. \/ actor[a].fetched \/ actor[a].refused
        \/ \E j \in failed \union lost : j.type = "actor" /\ j.subject = a
    BY <1>2, KnownAtRest DEF SeenActors
  <2>2. \A j : j.type = "actor" /\ j.subject = a => a \in Found(j)
    BY DEF Found
  <2>3. QED
    BY <2>1, <2>2
<1>3. QED
  BY <1>1, <1>2 DEF Followed

\* At the end of a crawl, with any errors, restarts and redeliveries: what is unanswered
\* is behind a failed job or behind a walk that is not complete, or its own job was lost
\* between the two commands of enqueue_if_unseen.
THEOREM NodesAreFollowedUp == Spec => []Unfinished
<1>1. TraceInv => Unfinished
  <2> SUFFICES ASSUME TraceInv, AtRest, NEW a \in nodes
               PROVE  \/ actor[a].fetched \/ actor[a].refused
                      \/ \E j \in failed : a \in Found(j)
                      \/ \E j \in lost : j.subject = a
                      \/ \E c \in Collections : ~ coll[c].complete /\ a \in Lists(c)
    BY Zenon DEF Unfinished
  <2>1. a \in Actors
    BY DEF TraceInv, CrawlInv, TypeOK
  <2>2. CASE a \in Followed
    BY <2>1, <2>2, FollowedAtRest DEF TraceInv
  <2>3. CASE \E j \in KnownJobs : j.type = "webfinger" /\ ActorOf[j.subject] = a
    <3>1. \A j \in KnownJobs : j.type = "webfinger" => j \in failed
      BY KnownAtRest DEF TraceInv, CrawlInv, HalvesOK
    <3>2. \A j : j.type = "webfinger" /\ ActorOf[j.subject] = a => a \in Found(j)
      BY DEF Found
    <3>3. QED
      BY <2>3, <3>1, <3>2
  <2>4. QED
    BY <2>2, <2>3 DEF TraceInv, NodesTraced
<1>2. QED
  BY TraceInvariant, <1>1, PTL

-----------------------------------------------------------------------------
LEMMA AnsweredStep ==
  ASSUME CrawlInv, AllAnswered, NEW w \in Workers, Step(w)
  PROVE  AllAnswered'
<1>1. SUFFICES ASSUME "status" \notin met', NEW u \in Workers
               PROVE  task'[u].ok
  BY DEF AllAnswered
<1>2. Place(task'[u]) /\ \A v \in Workers : task[v].ok
  BY <1>1, OthersStep, PastStep DEF TasksOK, AllAnswered
<1>3. CASE u # w
  <2>1. task'[u] = task[u]
    BY <1>3, StepGrows DEF CrawlInv, Grows
  <2>2. QED
    BY <1>2, <2>1, Zenon
<1>4. CASE u = w
  <2>1. CASE task'[u].at # "save"
    BY <1>2, <2>1 DEF Place
  <2>2. CASE task'[u].at = "save"
    <3>1. task \in [Workers -> TaskRec]
      BY DEF CrawlInv, TypeOK, TaskRec
    <3>2. ~ StatusError(w)
      BY <1>1, PastStep
    <3>3. task'[w].ok = task[w].ok
      <4>1. ASSUME Finish(w) PROVE FALSE
        BY <1>4, <2>2, <3>1, <4>1 DEF Finish, Idle
      <4>2. CASE Take(w)
        BY <3>1, <4>2 DEF Take, TaskRec
      <4>3. CASE \E step \in Steps : Goto(w, step)
        BY <3>1, <4>3 DEF Goto, TaskRec
      <4>4. CASE FetchActor(w) \/ ReadDepths(w) \/ ReadDates(w) \/ Offer(w)
        BY <3>1, <4>4 DEF FetchActor, ReadDepths, ReadDates, Offer, TaskRec
      <4>5. CASE task' = task
        BY <4>5
      <4>6. QED
        BY <3>2, <4>1, <4>2, <4>3, <4>4, <4>5
           DEF Step, Handle, Resolve, Check, Mark, FetchCollection, FetchPage,
             EnsureNodes, EnsureEdges, StampDepths, Offered, Link, Push,
             SaveActor, SaveCollection, SavePage, Raise, Redeliver, CutOff, Steps
    <3>4. QED
      BY <1>2, <1>4, <3>3, Zenon
  <2>3. QED
    BY <2>1, <2>2
<1>5. QED
  BY <1>3, <1>4

LEMMA EveryStep ==
  ASSUME CrawlInv, AllAnswered, EveryNode, NEW w \in Workers, Step(w)
  PROVE  EveryNode'
<1> DEFINE r == task[w]
           s == task'[w]
<1>1. /\ \A u \in Workers : u # w => task'[u] = task[u]
      /\ Followed \subseteq Followed' /\ nodes \subseteq nodes'
  BY StepGrows DEF CrawlInv, Grows
<1>2. Place(r) /\ Progress(r, nodes, edges, seen, Followed)
  BY DEF CrawlInv, TasksOK
<1>3. SUFFICES ASSUME OneKind', NEW a \in nodes', a \notin Followed'
               PROVE  \/ \E u \in Workers : BusyWith(task[u], a)'
                      \/ \E j \in failed' : a \in ItemsOf(j)
                      \/ "again" \in met' /\ \E j \in queue' : a \in ItemsOf(j)
  BY DEF EveryNode
<1>4. met \subseteq met' /\ OneKind
  BY <1>3, PastStep DEF OneKind
<1>5. CASE a \notin nodes
  <2>1. a \in ItemsOf(r.job) /\ s.job = r.job /\ s.at \in Following
    BY <1>3, <1>5, NewNodes
  <2>2. BusyWith(task[w], a)'
    BY <2>1 DEF BusyWith, Following
  <2>3. QED
    BY <2>2
<1>6. CASE \E j \in failed : a \in ItemsOf(j)
  <2>1. failed \subseteq failed'
    BY HandStep
  <2>2. QED
    BY <1>6, <2>1
<1>7. CASE "again" \in met /\ \E j \in queue : a \in ItemsOf(j)
  <2>1. PICK j \in queue : a \in ItemsOf(j)
    BY <1>7
  <2>2. j \in queue' \/ (s.at # "idle" /\ s.job = j)
    BY HandStep
  <2>3. s.at # "idle" /\ s.job = j => BusyWith(task[w], a)'
    BY <1>4, <1>7, <2>1 DEF BusyWith
  <2>4. QED
    BY <1>4, <1>7, <2>1, <2>2, <2>3
<1>8. CASE \E u \in Workers : BusyWith(task[u], a)
  <2>1. PICK u \in Workers : BusyWith(task[u], a)
    BY <1>8
  <2>2. CASE u # w
    <3>1. BusyWith(task[u], a)'
      BY <1>1, <1>4, <2>1, <2>2 DEF BusyWith
    <3>2. QED
      BY <3>1
  <2>3. CASE u = w
    <3>1. /\ r.at # "idle" /\ a \in ItemsOf(r.job) /\ JobOK(r.job)
          /\ "again" \in met \/ r.at \in Following
      BY <1>2, <2>1, <2>3 DEF BusyWith, Place
    <3>2. r.job.type # "actor"
      BY <3>1 DEF ItemsOf, HasItems
    <3>3. ~ (r.at = "offer" /\ r.todo = {})
      <4>1. SUFFICES ASSUME r.at = "offer", r.todo = {} PROVE FALSE
        OBVIOUS
      <4>2. Offers(r) = {}
        BY <4>1 DEF Offers
      <4>3. CASE r.job.type = "webfinger"
        <5>1. a = ActorOf[r.job.subject]
          BY <3>1, <4>3 DEF ItemsOf
        <5>2. QED
          BY <1>1, <1>2, <1>3, <4>1, <4>2, <4>3, <5>1 DEF Progress
      <4>4. CASE r.job.type # "webfinger"
        <5>1. a \in Members[r.job.subject] /\ r.job.type \in {"collection", "page"}
          BY <3>1, <4>4 DEF ItemsOf, HasItems
        <5>2. QED
          BY <1>1, <1>2, <1>3, <4>1, <4>2, <5>1 DEF Progress
      <4>5. QED
        BY <4>3, <4>4
    <3>4. r.at # "save"
      <4>1. SUFFICES ASSUME r.at = "save" PROVE FALSE
        OBVIOUS
      <4>2. "again" \in met
        BY <3>1, <4>1 DEF Following
      <4>3. r.ok
        BY <1>4, <4>2 DEF OneKind, AllAnswered
      <4>4. HasItems(r.job) /\ a \in Members[r.job.subject]
        BY <1>2, <3>1, <4>1 DEF ItemsOf, Place
      <4>5. QED
        BY <1>1, <1>2, <1>3, <4>1, <4>3, <4>4 DEF Progress
    <3>5. CASE s.at # "idle" /\ s.job = r.job /\ (r.at \in Following => s.at \in Following)
      <4>1. BusyWith(task[w], a)'
        BY <1>4, <3>1, <3>5 DEF BusyWith
      <4>2. QED
        BY <4>1
    <3>6. CASE r.job \in failed'
      BY <3>1, <3>6
    <3>7. CASE r.job \in queue' /\ "again" \in met'
      BY <3>1, <3>7
    <3>8. QED
      BY <3>1, <3>2, <3>3, <3>4, <3>5, <3>6, <3>7, HandStep
  <2>4. QED
    BY <2>2, <2>3
<1>9. QED
  BY <1>1, <1>3, <1>4, <1>5, <1>6, <1>7, <1>8 DEF EveryNode

NobodyInv == TraceInv /\ AllAnswered /\ EveryNode

\* As long as the mishaps were of one kind, any number of them, the trace each node has
\* left is one the recovery scripts read: the failed job itself, or the status of its
\* collection; but for the nodes whose own job was lost between SADD and ZADD.
THEOREM NobodyIsOverlooked == Spec => [](OneKind => NobodyOverlooked)
<1>1. Init => NobodyInv
  <2> SUFFICES ASSUME Init PROVE NobodyInv
    OBVIOUS
  <2>1. nodes = {} /\ seen = Webfingers /\ \A w \in Workers : task[w] = Idle
    BY DEF Init
  <2>2. SeenActors /\ NodesTraced /\ EveryNode
    BY <2>1, Apart DEF SeenActors, NodesTraced, EveryNode
  <2>3. AllAnswered
    <3>1. Idle.ok = TRUE
      BY DEF Idle
    <3>2. QED
      BY <2>1, <3>1, Zenon DEF AllAnswered
  <2>4. QED
    BY <2>2, <2>3, CrawlInit DEF NobodyInv, TraceInv
<1>2. NobodyInv /\ TraceInv' /\ [CrawlNext]_vars => NobodyInv'
  <2> SUFFICES ASSUME NobodyInv, TraceInv', [CrawlNext]_vars PROVE NobodyInv'
    OBVIOUS
  <2>1. CASE CrawlNext
    <3>1. PICK w \in Workers : Step(w)
      BY <2>1 DEF CrawlNext, Step
    <3>2. QED
      BY <3>1, AnsweredStep, EveryStep DEF NobodyInv, TraceInv
  <2>2. CASE UNCHANGED vars
    <3>1. nodes' = nodes /\ actor' = actor /\ queue' = queue /\ seen' = seen
          /\ failed' = failed /\ task' = task /\ met' = met
      BY <2>2 DEF vars, graph, dispatcher, past
    <3>2. Followed' = Followed
      BY <3>1 DEF Followed
    <3>3. AllAnswered'
      BY <3>1, Zenon DEF NobodyInv, AllAnswered
    <3>4. EveryNode'
      BY <3>1, <3>2 DEF NobodyInv, EveryNode, OneKind, BusyWith
    <3>5. QED
      BY <3>3, <3>4 DEF NobodyInv
  <2>3. QED
    BY <2>1, <2>2
<1>3. NobodyInv => (OneKind => NobodyOverlooked)
  <2> SUFFICES ASSUME NobodyInv, OneKind, AtRest, NEW a \in nodes
               PROVE  \/ actor[a].fetched \/ actor[a].refused
                      \/ \E j \in failed : a \in Found(j)
                      \/ \E j \in lost : j.subject = a
                      \/ \E c \in Collections : coll[c].refused # {} /\ a \in Lists(c)
    BY Zenon DEF NobodyOverlooked
  <2>1. a \in Actors
    BY DEF NobodyInv, TraceInv, CrawlInv, TypeOK
  <2>2. CASE a \in Followed
    BY <2>1, <2>2, FollowedAtRest DEF NobodyInv, TraceInv
  <2>3. CASE \E j \in failed : a \in ItemsOf(j)
    <3>1. \A j : a \in ItemsOf(j) => a \in Found(j)
      BY DEF ItemsOf, Found, HasItems
    <3>2. QED
      BY <2>3, <3>1
  <2>4. QED
    BY <2>2, <2>3 DEF NobodyInv, EveryNode, AtRest, At, BusyWith
<1>4. QED
  BY TraceInvariant, <1>1, <1>2, <1>3, PTL DEF Spec
-----------------------------------------------------------------------------
(* One worker crawls breadth first. *)

\* What the job's document leads on to.
LeadsOn(j) ==
    \/ j.type = "page" /\ HasItems(j) /\ Next[j.subject] \in Pages
    \/ /\ j.type = "collection" /\ j.depth < MaxDepth
       /\ Declared[j.subject] = "first" /\ First[j.subject] \in Pages

\* The actors with a depth, and those with all that a handler leaves of an actor.
Placed == {a \in Actors : actor[a].depth # -1}
Reached == nodes \intersect seen \intersect Placed

\* What a handler has done to the actors of its items: the nodes N, the placed P, and
\* the seen S.
Prepared(r, N, P, S) ==
    /\ r.at \in {"depths", "stamp", "dates", "offer"} /\ r.job.type = "webfinger" =>
          ActorOf[r.job.subject] \in N
    /\ r.at = "stamp" => ItemsOf(r.job) \subseteq P \union r.blank
    /\ r.at \in {"dates", "offer", "link", "save"} => (r.ok => ItemsOf(r.job) \subseteq P)
    /\ r.at = "save" => (r.ok /\ LeadsOn(r.job) => LinkTo(r) \in S)

AllPrepared == \A w \in Workers : Prepared(task[w], nodes, Placed, seen)

\* The graph holds nobody beyond max_depth, and who was fetched had been offered.
InReach == nodes \subseteq Within[MaxDepth] /\ Followed \subseteq seen

\* A worker at work has taken its job.
CrewWorks == \A w \in Workers : task[w].at # "idle" => w \in crew

NoRefusals == "status" \notin met => \A a \in Actors : ~ actor[a].refused
NoFailures == "raise" \notin met => failed = {}

\* What the theorem asks for: a lone worker that is answered, and nothing lost.
Calm == Alone /\ Smooth /\ lost = {}

\* The two digits that the depth of a job is written with are enough.
Shallow == MaxDepth <= 99

\* The jobs that a worker is going to be given, those half offered included.
Waiting == queue \union Halves

KnownAs(t, x) == \E j \in KnownJobs : j.type = t /\ j.subject = x

\* What is left of a webfinger, a collection or a page that has been handled, when all
\* were answered.
SeedRead(f) == ActorOf[f] \in Reached
CollectionRead(c) ==
    (\E n \in 0 .. MaxDepth : n < MaxDepth /\ Owner[c] \in Within[n]) =>
        /\ Declared[c] = "first" /\ First[c] \in Pages => First[c] \in seen
        /\ Declared[c] = "items" => Members[c] \subseteq Reached
PageFollowed(p) ==
    /\ Members[p] \subseteq Reached
    /\ p \in WithItems /\ Next[p] \in Pages => Next[p] \in seen

\* What was seen is in hand or in the queue, or was read and leads on.
Handled ==
    Calm =>
        /\ \A f \in Webfingers : KnownAs("webfinger", f) \/ SeedRead(f)
        /\ \A c \in seen \intersect Collections : KnownAs("collection", c) \/ CollectionRead(c)
        /\ \A p \in seen \intersect Pages : KnownAs("page", p) \/ PageFollowed(p)

\* Nobody came upon the actor, or the job's actor, on a shorter path.
Nearest(a, d) == \A k \in 0 .. MaxDepth : k < d => a \notin Within[k]
JobNearest(j) ==
    IF j.type = "webfinger" THEN j.depth = 0
    ELSE Nearest(IF j.type = "actor" THEN j.subject ELSE Owner[CollOf(j)], j.depth)

\* The depth a handler finds its items at.
LevelOf(j) == IF j.type = "webfinger" THEN 0 ELSE j.depth + 1

TaskNearest(r, Q) ==
    /\ r.at # "idle" => JobNearest(r.job) /\ \A k \in Q \union r.todo : Rank(r.job) <= Rank(k)
    /\ r.at = "stamp" => \A a \in r.blank : Nearest(a, LevelOf(r.job))
    /\ r.at = "offer" => \A k \in r.todo : JobNearest(k)

ByDistance ==
    Calm =>
        /\ \A a \in Actors : Nearest(a, actor[a].depth)
        /\ \A j \in Waiting : JobNearest(j)
        /\ \A w \in Workers : TaskNearest(task[w], Waiting)

BreadthInv ==
    /\ TraceInv /\ AllAnswered
    /\ InReach /\ AllPrepared /\ CrewWorks /\ NoRefusals /\ NoFailures /\ Handled /\ ByDistance

LEMMA WithinSteps ==
  /\ Within[0] = {ActorOf[s] : s \in Webfingers}
  /\ \A k \in 0 .. MaxDepth : k # 0 =>
        k - 1 \in 0 .. MaxDepth /\ Within[k] = Within[k - 1] \union ListedBy(Within[k - 1])
<1>1. MaxDepth \in Nat /\ 0 \in 0 .. MaxDepth
  BY WebAssumption
<1>2. /\ Within[0] = {ActorOf[s] : s \in Webfingers}
      /\ \A k \in 0 .. MaxDepth : k # 0 => Within[k] = Within[k - 1] \union ListedBy(Within[k - 1])
  BY <1>1, WithinIsLevels DEF Levels
<1>3. \A k \in 0 .. MaxDepth : k # 0 => k - 1 \in 0 .. MaxDepth
  BY <1>1
<1>4. QED
  BY <1>2, <1>3

\* An actor at some level is at those after it.
LEMMA WithinGrows ==
  ASSUME NEW k \in 0 .. MaxDepth
  PROVE  \A m \in k .. MaxDepth : Within[k] \subseteq Within[m]
<1> DEFINE T == {m \in k .. MaxDepth : ~ (Within[k] \subseteq Within[m])}
<1>1. MaxDepth \in Nat /\ k \in Nat
  BY WebAssumption
<1>2. SUFFICES ASSUME T # {} PROVE FALSE
  OBVIOUS
<1>3. PICK m \in T : \A n \in T : m <= n
  <2>1. T \in SUBSET Nat
    BY <1>1
  <2> HIDE DEF T
  <2>2. QED
    BY <1>2, <2>1, LeastNatural
<1>4. m \in k .. MaxDepth /\ ~ (Within[k] \subseteq Within[m]) /\ m # k
  BY <1>3
<1>5. m - 1 \in k .. MaxDepth /\ m - 1 \notin T /\ m \in 0 .. MaxDepth /\ m # 0
  BY <1>1, <1>3, <1>4
<1>6. Within[k] \subseteq Within[m - 1] /\ Within[m - 1] \subseteq Within[m]
  BY <1>5, WithinSteps
<1>7. QED
  BY <1>4, <1>6

LEMMA ItemsAreIds ==
  ASSUME NEW w, Type(w) = "webfinger" \/ HasItems(task[w].job)
  PROVE  Ids(w) = ItemsOf(task[w].job) /\ Level(w) = LevelOf(task[w].job)
BY DEF Ids, ItemsOf, Type, Subject, Level, LevelOf, Depth

LEMMA PlacedStays ==
  ASSUME CrawlInv, NEW w \in Workers, Step(w)
  PROVE  /\ Placed \subseteq Placed'
         /\ StampDepths(w) => task[w].blank \subseteq Placed'
<1> DEFINE r == task[w]
<1>1. /\ actor \in [Actors -> [depth : -1 .. MaxDepth, fetched : BOOLEAN, refused : BOOLEAN]]
      /\ r \in TaskRec /\ Place(r)
  BY DEF CrawlInv, TasksOK, TypeOK, TaskRec
<1>2. CASE StampDepths(w)
  <2>1. r.at = "stamp" /\ JobOK(r.job) /\ (Type(w) = "webfinger" \/ HasItems(r.job))
    BY <1>1, <1>2 DEF StampDepths, At, Place, Type
  <2>2. Level(w) \in 0 .. MaxDepth
    BY <2>1, IdsLevel
  <2>3. \A a \in Actors : actor'[a].depth = IF a \in r.blank THEN Level(w) ELSE actor[a].depth
    BY <1>1, <1>2 DEF StampDepths
  <2>4. r.blank \subseteq Actors
    BY <1>1 DEF TaskRec
  <2>5. QED
    BY <2>2, <2>3, <2>4 DEF Placed
<1>3. CASE SaveActor(w)
  <2>1. r.at = "save" /\ JobOK(r.job) /\ ~ StampDepths(w)
    BY <1>1, <1>3 DEF SaveActor, At, Place, StampDepths
  <2>2. Depth(w) \in 0 .. MaxDepth
    BY <2>1 DEF JobOK, Jobs, Depth
  <2>3. \A a \in Actors : actor'[a].depth = IF a = Subject(w) THEN Depth(w) ELSE actor[a].depth
    BY <1>1, <1>3 DEF SaveActor
  <2>4. QED
    BY <2>1, <2>2, <2>3 DEF Placed
<1>4. CASE actor' = actor /\ ~ StampDepths(w)
  BY <1>4 DEF Placed
<1>5. StampDepths(w) \/ SaveActor(w) \/ actor' = actor
  BY DEF Step, Handle, Take, Resolve, Check, Mark, FetchActor, FetchCollection, FetchPage,
       EnsureNodes, EnsureEdges, ReadDepths, ReadDates, Offer, Offered, Link, Push,
       SaveCollection, SavePage, StatusError, Raise, Redeliver, CutOff, EnqueueIfUnseen, graph, dispatcher
<1>6. QED
  BY <1>2, <1>3, <1>4, <1>5

LEMMA PreparedStays ==
  ASSUME NEW r, NEW N, NEW P, NEW S, NEW N2, NEW P2, NEW S2,
         N \subseteq N2, P \subseteq P2, S \subseteq S2, Prepared(r, N, P, S)
  PROVE  Prepared(r, N2, P2, S2)
BY DEF Prepared

\* What a handler has done to the actors it came upon.
LEMMA PreparedTask ==
  ASSUME CrawlInv, AllPrepared, NEW w \in Workers, Step(w)
  PROVE  Prepared(task'[w], nodes', Placed', seen')
<1> DEFINE r == task[w]
           s == task'[w]
<1>1. task \in [Workers -> TaskRec] /\ r \in TaskRec /\ Place(r)
  BY DEF CrawlInv, TasksOK, TypeOK, TaskRec
<1>2. Prepared(r, nodes', Placed', seen')
  <2>1. nodes \subseteq nodes' /\ Placed \subseteq Placed' /\ seen \subseteq seen'
    BY StepGrows, PlacedStays DEF CrawlInv, Grows
  <2>2. QED
    BY <2>1, PreparedStays DEF AllPrepared
<1>3. ASSUME s.at \notin {"depths", "stamp", "dates", "offer", "link", "save"}
      PROVE  Prepared(s, nodes', Placed', seen')
  BY <1>3 DEF Prepared
<1>4. ASSUME Finish(w) PROVE Prepared(s, nodes', Placed', seen')
  <2>1. s.at = "idle"
    BY <1>1, <1>4 DEF Finish, Idle
  <2>2. QED
    BY <1>3, <2>1
<1>5. ASSUME NEW step, Goto(w, step)
      PROVE  s.at = step /\ s.job = r.job /\ s.todo = r.todo /\ s.blank = r.blank /\ s.ok = r.ok
  BY <1>1, <1>5 DEF Goto, TaskRec
<1>6. CASE Take(w)
  <2>1. s.at \in {"resolve", "check", "fetch", "mark"}
    <3>1. PICK j \in queue : task' = [task EXCEPT ![w].job = j, ![w].at =
                           CASE j.type = "webfinger" -> "resolve" [] j.type = "actor" -> "check"
                             [] j.type = "collection" -> "fetch" [] j.type = "page" -> "mark"]
      BY <1>6 DEF Take
    <3>2. j.type \in Types
      BY DEF CrawlInv, TypeOK, Jobs
    <3>3. QED
      BY <1>1, <3>1, <3>2 DEF TaskRec, Types
  <2>2. QED
    BY <1>3, <2>1
<1>7. CASE Resolve(w)
  <2>1. r.at = "resolve" /\ s.at = "depths" /\ s.job = r.job /\ nodes' = nodes \union Ids(w)
    BY <1>5, <1>7 DEF Resolve, At
  <2>2. r.job.type = "webfinger" /\ ActorOf[r.job.subject] \in nodes'
    BY <1>1, <2>1 DEF Place, Ids, Type, Subject
  <2>3. QED
    BY <2>1, <2>2 DEF Prepared
<1>8. CASE Check(w) \/ Mark(w)
  <2>1. Finish(w) \/ Goto(w, "fetch")
    BY <1>8 DEF Check, Mark
  <2>2. CASE Goto(w, "fetch")
    BY <1>3, <1>5, <2>2
  <2>3. QED
    BY <1>4, <2>1, <2>2
<1>9. CASE FetchActor(w)
  <2>1. s.at = "offer" /\ s.job = r.job /\ r.job.type = "actor"
    BY <1>1, <1>9 DEF FetchActor, Type, TaskRec
  <2>2. ItemsOf(r.job) = {}
    BY <2>1 DEF ItemsOf, HasItems
  <2>3. QED
    BY <2>1, <2>2 DEF Prepared
<1>10. CASE FetchCollection(w)
  <2>1. /\ s.job = r.job /\ r.job.type = "collection"
        /\ s.at = IF FirstPage(w) THEN "link" ELSE IF Inline(w) THEN "nodes" ELSE "save"
    BY <1>5, <1>10 DEF FetchCollection, Type
  <2>2. FirstPage(w) = LeadsOn(r.job) /\ Inline(w) = HasItems(r.job)
    BY <2>1 DEF FirstPage, Inline, Walks, HasItems, LeadsOn, Subject, Depth
  <2>3. FirstPage(w) => ~ HasItems(r.job)
    BY <2>1, <2>2 DEF HasItems, LeadsOn
  <2>4. ~ HasItems(r.job) => ItemsOf(r.job) = {}
    BY <2>1 DEF ItemsOf
  <2>5. QED
    BY <2>1, <2>2, <2>3, <2>4 DEF Prepared
<1>11. CASE FetchPage(w)
  <2>1. /\ s.job = r.job /\ r.job.type = "page"
        /\ s.at = IF HasItems(r.job) THEN "nodes" ELSE "save"
    BY <1>5, <1>11 DEF FetchPage, Type, Subject, HasItems
  <2>2. ~ HasItems(r.job) => ItemsOf(r.job) = {} /\ ~ LeadsOn(r.job)
    BY <2>1 DEF ItemsOf, LeadsOn
  <2>3. QED
    BY <2>1, <2>2 DEF Prepared
<1>12. CASE EnsureNodes(w) \/ EnsureEdges(w)
  <2>1. r.at \in {"nodes", "edges"} /\ s.at \in {"edges", "depths"} /\ s.job = r.job
    BY <1>5, <1>12 DEF EnsureNodes, EnsureEdges, At
  <2>2. r.job.type # "webfinger"
    BY <1>1, <2>1 DEF Place, HasItems
  <2>3. QED
    BY <2>1, <2>2 DEF Prepared
<1>13. CASE ReadDepths(w)
  <2>1. /\ r.at = "depths" /\ s.at = "stamp" /\ s.job = r.job /\ nodes' = nodes /\ actor' = actor
        /\ s.blank = {a \in Ids(w) : actor[a].depth = -1}
    BY <1>1, <1>13 DEF ReadDepths, At, TaskRec, graph
  <2>2. JobOK(r.job) /\ (Type(w) = "webfinger" \/ HasItems(r.job))
    BY <1>1, <2>1 DEF Place, Type
  <2>3. Ids(w) = ItemsOf(r.job) /\ Ids(w) \subseteq Actors
    BY <2>2, IdsLevel, ItemsAreIds
  <2>4. ItemsOf(s.job) \subseteq Placed' \union s.blank
    BY <2>1, <2>3 DEF Placed
  <2>5. QED
    BY <1>2, <2>1, <2>4 DEF Prepared
<1>14. CASE StampDepths(w)
  <2>1. r.at = "stamp" /\ s.at = "dates" /\ s.job = r.job /\ r.blank \subseteq Placed'
    BY <1>5, <1>14, PlacedStays DEF StampDepths, At
  <2>2. QED
    BY <1>2, <2>1 DEF Prepared
<1>15. CASE ReadDates(w) \/ Offer(w)
  <2>1. r.at \in {"dates", "offer"} /\ s.at = "offer" /\ s.job = r.job /\ s.ok = r.ok
    BY <1>1, <1>15 DEF ReadDates, Offer, At, TaskRec
  <2>2. QED
    BY <1>2, <2>1 DEF Prepared
<1>16. CASE Offered(w)
  <2>1. r.at = "offer"
    BY <1>16 DEF Offered, At
  <2>2. CASE r.job.type # "webfinger"
              /\ Goto(w, IF Type(w) = "page" /\ Next[Subject(w)] \in Pages THEN "link" ELSE "save")
    <3>1. /\ s.job = r.job /\ s.ok = r.ok
          /\ s.at = IF r.job.type = "page" /\ Next[r.job.subject] \in Pages THEN "link" ELSE "save"
      BY <1>5, <2>2 DEF Type, Subject
    <3>2. r.job.type = "actor" \/ HasItems(r.job)
      BY <1>1, <2>1, <2>2 DEF Place
    <3>3. s.at = "save" => ~ LeadsOn(r.job)
      BY <3>1, <3>2 DEF LeadsOn, HasItems
    <3>4. QED
      BY <1>2, <2>1, <3>1, <3>3 DEF Prepared
  <2>3. QED
    BY <1>4, <1>16, <2>2 DEF Offered, Type
<1>17. CASE Link(w)
  <2>1. r.at = "link" /\ s.at = "save" /\ s.job = r.job /\ s.ok = r.ok /\ LinkTo(r) \in seen'
    BY <1>5, <1>17 DEF Link, At, EnqueueIfUnseen, LinkTo, Type, Subject
  <2>2. LinkTo(s) = LinkTo(r)
    BY <2>1 DEF LinkTo
  <2>3. QED
    BY <1>2, <2>1, <2>2 DEF Prepared
<1>18. CASE SaveActor(w) \/ SaveCollection(w) \/ SavePage(w) \/ Raise(w)
  BY <1>4, <1>18 DEF SaveActor, SaveCollection, SavePage, Raise, CutOff
<1>19. CASE StatusError(w)
  <2>1. s.at = "save" /\ s.ok = FALSE
    BY <1>1, <1>19 DEF StatusError, TaskRec
  <2>2. QED
    BY <2>1 DEF Prepared
<1>20. CASE Redeliver(w)
  BY <1>2, <1>4, <1>20 DEF Redeliver, CutOff
<1>21. CASE Push(w)
  <2>1. task' = task
    BY <1>21 DEF Push
  <2>2. QED
    BY <1>2, <2>1
<1>22. QED
  BY <1>6, <1>7, <1>8, <1>9, <1>10, <1>11, <1>12, <1>13, <1>14, <1>15, <1>16, <1>17, <1>18,
     <1>19, <1>20, <1>21 DEF Step, Handle

LEMMA PreparedStep ==
  ASSUME CrawlInv, AllPrepared, NEW w \in Workers, Step(w)
  PROVE  AllPrepared'
<1>1. SUFFICES ASSUME NEW u \in Workers PROVE Prepared(task'[u], nodes', Placed', seen')
  BY DEF AllPrepared
<1>2. CASE u = w
  BY <1>2, PreparedTask
<1>3. CASE u # w
  <2>1. task'[u] = task[u] /\ nodes \subseteq nodes' /\ Placed \subseteq Placed' /\ seen \subseteq seen'
    BY <1>3, StepGrows, PlacedStays DEF CrawlInv, Grows
  <2>2. QED
    BY <2>1, PreparedStays DEF AllPrepared
<1>4. QED
  BY <1>2, <1>3

LEMMA InReachStep ==
  ASSUME CrawlInv, InReach, NEW w \in Workers, Step(w)
  PROVE  InReach'
<1> DEFINE r == task[w]
<1>1. /\ Place(r) /\ Progress(r, nodes, edges, seen, Followed) /\ nodes \subseteq Within[MaxDepth]
      /\ r.at # "idle" => JobOK(r.job)
  <2>1. Place(r) /\ Progress(r, nodes, edges, seen, Followed)
    BY DEF CrawlInv, TasksOK
  <2>2. QED
    BY <2>1 DEF Place, InReach
<1>2. \A d \in 0 .. MaxDepth : Within[d] \subseteq Within[MaxDepth]
  <2>1. \A d \in 0 .. MaxDepth : MaxDepth \in d .. MaxDepth
    BY WebAssumption
  <2>2. QED
    BY <2>1, WithinGrows
<1>3. CASE Resolve(w) \/ EnsureNodes(w)
  <2>1. JobOK(r.job) /\ (Type(w) = "webfinger" \/ HasItems(r.job)) /\ nodes' = nodes \union Ids(w)
    BY <1>1, <1>3 DEF Resolve, EnsureNodes, At, Place, Type
  <2>2. Ids(w) \subseteq Within[MaxDepth]
    BY <1>2, <2>1, IdsLevel
  <2>3. nodes' \subseteq Within[MaxDepth]
    BY <1>1, <2>1, <2>2
  <2>4. actor' = actor /\ seen' = seen
    BY <1>3 DEF Resolve, EnsureNodes, dispatcher
  <2>5. QED
    BY <2>3, <2>4 DEF InReach, Followed
<1>4. CASE Check(w) \/ Mark(w) \/ FetchCollection(w)
  <2>1. \/ nodes' = nodes \union {Subject(w)} /\ r.at = "check"
        \/ nodes' = nodes \union {Owner[Coll(w)]} /\ (r.at = "mark" \/ r.job.type = "collection")
    BY <1>4 DEF Check, Mark, FetchCollection, At, Type
  <2>2. r.at # "idle" /\ JobOK(r.job) /\ r.job.depth \in 0 .. MaxDepth
    BY <1>1, <1>4 DEF Check, Mark, FetchCollection, At, JobOK, Jobs
  <2>3. r.at = "check" => Subject(w) \in Within[r.job.depth]
    BY <1>1, <2>2 DEF Place, JobOK, Subject
  <2>4. r.at = "mark" \/ r.job.type = "collection" => Owner[Coll(w)] \in Within[r.job.depth]
    <3>1. Coll(w) = CollOf(r.job)
      BY DEF Coll, CollOf, Type, Subject
    <3>2. QED
      BY <1>1, <2>2, <3>1 DEF Place, JobOK
  <2>5. nodes' \subseteq Within[MaxDepth]
    BY <1>1, <1>2, <2>1, <2>2, <2>3, <2>4
  <2>6. actor' = actor /\ seen' = seen
    BY <1>4 DEF Check, Mark, FetchCollection, dispatcher
  <2>7. QED
    BY <2>5, <2>6 DEF InReach, Followed
<1>5. CASE SaveActor(w)
  <2>1. Subject(w) \in seen /\ seen' = seen /\ nodes' = nodes
    BY <1>1, <1>5 DEF SaveActor, At, Progress, Subject, dispatcher
  <2>2. ASSUME NEW a \in Actors, a # Subject(w) PROVE actor'[a] = actor[a]
    BY <1>5, <2>2 DEF SaveActor, CrawlInv, TypeOK
  <2>3. ASSUME NEW a \in Actors, a # Subject(w), actor'[a].fetched PROVE a \in seen
    <3>1. actor[a].fetched
      BY <2>2, <2>3, Zenon
    <3>2. QED
      BY <3>1 DEF InReach, Followed
  <2>4. QED
    BY <1>1, <2>1, <2>3 DEF InReach, Followed
<1>6. CASE StampDepths(w)
  <2>1. seen' = seen /\ nodes' = nodes
    BY <1>6 DEF StampDepths, dispatcher
  <2>2. ASSUME NEW a \in Actors, actor'[a].fetched PROVE a \in seen
    <3>1. actor'[a].fetched = actor[a].fetched
      BY <1>6 DEF StampDepths, CrawlInv, TypeOK
    <3>2. actor[a].fetched
      BY <2>2, <3>1, Zenon
    <3>3. QED
      BY <3>2 DEF InReach, Followed
  <2>3. QED
    BY <1>1, <2>1, <2>2 DEF InReach, Followed
<1>7. CASE nodes' = nodes /\ actor' = actor
  <2>1. seen \subseteq seen'
    BY StepGrows DEF CrawlInv, Grows
  <2>2. QED
    BY <1>7, <2>1 DEF InReach, Followed
<1>8. QED
  BY <1>3, <1>4, <1>5, <1>6, <1>7
     DEF Step, Handle, Take, FetchActor, FetchPage, EnsureEdges, ReadDepths,
       ReadDates, Offer, Offered, Link, Push, SaveCollection, SavePage,
       StatusError, Raise, Redeliver, CutOff, graph

LEMMA CrewStep ==
  ASSUME CrawlInv, CrewWorks, NEW w \in Workers, Step(w)
  PROVE  /\ CrewWorks'
         /\ w \in crew'
<1>1. w \in crew'
  <2>1. CASE Take(w)
    BY <2>1, PastStep
  <2>2. CASE task[w].at # "idle"
    BY <2>2, PastStep DEF CrewWorks
  <2>3. task[w].at # "idle" \/ Take(w)
    <3>1. Push(w) => task[w].at # "idle"
      BY DEF CrawlInv, HalvesOK, Push
    <3>2. QED
      BY <3>1
         DEF Step, Handle, Resolve, Check, Mark, FetchActor, FetchCollection, FetchPage,
           EnsureNodes, EnsureEdges, ReadDepths, StampDepths, ReadDates, Offer, Offered, Link,
           SaveActor, SaveCollection, SavePage, StatusError, Raise, Redeliver, At
  <2>4. QED
    BY <2>1, <2>2, <2>3
<1>2. CrewWorks'
  BY <1>1, StepGrows, PastStep DEF CrawlInv, Grows, CrewWorks
<1>3. QED
  BY <1>1, <1>2

LEMMA NoRefusalsStep ==
  ASSUME CrawlInv, AllAnswered, NoRefusals, NEW w \in Workers, Step(w)
  PROVE  NoRefusals'
<1>1. SUFFICES ASSUME "status" \notin met', NEW a \in Actors PROVE ~ actor'[a].refused
  BY Zenon DEF NoRefusals
<1>2. task[w].ok /\ ~ actor[a].refused
  BY <1>1, PastStep, Zenon DEF AllAnswered, NoRefusals
<1>3. actor \in [Actors -> [depth : -1 .. MaxDepth, fetched : BOOLEAN, refused : BOOLEAN]]
  BY DEF CrawlInv, TypeOK
<1>4. CASE SaveActor(w) /\ a = Subject(w)
  <2>1. actor'[a].refused = ~ task[w].ok
    BY <1>3, <1>4 DEF SaveActor
  <2>2. QED
    BY <1>2, <2>1, Zenon
<1>5. CASE StampDepths(w)
  <2>1. actor'[a].refused = actor[a].refused
    BY <1>3, <1>5 DEF StampDepths
  <2>2. QED
    BY <1>2, <2>1, Zenon
<1>6. CASE actor' = actor \/ (SaveActor(w) /\ a # Subject(w))
  <2>1. actor'[a] = actor[a]
    BY <1>3, <1>6 DEF SaveActor
  <2>2. QED
    BY <1>2, <2>1, Zenon
<1>7. StampDepths(w) \/ SaveActor(w) \/ actor' = actor
  BY DEF Step, Handle, Take, Resolve, Check, Mark, FetchActor, FetchCollection, FetchPage,
       EnsureNodes, EnsureEdges, ReadDepths, ReadDates, Offer, Offered, Link, Push,
       SaveCollection, SavePage, StatusError, Raise, Redeliver, CutOff, EnqueueIfUnseen, graph, dispatcher
<1>8. QED
  BY <1>4, <1>5, <1>6, <1>7

LEMMA NoFailuresStep ==
  ASSUME CrawlInv, NoFailures, NEW w \in Workers, Step(w)
  PROVE  NoFailures'
<1>1. SUFFICES ASSUME "raise" \notin met' PROVE failed' = {}
  BY DEF NoFailures
<1>2. ~ Raise(w) /\ failed = {}
  BY <1>1, PastStep DEF NoFailures
<1>3. failed' = failed
  BY <1>2 DEF Step, Handle, Take, Resolve, Check, Mark, FetchActor, FetchCollection, FetchPage,
       EnsureNodes, EnsureEdges, ReadDepths, StampDepths, ReadDates, Offer, Offered, Link, Push,
       SaveActor, SaveCollection, SavePage, StatusError, Redeliver, EnqueueIfUnseen, dispatcher
<1>4. QED
  BY <1>2, <1>3

\* A job that is not known any more has just been handled.
LEMMA JobLeaves ==
  ASSUME CrawlInv, NEW w \in Workers, Step(w), NEW j \in KnownJobs, j \notin KnownJobs'
  PROVE  /\ task[w].at # "idle" /\ j = task[w].job /\ JobOK(j)
         /\ \/ j.type = "actor"
            \/ task[w].at = "offer" /\ task[w].todo = {} /\ j.type = "webfinger"
            \/ task[w].at = "save"
<1> DEFINE r == task[w]
           s == task'[w]
<1>1. \A u \in Workers : u # w => task'[u] = task[u]
  BY StepGrows DEF CrawlInv, Grows
<1>2. s.at # "idle" => s.job \in KnownJobs'
  BY DEF KnownJobs, InHand
<1>3. j \notin Held' /\ j \notin queue' /\ j \notin failed'
  BY DEF KnownJobs, Held
<1>4. j \notin Held
  <2>1. SUFFICES ASSUME j \in Held PROVE FALSE
    OBVIOUS
  <2>2. j \in Held' \/ (j = s.job /\ s.at # "idle")
    BY <2>1, HeldOrTaken
  <2>3. QED
    BY <1>2, <1>3, <2>2
<1>5. PICK u \in Workers : task[u].at # "idle" /\ j = task[u].job
  BY <1>4 DEF KnownJobs, InHand
<1>6. u = w
  <2>1. SUFFICES ASSUME u # w PROVE FALSE
    OBVIOUS
  <2>2. task'[u].at # "idle" /\ j = task'[u].job
    BY <1>1, <1>5, <2>1
  <2>3. QED
    BY <2>2 DEF KnownJobs, InHand
<1>7. r.at # "idle" /\ j = r.job /\ JobOK(j)
  BY <1>5, <1>6 DEF CrawlInv, TasksOK, Place
<1>8. ~ (s.at # "idle" /\ s.job = r.job)
  BY <1>2, <1>7
<1>9. \/ j.type = "actor"
      \/ r.at = "offer" /\ r.todo = {} /\ j.type = "webfinger"
      \/ r.at = "save"
  BY <1>3, <1>7, <1>8, HandStep
<1>10. QED
  BY <1>7, <1>9

LEMMA RankIs ==
  ASSUME Shallow, NEW j \in Jobs
  PROVE  /\ j.depth \in Int /\ j.type \in Types
         /\ Rank(j) = 4 * j.depth + (IF j.type = "webfinger" THEN 0 ELSE IF j.type = "actor" THEN 1
                                     ELSE IF j.type = "collection" THEN 2 ELSE 3)
<1>1. j.depth \in Int /\ j.type \in Types
  BY WebAssumption DEF Jobs
<1>2. Digits(j.depth) = j.depth
  BY WebAssumption DEF Jobs, Digits, Shallow
<1>3. QED
  BY <1>1, <1>2 DEF Rank, Types

\* The actors that have been fetched, with all that the handlers leave of them.
Explored == Reached \intersect {a \in Actors : actor[a].fetched}

\* When nothing is left in hand or in the queue up to some depth, the actors at that
\* distance are explored: the nearest that was not would have been listed by one that was.
LEMMA LevelsExplored ==
  ASSUME CrawlInv, SeenActors, NoRefusals, Handled, Calm, failed = {},
         NEW d \in 0 .. MaxDepth,
         \A j \in KnownJobs : /\ JobNearest(j) /\ j.depth \in Nat
                              /\ j.type # "webfinger" /\ d <= j.depth
                              /\ j.type = "actor" => d < j.depth
  PROVE  \A k \in 0 .. d : Within[k] \subseteq Explored
<1> DEFINE T == {k \in 0 .. d : ~ (Within[k] \subseteq Explored)}
<1>1. MaxDepth \in Nat /\ d \in Nat
  BY WebAssumption
<1>2. SUFFICES ASSUME T # {} PROVE FALSE
  OBVIOUS
<1>3. PICK k \in T : \A n \in T : k <= n
  <2>1. T \in SUBSET Nat
    BY <1>1
  <2> HIDE DEF T
  <2>2. QED
    BY <1>2, <2>1, LeastNatural
<1>4. k \in 0 .. d /\ k \in 0 .. MaxDepth /\ k \in Nat
  BY <1>1, <1>3
<1>5. PICK a \in Within[k] : a \notin Explored
  BY <1>3
<1>6. ~ \E f \in Webfingers : KnownAs("webfinger", f)
  BY DEF KnownAs
<1>7. ASSUME NEW b \in Reached, b \in Within[k]
      PROVE  b \in Explored
  <2>1. b \in seen \intersect Actors
    BY <1>7 DEF Reached, Placed
  <2>2. ASSUME NEW j \in KnownJobs, j.type = "actor", j.subject = b
        PROVE  FALSE
    <3>1. k < j.depth /\ Nearest(b, j.depth)
      BY <1>1, <1>4, <2>2 DEF JobNearest
    <3>2. QED
      BY <1>4, <1>7, <3>1 DEF Nearest
  <2>3. ~ actor[b].refused
    BY <2>1, Zenon DEF NoRefusals, Calm, Smooth
  <2>4. actor[b].fetched
    BY <2>1, <2>2, <2>3, Zenon DEF SeenActors
  <2>5. QED
    BY <1>7, <2>1, <2>4 DEF Explored
<1>8. a \notin Reached
  BY <1>5, <1>7
<1>9. k # 0
  <2>1. SUFFICES ASSUME k = 0 PROVE FALSE
    OBVIOUS
  <2>2. PICK f \in Webfingers : a = ActorOf[f]
    BY <1>5, <2>1, WithinSteps
  <2>3. QED
    BY <1>6, <1>8, <2>2 DEF Handled, SeedRead
<1>10. k - 1 \in 0 .. MaxDepth /\ k - 1 < MaxDepth /\ Within[k - 1] \subseteq Explored
  <2>1. k - 1 \in 0 .. d /\ k - 1 \notin T /\ k - 1 \in 0 .. MaxDepth /\ k - 1 < MaxDepth
    BY <1>1, <1>3, <1>4, <1>9
  <2>2. QED
    BY <2>1
<1>11. PICK b \in Within[k - 1], c \in Collections : c \in Shares[b] /\ a \in Lists(c)
  <2>1. a \in Within[k - 1] \union ListedBy(Within[k - 1])
    BY <1>4, <1>5, <1>9, WithinSteps
  <2>2. a \notin Within[k - 1] /\ Within[k - 1] \subseteq Actors
    BY <1>5, <1>10 DEF Explored
  <2>3. QED
    BY <2>1, <2>2, SharesAndOwner DEF ListedBy
<1>12. b \in Actors /\ Owner[c] = b /\ c \in seen
  <2>1. b \in Actors /\ actor[b].fetched
    BY <1>10 DEF Explored
  <2>2. Shares[b] \subseteq seen
    BY <2>1 DEF CrawlInv, FetchedIsFollowed
  <2>3. QED
    BY <1>11, <2>1, <2>2, SharesAndOwner
\* A job of the collection, or of one of its pages, would not have been the nearest.
<1>13. ASSUME NEW j \in KnownJobs, j.type \in {"collection", "page"}, CollOf(j) = c
       PROVE  FALSE
  <2>1. k - 1 < j.depth /\ Nearest(b, j.depth)
    BY <1>1, <1>4, <1>12, <1>13 DEF JobNearest
  <2>2. QED
    BY <1>10, <2>1 DEF Nearest
<1>14. CollectionRead(c)
  <2>1. ~ KnownAs("collection", c)
    BY <1>13 DEF KnownAs, CollOf
  <2>2. QED
    BY <1>12, <2>1 DEF Handled
<1>15. /\ Declared[c] = "first" /\ First[c] \in Pages => First[c] \in seen
       /\ Declared[c] = "items" => Members[c] \subseteq Reached
  BY <1>10, <1>12, <1>14 DEF CollectionRead
<1>16. ASSUME NEW p \in seen \intersect Pages, Walk[p] = c
       PROVE  PageFollowed(p)
  <2>1. ~ KnownAs("page", p)
    BY <1>13, <1>16 DEF KnownAs, CollOf
  <2>2. QED
    BY <2>1 DEF Handled
<1>17. CASE Declared[c] = "empty"
  BY <1>11, <1>17 DEF Lists
<1>18. CASE Declared[c] = "items"
  <2>1. Lists(c) = Members[c]
    BY <1>18 DEF Lists
  <2>2. QED
    BY <1>8, <1>11, <1>15, <1>18, <2>1
<1>19. CASE Declared[c] = "first"
  <2> DEFINE S == {p \in seen \intersect Pages : Walk[p] = c}
  <2>1. First[c] \in Pages => First[c] \in S
    BY <1>12, <1>15, <1>19, WalksStay
  <2>2. ASSUME NEW q \in S \intersect WithItems, Next[q] \in Pages
        PROVE  Next[q] \in S
    <3>1. Next[q] \in seen
      BY <1>16, <2>2 DEF PageFollowed
    <3>2. Walk[Next[q]] = c
      BY <2>2, WalksStay
    <3>3. QED
      BY <2>2, <3>1, <3>2
  <2>3. {q \in Pages : Walk[q] = c} \subseteq S
    <3>1. S \in SUBSET Pages
      OBVIOUS
    <3> HIDE DEF S
    <3>2. QED
      BY <1>12, <2>1, <2>2, <3>1, WholeWalk
  <2>4. Lists(c) = UNION {Members[p] : p \in {q \in Pages : Walk[q] = c}}
    BY <1>19 DEF Lists
  <2>5. PICK p \in S : a \in Members[p]
    BY <1>11, <2>3, <2>4
  <2>6. QED
    BY <1>8, <1>16, <2>5 DEF PageFollowed
<1>20. Declared[c] \in {"empty", "first", "items"}
  BY <1>12, WebAssumption
<1>21. QED
  BY <1>17, <1>18, <1>19, <1>20

\* Who has worked and what has happened is not forgotten.
LEMMA SoloBefore ==
  ASSUME CrawlInv, CrewWorks, NoFailures, NEW w \in Workers, Step(w), Calm'
  PROVE  /\ Calm /\ failed = {} /\ failed' = {}
         /\ \A u \in Workers : u # w => task[u].at = "idle" /\ task'[u].at = "idle"
<1>1. PICK x \in Workers : crew' \subseteq {x}
  BY DEF Calm, Alone
<1>2. crew \subseteq crew' /\ met \subseteq met' /\ lost \subseteq lost' /\ w \in crew' /\ CrewWorks'
  BY PastStep, CrewStep, HeldStays DEF CrawlInv
<1>3. Calm
  BY <1>1, <1>2 DEF Calm, Alone, Smooth
<1>4. failed = {} /\ failed' = {}
  BY <1>3, NoFailuresStep DEF NoFailures, Calm, Smooth
<1>5. QED
  BY <1>1, <1>2, <1>3, <1>4 DEF CrewWorks

\* The actors that a handler is done with are reached.
LEMMA ItemsReached ==
  ASSUME CrawlInv, InReach, AllPrepared, NEW w \in Workers, task[w].ok,
         \/ task[w].at = "save"
         \/ task[w].at = "offer" /\ task[w].todo = {} /\ task[w].job.type = "webfinger"
  PROVE  ItemsOf(task[w].job) \subseteq Reached
<1> DEFINE r == task[w]
<1>1. Place(r) /\ Progress(r, nodes, edges, seen, Followed) /\ Followed \subseteq seen
      /\ Prepared(r, nodes, Placed, seen) /\ JobOK(r.job) /\ r.job.type \in Types
  <2>1. Place(r) /\ Progress(r, nodes, edges, seen, Followed) /\ Followed \subseteq seen
        /\ Prepared(r, nodes, Placed, seen)
    BY DEF CrawlInv, TasksOK, InReach, AllPrepared
  <2>2. QED
    BY <2>1 DEF Place, JobOK, Jobs
<1>2. ItemsOf(r.job) \subseteq Placed
  BY <1>1 DEF Prepared
<1>3. CASE r.at = "offer"
  <2>1. Offers(r) = {}
    BY <1>3 DEF Offers
  <2>2. ActorOf[r.job.subject] \in nodes /\ ActorOf[r.job.subject] \in seen
    BY <1>1, <1>3, <2>1 DEF Progress, Prepared
  <2>3. ItemsOf(r.job) = {ActorOf[r.job.subject]}
    BY <1>3 DEF ItemsOf
  <2>4. QED
    BY <1>2, <2>2, <2>3 DEF Reached
<1>4. CASE r.at = "save" /\ HasItems(r.job)
  <2>1. ItemsOf(r.job) = Members[r.job.subject]
    BY <1>4 DEF ItemsOf, HasItems
  <2>2. Members[r.job.subject] \subseteq nodes /\ Members[r.job.subject] \subseteq seen
    BY <1>1, <1>4 DEF Progress, Written
  <2>3. QED
    BY <1>2, <2>1, <2>2 DEF Reached
<1>5. CASE r.at = "save" /\ ~ HasItems(r.job)
  <2>1. ItemsOf(r.job) = {}
    BY <1>1, <1>5 DEF ItemsOf, Place
  <2>2. QED
    BY <2>1
<1>6. QED
  BY <1>3, <1>4, <1>5

LEMMA ReachedStays ==
  ASSUME CrawlInv, NEW w \in Workers, Step(w)
  PROVE  /\ Reached \subseteq Reached'
         /\ \A c : CollectionRead(c) => CollectionRead(c)'
         /\ \A p : PageFollowed(p) => PageFollowed(p)'
<1>1. Reached \subseteq Reached' /\ seen \subseteq seen'
  BY StepGrows, PlacedStays DEF CrawlInv, Grows, Reached
<1>2. QED
  BY <1>1 DEF CollectionRead, PageFollowed

\* Something seen for the first time is half offered.
LEMMA NewKnown ==
  ASSUME CrawlInv, NEW w \in Workers, Step(w), NEW x \in seen', x \notin seen
  PROVE  \E j \in KnownJobs' : x = j.subject /\ JobOK(j) /\ j.type \in {"actor", "collection", "page"}
<1> DEFINE r == task[w]
<1>1. Place(r)
  BY DEF CrawlInv, TasksOK
<1>2. CASE r.at = "offer" /\ \E j \in r.todo : x = j.subject /\ j \in Halves'
  BY <1>1, <1>2 DEF Place, KnownJobs, Held
<1>3. CASE r.at = "link" /\ x = LinkTo(r) /\ LinkedJob(r) \in Halves'
  <2>1. JobOK(LinkedJob(r))
    BY <1>1, <1>3, LinkJob DEF LinkedJob, LinkTo
  <2>2. LinkedJob(r).subject = x /\ LinkedJob(r).type = "page" /\ LinkedJob(r) \in KnownJobs'
    BY <1>3 DEF LinkedJob, KnownJobs, Held
  <2>3. QED
    BY <2>1, <2>2
<1>4. TypeOK
  BY DEF CrawlInv
<1>5. QED
  BY <1>2, <1>3, <1>4, NewJobs

LEMMA HandledStep ==
  ASSUME CrawlInv, AllAnswered, InReach, AllPrepared, CrewWorks, NoFailures, Handled, ByDistance,
         NEW w \in Workers, Step(w)
  PROVE  Handled'
<1> DEFINE r == task[w]
<1>1. SUFFICES ASSUME Calm'
               PROVE  /\ \A f \in Webfingers : KnownAs("webfinger", f)' \/ SeedRead(f)'
                      /\ \A c \in seen' \intersect Collections :
                            KnownAs("collection", c)' \/ CollectionRead(c)'
                      /\ \A p \in seen' \intersect Pages : KnownAs("page", p)' \/ PageFollowed(p)'
  BY DEF Handled
<1>2. Calm /\ r.ok
  <2>1. Calm
    BY <1>1, SoloBefore
  <2>2. r.ok
    BY <2>1, Zenon DEF AllAnswered, Calm, Smooth
  <2>3. QED
    BY <2>1, <2>2
<1>3. /\ Reached \subseteq Reached' /\ seen \subseteq seen'
      /\ \A c : CollectionRead(c) => CollectionRead(c)'
      /\ \A p : PageFollowed(p) => PageFollowed(p)'
  BY ReachedStays, StepGrows DEF CrawlInv, Grows
<1>4. Place(r) /\ Prepared(r, nodes, Placed, seen) /\ TaskNearest(r, Waiting)
  BY <1>2 DEF CrawlInv, TasksOK, AllPrepared, ByDistance
<1>5. ASSUME NEW f \in Webfingers
      PROVE  KnownAs("webfinger", f)' \/ SeedRead(f)'
  <2>1. CASE SeedRead(f)
    BY <1>3, <2>1 DEF SeedRead
  <2>2. ASSUME NEW j \in KnownJobs, j.type = "webfinger", j.subject = f, j \notin KnownJobs'
        PROVE  SeedRead(f)'
    <3>1. /\ r.at # "idle" /\ j = r.job
          /\ (r.at = "offer" /\ r.todo = {}) \/ r.at = "save"
      BY <2>2, JobLeaves
    <3>2. r.at = "offer" /\ r.todo = {}
      BY <1>4, <2>2, <3>1 DEF Place
    <3>3. ItemsOf(r.job) \subseteq Reached
      BY <1>2, <2>2, <3>1, <3>2, ItemsReached
    <3>4. ActorOf[f] \in Reached
      BY <2>2, <3>1, <3>3 DEF ItemsOf
    <3>5. QED
      BY <1>3, <3>4 DEF SeedRead
  <2>3. KnownAs("webfinger", f) \/ SeedRead(f)
    BY <1>2 DEF Handled
  <2>4. QED
    BY <2>1, <2>2, <2>3 DEF KnownAs
<1>6. ASSUME NEW c \in seen' \intersect Collections
      PROVE  KnownAs("collection", c)' \/ CollectionRead(c)'
  <2>1. CASE c \notin seen
    <3>1. PICK j \in KnownJobs' : c = j.subject /\ JobOK(j) /\ j.type \in {"actor", "collection", "page"}
      BY <2>1, NewKnown
    <3>2. j.type = "collection"
      BY <3>1, Apart DEF JobOK
    <3>3. QED
      BY <3>1, <3>2 DEF KnownAs
  <2>2. CASE CollectionRead(c)
    BY <1>3, <2>2
  <2>3. ASSUME NEW j \in KnownJobs, j.type = "collection", j.subject = c, j \notin KnownJobs'
        PROVE  CollectionRead(c)
    <3>1. r.at = "save" /\ j = r.job /\ JobOK(j)
      BY <2>3, JobLeaves
    <3>2. SUFFICES ASSUME NEW n \in 0 .. MaxDepth, n < MaxDepth, Owner[c] \in Within[n]
                   PROVE  /\ Declared[c] = "first" /\ First[c] \in Pages => First[c] \in seen
                          /\ Declared[c] = "items" => Members[c] \subseteq Reached
      BY DEF CollectionRead
    <3>3. j.depth < MaxDepth
      <4>1. Nearest(Owner[c], j.depth)
        BY <1>4, <2>3, <3>1 DEF TaskNearest, JobNearest, CollOf
      <4>2. ~ (n < j.depth) /\ j.depth \in Int /\ MaxDepth \in Nat
        BY <3>1, <3>2, <4>1, WebAssumption DEF Nearest, JobOK, Jobs
      <4>3. QED
        BY <3>2, <4>2
    <3>4. Declared[c] = "first" /\ First[c] \in Pages => First[c] \in seen
      <4>1. SUFFICES ASSUME Declared[c] = "first", First[c] \in Pages PROVE First[c] \in seen
        OBVIOUS
      <4>2. LeadsOn(j) /\ LinkTo(r) = First[c]
        BY <2>3, <3>1, <3>3, <4>1 DEF LeadsOn, LinkTo
      <4>3. QED
        BY <1>2, <1>4, <3>1, <4>2 DEF Prepared
    <3>5. Declared[c] = "items" => Members[c] \subseteq Reached
      <4>1. SUFFICES ASSUME Declared[c] = "items", Members[c] # {} PROVE Members[c] \subseteq Reached
        OBVIOUS
      <4>2. HasItems(j) /\ ItemsOf(j) = Members[c]
        BY <1>6, <2>3, <3>3, <4>1, WebAssumption DEF HasItems, ItemsOf
      <4>3. QED
        BY <1>2, <3>1, <4>2, ItemsReached
    <3>6. QED
      BY <3>4, <3>5
  <2>4. c \in seen => KnownAs("collection", c) \/ CollectionRead(c)
    BY <1>2, <1>6 DEF Handled
  <2>5. QED
    BY <1>3, <2>1, <2>2, <2>3, <2>4 DEF KnownAs
<1>7. ASSUME NEW p \in seen' \intersect Pages
      PROVE  KnownAs("page", p)' \/ PageFollowed(p)'
  <2>1. CASE p \notin seen
    <3>1. PICK j \in KnownJobs' : p = j.subject /\ JobOK(j) /\ j.type \in {"actor", "collection", "page"}
      BY <2>1, NewKnown
    <3>2. j.type = "page"
      BY <3>1, Apart DEF JobOK
    <3>3. QED
      BY <3>1, <3>2 DEF KnownAs
  <2>2. CASE PageFollowed(p)
    BY <1>3, <2>2
  <2>3. ASSUME NEW j \in KnownJobs, j.type = "page", j.subject = p, j \notin KnownJobs'
        PROVE  PageFollowed(p)
    <3>1. r.at = "save" /\ j = r.job
      BY <2>3, JobLeaves
    <3>2. p \in WithItems => HasItems(j) /\ ItemsOf(j) = Members[p]
      BY <2>3 DEF HasItems, ItemsOf
    <3>3. Members[p] \subseteq Reached
      BY <1>2, <1>7, <3>1, <3>2, ItemsReached, WebAssumption
    <3>4. p \in WithItems /\ Next[p] \in Pages => LeadsOn(j) /\ LinkTo(r) = Next[p]
      BY <2>3, <3>1, <3>2 DEF LeadsOn, LinkTo
    <3>5. QED
      BY <1>2, <1>4, <3>1, <3>3, <3>4 DEF PageFollowed, Prepared
  <2>4. p \in seen => KnownAs("page", p) \/ PageFollowed(p)
    BY <1>2, <1>7 DEF Handled
  <2>5. QED
    BY <1>3, <2>1, <2>2, <2>3, <2>4 DEF KnownAs
<1>8. QED
  BY <1>5, <1>6, <1>7

\* While a collection or a page is handled nothing nearer is left: who is not explored
\* is further than the level of the job.
LEMMA BeyondLevel ==
  ASSUME Shallow, TraceInv, NoRefusals, Handled, ByDistance, Calm, failed = {},
         NEW w \in Workers, \A u \in Workers : u # w => task[u].at = "idle",
         task[w].at # "idle", Type(w) = "webfinger" \/ HasItems(task[w].job),
         NEW a, a \notin Explored
  PROVE  Nearest(a, LevelOf(task[w].job))
<1> DEFINE r == task[w]
           d == r.job.depth
<1>1. JobOK(r.job) /\ TaskNearest(r, Waiting) /\ Waiting \subseteq Jobs /\ r.job \in Jobs
  BY DEF TraceInv, CrawlInv, TasksOK, Place, ByDistance, JobsOK, Held, Waiting, JobOK
<1>2. CASE Type(w) = "webfinger"
  <2>1. LevelOf(r.job) = 0
    BY <1>2 DEF LevelOf, Type
  <2>2. QED
    BY <2>1, WebAssumption DEF Nearest
<1>3. CASE HasItems(r.job)
  <2>1. r.job.type \in {"page", "collection"} /\ LevelOf(r.job) = d + 1
    BY <1>3 DEF HasItems, LevelOf
  <2>2. d \in 0 .. MaxDepth /\ MaxDepth \in Nat
    BY <1>1, WebAssumption DEF Jobs
  <2>3. KnownJobs \subseteq Waiting \union {r.job}
    BY DEF KnownJobs, Held, Waiting, InHand, Calm
  <2>4. ASSUME NEW j \in KnownJobs
        PROVE  /\ JobNearest(j) /\ j.depth \in Nat
               /\ j.type # "webfinger" /\ d <= j.depth
               /\ j.type = "actor" => d < j.depth
    <3>1. j \in Jobs /\ JobNearest(j) /\ Rank(r.job) <= Rank(j)
      <4>1. CASE j = r.job
        <5>1. Rank(r.job) \in Int
          BY <1>1, RankIs
        <5>2. QED
          BY <1>1, <4>1, <5>1 DEF TaskNearest
      <4>2. CASE j \in Waiting
        BY <1>1, <4>2 DEF TaskNearest, ByDistance
      <4>3. QED
        BY <2>3, <4>1, <4>2
    <3>2. j.depth \in Nat /\ j.type \in Types
      BY <3>1 DEF Jobs
    <3>3. 4 * d + 2 <= Rank(j)
      BY <1>1, <2>1, <2>2, <3>1, RankIs
    <3>4. Rank(j) = 4 * j.depth + (IF j.type = "webfinger" THEN 0 ELSE IF j.type = "actor" THEN 1
                                   ELSE IF j.type = "collection" THEN 2 ELSE 3)
      BY <3>1, RankIs
    <3>5. j.type # "webfinger"
      <4>1. SUFFICES ASSUME j.type = "webfinger" PROVE FALSE
        OBVIOUS
      <4>2. j.depth = 0 /\ Rank(j) = 0
        BY <3>1, <3>4, <4>1 DEF JobNearest
      <4>3. QED
        BY <2>2, <3>3, <4>2
    <3>6. d <= j.depth /\ (j.type = "actor" => d < j.depth)
      BY <2>2, <3>2, <3>3, <3>4
    <3>7. QED
      BY <3>1, <3>2, <3>5, <3>6
  <2>5. \A k \in 0 .. d : Within[k] \subseteq Explored
    <3> HIDE DEF d
    <3>1. QED
      BY <2>2, <2>4, LevelsExplored DEF TraceInv
  <2>6. QED
    BY <2>1, <2>2, <2>5 DEF Nearest
<1>4. QED
  BY <1>2, <1>3

\* The jobs that a handler offers are not nearer than its own, and are the nearest.
LEMMA OfferedNearest ==
  ASSUME Shallow, NEW w, JobOK(task[w].job), Type(w) = "webfinger" \/ HasItems(task[w].job),
         JobNearest(task[w].job), NEW k \in ActorJobs(w, Ids(w)),
         Nearest(k.subject, LevelOf(task[w].job))
  PROVE  JobNearest(k) /\ Rank(task[w].job) <= Rank(k)
<1> DEFINE j == task[w].job
<1>1. k.type = "actor" /\ k.depth = LevelOf(j)
  BY ItemsAreIds DEF ActorJobs
<1>2. JobOK(k) /\ k \in Jobs /\ j \in Jobs
  BY OfferedActors DEF JobOK
<1>3. JobNearest(k)
  BY <1>1 DEF JobNearest
<1>4. Rank(k) = 4 * k.depth + 1 /\ k.depth \in Int /\ j.depth \in Int
  BY <1>1, <1>2, RankIs
<1>5. CASE Type(w) = "webfinger"
  <2>1. j.depth = 0 /\ Rank(j) = 0 /\ k.depth = 0
    BY <1>1, <1>2, <1>5, RankIs DEF JobNearest, Type, LevelOf
  <2>2. QED
    BY <1>3, <1>4, <2>1
<1>6. CASE HasItems(j)
  <2>1. k.depth = j.depth + 1 /\ Rank(j) <= 4 * j.depth + 3
    BY <1>1, <1>2, <1>4, <1>6, RankIs DEF HasItems, LevelOf
  <2>2. Rank(j) \in Int
    BY <1>2, <1>4, RankIs
  <2>3. QED
    BY <1>3, <1>4, <2>1, <2>2
<1>7. QED
  BY <1>5, <1>6

LEMMA CollectionsNearest ==
  ASSUME Shallow, NEW j, JobOK(j), j.type = "actor", JobNearest(j),
         NEW k \in [type : {"collection"}, subject : Shares[j.subject], depth : {j.depth}]
  PROVE  JobNearest(k) /\ Rank(j) <= Rank(k)
<1>1. JobOK(k) /\ k.type = "collection" /\ k.subject \in Shares[j.subject] /\ k.depth = j.depth
  BY OfferedCollections
<1>2. k \in Jobs /\ j \in Jobs /\ j.subject \in Actors
  BY <1>1 DEF JobOK
<1>3. Owner[CollOf(k)] = j.subject
  BY <1>1, <1>2, SharesAndOwner DEF CollOf
<1>4. JobNearest(k)
  BY <1>1, <1>3 DEF JobNearest
<1>5. Rank(k) = 4 * k.depth + 2 /\ Rank(j) = 4 * j.depth + 1 /\ j.depth \in Int
  BY <1>1, <1>2, RankIs
<1>6. QED
  BY <1>1, <1>4, <1>5

LEMMA LinkNearest ==
  ASSUME Shallow, NEW r, Place(r), r.at = "link", JobNearest(r.job)
  PROVE  JobNearest(LinkedJob(r)) /\ Rank(r.job) <= Rank(LinkedJob(r))
<1> DEFINE k == LinkedJob(r)
           j == r.job
<1>1. k.type = "page" /\ k.depth = j.depth
  BY DEF LinkedJob
<1>2. JobOK(k) /\ CollOf(k) = CollOf(j) /\ j.type \in {"page", "collection"}
  BY LinkJob DEF LinkedJob, LinkTo
<1>3. k \in Jobs /\ j \in Jobs
  BY <1>2 DEF Place, JobOK
<1>4. JobNearest(k)
  BY <1>1, <1>2 DEF JobNearest
<1>5. Rank(k) = 4 * k.depth + 3 /\ Rank(j) <= 4 * j.depth + 3 /\ Rank(j) \in Int /\ j.depth \in Int
  <2>1. j.depth \in Int /\ (Rank(j) = 4 * j.depth + 2 \/ Rank(j) = 4 * j.depth + 3)
    BY <1>2, <1>3, RankIs
  <2>2. Rank(k) = 4 * k.depth + 3
    BY <1>1, <1>3, RankIs
  <2>3. QED
    BY <2>1, <2>2
<1>6. QED
  BY <1>1, <1>4, <1>5

\* Where the worker is after its step, its jobs are the nearest.
LEMMA NearestTask ==
  ASSUME Shallow, TraceInv, CrewWorks, NoRefusals, NoFailures, Handled, ByDistance,
         NEW w \in Workers, Step(w), Calm'
  PROVE  TaskNearest(task'[w], Waiting')
<1> DEFINE r == task[w]
           s == task'[w]
<1>1. /\ CrawlInv /\ Calm /\ failed = {} /\ failed' = {}
      /\ \A u \in Workers : u # w => task[u].at = "idle"
  BY SoloBefore DEF TraceInv
<1>2. /\ task \in [Workers -> TaskRec] /\ r \in TaskRec /\ Place(r) /\ TaskNearest(r, Waiting)
      /\ queue \subseteq Jobs /\ \A j \in Waiting : JobNearest(j)
  BY <1>1 DEF CrawlInv, TasksOK, TypeOK, TaskRec, ByDistance
<1>3. r.at # "idle" => /\ JobOK(r.job) /\ JobNearest(r.job) /\ Rank(r.job) \in Int
                       /\ \A k \in Waiting \union r.todo : Rank(r.job) <= Rank(k)
  BY <1>2, RankIs DEF Place, JobOK, TaskNearest
<1>4. r.at # "idle" => \A k \in Waiting' : Rank(r.job) <= Rank(k)
  <2>1. ASSUME r.at # "idle", NEW k \in Waiting' PROVE Rank(r.job) <= Rank(k)
    <3>1. \/ k \in Waiting \/ k = r.job
          \/ r.at = "offer" /\ k \in r.todo
          \/ r.at = "link" /\ k = LinkedJob(r)
      <4>1. lost = {} /\ failed = {} /\ TypeOK /\ half[w] \subseteq Halves
        BY <1>1 DEF Calm, CrawlInv, Halves
      <4>2. QED
        BY <2>1, <4>1, NewJobs DEF Waiting
    <3>2. r.at = "link" => Rank(r.job) <= Rank(LinkedJob(r))
      BY <1>2, <1>3, LinkNearest
    <3>3. QED
      BY <1>3, <2>1, <3>1, <3>2
  <2>2. QED
    BY <2>1
<1>5. ASSUME s.at = "idle" PROVE TaskNearest(s, Waiting')
  BY <1>5 DEF TaskNearest
<1>6. ASSUME Finish(w) PROVE TaskNearest(s, Waiting')
  <2>1. s.at = "idle"
    BY <1>2, <1>6 DEF Finish, Idle
  <2>2. QED
    BY <1>5, <2>1
<1>7. ASSUME NEW step, Goto(w, step)
      PROVE  s.at = step /\ s.job = r.job /\ s.todo = r.todo /\ s.blank = r.blank
  BY <1>2, <1>7 DEF Goto, TaskRec
\* A worker that keeps its job is still at the nearest one, if what it adds is not nearer.
<1>8. ASSUME r.at # "idle", s.job = r.job, s.at \notin {"stamp", "offer"},
             s.todo \subseteq r.todo
      PROVE  TaskNearest(s, Waiting')
  BY <1>3, <1>8, <1>4 DEF TaskNearest
<1>9. CASE Take(w)
  <2>1. PICK j \in queue :
           /\ \A k \in queue : Rank(j) <= Rank(k)
           /\ queue' = queue \ {j}
           /\ task' = [task EXCEPT ![w].job = j, ![w].at =
                         CASE j.type = "webfinger" -> "resolve" [] j.type = "actor" -> "check"
                           [] j.type = "collection" -> "fetch" [] j.type = "page" -> "mark"]
    BY <1>9 DEF Take
  <2>2. j.type \in Types /\ r.todo = {}
    BY <1>2, <1>9 DEF Jobs, Take, At, Place
  <2>3. s.job = j /\ s.at \in {"resolve", "check", "fetch", "mark"} /\ s.todo = {}
    BY <1>2, <2>1, <2>2 DEF TaskRec, Types
  <2>4. \A u \in Workers : half[u] = {} /\ half'[u] = {}
    BY <1>1, <1>9 DEF CrawlInv, HalvesOK, Take, At
  <2>5. Waiting = queue /\ Waiting' = queue'
    BY <2>4 DEF Waiting, Halves
  <2>6. QED
    BY <1>2, <2>1, <2>3, <2>5 DEF TaskNearest
<1>10. CASE Resolve(w) \/ Mark(w) \/ FetchCollection(w) \/ FetchPage(w) \/ EnsureNodes(w)
           \/ EnsureEdges(w) \/ StampDepths(w)
  <2>1. /\ r.at # "idle" /\ s.job = r.job /\ s.todo = r.todo
        /\ s.at \in {"depths", "fetch", "link", "nodes", "save", "edges", "dates"}
    BY <1>7, <1>10 DEF Resolve, Mark, FetchCollection, FetchPage, EnsureNodes, EnsureEdges,
         StampDepths, At
  <2>2. QED
    BY <1>8, <2>1
<1>11. CASE Check(w)
  <2>1. CASE Goto(w, "fetch")
    <3>1. r.at # "idle" /\ s.at = "fetch" /\ s.job = r.job /\ s.todo = r.todo
      BY <1>7, <1>11, <2>1 DEF Check, At
    <3>2. QED
      BY <1>8, <3>1
  <2>2. QED
    BY <1>6, <1>11, <2>1 DEF Check
<1>12. CASE FetchActor(w)
  <2>1. /\ r.at = "fetch" /\ s.at = "offer" /\ s.job = r.job /\ r.job.type = "actor"
        /\ s.todo = [type : {"collection"}, subject : Shares[r.job.subject], depth : {r.job.depth}]
    BY <1>2, <1>12 DEF FetchActor, At, Type, CollectionJobs, Subject, Depth, TaskRec
  <2>2. \A k \in s.todo : JobNearest(k) /\ Rank(r.job) <= Rank(k)
    BY <1>3, <2>1, CollectionsNearest
  <2>3. QED
    BY <1>3, <1>4, <2>1, <2>2 DEF TaskNearest
<1>13. CASE ReadDepths(w)
  <2>1. /\ r.at = "depths" /\ s.at = "stamp" /\ s.job = r.job /\ s.todo = r.todo
        /\ s.blank = {a \in Ids(w) : actor[a].depth = -1}
    BY <1>2, <1>13 DEF ReadDepths, At, TaskRec
  <2>2. Type(w) = "webfinger" \/ HasItems(r.job)
    BY <1>2, <2>1 DEF Place, Type
  <2>3. ASSUME NEW a \in s.blank PROVE Nearest(a, LevelOf(s.job))
    <3>1. a \notin Explored
      BY <2>1 DEF Explored, Reached, Placed
    <3>2. QED
      BY <1>1, <2>1, <2>2, <3>1, BeyondLevel
  <2>4. QED
    BY <1>3, <1>4, <2>1, <2>3 DEF TaskNearest
<1>14. CASE ReadDates(w)
  <2> DEFINE A == {a \in Ids(w) : ~actor[a].fetched}
  <2>1. /\ r.at = "dates" /\ s.at = "offer" /\ s.job = r.job
        /\ s.todo = ActorJobs(w, A)
    BY <1>2, <1>14 DEF ReadDates, At, TaskRec
  <2>2. Type(w) = "webfinger" \/ HasItems(r.job)
    BY <1>2, <2>1 DEF Place, Type
  <2>3. ASSUME NEW k \in s.todo PROVE JobNearest(k) /\ Rank(r.job) <= Rank(k)
    <3>1. k \in ActorJobs(w, Ids(w)) /\ k.subject \in A
      BY <2>1 DEF ActorJobs
    <3>2. k.subject \notin Explored
      BY <3>1, Zenon DEF Explored
    <3>3. Nearest(k.subject, LevelOf(r.job))
      BY <1>1, <2>1, <2>2, <3>2, BeyondLevel
    <3>4. QED
      BY <1>3, <2>1, <2>2, <3>1, <3>3, OfferedNearest
  <2>4. QED
    BY <1>3, <1>4, <2>1, <2>3 DEF TaskNearest
<1>15. CASE Offer(w)
  <2>1. PICK j \in r.todo : EnqueueIfUnseen(w, j) /\ task' = [task EXCEPT ![w].todo = @ \ {j}]
    BY <1>15 DEF Offer
  <2>2. r.at = "offer" /\ s.at = "offer" /\ s.job = r.job /\ s.todo \subseteq r.todo
    BY <1>2, <1>15, <2>1 DEF Offer, At, TaskRec
  <2>3. QED
    BY <1>2, <1>3, <1>4, <2>2 DEF TaskNearest
<1>16. CASE Offered(w)
  <2>1. CASE \E step \in {"link", "save"} : Goto(w, step)
    <3>1. /\ r.at = "offer" /\ s.job = r.job /\ s.todo = r.todo
          /\ s.at \in {"link", "save"}
      BY <1>7, <1>16, <2>1 DEF Offered, At
    <3>2. QED
      BY <1>8, <3>1
  <2>2. QED
    BY <1>6, <1>16, <2>1 DEF Offered
<1>17. CASE Link(w)
  <2>1. r.at = "link" /\ s.at = "save" /\ s.job = r.job /\ s.todo = r.todo
    BY <1>7, <1>17 DEF Link, At
  <2>2. QED
    BY <1>8, <2>1
<1>18. CASE SaveActor(w) \/ SaveCollection(w) \/ SavePage(w)
  BY <1>6, <1>18 DEF SaveActor, SaveCollection, SavePage
<1>19. CASE StatusError(w) \/ Raise(w)
  <2>1. "status" \in met' \/ "raise" \in met'
    BY <1>19, PastStep
  <2>2. QED
    BY <2>1 DEF Calm, Smooth
<1>20. CASE Redeliver(w)
  <2>1. CASE task' = task
    <3>1. r.at # "idle" /\ s = r
      BY <1>20, <2>1 DEF Redeliver
    <3>2. QED
      BY <1>2, <1>3, <1>4, <3>1 DEF TaskNearest
  <2>2. QED
    BY <1>6, <1>20, <2>1 DEF Redeliver, CutOff
<1>21. CASE Push(w)
  <2>1. r.at # "idle" /\ s = r
    BY <1>1, <1>21 DEF Push, CrawlInv, HalvesOK
  <2>2. QED
    BY <1>2, <1>3, <1>4, <2>1 DEF TaskNearest
<1>22. QED
  BY <1>9, <1>10, <1>11, <1>12, <1>13, <1>14, <1>15, <1>16, <1>17, <1>18, <1>19, <1>20, <1>21
     DEF Step, Handle

LEMMA ByDistanceStep ==
  ASSUME Shallow, TraceInv, CrewWorks, NoRefusals, NoFailures, Handled, ByDistance,
         NEW w \in Workers, Step(w)
  PROVE  ByDistance'
<1> DEFINE r == task[w]
<1>1. SUFFICES ASSUME Calm'
               PROVE  /\ \A a \in Actors : Nearest(a, actor'[a].depth)
                      /\ \A j \in Waiting' : JobNearest(j)
                      /\ \A u \in Workers : TaskNearest(task'[u], Waiting')
  BY DEF ByDistance
<1>2. /\ CrawlInv /\ Calm /\ failed = {} /\ failed' = {}
      /\ \A u \in Workers : u # w => task'[u].at = "idle"
  BY <1>1, SoloBefore DEF TraceInv
<1>3. /\ Place(r) /\ TaskNearest(r, Waiting)
      /\ \A j \in Waiting : JobNearest(j) /\ \A a \in Actors : Nearest(a, actor[a].depth)
  BY <1>2 DEF CrawlInv, TasksOK, ByDistance
<1>4. actor \in [Actors -> [depth : -1 .. MaxDepth, fetched : BOOLEAN, refused : BOOLEAN]]
  BY <1>2 DEF CrawlInv, TypeOK
<1>5. ASSUME NEW a \in Actors PROVE Nearest(a, actor'[a].depth)
  <2>1. Nearest(a, actor[a].depth)
    BY <1>2 DEF ByDistance
  <2>2. CASE StampDepths(w)
    <3>1. actor'[a].depth = IF a \in r.blank THEN Level(w) ELSE actor[a].depth
      BY <1>4, <2>2 DEF StampDepths
    <3>2. Level(w) = LevelOf(r.job) /\ r.at = "stamp"
      BY <2>2 DEF StampDepths, At, Level, LevelOf, Type, Depth
    <3>3. QED
      BY <1>3, <2>1, <3>1, <3>2 DEF TaskNearest
  <2>3. CASE SaveActor(w)
    <3>1. actor'[a].depth = IF a = Subject(w) THEN r.job.depth ELSE actor[a].depth
      BY <1>4, <2>3 DEF SaveActor, Depth
    <3>2. r.at # "idle" /\ r.job.type = "actor"
      BY <2>3 DEF SaveActor, At, Type
    <3>3. Nearest(Subject(w), r.job.depth)
      BY <1>3, <3>2 DEF TaskNearest, JobNearest, Subject
    <3>4. QED
      BY <2>1, <3>1, <3>3
  <2>4. CASE actor' = actor
    BY <2>1, <2>4
  <2>5. StampDepths(w) \/ SaveActor(w) \/ actor' = actor
    BY DEF Step, Handle, Take, Resolve, Check, Mark, FetchActor, FetchCollection, FetchPage,
       EnsureNodes, EnsureEdges, ReadDepths, ReadDates, Offer, Offered, Link, Push,
       SaveCollection, SavePage, StatusError, Raise, Redeliver, CutOff, EnqueueIfUnseen, graph, dispatcher
  <2>6. QED
    BY <2>2, <2>3, <2>4, <2>5
<1>6. ASSUME NEW j \in Waiting' PROVE JobNearest(j)
  <2>1. CASE j \in Waiting
    BY <1>3, <2>1
  <2>2. CASE r.at # "idle" /\ j = r.job
    BY <1>3, <2>2 DEF TaskNearest
  <2>3. CASE r.at = "offer" /\ j \in r.todo
    BY <1>3, <2>3 DEF TaskNearest
  <2>4. CASE r.at = "link" /\ j = LinkedJob(r)
    <3>1. JobNearest(r.job)
      BY <1>3, <2>4 DEF TaskNearest
    <3>2. QED
      BY <1>3, <2>4, <3>1, LinkNearest
  <2>5. lost = {} /\ TypeOK /\ half[w] \subseteq Halves
    BY <1>2 DEF Calm, CrawlInv, Halves
  <2>6. QED
    BY <1>2, <2>1, <2>2, <2>3, <2>4, <2>5, NewJobs DEF Waiting
<1>7. ASSUME NEW u \in Workers PROVE TaskNearest(task'[u], Waiting')
  <2>1. CASE u = w
    BY <1>1, <2>1, NearestTask
  <2>2. CASE u # w
    BY <1>2, <2>2 DEF TaskNearest
  <2>3. QED
    BY <2>1, <2>2
<1>8. QED
  BY <1>5, <1>6, <1>7

LEMMA BreadthInit == Init => BreadthInv
<1> SUFFICES ASSUME Init PROVE BreadthInv
  OBVIOUS
<1>1. /\ nodes = {} /\ seen = Webfingers /\ failed = {} /\ met = {} /\ crew = {}
      /\ queue = [type : {"webfinger"}, subject : Webfingers, depth : {0}]
      /\ \A w \in Workers : task[w] = Idle
      /\ \A a \in Actors : actor[a] = [depth |-> -1, fetched |-> FALSE, refused |-> FALSE]
  BY DEF Init
<1>2. Idle.at = "idle" /\ Idle.ok = TRUE
  BY DEF Idle
<1>3. TraceInv
  <2>1. SeenActors
    BY <1>1, Apart DEF SeenActors
  <2>2. NodesTraced
    BY <1>1 DEF NodesTraced
  <2>3. QED
    BY <2>1, <2>2, CrawlInit DEF TraceInv
<1>4. AllAnswered
  BY <1>1, <1>2, Zenon DEF AllAnswered
<1>5. InReach
  <2>1. \A a \in Actors : actor[a].fetched = FALSE
    BY <1>1
  <2>2. {a \in Actors : actor[a].fetched} = {}
    BY <2>1, Zenon
  <2>3. QED
    BY <1>1, <2>2 DEF InReach, Followed
<1>6. AllPrepared
  BY <1>1, <1>2 DEF AllPrepared, Prepared
<1>7. CrewWorks
  BY <1>1, <1>2 DEF CrewWorks
<1>8. NoRefusals
  <2>1. \A a \in Actors : actor[a].refused = FALSE
    BY <1>1
  <2>2. QED
    BY <2>1, Zenon DEF NoRefusals
<1>9. NoFailures
  BY <1>1 DEF NoFailures
<1>10. Handled
  <2>1. ASSUME NEW f \in Webfingers PROVE KnownAs("webfinger", f)
    <3>1. [type |-> "webfinger", subject |-> f, depth |-> 0] \in queue
      BY <1>1
    <3>2. QED
      BY <3>1 DEF KnownAs, KnownJobs, Held
  <2>2. seen \intersect Collections = {} /\ seen \intersect Pages = {}
    BY <1>1, Apart
  <2>3. QED
    BY <2>1, <2>2 DEF Handled
<1>11. ByDistance
  <2>5. Waiting = queue
    BY DEF Init, Waiting, Halves
  <2>1. \A a \in Actors : Nearest(a, actor[a].depth)
    BY <1>1, WebAssumption DEF Nearest
  <2>2. \A j \in queue : JobNearest(j)
    BY <1>1 DEF JobNearest
  <2>3. \A w \in Workers : TaskNearest(task[w], queue)
    BY <1>1, <1>2 DEF TaskNearest
  <2>4. QED
    BY <2>1, <2>2, <2>3, <2>5 DEF ByDistance
<1>12. QED
  BY <1>3, <1>4, <1>5, <1>6, <1>7, <1>8, <1>9, <1>10, <1>11 DEF BreadthInv

LEMMA BreadthStep ==
  ASSUME Shallow, BreadthInv, TraceInv', [CrawlNext]_vars
  PROVE  BreadthInv'
<1>1. CASE CrawlNext
  <2>1. PICK w \in Workers : Step(w)
    BY <1>1 DEF CrawlNext, Step
  <2>2. CrawlInv
    BY DEF BreadthInv, TraceInv
  <2>3. AllAnswered' /\ InReach' /\ AllPrepared' /\ CrewWorks' /\ NoRefusals' /\ NoFailures'
    BY <2>1, <2>2, AnsweredStep, InReachStep, PreparedStep, CrewStep, NoRefusalsStep, NoFailuresStep
       DEF BreadthInv
  <2>4. Handled' /\ ByDistance'
    BY <2>1, <2>2, HandledStep, ByDistanceStep DEF BreadthInv
  <2>5. QED
    BY <2>3, <2>4 DEF BreadthInv
<1>2. CASE UNCHANGED vars
  <2>1. nodes' = nodes /\ actor' = actor /\ queue' = queue /\ seen' = seen
        /\ failed' = failed /\ task' = task /\ met' = met /\ crew' = crew
        /\ half' = half /\ lost' = lost
    BY <1>2 DEF vars, graph, dispatcher, past
  <2>2. Followed' = Followed /\ Placed' = Placed /\ Reached' = Reached /\ KnownJobs' = KnownJobs
        /\ Waiting' = Waiting
    BY <2>1 DEF Followed, Placed, Reached, KnownJobs, Held, Halves, Waiting, InHand
  <2>3. AllAnswered' /\ NoRefusals'
    BY <2>1, Zenon DEF BreadthInv, AllAnswered, NoRefusals
  <2>4. InReach' /\ AllPrepared' /\ CrewWorks' /\ NoFailures'
    BY <2>1, <2>2 DEF BreadthInv, InReach, AllPrepared, CrewWorks, NoFailures
  <2>5. Calm' = Calm
    BY <2>1 DEF Calm, Alone, Smooth
  <2>6. Handled'
    BY <2>1, <2>2, <2>5 DEF BreadthInv, Handled, KnownAs, SeedRead, CollectionRead, PageFollowed
  <2>7. ByDistance'
    BY <2>1, <2>2, <2>5 DEF BreadthInv, ByDistance
  <2>8. QED
    BY <2>3, <2>4, <2>6, <2>7 DEF BreadthInv
<1>3. QED
  BY <1>1, <1>2

\* As long as one worker has worked and each of its jobs was answered, however often they
\* were delivered, and none was cut off between SADD and ZADD: it fixes no depth that is
\* too large, and when the crawl is at rest the nodes are those within max_depth, neither
\* more nor fewer.  The depth must fit into the two digits that the queue sorts by.
THEOREM OneWorkerGoesBreadthFirst == MaxDepth <= 99 /\ Spec => []BreadthFirst
<1> SUFFICES ASSUME Shallow PROVE Spec => []BreadthFirst
  BY DEF Shallow
<1>1. BreadthInv => BreadthFirst
  <2> SUFFICES ASSUME BreadthInv, Calm
               PROVE  /\ \A a \in Actors : \A k \in 0 .. actor[a].depth - 1 : a \notin Within[k]
                      /\ AtRest => nodes = Within[MaxDepth]
    BY DEF BreadthFirst, Calm
  <2>1. ASSUME NEW a \in Actors, NEW k \in 0 .. actor[a].depth - 1
        PROVE  a \notin Within[k]
    <3>1. actor[a].depth \in -1 .. MaxDepth /\ MaxDepth \in Nat
      BY WebAssumption DEF BreadthInv, TraceInv, CrawlInv, TypeOK
    <3>2. Nearest(a, actor[a].depth)
      BY DEF BreadthInv, ByDistance
    <3>3. k \in 0 .. MaxDepth /\ k < actor[a].depth
      BY <3>1
    <3>4. QED
      BY <3>2, <3>3 DEF Nearest
  <2>2. ASSUME AtRest PROVE nodes = Within[MaxDepth]
    <3>1. failed = {}
      BY DEF BreadthInv, NoFailures, Calm, Smooth
    <3>2. KnownJobs = {}
      BY <2>2, <3>1, KnownAtRest DEF Calm
    <3>3. MaxDepth \in 0 .. MaxDepth
      BY WebAssumption
    <3>4. \A k \in 0 .. MaxDepth : Within[k] \subseteq Explored
      BY <3>1, <3>2, <3>3, LevelsExplored DEF BreadthInv, TraceInv
    <3>5. Within[MaxDepth] \subseteq nodes
      BY <3>3, <3>4 DEF Explored, Reached
    <3>6. QED
      BY <3>5 DEF BreadthInv, InReach
  <2>3. QED
    BY <2>1, <2>2
<1>2. BreadthInv /\ TraceInv' /\ [CrawlNext]_vars => BreadthInv'
  BY BreadthStep
<1>3. QED
  BY TraceInvariant, BreadthInit, <1>1, <1>2, PTL DEF Spec
=============================================================================
