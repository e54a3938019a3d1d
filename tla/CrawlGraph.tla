----------------------------- MODULE CrawlGraph -----------------------------
(***************************************************************************)
(* What the handlers of pub_crawler write to the graph.  Workers of any     *)
(* number of pods handle jobs at the same time, each await on the graph and *)
(* each command of enqueue_if_unseen is one action, and a job may be        *)
(* delivered again while or after it is handled.  The queue is what         *)
(* CrawlQueue keeps: it hands out the least depth and type first.  The web  *)
(* stands still, and a URL is one subject of one type.                      *)
(***************************************************************************)
EXTENDS Integers

CONSTANTS
    Workers, Webfingers, Actors, Collections, Pages,
    ActorOf,      \* webfinger -> the actor it resolves to
    Shares,       \* actor -> collections its document links to
    Owner,        \* collection -> actor
    Direction,    \* collection -> "followers" or "following"
    Declared,     \* collection -> "empty" (totalItems is 0), "first" or "items"
    First,        \* collection -> its first page
    Next,         \* page -> next page, NoPage or BadLink
    Walk,         \* page -> collection
    WithItems,    \* pages and collections whose documents have items
    Members,      \* page or collection -> actors listed on it: its items that have an id
    NoPage,       \* the document has no such link
    BadLink,      \* the link is there and is not an id
    NoJob,        \* no job in hand
    MaxDepth,
    Mishaps,      \* what may go wrong: "status", "raise", "again"
    MaxMishaps    \* bound on it

Subjects == Webfingers \union Actors \union Collections \union Pages

\* Pages are those that a walk comes to: a page job hands its owner and direction
\* on to the job of the next page, and the walk ends at a page without items.
ASSUME WebAssumption ==
    /\ Webfingers \intersect (Actors \union Collections \union Pages) = {}
    /\ Actors \intersect (Collections \union Pages) = {} /\ Collections \intersect Pages = {}
    /\ NoPage \notin Pages
    /\ ActorOf \in [Webfingers -> Actors]
    /\ Shares \in [Actors -> SUBSET Collections]
    /\ Owner \in [Collections -> Actors]
    /\ \A a \in Actors : \A c \in Shares[a] : Owner[c] = a
    /\ Direction \in [Collections -> {"followers", "following"}]
    /\ Declared \in [Collections -> {"empty", "first", "items"}]
    /\ First \in [Collections -> Pages \union {NoPage, BadLink}]
    /\ Next \in [Pages -> Pages \union {NoPage, BadLink}]
    /\ Walk \in [Pages -> Collections]
    /\ \A c \in Collections : First[c] \in Pages => Walk[First[c]] = c
    /\ \A p \in Pages : Next[p] \in Pages => Walk[Next[p]] = Walk[p]
    /\ \A S \in SUBSET Pages :
          (/\ \A c \in Collections : First[c] \in Pages => First[c] \in S
           /\ \A p \in S \intersect WithItems : Next[p] \in Pages => Next[p] \in S)
          => S = Pages
    /\ Members \in [Pages \union Collections -> SUBSET Actors]
    /\ \A s \in Pages \union Collections : Members[s] # {} => s \in WithItems
    /\ MaxDepth \in Nat /\ MaxMishaps \in Nat
    /\ Mishaps \subseteq {"status", "raise", "again"}

VARIABLES
    nodes, edges,         \* the graph; an edge carries its from_{direction} flag
    actor,                \* actor -> depth, -1 for none; last_fetch_date; http_status
    coll,                 \* collection -> what the owner's {direction}_* properties say
    queue, seen, failed,  \* the dispatcher's
    half,                 \* worker -> the job whose id it has added to seen, not yet queued
    lost,                 \* history: such jobs of handlers that were cut off there
    task,                 \* worker -> what its handler is at
    mishaps, met, crew    \* how many there were, of which kinds; who has taken a job

graph == <<nodes, edges, actor, coll>>
dispatcher == <<queue, seen, failed, half, lost>>
past == <<mishaps, met, crew>>
vars == <<graph, dispatcher, task, past>>

Types == {"webfinger", "actor", "collection", "page"}
Jobs == [type : Types, subject : Subjects, depth : 0 .. MaxDepth]
Steps == {"idle", "resolve", "check", "mark", "fetch", "nodes", "edges",
          "depths", "stamp", "dates", "offer", "link", "save"}

TypeOK ==
    /\ nodes \subseteq Actors
    /\ edges \subseteq Actors \X Actors \X {"followers", "following"}
    /\ actor \in [Actors -> [depth : -1 .. MaxDepth, fetched : BOOLEAN, refused : BOOLEAN]]
    /\ coll \in [Collections -> [shared : {"unknown", "yes", "no"}, page : Pages \union {NoPage},
                                 status : Pages \union {NoPage}, complete : BOOLEAN,
                                 refused : SUBSET {"collection", "page"}]]
    /\ queue \subseteq Jobs /\ failed \subseteq Jobs /\ seen \subseteq Subjects
    /\ half \in [Workers -> SUBSET Jobs] /\ lost \subseteq Jobs
    /\ task \in [Workers -> [at : Steps, job : Jobs \union {NoJob}, todo : SUBSET Jobs,
                             blank : SUBSET Actors, ok : BOOLEAN]]
    /\ mishaps \in 0 .. MaxMishaps /\ met \subseteq Mishaps /\ crew \subseteq Workers

Idle == [at |-> "idle", job |-> NoJob, todo |-> {}, blank |-> {}, ok |-> TRUE]

Init ==
    /\ nodes = {} /\ edges = {}
    /\ actor = [a \in Actors |-> [depth |-> -1, fetched |-> FALSE, refused |-> FALSE]]
    /\ coll = [c \in Collections |->
                 [shared |-> "unknown", page |-> NoPage, status |-> NoPage, complete |-> FALSE,
                  refused |-> {}]]
    /\ queue = [type : {"webfinger"}, subject : Webfingers, depth : {0}]
    /\ seen = Webfingers /\ failed = {} /\ lost = {}
    /\ half = [w \in Workers |-> {}]
    /\ task = [w \in Workers |-> Idle]
    /\ mishaps = 0 /\ met = {} /\ crew = {}

-----------------------------------------------------------------------------
\* A handler goes on when what it offers is queued.
At(w, step) == task[w].at = step /\ half[w] = {}
Goto(w, step) == task' = [task EXCEPT ![w].at = step]
Finish(w) == task' = [task EXCEPT ![w] = Idle]
Type(w) == task[w].job.type
Subject(w) == task[w].job.subject
Depth(w) == task[w].job.depth

\* The collection a collection or page job is about.
Coll(w) == IF Type(w) = "page" THEN Walk[Subject(w)] ELSE Subject(w)

\* The actors a handler has come upon, and the depth it has found them at.
Ids(w) == IF Type(w) = "webfinger" THEN {ActorOf[Subject(w)]} ELSE Members[Subject(w)]
Level(w) == IF Type(w) = "webfinger" THEN 0 ELSE Depth(w) + 1

Edge(c, a) == IF Direction[c] = "followers" THEN <<a, Owner[c], Direction[c]>>
                                            ELSE <<Owner[c], a, Direction[c]>>

\* Mutant: no order by depth.
TypeFirst(j) == CASE j.type = "webfinger" -> 0 [] j.type = "actor" -> 1
                  [] j.type = "collection" -> 2 [] j.type = "page" -> 3

\* Depth first, up to the two digits it is written with; then webfinger < actor <
\* collection < page.
Digits(depth) == IF depth <= 99 THEN depth ELSE 99
Rank(j) == 4 * Digits(j.depth) + CASE j.type = "webfinger" -> 0 [] j.type = "actor" -> 1
                                   [] j.type = "collection" -> 2 [] j.type = "page" -> 3

\* Mutant: the job is queued again although its id has been seen.
EnqueueAlways(w, j) ==
    /\ seen' = seen \union {j.subject}
    /\ half' = [half EXCEPT ![w] = {j}]
    /\ UNCHANGED <<queue, failed, lost>>

\* SADD, which says whether the id is new: only then does the job go to the queue.
EnqueueIfUnseen(w, j) ==
    /\ seen' = seen \union {j.subject}
    /\ half' = IF j.subject \in seen THEN half ELSE [half EXCEPT ![w] = {j}]
    /\ UNCHANGED <<queue, failed, lost>>

\* ZADD
Push(w) ==
    /\ half[w] # {}
    /\ queue' = queue \union half[w]
    /\ half' = [half EXCEPT ![w] = {}]
    /\ UNCHANGED <<graph, seen, failed, lost, task, past>>

\* A worker takes a job from the head of the queue; its type chooses the handler.
Take(w) ==
    /\ At(w, "idle")
    /\ \E j \in queue :
          /\ \A k \in queue : Rank(j) <= Rank(k)
          /\ queue' = queue \ {j}
          /\ task' = [task EXCEPT ![w].job = j, ![w].at =
                         CASE j.type = "webfinger" -> "resolve" [] j.type = "actor" -> "check"
                           [] j.type = "collection" -> "fetch" [] j.type = "page" -> "mark"]
    /\ crew' = crew \union {w}
    /\ UNCHANGED <<graph, seen, failed, half, lost, mishaps, met>>

\* WebfingerHandler: resolve the address and make its node; the depth, the date
\* and the actor job follow as for members found on a page.
Resolve(w) ==
    /\ At(w, "resolve")
    /\ nodes' = nodes \union Ids(w)
    /\ Goto(w, "depths")
    /\ UNCHANGED <<edges, actor, coll, dispatcher, past>>

\* ActorHandler: an actor that has been fetched is not fetched again.
Check(w) ==
    /\ At(w, "check")
    /\ nodes' = nodes \union {Subject(w)}
    /\ IF actor[Subject(w)].fetched THEN Finish(w) ELSE Goto(w, "fetch")
    /\ UNCHANGED <<edges, actor, coll, dispatcher, past>>

\* PageHandler: note the visit before the fetch.
Mark(w) ==
    /\ At(w, "mark")
    /\ nodes' = nodes \union {Owner[Coll(w)]}
    /\ coll' = [coll EXCEPT ![Coll(w)].page = Subject(w), ![Coll(w)].complete = FALSE]
    /\ Goto(w, "fetch")
    /\ UNCHANGED <<edges, actor, dispatcher, past>>

CollectionJobs(w) == [type : {"collection"}, subject : Shares[Subject(w)], depth : {Depth(w)}]

\* Mutant: the date is set with the fetch, before the collections are offered.
FetchAndDate(w) ==
    /\ At(w, "fetch") /\ Type(w) = "actor"
    /\ actor' = [actor EXCEPT ![Subject(w)].fetched = TRUE]
    /\ task' = [task EXCEPT ![w].at = "offer", ![w].todo = CollectionJobs(w)]
    /\ UNCHANGED <<nodes, edges, coll, dispatcher, past>>

FetchActor(w) ==
    /\ At(w, "fetch") /\ Type(w) = "actor"
    /\ task' = [task EXCEPT ![w].at = "offer", ![w].todo = CollectionJobs(w)]
    /\ UNCHANGED <<graph, dispatcher, past>>

\* Mutant: <= for <, collections of the actors at the last level are walked too.
WalksFurther(w) == Declared[Subject(w)] # "empty" /\ Depth(w) <= MaxDepth

Walks(w) == Declared[Subject(w)] # "empty" /\ Depth(w) < MaxDepth

\* CollectionHandler: a first page is preferred to items in the document.
FirstPage(w) == Walks(w) /\ Declared[Subject(w)] = "first" /\ First[Subject(w)] \in Pages
Inline(w) == Walks(w) /\ Declared[Subject(w)] = "items" /\ Subject(w) \in WithItems

FetchCollection(w) ==
    /\ At(w, "fetch") /\ Type(w) = "collection"
    /\ nodes' = nodes \union {Owner[Coll(w)]}
    /\ Goto(w, IF FirstPage(w) THEN "link" ELSE IF Inline(w) THEN "nodes" ELSE "save")
    /\ UNCHANGED <<edges, actor, coll, dispatcher, past>>

\* A page without items ends the walk, whatever it says comes next.
FetchPage(w) ==
    /\ At(w, "fetch") /\ Type(w) = "page"
    /\ Goto(w, IF Subject(w) \in WithItems THEN "nodes" ELSE "save")
    /\ UNCHANGED <<graph, dispatcher, past>>

-----------------------------------------------------------------------------
(* handle_items, and the like steps of WebfingerHandler. *)

EnsureNodes(w) ==
    /\ At(w, "nodes")
    /\ nodes' = nodes \union Ids(w)
    /\ Goto(w, "edges")
    /\ UNCHANGED <<edges, actor, coll, dispatcher, past>>

\* The edges and their flag are written by label: only between nodes.
EnsureEdges(w) ==
    /\ At(w, "edges")
    /\ edges' = edges \union {Edge(Coll(w), a) : a \in Ids(w) \intersect nodes}
    /\ Goto(w, "depths")
    /\ UNCHANGED <<nodes, actor, coll, dispatcher, past>>

ReadDepths(w) ==
    /\ At(w, "depths")
    /\ task' = [task EXCEPT ![w].at = "stamp",
                            ![w].blank = {a \in Ids(w) : actor[a].depth = -1}]
    /\ UNCHANGED <<graph, dispatcher, past>>

\* An upsert: whatever depth has been set since the reading is replaced.
StampDepths(w) ==
    /\ At(w, "stamp")
    /\ actor' = [a \in Actors |-> IF a \in task[w].blank
                                  THEN [actor[a] EXCEPT !.depth = Level(w)] ELSE actor[a]]
    /\ Goto(w, "dates")
    /\ UNCHANGED <<nodes, edges, coll, dispatcher, past>>

ActorJobs(w, S) == [type : {"actor"}, subject : S, depth : {Level(w)}]

\* Mutant: the actors that had no depth are offered, for those that were not fetched.
OffersBlank(w) ==
    /\ At(w, "dates")
    /\ task' = [task EXCEPT ![w].at = "offer", ![w].todo = ActorJobs(w, task[w].blank)]
    /\ UNCHANGED <<graph, dispatcher, past>>

ReadDates(w) ==
    /\ At(w, "dates")
    /\ task' = [task EXCEPT ![w].at = "offer",
                            ![w].todo = ActorJobs(w, {a \in Ids(w) : ~actor[a].fetched})]
    /\ UNCHANGED <<graph, dispatcher, past>>

Offer(w) ==
    /\ At(w, "offer")
    /\ \E j \in task[w].todo : /\ EnqueueIfUnseen(w, j)
                               /\ task' = [task EXCEPT ![w].todo = @ \ {j}]
    /\ UNCHANGED <<graph, past>>

\* The offers are made: on to the next page, to the properties, or done.
Offered(w) ==
    /\ At(w, "offer") /\ task[w].todo = {}
    /\ IF Type(w) = "webfinger" THEN Finish(w)
       ELSE Goto(w, IF Type(w) = "page" /\ Next[Subject(w)] \in Pages THEN "link" ELSE "save")
    /\ UNCHANGED <<graph, dispatcher, past>>

Link(w) ==
    /\ At(w, "link")
    /\ EnqueueIfUnseen(w, [type |-> "page", depth |-> Depth(w), subject |->
                             IF Type(w) = "page" THEN Next[Subject(w)] ELSE First[Subject(w)]])
    /\ Goto(w, "save")
    /\ UNCHANGED <<graph, past>>

-----------------------------------------------------------------------------
(* The last await of a handler: set_node_properties. *)

SaveActor(w) ==
    /\ At(w, "save") /\ Type(w) = "actor"
    /\ actor' = [actor EXCEPT ![Subject(w)] =
                    [depth |-> Depth(w), fetched |-> @.fetched \/ task[w].ok,
                     refused |-> ~task[w].ok]]
    /\ Finish(w)
    /\ UNCHANGED <<nodes, edges, coll, dispatcher, past>>

Sharing(w) ==
    IF FirstPage(w) \/ Inline(w) THEN "yes"
    ELSE IF Depth(w) < MaxDepth /\ Declared[Subject(w)] = "empty" THEN "yes"
    ELSE IF Walks(w) /\ Declared[Subject(w)] = "items" THEN "no"
    ELSE coll[Subject(w)].shared

SaveCollection(w) ==
    /\ At(w, "save") /\ Type(w) = "collection"
    /\ coll' = IF ~task[w].ok THEN [coll EXCEPT ![Subject(w)].refused = @ \union {"collection"}]
               ELSE [coll EXCEPT ![Subject(w)].shared = Sharing(w),
                                 ![Subject(w)].complete = @ \/ Inline(w),
                                 ![Subject(w)].refused = @ \ {"collection"}]
    /\ Finish(w)
    /\ UNCHANGED <<nodes, edges, actor, dispatcher, past>>

\* Mutant: every page that was read completes the walk.
AnyPageEnds(w) == task[w].ok

Ends(w) == task[w].ok /\ (Subject(w) \notin WithItems \/ Next[Subject(w)] = NoPage)

SavePage(w) ==
    /\ At(w, "save") /\ Type(w) = "page"
    /\ coll' = [coll EXCEPT ![Coll(w)] = [shared |-> @.shared, page |-> Subject(w),
                                          status |-> Subject(w), complete |-> Ends(w),
                    refused |-> IF task[w].ok THEN @.refused \ {"page"} ELSE @.refused \union {"page"}]]
    /\ Finish(w)
    /\ UNCHANGED <<nodes, edges, actor, dispatcher, past>>

-----------------------------------------------------------------------------
Mishap(m) ==
    /\ m \in Mishaps /\ mishaps < MaxMishaps
    /\ mishaps' = mishaps + 1 /\ met' = met \union {m}
    /\ UNCHANGED crew

\* An HTTPStatusError is written down and the job is done.
StatusError(w) ==
    /\ Mishap("status")
    /\ At(w, "fetch")
    /\ task' = [task EXCEPT ![w].at = "save", ![w].ok = FALSE]
    /\ UNCHANGED <<graph, dispatcher>>

\* The handler goes no further: what it has half offered is in seen and is not queued.
CutOff(w) ==
    /\ Finish(w)
    /\ lost' = lost \union half[w]
    /\ half' = [half EXCEPT ![w] = {}]

\* Any other exception fails the job.
Raise(w) ==
    /\ Mishap("raise")
    /\ task[w].at # "idle"
    /\ failed' = failed \union {task[w].job}
    /\ CutOff(w)
    /\ UNCHANGED <<graph, queue, seen>>

\* The process dies, or the lease runs out: the job is queued again.
Redeliver(w) ==
    /\ Mishap("again")
    /\ task[w].at # "idle"
    /\ queue' = queue \union {task[w].job}
    /\ CutOff(w) \/ UNCHANGED <<task, half, lost>>
    /\ UNCHANGED <<graph, seen, failed>>

Handle(w) ==
    \/ Take(w) \/ Resolve(w) \/ Check(w) \/ Mark(w)
    \/ FetchActor(w) \/ FetchCollection(w) \/ FetchPage(w)
    \/ EnsureNodes(w) \/ EnsureEdges(w) \/ ReadDepths(w) \/ StampDepths(w)
    \/ ReadDates(w) \/ Offer(w) \/ Offered(w) \/ Link(w) \/ Push(w)
    \/ SaveActor(w) \/ SaveCollection(w) \/ SavePage(w)

CrawlNext == \E w \in Workers : Handle(w) \/ StatusError(w) \/ Raise(w) \/ Redeliver(w)

Spec == Init /\ [][CrawlNext]_vars

\* Every task that can run is run, and awaits come back.
FairSpec == Spec /\ \A w \in Workers : WF_vars(Handle(w))

-----------------------------------------------------------------------------
AtRest == queue = {} /\ \A w \in Workers : At(w, "idle")

\* Actors no more than k links away from a seed: the reference for depths.
Lists(c) == CASE Declared[c] = "empty" -> {}
              [] Declared[c] = "items" -> Members[c]
              [] Declared[c] = "first" -> UNION {Members[p] : p \in {q \in Pages : Walk[q] = c}}
Within[k \in 0 .. MaxDepth] ==
    IF k = 0 THEN {ActorOf[f] : f \in Webfingers}
    ELSE Within[k - 1] \union
         UNION {Lists(c) : c \in UNION {Shares[a] : a \in Within[k - 1]}}

(***************************************************************************)
(* A depth, on a node or in a job, is never less than the distance from the *)
(* seeds and never more than max_depth, whatever the handlers overwrite.    *)
(***************************************************************************)
DepthIsAPath ==
    /\ \A a \in Actors : actor[a].depth # -1 =>
          actor[a].depth <= MaxDepth /\ a \in Within[actor[a].depth]
    /\ \A j \in queue : /\ j.depth <= MaxDepth
                        /\ j.type = "actor" => j.subject \in Within[j.depth]

(***************************************************************************)
(* pages_complete is a promise about the whole walk: the edges of every     *)
(* page of the collection, read by whichever handlers, are in the graph.    *)
(***************************************************************************)
CompleteIsWhole ==
    \A c \in Collections : coll[c].complete =>
        \A a \in Lists(c) : a \in nodes /\ Edge(c, a) \in edges

(***************************************************************************)
(* An actor is not fetched again once it has a last_fetch_date, so by then  *)
(* all its collections have been offered, also if the job was cut off.      *)
(***************************************************************************)
FetchedIsFollowed == \A a \in Actors : actor[a].fetched => Shares[a] \subseteq seen

(***************************************************************************)
(* When the crawl is at rest every node has been fetched or has refused, or *)
(* the job that is about it, or that came upon it, has left a trace from    *)
(* which the recovery scripts find it again: a failed job, or a status.     *)
(* Also if jobs were cut off half way and delivered again, unless one was   *)
(* cut off between the two commands that offer this very node: its id is in *)
(* seen, so that it is not offered again, and its job is nowhere.  With two *)
(* mishaps, or any number of them without a status or without a redelivery: *)
(* a page cut off after its nodes were made, delivered again and answered   *)
(* with a status leaves only the status, and another page of its walk that  *)
(* is delivered again replaces that.                                        *)
(***************************************************************************)
Found(j) == IF j.type = "webfinger" THEN {ActorOf[j.subject]}
            ELSE IF j.type = "actor" THEN {j.subject} ELSE Members[j.subject]

NobodyOverlooked ==
    AtRest => \A a \in nodes :
        \/ actor[a].fetched \/ actor[a].refused
        \/ \E j \in failed : a \in Found(j)
        \/ \E j \in lost : j.subject = a
        \/ \E c \in Collections : coll[c].refused # {} /\ a \in Lists(c)

(***************************************************************************)
(* As long as one worker has done it all, whose jobs may have been          *)
(* delivered again but were all answered, and none of whose offers was cut  *)
(* off half way, it crawls breadth first: each actor has its true distance, *)
(* and the crawl comes upon every actor within max_depth and upon nobody    *)
(* else.                                                                    *)
(***************************************************************************)
Alone == \E w \in Workers : crew \subseteq {w}
Smooth == met \subseteq {"again"}

BreadthFirst ==
    Alone /\ Smooth /\ lost = {} =>
        /\ \A a \in Actors : \A k \in 0 .. actor[a].depth - 1 : a \notin Within[k]
        /\ AtRest => nodes = Within[MaxDepth]

(***************************************************************************)
(* The crawl comes to rest, also where the pages of a collection lead back  *)
(* to one that has been read.                                               *)
(***************************************************************************)
CrawlRests == <>[]AtRest

(***************************************************************************)
(* tests/test_page_handler.py: {direction}_last_page is the page just       *)
(* visited.  At rest, with no mishap, that is the page that ends the walk,  *)
(* where it has one.                                                        *)
(***************************************************************************)
WalkEnds(c) == \E p \in Pages : Walk[p] = c /\ Next[p] \notin Pages

LastPageIsLast ==
    AtRest /\ mishaps = 0 =>
        \A c \in Collections :
            coll[c].page \in Pages /\ WalkEnds(c) => Next[coll[c].page] \notin Pages
=============================================================================
