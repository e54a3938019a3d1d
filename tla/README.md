# A TLA+ model of pub-crawler

pub-crawler walks the social graph of the fediverse. Several crawler processes
("pods") share a Redis job queue and a PostgreSQL graph; each runs some worker
tasks on one asyncio loop. This directory holds TLA+ modules of the parts whose
correctness depends on the order of things, the TLC configurations that check
them, and TLAPS proofs.

    tlc -workers 2 -config MCCrawlQueue_one.cfg MCCrawlQueue.tla
    tlapm CrawlQueue_proofs.tla

`PROJECT.json` lists the components, the runs, a mutant of the code for every
checked property, the source lines behind every definition, and the hazards.

## 1. Inventory

| Part | Source | State | Operations | What makes it correct |
|---|---|---|---|---|
| Job queue | `pub_crawler/dispatcher.py`, `job_id.py` | Redis: `queue` (sorted set), `inflight` (hash job -> lease), `failed`, `seen_hashed`; per process `_stopped` | enqueue, enqueue_if_unseen, get, done, fail, unfail, join, expired, stop | a discovered job is never forgotten; one copy of it is worked on at a time; an empty store means a complete crawl |
| Workers, reaper | `pub_crawler/crawler.py` | per worker: job in hand, failure count; per pod: list of expired leases | worker, reap, start, finish, abort | every job is settled in the end; the crawl ends; nothing is cut off by finish() |
| Crawler process | `bin/crawl.py` | finish task, shutdown task | main, SIGTERM | ends only when the crawl is done, it was told to, or on an error |
| Seeding | `bin/add_seeds*.py`, `bin/main.py` | none of its own | enqueue_if_unseen of each seed; main.py goes on to crawl and to take a snapshot | a seed is queued once, and none is left out |
| Throttle | `fixed_window_counter.py`, `throttle.py` | origin -> tokens, last use | acquire, next_available | no more than the limit in a window; nobody goes to sleep over an unused window |
| HTTP clients | `activity_pub_client.py`, `webfinger_client.py`, `signature.py`, `block_all_cookies_policy.py` | three counters, an httpx client | get, get_page, get_actor_id | every request passes its counters |
| Handlers | `*_handler.py`, `handle_items.py` | in the graph: depth, last_fetch_date, {direction}_* of a walk | handle | a depth is the length of a path; a collection is complete when its pages are; nobody who was found is overlooked |
| Graph store | `database_graph.py`, `database.py` | tables, id caches, applied migrations | ensure, set, get, delete, all_nodes, all_edges; setup | a cached id is the id of the label's row; the tables are a graph of labels; every pod finds the whole schema |
| Host survey | `survey_hosts.py`, `host_surveyor.py`, `nodeinfo_client.py`, `database_host_survey.py` | a local queue of hosts, host properties | survey_worker, set and delete of properties | a surveyed host has the properties of one survey |
| Snapshots | `bin/snapshot.py`, `bin/host_snapshot.py` | a file | read all nodes, read all edges, write | what was there is in the snapshot, and no edge dangles but for a node that was being inserted |
| Recovery | `bin/recover_failed.py`, `bin/recover_http_status.py` | none of its own | enqueue and unfail of failed jobs | a failed job is queued again or still recorded as failed |
| Fix-ups | `fixup/*.py` | none of its own | one-off rewrites of the queue and of the seen set | safe to stop and to run again |
| Other scripts | `bin/fetch.py`, `bin/discover_webfingers.py` | none | one-shot reads | - |

How they interact: handlers call `enqueue_if_unseen` of the dispatcher that
dispatched them; workers, reapers and `join` of all pods, the seeding, recovery
and fix-up scripts share the four Redis structures; handlers and surveys write
to the graph that snapshots read. Within a process a task gives up control only
at an `await`; between processes anything interleaves between two Redis
commands. What is hard, therefore: operations of several commands
(`get`, `enqueue`, `enqueue_if_unseen`, `fail`, `join`), cut in two by a crash,
a cancellation or a Redis error, and the reaper, which takes jobs from workers
it cannot see.

## 2. Plan

Done:

| Module | Models | With |
|---|---|---|
| `JobStore` | the Redis structures and the commands on them | - |
| `CrawlQueue` | pods, workers, reapers, finish and abort | `JobStore`; implements `JobLedger` |
| `Seeding` | the seeding scripts and main.py | `JobStore` |
| `Recovery` | the two recovery scripts, beside crawlers | `JobStore` |
| `QueueFixup`, `SeenFixup` | the fix-ups, with the crawler stopped | - |
| `FixedWindowCounter` | one throttle counter | - |
| `Requests` | a request's way through the counters, redirects | - |
| `CrawlGraph` | the handlers: what they write to the graph and offer to the queue | - |
| `GraphStore` | ids, rows and caches of `DatabaseGraph` | implements `LabelGraph` |
| `BulkWrites` | statements of many rows in concurrent transactions | - |
| `Migrations` | database_setup in several pods | - |
| `Snapshot` | the snapshot scripts beside writers | - |
| `HostSurvey` | a survey run, its queue and its workers | - |

The MC modules give the constants their values and gather what is checked
together:

| MC module | Parts |
|---|---|
| `MCCrawlQueue` | the webs and pods of `CrawlQueue` |
| `MCCrawlEnds` | its liveness: one pod of two workers, or two pods of one |
| `MCThrottle` | `ThrottleParts`: `FixedWindowCounter` with a clock that goes forward, and with one that is set back; `Requests` |
| `MCCrawlGraph` | `CrawlGraph` by one worker with mishaps, by one whose jobs are delivered again, and by two workers |
| `MCScripts` | `ScriptParts`: `Recovery` killed, beside a crawler, in a race with it, and restarting walks; `Seeding`; `QueueFixup`; `SeenFixup` |
| `MCTables` | `TableParts`: `GraphStore`; `Snapshot` |
| `MCSurvey` | `SurveyParts`: `HostSurvey` run twice, and with more hosts than its queue holds; `Migrations`; `BulkWrites`, with lists that cross and lists that do not |

Where there are several parts, the variable `part` is chosen by the first state and
never changes. A module of parts extends one component (`ScriptParts` extends
`Recovery`, `TableParts` `GraphStore`, `SurveyParts` `HostSurvey`, `ThrottleParts`
`FixedWindowCounter`), whose steps a part may restrict further; the others are INSTANCEs
with constants of their own. Only the part
that was chosen moves, and the variables of the others keep a value at which nothing of
theirs can happen. The behaviours are those of the parts and no others: parts share
variables only to have fewer of them, and never interact. Fairness is stated for the
steps of a part. A property either names the part it is about, or holds of all.

Proofs are in modules of their own:

| Module | Theorems about |
|---|---|
| `CrawlQueue_proofs` | the queue for any number of pods, and for one crawler |
| `FixedWindowCounter_proofs` | one throttle counter |
| `CrawlGraph_proofs` | the handlers |
| `Throttle_proofs` | `Requests`, and the counter whose clock is set back, of `ThrottleParts` |
| `Table_proofs` | tables, caches and the refinement of `LabelGraph`, and `Snapshot`, of `TableParts` |
| `Survey_proofs` | `HostSurvey`, `Migrations` and `BulkWrites`, of `SurveyParts` |
| `Seeding_proofs` | `Seeding` |
| `Script_proofs` | `Recovery`, `SeenFixup` and `QueueFixup`, and `Seeding` as a part, of `ScriptParts` |

Every safety invariant, every action property and every refinement that a passing run
checks is proved there, under the name by which the run checks it. Of a component that a
module of parts extends the theorem is about the component's `Spec`; of an INSTANCE it is
about `AllSpec`, the specification TLC checks, for all values of its constants. `TypeOK` of `CrawlQueue` is checked and proved, those
of `FixedWindowCounter`, `CrawlGraph`, `GraphStore`, `HostSurvey` and `Seeding` are proved
from the invariants that the other theorems need.

The modules split the system where one part needs only a summary of another.
To `CrawlQueue` a handler is the set of jobs it offers; to `CrawlGraph` the queue
is a set that hands out the least depth and type first and may hand out a job
again; to `Requests` a counter has a token or has not; to `Recovery` and
`Seeding` a worker takes, leases and releases. The summaries are not proved from
the modules they stand for, and leave out what those have more: a job that
`CrawlQueue` loses between a pop and a lease, or that a reaper loses, is not lost in
`CrawlGraph`, whose lost jobs are those of offers cut in two; `Recovery` has no
reaper, while `Seeding` has one.

Liveness stays with TLC.

## 3. The crawl queue

`JobStore` is the four Redis structures and the commands issued on them, each
one atomic. The sorted set is a bag, because a member carries a timestamp and
the same job added twice is two members. A lease is `free`, `leased` or
`expired`. `JobId` maps a job to the hash of its id, which leaves out the depth,
so that two jobs may share an id; `Rank` stands for the `depth|type|crc` prefix
that orders the members.

`CrawlQueue` is several pods on one store. One action is what happens at one
await:

- a worker (`pc`, `job`, `todo`, `next`, `failures`) goes through `get`
  (`GetStopped`, or `GetBlock`, `GetPop`, `GetLease`), its handler (`OfferSeen`
  or `OfferNew` and `PushNew` per successor, then `HandlerReturns`, or
  `HandlerRaises` at any point), and `Done`, or `FailRelease` and `FailRecord`.
  An exception from Redis is `DispatcherError`, with `failures`, back-off and
  `Awake`, or `OfferError` inside a handler.
- the reaper (`reaper`, `stale`, `reaping`) reads the expired leases, then
  re-enqueues job by job with the three commands of `enqueue`.
- the finish task (`finish`, `waiting`) reads `zcard`, then `hlen`, and when both
  are zero cancels the workers; `Exit` ends the process.
- `Abort` (SIGTERM) sets `_stopped` and waits; `JoinError` is an exception out of
  `join`; `Crash` kills the process; `Start` is an operator's or a supervisor's.
- `LapseIdle` and `LapseBusy` are the clock passing a lease. Nobody works on
  the job in the first; the second, a handler that outlives its lease of 15
  minutes, is a mishap.

A handler is what the store sees of it, a set of successors offered in some
order. `finished` and `lost` are history: jobs whose handler has returned, and
jobs that were in no structure when the task that held them was cut off.

Abstracted: durations of sleeps and back-offs, the text of members and ids
(`Jobs`, `Ids`, `Rank` and `JobId` are constants), two additions of a job in one
microsecond (they would merge), a process that overlaps the one it replaces.

`JobLedger` is what the queue is to the crawl: an id is opened once, by the
handler of an open id, and closed once.

### Properties

- `Conservation`: an id is offered to the queue once, so a job that is forgotten
  is forgotten for good. Every seen id has a job that is queued, leased, in a
  live task's hand, finished, failed or lost. `lost` is kept honest by what adds
  to it: only the end of a task that holds a job which is in no structure.
- `CrawlClosure`: with nothing queued, leased or in hand, the successors of
  finished jobs have been settled too.
- `OnePlace`, `LeaseHeld`, `OneLifetime`: with one pod and no handler that
  outlives its lease, a job is at one place at a time, its worker keeps the
  lease, and an id once closed is never worked on again, across crashes,
  restarts and Redis errors. With two pods, or an outlived lease, they do not
  hold, and the code does not claim them: jobs are idempotent and may be
  repeated.
- `EverySeenSettles`, `CrawlEnds`: while a crawler is up every job comes to be
  settled, or is left in the store when the last crawler ends (told to, or by a
  `join` that read its counts around a reaper); and a crawler comes to an end.
- `NothingCutOff`, `StoppedHandsOutNothing`: what the tests' comments say of
  `finish()` and `stop()`, and the code does not keep; see section 13.

### Runs

| Run | Instance | Shows |
|---|---|---|
| one | 1 pod, 2 workers, web Fork; one crash or Redis error, one retry after an error; 2 starts | TypeOK, OnePlace, LeaseHeld, OneLifetime |
| two | 2 pods of 1 worker, web Chain; any two of crash, error, SIGTERM, outlived lease; 2 starts | Conservation, CrawlClosure |
| live | `MCCrawlEnds`, web Chain: 1 pod, 2 workers, a seed whose handler may raise, one error or SIGTERM, 1 start; or 2 pods of 1 worker, one crash or SIGTERM, 2 starts | EverySeenSettles, CrawlEnds |
| finish, stop | 1 pod, 2 workers, web Join | two violations |

Webs: Fork has two seeds that discover one actor at two depths, the deeper of
which leads back to a seed; Join has two seeds that discover the same job; Chain
a seed and its successor. They are the smallest in which two handlers compete
for an id, jobs share an id, or a discovery is lost. `MaxCopies` = 2 is never
reached where `OnePlace` is checked, and with two pods cuts off only a third
copy. `MaxStarts` = 2 gives one restart after a crash, or both pods once.
Deadlock is not checked: a crawl that has ended and is owed no start has stopped.
Where no liveness is checked, the two workers of one pod are symmetric, and so
are two pods together with their workers.

### Fairness

asyncio runs every task that can run, Redis answers and handlers end (httpx has
timeouts), so worker, reaper and finish steps and the exit are weakly fair.
BZPOPMIN serves its waiters in turn. A lease that nobody works on runs out
because the clock goes on. No mishap and no start is owed, so liveness is stated
"while some pod is up". The liveness runs keep the mishaps to one, and errors
within `MAX_FAILURES`: workers that have quit leave a pod that waits for ever,
and so does a Redis error in `join` during an abort (section 13).
Restarts are bounded because every one of them may meet the race of
`NothingCutOff` again.

### Proofs (`CrawlQueue_proofs`)

For any sets of pods, workers and jobs, any web, any events and bounds:

- `TypeCorrect`: `Spec => []TypeOK`. It needs `DownIsQuiet` (no task of a pod
  outlives it), as a worker of a pod that is not up would keep a job over the
  next start.
- `InductiveInvariant`: `Spec => []IInv`, where IInv adds to `Conservation` what
  each step relies on: a worker releases a job as done only if its handler has
  returned (`DoneIsFinished`), a reaper marks only a job that is in the books
  (`MarkedIsAccounted`), and a handler leaves no successor out
  (`SuccessorsSeen`). `AccountsKept` is the heart: a job that is in the books
  stays in the books over every step.
- `JobsConserved` and `CrawlIsClosed` follow.

For one crawler, `OneCrawler`: one pod of any number of workers, and no handler that
outlives its lease. Crashes, restarts, cancellations, SIGTERM and Redis errors may be any
number.

- `OnePlaceHolds`, `LeaseIsHeld`: `OnePlace` and `LeaseHeld`, from OneIInv. `Apart` is
  `OnePlace` a pair of jobs at a time, as a step moves one job: jobs of one id are not both
  queued or both leased, nor queued and leased, nor in the store
  and in a hand.
  `PendingIsSeen` keeps a second discovery from being queued, `OneWorkerEach` and
  `LeaseHeld` keep a release from freeing what another worker has, and `StaleIsExpired`
  keeps the list of a reaper from naming a job that was taken up again. The last is where
  two pods, or an outlived lease, would break it.
- `OneLifetimeEach`: `OneLifetime`, each step is one of `JobLedger` or a stutter.

They rest on `JobStoreAssumption` and `CrawlQueueAssumption`, which type the
constants and say that no two seeds share an id (`add_seeds` goes through
`enqueue_if_unseen`). Liveness stays with TLC, as TLAPS does not reason about fairness
here.

## 4. Throttle and requests

`FixedWindowCounter` is one counter of a process, shared by its tasks. The code
compares times with window starts only, so time is the number of the window.
`acquire` has no await but its sleep: `Grant` and `Refuse` are one turn of its
loop. The clock is read to look at the bucket, and once more: to stamp the token, or
to time the sleep. Windows may end between the two, any number of them, so the stamp
of `Grant` and the reading of `Refuse` are any window from the first on. A sleep may be
over early or late (`Wake` is always possible). `StepsBack` lets the wall clock be set
back, at any time and so between the two readings; `torn` counts the grants of an
origin in which that happened. `Peeks` adds `next_available`, which the crawl does not
call (all scores are 0).

- `WithinLimit`: no window of an origin has more tokens spent in it than the
  limit, also across a window end between the two readings.
- `NoIdleWait`: a task goes to sleep only when the window it looked at has had a
  request. If that window ends before the sleep is timed, it sleeps to the end of the
  next, which may go unused: section 13.

Run throttle checks both for two tokens, two tasks and two origins over three
windows with a steady clock and peeks; two tasks are enough to fill a window
while a third request waits, since a task comes back after its grant.
`LimitSetBack` is about the deployed setting, one token, with the clock set back at any
time, once during a grant (`MaxTorn`): a window sees one request, and one more for each
grant of its origin during which the clock was set back, so that it is exact while no
grant is torn. With more than one token, or with peeks, a clock set back may exceed the
limit without that, and a task may wait through an unused window; neither is claimed.

`FixedWindowCounter_proofs` proves `TypeCorrect` for any clock, and both properties
for every limit, horizon, number of tasks and origins, with a steady clock
(`LimitHolds`, `NobodyWaitsIdly`) from
`IInv`: no stamp is in the future, windows after the last stamp are untouched,
its own is not, and in the current window spent and remaining tokens make up at
most the limit. The last part is what `WithinLimit` lacks to be inductive.
`SingleLimitHolds` proves `OneButForTorn` for one token and any clock: there a
stamped bucket is empty, so only a window later than the stamp is granted, and such a
window has had a request only if a torn grant put the stamp before it (`SingleIInv`).
`LimitHoldsSetBack` (`Throttle_proofs`) carries it over to the run's property
`LimitSetBack`.

`Requests` is several tasks of a process and three kinds of client. `Take` takes
the tokens in the order of the code, paged, general, burst; `Tick` brings tokens
back, the paged ones every `PageWindows` windows. `Recursion` is `_get_with_headers`
calling itself for a redirect, `Follow` a redirect that webfinger and nodeinfo leave to
httpx, which sends another GET, to whatever origin and with no token, and `Link` the
second request of nodeinfo.

- `EachGetIsPaid` (run throttle): a GET that a client is about to send holds a token of
  each counter it needs, of its own origin and not of the one that redirected it. It is
  not said, and not so, of the GETs that httpx adds (`followed`): section 13.
- `CallsEnd`: no call waits for ever, though one may wait at a
  counter with tokens of others in hand, and tasks compete; a window always comes
  (`WF` of `Tick`), a task that sleeps looks again, a GET ends by its timeout. No
  fairness between tasks is assumed: a task is passed over only while others still
  have requests, and these are finite.

Two tasks and two origins are enough for a token to be taken in between and for
a redirect across origins; `MaxRecursions` = 2 gives a chain and its end, `MaxFollowed`
= 1 a GET that httpx adds before or after the link to the document. The parts whose
counter moves have no fairness; that of `Requests` is asked of part calls alone.

`GetsArePaid` is `EachGetIsPaid` for any tasks, origins, windows and chains. Its invariant
says of every await what a call that is there has paid and what it has still to take, and
that a paged call is one of the activity client, the only one that has the paged counter.

## 5. Seeding and the composite script

`Seeding` has scripts that read their files line by line (`Line` is the SADD of
enqueue_if_unseen, `Push` the ZADD after it), workers that take, lease and release,
and for main.py the two readings of `join`, the cutting off of its workers, SIGTERM
and the call of `snapshot`. A script may be killed and run again. A lease may run out,
of a worker that is slow or of a main.py that was killed, and the reaper of any
crawler then queues the job again (`ReapScan`, `ReapRelease`, `ReapAdd`).

- `SeedOnce`: the scripts queue a seed once at most, though it is in two files, and
  though scripts overlap or are run again. It is queued or taken again only as often as
  a reaper queued it, and no reaper does so before a lease of it has run out.
- `SeedsReachTheCrawl`: a script that has read its file leaves no seed that is
  neither queued nor taken nor in another script's hand, unless one was cut off
  between the two commands.

`Seeding_proofs` has both for any files, scripts, workers, kills and leases, and
`Script_proofs` takes them over for the part (`SeedsAreQueuedOnce`, `SeedsReachIt`).
`SeedsComeOnce` rests on the SADD: whoever holds a seed between the two commands is the
one whose SADD was the first; and a reaper has in hand only what has been leased, so
what it queues was queued and taken before. For `SeedsAreDrawn`, what was read is seen
(`ReadIsSeen`), and what is seen was queued, is held, or was cut off (`SeenIsDrawn`); its
hypothesis `OneJobEach` says that seeds of one id are one seed, as of two the first is
queued.

Both are checked in run scripts: one add_seeds.py with two seeds and one main.py with
one of them, a worker of main.py and one of another pod, each with its reaper, two kills,
and one lease of each seed that runs out (`MaxLapses`): a kill leaves a lease behind,
which a reaper of the other pod or of the next main.py finds, and which both may find.
That main.py never comes to its snapshot is in section 13.

## 6. Recovery

`Recovery` runs either script, one Redis command at a time (`Free`, `Add`, `Mark` are
`enqueue`, then `Unfail`), beside workers that take jobs, finish or fail them, and
so change statuses, depths and the failed set. A job belongs to an actor and a
direction; `Outranks` is the nesting of `if` and `elif` by which recover_http_status
restarts the actor, else the collection, else the page. The graph is read by one
cursor (`Begin`), the failed set by SSCAN (`Pick` may return a job that was added
meanwhile).

| Part of run scripts | Instance | Shows |
|---|---|---|
| killed | recover_failed alone, killed once, two runs; four jobs, one of each type | `FailedIsKept`: failed means recorded or queued |
| beside | with a worker, one failure, but none while the script is between `enqueue` and `unfail` | `FailedIsKept` there; `InHandIsLeased`: enqueue frees the lease before it queues the job, so that a worker that takes the job keeps its lease |
| restart | recover_http_status with a worker; two actors, two walks and their pages | `OneRestart`: no walk is restarted at two places, and none that broke is left out |

Run race is part race, the same as beside with a failure at any point: `FailedIsKept` is
violated, section 13.

`Script_proofs`, for any jobs, owners and workers:

- `FailedJobsAreKept`: `FailedIsKept` of the behaviours in which no worker records the
  failure of the job that the script is unfailing (`NotMeanwhile`), which is the race and
  no more. The invariant `Kept` adds that the script's own job is still somewhere between
  the two commands. `NoCrawlerNoLoss` has no condition but that no crawler is at work.
- `ScriptsLeaveLeases`: `InHandIsLeased` under `RunsAsMeant`, one run, or runs of
  recover_failed that are not killed. A run after a killed one finds the same jobs on the
  failed set, and a second recover_http_status the same statuses; either frees the lease
  of a job that the first queued and a worker has taken. TLC shows both.
- `ChainsRestartOnce`: `OneRestart`, with `OneJobOfAKind`: an actor has one id and one last
  page in each direction, so the jobs of a chain are one of each type.

## 7. Handlers

`CrawlGraph` is the four handlers. A worker's `task` is at one of the awaits of
`handle`; `nodes`, `edges`, `actor` (depth, last_fetch_date, a bad status) and `coll`
(members_shared, last_page, its status, pages_complete) are the graph, written by
`SaveActor`, `SaveCollection`, `SavePage` and the five steps of `handle_items`. A
job may be refused (`StatusError`), raise, or be delivered again, to another worker
while the first goes on, or after it died. An offer is the two commands of
enqueue_if_unseen, `EnqueueIfUnseen` (SADD) and `Push` (ZADD): a job that was added to
the seen set and not yet queued is in `half` of its worker, and in `lost` when the
handler is cut off there, as nobody offers it again. The actor's collections are offered in
any order, and `EnsureEdges` is two statements, the edges and their flag; the code's
order and the state between make no difference to the properties.

The web is small and has what is hard: a collection of two pages, one of which has items
and no ids among them (`WithItems`), one whose pages lead to each other, an actor at two
distances, an empty collection, one without pages, and one beyond `max_depth`
(2). The order of the queue is by two digits of depth (`Digits`), so that beyond 99 it
no longer is by depth.

- `DepthIsAPath`: whatever is overwritten, a depth is the length of a
  path from a seed and within `max_depth`.
- `BreadthFirst`: as long as only one worker has taken jobs (`Alone`) and nothing went wrong
  but that jobs were delivered again (`Smooth`) and none of its offers was cut off half way
  (`lost = {}`), a depth is the least, and at rest everyone
  within `max_depth` is a node. `crew`, the workers that took a job, and `met`, the kinds
  of mishaps so far, are history.
- `CompleteIsWhole`: pages_complete is set when the members of every page are linked.
- `FetchedIsFollowed`, `NobodyOverlooked`: the mark that keeps an actor
  from being fetched again comes after the offers; and at rest, whoever was found has
  been fetched, or left a failed job or a bad status to recover from, unless it was its
  own job that was cut off between SADD and ZADD: such a node has no trace (section 13).
- `CrawlRests`: the crawl ends, under weak fairness of each worker: the
  event loop runs every task, and requests have timeouts.
- `LastPageIsLast`, of walks that have an end, is violated (run page), section 13.

All but the last are of run graph. There are two mishaps of any kind with one
worker, three repeated deliveries, and one mishap of any kind with two workers: a
handler is cut off and its job repeated, and cut off again.

`CrawlGraph_proofs`, for any web, workers and mishaps:

- `DepthsArePaths`, `CompleteWalksAreWhole`, `FetchedAreFollowed` from `CrawlInv`, which
  says what a handler has done at each of its awaits (`TasksOK`: its members are nodes, their
  edges are there, their depths are set, their jobs offered), that a job's depth is a
  path's, and that a page job stands for pages read before it (`PagesOK`): what other
  handlers do keeps all of this, as nothing is ever taken from the graph or the seen set.
  That a path of a length exists is defined by recursion on the length; where the proof
  needs induction it takes a least counterexample.
- `NodesAreFollowedUp`: at rest, whatever the mishaps, a node was fetched or refused, or it
  is in a failed job, or its own job was lost, or it is listed by a collection that is not
  marked complete. The invariants speak of jobs that are queued, in `half` or in `lost`
  where one command would have let them speak of the queue.
- `NobodyIsOverlooked`: `NobodyOverlooked` as long as `OneKind`, jobs were not both
  delivered again and answered with a bad status. With both, two workers and three
  mishaps, TLC finds a page job whose worker dies when it has made an actor a node and
  that is refused when it is delivered again, while the worker of the page before saves
  last: the save of run page (section 13), which also takes away the status that a
  recovery script would read.

- `OneWorkerGoesBreadthFirst`: `BreadthFirst`, for a `max_depth` of up to 99. `BreadthInv` says what one worker has left
  behind. The members of a page that was handled are nodes whose jobs were
  offered (`Handled`), and a node's depth is at most that of whoever lists it, plus one.
  While a collection or a page of an actor at some depth is handled, no job of a nearer
  actor is left (`JobNearest`, from the queue's order), so everyone of a smaller or equal
  distance is a node already, with its distance: were one missing, the nearest of
  them would be listed by somebody whose collections are done with (`LevelsExplored`, a
  least counterexample). Hence what a page makes a node is at that depth plus one and no
  nearer, and a job that is delivered again finds its members and changes no depth.

`WebAssumption` types the web and says that pages are those of a walk.

## 8. Graph store

`GraphStore` is the tables of `DatabaseGraph` by id, and each process's cache of
label to id, shared by its tasks. A call looks up its labels one by one (`LookupHit`,
or `LookupSelect` and, an await later, `LookupReply`) and then runs a statement.
`Evict` is the cache at its limit.

`LabelGraph` is the graph a caller thinks of, of labels and no ids. `IsLabelGraph`
(run tables): through the rows, the tables implement it, whatever caches hold
and whoever deletes. `OnlyNamedNodes`: a call changes nothing but what it names, even
with an id of a node that is gone, since ids are never given out again.
`CachedIsTheRow`: a cached id is that of its label's row, or of a row that somebody
deleted (`gone` is history), and never another label's; without deletions, as in a crawl,
it is the row's. Two labels, two processes of one task, one edge; three ids for the
sequence, so that a label can lose its id and get another while a process still has the
first.

`Table_proofs` has all of it for any labels, links, processes and tasks. `GraphInv`
types the tables and adds that rows have ids of their own and that an id that a cache, a
task or an answer on its way holds was given out for that label (`KnownIds`).
`CacheInv` needs the answers on their way (`RepliesAreRows`): they are what a cache will
hold. `TablesAreAGraph` takes each statement to one operation of `LabelGraph`, or, where
its ids have no row any more, to none.

`BulkWrites` is statements of many rows by concurrent transactions: row locks, rows
that were committed meanwhile (ON CONFLICT), a deadlock in which PostgreSQL aborts
one. `ReturnedIsThere` (run survey, part calls): a call that returned has its rows,
also those it left to a transaction that was aborted after all. `RaisesOnlyCrossed`: a
call raises only when lists that are being written cross (`Crossed`: keys of which each
comes before another of them in some list, two of them in the call's own). The code sorts
nothing, pages list the same actors in any order, and the run has lists that cross, so
that the deadlock does happen; calls of one row each, or in one order, never meet it. Three
keys and two tasks are enough for a circle; the `Deadlock` action allows circles of any
length. `ReturnedHasRows` proves the first for any calls: each key of a call is a row, or
written by it, or to be written. `RaisingCallsCross` proves the second for any number of
tasks and keys: what a call holds stands in its list before what it waits for
(`HoldsEarlier`), so the keys that the calls of a circle wait for cross (`CircleCrosses`).

`Migrations` is `database_setup`, a statement at a time, with one transaction per
migration. A pod that runs into another fails and is started again.
`InOrder` (run survey, part setup): schema and record agree, and are an initial part
of the migrations in order; a ready pod has all of them. `AllReady`: everyone gets there,
as statements end and pods are restarted (weak fairness of each pod), and kills are
bounded. `MigrationsInOrder` proves `InOrder` for any number of pods and kills: a
transaction that is open makes the one migration that is next, and a second one waits for
the name, so no two are open. Two pods and one kill; any initial part may be there at
the start.

## 9. Snapshots

`Snapshot` is a script that reads nodes and then edges, or hosts, from cursors, each
of which sees what was committed when it was opened, and writes them in batches.
Transactions take ids from a sequence and become visible when they commit. One crawler
has 25 workers on a pool of connections, so that several transactions are open at once
and ids become visible out of their order beside a single crawler already: a writer of
the model is one transaction at a time, of any number of rows, and run tables has two.
`SnapshotIsWhole` (part snapshot): what was committed at the beginning is in the files,
however batches fall, and so are both ends of every edge, but for nodes that were being
inserted when the cursor on the nodes was opened (`known.open`). Without that exception
TLC finds the edge that lacks an end; section 13 has the comment that says otherwise.

`NothingMissing` proves the first and `SnapshotsAreWhole` the whole, for any number of
writers, ids and batch sizes: an id that is given out after the opening is above all that
the cursor returns (`LaterIsHigher`), so that the script's bound on the ends of an edge
leaves out those that came later, and lets through only what was open. Three ids and
batches of two leave a full batch and a rest.

## 10. Host survey

`HostSurvey` is runs of survey_hosts.py: `Seed` adds the hosts of the graph, `Scan`
finds those that are due, `Put` fills a queue of 2 x workers, workers `Get`, `Survey`,
`Delete` and `Set`, and `Join` ends the run. A property row carries the survey that
wrote it. A command may raise, and a run may be killed.

- `OneSurvey` (run survey, part resume): what the table says of a host is of one
  survey, at every point of a save and after a kill in it, as deletion comes first.
- `UnsavedIsDue`: a host that was due and was not saved is due for the next run.
- `AllSaved`, `RunsEnd` (part ends): a run that ends has saved what did not raise;
  and it ends, under weak fairness of its task and of each worker.

Runs that overlap mix their surveys, and an empty document is a success: section 13.

Three hosts and one worker fill the queue of two; two hosts and two runs are enough
for a run to be cut off between hosts and resumed. `MaxTime` = 3 lets a date be fresh
and stale in turn.

`Survey_proofs` has the three invariants for any hosts, workers, mishaps and number of
runs that do not overlap: `RowsAreOfOneSurvey`, `KilledRunsLoseNothing`,
`ReturningRunsSavedAll`. The invariant follows a host through a run: the scan finds it
(`ScanFirst`), it is before the queue, in it, in one worker's hands or settled, once
(`RunsOK`), its old rows are gone before the first new one is set (`Cleared`), runs
come one after another (`InTurn`), and until its date is set it stays due (`StaysDue`). The queue's count of unfinished jobs is what is on
it and in hands, a sum over a finite set of workers. `SurveyAssumption` asks for at least
one run and two instants.

## 11. Fix-ups

`QueueFixup` is the five scripts that rewrite members: a scan, a batch, a pipeline,
which for two scripts is a transaction and for the others is executed command by
command; a script may be killed at any point and run again. `JobsAreThere` (run
scripts): no job leaves the structure, and the scripts that promise it never show a
job twice. `AllRewritten`: at its end each job is there once and in the new form.

`SeenFixup` is fixup_seen: delete, add the leases, failed jobs and fetched actors,
then walk the queue and remove what SADD says was there. `FirstIsKept`: an id does
not leave the queue unless it is elsewhere. `SeenIsRebuilt`: at its end the seen set
is exactly what it should be, and the queue has no doubles, save for leased ids whose
SADD raised. If ZSCAN repeats a member, which Redis allows, `FirstIsKept` does not
hold, section 13.

`Script_proofs` has these for any members, batch sizes and number of kills.
`NoJobIsLost` and `AllAreRewritten`: what the cursor has still to return and what is in the batch covers all
members in the old form (`OldIsToCome`), and the new form of a member is there before the
old is removed (`UnderWay`). `FirstsAreKept` and `SeenRebuilt` assume `NoRepeats`: an id that
the walk has settled is queued once and not to come again (`SettledOnce`). In the model
a transaction puts the new members of its batch in place of the old in one step; the
scripts without one step through the commands of the first member of the batch, then of
the next.

Two jobs with two stamps each and batches of two give doubles within a batch and
across batches; two kills give a kill in the second run.

## 12. Not modelled

Parsing, signing, HTTP, HTML, content types and logging have no state of the crawl;
`signature.py` and `block_all_cookies_policy.py` are pure. `delete_host` and the
property methods for one name of `database_host_survey.py` are called by tests alone.
`fetch.py` and `discover_webfingers.py` read and print. A survey's failures are one
value. The copying of a document's fields to properties, and of a property to a
column of a snapshot, is left out. Durations are left to fairness, so nothing is said
of how long a signed Date waits for tokens.

With TLC only: the liveness properties, `EverySeenSettles`,
`CrawlEnds`, `CallsEnd`, `CrawlRests`, `RunsEnd` and `AllReady`, since the prover reasons
neither about fairness nor about ENABLED. No module uses a RECURSIVE operator; where a
proof needs induction over numbers it takes the least of a set, which the library's
theorems on well-founded relations give.

`CHECK_DEADLOCK FALSE` stands where a behaviour may end: a bound on calls, runs or
mishaps is reached, a crawl is at rest, all pods are ready. Symmetry is used only for
workers and pods that are alike, and never with liveness.

## 13. Where code and comments differ

Four of these are runs that end in the violation; the others were met while
reading, and the setting in which they show is given. The
modules follow the code.

- `finish`: `src/tests/test_crawler.py:31` says "finish() waits for the queue to
  EMPTY (so nothing in flight is cut off)". `get` takes the lease after the pop,
  and a `join` that reads both counts in between sees zero. `finish()` then
  cancels the worker, and the job is lost: queued nowhere, and seen.
- `stop`: `src/tests/test_dispatcher.py:585` says "a stopped dispatcher hands out
  no more work". `get` looks at `_stopped` before it parks and not after, so a
  parked worker still takes the next job.
- `page`: "the page just visited" (`src/tests/test_page_handler.py:325`). A page
  handler that is overtaken by the next page's writes its older progress last, and
  pages_complete stays False.
- `race`: "Save failed jobs for manual recovery" (`src/CHANGELOG.md:323`). A crawler
  may fail the job again between `enqueue` and `unfail` of recover_failed, and
  `unfail` then removes the record of the second failure.

In words only:

- "abort() stops NOW" (`src/tests/test_crawler.py:32`). It waits for workers parked
  in BZPOPMIN, which only the end of `join` in the finish task cancels; if `join`
  raises first, the process stays. `JoinError` after `Abort` in `CrawlQueue`.
- "first-discovery is never clobbered" (`src/tests/test_handle_items.py:132`). Depths
  are read, and set two awaits later: two workers, `CrawlGraph`.
- A page's "fetch status" (`src/tests/test_page_handler.py:326`) is that of an earlier
  page after an exception other than a status: one worker and one error.
- delete_node "must then invalidate it" (`src/tests/test_graph.py:146`). A lookup that
  was answered before and comes back after fills the cache again: two tasks of one
  process, `GraphStore`.
- "a later node always gets a higher id" (`src/tests/test_snapshot.py:277`). Not in the
  order of commits, beside one crawler already, whose workers have transactions open at
  the same time: a node that is being inserted when the nodes are read may have a lower id
  than one that is read, and its edges stay in the snapshot without it. `known.open` of
  `Snapshot`, in run tables.
- "makes overlapping manual and scheduled runs harmless" (`src/docs/host_survey.md:340`).
  One run may delete before and set after the other, and the host keeps parts of both:
  `HostSurvey` with `Overlap`.
- "the nodeinfo fields are populated" (`src/docs/host_survey.md:156`). A document that
  parses may have none of them, and is neither a failure nor a survey.
- "running recovery twice doesn't double-enqueue"
  (`src/tests/test_recover_failed.py:15`). It does after a kill between the two commands.
- "the first occurrence of a job_id is kept" (`src/tests/test_fixup_seen.py:9`). Not if
  ZSCAN returns it twice: the second SADD makes the only occurrence a double, and it is
  removed. `SeenFixup` with `MaxRepeats` of 1.
- "At most these two requests" (`src/tests/test_nodeinfo_client.py:10`). httpx follows
  redirects on top, which take no tokens, of nodeinfo and of webfinger: `Follow` of
  `Requests`.
- Operations "must serialize safely" (`src/tests/test_host_survey.py:310`). The test
  gathers calls of one row each. Calls of many rows whose lists cross deadlock, PostgreSQL
  aborts one, and the call raises: part calls of `MCSurvey`.
- An offer is SADD and then ZADD. A handler that is cut off between the two, and whose job
  is delivered again, is told that the id has been seen: the actor is a node that is never
  fetched, and no failed job or status tells of it. `lost` of `CrawlGraph` and of
  `CrawlQueue`, `cut` of `Seeding`.
- A throttled task may sleep through a window that nobody uses: the window ends after it
  looked at the bucket and before it times its sleep. And a clock that is set back during a
  grant lets a second request into a window that is spent. `Refuse` and `Grant` of
  `FixedWindowCounter`.
- "and snapshot it to GML" (`src/bin/main.py:98`). main.py calls `snapshot` with an
  argument too few and ends in a TypeError after the crawl.
