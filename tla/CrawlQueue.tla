----------------------------- MODULE CrawlQueue -----------------------------
(***************************************************************************)
(* Several crawler pods (bin/crawl.py) drain one shared job store.  A pod   *)
(* runs worker tasks, a reaper task, a finish task that waits in            *)
(* Dispatcher.join, and, on SIGTERM, an abort.  Every await on Redis is a   *)
(* point where any other task of any pod may run, so an action here is what *)
(* happens at one such command.                                             *)
(*                                                                          *)
(* The handlers are abstracted to what the store sees of them: a handler    *)
(* offers the successors of its job one by one with enqueue_if_unseen, then *)
(* returns, or raises at any point.                                         *)
(***************************************************************************)
EXTENDS JobStore

CONSTANTS
    Pods,         \* crawler processes
    Workers,      \* worker tasks of all pods (max_workers per pod)
    Home,         \* the pod a worker task belongs to
    Succ,         \* jobs the handler of a job offers
    Flaky,        \* jobs whose handler may raise
    Seeds,        \* jobs queued by the seeding scripts before any pod starts
    NoJob,        \* no job in hand
    MaxFailures,  \* MAX_FAILURES
    Events,       \* which mishaps may happen, among AllEvents
    MaxEvents,    \* bound on the number of mishaps in a behaviour
    MaxStarts,    \* bound on how often an operator starts a crawler
    MaxCopies     \* bound on the members of the queue that carry one job

\* "crash": the process is killed.  "error": a Redis command raises.
\* "slow": a handler outlives its lease.  "sigterm": the pod is told to stop.
AllEvents == {"crash", "error", "slow", "sigterm"}

ASSUME CrawlQueueAssumption ==
    /\ Home \in [Workers -> Pods]
    /\ Succ \in [Jobs -> SUBSET Jobs]
    /\ Flaky \subseteq Jobs
    /\ Seeds \subseteq Jobs
    /\ \A j, k \in Seeds : JobId[j] = JobId[k] => j = k
    /\ NoJob \notin Jobs
    /\ MaxFailures \in Nat
    /\ Events \subseteq AllEvents
    /\ MaxEvents \in Nat
    /\ MaxStarts \in Nat
    /\ MaxCopies \in Nat \ {0}

VARIABLES
    pc,        \* worker -> the command it is about to issue
    job,       \* worker -> the job it works on
    todo,      \* worker -> successors its handler has not offered yet
    next,      \* worker -> successor marked seen and not queued yet
    failures,  \* worker -> dispatcher_failures
    finish,    \* pod -> where its finish task is; "off" when it is not running
    waiting,   \* pod -> join read a non-zero zcard in this round
    stopped,   \* pod -> Dispatcher._stopped
    reaper,    \* pod -> where its reaper is
    stale,     \* pod -> expired jobs the reaper has not come to yet
    reaping,   \* pod -> job the reaper re-enqueues
    finished,  \* jobs whose handler has returned (history)
    lost,      \* jobs that were in no structure when their holder was cut off
    events,    \* mishaps so far
    starts     \* starts so far

workerVars == <<pc, job, todo, next, failures>>
podVars == <<finish, waiting, stopped, reaper, stale, reaping>>
history == <<finished, lost, events, starts>>
vars == <<store, workerVars, podVars, history>>

Up(p) == finish[p] # "off"

WorkersOf(p) == {w \in Workers : Home[w] = p}

WorkerSteps == {"get", "pop", "lease", "run", "push", "done", "fail",
                "record", "backoff", "quit"}
\* Where a worker has a job at all, and where it works on it under its lease.
WithJob == {"lease", "run", "push", "done", "fail", "record"}
Working == {"run", "push", "done", "fail"}

WorkerTypeOK ==
    /\ pc \in [Workers -> WorkerSteps]
    /\ job \in [Workers -> Jobs \union {NoJob}]
    /\ \A w \in Workers : job[w] \in Jobs <=> pc[w] \in WithJob
    /\ todo \in [Workers -> SUBSET Jobs]
    /\ next \in [Workers -> Jobs \union {NoJob}]
    /\ \A w \in Workers : next[w] \in Jobs <=> pc[w] = "push"
    /\ failures \in [Workers -> Nat]

PodTypeOK ==
    /\ finish \in [Pods -> {"off", "zcard", "hlen", "cancel", "cancelled", "raised"}]
    /\ waiting \in [Pods -> BOOLEAN]
    /\ stopped \in [Pods -> BOOLEAN]
    /\ reaper \in [Pods -> {"off", "scan", "release", "add", "mark"}]
    /\ stale \in [Pods -> SUBSET Jobs]
    /\ reaping \in [Pods -> Jobs \union {NoJob}]
    /\ \A p \in Pods : reaping[p] \in Jobs <=> reaper[p] \in {"add", "mark"}

HistoryTypeOK ==
    /\ finished \subseteq Jobs
    /\ lost \subseteq Jobs
    /\ events \in Nat
    /\ starts \in Nat

TypeOK == StoreTypeOK /\ WorkerTypeOK /\ PodTypeOK /\ HistoryTypeOK

Init ==
    /\ queue = [j \in Jobs |-> IF j \in Seeds THEN 1 ELSE 0]
    /\ inflight = [j \in Jobs |-> "free"]
    /\ failed = {}
    /\ seen = {JobId[j] : j \in Seeds}
    /\ pc = [w \in Workers |-> "quit"]
    /\ job = [w \in Workers |-> NoJob]
    /\ todo = [w \in Workers |-> {}]
    /\ next = [w \in Workers |-> NoJob]
    /\ failures = [w \in Workers |-> 0]
    /\ finish = [p \in Pods |-> "off"]
    /\ waiting = [p \in Pods |-> FALSE]
    /\ stopped = [p \in Pods |-> FALSE]
    /\ reaper = [p \in Pods |-> "off"]
    /\ stale = [p \in Pods |-> {}]
    /\ reaping = [p \in Pods |-> NoJob]
    /\ finished = {}
    /\ lost = {}
    /\ events = 0
    /\ starts = 0

-----------------------------------------------------------------------------
(***************************************************************************)
(* A job between two commands of the task that moves it is in no structure. *)
(***************************************************************************)
InHand(w) == {j \in Jobs : \/ pc[w] \in {"lease", "record"} /\ job[w] = j
                           \/ pc[w] = "push" /\ next[w] = j}

InReaper(p) == {j \in Jobs : reaper[p] = "add" /\ reaping[p] = j}

Mishap(e) ==
    /\ e \in Events
    /\ events < MaxEvents
    /\ events' = events + 1

-----------------------------------------------------------------------------
(* The worker loop: Dispatcher.get. *)

GetStopped(w) ==
    /\ pc[w] = "get" /\ stopped[Home[w]]
    /\ pc' = [pc EXCEPT ![w] = "quit"]
    /\ failures' = [failures EXCEPT ![w] = 0]
    /\ UNCHANGED <<store, job, todo, next, podVars, history>>

\* From here on the worker is parked in BZPOPMIN, which has no timeout.
GetBlock(w) ==
    /\ pc[w] = "get" /\ ~stopped[Home[w]]
    /\ pc' = [pc EXCEPT ![w] = "pop"]
    /\ UNCHANGED <<store, job, todo, next, failures, podVars, history>>

GetPop(w) ==
    /\ pc[w] = "pop"
    /\ \E j \in Jobs : PopMin(j) /\ job' = [job EXCEPT ![w] = j]
    /\ pc' = [pc EXCEPT ![w] = "lease"]
    /\ UNCHANGED <<todo, next, failures, podVars, history>>

GetLease(w) ==
    /\ pc[w] = "lease"
    /\ AddInflight(job[w])
    /\ pc' = [pc EXCEPT ![w] = "run"]
    /\ todo' = [todo EXCEPT ![w] = Succ[job[w]]]
    /\ failures' = [failures EXCEPT ![w] = 0]
    /\ UNCHANGED <<job, next, podVars, history>>

-----------------------------------------------------------------------------
(* The handler: enqueue_if_unseen of every successor. *)

OfferSeen(w) ==
    /\ pc[w] = "run"
    /\ \E k \in todo[w] : /\ Seen(k)
                          /\ todo' = [todo EXCEPT ![w] = @ \ {k}]
    /\ UNCHANGED <<store, pc, job, next, failures, podVars, history>>

\* Mutant: plain enqueue, without the test for the seen mark.
OfferAlways(w) ==
    /\ pc[w] = "run"
    /\ \E k \in todo[w] : /\ AddSeen(k)
                          /\ todo' = [todo EXCEPT ![w] = @ \ {k}]
                          /\ next' = [next EXCEPT ![w] = k]
    /\ pc' = [pc EXCEPT ![w] = "push"]
    /\ UNCHANGED <<job, failures, podVars, history>>

OfferNew(w) ==
    /\ pc[w] = "run"
    /\ \E k \in todo[w] : /\ ~Seen(k)
                          /\ AddSeen(k)
                          /\ todo' = [todo EXCEPT ![w] = @ \ {k}]
                          /\ next' = [next EXCEPT ![w] = k]
    /\ pc' = [pc EXCEPT ![w] = "push"]
    /\ UNCHANGED <<job, failures, podVars, history>>

PushNew(w) ==
    /\ pc[w] = "push"
    /\ AddToQueue(next[w])
    /\ pc' = [pc EXCEPT ![w] = "run"]
    /\ next' = [next EXCEPT ![w] = NoJob]
    /\ UNCHANGED <<job, todo, failures, podVars, history>>

\* Mutant: the handler returns before it has offered every successor.
ReturnsEarly(w) ==
    /\ pc[w] = "run"
    /\ finished' = finished \union {job[w]}
    /\ pc' = [pc EXCEPT ![w] = "done"]
    /\ UNCHANGED <<store, job, todo, next, failures, podVars, lost, events, starts>>

HandlerReturns(w) ==
    /\ pc[w] = "run" /\ todo[w] = {}
    /\ finished' = finished \union {job[w]}
    /\ pc' = [pc EXCEPT ![w] = "done"]
    /\ UNCHANGED <<store, job, todo, next, failures, podVars, lost, events, starts>>

\* Any exception of the handler's own: HTTP, parsing, the database.
HandlerRaises(w) ==
    /\ pc[w] = "run" /\ job[w] \in Flaky
    /\ pc' = [pc EXCEPT ![w] = "fail"]
    /\ todo' = [todo EXCEPT ![w] = {}]
    /\ UNCHANGED <<store, job, next, failures, podVars, history>>

-----------------------------------------------------------------------------
(* The worker loop: Dispatcher.done and Dispatcher.fail. *)

\* Mutant: the worker still has the job after it released it.
DoneKeepsJob(w) ==
    /\ pc[w] = "done"
    /\ RemoveInflight(job[w])
    /\ pc' = [pc EXCEPT ![w] = "get"]
    /\ UNCHANGED <<job, todo, next, failures, podVars, history>>

\* Mutant: the lease is not released.
DoneKeepsLease(w) ==
    /\ pc[w] = "done"
    /\ pc' = [pc EXCEPT ![w] = "get"]
    /\ job' = [job EXCEPT ![w] = NoJob]
    /\ UNCHANGED <<store, todo, next, failures, podVars, history>>

Done(w) ==
    /\ pc[w] = "done"
    /\ RemoveInflight(job[w])
    /\ pc' = [pc EXCEPT ![w] = "get"]
    /\ job' = [job EXCEPT ![w] = NoJob]
    /\ UNCHANGED <<todo, next, failures, podVars, history>>

\* Mutant: the lease is released and the failure is not recorded.
FailForgets(w) ==
    /\ pc[w] = "fail"
    /\ RemoveInflight(job[w])
    /\ pc' = [pc EXCEPT ![w] = "get"]
    /\ job' = [job EXCEPT ![w] = NoJob]
    /\ UNCHANGED <<todo, next, failures, podVars, history>>

FailRelease(w) ==
    /\ pc[w] = "fail"
    /\ RemoveInflight(job[w])
    /\ pc' = [pc EXCEPT ![w] = "record"]
    /\ UNCHANGED <<job, todo, next, failures, podVars, history>>

FailRecord(w) ==
    /\ pc[w] = "record"
    /\ AddFailed(job[w])
    /\ pc' = [pc EXCEPT ![w] = "get"]
    /\ job' = [job EXCEPT ![w] = NoJob]
    /\ UNCHANGED <<todo, next, failures, podVars, history>>

-----------------------------------------------------------------------------
(* The worker loop: an exception out of get, done or fail. *)

\* The command raised: it was not applied, or it was and the reply was lost.
\* The second case differs from the command followed by this action only for
\* the HSET of the lease; for the others it leaves the store as the successful
\* step does.
DispatcherError(w) ==
    /\ Mishap("error")
    /\ pc[w] \in {"pop", "lease", "done", "fail", "record"}
    /\ \/ UNCHANGED store /\ lost' = lost \union InHand(w)
       \/ pc[w] = "lease" /\ AddInflight(job[w]) /\ UNCHANGED lost
    /\ failures' = [failures EXCEPT ![w] = @ + 1]
    /\ pc' = [pc EXCEPT ![w] = IF failures'[w] > MaxFailures THEN "quit" ELSE "backoff"]
    /\ job' = [job EXCEPT ![w] = NoJob]
    /\ UNCHANGED <<todo, next, podVars, finished, starts>>

\* The same inside enqueue_if_unseen: the handler raises, the job fails.
OfferError(w) ==
    /\ Mishap("error")
    /\ pc[w] = "push"
    /\ lost' = lost \union InHand(w)
    /\ pc' = [pc EXCEPT ![w] = "fail"]
    /\ todo' = [todo EXCEPT ![w] = {}]
    /\ next' = [next EXCEPT ![w] = NoJob]
    /\ UNCHANGED <<store, job, failures, podVars, finished, starts>>

Awake(w) ==
    /\ pc[w] = "backoff"
    /\ pc' = [pc EXCEPT ![w] = "get"]
    /\ UNCHANGED <<store, job, todo, next, failures, podVars, history>>

-----------------------------------------------------------------------------
(* Leases run out. *)

\* Nobody works on the job: its worker was cut off after it took the lease.
LapseIdle(j) ==
    /\ \A w \in Workers : pc[w] \in Working => job[w] # j
    /\ ExpireLease(j)
    /\ UNCHANGED <<workerVars, podVars, history>>

\* A handler takes longer than MAX_INFLIGHT.
LapseBusy(j) ==
    /\ Mishap("slow")
    /\ \E w \in Workers : pc[w] \in Working /\ job[w] = j
    /\ ExpireLease(j)
    /\ UNCHANGED <<workerVars, podVars, finished, lost, starts>>

-----------------------------------------------------------------------------
(* The reaper: enqueue every job of one reading of the expired leases. *)

\* Mutant: reap without the loop of reap_worker around it.
ScanOnce(p) ==
    /\ reaper[p] = "scan"
    /\ stale' = [stale EXCEPT ![p] = ExpiredLeases]
    /\ reaper' = [reaper EXCEPT ![p] = IF ExpiredLeases = {} THEN "off" ELSE "release"]
    /\ UNCHANGED <<store, workerVars, finish, waiting, stopped, reaping, history>>

ReapScan(p) ==
    /\ reaper[p] = "scan"
    /\ ExpiredLeases # {}
    /\ stale' = [stale EXCEPT ![p] = ExpiredLeases]
    /\ reaper' = [reaper EXCEPT ![p] = "release"]
    /\ UNCHANGED <<store, workerVars, finish, waiting, stopped, reaping, history>>

ReapRelease(p) ==
    /\ reaper[p] = "release"
    /\ \E j \in stale[p] : /\ RemoveInflight(j)
                           /\ stale' = [stale EXCEPT ![p] = @ \ {j}]
                           /\ reaping' = [reaping EXCEPT ![p] = j]
    /\ reaper' = [reaper EXCEPT ![p] = "add"]
    /\ UNCHANGED <<workerVars, finish, waiting, stopped, history>>

ReapAdd(p) ==
    /\ reaper[p] = "add"
    /\ queue[reaping[p]] < MaxCopies
    /\ AddToQueue(reaping[p])
    /\ reaper' = [reaper EXCEPT ![p] = "mark"]
    /\ UNCHANGED <<workerVars, finish, waiting, stopped, stale, reaping, history>>

ReapMark(p) ==
    /\ reaper[p] = "mark"
    /\ AddSeen(reaping[p])
    /\ reaping' = [reaping EXCEPT ![p] = NoJob]
    /\ reaper' = [reaper EXCEPT ![p] = IF stale[p] = {} THEN "scan" ELSE "release"]
    /\ UNCHANGED <<workerVars, finish, waiting, stopped, stale, history>>

\* reap_worker swallows the exception; the rest of the pass is skipped.
ReapError(p) ==
    /\ Mishap("error")
    /\ reaper[p] \in {"release", "add", "mark"}
    /\ lost' = lost \union InReaper(p)
    /\ reaper' = [reaper EXCEPT ![p] = "scan"]
    /\ stale' = [stale EXCEPT ![p] = {}]
    /\ reaping' = [reaping EXCEPT ![p] = NoJob]
    /\ UNCHANGED <<store, workerVars, finish, waiting, stopped, finished, starts>>

-----------------------------------------------------------------------------
(* A pod starts, finishes, is told to abort, or dies. *)

\* A new Dispatcher, max_workers worker tasks, a reaper and the finish task.
Start(p) ==
    /\ ~Up(p)
    /\ starts < MaxStarts
    /\ starts' = starts + 1
    /\ finish' = [finish EXCEPT ![p] = "zcard"]
    /\ reaper' = [reaper EXCEPT ![p] = "scan"]
    /\ pc' = [w \in Workers |-> IF w \in WorkersOf(p) THEN "get" ELSE pc[w]]
    /\ failures' = [w \in Workers |-> IF w \in WorkersOf(p) THEN 0 ELSE failures[w]]
    /\ UNCHANGED <<store, job, todo, next, waiting, stopped, stale, reaping,
                   finished, lost, events>>

\* The workers of the pod are cancelled at whatever await they are at.
CutOff(p) ==
    /\ pc' = [w \in Workers |-> IF w \in WorkersOf(p) THEN "quit" ELSE pc[w]]
    /\ job' = [w \in Workers |-> IF w \in WorkersOf(p) THEN NoJob ELSE job[w]]
    /\ todo' = [w \in Workers |-> IF w \in WorkersOf(p) THEN {} ELSE todo[w]]
    /\ next' = [w \in Workers |-> IF w \in WorkersOf(p) THEN NoJob ELSE next[w]]
    /\ failures' = [w \in Workers |-> IF w \in WorkersOf(p) THEN 0 ELSE failures[w]]

InHandOf(p) == UNION {InHand(w) : w \in WorkersOf(p)}

\* The process is gone, with everything it kept in memory.
Down(p) ==
    /\ CutOff(p)
    /\ lost' = lost \union InHandOf(p) \union InReaper(p)
    /\ finish' = [finish EXCEPT ![p] = "off"]
    /\ waiting' = [waiting EXCEPT ![p] = FALSE]
    /\ stopped' = [stopped EXCEPT ![p] = FALSE]
    /\ reaper' = [reaper EXCEPT ![p] = "off"]
    /\ stale' = [stale EXCEPT ![p] = {}]
    /\ reaping' = [reaping EXCEPT ![p] = NoJob]
    /\ UNCHANGED <<store, finished, starts>>

\* Dispatcher.join reads the size of the queue, then the number of leases.
JoinQueue(p) ==
    /\ finish[p] = "zcard"
    /\ waiting' = [waiting EXCEPT ![p] = QueuedJobs # {}]
    /\ finish' = [finish EXCEPT ![p] = "hlen"]
    /\ UNCHANGED <<store, workerVars, stopped, reaper, stale, reaping, history>>

JoinInflight(p) ==
    /\ finish[p] = "hlen"
    /\ finish' = [finish EXCEPT ![p] =
                    IF waiting[p] \/ InflightJobs # {} THEN "zcard" ELSE "cancel"]
    /\ waiting' = [waiting EXCEPT ![p] = FALSE]
    /\ UNCHANGED <<store, workerVars, stopped, reaper, stale, reaping, history>>

CancelWorkers(p) ==
    /\ finish[p] = "cancel"
    /\ CutOff(p)
    /\ lost' = lost \union InHandOf(p)
    /\ finish' = [finish EXCEPT ![p] = "cancelled"]
    /\ UNCHANGED <<store, waiting, stopped, reaper, stale, reaping, finished, events, starts>>

\* Nothing handles an exception in join: finish_task ends with it, and so does
\* the process unless abort is already waiting for the workers.
JoinError(p) ==
    /\ Mishap("error")
    /\ finish[p] \in {"zcard", "hlen"}
    /\ \/ ~stopped[p] /\ Down(p)
       \/ /\ stopped[p]
          /\ finish' = [finish EXCEPT ![p] = "raised"]
          /\ waiting' = [waiting EXCEPT ![p] = FALSE]
          /\ UNCHANGED <<store, workerVars, stopped, reaper, stale, reaping,
                         finished, lost, starts>>

\* SIGTERM: abort() sets Dispatcher._stopped and waits for the workers.
Abort(p) ==
    /\ Mishap("sigterm")
    /\ Up(p) /\ ~stopped[p]
    /\ stopped' = [stopped EXCEPT ![p] = TRUE]
    /\ UNCHANGED <<store, workerVars, finish, waiting, reaper, stale, reaping,
                   finished, lost, starts>>

\* finish() or abort() got all its workers; the reaper is cancelled, main ends.
Exit(p) ==
    /\ Up(p)
    /\ finish[p] = "cancelled" \/ stopped[p]
    /\ \A w \in WorkersOf(p) : pc[w] = "quit"
    /\ Down(p)
    /\ UNCHANGED events

Crash(p) ==
    /\ Mishap("crash")
    /\ Up(p)
    /\ Down(p)

-----------------------------------------------------------------------------
WorkerStep(w) ==
    \/ GetStopped(w) \/ GetBlock(w) \/ GetPop(w) \/ GetLease(w)
    \/ OfferSeen(w) \/ OfferNew(w) \/ PushNew(w)
    \/ HandlerReturns(w) \/ HandlerRaises(w)
    \/ Done(w) \/ FailRelease(w) \/ FailRecord(w) \/ Awake(w)

ReaperStep(p) == ReapScan(p) \/ ReapRelease(p) \/ ReapAdd(p) \/ ReapMark(p)

FinishStep(p) == JoinQueue(p) \/ JoinInflight(p) \/ CancelWorkers(p)

WorkerMishap(w) == DispatcherError(w) \/ OfferError(w)

PodMishap(p) == ReapError(p) \/ JoinError(p) \/ Abort(p) \/ Crash(p)

Next ==
    \/ \E w \in Workers : WorkerStep(w) \/ WorkerMishap(w)
    \/ \E p \in Pods : Start(p) \/ ReaperStep(p) \/ FinishStep(p) \/ Exit(p) \/ PodMishap(p)
    \/ \E j \in Jobs : LapseIdle(j) \/ LapseBusy(j)

Spec == Init /\ [][Next]_vars

\* asyncio runs every task that can run and Redis answers; BZPOPMIN serves its
\* waiters first come first served; the clock goes on, so an abandoned lease
\* runs out.  Neither a mishap nor a start is ever owed.
Fairness ==
    /\ \A w \in Workers : WF_vars(WorkerStep(w))
    /\ \A p \in Pods : /\ WF_vars(ReaperStep(p))
                       /\ WF_vars(FinishStep(p))
                       /\ WF_vars(Exit(p))
    /\ \A j \in Jobs : WF_vars(LapseIdle(j))

FairSpec == Spec /\ Fairness

-----------------------------------------------------------------------------
(***************************************************************************)
(* What the queue promises.                                                 *)
(***************************************************************************)

Pending(j) == \/ queue[j] > 0
              \/ inflight[j] # "free"
              \/ \E w \in Workers : j \in InHand(w)
              \/ \E p \in Pods : j \in InReaper(p)

Settled(j) == j \in finished \union failed \union lost

\* An id is offered to the queue at most once (enqueue_if_unseen), so whatever
\* forgets its job forgets it for good.  Whatever the pods, their crashes and
\* Redis errors do, a seen id has a job that is queued, leased, in the hand of
\* a live task, finished, failed, or was cut off between two commands.
Conservation ==
    \A i \in seen : \E j \in Jobs : JobId[j] = i /\ (Pending(j) \/ Settled(j))

\* When nothing is queued, leased or in hand, the crawl is complete: whatever
\* the handler of a finished job discovered has been dealt with as well, under
\* this depth or another.
CrawlClosure ==
    (\A j \in Jobs : ~Pending(j)) =>
        \A j \in finished : \A k \in Succ[j] :
            \E l \in Jobs : JobId[l] = JobId[k] /\ Settled(l)

\* What makes the three inductive.  No task outlives its pod; a worker releases
\* a job as done only after its handler has returned; what is in the books
\* stays in the books, and a reaper marks only jobs that are; a handler leaves
\* no successor out.
DownIsQuiet ==
    \A p \in Pods : ~Up(p) => /\ \A w \in WorkersOf(p) : pc[w] = "quit"
                              /\ reaper[p] = "off"

DoneIsFinished == \A w \in Workers : pc[w] = "done" => job[w] \in finished

Accounted(j) == Pending(j) \/ Settled(j)

MarkedIsAccounted == \A p \in Pods : reaper[p] = "mark" => Accounted(reaping[p])

SuccessorsSeen ==
    /\ \A w \in Workers : pc[w] \in {"run", "push"} =>
                             \A k \in Succ[job[w]] \ todo[w] : Seen(k)
    /\ \A j \in finished : \A k \in Succ[j] : Seen(k)

IInv == /\ TypeOK /\ DownIsQuiet /\ DoneIsFinished
        /\ MarkedIsAccounted /\ Conservation /\ SuccessorsSeen

\* The places a job of an id is at.
Places(i) ==
    LET OfId == {j \in Jobs : JobId[j] = i}
    IN  {<<"queue", j>> : j \in {k \in OfId : queue[k] > 0}}
          \union {<<"inflight", j>> : j \in {k \in OfId : inflight[k] # "free"}}
          \union {<<"worker", w>> : w \in {v \in Workers : InHand(v) \cap OfId # {}}}
          \union {<<"reaper", p>> : p \in {q \in Pods : InReaper(q) \cap OfId # {}}}

\* One crawler whose handlers keep within their leases: crashes, restarts and
\* Redis errors may repeat a job, but never at a time, and never leave two
\* copies of one discovery behind.
OnePlace ==
    \A i \in Ids : /\ \A x, y \in Places(i) : x = y
                   /\ \A j \in Jobs : queue[j] <= 1

\* Under the same conditions a worker holds the lease of the job it works on
\* until it gives it back itself: no reaper takes a job from under a worker.
LeaseHeld ==
    \A w \in Workers : pc[w] \in Working => inflight[job[w]] = "leased"

\* Seen from the ledger, under the same conditions, an id has one lifetime: it
\* is opened when it is marked seen, by the handler of another open id, and it
\* is closed when its last copy has left the queue, the leases and every hand;
\* no crash, retry or reaping brings it back after that.
IdStatus(i) ==
    IF i \notin seen THEN "new"
    ELSE IF \E j \in Jobs : JobId[j] = i /\ Pending(j) THEN "open" ELSE "closed"

Ledger == INSTANCE JobLedger WITH
              SeedIds <- {JobId[j] : j \in Seeds},
              status <- [i \in Ids |-> IdStatus(i)]

OneLifetime == Ledger!Spec

\* As long as some crawler is up, every discovered job is dealt with in the
\* end, those of crashed and cancelled workers too, unless a task was cut off
\* with the job in no structure.  If no crawler is left, the job is in the store
\* for the next one.
EverySeenSettles ==
    \A i \in Ids : (i \in seen /\ \E p \in Pods : Up(p)) ~>
        \E j \in Jobs : /\ JobId[j] = i
                       /\ \/ Settled(j)
                          \/ (\A p \in Pods : ~Up(p)) /\ j \in QueuedJobs \union InflightJobs

\* A crawler that runs comes to an end: the join of finish() sees the queue and
\* the leases empty, and an abort() is not left waiting for a parked worker.
CrawlEnds == \A p \in Pods : Up(p) ~> ~Up(p)

-----------------------------------------------------------------------------
(***************************************************************************)
(* What the repository says of the queue and the code does not keep.        *)
(***************************************************************************)

\* "finish() waits for the queue to EMPTY (so nothing in flight is cut off)":
\* finish() never cancels a worker that has a job.
NothingCutOff ==
    [][\A p \in Pods : CancelWorkers(p) => \A w \in WorkersOf(p) : pc[w] \notin WithJob]_vars

\* "a stopped dispatcher hands out no more work".
StoppedHandsOutNothing ==
    [][\A w \in Workers : stopped[Home[w]] => ~GetPop(w)]_vars
=============================================================================
