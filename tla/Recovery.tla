------------------------------ MODULE Recovery ------------------------------
(***************************************************************************)
(* bin/recover_failed.py and bin/recover_http_status.py: a script queues    *)
(* jobs again, those of the failed set or those whose subject shows a       *)
(* status that may pass, while crawlers may be at work on the same store.   *)
(* A script may be killed between any two commands and run again.           *)
(***************************************************************************)
EXTENDS JobStore, FiniteSets

CONSTANTS
    Workers,      \* of all pods; {} when no crawler runs
    Owners,       \* actors
    TypeOf,       \* job -> "webfinger", "actor", "collection" or "page"
    OwnerOf,      \* job -> the actor it is about
    DirectionOf,  \* job -> "followers", "following" or "none"
    HostOf,       \* actor -> hostname
    Neighbor,     \* actor -> its first neighbour in the graph, NoActor for none
    NoActor, NoJob,
    SeedActors,   \* actors of the seed file
    Scripts,      \* which of "failed" and "status" run
    MaxRuns, MaxKills, MaxFails  \* bounds on runs, on kills and on failures of jobs

RecoveryAssumption ==
    /\ TypeOf \in [Jobs -> {"webfinger", "actor", "collection", "page"}]
    /\ OwnerOf \in [Jobs -> Owners]
    /\ DirectionOf \in [Jobs -> {"followers", "following", "none"}]
    /\ Neighbor \in [Owners -> Owners \union {NoActor}]
    /\ SeedActors \subseteq Owners /\ Scripts \subseteq {"failed", "status"}
    /\ MaxRuns \in Nat /\ MaxKills \in Nat /\ MaxFails \in Nat

VARIABLES
    stamped,    \* actors whose node has a depth property
    hosted,     \* actors whose node has a hostname property
    bad,        \* jobs whose subject's status is one of the codes
    hand,       \* worker -> what it is at, with which job
    script,     \* what the script is at
    requeued,   \* jobs this run has queued (history)
    pending,    \* failed and not tried again since: what has to be kept (history)
    runs, kills, fails

graph == <<stamped, hosted, bad>>
history == <<requeued, pending>>
bounds == <<runs, kills, fails>>
vars == <<store, graph, hand, script, history, bounds>>

Nobody == [at |-> "idle"]
Off == [at |-> "off"]

\* A crawl has been over the jobs: each is queued, recorded as failed, or done,
\* with a good status or a bad one.
Init ==
    /\ failed \in SUBSET Jobs
    /\ \E waiting \in SUBSET (Jobs \ failed) :
          /\ queue = [j \in Jobs |-> IF j \in waiting THEN 1 ELSE 0]
          /\ bad \in SUBSET (Jobs \ (waiting \union failed))
    /\ inflight = [j \in Jobs |-> "free"]
    /\ seen = Ids
    /\ stamped \in SUBSET Owners
    /\ hosted \in SUBSET Owners
    /\ \A j \in bad : TypeOf[j] # "webfinger" /\ (TypeOf[j] \in {"collection", "page"} => OwnerOf[j] \in stamped \intersect hosted)
    /\ hand = [w \in Workers |-> Nobody]
    /\ script = Off
    /\ requeued = {} /\ pending = failed
    /\ runs = 0 /\ kills = 0 /\ fails = 0

-----------------------------------------------------------------------------
(* Crawlers. *)

Pop(w) ==
    /\ hand[w].at = "idle"
    /\ \E j \in Jobs : PopMin(j) /\ hand' = [hand EXCEPT ![w] = [at |-> "popped", job |-> j]]
    /\ UNCHANGED <<graph, script, history, bounds>>

Lease(w) ==
    /\ hand[w].at = "popped"
    /\ AddInflight(hand[w].job)
    /\ hand' = [hand EXCEPT ![w].at = "working"]
    /\ UNCHANGED <<graph, script, history, bounds>>

\* The handler ends, having saved a status.  An actor's handler saves the depth
\* and the hostname with it, whatever the status.
Finish(w) ==
    LET j == hand[w].job
        a == OwnerOf[j]
    IN  /\ hand[w].at = "working"
        /\ RemoveInflight(j)
        /\ \E good \in BOOLEAN :
              /\ bad' = IF good \/ TypeOf[j] = "webfinger" THEN bad \ {j} ELSE bad \union {j}
              /\ stamped' = IF TypeOf[j] = "actor" THEN stamped \union {a} ELSE stamped
              /\ hosted' = IF TypeOf[j] = "actor" THEN hosted \union {a} ELSE hosted
        /\ hand' = [hand EXCEPT ![w] = Nobody]
        /\ pending' = pending \ {j}
        /\ UNCHANGED <<script, requeued, bounds>>

\* The handler raises: fail() is two commands.
Raise(w) ==
    /\ hand[w].at = "working" /\ fails < MaxFails
    /\ RemoveInflight(hand[w].job)
    /\ hand' = [hand EXCEPT ![w].at = "failing"]
    /\ fails' = fails + 1
    /\ UNCHANGED <<graph, script, history, runs, kills>>

RecordFailed(w) ==
    /\ hand[w].at = "failing"
    /\ AddFailed(hand[w].job)
    /\ hand' = [hand EXCEPT ![w] = Nobody]
    /\ pending' = pending \union {hand[w].job}
    /\ UNCHANGED <<graph, script, requeued, bounds>>

-----------------------------------------------------------------------------
(* What the scripts queue again. *)

\* recover_failed knows a host by the hostname of an actor that was asked for.
Recoverable(j, hostnames) ==
    \/ TypeOf[j] \in {"page", "collection"}
    \/ TypeOf[j] = "actor" /\ HostOf[OwnerOf[j]] \in hostnames

\* Mutant: the page is queued beside its collection.
ActorFirst(j, k) ==
    /\ OwnerOf[j] = OwnerOf[k]
    /\ TypeOf[j] = "actor" /\ TypeOf[k] # "actor"

\* recover_http_status starts an actor, else for each direction its collection,
\* else the page the walk ended at.
Outranks(j, k) ==
    /\ OwnerOf[j] = OwnerOf[k]
    /\ \/ TypeOf[j] = "actor" /\ TypeOf[k] # "actor"
       \/ TypeOf[j] = "collection" /\ TypeOf[k] = "page" /\ DirectionOf[j] = DirectionOf[k]

\* The depth of a seed is 0; else it is the node's, else its neighbour's and one.
ActorHasDepth(a) == a \in stamped \union SeedActors \/ Neighbor[a] \in stamped

\* A collection or a page is taken up at the depth of its owner's node.
WalkHasDepth(a) == a \in stamped

HasDepth(j) ==
    \/ TypeOf[j] = "actor" /\ ActorHasDepth(OwnerOf[j])
    \/ TypeOf[j] \in {"collection", "page"} /\ WalkHasDepth(OwnerOf[j])

Restarts(snapshot) == {j \in snapshot : \A k \in snapshot : ~ Outranks(k, j)}

-----------------------------------------------------------------------------
(* A run. *)

\* The cursor over the nodes shows one state of them; SSCAN comes at least to
\* the members that stay in the set.
Begin(kind) ==
    /\ kind \in Scripts /\ script.at = "off" /\ runs < MaxRuns
    /\ script' = [at |-> "next", kind |-> kind, hostnames |-> {HostOf[a] : a \in hosted},
                  todo |-> IF kind = "failed" THEN failed ELSE Restarts(bad),
                  job |-> NoJob, began |-> {j \in bad : HasDepth(j)}]
    /\ requeued' = {}
    /\ runs' = runs + 1
    /\ UNCHANGED <<store, graph, hand, pending, kills, fails>>

Script == UNCHANGED <<graph, hand, bounds>>
To(at) == script' = [script EXCEPT !.at = at]

Pick ==
    /\ script.at = "next"
    /\ \E j \in script.todo \union (IF script.kind = "failed" THEN failed ELSE {}) :
          LET taken == IF script.kind = "failed" THEN Recoverable(j, script.hostnames) ELSE HasDepth(j)
          IN  script' = [script EXCEPT !.todo = @ \ {j}, !.job = j,
                                       !.at = IF taken THEN "free" ELSE "next"]
    /\ UNCHANGED <<store, history>> /\ Script

\* Mutant: unfail before enqueue.
FreeAndUnfail ==
    /\ script.at = "free" /\ To("add")
    /\ inflight' = [inflight EXCEPT ![script.job] = "free"]
    /\ failed' = failed \ {script.job}
    /\ UNCHANGED <<queue, seen, history>> /\ Script

\* Dispatcher.enqueue.
Free == script.at = "free" /\ RemoveInflight(script.job) /\ To("add") /\ UNCHANGED history /\ Script

Add ==
    /\ script.at = "add" /\ AddToQueue(script.job) /\ To("mark")
    /\ requeued' = requeued \union {script.job}
    /\ UNCHANGED pending /\ Script

\* Mutant: the lease is removed after the job is queued.
MarkAndFree ==
    /\ script.at = "mark" /\ inflight' = [inflight EXCEPT ![script.job] = "free"]
    /\ seen' = seen \union {JobId[script.job]}
    /\ To(IF script.kind = "failed" THEN "unfail" ELSE "next")
    /\ UNCHANGED <<queue, failed, history>> /\ Script

Mark ==
    /\ script.at = "mark" /\ AddSeen(script.job)
    /\ To(IF script.kind = "failed" THEN "unfail" ELSE "next")
    /\ UNCHANGED history /\ Script

Unfail ==
    /\ script.at = "unfail" /\ To("next")
    /\ failed' = failed \ {script.job}
    /\ UNCHANGED <<queue, inflight, seen, history>> /\ Script

End ==
    /\ script.at = "next" /\ script.todo = {}
    /\ To("done")
    /\ UNCHANGED <<store, history>> /\ Script

\* The next run starts from nothing.
Again ==
    /\ script.at = "done" /\ runs < MaxRuns
    /\ script' = Off
    /\ UNCHANGED <<store, history>> /\ Script

Kill ==
    /\ script.at \notin {"off", "done"} /\ kills < MaxKills
    /\ script' = Off
    /\ kills' = kills + 1
    /\ UNCHANGED <<store, graph, hand, history, runs, fails>>

Run == Pick \/ Free \/ Add \/ Mark \/ Unfail \/ End \/ Again

Work(w) == Pop(w) \/ Lease(w) \/ Finish(w) \/ Raise(w) \/ RecordFailed(w)

Next ==
    \/ \E kind \in Scripts : Begin(kind)
    \/ Run \/ Kill
    \/ \E w \in Workers : Work(w)

Spec == Init /\ [][Next]_vars

-----------------------------------------------------------------------------
InHand(j) == \E w \in Workers : hand[w] # Nobody /\ hand[w].job = j

(***************************************************************************)
(* CHANGELOG.md: "Save failed jobs for manual recovery".  A job that failed *)
(* and was not tried to the end since is in the failed set, in the queue,   *)
(* or in hand: recover_failed queues it before it takes it off the set.     *)
(***************************************************************************)
FailedIsKept == \A j \in pending : j \in failed \/ queue[j] > 0 \/ InHand(j)

(***************************************************************************)
(* A worker has a lease on the job it handles, whatever a run queues beside *)
(* it, so that no crawler sees queue and leases empty while a job is in     *)
(* hand: enqueue removes a lease before it adds the job.                    *)
(***************************************************************************)
InHandIsLeased ==
    \A w \in Workers : hand[w].at = "working" => inflight[hand[w].job] = "leased"

\* The chain of jobs a job belongs to: its owner's, in one direction.
SameChain(j, k) ==
    /\ OwnerOf[j] = OwnerOf[k]
    /\ TypeOf[j] = "actor" \/ TypeOf[k] = "actor" \/ DirectionOf[j] = DirectionOf[k]

(***************************************************************************)
(* tests/test_recover_http_status.py: one job per direction, "no parallel   *)
(* restarts"; and no chain that broke at a status is left, though crawlers  *)
(* change statuses and depths while the script reads.                       *)
(***************************************************************************)
OneRestart ==
    script.at # "off" /\ script.kind = "status" =>
        /\ \A j, k \in requeued : SameChain(j, k) => j = k
        /\ script.at = "done" => \A j \in script.began : \E k \in requeued : SameChain(j, k)
=============================================================================
