------------------------------ MODULE Seeding -------------------------------
(***************************************************************************)
(* bin/add_seeds.py, bin/add_seeds_by_actor_id.py and the composite script  *)
(* bin/main.py, which seeds, crawls and takes a snapshot.  Scripts run at   *)
(* the same time as each other and as other crawlers, on one store; one may *)
(* be killed and run again.  What its crawl does is CrawlQueue's; here a    *)
(* job is taken, leased and done, or queued again when its lease runs out.  *)
(***************************************************************************)
EXTENDS JobStore, Sequences

CONSTANTS
    Scripts,
    Composite,   \* the scripts that are main.py
    File,        \* script -> jobs of the lines of its file
    Workers,
    Home,        \* worker -> its main.py, NoScript if it is of another pod
    NoScript,
    MaxKills,    \* bound on kills
    MaxLapses    \* bound on the times the lease of a job runs out

SeedingAssumption ==
    /\ Composite \subseteq Scripts /\ NoScript \notin Scripts
    /\ File \in [Scripts -> SUBSET Jobs]
    /\ Home \in [Workers -> Composite \union {NoScript}]
    /\ MaxKills \in Nat /\ MaxLapses \in Nat

VARIABLES
    script,    \* script -> what it is at, the lines it has not come to
    hand,      \* worker -> what it is at, with which job
    reaper,    \* crawler -> expired jobs it has not come to yet, and the one that it
               \* took the lease of and has not queued
    written,   \* main.py runs that wrote their snapshot
    turns,     \* job -> how often a worker took it (history)
    ranOut,    \* job -> how often its lease ran out (history)
    again,     \* job -> how often a reaper queued it (history)
    cut,       \* jobs in the hands of a process that was cut off (history)
    kills

leases == <<ranOut, again>>
vars == <<store, script, hand, reaper, written, turns, leases, cut, kills>>

\* Each crawler has a reaper: that of a main.py, and that of the other pod.
Reapers == Composite \union {NoScript}

Off == [at |-> "off"]
Nobody == [at |-> "idle"]
Asleep == [stale |-> {}, reaping |-> {}]

TypeOK ==
    /\ StoreTypeOK
    /\ \A s \in Scripts : script[s].at \in {"off", "seed", "push", "done"} \union
                             (IF s \in Composite THEN {"crawl", "join", "finished"} ELSE {})
    /\ \A w \in Workers : hand[w].at \in {"idle", "popped", "working"}
    /\ reaper \in [Reapers -> [stale : SUBSET Jobs, reaping : SUBSET Jobs]]
    /\ written \subseteq Composite /\ turns \in [Jobs -> Nat] /\ cut \subseteq Jobs
    /\ ranOut \in [Jobs -> Nat] /\ again \in [Jobs -> Nat]

Init ==
    /\ queue = [j \in Jobs |-> 0]
    /\ inflight = [j \in Jobs |-> "free"]
    /\ failed = {} /\ seen = {}
    /\ script = [s \in Scripts |-> Off]
    /\ hand = [w \in Workers |-> Nobody]
    /\ reaper = [p \in Reapers |-> Asleep]
    /\ turns = [j \in Jobs |-> 0] /\ ranOut = [j \in Jobs |-> 0] /\ again = [j \in Jobs |-> 0]
    /\ written = {} /\ cut = {} /\ kills = 0

-----------------------------------------------------------------------------
(* Seeding: a line at a time, enqueue_if_unseen. *)

Start(s) ==
    /\ script[s].at \in {"off", "done"}
    /\ script' = [script EXCEPT ![s] = [at |-> "seed", left |-> File[s]]]
    /\ UNCHANGED <<store, hand, reaper, written, turns, leases, cut, kills>>

To(s, j, at) ==
    script' = [script EXCEPT ![s] = [at |-> at, job |-> j, left |-> script[s].left \ {j}]]

\* Mutant: the reply of SADD is read the wrong way round.
LineInverted(s) ==
    /\ script[s].at = "seed"
    /\ \E j \in script[s].left : AddSeen(j) /\ To(s, j, IF Seen(j) THEN "push" ELSE "seed")
    /\ UNCHANGED <<hand, reaper, written, turns, leases, cut, kills>>

\* Mutant: membership is asked for, and the id is not added with the same command.
LineAsks(s) ==
    /\ script[s].at = "seed"
    /\ \E j \in script[s].left : To(s, j, IF Seen(j) THEN "seed" ELSE "push")
    /\ UNCHANGED <<store, hand, reaper, written, turns, leases, cut, kills>>

\* SADD tells whether the id was new.
Line(s) ==
    /\ script[s].at = "seed"
    /\ \E j \in script[s].left : AddSeen(j) /\ To(s, j, IF Seen(j) THEN "seed" ELSE "push")
    /\ UNCHANGED <<hand, reaper, written, turns, leases, cut, kills>>

Push(s) ==
    /\ script[s].at = "push"
    /\ AddToQueue(script[s].job)
    /\ script' = [script EXCEPT ![s].at = "seed"]
    /\ UNCHANGED <<hand, reaper, written, turns, leases, cut, kills>>

Seeded(s) ==
    /\ script[s].at = "seed" /\ script[s].left = {}
    /\ script' = [script EXCEPT ![s].at = IF s \in Composite THEN "crawl" ELSE "done"]
    /\ UNCHANGED <<store, hand, reaper, written, turns, leases, cut, kills>>

-----------------------------------------------------------------------------
(* The crawl, of main.py or of another pod. *)

Crawls(p) == p \in {NoScript} \union {s \in Scripts : script[s].at \in {"crawl", "join"}}

AtWork(w) == Crawls(Home[w])

Pop(w) ==
    /\ AtWork(w) /\ hand[w] = Nobody
    /\ \E j \in Jobs : /\ PopMin(j)
                       /\ hand' = [hand EXCEPT ![w] = [at |-> "popped", job |-> j]]
                       /\ turns' = [turns EXCEPT ![j] = @ + 1]
    /\ UNCHANGED <<script, reaper, written, leases, cut, kills>>

Lease(w) ==
    /\ AtWork(w) /\ hand[w].at = "popped"
    /\ AddInflight(hand[w].job)
    /\ hand' = [hand EXCEPT ![w].at = "working"]
    /\ UNCHANGED <<script, reaper, written, turns, leases, cut, kills>>

Done(w) ==
    /\ AtWork(w) /\ hand[w].at = "working"
    /\ RemoveInflight(hand[w].job)
    /\ hand' = [hand EXCEPT ![w] = Nobody]
    /\ UNCHANGED <<script, reaper, written, turns, leases, cut, kills>>

\* The lease of a handler that is slow, or of a process that is no more.
Lapse(j) ==
    /\ ranOut[j] < MaxLapses
    /\ ExpireLease(j)
    /\ ranOut' = [ranOut EXCEPT ![j] = @ + 1]
    /\ UNCHANGED <<script, hand, reaper, written, turns, again, cut, kills>>

\* reap: the expired leases of all pods, each enqueued.
ReapScan(p) ==
    /\ Crawls(p) /\ reaper[p] = Asleep
    /\ ExpiredLeases # {}
    /\ reaper' = [reaper EXCEPT ![p].stale = ExpiredLeases]
    /\ UNCHANGED <<store, script, hand, written, turns, leases, cut, kills>>

ReapRelease(p) ==
    /\ Crawls(p) /\ reaper[p].reaping = {}
    /\ \E j \in reaper[p].stale :
          /\ RemoveInflight(j)
          /\ reaper' = [reaper EXCEPT ![p] = [stale |-> reaper[p].stale \ {j}, reaping |-> {j}]]
    /\ UNCHANGED <<script, hand, written, turns, leases, cut, kills>>

\* ZADD; the SADD after it adds an id that was seen when the job was first queued.
ReapAdd(p) ==
    /\ Crawls(p)
    /\ \E j \in reaper[p].reaping :
          /\ AddToQueue(j)
          /\ again' = [again EXCEPT ![j] = @ + 1]
    /\ reaper' = [reaper EXCEPT ![p].reaping = {}]
    /\ UNCHANGED <<script, hand, written, turns, ranOut, cut, kills>>

\* The end of a crawler's workers and of its reaper, with what they have in hand.
CutOff(s) ==
    /\ hand' = [w \in Workers |-> IF Home[w] = s THEN Nobody ELSE hand[w]]
    /\ reaper' = [p \in Reapers |-> IF p = s THEN Asleep ELSE reaper[p]]
    /\ cut' = cut \union {hand[w].job : w \in {v \in Workers : Home[v] = s /\ hand[v] # Nobody}}
                  \union (IF script[s].at = "push" THEN {script[s].job} ELSE {})
                  \union UNION {reaper[p].reaping : p \in Reapers \intersect {s}}

\* finish(): join() sees the queue empty, then no leases, and the workers are cancelled.
JoinQueue(s) ==
    /\ script[s].at = "crawl" /\ QueuedJobs = {}
    /\ script' = [script EXCEPT ![s].at = "join"]
    /\ UNCHANGED <<store, hand, reaper, written, turns, leases, cut, kills>>

JoinInflight(s) ==
    /\ script[s].at = "join"
    /\ IF InflightJobs = {}
       THEN CutOff(s) /\ script' = [script EXCEPT ![s].at = "finished"]
       ELSE script' = [script EXCEPT ![s].at = "crawl"] /\ UNCHANGED <<hand, reaper, cut>>
    /\ UNCHANGED <<store, written, turns, leases, kills>>

\* SIGTERM: abort() in place of finish(), and no snapshot.  The workers finish their
\* jobs, the reaper is cut off.
Abort(s) ==
    /\ script[s].at \in {"crawl", "join"}
    /\ \A w \in Workers : Home[w] = s => hand[w] = Nobody
    /\ CutOff(s)
    /\ script' = [script EXCEPT ![s] = Off]
    /\ UNCHANGED <<store, written, turns, leases, kills>>

Parameters == <<"G", "node_filename", "edge_filename">>
Arguments == <<"G", "output_filename">>

\* A call with too few arguments is a TypeError, and the script ends with it.
Snapshot(s) ==
    /\ script[s].at = "finished"
    /\ written' = IF Len(Arguments) = Len(Parameters) THEN written \union {s} ELSE written
    /\ script' = [script EXCEPT ![s].at = "done"]
    /\ UNCHANGED <<store, hand, reaper, turns, leases, cut, kills>>

Kill(s) ==
    /\ script[s].at \notin {"off", "done"} /\ kills < MaxKills
    /\ CutOff(s)
    /\ script' = [script EXCEPT ![s] = Off]
    /\ kills' = kills + 1
    /\ UNCHANGED <<store, written, turns, leases>>

Next ==
    \/ \E s \in Scripts :
          \/ Start(s) \/ Line(s) \/ Push(s) \/ Seeded(s)
          \/ JoinQueue(s) \/ JoinInflight(s) \/ Abort(s) \/ Snapshot(s) \/ Kill(s)
    \/ \E w \in Workers : Pop(w) \/ Lease(w) \/ Done(w)
    \/ \E j \in Jobs : Lapse(j)
    \/ \E p \in Reapers : ReapScan(p) \/ ReapRelease(p) \/ ReapAdd(p)

Spec == Init /\ [][Next]_vars

-----------------------------------------------------------------------------
(***************************************************************************)
(* The scripts queue a seed once at most, though two files name it, two     *)
(* scripts read them at the same time while a crawl takes jobs, and a       *)
(* script that was killed is run again.  It is handed out again only as     *)
(* often as a reaper queued it again, and a reaper does so only when a      *)
(* lease of it ran out, as that of a killed main.py does.                   *)
(***************************************************************************)
SeedOnce ==
    \A j \in Jobs : /\ queue[j] + turns[j] <= 1 + again[j]
                    /\ again[j] > 0 => ranOut[j] > 0

(***************************************************************************)
(* When a script has read its file to the end, each of its seeds is queued  *)
(* or has had its turn, or another script is about to queue it, or was cut  *)
(* off at that: enqueue_if_unseen leaves to others what they have begun.    *)
(***************************************************************************)
SeedsReachTheCrawl ==
    \A s \in Scripts : script[s].at \in {"crawl", "join", "finished", "done"} =>
        \A j \in File[s] :
            \/ queue[j] + turns[j] > 0 \/ j \in cut
            \/ \E t \in Scripts : script[t].at = "push" /\ script[t].job = j
=============================================================================
