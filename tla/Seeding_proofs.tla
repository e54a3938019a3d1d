---------------------------- MODULE Seeding_proofs ----------------------------
(***************************************************************************)
(* Theorems of Seeding, for any seed files, scripts and workers, and any    *)
(* number of kills and of leases that run out: enqueue_if_unseen adds the   *)
(* id before it queues the job, so the scripts queue a seed once, and it is *)
(* lost only with its script.                                               *)
(***************************************************************************)
EXTENDS Seeding, TLAPS

-----------------------------------------------------------------------------
(* Types. *)

Ended == {"crawl", "join", "finished", "done"}

\* What a script is at, before its first line and after.
Shapes(s) ==
    {Off} \union [at : {"seed"} \union Ended, left : SUBSET File[s]]
          \union [at : {"seed", "push"} \union Ended, job : File[s], left : SUBSET File[s]]

Hands == {Nobody} \union [at : {"popped", "working"}, job : Jobs]

Reaping == [stale : SUBSET Jobs, reaping : SUBSET Jobs]

Typed ==
    /\ queue \in [Jobs -> Nat] /\ inflight \in [Jobs -> {"free", "leased", "expired"}]
    /\ failed \subseteq Jobs /\ seen \subseteq Ids
    /\ turns \in [Jobs -> Nat] /\ cut \subseteq Jobs /\ written \subseteq Composite
    /\ ranOut \in [Jobs -> Nat] /\ again \in [Jobs -> Nat]
    /\ hand \in [Workers -> Hands] /\ reaper \in [Reapers -> Reaping]
    /\ script = [s \in Scripts |-> script[s]]
    /\ \A s \in Scripts : /\ script[s] \in Shapes(s)
                          /\ script[s].at \in {"crawl", "join", "finished"} => s \in Composite

Lines == UNION {File[s] : s \in Scripts}

LEMMA FilesOfJobs ==
  ASSUME SeedingAssumption
  PROVE  /\ \A s \in Scripts : File[s] \subseteq Jobs /\ File[s] \subseteq Lines
         /\ \A j \in Jobs : JobId[j] \in Ids
BY JobStoreAssumption DEF SeedingAssumption, Lines

\* What a script at a stage has.
LEMMA ShapeFacts ==
  ASSUME SeedingAssumption, Typed, NEW s \in Scripts
  PROVE  /\ script[s].at \in {"off", "seed", "push"} \union Ended
         /\ script[s].at # "off" => script[s].left \subseteq File[s]
         /\ script[s].at = "push" =>
               /\ script[s].job \in File[s] /\ script[s].job \in Jobs
               /\ script[s] \in [at : {"push"}, job : File[s], left : SUBSET File[s]]
<1>1. script[s] \in Shapes(s)
  BY DEF Typed
<1>2. CASE script[s] = Off
  BY <1>2 DEF Off
<1>3. CASE script[s] \in [at : {"seed"} \union Ended, left : SUBSET File[s]]
  BY <1>3 DEF Ended
<1>4. CASE script[s] \in [at : {"seed", "push"} \union Ended, job : File[s], left : SUBSET File[s]]
  BY <1>4, FilesOfJobs
<1>5. QED
  BY <1>1, <1>2, <1>3, <1>4 DEF Shapes

\* A script at at, with the rest of its record as it was.
LEMMA NewStage ==
  ASSUME SeedingAssumption, Typed, NEW s \in Scripts, script[s].at # "off",
         NEW at \in {"seed"} \union Ended
  PROVE  /\ [script[s] EXCEPT !.at = at] \in Shapes(s)
         /\ [script[s] EXCEPT !.at = at].at = at
         /\ [script[s] EXCEPT !.at = at].left = script[s].left
<1>1. script[s] \in Shapes(s) /\ script[s] # Off
  BY DEF Typed, Off
<1>2. CASE script[s] \in [at : {"seed"} \union Ended, left : SUBSET File[s]]
  BY <1>2 DEF Shapes
<1>3. CASE script[s] \in [at : {"seed", "push"} \union Ended, job : File[s], left : SUBSET File[s]]
  BY <1>3 DEF Shapes
<1>4. QED
  BY <1>1, <1>2, <1>3 DEF Shapes

\* Script s goes over to r.
LEMMA ScriptGoesTo ==
  ASSUME Typed, NEW s \in Scripts, NEW r, r \in Shapes(s), script' = [script EXCEPT ![s] = r],
         r.at \in {"crawl", "join", "finished"} => s \in Composite
  PROVE  /\ script'[s] = r /\ \A t \in Scripts : t # s => script'[t] = script[t]
         /\ script' = [t \in Scripts |-> script'[t]]
         /\ \A t \in Scripts : /\ script'[t] \in Shapes(t)
                               /\ script'[t].at \in {"crawl", "join", "finished"} => t \in Composite
<1>1. script = [t \in Scripts |-> script[t]]
  BY DEF Typed
<1>2. script'[s] = r /\ (\A t \in Scripts : t # s => script'[t] = script[t])
      /\ script' = [t \in Scripts |-> script'[t]]
  BY <1>1
<1>3. QED
  BY <1>2 DEF Typed

-----------------------------------------------------------------------------
(* What each step does to the scripts. *)

PushOf(r, j) == r.at = "push" /\ r.job = j

\* s goes from a record to another, and the others stay.
Moves(s, r) ==
    /\ script'[s] = r /\ (\A t \in Scripts : t # s => script'[t] = script[t])
    /\ script' = [t \in Scripts |-> script'[t]]
    /\ \A t \in Scripts : /\ script'[t] \in Shapes(t)
                          /\ script'[t].at \in {"crawl", "join", "finished"} => t \in Composite

LEMMA StartFacts ==
  ASSUME SeedingAssumption, Typed, NEW s \in Scripts, Start(s)
  PROVE  /\ Moves(s, [at |-> "seed", left |-> File[s]])
         /\ script[s].at \in {"off", "done"}
         /\ UNCHANGED <<queue, seen, turns, cut, inflight, failed, hand, written, reaper, leases>>
<1> DEFINE r == [at |-> "seed", left |-> File[s]]
<1>1. r \in Shapes(s) /\ r.at = "seed"
  BY DEF Shapes
<1>2. script' = [script EXCEPT ![s] = r]
  BY DEF Start
<1> HIDE DEF r
<1>3. Moves(s, r)
  BY <1>1, <1>2, ScriptGoesTo DEF Moves
<1>4. QED
  BY <1>3 DEF Start, store, r

LEMMA LineFacts ==
  ASSUME SeedingAssumption, Typed, NEW s \in Scripts, Line(s)
  PROVE  \E j \in script[s].left :
            /\ Moves(s, [at |-> IF JobId[j] \in seen THEN "seed" ELSE "push", job |-> j,
                         left |-> script[s].left \ {j}])
            /\ script[s].at = "seed" /\ j \in File[s] /\ script[s].left \subseteq File[s]
            /\ seen' = seen \union {JobId[j]}
            /\ UNCHANGED <<queue, turns, cut, inflight, failed, hand, written, reaper, leases>>
<1>1. PICK j \in script[s].left : AddSeen(j) /\ To(s, j, IF Seen(j) THEN "seed" ELSE "push")
  BY DEF Line
<1> DEFINE r == [at |-> IF JobId[j] \in seen THEN "seed" ELSE "push", job |-> j,
                 left |-> script[s].left \ {j}]
<1>2. script[s].at = "seed" /\ script[s].left \subseteq File[s] /\ j \in File[s]
  BY <1>1, ShapeFacts DEF Line
<1>3. r \in Shapes(s) /\ r.at \in {"seed", "push"}
  BY <1>2 DEF Shapes
<1>4. script' = [script EXCEPT ![s] = r]
  BY <1>1 DEF To, Seen
<1> HIDE DEF r
<1>5. Moves(s, r)
  BY <1>3, <1>4, ScriptGoesTo DEF Moves
<1>6. QED
  BY <1>1, <1>2, <1>5 DEF Line, AddSeen, r

LEMMA PushFacts ==
  ASSUME SeedingAssumption, Typed, NEW s \in Scripts, Push(s)
  PROVE  /\ Moves(s, [script[s] EXCEPT !.at = "seed"])
         /\ script[s].at = "push" /\ script[s].job \in Jobs
         /\ script'[s].at = "seed" /\ script'[s].left = script[s].left
         /\ queue' = [queue EXCEPT ![script[s].job] = @ + 1]
         /\ UNCHANGED <<seen, turns, cut, inflight, failed, hand, written, reaper, leases>>
<1> DEFINE r == [script[s] EXCEPT !.at = "seed"]
<1>1. script[s].at = "push" /\ script[s].job \in Jobs
  BY ShapeFacts DEF Push
<1>2. r \in Shapes(s) /\ r.at = "seed" /\ r.left = script[s].left
  BY <1>1, NewStage
<1>3. script' = [script EXCEPT ![s] = r]
  BY DEF Push, Typed
<1> HIDE DEF r
<1>4. Moves(s, r)
  BY <1>2, <1>3, ScriptGoesTo DEF Moves
<1>5. QED
  BY <1>1, <1>2, <1>4 DEF Push, AddToQueue, r, Moves

\* What a process that ends leaves of what workers and reapers have in hand.
Fewer ==
    /\ hand' \in [Workers -> Hands] /\ reaper' \in [Reapers -> Reaping]
    /\ \A w \in Workers : hand'[w] = hand[w] \/ hand'[w] = Nobody
    /\ \A p \in Reapers : reaper'[p] = reaper[p] \/ reaper'[p] = Asleep

LEMMA CutOffFacts ==
  ASSUME SeedingAssumption, Typed, NEW s \in Scripts, CutOff(s)
  PROVE  /\ Fewer /\ cut \subseteq cut' /\ cut' \subseteq Jobs
         /\ \A j : script[s].at = "push" /\ script[s].job = j => j \in cut'
<1>1. /\ hand \in [Workers -> Hands] /\ cut \subseteq Jobs /\ reaper \in [Reapers -> Reaping]
      /\ Nobody \in Hands /\ Asleep \in Reaping
  BY DEF Typed, Hands, Reaping, Asleep
<1>2. \A w \in Workers : hand[w] # Nobody => hand[w].job \in Jobs
  BY <1>1 DEF Hands
<1>3. script[s].at = "push" => script[s].job \in Jobs
  BY ShapeFacts
<1>4. UNION {reaper[p].reaping : p \in Reapers \intersect {s}} \subseteq Jobs
  BY <1>1 DEF Reaping
<1>5. cut \subseteq cut' /\ cut' \subseteq Jobs
      /\ \A j : script[s].at = "push" /\ script[s].job = j => j \in cut'
  BY <1>1, <1>2, <1>3, <1>4 DEF CutOff
<1>6. Fewer
  BY <1>1 DEF CutOff, Fewer
<1>7. QED
  BY <1>5, <1>6

\* The steps that go on to a later stage.
LEMMA StageFacts ==
  ASSUME SeedingAssumption, Typed, NEW s \in Scripts,
         Seeded(s) \/ JoinQueue(s) \/ JoinInflight(s) \/ Snapshot(s)
  PROVE  \E r : /\ Moves(s, r)
                /\ script[s].at \in {"seed"} \union Ended /\ r.at \in Ended
                /\ script[s].at = "seed" => script[s].left = {}
                /\ r.left = script[s].left
                /\ UNCHANGED <<queue, seen, turns, inflight, failed, leases>>
                /\ cut \subseteq cut' /\ cut' \subseteq Jobs /\ written' \subseteq Composite
                /\ Fewer
<1>1. PICK at \in Ended : /\ script' = [script EXCEPT ![s].at = at]
                          /\ at \in {"crawl", "join", "finished"} => s \in Composite
  BY DEF Seeded, JoinQueue, JoinInflight, Snapshot, Ended, Typed
<1>2. /\ script[s].at \in {"seed"} \union Ended
      /\ script[s].at = "seed" => script[s].left = {}
  BY DEF Seeded, JoinQueue, JoinInflight, Snapshot, Ended
<1> DEFINE r == [script[s] EXCEPT !.at = at]
<1>3. script[s].at # "off"
  BY <1>2 DEF Ended
<1>4. r \in Shapes(s) /\ r.at = at /\ r.left = script[s].left
  BY <1>3, NewStage
<1>5. script' = [script EXCEPT ![s] = r]
  BY <1>1 DEF Typed
<1> HIDE DEF r
<1>6. Moves(s, r)
  BY <1>1, <1>4, <1>5, ScriptGoesTo DEF Moves
<1>7. UNCHANGED <<queue, seen, turns, inflight, failed, leases>>
  BY DEF Seeded, JoinQueue, JoinInflight, Snapshot, store
<1>8. cut \subseteq cut' /\ cut' \subseteq Jobs /\ Fewer
  <2>1. CASE UNCHANGED <<cut, hand, reaper>>
    BY <2>1 DEF Typed, Fewer
  <2>2. CASE CutOff(s)
    BY <2>2, CutOffFacts
  <2>3. QED
    BY <2>1, <2>2 DEF Seeded, JoinQueue, JoinInflight, Snapshot
<1>9. written' \subseteq Composite
  <2>1. Snapshot(s) => s \in Composite
    BY DEF Snapshot, Typed
  <2>2. QED
    BY <2>1 DEF Seeded, JoinQueue, JoinInflight, Snapshot, Typed
<1>10. QED
  BY <1>1, <1>2, <1>4, <1>6, <1>7, <1>8, <1>9

\* The steps that end a script.
LEMMA StopFacts ==
  ASSUME SeedingAssumption, Typed, NEW s \in Scripts, Abort(s) \/ Kill(s)
  PROVE  /\ Moves(s, Off)
         /\ \A j : PushOf(script[s], j) => j \in cut'
         /\ UNCHANGED <<queue, seen, turns, inflight, failed, written, leases>>
         /\ cut \subseteq cut' /\ cut' \subseteq Jobs /\ Fewer
<1>1. Off \in Shapes(s) /\ Off.at = "off"
  BY DEF Shapes, Off
<1>2. script' = [script EXCEPT ![s] = Off]
  BY DEF Abort, Kill
<1>3. Moves(s, Off)
  BY <1>1, <1>2, ScriptGoesTo DEF Moves
<1>4. UNCHANGED <<queue, seen, turns, inflight, failed, written, leases>>
  BY DEF Abort, Kill, store
<1>5. CutOff(s)
  BY DEF Abort, Kill
<1>6. QED
  BY <1>3, <1>4, <1>5, CutOffFacts DEF PushOf

\* The workers move no script, and a job they take had been queued.
LEMMA WorkFacts ==
  ASSUME SeedingAssumption, Typed, NEW w \in Workers, Pop(w) \/ Lease(w) \/ Done(w)
  PROVE  /\ UNCHANGED <<script, seen, cut, failed, written, reaper, leases>>
         /\ queue' \in [Jobs -> Nat] /\ turns' \in [Jobs -> Nat]
         /\ \A j \in Jobs : queue'[j] + turns'[j] = queue[j] + turns[j]
         /\ inflight' \in [Jobs -> {"free", "leased", "expired"}]
         /\ hand' \in [Workers -> Hands]
<1>1. /\ queue \in [Jobs -> Nat] /\ turns \in [Jobs -> Nat] /\ hand \in [Workers -> Hands]
      /\ inflight \in [Jobs -> {"free", "leased", "expired"}]
  BY DEF Typed
<1>2. CASE Pop(w)
  <2>1. PICK j \in Jobs : /\ PopMin(j) /\ turns' = [turns EXCEPT ![j] = @ + 1]
                          /\ hand' = [hand EXCEPT ![w] = [at |-> "popped", job |-> j]]
    BY <1>2 DEF Pop
  <2>2. queue[j] > 0 /\ queue' = [queue EXCEPT ![j] = @ - 1] /\ UNCHANGED <<inflight, failed, seen>>
    BY <2>1 DEF PopMin
  <2>3. queue' \in [Jobs -> Nat] /\ turns' \in [Jobs -> Nat]
    BY <1>1, <2>1, <2>2
  <2>4. \A k \in Jobs : queue'[k] + turns'[k] = queue[k] + turns[k]
    BY <1>1, <2>1, <2>2
  <2>5. hand' \in [Workers -> Hands]
    BY <1>1, <2>1 DEF Hands
  <2>6. QED
    BY <1>1, <1>2, <2>2, <2>3, <2>4, <2>5 DEF Pop
<1>3. CASE Lease(w)
  <2>1. hand[w] \in [at : {"popped", "working"}, job : Jobs]
    BY <1>1, <1>3 DEF Lease, Hands, Nobody
  <2>2. [hand[w] EXCEPT !.at = "working"] \in Hands
    BY <2>1 DEF Hands
  <2>3. hand' \in [Workers -> Hands]
    BY <1>1, <1>3, <2>2 DEF Lease
  <2>4. QED
    BY <1>1, <1>3, <2>3 DEF Lease, AddInflight
<1>4. CASE Done(w)
  BY <1>1, <1>4 DEF Done, RemoveInflight, Hands
<1>5. QED
  BY <1>2, <1>3, <1>4

\* The reapers and the clock move no script and no worker.
ReapTypes ==
    /\ UNCHANGED <<script, seen, cut, failed, written, hand, turns>>
    /\ queue' \in [Jobs -> Nat] /\ again' \in [Jobs -> Nat] /\ ranOut' \in [Jobs -> Nat]
    /\ inflight' \in [Jobs -> {"free", "leased", "expired"}]
    /\ reaper' \in [Reapers -> Reaping]

LEMMA ReapFacts ==
  ASSUME SeedingAssumption, Typed,
         \/ \E p \in Reapers : ReapScan(p) \/ ReapRelease(p) \/ ReapAdd(p)
         \/ \E k \in Jobs : Lapse(k)
  PROVE  ReapTypes
<1>1. /\ queue \in [Jobs -> Nat] /\ again \in [Jobs -> Nat] /\ ranOut \in [Jobs -> Nat]
      /\ inflight \in [Jobs -> {"free", "leased", "expired"}] /\ reaper \in [Reapers -> Reaping]
  BY DEF Typed
<1>2. ASSUME NEW p \in Reapers, ReapScan(p)
      PROVE  ReapTypes
  <2>1. ExpiredLeases \subseteq Jobs
    BY DEF ExpiredLeases
  <2>2. reaper' \in [Reapers -> Reaping]
    BY <1>1, <1>2, <2>1 DEF ReapScan, Reaping
  <2>3. QED
    BY <1>1, <1>2, <2>2 DEF ReapScan, store, leases, ReapTypes
<1>3. ASSUME NEW p \in Reapers, ReapRelease(p)
      PROVE  ReapTypes
  <2>1. PICK j \in reaper[p].stale :
           /\ RemoveInflight(j)
           /\ reaper' = [reaper EXCEPT ![p] = [stale |-> reaper[p].stale \ {j}, reaping |-> {j}]]
    BY <1>3 DEF ReapRelease
  <2>2. reaper' \in [Reapers -> Reaping]
    BY <1>1, <2>1 DEF Reaping
  <2>3. inflight' \in [Jobs -> {"free", "leased", "expired"}]
    BY <1>1, <2>1 DEF RemoveInflight
  <2>4. QED
    BY <1>1, <1>3, <2>1, <2>2, <2>3 DEF ReapRelease, RemoveInflight, leases, ReapTypes
<1>4. ASSUME NEW p \in Reapers, ReapAdd(p)
      PROVE  ReapTypes
  <2>1. PICK j \in reaper[p].reaping : AddToQueue(j) /\ again' = [again EXCEPT ![j] = @ + 1]
    BY <1>4 DEF ReapAdd
  <2>2. queue' \in [Jobs -> Nat] /\ again' \in [Jobs -> Nat]
    <3>1. j \in Jobs /\ queue' = [queue EXCEPT ![j] = @ + 1]
      BY <1>1, <2>1 DEF AddToQueue, Reaping
    <3>2. QED
      BY <1>1, <2>1, <3>1
  <2>3. reaper' \in [Reapers -> Reaping]
    BY <1>1, <1>4 DEF ReapAdd, Reaping
  <2>4. QED
    BY <1>1, <1>4, <2>1, <2>2, <2>3 DEF ReapAdd, AddToQueue, ReapTypes
<1>5. ASSUME NEW k \in Jobs, Lapse(k)
      PROVE  ReapTypes
  BY <1>1, <1>5 DEF Lapse, ExpireLease, ReapTypes
<1>6. QED
  BY <1>2, <1>3, <1>4, <1>5

-----------------------------------------------------------------------------
(* The invariant. *)

Drawn(j) == queue[j] + turns[j]

\* A job comes to the queue from the one script that added its id.
Once ==
    \A j \in Jobs :
        /\ Drawn(j) <= 1 + again[j]
        /\ Drawn(j) > 0 => JobId[j] \in seen
        /\ \A s \in Scripts : PushOf(script[s], j) =>
              /\ JobId[j] \in seen /\ Drawn(j) = 0
              /\ \A t \in Scripts : PushOf(script[t], j) => t = s

\* What a worker has in hand, what has a lease and what a reaper has on its list was
\* taken by a worker before; and a reaper has what had a lease that ran out.
TakenBefore ==
    /\ \A w \in Workers : hand[w] # Nobody => turns[hand[w].job] > 0
    /\ \A j \in Jobs : /\ inflight[j] # "free" => turns[j] > 0
                       /\ inflight[j] = "expired" => ranOut[j] > 0
                       /\ again[j] > 0 => ranOut[j] > 0
    /\ \A p \in Reapers : \A j \in reaper[p].stale \union reaper[p].reaping :
          turns[j] > 0 /\ ranOut[j] > 0

\* Lines that a script has read have been seen, by it or before it.
ReadIsSeen ==
    \A s \in Scripts : script[s].at # "off" =>
        /\ script[s].at \in Ended => script[s].left = {}
        /\ \A j \in File[s] \ script[s].left : JobId[j] \in seen

\* What has been seen was drawn, or is about to be queued, or was cut off at that.
SeenIsDrawn ==
    \A j \in Lines : JobId[j] \in seen =>
        \/ Drawn(j) > 0 \/ j \in cut
        \/ \E s \in Scripts : PushOf(script[s], j)

\* bin/add_seeds.py queues seeds at depth 0: two of an id are one job.
OneJobEach == \A j, k \in Lines : JobId[j] = JobId[k] => j = k

LEMMA OneMore ==
  ASSUME NEW q \in [Jobs -> Nat], NEW j \in Jobs
  PROVE  /\ [q EXCEPT ![j] = @ + 1] \in [Jobs -> Nat] /\ [q EXCEPT ![j] = @ + 1][j] = q[j] + 1
         /\ \A k \in Jobs : k # j => [q EXCEPT ![j] = @ + 1][k] = q[k]
OBVIOUS

LEMMA TypedStep ==
  ASSUME SeedingAssumption, Typed, [Next]_vars
  PROVE  Typed'
<1>1. CASE UNCHANGED vars
  BY <1>1 DEF Typed, vars, store, leases
<1>2. ASSUME NEW s \in Scripts, Start(s)
      PROVE  Typed'
  BY <1>2, StartFacts DEF Typed, Moves, leases
<1>3. ASSUME NEW s \in Scripts, Line(s)
      PROVE  Typed'
  <2>1. PICK j \in File[s] : seen' = seen \union {JobId[j]}
    BY <1>3, LineFacts
  <2>2. seen' \subseteq Ids
    BY <2>1, FilesOfJobs DEF Typed
  <2>3. QED
    BY <1>3, <2>2, LineFacts DEF Typed, Moves, leases
<1>4. ASSUME NEW s \in Scripts, Push(s)
      PROVE  Typed'
  <2>1. queue' \in [Jobs -> Nat]
    <3>1. queue \in [Jobs -> Nat] /\ script[s].job \in Jobs /\ queue' = [queue EXCEPT ![script[s].job] = @ + 1]
      BY <1>4, PushFacts DEF Typed
    <3>2. QED
      BY <3>1, OneMore
  <2>2. QED
    BY <1>4, <2>1, PushFacts DEF Typed, Moves, leases
<1>5. ASSUME NEW s \in Scripts, Seeded(s) \/ JoinQueue(s) \/ JoinInflight(s) \/ Snapshot(s)
      PROVE  Typed'
  BY <1>5, StageFacts DEF Typed, Moves, Fewer, leases
<1>6. ASSUME NEW s \in Scripts, Abort(s) \/ Kill(s)
      PROVE  Typed'
  BY <1>6, StopFacts DEF Typed, Moves, Fewer, leases
<1>7. ASSUME NEW w \in Workers, Pop(w) \/ Lease(w) \/ Done(w)
      PROVE  Typed'
  BY <1>7, WorkFacts DEF Typed, leases
<1>8. CASE \/ \E p \in Reapers : ReapScan(p) \/ ReapRelease(p) \/ ReapAdd(p)
           \/ \E k \in Jobs : Lapse(k)
  BY <1>8, ReapFacts DEF Typed, ReapTypes
<1>9. QED
  BY <1>1, <1>2, <1>3, <1>4, <1>5, <1>6, <1>7, <1>8 DEF Next

LEMMA TakenBeforeStep ==
  ASSUME SeedingAssumption, Typed, TakenBefore, [Next]_vars
  PROVE  TakenBefore'
<1>1. /\ turns \in [Jobs -> Nat] /\ hand \in [Workers -> Hands] /\ reaper \in [Reapers -> Reaping]
      /\ again \in [Jobs -> Nat] /\ ranOut \in [Jobs -> Nat]
      /\ inflight \in [Jobs -> {"free", "leased", "expired"}]
  BY DEF Typed
<1>2. ASSUME Fewer, UNCHANGED <<inflight, turns, leases>>
      PROVE  TakenBefore'
  BY <1>2 DEF Fewer, Asleep, TakenBefore, leases
<1>3. ASSUME UNCHANGED <<hand, reaper, inflight, turns, leases>>
      PROVE  TakenBefore'
  BY <1>3 DEF TakenBefore, leases
<1>4. CASE UNCHANGED vars
  BY <1>3, <1>4 DEF vars, store
<1>5. ASSUME NEW s \in Scripts, Start(s) \/ Line(s) \/ Push(s)
      PROVE  TakenBefore'
  BY <1>3, <1>5, StartFacts, LineFacts, PushFacts
<1>6. ASSUME NEW s \in Scripts, Seeded(s) \/ JoinQueue(s) \/ JoinInflight(s) \/ Snapshot(s)
      PROVE  TakenBefore'
  BY <1>2, <1>6, StageFacts
<1>7. ASSUME NEW s \in Scripts, Abort(s) \/ Kill(s)
      PROVE  TakenBefore'
  BY <1>2, <1>7, StopFacts
<1>8. ASSUME NEW w \in Workers, Pop(w)
      PROVE  TakenBefore'
  <2>1. PICK j \in Jobs : /\ PopMin(j) /\ turns' = [turns EXCEPT ![j] = @ + 1]
                          /\ hand' = [hand EXCEPT ![w] = [at |-> "popped", job |-> j]]
    BY <1>8 DEF Pop
  <2>2. UNCHANGED <<reaper, inflight, again, ranOut>>
    BY <1>8, <2>1 DEF Pop, PopMin, leases
  <2>3. turns'[j] > 0 /\ \A k \in Jobs : turns[k] > 0 => turns'[k] > 0
    BY <1>1, <2>1
  <2>4. \A v \in Workers : hand[v] # Nobody => hand[v].job \in Jobs
    BY <1>1 DEF Hands
  <2>5. ASSUME NEW v \in Workers, hand'[v] # Nobody
        PROVE  turns'[hand'[v].job] > 0
    <3>1. CASE v = w
      BY <1>1, <2>1, <2>3, <3>1
    <3>2. CASE v # w
      BY <1>1, <2>1, <2>3, <2>4, <2>5, <3>2 DEF TakenBefore
    <3>3. QED
      BY <3>1, <3>2
  <2>6. \A p \in Reapers : reaper[p].stale \union reaper[p].reaping \subseteq Jobs
    BY <1>1 DEF Reaping
  <2>7. QED
    BY <2>2, <2>3, <2>5, <2>6 DEF TakenBefore
<1>9. ASSUME NEW w \in Workers, Lease(w) \/ Done(w)
      PROVE  TakenBefore'
  <2>1. UNCHANGED <<reaper, turns, again, ranOut>>
    BY <1>9 DEF Lease, Done, leases
  <2>2. \A v \in Workers : hand'[v] # Nobody => hand[v] # Nobody /\ hand'[v].job = hand[v].job
    <3>1. CASE Lease(w)
      <4>1. hand[w] \in [at : {"popped", "working"}, job : Jobs]
        BY <1>1, <3>1 DEF Lease, Hands, Nobody
      <4>2. hand[w] # Nobody /\ [hand[w] EXCEPT !.at = "working"].job = hand[w].job
        BY <3>1, <4>1 DEF Lease, Nobody
      <4>3. QED
        BY <1>1, <3>1, <4>2 DEF Lease
    <3>2. CASE Done(w)
      BY <1>1, <3>2 DEF Done
    <3>3. QED
      BY <1>9, <3>1, <3>2
  <2>3. \A j \in Jobs : /\ inflight'[j] # "free" => inflight[j] # "free" \/ turns[j] > 0
                        /\ inflight'[j] = "expired" => inflight[j] = "expired"
    <3>1. CASE Lease(w)
      <4>1. hand[w].at = "popped" /\ inflight' = [inflight EXCEPT ![hand[w].job] = "leased"]
        BY <3>1 DEF Lease, AddInflight
      <4>2. turns[hand[w].job] > 0
        BY <4>1 DEF TakenBefore, Nobody
      <4>3. QED
        BY <1>1, <4>1, <4>2
    <3>2. CASE Done(w)
      BY <1>1, <3>2 DEF Done, RemoveInflight
    <3>3. QED
      BY <1>9, <3>1, <3>2
  <2>4. QED
    BY <2>1, <2>2, <2>3 DEF TakenBefore
<1>10. ASSUME NEW k \in Jobs, Lapse(k)
       PROVE  TakenBefore'
  <2>1. /\ inflight[k] = "leased" /\ inflight' = [inflight EXCEPT ![k] = "expired"]
        /\ ranOut' = [ranOut EXCEPT ![k] = @ + 1]
        /\ UNCHANGED <<hand, reaper, turns, again>>
    BY <1>10 DEF Lapse, ExpireLease
  <2>2. ranOut'[k] > 0 /\ \A j \in Jobs : ranOut[j] > 0 => ranOut'[j] > 0
    BY <1>1, <2>1
  <2>3. \A j \in Jobs : /\ inflight'[j] # "free" => inflight[j] # "free"
                        /\ inflight'[j] = "expired" => inflight[j] = "expired" \/ j = k
    BY <1>1, <2>1
  <2>4. \A p \in Reapers : reaper[p].stale \union reaper[p].reaping \subseteq Jobs
    BY <1>1 DEF Reaping
  <2>5. QED
    BY <2>1, <2>2, <2>3, <2>4 DEF TakenBefore
<1>11. ASSUME NEW p \in Reapers, ReapScan(p)
       PROVE  TakenBefore'
  <2>1. /\ reaper' = [reaper EXCEPT ![p].stale = ExpiredLeases]
        /\ UNCHANGED <<inflight, hand, turns, again, ranOut>>
    BY <1>11 DEF ReapScan, store, leases
  <2>2. \A j \in ExpiredLeases : turns[j] > 0 /\ ranOut[j] > 0
    <3>1. \A j \in ExpiredLeases : j \in Jobs /\ inflight[j] = "expired"
      BY DEF ExpiredLeases
    <3>2. QED
      BY <3>1 DEF TakenBefore
  <2>3. /\ \A q \in Reapers : q # p => reaper'[q] = reaper[q]
        /\ reaper'[p].stale = ExpiredLeases /\ reaper'[p].reaping = reaper[p].reaping
    BY <1>1, <2>1 DEF Reaping
  <2>4. QED
    BY <2>1, <2>2, <2>3 DEF TakenBefore
<1>12. ASSUME NEW p \in Reapers, ReapRelease(p)
       PROVE  TakenBefore'
  <2>1. PICK j \in reaper[p].stale :
           /\ RemoveInflight(j)
           /\ reaper' = [reaper EXCEPT ![p] = [stale |-> reaper[p].stale \ {j}, reaping |-> {j}]]
    BY <1>12 DEF ReapRelease
  <2>2. UNCHANGED <<hand, turns, again, ranOut>>
    BY <1>12 DEF ReapRelease, leases
  <2>3. \A k \in Jobs : inflight'[k] = inflight[k] \/ inflight'[k] = "free"
    BY <1>1, <2>1 DEF RemoveInflight
  <2>4. \A q \in Reapers : reaper'[q].stale \union reaper'[q].reaping
                             \subseteq reaper[q].stale \union reaper[q].reaping
    <3>1. \A q \in Reapers : q # p => reaper'[q] = reaper[q]
      BY <1>1, <2>1
    <3>2. reaper'[p].stale = reaper[p].stale \ {j} /\ reaper'[p].reaping = {j}
      BY <1>1, <2>1
    <3>3. QED
      BY <3>1, <3>2
  <2>5. QED
    BY <2>2, <2>3, <2>4 DEF TakenBefore
<1>13. ASSUME NEW p \in Reapers, ReapAdd(p)
       PROVE  TakenBefore'
  <2>1. PICK j \in reaper[p].reaping : AddToQueue(j) /\ again' = [again EXCEPT ![j] = @ + 1]
    BY <1>13 DEF ReapAdd
  <2>2. /\ reaper' = [reaper EXCEPT ![p].reaping = {}]
        /\ UNCHANGED <<hand, turns, ranOut, inflight>>
    BY <1>13, <2>1 DEF ReapAdd, AddToQueue
  <2>3. ranOut[j] > 0 /\ j \in Jobs
    BY <1>1, <2>1 DEF TakenBefore, Reaping
  <2>4. \A k \in Jobs : again'[k] > 0 => again[k] > 0 \/ k = j
    BY <1>1, <2>1
  <2>5. \A q \in Reapers : reaper'[q].stale \union reaper'[q].reaping
                             \subseteq reaper[q].stale \union reaper[q].reaping
    <3>1. \A q \in Reapers : q # p => reaper'[q] = reaper[q]
      BY <1>1, <2>2
    <3>2. reaper'[p].stale = reaper[p].stale /\ reaper'[p].reaping = {}
      BY <1>1, <2>2 DEF Reaping
    <3>3. QED
      BY <3>1, <3>2
  <2>6. QED
    BY <2>2, <2>3, <2>4, <2>5 DEF TakenBefore
<1>14. QED
  BY <1>4, <1>5, <1>6, <1>7, <1>8, <1>9, <1>10, <1>11, <1>12, <1>13 DEF Next

\* No job is drawn, and no script but those that stop or start one is at a push.
LEMMA OnceStep ==
  ASSUME SeedingAssumption, Typed, TakenBefore, Once, [Next]_vars
  PROVE  Once'
<1>1. queue \in [Jobs -> Nat] /\ turns \in [Jobs -> Nat] /\ again \in [Jobs -> Nat]
  BY DEF Typed
<1>2. ASSUME \A j \in Jobs : Drawn(j)' = Drawn(j), seen \subseteq seen', again' = again,
             \A s \in Scripts, j \in Jobs : PushOf(script'[s], j) => PushOf(script[s], j)
      PROVE  Once'
  BY <1>2 DEF Once
<1>3. CASE UNCHANGED vars
  BY <1>2, <1>3 DEF vars, store, leases, Drawn
<1>4. ASSUME NEW s \in Scripts, Start(s)
      PROVE  Once'
  <2>1. /\ UNCHANGED <<queue, turns, seen, again>> /\ script'[s].at # "push"
        /\ \A t \in Scripts : t # s => script'[t] = script[t]
    <3>1. Moves(s, [at |-> "seed", left |-> File[s]]) /\ UNCHANGED <<queue, turns, seen, again>>
      BY <1>4, StartFacts DEF leases
    <3>2. QED
      BY <3>1 DEF Moves
  <2>2. QED
    BY <1>2, <2>1 DEF PushOf, Drawn
<1>5. ASSUME NEW s \in Scripts, Line(s)
      PROVE  Once'
  <2>1. PICK j \in File[s] :
           /\ Moves(s, [at |-> IF JobId[j] \in seen THEN "seed" ELSE "push", job |-> j,
                        left |-> script[s].left \ {j}])
           /\ seen' = seen \union {JobId[j]} /\ queue' = queue /\ turns' = turns /\ again' = again
    BY <1>5, LineFacts DEF leases
  <2>2. CASE JobId[j] \in seen
    BY <1>2, <2>1, <2>2 DEF Moves, PushOf, Drawn
  <2>3. CASE JobId[j] \notin seen
    <3>1. \A k : PushOf(script'[s], k) => k = j
      BY <2>1, <2>3 DEF Moves, PushOf
    <3>2. j \in Jobs /\ Drawn(j) = 0
      <4>1. j \in Jobs
        BY FilesOfJobs
      <4>2. ~ (Drawn(j) > 0) /\ Drawn(j) \in Nat
        BY <1>1, <2>3, <4>1 DEF Once, Drawn
      <4>3. QED
        BY <4>1, <4>2
    <3>3. \A t \in Scripts : ~ PushOf(script[t], j)
      BY <2>3, <3>2 DEF Once
    <3>4. \A t \in Scripts : t # s => script'[t] = script[t]
      BY <2>1 DEF Moves
    <3>5. \A k \in Jobs : Drawn(k)' = Drawn(k)
      BY <2>1 DEF Drawn
    <3>6. QED
      BY <2>1, <3>1, <3>2, <3>3, <3>4, <3>5 DEF Once
  <2>4. QED
    BY <2>2, <2>3
<1>6. ASSUME NEW s \in Scripts, Push(s)
      PROVE  Once'
  <2>0. PICK j \in Jobs : j = script[s].job
    BY <1>6, PushFacts
  <2>1. /\ PushOf(script[s], j) /\ (~ \E k : PushOf(script'[s], k))
        /\ queue' = [queue EXCEPT ![j] = @ + 1] /\ turns' = turns /\ seen' = seen /\ again' = again
        /\ \A t \in Scripts : t # s => script'[t] = script[t]
    BY <1>6, <2>0, PushFacts DEF Moves, PushOf, leases
  <2>2. Drawn(j)' = Drawn(j) + 1 /\ \A k \in Jobs : k # j => Drawn(k)' = Drawn(k)
    BY <1>1, <2>1, OneMore DEF Drawn
  <2>3. /\ JobId[j] \in seen /\ Drawn(j) = 0
        /\ \A t \in Scripts : t # s => ~ PushOf(script[t], j)
    BY <2>1 DEF Once
  <2>4. Drawn(j)' <= 1 + again'[j]
    BY <1>1, <2>1, <2>2, <2>3
  <2>5. QED
    BY <2>1, <2>2, <2>3, <2>4 DEF Once
<1>7. ASSUME NEW s \in Scripts, Seeded(s) \/ JoinQueue(s) \/ JoinInflight(s) \/ Snapshot(s)
      PROVE  Once'
  <2>1. UNCHANGED <<queue, turns, seen, again>> /\ script'[s].at # "push"
        /\ \A t \in Scripts : t # s => script'[t] = script[t]
    BY <1>7, StageFacts DEF Moves, Ended, leases
  <2>2. QED
    BY <1>2, <2>1 DEF PushOf, Drawn
<1>8. ASSUME NEW s \in Scripts, Abort(s) \/ Kill(s)
      PROVE  Once'
  BY <1>2, <1>8, StopFacts DEF Moves, PushOf, Drawn, Off, leases
<1>9. ASSUME NEW w \in Workers, Pop(w) \/ Lease(w) \/ Done(w)
      PROVE  Once'
  BY <1>2, <1>9, WorkFacts DEF Drawn, leases
<1>10. ASSUME NEW p \in Reapers, ReapScan(p) \/ ReapRelease(p)
       PROVE  Once'
  <2>1. UNCHANGED <<queue, turns, seen, again, script>>
    BY <1>10 DEF ReapScan, ReapRelease, RemoveInflight, store, leases
  <2>2. QED
    BY <1>2, <2>1 DEF Drawn
<1>11. ASSUME NEW p \in Reapers, ReapAdd(p)
       PROVE  Once'
  <2>1. PICK j \in reaper[p].reaping : AddToQueue(j) /\ again' = [again EXCEPT ![j] = @ + 1]
    BY <1>11 DEF ReapAdd
  <2>2. j \in Jobs /\ turns[j] > 0
    <3>1. reaper \in [Reapers -> Reaping]
      BY DEF Typed
    <3>2. QED
      BY <2>1, <3>1 DEF TakenBefore, Reaping
  <2>3. queue' = [queue EXCEPT ![j] = @ + 1] /\ UNCHANGED <<turns, seen, script>>
    BY <1>11, <2>1 DEF ReapAdd, AddToQueue
  <2>4. /\ Drawn(j) > 0 /\ Drawn(j)' = Drawn(j) + 1 /\ again'[j] = again[j] + 1
        /\ \A k \in Jobs : k # j => Drawn(k)' = Drawn(k) /\ again'[k] = again[k]
    BY <1>1, <2>1, <2>2, <2>3, OneMore DEF Drawn
  <2>5. JobId[j] \in seen /\ Drawn(j)' <= 1 + again'[j] /\ \A s \in Scripts : ~ PushOf(script[s], j)
    <3>1. Drawn(j) \in Nat /\ again[j] \in Nat
      BY <1>1, <2>2 DEF Drawn
    <3>2. QED
      BY <2>2, <2>4, <3>1 DEF Once
  <2>6. QED
    BY <2>3, <2>4, <2>5 DEF Once
<1>12. ASSUME NEW k \in Jobs, Lapse(k)
       PROVE  Once'
  <2>1. UNCHANGED <<queue, turns, seen, again, script>>
    BY <1>12 DEF Lapse, ExpireLease
  <2>2. QED
    BY <1>2, <2>1 DEF Drawn
<1>13. QED
  BY <1>3, <1>4, <1>5, <1>6, <1>7, <1>8, <1>9, <1>10, <1>11, <1>12 DEF Next

LEMMA ReadIsSeenStep ==
  ASSUME SeedingAssumption, Typed, ReadIsSeen, [Next]_vars
  PROVE  ReadIsSeen'
<1>1. ASSUME NEW s \in Scripts, seen \subseteq seen', \A t \in Scripts : t # s => script'[t] = script[t],
             script'[s].at # "off" =>
                /\ script'[s].at \in Ended => script'[s].left = {}
                /\ \A j \in File[s] \ script'[s].left : JobId[j] \in seen'
      PROVE  ReadIsSeen'
  BY <1>1 DEF ReadIsSeen
<1>2. CASE UNCHANGED <<script, seen>>
  BY <1>2 DEF ReadIsSeen
<1>3. ASSUME NEW s \in Scripts, Start(s)
      PROVE  ReadIsSeen'
  <2>1. /\ seen' = seen /\ script'[s].at = "seed" /\ script'[s].left = File[s]
        /\ \A t \in Scripts : t # s => script'[t] = script[t]
    <3>1. Moves(s, [at |-> "seed", left |-> File[s]]) /\ seen' = seen
      BY <1>3, StartFacts
    <3>2. QED
      BY <3>1 DEF Moves
  <2>2. QED
    BY <1>1, <2>1 DEF Ended
<1>4. ASSUME NEW s \in Scripts, Line(s)
      PROVE  ReadIsSeen'
  <2>1. PICK j \in File[s] :
           /\ Moves(s, [at |-> IF JobId[j] \in seen THEN "seed" ELSE "push", job |-> j,
                        left |-> script[s].left \ {j}])
           /\ seen' = seen \union {JobId[j]} /\ script[s].at = "seed"
    BY <1>4, LineFacts
  <2>2. \A k \in File[s] \ script[s].left : JobId[k] \in seen
    BY <2>1 DEF ReadIsSeen
  <2>3. QED
    BY <1>1, <2>1, <2>2 DEF Moves, Ended
<1>5. ASSUME NEW s \in Scripts, Push(s)
      PROVE  ReadIsSeen'
  <2>1. script[s].at = "push" /\ script'[s].at = "seed" /\ script'[s].left = script[s].left
        /\ seen' = seen /\ \A t \in Scripts : t # s => script'[t] = script[t]
    BY <1>5, PushFacts DEF Moves
  <2>2. QED
    BY <1>1, <2>1 DEF ReadIsSeen, Ended
<1>6. ASSUME NEW s \in Scripts, Seeded(s) \/ JoinQueue(s) \/ JoinInflight(s) \/ Snapshot(s)
      PROVE  ReadIsSeen'
  <2>1. /\ script[s].at \in {"seed"} \union Ended /\ script'[s].left = script[s].left
        /\ script[s].at = "seed" => script[s].left = {}
        /\ seen' = seen /\ \A t \in Scripts : t # s => script'[t] = script[t]
    BY <1>6, StageFacts DEF Moves
  <2>2. QED
    BY <1>1, <2>1 DEF ReadIsSeen, Ended
<1>7. ASSUME NEW s \in Scripts, Abort(s) \/ Kill(s)
      PROVE  ReadIsSeen'
  BY <1>1, <1>7, StopFacts DEF Moves, Off
<1>8. ASSUME NEW w \in Workers, Pop(w) \/ Lease(w) \/ Done(w)
      PROVE  ReadIsSeen'
  BY <1>2, <1>8, WorkFacts
<1>9. CASE \/ \E p \in Reapers : ReapScan(p) \/ ReapRelease(p) \/ ReapAdd(p)
           \/ \E k \in Jobs : Lapse(k)
  BY <1>2, <1>9, ReapFacts DEF ReapTypes
<1>10. QED
  BY <1>2, <1>3, <1>4, <1>5, <1>6, <1>7, <1>8, <1>9 DEF Next, vars, store

LEMMA SeenIsDrawnStep ==
  ASSUME SeedingAssumption, OneJobEach, Typed, SeenIsDrawn, [Next]_vars
  PROVE  SeenIsDrawn'
<1>1. queue \in [Jobs -> Nat] /\ turns \in [Jobs -> Nat] /\ Lines \subseteq Jobs
  BY FilesOfJobs DEF Typed, Lines
<1>2. ASSUME UNCHANGED seen, \A j \in Jobs : Drawn(j) > 0 => Drawn(j)' > 0, cut \subseteq cut',
             \A s \in Scripts, j \in Jobs : PushOf(script[s], j) =>
                PushOf(script'[s], j) \/ Drawn(j)' > 0 \/ j \in cut'
      PROVE  SeenIsDrawn'
  BY <1>1, <1>2 DEF SeenIsDrawn
<1>3. CASE UNCHANGED vars
  BY <1>2, <1>3 DEF vars, store, Drawn
<1>4. ASSUME NEW s \in Scripts, Start(s)
      PROVE  SeenIsDrawn'
  <2>1. ~ \E j : PushOf(script[s], j)
    BY <1>4, StartFacts DEF PushOf
  <2>2. QED
    BY <1>2, <1>4, <2>1, StartFacts DEF Moves, Drawn
<1>5. ASSUME NEW s \in Scripts, Line(s)
      PROVE  SeenIsDrawn'
  <2>1. PICK j \in File[s] :
           /\ Moves(s, [at |-> IF JobId[j] \in seen THEN "seed" ELSE "push", job |-> j,
                        left |-> script[s].left \ {j}])
           /\ seen' = seen \union {JobId[j]} /\ script[s].at = "seed"
           /\ queue' = queue /\ turns' = turns /\ cut' = cut
    BY <1>5, LineFacts
  <2>2. /\ \A k \in Jobs : Drawn(k)' = Drawn(k)
        /\ \A t \in Scripts : t # s => script'[t] = script[t]
        /\ ~ \E k : PushOf(script[s], k)
        /\ JobId[j] \notin seen => PushOf(script'[s], j)
    BY <2>1 DEF Moves, PushOf, Drawn
  <2>3. j \in Lines
    BY FilesOfJobs
  <2>4. ASSUME NEW k \in Lines, JobId[k] \in seen'
        PROVE  \/ Drawn(k)' > 0 \/ k \in cut'
               \/ \E t \in Scripts : PushOf(script'[t], k)
    <3>1. CASE JobId[k] \in seen
      <4>1. Drawn(k) > 0 \/ k \in cut \/ \E t \in Scripts : PushOf(script[t], k)
        BY <3>1 DEF SeenIsDrawn
      <4>2. QED
        BY <1>1, <2>1, <2>2, <4>1
    <3>2. CASE JobId[k] \notin seen
      <4>1. k = j
        BY <2>1, <2>3, <2>4, <3>2 DEF OneJobEach
      <4>2. QED
        BY <2>2, <3>2, <4>1
    <3>3. QED
      BY <3>1, <3>2
  <2>5. QED
    BY <2>4 DEF SeenIsDrawn
<1>6. ASSUME NEW s \in Scripts, Push(s)
      PROVE  SeenIsDrawn'
  <2>0. PICK j \in Jobs : j = script[s].job
    BY <1>6, PushFacts
  <2>1. /\ \A k : PushOf(script[s], k) => k = j
        /\ queue' = [queue EXCEPT ![j] = @ + 1] /\ turns' = turns /\ seen' = seen /\ cut' = cut
        /\ \A t \in Scripts : t # s => script'[t] = script[t]
    BY <1>6, <2>0, PushFacts DEF Moves, PushOf
  <2>2. Drawn(j)' > 0 /\ \A k \in Jobs : Drawn(k) > 0 => Drawn(k)' > 0
    BY <1>1, <2>1, OneMore DEF Drawn
  <2>3. QED
    BY <1>2, <2>1, <2>2
<1>7. ASSUME NEW s \in Scripts, Seeded(s) \/ JoinQueue(s) \/ JoinInflight(s) \/ Snapshot(s)
      PROVE  SeenIsDrawn'
  <2>1. /\ UNCHANGED <<queue, turns, seen>> /\ script[s].at # "push" /\ cut \subseteq cut'
        /\ \A t \in Scripts : t # s => script'[t] = script[t]
    BY <1>7, StageFacts DEF Moves, Ended
  <2>2. QED
    BY <1>2, <2>1 DEF PushOf, Drawn
<1>8. ASSUME NEW s \in Scripts, Abort(s) \/ Kill(s)
      PROVE  SeenIsDrawn'
  BY <1>2, <1>8, StopFacts DEF Moves, Drawn
<1>9. ASSUME NEW w \in Workers, Pop(w) \/ Lease(w) \/ Done(w)
      PROVE  SeenIsDrawn'
  BY <1>2, <1>9, WorkFacts DEF Drawn
<1>10. ASSUME NEW p \in Reapers, ReapScan(p) \/ ReapRelease(p) \/ ReapAdd(p)
       PROVE  SeenIsDrawn'
  <2>1. UNCHANGED <<script, seen, cut, turns>>
    BY <1>10, ReapFacts DEF ReapTypes
  <2>2. queue' = queue \/ \E j \in reaper[p].reaping : queue' = [queue EXCEPT ![j] = @ + 1]
    BY <1>10 DEF ReapScan, ReapRelease, ReapAdd, AddToQueue, RemoveInflight, store
  <2>3. reaper[p].reaping \subseteq Jobs
    BY DEF Typed, Reaping
  <2>4. \A j \in Jobs : Drawn(j) > 0 => Drawn(j)' > 0
    BY <1>1, <2>1, <2>2, <2>3, OneMore DEF Drawn
  <2>5. QED
    BY <1>2, <2>1, <2>4
<1>11. ASSUME NEW k \in Jobs, Lapse(k)
       PROVE  SeenIsDrawn'
  BY <1>2, <1>11 DEF Lapse, ExpireLease, Drawn
<1>12. QED
  BY <1>3, <1>4, <1>5, <1>6, <1>7, <1>8, <1>9, <1>10, <1>11 DEF Next

-----------------------------------------------------------------------------
LEMMA SeedingInit ==
  ASSUME SeedingAssumption, Init
  PROVE  Typed /\ TakenBefore /\ Once /\ ReadIsSeen /\ SeenIsDrawn
<1>1. \A s \in Scripts : script[s] = Off /\ script[s].at = "off" /\ Off \in Shapes(s)
  BY DEF Init, Off, Shapes
<1>2. Typed
  <2>1. script = [s \in Scripts |-> script[s]]
    BY DEF Init
  <2>2. hand \in [Workers -> Hands] /\ queue \in [Jobs -> Nat] /\ turns \in [Jobs -> Nat]
        /\ inflight \in [Jobs -> {"free", "leased", "expired"}]
        /\ ranOut \in [Jobs -> Nat] /\ again \in [Jobs -> Nat] /\ reaper \in [Reapers -> Reaping]
    BY DEF Init, Hands, Reaping, Asleep
  <2>3. failed = {} /\ seen = {} /\ cut = {} /\ written = {}
    BY DEF Init
  <2>4. QED
    BY <1>1, <2>1, <2>2, <2>3 DEF Typed
<1>3. \A j \in Jobs : Drawn(j) = 0
  <2>1. queue = [j \in Jobs |-> 0] /\ turns = [j \in Jobs |-> 0]
    BY DEF Init
  <2>2. \A j \in Jobs : queue[j] = 0 /\ turns[j] = 0
    BY <2>1
  <2>3. ASSUME NEW j \in Jobs
        PROVE  queue[j] + turns[j] = 0
    <3>1. queue[j] = 0 /\ turns[j] = 0
      BY <2>2
    <3>2. QED
      BY <3>1
  <2>4. QED
    BY <2>3 DEF Drawn
<1>4. TakenBefore
  BY DEF Init, TakenBefore, Asleep
<1>5. \A j \in Jobs : again[j] = 0
  BY DEF Init
<1>6. QED
  BY <1>1, <1>2, <1>3, <1>4, <1>5 DEF Once, ReadIsSeen, SeenIsDrawn, PushOf, Init

\* The store, the scripts and the workers keep their types.
THEOREM SeedingTypeOK ==
  ASSUME SeedingAssumption
  PROVE  Spec => []TypeOK
<1>1. Typed => TypeOK
  <2> SUFFICES ASSUME Typed PROVE TypeOK
    OBVIOUS
  <2>1. \A w \in Workers : hand[w].at \in {"idle", "popped", "working"}
    BY DEF Typed, Hands, Nobody
  <2>2. \A s \in Scripts : script[s].at \in {"off", "seed", "push", "done"} \union
                              (IF s \in Composite THEN {"crawl", "join", "finished"} ELSE {})
    BY ShapeFacts DEF Typed, Ended
  <2>3. QED
    BY <2>1, <2>2 DEF Typed, TypeOK, StoreTypeOK, Reaping
<1>2. QED
  BY <1>1, SeedingInit, TypedStep, PTL DEF Spec

\* enqueue_if_unseen of any scripts, on a store that crawlers and their reapers work on,
\* whichever are killed and run again and whichever leases run out: the scripts queue a
\* seed once at most, the one whose SADD was the first.
THEOREM SeedsComeOnce ==
  ASSUME SeedingAssumption
  PROVE  Spec => []SeedOnce
<1>1. Once /\ TakenBefore => SeedOnce
  <2>1. Once => \A j \in Jobs : queue[j] + turns[j] <= 1 + again[j]
    BY DEF Once, Drawn
  <2>2. TakenBefore => \A j \in Jobs : again[j] > 0 => ranOut[j] > 0
    BY DEF TakenBefore
  <2>3. QED
    BY <2>1, <2>2 DEF SeedOnce
<1>2. QED
  BY <1>1, SeedingInit, TypedStep, TakenBeforeStep, OnceStep, PTL DEF Spec

\* When a script has read its file, no seed of it was passed over for good but those
\* that a script was cut off at, between adding the id and queueing the job.
THEOREM SeedsAreDrawn ==
  ASSUME SeedingAssumption, OneJobEach
  PROVE  Spec => []SeedsReachTheCrawl
<1>1. ReadIsSeen /\ SeenIsDrawn => SeedsReachTheCrawl
  <2> SUFFICES ASSUME ReadIsSeen, SeenIsDrawn, NEW s \in Scripts, script[s].at \in Ended,
                      NEW j \in File[s]
               PROVE  \/ queue[j] + turns[j] > 0 \/ j \in cut
                      \/ \E t \in Scripts : script[t].at = "push" /\ script[t].job = j
    BY DEF SeedsReachTheCrawl, Ended
  <2>1. JobId[j] \in seen /\ j \in Lines
    BY DEF ReadIsSeen, Ended, Lines
  <2>2. QED
    BY <2>1 DEF SeenIsDrawn, Drawn, PushOf
<1>2. QED
  BY <1>1, SeedingInit, TypedStep, ReadIsSeenStep, SeenIsDrawnStep, PTL DEF Spec
=============================================================================
