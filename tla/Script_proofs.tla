---------------------------- MODULE Script_proofs -----------------------------
(***************************************************************************)
(* Theorems of ScriptParts.  Of Recovery, for any jobs, workers and graph:  *)
(* what the recovery scripts queue, and what they leave alone, while        *)
(* crawlers are at work.  Of the fix-ups, for any members, batches and      *)
(* kills: nothing is lost and all is in the new form.  Of seeding, what     *)
(* Seeding_proofs shows.                                                    *)
(***************************************************************************)
EXTENDS ScriptParts, Sequences, FiniteSetTheorems, WellFoundedInduction, TLAPS

-----------------------------------------------------------------------------
(* Types. *)

Hostnames == {HostOf[a] : a \in Owners}

\* What a run has while it goes on.
Running ==
    [at : {"next", "free", "add", "mark", "unfail", "done"}, kind : Scripts,
     hostnames : SUBSET Hostnames, todo : SUBSET Jobs, job : Jobs \union {NoJob}, began : SUBSET Jobs]

Hands == {Nobody} \union [at : {"popped", "working", "failing"}, job : Jobs]

Typed ==
    /\ queue \in [Jobs -> Nat] /\ inflight \in [Jobs -> {"free", "leased", "expired"}]
    /\ failed \subseteq Jobs /\ seen \subseteq Ids
    /\ stamped \subseteq Owners /\ hosted \subseteq Owners
    /\ bad \subseteq {j \in Jobs : TypeOf[j] # "webfinger"}
    /\ hand \in [Workers -> Hands]
    /\ script \in {Off} \union Running
    /\ script.at \in {"free", "add", "mark", "unfail"} => script.job \in Jobs
    /\ script.at = "unfail" => script.kind = "failed"
    /\ requeued \subseteq Jobs /\ pending \subseteq Jobs

LEMMA RunFacts ==
  ASSUME Typed, script.at # "off"
  PROVE  script \in Running
BY DEF Typed, Off

\* The script at another stage.
LEMMA ToFacts ==
  ASSUME Typed, script.at # "off", NEW at \in {"next", "free", "add", "mark", "unfail", "done"},
         To(at)
  PROVE  /\ script' \in Running /\ script'.at = at
         /\ script'.kind = script.kind /\ script'.todo = script.todo
         /\ script'.job = script.job /\ script'.began = script.began
<1>1. script \in Running
  BY RunFacts
<1>2. QED
  BY <1>1 DEF To, Running

LEMMA BeginFacts ==
  ASSUME Typed, NEW kind, Begin(kind)
  PROVE  /\ script' \in Running /\ script'.at = "next" /\ script'.kind = kind
         /\ script'.todo = (IF kind = "failed" THEN failed ELSE Restarts(bad))
         /\ script'.began = {j \in bad : HasDepth(j)} /\ requeued' = {}
         /\ script.at = "off" /\ runs < MaxRuns /\ runs' = runs + 1 /\ kind \in Scripts
         /\ UNCHANGED <<queue, inflight, failed, seen, stamped, hosted, bad, hand, pending, kills>>
<1> DEFINE r == [at |-> "next", kind |-> kind, hostnames |-> {HostOf[a] : a \in hosted},
                 todo |-> IF kind = "failed" THEN failed ELSE Restarts(bad),
                 job |-> NoJob, began |-> {j \in bad : HasDepth(j)}]
<1>1. kind \in Scripts /\ script' = r
  BY DEF Begin
<1>2. Restarts(bad) \subseteq Jobs /\ failed \subseteq Jobs /\ bad \subseteq Jobs
  BY DEF Restarts, Typed
<1>3. r \in Running
  BY <1>1, <1>2 DEF Running, Hostnames, Typed
<1>4. QED
  BY <1>1, <1>3 DEF Begin, store, graph

LEMMA PickFacts ==
  ASSUME Typed, Pick
  PROVE  \E j \in script.todo \union (IF script.kind = "failed" THEN failed ELSE {}) :
            /\ j \in Jobs /\ script \in Running /\ script.at = "next"
            /\ script' \in Running /\ script'.at \in {"free", "next"} /\ script'.job = j
            /\ script'.kind = script.kind /\ script'.todo = script.todo \ {j}
            /\ script'.began = script.began
            /\ script.kind # "failed" /\ HasDepth(j) => script'.at = "free"
            /\ UNCHANGED <<queue, inflight, failed, seen, requeued, pending, stamped, hosted, bad,
                           hand, runs, kills>>
<1>1. script.at = "next" /\ script \in Running
  BY RunFacts DEF Pick
<1>2. PICK j \in script.todo \union (IF script.kind = "failed" THEN failed ELSE {}) :
         LET taken == IF script.kind = "failed" THEN Recoverable(j, script.hostnames) ELSE HasDepth(j)
         IN  script' = [script EXCEPT !.todo = @ \ {j}, !.job = j, !.at = IF taken THEN "free" ELSE "next"]
  BY DEF Pick
<1>3. j \in Jobs
  BY <1>1 DEF Typed, Running
<1>4. PICK at \in {"free", "next"} :
         /\ script' = [script EXCEPT !.todo = @ \ {j}, !.job = j, !.at = at]
         /\ script.kind # "failed" /\ HasDepth(j) => at = "free"
  BY <1>2
<1>5. /\ script' \in Running /\ script'.at = at /\ script'.job = j /\ script'.kind = script.kind
      /\ script'.todo = script.todo \ {j} /\ script'.began = script.began
  BY <1>1, <1>3, <1>4 DEF Running
<1>6. QED
  BY <1>1, <1>3, <1>4, <1>5 DEF Pick, Script, store, history, graph, bounds

LEMMA HandHas ==
  ASSUME Typed, NEW w \in Workers, hand[w].at # "idle"
  PROVE  /\ hand[w].job \in Jobs /\ hand[w] # Nobody
         /\ hand[w] \in [at : {"popped", "working", "failing"}, job : Jobs]
BY DEF Typed, Hands, Nobody

\* A worker goes on with the job in its hands.
LEMMA NewHand ==
  ASSUME Typed, NEW w \in Workers, hand[w].at # "idle", NEW at \in {"popped", "working", "failing"},
         hand' = [hand EXCEPT ![w].at = at]
  PROVE  /\ hand' \in [Workers -> Hands] /\ hand'[w].at = at /\ hand'[w].job = hand[w].job
         /\ \A v \in Workers : v # w => hand'[v] = hand[v]
<1>1. hand[w] \in [at : {"popped", "working", "failing"}, job : Jobs] /\ hand \in [Workers -> Hands]
  BY HandHas DEF Typed
<1>2. QED
  BY <1>1 DEF Hands

LEMMA NewJob ==
  ASSUME Typed, NEW w \in Workers, NEW h \in Hands, hand' = [hand EXCEPT ![w] = h]
  PROVE  /\ hand' \in [Workers -> Hands] /\ hand'[w] = h
         /\ \A v \in Workers : v # w => hand'[v] = hand[v]
BY DEF Typed

LEMMA TypedStep ==
  ASSUME RecoveryAssumption, Typed, [Next]_vars
  PROVE  Typed'
<1>1. \A j \in Jobs : JobId[j] \in Ids /\ OwnerOf[j] \in Owners
  BY JobStoreAssumption DEF RecoveryAssumption
<1>2. CASE UNCHANGED vars
  BY <1>2 DEF Typed, vars, store, graph, history, bounds
<1>3. ASSUME NEW kind, Begin(kind)
      PROVE  Typed'
  BY <1>3, BeginFacts DEF Typed
<1>4. CASE Pick
  BY <1>4, PickFacts DEF Typed
<1>5. CASE Free
  <2>1. /\ inflight' = [inflight EXCEPT ![script.job] = "free"] /\ script.job \in Jobs /\ To("add")
        /\ script.at # "off"
        /\ UNCHANGED <<queue, failed, seen, requeued, pending, stamped, hosted, bad, hand>>
    BY <1>5 DEF Free, RemoveInflight, Script, history, graph, Typed
  <2>2. QED
    BY <2>1, ToFacts DEF Typed
<1>6. CASE Add
  <2>1. /\ queue' = [queue EXCEPT ![script.job] = @ + 1] /\ script.job \in Jobs /\ To("mark")
        /\ requeued' = requeued \union {script.job} /\ script.at # "off"
        /\ UNCHANGED <<inflight, failed, seen, pending, stamped, hosted, bad, hand>>
    BY <1>6 DEF Add, AddToQueue, Script, graph, Typed
  <2>2. queue' \in [Jobs -> Nat]
    BY <2>1 DEF Typed
  <2>3. QED
    BY <2>1, <2>2, ToFacts DEF Typed
<1>7. CASE Mark
  <2>1. /\ seen' = seen \union {JobId[script.job]} /\ script.job \in Jobs /\ script.at # "off"
        /\ To(IF script.kind = "failed" THEN "unfail" ELSE "next")
        /\ UNCHANGED <<queue, inflight, failed, requeued, pending, stamped, hosted, bad, hand>>
    BY <1>7 DEF Mark, AddSeen, Script, history, graph, Typed
  <2>2. seen' \subseteq Ids
    BY <1>1, <2>1 DEF Typed
  <2>3. QED
    BY <2>1, <2>2, ToFacts DEF Typed
<1>8. CASE Unfail \/ End
  <2>1. /\ failed' \subseteq failed /\ script.at # "off" /\ (To("next") \/ To("done"))
        /\ UNCHANGED <<queue, inflight, seen, requeued, pending, stamped, hosted, bad, hand>>
    BY <1>8 DEF Unfail, End, Script, store, history, graph
  <2>2. QED
    BY <2>1, ToFacts DEF Typed
<1>9. CASE Again \/ Kill
  BY <1>9 DEF Again, Kill, Typed, Off, Script, store, history, graph
<1>10. ASSUME NEW w \in Workers, Pop(w)
       PROVE  Typed'
  <2>1. PICK j \in Jobs : PopMin(j) /\ hand' = [hand EXCEPT ![w] = [at |-> "popped", job |-> j]]
    BY <1>10 DEF Pop
  <2>2. [at |-> "popped", job |-> j] \in Hands
    BY DEF Hands
  <2>3. hand' \in [Workers -> Hands]
    BY <2>1, <2>2, NewJob
  <2>4. queue' \in [Jobs -> Nat] /\ UNCHANGED <<inflight, failed, seen>>
    BY <2>1 DEF PopMin, Typed
  <2>5. QED
    BY <1>10, <2>3, <2>4 DEF Pop, Typed, graph, history
<1>11. ASSUME NEW w \in Workers, Lease(w) \/ Raise(w)
       PROVE  Typed'
  <2>1. /\ hand[w].at # "idle" /\ \E at \in {"working", "failing"} : hand' = [hand EXCEPT ![w].at = at]
        /\ \E l \in {"leased", "free"} : inflight' = [inflight EXCEPT ![hand[w].job] = l]
        /\ UNCHANGED <<queue, failed, seen, graph, script, history>>
    BY <1>11 DEF Lease, Raise, AddInflight, RemoveInflight
  <2>2. hand' \in [Workers -> Hands] /\ inflight' \in [Jobs -> {"free", "leased", "expired"}]
    <3>1. PICK at \in {"working", "failing"} : hand' = [hand EXCEPT ![w].at = at]
      BY <2>1
    <3>2. hand' \in [Workers -> Hands]
      BY <2>1, <3>1, NewHand
    <3>3. PICK l \in {"leased", "free"} : inflight' = [inflight EXCEPT ![hand[w].job] = l]
      BY <2>1
    <3>4. QED
      BY <2>1, <3>2, <3>3, HandHas DEF Typed
  <2>3. QED
    BY <2>1, <2>2 DEF Typed, graph, history
<1>12. ASSUME NEW w \in Workers, Finish(w)
       PROVE  Typed'
  <2> DEFINE j == hand[w].job
  <2>1. j \in Jobs /\ OwnerOf[j] \in Owners
    BY <1>1, <1>12, HandHas DEF Finish
  <2>2. /\ stamped' \subseteq stamped \union {OwnerOf[j]} /\ hosted' \subseteq hosted \union {OwnerOf[j]}
        /\ bad' \subseteq bad \union (IF TypeOf[j] = "webfinger" THEN {} ELSE {j})
    BY <1>12 DEF Finish
  <2>3. hand' \in [Workers -> Hands]
    BY <1>12, NewJob DEF Finish, Hands
  <2>4. inflight' = [inflight EXCEPT ![j] = "free"] /\ pending' \subseteq pending
        /\ UNCHANGED <<queue, failed, seen, script, requeued>>
    BY <1>12 DEF Finish, RemoveInflight
  <2>5. inflight' \in [Jobs -> {"free", "leased", "expired"}]
    BY <2>1, <2>4 DEF Typed
  <2> HIDE DEF j
  <2>6. stamped' \subseteq Owners /\ hosted' \subseteq Owners
        /\ bad' \subseteq {k \in Jobs : TypeOf[k] # "webfinger"}
    BY <2>1, <2>2 DEF Typed
  <2>7. QED
    BY <2>3, <2>4, <2>5, <2>6 DEF Typed
<1>13. ASSUME NEW w \in Workers, RecordFailed(w)
       PROVE  Typed'
  <2>1. /\ hand[w].job \in Jobs /\ hand' \in [Workers -> Hands]
        /\ failed' = failed \union {hand[w].job} /\ pending' = pending \union {hand[w].job}
        /\ UNCHANGED <<queue, inflight, seen, graph, script, requeued>>
    BY <1>13, HandHas, NewJob DEF RecordFailed, AddFailed, Hands
  <2>2. QED
    BY <2>1 DEF Typed, graph
<1>14. QED
  BY <1>2, <1>3, <1>4, <1>5, <1>6, <1>7, <1>8, <1>9, <1>10, <1>11, <1>12, <1>13 DEF Next, Run, Work

LEMMA TypedInit ==
  ASSUME RecoveryAssumption, Init
  PROVE  Typed
<1>1. /\ queue \in [Jobs -> Nat] /\ inflight \in [Jobs -> {"free", "leased", "expired"}]
      /\ failed \subseteq Jobs /\ bad \subseteq Jobs /\ hand \in [Workers -> Hands]
  BY DEF Init, Hands
<1>2. script = Off /\ script.at = "off" /\ seen = Ids /\ requeued = {} /\ pending = failed
  BY DEF Init, Off
<1>3. stamped \subseteq Owners /\ hosted \subseteq Owners /\ \A j \in bad : TypeOf[j] # "webfinger"
  BY DEF Init
<1>4. QED
  BY <1>1, <1>2, <1>3 DEF Typed

-----------------------------------------------------------------------------
(* recover_failed takes a job off the failed set when it is in the queue.   *)

\* No worker records the failure of a job between the script's enqueue of it and unfail.
NotMeanwhile ==
    \A w \in Workers :
        RecordFailed(w) => ~ (script.at \in {"mark", "unfail"} /\ hand[w].job = script.job)

Somewhere(j) == queue[j] > 0 \/ InHand(j)

Kept ==
    /\ \A j \in pending : j \in failed \/ Somewhere(j)
    /\ script.at \in {"mark", "unfail"} => script.job \notin pending \/ Somewhere(script.job)

\* A worker moves: jobs but its own stay where they are.
LEMMA OthersStay ==
  ASSUME Typed, NEW w \in Workers, NEW j \in Jobs, UNCHANGED queue,
         hand[w] # Nobody => hand[w].job # j \/ (hand'[w] # Nobody /\ hand'[w].job = j),
         \A v \in Workers : v # w => hand'[v] = hand[v],
         Somewhere(j)
  PROVE  Somewhere(j)'
BY DEF Somewhere, InHand

LEMMA WorkKeeps ==
  ASSUME RecoveryAssumption, Typed, Kept, NotMeanwhile, NEW w \in Workers, Work(w)
  PROVE  Kept'
<1>1. pending \subseteq Jobs /\ (script.at \in {"mark", "unfail"} => script.job \in Jobs)
  BY DEF Typed
<1>2. UNCHANGED script
  BY DEF Work, Pop, Lease, Finish, Raise, RecordFailed
<1>3. CASE Pop(w)
  <2>1. PICK j \in Jobs : PopMin(j) /\ hand' = [hand EXCEPT ![w] = [at |-> "popped", job |-> j]]
    BY <1>3 DEF Pop
  <2> DEFINE h == [at |-> "popped", job |-> j]
  <2>2. h \in Hands /\ h # Nobody /\ h.job = j
    BY DEF Hands, Nobody
  <2>3. hand'[w] = h /\ \A v \in Workers : v # w => hand'[v] = hand[v]
    BY <2>1, <2>2, NewJob
  <2> HIDE DEF h
  <2>4. Somewhere(j)'
    BY <2>2, <2>3 DEF Somewhere, InHand
  <2>5. hand[w] = Nobody
    BY <1>3 DEF Pop, Typed, Hands, Nobody
  <2>6. \A k \in Jobs : k # j => queue'[k] = queue[k]
    BY <2>1 DEF PopMin, Typed
  <2>7. \A k \in Jobs : Somewhere(k) => Somewhere(k)'
    BY <2>3, <2>4, <2>5, <2>6 DEF Somewhere, InHand
  <2>8. UNCHANGED <<failed, pending>>
    BY <1>3, <2>1 DEF Pop, PopMin, history
  <2>9. QED
    BY <1>1, <1>2, <2>7, <2>8 DEF Kept
<1>4. CASE Lease(w) \/ Raise(w)
  <2>1. /\ hand[w].at # "idle" /\ \E at \in {"working", "failing"} : hand' = [hand EXCEPT ![w].at = at]
        /\ UNCHANGED <<queue, failed, pending>>
    BY <1>4 DEF Lease, Raise, AddInflight, RemoveInflight, history
  <2>2. PICK at \in {"working", "failing"} : hand' = [hand EXCEPT ![w].at = at]
    BY <2>1
  <2>3. /\ hand'[w].at = at /\ hand'[w].job = hand[w].job
        /\ \A v \in Workers : v # w => hand'[v] = hand[v]
    BY <2>1, <2>2, NewHand
  <2>4. hand'[w] # Nobody
    BY <2>3 DEF Nobody
  <2>5. \A k \in Jobs : Somewhere(k) => Somewhere(k)'
    BY <2>1, <2>3, <2>4, OthersStay
  <2>6. QED
    BY <1>1, <1>2, <2>1, <2>5 DEF Kept
<1>5. CASE Finish(w) \/ RecordFailed(w)
  <2>1. hand[w].at \in {"working", "failing"} /\ hand' = [hand EXCEPT ![w] = Nobody] /\ UNCHANGED queue
    BY <1>5 DEF Finish, RecordFailed, RemoveInflight, AddFailed
  <2>2. PICK j \in Jobs : j = hand[w].job
    BY <2>1, HandHas
  <2>3. \A v \in Workers : v # w => hand'[v] = hand[v]
    BY <2>1, NewJob DEF Hands
  <2>4. \A k \in Jobs : k # j /\ Somewhere(k) => Somewhere(k)'
    BY <2>1, <2>2, <2>3, OthersStay
  <2>5. CASE Finish(w)
    <3>1. pending' = pending \ {j} /\ failed' = failed
      BY <2>2, <2>5 DEF Finish, RemoveInflight
    <3>2. QED
      BY <1>1, <1>2, <2>4, <3>1 DEF Kept
  <2>6. CASE RecordFailed(w)
    <3>1. pending' = pending \union {j} /\ failed' = failed \union {j}
      BY <2>2, <2>6 DEF RecordFailed, AddFailed
    <3>2. script.at \in {"mark", "unfail"} => script.job # j
      BY <2>2, <2>6 DEF NotMeanwhile
    <3>3. QED
      BY <1>1, <1>2, <2>4, <3>1, <3>2 DEF Kept
  <2>7. QED
    BY <1>5, <2>5, <2>6
<1>6. QED
  BY <1>3, <1>4, <1>5 DEF Work

\* The script moves no job out of the queue and none out of a hand.
LEMMA KeptStep ==
  ASSUME RecoveryAssumption, Typed, Kept, [Next /\ NotMeanwhile]_vars
  PROVE  Kept'
<1>1. CASE UNCHANGED vars
  BY <1>1 DEF Kept, Somewhere, InHand, vars, store, history
<1>2. ASSUME UNCHANGED <<queue, hand>>, NEW j \in Jobs, Somewhere(j)
      PROVE  Somewhere(j)'
  BY <1>2 DEF Somewhere, InHand
<1>3. pending \subseteq Jobs /\ (script.at \in {"mark", "unfail"} => script.job \in Jobs)
  BY DEF Typed
<1>4. ASSUME NEW kind, Begin(kind)
      PROVE  Kept'
  BY <1>2, <1>3, <1>4, BeginFacts DEF Kept
<1>5. CASE Pick
  BY <1>2, <1>3, <1>5, PickFacts DEF Kept
<1>6. CASE Free
  <2>1. /\ To("add") /\ script.at # "off" /\ UNCHANGED <<queue, hand, failed, pending>>
    BY <1>6 DEF Free, RemoveInflight, history, Script
  <2>2. QED
    BY <1>2, <1>3, <2>1, ToFacts DEF Kept
<1>7. CASE Add
  <2>1. PICK j \in Jobs : j = script.job
    BY <1>7 DEF Add, Typed
  <2>2. /\ To("mark") /\ script.at # "off" /\ UNCHANGED <<hand, failed, pending>>
        /\ queue' = [queue EXCEPT ![j] = @ + 1]
    BY <1>7, <2>1 DEF Add, AddToQueue, Script
  <2>3. queue'[j] > 0 /\ \A k \in Jobs : queue[k] > 0 => queue'[k] > 0
    BY <2>2 DEF Typed
  <2>4. Somewhere(j)' /\ \A k \in Jobs : Somewhere(k) => Somewhere(k)'
    BY <2>2, <2>3 DEF Somewhere, InHand
  <2>5. QED
    BY <1>3, <2>1, <2>2, <2>4, ToFacts DEF Kept
<1>8. CASE Mark
  <2>1. /\ script.at = "mark" /\ UNCHANGED <<queue, hand, failed, pending>>
        /\ To(IF script.kind = "failed" THEN "unfail" ELSE "next")
    BY <1>8 DEF Mark, AddSeen, history, Script
  <2>2. QED
    BY <1>2, <1>3, <2>1, ToFacts DEF Kept
<1>9. CASE Unfail
  <2>1. /\ script.at = "unfail" /\ To("next") /\ failed' = failed \ {script.job}
        /\ UNCHANGED <<queue, hand, pending>>
    BY <1>9 DEF Unfail, history, Script
  <2>2. QED
    BY <1>2, <1>3, <2>1, ToFacts DEF Kept
<1>10. CASE End
  <2>1. script.at # "off" /\ To("done") /\ UNCHANGED <<queue, hand, failed, pending>>
    BY <1>10 DEF End, store, history, Script
  <2>2. QED
    BY <1>2, <1>3, <2>1, ToFacts DEF Kept
<1>11. CASE Again \/ Kill
  <2>1. script' = Off /\ UNCHANGED <<queue, hand, failed, pending>>
    BY <1>11 DEF Again, Kill, store, history, Script
  <2>2. QED
    BY <1>2, <1>3, <2>1 DEF Kept, Off
<1>12. ASSUME NotMeanwhile, NEW w \in Workers, Work(w)
       PROVE  Kept'
  BY <1>12, WorkKeeps
<1>13. QED
  BY <1>1, <1>4, <1>5, <1>6, <1>7, <1>8, <1>9, <1>10, <1>11, <1>12 DEF Next, Run

LEMMA KeptInit ==
  ASSUME Init
  PROVE  Kept
<1>1. script.at = "off" /\ pending = failed
  BY DEF Init, Off
<1>2. QED
  BY <1>1 DEF Kept

\* CHANGELOG.md: "Save failed jobs for manual recovery".  Beside any workers, wherever
\* the scripts are killed and however often they run: a job that failed is in the
\* failed set, in the queue or in hand, unless its failure is recorded between
\* enqueue() and unfail() of it.  Run race is what happens then.
THEOREM FailedJobsAreKept ==
  ASSUME RecoveryAssumption
  PROVE  Init /\ [][Next /\ NotMeanwhile]_vars => []FailedIsKept
<1>1. Init => Typed /\ Kept
  BY TypedInit, KeptInit
<1>2. Typed /\ Kept /\ [Next /\ NotMeanwhile]_vars => Typed' /\ Kept'
  BY TypedStep, KeptStep
<1>3. Kept => FailedIsKept
  BY DEF Kept, Somewhere, FailedIsKept
<1>4. QED
  BY <1>1, <1>2, <1>3, PTL

\* With no crawler at work there is nobody to record a failure meanwhile.
THEOREM NoCrawlerNoLoss ==
  ASSUME RecoveryAssumption, Workers = {}
  PROVE  Spec => []FailedIsKept
<1>1. NotMeanwhile
  BY DEF NotMeanwhile
<1>2. [Next]_vars => [Next /\ NotMeanwhile]_vars
  BY <1>1
<1>3. QED
  BY <1>2, FailedJobsAreKept, PTL DEF Spec

-----------------------------------------------------------------------------
(* A job a script queues is nowhere else, as long as it queues it once.     *)

Busy == {w \in Workers : hand[w].at # "idle"}

\* The job is not in the queue and in no worker's hands.
Clear(j) == queue[j] = 0 /\ \A w \in Busy : hand[w].job # j

\* Every job is at one place.
Apart ==
    /\ \A j \in Jobs : queue[j] <= 1
    /\ \A w \in Busy : queue[hand[w].job] = 0
    /\ \A v, w \in Busy : hand[v].job = hand[w].job => v = w

\* What the run has before it, and what a later run may find.
Going == script.at \in {"next", "free", "add", "mark", "unfail"}
Ahead ==
    (IF Going THEN script.todo \union (IF script.kind = "failed" THEN failed ELSE {}) ELSE {})
    \union (IF runs < MaxRuns THEN failed \union (IF "status" \in Scripts THEN bad ELSE {}) ELSE {})

Targets ==
    (Ahead \ (IF script.at \in {"mark", "unfail"} THEN {script.job} ELSE {}))
    \union (IF script.at \in {"free", "add"} THEN {script.job} ELSE {})

\* One run, or runs of recover_failed that are not killed.
RunsAsMeant == MaxRuns = 1 \/ (MaxKills = 0 /\ Scripts \subseteq {"failed"})

\* What the run has is on the failed set until it takes it off, and there is a run.
Books ==
    /\ script.at \in {"free", "add", "mark", "unfail"} =>
          /\ script.job \notin script.todo
          /\ script.kind = "failed" => script.job \in failed
    /\ script.at # "off" /\ script.kind = "failed" => script.todo \subseteq failed
    /\ script.at # "off" => runs > 0
    /\ runs \in Nat /\ kills \in Nat

QueuedOnce == Apart /\ InHandIsLeased /\ Books /\ \A j \in Targets : Clear(j)

LEMMA BooksStep ==
  ASSUME RecoveryAssumption, Typed, Books, [Next]_vars
  PROVE  Books'
<1>1. CASE UNCHANGED vars
  BY <1>1 DEF Books, vars, store, bounds
<1>2. ASSUME NEW kind, Begin(kind)
      PROVE  Books'
  BY <1>2, BeginFacts DEF Books
<1>3. CASE Pick
  <2>1. PICK j \in script.todo \union (IF script.kind = "failed" THEN failed ELSE {}) :
            /\ script.at = "next"
            /\ script'.at \in {"free", "next"} /\ script'.job = j
            /\ script'.kind = script.kind /\ script'.todo = script.todo \ {j}
            /\ UNCHANGED <<failed, runs, kills>>
    BY <1>3, PickFacts
  <2>2. QED
    BY <2>1 DEF Books
<1>4. CASE Free \/ Add \/ Mark \/ End
  <2>1. /\ script.at \in {"free", "add", "mark", "next"} /\ UNCHANGED <<failed, runs, kills>>
        /\ \/ script.at = "free" /\ To("add")
           \/ script.at = "add" /\ To("mark")
           \/ script.at = "mark" /\ script.kind = "failed" /\ To("unfail")
           \/ To("next") \/ To("done")
    BY <1>4 DEF Free, Add, Mark, End, RemoveInflight, AddToQueue, AddSeen, store, Script, bounds
  <2>2. QED
    BY <2>1, ToFacts DEF Books
<1>5. CASE Unfail
  <2>1. /\ script.at = "unfail" /\ To("next") /\ failed' = failed \ {script.job}
        /\ UNCHANGED <<runs, kills>>
    BY <1>5 DEF Unfail, Script, bounds
  <2>2. script'.at = "next" /\ script'.todo = script.todo /\ script'.kind = script.kind
    BY <2>1, ToFacts
  <2>3. script.job \notin script.todo /\ script.todo \subseteq failed
    BY <2>1 DEF Books, Typed
  <2>4. QED
    BY <2>1, <2>2, <2>3 DEF Books
<1>6. CASE Again \/ Kill
  <2>1. script' = Off /\ Off.at = "off" /\ runs' = runs /\ kills' \in {kills, kills + 1}
    BY <1>6 DEF Again, Kill, Off, Script, bounds
  <2>2. QED
    BY <2>1 DEF Books
<1>7. ASSUME NEW w \in Workers, Work(w)
      PROVE  Books'
  <2>1. failed \subseteq failed' /\ UNCHANGED <<script, runs, kills>>
    BY <1>7 DEF Work, Pop, Lease, Finish, Raise, RecordFailed, PopMin, AddInflight, RemoveInflight,
                AddFailed, bounds
  <2>2. QED
    BY <2>1 DEF Books
<1>8. QED
  BY <1>1, <1>2, <1>3, <1>4, <1>5, <1>6, <1>7 DEF Next, Run

\* The steps of the script that move no job.
LEMMA TargetsShrink ==
  ASSUME RecoveryAssumption, RunsAsMeant, Typed, Books,
         Mark \/ Unfail \/ End \/ Again \/ Kill \/ Pick \/ (\E kind \in Scripts : Begin(kind))
  PROVE  Targets' \subseteq Targets
<1>1. MaxRuns = 1 => script.at = "off" \/ ~ (runs < MaxRuns)
  BY DEF Books
<1>2. script.at = "off" \/ script.kind \in Scripts
  BY RunFacts DEF Running
<1>3. CASE Mark
  <2>1. /\ script.at = "mark" /\ UNCHANGED <<failed, bad, runs>>
        /\ \/ script.kind = "failed" /\ To("unfail")
           \/ script.kind # "failed" /\ To("next")
    BY <1>3 DEF Mark, AddSeen, Script, graph, bounds
  <2>2. CASE script.kind = "failed"
    <3>1. script'.at = "unfail" /\ script'.todo = script.todo /\ script'.kind = script.kind
          /\ script'.job = script.job
      BY <2>1, <2>2, ToFacts
    <3>2. QED
      BY <2>1, <3>1 DEF Targets, Ahead, Going
  <2>3. CASE script.kind # "failed"
    <3>1. script'.at = "next" /\ script'.todo = script.todo /\ script'.kind = script.kind
      BY <2>1, <2>3, ToFacts
    <3>2. script.job \notin script.todo /\ ~ (runs < MaxRuns)
      BY <1>1, <1>2, <2>1, <2>3 DEF Books, RunsAsMeant
    <3>3. QED
      BY <2>1, <2>3, <3>1, <3>2 DEF Targets, Ahead, Going
  <2>4. QED
    BY <2>2, <2>3
<1>4. CASE Unfail
  <2>1. /\ script.at = "unfail" /\ To("next") /\ failed' = failed \ {script.job}
        /\ UNCHANGED <<bad, runs>>
    BY <1>4 DEF Unfail, Script, graph, bounds
  <2>2. script'.at = "next" /\ script'.todo = script.todo /\ script'.kind = script.kind
    BY <2>1, ToFacts
  <2>3. script.job \notin script.todo /\ (~ (runs < MaxRuns) \/ "status" \notin Scripts)
    BY <1>1, <2>1 DEF Books, RunsAsMeant
  <2>4. QED
    BY <2>1, <2>2, <2>3 DEF Targets, Ahead, Going
<1>5. CASE End
  <2>1. script.at = "next" /\ script'.at = "done" /\ UNCHANGED <<failed, bad, runs>>
    BY <1>5, ToFacts DEF End, store, Script, graph, bounds
  <2>2. QED
    BY <2>1 DEF Targets, Ahead, Going
<1>6. CASE Again
  <2>1. script.at = "done" /\ script'.at = "off" /\ UNCHANGED <<failed, bad, runs>>
    BY <1>6 DEF Again, store, Script, graph, bounds, Off
  <2>2. QED
    BY <2>1 DEF Targets, Ahead, Going
<1>7. CASE Kill
  <2>1. script.at # "off" /\ script'.at = "off" /\ UNCHANGED <<failed, bad, runs>> /\ kills < MaxKills
    BY <1>7 DEF Kill, store, graph, Off
  <2>2. ~ (runs < MaxRuns)
    BY <1>1, <2>1 DEF RunsAsMeant, Books
  <2>3. QED
    BY <2>1, <2>2 DEF Targets, Ahead, Going
<1>8. CASE Pick
  <2>1. PICK j \in script.todo \union (IF script.kind = "failed" THEN failed ELSE {}) :
            /\ script.at = "next"
            /\ script'.at \in {"free", "next"} /\ script'.job = j
            /\ script'.kind = script.kind /\ script'.todo = script.todo \ {j}
            /\ UNCHANGED <<failed, bad, runs>>
    BY <1>8, PickFacts
  <2>2. QED
    BY <2>1 DEF Targets, Ahead, Going
<1>9. ASSUME NEW kind \in Scripts, Begin(kind)
      PROVE  Targets' \subseteq Targets
  <2>1. /\ script.at = "off" /\ script'.at = "next" /\ runs < MaxRuns /\ runs' = runs + 1
        /\ script'.kind = kind
        /\ script'.todo = (IF kind = "failed" THEN failed ELSE Restarts(bad))
        /\ UNCHANGED <<failed, bad>>
    BY <1>9, BeginFacts
  <2>2. kind = "failed" \/ "status" \in Scripts
    BY DEF RecoveryAssumption
  <2>3. Restarts(bad) \subseteq bad
    BY DEF Restarts
  <2>4. QED
    BY <2>1, <2>2, <2>3 DEF Targets, Ahead, Going
<1>10. QED
  BY <1>3, <1>4, <1>5, <1>6, <1>7, <1>8, <1>9

LEMMA QueuedOnceStep ==
  ASSUME RecoveryAssumption, RunsAsMeant, Typed, QueuedOnce, [Next]_vars
  PROVE  QueuedOnce'
<1>1. Apart /\ InHandIsLeased /\ Books /\ Books' /\ \A j \in Targets : Clear(j)
  BY BooksStep DEF QueuedOnce
<1>2. /\ queue \in [Jobs -> Nat] /\ inflight \in [Jobs -> {"free", "leased", "expired"}]
      /\ hand \in [Workers -> Hands]
  BY DEF Typed
<1>3. ASSUME UNCHANGED <<queue, inflight, hand>>, Targets' \subseteq Targets
      PROVE  QueuedOnce'
  BY <1>1, <1>3 DEF QueuedOnce, Apart, InHandIsLeased, Clear, Busy
<1>4. CASE UNCHANGED vars
  BY <1>3, <1>4 DEF vars, store, graph, bounds, Targets, Ahead, Going
<1>5. CASE Mark \/ Unfail \/ End \/ Again \/ Kill \/ Pick \/ (\E kind \in Scripts : Begin(kind))
  <2>1. UNCHANGED <<queue, inflight, hand>>
    BY <1>5, PickFacts, BeginFacts DEF Mark, Unfail, End, Again, Kill, AddSeen, store, Script
  <2>2. QED
    BY <1>1, <1>3, <1>5, <2>1, TargetsShrink
\* The script frees and queues a job that is clear.
<1>6. CASE Free
  <2>1. PICK j \in Jobs : j = script.job
    BY <1>6 DEF Free, Typed
  <2>2. /\ script.at = "free" /\ To("add") /\ inflight' = [inflight EXCEPT ![j] = "free"]
        /\ UNCHANGED <<queue, hand, failed, bad, runs>>
    BY <1>6, <2>1 DEF Free, RemoveInflight, Script, graph, bounds
  <2>3. script'.at = "add" /\ script'.todo = script.todo /\ script'.job = j /\ script'.kind = script.kind
    BY <2>1, <2>2, ToFacts
  <2>4. Targets' = Targets
    BY <2>1, <2>2, <2>3 DEF Targets, Ahead, Going
  <2>5. Clear(j)
    BY <1>1, <2>1, <2>2 DEF Targets
  <2>6. InHandIsLeased'
    <3>1. \A w \in Workers : hand[w].at = "working" => hand[w].job \in Jobs /\ hand[w].job # j
      BY <2>5, HandHas DEF Clear, Busy
    <3>2. QED
      BY <1>1, <1>2, <2>2, <3>1 DEF InHandIsLeased
  <2>7. QED
    BY <1>1, <2>2, <2>4, <2>6 DEF QueuedOnce, Apart, Clear, Busy
<1>7. CASE Add
  <2>1. PICK j \in Jobs : j = script.job
    BY <1>7 DEF Add, Typed
  <2>2. /\ script.at = "add" /\ To("mark") /\ queue' = [queue EXCEPT ![j] = @ + 1]
        /\ UNCHANGED <<inflight, hand, failed, bad, runs>>
    BY <1>7, <2>1 DEF Add, AddToQueue, Script, graph, bounds
  <2>3. script'.at = "mark" /\ script'.todo = script.todo /\ script'.job = j /\ script'.kind = script.kind
    BY <2>1, <2>2, ToFacts
  <2>4. \A k \in Targets' : k \in Targets /\ k # j
    BY <2>1, <2>2, <2>3 DEF Targets, Ahead, Going
  <2>5. Clear(j)
    BY <1>1, <2>1, <2>2 DEF Targets
  <2>6. /\ queue'[j] = 1 /\ \A k \in Jobs : k # j => queue'[k] = queue[k]
    BY <1>2, <2>2, <2>5 DEF Clear
  <2>7. \A w \in Busy : hand[w].job \in Jobs /\ hand[w].job # j
    BY <2>5, HandHas DEF Clear, Busy
  <2>8. Apart'
    BY <1>1, <2>2, <2>6, <2>7 DEF Apart, Busy
  <2>9. \A k \in Targets' : k \in Jobs
    <3>1. \A k \in Targets : k \in Jobs
      BY RunFacts DEF Targets, Ahead, Going, Typed, Running
    <3>2. QED
      BY <2>4, <3>1
  <2>10. \A k \in Targets' : Clear(k)'
    BY <1>1, <2>2, <2>4, <2>6, <2>9 DEF Clear, Busy
  <2>11. QED
    BY <1>1, <2>2, <2>8, <2>10 DEF QueuedOnce, InHandIsLeased
\* A worker takes a job from the queue, and puts it down.
<1>8. ASSUME NEW w \in Workers, Pop(w)
      PROVE  QueuedOnce'
  <2>1. PICK j \in Jobs : PopMin(j) /\ hand' = [hand EXCEPT ![w] = [at |-> "popped", job |-> j]]
    BY <1>8 DEF Pop
  <2>2. /\ queue[j] > 0 /\ queue' = [queue EXCEPT ![j] = @ - 1]
        /\ UNCHANGED <<inflight, failed, bad, script, runs>> /\ hand[w].at = "idle"
    BY <1>8, <2>1 DEF Pop, PopMin, graph, bounds
  <2>3. Targets' = Targets
    BY <2>2 DEF Targets, Ahead, Going
  <2>4. /\ queue[j] = 1 /\ queue'[j] = 0 /\ \A k \in Jobs : k # j => queue'[k] = queue[k]
    BY <1>1, <1>2, <2>2 DEF Apart
  <2>5. /\ hand'[w].at = "popped" /\ hand'[w].job = j
        /\ \A v \in Workers : v # w => hand'[v] = hand[v]
    BY <1>2, <2>1
  <2>6. Busy' = Busy \union {w} /\ w \notin Busy
    BY <2>2, <2>5 DEF Busy
  <2>7. \A v \in Busy : hand'[v] = hand[v] /\ hand[v].job \in Jobs /\ hand[v].job # j
    BY <1>1, <2>4, <2>5, <2>6, HandHas DEF Apart, Busy
  <2>8. Apart'
    <3>1. \A k \in Jobs : queue'[k] <= 1
      BY <1>1, <2>4 DEF Apart
    <3>2. \A v \in Busy' : queue'[hand'[v].job] = 0
      BY <1>1, <2>4, <2>5, <2>6, <2>7 DEF Apart
    <3>3. \A u, v \in Busy' : hand'[u].job = hand'[v].job => u = v
      BY <1>1, <2>5, <2>6, <2>7 DEF Apart
    <3>4. QED
      BY <3>1, <3>2, <3>3 DEF Apart
  <2>9. InHandIsLeased'
    BY <1>1, <2>2, <2>5 DEF InHandIsLeased
  <2>10. ASSUME NEW k \in Targets
         PROVE  Clear(k)'
    <3>1. Clear(k) /\ k # j
      BY <1>1, <2>2 DEF Clear
    <3>2. k \in Jobs
      BY RunFacts DEF Targets, Ahead, Going, Typed, Running
    <3>3. QED
      BY <2>4, <2>5, <2>6, <2>7, <3>1, <3>2 DEF Clear
  <2>11. QED
    BY <1>1, <2>3, <2>8, <2>9, <2>10 DEF QueuedOnce
<1>9. ASSUME NEW w \in Workers, Lease(w) \/ Raise(w)
      PROVE  QueuedOnce'
  <2>1. PICK j \in Jobs : j = hand[w].job
    BY <1>9, HandHas DEF Lease, Raise
  <2>2. /\ hand[w].at # "idle" /\ UNCHANGED <<queue, failed, bad, script, runs>>
        /\ \/ hand' = [hand EXCEPT ![w].at = "working"] /\ inflight' = [inflight EXCEPT ![j] = "leased"]
           \/ hand' = [hand EXCEPT ![w].at = "failing"] /\ inflight' = [inflight EXCEPT ![j] = "free"]
    BY <1>9, <2>1 DEF Lease, Raise, AddInflight, RemoveInflight, graph, bounds
  <2>3. /\ hand'[w].at \in {"working", "failing"} /\ hand'[w].job = j
        /\ \A v \in Workers : v # w => hand'[v] = hand[v]
        /\ hand'[w].at = "working" => inflight'[j] = "leased"
        /\ \A k \in Jobs : k # j => inflight'[k] = inflight[k]
    <3>1. CASE hand' = [hand EXCEPT ![w].at = "working"] /\ inflight' = [inflight EXCEPT ![j] = "leased"]
      BY <1>2, <2>1, <2>2, <3>1, NewHand
    <3>2. CASE hand' = [hand EXCEPT ![w].at = "failing"] /\ inflight' = [inflight EXCEPT ![j] = "free"]
      BY <1>2, <2>1, <2>2, <3>2, NewHand
    <3>3. QED
      BY <2>2, <3>1, <3>2
  <2>4. Busy' = Busy /\ \A v \in Busy : hand'[v].job = hand[v].job
    BY <2>1, <2>2, <2>3 DEF Busy
  <2>5. InHandIsLeased'
    <3>1. ASSUME NEW v \in Workers, hand'[v].at = "working"
          PROVE  inflight'[hand'[v].job] = "leased"
      <4>1. CASE v = w
        BY <2>3, <3>1, <4>1
      <4>2. CASE v # w
        <5>1. hand'[v] = hand[v] /\ hand[v].at # "idle"
          BY <2>3, <3>1, <4>2
        <5>2. v \in Busy /\ w \in Busy
          BY <2>2, <5>1 DEF Busy
        <5>3. hand[v].job # j /\ hand[v].job \in Jobs
          BY <1>1, <2>1, <4>2, <5>1, <5>2, HandHas DEF Apart
        <5>4. QED
          BY <1>1, <2>3, <3>1, <5>1, <5>3 DEF InHandIsLeased
      <4>3. QED
        BY <4>1, <4>2
    <3>2. QED
      BY <3>1 DEF InHandIsLeased
  <2>6. Targets' = Targets
    BY <2>2 DEF Targets, Ahead, Going
  <2>7. QED
    BY <1>1, <2>2, <2>4, <2>5, <2>6 DEF QueuedOnce, Apart, Clear
<1>10. ASSUME NEW w \in Workers, Finish(w) \/ RecordFailed(w)
       PROVE  QueuedOnce'
  <2>1. PICK j \in Jobs : j = hand[w].job
    BY <1>10, HandHas DEF Finish, RecordFailed
  <2>2. /\ hand[w].at # "idle" /\ UNCHANGED <<queue, script, runs>>
        /\ hand' = [hand EXCEPT ![w] = Nobody]
        /\ inflight' = inflight \/ inflight' = [inflight EXCEPT ![j] = "free"]
        /\ failed' \subseteq failed \union {j} /\ bad' \subseteq bad \union {j}
    BY <1>10, <2>1 DEF Finish, RecordFailed, AddFailed, RemoveInflight, graph, bounds
  <2>3. /\ hand'[w].at = "idle" /\ (\A v \in Workers : v # w => hand'[v] = hand[v])
        /\ \A k \in Jobs : k # j => inflight'[k] = inflight[k]
    BY <1>2, <2>2 DEF Nobody
  <2>4. Busy' = Busy \ {w} /\ w \in Busy /\ \A v \in Busy' : hand'[v] = hand[v]
    BY <2>2, <2>3 DEF Busy
  <2>5. \A v \in Busy' : hand[v].job # j
    BY <1>1, <2>1, <2>4 DEF Apart
  <2>6. queue[j] = 0
    BY <1>1, <2>1, <2>4 DEF Apart
  <2>7. Targets' \subseteq Targets \union {j}
    BY <2>2 DEF Targets, Ahead, Going
  <2>8. InHandIsLeased'
    <3>1. ASSUME NEW v \in Workers, hand'[v].at = "working"
          PROVE  inflight'[hand'[v].job] = "leased"
      <4>1. v # w /\ hand'[v] = hand[v] /\ hand[v].at # "idle"
        BY <2>3, <3>1
      <4>2. v \in Busy' /\ hand[v].job \in Jobs
        BY <3>1, <4>1, HandHas DEF Busy
      <4>3. QED
        BY <1>1, <2>3, <2>5, <3>1, <4>1, <4>2 DEF InHandIsLeased
    <3>2. QED
      BY <3>1 DEF InHandIsLeased
  <2>9. Apart'
    BY <1>1, <2>2, <2>4 DEF Apart
  <2>10. ASSUME NEW k \in Targets'
         PROVE  Clear(k)'
    BY <1>1, <2>2, <2>4, <2>5, <2>6, <2>7 DEF Clear
  <2>11. QED
    BY <1>1, <2>8, <2>9, <2>10 DEF QueuedOnce
<1>11. QED
  BY <1>4, <1>5, <1>6, <1>7, <1>8, <1>9, <1>10 DEF Next, Run, Work

\* Dispatcher.enqueue removes a lease before it adds the job: no worker loses the lease
\* of the job in its hands to a script, which frees only jobs that are nowhere else.  A
\* later run finds the jobs of one before it that was killed, or the statuses it has
\* queued the jobs of, and frees what a worker may have taken by then.
THEOREM ScriptsLeaveLeases ==
  ASSUME RecoveryAssumption, RunsAsMeant
  PROVE  Spec => []InHandIsLeased
<1>1. ASSUME Init
      PROVE  QueuedOnce
  <2>1. Busy = {}
    BY <1>1 DEF Init, Busy, Nobody
  <2>2. PICK waiting \in SUBSET (Jobs \ failed) :
           /\ queue = [j \in Jobs |-> IF j \in waiting THEN 1 ELSE 0]
           /\ bad \in SUBSET (Jobs \ (waiting \union failed))
    BY <1>1 DEF Init
  <2>3. script.at = "off" /\ runs = 0 /\ kills = 0 /\ failed \subseteq Jobs
    BY <1>1 DEF Init, Off
  <2>4. \A j \in failed \union bad : queue[j] = 0
    BY <2>2, <2>3
  <2>5. Targets \subseteq failed \union bad
    BY <2>3 DEF Targets, Ahead, Going
  <2>6. InHandIsLeased
    BY <2>1 DEF InHandIsLeased, Busy
  <2>7. Books
    BY <2>3 DEF Books
  <2>8. \A j \in Jobs : queue[j] <= 1
    <3>1. \A j \in Jobs : queue[j] = 0 \/ queue[j] = 1
      BY <2>2
    <3>2. ASSUME NEW j \in Jobs
          PROVE  queue[j] <= 1
      <4>1. queue[j] = 0 \/ queue[j] = 1
        BY <3>1
      <4>2. QED
        BY <4>1
    <3>3. QED
      BY <3>2
  <2>9. QED
    BY <2>1, <2>4, <2>5, <2>6, <2>7, <2>8 DEF QueuedOnce, Apart, Clear
<1>2. QueuedOnce => InHandIsLeased
  BY DEF QueuedOnce
<1>3. QED
  BY <1>1, <1>2, TypedInit, TypedStep, QueuedOnceStep, PTL DEF Spec

-----------------------------------------------------------------------------
(* recover_http_status restarts a chain that broke at one place.            *)

\* A node has its own id, one id of each collection and one last page in each direction:
\* the jobs that recover_http_status makes of it are one of a kind.
OneJobOfAKind ==
    \A j, k \in Jobs :
        /\ OwnerOf[j] = OwnerOf[k] /\ TypeOf[j] = TypeOf[k]
        /\ TypeOf[j] = "actor" \/ DirectionOf[j] = DirectionOf[k]
        => j = k

\* What the run may still queue, with what it has queued.
Restarting ==
    script.todo \union requeued \union (IF script.at \in {"free", "add"} THEN {script.job} ELSE {})

NoParallels == \A j, k \in Restarting : SameChain(j, k) => j = k

\* A job with a depth is left for every chain that was found broken.
NoneLeftOut == \A j \in script.began : \E k \in Restarting : SameChain(j, k) /\ HasDepth(k)

Restarted ==
    script.at # "off" /\ script.kind = "status" =>
        /\ NoParallels /\ NoneLeftOut
        /\ script.at = "done" => script.todo = {}

LEMMA RestartsApart ==
  ASSUME RecoveryAssumption, OneJobOfAKind, Typed,
         NEW j \in Restarts(bad), NEW k \in Restarts(bad), SameChain(j, k)
  PROVE  j = k
<1>1. j \in bad /\ k \in bad /\ ~ Outranks(j, k) /\ ~ Outranks(k, j)
  BY DEF Restarts
<1>2. /\ j \in Jobs /\ TypeOf[j] \in {"actor", "collection", "page"}
      /\ k \in Jobs /\ TypeOf[k] \in {"actor", "collection", "page"}
  BY <1>1 DEF Typed, RecoveryAssumption
<1>3. OwnerOf[j] = OwnerOf[k]
  BY DEF SameChain
<1>4. TypeOf[j] = TypeOf[k]
  BY <1>1, <1>2, <1>3 DEF Outranks, SameChain
<1>5. QED
  BY <1>2, <1>3, <1>4 DEF OneJobOfAKind, SameChain

LEMMA RestartsWhole ==
  ASSUME RecoveryAssumption, Typed, NEW j \in bad, HasDepth(j)
  PROVE  \E k \in Restarts(bad) : SameChain(j, k) /\ HasDepth(k)
<1>1. \A i \in bad : i \in Jobs /\ TypeOf[i] \in {"actor", "collection", "page"}
  BY DEF Typed, RecoveryAssumption
<1>2. CASE \E i \in bad : OwnerOf[i] = OwnerOf[j] /\ TypeOf[i] = "actor"
  <2>1. PICK i \in bad : OwnerOf[i] = OwnerOf[j] /\ TypeOf[i] = "actor"
    BY <1>2
  <2>2. i \in Restarts(bad)
    BY <2>1 DEF Restarts, Outranks
  <2>3. HasDepth(i)
    BY <1>1, <2>1 DEF HasDepth, ActorHasDepth, WalkHasDepth
  <2>4. QED
    BY <2>1, <2>2, <2>3 DEF SameChain
<1>3. CASE /\ ~ \E i \in bad : OwnerOf[i] = OwnerOf[j] /\ TypeOf[i] = "actor"
           /\ \E i \in bad : OwnerOf[i] = OwnerOf[j] /\ TypeOf[i] = "collection" /\ DirectionOf[i] = DirectionOf[j]
  <2>1. PICK i \in bad : OwnerOf[i] = OwnerOf[j] /\ TypeOf[i] = "collection" /\ DirectionOf[i] = DirectionOf[j]
    BY <1>3
  <2>2. i \in Restarts(bad)
    BY <1>3, <2>1 DEF Restarts, Outranks
  <2>3. HasDepth(i)
    BY <1>1, <1>3, <2>1 DEF HasDepth, WalkHasDepth
  <2>4. QED
    BY <2>1, <2>2, <2>3 DEF SameChain
<1>4. CASE /\ ~ \E i \in bad : OwnerOf[i] = OwnerOf[j] /\ TypeOf[i] = "actor"
           /\ ~ \E i \in bad : OwnerOf[i] = OwnerOf[j] /\ TypeOf[i] = "collection" /\ DirectionOf[i] = DirectionOf[j]
  <2>1. j \in Restarts(bad)
    BY <1>4 DEF Restarts, Outranks
  <2>2. QED
    BY <2>1 DEF SameChain
<1>5. QED
  BY <1>2, <1>3, <1>4

\* A depth stays, and every step but those that begin a run or take up a job leaves what
\* is restarted as it is.
LEMMA RestartedStays ==
  ASSUME Restarted, stamped \subseteq stamped', script'.at # "off" => script.at # "off",
         script'.at # "off" => /\ script'.kind = script.kind /\ script'.began = script.began
                               /\ script'.at = "done" => script'.todo = {},
         script'.at # "off" /\ script'.kind = "status" => Restarting' = Restarting
  PROVE  Restarted'
<1>1. \A k : HasDepth(k) => HasDepth(k)'
  BY DEF HasDepth, ActorHasDepth, WalkHasDepth
<1>2. QED
  BY <1>1 DEF Restarted, NoParallels, NoneLeftOut, SameChain

LEMMA RestartedStep ==
  ASSUME RecoveryAssumption, OneJobOfAKind, Typed, Restarted, [Next]_vars
  PROVE  Restarted'
<1>1. CASE UNCHANGED vars
  <2>1. UNCHANGED <<script, requeued, stamped>>
    BY <1>1 DEF vars, graph, history
  <2>2. QED
    BY <2>1, RestartedStays DEF Restarting, Restarted
<1>2. ASSUME NEW kind, Begin(kind)
      PROVE  Restarted'
  <2>1. SUFFICES ASSUME kind = "status"
                 PROVE  Restarted'
    BY <1>2, BeginFacts DEF Restarted
  <2>2. /\ script'.at = "next" /\ script'.todo = Restarts(bad) /\ script'.kind = "status"
        /\ script'.began = {j \in bad : HasDepth(j)} /\ requeued' = {} /\ UNCHANGED stamped
    BY <1>2, <2>1, BeginFacts
  <2>3. Restarting' = Restarts(bad)
    BY <2>2 DEF Restarting
  <2>4. NoParallels'
    BY <2>3, RestartsApart DEF NoParallels, SameChain
  <2>5. \A k : HasDepth(k) => HasDepth(k)'
    BY <2>2 DEF HasDepth, ActorHasDepth, WalkHasDepth
  <2>6. NoneLeftOut'
    BY <2>2, <2>3, <2>5, RestartsWhole DEF NoneLeftOut, SameChain
  <2>7. QED
    BY <2>2, <2>4, <2>6 DEF Restarted
<1>3. CASE Pick
  <2>1. PICK j \in script.todo \union (IF script.kind = "failed" THEN failed ELSE {}) :
            /\ script.at = "next" /\ script'.at \in {"free", "next"} /\ script'.job = j
            /\ script'.kind = script.kind /\ script'.todo = script.todo \ {j}
            /\ script'.began = script.began
            /\ script.kind # "failed" /\ HasDepth(j) => script'.at = "free"
            /\ UNCHANGED <<requeued, stamped>>
    BY <1>3, PickFacts
  <2>2. SUFFICES ASSUME script.kind = "status"
                 PROVE  Restarted'
    BY <2>1 DEF Restarted
  <2>3. j \in script.todo /\ NoParallels /\ NoneLeftOut
    BY <2>1, <2>2 DEF Restarted
  <2>4. \A k : HasDepth(k)' <=> HasDepth(k)
    BY <2>1 DEF HasDepth, ActorHasDepth, WalkHasDepth
  <2>5. Restarting' \subseteq Restarting
    BY <2>1, <2>3 DEF Restarting
  <2>6. \A k \in Restarting : HasDepth(k) => k \in Restarting'
    BY <2>1, <2>2 DEF Restarting
  <2>7. NoParallels'
    BY <2>3, <2>5 DEF NoParallels, SameChain
  <2>8. NoneLeftOut'
    BY <2>1, <2>3, <2>4, <2>6 DEF NoneLeftOut, SameChain
  <2>9. QED
    BY <2>1, <2>7, <2>8 DEF Restarted
<1>4. CASE Free \/ Add \/ Mark
  <2>1. /\ stamped' = stamped
        /\ \/ script.at = "free" /\ To("add") /\ requeued' = requeued
           \/ script.at = "add" /\ To("mark") /\ requeued' = requeued \union {script.job}
           \/ script.at = "mark" /\ (To("unfail") \/ To("next")) /\ requeued' = requeued
    BY <1>4 DEF Free, Add, Mark, Script, graph, history
  <2>2. /\ script.at # "off" /\ script'.at \notin {"off", "done"} /\ script'.kind = script.kind
        /\ script'.began = script.began /\ script'.todo = script.todo /\ script'.job = script.job
        /\ script'.at = "add" => script.at = "free"
        /\ script'.at # "free"
    BY <2>1, ToFacts
  <2>3. Restarting' = Restarting
    BY <2>1, <2>2, ToFacts DEF Restarting
  <2>4. QED
    BY <2>1, <2>2, <2>3, RestartedStays
<1>5. CASE Unfail
  <2>1. /\ script.at = "unfail" /\ To("next") /\ script.kind = "failed"
    BY <1>5 DEF Unfail, Typed
  <2>2. script'.kind = "failed"
    BY <2>1, ToFacts
  <2>3. QED
    BY <2>2 DEF Restarted
<1>6. CASE End
  <2>1. /\ script.at = "next" /\ script.todo = {} /\ To("done") /\ UNCHANGED <<requeued, stamped>>
    BY <1>6 DEF End, Script, graph, history
  <2>2. /\ script'.at = "done" /\ script'.kind = script.kind /\ script'.todo = {}
        /\ script'.began = script.began
    BY <2>1, ToFacts
  <2>3. Restarting' = Restarting
    BY <2>1, <2>2 DEF Restarting
  <2>4. QED
    BY <2>1, <2>2, <2>3, RestartedStays
<1>7. CASE Again \/ Kill
  <2>1. script'.at = "off"
    BY <1>7 DEF Again, Kill, Off
  <2>2. QED
    BY <2>1 DEF Restarted
<1>8. ASSUME NEW w \in Workers, Work(w)
      PROVE  Restarted'
  <2>1. UNCHANGED <<script, requeued>> /\ stamped \subseteq stamped'
    BY <1>8 DEF Work, Pop, Lease, Finish, Raise, RecordFailed, graph, history
  <2>2. Restarting' = Restarting
    BY <2>1 DEF Restarting
  <2>3. QED
    BY <2>1, <2>2, RestartedStays DEF Restarted
<1>9. QED
  BY <1>1, <1>2, <1>3, <1>4, <1>5, <1>6, <1>7, <1>8 DEF Next, Run

\* tests/test_recover_http_status.py: "no parallel restarts".  Whatever crawlers do while
\* the script reads, and wherever it is killed, a run queues one job of a chain; and a run
\* that ends has queued one of every chain it found broken and had a depth for.
THEOREM ChainsRestartOnce ==
  ASSUME RecoveryAssumption, OneJobOfAKind
  PROVE  Spec => []OneRestart
<1>1. Init => Restarted
  BY DEF Init, Off, Restarted
<1>2. Restarted => OneRestart
  <2>1. SUFFICES ASSUME Restarted, script.at # "off", script.kind = "status"
                 PROVE  /\ \A j, k \in requeued : SameChain(j, k) => j = k
                        /\ script.at = "done" => \A j \in script.began : \E k \in requeued : SameChain(j, k)
    BY DEF OneRestart
  <2>2. requeued \subseteq Restarting /\ (script.at = "done" => Restarting = requeued)
    BY <2>1 DEF Restarted, Restarting
  <2>3. QED
    BY <2>1, <2>2 DEF Restarted, NoParallels, NoneLeftOut
<1>3. QED
  BY <1>1, <1>2, TypedInit, TypedStep, RestartedStep, PTL DEF Spec

-----------------------------------------------------------------------------
(* fixup_seen.py. *)

\* A set of naturals has a least element: induction, as a fact about sets.
LEMMA LeastNatural ==
  ASSUME NEW T \in SUBSET Nat, T # {}
  PROVE  \E m \in T : \A n \in T : m <= n
<1> DEFINE Less == {e \in Nat \X Nat : e[1] < e[2]}
<1>1. IsWellFoundedOn(Less, Nat)
  BY NatLessThanWellFounded DEF OpToRel
<1>2. \A m, n \in T : n < m => <<n, m>> \in Less
  OBVIOUS
<1> HIDE DEF Less
<1>3. PICK m \in T : \A n \in T : ~ (<<n, m>> \in Less)
  BY <1>1, WFMin
<1>4. \A n \in T : ~ (n < m)
  BY <1>2, <1>3
<1>5. \A n \in T : n \in Nat
  OBVIOUS
<1>6. QED
  BY <1>4, <1>5

\* A cursor that returns each member once.
NoRepeats == MaxRepeats = 0

Piled == {batch[i] : i \in DOMAIN batch}

\* The members the script has done with: those it is about to remove are not settled,
\* nor are those it has not added yet.
Settled == queue \ (left \union IF step = "trim" THEN Rebuilding!Doubles ELSE Piled)

SeenTyped ==
    /\ queue \subseteq Rebuilding!Members /\ seen \subseteq SeenIds
    /\ elsewhere \in [{"inflight", "failed", "graph"} -> SUBSET SeenIds]
    /\ step \in {"off", "inflight", "failed", "graph", "queue", "trim", "done"}
    /\ repeats \in Nat
    /\ batch \in Seq({m \in Rebuilding!Members : m.id # NoId})
    /\ left \union Piled \subseteq queue /\ left \intersect Piled = {}
    /\ \A i, k \in DOMAIN batch : batch[i] = batch[k] => i = k
    /\ step \notin {"queue", "trim"} => left = {} /\ batch = <<>>

\* The sources come one after another.
SourcesSeen ==
    /\ step \in {"inflight", "failed", "graph"} => seen \subseteq Rebuilding!Elsewhere
    /\ step \notin {"off", "inflight"} => elsewhere["inflight"] \subseteq seen \union skipped
    /\ step \notin {"off", "inflight", "failed"} => elsewhere["failed"] \subseteq seen \union skipped
    /\ step \notin {"off", "inflight", "failed", "graph"} => elsewhere["graph"] \subseteq seen \union skipped

\* Each seen id is elsewhere or that of a settled member, and only of one.
SettledOnce ==
    step \in {"queue", "trim", "done"} =>
        /\ seen \subseteq Rebuilding!IdsOf(Settled) \union Rebuilding!Elsewhere
        /\ Rebuilding!IdsOf(Settled) \ {NoId} \subseteq seen
        /\ \A m, n \in Settled : m.id = n.id /\ m.id # NoId => m = n
        /\ Rebuilding!IdsOf(Settled) \intersect Rebuilding!Elsewhere \subseteq skipped

Trimming ==
    step = "trim" => results \in [DOMAIN batch -> {0, 1}] /\ Rebuilding!IdsOf(Piled) \subseteq seen

SeenInv == SeenTyped /\ SourcesSeen /\ SettledOnce /\ Trimming /\ Rebuilding!FirstIsKept

LEMMA ElsewhereIs ==
  Rebuilding!Elsewhere = elsewhere["inflight"] \union elsewhere["failed"] \union elsewhere["graph"]
<1>1. DOMAIN Rebuilding!Sources = {1, 2, 3} /\ Rebuilding!Sources[1] = "inflight" /\ Rebuilding!Sources[2] = "failed"
      /\ Rebuilding!Sources[3] = "graph"
  BY DEF Rebuilding!Sources
<1>2. QED
  BY <1>1 DEF Rebuilding!Elsewhere

LEMMA SeenInit ==
  ASSUME Rebuilding!SeenFixupAssumption, Rebuilding!Init
  PROVE  SeenInv
<1>1. {Rebuilding!Sources[i] : i \in DOMAIN Rebuilding!Sources} = {"inflight", "failed", "graph"}
  <2>1. DOMAIN Rebuilding!Sources = {1, 2, 3} /\ Rebuilding!Sources[1] = "inflight" /\ Rebuilding!Sources[2] = "failed"
        /\ Rebuilding!Sources[3] = "graph"
    BY DEF Rebuilding!Sources
  <2>2. QED
    BY <2>1
<1>2. batch = <<>> /\ DOMAIN batch = {} /\ Piled = {}
  BY DEF Rebuilding!Init, Piled
<1>3. SeenTyped
  <2>1. elsewhere \in [{"inflight", "failed", "graph"} -> SUBSET SeenIds]
    BY <1>1 DEF Rebuilding!Init
  <2>2. batch \in Seq({m \in Rebuilding!Members : m.id # NoId})
    BY <1>2
  <2>3. QED
    BY <1>2, <2>1, <2>2 DEF Rebuilding!Init, SeenTyped
<1>4. QED
  BY <1>2, <1>3 DEF Rebuilding!Init, SeenInv, SourcesSeen, SettledOnce, Trimming, Rebuilding!FirstIsKept, Rebuilding!IdsOf

LEMMA SeenDelete ==
  ASSUME SeenInv, Rebuilding!Delete
  PROVE  SeenInv'
<1>1. /\ UNCHANGED <<queue, elsewhere, left, batch, results, original, repeats, kills>>
      /\ seen' = {} /\ step' = "inflight" /\ skipped' = {}
  BY DEF Rebuilding!Delete
<1>2. SeenTyped'
  BY <1>1 DEF Rebuilding!Delete, SeenInv, SeenTyped, Piled
<1>3. QED
  BY <1>1, <1>2 DEF SeenInv, SourcesSeen, SettledOnce, Trimming, Rebuilding!FirstIsKept, Rebuilding!Elsewhere

LEMMA SeenSkip ==
  ASSUME SeenInv, Rebuilding!Skip
  PROVE  SeenInv'
<1>1. /\ UNCHANGED <<queue, elsewhere, seen, step, left, batch, results, original, repeats, kills>>
      /\ step = "inflight" 
  BY DEF Rebuilding!Skip
<1>2. SeenTyped'
  BY <1>1 DEF SeenInv, SeenTyped, Piled
<1>3. QED
  BY <1>1, <1>2 DEF SeenInv, SourcesSeen, SettledOnce, Trimming, Rebuilding!FirstIsKept, Rebuilding!Elsewhere

LEMMA SeenAddSource ==
  ASSUME SeenInv, Rebuilding!AddSource
  PROVE  SeenInv'
<1> DEFINE following == CASE step = "inflight" -> "failed" [] step = "failed" -> "graph" [] step = "graph" -> "queue"
<1>1. /\ UNCHANGED <<queue, elsewhere, batch, results, skipped, original, repeats, kills>>
      /\ step \in {"inflight", "failed", "graph"}
      /\ seen \subseteq seen' /\ seen' \subseteq seen \union elsewhere[step]
      /\ step' = (IF elsewhere[step] \subseteq seen' \union skipped THEN following ELSE step)
      /\ left' = IF step' = "queue" THEN queue ELSE left
  <2>1. Len(Rebuilding!Sources) = 3 /\ DOMAIN Rebuilding!Sources = {1, 2, 3} /\ Rebuilding!Sources[1] = "inflight"
        /\ Rebuilding!Sources[2] = "failed" /\ Rebuilding!Sources[3] = "graph"
    BY DEF Rebuilding!Sources
  <2>2. PICK i \in {1, 2, 3} :
          /\ step = Rebuilding!Sources[i]
          /\ \E S \in SUBSET elsewhere[step] : seen' = seen \union S
          /\ step' = IF elsewhere[step] \subseteq seen' \union skipped
                   THEN (IF i < 3 THEN Rebuilding!Sources[i + 1] ELSE "queue")
                   ELSE step
          /\ left' = (IF step' = "queue" THEN queue ELSE left)
          /\ UNCHANGED <<queue, elsewhere, batch, results, skipped, original, repeats, kills>>
    BY <2>1 DEF Rebuilding!AddSource
  <2>3. (IF i < 3 THEN Rebuilding!Sources[i + 1] ELSE "queue") = following /\ step \in {"inflight", "failed", "graph"}
    BY <2>1, <2>2
  <2>4. QED
    BY <2>2, <2>3
<1>2. /\ left = {} /\ batch = <<>> /\ Piled = {} /\ seen \subseteq Rebuilding!Elsewhere
      /\ queue \subseteq Rebuilding!Members /\ seen \subseteq SeenIds /\ elsewhere[step] \subseteq SeenIds
  BY <1>1 DEF SeenInv, SeenTyped, SourcesSeen, Piled
<1>3. elsewhere[step] \subseteq Rebuilding!Elsewhere /\ Rebuilding!Elsewhere' = Rebuilding!Elsewhere
  BY <1>1, ElsewhereIs DEF Rebuilding!Elsewhere
<1>4. step' \in {"inflight", "failed", "graph", "queue"} /\ (step' # "queue" => left' = {})
  BY <1>1, <1>2
<1>5. SeenTyped'
  BY <1>1, <1>2, <1>4 DEF SeenInv, SeenTyped, Piled
<1>6. SourcesSeen'
  BY <1>1, <1>2, <1>3 DEF SeenInv, SourcesSeen
<1>7. step' = "queue" => Settled' = {}
  BY <1>1 DEF Settled
<1>8. SettledOnce' /\ Trimming'
  BY <1>1, <1>2, <1>3, <1>4, <1>7 DEF SettledOnce, Trimming, Rebuilding!IdsOf
<1>9. Rebuilding!FirstIsKept'
  BY <1>1, <1>3 DEF SeenInv, Rebuilding!FirstIsKept, Rebuilding!IdsOf
<1>10. QED
  BY <1>5, <1>6, <1>8, <1>9 DEF SeenInv

LEMMA SeenRead ==
  ASSUME Rebuilding!SeenFixupAssumption, NoRepeats, SeenInv, Rebuilding!Read
  PROVE  SeenInv'
<1> PICK m \in left :
      /\ left' = left \ {m}
      /\ batch' = IF m.id = NoId THEN batch ELSE Append(batch, m)
  BY DEF Rebuilding!Read, SeenInv, SeenTyped, NoRepeats
<1>1. UNCHANGED <<queue, elsewhere, seen, step, results, skipped, original, kills>> /\ step = "queue"
  BY DEF Rebuilding!Read
<1>2. /\ batch \in Seq({n \in Rebuilding!Members : n.id # NoId}) /\ left \subseteq queue /\ queue \subseteq Rebuilding!Members
      /\ Piled \subseteq queue /\ left \intersect Piled = {}
      /\ \A i, k \in DOMAIN batch : batch[i] = batch[k] => i = k
  BY DEF SeenInv, SeenTyped
<1>3. repeats' \in Nat
  <2>1. repeats' = repeats \/ repeats' = repeats + 1
    BY DEF Rebuilding!Read
  <2>2. QED
    BY <2>1 DEF SeenInv, SeenTyped
<1>4. CASE m.id = NoId
  <2>1. batch' = batch /\ Piled' = Piled
    BY <1>4 DEF Piled
  <2>2. SeenTyped'
    BY <1>1, <1>2, <1>3, <2>1 DEF SeenInv, SeenTyped
  <2>3. m \notin Settled /\ Settled' = Settled \union {m}
    BY <1>1, <1>2, <2>1 DEF Settled
  <2>4. m.id \notin Rebuilding!Elsewhere /\ m.id \notin seen
    BY <1>4, ElsewhereIs DEF SeenInv, SeenTyped, Rebuilding!SeenFixupAssumption
  <2>5. Rebuilding!IdsOf(Settled') = Rebuilding!IdsOf(Settled) \union {NoId}
    BY <1>4, <2>3 DEF Rebuilding!IdsOf
  <2>6. SettledOnce'
    BY <1>1, <1>4, <2>3, <2>4, <2>5 DEF SeenInv, SettledOnce, Rebuilding!IdsOf, Rebuilding!Elsewhere
  <2>7. QED
    BY <1>1, <2>2, <2>6 DEF SeenInv, SourcesSeen, Trimming, Rebuilding!FirstIsKept, Rebuilding!Elsewhere
<1>5. CASE m.id # NoId
  <2>1. batch' = Append(batch, m) /\ m \in Rebuilding!Members
    BY <1>2, <1>5
  <2>2. /\ batch' \in Seq({n \in Rebuilding!Members : n.id # NoId}) /\ DOMAIN batch' = 1 .. Len(batch) + 1
        /\ batch'[Len(batch) + 1] = m /\ DOMAIN batch = 1 .. Len(batch) /\ Len(batch) \in Nat
        /\ \A i \in DOMAIN batch : batch'[i] = batch[i]
    BY <1>2, <1>5, <2>1
  <2>3. DOMAIN batch' = DOMAIN batch \union {Len(batch) + 1}
    BY <2>2
  <2>4. Piled' = Piled \union {m}
    BY <2>2, <2>3 DEF Piled
  <2>5. \A i, k \in DOMAIN batch' : batch'[i] = batch'[k] => i = k
    <3>1. \A i \in DOMAIN batch : batch[i] # m
      BY <1>2 DEF Piled
    <3>2. QED
      BY <1>2, <2>2, <2>3, <3>1
  <2>6. SeenTyped'
    BY <1>1, <1>2, <1>3, <2>2, <2>4, <2>5 DEF SeenInv, SeenTyped
  <2>7. Settled' = Settled
    BY <1>1, <2>4 DEF Settled
  <2>8. QED
    BY <1>1, <2>6, <2>7 DEF SeenInv, SourcesSeen, SettledOnce, Trimming, Rebuilding!FirstIsKept, Rebuilding!Elsewhere
<1>6. QED
  BY <1>4, <1>5

\* What the SADDs of a batch return: of the members of an id that was not seen, the
\* first is new, and none else.
LEMMA SeenResults ==
  ASSUME SeenInv, Rebuilding!AddBatch
  PROVE  /\ results' \in [DOMAIN batch -> {0, 1}]
         /\ \A i \in DOMAIN batch : results'[i] = 1 => batch[i].id \notin seen
         /\ \A i, k \in DOMAIN batch : results'[i] = 1 /\ results'[k] = 1 /\ batch[i].id = batch[k].id => i = k
         /\ \A i \in DOMAIN batch : batch[i].id \in seen \/ \E k \in DOMAIN batch :
                                       batch[k].id = batch[i].id /\ results'[k] = 1
<1> DEFINE Before(i) == {batch[k].id : k \in 1 .. i - 1}
<1>1. /\ results' = [i \in DOMAIN batch |-> IF batch[i].id \in seen \union Before(i) THEN 0 ELSE 1]
      /\ batch \in Seq({m \in Rebuilding!Members : m.id # NoId})
  BY DEF Rebuilding!AddBatch, SeenInv, SeenTyped
<1>2. DOMAIN batch = 1 .. Len(batch) /\ Len(batch) \in Nat
  BY <1>1
<1>3. \A i \in DOMAIN batch : results'[i] = 1 <=> batch[i].id \notin seen \union Before(i)
  BY <1>1
<1>4. \A i, k \in DOMAIN batch : k < i => batch[k].id \in Before(i)
  BY <1>2
<1>5. results' \in [DOMAIN batch -> {0, 1}]
  BY <1>1
<1>6. \A i \in DOMAIN batch : results'[i] = 1 => batch[i].id \notin seen
  BY <1>3
<1> DEFINE Same(i) == {k \in DOMAIN batch : batch[k].id = batch[i].id}
<1>7. ASSUME NEW i \in DOMAIN batch, batch[i].id \notin seen
      PROVE  \E k \in DOMAIN batch : batch[k].id = batch[i].id /\ results'[k] = 1
  <2>1. Same(i) \in SUBSET Nat /\ Same(i) # {}
    BY <1>2, <1>7
  <2> HIDE DEF Same
  <2>2. PICK k \in Same(i) : \A n \in Same(i) : k <= n
    BY <2>1, LeastNatural
  <2>3. k \in DOMAIN batch /\ batch[k].id = batch[i].id
    BY DEF Same
  <2>4. batch[k].id \notin Before(k)
    <3> SUFFICES ASSUME NEW n \in 1 .. k - 1, batch[n].id = batch[k].id
                 PROVE  FALSE
      OBVIOUS
    <3>1. n \in DOMAIN batch /\ ~ (k <= n)
      BY <1>2, <2>3
    <3>2. QED
      BY <2>2, <2>3, <3>1 DEF Same
  <2>5. QED
    BY <1>3, <1>7, <2>3, <2>4
<1> HIDE DEF Before, Same
<1>8. ASSUME NEW i \in DOMAIN batch, NEW k \in DOMAIN batch, results'[i] = 1, results'[k] = 1,
             batch[i].id = batch[k].id
      PROVE  i = k
  <2>1. ~ (k < i) /\ ~ (i < k)
    BY <1>3, <1>4, <1>8
  <2>2. QED
    BY <1>2, <2>1
<1>9. QED
  BY <1>5, <1>6, <1>7, <1>8

LEMMA SeenAddBatch ==
  ASSUME SeenInv, Rebuilding!AddBatch
  PROVE  SeenInv'
<1>1. /\ UNCHANGED <<queue, elsewhere, left, batch, skipped, original, repeats, kills>>
      /\ step = "queue" /\ step' = "trim" /\ seen' = seen \union {batch[i].id : i \in DOMAIN batch}
  BY DEF Rebuilding!AddBatch
<1>2. /\ results' \in [DOMAIN batch -> {0, 1}]
      /\ \A i \in DOMAIN batch : results'[i] = 1 => batch[i].id \notin seen
      /\ \A i, k \in DOMAIN batch : results'[i] = 1 /\ results'[k] = 1 /\ batch[i].id = batch[k].id => i = k
      /\ \A i \in DOMAIN batch : batch[i].id \in seen \/ \E k \in DOMAIN batch :
                                    batch[k].id = batch[i].id /\ results'[k] = 1
  BY SeenResults
<1>3. /\ batch \in Seq({m \in Rebuilding!Members : m.id # NoId}) /\ left \union Piled \subseteq queue
      /\ left \intersect Piled = {} /\ \A i, k \in DOMAIN batch : batch[i] = batch[k] => i = k
      /\ \A i \in DOMAIN batch : batch[i].id \in SeenIds
  <2>1. batch \in Seq({m \in Rebuilding!Members : m.id # NoId})
    BY DEF SeenInv, SeenTyped
  <2>2. \A i \in DOMAIN batch : batch[i] \in Rebuilding!Members /\ batch[i].id # NoId
    BY <2>1
  <2>3. \A i \in DOMAIN batch : batch[i].id \in SeenIds
    BY <2>2 DEF Rebuilding!Members
  <2>4. QED
    BY <2>1, <2>3 DEF SeenInv, SeenTyped
<1>4. Piled' = Piled /\ Rebuilding!IdsOf(Piled) = {batch[i].id : i \in DOMAIN batch}
  BY <1>1 DEF Piled, Rebuilding!IdsOf
<1>5. SeenTyped'
  BY <1>1, <1>3, <1>4 DEF SeenInv, SeenTyped
<1>6. SourcesSeen'
  BY <1>1 DEF SeenInv, SourcesSeen, Rebuilding!Elsewhere
<1>7. Trimming'
  BY <1>1, <1>2, <1>4 DEF Trimming, Rebuilding!IdsOf
<1> DEFINE ones == {batch[i] : i \in {k \in DOMAIN batch : results'[k] = 1}}
<1>8. Rebuilding!Doubles' = {batch[i] : i \in {k \in DOMAIN batch : results'[k] = 0}}
  BY <1>1, <1>2 DEF Rebuilding!Doubles
<1>9. Rebuilding!Doubles' \union ones = Piled /\ Rebuilding!Doubles' \intersect ones = {}
  BY <1>2, <1>3, <1>8 DEF Piled
<1>10. Settled' = Settled \union ones /\ Settled = queue \ (left \union Piled)
  <2>1. Settled = queue \ (left \union Piled) /\ Settled' = queue \ (left \union Rebuilding!Doubles')
    BY <1>1, <1>4 DEF Settled
  <2>2. QED
    BY <1>3, <1>9, <2>1
<1>11. \A m \in ones : m.id \notin seen /\ m.id \in seen' /\ m.id \in SeenIds
  BY <1>1, <1>2, <1>3
<1>12. \A m, n \in ones : m.id = n.id => m = n
  BY <1>2
<1>13. \A j \in {batch[i].id : i \in DOMAIN batch} : j \in seen \/ \E m \in ones : m.id = j
  BY <1>2
<1> HIDE DEF ones
<1>14. /\ seen \subseteq Rebuilding!IdsOf(Settled) \union Rebuilding!Elsewhere
       /\ Rebuilding!IdsOf(Settled) \ {NoId} \subseteq seen
       /\ \A m, n \in Settled : m.id = n.id /\ m.id # NoId => m = n
       /\ Rebuilding!IdsOf(Settled) \intersect Rebuilding!Elsewhere \subseteq skipped
  BY <1>1 DEF SeenInv, SettledOnce
<1>15. Rebuilding!Elsewhere' = Rebuilding!Elsewhere /\ Rebuilding!Elsewhere \subseteq seen \union skipped
  BY <1>1, ElsewhereIs DEF SeenInv, SourcesSeen, Rebuilding!Elsewhere
<1>16. Rebuilding!IdsOf(Settled') = Rebuilding!IdsOf(Settled) \union Rebuilding!IdsOf(ones)
  BY <1>10 DEF Rebuilding!IdsOf
<1>17. seen' \subseteq Rebuilding!IdsOf(Settled') \union Rebuilding!Elsewhere
  BY <1>1, <1>13, <1>14, <1>16 DEF Rebuilding!IdsOf
<1>18. /\ Rebuilding!IdsOf(Settled') \ {NoId} \subseteq seen'
       /\ Rebuilding!IdsOf(Settled') \intersect Rebuilding!Elsewhere \subseteq skipped
  <2>1. Rebuilding!IdsOf(ones) \subseteq seen' /\ Rebuilding!IdsOf(ones) \intersect seen = {}
    BY <1>11 DEF Rebuilding!IdsOf
  <2>2. Rebuilding!IdsOf(ones) \intersect Rebuilding!Elsewhere \subseteq skipped
    BY <1>15, <2>1
  <2>3. seen \subseteq seen'
    BY <1>1
  <2>4. QED
    BY <1>14, <1>16, <2>1, <2>2, <2>3
<1>19. \A m, n \in Settled' : m.id = n.id /\ m.id # NoId => m = n
  <2>1. \A m \in Settled, n \in ones : m.id # NoId => m.id # n.id
    BY <1>11, <1>14 DEF Rebuilding!IdsOf
  <2>2. QED
    BY <1>10, <1>12, <1>14, <2>1
<1>20. SettledOnce'
  BY <1>1, <1>15, <1>17, <1>18, <1>19 DEF SettledOnce
<1>21. QED
  BY <1>1, <1>5, <1>6, <1>7, <1>15, <1>20 DEF SeenInv, Rebuilding!FirstIsKept

LEMMA SeenTrim ==
  ASSUME SeenInv, Rebuilding!Trim
  PROVE  SeenInv'
<1>1. /\ UNCHANGED <<elsewhere, seen, left, skipped, original, repeats, kills>>
      /\ queue' = queue \ Rebuilding!Doubles /\ batch' = <<>> /\ results' = <<>> /\ step = "trim" /\ step' = "queue"
  BY DEF Rebuilding!Trim
<1>2. DOMAIN batch' = {} /\ Piled' = {}
  BY <1>1 DEF Piled
<1>3. Rebuilding!Doubles \subseteq Piled /\ left \intersect Piled = {} /\ left \subseteq queue
  BY <1>1 DEF SeenInv, SeenTyped, Trimming, Rebuilding!Doubles, Piled
<1>4. SeenTyped'
  <2>1. batch' \in Seq({m \in Rebuilding!Members : m.id # NoId})
    BY <1>1
  <2>2. QED
    BY <1>1, <1>2, <1>3, <2>1 DEF SeenInv, SeenTyped
<1>5. Settled' = Settled /\ Settled \subseteq queue'
  BY <1>1, <1>2 DEF Settled
<1>6. SettledOnce' /\ SourcesSeen' /\ Trimming' /\ Rebuilding!Elsewhere' = Rebuilding!Elsewhere
  BY <1>1, <1>5 DEF SeenInv, SettledOnce, SourcesSeen, Trimming, Rebuilding!Elsewhere
<1>7. Rebuilding!IdsOf(Rebuilding!Doubles) \subseteq seen /\ seen \subseteq Rebuilding!IdsOf(Settled) \union Rebuilding!Elsewhere
  BY <1>1, <1>3 DEF SeenInv, SettledOnce, Trimming, Rebuilding!IdsOf
<1>8. Rebuilding!IdsOf(queue) \subseteq Rebuilding!IdsOf(queue') \union Rebuilding!IdsOf(Rebuilding!Doubles)
  BY <1>1 DEF Rebuilding!IdsOf
<1>9. Rebuilding!IdsOf(Settled) \subseteq Rebuilding!IdsOf(queue')
  BY <1>5 DEF Rebuilding!IdsOf
<1>10. Rebuilding!FirstIsKept'
  BY <1>1, <1>6, <1>7, <1>8, <1>9 DEF SeenInv, Rebuilding!FirstIsKept, Rebuilding!IdsOf
<1>11. QED
  BY <1>4, <1>6, <1>10 DEF SeenInv

LEMMA SeenEnds ==
  ASSUME SeenInv, Rebuilding!End \/ Rebuilding!Kill
  PROVE  SeenInv'
<1>1. CASE Rebuilding!End
  <2>1. /\ UNCHANGED <<queue, elsewhere, seen, left, batch, results, skipped, original, repeats, kills>>
        /\ step = "queue" /\ left = {} /\ batch = <<>> /\ step' = "done"
    BY <1>1 DEF Rebuilding!End
  <2>2. Settled' = Settled /\ Piled' = Piled
    BY <2>1 DEF Settled, Piled
  <2>3. SeenTyped'
    BY <2>1, <2>2 DEF SeenInv, SeenTyped
  <2>4. QED
    BY <2>1, <2>2, <2>3 DEF SeenInv, SettledOnce, SourcesSeen, Trimming, Rebuilding!FirstIsKept, Rebuilding!Elsewhere
<1>2. CASE Rebuilding!Kill
  <2>1. /\ UNCHANGED <<queue, elsewhere, seen, skipped, original, repeats>>
        /\ step' = "off" /\ left' = {} /\ batch' = <<>>
    BY <1>2 DEF Rebuilding!Kill
  <2>2. DOMAIN batch' = {} /\ Piled' = {} /\ batch' \in Seq({m \in Rebuilding!Members : m.id # NoId})
    BY <2>1 DEF Piled
  <2>3. SeenTyped'
    BY <2>1, <2>2 DEF SeenInv, SeenTyped
  <2>4. QED
    BY <2>1, <2>3 DEF SeenInv, SettledOnce, SourcesSeen, Trimming, Rebuilding!FirstIsKept, Rebuilding!Elsewhere
<1>3. QED
  BY <1>1, <1>2

LEMMA SeenStep ==
  ASSUME Rebuilding!SeenFixupAssumption, NoRepeats, SeenInv, [Rebuilding!Next]_Rebuilding!vars
  PROVE  SeenInv'
<1>1. CASE UNCHANGED Rebuilding!vars
  <2>1. UNCHANGED <<queue, elsewhere, seen, step, left, batch, results, skipped, original, repeats, kills>>
    BY <1>1 DEF Rebuilding!vars, Rebuilding!script
  <2>2. Piled' = Piled /\ Settled' = Settled /\ SeenTyped'
    BY <2>1 DEF Piled, Settled, SeenInv, SeenTyped, Rebuilding!Doubles
  <2>3. QED
    BY <2>1, <2>2 DEF SeenInv, SettledOnce, SourcesSeen, Trimming, Rebuilding!FirstIsKept, Rebuilding!Elsewhere
<1>2. CASE Rebuilding!Next
  BY <1>2, SeenDelete, SeenSkip, SeenAddSource, SeenRead, SeenAddBatch, SeenTrim, SeenEnds DEF Rebuilding!Next
<1>3. QED
  BY <1>1, <1>2

\* Both hold together, by one invariant.
LEMMA SeenHolds ==
  ASSUME NoRepeats
  PROVE  AllSpec => [](FirstIsKept /\ SeenIsRebuilt)
<1> USE ScriptsAssumption
<1>1. Rebuilding!Init => SeenInv
  BY SeenInit
<1>2. SeenInv /\ [Rebuilding!Next]_Rebuilding!vars => SeenInv'
  BY SeenStep
<1>3. SeenInv => Rebuilding!FirstIsKept /\ Rebuilding!SeenIsRebuilt
  <2> SUFFICES ASSUME SeenInv, step = "done"
               PROVE  /\ seen \subseteq Rebuilding!IdsOf(queue) \union Rebuilding!Elsewhere
                      /\ (Rebuilding!IdsOf(queue) \ {NoId}) \union (Rebuilding!Elsewhere \ skipped) \subseteq seen
                      /\ \A m, n \in queue : m.id = n.id /\ m.id # NoId => m = n
                      /\ Rebuilding!IdsOf(queue) \intersect Rebuilding!Elsewhere \subseteq skipped
    BY DEF SeenInv, Rebuilding!SeenIsRebuilt
  <2>1. left = {} /\ batch = <<>>
    BY DEF SeenInv, SeenTyped
  <2>2. Settled = queue
    BY <2>1 DEF Settled, Piled
  <2>3. Rebuilding!Elsewhere \subseteq seen \union skipped
    BY ElsewhereIs DEF SeenInv, SourcesSeen
  <2>4. QED
    BY <2>2, <2>3 DEF SeenInv, SettledOnce
<1> DEFINE Moves == part = "rebuilding"
<1>4. AllInit /\ Moves => Rebuilding!Init
  BY DEF AllInit, RecoveryInit, Recovering
<1>5. Moves /\ [AllNext]_allVars => [Rebuilding!Next]_(Rebuilding!vars) /\ Moves'
  BY DEF AllNext, RecoveryNext, Recovering, allVars, vars, store, bounds, otherVars, fixupVars,
         rewritingVars, rebuildingVars, seedingVars, Rebuilding!vars, Rebuilding!script
<1>6. ~ Moves /\ [AllNext]_allVars => ~ Moves'
  BY DEF AllNext, allVars
<1>7. (~ Moves => FirstIsKept /\ SeenIsRebuilt) /\ (Rebuilding!FirstIsKept /\ Rebuilding!SeenIsRebuilt => FirstIsKept /\ SeenIsRebuilt)
  BY DEF FirstIsKept, SeenIsRebuilt
<1> HIDE DEF Moves
<1>8. QED
  BY <1>1, <1>2, <1>3, <1>4, <1>5, <1>6, <1>7, PTL DEF AllSpec

\* With a cursor that returns each member once, fixup_seen.py takes no id off the queue
\* that is neither queued once more nor leased, failed or in the graph, wherever it is
\* killed and however often it runs.
THEOREM FirstsAreKept ==
  ASSUME NoRepeats
  PROVE  AllSpec => []FirstIsKept
BY SeenHolds, PTL

\* And when it is done the seen ids are those that are somewhere, each queued once.
THEOREM SeenRebuilt ==
  ASSUME NoRepeats
  PROVE  AllSpec => []SeenIsRebuilt
BY SeenHolds, PTL

-----------------------------------------------------------------------------
(* The fix-ups that rewrite members. *)

Batch == {batch[i] : i \in DOMAIN batch}

\* What fixup_crc_tiebreak leaves as it is.
Passed(m) == fixup = "crc" /\ m.job \in Nameless

FixTyped ==
    /\ fixup \in {"queue", "priority", "zero", "crc", "hash"}
    /\ step \in {"off", "scan", "pipe", "done"}
    /\ members \subseteq Rewriting!Members /\ left \subseteq Rewriting!Members
    /\ batch \in Seq(Rewriting!Members) /\ executed \in 0 .. 2
    /\ fixup # "zero" => \A m \in Batch : m.form = "old"
    /\ step \in {"off", "done"} => batch = <<>>

\* What the script has read is there yet, in one form or the other.
ReadIsThere == \A m \in left \union Batch : m \in members \/ Rewriting!New(m) \in members

\* What is not in the new form has still to be read or written.
OldIsToCome ==
    step # "off" => \A m \in members : m.form = "old" => Passed(m) \/ m \in left \union Batch

\* At the end nothing is left to read or to write.
AtDone == step = "done" => left = {} /\ batch = <<>>

\* Of the first member's commands some are executed.
UnderWay ==
    step = "pipe" /\ batch # <<>> =>
        LET m == Head(batch)
        IN  /\ fixup \in Rewriting!Atomic => executed = 0
            /\ fixup \notin Rewriting!Atomic =>
                  /\ executed <= Len(Rewriting!Rewriting(m))
                  /\ executed >= 1 => Rewriting!New(m) \in members
                  /\ executed >= 1 /\ executed = Len(Rewriting!Rewriting(m)) => m \notin members \/ m.form = "new"

NamelessOnce ==
    fixup = "crc" => \A m, n \in members : m.job \in Nameless /\ Rewriting!Key(m) = Rewriting!Key(n) => m = n

FixInv ==
    /\ FixTyped /\ ReadIsThere /\ OldIsToCome /\ AtDone /\ UnderWay /\ NamelessOnce
    /\ Rewriting!JobsAreThere

\* Members are told apart by what is kept of them and by their form.
LEMMA MemberForms ==
  /\ \A m \in Rewriting!Members : /\ Rewriting!New(m) \in Rewriting!Members /\ Rewriting!New(m).form = "new" /\ Rewriting!Key(Rewriting!New(m)) = Rewriting!Key(m)
                          /\ Rewriting!New(m).job = m.job
                          /\ m.form \in {"old", "new"} /\ (m.form = "new" => Rewriting!New(m) = m)
  /\ \A m, n \in Rewriting!Members : Rewriting!Key(m) = Rewriting!Key(n) /\ m.form = n.form => m = n
  /\ \A m, n \in Rewriting!Members : Rewriting!Key(m) = Rewriting!Key(n) => Rewriting!New(m) = Rewriting!New(n) /\ m.job = n.job
<1>1. ASSUME NEW m \in Rewriting!Members
      PROVE  /\ Rewriting!New(m) \in Rewriting!Members /\ Rewriting!New(m).form = "new" /\ Rewriting!Key(Rewriting!New(m)) = Rewriting!Key(m)
             /\ Rewriting!New(m).job = m.job
             /\ m.form \in {"old", "new"} /\ (m.form = "new" => Rewriting!New(m) = m)
  BY DEF Rewriting!Members, Rewriting!New, Rewriting!Key
<1>2. ASSUME NEW m \in Rewriting!Members, NEW n \in Rewriting!Members, Rewriting!Key(m) = Rewriting!Key(n)
      PROVE  m.job = n.job /\ m.stamp = n.stamp
  <2>1. Rewriting!Key(m).job = m.job /\ Rewriting!Key(n).job = n.job /\ Rewriting!Key(m).stamp = m.stamp /\ Rewriting!Key(n).stamp = n.stamp
    BY DEF Rewriting!Key
  <2>2. QED
    BY <1>2, <2>1
<1>3. ASSUME NEW m \in Rewriting!Members, NEW n \in Rewriting!Members, Rewriting!Key(m) = Rewriting!Key(n)
      PROVE  Rewriting!New(m) = Rewriting!New(n) /\ m.job = n.job /\ (m.form = n.form => m = n)
  BY <1>2, <1>3 DEF Rewriting!Members, Rewriting!New
<1>4. QED
  BY <1>1, <1>3

LEMMA FixInit ==
  ASSUME Rewriting!FixupAssumption, Rewriting!Init
  PROVE  FixInv
<1>1. batch = <<>> /\ DOMAIN batch = {} /\ Batch = {} /\ left = {} /\ step = "off" /\ executed = 0
  BY DEF Rewriting!Init, Batch
<1>2. FixTyped
  BY <1>1 DEF Rewriting!Init, Rewriting!FixupAssumption, FixTyped
<1>3. QED
  BY <1>1, <1>2 DEF Rewriting!Init, FixInv, ReadIsThere, OldIsToCome, AtDone, UnderWay, NamelessOnce,
       Rewriting!JobsAreThere, Rewriting!NothingIsLost, Rewriting!OnceInQueue

LEMMA FixBegin ==
  ASSUME FixInv, Rewriting!Begin
  PROVE  FixInv'
<1>1. /\ UNCHANGED <<fixup, members, original, batch, executed, kills>> /\ batch = <<>>
      /\ step' = "scan" /\ left' = members
  BY DEF Rewriting!Begin, FixInv, FixTyped
<1>2. Batch' = Batch
  BY <1>1 DEF Batch
<1>3. FixTyped'
  BY <1>1, <1>2 DEF FixInv, FixTyped
<1>4. ReadIsThere' /\ OldIsToCome' /\ AtDone' /\ UnderWay'
  BY <1>1, <1>2 DEF FixInv, ReadIsThere, OldIsToCome, AtDone, UnderWay, Batch
<1>5. NamelessOnce' /\ Rewriting!JobsAreThere'
  BY <1>1 DEF FixInv, NamelessOnce, Rewriting!JobsAreThere, Rewriting!NothingIsLost, Rewriting!OnceInQueue
<1>6. QED
  BY <1>3, <1>4, <1>5 DEF FixInv

LEMMA FixRead ==
  ASSUME FixInv, Rewriting!Read
  PROVE  FixInv'
<1> PICK m \in left \union members :
      /\ left' = left \ {m}
      /\ batch' = IF fixup = "zero" \/ Rewriting!IsOld(m) THEN Append(batch, m) ELSE batch
  BY DEF Rewriting!Read
<1>1. UNCHANGED <<fixup, members, original, step, executed, kills>> /\ step = "scan"
  BY DEF Rewriting!Read
<1>2. batch \in Seq(Rewriting!Members) /\ m \in Rewriting!Members
  BY DEF FixInv, FixTyped
<1>3. /\ batch' \in Seq(Rewriting!Members)
      /\ Batch' = IF fixup = "zero" \/ Rewriting!IsOld(m) THEN Batch \union {m} ELSE Batch
  <2>1. CASE fixup = "zero" \/ Rewriting!IsOld(m)
    <3>1. batch' = Append(batch, m)
      BY <2>1
    <3>2. /\ batch' \in Seq(Rewriting!Members) /\ DOMAIN batch' = DOMAIN batch \union {Len(batch) + 1}
          /\ batch'[Len(batch) + 1] = m /\ \A i \in DOMAIN batch : batch'[i] = batch[i]
      BY <1>2, <3>1
    <3>3. QED
      BY <2>1, <3>2 DEF Batch
  <2>2. CASE ~ (fixup = "zero" \/ Rewriting!IsOld(m))
    BY <1>2, <2>2 DEF Batch
  <2>3. QED
    BY <2>1, <2>2
<1>4. FixTyped'
  BY <1>1, <1>2, <1>3 DEF FixInv, FixTyped, Rewriting!IsOld
<1>5. ReadIsThere'
  BY <1>1, <1>3 DEF FixInv, ReadIsThere
<1>6. OldIsToCome'
  BY <1>1, <1>3 DEF FixInv, OldIsToCome, Passed, Rewriting!IsOld
<1>7. AtDone' /\ UnderWay' /\ NamelessOnce' /\ Rewriting!JobsAreThere'
  BY <1>1 DEF FixInv, AtDone, UnderWay, NamelessOnce, Rewriting!JobsAreThere, Rewriting!NothingIsLost, Rewriting!OnceInQueue
<1>8. QED
  BY <1>4, <1>5, <1>6, <1>7 DEF FixInv

LEMMA FixSend ==
  ASSUME FixInv, Rewriting!Send \/ Rewriting!Sent \/ Rewriting!End
  PROVE  FixInv'
<1>1. /\ UNCHANGED <<fixup, members, original, left, batch, kills>> /\ step' \in {"scan", "pipe", "done"}
      /\ step # "off" /\ executed' \in {0, executed} /\ (step' = "pipe" => executed' = 0)
      /\ step' = "done" => left = {} /\ batch = <<>>
  BY DEF Rewriting!Send, Rewriting!Sent, Rewriting!End
<1>2. Batch' = Batch
  BY <1>1 DEF Batch
<1>3. FixTyped'
  BY <1>1, <1>2 DEF FixInv, FixTyped
<1>4. ReadIsThere' /\ OldIsToCome' /\ AtDone'
  BY <1>1, <1>2 DEF FixInv, ReadIsThere, OldIsToCome, AtDone, Passed
<1>5. UnderWay'
  <2>1. \A m : Len(Rewriting!Rewriting(m)) \in {0, 1, 2}
    BY DEF Rewriting!Rewriting
  <2>2. Rewriting!Rewriting(Head(batch))' = Rewriting!Rewriting(Head(batch))
    BY <1>1 DEF Rewriting!Rewriting, Rewriting!Added, Rewriting!Removed, Rewriting!New
  <2>3. QED
    BY <1>1, <2>1, <2>2 DEF UnderWay
<1>6. NamelessOnce' /\ Rewriting!JobsAreThere'
  BY <1>1 DEF FixInv, NamelessOnce, Rewriting!JobsAreThere, Rewriting!NothingIsLost, Rewriting!OnceInQueue
<1>7. QED
  BY <1>3, <1>4, <1>5, <1>6 DEF FixInv

LEMMA FixKill ==
  ASSUME FixInv, Rewriting!Kill
  PROVE  FixInv'
<1>1. /\ UNCHANGED <<fixup, members, original>> /\ step' = "off" /\ left' = {} /\ batch' = <<>> /\ executed' = 0
  BY DEF Rewriting!Kill
<1>2. DOMAIN batch' = {} /\ Batch' = {} /\ batch' \in Seq(Rewriting!Members)
  BY <1>1 DEF Batch
<1>3. QED
  BY <1>1, <1>2 DEF FixInv, FixTyped, ReadIsThere, OldIsToCome, AtDone, UnderWay, NamelessOnce,
       Rewriting!JobsAreThere, Rewriting!NothingIsLost, Rewriting!OnceInQueue

\* What a step keeps of the jobs.
LEMMA FixKeeps ==
  ASSUME Rewriting!NothingIsLost, original' = original,
         \A m \in members : \E n \in members' : Rewriting!Key(n) = Rewriting!Key(m)
  PROVE  Rewriting!NothingIsLost'
BY DEF Rewriting!NothingIsLost

\* A transaction.
LEMMA FixExecuteAll ==
  ASSUME FixInv, Rewriting!ExecuteAll
  PROVE  FixInv'
<1>1. /\ UNCHANGED <<fixup, original, step, left, executed, kills>> /\ step = "pipe" /\ fixup \in {"queue", "priority"}
      /\ members' = (members \ Batch) \union {Rewriting!New(m) : m \in Batch} /\ batch' = <<>>
  BY DEF Rewriting!ExecuteAll, Rewriting!Atomic, Batch
<1>2. DOMAIN batch' = {} /\ Batch' = {} /\ batch' \in Seq(Rewriting!Members)
  BY <1>1 DEF Batch
<1>3. /\ members \subseteq Rewriting!Members /\ Batch \subseteq Rewriting!Members /\ left \subseteq Rewriting!Members
      /\ \A m \in Batch : m.form = "old"
  BY <1>1 DEF FixInv, FixTyped, Batch
<1>4. FixTyped'
  <2>1. members' \subseteq Rewriting!Members
    BY <1>1, <1>3, MemberForms
  <2>2. QED
    BY <1>1, <1>2, <2>1 DEF FixInv, FixTyped
<1>5. \A m \in members : m \in members' \/ Rewriting!New(m) \in members'
  BY <1>1
<1>6. ReadIsThere'
  <2> SUFFICES ASSUME NEW m \in left
               PROVE  m \in members' \/ Rewriting!New(m) \in members'
    BY <1>1, <1>2 DEF ReadIsThere
  <2>1. m \in Rewriting!Members /\ (m \in members \/ Rewriting!New(m) \in members)
    BY <1>3 DEF FixInv, ReadIsThere
  <2>2. Rewriting!New(m) \notin Batch
    BY <1>3, <2>1, MemberForms
  <2>3. QED
    BY <1>1, <1>5, <2>1, <2>2
<1>7. \A m \in members' : m.form = "old" => m \in members /\ m \notin Batch
  BY <1>1, <1>3, MemberForms
<1>8. OldIsToCome'
  BY <1>1, <1>2, <1>7 DEF FixInv, OldIsToCome, Passed
<1>9. \A m, n \in members : Rewriting!Key(m) = Rewriting!Key(n) => m = n
  BY <1>1 DEF FixInv, Rewriting!JobsAreThere, Rewriting!OnceInQueue
<1>10. ASSUME NEW x \in members', NEW y \in members', Rewriting!Key(x) = Rewriting!Key(y)
       PROVE  x = y
  <2>1. ASSUME NEW a \in members \ Batch, NEW m \in Batch, Rewriting!Key(a) = Rewriting!Key(m)
        PROVE  a = Rewriting!New(m)
    <3>1. m \in members \/ Rewriting!New(m) \in members
      BY DEF FixInv, ReadIsThere
    <3>2. a # m /\ Rewriting!Key(Rewriting!New(m)) = Rewriting!Key(m)
      BY <1>3, MemberForms
    <3>3. QED
      BY <1>9, <2>1, <3>1, <3>2
  <2>2. x \in Rewriting!Members /\ y \in Rewriting!Members /\ \A m \in Batch : Rewriting!Key(Rewriting!New(m)) = Rewriting!Key(m)
    BY <1>4, <1>3, MemberForms DEF FixTyped
  <2>3. CASE x \in members \ Batch /\ y \in members \ Batch
    BY <1>9, <1>10, <2>3
  <2>4. ASSUME NEW m \in Batch, y = Rewriting!New(m), x \in members \ Batch
        PROVE  x = y
    BY <1>10, <2>1, <2>2, <2>4
  <2>5. ASSUME NEW m \in Batch, x = Rewriting!New(m), y \in members \ Batch
        PROVE  x = y
    BY <1>10, <2>1, <2>2, <2>5
  <2>6. ASSUME NEW m \in Batch, NEW n \in Batch, x = Rewriting!New(m), y = Rewriting!New(n)
        PROVE  x = y
    BY <1>3, <1>10, <2>6, MemberForms
  <2>7. QED
    BY <1>1, <2>3, <2>4, <2>5, <2>6
<1>11. Rewriting!NothingIsLost'
  <2>1. \A m \in members : \E n \in members' : Rewriting!Key(n) = Rewriting!Key(m)
    BY <1>3, <1>5, MemberForms
  <2>2. QED
    BY <1>1, <2>1, FixKeeps DEF FixInv, Rewriting!JobsAreThere
<1>12. AtDone' /\ UnderWay' /\ NamelessOnce'
  BY <1>1 DEF AtDone, UnderWay, NamelessOnce
<1>13. QED
  BY <1>4, <1>6, <1>8, <1>10, <1>11, <1>12 DEF FixInv, Rewriting!JobsAreThere, Rewriting!OnceInQueue

\* What is sent for a member of a script that has no transaction.
LEMMA FixRewriting ==
  ASSUME FixTyped, fixup \notin Rewriting!Atomic, NEW m
  PROVE  /\ fixup = "zero" => Rewriting!Rewriting(m) = <<[op |-> "score", member |-> m]>>
         /\ Passed(m) => Rewriting!Rewriting(m) = <<>>
         /\ fixup # "zero" /\ ~ Passed(m) => Rewriting!Rewriting(m) = <<Rewriting!Added(m), Rewriting!Removed(m)>>
         /\ Len(Rewriting!Rewriting(m)) \in {0, 1, 2}
<1>1. fixup \in {"zero", "crc", "hash"}
  BY DEF FixTyped, Rewriting!Atomic
<1>2. QED
  BY <1>1 DEF Rewriting!Rewriting, Passed

\* What a command does.
LEMMA FixDone ==
  ASSUME NEW S, NEW m
  PROVE  /\ Rewriting!Done(S, [op |-> "score", member |-> m]) = (S \ {m}) \union {Rewriting!New(m)}
         /\ Rewriting!Done(S, Rewriting!Added(m)) = S \union {Rewriting!New(m)}
         /\ Rewriting!Done(S, Rewriting!Removed(m)) = S \ {m}
BY DEF Rewriting!Done, Rewriting!Added, Rewriting!Removed

\* The three commands, of the first member m, and then the next member's turn.
LEMMA FixCommands ==
  ASSUME FixInv, Rewriting!Execute
  PROVE  LET m == Head(batch)
         IN  \/ /\ executed < Len(Rewriting!Rewriting(m)) /\ executed' = executed + 1 /\ batch' = batch
                /\ \/ fixup = "zero" /\ executed = 0 /\ members' = (members \ {m}) \union {Rewriting!New(m)}
                   \/ fixup # "zero" /\ ~ Passed(m) /\ executed = 0 /\ members' = members \union {Rewriting!New(m)}
                   \/ fixup # "zero" /\ ~ Passed(m) /\ executed = 1 /\ members' = members \ {m}
             \/ /\ executed = Len(Rewriting!Rewriting(m)) /\ executed' = 0 /\ batch' = Tail(batch) /\ members' = members
                /\ executed = 0 => Passed(m)
<1> DEFINE m == Head(batch)
<1>1. /\ step = "pipe" /\ fixup \notin Rewriting!Atomic /\ batch # <<>> /\ FixTyped /\ executed \in 0 .. 2
      /\ executed <= Len(Rewriting!Rewriting(m))
  BY DEF Rewriting!Execute, FixInv, FixTyped, UnderWay
<1>2. /\ fixup = "zero" => Rewriting!Rewriting(m) = <<[op |-> "score", member |-> m]>>
      /\ Passed(m) => Rewriting!Rewriting(m) = <<>>
      /\ fixup # "zero" /\ ~ Passed(m) => Rewriting!Rewriting(m) = <<Rewriting!Added(m), Rewriting!Removed(m)>>
      /\ Len(Rewriting!Rewriting(m)) \in {0, 1, 2}
  BY <1>1, FixRewriting
<1>3. IF executed < Len(Rewriting!Rewriting(m))
      THEN /\ members' = Rewriting!Done(members, Rewriting!Rewriting(m)[executed + 1])
           /\ executed' = executed + 1 /\ batch' = batch
      ELSE members' = members /\ executed' = 0 /\ batch' = Tail(batch)
  BY DEF Rewriting!Execute
<1> HIDE DEF m
<1>4. CASE executed < Len(Rewriting!Rewriting(m))
  <2>1. CASE fixup = "zero"
    <3>1. Rewriting!Rewriting(m) = <<[op |-> "score", member |-> m]>> /\ Len(Rewriting!Rewriting(m)) = 1
      BY <1>2, <2>1
    <3>2. executed = 0
      BY <1>1, <1>4, <3>1
    <3>3. members' = Rewriting!Done(members, [op |-> "score", member |-> m])
      BY <1>3, <1>4, <3>1, <3>2
    <3>4. members' = (members \ {m}) \union {Rewriting!New(m)}
      BY <3>3, FixDone
    <3>5. QED
      BY <1>3, <1>4, <2>1, <3>2, <3>4 DEF m
  <2>2. CASE fixup # "zero" /\ ~ Passed(m)
    <3>1. Rewriting!Rewriting(m) = <<Rewriting!Added(m), Rewriting!Removed(m)>> /\ Len(Rewriting!Rewriting(m)) = 2
      BY <1>2, <2>2
    <3>2. executed = 0 \/ executed = 1
      BY <1>1, <1>4, <3>1
    <3>3. executed = 0 => members' = Rewriting!Done(members, Rewriting!Added(m))
      BY <1>3, <1>4, <3>1
    <3>4. executed = 1 => members' = Rewriting!Done(members, Rewriting!Removed(m))
      BY <1>3, <1>4, <3>1
    <3>5. /\ executed = 0 => members' = members \union {Rewriting!New(m)}
          /\ executed = 1 => members' = members \ {m}
      BY <3>3, <3>4, FixDone
    <3>6. QED
      BY <1>3, <1>4, <2>2, <3>2, <3>5 DEF m
  <2>3. CASE Passed(m)
    <3>1. Len(Rewriting!Rewriting(m)) = 0
      BY <1>2, <2>3
    <3>2. QED
      BY <1>1, <1>4, <3>1
  <2>4. QED
    BY <2>1, <2>2, <2>3
<1>5. CASE ~ (executed < Len(Rewriting!Rewriting(m)))
  <2>1. executed = Len(Rewriting!Rewriting(m))
    BY <1>1, <1>2, <1>5
  <2>2. executed = 0 => Passed(m)
    <3>1. fixup = "zero" => Len(Rewriting!Rewriting(m)) = 1
      BY <1>2
    <3>2. fixup # "zero" /\ ~ Passed(m) => Len(Rewriting!Rewriting(m)) = 2
      BY <1>2
    <3>3. QED
      BY <2>1, <3>1, <3>2
  <2>3. QED
    BY <1>3, <1>5, <2>1, <2>2 DEF m
<1>6. QED
  BY <1>4, <1>5

LEMMA FixExecute ==
  ASSUME FixInv, Rewriting!Execute
  PROVE  FixInv'
<1> DEFINE m == Head(batch)
<1>1. /\ UNCHANGED <<fixup, original, step, left, kills>> /\ step = "pipe" /\ fixup \notin Rewriting!Atomic /\ batch # <<>>
      /\ batch \in Seq(Rewriting!Members) /\ members \subseteq Rewriting!Members /\ left \subseteq Rewriting!Members
      /\ executed \in 0 .. 2 /\ fixup \in {"zero", "crc", "hash"}
  BY DEF Rewriting!Execute, FixInv, FixTyped, Rewriting!Atomic
<1>2. m \in Batch /\ m \in Rewriting!Members
  BY <1>1 DEF Batch
<1>3. \A x \in Batch : x \in Rewriting!Members
  BY <1>1 DEF Batch
<1>4. /\ executed >= 1 => Rewriting!New(m) \in members
      /\ executed >= 1 /\ executed = Len(Rewriting!Rewriting(m)) => m \notin members \/ m.form = "new"
      /\ fixup # "zero" => m.form = "old"
      /\ m \in members \/ Rewriting!New(m) \in members
  BY <1>1, <1>2 DEF FixInv, UnderWay, FixTyped, ReadIsThere
<1>5. /\ Rewriting!New(m) \in Rewriting!Members /\ Rewriting!New(m).form = "new" /\ Rewriting!Key(Rewriting!New(m)) = Rewriting!Key(m) /\ Rewriting!New(m).job = m.job
      /\ m.form \in {"old", "new"} /\ (m.form = "new" => Rewriting!New(m) = m)
  BY <1>2, MemberForms
<1>6. Rewriting!Rewriting(m)' = Rewriting!Rewriting(m) \/ batch' # batch
  BY <1>1 DEF Rewriting!Rewriting, Rewriting!Added, Rewriting!Removed, Rewriting!New
<1>7. AtDone' /\ Rewriting!NothingIsLost
  BY <1>1 DEF AtDone, FixInv, Rewriting!JobsAreThere
<1>8. \A x : Passed(x)' <=> Passed(x)
  BY <1>1 DEF Passed
<1> DEFINE One == /\ executed < Len(Rewriting!Rewriting(m)) /\ executed' = executed + 1 /\ batch' = batch
                  /\ \/ fixup = "zero" /\ executed = 0 /\ members' = (members \ {m}) \union {Rewriting!New(m)}
                     \/ fixup # "zero" /\ ~ Passed(m) /\ executed = 0 /\ members' = members \union {Rewriting!New(m)}
                     \/ fixup # "zero" /\ ~ Passed(m) /\ executed = 1 /\ members' = members \ {m}
           Turn == /\ executed = Len(Rewriting!Rewriting(m)) /\ executed' = 0 /\ batch' = Tail(batch) /\ members' = members
                   /\ executed = 0 => Passed(m)
<1>9. One \/ Turn
  BY FixCommands
<1>10. CASE One
  <2>1. Batch' = Batch /\ executed' \in 0 .. 2
    BY <1>1, <1>10 DEF Batch
  <2>2. Rewriting!Rewriting(m)' = Rewriting!Rewriting(m) /\ m' = m /\ Rewriting!New(m)' = Rewriting!New(m)
    BY <1>6, <1>10 DEF Rewriting!New
  <2> HIDE DEF m
  <2>3. members' \subseteq members \union {Rewriting!New(m)} /\ members \subseteq members' \union {m}
    BY <1>10
  <2>4. FixTyped'
    BY <1>1, <1>5, <1>10, <2>1, <2>3 DEF FixInv, FixTyped
  <2>5. Rewriting!New(m) \in members'
    BY <1>4, <1>5, <1>10
  <2>6. ReadIsThere'
    <3> SUFFICES ASSUME NEW x \in left \union Batch
                 PROVE  x \in members' \/ Rewriting!New(x) \in members'
      BY <1>1, <2>1 DEF ReadIsThere
    <3>1. x \in Rewriting!Members /\ (x \in members \/ Rewriting!New(x) \in members)
      BY <1>1, <1>3 DEF FixInv, ReadIsThere
    <3>2. Rewriting!New(x) = m => Rewriting!New(m) = m
      BY <1>5, <3>1, MemberForms
    <3>3. QED
      BY <2>3, <2>5, <3>1, <3>2
  <2>7. OldIsToCome'
    <3> SUFFICES ASSUME NEW x \in members', x.form = "old"
                 PROVE  Passed(x) \/ x \in left \union Batch
      BY <1>1, <1>8, <2>1 DEF OldIsToCome
    <3>1. x \in members
      BY <1>5, <2>3
    <3>2. QED
      BY <1>1, <3>1 DEF FixInv, OldIsToCome
  <2>8. UnderWay'
    <3>1. executed' <= Len(Rewriting!Rewriting(m)) /\ executed' \in 0 .. 2
      BY <1>1, <1>10, FixRewriting DEF FixInv
    <3>2. executed' = Len(Rewriting!Rewriting(m)) => m \notin members' \/ m.form = "new"
      <4>1. CASE fixup = "zero" /\ members' = (members \ {m}) \union {Rewriting!New(m)}
        <5>1. m.form = "old" => m # Rewriting!New(m)
          BY <1>5
        <5>2. QED
          BY <1>5, <4>1, <5>1
      <4>2. CASE fixup # "zero" /\ ~ Passed(m) /\ executed = 0
        <5>1. Len(Rewriting!Rewriting(m)) = 2 /\ executed' = 1
          BY <1>1, <1>10, <4>2, FixRewriting DEF FixInv
        <5>2. QED
          BY <5>1
      <4>3. CASE members' = members \ {m}
        BY <4>3
      <4>4. QED
        BY <1>10, <4>1, <4>2, <4>3
    <3>3. fixup' \notin Rewriting!Atomic' /\ batch' # <<>>
      BY <1>1, <1>10 DEF Rewriting!Atomic
    <3>4. QED
      BY <2>2, <2>5, <3>1, <3>2, <3>3 DEF UnderWay, m
  <2>9. NamelessOnce'
    <3>1. ~ Passed(m) \/ fixup = "zero"
      BY <1>10
    <3>2. fixup = "crc" => m.job \notin Nameless
      BY <3>1 DEF Passed
    <3>3. \A x \in members' : x \in members \/ x = Rewriting!New(m)
      BY <2>3
    <3>4. fixup = "crc" => \A x \in members' : x.job \in Nameless => x \in members
      BY <1>5, <3>2, <3>3
    <3>5. \A x, y \in members' : Rewriting!Key(x) = Rewriting!Key(y) => x.job = y.job
      BY <2>4, MemberForms DEF FixTyped
    <3>6. QED
      BY <1>1, <3>4, <3>5 DEF FixInv, NamelessOnce
  <2>10. Rewriting!OnceInQueue'
    <3>1. CASE fixup = "zero"
      <4>1. members' = (members \ {m}) \union {Rewriting!New(m)}
        BY <1>10, <3>1
      <4>2. \A x, y \in members : Rewriting!Key(x) = Rewriting!Key(y) => x = y
        BY <3>1 DEF FixInv, Rewriting!JobsAreThere, Rewriting!OnceInQueue
      <4>3. \A x \in members \ {m} : Rewriting!Key(x) = Rewriting!Key(Rewriting!New(m)) => x = Rewriting!New(m)
        BY <1>4, <1>5, <4>2
      <4>4. \A x, y \in members' : Rewriting!Key(x) = Rewriting!Key(y) => x = y
        BY <4>1, <4>2, <4>3
      <4>5. QED
        BY <4>4 DEF Rewriting!OnceInQueue
    <3>2. CASE fixup # "zero"
      BY <1>1, <3>2 DEF Rewriting!OnceInQueue, Rewriting!Atomic
    <3>3. QED
      BY <3>1, <3>2
  <2>11. Rewriting!NothingIsLost'
    <3>1. \A x \in members : \E n \in members' : Rewriting!Key(n) = Rewriting!Key(x)
      BY <1>5, <2>3, <2>5
    <3>2. QED
      BY <1>1, <1>7, <3>1, FixKeeps
  <2>12. QED
    BY <1>7, <2>4, <2>6, <2>7, <2>8, <2>9, <2>10, <2>11 DEF FixInv, Rewriting!JobsAreThere
<1>11. CASE Turn
  <2>1. batch' \in Seq(Rewriting!Members) /\ Batch' \subseteq Batch /\ Batch \subseteq Batch' \union {m}
    <3>1. batch' = Tail(batch) /\ Len(batch) \in Nat \ {0} /\ batch' \in Seq(Rewriting!Members)
      BY <1>1, <1>11
    <3>2. Len(batch') = Len(batch) - 1 /\ \A i \in 1 .. Len(batch) - 1 : batch'[i] = batch[i + 1]
      BY <1>1, <3>1
    <3>3. DOMAIN batch' = 1 .. Len(batch) - 1 /\ DOMAIN batch = 1 .. Len(batch)
      BY <1>1, <3>1, <3>2
    <3>4. \A i \in 1 .. Len(batch) - 1 : i + 1 \in 1 .. Len(batch)
      BY <3>1
    <3>5. Batch' \subseteq Batch
      BY <3>2, <3>3, <3>4 DEF Batch
    <3>6. ASSUME NEW i \in 1 .. Len(batch)
          PROVE  batch[i] \in Batch' \union {m}
      <4>1. CASE i = 1
        BY <1>1, <4>1
      <4>2. CASE i # 1
        <5>1. i - 1 \in 1 .. Len(batch) - 1 /\ (i - 1) + 1 = i
          BY <3>1, <4>2
        <5>2. batch'[i - 1] = batch[i]
          BY <3>2, <5>1
        <5>3. QED
          BY <3>3, <5>1, <5>2 DEF Batch
      <4>3. QED
        BY <4>1, <4>2
    <3>7. QED
      BY <3>1, <3>3, <3>5, <3>6 DEF Batch
  <2>2. FixTyped' /\ ReadIsThere'
    BY <1>1, <1>11, <2>1 DEF FixInv, FixTyped, ReadIsThere
  <2>3. m \in members /\ m.form = "old" => Passed(m)
    <3>1. executed >= 1 \/ executed = 0
      BY <1>1
    <3>2. QED
      BY <1>4, <1>11, <3>1
  <2>4. OldIsToCome'
    BY <1>1, <1>8, <1>11, <2>1, <2>3 DEF FixInv, OldIsToCome
  <2>5. UnderWay'
    <3>1. \A x : Len(Rewriting!Rewriting(x)') \in {0, 1, 2}
      BY DEF Rewriting!Rewriting
    <3>2. executed' = 0 /\ fixup' \notin Rewriting!Atomic'
      BY <1>1, <1>11 DEF Rewriting!Atomic
    <3>3. Len(Rewriting!Rewriting(Head(batch))') \in {0, 1, 2}
      BY DEF Rewriting!Rewriting
    <3>4. QED
      BY <3>2, <3>3 DEF UnderWay
  <2>6. NamelessOnce' /\ Rewriting!JobsAreThere'
    BY <1>1, <1>11 DEF FixInv, NamelessOnce, Rewriting!JobsAreThere, Rewriting!NothingIsLost, Rewriting!OnceInQueue
  <2>7. QED
    BY <1>7, <2>2, <2>4, <2>5, <2>6 DEF FixInv
<1>12. QED
  BY <1>9, <1>10, <1>11

LEMMA FixStep ==
  ASSUME FixInv, [Rewriting!Next]_Rewriting!vars
  PROVE  FixInv'
<1>1. CASE UNCHANGED Rewriting!vars
  <2>1. UNCHANGED <<fixup, members, original, step, left, batch, executed>>
    BY <1>1 DEF Rewriting!vars, Rewriting!script
  <2>2. Batch' = Batch /\ Rewriting!Rewriting(Head(batch))' = Rewriting!Rewriting(Head(batch))
        /\ Rewriting!New(Head(batch))' = Rewriting!New(Head(batch))
    BY <2>1 DEF Batch, Rewriting!Rewriting, Rewriting!Added, Rewriting!Removed, Rewriting!New
  <2>3. FixTyped'
    BY <2>1, <2>2 DEF FixInv, FixTyped
  <2>4. UnderWay'
    BY <2>1, <2>2 DEF FixInv, UnderWay, Rewriting!Atomic
  <2>5. ReadIsThere' /\ OldIsToCome' /\ AtDone' /\ NamelessOnce' /\ Rewriting!JobsAreThere'
    BY <2>1, <2>2 DEF FixInv, ReadIsThere, OldIsToCome, Passed, AtDone, NamelessOnce,
       Rewriting!JobsAreThere, Rewriting!NothingIsLost, Rewriting!OnceInQueue
  <2>6. QED
    BY <2>3, <2>4, <2>5 DEF FixInv
<1>2. CASE Rewriting!Next
  BY <1>2, FixBegin, FixRead, FixSend, FixExecute, FixExecuteAll, FixKill DEF Rewriting!Next
<1>3. QED
  BY <1>1, <1>2

\* Both hold together, by one invariant.
LEMMA RewritingHolds ==
  AllSpec => [](JobsAreThere /\ AllRewritten)
<1> USE ScriptsAssumption
<1>1. Rewriting!Init => FixInv
  BY FixInit
<1>2. FixInv /\ [Rewriting!Next]_Rewriting!vars => FixInv'
  BY FixStep
<1>3. FixInv => Rewriting!JobsAreThere /\ Rewriting!AllRewritten
  <2> SUFFICES ASSUME FixInv, step = "done", NEW m \in members
               PROVE  /\ m.form = "new" \/ (fixup = "crc" /\ m.job \in Nameless)
                      /\ \A n \in members : Rewriting!Key(m) = Rewriting!Key(n) => m = n
    BY DEF FixInv, Rewriting!AllRewritten
  <2>1. members \subseteq Rewriting!Members /\ left = {} /\ Batch = {}
    BY DEF FixInv, FixTyped, AtDone, Batch
  <2>2. \A n \in members : n.form = "new" \/ Passed(n)
    BY <2>1, MemberForms DEF FixInv, OldIsToCome
  <2>3. ASSUME NEW n \in members, Rewriting!Key(m) = Rewriting!Key(n)
        PROVE  m = n
    <3>1. m.job = n.job
      BY <2>1, <2>3, MemberForms
    <3>2. CASE Passed(m)
      BY <2>3, <3>2 DEF FixInv, NamelessOnce, Passed
    <3>3. CASE m.form = "new" /\ n.form = "new"
      BY <2>1, <2>3, <3>3, MemberForms
    <3>4. QED
      BY <2>2, <3>1, <3>2, <3>3 DEF Passed
  <2>4. QED
    BY <2>2, <2>3 DEF Passed
<1> DEFINE Moves == part = "rewriting"
<1>4. AllInit /\ Moves => Rewriting!Init
  BY DEF AllInit, RecoveryInit, Recovering
<1>5. Moves /\ [AllNext]_allVars => [Rewriting!Next]_(Rewriting!vars) /\ Moves'
  BY DEF AllNext, RecoveryNext, Recovering, allVars, vars, store, bounds, otherVars, fixupVars,
         rewritingVars, rebuildingVars, seedingVars, Rewriting!vars, Rewriting!script
<1>6. ~ Moves /\ [AllNext]_allVars => ~ Moves'
  BY DEF AllNext, allVars
<1>7. (~ Moves => JobsAreThere /\ AllRewritten) /\ (Rewriting!JobsAreThere /\ Rewriting!AllRewritten => JobsAreThere /\ AllRewritten)
  BY DEF JobsAreThere, AllRewritten
<1> HIDE DEF Moves
<1>8. QED
  BY <1>1, <1>2, <1>3, <1>4, <1>5, <1>6, <1>7, PTL DEF AllSpec

\* Wherever a fix-up is killed and however often the cursor returns a member, every job
\* is in the structure, and once where the batch is a transaction or the score is
\* changed in place.
THEOREM NoJobIsLost ==
  AllSpec => []JobsAreThere
BY RewritingHolds, PTL

\* And when the script comes to its end each job is there once, in the new form.
THEOREM AllAreRewritten ==
  AllSpec => []AllRewritten
BY RewritingHolds, PTL

-----------------------------------------------------------------------------
(* Seeding. *)

Proved == INSTANCE Seeding_proofs WITH
    Jobs <- Seeds, Ids <- SeedIds, JobId <- SeedId, Rank <- SeedRank,
    Scripts <- Seeders, Workers <- Crawlers, MaxKills <- MaxScriptKills,
    script <- reading, hand <- drawn

\* What the instance of the theorems is about is the part.
LEMMA SameSeeding ==
  /\ Overlap!Init => Proved!Init
  /\ [Overlap!Next]_(Overlap!vars) => [Proved!Next]_(Proved!vars)
  /\ Proved!SeedOnce => Overlap!SeedOnce
  /\ Proved!SeedsReachTheCrawl => Overlap!SeedsReachTheCrawl
<1>1. Overlap!Init => Proved!Init
  BY DEF Overlap!Init, Proved!Init, Overlap!Off, Proved!Off, Overlap!Nobody, Proved!Nobody,
         Overlap!Asleep, Proved!Asleep, Overlap!Reapers, Proved!Reapers
<1>2. Overlap!Next => Proved!Next
  <2>0. Overlap!Reapers = Proved!Reapers
    BY DEF Overlap!Reapers, Proved!Reapers
  <2>1. \A s \in Seeders : Overlap!Start(s) => Proved!Start(s)
    BY DEF Overlap!Start, Overlap!store, Overlap!leases, Proved!Start, Proved!store,
           Proved!leases
  <2>2. \A s \in Seeders : Overlap!Line(s) => Proved!Line(s)
    BY DEF Overlap!Line, Overlap!AddSeen, Overlap!Seen, Overlap!To, Overlap!store,
           Overlap!leases, Proved!Line, Proved!AddSeen, Proved!Seen, Proved!To,
           Proved!store, Proved!leases
  <2>3. \A s \in Seeders : Overlap!Push(s) => Proved!Push(s)
    BY DEF Overlap!Push, Overlap!AddToQueue, Overlap!store, Overlap!leases, Proved!Push,
           Proved!AddToQueue, Proved!store, Proved!leases
  <2>4. \A s \in Seeders : Overlap!Seeded(s) => Proved!Seeded(s)
    BY DEF Overlap!Seeded, Overlap!store, Overlap!leases, Proved!Seeded, Proved!store,
           Proved!leases
  <2>5. \A s \in Seeders : Overlap!JoinQueue(s) => Proved!JoinQueue(s)
    BY DEF Overlap!JoinQueue, Overlap!QueuedJobs, Overlap!store, Overlap!leases,
           Proved!JoinQueue, Proved!QueuedJobs, Proved!store, Proved!leases
  <2>6. \A s \in Seeders : Overlap!JoinInflight(s) => Proved!JoinInflight(s)
    BY DEF Overlap!JoinInflight, Overlap!InflightJobs, Overlap!CutOff, Overlap!Nobody,
           Overlap!Asleep, Overlap!Reapers, Overlap!store, Overlap!leases,
           Proved!JoinInflight, Proved!InflightJobs, Proved!CutOff, Proved!Nobody,
           Proved!Asleep, Proved!Reapers, Proved!store, Proved!leases
  <2>7. \A s \in Seeders : Overlap!Abort(s) => Proved!Abort(s)
    BY DEF Overlap!Abort, Overlap!CutOff, Overlap!Asleep, Overlap!Reapers, Overlap!Off,
           Overlap!Nobody, Overlap!store, Overlap!leases, Proved!Abort, Proved!CutOff,
           Proved!Asleep, Proved!Reapers, Proved!Off, Proved!Nobody, Proved!store,
           Proved!leases
  <2>8. \A s \in Seeders : Overlap!Snapshot(s) => Proved!Snapshot(s)
    BY DEF Overlap!Snapshot, Overlap!Parameters, Overlap!Arguments, Overlap!store,
           Overlap!leases, Proved!Snapshot, Proved!Parameters, Proved!Arguments,
           Proved!store, Proved!leases
  <2>9. \A s \in Seeders : Overlap!Kill(s) => Proved!Kill(s)
    BY DEF Overlap!Kill, Overlap!CutOff, Overlap!Asleep, Overlap!Reapers, Overlap!Off,
           Overlap!Nobody, Overlap!store, Overlap!leases, Proved!Kill, Proved!CutOff,
           Proved!Asleep, Proved!Reapers, Proved!Off, Proved!Nobody, Proved!store,
           Proved!leases
  <2>10. \A w \in Crawlers : Overlap!Pop(w) => Proved!Pop(w)
    BY DEF Overlap!Pop, Overlap!AtWork, Overlap!Crawls, Overlap!Nobody, Overlap!PopMin,
           Overlap!store, Overlap!leases, Proved!Pop, Proved!AtWork, Proved!Crawls,
           Proved!Nobody, Proved!PopMin, Proved!store, Proved!leases
  <2>11. \A w \in Crawlers : Overlap!Lease(w) => Proved!Lease(w)
    BY DEF Overlap!Lease, Overlap!AtWork, Overlap!Crawls, Overlap!AddInflight,
           Overlap!store, Overlap!leases, Proved!Lease, Proved!AtWork, Proved!Crawls,
           Proved!AddInflight, Proved!store, Proved!leases
  <2>12. \A w \in Crawlers : Overlap!Done(w) => Proved!Done(w)
    BY DEF Overlap!Done, Overlap!AtWork, Overlap!Crawls, Overlap!Nobody,
           Overlap!RemoveInflight, Overlap!store, Overlap!leases, Proved!Done,
           Proved!AtWork, Proved!Crawls, Proved!Nobody, Proved!RemoveInflight,
           Proved!store, Proved!leases
  <2>13. \A j \in Seeds : Overlap!Lapse(j) => Proved!Lapse(j)
    BY DEF Overlap!Lapse, Overlap!ExpireLease, Overlap!store, Overlap!leases,
           Proved!Lapse, Proved!ExpireLease, Proved!store, Proved!leases
  <2>14. \A p \in Overlap!Reapers : Overlap!ReapScan(p) => Proved!ReapScan(p)
    BY DEF Overlap!ReapScan, Overlap!Crawls, Overlap!Asleep, Overlap!ExpiredLeases,
           Overlap!store, Overlap!leases, Proved!ReapScan, Proved!Crawls, Proved!Asleep,
           Proved!ExpiredLeases, Proved!store, Proved!leases
  <2>15. \A p \in Overlap!Reapers : Overlap!ReapRelease(p) => Proved!ReapRelease(p)
    BY DEF Overlap!ReapRelease, Overlap!Crawls, Overlap!RemoveInflight, Overlap!store,
           Overlap!leases, Proved!ReapRelease, Proved!Crawls, Proved!RemoveInflight,
           Proved!store, Proved!leases
  <2>16. \A p \in Overlap!Reapers : Overlap!ReapAdd(p) => Proved!ReapAdd(p)
    BY DEF Overlap!ReapAdd, Overlap!Crawls, Overlap!AddToQueue, Overlap!store,
           Overlap!leases, Proved!ReapAdd, Proved!Crawls, Proved!AddToQueue,
           Proved!store, Proved!leases
  <2>17. QED
    BY <2>0, <2>1, <2>2, <2>3, <2>4, <2>5, <2>6, <2>7, <2>8, <2>9, <2>10, <2>11, <2>12,
       <2>13, <2>14, <2>15, <2>16
       DEF Overlap!Next, Proved!Next
<1>3. UNCHANGED Overlap!vars => UNCHANGED Proved!vars
  BY DEF Overlap!vars, Overlap!store, Overlap!leases, Proved!vars, Proved!store, Proved!leases
<1>4. /\ Proved!SeedOnce => Overlap!SeedOnce
      /\ Proved!SeedsReachTheCrawl => Overlap!SeedsReachTheCrawl
  BY DEF Overlap!SeedOnce, Proved!SeedOnce, Overlap!SeedsReachTheCrawl, Proved!SeedsReachTheCrawl
<1>5. QED
  BY <1>1, <1>2, <1>3, <1>4

LEMMA SeedingMoves ==
  part = "seeding" /\ [AllNext]_allVars => [Proved!Next]_(Proved!vars) /\ (part = "seeding")'
<1>1. part = "seeding" /\ [AllNext]_allVars => [Overlap!Next]_(Overlap!vars)
  BY DEF AllNext, RecoveryNext, Recovering, allVars, vars, store, bounds, otherVars, seedingVars,
         Overlap!vars, Overlap!store, Overlap!leases
<1>2. QED
  BY <1>1, SameSeeding DEF AllNext, allVars

LEMMA SeedingHolds == Proved!JobStoreAssumption /\ Proved!SeedingAssumption
BY ScriptsAssumption DEF Proved!JobStoreAssumption, Proved!SeedingAssumption, Overlap!SeedingAssumption

\* enqueue_if_unseen of any scripts, on a store that crawlers and their reapers work on,
\* whichever are killed and run again: the scripts queue a seed once at most, and it is
\* handed out again only if a lease of it ran out and a reaper queued it again.
THEOREM SeedsAreQueuedOnce == AllSpec => []SeedOnce
<1> DEFINE Moves == part = "seeding"
<1>1. AllInit /\ Moves => Proved!Init
  BY SameSeeding DEF AllInit, RecoveryInit, Recovering
<1>2. Moves /\ [AllNext]_allVars => [Proved!Next]_(Proved!vars) /\ Moves'
  BY SeedingMoves
<1>3. ~ Moves /\ [AllNext]_allVars => ~ Moves'
  BY DEF AllNext, allVars
<1>4. Proved!Spec => []Proved!SeedOnce
  BY SeedingHolds, Proved!SeedsComeOnce
<1>5. (~ Moves => SeedOnce) /\ (Proved!SeedOnce => SeedOnce)
  BY SameSeeding DEF SeedOnce
<1> HIDE DEF Moves
<1>6. QED
  BY <1>1, <1>2, <1>3, <1>4, <1>5, PTL DEF AllSpec, Proved!Spec

\* When a script has read its file, no seed of it was passed over for good but those
\* that a script was cut off at, between adding the id and queueing the job.
THEOREM SeedsReachIt ==
  ASSUME Proved!OneJobEach
  PROVE  AllSpec => []SeedsReachTheCrawl
<1> DEFINE Moves == part = "seeding"
<1>1. AllInit /\ Moves => Proved!Init
  BY SameSeeding DEF AllInit, RecoveryInit, Recovering
<1>2. Moves /\ [AllNext]_allVars => [Proved!Next]_(Proved!vars) /\ Moves'
  BY SeedingMoves
<1>3. ~ Moves /\ [AllNext]_allVars => ~ Moves'
  BY DEF AllNext, allVars
<1>4. Proved!Spec => []Proved!SeedsReachTheCrawl
  BY SeedingHolds, Proved!SeedsAreDrawn
<1>5. (~ Moves => SeedsReachTheCrawl) /\ (Proved!SeedsReachTheCrawl => SeedsReachTheCrawl)
  BY SameSeeding DEF SeedsReachTheCrawl
<1> HIDE DEF Moves
<1>6. QED
  BY <1>1, <1>2, <1>3, <1>4, <1>5, PTL DEF AllSpec, Proved!Spec
=============================================================================
