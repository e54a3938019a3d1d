-------------------------- MODULE CrawlQueue_proofs --------------------------
(***************************************************************************)
(* Theorems of CrawlQueue, for every web of jobs, every number of pods and  *)
(* workers, and every bound on mishaps and starts; and, in the second half, *)
(* for one pod whose handlers keep within their leases, as many workers,    *)
(* crashes, restarts, cancellations and Redis errors as there may be: no    *)
(* job is at two places, and an id has one lifetime.                        *)
(***************************************************************************)
EXTENDS CrawlQueue, TLAPS

-----------------------------------------------------------------------------
(* Type correctness. *)

\* The seeded store and the pods that are not up are well typed.
LEMMA TypeInit == Init => TypeOK
  BY JobStoreAssumption, CrawlQueueAssumption
  DEF Init, TypeOK, StoreTypeOK, WorkerTypeOK, PodTypeOK, HistoryTypeOK,
      WorkerSteps, WithJob

\* Cancelling the workers of a pod leaves every worker well typed.
LEMMA CutOffType ==
  ASSUME WorkerTypeOK, NEW p \in Pods, CutOff(p)
  PROVE  WorkerTypeOK'
  BY CrawlQueueAssumption DEF CutOff, WorkerTypeOK, WorkerSteps, WithJob

\* What a task has in hand are jobs.
LEMMA InHandType ==
  /\ \A w \in Workers : InHand(w) \subseteq Jobs
  /\ \A p \in Pods : InReaper(p) \subseteq Jobs
  /\ \A p \in Pods : InHandOf(p) \subseteq Jobs
  BY DEF InHand, InReaper, InHandOf

\* The end of a pod leaves its tasks, and the jobs it loses, well typed.
LEMMA DownType ==
  ASSUME TypeOK, NEW p \in Pods, Down(p), events' \in Nat
  PROVE  TypeOK'
<1> USE DEF TypeOK
<1>1. StoreTypeOK'
  BY DEF Down, StoreTypeOK, store
<1>2. WorkerTypeOK'
  BY CutOffType DEF Down
<1>3. PodTypeOK'
  BY CrawlQueueAssumption DEF Down, PodTypeOK
<1>4. HistoryTypeOK'
  BY InHandType DEF Down, HistoryTypeOK
<1>5. QED
  BY <1>1, <1>2, <1>3, <1>4

\* A worker that an exception throws out of get, done or fail has no job.
LEMMA DispatcherErrorType ==
  ASSUME TypeOK, NEW w \in Workers, DispatcherError(w)
  PROVE  TypeOK'
<1> USE DEF TypeOK, DispatcherError
<1>1. StoreTypeOK'
  BY DEF StoreTypeOK, WorkerTypeOK, AddInflight, store, WithJob
<1>2. failures' \in [Workers -> Nat]
  BY DEF WorkerTypeOK
<1>3. \/ pc' = [pc EXCEPT ![w] = "quit"]
      \/ pc' = [pc EXCEPT ![w] = "backoff"]
  OBVIOUS
<1>4. WorkerTypeOK'
  BY <1>2, <1>3, CrawlQueueAssumption DEF WorkerTypeOK, WorkerSteps, WithJob
<1>5. PodTypeOK'
  BY DEF PodTypeOK, podVars
<1>6. HistoryTypeOK'
  BY InHandType DEF HistoryTypeOK, Mishap
<1>7. QED
  BY <1>1, <1>4, <1>5, <1>6

\* Every step of a worker keeps the types.
LEMMA WorkerType ==
  ASSUME TypeOK, NEW w \in Workers, WorkerStep(w) \/ WorkerMishap(w)
  PROVE  TypeOK'
<1> USE JobStoreAssumption, CrawlQueueAssumption
        DEF TypeOK, StoreTypeOK, WorkerTypeOK, PodTypeOK, HistoryTypeOK,
            WorkerSteps, WithJob, store, podVars, history
<1>1. CASE GetStopped(w)
  BY <1>1 DEF GetStopped
<1>2. CASE GetBlock(w)
  BY <1>2 DEF GetBlock
<1>3. CASE GetPop(w)
  BY <1>3 DEF GetPop, PopMin
<1>4. CASE GetLease(w)
  BY <1>4 DEF GetLease, AddInflight
<1>5. CASE OfferSeen(w)
  BY <1>5 DEF OfferSeen
<1>6. CASE OfferNew(w)
  BY <1>6 DEF OfferNew, AddSeen
<1>7. CASE PushNew(w)
  BY <1>7 DEF PushNew, AddToQueue
<1>8. CASE HandlerReturns(w)
  BY <1>8 DEF HandlerReturns
<1>9. CASE HandlerRaises(w)
  BY <1>9 DEF HandlerRaises
<1>10. CASE Done(w)
  BY <1>10 DEF Done, RemoveInflight
<1>11. CASE FailRelease(w)
  BY <1>11 DEF FailRelease, RemoveInflight
<1>12. CASE FailRecord(w)
  BY <1>12 DEF FailRecord, AddFailed
<1>13. CASE Awake(w)
  BY <1>13 DEF Awake
<1>14. CASE DispatcherError(w)
  BY <1>14, DispatcherErrorType
<1>15. CASE OfferError(w)
  BY <1>15 DEF OfferError, Mishap, InHand
<1>16. QED
  BY <1>1, <1>2, <1>3, <1>4, <1>5, <1>6, <1>7, <1>8, <1>9, <1>10, <1>11,
     <1>12, <1>13, <1>14, <1>15 DEF WorkerStep, WorkerMishap

\* Every step of a reaper, a finish task or a pod keeps the types.
LEMMA PodType ==
  ASSUME TypeOK, DownIsQuiet, NEW p \in Pods,
         Start(p) \/ ReaperStep(p) \/ FinishStep(p) \/ Exit(p) \/ PodMishap(p)
  PROVE  TypeOK'
<1> USE JobStoreAssumption, CrawlQueueAssumption DEF TypeOK
<1>1. CASE Start(p)
  <2>1. WorkerTypeOK'
    BY <1>1 DEF Start, DownIsQuiet, WorkerTypeOK, WorkerSteps, WithJob
  <2>2. PodTypeOK'
    BY <1>1 DEF Start, DownIsQuiet, PodTypeOK
  <2>3. QED
    BY <1>1, <2>1, <2>2 DEF Start, StoreTypeOK, HistoryTypeOK, store
<1>2. CASE ReaperStep(p)
  <2>1. UNCHANGED <<workerVars, history>>
    BY <1>2 DEF ReaperStep, ReapScan, ReapRelease, ReapAdd, ReapMark
  <2>2. WorkerTypeOK' /\ HistoryTypeOK'
    BY <2>1 DEF WorkerTypeOK, HistoryTypeOK, workerVars, history
  <2>3. StoreTypeOK'
    <3> USE DEF StoreTypeOK, PodTypeOK
    <3>1. CASE ReapScan(p)
      BY <3>1 DEF ReapScan, store
    <3>2. CASE ReapRelease(p)
      BY <3>2 DEF ReapRelease, RemoveInflight
    <3>3. CASE ReapAdd(p)
      BY <3>3 DEF ReapAdd, AddToQueue
    <3>4. CASE ReapMark(p)
      BY <3>4 DEF ReapMark, AddSeen
    <3>5. QED
      BY <1>2, <3>1, <3>2, <3>3, <3>4 DEF ReaperStep
  <2>4. PodTypeOK'
    <3> USE DEF PodTypeOK
    <3>1. CASE ReapScan(p)
      <4>1. ExpiredLeases \subseteq Jobs
        BY DEF ExpiredLeases
      <4>2. QED
        BY <3>1, <4>1 DEF ReapScan
    <3>2. CASE ReapRelease(p)
      <4>1. PICK j \in stale[p] : /\ stale' = [stale EXCEPT ![p] = @ \ {j}]
                                  /\ reaping' = [reaping EXCEPT ![p] = j]
        BY <3>2 DEF ReapRelease
      <4>2. j \in Jobs
        BY <4>1
      <4>3. QED
        BY <3>2, <4>1, <4>2 DEF ReapRelease
    <3>3. CASE ReapAdd(p)
      BY <3>3 DEF ReapAdd
    <3>4. CASE ReapMark(p)
      BY <3>4 DEF ReapMark
    <3>5. QED
      BY <1>2, <3>1, <3>2, <3>3, <3>4 DEF ReaperStep
  <2>5. QED
    BY <2>2, <2>3, <2>4
<1>3. CASE JoinQueue(p) \/ JoinInflight(p)
  <2>1. /\ UNCHANGED <<queue, inflight, failed, seen, finished, lost>>
        /\ WorkerTypeOK'
    BY <1>3 DEF JoinQueue, JoinInflight, WorkerTypeOK, store, workerVars, history
  <2>2. PodTypeOK'
    <3>1. CASE JoinQueue(p)
      BY <3>1 DEF JoinQueue, PodTypeOK
    <3>2. CASE JoinInflight(p)
      BY <3>2 DEF JoinInflight, PodTypeOK
    <3>3. QED
      BY <1>3, <3>1, <3>2
  <2>3. StoreTypeOK' /\ HistoryTypeOK'
    BY <1>3, <2>1 DEF JoinQueue, JoinInflight, StoreTypeOK, HistoryTypeOK, history
  <2>4. QED
    BY <2>1, <2>2, <2>3
<1>4. CASE CancelWorkers(p)
  <2>1. WorkerTypeOK'
    BY <1>4, CutOffType DEF CancelWorkers
  <2>2. HistoryTypeOK'
    BY <1>4, InHandType DEF CancelWorkers, HistoryTypeOK
  <2>3. QED
    BY <1>4, <2>1, <2>2 DEF CancelWorkers, StoreTypeOK, PodTypeOK, store
<1>5. CASE Exit(p)
  BY <1>5, DownType DEF Exit, HistoryTypeOK
<1>6. CASE Crash(p)
  BY <1>6, DownType DEF Crash, Mishap, HistoryTypeOK
<1>7. CASE JoinError(p)
  <2>1. CASE Down(p)
    BY <1>7, <2>1, DownType DEF JoinError, Mishap, HistoryTypeOK
  <2>2. CASE ~Down(p)
    <3>1. /\ finish' = [finish EXCEPT ![p] = "raised"]
          /\ waiting' = [waiting EXCEPT ![p] = FALSE]
          /\ UNCHANGED <<store, workerVars, stopped, reaper, stale, reaping,
                         finished, lost, starts>>
      BY <1>7, <2>2 DEF JoinError
    <3>2. PodTypeOK'
      BY <3>1 DEF PodTypeOK
    <3>3. QED
      BY <1>7, <3>1, <3>2 DEF JoinError, Mishap, StoreTypeOK, HistoryTypeOK,
                              WorkerTypeOK, store, workerVars
  <2>3. QED
    BY <2>1, <2>2
<1>8. CASE ReapError(p)
  BY <1>8, InHandType DEF ReapError, Mishap, StoreTypeOK, PodTypeOK, HistoryTypeOK,
                          WorkerTypeOK, store, workerVars
<1>9. CASE Abort(p)
  BY <1>9 DEF Abort, Mishap, StoreTypeOK, PodTypeOK, HistoryTypeOK,
              WorkerTypeOK, store, workerVars
<1>10. QED
  BY <1>1, <1>2, <1>3, <1>4, <1>5, <1>6, <1>7, <1>8, <1>9 DEF FinishStep, PodMishap

\* A lease that runs out stays a lease.
LEMMA LapseType ==
  ASSUME TypeOK, NEW j \in Jobs, LapseIdle(j) \/ LapseBusy(j)
  PROVE  TypeOK'
  BY DEF TypeOK, StoreTypeOK, WorkerTypeOK, PodTypeOK, HistoryTypeOK, LapseIdle,
         LapseBusy, ExpireLease, Mishap, workerVars, podVars, history

\* Every step keeps the types.
LEMMA TypeStep == TypeOK /\ DownIsQuiet /\ [Next]_vars => TypeOK'
<1> SUFFICES ASSUME TypeOK, DownIsQuiet, [Next]_vars PROVE TypeOK'
  OBVIOUS
<1>1. CASE UNCHANGED vars
  BY <1>1 DEF vars, TypeOK, StoreTypeOK, WorkerTypeOK, PodTypeOK, HistoryTypeOK,
              store, workerVars, podVars, history
<1>2. CASE Next
  BY <1>2, WorkerType, PodType, LapseType DEF Next
<1>3. QED
  BY <1>1, <1>2

\* A worker moves only while its pod is up, and only the end of a pod, which
\* cuts its tasks off, makes it not up.
LEMMA QuietStep == TypeOK /\ DownIsQuiet /\ [Next]_vars => DownIsQuiet'
<1> SUFFICES ASSUME TypeOK, DownIsQuiet, [Next]_vars PROVE DownIsQuiet'
  OBVIOUS
<1> USE DEF TypeOK, WorkerTypeOK, PodTypeOK, DownIsQuiet, Up, WorkersOf
<1>1. CASE UNCHANGED vars
  BY <1>1 DEF vars, workerVars, podVars
<1>2. ASSUME NEW w \in Workers, WorkerStep(w) \/ WorkerMishap(w)
      PROVE  DownIsQuiet'
  <2>1. /\ pc[w] # "quit"
        /\ \A v \in Workers \ {w} : pc'[v] = pc[v]
        /\ UNCHANGED podVars
    BY <1>2
    DEF WorkerStep, WorkerMishap, GetStopped, GetBlock, GetPop, GetLease, OfferSeen,
        OfferNew, PushNew, HandlerReturns, HandlerRaises, Done, FailRelease,
        FailRecord, Awake, DispatcherError, OfferError
  <2>2. QED
    BY <2>1 DEF podVars
<1>3. ASSUME NEW p \in Pods,
             Start(p) \/ ReaperStep(p) \/ FinishStep(p) \/ Exit(p) \/ PodMishap(p)
      PROVE  DownIsQuiet'
  <2>1. CASE Start(p)
    BY <2>1 DEF Start
  <2>2. CASE ReaperStep(p) \/ ReapError(p)
    BY <2>2 DEF ReaperStep, ReapScan, ReapRelease, ReapAdd, ReapMark, ReapError,
                workerVars
  <2>3. CASE FinishStep(p)
    BY <2>3 DEF FinishStep, JoinQueue, JoinInflight, CancelWorkers, CutOff, workerVars
  <2>4. CASE Down(p)
    BY <2>4 DEF Down, CutOff
  <2>5. CASE Abort(p)
    BY <2>5 DEF Abort, workerVars
  <2>6. CASE JoinError(p) /\ ~Down(p)
    BY <2>6 DEF JoinError, workerVars
  <2>7. QED
    BY <1>3, <2>1, <2>2, <2>3, <2>4, <2>5, <2>6 DEF Exit, PodMishap, Crash
<1>4. ASSUME NEW j \in Jobs, LapseIdle(j) \/ LapseBusy(j)
      PROVE  DownIsQuiet'
  BY <1>4 DEF LapseIdle, LapseBusy, workerVars, podVars
<1>5. QED
  BY <1>1, <1>2, <1>3, <1>4 DEF Next

\* No pod is up at first, and no task runs.
LEMMA QuietInit == Init => DownIsQuiet
  BY DEF Init, DownIsQuiet, WorkersOf

\* Every variable keeps its type: a worker has a job exactly between the pop
\* and the release of it, a reaper between the release and the mark.
THEOREM TypeCorrect == Spec => []TypeOK
<1>1. Init => TypeOK /\ DownIsQuiet
  BY TypeInit, QuietInit
<1>2. TypeOK /\ DownIsQuiet /\ [Next]_vars => (TypeOK /\ DownIsQuiet)'
  BY TypeStep, QuietStep
<1>3. QED
  BY <1>1, <1>2, PTL DEF Spec

-----------------------------------------------------------------------------
(* Conservation: what is in the books stays in the books. *)

\* The tasks a step leaves alone still have in hand what they had.
LEMMA WorkerKeepsAccounts ==
  ASSUME TypeOK, DoneIsFinished, NEW w \in Workers, WorkerStep(w) \/ WorkerMishap(w),
         NEW j \in Jobs, Accounted(j)
  PROVE  Accounted(j)'
<1> USE DEF TypeOK, StoreTypeOK, WorkerTypeOK, WithJob, Accounted, Pending, Settled,
            InHand, InReaper, store, podVars, history
<1>1. CASE GetStopped(w) \/ GetBlock(w) \/ OfferSeen(w) \/ HandlerReturns(w)
           \/ HandlerRaises(w) \/ Awake(w)
  BY <1>1 DEF GetStopped, GetBlock, OfferSeen, HandlerReturns, HandlerRaises, Awake
<1>2. CASE GetPop(w)
  BY <1>2 DEF GetPop, PopMin
<1>3. CASE GetLease(w)
  BY <1>3 DEF GetLease, AddInflight
<1>4. CASE OfferNew(w)
  BY <1>4 DEF OfferNew, AddSeen
<1>5. CASE PushNew(w)
  BY <1>5 DEF PushNew, AddToQueue
<1>6. CASE Done(w)
  BY <1>6 DEF Done, RemoveInflight, DoneIsFinished
<1>7. CASE FailRelease(w)
  BY <1>7 DEF FailRelease, RemoveInflight
<1>8. CASE FailRecord(w)
  BY <1>8 DEF FailRecord, AddFailed
<1>9. CASE DispatcherError(w)
  BY <1>9 DEF DispatcherError, AddInflight
<1>10. CASE OfferError(w)
  BY <1>10 DEF OfferError
<1>11. QED
  BY <1>1, <1>2, <1>3, <1>4, <1>5, <1>6, <1>7, <1>8, <1>9, <1>10
  DEF WorkerStep, WorkerMishap

\* The same for the steps of pods: what a pod has in hand when it ends is lost.
LEMMA PodKeepsAccounts ==
  ASSUME TypeOK, DownIsQuiet, NEW p \in Pods,
         Start(p) \/ ReaperStep(p) \/ FinishStep(p) \/ Exit(p) \/ PodMishap(p),
         NEW j \in Jobs, Accounted(j)
  PROVE  Accounted(j)'
<1> USE DEF TypeOK, StoreTypeOK, WorkerTypeOK, PodTypeOK, Accounted, Pending, Settled,
            InHand, InReaper, store, workerVars, history
<1>1. CASE Start(p)
  BY <1>1 DEF Start, DownIsQuiet, WorkersOf
<1>2. CASE ReapScan(p)
  BY <1>2 DEF ReapScan
<1>3. CASE ReapRelease(p)
  BY <1>3 DEF ReapRelease, RemoveInflight
<1>4. CASE ReapAdd(p)
  BY <1>4 DEF ReapAdd, AddToQueue
<1>5. CASE ReapMark(p)
  BY <1>5 DEF ReapMark, AddSeen
<1>6. CASE ReapError(p)
  BY <1>6 DEF ReapError
<1>7. CASE JoinQueue(p) \/ JoinInflight(p) \/ Abort(p)
  BY <1>7 DEF JoinQueue, JoinInflight, Abort
<1>8. CASE CancelWorkers(p)
  BY <1>8 DEF CancelWorkers, CutOff, InHandOf
<1>9. CASE Down(p)
  BY <1>9 DEF Down, CutOff, InHandOf
<1>10. CASE JoinError(p) /\ ~Down(p)
  BY <1>10 DEF JoinError
<1>11. QED
  BY <1>1, <1>2, <1>3, <1>4, <1>5, <1>6, <1>7, <1>8, <1>9, <1>10
  DEF ReaperStep, FinishStep, PodMishap, Exit, Crash

\* What is in the books stays in the books, whatever step is taken.
LEMMA AccountsKept ==
  ASSUME TypeOK, DownIsQuiet, DoneIsFinished, [Next]_vars,
         NEW j \in Jobs, Accounted(j)
  PROVE  Accounted(j)'
<1>1. CASE UNCHANGED vars
  BY <1>1 DEF vars, store, workerVars, podVars, history, Accounted, Pending, Settled,
              InHand, InReaper
<1>2. ASSUME NEW k \in Jobs, LapseIdle(k) \/ LapseBusy(k)
      PROVE  Accounted(j)'
  BY <1>2 DEF LapseIdle, LapseBusy, ExpireLease, workerVars, podVars, history, TypeOK,
              StoreTypeOK, Accounted, Pending, Settled, InHand, InReaper
<1>3. QED
  BY <1>1, <1>2, WorkerKeepsAccounts, PodKeepsAccounts DEF Next

\* A worker marks an id seen with its job in hand, a reaper for a job that it
\* has put back.
LEMMA ConservationStep ==
  TypeOK /\ DownIsQuiet /\ DoneIsFinished /\ MarkedIsAccounted /\ Conservation
    /\ [Next]_vars => Conservation'
<1> SUFFICES ASSUME TypeOK, DownIsQuiet, DoneIsFinished, MarkedIsAccounted, Conservation,
                    [Next]_vars
             PROVE  Conservation'
  OBVIOUS
<1>1. \A i \in seen : \E j \in Jobs : JobId[j] = i /\ Accounted(j)'
  BY AccountsKept DEF Conservation, Accounted
<1>2. CASE seen' \subseteq seen
  BY <1>1, <1>2 DEF Conservation, Accounted
<1>3. ASSUME NEW w \in Workers, OfferNew(w)
      PROVE  Conservation'
  <2>1. PICK k \in Jobs : /\ seen' = seen \union {JobId[k]}
                          /\ next' = [next EXCEPT ![w] = k]
    BY <1>3 DEF OfferNew, AddSeen, TypeOK, WorkerTypeOK
  <2>2. Accounted(k)'
    BY <1>3, <2>1 DEF OfferNew, TypeOK, WorkerTypeOK, Accounted, Pending, InHand
  <2>3. QED
    BY <1>1, <2>1, <2>2 DEF Conservation, Accounted
<1>4. ASSUME NEW p \in Pods, ReapMark(p)
      PROVE  Conservation'
  <2>1. PICK j \in Jobs : j = reaping[p]
    BY <1>4 DEF ReapMark, TypeOK, PodTypeOK
  <2>2. Accounted(j)'
    BY <1>4, <2>1, AccountsKept DEF ReapMark, MarkedIsAccounted
  <2>3. seen' = seen \union {JobId[j]}
    BY <1>4, <2>1 DEF ReapMark, AddSeen
  <2>4. QED
    BY <1>1, <2>2, <2>3 DEF Conservation, Accounted
<1>5. ASSUME NEW w \in Workers, WorkerStep(w) \/ WorkerMishap(w), ~OfferNew(w)
      PROVE  seen' = seen
  BY <1>5
  DEF WorkerStep, WorkerMishap, GetStopped, GetBlock, GetPop, GetLease, OfferSeen,
      PushNew, HandlerReturns, HandlerRaises, Done, FailRelease, FailRecord, Awake,
      DispatcherError, OfferError, PopMin, AddInflight, RemoveInflight, AddToQueue,
      AddFailed, store
<1>6. ASSUME NEW p \in Pods, ~ReapMark(p),
             Start(p) \/ ReaperStep(p) \/ FinishStep(p) \/ Exit(p) \/ PodMishap(p)
      PROVE  seen' = seen
  BY <1>6
  DEF Start, ReaperStep, ReapScan, ReapRelease, ReapAdd, FinishStep, JoinQueue,
      JoinInflight, CancelWorkers, Exit, PodMishap, ReapError, JoinError, Abort, Crash,
      Down, RemoveInflight, AddToQueue, store
<1>7. ASSUME NEW k \in Jobs, LapseIdle(k) \/ LapseBusy(k)
      PROVE  seen' = seen
  BY <1>7 DEF LapseIdle, LapseBusy, ExpireLease
<1>8. CASE UNCHANGED vars
  BY <1>2, <1>8 DEF vars, store
<1>9. QED
  BY <1>2, <1>3, <1>4, <1>5, <1>6, <1>7, <1>8 DEF Next

\* Only a handler that has returned leads a worker to done.
LEMMA DoneStep == TypeOK /\ DoneIsFinished /\ [Next]_vars => DoneIsFinished'
<1> SUFFICES ASSUME TypeOK, DoneIsFinished, [Next]_vars PROVE DoneIsFinished'
  OBVIOUS
<1> USE DEF TypeOK, WorkerTypeOK, DoneIsFinished
<1>1. CASE UNCHANGED vars
  BY <1>1 DEF vars, workerVars, history
<1>2. ASSUME NEW w \in Workers, WorkerStep(w) \/ WorkerMishap(w)
      PROVE  DoneIsFinished'
  <2>1. CASE GetPop(w)
    BY <2>1 DEF GetPop, history
  <2>2. CASE ~GetPop(w)
    BY <1>2, <2>2
    DEF WorkerStep, WorkerMishap, GetStopped, GetBlock, GetLease, OfferSeen, OfferNew,
        PushNew, HandlerReturns, HandlerRaises, Done, FailRelease, FailRecord, Awake,
        DispatcherError, OfferError, history
  <2>3. QED
    BY <2>1, <2>2
<1>3. ASSUME NEW p \in Pods,
             Start(p) \/ ReaperStep(p) \/ FinishStep(p) \/ Exit(p) \/ PodMishap(p)
      PROVE  DoneIsFinished'
  BY <1>3
  DEF Start, ReaperStep, ReapScan, ReapRelease, ReapAdd, ReapMark, FinishStep, JoinQueue,
      JoinInflight, CancelWorkers, Exit, PodMishap, ReapError, JoinError, Abort, Crash,
      Down, CutOff, workerVars, history
<1>4. ASSUME NEW j \in Jobs, LapseIdle(j) \/ LapseBusy(j)
      PROVE  DoneIsFinished'
  BY <1>4 DEF LapseIdle, LapseBusy, workerVars, history
<1>5. QED
  BY <1>1, <1>2, <1>3, <1>4 DEF Next

\* A reaper comes to the mark only by the addition to the queue.
LEMMA MarkedStep ==
  TypeOK /\ DownIsQuiet /\ DoneIsFinished /\ MarkedIsAccounted /\ [Next]_vars
    => MarkedIsAccounted'
<1> SUFFICES ASSUME TypeOK, DownIsQuiet, DoneIsFinished, MarkedIsAccounted, [Next]_vars,
                    NEW q \in Pods, reaper'[q] = "mark"
             PROVE  Accounted(reaping[q])'
  BY DEF MarkedIsAccounted
<1> USE DEF TypeOK, PodTypeOK
<1>1. CASE reaper[q] = "mark" /\ reaping'[q] = reaping[q]
  <2>1. PICK j \in Jobs : j = reaping[q]
    BY <1>1
  <2>2. Accounted(j)'
    BY <1>1, <2>1, AccountsKept DEF MarkedIsAccounted
  <2>3. QED
    BY <1>1, <2>1, <2>2 DEF Accounted, Pending, Settled, InHand, InReaper
<1>2. CASE ReapAdd(q)
  BY <1>2 DEF ReapAdd, AddToQueue, StoreTypeOK, Accounted, Pending
<1>3. ASSUME NEW p \in Pods, ~ReapAdd(q),
             Start(p) \/ ReaperStep(p) \/ FinishStep(p) \/ Exit(p) \/ PodMishap(p)
      PROVE  reaper[q] = "mark" /\ reaping'[q] = reaping[q]
  BY <1>3
  DEF Start, ReaperStep, ReapScan, ReapRelease, ReapAdd, ReapMark, FinishStep, JoinQueue,
      JoinInflight, CancelWorkers, Exit, PodMishap, ReapError, JoinError, Abort, Crash,
      Down
<1>4. CASE UNCHANGED podVars
  BY <1>1, <1>4 DEF podVars
<1>5. ASSUME NEW w \in Workers, WorkerStep(w) \/ WorkerMishap(w)
      PROVE  UNCHANGED podVars
  BY <1>5
  DEF WorkerStep, WorkerMishap, GetStopped, GetBlock, GetPop, GetLease, OfferSeen,
      OfferNew, PushNew, HandlerReturns, HandlerRaises, Done, FailRelease, FailRecord,
      Awake, DispatcherError, OfferError
<1>6. QED
  BY <1>1, <1>2, <1>3, <1>4, <1>5 DEF Next, LapseIdle, LapseBusy, vars

-----------------------------------------------------------------------------
(* Closure: a handler that returns has offered every successor. *)

\* A seen mark is never taken back, and a handler strikes a successor off its
\* list only when it is marked.
LEMMA SuccessorsStep == TypeOK /\ SuccessorsSeen /\ [Next]_vars => SuccessorsSeen'
<1> SUFFICES ASSUME TypeOK, SuccessorsSeen, [Next]_vars PROVE SuccessorsSeen'
  OBVIOUS
<1> USE DEF TypeOK, StoreTypeOK, WorkerTypeOK, WithJob, SuccessorsSeen, Seen
<1>1. CASE UNCHANGED vars
  BY <1>1 DEF vars, store, workerVars, history
<1>2. ASSUME NEW w \in Workers, WorkerStep(w) \/ WorkerMishap(w)
      PROVE  SuccessorsSeen'
  <2>1. CASE GetPop(w)
    BY <2>1 DEF GetPop, PopMin, history
  <2>2. CASE GetLease(w)
    BY <2>2 DEF GetLease, AddInflight, history
  <2>3. CASE OfferSeen(w)
    BY <2>3 DEF OfferSeen, store, history
  <2>4. CASE OfferNew(w)
    BY <2>4 DEF OfferNew, AddSeen, history
  <2>5. CASE HandlerReturns(w)
    BY <2>5, CrawlQueueAssumption DEF HandlerReturns, store
  <2>6. CASE GetStopped(w) \/ GetBlock(w) \/ PushNew(w) \/ HandlerRaises(w)
    BY <2>6 DEF GetStopped, GetBlock, PushNew, HandlerRaises, AddToQueue, store, history
  <2>7. CASE Done(w) \/ FailRelease(w) \/ FailRecord(w) \/ Awake(w)
    BY <2>7 DEF Done, FailRelease, FailRecord, Awake, RemoveInflight, AddFailed, store,
                history
  <2>8. CASE DispatcherError(w) \/ OfferError(w)
    BY <2>8 DEF DispatcherError, OfferError, AddInflight, store
  <2>9. QED
    BY <1>2, <2>1, <2>2, <2>3, <2>4, <2>5, <2>6, <2>7, <2>8
    DEF WorkerStep, WorkerMishap
<1>3. ASSUME NEW p \in Pods,
             Start(p) \/ ReaperStep(p) \/ FinishStep(p) \/ Exit(p) \/ PodMishap(p)
      PROVE  SuccessorsSeen'
  <2>1. seen \subseteq seen' /\ finished' = finished
    BY <1>3
    DEF Start, ReaperStep, ReapScan, ReapRelease, ReapAdd, ReapMark, FinishStep,
        JoinQueue, JoinInflight, CancelWorkers, Exit, PodMishap, ReapError, JoinError,
        Abort, Crash, Down, RemoveInflight, AddToQueue, AddSeen, store, history
  <2>2. \A w \in Workers : pc'[w] \in {"run", "push"} =>
                             pc[w] = pc'[w] /\ job[w] = job'[w] /\ todo[w] = todo'[w]
    BY <1>3
    DEF Start, ReaperStep, ReapScan, ReapRelease, ReapAdd, ReapMark, FinishStep,
        JoinQueue, JoinInflight, CancelWorkers, Exit, PodMishap, ReapError, JoinError,
        Abort, Crash, Down, CutOff, workerVars
  <2>3. QED
    BY <2>1, <2>2
<1>4. ASSUME NEW j \in Jobs, LapseIdle(j) \/ LapseBusy(j)
      PROVE  SuccessorsSeen'
  BY <1>4 DEF LapseIdle, LapseBusy, ExpireLease, workerVars, history
<1>5. QED
  BY <1>1, <1>2, <1>3, <1>4 DEF Next

-----------------------------------------------------------------------------
\* The seeds are queued and marked, and nothing else has happened.
LEMMA IInvInit == Init => IInv
<1> SUFFICES ASSUME Init PROVE IInv
  OBVIOUS
<1>1. Conservation
  BY JobStoreAssumption, CrawlQueueAssumption DEF Init, Conservation, Pending
<1>2. QED
  BY <1>1, TypeInit, QuietInit
  DEF Init, IInv, DoneIsFinished, MarkedIsAccounted, SuccessorsSeen

\* The inductive invariant holds in every reachable state.
THEOREM InductiveInvariant == Spec => []IInv
<1>1. IInv /\ [Next]_vars => IInv'
  BY TypeStep, QuietStep, DoneStep, MarkedStep, ConservationStep, SuccessorsStep
  DEF IInv
<1>2. QED
  BY <1>1, IInvInit, PTL DEF Spec

\* No job whose id has been marked seen is forgotten: whatever pods, crashes,
\* Redis errors, leases running out and cancellations do, it is queued, leased,
\* in the hand of a live task, finished, failed, or was cut off between two
\* commands of dispatcher.py.
THEOREM JobsConserved == Spec => []Conservation
<1>1. IInv => Conservation
  BY DEF IInv
<1>2. QED
  BY <1>1, InductiveInvariant, PTL

\* An empty store means a complete crawl: with nothing queued, leased or in
\* hand, all that a finished job discovered has been settled too.
THEOREM CrawlIsClosed == Spec => []CrawlClosure
<1>1. IInv => CrawlClosure
  <2> SUFFICES ASSUME IInv, \A j \in Jobs : ~Pending(j),
                      NEW j \in finished, NEW k \in Succ[j]
               PROVE  \E l \in Jobs : JobId[l] = JobId[k] /\ Settled(l)
    BY DEF CrawlClosure
  <2>1. JobId[k] \in seen
    BY DEF IInv, SuccessorsSeen, Seen
  <2>2. QED
    BY <2>1 DEF IInv, Conservation
<1>2. QED
  BY <1>1, InductiveInvariant, PTL
-----------------------------------------------------------------------------
(* One crawler. *)

OneCrawler ==
    /\ \A p, q \in Pods : p = q
    /\ "slow" \notin Events

Queued(j) == queue[j] > 0
Leased(j) == inflight[j] # "free"

\* OnePlace, a pair of jobs of one id at a time.
Apart ==
    /\ \A j \in Jobs : queue[j] <= 1
    /\ \A j, k \in Jobs : JobId[j] = JobId[k] =>
          /\ Queued(j) /\ Queued(k) => j = k
          /\ Leased(j) /\ Leased(k) => j = k
          /\ Queued(j) => ~Leased(k)
          /\ \A w \in Workers : j \in InHand(w) =>
                /\ ~Queued(k) /\ ~Leased(k)
                /\ \A v \in Workers : k \in InHand(v) => v = w
          /\ \A p \in Pods : j \in InReaper(p) =>
                /\ ~Queued(k) /\ ~Leased(k)
                /\ \A w \in Workers : k \notin InHand(w)

\* A job that is anywhere has its id marked; the reaper's mark is never new.
PendingIsSeen ==
    /\ \A j \in Jobs : Pending(j) => JobId[j] \in seen
    /\ \A p \in Pods : reaper[p] = "mark" => JobId[reaping[p]] \in seen

\* Two workers never work on one job.
OneWorkerEach ==
    \A w, v \in Workers :
        pc[w] \in Working /\ pc[v] \in Working /\ job[w] = job[v] => w = v

\* What the reaper has not come to yet is expired still: nobody else takes it up.
StaleIsExpired == \A p \in Pods : stale[p] \subseteq ExpiredLeases

OneIInv == /\ Apart /\ PendingIsSeen
           /\ LeaseHeld /\ OneWorkerEach /\ StaleIsExpired

-----------------------------------------------------------------------------
(* The inductive step, one lemma for each kind of task. *)

\* A step that takes no job from one place to another.
LEMMA NothingMoves ==
  ASSUME OneIInv, UNCHANGED <<store, podVars>>,
         \A w \in Workers : /\ InHand(w)' = InHand(w)
                            /\ pc'[w] \in Working => pc[w] \in Working /\ job'[w] = job[w]
  PROVE  OneIInv'
<1> USE DEF OneIInv, store, podVars
<1>1. \A p \in Pods : InReaper(p)' = InReaper(p)
  BY DEF InReaper
<1>2. Apart'
  BY <1>1 DEF Apart, Queued, Leased
<1>3. PendingIsSeen'
  BY <1>1 DEF PendingIsSeen, Pending
<1>4. LeaseHeld' /\ OneWorkerEach' /\ StaleIsExpired'
  BY DEF LeaseHeld, OneWorkerEach, StaleIsExpired, ExpiredLeases
<1>5. QED
  BY <1>2, <1>3, <1>4

\* A worker takes a job from the queue, gives it a lease, and lets it go, by steps
\* that leave it at one place; a job it discovers has an id that is nowhere.
LEMMA OneWorkerStep ==
  ASSUME TypeOK, OneIInv, NEW w \in Workers, WorkerStep(w) \/ WorkerMishap(w)
  PROVE  OneIInv'
<1> USE JobStoreAssumption, CrawlQueueAssumption
    DEF TypeOK, StoreTypeOK, WorkerTypeOK, PodTypeOK, OneIInv, Apart, PendingIsSeen,
        LeaseHeld, OneWorkerEach, StaleIsExpired, Queued, Leased, Pending, InHand,
        InReaper, ExpiredLeases, WithJob, Working, store, podVars
<1>1. CASE GetStopped(w) \/ GetBlock(w) \/ OfferSeen(w) \/ HandlerReturns(w)
           \/ HandlerRaises(w) \/ Awake(w)
  <2>1. /\ UNCHANGED <<store, podVars>>
        /\ \A v \in Workers : /\ InHand(v)' = InHand(v)
                              /\ pc'[v] \in Working => pc[v] \in Working /\ job'[v] = job[v]
    BY <1>1 DEF GetStopped, GetBlock, OfferSeen, HandlerReturns, HandlerRaises, Awake
  <2>2. QED
    BY <2>1, NothingMoves
<1>2. CASE GetPop(w)
  BY <1>2 DEF GetPop, PopMin
<1>3. CASE GetLease(w)
  BY <1>3 DEF GetLease, AddInflight
<1>4. CASE OfferNew(w)
  BY <1>4 DEF OfferNew, AddSeen, Seen
<1>5. CASE PushNew(w)
  BY <1>5 DEF PushNew, AddToQueue
<1>6. CASE Done(w)
  BY <1>6 DEF Done, RemoveInflight
<1>7. CASE FailRelease(w)
  BY <1>7 DEF FailRelease, RemoveInflight
<1>8. CASE FailRecord(w)
  BY <1>8 DEF FailRecord, AddFailed
<1>9. CASE DispatcherError(w)
  BY <1>9 DEF DispatcherError, AddInflight
<1>10. CASE OfferError(w)
  BY <1>10 DEF OfferError
<1>11. QED
  BY <1>1, <1>2, <1>3, <1>4, <1>5, <1>6, <1>7, <1>8, <1>9, <1>10
  DEF WorkerStep, WorkerMishap

\* The end of the tasks of a pod takes their jobs out of every hand and leaves
\* their leases.
LEMMA OneDown ==
  ASSUME TypeOK, OneIInv, NEW p \in Pods, CutOff(p), UNCHANGED store,
         \/ UNCHANGED <<reaper, stale, reaping>>
         \/ /\ reaper' = [reaper EXCEPT ![p] = "off"]
            /\ stale' = [stale EXCEPT ![p] = {}]
            /\ reaping' = [reaping EXCEPT ![p] = NoJob]
  PROVE  OneIInv'
<1> USE CrawlQueueAssumption
    DEF TypeOK, StoreTypeOK, WorkerTypeOK, PodTypeOK, OneIInv, store, CutOff
<1>1. \A j \in Jobs : /\ \A w \in Workers : j \in InHand(w)' => j \in InHand(w)
                      /\ \A q \in Pods : j \in InReaper(q)' => j \in InReaper(q)
  BY DEF InHand, InReaper
<1>2. Apart'
  BY <1>1 DEF Apart, Queued, Leased
<1>3. PendingIsSeen'
  BY <1>1 DEF PendingIsSeen, Pending
<1>4. LeaseHeld' /\ OneWorkerEach'
  BY DEF LeaseHeld, OneWorkerEach, Working
<1>5. \A q \in Pods : stale'[q] \subseteq stale[q]
  OBVIOUS
<1>6. ExpiredLeases' = ExpiredLeases
  BY DEF ExpiredLeases
<1>7. StaleIsExpired'
  BY <1>5, <1>6 DEF StaleIsExpired
<1>8. QED
  BY <1>2, <1>3, <1>4, <1>7

\* The reaper takes only expired leases away, which no worker holds, and every
\* other step of a pod moves no job.
LEMMA OnePodStep ==
  ASSUME OneCrawler, TypeOK, DownIsQuiet, OneIInv, NEW p \in Pods,
         Start(p) \/ ReaperStep(p) \/ FinishStep(p) \/ Exit(p) \/ PodMishap(p)
  PROVE  OneIInv'
<1> USE JobStoreAssumption, CrawlQueueAssumption
    DEF TypeOK, StoreTypeOK, WorkerTypeOK, PodTypeOK, OneIInv, Apart, PendingIsSeen,
        LeaseHeld, OneWorkerEach, StaleIsExpired, Queued, Leased, Pending, InHand,
        InReaper, ExpiredLeases, WithJob, Working, store, workerVars
<1>1. CASE Start(p)
  BY <1>1 DEF Start, DownIsQuiet, WorkersOf
<1>2. CASE ReapScan(p)
  BY <1>2 DEF ReapScan
<1>3. CASE ReapRelease(p)
  BY <1>3 DEF ReapRelease, RemoveInflight, OneCrawler
<1>4. CASE ReapAdd(p)
  BY <1>4 DEF ReapAdd, AddToQueue, OneCrawler
<1>5. CASE ReapMark(p)
  BY <1>5 DEF ReapMark, AddSeen
<1>6. CASE ReapError(p)
  BY <1>6 DEF ReapError
<1>7. CASE JoinQueue(p) \/ JoinInflight(p) \/ Abort(p)
  BY <1>7 DEF JoinQueue, JoinInflight, Abort
<1>8. CASE CancelWorkers(p)
  BY <1>8, OneDown DEF CancelWorkers
<1>9. CASE Down(p)
  BY <1>9, OneDown DEF Down
<1>10. CASE JoinError(p) /\ ~Down(p)
  BY <1>10 DEF JoinError
<1>11. QED
  BY <1>1, <1>2, <1>3, <1>4, <1>5, <1>6, <1>7, <1>8, <1>9, <1>10
  DEF ReaperStep, FinishStep, PodMishap, Exit, Crash

\* Only the lease of a job nobody works on runs out.
LEMMA OneLapse ==
  ASSUME OneCrawler, TypeOK, OneIInv, NEW j \in Jobs, LapseIdle(j) \/ LapseBusy(j)
  PROVE  OneIInv'
<1>1. LapseIdle(j)
  BY DEF OneCrawler, LapseBusy, Mishap
<1>2. QED
  BY <1>1
  DEF LapseIdle, ExpireLease, TypeOK, StoreTypeOK, WorkerTypeOK, OneIInv, Apart,
      PendingIsSeen, LeaseHeld, OneWorkerEach, StaleIsExpired, Queued, Leased, Pending,
      InHand, InReaper, ExpiredLeases, workerVars, podVars

\* Every step of one crawler keeps the invariant.
LEMMA OneStep ==
  ASSUME OneCrawler
  PROVE  TypeOK /\ DownIsQuiet /\ OneIInv /\ [Next]_vars => OneIInv'
<1> SUFFICES ASSUME TypeOK, DownIsQuiet, OneIInv, [Next]_vars PROVE OneIInv'
  OBVIOUS
<1>1. CASE UNCHANGED vars
  BY <1>1
  DEF OneIInv, Apart, PendingIsSeen, LeaseHeld, OneWorkerEach, StaleIsExpired, Queued,
      Leased, Pending, InHand, InReaper, ExpiredLeases, vars, store, workerVars, podVars
<1>2. CASE Next
  BY <1>2, OneWorkerStep, OnePodStep, OneLapse DEF Next
<1>3. QED
  BY <1>1, <1>2

\* The seeds, each of an id of its own, are in the queue and nowhere else.
LEMMA OneInit == Init => OneIInv
  BY JobStoreAssumption, CrawlQueueAssumption
  DEF Init, OneIInv, Apart, PendingIsSeen, LeaseHeld, OneWorkerEach, StaleIsExpired,
      Queued, Leased, Pending, InHand, InReaper, ExpiredLeases, Working

\* The invariant of one crawler holds in every state it comes to.
THEOREM OneInvariant ==
  ASSUME OneCrawler
  PROVE  Spec => [](TypeOK /\ DownIsQuiet /\ OneIInv)
<1>1. Init => TypeOK /\ DownIsQuiet /\ OneIInv
  BY TypeInit, QuietInit, OneInit
<1>2. TypeOK /\ DownIsQuiet /\ OneIInv /\ [Next]_vars
        => (TypeOK /\ DownIsQuiet /\ OneIInv)'
  BY TypeStep, QuietStep, OneStep
<1>3. QED
  BY <1>1, <1>2, PTL DEF Spec

-----------------------------------------------------------------------------
(* What the queue promises to one crawler. *)

\* Whatever crashes, restarts and Redis errors repeat, a discovery is never at two
\* places of the store and the tasks, and never twice in the queue.
THEOREM OnePlaceHolds ==
  ASSUME OneCrawler
  PROVE  Spec => []OnePlace
<1>1. TypeOK /\ OneIInv => OnePlace
  <2> SUFFICES ASSUME TypeOK, OneIInv, NEW i \in Ids, NEW x \in Places(i), NEW y \in Places(i)
               PROVE  x = y
    BY DEF OnePlace, OneIInv, Apart
  <2> DEFINE OfId == {j \in Jobs : JobId[j] = i}
  <2>1. \A z \in Places(i) :
           \/ \E j \in OfId : z = <<"queue", j>> /\ Queued(j)
           \/ \E j \in OfId : z = <<"inflight", j>> /\ Leased(j)
           \/ \E w \in Workers, j \in OfId : z = <<"worker", w>> /\ j \in InHand(w)
           \/ \E p \in Pods, j \in OfId : z = <<"reaper", p>> /\ j \in InReaper(p)
    BY DEF Places, Queued, Leased
  <2>2. QED
    BY <2>1 DEF OneIInv, Apart, OneCrawler
<1>2. QED
  BY <1>1, OneInvariant, PTL

\* A worker has the lease of the job it works on until it gives it back itself.
THEOREM LeaseIsHeld ==
  ASSUME OneCrawler
  PROVE  Spec => []LeaseHeld
<1>1. OneIInv => LeaseHeld
  BY DEF OneIInv
<1>2. QED
  BY <1>1, OneInvariant, PTL

-----------------------------------------------------------------------------
(* The queue implements JobLedger. *)

\* Only a discovery makes a job pending that was not: popping, leasing, reaping and
\* queueing again move what is in the books already.
LEMMA NothingComesBack ==
  ASSUME TypeOK, DownIsQuiet, OneIInv, [Next]_vars, \A w \in Workers : ~OfferNew(w)
  PROVE  seen' = seen /\ \A j \in Jobs : Pending(j)' => Pending(j)
<1> USE JobStoreAssumption, CrawlQueueAssumption
    DEF TypeOK, StoreTypeOK, WorkerTypeOK, PodTypeOK, Pending, InHand, InReaper,
        WithJob, store, workerVars, podVars
<1> DEFINE Same == seen' = seen /\ \A j \in Jobs : Pending(j)' => Pending(j)
<1>1. CASE UNCHANGED vars
  BY <1>1 DEF vars
<1>2. ASSUME NEW w \in Workers, WorkerStep(w) \/ WorkerMishap(w)
      PROVE  Same
  <2>1. CASE GetStopped(w) \/ GetBlock(w) \/ OfferSeen(w) \/ HandlerReturns(w)
             \/ HandlerRaises(w) \/ Awake(w)
    BY <2>1 DEF GetStopped, GetBlock, OfferSeen, HandlerReturns, HandlerRaises, Awake
  <2>2. CASE GetPop(w)
    BY <2>2 DEF GetPop, PopMin
  <2>3. CASE GetLease(w)
    BY <2>3 DEF GetLease, AddInflight
  <2>4. CASE PushNew(w)
    BY <2>4 DEF PushNew, AddToQueue
  <2>5. CASE Done(w)
    BY <2>5 DEF Done, RemoveInflight
  <2>6. CASE FailRelease(w)
    BY <2>6 DEF FailRelease, RemoveInflight, OneIInv, LeaseHeld, Working
  <2>7. CASE FailRecord(w)
    BY <2>7 DEF FailRecord, AddFailed
  <2>8. CASE DispatcherError(w)
    BY <2>8 DEF DispatcherError, AddInflight
  <2>9. CASE OfferError(w)
    BY <2>9 DEF OfferError
  <2>10. QED
    BY <1>2, <2>1, <2>2, <2>3, <2>4, <2>5, <2>6, <2>7, <2>8, <2>9
    DEF WorkerStep, WorkerMishap
<1>3. ASSUME NEW p \in Pods,
             Start(p) \/ ReaperStep(p) \/ FinishStep(p) \/ Exit(p) \/ PodMishap(p)
      PROVE  Same
  <2>1. CASE Start(p)
    BY <2>1 DEF Start, DownIsQuiet, WorkersOf
  <2>2. CASE ReapScan(p) \/ ReapError(p)
    BY <2>2 DEF ReapScan, ReapError
  <2>3. CASE ReapRelease(p)
    BY <2>3 DEF ReapRelease, RemoveInflight, OneIInv, StaleIsExpired, ExpiredLeases
  <2>4. CASE ReapAdd(p)
    BY <2>4 DEF ReapAdd, AddToQueue
  <2>5. CASE ReapMark(p)
    BY <2>5 DEF ReapMark, AddSeen, OneIInv, PendingIsSeen
  <2>6. CASE JoinQueue(p) \/ JoinInflight(p) \/ Abort(p)
    BY <2>6 DEF JoinQueue, JoinInflight, Abort
  <2>7. CASE CancelWorkers(p)
    BY <2>7 DEF CancelWorkers, CutOff
  <2>8. CASE Down(p)
    BY <2>8 DEF Down, CutOff
  <2>9. CASE JoinError(p) /\ ~Down(p)
    BY <2>9 DEF JoinError
  <2>10. QED
    BY <1>3, <2>1, <2>2, <2>3, <2>4, <2>5, <2>6, <2>7, <2>8, <2>9
    DEF ReaperStep, FinishStep, PodMishap, Exit, Crash
<1>4. ASSUME NEW j \in Jobs, LapseIdle(j) \/ LapseBusy(j)
      PROVE  Same
  BY <1>4 DEF LapseIdle, LapseBusy, ExpireLease
<1>5. QED
  BY <1>1, <1>2, <1>3, <1>4 DEF Next

\* A discovery opens the id of a job that no structure has, while the job of the
\* handler that makes it is leased.
LEMMA DiscoveryOpens ==
  ASSUME TypeOK, OneIInv, NEW w \in Workers, OfferNew(w)
  PROVE  \E i \in Ids : Ledger!Discover(i)
<1> USE JobStoreAssumption DEF TypeOK, StoreTypeOK, WorkerTypeOK, PodTypeOK, OneIInv
<1>1. PICK k \in Jobs : /\ JobId[k] \notin seen
                        /\ seen' = seen \union {JobId[k]}
                        /\ next' = [next EXCEPT ![w] = k]
  BY DEF OfferNew, AddSeen, Seen
<1>2. \A j \in Jobs : Pending(j)' <=> Pending(j) \/ j = k
  BY <1>1 DEF OfferNew, AddSeen, Pending, InHand, InReaper, podVars
<1>3. \A j \in Jobs : JobId[j] = JobId[k] => ~Pending(j)
  BY <1>1 DEF PendingIsSeen
<1>4. IdStatus(JobId[k]) = "new" /\ IdStatus(JobId[k])' = "open"
  BY <1>1, <1>2 DEF IdStatus
<1>5. \A i \in Ids \ {JobId[k]} : IdStatus(i)' = IdStatus(i)
  BY <1>1, <1>2 DEF IdStatus
<1>6. IdStatus(JobId[job[w]]) = "open"
  <2>1. job[w] \in Jobs /\ inflight[job[w]] = "leased"
    BY DEF OfferNew, LeaseHeld, Working, WithJob
  <2>2. QED
    BY <2>1 DEF IdStatus, Pending, PendingIsSeen
<1>7. JobId[job[w]] \in Ids /\ JobId[k] \in Ids
  BY DEF OfferNew, WithJob
<1>8. Ledger!Discover(JobId[k])
  <2> DEFINE status == [i \in Ids |-> IdStatus(i)]
  <2>1. status[JobId[k]] = "new" /\ status[JobId[job[w]]] = "open"
    BY <1>4, <1>6, <1>7
  <2>2. status' = [status EXCEPT ![JobId[k]] = "open"]
    BY <1>4, <1>5, <1>7
  <2>3. QED
    BY <1>7, <2>1, <2>2 DEF Ledger!Discover
<1>9. QED
  BY <1>7, <1>8

\* Any other step closes some of the open ids, or none.
LEMMA OtherStepsClose ==
  ASSUME TypeOK, DownIsQuiet, OneIInv, [Next]_vars, \A w \in Workers : ~OfferNew(w)
  PROVE  Ledger!Close
<1>1. seen' = seen /\ \A j \in Jobs : Pending(j)' => Pending(j)
  BY NothingComesBack
<1>2. \A i \in Ids : /\ IdStatus(i)' \in {"new", "open", "closed"}
                     /\ IdStatus(i)' # IdStatus(i) =>
                           IdStatus(i) = "open" /\ IdStatus(i)' = "closed"
  BY <1>1 DEF IdStatus
<1>3. QED
  BY <1>2 DEF Ledger!Close

\* One crawler gives every id one lifetime: it is opened once, by the handler of an
\* open one, and closed once; no crash, retry or reaping brings it back.
THEOREM OneLifetimeEach ==
  ASSUME OneCrawler
  PROVE  Spec => OneLifetime
<1>1. Init => Ledger!Init
  <2> SUFFICES ASSUME Init PROVE Ledger!Init
    OBVIOUS
  <2>1. \A i \in Ids : IdStatus(i) = IF i \in {JobId[j] : j \in Seeds} THEN "open" ELSE "new"
    BY CrawlQueueAssumption DEF Init, IdStatus, Pending
  <2>2. QED
    BY <2>1 DEF Ledger!Init
<1>2. TypeOK /\ DownIsQuiet /\ OneIInv /\ [Next]_vars
        => [Ledger!Next]_([i \in Ids |-> IdStatus(i)])
  BY DiscoveryOpens, OtherStepsClose DEF Ledger!Next
<1>3. QED
  BY <1>1, <1>2, OneInvariant, PTL DEF Spec, OneLifetime, Ledger!Spec
=============================================================================
