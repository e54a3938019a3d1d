----------------------------- MODULE MCCrawlEnds -----------------------------
(***************************************************************************)
(* Liveness of the crawl.  The first state chooses the pods: one of two     *)
(* workers, which may meet a Redis error or be told to stop, or two of one  *)
(* worker each, of which one may crash or be told to stop.                  *)
(***************************************************************************)
EXTENDS MCCrawlQueue

VARIABLE part

One == INSTANCE CrawlQueue WITH
           Pods <- {p1}, Home <- OneHome, Flaky <- {left},
           Events <- {"error", "sigterm"}, MaxStarts <- 1

AllInit == Init /\ part \in {"one", "two"}

AllNext ==
    /\ UNCHANGED part
    /\ \/ part = "one" /\ One!Next
       \/ part = "two" /\ Next

\* The fairness of FairSpec, for the pods that there are.
AllFairness ==
    /\ \A w \in Workers : WF_vars(\/ part = "one" /\ One!WorkerStep(w)
                                  \/ part = "two" /\ WorkerStep(w))
    /\ \A p \in Pods : /\ WF_vars(\/ part = "one" /\ p = p1 /\ One!ReaperStep(p)
                                  \/ part = "two" /\ ReaperStep(p))
                       /\ WF_vars(\/ part = "one" /\ p = p1 /\ One!FinishStep(p)
                                  \/ part = "two" /\ FinishStep(p))
                       /\ WF_vars(\/ part = "one" /\ p = p1 /\ One!Exit(p)
                                  \/ part = "two" /\ Exit(p))
    /\ \A j \in Jobs : WF_vars(\/ part = "one" /\ One!LapseIdle(j)
                               \/ part = "two" /\ LapseIdle(j))

AllSpec == AllInit /\ [][AllNext]_<<vars, part>> /\ AllFairness
=============================================================================
