------------------------------ MODULE JobLedger ------------------------------
(***************************************************************************)
(* What the queue is to the crawl, without pods, leases or Redis: a ledger  *)
(* of ids.  An id is opened once, while some other id is open, and closed   *)
(* once; a closed id is never opened again.                                 *)
(***************************************************************************)
CONSTANTS Ids, SeedIds

VARIABLE status

TypeOK == status \in [Ids -> {"new", "open", "closed"}]

Init == status = [i \in Ids |-> IF i \in SeedIds THEN "open" ELSE "new"]

\* enqueue_if_unseen by the handler of an open id.
Discover(i) ==
    /\ status[i] = "new"
    /\ \E k \in Ids : status[k] = "open"
    /\ status' = [status EXCEPT ![i] = "open"]

\* done, fail, or the end of a pod that had several jobs in hand.
Close ==
    /\ status' \in [Ids -> {"new", "open", "closed"}]
    /\ \A i \in Ids : status'[i] # status[i] => status[i] = "open" /\ status'[i] = "closed"

Next ==
    \/ \E i \in Ids : Discover(i)
    \/ Close

Spec == Init /\ [][Next]_status
=============================================================================
