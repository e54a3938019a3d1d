------------------------------ MODULE JobStore ------------------------------
(***************************************************************************)
(* The four Redis structures every crawler pod and every script shares,    *)
(* and the single commands pub_crawler/dispatcher.py issues on them.  Redis *)
(* runs one command at a time, so each operator below is one atomic step;   *)
(* a Dispatcher method that awaits several commands is several steps of the *)
(* modules that extend this one.                                            *)
(*                                                                          *)
(*   pub_crawler:queue        sorted set, all scores 0, members ordered by   *)
(*                            "depth|type|crc|timestamp|json"                *)
(*   pub_crawler:inflight     hash, job -> expiry of its lease               *)
(*   pub_crawler:failed       set of jobs                                    *)
(*   pub_crawler:seen_hashed  set of hashes of job ids                       *)
(***************************************************************************)
EXTENDS Integers

CONSTANTS
    Jobs,    \* job dictionaries; two of them may have the same id
    Ids,     \* hashes of job ids
    JobId,   \* the id of a job: its type and subject, not its depth
    Rank     \* the place of a job's "depth|type|crc" prefix in the order

ASSUME JobStoreAssumption ==
    /\ JobId \in [Jobs -> Ids]
    /\ Rank \in [Jobs -> Nat]

VARIABLES
    queue,      \* job -> how many members of the sorted set carry it
    inflight,   \* job -> "free" (no field), "leased" or "expired"
    failed,     \* jobs recorded as failed
    seen        \* ids ever offered to the queue

store == <<queue, inflight, failed, seen>>

StoreTypeOK ==
    /\ queue \in [Jobs -> Nat]
    /\ inflight \in [Jobs -> {"free", "leased", "expired"}]
    /\ failed \subseteq Jobs
    /\ seen \subseteq Ids

\* The members carry a microsecond timestamp, so the same job added twice is
\* two members (two additions in the same microsecond would merge; they are
\* kept apart here).
AddToQueue(j) ==
    /\ queue' = [queue EXCEPT ![j] = @ + 1]
    /\ UNCHANGED <<inflight, failed, seen>>

\* BZPOPMIN takes the least member.  Jobs of the same prefix are told apart by
\* timestamp, which is left open.
PopMin(j) ==
    /\ queue[j] > 0
    /\ \A k \in Jobs : queue[k] > 0 => Rank[j] <= Rank[k]
    /\ queue' = [queue EXCEPT ![j] = @ - 1]
    /\ UNCHANGED <<inflight, failed, seen>>

\* HSET overwrites the lease somebody else may hold on an equal job.
AddInflight(j) ==
    /\ inflight' = [inflight EXCEPT ![j] = "leased"]
    /\ UNCHANGED <<queue, failed, seen>>

\* HDEL by job: it removes the lease whoever took it.
RemoveInflight(j) ==
    /\ inflight' = [inflight EXCEPT ![j] = "free"]
    /\ UNCHANGED <<queue, failed, seen>>

AddFailed(j) ==
    /\ failed' = failed \union {j}
    /\ UNCHANGED <<queue, inflight, seen>>

AddSeen(j) ==
    /\ seen' = seen \union {JobId[j]}
    /\ UNCHANGED <<queue, inflight, failed>>

Seen(j) == JobId[j] \in seen

QueuedJobs == {j \in Jobs : queue[j] > 0}

InflightJobs == {j \in Jobs : inflight[j] # "free"}

\* Mutant: expired() without the comparison with the clock.
AllLeases == {j \in Jobs : inflight[j] # "free"}

ExpiredLeases == {j \in Jobs : inflight[j] = "expired"}

\* MAX_INFLIGHT passes on the clock that stamped the lease.
ExpireLease(j) ==
    /\ inflight[j] = "leased"
    /\ inflight' = [inflight EXCEPT ![j] = "expired"]
    /\ UNCHANGED <<queue, failed, seen>>
=============================================================================
