----------------------------- MODULE HostSurvey -----------------------------
(***************************************************************************)
(* bin/survey_hosts.py: a run seeds the host table from the labels of the   *)
(* nodes, picks the hosts whose last survey is too old, and hands them      *)
(* through a bounded queue to workers that survey a host and save what they *)
(* learned with two commands.  A run may be killed and is then started      *)
(* again as another; runs may also overlap.                                 *)
(***************************************************************************)
EXTENDS Integers, Sequences, FiniteSets

CONSTANTS
    Hosts,
    Workers,      \* of a run: max_workers
    Runs,         \* bound on runs: 1 .. Runs
    Overlap,      \* may a run start while another is at work?
    MaxAge,       \* a host is surveyed again when it is older
    MaxTime,      \* bound on the clock
    MaxMishaps    \* bound on kills and on commands that raise

SurveyAssumption ==
    /\ IsFiniteSet(Workers) /\ Runs \in Nat \ {0} /\ Overlap \in BOOLEAN
    /\ MaxAge \in Nat /\ MaxTime \in Nat /\ MaxTime >= 2 /\ MaxMishaps \in Nat

VARIABLES
    table,      \* host -> property -> the survey that wrote it: its run and time
    labels,     \* hosts of the graph's nodes
    now,
    phase,      \* run -> what it is at
    seeding,    \* run -> hostnames its pass over the nodes found and has not ensured
    cutoff,     \* run -> time
    due,        \* run -> hosts its scan found (to_survey)
    unput,      \* run -> those it has not put on the queue
    queue,      \* run -> hosts
    worker,     \* run -> worker -> the survey in hand
    unfinished, \* run -> jobs put and not marked done
    unsaved,    \* run -> hosts whose save raised (history)
    mishaps

rows == <<table, labels>>
run == <<seeding, cutoff, due, unput>>
pool == <<queue, worker, unfinished, unsaved>>
vars == <<rows, now, phase, run, pool, mishaps>>

RunIds == 1 .. Runs
Info == {"software_name", "users_total"}
Names == Info \union {"last_fetch_date", "failure"}

\* A property row is marked by the survey that wrote it; NoRow for no row.
NoRow == [run |-> -1, time |-> 0]
NoRows == [n \in Names |-> NoRow]
Stamps == [run : -1 .. Runs, time : 0 .. MaxTime]

Idle == [at |-> "idle"]
Present == {{"failure"}} \union SUBSET Info   \* what a survey may say beside its date

\* What the saves of a survey leave: the properties it has and no others.
Saved(present, stamp) ==
    [n \in Names |-> IF n \in present \union {"last_fetch_date"} THEN stamp ELSE NoRow]

Init ==
    /\ labels \in SUBSET Hosts
    /\ table \in [labels -> {NoRows} \union {Saved(p, [run |-> 0, time |-> 1]) : p \in {{"failure"}, Info}}]
    /\ now = 2
    /\ phase = [r \in RunIds |-> "new"]
    /\ seeding = [r \in RunIds |-> {}]
    /\ cutoff = [r \in RunIds |-> 0]
    /\ due = [r \in RunIds |-> {}]
    /\ unput = [r \in RunIds |-> {}]
    /\ queue = [r \in RunIds |-> <<>>]
    /\ worker = [r \in RunIds |-> [w \in Workers |-> Idle]]
    /\ unfinished = [r \in RunIds |-> 0]
    /\ unsaved = [r \in RunIds |-> {}]
    /\ mishaps = 0

-----------------------------------------------------------------------------
(* Around the runs. *)

Tick ==
    /\ now < MaxTime
    /\ now' = now + 1
    /\ UNCHANGED <<rows, phase, run, pool, mishaps>>

\* The crawler finds an actor on a host it had not seen.
NewLabel ==
    /\ \E h \in Hosts \ labels : labels' = labels \union {h}
    /\ UNCHANGED <<table, now, phase, run, pool, mishaps>>

AtWork(r) == phase[r] \notin {"new", "done", "dead"}

Kill(r) ==
    /\ AtWork(r) /\ mishaps < MaxMishaps
    /\ phase' = [phase EXCEPT ![r] = "dead"]
    /\ mishaps' = mishaps + 1
    /\ UNCHANGED <<rows, now, run, pool>>

-----------------------------------------------------------------------------
(* The run's own task. *)

\* Runs are numbered as they start.  With --no-seed the table is taken as it is.
Start(r) ==
    /\ phase[r] = "new" /\ \A s \in 1 .. r - 1 : phase[s] # "new"
    /\ Overlap \/ \A s \in RunIds : ~ AtWork(s)
    /\ \/ /\ phase' = [phase EXCEPT ![r] = "seed"]
          /\ seeding' = [seeding EXCEPT ![r] = labels]
       \/ /\ phase' = [phase EXCEPT ![r] = "scan"]
          /\ UNCHANGED seeding
    /\ UNCHANGED <<rows, now, cutoff, due, unput, pool, mishaps>>

\* ensure_hosts adds a batch of the hostnames, as many of them as are new.
Seed(r) ==
    /\ phase[r] = "seed"
    /\ \/ /\ seeding[r] # {}
          /\ \E batch \in SUBSET seeding[r] \ {{}} :
                /\ table' = [h \in DOMAIN table \union batch |->
                                IF h \in DOMAIN table THEN table[h] ELSE NoRows]
                /\ seeding' = [seeding EXCEPT ![r] = @ \ batch]
          /\ UNCHANGED phase
       \/ /\ seeding[r] = {}
          /\ phase' = [phase EXCEPT ![r] = "scan"]
          /\ UNCHANGED <<table, seeding>>
    /\ UNCHANGED <<labels, now, cutoff, due, unput, pool, mishaps>>

IsDue(props, limit) ==
    props["last_fetch_date"] = NoRow \/ props["last_fetch_date"].time < limit

\* One cursor reads the table as it was when it was opened; --limit, any number,
\* may cut what it finds.
Scan(r) ==
    LET limit == now - MaxAge
        old == {h \in DOMAIN table : IsDue(table[h], limit)}
    IN  /\ phase[r] = "scan"
        /\ \E picked \in SUBSET old :
              /\ due' = [due EXCEPT ![r] = picked]
              /\ unput' = [unput EXCEPT ![r] = picked]
        /\ cutoff' = [cutoff EXCEPT ![r] = limit]
        /\ phase' = [phase EXCEPT ![r] = "put"]
        /\ UNCHANGED <<rows, now, seeding, pool, mishaps>>

QueueSize == 2 * Cardinality(Workers)

Put(r) ==
    /\ phase[r] = "put" /\ Len(queue[r]) < QueueSize
    /\ \E h \in unput[r] :
          /\ queue' = [queue EXCEPT ![r] = Append(@, h)]
          /\ unput' = [unput EXCEPT ![r] = @ \ {h}]
    /\ unfinished' = [unfinished EXCEPT ![r] = @ + 1]
    /\ UNCHANGED <<rows, now, phase, seeding, cutoff, due, worker, unsaved, mishaps>>

\* Mutant: the run ends when the queue is empty.
JoinEmpty(r) ==
    /\ phase[r] = "put" /\ unput[r] = {} /\ queue[r] = <<>>
    /\ worker' = [worker EXCEPT ![r] = [w \in Workers |-> Idle]]
    /\ phase' = [phase EXCEPT ![r] = "done"]
    /\ UNCHANGED <<rows, now, run, queue, unfinished, unsaved, mishaps>>

\* queue.join() returns and the workers, all of them waiting, are cancelled.
Join(r) ==
    /\ phase[r] = "put" /\ unput[r] = {} /\ unfinished[r] = 0
    /\ worker' = [worker EXCEPT ![r] = [w \in Workers |-> Idle]]
    /\ phase' = [phase EXCEPT ![r] = "done"]
    /\ UNCHANGED <<rows, now, run, queue, unfinished, unsaved, mishaps>>

-----------------------------------------------------------------------------
(* A worker: get, survey, delete what is not known, set what is. *)

\* Mutant: the date is saved when the survey starts.
GetAndDate(r, w) ==
    /\ AtWork(r) /\ worker[r][w].at = "idle" /\ queue[r] # <<>>
    /\ worker' = [worker EXCEPT ![r][w] =
                     [at |-> "ask", host |-> Head(queue[r]), stamp |-> [run |-> r, time |-> now]]]
    /\ table' = [table EXCEPT ![Head(queue[r])] = Saved({}, [run |-> 0, time |-> now])]
    /\ queue' = [queue EXCEPT ![r] = Tail(@)]
    /\ UNCHANGED <<labels, now, phase, run, unfinished, unsaved, mishaps>>

\* The survey takes the time of its start before it asks.
Get(r, w) ==
    /\ AtWork(r) /\ worker[r][w].at = "idle" /\ queue[r] # <<>>
    /\ worker' = [worker EXCEPT ![r][w] =
                     [at |-> "ask", host |-> Head(queue[r]), stamp |-> [run |-> r, time |-> now]]]
    /\ queue' = [queue EXCEPT ![r] = Tail(@)]
    /\ UNCHANGED <<rows, now, phase, run, unfinished, unsaved, mishaps>>

\* A nodeinfo document fills as many fields as it has; anything else is a failure.
Survey(r, w) ==
    /\ AtWork(r) /\ worker[r][w].at = "ask"
    /\ \E present \in Present :
          worker' = [worker EXCEPT ![r][w] =
                        [at |-> "delete", host |-> @.host, stamp |-> @.stamp, present |-> present]]
    /\ UNCHANGED <<rows, now, phase, run, queue, unfinished, unsaved, mishaps>>

\* Mutant: rows of an earlier survey are left.
DeletesNone(props, present) == props

Deleted(props, present) ==
    [n \in Names |-> IF n \in present \union {"last_fetch_date"} THEN props[n] ELSE NoRow]

Delete(r, w) ==
    LET job == worker[r][w]
    IN  /\ AtWork(r) /\ job.at = "delete"
        /\ table' = [table EXCEPT ![job.host] = Deleted(@, job.present)]
        /\ worker' = [worker EXCEPT ![r][w].at = "set"]
        /\ UNCHANGED <<labels, now, phase, run, queue, unfinished, unsaved, mishaps>>

SetTo(props, job) ==
    [n \in Names |-> IF n \in job.present \union {"last_fetch_date"} THEN job.stamp ELSE props[n]]

Set(r, w) ==
    LET job == worker[r][w]
    IN  /\ AtWork(r) /\ job.at = "set"
        /\ table' = [table EXCEPT ![job.host] = SetTo(@, job)]
        /\ worker' = [worker EXCEPT ![r][w] = Idle]
        /\ unfinished' = [unfinished EXCEPT ![r] = @ - 1]
        /\ UNCHANGED <<labels, now, phase, run, queue, unsaved, mishaps>>

\* Mutant: task_done() is not in a finally.
RaiseUndone(r, w) ==
    /\ AtWork(r) /\ worker[r][w].at \in {"delete", "set"} /\ mishaps < MaxMishaps
    /\ worker' = [worker EXCEPT ![r][w] = Idle]
    /\ unsaved' = [unsaved EXCEPT ![r] = @ \union {worker[r][w].host}]
    /\ mishaps' = mishaps + 1
    /\ UNCHANGED <<rows, now, phase, run, queue, unfinished>>

\* A command raises: it is logged, and the worker goes on to the next host.
Raise(r, w) ==
    /\ AtWork(r) /\ worker[r][w].at \in {"delete", "set"} /\ mishaps < MaxMishaps
    /\ worker' = [worker EXCEPT ![r][w] = Idle]
    /\ unfinished' = [unfinished EXCEPT ![r] = @ - 1]
    /\ unsaved' = [unsaved EXCEPT ![r] = @ \union {worker[r][w].host}]
    /\ mishaps' = mishaps + 1
    /\ UNCHANGED <<rows, now, phase, run, queue>>

Main(r) == Start(r) \/ Seed(r) \/ Scan(r) \/ Put(r) \/ Join(r)

Work(r, w) == Get(r, w) \/ Survey(r, w) \/ Delete(r, w) \/ Set(r, w)

Next ==
    \/ Tick \/ NewLabel
    \/ \E r \in RunIds : Main(r) \/ Kill(r) \/ \E w \in Workers : Work(r, w) \/ Raise(r, w)

Spec == Init /\ [][Next]_vars

\* The event loop comes to every task that can go on; an answer is awaited for
\* a bounded time and read up to MAX_RESPONSE_BYTES.
Fairness ==
    /\ \A r \in RunIds : WF_vars(Seed(r) \/ Scan(r) \/ Put(r) \/ Join(r))
    /\ \A r \in RunIds, w \in Workers : WF_vars(Work(r, w))

-----------------------------------------------------------------------------
TypeOK ==
    /\ DOMAIN table \subseteq Hosts /\ \A h \in DOMAIN table : table[h] \in [Names -> Stamps]
    /\ labels \subseteq Hosts /\ now \in 1 .. MaxTime
    /\ phase \in [RunIds -> {"new", "seed", "scan", "put", "done", "dead"}]
    /\ \A r \in RunIds :
          /\ Len(queue[r]) <= QueueSize
          /\ unput[r] \subseteq due[r] /\ due[r] \subseteq DOMAIN table
          /\ unfinished[r] = Len(queue[r]) + Cardinality({w \in Workers : worker[r][w].at # "idle"})

(***************************************************************************)
(* While runs do not overlap, what the table says of a host was written by  *)
(* one survey, the one that left the date, at every point of a save and     *)
(* after a kill or an error in the middle of one: survey_worker deletes     *)
(* before it sets.                                                          *)
(***************************************************************************)
OneSurvey ==
    \A h \in DOMAIN table : \A n \in Names :
        table[h][n] \in {NoRow, table[h]["last_fetch_date"]}

(***************************************************************************)
(* docs/host_survey.md: "a killed run loses nothing: hosts not yet saved    *)
(* are still due on the next run".  A host the run's scan found and it has  *)
(* not saved would be found by that scan again.                             *)
(***************************************************************************)
UnsavedIsDue ==
    \A r \in RunIds : phase[r] \in {"put", "done", "dead"} =>
        \A h \in due[r] :
            \/ \E s \in r .. Runs : table[h]["last_fetch_date"].run = s
            \/ IsDue(table[h], cutoff[r])

(***************************************************************************)
(* A run that returns has surveyed and saved every host its scan found,     *)
(* save those whose command raised: the last ones are not cut off when the  *)
(* workers are cancelled.                                                   *)
(***************************************************************************)
AllSaved ==
    \A r \in RunIds : phase[r] = "done" =>
        \A h \in due[r] \ unsaved[r] :
            \E s \in r .. Runs : table[h]["last_fetch_date"].run = s

(***************************************************************************)
(* A run comes to its end, also when surveys fail and commands raise: the   *)
(* full queue and the join do not wait on each other.                       *)
(***************************************************************************)
RunsEnd == \A r \in RunIds : phase[r] # "new" ~> phase[r] \in {"done", "dead"}
=============================================================================
