----------------------------- MODULE SeenFixup ------------------------------
(***************************************************************************)
(* fixup_seen.py, with the crawler stopped: the seen set is deleted and     *)
(* built again from the leases, the failed set, the graph and the queue,    *)
(* and the queue loses the jobs that are in it twice or that are elsewhere. *)
(* A script may be killed and run again.                                    *)
(***************************************************************************)
EXTENDS Integers, Sequences, FiniteSets

CONSTANTS
    Ids,         \* ids of jobs
    NoId,        \* of a member that cannot be read
    BatchSize,   \* WRITE_BATCH
    MaxRepeats,  \* bound on members the cursor returns once more
    MaxKills     \* bound on kills

SeenFixupAssumption ==
    /\ NoId \notin Ids /\ BatchSize \in Nat \ {0}
    /\ MaxRepeats \in Nat /\ MaxKills \in Nat

VARIABLES
    queue,      \* members: an id and a stamp
    elsewhere,  \* source -> ids
    seen,
    at,         \* what the script is at
    left,       \* members the cursor has to return yet
    batch,      \* members read and not written
    results,    \* what their SADDs returned
    skipped,    \* leased ids whose SADD raised
    original,   \* the queue when it ran first (history)
    repeats, kills

script == <<at, left, batch, results, skipped>>
vars == <<queue, elsewhere, seen, script, original, repeats, kills>>

Members == [id : Ids \union {NoId}, stamp : {1, 2}]
Sources == <<"inflight", "failed", "graph">>

Elsewhere == UNION {elsewhere[Sources[i]] : i \in DOMAIN Sources}

Init ==
    /\ queue \in SUBSET Members
    /\ elsewhere \in [{Sources[i] : i \in DOMAIN Sources} -> SUBSET Ids]
    /\ \A i, j \in DOMAIN Sources : i # j => elsewhere[Sources[i]] \intersect elsewhere[Sources[j]] = {}
    /\ seen \in {{}, Ids}
    /\ at = "off" /\ left = {} /\ batch = <<>> /\ results = <<>> /\ skipped = {}
    /\ original = queue
    /\ repeats = 0 /\ kills = 0

\* Mutant: the set is not deleted.
Keeps ==
    /\ at \in {"off", "done"}
    /\ at' = "inflight" /\ skipped' = {}
    /\ UNCHANGED <<queue, elsewhere, seen, left, batch, results, original, repeats, kills>>

Delete ==
    /\ at \in {"off", "done"}
    /\ seen' = {} /\ at' = "inflight" /\ skipped' = {}
    /\ UNCHANGED <<queue, elsewhere, left, batch, results, original, repeats, kills>>

\* A source is added id by id or batch by batch; then comes the next.
AddSource ==
    \E i \in DOMAIN Sources :
        /\ at = Sources[i]
        /\ \E S \in SUBSET elsewhere[at] : seen' = seen \union S
        /\ at' = IF elsewhere[at] \subseteq seen' \union skipped
                 THEN (IF i < Len(Sources) THEN Sources[i + 1] ELSE "queue")
                 ELSE at
        /\ left' = IF at' = "queue" THEN queue ELSE left
        /\ UNCHANGED <<queue, elsewhere, batch, results, skipped, original, repeats, kills>>

\* An error on a leased job is logged and the job is left out; elsewhere it ends
\* the script.
Skip ==
    /\ at = "inflight"
    /\ \E i \in elsewhere[at] \ seen : skipped' = skipped \union {i}
    /\ UNCHANGED <<queue, elsewhere, seen, at, left, batch, results, original, repeats, kills>>

\* A member that is no job is passed over.  ZSCAN returns every member that
\* stays, and may return one more than once.
Read ==
    /\ at = "queue" /\ Len(batch) < BatchSize
    /\ \E m \in left \union (IF repeats < MaxRepeats THEN queue ELSE {}) :
          /\ left' = left \ {m}
          /\ repeats' = IF m \in left THEN repeats ELSE repeats + 1
          /\ batch' = IF m.id = NoId THEN batch ELSE Append(batch, m)
    /\ UNCHANGED <<queue, elsewhere, seen, at, results, skipped, original, kills>>

\* A pipeline of SADDs: an id that was there already returns 0.
AddBatch ==
    /\ at = "queue"
    /\ Len(batch) = BatchSize \/ (left = {} /\ batch # <<>>)
    /\ results' = [i \in DOMAIN batch |->
                      IF batch[i].id \in seen \union {batch[k].id : k \in 1 .. i - 1} THEN 0 ELSE 1]
    /\ seen' = seen \union {batch[i].id : i \in DOMAIN batch}
    /\ at' = "trim"
    /\ UNCHANGED <<queue, elsewhere, left, batch, skipped, original, repeats, kills>>

\* Mutant: the members that were added are removed.
Ones == {batch[i] : i \in {k \in DOMAIN results : results[k] = 1}}

Doubles == {batch[i] : i \in {k \in DOMAIN results : results[k] = 0}}

Trim ==
    /\ at = "trim"
    /\ queue' = queue \ Doubles
    /\ batch' = <<>> /\ results' = <<>> /\ at' = "queue"
    /\ UNCHANGED <<elsewhere, seen, left, skipped, original, repeats, kills>>

End ==
    /\ at = "queue" /\ left = {} /\ batch = <<>>
    /\ at' = "done"
    /\ UNCHANGED <<queue, elsewhere, seen, left, batch, results, skipped, original, repeats, kills>>

Kill ==
    /\ at \notin {"off", "done"} /\ kills < MaxKills
    /\ at' = "off" /\ left' = {} /\ batch' = <<>> /\ results' = <<>>
    /\ kills' = kills + 1
    /\ UNCHANGED <<queue, elsewhere, seen, skipped, original, repeats>>

Next == Delete \/ AddSource \/ Skip \/ Read \/ AddBatch \/ Trim \/ End \/ Kill

Spec == Init /\ [][Next]_vars

-----------------------------------------------------------------------------
IdsOf(S) == {m.id : m \in S}

(***************************************************************************)
(* tests/test_fixup_seen.py: of an id that is queued "the first occurrence  *)
(* is kept": no id leaves the queue that is not leased, failed or fetched.  *)
(***************************************************************************)
FirstIsKept == IdsOf(original) \subseteq IdsOf(queue) \union Elsewhere

(***************************************************************************)
(* When the script is done, after kills or a second run, the seen ids are   *)
(* those of the queue, the leases, the failed set and the graph, save the   *)
(* leased ids that raised; an id is queued once, and not if it is elsewhere *)
(* and did not raise.                                                       *)
(***************************************************************************)
SeenIsRebuilt ==
    at = "done" =>
        /\ seen \subseteq IdsOf(queue) \union Elsewhere
        /\ (IdsOf(queue) \ {NoId}) \union (Elsewhere \ skipped) \subseteq seen
        /\ \A m, n \in queue : m.id = n.id /\ m.id # NoId => m = n
        /\ IdsOf(queue) \intersect Elsewhere \subseteq skipped
=============================================================================
