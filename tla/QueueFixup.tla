----------------------------- MODULE QueueFixup -----------------------------
(***************************************************************************)
(* The fix-ups that rewrite the members of a Redis structure, with the      *)
(* crawler stopped: fixup_queue.py, prioritise_queue_by_depth_and_job_      *)
(* type.py, fixup_zero_score.py, fixup_crc_tiebreak.py, fixup_seen_hash.py. *)
(* A SCAN cursor reads the structure while it is written, in batches; a     *)
(* script may be killed, its pipeline cut off, and run again.               *)
(***************************************************************************)
EXTENDS Integers, Sequences

CONSTANTS
    Jobs,        \* what members carry; members of one job differ in their stamp
    Nameless,    \* jobs without an id
    BatchSize,   \* WRITE_BATCH
    Kinds,       \* the scripts
    MaxKills     \* bound on kills

FixupAssumption ==
    /\ Nameless \subseteq Jobs /\ BatchSize \in Nat \ {0} /\ MaxKills \in Nat
    /\ Kinds \subseteq {"queue", "priority", "zero", "crc", "hash"}

VARIABLES
    kind,      \* the script that runs
    members,   \* of the structure, in the old form and in the new
    original,  \* jobs and stamps when it ran first (history)
    at,        \* what the script is at
    left,      \* members the cursor has to return yet
    batch,     \* members read and not written
    executed,  \* commands of the pipeline for the first of them that are executed
    kills

script == <<at, left, batch, executed>>
vars == <<kind, members, original, script, kills>>

Members == [job : Jobs, stamp : {1, 2}, form : {"old", "new"}]

\* What rewriting keeps of a member: its job and its time.
Key(m) == [job |-> m.job, stamp |-> m.stamp]
New(m) == [m EXCEPT !.form = "new"]

Init ==
    /\ kind \in Kinds
    /\ members \in SUBSET Members
    /\ \A m, n \in members : Key(m) = Key(n) => m = n
    /\ original = {Key(m) : m \in members}
    /\ at = "off" /\ left = {} /\ batch = <<>> /\ executed = 0 /\ kills = 0

\* A member in the new form is known by it and passed over, save where a score is set.
IsOld(m) == m.form = "old"

\* A script may also be run again after it came to its end.
Begin ==
    /\ at \in {"off", "done"}
    /\ at' = "scan" /\ left' = members
    /\ UNCHANGED <<kind, members, original, batch, executed, kills>>

\* The cursor returns each member that is there from beginning to end, and may
\* return one more than once, and one that was added meanwhile.
Read ==
    /\ at = "scan" /\ Len(batch) < BatchSize
    /\ \E m \in left \union members :
          /\ left' = left \ {m}
          /\ batch' = IF kind = "zero" \/ IsOld(m) THEN Append(batch, m) ELSE batch
    /\ UNCHANGED <<kind, members, original, at, executed, kills>>

\* The scripts whose pipeline is a transaction.
Atomic == {"queue", "priority"}

Added(m) == [op |-> "add", member |-> New(m)]
Removed(m) == [op |-> "remove", member |-> m]

\* Mutant: the old member is removed first.
RemovedFirst(m) ==
    CASE kind = "zero" -> <<[op |-> "score", member |-> m]>>
      [] kind = "crc" /\ m.job \in Nameless -> <<>>
      [] OTHER -> <<Removed(m), Added(m)>>

\* What write_batch sends for a member.
Rewriting(m) ==
    CASE kind = "zero" -> <<[op |-> "score", member |-> m]>>
      [] kind = "crc" /\ m.job \in Nameless -> <<>>
      [] OTHER -> <<Added(m), Removed(m)>>

Send ==
    /\ at = "scan"
    /\ Len(batch) = BatchSize \/ (left = {} /\ batch # <<>>)
    /\ at' = "pipe" /\ executed' = 0
    /\ UNCHANGED <<kind, members, original, left, batch, kills>>

Done(S, c) ==
    CASE c.op = "add" -> S \union {c.member}
      [] c.op = "remove" -> S \ {c.member}
      [] c.op = "score" -> (S \ {c.member}) \union {New(c.member)}

\* The next command of the first member, or on to the next member.
Execute ==
    /\ at = "pipe" /\ kind \notin Atomic /\ batch # <<>>
    /\ IF executed < Len(Rewriting(Head(batch)))
       THEN /\ members' = Done(members, Rewriting(Head(batch))[executed + 1])
            /\ executed' = executed + 1 /\ batch' = batch
       ELSE members' = members /\ executed' = 0 /\ batch' = Tail(batch)
    /\ UNCHANGED <<kind, original, at, left, kills>>

\* A transaction puts the new members in the place of the old.
ExecuteAll ==
    /\ at = "pipe" /\ kind \in Atomic /\ batch # <<>>
    /\ LET B == {batch[i] : i \in DOMAIN batch}
       IN  members' = (members \ B) \union {New(m) : m \in B}
    /\ batch' = <<>>
    /\ UNCHANGED <<kind, original, at, left, executed, kills>>

Sent ==
    /\ at = "pipe" /\ batch = <<>>
    /\ at' = "scan"
    /\ UNCHANGED <<kind, members, original, left, batch, executed, kills>>

\* Mutant: the batch that is not full is not written.
EndUnwritten ==
    /\ at = "scan" /\ left = {}
    /\ at' = "done" /\ batch' = <<>>
    /\ UNCHANGED <<kind, members, original, left, executed, kills>>

End ==
    /\ at = "scan" /\ left = {} /\ batch = <<>>
    /\ at' = "done"
    /\ UNCHANGED <<kind, members, original, left, batch, executed, kills>>

Kill ==
    /\ at \in {"scan", "pipe"} /\ kills < MaxKills
    /\ at' = "off" /\ left' = {} /\ batch' = <<>> /\ executed' = 0
    /\ kills' = kills + 1
    /\ UNCHANGED <<kind, members, original>>

Next == Begin \/ Read \/ Send \/ Execute \/ ExecuteAll \/ Sent \/ End \/ Kill

Spec == Init /\ [][Next]_vars

-----------------------------------------------------------------------------
\* No job leaves the structure: fixup_crc_tiebreak and fixup_seen_hash add
\* before they remove.
NothingIsLost == original \subseteq {Key(m) : m \in members}

(***************************************************************************)
(* "Idempotent ... so it is safe to run again if interrupted": when a       *)
(* script comes to its end, after however many kills and however often the  *)
(* cursor returned a member, each job is there once, in the new form; one   *)
(* without an id is left as it is by fixup_crc_tiebreak.                    *)
(***************************************************************************)
AllRewritten ==
    at = "done" =>
        \A m \in members :
            /\ m.form = "new" \/ (kind = "crc" /\ m.job \in Nameless)
            /\ \A n \in members : Key(m) = Key(n) => m = n

\* The scripts that write in a transaction or in place never leave a job
\* twice in the queue, for the crawler to do twice.
OnceInQueue ==
    kind \in {"queue", "priority", "zero"} =>
        \A m, n \in members : Key(m) = Key(n) => m = n

(***************************************************************************)
(* Wherever a script is killed, every job is in the structure, and once if  *)
(* its batch is a transaction or its score is changed in place.             *)
(***************************************************************************)
JobsAreThere == NothingIsLost /\ OnceInQueue
=============================================================================
