------------------------------ MODULE Snapshot ------------------------------
(***************************************************************************)
(* bin/snapshot.py and bin/host_snapshot.py: a script copies tables to      *)
(* files, a row at a time and in batches, while crawlers go on writing.     *)
(* A cursor shows the rows that were committed when it was opened.  An id   *)
(* is given out when a row is inserted and is visible once that is          *)
(* committed.  The workers of a crawler share a pool of connections, so     *)
(* several transactions are open at once, beside one crawler already, and   *)
(* their ids become visible out of order.                                   *)
(***************************************************************************)
EXTENDS Integers, FiniteSets, FiniteSetsExt

CONSTANTS
    Writers,     \* transactions that insert nodes (or hosts)
    MaxId,       \* bound on ids
    MaxBatch     \* rows to a batch: MAX_NODE_BATCH, MAX_EDGE_BATCH, MAX_HOST_BATCH

SnapshotAssumption == MaxId \in Nat \ {0} /\ MaxBatch \in Nat \ {0}

VARIABLES
    rows,       \* ids of committed rows
    edges,      \* pairs of ids
    sequence,   \* last id given out
    inserting,  \* writer -> ids of its rows that are not committed
    stage,      \* what the script is at
    cursor,     \* rows its cursor has not come to
    batch,      \* rows read and not written
    file,       \* stage -> rows written to that file
    maxId,      \* greatest id it has read
    known       \* what was committed, or open, when it began (history)

database == <<rows, edges, sequence, inserting>>
script == <<stage, cursor, batch, file, maxId>>
vars == <<database, script, known>>

Ids == 1 .. MaxId

Init ==
    /\ rows = {} /\ edges = {} /\ sequence = 0
    /\ inserting = [w \in Writers |-> {}]
    /\ stage \in {"hosts", "nodes"}
    /\ cursor = {} /\ batch = {} /\ maxId = -1
    /\ file = [s \in {"hosts", "nodes", "edges"} |-> {}]
    /\ known = [opened |-> {}, rows |-> {}, edges |-> {}, open |-> {}]

-----------------------------------------------------------------------------
(* The crawlers. *)

Insert(w) ==
    /\ sequence < MaxId
    /\ sequence' = sequence + 1
    /\ inserting' = [inserting EXCEPT ![w] = @ \union {sequence + 1}]
    /\ UNCHANGED <<rows, edges, script, known>>

\* The transaction commits, or it fails and its ids are never seen.
Commit(w) ==
    /\ inserting[w] # {}
    /\ rows' \in {rows, rows \union inserting[w]}
    /\ inserting' = [inserting EXCEPT ![w] = {}]
    /\ UNCHANGED <<edges, sequence, script, known>>

AddEdge ==
    /\ \E a, b \in rows : a # b /\ edges' = edges \union {<<a, b>>}
    /\ UNCHANGED <<rows, sequence, inserting, script, known>>

-----------------------------------------------------------------------------
(* The script: snapshot_hosts, or snapshot_nodes and then snapshot_edges. *)

Table(s) == IF s = "edges" THEN edges ELSE rows

Open ==
    /\ stage \in {"hosts", "nodes", "edges"} \ known.opened
    /\ cursor' = Table(stage)
    /\ known' = IF stage = "edges" THEN [known EXCEPT !.opened = @ \union {stage}]
                ELSE [opened |-> known.opened \union {stage}, rows |-> rows, edges |-> edges,
                      open |-> UNION {inserting[w] : w \in Writers}]
    /\ UNCHANGED <<database, stage, batch, file, maxId>>

\* Mutant: edges are not held against the nodes that were read.
KeepsAll(r) == TRUE

\* An edge to a node whose id is above all that were read is left out.
Keeps(r) == r[1] <= maxId /\ r[2] <= maxId

\* A batch is written when it is full, and cleared.
Collect(read) ==
    LET full == Cardinality(read) >= MaxBatch
    IN  /\ file' = IF full THEN [file EXCEPT ![stage] = @ \union read] ELSE file
        /\ batch' = IF full THEN {} ELSE read
        /\ UNCHANGED <<database, stage, known>>

ReadHost ==
    /\ stage = "hosts"
    /\ \E r \in cursor : cursor' = cursor \ {r} /\ Collect(batch \union {r})
    /\ UNCHANGED maxId

ReadNode ==
    /\ stage = "nodes"
    /\ \E r \in cursor : /\ cursor' = cursor \ {r} /\ Collect(batch \union {r})
                         /\ maxId' = Max({r, maxId})

ReadEdge ==
    /\ stage = "edges"
    /\ \E r \in cursor : /\ cursor' = cursor \ {r}
                         /\ Collect(IF Keeps(r) THEN batch \union {r} ELSE batch)
    /\ UNCHANGED maxId

NextStage == IF stage = "nodes" THEN "edges" ELSE "done"

WriteRest ==
    /\ stage \in known.opened /\ cursor = {}
    /\ file' = [file EXCEPT ![stage] = @ \union batch]
    /\ batch' = {}
    /\ stage' = NextStage
    /\ UNCHANGED <<database, cursor, maxId, known>>

Next ==
    \/ \E w \in Writers : Insert(w) \/ Commit(w)
    \/ AddEdge \/ Open \/ ReadHost \/ ReadNode \/ ReadEdge \/ WriteRest

Spec == Init /\ [][Next]_vars

-----------------------------------------------------------------------------
\* An end of an edge in the snapshot has a node row in it, unless its row was being
\* inserted when the nodes' cursor was opened.
BothEndsAreThere ==
    \A e \in file["edges"] : {e[1], e[2]} \subseteq file["nodes"] \union known.open

\* What was committed when the script opened its cursors is in its files.
NothingIsMissing ==
    stage = "done" =>
        /\ known.rows \subseteq file["nodes"] \union file["hosts"]
        /\ "edges" \in known.opened => known.edges \subseteq file["edges"]

(***************************************************************************)
(* tests/test_snapshot.py says of edges that "snapshot must drop them,      *)
(* keeping only edges whose both endpoints got a node row", since "a later  *)
(* node always gets a higher id".  That is so of a node that is inserted    *)
(* later; one that is being inserted as the nodes are read may have a lower *)
(* id than a node that is read, and its edges are kept without it.  No      *)
(* other edge dangles, and nothing that was there is dropped, however the   *)
(* batches fall and whatever is written meanwhile.                          *)
(***************************************************************************)
SnapshotIsWhole == BothEndsAreThere /\ NothingIsMissing
=============================================================================
