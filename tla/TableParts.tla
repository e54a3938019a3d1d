----------------------------- MODULE TableParts ------------------------------
(***************************************************************************)
(* The node and edge tables, as two parts of one specification, of which    *)
(* the first state chooses the one that moves:                              *)
(*   graph     tasks of several processes that read and write them          *)
(*   snapshot  the snapshot scripts, beside crawlers                        *)
(***************************************************************************)
EXTENDS GraphStore

CONSTANTS Writers, MaxRow, MaxBatch

VARIABLES part, rows, edges, given, inserting, stage, cursor, batch, file, maxId, known

copyVars == <<rows, edges, given, inserting, stage, cursor, batch, file, maxId, known>>
allVars == <<part, vars, copyVars>>

Copy == INSTANCE Snapshot WITH MaxId <- MaxRow, sequence <- given

ASSUME TablesAssumption == GraphStoreAssumption /\ Copy!SnapshotAssumption

AllInit ==
    /\ part \in {"graph", "snapshot"}
    /\ Init /\ Copy!Init
    /\ part # "snapshot" => stage = "nodes"

AllNext ==
    /\ UNCHANGED part
    /\ \/ part = "graph" /\ Next /\ UNCHANGED copyVars
       \/ part = "snapshot" /\ Copy!Next /\ UNCHANGED vars

AllSpec == AllInit /\ [][AllNext]_allVars

\* The files have what was committed at first, and both ends of an edge but for rows
\* that were being inserted then.
SnapshotIsWhole == Copy!SnapshotIsWhole
=============================================================================
