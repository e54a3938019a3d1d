----------------------------- MODULE GraphStore -----------------------------
(***************************************************************************)
(* pub_crawler/database_graph.py: several processes read and write the node *)
(* and edge tables.  A method that names nodes by label in one statement is *)
(* one action.  The others first turn each label into an id, from the       *)
(* process's cache or with a SELECT of its own, and then issue a statement  *)
(* about ids; between two of these awaits any other task may run, and the   *)
(* process may learn the reply after the row has gone.                      *)
(***************************************************************************)
EXTENDS Integers, Sequences, FiniteSets

CONSTANTS
    Labels, Values, NoValue,
    Procs, Tasks,
    Home,      \* task -> process
    Links,     \* pairs of labels that edges are asked for
    MaxId      \* bound on the ids given out

GraphStoreAssumption ==
    /\ IsFiniteSet(Labels)
    /\ Home \in [Tasks -> Procs]
    /\ Links \subseteq Labels \X Labels
    /\ MaxId \in Nat /\ NoValue \notin Values

VARIABLES
    id,        \* node table: label -> id, 0 for no row
    edge,      \* edge table: pairs of ids
    prop,      \* node_property: id -> value
    flag,      \* edge_property: pairs of ids
    sequence,  \* last id given out
    gone,      \* ids whose rows were deleted (history)
    cache,     \* process -> label -> id, 0 for none
    task       \* task -> the labels of its method, and the ids found so far

tables == <<id, edge, prop, flag, sequence, gone>>
vars == <<tables, cache, task>>

Ids == 1 .. MaxId
Idle == [labels |-> <<>>, ids |-> <<>>, at |-> "idle"]

TypeOK ==
    /\ id \in [Labels -> 0 .. MaxId]
    /\ edge \subseteq Ids \X Ids /\ flag \subseteq edge
    /\ prop \in [Ids -> Values \union {NoValue}]
    /\ sequence \in 0 .. MaxId /\ gone \subseteq Ids
    /\ cache \in [Procs -> [Labels -> 0 .. MaxId]]
    /\ \A t \in Tasks : /\ Len(task[t].ids) <= Len(task[t].labels)
                        /\ task[t].at \in {"idle", "lookup", "reply", "run"}

Init ==
    /\ id = [l \in Labels |-> 0]
    /\ edge = {} /\ flag = {}
    /\ prop = [i \in Ids |-> NoValue]
    /\ sequence = 0 /\ gone = {}
    /\ cache = [p \in Procs |-> [l \in Labels |-> 0]]
    /\ task = [t \in Tasks |-> Idle]

Nodes == {l \in Labels : id[l] # 0}
Rows == {id[l] : l \in Nodes}

-----------------------------------------------------------------------------
(* Statements that name nodes by label. *)

\* Mutant: numbers that are free, for the next of the sequence.
FreeIds(n) == CHOOSE S \in SUBSET (Ids \ Rows) : Cardinality(S) = n

NewIds(n) == sequence + 1 .. sequence + n

\* ensure_node and ensure_nodes: a label in the process's cache is taken to be
\* there; of the others, rows are made for those that have none.
EnsureNodes(p, S) ==
    LET new == {l \in S : cache[p][l] = 0 /\ id[l] = 0}
        n == Cardinality(new)
    IN  /\ new # {} /\ sequence + n <= MaxId
        /\ \E f \in [new -> NewIds(n)] :
              /\ \A l, m \in new : f[l] = f[m] => l = m
              /\ id' = [l \in Labels |-> IF l \in new THEN f[l] ELSE id[l]]
        /\ sequence' = sequence + n
        /\ UNCHANGED <<edge, prop, flag, gone, cache, task>>

Pairs(F, T) == {id[l] : l \in F \cap Nodes} \X {id[l] : l \in T \cap Nodes}

\* ensure_from_edges and ensure_to_edges
EnsureEdges(F, T) ==
    /\ edge' = edge \union Pairs(F, T)
    /\ UNCHANGED <<id, prop, flag, sequence, gone, cache, task>>

\* set_nodes_property and set_node_properties
SetNodes(S, v) ==
    /\ prop' = [i \in Ids |-> IF i \in {id[l] : l \in S} THEN v ELSE prop[i]]
    /\ UNCHANGED <<id, edge, flag, sequence, gone, cache, task>>

\* set_edge_properties, set_from_edges_property and set_to_edges_property.
\* A pair of nodes without an edge fails the statement (a foreign key).
SetEdges(F, T) ==
    /\ Pairs(F, T) \subseteq edge
    /\ flag' = flag \union Pairs(F, T)
    /\ UNCHANGED <<id, edge, prop, sequence, gone, cache, task>>

-----------------------------------------------------------------------------
(* Methods that look their labels up first. *)

Begin(t, ls) ==
    /\ task[t].at = "idle"
    /\ task' = [task EXCEPT ![t] = [labels |-> ls, ids |-> <<>>, at |-> "lookup"]]
    /\ UNCHANGED <<tables, cache>>

Wanted(t) == task[t].labels[Len(task[t].ids) + 1]

MovesOn(t, ids, at) ==
    task' = [task EXCEPT ![t] = [labels |-> task[t].labels, ids |-> ids, at |-> at]]

\* With an id for its last label the method issues its statement.
Ready(t, n) == IF n = Len(task[t].labels) THEN "run" ELSE "lookup"

Known(t, i) == MovesOn(t, Append(task[t].ids, i), Ready(t, Len(task[t].ids) + 1))

\* The label is in the cache: no await.
LookupHit(t) ==
    /\ task[t].at = "lookup" /\ cache[Home[t]][Wanted(t)] # 0
    /\ Known(t, cache[Home[t]][Wanted(t)])
    /\ UNCHANGED <<tables, cache>>

\* The database answers the SELECT ...
LookupSelect(t) ==
    /\ task[t].at = "lookup" /\ cache[Home[t]][Wanted(t)] = 0
    /\ MovesOn(t, Append(task[t].ids, id[Wanted(t)]), "reply")
    /\ UNCHANGED <<tables, cache>>

\* Mutant: the second of two ids is cached under the first label.
ReplyUnderFirst(t) ==
    /\ task[t].at = "reply"
    /\ LET n == Len(task[t].ids)
           i == task[t].ids[n]
       IN  /\ cache' = IF i = 0 THEN cache ELSE [cache EXCEPT ![Home[t]][task[t].labels[1]] = i]
           /\ MovesOn(t, task[t].ids, Ready(t, n))
    /\ UNCHANGED tables

\* ... and later the task runs again and puts the answer into the cache.
LookupReply(t) ==
    /\ task[t].at = "reply"
    /\ LET n == Len(task[t].ids)
           l == task[t].labels[n]
           i == task[t].ids[n]
       IN  /\ cache' = IF i = 0 THEN cache ELSE [cache EXCEPT ![Home[t]][l] = i]
           /\ MovesOn(t, task[t].ids, Ready(t, n))
    /\ UNCHANGED tables

\* What the method does with its ids, one for a node and two for an edge.
Run(t, n) == /\ task[t].at = "run" /\ Len(task[t].ids) = n
             /\ task' = [task EXCEPT ![t] = Idle]

\* has_node, has_edge, get_node_property: nothing is written.
RunRead(t) ==
    /\ Run(t, 1) \/ Run(t, 2)
    /\ UNCHANGED <<tables, cache>>

Pair(t) == <<task[t].ids[1], task[t].ids[2]>>

\* An id that has no row (any more) fails the INSERT.
RunEnsureEdge(t) ==
    /\ Run(t, 2)
    /\ edge' = IF {Pair(t)[1], Pair(t)[2]} \subseteq Rows THEN edge \union {Pair(t)} ELSE edge
    /\ UNCHANGED <<id, prop, flag, sequence, gone, cache>>

RunDeleteEdge(t) ==
    /\ Run(t, 2)
    /\ edge' = edge \ {Pair(t)}
    /\ flag' = flag \ {Pair(t)}
    /\ UNCHANGED <<id, prop, sequence, gone, cache>>

RunSetNode(t) ==
    /\ Run(t, 1)
    /\ \E v \in Values : prop' = [i \in Ids |-> IF i = task[t].ids[1] /\ i \in Rows
                                                THEN v ELSE prop[i]]
    /\ UNCHANGED <<id, edge, flag, sequence, gone, cache>>

RunSetEdge(t) ==
    /\ Run(t, 2)
    /\ flag' = flag \union ({Pair(t)} \intersect edge)
    /\ UNCHANGED <<id, edge, prop, sequence, gone, cache>>

\* Mutant: no ON DELETE CASCADE from node to edge.
DeleteKeepsEdges(t) ==
    /\ Run(t, 1)
    /\ LET i == task[t].ids[1] IN
          /\ id' = [l \in Labels |-> IF id[l] = i THEN 0 ELSE id[l]]
          /\ prop' = [k \in Ids |-> IF k = i THEN NoValue ELSE prop[k]]
          /\ gone' = gone \union ({i} \intersect Rows)
    /\ cache' = [cache EXCEPT ![Home[t]][task[t].labels[1]] = 0]
    /\ UNCHANGED <<edge, flag, sequence>>

\* The rows that refer to the node go with it; only this process's cache is told.
RunDeleteNode(t) ==
    /\ Run(t, 1)
    /\ LET i == task[t].ids[1] IN
          /\ id' = [l \in Labels |-> IF id[l] = i THEN 0 ELSE id[l]]
          /\ edge' = {e \in edge : i \notin {e[1], e[2]}}
          /\ prop' = [k \in Ids |-> IF k = i THEN NoValue ELSE prop[k]]
          /\ gone' = gone \union ({i} \intersect Rows)
    /\ flag' = flag \intersect edge'
    /\ cache' = [cache EXCEPT ![Home[t]][task[t].labels[1]] = 0]
    /\ UNCHANGED sequence

\* The LRU cache drops an entry to make room.
Evict(p, l) ==
    /\ cache[p][l] # 0
    /\ cache' = [cache EXCEPT ![p][l] = 0]
    /\ UNCHANGED <<tables, task>>

Next ==
    \/ \E p \in Procs : \/ \E S \in SUBSET Labels : EnsureNodes(p, S)
                        \/ \E l \in Labels : Evict(p, l)
    \/ \E F, T \in SUBSET Labels : F \X T \subseteq Links /\ (EnsureEdges(F, T) \/ SetEdges(F, T))
    \/ \E S \in SUBSET Labels, v \in Values : SetNodes(S, v)
    \/ \E t \in Tasks :
          \/ \E ls \in {<<l>> : l \in Labels} \union Links : Begin(t, ls)
          \/ LookupHit(t) \/ LookupSelect(t) \/ LookupReply(t)
          \/ RunRead(t) \/ RunEnsureEdge(t) \/ RunDeleteEdge(t)
          \/ RunSetNode(t) \/ RunSetEdge(t) \/ RunDeleteNode(t)

Spec == Init /\ [][Next]_vars

-----------------------------------------------------------------------------
LabelOf(i) == IF i \in Rows THEN CHOOSE l \in Labels : id[l] = i ELSE NoValue
ByLabel(E) == {<<LabelOf(e[1]), LabelOf(e[2])>> : e \in E}

Abstract == INSTANCE LabelGraph WITH
    nodes <- Nodes,
    edges <- ByLabel(edge),
    flags <- ByLabel(flag),
    value <- [l \in Labels |-> IF id[l] = 0 THEN NoValue ELSE prop[id[l]]]

(***************************************************************************)
(* The tables, whatever the caches hold and however lookups, deletions and  *)
(* writes of several processes interleave, are a graph over labels: an edge *)
(* joins nodes, and properties go with what they belong to.                 *)
(***************************************************************************)
IsLabelGraph == Abstract!LabelSpec

(***************************************************************************)
(* A statement about ids touches the nodes it was asked for and no others,  *)
(* though the id may be of a node deleted since, by a process whose         *)
(* deletions the cache is not told of: ids are never given out again.       *)
(***************************************************************************)
OnlyNamedNodes ==
    [][\A t \in Tasks : task[t].at = "run" /\ task'[t].at = "idle" =>
          \A l \in Labels \ {task[t].labels[k] : k \in 1 .. Len(task[t].labels)} :
              /\ id'[l] = id[l]
              /\ id[l] # 0 =>
                    /\ prop'[id[l]] = prop[id[l]]
                    /\ \A e \in (edge' \ edge) \union (flag' \ flag) : id[l] \notin {e[1], e[2]}]_vars

(***************************************************************************)
(* An id in a cache is the id of the label's row, in every process and      *)
(* whatever has been evicted, or it was the row's before somebody deleted   *)
(* it.  In a crawl nobody does: ensure_node may skip the database.          *)
(***************************************************************************)
CachedIsTheRow == \A p \in Procs, l \in Labels : cache[p][l] \in {0, id[l]} \union gone
=============================================================================
