----------------------------- MODULE LabelGraph -----------------------------
(***************************************************************************)
(* The graph that database_graph.py promises: nodes and directed edges are  *)
(* named by labels, an edge joins two nodes, and a property belongs to a    *)
(* node or an edge for as long as it is there.  No ids, no caches.          *)
(***************************************************************************)
CONSTANTS Labels, Values, NoValue

VARIABLES
    nodes,   \* labels
    edges,   \* pairs of labels
    value,   \* label -> value of its property, NoValue for none
    flags    \* edges that carry a property

labelVars == <<nodes, edges, value, flags>>

LabelInit ==
    /\ nodes = {} /\ edges = {} /\ flags = {}
    /\ value = [l \in Labels |-> NoValue]

AddNodes == /\ nodes' \in SUBSET Labels /\ nodes \subseteq nodes'
            /\ UNCHANGED <<edges, value, flags>>

AddEdges == /\ edges' \in SUBSET (nodes \X nodes) /\ edges \subseteq edges'
            /\ UNCHANGED <<nodes, value, flags>>

DropNode == \E l \in nodes :
    /\ nodes' = nodes \ {l}
    /\ edges' = {e \in edges : l \notin {e[1], e[2]}}
    /\ value' = [value EXCEPT ![l] = NoValue]
    /\ flags' = flags \intersect edges'

DropEdge == \E e \in edges :
    /\ edges' = edges \ {e}
    /\ flags' = flags \ {e}
    /\ UNCHANGED <<nodes, value>>

SetValue == \E S \in SUBSET nodes, v \in Values :
    /\ value' = [l \in Labels |-> IF l \in S THEN v ELSE value[l]]
    /\ UNCHANGED <<nodes, edges, flags>>

SetFlags == /\ flags' \in SUBSET edges /\ flags \subseteq flags'
            /\ UNCHANGED <<nodes, edges, value>>

LabelNext == AddNodes \/ AddEdges \/ DropNode \/ DropEdge \/ SetValue \/ SetFlags

LabelSpec == LabelInit /\ [][LabelNext]_labelVars
=============================================================================
