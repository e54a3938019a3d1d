-------------------------- MODULE Table_proofs --------------------------
(***************************************************************************)
(* Theorems of TableParts.  Of GraphStore, for any labels, processes, tasks *)
(* and links: the tables implement LabelGraph, statements about ids keep to *)
(* the nodes they were asked for, and a cache tells the truth.  Of the      *)
(* snapshot, for any crawlers: nothing that was there is missing from it.   *)
(***************************************************************************)
EXTENDS TableParts, FiniteSetTheorems, SequenceTheorems, TLAPS

\* A task has the ids of its first labels, and runs when it has them all.
TaskOK(r) ==
    /\ r \in [labels : Seq(Labels), ids : Seq(0 .. MaxId),
              at : {"idle", "lookup", "reply", "run"}]
    /\ Len(r.ids) <= Len(r.labels)
    /\ r.at # "idle" => Len(r.labels) \in {1, 2}
    /\ r.at = "lookup" => Len(r.ids) < Len(r.labels)
    /\ r.at = "reply" => Len(r.ids) > 0
    /\ r.at = "run" => Len(r.ids) = Len(r.labels)

TasksOK ==
    /\ task = [t \in Tasks |-> task[t]]
    /\ \A t \in Tasks : TaskOK(task[t])

\* A row has its id alone; edges and properties are of rows that are there.
RowsOK ==
    /\ \A l, m \in Nodes : id[l] = id[m] => l = m
    /\ \A l \in Labels : id[l] <= sequence
    /\ edge \subseteq Rows \X Rows
    /\ \A i \in Ids \ Rows : prop[i] = NoValue

\* An id that was given out for a label, and is no other label's.
IdOf(i, l) == i <= sequence /\ \A m \in Nodes : id[m] = i => m = l

Knows(r) == \A k \in 1 .. Len(r.ids) : IdOf(r.ids[k], r.labels[k])

\* Whatever has been deleted, an id that a cache or a task knows for a label has
\* not been given to another.
KnownIds ==
    /\ \A p \in Procs, l \in Labels : IdOf(cache[p][l], l)
    /\ \A t \in Tasks : Knows(task[t])

GraphInv == TypeOK /\ TasksOK /\ RowsOK /\ KnownIds

-----------------------------------------------------------------------------
(* What the steps do, in terms of rows. *)

\* The rows that are there stay, and others get new ids, each its own, beyond the
\* last one.
NewRows ==
    /\ id' \in [Labels -> 0 .. MaxId]
    /\ sequence' \in sequence .. MaxId
    /\ \A l \in Labels : \/ id'[l] = id[l]
                         \/ id[l] = 0 /\ id'[l] \in sequence + 1 .. sequence'
    /\ \A l, m \in Labels :
          id[l] = 0 /\ id[m] = 0 /\ id'[l] = id'[m] /\ id'[l] # 0 => l = m
    /\ UNCHANGED <<edge, prop, flag, gone, cache, task>>

\* That is what ensure_nodes does, though it trusts the cache for some labels.
LEMMA Ensured ==
  ASSUME GraphStoreAssumption, TypeOK, NEW p \in Procs, NEW S \in SUBSET Labels,
         EnsureNodes(p, S)
  PROVE  NewRows
<1> DEFINE new == {l \in S : cache[p][l] = 0 /\ id[l] = 0}
           n == Cardinality(new)
<1>1. n \in Nat
  <2>1. new \subseteq Labels
    OBVIOUS
  <2>2. QED
    BY <2>1, FS_Subset, FS_CardinalityType DEF GraphStoreAssumption
<1>2. sequence \in Nat /\ MaxId \in Nat /\ id \in [Labels -> 0 .. MaxId]
  BY DEF TypeOK, GraphStoreAssumption
<1>3. PICK f \in [new -> NewIds(n)] :
             /\ \A l, m \in new : f[l] = f[m] => l = m
             /\ id' = [l \in Labels |-> IF l \in new THEN f[l] ELSE id[l]]
  BY DEF EnsureNodes
<1>4. /\ sequence' = sequence + n
      /\ sequence + n <= MaxId
      /\ UNCHANGED <<edge, prop, flag, gone, cache, task>>
  BY DEF EnsureNodes
<1> HIDE DEF n
<1>5. \A l \in new : f[l] \in sequence + 1 .. sequence + n
  BY <1>3 DEF NewIds
<1>6. QED
  BY <1>1, <1>2, <1>3, <1>4, <1>5 DEF NewRows

\* A method names one label, or the two ends of a link.
LEMMA LinkTypes ==
  ASSUME GraphStoreAssumption, NEW ls \in {<<l>> : l \in Labels} \union Links
  PROVE  ls \in Seq(Labels) /\ Len(ls) \in {1, 2}
<1>1. CASE ls \in Links
  <2>1. ls \in Labels \X Labels
    BY <1>1 DEF GraphStoreAssumption
  <2>2. PICK l \in Labels, m \in Labels : ls = <<l, m>>
    BY <2>1
  <2>3. QED
    BY <2>2
<1>2. CASE \E l \in Labels : ls = <<l>>
  BY <1>2
<1>3. QED
  BY <1>1, <1>2

\* The types of what a task knows.
LEMMA TaskTypes ==
  ASSUME NEW r, TaskOK(r)
  PROVE  /\ r.labels \in Seq(Labels) /\ r.ids \in Seq(0 .. MaxId)
         /\ Len(r.labels) \in Nat /\ Len(r.ids) \in Nat
         /\ \A k \in 1 .. Len(r.ids) : r.ids[k] \in 0 .. MaxId
         /\ \A k \in 1 .. Len(r.labels) : r.labels[k] \in Labels
<1>1. r.labels \in Seq(Labels) /\ r.ids \in Seq(0 .. MaxId)
  BY DEF TaskOK
<1>2. QED
  BY <1>1, LenProperties, ElementOfSeq

-----------------------------------------------------------------------------
(* The invariant. *)

\* New rows have ids that nobody knew.
LEMMA EnsureKeeps ==
  ASSUME GraphStoreAssumption, GraphInv, NewRows
  PROVE  GraphInv'
<1>0. /\ MaxId \in Nat /\ sequence \in 0 .. MaxId /\ id \in [Labels -> 0 .. MaxId]
      /\ TypeOK /\ TasksOK
  BY DEF GraphInv, TypeOK, GraphStoreAssumption
<1>1. TypeOK' /\ TasksOK'
  BY <1>0 DEF NewRows, TypeOK, TasksOK
<1>2. RowsOK'
  <2>1. Rows \subseteq Rows' /\ Nodes \subseteq Nodes'
    BY <1>0 DEF NewRows, Rows, Nodes
  <2>2. \A l, m \in Nodes' : id'[l] = id'[m] => l = m
    BY <1>0 DEF NewRows, Nodes, RowsOK, GraphInv
  <2>3. \A l \in Labels : id'[l] <= sequence'
    BY <1>0 DEF NewRows, RowsOK, GraphInv
  <2>4. QED
    BY <2>1, <2>2, <2>3 DEF NewRows, RowsOK, GraphInv
<1>3. KnownIds'
  <2>1. ASSUME NEW i \in 0 .. MaxId, NEW l \in Labels, IdOf(i, l)
        PROVE  IdOf(i, l)'
    BY <1>0, <2>1 DEF NewRows, IdOf, Nodes
  <2>2. \A p \in Procs, l \in Labels : cache[p][l] \in 0 .. MaxId
    BY <1>0 DEF TypeOK
  <2>3. cache' = cache /\ task' = task
    BY DEF NewRows
  <2>4. KnownIds
    BY DEF GraphInv
  <2>5. \A p \in Procs, l \in Labels : IdOf(cache[p][l], l)'
    BY <2>1, <2>2, <2>3, <2>4 DEF KnownIds
  <2>6. ASSUME NEW t \in Tasks PROVE Knows(task[t])'
    <3>1. TaskOK(task[t])
      BY <1>0 DEF TasksOK
    <3>2. \A k \in 1 .. Len(task[t].ids) :
            task[t].ids[k] \in 0 .. MaxId /\ task[t].labels[k] \in Labels
      BY <3>1, TaskTypes DEF TaskOK
    <3>3. QED
      BY <2>1, <2>3, <2>4, <3>2 DEF KnownIds, Knows
  <2>7. QED
    BY <2>3, <2>5, <2>6 DEF KnownIds
<1>4. QED
  BY <1>1, <1>2, <1>3 DEF GraphInv

\* A step that leaves the rows: it adds edges between them, gives properties to what
\* is there, and lets caches and tasks know the ids of their labels.
LEMMA RowsStay ==
  ASSUME GraphStoreAssumption, GraphInv, UNCHANGED <<id, sequence, gone>>,
         edge' \subseteq Rows \X Rows, flag' \subseteq edge',
         prop' \in [Ids -> Values \union {NoValue}],
         \A i \in Ids \ Rows : prop'[i] = prop[i],
         cache' \in [Procs -> [Labels -> 0 .. MaxId]],
         \A p \in Procs, l \in Labels : IdOf(cache'[p][l], l),
         task' = [t \in Tasks |-> task'[t]],
         \A t \in Tasks : task'[t] = task[t] \/ (TaskOK(task'[t]) /\ Knows(task'[t]))
  PROVE  GraphInv'
<1>1. Rows \subseteq Ids
  BY DEF GraphInv, Rows, Nodes, TypeOK, Ids, GraphStoreAssumption
<1>2. TasksOK'
  BY DEF TasksOK, TaskOK, GraphInv
<1>3. TypeOK'
  BY <1>1, <1>2 DEF TypeOK, TasksOK, TaskOK, GraphInv
<1>4. RowsOK'
  BY DEF GraphInv, RowsOK, Nodes, Rows
<1>5. KnownIds'
  BY DEF GraphInv, KnownIds, Knows, IdOf, Nodes
<1>6. QED
  BY <1>2, <1>3, <1>4, <1>5 DEF GraphInv

\* One task moves on, with ids that are its labels'.
LEMMA TaskKeeps ==
  ASSUME GraphStoreAssumption, GraphInv, UNCHANGED tables, NEW t \in Tasks,
         NEW r, TaskOK(r), Knows(r), task' = [task EXCEPT ![t] = r],
         cache' \in [Procs -> [Labels -> 0 .. MaxId]],
         \A p \in Procs, l \in Labels : IdOf(cache'[p][l], l)
  PROVE  GraphInv'
<1>1. /\ task' = [u \in Tasks |-> task'[u]]
      /\ \A u \in Tasks : u # t => task'[u] = task[u]
      /\ task'[t] = r
  BY DEF TasksOK, GraphInv
<1>2. /\ edge \subseteq Rows \X Rows /\ flag \subseteq edge
      /\ prop \in [Ids -> Values \union {NoValue}]
  BY DEF GraphInv, TypeOK, RowsOK
<1>3. UNCHANGED <<id, sequence, gone, edge, prop, flag>>
  BY DEF tables
<1>4. \A u \in Tasks : task'[u] = task[u] \/ (TaskOK(task'[u]) /\ Knows(task'[u]))
  <2>1. TaskOK(task'[t])
    BY <1>1
  <2>2. Knows(task'[t])
    BY <1>1 DEF Knows
  <2>3. QED
    BY <1>1, <2>1, <2>2
<1>5. QED
  BY <1>1, <1>2, <1>3, <1>4, RowsStay

\* What a task learns is the id of the label it asked for.
LEMMA LookupsKeep ==
  ASSUME GraphStoreAssumption, GraphInv, NEW t \in Tasks,
         \/ \E ls \in {<<l>> : l \in Labels} \union Links : Begin(t, ls)
         \/ LookupHit(t) \/ LookupSelect(t) \/ LookupReply(t)
  PROVE  GraphInv'
<1> DEFINE r == task[t]
           n == Len(r.ids)
<1>1. /\ TaskOK(r) /\ Knows(r) /\ task = [u \in Tasks |-> task[u]]
      /\ r.labels \in Seq(Labels) /\ r.ids \in Seq(0 .. MaxId)
      /\ n \in Nat /\ Len(r.labels) \in Nat
      /\ \A k \in 1 .. n : r.ids[k] \in 0 .. MaxId
      /\ \A k \in 1 .. Len(r.labels) : r.labels[k] \in Labels
      /\ Home[t] \in Procs
  BY TaskTypes DEF GraphInv, TasksOK, KnownIds, GraphStoreAssumption
<1>2. /\ cache \in [Procs -> [Labels -> 0 .. MaxId]]
      /\ id \in [Labels -> 0 .. MaxId]
      /\ \A p \in Procs, l \in Labels : IdOf(cache[p][l], l)
      /\ \A l \in Labels : IdOf(id[l], l)
  BY DEF GraphInv, TypeOK, KnownIds, RowsOK, IdOf, Nodes
<1>3. CASE \E ls \in {<<l>> : l \in Labels} \union Links : Begin(t, ls)
  <2>1. PICK ls \in {<<l>> : l \in Labels} \union Links : Begin(t, ls)
    BY <1>3
  <2>2. ls \in Seq(Labels) /\ Len(ls) \in {1, 2}
    BY LinkTypes
  <2> DEFINE s == [labels |-> ls, ids |-> <<>>, at |-> "lookup"]
  <2>3. TaskOK(s) /\ Knows(s)
    BY <2>2 DEF TaskOK, Knows
  <2>4. QED
    BY <1>2, <2>1, <2>3, TaskKeeps DEF Begin
\* The next label, and what is known of it.
<1>4. ASSUME r.at = "lookup", NEW i \in 0 .. MaxId, IdOf(i, Wanted(t)), NEW at,
             at \in {"reply"} \union {IF n + 1 = Len(r.labels) THEN "run" ELSE "lookup"},
             MovesOn(t, Append(r.ids, i), at),
             UNCHANGED <<tables, cache>>
      PROVE  GraphInv'
  <2> DEFINE s == [labels |-> r.labels, ids |-> Append(r.ids, i), at |-> at]
  <2>1. /\ s.ids \in Seq(0 .. MaxId) /\ Len(s.ids) = n + 1
        /\ \A k \in 1 .. n : s.ids[k] = r.ids[k]
        /\ s.ids[n + 1] = i
    BY <1>1, AppendProperties
  <2>2. n + 1 <= Len(r.labels) /\ Len(r.labels) \in {1, 2}
    BY <1>1, <1>4 DEF TaskOK
  <2>3. TaskOK(s)
    BY <1>1, <1>4, <2>1, <2>2 DEF TaskOK
  <2>4. Knows(s)
    BY <1>1, <1>4, <2>1 DEF Knows, Wanted
  <2>5. task' = [task EXCEPT ![t] = s]
    BY <1>4 DEF MovesOn
  <2>6. QED
    BY <1>2, <1>4, <2>3, <2>4, <2>5, TaskKeeps
<1>5. r.at = "lookup" => Wanted(t) \in Labels
  BY <1>1 DEF Wanted, TaskOK
<1>6. CASE LookupHit(t)
  <2>1. cache[Home[t]][Wanted(t)] \in 0 .. MaxId /\ IdOf(cache[Home[t]][Wanted(t)], Wanted(t))
    BY <1>1, <1>2, <1>5, <1>6 DEF LookupHit
  <2>2. QED
    BY <1>4, <1>6, <2>1 DEF LookupHit, Known, Ready
<1>7. CASE LookupSelect(t)
  <2>1. id[Wanted(t)] \in 0 .. MaxId /\ IdOf(id[Wanted(t)], Wanted(t))
    BY <1>2, <1>5, <1>7 DEF LookupSelect
  <2>2. QED
    BY <1>4, <1>7, <2>1 DEF LookupSelect
<1>8. CASE LookupReply(t)
  <2> DEFINE at == IF n = Len(r.labels) THEN "run" ELSE "lookup"
             s == [labels |-> r.labels, ids |-> r.ids, at |-> at]
  <2>1. /\ r.at = "reply"
        /\ n \in 1 .. Len(r.labels)
        /\ UNCHANGED tables
    BY <1>1, <1>8 DEF LookupReply, TaskOK
  <2>7. task' = [task EXCEPT ![t] = s]
    BY <1>8 DEF LookupReply, MovesOn, Ready
  <2>2. TaskOK(s) /\ Knows(s)
    BY <1>1, <2>1 DEF TaskOK, Knows
  <2>3. r.ids[n] \in 0 .. MaxId /\ r.labels[n] \in Labels /\ IdOf(r.ids[n], r.labels[n])
    BY <1>1, <2>1 DEF Knows
  <2>4. cache' = cache \/ cache' = [cache EXCEPT ![Home[t]][r.labels[n]] = r.ids[n]]
    BY <1>8 DEF LookupReply
  <2>5. /\ cache' \in [Procs -> [Labels -> 0 .. MaxId]]
        /\ \A p \in Procs, l \in Labels : IdOf(cache'[p][l], l)
    <3>1. CASE cache' = cache
      BY <1>2, <3>1
    <3>2. CASE cache' = [cache EXCEPT ![Home[t]][r.labels[n]] = r.ids[n]]
      <4> DEFINE l == r.labels[n]
                 i == r.ids[n]
      <4> HIDE DEF l, i
      <4>1. i \in 0 .. MaxId /\ l \in Labels /\ IdOf(i, l) /\ Home[t] \in Procs
        BY <1>1, <2>3 DEF l, i
      <4>2. cache' = [cache EXCEPT ![Home[t]][l] = i]
        BY <3>2 DEF l, i
      <4>3. QED
        BY <1>2, <4>1, <4>2
    <3>3. QED
      BY <2>4, <3>1, <3>2
  <2>6. QED
    BY <2>1, <2>2, <2>5, <2>7, TaskKeeps
<1>9. QED
  BY <1>3, <1>6, <1>7, <1>8

\* A task that has run is idle, and the others are as they were.
LEMMA RunEnds ==
  ASSUME GraphStoreAssumption, GraphInv, NEW t \in Tasks, NEW n \in {1, 2}, Run(t, n)
  PROVE  /\ task' = [u \in Tasks |-> task'[u]]
         /\ \A u \in Tasks : task'[u] = task[u] \/ (TaskOK(task'[u]) /\ Knows(task'[u]))
         /\ TaskOK(task[t]) /\ Knows(task[t]) /\ task[t].at = "run"
         /\ Len(task[t].labels) = n /\ Len(task[t].ids) = n
         /\ \A k \in 1 .. n : task[t].ids[k] \in 0 .. MaxId /\ task[t].labels[k] \in Labels
         /\ task' = [task EXCEPT ![t] = Idle]
<1>1. TaskOK(Idle)
  BY DEF TaskOK, Idle
<1>2. /\ task' = [u \in Tasks |-> task'[u]]
      /\ \A u \in Tasks : u # t => task'[u] = task[u]
      /\ task'[t] = Idle
  BY DEF GraphInv, TasksOK, Run
<1>3. TaskOK(task'[t])
  BY <1>1, <1>2
<1>4. Knows(task'[t])
  BY <1>2 DEF Knows, Idle
<1>5. TaskOK(task[t]) /\ Knows(task[t])
  BY DEF GraphInv, TasksOK, KnownIds
<1>6. task[t].at = "run" /\ Len(task[t].ids) = n /\ Len(task[t].labels) = n
  BY <1>5 DEF Run, TaskOK
<1>7. \A k \in 1 .. n : task[t].ids[k] \in 0 .. MaxId /\ task[t].labels[k] \in Labels
  BY <1>5, <1>6, TaskTypes
<1>8. QED
  BY <1>2, <1>3, <1>4, <1>5, <1>6, <1>7 DEF Run

\* Statements that leave the rows as they are.
LEMMA StatementsKeep ==
  ASSUME GraphStoreAssumption, GraphInv,
         \/ \E F, T \in SUBSET Labels : EnsureEdges(F, T) \/ SetEdges(F, T)
         \/ \E S \in SUBSET Labels, v \in Values : SetNodes(S, v)
  PROVE  GraphInv'
<1>1. /\ edge \subseteq Rows \X Rows /\ flag \subseteq edge
      /\ prop \in [Ids -> Values \union {NoValue}]
      /\ cache \in [Procs -> [Labels -> 0 .. MaxId]]
      /\ \A p \in Procs, l \in Labels : IdOf(cache[p][l], l)
      /\ task = [t \in Tasks |-> task[t]]
      /\ \A S \in SUBSET Labels : {id[l] : l \in S \cap Nodes} \subseteq Rows
  BY DEF GraphInv, TypeOK, RowsOK, TasksOK, KnownIds, Rows
<1>2. ASSUME NEW F \in SUBSET Labels, NEW T \in SUBSET Labels, EnsureEdges(F, T)
      PROVE  GraphInv'
  <2>1. Pairs(F, T) \subseteq Rows \X Rows
    BY <1>1 DEF Pairs
  <2>2. QED
    BY <1>1, <1>2, <2>1, RowsStay DEF EnsureEdges
<1>3. ASSUME NEW F \in SUBSET Labels, NEW T \in SUBSET Labels, SetEdges(F, T)
      PROVE  GraphInv'
  BY <1>1, <1>3, RowsStay DEF SetEdges
<1>4. ASSUME NEW S \in SUBSET Labels, NEW v \in Values, SetNodes(S, v)
      PROVE  GraphInv'
  <2>1. prop' \in [Ids -> Values \union {NoValue}]
    BY <1>1, <1>4 DEF SetNodes
  <2>2. \A i \in Ids \ Rows : prop'[i] = prop[i]
    BY <1>4 DEF SetNodes, Rows, Nodes, Ids
  <2>3. QED
    BY <1>1, <1>4, <2>1, <2>2, RowsStay DEF SetNodes
<1>5. QED
  BY <1>2, <1>3, <1>4

\* A task's statement about its ids, other than a deletion of the node.
LEMMA RunsKeep ==
  ASSUME GraphStoreAssumption, GraphInv, NEW t \in Tasks,
         \/ RunRead(t) \/ RunEnsureEdge(t) \/ RunDeleteEdge(t)
         \/ RunSetNode(t) \/ RunSetEdge(t)
  PROVE  GraphInv'
<1>1. /\ edge \subseteq Rows \X Rows /\ flag \subseteq edge
      /\ prop \in [Ids -> Values \union {NoValue}]
      /\ cache \in [Procs -> [Labels -> 0 .. MaxId]]
      /\ \A p \in Procs, l \in Labels : IdOf(cache[p][l], l)
  BY DEF GraphInv, TypeOK, RowsOK, KnownIds
<1>2. /\ task' = [u \in Tasks |-> task'[u]]
      /\ \A u \in Tasks : task'[u] = task[u] \/ (TaskOK(task'[u]) /\ Knows(task'[u]))
  BY RunEnds DEF RunRead, RunEnsureEdge, RunDeleteEdge, RunSetNode, RunSetEdge
<1>3. /\ UNCHANGED <<id, sequence, gone, cache>>
      /\ edge' \subseteq Rows \X Rows /\ flag' \subseteq edge'
      /\ prop' \in [Ids -> Values \union {NoValue}]
      /\ \A i \in Ids \ Rows : prop'[i] = prop[i]
  <2>1. CASE RunRead(t)
    BY <1>1, <2>1 DEF RunRead, tables
  <2>2. CASE RunEnsureEdge(t)
    BY <1>1, <2>2 DEF RunEnsureEdge, Pair
  <2>3. CASE RunDeleteEdge(t)
    BY <1>1, <2>3 DEF RunDeleteEdge
  <2>4. CASE RunSetNode(t)
    BY <1>1, <2>4 DEF RunSetNode
  <2>5. CASE RunSetEdge(t)
    BY <1>1, <2>5 DEF RunSetEdge
  <2>6. QED
    BY <2>1, <2>2, <2>3, <2>4, <2>5
<1>4. QED
  BY <1>1, <1>2, <1>3, RowsStay

\* The row goes with its properties and edges; its id stays unused.
LEMMA DeleteKeeps ==
  ASSUME GraphStoreAssumption, GraphInv, NEW t \in Tasks, RunDeleteNode(t)
  PROVE  GraphInv'
<1> DEFINE i == task[t].ids[1]
           m == task[t].labels[1]
<1>1. /\ task' = [u \in Tasks |-> task'[u]]
      /\ \A u \in Tasks : task'[u] = task[u] \/ (TaskOK(task'[u]) /\ Knows(task'[u]))
      /\ i \in 0 .. MaxId /\ m \in Labels
  BY RunEnds DEF RunDeleteNode
<1>2. /\ TypeOK /\ TasksOK /\ RowsOK /\ KnownIds /\ Home[t] \in Procs
      /\ MaxId \in Nat
  BY DEF GraphInv, GraphStoreAssumption
<1> HIDE DEF i, m
<1>3. /\ id' = [l \in Labels |-> IF id[l] = i THEN 0 ELSE id[l]]
      /\ edge' = {e \in edge : i \notin {e[1], e[2]}}
      /\ prop' = [k \in Ids |-> IF k = i THEN NoValue ELSE prop[k]]
      /\ flag' = flag \intersect edge'
      /\ cache' = [cache EXCEPT ![Home[t]][m] = 0]
      /\ sequence' = sequence /\ gone' = gone \union ({i} \intersect Rows)
  BY DEF RunDeleteNode, i, m
<1>4. Nodes' \subseteq Nodes /\ Rows' = Rows \ {i}
  BY <1>2, <1>3 DEF Nodes, Rows, TypeOK
<1>5. \A l \in Nodes' : id'[l] = id[l]
  BY <1>2, <1>3 DEF Nodes, TypeOK
<1>6. TasksOK'
  BY <1>1, <1>2 DEF TasksOK
<1>7. TypeOK'
  <2>1. id' \in [Labels -> 0 .. MaxId]
    BY <1>2, <1>3 DEF TypeOK
  <2>2. edge' \subseteq Ids \X Ids /\ flag' \subseteq edge'
    BY <1>2, <1>3 DEF TypeOK
  <2>3. prop' \in [Ids -> Values \union {NoValue}]
    BY <1>2, <1>3 DEF TypeOK
  <2>4. cache' \in [Procs -> [Labels -> 0 .. MaxId]]
    BY <1>1, <1>2, <1>3 DEF TypeOK
  <2>5. gone' \subseteq Ids
    <3>1. Rows \subseteq Ids
      BY <1>2 DEF Rows, Nodes, TypeOK, Ids
    <3>2. QED
      BY <1>2, <1>3, <3>1 DEF TypeOK
  <2>6. QED
    BY <1>2, <1>3, <1>6, <2>1, <2>2, <2>3, <2>4, <2>5 DEF TypeOK, TasksOK, TaskOK
<1>8. RowsOK'
  <2>1. \A l \in Labels : id'[l] <= sequence'
    BY <1>2, <1>3 DEF RowsOK, TypeOK
  <2>2. edge' \subseteq Rows' \X Rows'
    BY <1>2, <1>3, <1>4 DEF RowsOK
  <2>3. \A k \in Ids \ Rows' : prop'[k] = NoValue
    BY <1>2, <1>3, <1>4 DEF RowsOK
  <2>4. \A l, n \in Nodes' : id'[l] = id'[n] => l = n
    BY <1>2, <1>4, <1>5 DEF RowsOK
  <2>5. QED
    BY <2>1, <2>2, <2>3, <2>4 DEF RowsOK
<1>9. KnownIds'
  <2>1. \A k, l : IdOf(k, l) => IdOf(k, l)'
    BY <1>3, <1>4, <1>5 DEF IdOf
  <2>2. \A l : IdOf(0, l)
    BY <1>2 DEF IdOf, Nodes, TypeOK
  <2>3. \A p \in Procs, l \in Labels : cache'[p][l] = cache[p][l] \/ cache'[p][l] = 0
    BY <1>1, <1>2, <1>3 DEF TypeOK
  <2>4. \A p \in Procs, l \in Labels : IdOf(cache'[p][l], l)
    <3>1. \A p \in Procs, l \in Labels : IdOf(cache[p][l], l)
      BY <1>2 DEF KnownIds
    <3>2. QED
      BY <2>2, <2>3, <3>1
  <2>5. \A p \in Procs, l \in Labels : IdOf(cache[p][l], l)'
    BY <1>3, <1>4, <1>5, <2>4 DEF IdOf
  <2>6. \A u \in Tasks : Knows(task[u])'
    <3>1. ASSUME NEW u \in Tasks PROVE Knows(task[u])'
      <4>1. CASE task'[u] = task[u]
        <5>1. Knows(task[u])
          BY <1>2 DEF KnownIds
        <5>2. QED
          BY <2>1, <4>1, <5>1 DEF Knows
      <4>2. CASE Knows(task'[u])
        BY <1>3, <1>4, <1>5, <4>2 DEF Knows, IdOf
      <4>3. QED
        BY <1>1, <4>1, <4>2
    <3>2. QED
      BY <3>1
  <2>7. QED
    BY <2>5, <2>6 DEF KnownIds
<1>10. QED
  BY <1>6, <1>7, <1>8, <1>9 DEF GraphInv

\* A cache may forget.
LEMMA EvictKeeps ==
  ASSUME GraphStoreAssumption, GraphInv, NEW p \in Procs, NEW l \in Labels, Evict(p, l)
  PROVE  GraphInv'
<1>1. /\ edge \subseteq Rows \X Rows /\ flag \subseteq edge
      /\ prop \in [Ids -> Values \union {NoValue}]
      /\ cache \in [Procs -> [Labels -> 0 .. MaxId]]
      /\ \A q \in Procs, m \in Labels : IdOf(cache[q][m], m)
      /\ task = [t \in Tasks |-> task[t]]
      /\ \A m : IdOf(0, m)
      /\ MaxId \in Nat
  BY DEF GraphInv, TypeOK, RowsOK, TasksOK, KnownIds, IdOf, Nodes, GraphStoreAssumption
<1>2. /\ cache' = [cache EXCEPT ![p][l] = 0]
      /\ UNCHANGED <<id, edge, prop, flag, sequence, gone, task>>
  BY DEF Evict, tables
<1>3. /\ cache' \in [Procs -> [Labels -> 0 .. MaxId]]
      /\ \A q \in Procs, m \in Labels : cache'[q][m] = cache[q][m] \/ cache'[q][m] = 0
  BY <1>1, <1>2
<1>4. \A q \in Procs, m \in Labels : IdOf(cache'[q][m], m)
  <2>1. ASSUME NEW q \in Procs, NEW m \in Labels PROVE IdOf(cache'[q][m], m)
    <3>1. CASE cache'[q][m] = cache[q][m]
      BY <1>1, <3>1 DEF IdOf
    <3>2. CASE cache'[q][m] = 0
      BY <1>1, <3>2 DEF IdOf
    <3>3. QED
      BY <1>3, <3>1, <3>2
  <2>2. QED
    BY <2>1
<1>5. QED
  BY <1>1, <1>2, <1>3, <1>4, RowsStay

LEMMA GraphInit ==
  ASSUME GraphStoreAssumption, Init
  PROVE  GraphInv
<1>1. TasksOK
  BY DEF Init, TasksOK, TaskOK, Idle
<1>2. TypeOK
  BY <1>1 DEF Init, TypeOK, Idle, Ids, GraphStoreAssumption
<1>3. RowsOK
  BY DEF Init, RowsOK, Nodes, GraphStoreAssumption
<1>4. KnownIds
  BY DEF Init, KnownIds, Knows, IdOf, Nodes, Idle
<1>5. QED
  BY <1>1, <1>2, <1>3, <1>4 DEF GraphInv

LEMMA GraphStep ==
  ASSUME GraphStoreAssumption, GraphInv, [Next]_vars
  PROVE  GraphInv'
<1>1. ASSUME NEW p \in Procs, NEW S \in SUBSET Labels, EnsureNodes(p, S)
      PROVE  GraphInv'
  <2>1. TypeOK
    BY DEF GraphInv
  <2>2. NewRows
    BY <1>1, <2>1, Ensured
  <2>3. QED
    BY <2>2, EnsureKeeps
<1>2. CASE UNCHANGED vars
  BY <1>2 DEF vars, tables, GraphInv, TypeOK, TasksOK, RowsOK, KnownIds, Knows, IdOf, Rows, Nodes
<1>3. QED
  BY <1>1, <1>2, EvictKeeps, StatementsKeep, LookupsKeep, RunsKeep, DeleteKeeps DEF Next

(***************************************************************************)
(* The tables, the caches and the tasks keep their types, a row its own id, *)
(* and what caches and tasks know is no other label's id.                   *)
(***************************************************************************)
THEOREM TablesInvariant ==
  ASSUME GraphStoreAssumption
  PROVE  Spec => []GraphInv
<1>1. Init => GraphInv
  BY GraphInit
<1>2. GraphInv /\ [Next]_vars => GraphInv'
  BY GraphStep
<1>3. QED
  BY <1>1, <1>2, PTL DEF Spec

\* TypeOK of the tables run is one part of that.
THEOREM TypeCorrect ==
  ASSUME GraphStoreAssumption
  PROVE  Spec => []TypeOK
<1>1. GraphInv => TypeOK
  BY DEF GraphInv
<1>2. QED
  BY <1>1, TablesInvariant, PTL

-----------------------------------------------------------------------------
(* Caches. *)

\* The reply on its way to the cache is the row's id, or came before the row, or the row
\* has been deleted since.
RepliesAreRows ==
    \A t \in Tasks : task[t].at = "reply" =>
        LET n == Len(task[t].ids) IN task[t].ids[n] \in {0, id[task[t].labels[n]]} \union gone

CacheInv == GraphInv /\ CachedIsTheRow /\ RepliesAreRows

\* A row keeps its id until it is deleted.
LEMMA RowsGoOn ==
  ASSUME GraphStoreAssumption, CacheInv, UNCHANGED <<cache, task>>,
         gone \subseteq gone', \A l \in Labels : id[l] \in {0, id'[l]} \union gone'
  PROVE  CachedIsTheRow' /\ RepliesAreRows'
<1>1. CachedIsTheRow'
  BY DEF CacheInv, CachedIsTheRow
<1>2. ASSUME NEW t \in Tasks, task[t].at = "reply"
      PROVE  task[t].ids[Len(task[t].ids)] \in {0, id'[task[t].labels[Len(task[t].ids)]]} \union gone'
  <2>1. TaskOK(task[t])
    BY DEF CacheInv, GraphInv, TasksOK
  <2>2. Len(task[t].ids) \in 1 .. Len(task[t].labels)
    BY <1>2, <2>1, TaskTypes DEF TaskOK
  <2>3. task[t].labels[Len(task[t].ids)] \in Labels
    BY <2>1, <2>2, TaskTypes
  <2>4. QED
    BY <1>2, <2>3 DEF CacheInv, RepliesAreRows
<1>3. QED
  BY <1>1, <1>2 DEF RepliesAreRows

\* A lookup asks for the row's id, and puts that id into the cache.
LEMMA LookupsTell ==
  ASSUME GraphStoreAssumption, CacheInv, NEW t \in Tasks,
         \/ \E ls \in {<<l>> : l \in Labels} \union Links : Begin(t, ls)
         \/ LookupHit(t) \/ LookupSelect(t) \/ LookupReply(t)
  PROVE  CachedIsTheRow' /\ RepliesAreRows'
<1> DEFINE r == task[t]
           n == Len(r.ids)
<1>1. /\ TaskOK(r) /\ task = [u \in Tasks |-> task[u]]
      /\ r.labels \in Seq(Labels) /\ r.ids \in Seq(0 .. MaxId)
      /\ n \in Nat /\ Len(r.labels) \in Nat
      /\ \A k \in 1 .. Len(r.labels) : r.labels[k] \in Labels
      /\ Home[t] \in Procs /\ id \in [Labels -> 0 .. MaxId]
      /\ cache \in [Procs -> [Labels -> 0 .. MaxId]]
  BY TaskTypes DEF CacheInv, GraphInv, TypeOK, TasksOK, GraphStoreAssumption
<1>2. /\ UNCHANGED <<id, gone>>
      /\ \A u \in Tasks : u # t => task'[u] = task[u]
  BY <1>1 DEF Begin, LookupHit, LookupSelect, LookupReply, Known, MovesOn, tables
<1>3. RepliesAreRows' <=> (task'[t].at = "reply" =>
          task'[t].ids[Len(task'[t].ids)] \in {0, id[task'[t].labels[Len(task'[t].ids)]]} \union gone)
  BY <1>2 DEF CacheInv, RepliesAreRows
<1>4. CASE task'[t].at # "reply" /\ UNCHANGED cache
  BY <1>2, <1>3, <1>4 DEF CacheInv, CachedIsTheRow
<1>5. CASE \E ls \in {<<l>> : l \in Labels} \union Links : Begin(t, ls)
  BY <1>1, <1>4, <1>5 DEF Begin
<1>6. CASE LookupHit(t)
  BY <1>1, <1>4, <1>6 DEF LookupHit, Known, MovesOn, Ready
<1>7. CASE LookupSelect(t)
  <2> DEFINE i == id[Wanted(t)]
             s == [labels |-> r.labels, ids |-> Append(r.ids, i), at |-> "reply"]
  <2>1. task' = [task EXCEPT ![t] = s] /\ UNCHANGED cache
    BY <1>7 DEF LookupSelect, MovesOn
  <2>2. Wanted(t) \in Labels /\ Wanted(t) = r.labels[n + 1]
    BY <1>1, <1>7 DEF LookupSelect, Wanted, TaskOK
  <2>3. Len(s.ids) = n + 1 /\ s.ids[n + 1] = i
    BY <1>1, <2>2, AppendProperties
  <2>4. task'[t] = s
    BY <1>1, <2>1
  <2> HIDE DEF s
  <2>5. s.labels = r.labels
    BY DEF s
  <2>6. QED
    BY <1>2, <1>3, <2>1, <2>2, <2>3, <2>4, <2>5 DEF CacheInv, CachedIsTheRow
<1>8. CASE LookupReply(t)
  <2>1. task'[t].at # "reply"
    BY <1>1, <1>8 DEF LookupReply, MovesOn, Ready
  <2>2. r.ids[n] \in {0, id[r.labels[n]]} \union gone /\ n \in 1 .. Len(r.labels)
    <3>1. r.at = "reply"
      BY <1>8 DEF LookupReply
    <3>2. n \in 1 .. Len(r.labels)
      BY <1>1, <3>1 DEF TaskOK
    <3>3. r.ids[n] \in {0, id[r.labels[n]]} \union gone
      BY <3>1 DEF CacheInv, RepliesAreRows
    <3>4. QED
      BY <3>2, <3>3
  <2>3. cache' = cache \/ cache' = [cache EXCEPT ![Home[t]][r.labels[n]] = r.ids[n]]
    BY <1>8 DEF LookupReply
  <2>4. CachedIsTheRow'
    <3>1. CachedIsTheRow
      BY DEF CacheInv
    <3>2. CASE cache' = cache
      BY <1>2, <3>1, <3>2 DEF CachedIsTheRow
    <3>3. CASE cache' = [cache EXCEPT ![Home[t]][r.labels[n]] = r.ids[n]]
      <4> DEFINE l == r.labels[n]
                 i == r.ids[n]
      <4> HIDE DEF l, i
      <4>1. i \in {0, id[l]} \union gone /\ l \in Labels
        BY <1>1, <2>2 DEF l, i
      <4>2. cache' = [cache EXCEPT ![Home[t]][l] = i]
        BY <3>3 DEF l, i
      <4>3. QED
        BY <1>1, <1>2, <3>1, <4>1, <4>2 DEF CachedIsTheRow
    <3>4. QED
      BY <2>3, <3>2, <3>3
  <2>5. QED
    BY <1>3, <2>1, <2>4
<1>9. QED
  BY <1>5, <1>6, <1>7, <1>8

LEMMA CacheStep ==
  ASSUME GraphStoreAssumption, CacheInv, [Next]_vars
  PROVE  CacheInv'
<1>1. GraphInv /\ GraphInv' /\ TypeOK
  BY GraphStep DEF CacheInv, GraphInv
<1>2. CASE UNCHANGED <<cache, task, gone>> /\ \A l \in Labels : id[l] \in {0, id'[l]}
  BY <1>1, <1>2, RowsGoOn DEF CacheInv
<1>3. ASSUME NEW p \in Procs, NEW S \in SUBSET Labels, EnsureNodes(p, S)
      PROVE  CacheInv'
  BY <1>1, <1>2, <1>3, Ensured DEF NewRows
<1>4. ASSUME NEW p \in Procs, NEW l \in Labels, Evict(p, l)
      PROVE  CacheInv'
  <2>1. CachedIsTheRow'
    BY <1>1, <1>4 DEF Evict, tables, CacheInv, CachedIsTheRow, TypeOK
  <2>2. RepliesAreRows'
    BY <1>4 DEF Evict, tables, CacheInv, RepliesAreRows
  <2>3. QED
    BY <1>1, <2>1, <2>2 DEF CacheInv
<1>5. ASSUME NEW F \in SUBSET Labels, NEW T \in SUBSET Labels,
             EnsureEdges(F, T) \/ SetEdges(F, T)
      PROVE  CacheInv'
  BY <1>2, <1>5 DEF EnsureEdges, SetEdges
<1>6. ASSUME NEW S \in SUBSET Labels, NEW v \in Values, SetNodes(S, v)
      PROVE  CacheInv'
  BY <1>2, <1>6 DEF SetNodes
<1>7. ASSUME NEW t \in Tasks,
             \/ \E ls \in {<<l>> : l \in Labels} \union Links : Begin(t, ls)
             \/ LookupHit(t) \/ LookupSelect(t) \/ LookupReply(t)
      PROVE  CacheInv'
  BY <1>1, <1>7, LookupsTell DEF CacheInv
<1>8. ASSUME NEW t \in Tasks,
             \/ RunRead(t) \/ RunEnsureEdge(t) \/ RunDeleteEdge(t)
             \/ RunSetNode(t) \/ RunSetEdge(t)
      PROVE  CacheInv'
  <2>1. UNCHANGED <<id, cache, gone>> /\ task' = [task EXCEPT ![t] = Idle]
    BY <1>8 DEF RunRead, RunEnsureEdge, RunDeleteEdge, RunSetNode, RunSetEdge, Run, tables
  <2>2. CachedIsTheRow'
    BY <2>1 DEF CacheInv, CachedIsTheRow
  <2>3. task = [u \in Tasks |-> task[u]]
    BY <1>1 DEF GraphInv, TasksOK
  <2>4. \A u \in Tasks : task'[u] = task[u] \/ task'[u].at = "idle"
    BY <2>1, <2>3 DEF Idle
  <2>5. RepliesAreRows'
    BY <2>1, <2>4 DEF CacheInv, RepliesAreRows
  <2>6. QED
    BY <1>1, <2>2, <2>5 DEF CacheInv
<1>9. CASE UNCHANGED vars
  BY <1>2, <1>9 DEF vars, tables
\* The node's id is gone with its row; the caches that are not told keep it.
<1>10. ASSUME NEW t \in Tasks, RunDeleteNode(t)
       PROVE  CacheInv'
  <2>1. PICK i \in 0 .. MaxId : i = task[t].ids[1]
    BY <1>1, <1>10, RunEnds DEF RunDeleteNode
  <2>2. /\ id' = [l \in Labels |-> IF id[l] = i THEN 0 ELSE id[l]]
        /\ gone' = gone \union ({i} \intersect Rows)
        /\ cache' = [cache EXCEPT ![Home[t]][task[t].labels[1]] = 0]
        /\ task' = [task EXCEPT ![t] = Idle]
    BY <1>10, <2>1 DEF RunDeleteNode, Run
  <2>3. \A l \in Labels : id[l] \in {0, id'[l]} \union gone'
    BY <2>2 DEF Rows, Nodes
  <2>4. \A p \in Procs, l \in Labels : cache'[p][l] \in {0, cache[p][l]}
    BY <1>1, <2>2 DEF TypeOK
  <2>5. CachedIsTheRow'
    BY <2>2, <2>3, <2>4 DEF CacheInv, CachedIsTheRow
  <2>6. \A u \in Tasks : task'[u] = task[u] \/ task'[u].at = "idle"
    BY <1>1, <2>2 DEF GraphInv, TasksOK, Idle
  <2>7. ASSUME NEW u \in Tasks, task'[u].at = "reply"
        PROVE  LET n == Len(task'[u].ids)
               IN  task'[u].ids[n] \in {0, id'[task'[u].labels[n]]} \union gone'
    <3> DEFINE n == Len(task[u].ids)
    <3>1. task'[u] = task[u] /\ task[u].at = "reply" /\ TaskOK(task[u])
      BY <1>1, <2>6, <2>7 DEF GraphInv, TasksOK
    <3>2. n \in 1 .. Len(task[u].labels)
      BY <3>1, TaskTypes DEF TaskOK
    <3>3. task[u].labels[n] \in Labels
      BY <3>1, <3>2, TaskTypes
    <3>4. task[u].ids[n] \in {0, id[task[u].labels[n]]} \union gone
      BY <3>1 DEF CacheInv, RepliesAreRows
    <3>5. QED
      BY <2>2, <2>3, <3>1, <3>3, <3>4
  <2>8. RepliesAreRows'
    BY <2>7 DEF RepliesAreRows
  <2>9. QED
    BY <1>1, <2>5, <2>8 DEF CacheInv
<1>11. QED
  BY <1>3, <1>4, <1>5, <1>6, <1>7, <1>8, <1>9, <1>10 DEF Next

(***************************************************************************)
(* An id in any process's cache is the row's, or the row was deleted: the   *)
(* crawl, which deletes nothing, may skip the database for a label it has   *)
(* met.  The invariant needs the replies still on their way to a cache.     *)
(***************************************************************************)
THEOREM CacheTellsTheTruth ==
  ASSUME GraphStoreAssumption
  PROVE  Spec => []CachedIsTheRow
<1>1. Init => CacheInv
  <2>1. Init => CachedIsTheRow /\ RepliesAreRows
    BY DEF Init, CachedIsTheRow, RepliesAreRows, Idle
  <2>2. QED
    BY <2>1, GraphInit DEF CacheInv
<1>2. CacheInv /\ [Next]_vars => CacheInv'
  BY CacheStep
<1>3. CacheInv => CachedIsTheRow
  BY DEF CacheInv
<1>4. QED
  BY <1>1, <1>2, <1>3, PTL DEF Spec

-----------------------------------------------------------------------------
(* What a statement about ids can touch. *)

NamedOnly(t) ==
    \A l \in Labels \ {task[t].labels[k] : k \in 1 .. Len(task[t].labels)} :
        /\ id'[l] = id[l]
        /\ id[l] # 0 =>
              /\ prop'[id[l]] = prop[id[l]]
              /\ \A e \in (edge' \ edge) \union (flag' \ flag) : id[l] \notin {e[1], e[2]}

\* An id of the task that belongs to a row belongs to one of its labels.
LEMMA RunsTouchTheirs ==
  ASSUME GraphStoreAssumption, GraphInv, NEW t \in Tasks,
         \/ RunRead(t) \/ RunEnsureEdge(t) \/ RunDeleteEdge(t)
         \/ RunSetNode(t) \/ RunSetEdge(t) \/ RunDeleteNode(t)
  PROVE  NamedOnly(t)
<1> SUFFICES ASSUME NEW l \in Labels,
                    l \notin {task[t].labels[k] : k \in 1 .. Len(task[t].labels)}
             PROVE  /\ id'[l] = id[l]
                    /\ id[l] # 0 =>
                          /\ prop'[id[l]] = prop[id[l]]
                          /\ \A e \in (edge' \ edge) \union (flag' \ flag) :
                                id[l] \notin {e[1], e[2]}
  BY DEF NamedOnly
<1>1. PICK n \in {1, 2} : Run(t, n)
  BY DEF RunRead, RunEnsureEdge, RunDeleteEdge, RunSetNode, RunSetEdge, RunDeleteNode
<1>2. /\ Len(task[t].ids) = n /\ Len(task[t].labels) = n /\ Knows(task[t])
      /\ id \in [Labels -> 0 .. MaxId]
      /\ prop = [i \in Ids |-> prop[i]]
      /\ MaxId \in Nat
  BY <1>1, RunEnds DEF GraphInv, TypeOK, GraphStoreAssumption
<1>3. \A k \in 1 .. n : id[l] # 0 => id[l] # task[t].ids[k]
  BY <1>2 DEF Knows, IdOf, Nodes
<1>4. id[l] # 0 => id[l] \in Ids
  BY <1>2 DEF Ids
<1>5. CASE RunRead(t)
  BY <1>5 DEF RunRead, tables
<1>6. CASE RunEnsureEdge(t)
  BY <1>2, <1>3, <1>6 DEF RunEnsureEdge, Run, Pair
<1>7. CASE RunDeleteEdge(t)
  BY <1>7 DEF RunDeleteEdge
<1>8. CASE RunSetNode(t)
  BY <1>2, <1>3, <1>4, <1>8 DEF RunSetNode, Run
<1>9. CASE RunSetEdge(t)
  BY <1>2, <1>3, <1>9 DEF RunSetEdge, Run, Pair
<1>10. CASE RunDeleteNode(t)
  BY <1>2, <1>3, <1>4, <1>10 DEF RunDeleteNode, Run
<1>11. QED
  BY <1>5, <1>6, <1>7, <1>8, <1>9, <1>10

\* Only its own statement takes a task from there to idle.
LEMMA RunsEndThere ==
  ASSUME GraphStoreAssumption, GraphInv, [Next]_vars, NEW t \in Tasks,
         task[t].at = "run", task'[t].at = "idle"
  PROVE  \/ RunRead(t) \/ RunEnsureEdge(t) \/ RunDeleteEdge(t)
         \/ RunSetNode(t) \/ RunSetEdge(t) \/ RunDeleteNode(t)
<1>1. task = [u \in Tasks |-> task[u]]
  BY DEF GraphInv, TasksOK
<1>2. task' # task
  OBVIOUS
<1>3. ASSUME NEW u \in Tasks,
             \/ \E ls \in {<<l>> : l \in Labels} \union Links : Begin(u, ls)
             \/ LookupHit(u) \/ LookupSelect(u) \/ LookupReply(u)
      PROVE  FALSE
  <2>1. u # t
    BY <1>3 DEF Begin, LookupHit, LookupSelect, LookupReply
  <2>2. task'[t] = task[t]
    BY <1>1, <1>3, <2>1 DEF Begin, LookupHit, LookupSelect, LookupReply, Known, MovesOn
  <2>3. QED
    BY <2>2
<1>4. ASSUME NEW u \in Tasks, NEW n \in {1, 2}, Run(u, n)
      PROVE  u = t
  BY <1>1, <1>4 DEF Run
<1>5. ASSUME NEW u \in Tasks,
             \/ RunRead(u) \/ RunEnsureEdge(u) \/ RunDeleteEdge(u)
             \/ RunSetNode(u) \/ RunSetEdge(u) \/ RunDeleteNode(u)
      PROVE  u = t
  BY <1>4, <1>5
     DEF RunRead, RunEnsureEdge, RunDeleteEdge, RunSetNode, RunSetEdge, RunDeleteNode
<1>6. PICK u \in Tasks :
         \/ RunRead(u) \/ RunEnsureEdge(u) \/ RunDeleteEdge(u)
         \/ RunSetNode(u) \/ RunSetEdge(u) \/ RunDeleteNode(u)
  BY <1>2, <1>3 DEF Next, vars, EnsureNodes, Evict, EnsureEdges, SetEdges, SetNodes
<1>7. QED
  BY <1>5, <1>6

(***************************************************************************)
(* A statement about ids keeps to the nodes it was asked for, deletions by  *)
(* other processes included: an id that outlived its row is nobody else's.  *)
(***************************************************************************)
THEOREM OnlyNamedNodesTouched ==
  ASSUME GraphStoreAssumption
  PROVE  Spec => OnlyNamedNodes
<1> DEFINE Keeps ==
      \A t \in Tasks : task[t].at = "run" /\ task'[t].at = "idle" =>
          \A l \in Labels \ {task[t].labels[k] : k \in 1 .. Len(task[t].labels)} :
              /\ id'[l] = id[l]
              /\ id[l] # 0 =>
                    /\ prop'[id[l]] = prop[id[l]]
                    /\ \A e \in (edge' \ edge) \union (flag' \ flag) : id[l] \notin {e[1], e[2]}
<1>1. GraphInv /\ [Next]_vars => [Keeps]_vars
  <2>1. ASSUME GraphInv, [Next]_vars, NEW t \in Tasks,
               task[t].at = "run", task'[t].at = "idle"
        PROVE  NamedOnly(t)
    BY <2>1, RunsEndThere, RunsTouchTheirs
  <2>2. QED
    BY <2>1 DEF NamedOnly
<1>2. QED
  BY <1>1, TablesInvariant, PTL DEF Spec, OnlyNamedNodes

-----------------------------------------------------------------------------
(* The tables implement LabelGraph. *)

\* The pairs of labels whose ids are joined: ByLabel without the CHOOSE.
Joined(E) == {e \in Nodes \X Nodes : <<id[e[1]], id[e[2]]>> \in E}

Value == [l \in Labels |-> IF id[l] = 0 THEN NoValue ELSE prop[id[l]]]

ShownByLabel == ByLabel(edge) = Joined(edge) /\ ByLabel(flag) = Joined(flag)

\* Ids are the rows' own, so LabelOf inverts id.
LEMMA LabelsShow ==
  ASSUME GraphInv
  PROVE  ShownByLabel
<1>1. /\ \A l, m \in Nodes : id[l] = id[m] => l = m
      /\ Nodes \subseteq Labels
      /\ edge \subseteq Rows \X Rows /\ flag \subseteq Rows \X Rows
      /\ \A l \in Labels \ Nodes : id[l] = 0
      /\ \A l \in Nodes : id[l] # 0
  BY DEF GraphInv, RowsOK, TypeOK, Nodes
<1>2. ASSUME NEW l \in Nodes
      PROVE  LabelOf(id[l]) = l
  <2>1. id[l] \in Rows
    BY DEF Rows
  <2>2. \A m \in Labels : id[m] = id[l] <=> m = l
    BY <1>1
  <2>3. (CHOOSE m \in Labels : id[m] = id[l]) = l
    BY <1>1, <2>2
  <2>4. QED
    BY <2>1, <2>3 DEF LabelOf
<1>3. ASSUME NEW E \in SUBSET (Rows \X Rows)
      PROVE  ByLabel(E) = Joined(E)
  <2>1. ASSUME NEW e \in E
        PROVE  <<LabelOf(e[1]), LabelOf(e[2])>> \in Joined(E)
    <3>1. PICK l \in Nodes, m \in Nodes : e = <<id[l], id[m]>>
      BY DEF Rows
    <3>2. LabelOf(e[1]) = l /\ LabelOf(e[2]) = m
      BY <1>2, <3>1
    <3>3. QED
      BY <3>1, <3>2 DEF Joined
  <2>2. ASSUME NEW d \in Joined(E)
        PROVE  d \in ByLabel(E)
    <3>1. PICK l \in Nodes, m \in Nodes : d = <<l, m>> /\ <<id[l], id[m]>> \in E
      BY DEF Joined
    <3> DEFINE e == <<id[l], id[m]>>
    <3>2. LabelOf(e[1]) = l /\ LabelOf(e[2]) = m /\ e \in E
      BY <1>2, <3>1
    <3> HIDE DEF e
    <3>3. d = <<LabelOf(e[1]), LabelOf(e[2])>>
      BY <3>1, <3>2
    <3>4. QED
      BY <3>2, <3>3 DEF ByLabel
  <2>3. QED
    BY <2>1, <2>2 DEF ByLabel
<1>4. QED
  BY <1>1, <1>3 DEF ShownByLabel

\* The state that LabelGraph sees, before and after a step.
Shown == GraphInv /\ ShownByLabel

LEMMA EnsureAddsNodes ==
  ASSUME GraphStoreAssumption, Shown, Shown', NewRows
  PROVE  Abstract!AddNodes
<1>1. /\ GraphInv /\ sequence \in 0 .. MaxId /\ MaxId \in Nat /\ id \in [Labels -> 0 .. MaxId]
      /\ edge \subseteq Rows \X Rows /\ flag \subseteq edge
      /\ \A l \in Labels : id[l] <= sequence
      /\ \A i \in Ids \ Rows : prop[i] = NoValue
  BY DEF Shown, GraphInv, TypeOK, RowsOK, GraphStoreAssumption
<1>2. /\ id' \in [Labels -> 0 .. MaxId] /\ UNCHANGED <<edge, prop, flag>>
      /\ \A l \in Labels : id'[l] = id[l] \/ (id[l] = 0 /\ id'[l] > sequence)
  BY <1>1 DEF NewRows
<1>3. \A i \in Rows : i <= sequence
  BY <1>1 DEF Rows, Nodes
<1>4. Nodes \subseteq Nodes' /\ Nodes' \subseteq Labels
  BY <1>1, <1>2 DEF Nodes
<1>5. \A l \in Nodes' : id'[l] \in Rows => l \in Nodes
  BY <1>1, <1>2, <1>3 DEF Nodes
<1>6. ASSUME NEW E \in SUBSET (Rows \X Rows)
      PROVE  {e \in Nodes' \X Nodes' : <<id'[e[1]], id'[e[2]]>> \in E} = Joined(E)
  BY <1>1, <1>2, <1>4, <1>5 DEF Joined, Nodes
<1>7. Joined(edge)' = Joined(edge) /\ Joined(flag)' = Joined(flag)
  BY <1>1, <1>2, <1>6 DEF Joined
<1>8. Value' = Value
  BY <1>1, <1>2, <1>3 DEF Value, Ids
<1>9. QED
  BY <1>4, <1>7, <1>8 DEF Abstract!AddNodes, Shown, ShownByLabel, Value

\* A step that leaves the rows' ids.
LEMMA EdgesShow ==
  ASSUME GraphInv, GraphInv', UNCHANGED id
  PROVE  /\ Nodes' = Nodes /\ Rows' = Rows
         /\ \A E : Joined(E)' = Joined(E)
         /\ Joined(edge)' = {e \in Nodes \X Nodes : <<id[e[1]], id[e[2]]>> \in edge'}
         /\ Joined(flag)' = {e \in Nodes \X Nodes : <<id[e[1]], id[e[2]]>> \in flag'}
         /\ prop' = prop => Value' = Value
         /\ edge \subseteq Rows \X Rows /\ flag \subseteq edge
BY DEF GraphInv, TypeOK, RowsOK, Nodes, Rows, Joined, Value

LEMMA EnsureAddsEdges ==
  ASSUME Shown, Shown', UNCHANGED <<id, prop, flag>>, edge \subseteq edge'
  PROVE  Abstract!AddEdges
<1>1. Joined(edge)' \in SUBSET (Nodes \X Nodes) /\ Joined(edge) \subseteq Joined(edge)'
  BY EdgesShow DEF Shown, Joined
<1>2. UNCHANGED <<Nodes, Value, Joined(flag)>>
  BY EdgesShow DEF Shown, Joined
<1>3. QED
  BY <1>1, <1>2 DEF Abstract!AddEdges, Shown, ShownByLabel, Value

LEMMA SetAddsFlags ==
  ASSUME Shown, Shown', UNCHANGED <<id, prop, edge>>, flag \subseteq flag'
  PROVE  Abstract!SetFlags
<1>1. flag' \subseteq edge
  BY DEF Shown, GraphInv, TypeOK
<1>2. Joined(flag)' \in SUBSET Joined(edge) /\ Joined(flag) \subseteq Joined(flag)'
  BY <1>1, EdgesShow DEF Shown, Joined
<1>3. UNCHANGED <<Nodes, Value, Joined(edge)>>
  BY EdgesShow DEF Shown, Joined
<1>4. QED
  BY <1>2, <1>3 DEF Abstract!SetFlags, Shown, ShownByLabel, Value

LEMMA SetSetsValues ==
  ASSUME Shown, Shown', UNCHANGED <<id, edge, flag>>,
         NEW S \in SUBSET Nodes, NEW v \in Values,
         \A l \in Nodes : prop'[id[l]] = IF l \in S THEN v ELSE prop[id[l]]
  PROVE  Abstract!SetValue
<1>1. UNCHANGED <<Nodes, Joined(edge), Joined(flag)>>
  BY EdgesShow DEF Shown, Joined
<1>2. Value' = [l \in Labels |-> IF l \in S THEN v ELSE Value[l]]
  BY DEF Value, Nodes
<1>3. QED
  BY <1>1, <1>2 DEF Abstract!SetValue, Shown, ShownByLabel, Value

LEMMA DeleteDropsEdge ==
  ASSUME Shown, Shown', UNCHANGED <<id, prop>>, NEW d,
         edge' = edge \ {d}, flag' = flag \ {d}
  PROVE  Abstract!DropEdge \/ UNCHANGED <<edge, flag>>
<1>1. CASE d \notin edge
  BY <1>1 DEF Shown, GraphInv, TypeOK
<1>2. CASE d \in edge
  <2>1. /\ \A l, m \in Nodes : id[l] = id[m] => l = m
        /\ edge \subseteq Rows \X Rows
    BY DEF Shown, GraphInv, RowsOK
  <2>2. PICK l \in Nodes, m \in Nodes : d = <<id[l], id[m]>>
    BY <1>2, <2>1 DEF Rows
  <2> DEFINE e == <<l, m>>
  <2>3. e \in Joined(edge)
    BY <1>2, <2>2 DEF Joined
  <2>4. \A c \in Nodes \X Nodes : <<id[c[1]], id[c[2]]>> = d <=> c = e
    BY <2>1, <2>2
  <2> HIDE DEF e
  <2>5. /\ Joined(edge)' = Joined(edge) \ {e}
        /\ Joined(flag)' = Joined(flag) \ {e}
    BY <2>4, EdgesShow DEF Shown, Joined
  <2>6. UNCHANGED <<Nodes, Value>>
    BY EdgesShow DEF Shown
  <2>7. QED
    BY <2>3, <2>5, <2>6 DEF Abstract!DropEdge, Shown, ShownByLabel, Value
<1>3. QED
  BY <1>1, <1>2

LEMMA DeleteDropsNode ==
  ASSUME GraphStoreAssumption, Shown, Shown', NEW t \in Tasks, RunDeleteNode(t)
  PROVE  Abstract!DropNode \/ UNCHANGED <<id, edge, prop, flag>>
<1> DEFINE i == task[t].ids[1]
<1>1. /\ id' = [l \in Labels |-> IF id[l] = i THEN 0 ELSE id[l]]
      /\ edge' = {e \in edge : i \notin {e[1], e[2]}}
      /\ prop' = [k \in Ids |-> IF k = i THEN NoValue ELSE prop[k]]
      /\ flag' = flag \intersect edge'
  BY DEF RunDeleteNode
<1> HIDE DEF i
<1>2. /\ id \in [Labels -> 0 .. MaxId] /\ MaxId \in Nat
      /\ prop \in [Ids -> Values \union {NoValue}]
      /\ edge \subseteq Rows \X Rows /\ flag \subseteq edge
      /\ \A l, m \in Nodes : id[l] = id[m] => l = m
      /\ \A k \in Ids \ Rows : prop[k] = NoValue
  BY DEF Shown, GraphInv, TypeOK, RowsOK, GraphStoreAssumption
<1>3. CASE i \notin Rows
  <2>1. id' = id
    BY <1>1, <1>2, <1>3 DEF Rows, Nodes
  <2>2. edge' = edge /\ flag' = flag
    BY <1>1, <1>2, <1>3
  <2>3. prop' = prop
    BY <1>1, <1>2, <1>3
  <2>4. QED
    BY <2>1, <2>2, <2>3
<1>4. CASE i \in Rows
  <2>1. PICK n \in Nodes : id[n] = i
    BY <1>4 DEF Rows
  <2>2. \A l \in Labels : id[l] = i <=> l = n
    BY <1>2, <2>1 DEF Nodes
  <2>3. Nodes' = Nodes \ {n} /\ \A l \in Nodes' : id'[l] = id[l]
    BY <1>1, <1>2, <2>2 DEF Nodes
  <2>4. Joined(edge)' = {e \in Joined(edge) : n \notin {e[1], e[2]}}
    <3>1. \A e \in Nodes \X Nodes :
             i \in {id[e[1]], id[e[2]]} <=> n \in {e[1], e[2]}
      BY <2>2 DEF Nodes
    <3>2. Joined(edge)' = {e \in Nodes' \X Nodes' : <<id[e[1]], id[e[2]]>> \in edge'}
      BY <2>3 DEF Joined
    <3>3. QED
      BY <1>1, <2>3, <3>1, <3>2 DEF Joined
  <2>5. Joined(flag)' = Joined(flag) \intersect Joined(edge)'
    BY <1>1, <2>3 DEF Joined
  <2>6. Value' = [Value EXCEPT ![n] = NoValue]
    <3> DEFINE V(l) == IF id'[l] = 0 THEN NoValue ELSE prop'[id'[l]]
               W(l) == IF id[l] = 0 THEN NoValue ELSE prop[id[l]]
    <3>1. ASSUME NEW l \in Labels
          PROVE  V(l) = IF l = n THEN NoValue ELSE W(l)
      <4>1. CASE l = n
        BY <1>1, <2>2, <4>1
      <4>2. CASE l # n
        <5>1. id'[l] = id[l] /\ id[l] # i
          BY <1>1, <2>2, <4>2
        <5>2. id[l] # 0 => id[l] \in Ids
          BY <1>2 DEF Ids
        <5>3. QED
          BY <1>1, <4>2, <5>1, <5>2
      <4>3. QED
        BY <4>1, <4>2
    <3>2. Value' = [l \in Labels |-> V(l)] /\ Value = [l \in Labels |-> W(l)]
      BY DEF Value
    <3> HIDE DEF V, W
    <3>3. QED
      BY <3>1, <3>2
  <2>7. QED
    BY <2>1, <2>3, <2>4, <2>5, <2>6 DEF Abstract!DropNode, Shown, ShownByLabel, Value
<1>5. QED
  BY <1>3, <1>4

LEMMA LabelStep ==
  ASSUME GraphStoreAssumption, Shown, Shown', [Next]_vars
  PROVE  [Abstract!LabelNext]_(Abstract!labelVars)
<1>1. CASE UNCHANGED <<id, edge, prop, flag>>
  <2>1. UNCHANGED <<Nodes, Value, Joined(edge), Joined(flag)>>
    BY <1>1, EdgesShow DEF Shown, Joined
  <2>2. QED
    BY <2>1 DEF Abstract!labelVars, Shown, ShownByLabel, Value
<1>2. /\ prop = [i \in Ids |-> prop[i]]
      /\ \A l \in Nodes : id[l] \in Ids
      /\ \A l, m \in Nodes : id[l] = id[m] => l = m
  BY DEF Shown, GraphInv, TypeOK, RowsOK, Nodes, Ids, GraphStoreAssumption
<1>3. ASSUME NEW p \in Procs, NEW S \in SUBSET Labels, EnsureNodes(p, S)
      PROVE  Abstract!AddNodes
  <2>1. TypeOK
    BY DEF Shown, GraphInv
  <2>2. NewRows
    BY <1>3, <2>1, Ensured
  <2>3. QED
    BY <2>2, EnsureAddsNodes
<1>4. ASSUME NEW F \in SUBSET Labels, NEW T \in SUBSET Labels, EnsureEdges(F, T)
      PROVE  Abstract!AddEdges
  BY <1>4, EnsureAddsEdges DEF EnsureEdges
<1>5. ASSUME NEW F \in SUBSET Labels, NEW T \in SUBSET Labels, SetEdges(F, T)
      PROVE  Abstract!SetFlags
  BY <1>5, SetAddsFlags DEF SetEdges
<1>6. ASSUME NEW S \in SUBSET Labels, NEW v \in Values, SetNodes(S, v)
      PROVE  Abstract!SetValue
  <2>1. \A l \in Nodes : prop'[id[l]] = IF l \in S \cap Nodes THEN v ELSE prop[id[l]]
    BY <1>2, <1>6 DEF SetNodes, Nodes, Ids
  <2>2. QED
    BY <1>6, <2>1, SetSetsValues DEF SetNodes
<1>7. ASSUME NEW t \in Tasks, RunEnsureEdge(t)
      PROVE  Abstract!AddEdges
  BY <1>7, EnsureAddsEdges DEF RunEnsureEdge
<1>8. ASSUME NEW t \in Tasks, RunDeleteEdge(t)
      PROVE  Abstract!DropEdge \/ UNCHANGED <<id, edge, prop, flag>>
  BY <1>8, DeleteDropsEdge DEF RunDeleteEdge
<1>9. ASSUME NEW t \in Tasks, RunSetNode(t)
      PROVE  Abstract!SetValue
  <2>1. PICK v \in Values :
          prop' = [i \in Ids |-> IF i = task[t].ids[1] /\ i \in Rows THEN v ELSE prop[i]]
    BY <1>9 DEF RunSetNode
  <2> DEFINE S == {l \in Nodes : id[l] = task[t].ids[1]}
  <2>2. \A l \in Nodes : prop'[id[l]] = IF l \in S THEN v ELSE prop[id[l]]
    BY <1>2, <2>1 DEF Rows
  <2>3. QED
    BY <1>9, <2>2, SetSetsValues DEF RunSetNode
<1>10. ASSUME NEW t \in Tasks, RunSetEdge(t)
       PROVE  Abstract!SetFlags
  BY <1>10, SetAddsFlags DEF RunSetEdge
<1>11. ASSUME NEW t \in Tasks, RunDeleteNode(t)
       PROVE  Abstract!DropNode \/ UNCHANGED <<id, edge, prop, flag>>
  BY <1>11, DeleteDropsNode
<1>12. ASSUME \/ \E p \in Procs, l \in Labels : Evict(p, l)
              \/ \E t \in Tasks :
                    \/ \E ls \in {<<l>> : l \in Labels} \union Links : Begin(t, ls)
                    \/ LookupHit(t) \/ LookupSelect(t) \/ LookupReply(t) \/ RunRead(t)
              \/ UNCHANGED vars
       PROVE  UNCHANGED <<id, edge, prop, flag>>
  BY <1>12 DEF Evict, Begin, LookupHit, LookupSelect, LookupReply, RunRead, tables, vars
<1>13. Abstract!LabelNext \/ UNCHANGED <<id, edge, prop, flag>>
  BY <1>3, <1>4, <1>5, <1>6, <1>7, <1>8, <1>9, <1>10, <1>11, <1>12
     DEF Next, Abstract!LabelNext
<1>14. QED
  BY <1>1, <1>13

(***************************************************************************)
(* Whatever the caches hold and whenever rows are deleted, the tables are a *)
(* graph over labels: each statement is one operation of that graph or, if  *)
(* its ids have no rows, none.                                              *)
(***************************************************************************)
THEOREM TablesAreAGraph ==
  ASSUME GraphStoreAssumption
  PROVE  Spec => IsLabelGraph
<1>1. Init => Abstract!LabelInit
  BY DEF Init, Abstract!LabelInit, Nodes, ByLabel
<1>2. GraphInv => Shown
  BY LabelsShow DEF Shown
<1>3. Shown /\ Shown' /\ [Next]_vars => [Abstract!LabelNext]_(Abstract!labelVars)
  BY LabelStep
<1>4. QED
  BY <1>1, <1>2, <1>3, TablesInvariant, PTL DEF Spec, IsLabelGraph, Abstract!LabelSpec

-----------------------------------------------------------------------------
(* The snapshot. *)

Files == {"hosts", "nodes", "edges"}
IdPairs == Copy!Ids \X Copy!Ids

SnapTyped ==
    /\ rows \subseteq Copy!Ids /\ edges \subseteq rows \X rows
    /\ given \in 0 .. MaxRow /\ inserting \in [Writers -> SUBSET Copy!Ids]
    /\ stage \in Files \union {"done"}
    /\ maxId \in Int /\ file \in [Files -> SUBSET (Copy!Ids \union IdPairs)]
    /\ known \in [opened : SUBSET Files, rows : SUBSET Copy!Ids, edges : SUBSET IdPairs,
               open : SUBSET Copy!Ids]
    /\ known.rows \subseteq rows
    /\ known.edges \subseteq edges /\ known.edges \subseteq known.rows \X known.rows

Opened == stage \in known.opened

\* maxId is the greatest id that was read.
UpTo(read) == (\A r \in read : r <= maxId) /\ maxId \in {-1} \union read

HostsCopied ==
    stage = "hosts" =>
        /\ known.opened \subseteq {"hosts"} /\ file["nodes"] = {} /\ file["edges"] = {}
        /\ IF Opened THEN known.rows = file["hosts"] \union batch \union cursor
                     ELSE batch = {} /\ cursor = {} /\ file["hosts"] = {}

NodesCopied ==
    stage = "nodes" =>
        /\ known.opened \subseteq {"nodes"} /\ file["edges"] = {}
        /\ IF Opened THEN known.rows = file["nodes"] \union batch \union cursor
                     ELSE batch = {} /\ cursor = {} /\ file["nodes"] = {}
        /\ UpTo(file["nodes"] \union batch)

RowsCopied ==
    stage \in {"edges", "done"} =>
        IF "nodes" \in known.opened THEN known.rows = file["nodes"] /\ UpTo(file["nodes"])
        ELSE known.rows = file["hosts"] /\ stage = "done" /\ "edges" \notin known.opened

Kept == {e \in edges : Copy!Keeps(e)}

EdgesCopied ==
    IF "edges" \in known.opened
    THEN /\ stage \in {"edges", "done"} /\ cursor \subseteq edges
         /\ file["edges"] \union batch \subseteq Kept
         /\ known.edges \subseteq file["edges"] \union batch \union cursor
         /\ stage = "done" => batch = {} /\ cursor = {}
    ELSE file["edges"] = {} /\ (stage = "edges" => batch = {} /\ cursor = {})

SnapInv == SnapTyped /\ HostsCopied /\ NodesCopied /\ RowsCopied /\ EdgesCopied

LEMMA SnapInit ==
  ASSUME Copy!SnapshotAssumption, Copy!Init
  PROVE  SnapInv
<1>1. /\ known.opened = {} /\ cursor = {} /\ batch = {} /\ known.rows = {} /\ known.edges = {}
      /\ file["hosts"] = {} /\ file["nodes"] = {} /\ file["edges"] = {}
  BY DEF Copy!Init
<1>2. SnapTyped
  BY <1>1 DEF Copy!Init, Copy!SnapshotAssumption, SnapTyped, Files
<1>3. QED
  BY <1>1, <1>2 DEF Copy!Init, SnapInv, HostsCopied, NodesCopied, RowsCopied, EdgesCopied, Opened, UpTo

\* The crawlers add rows and edges.
LEMMA SnapWrites ==
  ASSUME SnapInv, UNCHANGED <<stage, cursor, batch, file, maxId, known>>,
         rows \subseteq rows', rows' \subseteq Copy!Ids,
         edges \subseteq edges', edges' \subseteq rows' \X rows',
         given' \in 0 .. MaxRow, inserting' \in [Writers -> SUBSET Copy!Ids]
  PROVE  SnapInv'
<1>1. Kept \subseteq Kept'
  BY DEF Kept, Copy!Keeps
<1>2. SnapTyped'
  BY DEF SnapInv, SnapTyped
<1>3. HostsCopied' /\ NodesCopied' /\ RowsCopied'
  BY DEF SnapInv, HostsCopied, NodesCopied, RowsCopied, Opened, UpTo
<1>4. EdgesCopied'
  BY <1>1 DEF SnapInv, EdgesCopied
<1>5. QED
  BY <1>2, <1>3, <1>4 DEF SnapInv

LEMMA SnapCrawlers ==
  ASSUME Copy!SnapshotAssumption, SnapInv,
         (\E w \in Writers : Copy!Insert(w) \/ Copy!Commit(w)) \/ Copy!AddEdge
  PROVE  SnapInv'
<1>1. ASSUME NEW w \in Writers, Copy!Insert(w)
      PROVE  SnapInv'
  <2>1. given + 1 \in 0 .. MaxRow /\ given' = given + 1
    BY <1>1 DEF Copy!Insert, SnapInv, SnapTyped, Copy!SnapshotAssumption
  <2>2. inserting' \in [Writers -> SUBSET Copy!Ids]
    BY <1>1, <2>1 DEF Copy!Insert, SnapInv, SnapTyped, Copy!Ids
  <2>3. QED
    BY <1>1, <2>1, <2>2, SnapWrites DEF Copy!Insert, Copy!script, SnapInv, SnapTyped
<1>2. ASSUME NEW w \in Writers, Copy!Commit(w)
      PROVE  SnapInv'
  <2>1. inserting[w] \subseteq Copy!Ids
    BY <1>2 DEF Copy!Commit, SnapInv, SnapTyped, Copy!Ids, Copy!SnapshotAssumption
  <2>2. rows \subseteq rows' /\ rows' \subseteq Copy!Ids /\ UNCHANGED <<edges, given>>
    BY <1>2, <2>1 DEF Copy!Commit, SnapInv, SnapTyped
  <2>3. inserting' \in [Writers -> SUBSET Copy!Ids] /\ given \in 0 .. MaxRow /\ edges \subseteq rows' \X rows'
    BY <1>2, <2>2 DEF Copy!Commit, SnapInv, SnapTyped, Copy!SnapshotAssumption
  <2>4. QED
    BY <1>2, <2>2, <2>3, SnapWrites DEF Copy!Commit, Copy!script
<1>3. CASE Copy!AddEdge
  <2>1. edges \subseteq edges' /\ edges' \subseteq rows \X rows /\ rows \subseteq Copy!Ids
    BY <1>3 DEF Copy!AddEdge, SnapInv, SnapTyped
  <2>2. UNCHANGED <<rows, given, inserting, stage, cursor, batch, file, maxId, known>>
    BY <1>3 DEF Copy!AddEdge, Copy!script
  <2>3. given \in 0 .. MaxRow /\ inserting \in [Writers -> SUBSET Copy!Ids]
    BY DEF SnapInv, SnapTyped
  <2>4. QED
    BY <2>1, <2>2, <2>3, SnapWrites
<1>4. QED
  BY <1>1, <1>2, <1>3

\* A cursor is opened.
LEMMA SnapOpen ==
  ASSUME SnapInv, Copy!Open
  PROVE  SnapInv'
<1> stage \in Files
  BY DEF Copy!Open, Files
<1>1. /\ UNCHANGED <<rows, edges, given, inserting, stage, batch, file, maxId>>
      /\ stage \notin known.opened /\ known'.opened = known.opened \union {stage}
      /\ cursor' = IF stage = "edges" THEN edges ELSE rows
  BY DEF Copy!Open, Copy!database, Copy!Table
<1>2. stage = "edges" => known'.rows = known.rows /\ known'.edges = known.edges
  BY DEF Copy!Open
<1>3. stage # "edges" => known'.rows = rows /\ known'.edges = edges
  BY DEF Copy!Open
<1>4. known' \in [opened : SUBSET Files, rows : SUBSET Copy!Ids, edges : SUBSET IdPairs,
               open : SUBSET Copy!Ids]
  <2>1. edges \in SUBSET IdPairs
    BY DEF SnapInv, SnapTyped, IdPairs
  <2>2. known.opened \union {stage} \in SUBSET Files
    BY DEF SnapInv, SnapTyped
  <2>3. UNION {inserting[w] : w \in Writers} \subseteq Copy!Ids
    BY DEF SnapInv, SnapTyped
  <2>4. QED
    BY <2>1, <2>2, <2>3 DEF Copy!Open, SnapInv, SnapTyped
<1>5. SnapTyped'
  BY <1>1, <1>2, <1>3, <1>4 DEF SnapInv, SnapTyped
<1>6. CASE stage = "hosts"
  BY <1>1, <1>3, <1>5, <1>6 DEF SnapInv, HostsCopied, NodesCopied, RowsCopied, EdgesCopied, Opened, UpTo
<1>7. CASE stage = "nodes"
  BY <1>1, <1>3, <1>5, <1>7 DEF SnapInv, HostsCopied, NodesCopied, RowsCopied, EdgesCopied, Opened, UpTo
<1>8. CASE stage = "edges"
  <2>1. HostsCopied' /\ NodesCopied'
    BY <1>1, <1>8 DEF HostsCopied, NodesCopied
  <2>2. RowsCopied'
    BY <1>1, <1>2, <1>8 DEF SnapInv, RowsCopied, UpTo
  <2>3. file'["edges"] = {} /\ batch' = {} /\ cursor' = edges
    BY <1>1, <1>8 DEF SnapInv, EdgesCopied
  <2>4. EdgesCopied'
    BY <1>1, <1>2, <1>8, <2>3 DEF SnapInv, SnapTyped, EdgesCopied
  <2>5. QED
    BY <1>5, <2>1, <2>2, <2>4 DEF SnapInv
<1>9. QED
  BY <1>6, <1>7, <1>8 DEF Files

\* What Collect leaves: of the file and the batch together, what was read is added.
LEMMA SnapCollect ==
  ASSUME SnapTyped, NEW read, Copy!Collect(read), stage \in Files
  PROVE  /\ UNCHANGED <<rows, edges, given, inserting, stage, known>>
         /\ file'[stage] \union batch' = file[stage] \union read
         /\ \A s \in Files \ {stage} : file'[s] = file[s]
         /\ read \subseteq Copy!Ids \union IdPairs => file' \in [Files -> SUBSET (Copy!Ids \union IdPairs)]
<1>1. file \in [Files -> SUBSET (Copy!Ids \union IdPairs)]
  BY DEF SnapTyped
<1>2. UNCHANGED <<rows, edges, given, inserting, stage, known>>
  BY DEF Copy!Collect, Copy!database
<1>3. CASE file' = [file EXCEPT ![stage] = @ \union read] /\ batch' = {}
  <2>1. file'[stage] = file[stage] \union read
    BY <1>1, <1>3
  <2>2. QED
    BY <1>1, <1>2, <1>3, <2>1
<1>4. CASE file' = file /\ batch' = read
  BY <1>1, <1>2, <1>4
<1>5. QED
  BY <1>3, <1>4 DEF Copy!Collect

LEMMA SnapReadHost ==
  ASSUME SnapInv, Copy!ReadHost
  PROVE  SnapInv'
<1> PICK r \in cursor : cursor' = cursor \ {r} /\ Copy!Collect(batch \union {r})
  BY DEF Copy!ReadHost
<1>1. stage = "hosts" /\ maxId' = maxId /\ SnapTyped
  BY DEF Copy!ReadHost, SnapInv
<1>2. /\ UNCHANGED <<rows, edges, given, inserting, stage, known>>
      /\ file'["hosts"] \union batch' = file["hosts"] \union batch \union {r}
      /\ file'["nodes"] = file["nodes"] /\ file'["edges"] = file["edges"]
      /\ batch \union {r} \subseteq Copy!Ids \union IdPairs => file' \in [Files -> SUBSET (Copy!Ids \union IdPairs)]
  BY <1>1, SnapCollect DEF Files
<1>3. Opened /\ known.opened \subseteq {"hosts"} /\ file["nodes"] = {} /\ file["edges"] = {}
      /\ known.rows = file["hosts"] \union batch \union cursor
  BY <1>1 DEF SnapInv, HostsCopied
<1>4. batch \union {r} \subseteq Copy!Ids /\ known.rows = file'["hosts"] \union batch' \union cursor'
  BY <1>2, <1>3 DEF SnapInv, SnapTyped
<1>5. SnapTyped'
  BY <1>1, <1>2, <1>4 DEF SnapTyped
<1>6. HostsCopied' /\ NodesCopied' /\ RowsCopied' /\ EdgesCopied'
  BY <1>1, <1>2, <1>3, <1>4 DEF HostsCopied, NodesCopied, RowsCopied, EdgesCopied, Opened
<1>7. QED
  BY <1>5, <1>6 DEF SnapInv

\* Of two numbers Max is one that is no less than the other.
LEMMA SnapMax ==
  ASSUME NEW a \in Int, NEW b \in Int
  PROVE  Copy!Max({a, b}) \in {a, b} /\ a <= Copy!Max({a, b}) /\ b <= Copy!Max({a, b})
<1> DEFINE P(x) == x \in {a, b} /\ \A y \in {a, b} : y <= x
<1>1. \E x : P(x)
  <2>1. CASE a <= b
    <3> P(b)
      BY <2>1
    <3> QED
      OBVIOUS
  <2>2. CASE b <= a
    <3> P(a)
      BY <2>2
    <3> QED
      OBVIOUS
  <2>3. QED
    BY <2>1, <2>2
<1>2. Copy!Max({a, b}) = CHOOSE x \in {a, b} : \A y \in {a, b} : y <= x
  BY DEF Copy!Max
<1>3. QED
  BY <1>1, <1>2

LEMMA SnapReadNode ==
  ASSUME SnapInv, Copy!ReadNode
  PROVE  SnapInv'
<1> PICK r \in cursor : /\ cursor' = cursor \ {r} /\ Copy!Collect(batch \union {r})
                        /\ maxId' = Copy!Max({r, maxId})
  BY DEF Copy!ReadNode
<1>1. stage = "nodes" /\ SnapTyped
  BY DEF Copy!ReadNode, SnapInv
<1>2. /\ UNCHANGED <<rows, edges, given, inserting, stage, known>>
      /\ file'["nodes"] \union batch' = file["nodes"] \union batch \union {r}
      /\ file'["hosts"] = file["hosts"] /\ file'["edges"] = file["edges"]
      /\ batch \union {r} \subseteq Copy!Ids \union IdPairs => file' \in [Files -> SUBSET (Copy!Ids \union IdPairs)]
  BY <1>1, SnapCollect DEF Files
<1>3. Opened /\ known.opened \subseteq {"nodes"} /\ file["edges"] = {}
      /\ known.rows = file["nodes"] \union batch \union cursor /\ UpTo(file["nodes"] \union batch)
  BY <1>1 DEF SnapInv, NodesCopied
<1>4. batch \union {r} \subseteq Copy!Ids /\ known.rows = file'["nodes"] \union batch' \union cursor'
  BY <1>2, <1>3 DEF SnapInv, SnapTyped
<1>5. maxId' \in {r, maxId} /\ r <= maxId' /\ maxId <= maxId' /\ maxId' \in Int
  <2>1. r \in Int /\ maxId \in Int
    BY <1>1, <1>4 DEF SnapTyped, Copy!Ids
  <2>2. Copy!Max({r, maxId}) \in {r, maxId} /\ r <= Copy!Max({r, maxId}) /\ maxId <= Copy!Max({r, maxId})
    BY <2>1, SnapMax
  <2>3. QED
    BY <2>1, <2>2
<1>6. SnapTyped'
  BY <1>1, <1>2, <1>4, <1>5 DEF SnapTyped
<1>7. \A x \in file["nodes"] \union batch \union {r} : x \in Int /\ x <= maxId'
  BY <1>1, <1>3, <1>4, <1>5 DEF UpTo, SnapTyped, Copy!Ids
<1>8. UpTo(file["nodes"] \union batch)'
  BY <1>2, <1>3, <1>5, <1>7 DEF UpTo
<1>9. HostsCopied' /\ NodesCopied' /\ RowsCopied' /\ EdgesCopied'
  BY <1>1, <1>2, <1>3, <1>4, <1>8 DEF HostsCopied, NodesCopied, RowsCopied, EdgesCopied, Opened
<1>10. QED
  BY <1>6, <1>9 DEF SnapInv

LEMMA SnapReadEdge ==
  ASSUME SnapInv, Copy!ReadEdge
  PROVE  SnapInv'
<1> DEFINE read(r) == IF Copy!Keeps(r) THEN batch \union {r} ELSE batch
<1> PICK r \in cursor : cursor' = cursor \ {r} /\ Copy!Collect(read(r))
  BY DEF Copy!ReadEdge
<1>1. stage = "edges" /\ SnapTyped /\ maxId' = maxId
  BY DEF Copy!ReadEdge, SnapInv
<1>2. /\ UNCHANGED <<rows, edges, given, inserting, stage, known>>
      /\ file'["edges"] \union batch' = file["edges"] \union read(r)
      /\ file'["hosts"] = file["hosts"] /\ file'["nodes"] = file["nodes"]
      /\ read(r) \subseteq Copy!Ids \union IdPairs => file' \in [Files -> SUBSET (Copy!Ids \union IdPairs)]
  BY <1>1, SnapCollect DEF Files
<1>3. "edges" \in known.opened /\ cursor \subseteq edges /\ file["edges"] \union batch \subseteq Kept
      /\ known.edges \subseteq file["edges"] \union batch \union cursor
  BY <1>1 DEF SnapInv, EdgesCopied
<1>4. read(r) \subseteq Kept /\ file["edges"] \union read(r) \subseteq Kept
  BY <1>3 DEF Kept
<1>5. Kept \subseteq IdPairs /\ Kept' = Kept
  BY <1>1, <1>2 DEF Kept, IdPairs, SnapTyped, Copy!Keeps
<1>6. SnapTyped'
  <2>1. file' \in [Files -> SUBSET (Copy!Ids \union IdPairs)]
    BY <1>2, <1>4, <1>5
  <2>2. QED
    BY <1>1, <1>2, <2>1 DEF SnapTyped
<1>7. HostsCopied' /\ NodesCopied' /\ RowsCopied'
  BY <1>1, <1>2 DEF SnapInv, HostsCopied, NodesCopied, RowsCopied, UpTo
<1>8. r \in known.edges => Copy!Keeps(r)
  <2> SUFFICES ASSUME r \in known.edges
               PROVE  Copy!Keeps(r)
    OBVIOUS
  <2>1. r[1] \in known.rows /\ r[2] \in known.rows
    BY <1>1 DEF SnapTyped
  <2>2. "nodes" \in known.opened /\ known.rows = file["nodes"] /\ UpTo(file["nodes"])
    BY <1>1 DEF SnapInv, RowsCopied
  <2>3. QED
    BY <2>1, <2>2 DEF UpTo, Copy!Keeps
<1>9. EdgesCopied'
  <2>1. file'["edges"] \union batch' \subseteq Kept'
    BY <1>2, <1>4, <1>5
  <2>2. known.edges \subseteq file'["edges"] \union batch' \union cursor'
    BY <1>2, <1>3, <1>8
  <2>3. QED
    BY <1>1, <1>2, <1>3, <2>1, <2>2 DEF EdgesCopied
<1>10. QED
  BY <1>6, <1>7, <1>9 DEF SnapInv

LEMMA SnapWriteRest ==
  ASSUME SnapInv, Copy!WriteRest
  PROVE  SnapInv'
<1>1. /\ UNCHANGED <<rows, edges, given, inserting, cursor, maxId, known>>
      /\ Opened /\ cursor = {} /\ batch' = {} /\ file' = [file EXCEPT ![stage] = @ \union batch]
      /\ stage' = (IF stage = "nodes" THEN "edges" ELSE "done") /\ SnapTyped
  BY DEF Copy!WriteRest, Copy!database, Copy!NextStage, Opened, SnapInv
<1>2. stage \in Files
  BY <1>1 DEF SnapTyped, Opened
<1>3. file'[stage] = file[stage] \union batch /\ \A s \in Files \ {stage} : file'[s] = file[s]
  BY <1>1, <1>2 DEF SnapTyped
<1>4. SnapTyped'
  <2>1. batch \subseteq Copy!Ids \union IdPairs
    BY <1>1, <1>2 DEF SnapInv, SnapTyped, HostsCopied, NodesCopied, EdgesCopied, Kept, Files, IdPairs, Opened
  <2>2. file' \in [Files -> SUBSET (Copy!Ids \union IdPairs)]
    BY <1>1, <1>2, <2>1 DEF SnapTyped
  <2>3. stage' \in Files \union {"done"}
    BY <1>1 DEF Files
  <2>4. QED
    BY <1>1, <2>2, <2>3 DEF SnapTyped
<1>5. CASE stage = "hosts"
  BY <1>1, <1>2, <1>3, <1>4, <1>5
     DEF SnapInv, HostsCopied, NodesCopied, RowsCopied, EdgesCopied, Opened, UpTo, Files
<1>6. CASE stage = "nodes"
  BY <1>1, <1>2, <1>3, <1>4, <1>6
     DEF SnapInv, HostsCopied, NodesCopied, RowsCopied, EdgesCopied, Opened, UpTo, Files
<1>7. CASE stage = "edges"
  <2>1. /\ "edges" \in known.opened /\ known.edges \subseteq file["edges"] \union batch
        /\ file["edges"] \union batch \subseteq Kept
    BY <1>1, <1>7 DEF SnapInv, EdgesCopied, Opened
  <2>2. Kept' = Kept
    BY <1>1 DEF Kept, Copy!Keeps
  <2>3. EdgesCopied'
    BY <1>1, <1>3, <1>7, <2>1, <2>2 DEF EdgesCopied
  <2>4. RowsCopied' /\ HostsCopied' /\ NodesCopied'
    BY <1>1, <1>3, <1>7 DEF SnapInv, RowsCopied, HostsCopied, NodesCopied, UpTo, Files
  <2>5. QED
    BY <1>4, <2>3, <2>4 DEF SnapInv
<1>8. QED
  BY <1>2, <1>5, <1>6, <1>7 DEF Files

LEMMA SnapStep ==
  ASSUME SnapInv, [Copy!Next]_Copy!vars, Copy!SnapshotAssumption
  PROVE  SnapInv'
<1>1. CASE UNCHANGED Copy!vars
  <2>1. UNCHANGED <<rows, edges, given, inserting, stage, cursor, batch, file, maxId, known>>
    BY <1>1 DEF Copy!vars, Copy!database, Copy!script
  <2>2. SnapTyped'
    BY <2>1 DEF SnapInv, SnapTyped
  <2>3. HostsCopied' /\ NodesCopied' /\ RowsCopied' /\ EdgesCopied'
    BY <2>1 DEF SnapInv, HostsCopied, NodesCopied, RowsCopied, EdgesCopied, Opened, UpTo, Kept, Copy!Keeps
  <2>4. QED
    BY <2>2, <2>3 DEF SnapInv
<1>2. CASE Copy!Next
  BY <1>2, SnapCrawlers, SnapOpen, SnapReadHost, SnapReadNode, SnapReadEdge, SnapWriteRest DEF Copy!Next
<1>3. QED
  BY <1>1, <1>2

(***************************************************************************)
(* Whatever many writers do meanwhile, what was committed when the script   *)
(* opened a cursor is in its files once it is done: every row, and every    *)
(* edge that was there when the nodes' cursor was opened.                   *)
(***************************************************************************)
THEOREM NothingMissing ==
  ASSUME Copy!SnapshotAssumption
  PROVE  Copy!Spec => []Copy!NothingIsMissing
<1>1. Copy!Init => SnapInv
  BY SnapInit
<1>2. SnapInv /\ [Copy!Next]_Copy!vars => SnapInv'
  BY SnapStep
<1>3. SnapInv => Copy!NothingIsMissing
  <2> SUFFICES ASSUME SnapInv, stage = "done"
               PROVE  /\ known.rows \subseteq file["nodes"] \union file["hosts"]
                      /\ "edges" \in known.opened => known.edges \subseteq file["edges"]
    BY DEF Copy!NothingIsMissing
  <2>1. known.rows \subseteq file["nodes"] \union file["hosts"]
    BY DEF SnapInv, RowsCopied
  <2>2. "edges" \in known.opened => known.edges \subseteq file["edges"]
    BY DEF SnapInv, EdgesCopied
  <2>3. QED
    BY <2>1, <2>2
<1>4. QED
  BY <1>1, <1>2, <1>3, PTL DEF Copy!Spec

\* The ids that were given out, seen or not yet.
Given == rows \union UNION {inserting[w] : w \in Writers}

\* A row whose insert began after the nodes' cursor was opened has an id above all that
\* the cursor shows.
LaterIsHigher ==
    /\ \A r \in Given : r <= given
    /\ "nodes" \in known.opened =>
          \A r \in Given \ (known.rows \union known.open), k \in known.rows : k < r

LEMMA LaterStep ==
  ASSUME SnapInv, LaterIsHigher, [Copy!Next]_Copy!vars
  PROVE  LaterIsHigher'
<1>1. /\ rows \subseteq Given /\ Given \subseteq Int /\ given \in Int /\ known.rows \subseteq rows
      /\ inserting \in [Writers -> SUBSET Copy!Ids]
  <2>1. /\ rows \subseteq Copy!Ids /\ inserting \in [Writers -> SUBSET Copy!Ids]
        /\ given \in Int /\ known.rows \subseteq rows
    BY DEF SnapInv, SnapTyped
  <2>2. Given \subseteq Copy!Ids
    BY <2>1 DEF Given
  <2>3. QED
    BY <2>1, <2>2 DEF Copy!Ids, Given
<1>2. ASSUME NEW w \in Writers, Copy!Insert(w)
      PROVE  LaterIsHigher'
  <2>1. UNCHANGED <<rows, known>> /\ given' = given + 1
        /\ inserting' = [inserting EXCEPT ![w] = @ \union {given + 1}]
    BY <1>2 DEF Copy!Insert
  <2>2. Given' \subseteq Given \union {given'}
    BY <1>1, <2>1 DEF Given
  <2>3. \A r \in Given : r <= given /\ r < given' /\ r <= given'
    <3>1. \A r \in Given : r <= given /\ r \in Int
      BY <1>1 DEF LaterIsHigher
    <3>2. QED
      BY <1>1, <2>1, <3>1
  <2>4. given' <= given'
    BY <1>1, <2>1
  <2>5. \A k \in known.rows : k < given'
    BY <1>1, <2>3
  <2>6. QED
    BY <2>1, <2>2, <2>3, <2>4, <2>5 DEF LaterIsHigher
<1>3. ASSUME NEW w \in Writers, Copy!Commit(w)
      PROVE  LaterIsHigher'
  <2>1. UNCHANGED <<given, known>> /\ rows' \subseteq rows \union inserting[w]
        /\ inserting' = [inserting EXCEPT ![w] = {}]
    BY <1>3 DEF Copy!Commit
  <2>2. Given' \subseteq Given
    BY <1>1, <2>1 DEF Given
  <2>3. QED
    BY <2>1, <2>2 DEF LaterIsHigher
<1>4. CASE Copy!Open
  <2>1. UNCHANGED <<rows, given, inserting>> /\ Given' = Given
    BY <1>4 DEF Copy!Open, Copy!database, Given
  <2>2. CASE stage = "edges"
    <3>1. known'.rows = known.rows /\ known'.open = known.open
          /\ known'.opened = known.opened \union {"edges"}
      BY <1>4, <2>2 DEF Copy!Open, SnapInv, SnapTyped
    <3>2. QED
      BY <2>1, <3>1 DEF LaterIsHigher
  <2>3. CASE stage # "edges"
    <3>1. known'.rows \union known'.open = Given
      BY <1>4, <2>3 DEF Copy!Open, Given
    <3>2. QED
      BY <2>1, <3>1 DEF LaterIsHigher
  <2>4. QED
    BY <2>2, <2>3
<1>5. CASE \/ Copy!AddEdge \/ Copy!ReadHost \/ Copy!ReadNode \/ Copy!ReadEdge
           \/ Copy!WriteRest \/ UNCHANGED Copy!vars
  <2>1. UNCHANGED <<rows, given, inserting, known>>
    BY <1>5 DEF Copy!AddEdge, Copy!ReadHost, Copy!ReadNode, Copy!ReadEdge, Copy!WriteRest, Copy!Collect,
           Copy!vars, Copy!database
  <2>2. QED
    BY <2>1 DEF LaterIsHigher, Given
<1>6. QED
  BY <1>2, <1>3, <1>4, <1>5 DEF Copy!Next

(***************************************************************************)
(* Beside any number of transactions the snapshot lacks no row and no edge  *)
(* that the script ought to find, and an end of an edge it holds has its    *)
(* row in it too, unless that row was being inserted when the nodes were    *)
(* read.  That the condition on the edges' ids suffices for every other row *)
(* rests on the order in which ids are given out.                           *)
(***************************************************************************)
THEOREM SnapshotsAreWhole == AllSpec => []SnapshotIsWhole
<1> USE TablesAssumption
<1>1. Copy!Init => SnapInv /\ LaterIsHigher
  BY SnapInit DEF Copy!Init, LaterIsHigher, Given
<1>2. SnapInv /\ LaterIsHigher /\ [Copy!Next]_Copy!vars => SnapInv' /\ LaterIsHigher'
  BY SnapStep, LaterStep
<1>3. SnapInv /\ LaterIsHigher => Copy!BothEndsAreThere
  <2> SUFFICES ASSUME SnapInv, LaterIsHigher, NEW e \in file["edges"]
               PROVE  {e[1], e[2]} \subseteq file["nodes"] \union known.open
    BY DEF Copy!BothEndsAreThere
  <2>1. "edges" \in known.opened /\ e \in Kept
    BY DEF SnapInv, EdgesCopied
  <2>2. "nodes" \in known.opened /\ known.rows = file["nodes"] /\ UpTo(known.rows)
    BY <2>1 DEF SnapInv, EdgesCopied, RowsCopied
  <2>3. /\ e[1] \in rows /\ e[2] \in rows /\ e[1] <= maxId /\ e[2] <= maxId
        /\ known.rows \subseteq rows /\ rows \subseteq Copy!Ids /\ maxId \in Int
    BY <2>1 DEF Kept, Copy!Keeps, SnapInv, SnapTyped
  <2>4. ASSUME NEW r \in rows, r <= maxId
        PROVE  r \in known.rows \union known.open
    <3>1. r \in Int /\ 1 <= r
      BY <2>3 DEF Copy!Ids
    <3>2. maxId \in known.rows
      BY <2>2, <2>3, <2>4, <3>1 DEF UpTo
    <3>3. r \notin known.rows \union known.open => maxId < r
      BY <2>2, <3>2 DEF LaterIsHigher, Given
    <3>4. QED
      BY <2>3, <2>4, <3>1, <3>3
  <2>5. QED
    BY <2>2, <2>3, <2>4
<1>4. Copy!Spec => []Copy!BothEndsAreThere
  BY <1>1, <1>2, <1>3, PTL DEF Copy!Spec
<1>5. Copy!Spec => []Copy!NothingIsMissing
  BY NothingMissing
<1>6. AllInit => Copy!Init
  BY DEF AllInit
<1>7. [AllNext]_allVars => [Copy!Next]_(Copy!vars)
  BY DEF AllNext, allVars, copyVars, Copy!vars, Copy!database, Copy!script
<1>8. Copy!BothEndsAreThere /\ Copy!NothingIsMissing => SnapshotIsWhole
  BY DEF SnapshotIsWhole, Copy!SnapshotIsWhole
<1>9. QED
  BY <1>4, <1>5, <1>6, <1>7, <1>8, PTL DEF AllSpec, Copy!Spec
=============================================================================
