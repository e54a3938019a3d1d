----------------------------- MODULE Migrations -----------------------------
(***************************************************************************)
(* database_setup of pub_crawler/database.py, which every pod and script    *)
(* runs when it starts: what is not yet recorded is applied in order, each  *)
(* migration with its record in one transaction.  Pods start at the same    *)
(* time, may be killed anywhere, and are started again when they fail.      *)
(***************************************************************************)
EXTENDS Integers, Sequences, FiniteSetsExt

CONSTANTS
    Pods,
    MaxKills   \* bound on kills

MigrationsAssumption == MaxKills \in Nat

VARIABLES
    exists,    \* the table of migrations is there
    objects,   \* tables and indexes that are there, by their migration
    records,   \* names in the table of migrations
    pod,       \* pod -> what it is at
    applied,   \* pod -> the records it read
    kills

vars == <<exists, objects, records, pod, applied, kills>>

\* Mutant: a dict that is not in the order of the foreign keys.
ByName ==
    <<"create_edge_table", "create_node_table", "create_node_property_table",
      "create_edge_property_table", "create_edge_to_node_idx", "create_host_table",
      "create_host_property_table", "create_host_prop_name_value_idx">>

Migrations ==
    <<"create_node_table", "create_edge_table", "create_node_property_table",
      "create_edge_property_table", "create_edge_to_node_idx", "create_host_table",
      "create_host_property_table", "create_host_prop_name_value_idx">>

First(n) == {Migrations[i] : i \in 1 .. n}
Names == First(Len(Migrations))

\* The table a foreign key or an index names.
Needs(m) ==
    CASE m \in {"create_edge_table", "create_node_property_table"} -> {"create_node_table"}
      [] m \in {"create_edge_property_table", "create_edge_to_node_idx"} -> {"create_edge_table"}
      [] m = "create_host_property_table" -> {"create_host_table"}
      [] m = "create_host_prop_name_value_idx" -> {"create_host_property_table"}
      [] OTHER -> {}

Init ==
    /\ \E n \in 0 .. Len(Migrations) : objects = First(n)
    /\ records = objects
    /\ exists = (records # {})
    /\ pod = [p \in Pods |-> [at |-> "down"]]
    /\ applied = [p \in Pods |-> {}]
    /\ kills = 0

Down == [at |-> "down"]
Go(p, at) == pod' = [pod EXCEPT ![p] = [at |-> at]]

Start(p) ==
    /\ pod[p].at = "down"
    /\ Go(p, "ensure")
    /\ UNCHANGED <<exists, objects, records, applied, kills>>

\* CREATE TABLE IF NOT EXISTS: of two that create it at once, one may fail.
Ensure(p) ==
    /\ pod[p].at = "ensure"
    /\ exists' = TRUE
    /\ \/ Go(p, "read")
       \/ \E q \in Pods \ {p} : /\ pod[q].at = "ensure" /\ ~ exists
                                /\ pod' = [pod EXCEPT ![p] = [at |-> "read"], ![q] = Down]
    /\ UNCHANGED <<objects, records, applied, kills>>

Read(p) ==
    /\ pod[p].at = "read"
    /\ applied' = [applied EXCEPT ![p] = records]
    /\ Go(p, "next")
    /\ UNCHANGED <<exists, objects, records, kills>>

\* The migrations the pod has still to apply, by what it read and did itself.
Todo(p) == {i \in DOMAIN Migrations : Migrations[i] \notin applied[p]}

Begin(p) ==
    /\ pod[p].at = "next"
    /\ pod' = [pod EXCEPT ![p] = IF Todo(p) = {} THEN [at |-> "ready"]
                                 ELSE [at |-> "define", migration |-> Migrations[Min(Todo(p))]]]
    /\ UNCHANGED <<exists, objects, records, applied, kills>>

InTransaction(p) == pod[p].at \in {"record", "commit"}

\* A name that another transaction has taken is waited for.  The statement
\* fails when the object is there or what it needs is not; the pod exits.
Define(p) ==
    LET m == pod[p].migration
    IN  /\ pod[p].at = "define"
        /\ \A q \in Pods : InTransaction(q) => pod[q].migration # m
        /\ pod' = [pod EXCEPT ![p] = IF m \in objects \/ ~ (Needs(m) \subseteq objects) THEN Down
                                     ELSE [@ EXCEPT !.at = "record"]]
        /\ UNCHANGED <<exists, objects, records, applied, kills>>

Record(p) ==
    /\ pod[p].at = "record"
    /\ pod' = [pod EXCEPT ![p].at = "commit"]
    /\ UNCHANGED <<exists, objects, records, applied, kills>>

\* Mutant: the record is written by a transaction of its own, which may fail.
CommitTwo(p) ==
    LET m == pod[p].migration
    IN  /\ pod[p].at = "commit"
        /\ objects' = objects \union {m}
        /\ \/ records' = records \union {m} /\ applied' = [applied EXCEPT ![p] = @ \union {m}] /\ Go(p, "next")
           \/ Go(p, "down") /\ UNCHANGED <<records, applied>>
        /\ UNCHANGED <<exists, kills>>

Commit(p) ==
    LET m == pod[p].migration
    IN  /\ pod[p].at = "commit"
        /\ objects' = objects \union {m}
        /\ records' = records \union {m}
        /\ applied' = [applied EXCEPT ![p] = @ \union {m}]
        /\ Go(p, "next")
        /\ UNCHANGED <<exists, kills>>

\* A transaction that is open is rolled back.
Kill(p) ==
    /\ pod[p].at # "down" /\ kills < MaxKills
    /\ Go(p, "down")
    /\ kills' = kills + 1
    /\ UNCHANGED <<exists, objects, records, applied>>

Setup(p) == Start(p) \/ Ensure(p) \/ Read(p) \/ Begin(p) \/ Define(p) \/ Record(p) \/ Commit(p)

Next == \E p \in Pods : Setup(p) \/ Kill(p)

Spec == Init /\ [][Next]_vars

\* Statements end, and a pod that exits is started again.
Fairness == \A p \in Pods : WF_vars(Setup(p))

-----------------------------------------------------------------------------
\* What is recorded is there and what is there is recorded: else no pod would
\* ever start again, each failing on a table that exists.
RecordedIsThere == records = objects

(***************************************************************************)
(* "These will run in order": wherever pods are killed or run into each     *)
(* other, what is there, and recorded, is an initial part of the            *)
(* migrations, and a pod that is ready has all of them, though it may have  *)
(* read the records before another pod applied some.                        *)
(***************************************************************************)
InOrder ==
    /\ RecordedIsThere
    /\ \E n \in 0 .. Len(Migrations) : objects = First(n)
    /\ \A p \in Pods : pod[p].at = "ready" => objects = Names

(***************************************************************************)
(* Every pod comes to be ready, though those that start together make each  *)
(* other fail: one of two goes on.                                          *)
(***************************************************************************)
AllReady == \A p \in Pods : <>[](pod[p].at = "ready")
=============================================================================
