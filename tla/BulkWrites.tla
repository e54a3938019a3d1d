----------------------------- MODULE BulkWrites -----------------------------
(***************************************************************************)
(* The statements of database_graph.py and database_host_survey.py that     *)
(* write many rows: ensure_nodes, ensure_hosts, ensure_from_edges,          *)
(* ensure_to_edges and the set_*_property of many.  PostgreSQL takes the    *)
(* rows one after another, a row another transaction has written is waited  *)
(* for until that ends, and of transactions that wait for each other one is *)
(* aborted; then the call raises.                                           *)
(***************************************************************************)
EXTENDS Integers, Sequences, FiniteSetsExt

CONSTANTS
    Tasks,
    Keys,       \* labels, hostnames, or pairs of them
    Orders,     \* the sequences of keys a call may be given
    MaxCalls    \* bound on calls

BulkAssumption == Orders \subseteq Seq(Keys) /\ MaxCalls \in Nat

VARIABLES
    rows,     \* keys of committed rows
    call,     \* task -> what its call is at
    calls

vars == <<rows, call, calls>>

Free == [at |-> "free", order |-> <<>>, todo |-> {}, held |-> {}]

KeysOf(c) == {c.order[i] : i \in DOMAIN c.order}

Init == /\ rows \in SUBSET Keys
        /\ call = [t \in Tasks |-> Free]
        /\ calls = 0

\* Mutant: keys that others are writing are taken to be there.
BeginTrusting(t) ==
    /\ call[t].at # "write" /\ calls < MaxCalls
    /\ \E order \in Orders :
          call' = [call EXCEPT ![t] =
              [at |-> "write", order |-> order, held |-> {}, sets |-> FALSE,
               todo |-> {i \in DOMAIN order : order[i] \notin rows /\ \A u \in Tasks : order[i] \notin call[u].held}]]
    /\ calls' = calls + 1
    /\ UNCHANGED rows

\* An insert leaves out keys whose row the statement sees when it begins; a
\* statement that sets properties takes them all.
Begin(t) ==
    /\ call[t].at # "write" /\ calls < MaxCalls
    /\ \E order \in Orders, sets \in BOOLEAN :
          call' = [call EXCEPT ![t] =
              [at |-> "write", order |-> order, held |-> {}, sets |-> sets,
               todo |-> {i \in DOMAIN order : sets \/ order[i] \notin rows}]]
    /\ calls' = calls + 1
    /\ UNCHANGED rows

HeldBy(t) == IF call[t].at = "write" THEN call[t].held ELSE {}

Writing(t) == call[t].at = "write" /\ call[t].todo # {}

\* The key it comes to next.
Turn(t) == Min(call[t].todo)
Upcoming(t) == call[t].order[Turn(t)]

\* The task whose transaction t waits for.
WaitsFor(t, u) == t # u /\ Writing(t) /\ Upcoming(t) \in HeldBy(u)

\* Mutant: an insert without ON CONFLICT.
WriteOnce(t) ==
    LET c == call[t]
        k == Upcoming(t)
    IN  /\ Writing(t)
        /\ \A u \in Tasks : ~ WaitsFor(t, u)
        /\ call' = [call EXCEPT ![t] =
              IF k \in rows /\ ~ c.sets THEN [Free EXCEPT !.at = "raised", !.order = c.order]
              ELSE [c EXCEPT !.todo = @ \ {Turn(t)}, !.held = @ \union {k}]]
        /\ UNCHANGED <<rows, calls>>

\* ON CONFLICT: a row that was committed meanwhile is left, or updated.
Write(t) ==
    LET k == Upcoming(t)
    IN  /\ Writing(t)
        /\ \A u \in Tasks : ~ WaitsFor(t, u)
        /\ call' = [call EXCEPT ![t].todo = @ \ {Turn(t)},
                                ![t].held = IF k \in rows /\ ~ call[t].sets THEN @ ELSE @ \union {k}]
        /\ UNCHANGED <<rows, calls>>

Commit(t) ==
    /\ call[t].at = "write" /\ call[t].todo = {}
    /\ rows' = rows \union call[t].held
    /\ call' = [call EXCEPT ![t].at = "returned", ![t].held = {}]
    /\ UNCHANGED calls

\* Of calls that wait for each other in a circle one is aborted, its rows are gone.
Deadlock(t) ==
    /\ \E S \in SUBSET Tasks :
          t \in S /\ \A u \in S : (\E v \in S : WaitsFor(u, v)) /\ (\E v \in S : WaitsFor(v, u))
    /\ call' = [call EXCEPT ![t].at = "raised", ![t].held = {}]
    /\ UNCHANGED <<rows, calls>>

Next == \E t \in Tasks : Begin(t) \/ Write(t) \/ Commit(t) \/ Deadlock(t)

Spec == Init /\ [][Next]_vars

-----------------------------------------------------------------------------
\* t comes to x before it comes to y.
Precedes(t, x, y) ==
    LET order == call[t].order
    IN  call[t].at = "write" /\ \E i, k \in DOMAIN order : i < k /\ order[i] = x /\ order[k] = y

\* Keys of which each comes before another of them somewhere, two of them in t.
Crossed(t) ==
    \E C \in SUBSET Keys :
        /\ \E x, y \in C : Precedes(t, x, y)
        /\ \A x \in C : \E y \in C, u \in Tasks : Precedes(u, x, y)

(***************************************************************************)
(* tests/test_host_survey.py: "overlapping ensure/set ops from gathered     *)
(* tasks must serialize safely on the shared pool".  They do where each     *)
(* call writes one row, as there, or where the lists are in one order; a    *)
(* call raises only if its list and others being written cross: there are   *)
(* keys of which each stands before another of them in some call's list,    *)
(* two of them in its own.  Nothing sorts the lists, so that it happens.    *)
(***************************************************************************)
RaisesOnlyCrossed ==
    [][\A t \in Tasks : call[t].at = "write" /\ call'[t].at = "raised" => Crossed(t)]_vars

(***************************************************************************)
(* A call that returned has a row for each of its keys, also for those it   *)
(* left to a transaction that was aborted after all.                        *)
(***************************************************************************)
ReturnedIsThere == \A t \in Tasks : call[t].at = "returned" => KeysOf(call[t]) \subseteq rows
=============================================================================
