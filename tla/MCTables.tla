------------------------------ MODULE MCTables ------------------------------
(***************************************************************************)
(* TableParts with a task each of two processes, on two labels and one      *)
(* edge; and with two transactions at a time beside the snapshot scripts,   *)
(* as when two of a crawler's workers find new actors at once.              *)
(***************************************************************************)
EXTENDS TableParts, TLC

CONSTANTS a, b, p1, p2, t1, t2

OneHome == (t1 :> p1) @@ (t2 :> p2)
OneLink == {<<a, b>>}
=============================================================================
