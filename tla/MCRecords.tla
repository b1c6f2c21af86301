----------------------------- MODULE MCRecords ------------------------------
(***************************************************************************)
(* Instances of Records for TLC.                                           *)
(***************************************************************************)
EXTENDS Records, TLC

CONSTANTS x1, x2, r1, r2

\* One row of any table; a second one where rows of a table are unique.
MCTables == x1 :> AllTables @@ x2 :> {"item", "billing"}

Interchangeable == Permutations({r1, r2})
=============================================================================
