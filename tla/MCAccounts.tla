----------------------------- MODULE MCAccounts -----------------------------
(***************************************************************************)
(* The instance of Accounts that TLC checks.                               *)
(***************************************************************************)
EXTENDS Accounts, TLC

CONSTANTS r1, r2

Interchangeable == Permutations({r1, r2})

=============================================================================
