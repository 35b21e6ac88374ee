------------------------------ MODULE MCAccounts ------------------------------
(***************************************************************************)
(* Requests are alike, and so are accounts and sessions.                   *)
(***************************************************************************)
EXTENDS Accounts, TLC

Symmetry == Permutations(Requests) \cup Permutations(SessionIds)
            \cup Permutations(AccountIds) \cup Permutations(FlowIds) \cup Permutations(Subjects)
=============================================================================
