----------------------------- MODULE MCJobQueue -----------------------------
(***************************************************************************)
(* A small queue for TLC: one embedding job (its row can be deleted and    *)
(* revived) and one source sync, two workers.                              *)
(***************************************************************************)
EXTENDS JobQueue, TLC

CONSTANTS embed, sync

MCJobs == {embed, sync}
MCKind == (embed :> "embed_memory") @@ (sync :> "source_account_sync")
MCMaxAttempts == (embed :> 2) @@ (sync :> 2)
Symmetry == Permutations(Workers)
=============================================================================
