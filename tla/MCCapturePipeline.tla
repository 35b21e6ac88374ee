-------------------------- MODULE MCCapturePipeline --------------------------
(***************************************************************************)
(* One capture for TLC: in the model, as in the code for captures without  *)
(* duplicate memories, handlers of different captures share no row.  The   *)
(* content a yields a memory, art is a machine artifact.                   *)
(***************************************************************************)
EXTENDS CapturePipeline

CONSTANTS cap, a, art
=============================================================================
