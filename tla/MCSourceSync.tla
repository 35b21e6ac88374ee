---------------------------- MODULE MCSourceSync ----------------------------
(* The instances of SourceSync that TLC checks. *)
EXTENDS SourceSync
=============================================================================
