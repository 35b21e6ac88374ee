------------------------------ MODULE MCKeyring ------------------------------
(* The instance of Keyring that TLC checks. *)
EXTENDS Keyring
=============================================================================
