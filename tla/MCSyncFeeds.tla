----------------------------- MODULE MCSyncFeeds -----------------------------
(***************************************************************************)
(* Two devices for TLC: the user works on mac, and the store of air has    *)
(* a policy that asks for review.                                          *)
(***************************************************************************)
EXTENDS SyncFeeds

CONSTANTS mac, air
=============================================================================
