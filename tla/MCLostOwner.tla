---------------------------- MODULE MCLostOwner ----------------------------
(***************************************************************************)
(* An owner, the friend and one more guardian.                             *)
(***************************************************************************)
EXTENDS LostOwner

CONSTANTS owner, friend, other
=============================================================================
