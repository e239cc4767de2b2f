---------------------------- MODULE MCChorePush ----------------------------
(***************************************************************************)
(* Small instances of ChorePush for TLC.                                   *)
(***************************************************************************)
EXTENDS ChorePush

CONSTANT c1

=============================================================================
