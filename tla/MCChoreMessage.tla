--------------------------- MODULE MCChoreMessage ---------------------------
(***************************************************************************)
(* Small instances of ChoreMessage for TLC.                                *)
(***************************************************************************)
EXTENDS ChoreMessage

CONSTANTS c1, c2, t1, t2

\* Two chores of one minute, and the message that lists both.
Both == {<<c1, 0>>, <<c2, 0>>}

=============================================================================
