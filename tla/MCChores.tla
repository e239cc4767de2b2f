------------------------------ MODULE MCChores ------------------------------
(***************************************************************************)
(* Small instances of Chores for TLC.                                      *)
(***************************************************************************)
EXTENDS Chores

CONSTANTS c1, r1, r2, ticker, reader, m1, e1

\* Two texts that share an instant and differ in one, so that an amendment
\* moves an occurrence and keeps another.
TwoTexts == {{0, 1}, {1, 2}}

\* One text, for the run with two versions: what changes is where they start.
OneText == {{0, 2}}

=============================================================================
