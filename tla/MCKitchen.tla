------------------------------ MODULE MCKitchen ------------------------------
(***************************************************************************)
(* Small instances of Kitchen for TLC.                                     *)
(***************************************************************************)
EXTENDS Kitchen, TLC

CONSTANTS borscht, ramen, lunch, dinner, h1, h2

\* One dish of the family, eaten yesterday, and one nobody has suggested yet.
OneKnown == [d \in {borscht, ramen} |-> IF d = borscht THEN "active" ELSE "none"]

Symmetry == Permutations({h1, h2}) \cup Permutations({lunch, dinner})

==============================================================================
