------------------------------ MODULE MCLessons ------------------------------
(***************************************************************************)
(* One course with two lessons on the first day and one on the second, so   *)
(* late that its reminder would fall into the third, and a lesson owed for. *)
(***************************************************************************)
EXTENDS Lessons, TLC

CONSTANTS c1, h1, h2

MCCourses == {c1}
MCHandlers == {h1, h2}
MCTimetable == [d \in 0..1 |-> IF d = 0 THEN <<<<1, c1>>, <<2, c1>>>> ELSE <<<<2, c1>>>>]
MCNotice == [c \in MCCourses |-> 1]
MCOpening == [c \in MCCourses |-> -1]

MCSymmetry == Permutations({h1, h2})

=============================================================================
