----------------------------- MODULE Household -----------------------------
(***************************************************************************)
(* The parts of the household that share no state, side by side: the visits, *)
(* the meters, the timetable and the payments of a course.  A behaviour is   *)
(* one part's, chosen at the start; the others stay at their first state, and *)
(* the payments, which may start on any day, at one of theirs.               *)
(***************************************************************************)
EXTENDS Appointments, Meters, Timetable, Passes

VARIABLE part

householdVars == <<part, apptVars, meterVars, timetableVars, passesVars>>

InitHousehold ==
    /\ part \in {"visits", "meters", "timetable", "passes"}
    /\ InitAppointments /\ InitMeters /\ InitTimetable /\ InitPasses
    /\ part # "passes" => billing = "monthly" /\ day = LastDay

NextHousehold ==
    \/ /\ part = "visits" /\ NextAppointments
       /\ UNCHANGED <<part, meterVars, timetableVars, passesVars>>
    \/ /\ part = "meters" /\ NextMeters
       /\ UNCHANGED <<part, apptVars, timetableVars, passesVars>>
    \/ /\ part = "timetable" /\ NextTimetable
       /\ UNCHANGED <<part, apptVars, meterVars, passesVars>>
    \/ /\ part = "passes" /\ NextPasses
       /\ UNCHANGED <<part, apptVars, meterVars, timetableVars>>

SpecHousehold == InitHousehold /\ [][NextHousehold]_householdVars

\* Every part keeps its types.
HouseholdTypeOK == AppointmentsTypeOK /\ MetersTypeOK /\ TimetableTypeOK /\ PassesTypeOK

=============================================================================
