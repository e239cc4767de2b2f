--------------------------- MODULE MCAppointments ---------------------------
EXTENDS Appointments

CONSTANTS u1, t1, t2, h1

MCUsers == {u1}
MCTitles == {t1, t2}
Visit(t, p, at) ==
    [title |-> t, person |-> p, starts |-> at, status |-> "planned", cost |-> NoCost]
MCCaptures == {<<Visit(t1, "", 1)>>, <<Visit(t2, Self, 1)>>}
MCForms == {Visit(t1, Self, 4)}
MCMoments == {8}
MCAmounts == {0}
MCClerks == {h1}
=============================================================================
