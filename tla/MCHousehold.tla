---------------------------- MODULE MCHousehold ----------------------------
(***************************************************************************)
(* A small household for TLC: two visits, one address with two tariffs, a    *)
(* course of one trainer, three short months.                               *)
(***************************************************************************)
EXTENDS Household, TLC

CONSTANTS u1, t1, t2, h1, h2, \* visits
          d1, d2,             \* meters
          tr                  \* timetable

Handlers == Permutations({h1, h2}) \cup Permutations({d1, d2})

MCUsers == {u1}
MCTitles == {t1, t2}
Visit(t, p, at) ==
    [title |-> t, person |-> p, starts |-> at, status |-> "planned", cost |-> NoCost]
MCCaptures == {<<Visit(t1, "", 0)>>, <<Visit(t2, Self, 0)>>}
MCForms == {Visit(t1, Self, 8), [Visit(t1, Self, 8) EXCEPT !.status = "cancelled"],
            [Visit(t1, u1, 0) EXCEPT !.title = ""]}
MCMoments == {8}
MCAmounts == {0}
MCClerks == {h1, h2}

Rates(k, r1, r2) == [kind |-> k, unit |-> NoValue, rate1 |-> r1, rate2 |-> r2]
Stored(k, r1, r2) ==
    [active |-> TRUE, kind |-> k, unit |-> NoValue, rate1 |-> r1, rate2 |-> r2]
MCSeedAddresses == <<TRUE>>
MCSeedTariffs == <<Stored("meter_zoned", 1, 2), Stored("meter", 3, NoValue)>>
MCSeedUtilities == <<[address |-> 1, name |-> "gas", tariff |-> 1, active |-> TRUE]>>
MCNames == {"gas"}
MCPeriods == {1, 2}
MCTariffForms == {Rates("meter", 2, NoValue), Rates("flat", 5, NoValue),
                  [Rates("meter_zoned", Absent, 3) EXCEPT !.unit = Absent]}
MCReadingForms ==
    {[period |-> p, prev1 |-> 0, curr1 |-> 2, prev2 |-> 1, curr2 |-> 2, paid |-> FALSE] :
        p \in MCPeriods}
    \cup {[period |-> 1, prev1 |-> NoValue, curr1 |-> NoValue, prev2 |-> 1, curr2 |-> NoValue,
           paid |-> TRUE]}
MCDesks == {d1, d2}

Course(m, t, a) == [mode |-> m, trainer |-> t, active |-> a]
MCTrainers == {tr}
MCCourseForms == {Course("per_session", tr, TRUE), Course("exceptions_only", tr, TRUE),
                  Course("per_session", Nobody, FALSE), Course("", tr, TRUE)}
MCSlotForms == {[weekday |-> 0, time |-> 1], [weekday |-> 1, time |-> 0],
                [weekday |-> 2, time |-> 0]}
MCAbsences == {[trainer |-> tr, from |-> 1, to |-> 2], [trainer |-> tr, from |-> 2, to |-> 1]}

Paying(k, d, l, m) == [kind |-> k, date |-> d, lessons |-> l, month |-> m]
MCBillings == {"per_lesson", "monthly"}
MCPayForms == {Paying("course", 0, 1, 1), Paying("course", 2, 2, 2), Paying("extra", 3, 0, 0),
               Paying("course", 1, 0, 0)}
MCVisitDates == {0, 2}
MCCourseDays == {0}
MCCourseAbsences == {[from |-> 2, to |-> 2]}
MCMonthLens == <<1, 2, 2>>
=============================================================================
