------------------------------- MODULE Audit -------------------------------
(***************************************************************************)
(* What is worked out of the payments and visits of one course: the balance *)
(* and the paid period (internal/store/store.go), the ledger, the forecast,  *)
(* the packs a balance is made of (internal/audit, internal/store/audit.go). *)
(* Operators only.  A date is a natural number, the first day of the first   *)
(* month is 0; amounts, comments and the text that is sent are left out.     *)
(***************************************************************************)
EXTENDS Integers, Sequences, FiniteSets, SequencesExt, FiniteSetsExt

CONSTANTS
    WeekLen,   \* days in a week
    MonthLens  \* the length of each month

AuditAssumption ==
    /\ WeekLen \in Nat \ {0}
    /\ MonthLens \in Seq(Nat \ {0}) /\ MonthLens # <<>>

ASSUME AuditAssumption

NoDate == -1
Months == DOMAIN MonthLens

\* The first day of each month, and of the one after the last.
FirstOf[m \in 1 .. Len(MonthLens) + 1] ==
    IF m = 1 THEN 0 ELSE FirstOf[m - 1] + MonthLens[m - 1]

EndOfTime == FirstOf[Len(MonthLens) + 1] - 1
Dates == 0 .. EndOfTime

MonthOf(d) == CHOOSE m \in Months : FirstOf[m] <= d /\ d < FirstOf[m + 1]

\* A payment's coverage is one whole month.
monthRange(m) == [from |-> FirstOf[m], until |-> FirstOf[m + 1] - 1]

\* AddDate(0, 1, 0): the same day of the next month, counted on when it has none.
NextMonth(d) == FirstOf[MonthOf(d) + 1] + (d - FirstOf[MonthOf(d)])

\* The elements of S in order; before has the pairs of which the first comes sooner.
InOrder(S, before) ==
    [n \in 1 .. Cardinality(S) |->
        CHOOSE x \in S : Cardinality({y \in S : <<y, x>> \in before}) = n - 1]

\* What there is after each of the moves.
Running(start, moves) ==
    LET sum[i \in 0 .. Len(moves)] == IF i = 0 THEN start ELSE sum[i - 1] + moves[i]
    IN  sum

-----------------------------------------------------------------------------
(* The balance.                                                             *)

SumOf(S) == SumFunctionOnSet([p \in S |-> p.lessons], S)

Attended(visits) == {d \in DOMAIN visits : visits[d] = "done"}

coveragePeriods(payments) ==
    {monthRange(p.month) : p \in {q \in payments : q.kind = "course" /\ q.month # 0}}

ByFrom(periods) == InOrder(periods, {r \in periods \X periods : r[1].from < r[2].from})

Extended(end, p) == IF p.from <= end + 1 /\ p.until > end THEN p.until ELSE end

\* Where one gets to from end along the periods.
EndOfRun(end, sorted) ==
    LET reach[i \in 0 .. Len(sorted)] ==
            IF i = 0 THEN end ELSE Extended(reach[i - 1], sorted[i])
    IN  reach[Len(sorted)]

Covering(periods, today) == ByFrom({p \in periods : p.from <= today /\ today <= p.until})

\* Mutant of coverageFromToday: what begins the day after is not joined.
coverageOfOne(periods, today) ==
    LET now == Covering(periods, today)
    IN  IF now = <<>> THEN NoDate ELSE now[1].until

\* The end of the run of paid days that today is in, if it is in one.
coverageFromToday(periods, today) ==
    LET now == Covering(periods, today)
    IN  IF now = <<>> THEN NoDate ELSE EndOfRun(now[1].until, ByFrom(periods))

\* The first run of paid days ahead.
upcomingCoverage(periods, today) ==
    LET ahead == ByFrom({p \in periods : p.from > today})
    IN  IF ahead = <<>> THEN [from |-> NoDate, until |-> NoDate]
        ELSE [from |-> ahead[1].from, until |-> EndOfRun(ahead[1].until, ahead)]

\* The row of one course.
BalanceOf(billing, payments, visits, today) ==
    LET periods == coveragePeriods(payments)
        end == coverageFromToday(periods, today)
        ahead == upcomingCoverage(periods, today)
        monthly == billing = "monthly"
        covered == monthly /\ end # NoDate
    IN  [remaining |-> SumOf(payments) - Cardinality(Attended(visits)),
         done |-> Cardinality(Attended(visits)),
         covered |-> covered,
         until |-> IF covered THEN end ELSE IF monthly THEN ahead.until ELSE NoDate,
         left |-> IF covered THEN end - today ELSE 0,
         prepaid |-> IF monthly /\ ~covered THEN ahead.from ELSE NoDate]

\* A notice in days; none when it is 0.
NoticeDue(bal, notice) == notice > 0 /\ bal.covered /\ bal.left <= notice

State(billing, bal, notice, low) ==
    CASE billing = "monthly" /\ ~bal.covered ->
            IF bal.prepaid # NoDate THEN "ok" ELSE "empty"
      [] billing = "monthly" /\ bal.covered -> IF NoticeDue(bal, notice) THEN "low" ELSE "ok"
      [] OTHER -> IF bal.remaining <= 0 THEN "empty" ELSE IF bal.remaining <= low THEN "low" ELSE "ok"

-----------------------------------------------------------------------------
(* The ledger of a period.  A period without a beginning has NoDate there.   *)

\* Mutant of AuditData: the opening balance has the first day in it.
AuditDataTwice(payments, visits, from, to) ==
    LET within(d) == from <= d /\ d <= to
        before(d) == from # NoDate /\ d <= from
    IN  [payments |-> {p \in payments : within(p.date)},
         visits |-> [d \in {e \in DOMAIN visits : within(e)} |-> visits[d]],
         opening |-> SumOf({p \in payments : before(p.date)})
                     - Cardinality({d \in Attended(visits) : before(d)})]

AuditData(payments, visits, from, to) ==
    LET within(d) == from <= d /\ d <= to
        before(d) == from # NoDate /\ d < from
    IN  [payments |-> {p \in payments : within(p.date)},
         visits |-> [d \in {e \in DOMAIN visits : within(e)} |-> visits[d]],
         opening |-> SumOf({p \in payments : before(p.date)})
                     - Cardinality({d \in Attended(visits) : before(d)})]

\* Extras do not count.
LastPaymentDate(payments) ==
    LET dates == {p.date : p \in {q \in payments : q.kind = "course"}}
    IN  IF dates = {} THEN NoDate ELSE Max(dates)

\* The lines of a ledger, oldest first, a payment before the lesson of its day.
\* A payment moves the balance by its lessons, an extra has none.
BuildLedger(d) ==
    LET paid == {[date |-> p.date, order |-> p.id, kind |-> p.kind, moves |-> p.lessons] :
                    p \in d.payments}
        held == {[date |-> v, order |-> 0, kind |-> d.visits[v],
                  moves |-> IF d.visits[v] = "done" THEN -1 ELSE 0] : v \in DOMAIN d.visits}
        first(a, b) == \/ a.date < b.date
                       \/ a.date = b.date /\ a.order # 0 /\ (b.order = 0 \/ a.order < b.order)
        all == paid \cup held
        lines == InOrder(all, {r \in all \X all : first(r[1], r[2])})
        balance == Running(d.opening, [i \in DOMAIN lines |-> lines[i].moves])
    IN  [rows |-> [i \in DOMAIN lines |-> [date |-> lines[i].date, kind |-> lines[i].kind,
                                           balance |-> balance[i]]],
         opening |-> d.opening,
         closing |-> balance[Len(lines)]]

\* The period a page is asked for; only one given by hand may end ahead.
resolveRange(payments, range, from, to, today) ==
    CASE range = "last_payment" -> [from |-> LastPaymentDate(payments), to |-> today]
      [] range = "month"        -> [from |-> FirstOf[MonthOf(today)], to |-> today]
      [] range = "all"          -> [from |-> NoDate, to |-> today]
      [] range = "custom"       -> IF from <= to THEN [from |-> from, to |-> to]
                                   ELSE [from |-> LastPaymentDate(payments), to |-> today]

-----------------------------------------------------------------------------
(* The lessons ahead.                                                       *)

absentOn(d, absences) == \E a \in absences : a.from <= d /\ d <= a.to

\* The dates of a course from one day to another, by its days of the week, in order.
DatesOf(weekdays, absences, from, to) ==
    LET dates == {d \in from .. to : d % WeekLen \in weekdays /\ ~absentOn(d, absences)}
    IN  InOrder(dates, {r \in dates \X dates : r[1] < r[2]})

\* Today's lesson is ahead until it has a visit.
FirstAhead(today, marked) == IF marked THEN today + 1 ELSE today

\* The next n of them; fewer at the horizon.
UpcomingDates(weekdays, absences, today, marked, n) ==
    LET all == DatesOf(weekdays, absences, FirstAhead(today, marked), EndOfTime)
    IN  SubSeq(all, 1, IF n < Len(all) THEN n ELSE Len(all))

\* How many months take one from a day to the end, or past it.
MonthsFrom(to) ==
    LET months[d \in -1 .. 2 * EndOfTime + 1] ==
            IF d >= to THEN 0 ELSE 1 + months[IF d < 0 THEN MonthLens[1] - 1 ELSE NextMonth(d)]
    IN  months

\* Whole months until the end is reached, from what is paid or from the day
\* before the first lesson.
monthsToCover(until, dates, uncovered, to) ==
    IF uncovered = 0 THEN 0
    ELSE MonthsFrom(to)[IF until # NoDate THEN until ELSE dates[1] - 1]

\* The dates ahead up to one day, how many are paid for, and what is to be paid.
BuildForecast(billing, weekdays, absences, closing, until, today, to, marked) ==
    LET dates == IF to <= today \/ weekdays = {} THEN <<>>
                 ELSE DatesOf(weekdays, absences, FirstAhead(today, marked), to)
        monthly == billing = "monthly"
        stock == IF monthly \/ closing < 0 THEN 0 ELSE closing
        debt == IF monthly \/ closing >= 0 \/ to <= today \/ weekdays = {} THEN 0 ELSE -closing
        covered(i) == IF monthly THEN until # NoDate /\ dates[i] <= until ELSE i <= stock
        paid == {i \in DOMAIN dates : covered(i)}
        uncovered == Len(dates) - Cardinality(paid)
    IN  [dates |-> dates, uncovered |-> uncovered, debt |-> debt,
         paidThrough |-> IF paid = {} THEN NoDate ELSE dates[Max(paid)],
         topUp |-> IF monthly THEN monthsToCover(until, dates, uncovered, to)
                   ELSE uncovered + debt]

\* The lessons paid and not spent, by payment: the oldest are spent first, so
\* what has some left is the end of the list.
RemainingPacks(payments, done, dates) ==
    LET bought == {p \in payments : p.kind = "course" /\ p.lessons > 0}
        first(p, q) == p.date < q.date \/ (p.date = q.date /\ p.id < q.id)
        packs == InOrder(bought, {r \in bought \X bought : first(r[1], r[2])})
        paid == Running(0, [i \in DOMAIN packs |-> packs[i].lessons])
        spent == Max({i \in 0 .. Len(packs) : paid[i] <= done})
        through(n) == IF n \in DOMAIN dates THEN dates[n] ELSE NoDate
        pack(i) == [size |-> packs[i].lessons,
                    left |-> paid[i] - (IF done > paid[i - 1] THEN done ELSE paid[i - 1]),
                    through |-> through(paid[i] - done)]
    IN  [n \in 1 .. Len(packs) - spent |-> pack(spent + n)]

=============================================================================
