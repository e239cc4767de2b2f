------------------------------- MODULE Passes -------------------------------
(***************************************************************************)
(* What is paid of one course and what is said of it: the payments as the    *)
(* forms write them (internal/payments, internal/store/payments.go), the     *)
(* warning that a paid period ends (internal/bot/billing.go), the            *)
(* reconciliation page (internal/audit/service.go) and the packs of the      *)
(* bot's balance line.  The bot's loop takes the courses one by one, so one  *)
(* is enough.  Amounts are left out; so are the messages about a payment     *)
(* itself, which are sent and forgotten.                                     *)
(***************************************************************************)
EXTENDS Audit

CONSTANTS
    Billings,     \* how the course may be billed
    PayForms,     \* what the form of a payment may hold
    VisitDates,   \* the dates that may have a visit
    CourseDays,   \* the days of the week of the course
    CourseAbsences,
    Notice,       \* how many days before the end the family is warned
    LowThreshold,
    LastDay,      \* bound: the clock stops here
    MaxPayments,  \* bound: payments ever made
    MaxPosts      \* bound: what people do

PassesAssumption ==
    /\ Billings \subseteq {"per_lesson", "monthly"}
    /\ {Notice, LowThreshold, LastDay, MaxPayments, MaxPosts} \subseteq Nat
    /\ VisitDates \subseteq Dates /\ LastDay \in 0 .. EndOfTime - 1
    /\ PayForms \subseteq [kind : {"course", "extra"}, date : Dates, lessons : Int,
                            month : {0} \cup Months]
    /\ CourseDays \subseteq 0 .. WeekLen - 1

ASSUME PassesAssumption

VARIABLES
    day,
    billing,   \* of the course
    paid,      \* table payments of the course
    journal,   \* table visits of the course: status by date
    claims,    \* table billing_reminders: the ends that were claimed
    warner,    \* where the pass over the balances is
    lastPay,   \* the last id of a payment
    posts,
    warned     \* history: the ends the group was warned of

passesVars == <<day, billing, paid, journal, claims, warner, lastPay, posts, warned>>

AtRest == [step |-> "rest"]

InitPasses ==
    /\ day \in 0 .. LastDay
    /\ billing \in Billings
    /\ paid = {}
    /\ journal = [d \in {} |-> ""]
    /\ claims = {}
    /\ warner = AtRest
    /\ lastPay = 0 /\ posts = 0
    /\ warned = <<>>

-----------------------------------------------------------------------------
(* The payments.                                                            *)

Post ==
    /\ posts < MaxPosts
    /\ posts' = posts + 1

\* What a form must hold is up to how the course is billed.
Acceptable(f, by) ==
    \/ f.kind = "extra"
    \/ f.kind = "course" /\ by = "monthly" /\ f.month # 0
    \/ f.kind = "course" /\ by = "per_lesson" /\ f.lessons > 0

Payment(id, f, by) ==
    [id |-> id, kind |-> f.kind, date |-> f.date,
     lessons |-> IF f.kind = "course" /\ by = "per_lesson" THEN f.lessons ELSE 0,
     month |-> IF f.kind = "course" /\ by = "monthly" THEN f.month ELSE 0]

CreatePass == \E f \in PayForms :
    /\ Post /\ lastPay < MaxPayments
    /\ Acceptable(f, billing)
    /\ lastPay' = lastPay + 1
    /\ paid' = paid \cup {Payment(lastPay', f, billing)}
    /\ UNCHANGED <<day, billing, journal, claims, warner, warned>>

\* A payment may become one of another kind, and of how the course is billed now.
UpdatePass == \E p \in paid, f \in PayForms :
    /\ Post
    /\ Acceptable(f, billing)
    /\ paid' = (paid \ {p}) \cup {Payment(p.id, f, billing)}
    /\ UNCHANGED <<day, billing, journal, claims, warner, lastPay, warned>>

DeletePass == \E p \in paid :
    /\ Post
    /\ paid' = paid \ {p}
    /\ UNCHANGED <<day, billing, journal, claims, warner, lastPay, warned>>

\* The course's form: its payments and visits stay as they are.
ChangeBilling == \E b \in Billings \ {billing} :
    /\ Post
    /\ billing' = b
    /\ UNCHANGED <<day, paid, journal, claims, warner, lastPay, warned>>

\* A visit is stored, changed or deleted, by the bot or a form.
Journal == \E d \in VisitDates, status \in {"done", "cancelled", "none"} :
    /\ Post
    /\ journal' = [e \in {x \in DOMAIN journal \cup {d} : x # d \/ status # "none"} |->
                      IF e = d THEN status ELSE journal[e]]
    /\ UNCHANGED <<day, billing, paid, claims, warner, lastPay, warned>>

NewDay ==
    /\ day < LastDay
    /\ day' = day + 1
    /\ UNCHANGED <<billing, paid, journal, claims, warner, lastPay, posts, warned>>

-----------------------------------------------------------------------------
(* The warning, once an hour and on every start.                            *)

Now == BalanceOf(billing, paid, journal, day)

dueForBillingReminder(bal) == billing = "monthly" /\ NoticeDue(bal, Notice)

sendDueBillingReminders ==
    /\ warner = AtRest
    /\ dueForBillingReminder(Now)
    /\ warner' = [step |-> "claim", until |-> Now.until]
    /\ UNCHANGED <<day, billing, paid, journal, claims, lastPay, posts, warned>>

\* Mutant of ClaimBillingReminder: only the latest claim is kept.
ClaimLatest ==
    /\ warner.step = "claim"
    /\ claims' = {warner.until}
    /\ warner' = IF warner.until \in claims THEN AtRest ELSE [warner EXCEPT !.step = "send"]
    /\ UNCHANGED <<day, billing, paid, journal, lastPay, posts, warned>>

\* INSERT OR IGNORE: who inserts the end may warn of it.
ClaimBillingReminder ==
    /\ warner.step = "claim"
    /\ claims' = claims \cup {warner.until}
    /\ warner' = IF warner.until \in claims THEN AtRest ELSE [warner EXCEPT !.step = "send"]
    /\ UNCHANGED <<day, billing, paid, journal, lastPay, posts, warned>>

\* The message goes out, or does not and is not tried again.
SendWarning ==
    /\ warner.step = "send"
    /\ \/ warned' = Append(warned, warner.until)
       \/ UNCHANGED warned
    /\ warner' = AtRest
    /\ UNCHANGED <<day, billing, paid, journal, claims, lastPay, posts>>

\* The process ends and is started again.
StartOver ==
    /\ warner # AtRest
    /\ warner' = AtRest
    /\ UNCHANGED <<day, billing, paid, journal, claims, lastPay, posts, warned>>

NextPasses ==
    \/ CreatePass \/ UpdatePass \/ DeletePass \/ ChangeBilling \/ Journal \/ NewDay
    \/ sendDueBillingReminders \/ ClaimBillingReminder \/ SendWarning \/ StartOver

SpecPasses == InitPasses /\ [][NextPasses]_passesVars

-----------------------------------------------------------------------------
(* The pages.                                                               *)

Marked == day \in DOMAIN journal

\* The reconciliation over one period, with the forecast when it ends ahead.
Build(range, from, to) ==
    LET bounds == resolveRange(paid, range, from, to, day)
        ledger == BuildLedger(AuditData(paid, journal, bounds.from, bounds.to))
        until == IF billing = "monthly" THEN Now.until ELSE NoDate
    IN  [from |-> bounds.from, to |-> bounds.to, ledger |-> ledger,
         forecast |-> BuildForecast(billing, CourseDays, CourseAbsences, ledger.closing, until,
                                    day, bounds.to, Marked)]

loadPacks ==
    IF billing = "monthly" \/ Now.remaining <= 0 THEN <<>>
    ELSE RemainingPacks(paid, Now.done,
             UpcomingDates(CourseDays, CourseAbsences, day, Marked, Now.remaining))

-----------------------------------------------------------------------------
(* Properties.                                                              *)

PassesTypeOK ==
    /\ day \in 0 .. LastDay
    /\ billing \in Billings
    /\ \A p \in paid : /\ p.id \in 1 .. lastPay /\ p.kind \in {"course", "extra"}
                       /\ p.lessons \in Nat /\ p.month \in {0} \cup Months
                       /\ p.lessons = 0 \/ p.month = 0
    /\ \A p, q \in paid : p.id = q.id => p = q
    /\ DOMAIN journal \subseteq VisitDates
    /\ claims \subseteq Dates
    /\ warner.step \in {"rest", "claim", "send"}

\* The group is never warned twice of one end: not after a restart, not by the
\* next hour, and not when payments are deleted or changed and the end moves on
\* and comes back ("a restart inside it must not produce a second message",
\* store/billing.go:8-9).
OneWarning ==
    /\ IsInjective(warned)
    /\ warner.step = "send" => warner.until \notin ToSet(warned)

\* The ledger is one story however it is cut: over any period its last line is
\* the closing balance, and two periods that meet agree on the balance between
\* them (only days with an entry and the days after make a difference here),
\* and over all time it is the balance of the dashboard.  The default period
\* opens at the last payment that bought something.  The packs of the bot add up
\* to the same balance, and the last of them ends on the date that the forecast
\* of the page calls paid through.
LedgerAgrees ==
    LET over(from, to) == BuildLedger(AuditData(paid, journal, from, to))
        whole == [to \in -1 .. EndOfTime |-> IF to < 0 THEN 0 ELSE over(NoDate, to).closing]
        happened == {p.date : p \in paid} \cup DOMAIN journal
        cuts == {d \in Dates : d \in happened \/ d - 1 \in happened}
        packs == loadPacks
        far == Build("custom", 0, EndOfTime)
        default == Build("last_payment", NoDate, NoDate)
        left == Running(0, [i \in DOMAIN packs |-> packs[i].left])
    IN  /\ \A from, to \in cuts : from <= to =>
              LET l == over(from, to)
              IN  /\ l.closing = whole[to]
                  /\ l.opening = whole[from - 1]
                  /\ l.rows # <<>> => Last(l.rows).balance = l.closing
        /\ whole[EndOfTime] = Now.remaining
        /\ \A p \in paid : p.kind = "course" => p.date <= default.from
        /\ billing = "per_lesson" =>
              left[Len(packs)] = IF Now.remaining > 0 THEN Now.remaining ELSE 0
        /\ packs # <<>> /\ Last(packs).through # NoDate =>
              far.forecast.paidThrough = Last(packs).through

\* What is paid ahead.  A monthly course is covered exactly on a paid day, to
\* the end of the days paid without a gap, and never shown empty while a day
\* ahead is paid.  What the page asks for by the lesson is enough and not too
\* much: that many lessons more and no date of the period is left unpaid, one
\* less and one is.  By the month it is enough where no month is shorter than the
\* one before it (the sum adds months to the last day): counted from the end of
\* the paid run, of now or the first ahead, that many months more reach the end of
\* the period; with nothing paid, so many after the month of the day before the
\* first lesson do, and when that month has the lesson too it is one more to buy.
\* Of the lessons before a run ahead, which the page takes for paid, nothing is
\* said.
PaidAhead ==
    LET days == UNION {p.from .. p.until : p \in coveragePeriods(paid)}
        page(to) == Build("custom", 0, to).forecast
        bought(f) == paid \cup {[id |-> lastPay + 1, kind |-> "course", date |-> 0,
                                 lessons |-> f, month |-> 0]}
        with(f, to) == BuildForecast(billing, CourseDays, CourseAbsences,
                          BuildLedger(AuditData(bought(f), journal, NoDate, to)).closing, NoDate,
                          day, to, Marked)
        month(d) == IF d < 0 THEN 0 ELSE MonthOf(d)
        last(n) == Min({n, Len(MonthLens)})
        reached(n) == FirstOf[last(n) + 1] - 1
    IN  /\ billing = "monthly" =>
              /\ Now.covered <=> day \in days
              /\ Now.covered => day .. Now.until \subseteq days /\ Now.until + 1 \notin days
              /\ State(billing, Now, Notice, LowThreshold) = "empty"
                    <=> \A d \in days : d < day
        /\ billing = "per_lesson" => \A to \in Dates : LET f == page(to) IN
              /\ with(f.topUp, to).topUp = 0
              /\ f.topUp > 0 => with(f.topUp - 1, to).topUp = 1
        /\ billing = "monthly" => \A to \in day + 1 .. EndOfTime :
              LET f == page(to)
                  begin == month(IF Now.until # NoDate THEN Now.until ELSE f.dates[1] - 1)
              IN  /\ f.uncovered > 0
                  /\ \A m \in Months : begin <= m /\ m < MonthOf(to) =>
                                          MonthLens[m] <= MonthLens[m + 1]
                  => f.topUp > 0 /\ reached(begin + f.topUp) >= to

=============================================================================
