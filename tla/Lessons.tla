------------------------------ MODULE Lessons ------------------------------
(***************************************************************************)
(* Lessons that are paid for one by one: the visits and the payments, the   *)
(* minute ticker that asks about each lesson and warns when nothing is paid *)
(* for the next, and the people who answer its buttons, use /add or edit    *)
(* rows in the web and the Mini App (internal/bot/scheduler.go,             *)
(* callbacks.go, topup.go; internal/payments; internal/store).              *)
(*                                                                         *)
(* The grain is one store call or one message.  Time is in minutes, DayLen  *)
(* of them to a day.  Prices, comments, who did it and the announcements of *)
(* payments are left out, and so are edits of the timetable.                *)
(***************************************************************************)
EXTENDS Integers, Sequences, FiniteSets, FiniteSetsExt

CONSTANTS
    Courses,
    Handlers,   \* handlers of buttons that may be in flight at one time
    DayLen,     \* minutes in a day
    FirstDay, LastDay, \* the process starts on FirstDay, the timetable ends with LastDay
    Timetable,  \* the lessons of each day, <<minute, course>>, earliest first
    Delay,      \* the reminder comes this long after the lesson begins
    Notice,     \* payment_notice_min of each course
    WeekLen,    \* days in a week; day 0 is its last
    Opening,    \* the balance of each course before the rows of the model
    MaxActs,    \* bound: what people do
    MaxStops    \* bound: how often the process ends

Days == 0..LastDay
Key == Courses \X Days

LessonsAssumption ==
    /\ DayLen \in Nat \ {0, 1}
    /\ LastDay \in Nat /\ FirstDay \in Days
    /\ Timetable \in [Days -> Seq((0 .. DayLen - 1) \X Courses)]
    /\ Delay \in Nat
    /\ Notice \in [Courses -> Nat]
    /\ WeekLen \in Nat \ {0}
    /\ Opening \in [Courses -> Int]
    /\ MaxActs \in Nat /\ MaxStops \in Nat

ASSUME LessonsAssumption

VARIABLES
    visit,    \* table visits, unique by course and date
    pays,     \* table payments
    ids,      \* the last id given out
    msgs,     \* what the bot has posted, in this order
    now, due, \* the clock; the tick waiting in the ticker's channel
    tick,     \* what the ticker's pass has read
    said,     \* the ticker's maps: whom it has reminded and warned, on which date
    taken,    \* paidTaps
    job,      \* what each handler in flight has read
    acts, stops, \* how often people did something, and the process ended
    \* History, read by properties only.
    marked,   \* the lessons that ever had a visit
    touched,  \* the lessons whose visit was edited or deleted
    stray,    \* the courses whose balance changed in a way no warning foresees
    troubled, \* the days with a lost tick, an error or a restart
    torn      \* the warnings the process ended at between payment and edit

tables == <<visit, pays, ids>>
history == <<marked, touched, stray, troubled, torn>>
vars == <<tables, msgs, now, due, tick, said, taken, job, acts, stops, history>>

Status == {"done", "missed"}
NoVisit == [id |-> 0, status |-> "none"]
NoTick == -1
Idle == [step |-> "idle"]
Fresh(date) == [date |-> date, reminded |-> {}, warned |-> {}]

Date(t) == t \div DayLen
HasLesson(c, d) == \E i \in DOMAIN Timetable[d] : Timetable[d][i][2] = c

Init ==
    /\ visit = [k \in Key |-> NoVisit]
    /\ pays = {}
    /\ ids = 0
    /\ msgs = <<>>
    /\ now = FirstDay * DayLen
    /\ due = NoTick
    /\ tick = Idle
    /\ said = Fresh(NoTick)
    /\ taken = {}
    /\ job = [h \in Handlers |-> Idle]
    /\ acts = 0
    /\ stops = 0
    /\ marked = {}
    /\ touched = {}
    /\ stray = {}
    /\ troubled = {}
    /\ torn = {}

-----------------------------------------------------------------------------
(* The tables.                                                              *)

Exists(k) == visit[k] # NoVisit

\* Paid less attended.
Balance(c) ==
    Opening[c] + SumFunction([p \in pays |-> IF p.course = c THEN p.lessons ELSE 0])
        - Cardinality({k \in Key : k[1] = c /\ visit[k].status = "done"})

\* Days whose lessons a warning has counted on, or is about to: a lesson of an
\* earlier day that is marked now was not owed then.
Counted(c) ==
    {msgs[i].day : i \in {j \in DOMAIN msgs : msgs[j].kind = "warn" /\ msgs[j].course = c}}
    \cup (IF tick.step = "offer" /\ tick.course = c THEN {Date(tick.at)} ELSE {})

Unforeseen(k) == ~HasLesson(k[1], k[2]) \/ \E d \in Counted(k[1]) : k[2] < d

\* The row of k becomes v.
PutVisit(k, v) ==
    /\ visit' = [visit EXCEPT ![k] = v]
    /\ marked' = marked \cup {k}
    /\ stray' = IF v.status = "done" /\ Unforeseen(k) THEN stray \cup {k[1]} ELSE stray

\* Mutant of CreateVisit: the conflict is resolved for the later tap.
CreateVisitOver(k, s) ==
    /\ PutVisit(k, [id |-> ids + 1, status |-> s])
    /\ ids' = ids + 1

\* CreateVisit: the unique index decides, not an earlier look.
CreateVisit(k, s) ==
    IF Exists(k)
    THEN UNCHANGED <<visit, ids, marked, stray>>
    ELSE /\ PutVisit(k, [id |-> ids + 1, status |-> s])
         /\ ids' = ids + 1

CreatePayment(c, n, from) ==
    /\ pays' = pays \cup {[id |-> ids + 1, course |-> c, lessons |-> n, from |-> from]}
    /\ ids' = ids + 1

-----------------------------------------------------------------------------
(* The ticker.                                                              *)

\* A minute passes.  The channel of a ticker holds one tick, the next is dropped.
Minute ==
    /\ now < DayLen * (LastDay + 1)
    /\ now' = now + 1
    /\ due' = IF due = NoTick THEN now + 1 ELSE due
    /\ troubled' = IF due = NoTick THEN troubled ELSE troubled \cup {Date(now + 1)}
    /\ UNCHANGED <<tables, msgs, tick, said, taken, job, marked, touched, stray, torn>>

TickOnly(t) ==
    /\ tick' = t
    /\ UNCHANGED <<tables, msgs, now, due, taken, job, marked, touched, stray, torn>>

\* Mutant of TickStart: the maps are kept over midnight.
TickStartKeeps ==
    /\ tick = Idle
    /\ due # NoTick
    /\ due' = NoTick
    /\ tick' = [step |-> "warn", at |-> due,
                left |-> IF Date(due) \in Days THEN Timetable[Date(due)] ELSE <<>>]
    /\ said' = [said EXCEPT !.date = Date(due)]
    /\ UNCHANGED <<tables, msgs, now, taken, job, history>>

\* RunScheduler, sendDueReminders: the maps are of one day; the slots are read.
TickStart ==
    /\ tick = Idle
    /\ due # NoTick
    /\ due' = NoTick
    /\ LET date == Date(due)
       IN  /\ tick' = [step |-> "warn", at |-> due,
                       left |-> IF date \in Days THEN Timetable[date] ELSE <<>>]
           /\ said' = IF said.date = date THEN said ELSE Fresh(date)
    /\ UNCHANGED <<tables, msgs, now, taken, job, history>>

\* SlotsForWeekday fails: the tick is lost.
TickFail ==
    /\ tick = Idle
    /\ due # NoTick
    /\ due' = NoTick
    /\ said' = IF said.date = Date(due) THEN said ELSE Fresh(Date(due))
    /\ troubled' = troubled \cup {Date(due)}
    /\ UNCHANGED <<tables, msgs, now, tick, taken, job, marked, touched, stray, torn>>

TickDone ==
    /\ tick.step = "warn"
    /\ tick.left = <<>>
    /\ TickOnly(Idle)
    /\ UNCHANGED <<said, troubled>>

\* The slot at hand, its course, and when it begins.
Course == Head(tick.left)[2]
Today == Date(tick.at)
Begins == Today * DayLen + Head(tick.left)[1]

Remind == [tick EXCEPT !.step = "remind"]
NextSlot == [tick EXCEPT !.step = "warn", !.left = Tail(@)]

AtSlot(step) == tick.step = step /\ tick.left # <<>>

WarnWindow == Begins - Notice[Course] <= tick.at /\ tick.at < Begins

\* warnEmptyBalance up to its first query, VisitExistsForDate.
WarnCheck ==
    /\ AtSlot("warn")
    /\ LET open   == Course \notin said.warned /\ WarnWindow
           exists == Exists(<<Course, Today>>)
       IN  /\ TickOnly(IF open /\ ~exists THEN [tick EXCEPT !.step = "balance"] ELSE Remind)
           /\ said' = IF open /\ exists THEN [said EXCEPT !.warned = @ \cup {Course}] ELSE said
    /\ UNCHANGED troubled

\* How far the offers reach: today, the end of this week, two weeks past that.
Horizons ==
    LET weekEnd == Today + (-Today % WeekLen)
    IN  {Today, weekEnd, weekEnd + 2 * WeekLen}

\* The dates of the lessons that pay for all up to the horizon.
Through(h) == {d \in Today..h : d \in Days /\ HasLesson(Course, d)}

\* Mutant of Offers: the horizon itself is taken for the last lesson.
OffersHorizon(balance) ==
    {[lessons |-> Cardinality(Through(h)) + (IF balance < 0 THEN -balance ELSE 0),
      through |-> h] : h \in Horizons}

\* Mutant of Offers: the debt is forgotten.
OffersBare(balance) ==
    {[lessons |-> Cardinality(Through(h)), through |-> Max(Through(h))] : h \in Horizons}

\* topUpOptions: a debt rides on every offer.
Offers(balance) ==
    {[lessons |-> Cardinality(Through(h)) + (IF balance < 0 THEN -balance ELSE 0),
      through |-> Max(Through(h))] : h \in Horizons}

\* BalanceFor; only an empty balance is warned about.  A course without a price,
\* or a failed read of its slots, costs the offers, not the warning.
WarnBalance ==
    /\ AtSlot("balance")
    /\ \E offers \in {Offers(Balance(Course)), {}} :
         TickOnly(IF Balance(Course) > 0 THEN Remind
                  ELSE [step |-> "offer", at |-> tick.at, left |-> tick.left, course |-> Course,
                        offers |-> offers])
    /\ UNCHANGED <<said, troubled>>

Post(m) == msgs' = Append(msgs, m)

\* The warning is posted; one that Telegram reported as failed is not noted, and
\* may have arrived.
WarnSend ==
    /\ AtSlot("offer")
    /\ \E arrived, ok \in BOOLEAN :
         /\ ok => arrived
         /\ IF arrived
            THEN Post([kind |-> "warn", course |-> Course, day |-> Today, text |-> "open",
                       offers |-> tick.offers])
            ELSE UNCHANGED msgs
         /\ said' = IF ok THEN [said EXCEPT !.warned = @ \cup {Course}] ELSE said
         /\ troubled' = IF ok THEN troubled ELSE troubled \cup {Today}
    /\ tick' = [step |-> "remind", at |-> tick.at, left |-> tick.left]
    /\ UNCHANGED <<tables, now, due, taken, job, marked, touched, stray, torn>>

\* Mutant of ReminderDue: it may be tomorrow.
ReminderDueLater == Begins + Delay

\* slotDue: not past the last minute of the day.
ReminderDue ==
    LET end == (Today + 1) * DayLen - 1
    IN  IF Begins + Delay > end THEN end ELSE Begins + Delay

\* remindSlot: once a day, and only while nothing is marked.
RemindCheck ==
    /\ AtSlot("remind")
    /\ LET open   == Course \notin said.reminded /\ tick.at >= ReminderDue
           exists == Exists(<<Course, Today>>)
       IN  /\ TickOnly(IF open /\ ~exists THEN [tick EXCEPT !.step = "ask"] ELSE NextSlot)
           /\ said' = IF open /\ exists THEN [said EXCEPT !.reminded = @ \cup {Course}] ELSE said
    /\ UNCHANGED troubled

\* Mutant of RemindSend: whom it asked is not noted.
RemindSendForgets ==
    /\ AtSlot("ask")
    /\ Post([kind |-> "ask", key |-> <<Course, Today>>, text |-> "open"])
    /\ tick' = NextSlot
    /\ UNCHANGED <<tables, now, due, said, taken, job, history>>

\* A reminder counts as sent when it was not.
RemindSend ==
    /\ AtSlot("ask")
    /\ \E arrived, ok \in BOOLEAN :
         /\ ok => arrived
         /\ IF arrived
            THEN Post([kind |-> "ask", key |-> <<Course, Today>>, text |-> "open"])
            ELSE UNCHANGED msgs
         /\ troubled' = IF arrived THEN troubled ELSE troubled \cup {Today}
    /\ said' = [said EXCEPT !.reminded = @ \cup {Course}]
    /\ tick' = NextSlot
    /\ UNCHANGED <<tables, now, due, taken, job, marked, touched, stray, torn>>

\* A query of the pass fails: the course is left for the next tick.
TickError ==
    /\ tick # Idle /\ tick.left # <<>>
    /\ tick.step \in {"warn", "balance", "remind"}
    /\ TickOnly(IF tick.step = "remind" THEN NextSlot ELSE Remind)
    /\ troubled' = troubled \cup {Today}
    /\ UNCHANGED said

-----------------------------------------------------------------------------
(* The buttons.                                                             *)

Goto(h, j) == job' = [job EXCEPT ![h] = j]

Press(h, j) ==
    /\ job[h].step = "idle"
    /\ Goto(h, j)
    /\ UNCHANGED <<tables, msgs, now, due, tick, said, history>>

Working(h, step) == job[h].step = step

Edit(i, text, says) ==
    [step |-> "edit", msg |-> i, text |-> text, says |-> says]

\* onReminderTap: the press and VisitExistsForDate.
AskTap(h, i, s) ==
    /\ msgs[i].kind = "ask" /\ msgs[i].text = "open"
    /\ Press(h, IF Exists(msgs[i].key) THEN Edit(i, "already", NoVisit)
                ELSE [step |-> "create", msg |-> i, key |-> msgs[i].key, status |-> s])
    /\ UNCHANGED taken

\* onAddStatus, of a day that has come; its message is its own.
AddTap(h, c, d, s) ==
    /\ d <= Date(now)
    /\ ~Exists(<<c, d>>)
    /\ Press(h, [step |-> "create", msg |-> 0, key |-> <<c, d>>, status |-> s])
    /\ UNCHANGED taken

\* The winner of a double tap says what was recorded, the loser that something was.
\* A lesson that did not happen is asked about once more, if there are reasons to offer.
TapCreate(h) ==
    /\ Working(h, "create")
    /\ LET j == job[h]
           after == IF j.msg = 0 THEN {Idle}
                    ELSE IF Exists(j.key) THEN {Edit(j.msg, "already", NoVisit)}
                    ELSE IF j.status = "done"
                    THEN {Edit(j.msg, "said", [key |-> j.key, status |-> j.status])}
                    ELSE {Edit(j.msg, "why", ids + 1), [step |-> "look", msg |-> j.msg, id |-> ids + 1]}
       IN  /\ CreateVisit(j.key, j.status)
           /\ \E a \in after : Goto(h, a)
    /\ UNCHANGED <<pays, msgs, now, due, tick, said, taken, touched, troubled, torn>>

\* onReasonTap: SetVisitComment, and GetVisit is next.
ReasonTap(h, i) ==
    /\ msgs[i].kind = "ask" /\ msgs[i].text = "why"
    /\ Press(h, [step |-> "look", msg |-> i, id |-> msgs[i].says])
    /\ UNCHANGED taken

\* finishVisit: the visit as it is now.  One that cannot be read passes for deleted.
TapLook(h) ==
    /\ Working(h, "look")
    /\ LET rows == {k \in Key : visit[k].id = job[h].id}
       IN  \/ Goto(h, Edit(job[h].msg, "gone", NoVisit))
           \/ \E k \in rows :
                Goto(h, Edit(job[h].msg, "said", [key |-> k, status |-> visit[k].status]))
    /\ UNCHANGED <<tables, msgs, now, due, tick, said, taken, history>>

TapEdit(h) ==
    /\ Working(h, "edit")
    /\ msgs' = [msgs EXCEPT ![job[h].msg] =
                  IF msgs[job[h].msg].kind = "ask"
                  THEN [kind |-> "ask", key |-> @.key, text |-> job[h].text, says |-> job[h].says]
                  ELSE [@ EXCEPT !.text = job[h].text]]
    /\ Goto(h, Idle)
    /\ UNCHANGED <<tables, now, due, tick, said, taken, history>>

\* Mutant of PaidTap: the second tap is let through.
PaidTapAgain(h, i, offer) ==
    /\ msgs[i].kind = "warn" /\ msgs[i].text = "open"
    /\ offer \in msgs[i].offers
    /\ taken' = taken \cup {i}
    /\ Press(h, [step |-> "pay", msg |-> i, offer |-> offer])

\* onPaidTap: LoadOrStore lets one tap of a message through.
PaidTap(h, i, offer) ==
    /\ msgs[i].kind = "warn" /\ msgs[i].text = "open"
    /\ offer \in msgs[i].offers
    /\ i \notin taken
    /\ taken' = taken \cup {i}
    /\ Press(h, [step |-> "pay", msg |-> i, offer |-> offer])

PaidWrite(h) ==
    /\ Working(h, "pay")
    /\ LET j == job[h]
       IN  /\ CreatePayment(msgs[j.msg].course, j.offer.lessons,
                            [msg |-> j.msg, through |-> j.offer.through])
           /\ Goto(h, Edit(j.msg, "paid", NoVisit))
    /\ UNCHANGED <<visit, msgs, now, due, tick, said, taken, history>>

\* Nothing was written; the message may be tapped again.
PaidFail(h) ==
    /\ Working(h, "pay")
    /\ taken' = taken \ {job[h].msg}
    /\ Goto(h, Idle)
    /\ UNCHANGED <<tables, msgs, now, due, tick, said, history>>

\* Another call fails, or the edit does: the handler ends there.
TapFail(h) ==
    /\ job[h].step \in {"create", "look", "edit"}
    /\ Goto(h, Idle)
    /\ UNCHANGED <<tables, msgs, now, due, tick, said, taken, history>>

-----------------------------------------------------------------------------
(* The forms of the web and the Mini App: one statement each.               *)

FormOnly == UNCHANGED <<msgs, now, due, tick, said, taken, job, troubled, torn>>

FormVisit(k, s) ==
    /\ CreateVisit(k, s)
    /\ FormOnly
    /\ UNCHANGED <<pays, touched>>

\* UpdateVisit: a visit may move to another course or date, unless one is there.
FormUpdateVisit(k, to, s) ==
    /\ Exists(k)
    /\ k = to \/ ~Exists(to)
    /\ visit' = [visit EXCEPT ![k] = NoVisit, ![to] = [id |-> visit[k].id, status |-> s]]
    /\ marked' = marked \cup {to}
    /\ touched' = touched \cup {k, to}
    /\ stray' = IF s = "done" /\ Unforeseen(to) THEN stray \cup {to[1]} ELSE stray
    /\ FormOnly
    /\ UNCHANGED <<pays, ids>>

FormDeleteVisit(k) ==
    /\ Exists(k)
    /\ visit' = [visit EXCEPT ![k] = NoVisit]
    /\ touched' = touched \cup {k}
    /\ FormOnly
    /\ UNCHANGED <<pays, ids, marked, stray>>

FormPay(c, n) ==
    /\ CreatePayment(c, n, [msg |-> 0, through |-> 0])
    /\ FormOnly
    /\ UNCHANGED <<visit, marked, touched, stray>>

FormUpdatePay(p, c, n) ==
    /\ pays' = (pays \ {p}) \cup {[p EXCEPT !.course = c, !.lessons = n]}
    /\ stray' = stray \cup {p.course}
    /\ FormOnly
    /\ UNCHANGED <<visit, ids, marked, touched>>

FormDeletePay(p) ==
    /\ pays' = pays \ {p}
    /\ stray' = stray \cup {p.course}
    /\ FormOnly
    /\ UNCHANGED <<visit, ids, marked, touched>>

-----------------------------------------------------------------------------

\* The process ends: the tables and the messages stay.
Restart ==
    /\ due' = NoTick
    /\ tick' = Idle
    /\ said' = Fresh(NoTick)
    /\ taken' = {}
    /\ job' = [h \in Handlers |-> Idle]
    /\ troubled' = troubled \cup {Date(now)}
                    \cup (IF due = NoTick THEN {} ELSE {Date(due)})
                    \cup (IF tick = Idle THEN {} ELSE {Date(tick.at)})
    /\ torn' = torn \cup {i \in DOMAIN msgs : msgs[i].text = "open" /\ \E p \in pays : p.from.msg = i}
    /\ UNCHANGED <<tables, msgs, now, marked, touched, stray>>

Scheduler ==
    \/ Minute \/ TickStart \/ TickFail \/ TickDone \/ TickError
    \/ WarnCheck \/ WarnBalance \/ WarnSend
    \/ RemindCheck \/ RemindSend

\* What a handler goes on doing.
Work(h) ==
    \/ TapCreate(h) \/ TapLook(h) \/ TapEdit(h) \/ TapFail(h)
    \/ PaidWrite(h) \/ PaidFail(h)

Act ==
    \/ \E h \in Handlers, i \in DOMAIN msgs :
         \/ \E s \in Status : AskTap(h, i, s)
         \/ ReasonTap(h, i)
         \/ msgs[i].kind = "warn" /\ \E offer \in msgs[i].offers : PaidTap(h, i, offer)
    \/ \E h \in Handlers, c \in Courses, d \in Days, s \in Status : AddTap(h, c, d, s)
    \/ \E k \in Key, s \in Status :
         \/ FormVisit(k, s)
         \/ \E to \in Key : FormUpdateVisit(k, to, s)
    \/ \E k \in Key : FormDeleteVisit(k)
    \/ \E c \in Courses : FormPay(c, 1)
    \/ \E p \in pays : FormDeletePay(p) \/ \E c \in Courses : FormUpdatePay(p, c, 1)

Next ==
    \/ (Scheduler \/ \E h \in Handlers : Work(h)) /\ UNCHANGED <<acts, stops>>
    \/ acts < MaxActs /\ acts' = acts + 1 /\ Act /\ UNCHANGED stops
    \/ stops < MaxStops /\ stops' = stops + 1 /\ Restart /\ UNCHANGED acts

Spec == Init /\ [][Next]_vars

-----------------------------------------------------------------------------

Offer == [lessons: Nat, through: Days]

Said == [key: Key, status: Status]

Msg ==
    [kind: {"warn"}, course: Courses, day: Days, text: {"open", "paid"}, offers: SUBSET Offer]
    \cup [kind: {"ask"}, key: Key, text: {"open"}]
    \cup [kind: {"ask"}, key: Key, text: {"already", "gone"}, says: {NoVisit}]
    \cup [kind: {"ask"}, key: Key, text: {"why"}, says: Nat]
    \cup [kind: {"ask"}, key: Key, text: {"said"}, says: Said]

\* The type invariant.
TypeOK ==
    /\ visit \in [Key -> {NoVisit} \cup [id: Nat \ {0}, status: Status]]
    /\ \A p \in pays : p.id \in 1..ids /\ p.course \in Courses /\ p.lessons \in Nat
    /\ ids \in Nat
    /\ \A i \in DOMAIN msgs : msgs[i] \in Msg
    /\ now \in Nat
    /\ due \in {NoTick} \cup 0..now
    /\ tick = Idle \/ (tick.step \in {"warn", "balance", "offer", "remind", "ask"} /\ tick.at \in 0..now)
    /\ said.date \in {NoTick} \cup 0..Date(now)
    /\ said.reminded \subseteq Courses /\ said.warned \subseteq Courses
    /\ taken \subseteq DOMAIN msgs
    /\ \A h \in Handlers : job[h].step \in {"idle", "create", "look", "edit", "pay"}
    /\ acts \in 0..MaxActs /\ stops \in 0..MaxStops
    /\ marked \subseteq Key /\ touched \subseteq Key
    /\ stray \subseteq Courses
    /\ torn \subseteq DOMAIN msgs

\* Every lesson of a day that went by without an error, a lost tick or a restart
\* since the first start was asked about or marked, however late in the day it
\* began (slotDue, and the maps that are started over at midnight).
AskedOrMarked ==
    \A c \in Courses, d \in FirstDay..LastDay :
        d < said.date /\ d \notin troubled /\ HasLesson(c, d) =>
            \/ <<c, d>> \in marked
            \/ \E i \in DOMAIN msgs : msgs[i].kind = "ask" /\ msgs[i].key = <<c, d>>

\* The bot asks about a lesson once and warns of it once, several slots of a
\* course on one day included, unless a call failed, a tick was lost or the process
\* was restarted that day (reminded, warned).
SpokenOnce ==
    LET about(m) == IF m.kind = "ask" THEN m.key ELSE <<m.course, m.day>>
    IN  \A i, j \in DOMAIN msgs :
            i # j /\ msgs[i].kind = msgs[j].kind /\ about(msgs[i]) = about(msgs[j]) =>
                about(msgs[i])[2] \in troubled

\* What an answered question says is what the visit is, over double taps on one
\* question and on two of the same lesson, unless a form changed the visit, and a
\* question that says somebody answered it already was (onReminderTap, CreateVisit,
\* finishVisit).
AnswerIsRecord ==
    \A i \in DOMAIN msgs :
        LET m == msgs[i]
        IN  m.kind = "ask" =>
                /\ m.text = "said" /\ m.says.key \notin touched =>
                       visit[m.says.key].status = m.says.status
                /\ m.text = "already" => m.key \in marked

\* A warning's buttons record one payment, over double taps, failures and
\* retries, as long as the process does not end between the payment and the edit
\* that takes the buttons away (paidTaps).
PaidOnce ==
    \A p, q \in pays :
        p # q /\ p.from.msg = q.from.msg /\ p.from.msg # 0 => p.from.msg \in torn

\* Who pays what a warning asks for is not asked again for the days it pays for,
\* however late the lessons are marked and whatever was owed before (topUpOptions,
\* BalanceFor), unless rows nobody could foresee are entered or payments are undone.
PaidThroughIsQuiet ==
    [][tick.step = "balance" /\ tick'.step = "offer" =>
         \/ Course \in stray
         \/ \E k \in Key : k[1] = Course /\ k[2] >= Today /\ visit[k].status = "done"
         \/ \A p \in pays :
               p.from.msg # 0 /\ msgs[p.from.msg].course = Course => p.from.through < Today]_vars

=============================================================================
