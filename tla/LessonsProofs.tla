--------------------------- MODULE LessonsProofs ---------------------------
(***************************************************************************)
(* What holds of lessons for every timetable, every number of courses and   *)
(* handlers, every delay and notice, and every bound on what people do.     *)
(*                                                                         *)
(* The order: the inductive invariant, part by part; days and minutes;      *)
(* sequences of messages; visits and answers; payments; the ticker; then a  *)
(* second invariant, of what offers and payments are worth, on the first;   *)
(* the theorems.                                                            *)
(***************************************************************************)
EXTENDS Lessons, FiniteSetTheorems, SequenceTheorems, SumTheorems, TLAPS

(* The inductive invariant.                                                 *)

Asks(i) == i \in DOMAIN msgs /\ msgs[i].kind = "ask"
Warns(i) == i \in DOMAIN msgs /\ msgs[i].kind = "warn"

\* What is said of a visit is so, unless a form has changed the visit.
Told(says) ==
    /\ says.key \in Key /\ says.status \in Status
    /\ says.key \notin touched => visit[says.key].status = says.status

\* What the question about lesson k may be answered with.
Answer(text, says, k) ==
    \/ text = "gone"
    \/ text = "already" /\ k \in marked
    \/ text = "why" /\ says \in Nat \ {0}
    \/ text = "said" /\ Told(says)

MsgOK(m) ==
    \/ /\ m.kind = "warn" /\ m.text \in {"open", "paid"} /\ m.day \in Nat
       /\ m = [kind |-> "warn", course |-> m.course, day |-> m.day, text |-> m.text,
               offers |-> m.offers]
    \/ m.kind = "ask" /\ m.key \in Key /\ (m.text = "open" \/ Answer(m.text, m.says, m.key))

JobOK(j) ==
    \/ j.step = "idle"
    \/ /\ j.step = "create" /\ j.key \in Key /\ j.status \in Status
       /\ j.msg # 0 => Asks(j.msg) /\ msgs[j.msg].key = j.key
    \/ j.step = "look" /\ Asks(j.msg) /\ j.id \in Nat \ {0}
    \/ j.step = "pay" /\ Warns(j.msg)
    \/ j.step = "edit" /\ Warns(j.msg) /\ j.text = "paid"
    \/ j.step = "edit" /\ Asks(j.msg) /\ Answer(j.text, j.says, msgs[j.msg].key)

Own(s) == {s[i] : i \in DOMAIN s}

\* What messages and handlers say of the visits.
Answers ==
    /\ visit \in [Key -> {NoVisit} \cup [id: Nat \ {0}, status: Status]]
    /\ ids \in Nat
    /\ \A k \in Key : Exists(k) => k \in marked
    /\ msgs \in Seq(Own(msgs))
    /\ \A i \in DOMAIN msgs : MsgOK(msgs[i])
    /\ DOMAIN job = Handlers
    /\ \A h \in Handlers : JobOK(job[h])

Paying(h) == job[h].step = "pay"

\* A message that is being paid, or was, is taken until it has no buttons.
Payments ==
    /\ \A p \in pays :
          /\ p = [id |-> p.id, course |-> p.course, lessons |-> p.lessons, from |-> p.from]
          /\ p.from.msg # 0 =>
                /\ Warns(p.from.msg)
                /\ p.from.msg \in torn \cup taken \/ msgs[p.from.msg].text # "open"
    /\ \A h \in Handlers : Paying(h) =>
          /\ job[h].msg \in taken
          /\ \A p \in pays : p.from.msg = job[h].msg => job[h].msg \in torn
    /\ \A h, k \in Handlers : Paying(h) /\ Paying(k) /\ job[h].msg = job[k].msg => h = k
    /\ PaidOnce

Slot == (0 .. DayLen - 1) \X Courses

\* The pass is past n slots of its day.
Passed(n) ==
    /\ Len(tick.left) = Len(Timetable[Today]) - n
    /\ \A j \in 1 .. Len(tick.left) : tick.left[j] = Timetable[Today][n + j]

Pass ==
    /\ tick.step \in {"warn", "balance", "offer", "remind", "ask"}
    /\ tick.step # "offer" => tick = [step |-> tick.step, at |-> tick.at, left |-> tick.left]
    /\ tick.step # "warn" => tick.left # <<>>
    /\ tick.at \in 0..now
    /\ due # NoTick => tick.at < due
    /\ said.date = Today
    /\ tick.left \in Seq(Slot)
    /\ tick.left # <<>> => Today \in Days

\* The day of the pass at work or of the next one.
Reached ==
    IF tick # Idle THEN Today ELSE IF due # NoTick THEN Date(due) ELSE Date(now)

Clock ==
    /\ now \in Nat
    /\ due = NoTick \/ due \in 0..now
    /\ tick = Idle \/ Pass
    /\ said = [date |-> said.date, reminded |-> said.reminded, warned |-> said.warned]
    /\ said.date = NoTick \/ said.date \in Nat
    /\ said.date <= Reached

\* A day whose messages are of the past, or of courses the maps know of.
Known(c, d, map) == d \in troubled \/ d < Reached \/ (d = said.date /\ c \in map)

KnownMsg(m) ==
    /\ m.kind = "warn" => Known(m.course, m.day, said.warned)
    /\ m.kind = "ask" => Known(m.key[1], m.key[2], said.reminded)

Spoken ==
    /\ \A i \in DOMAIN msgs : KnownMsg(msgs[i])
    /\ tick.step \in {"balance", "offer"} => Course \notin said.warned
    /\ tick.step = "ask" => Course \notin said.reminded
    /\ SpokenOnce

Handled(c, d) ==
    \/ <<c, d>> \in marked
    \/ \E i \in DOMAIN msgs : msgs[i].kind = "ask" /\ msgs[i].key = <<c, d>>

\* The last minute of a day.
Final(d) == (d + 1) * DayLen - 1

\* The first n lessons of day d are handled, and the pass of its last minute is at
\* the others, if there are any.
Covered(d, n) ==
    /\ \A i \in 1..n : Handled(Timetable[d][i][2], d)
    /\ n = Len(Timetable[d]) \/ (tick # Idle /\ tick.at = Final(d) /\ Passed(n))

\* No day passes without its last minute, at which every reminder is due.
Asked ==
    /\ said.date \in troubled \/ \A c \in said.reminded : Handled(c, said.date)
    /\ \A d \in FirstDay..LastDay :
          Final(d) <= now => \/ d \in troubled
                             \/ due = Final(d)
                             \/ \E n \in 0 .. Len(Timetable[d]) : Covered(d, n)

LessonsInv == Answers /\ Payments /\ Clock /\ Spoken /\ Asked

-----------------------------------------------------------------------------
(* Days and minutes.                                                        *)

LEMMA Settings ==
    /\ DayLen \in Nat \ {0, 1} /\ LastDay \in Nat /\ FirstDay \in Days
    /\ Timetable \in [Days -> Seq(Slot)] /\ Delay \in Nat
  BY LessonsAssumption DEF LessonsAssumption, Slot

LEMMA Minutes == ASSUME NEW d \in Nat PROVE d * DayLen \in Nat
  BY Settings

LEMMA DayIs ==
    ASSUME NEW t \in Nat
    PROVE  Date(t) \in Nat /\ Date(t) * DayLen <= t /\ t < (Date(t) + 1) * DayLen
  BY Settings DEF Date

LEMMA DaysApart ==
    ASSUME NEW a \in Nat, NEW b \in Nat, a < b
    PROVE  (a + 1) * DayLen <= b * DayLen
  <1>1. PICK k \in Nat : b = a + 1 + k
    <2>1. b - a - 1 \in Nat /\ b = a + 1 + (b - a - 1)
      OBVIOUS
    <2> QED
      BY <2>1
  <1>2. b * DayLen = (a + 1) * DayLen + k * DayLen
    BY <1>1, Settings
  <1>3. k * DayLen \in Nat /\ (a + 1) * DayLen \in Nat
    BY Settings
  <1> QED
    BY <1>2, <1>3

LEMMA DayGrows ==
    ASSUME NEW a \in Nat, NEW b \in Nat, a <= b
    PROVE  Date(a) <= Date(b)
  <1>1. SUFFICES ASSUME Date(b) < Date(a)
                 PROVE  FALSE
    BY DayIs
  <1>2. (Date(b) + 1) * DayLen <= Date(a) * DayLen
    BY <1>1, DayIs, DaysApart
  <1>3. (Date(b) + 1) * DayLen \in Nat /\ Date(a) * DayLen \in Nat
    BY DayIs, Minutes
  <1> QED
    BY <1>2, <1>3, DayIs

\* A day before that of a moment is over at it.
LEMMA DayIsOver ==
    ASSUME NEW d \in Nat, NEW t \in Nat, d < Date(t)
    PROVE  (d + 1) * DayLen \in Nat /\ (d + 1) * DayLen <= t
  <1>1. (d + 1) * DayLen <= Date(t) * DayLen
    BY DayIs, DaysApart
  <1>2. (d + 1) * DayLen \in Nat /\ Date(t) * DayLen \in Nat
    BY DayIs, Minutes
  <1> QED
    BY <1>1, <1>2, DayIs

LEMMA FinalIs ==
    ASSUME NEW d \in Nat
    PROVE  Final(d) \in Nat /\ d * DayLen + 1 <= Final(d) /\ Date(Final(d)) = d
  <1>1. (d + 1) * DayLen = d * DayLen + DayLen /\ d * DayLen \in Nat
    BY Settings
  <1>2. Final(d) \in Nat /\ d * DayLen + 1 <= Final(d) /\ Final(d) < (d + 1) * DayLen
    BY <1>1, Settings DEF Final
  <1> DEFINE t == Final(d)
  <1> HIDE DEF t
  <1>3. t \in Nat /\ d * DayLen + 1 <= t /\ t < (d + 1) * DayLen
    BY <1>2 DEF t
  <1>4. ~ (Date(t) < d)
    <2> SUFFICES ASSUME Date(t) < d
                 PROVE  FALSE
      OBVIOUS
    <2>1. Date(t) \in Nat /\ (Date(t) + 1) * DayLen <= d * DayLen
      BY <1>3, DayIs, DaysApart
    <2>2. (Date(t) + 1) * DayLen \in Nat
      BY <2>1, Minutes
    <2> QED
      BY <1>1, <1>3, <2>1, <2>2, DayIs
  <1>5. ~ (d < Date(t))
    <2> SUFFICES ASSUME d < Date(t)
                 PROVE  FALSE
      OBVIOUS
    <2>1. (d + 1) * DayLen <= t /\ (d + 1) * DayLen \in Nat
      BY <1>3, DayIsOver
    <2> QED
      BY <1>3, <2>1
  <1>6. Date(t) = d
    BY <1>3, <1>4, <1>5, DayIs
  <1> QED
    BY <1>2, <1>6 DEF t

-----------------------------------------------------------------------------
(* Messages.                                                                *)

\* What a message is about stays, and buttons that are gone do not come back.
MsgsKept ==
    /\ DOMAIN msgs \subseteq DOMAIN msgs'
    /\ \A i \in DOMAIN msgs :
          /\ msgs'[i].kind = msgs[i].kind
          /\ msgs[i].kind = "ask" => msgs'[i].key = msgs[i].key
          /\ msgs[i].kind = "warn" => /\ msgs'[i].course = msgs[i].course
                                      /\ msgs'[i].day = msgs[i].day
                                      /\ msgs[i].text # "open" => msgs'[i].text # "open"

LEMMA OwnSeq ==
    ASSUME NEW S, NEW s \in Seq(S)
    PROVE  s \in Seq(Own(s)) /\ Len(s) \in Nat /\ DOMAIN s = 1 .. Len(s)
  <1>1. Len(s) \in Nat /\ s \in [1 .. Len(s) -> S] /\ DOMAIN s = 1 .. Len(s)
    BY LenProperties
  <1>2. s \in [1 .. Len(s) -> Own(s)]
    BY <1>1 DEF Own
  <1> QED
    BY <1>1, <1>2, SeqDef

\* Sequence t is s with m at the end.
Longer(s, m, t) ==
    /\ t \in Seq(Own(t)) /\ Len(s) \in Nat
    /\ DOMAIN s = 1 .. Len(s) /\ DOMAIN t = 1 .. Len(s) + 1
    /\ t[Len(s) + 1] = m /\ \A i \in DOMAIN s : t[i] = s[i]

LEMMA SeqGrown ==
    ASSUME NEW s, s \in Seq(Own(s)), NEW m
    PROVE  \A t : t = Append(s, m) => Longer(s, m, t)
  <1> SUFFICES ASSUME NEW t, t = Append(s, m)
               PROVE  Longer(s, m, t)
    OBVIOUS
  <1> DEFINE S == Own(s) \cup {m}
  <1>1. s \in Seq(S) /\ m \in S
    BY SeqMonotonic
  <1> HIDE DEF S
  <1>2. /\ t \in Seq(S) /\ Len(t) = Len(s) + 1
        /\ \A i \in 1 .. Len(s) : t[i] = s[i]
        /\ t[Len(s) + 1] = m
    BY <1>1, AppendProperties
  <1>3. /\ t \in Seq(Own(t)) /\ Len(s) \in Nat
        /\ DOMAIN s = 1 .. Len(s) /\ DOMAIN t = 1 .. Len(s) + 1
    BY <1>1, <1>2, OwnSeq
  <1> QED
    BY <1>2, <1>3 DEF Longer

LEMMA SeqEdited ==
    ASSUME NEW s, s \in Seq(Own(s)), NEW i \in DOMAIN s, NEW m, NEW t, t = [s EXCEPT ![i] = m]
    PROVE  /\ t \in Seq(Own(t)) /\ DOMAIN t = DOMAIN s
           /\ t[i] = m /\ \A j \in DOMAIN s \ {i} : t[j] = s[j]
  <1> DEFINE S == Own(s) \cup {m}
  <1>1. s \in Seq(S) /\ m \in S
    BY SeqMonotonic
  <1> HIDE DEF S
  <1>2. i \in 1 .. Len(s) /\ DOMAIN s = 1 .. Len(s)
    BY <1>1, OwnSeq
  <1>3. t \in Seq(S) /\ Len(t) = Len(s)
    BY <1>1, <1>2, ExceptSeq
  <1> QED
    BY <1>2, <1>3, OwnSeq

-----------------------------------------------------------------------------
(* Visits.                                                                  *)

VisitsOK ==
    /\ visit \in [Key -> {NoVisit} \cup [id: Nat \ {0}, status: Status]]
    /\ ids \in Nat
    /\ \A k \in Key : Exists(k) => k \in marked

\* The visits no form has touched are as they were.
VisitsKept ==
    /\ marked \subseteq marked' /\ touched \subseteq touched'
    /\ \A k \in Key \ touched' : visit[k].status \in Status => visit'[k].status = visit[k].status

\* What an action does to visits.
VisitsStep == VisitsOK' /\ VisitsKept

LEMMA NoVisitHasNoStatus == NoVisit.status \notin Status
  BY DEF NoVisit, Status

LEMMA SameVisits ==
    ASSUME VisitsOK, UNCHANGED <<visit, marked, touched>>, ids' \in Nat
    PROVE  VisitsStep
  BY DEF VisitsOK, VisitsKept, VisitsStep, Exists

LEMMA VisitCreated ==
    ASSUME VisitsOK, NEW k \in Key, NEW s \in Status, CreateVisit(k, s), UNCHANGED touched
    PROVE  /\ VisitsStep /\ k \in marked'
           /\ ~Exists(k) => visit'[k].status = s
  <1>1. CASE Exists(k)
    <2>1. UNCHANGED <<visit, ids, marked, touched>>
      BY <1>1 DEF CreateVisit
    <2> QED
      BY <1>1, <2>1, SameVisits DEF VisitsOK
  <1>2. CASE ~Exists(k)
    <2> DEFINE v == [id |-> ids + 1, status |-> s]
    <2>1. v \in [id: Nat \ {0}, status: Status] /\ v.status = s
      BY DEF VisitsOK
    <2>2. visit' = [visit EXCEPT ![k] = v] /\ marked' = marked \cup {k} /\ ids' \in Nat
      BY <1>2 DEF CreateVisit, PutVisit, VisitsOK
    <2> HIDE DEF v
    <2>3. visit \in [Key -> {NoVisit} \cup [id: Nat \ {0}, status: Status]]
      BY DEF VisitsOK
    <2>4. /\ visit' \in [Key -> {NoVisit} \cup [id: Nat \ {0}, status: Status]]
          /\ visit'[k] = v /\ \A j \in Key \ {k} : visit'[j] = visit[j]
      BY <2>1, <2>2, <2>3
    <2>5. visit[k].status \notin Status
      BY <1>2, NoVisitHasNoStatus DEF Exists
    <2>6. VisitsOK'
      BY <2>2, <2>4 DEF VisitsOK, Exists
    <2>7. VisitsKept
      BY <2>2, <2>4, <2>5 DEF VisitsKept
    <2> QED
      BY <2>1, <2>2, <2>4, <2>6, <2>7 DEF VisitsStep
  <1> QED
    BY <1>1, <1>2

LEMMA VisitMoved ==
    ASSUME VisitsOK, NEW k \in Key, NEW to \in Key, NEW s \in Status, FormUpdateVisit(k, to, s)
    PROVE  VisitsStep
  <1> DEFINE v == [id |-> visit[k].id, status |-> s]
  <1>1. visit[k] \in [id: Nat \ {0}, status: Status]
    BY DEF VisitsOK, FormUpdateVisit, Exists
  <1>2. v \in [id: Nat \ {0}, status: Status]
    BY <1>1
  <1>3. /\ visit' = [visit EXCEPT ![k] = NoVisit, ![to] = v]
        /\ marked' = marked \cup {to} /\ touched' = touched \cup {k, to} /\ ids' = ids
    BY DEF FormUpdateVisit
  <1> HIDE DEF v
  <1>4. visit \in [Key -> {NoVisit} \cup [id: Nat \ {0}, status: Status]]
    BY DEF VisitsOK
  <1>5. /\ visit' \in [Key -> {NoVisit} \cup [id: Nat \ {0}, status: Status]]
        /\ \A j \in Key \ {k, to} : visit'[j] = visit[j]
        /\ k # to => visit'[k] = NoVisit
    BY <1>2, <1>3, <1>4
  <1>6. VisitsOK'
    BY <1>3, <1>5 DEF VisitsOK, Exists
  <1> QED
    BY <1>3, <1>5, <1>6 DEF VisitsKept, VisitsStep

LEMMA VisitDeleted ==
    ASSUME VisitsOK, NEW k \in Key, FormDeleteVisit(k)
    PROVE  VisitsStep
  <1>1. /\ visit' = [visit EXCEPT ![k] = NoVisit]
        /\ touched' = touched \cup {k} /\ UNCHANGED <<marked, ids>>
    BY DEF FormDeleteVisit
  <1>2. /\ visit' \in [Key -> {NoVisit} \cup [id: Nat \ {0}, status: Status]]
        /\ \A j \in Key \ {k} : visit'[j] = visit[j]
        /\ visit'[k] = NoVisit
    BY <1>1 DEF VisitsOK
  <1> QED
    BY <1>1, <1>2 DEF VisitsOK, Exists, VisitsKept, VisitsStep

-----------------------------------------------------------------------------
(* The kinds of steps.                                                      *)

\* A button is pressed.
Pressed(h) ==
    \/ \E i \in DOMAIN msgs, s \in Status : AskTap(h, i, s)
    \/ \E i \in DOMAIN msgs : ReasonTap(h, i)
    \/ \E i \in DOMAIN msgs : \E offer \in msgs[i].offers : PaidTap(h, i, offer)
    \/ \E c \in Courses, d \in Days, s \in Status : AddTap(h, c, d, s)

\* A form is saved.
Entered ==
    \/ \E k \in Key, s \in Status : FormVisit(k, s)
    \/ \E k, to \in Key, s \in Status : FormUpdateVisit(k, to, s)
    \/ \E k \in Key : FormDeleteVisit(k)
    \/ \E c \in Courses : FormPay(c, 1)
    \/ \E p \in pays : FormDeletePay(p)
    \/ \E p \in pays, c \in Courses : FormUpdatePay(p, c, 1)

LEMMA ActKinds ==
    ASSUME Act
    PROVE  Entered \/ \E h \in Handlers : Pressed(h)
  BY DEF Act, Entered, Pressed

LEMMA NextKinds ==
    ASSUME Next
    PROVE  \/ Scheduler
           \/ \E h \in Handlers : Work(h) \/ Pressed(h)
           \/ Entered
           \/ Restart
  BY ActKinds DEF Next

\* The ticker writes to no table, and what the handlers hold is not its own.
LEMMA SchedulerApart ==
    ASSUME Scheduler
    PROVE  UNCHANGED <<visit, pays, ids, job, taken, marked, touched, torn>>
  <1>1. CASE Minute \/ TickStart \/ TickFail
    BY <1>1 DEF Minute, TickStart, TickFail, tables, history
  <1>2. CASE TickDone \/ TickError \/ WarnCheck \/ WarnBalance \/ RemindCheck
    BY <1>2 DEF TickDone, TickError, WarnCheck, WarnBalance, RemindCheck, TickOnly, tables
  <1>3. CASE WarnSend \/ RemindSend
    BY <1>3 DEF WarnSend, RemindSend, tables
  <1> QED
    BY <1>1, <1>2, <1>3 DEF Scheduler

LEMMA PressedApart ==
    ASSUME NEW h, Pressed(h)
    PROVE  UNCHANGED <<visit, pays, ids, msgs, now, due, tick, said, marked, touched, troubled, torn>>
  BY DEF Pressed, AskTap, ReasonTap, PaidTap, AddTap, Press, tables, history

LEMMA EnteredApart ==
    ASSUME Entered
    PROVE  UNCHANGED <<msgs, now, due, tick, said, taken, job, troubled, torn>>
  BY DEF Entered, FormVisit, FormUpdateVisit, FormDeleteVisit, FormPay, FormDeletePay,
         FormUpdatePay, FormOnly

LEMMA WorkApart ==
    ASSUME NEW h, Work(h)
    PROVE  UNCHANGED <<now, due, tick, said, touched, troubled, torn>>
  BY DEF Work, TapCreate, TapLook, TapEdit, TapFail, PaidWrite, PaidFail, history

LEMMA StepVisits ==
    ASSUME Answers, Next
    PROVE  VisitsStep
  <1>1. VisitsOK /\ ids \in Nat
    BY DEF Answers, VisitsOK
  <1>2. CASE Scheduler
    BY <1>1, <1>2, SchedulerApart, SameVisits
  <1>3. ASSUME NEW h \in Handlers, Work(h)
        PROVE  VisitsStep
    <2>1. CASE TapCreate(h)
      <3>1. job[h].key \in Key /\ job[h].status \in Status
        BY <2>1 DEF TapCreate, Working, Answers, JobOK
      <3>2. CreateVisit(job[h].key, job[h].status) /\ UNCHANGED touched
        BY <2>1 DEF TapCreate
      <3> QED
        BY <1>1, <3>1, <3>2, VisitCreated
    <2>2. CASE PaidWrite(h)
      BY <1>1, <2>2, SameVisits DEF PaidWrite, CreatePayment, history
    <2>3. CASE TapLook(h) \/ TapEdit(h) \/ TapFail(h) \/ PaidFail(h)
      BY <1>1, <2>3, SameVisits DEF TapLook, TapEdit, TapFail, PaidFail, tables, history
    <2> QED
      BY <1>3, <2>1, <2>2, <2>3 DEF Work
  <1>4. CASE \E h \in Handlers : Pressed(h)
    BY <1>1, <1>4, PressedApart, SameVisits
  <1>5. CASE Entered
    <2>1. CASE \E k \in Key, s \in Status : FormVisit(k, s)
      BY <1>1, <2>1, VisitCreated DEF FormVisit
    <2>2. CASE \E k, to \in Key, s \in Status : FormUpdateVisit(k, to, s)
      BY <1>1, <2>2, VisitMoved
    <2>3. CASE \E k \in Key : FormDeleteVisit(k)
      BY <1>1, <2>3, VisitDeleted
    <2>4. CASE \E c \in Courses : FormPay(c, 1)
      BY <1>1, <2>4, SameVisits DEF FormPay, CreatePayment
    <2>5. CASE (\E p \in pays : FormDeletePay(p)) \/ \E p \in pays, c \in Courses : FormUpdatePay(p, c, 1)
      BY <1>1, <2>5, SameVisits DEF FormDeletePay, FormUpdatePay
    <2> QED
      BY <1>5, <2>1, <2>2, <2>3, <2>4, <2>5 DEF Entered
  <1>6. CASE Restart
    BY <1>1, <1>6, SameVisits DEF Restart, tables
  <1> QED
    BY <1>2, <1>3, <1>4, <1>5, <1>6, NextKinds

-----------------------------------------------------------------------------
(* Messages and handlers.                                                   *)

LEMMA AnswerStands ==
    ASSUME VisitsKept, NEW text, NEW says, NEW k, Answer(text, says, k)
    PROVE  Answer(text, says, k)'
  BY DEF VisitsKept, Answer, Told

LEMMA MsgStands ==
    ASSUME VisitsKept, NEW m, MsgOK(m)
    PROVE  MsgOK(m)'
  BY AnswerStands DEF MsgOK

LEMMA JobStands ==
    ASSUME VisitsKept, MsgsKept, NEW j, JobOK(j)
    PROVE  JobOK(j)'
  <1>1. \A i : Asks(i) => Asks(i)' /\ msgs'[i].key = msgs[i].key
    BY DEF Asks, MsgsKept
  <1>2. \A i : Warns(i) => Warns(i)'
    BY DEF Warns, MsgsKept
  <1>3. \A text, says, k : Answer(text, says, k) => Answer(text, says, k)'
    BY AnswerStands
  <1>4. CASE j.step = "edit"
    <2>1. CASE Warns(j.msg) /\ j.text = "paid"
      BY <1>2, <1>4, <2>1 DEF JobOK
    <2>2. CASE Asks(j.msg) /\ Answer(j.text, j.says, msgs[j.msg].key)
      <3> DEFINE k == msgs[j.msg].key
      <3>1. PICK key : key = k
        OBVIOUS
      <3>2. Answer(j.text, j.says, key)'
        BY <1>3, <2>2, <3>1
      <3>3. msgs'[j.msg].key = key /\ Asks(j.msg)'
        BY <1>1, <2>2, <3>1
      <3> QED
        BY <1>4, <3>2, <3>3 DEF JobOK
    <2> QED
      BY <1>4, <2>1, <2>2 DEF JobOK
  <1>5. CASE j.step # "edit"
    BY <1>1, <1>2, <1>5 DEF JobOK
  <1> QED
    BY <1>4, <1>5

\* The slot at hand, of a pass that has one.
LEMMA SlotAtHand ==
    ASSUME Clock, tick # Idle, tick.left # <<>>
    PROVE  /\ Pass /\ Today \in Days /\ Today \in Nat /\ Course \in Courses
           /\ tick.at \in Nat /\ said.date = Today
  <1>1. Pass
    BY DEF Clock
  <1>2. Head(tick.left) \in Slot
    BY <1>1, HeadTailProperties DEF Pass
  <1>3. tick.at \in Nat
    BY <1>1 DEF Pass, Clock
  <1>4. Today \in Nat
    BY <1>3, DayIs DEF Today
  <1> QED
    BY <1>1, <1>2, <1>3, <1>4 DEF Pass, Course, Slot

LEMMA Posted ==
    ASSUME Answers, NEW m, Post(m)
    PROVE  /\ MsgsKept /\ msgs' \in Seq(Own(msgs')) /\ Len(msgs) \in Nat
           /\ DOMAIN msgs = 1 .. Len(msgs) /\ DOMAIN msgs' = 1 .. Len(msgs) + 1
           /\ msgs'[Len(msgs) + 1] = m /\ \A i \in DOMAIN msgs : msgs'[i] = msgs[i]
  <1>1. msgs \in Seq(Own(msgs)) /\ msgs' = Append(msgs, m)
    BY DEF Answers, Post
  <1>2. PICK s, t : s = msgs /\ t = msgs'
    OBVIOUS
  <1>3. s \in Seq(Own(s)) /\ t = Append(s, m)
    BY <1>1, <1>2
  <1>4. Longer(s, m, t)
    BY <1>3, SeqGrown, Zenon
  <1>5. DOMAIN s \subseteq DOMAIN t
    BY <1>4 DEF Longer
  <1>6. MsgsKept
    BY <1>2, <1>4, <1>5, Zenon DEF MsgsKept, Longer
  <1> QED
    BY <1>2, <1>4, <1>6, Zenon DEF Longer

\* The message a handler edits, and what it makes of it.
LEMMA Edited ==
    ASSUME Answers, NEW h \in Handlers, TapEdit(h)
    PROVE  LET i == job[h].msg IN
           /\ MsgsKept /\ msgs' \in Seq(Own(msgs')) /\ DOMAIN msgs' = DOMAIN msgs
           /\ i \in DOMAIN msgs /\ \A j \in DOMAIN msgs \ {i} : msgs'[j] = msgs[j]
           /\ MsgOK(msgs'[i])
           /\ msgs'[i].text # "open"
           /\ UNCHANGED <<visit, marked, touched, pays, torn, taken>>
  <1> DEFINE j == job[h] i == j.msg
             e == IF msgs[i].kind = "ask"
                  THEN [kind |-> "ask", key |-> msgs[i].key, text |-> j.text, says |-> j.says]
                  ELSE [msgs[i] EXCEPT !.text = j.text]
  <1>1. JobOK(j) /\ j.step = "edit" /\ msgs \in Seq(Own(msgs))
    BY DEF TapEdit, Working, Answers
  <1>2. /\ msgs' = [msgs EXCEPT ![i] = e]
        /\ UNCHANGED <<visit, marked, touched, pays, torn, taken>>
    BY DEF TapEdit, tables, history
  <1>3. i \in DOMAIN msgs
    BY <1>1 DEF JobOK, Asks, Warns
  <1>4. MsgOK(msgs[i])
    BY <1>3 DEF Answers
  <1>5. CASE Warns(i) /\ j.text = "paid"
    <2> DEFINE m == msgs[i]
    <2>1. /\ m.kind = "warn" /\ m.day \in Nat
          /\ m = [kind |-> "warn", course |-> m.course, day |-> m.day, text |-> m.text,
                  offers |-> m.offers]
      BY <1>4, <1>5 DEF MsgOK, Warns
    <2>2. e = [m EXCEPT !.text = "paid"]
      BY <1>5, <2>1
    <2> HIDE DEF m, e
    <2>3. e = [kind |-> "warn", course |-> m.course, day |-> m.day, text |-> "paid",
               offers |-> m.offers]
      BY <2>1, <2>2
    <2>4. /\ e.kind = m.kind /\ e.course = m.course /\ e.day = m.day /\ e.text = "paid"
          /\ MsgOK(e) /\ m.kind = "warn"
      BY <2>1, <2>3 DEF MsgOK
    <2> QED
      BY <1>1, <1>2, <1>3, <2>4, SeqEdited DEF MsgsKept, m
  <1>6. CASE Asks(i) /\ Answer(j.text, j.says, msgs[i].key)
    <2> DEFINE m == msgs[i]
    <2>1. m.kind = "ask" /\ m.key \in Key
      BY <1>4, <1>6 DEF MsgOK, Asks
    <2>2. e = [kind |-> "ask", key |-> m.key, text |-> j.text, says |-> j.says]
      BY <2>1
    <2>3. Answer(j.text, j.says, m.key) /\ j.text # "open"
      BY <1>6 DEF Answer
    <2> HIDE DEF m, e
    <2>4. e.kind = m.kind /\ e.key = m.key /\ e.text # "open" /\ MsgOK(e) /\ m.kind = "ask"
      BY <2>1, <2>2, <2>3 DEF MsgOK
    <2> QED
      BY <1>1, <1>2, <1>3, <2>4, SeqEdited DEF MsgsKept, m
  <1> QED
    BY <1>1, <1>5, <1>6 DEF JobOK

\* What an action does to messages, and to what handlers hold.
MsgsStep == MsgsKept /\ msgs' \in Seq(Own(msgs')) /\ (\A i \in DOMAIN msgs : MsgOK(msgs[i]))'
JobsStep == DOMAIN job' = Handlers /\ (\A h \in Handlers : JobOK(job[h]))'

LEMMA SameMsgs ==
    ASSUME Answers, VisitsKept, UNCHANGED msgs
    PROVE  MsgsStep
  <1>1. \A i \in DOMAIN msgs : MsgOK(msgs[i])
    BY DEF Answers
  <1>2. (\A i \in DOMAIN msgs : MsgOK(msgs[i]))'
    BY <1>1, MsgStands
  <1> QED
    BY <1>2 DEF Answers, MsgsKept, MsgsStep

LEMMA PostedStep ==
    ASSUME Answers, VisitsKept, NEW m, MsgOK(m), Post(m)
    PROVE  MsgsStep
  <1>1. \A i \in DOMAIN msgs : MsgOK(msgs[i])
    BY DEF Answers
  <1>2. /\ DOMAIN msgs = 1 .. Len(msgs) /\ DOMAIN msgs' = 1 .. Len(msgs) + 1 /\ Len(msgs) \in Nat
        /\ msgs'[Len(msgs) + 1] = m /\ \A i \in DOMAIN msgs : msgs'[i] = msgs[i]
    BY Posted
  <1>3. \A i \in DOMAIN msgs' : i \in DOMAIN msgs \/ msgs'[i] = m
    BY <1>2
  <1>4. (\A i \in DOMAIN msgs : MsgOK(msgs[i]))'
    BY <1>1, <1>2, <1>3, MsgStands
  <1> QED
    BY <1>4, Posted DEF MsgsStep

LEMMA EditedStep ==
    ASSUME Answers, VisitsKept, NEW h \in Handlers, TapEdit(h)
    PROVE  MsgsStep
  <1>1. \A i \in DOMAIN msgs : MsgOK(msgs[i])
    BY DEF Answers
  <1>2. PICK i : i = job[h].msg
    OBVIOUS
  <1>3. PICK m : m = msgs'[i]
    OBVIOUS
  <1>4. /\ DOMAIN msgs' = DOMAIN msgs /\ MsgOK(m)
        /\ \A j \in DOMAIN msgs \ {i} : msgs'[j] = msgs[j]
    BY <1>2, <1>3, Edited
  <1>5. (\A j \in DOMAIN msgs : MsgOK(msgs[j]))'
    BY <1>1, <1>3, <1>4, MsgStands
  <1> QED
    BY <1>5, Edited DEF MsgsStep

LEMMA StepMsgs ==
    ASSUME Answers, Clock, VisitsKept, Next
    PROVE  MsgsStep
  <1>1. CASE UNCHANGED msgs
    BY <1>1, SameMsgs
  <1>2. CASE WarnSend
    <2> DEFINE m == [kind |-> "warn", course |-> Course, day |-> Today, text |-> "open",
                     offers |-> tick.offers]
    <2>1. Today \in Nat
      BY <1>2, SlotAtHand DEF WarnSend, AtSlot, Idle
    <2>2. MsgOK(m)
      BY <2>1 DEF MsgOK
    <2>3. Post(m) \/ UNCHANGED msgs
      BY <1>2 DEF WarnSend
    <2> HIDE DEF m
    <2> QED
      BY <1>1, <2>2, <2>3, PostedStep
  <1>3. CASE RemindSend
    <2> DEFINE m == [kind |-> "ask", key |-> <<Course, Today>>, text |-> "open"]
    <2>1. Course \in Courses /\ Today \in Days
      BY <1>3, SlotAtHand DEF RemindSend, AtSlot, Idle
    <2>2. MsgOK(m)
      BY <2>1 DEF MsgOK, Key
    <2>3. Post(m) \/ UNCHANGED msgs
      BY <1>3 DEF RemindSend
    <2> HIDE DEF m
    <2> QED
      BY <1>1, <2>2, <2>3, PostedStep
  <1>4. CASE Minute \/ TickStart \/ TickFail
    BY <1>1, <1>4 DEF Minute, TickStart, TickFail
  <1>5. CASE TickDone \/ TickError \/ WarnCheck \/ WarnBalance \/ RemindCheck
    BY <1>1, <1>5 DEF TickDone, TickError, WarnCheck, WarnBalance, RemindCheck, TickOnly
  <1>6. ASSUME NEW h \in Handlers, Work(h)
        PROVE  MsgsStep
    BY <1>1, <1>6, EditedStep DEF Work, TapCreate, TapLook, TapFail, PaidWrite, PaidFail, tables
  <1>7. CASE Restart
    BY <1>1, <1>7 DEF Restart
  <1> QED
    BY <1>1, <1>2, <1>3, <1>4, <1>5, <1>6, <1>7, NextKinds, PressedApart, EnteredApart DEF Scheduler

LEMMA SameJobs ==
    ASSUME Answers, VisitsKept, MsgsKept, UNCHANGED job
    PROVE  JobsStep
  <1>1. DOMAIN job = Handlers /\ \A h \in Handlers : JobOK(job[h])
    BY DEF Answers
  <1>2. (\A h \in Handlers : JobOK(job[h]))'
    BY <1>1, JobStands
  <1> QED
    BY <1>1, <1>2 DEF JobsStep

LEMMA JobTaken ==
    ASSUME Answers, VisitsKept, MsgsKept, NEW h \in Handlers, NEW j, Goto(h, j), JobOK(j)'
    PROVE  JobsStep
  <1>1. DOMAIN job = Handlers /\ \A k \in Handlers : JobOK(job[k])
    BY DEF Answers
  <1>2. /\ DOMAIN job' = Handlers /\ job'[h] = j
        /\ \A k \in Handlers \ {h} : job'[k] = job[k]
    BY <1>1 DEF Goto
  <1>3. (\A k \in Handlers : JobOK(job[k]))'
    BY <1>1, <1>2, JobStands
  <1> QED
    BY <1>2, <1>3 DEF JobsStep

LEMMA IdleIsOK == JobOK(Idle) /\ JobOK(Idle)'
  BY DEF JobOK, Idle

LEMMA PressedJobs ==
    ASSUME Answers, VisitsKept, MsgsKept, NEW h \in Handlers, Pressed(h)
    PROVE  JobsStep
  <1> SUFFICES \E j : Goto(h, j) /\ JobOK(j)
    BY JobStands, JobTaken
  <1>1. ASSUME NEW i \in DOMAIN msgs, NEW s \in Status, AskTap(h, i, s)
        PROVE  \E j : Goto(h, j) /\ JobOK(j)
    <2>1. Asks(i) /\ msgs[i].key \in Key
      BY <1>1 DEF AskTap, Answers, MsgOK, Asks
    <2>2. CASE Exists(msgs[i].key)
      <3>1. Goto(h, Edit(i, "already", NoVisit))
        BY <1>1, <2>2 DEF AskTap, Press
      <3>2. JobOK(Edit(i, "already", NoVisit))
        BY <2>1, <2>2 DEF JobOK, Edit, Answer, Answers
      <3> QED
        BY <3>1, <3>2
    <2>3. CASE ~Exists(msgs[i].key)
      <3> DEFINE j == [step |-> "create", msg |-> i, key |-> msgs[i].key, status |-> s]
      <3>1. Goto(h, j)
        BY <1>1, <2>3 DEF AskTap, Press
      <3>2. JobOK(j)
        BY <2>1 DEF JobOK
      <3> QED
        BY <3>1, <3>2
    <2> QED
      BY <2>2, <2>3
  <1>2. ASSUME NEW i \in DOMAIN msgs, ReasonTap(h, i)
        PROVE  \E j : Goto(h, j) /\ JobOK(j)
    <2> DEFINE j == [step |-> "look", msg |-> i, id |-> msgs[i].says]
    <2>1. Asks(i) /\ msgs[i].says \in Nat \ {0}
      BY <1>2 DEF ReasonTap, Answers, MsgOK, Asks, Answer
    <2>2. Goto(h, j)
      BY <1>2 DEF ReasonTap, Press
    <2>3. JobOK(j)
      BY <2>1 DEF JobOK
    <2> QED
      BY <2>2, <2>3
  <1>3. ASSUME NEW i \in DOMAIN msgs, NEW offer, PaidTap(h, i, offer)
        PROVE  \E j : Goto(h, j) /\ JobOK(j)
    <2> DEFINE j == [step |-> "pay", msg |-> i, offer |-> offer]
    <2>1. Goto(h, j)
      BY <1>3 DEF PaidTap, Press
    <2>2. JobOK(j)
      BY <1>3 DEF PaidTap, JobOK, Warns
    <2> QED
      BY <2>1, <2>2
  <1>4. ASSUME NEW c \in Courses, NEW d \in Days, NEW s \in Status, AddTap(h, c, d, s)
        PROVE  \E j : Goto(h, j) /\ JobOK(j)
    <2> DEFINE j == [step |-> "create", msg |-> 0, key |-> <<c, d>>, status |-> s]
    <2>1. Goto(h, j)
      BY <1>4 DEF AddTap, Press
    <2>2. JobOK(j)
      BY DEF JobOK, Key
    <2> QED
      BY <2>1, <2>2
  <1> QED
    BY <1>1, <1>2, <1>3, <1>4 DEF Pressed

\* The job of a tap that creates a visit, or finds that somebody did.
LEMMA CreateJobs ==
    ASSUME Answers, VisitsKept, MsgsKept, NEW h \in Handlers, TapCreate(h)
    PROVE  JobsStep
  <1>1. PICK j : j = job[h]
    OBVIOUS
  <1>2. /\ j.step = "create" /\ JobOK(j) /\ CreateVisit(j.key, j.status) /\ UNCHANGED touched
        /\ VisitsOK
    BY <1>1 DEF TapCreate, Working, Answers, VisitsOK
  <1>3. j.key \in Key /\ j.status \in Status /\ (j.msg # 0 => Asks(j.msg) /\ msgs[j.msg].key = j.key)
    BY <1>2 DEF JobOK
  <1>4. CASE j.msg = 0
    <2>1. Goto(h, Idle)
      BY <1>1, <1>4 DEF TapCreate
    <2> QED
      BY <2>1, JobTaken, IdleIsOK
  <1>5. CASE j.msg # 0
    <2>1. Asks(j.msg)' /\ msgs'[j.msg].key = j.key
      BY <1>3, <1>5 DEF Asks, MsgsKept
    <2>2. CASE Exists(j.key)
      <3> DEFINE a == Edit(j.msg, "already", NoVisit)
      <3>1. Goto(h, a)
        BY <1>1, <1>5, <2>2 DEF TapCreate
      <3>2. j.key \in marked'
        BY <1>2, <1>3, <2>2 DEF VisitsOK, VisitsKept
      <3>3. JobOK(a)'
        BY <2>1, <3>2 DEF JobOK, Edit, Answer
      <3> HIDE DEF a
      <3> QED
        BY <3>1, <3>3, JobTaken
    <2>3. CASE ~Exists(j.key)
      <3>1. visit'[j.key].status = j.status
        BY <1>2, <1>3, <2>3, VisitCreated
      <3>2. PICK n \in Nat \ {0} : n = ids + 1
        BY <1>2 DEF VisitsOK
      <3> DEFINE told == Edit(j.msg, "said", [key |-> j.key, status |-> j.status])
                 why == Edit(j.msg, "why", n)
                 look == [step |-> "look", msg |-> j.msg, id |-> n]
      <3>3. Goto(h, told) \/ Goto(h, why) \/ Goto(h, look)
        BY <1>1, <1>5, <2>3, <3>2 DEF TapCreate
      <3>4. JobOK(told)'
        BY <1>3, <2>1, <3>1 DEF JobOK, Edit, Answer, Told
      <3>5. JobOK(why)'
        BY <2>1 DEF JobOK, Edit, Answer
      <3>6. JobOK(look)'
        BY <2>1 DEF JobOK
      <3> HIDE DEF told, why, look
      <3> QED
        BY <3>3, <3>4, <3>5, <3>6, JobTaken
    <2> QED
      BY <2>2, <2>3
  <1> QED
    BY <1>4, <1>5

LEMMA WorkJobs ==
    ASSUME Answers, VisitsKept, MsgsKept, NEW h \in Handlers, Work(h)
    PROVE  JobsStep
  <1>1. CASE TapEdit(h) \/ TapFail(h) \/ PaidFail(h)
    <2>1. Goto(h, Idle)
      BY <1>1 DEF TapEdit, TapFail, PaidFail
    <2> QED
      BY <2>1, JobTaken, IdleIsOK
  <1>2. CASE TapLook(h)
    <2>1. Asks(job[h].msg) /\ job[h].id \in Nat \ {0}
      BY <1>2 DEF TapLook, Working, Answers, JobOK
    <2>2. PICK j : Goto(h, j) /\ JobOK(j)
      <3>1. CASE Goto(h, Edit(job[h].msg, "gone", NoVisit))
        BY <2>1, <3>1 DEF JobOK, Edit, Answer
      <3>2. ASSUME NEW k \in Key, visit[k].id = job[h].id,
                   Goto(h, Edit(job[h].msg, "said", [key |-> k, status |-> visit[k].status]))
            PROVE  \E j : Goto(h, j) /\ JobOK(j)
        <4>1. visit[k].status \in Status
          BY <2>1, <3>2 DEF Answers, NoVisit
        <4>2. JobOK(Edit(job[h].msg, "said", [key |-> k, status |-> visit[k].status]))
          BY <2>1, <4>1 DEF JobOK, Edit, Answer, Told
        <4> QED
          BY <3>2, <4>2
      <3> QED
        BY <1>2, <3>1, <3>2 DEF TapLook
    <2> QED
      BY <2>2, JobStands, JobTaken
  <1>3. CASE PaidWrite(h)
    <2> DEFINE a == Edit(job[h].msg, "paid", NoVisit)
    <2>1. Warns(job[h].msg)
      BY <1>3 DEF PaidWrite, Working, Answers, JobOK
    <2>2. Goto(h, a)
      BY <1>3 DEF PaidWrite
    <2>3. JobOK(a)
      BY <2>1 DEF JobOK, Edit
    <2> HIDE DEF a
    <2>4. PICK j : Goto(h, j) /\ JobOK(j)
      BY <2>2, <2>3
    <2> QED
      BY <2>4, JobStands, JobTaken
  <1> QED
    BY <1>1, <1>2, <1>3, CreateJobs DEF Work

LEMMA StepAnswers ==
    ASSUME Answers, Clock, Next
    PROVE  Answers' /\ VisitsKept /\ MsgsKept
  <1>1. VisitsOK' /\ VisitsKept
    BY StepVisits DEF VisitsStep
  <1>2. MsgsStep /\ MsgsKept
    BY <1>1, StepMsgs DEF MsgsStep
  <1>3. JobsStep
    <2>1. CASE Restart
      <3>1. job' = [h \in Handlers |-> Idle]
        BY <2>1 DEF Restart
      <3>2. \A h \in Handlers : job'[h] = Idle
        BY <3>1
      <3>3. (\A h \in Handlers : JobOK(job[h]))'
        BY <3>2, IdleIsOK DEF Idle, JobOK
      <3> QED
        BY <3>1, <3>3 DEF JobsStep
    <2> QED
      BY <1>1, <1>2, <2>1, NextKinds, SchedulerApart, EnteredApart, SameJobs, WorkJobs, PressedJobs
  <1>4. Answers'
    BY <1>1, <1>2, <1>3 DEF Answers, VisitsOK, MsgsStep, JobsStep
  <1> QED
    BY <1>1, <1>2, <1>4

-----------------------------------------------------------------------------
(* Payments.                                                                *)

LEMMA MsgNumbers ==
    ASSUME Answers
    PROVE  DOMAIN msgs = 1 .. Len(msgs) /\ Len(msgs) \in Nat /\ 0 \notin DOMAIN msgs
  <1>1. DOMAIN msgs = 1 .. Len(msgs) /\ Len(msgs) \in Nat
    BY OwnSeq DEF Answers
  <1> QED
    BY <1>1

LEMMA WarnStays ==
    ASSUME MsgsKept, NEW i, Warns(i)
    PROVE  Warns(i)' /\ (msgs[i].text # "open" => msgs'[i].text # "open")
  BY DEF MsgsKept, Warns

\* No payment, and no handler that begins one.
LEMMA NothingPaid ==
    ASSUME Payments, MsgsKept, UNCHANGED <<pays, taken, torn>>,
           \A h \in Handlers : Paying(h)' => Paying(h) /\ job'[h].msg = job[h].msg
    PROVE  Payments'
  BY WarnStays DEF Payments, PaidOnce

\* A set of payments that stand for as many of before.
LEMMA PaymentsEdited ==
    ASSUME Payments, Answers, UNCHANGED <<msgs, job, taken, torn>>,
           \A p \in pays' : p = [id |-> p.id, course |-> p.course, lessons |-> p.lessons, from |-> p.from],
           \A p \in pays' : p.from.msg = 0 \/ \E q \in pays : p.from = q.from,
           \A p, q \in pays' : p # q /\ p.from.msg = q.from.msg /\ p.from.msg # 0 =>
               \E r, s \in pays : r # s /\ r.from = p.from /\ s.from = q.from
    PROVE  Payments'
  <1>1. \A p \in pays' : p.from.msg # 0 =>
           /\ Warns(p.from.msg)'
           /\ p.from.msg \in torn' \cup taken' \/ msgs'[p.from.msg].text # "open"
    BY DEF Payments, Warns
  <1>2. \A h \in Handlers : Paying(h) => job[h].msg # 0
    BY MsgNumbers DEF Answers, JobOK, Paying, Warns
  <1>3. \A h \in Handlers : Paying(h)' =>
           /\ job'[h].msg \in taken'
           /\ \A p \in pays' : p.from.msg = job'[h].msg => job'[h].msg \in torn'
    <2> SUFFICES ASSUME NEW h \in Handlers, Paying(h)
                 PROVE  /\ job[h].msg \in taken
                        /\ \A p \in pays' : p.from.msg = job[h].msg => job[h].msg \in torn
      BY DEF Paying
    <2> QED
      BY <1>2 DEF Payments
  <1>4. PaidOnce'
    BY DEF Payments, PaidOnce
  <1> QED
    BY <1>1, <1>3, <1>4 DEF Payments, Paying

LEMMA TapPayments ==
    ASSUME Answers, Payments, NEW h \in Handlers, NEW i \in DOMAIN msgs, NEW offer,
           PaidTap(h, i, offer), UNCHANGED <<pays, msgs, torn>>
    PROVE  Payments'
  <1>1. /\ msgs[i].text = "open" /\ i \notin taken /\ taken' = taken \cup {i}
        /\ job' = [job EXCEPT ![h] = [step |-> "pay", msg |-> i, offer |-> offer]]
    BY DEF PaidTap, Press, Goto
  <1>2. /\ job'[h].step = "pay" /\ job'[h].msg = i
        /\ \A k \in Handlers \ {h} : job'[k] = job[k]
    BY <1>1 DEF Answers
  <1>3. \A p \in pays : p.from.msg = i => i \in torn
    BY <1>1, MsgNumbers DEF Payments
  <1>4. \A k \in Handlers : Paying(k) => job[k].msg # i
    BY <1>1 DEF Payments
  <1>5. \A k \in Handlers : Paying(k)' => k = h \/ (Paying(k) /\ job'[k].msg = job[k].msg)
    BY <1>2 DEF Paying
  <1>6. \A p \in pays : p.from.msg # 0 =>
           /\ Warns(p.from.msg)'
           /\ p.from.msg \in torn' \cup taken' \/ msgs'[p.from.msg].text # "open"
    BY <1>1 DEF Payments, Warns
  <1> QED
    BY <1>1, <1>2, <1>3, <1>4, <1>5, <1>6 DEF Payments, PaidOnce

LEMMA WritePayments ==
    ASSUME Answers, Payments, NEW h \in Handlers, PaidWrite(h)
    PROVE  Payments'
  <1>1. PICK i : i = job[h].msg
    OBVIOUS
  <1>2. Paying(h) /\ Warns(i)
    BY <1>1 DEF PaidWrite, Working, Paying, Answers, JobOK
  <1> DEFINE new == [id |-> ids + 1, course |-> msgs[i].course, lessons |-> job[h].offer.lessons,
                     from |-> [msg |-> i, through |-> job[h].offer.through]]
  <1>3. /\ pays' = pays \cup {new} /\ UNCHANGED <<msgs, taken, torn>>
        /\ job' = [job EXCEPT ![h] = Edit(i, "paid", NoVisit)]
    BY <1>1 DEF PaidWrite, CreatePayment, Goto, history
  <1>4. /\ new.from.msg = i
        /\ new = [id |-> new.id, course |-> new.course, lessons |-> new.lessons, from |-> new.from]
    OBVIOUS
  <1> HIDE DEF new
  <1>5. job'[h].step = "edit" /\ \A k \in Handlers \ {h} : job'[k] = job[k]
    BY <1>3 DEF Answers, Edit
  <1>6. \A k \in Handlers : Paying(k)' => k # h /\ Paying(k) /\ job'[k] = job[k]
    BY <1>5 DEF Paying
  <1>7. i \in taken /\ \A p \in pays : p.from.msg = i => i \in torn
    BY <1>1, <1>2 DEF Payments
  <1>8. \A k \in Handlers : Paying(k)' => job'[k].msg # i
    BY <1>1, <1>2, <1>6 DEF Payments
  <1>9. \A p \in pays' :
           /\ p = [id |-> p.id, course |-> p.course, lessons |-> p.lessons, from |-> p.from]
           /\ p.from.msg # 0 =>
                 /\ Warns(p.from.msg)'
                 /\ p.from.msg \in torn' \cup taken' \/ msgs'[p.from.msg].text # "open"
    BY <1>2, <1>3, <1>4, <1>7 DEF Payments, Warns
  <1>10. PaidOnce'
    BY <1>3, <1>4, <1>7 DEF Payments, PaidOnce
  <1>11. \A k \in Handlers : Paying(k)' =>
           /\ job'[k].msg \in taken'
           /\ \A p \in pays' : p.from.msg = job'[k].msg => job'[k].msg \in torn'
    BY <1>3, <1>4, <1>6, <1>8 DEF Payments
  <1> QED
    BY <1>6, <1>9, <1>10, <1>11 DEF Payments

LEMMA FailPayments ==
    ASSUME Answers, Payments, NEW h \in Handlers, PaidFail(h)
    PROVE  Payments'
  <1>1. PICK i : i = job[h].msg
    OBVIOUS
  <1>2. /\ Paying(h) /\ taken' = taken \ {i} /\ UNCHANGED <<pays, msgs, torn>>
        /\ job' = [job EXCEPT ![h] = Idle]
    BY <1>1 DEF PaidFail, Working, Paying, Goto, tables, history
  <1>3. job'[h].step = "idle" /\ \A k \in Handlers \ {h} : job'[k] = job[k]
    BY <1>2 DEF Answers, Idle
  <1>4. \A k \in Handlers : Paying(k)' => k # h /\ Paying(k) /\ job'[k] = job[k]
    BY <1>3 DEF Paying
  <1>5. \A p \in pays : p.from.msg = i => i \in torn
    BY <1>1, <1>2 DEF Payments
  <1>6. \A k \in Handlers : Paying(k)' => job'[k].msg \in taken'
    BY <1>1, <1>2, <1>4 DEF Payments
  <1>7. \A p \in pays : p.from.msg # 0 =>
           /\ Warns(p.from.msg)'
           /\ p.from.msg \in torn' \cup taken' \/ msgs'[p.from.msg].text # "open"
    BY <1>2, <1>5 DEF Payments, Warns
  <1> QED
    BY <1>2, <1>4, <1>6, <1>7 DEF Payments, PaidOnce

LEMMA RestartPayments ==
    ASSUME Answers, Payments, Restart
    PROVE  Payments'
  <1>1. /\ torn' = torn \cup {i \in DOMAIN msgs : msgs[i].text = "open" /\ \E p \in pays : p.from.msg = i}
        /\ UNCHANGED <<pays, msgs>> /\ job' = [h \in Handlers |-> Idle]
    BY DEF Restart, tables
  <1>2. \A p \in pays : p.from.msg # 0 =>
           Warns(p.from.msg)' /\ (p.from.msg \in torn' \/ msgs'[p.from.msg].text # "open")
    BY <1>1 DEF Payments, Warns
  <1>3. \A h \in Handlers : ~Paying(h)'
    BY <1>1 DEF Paying, Idle
  <1> QED
    BY <1>1, <1>2, <1>3 DEF Payments, PaidOnce

LEMMA EnteredPayments ==
    ASSUME Answers, Payments, Entered
    PROVE  Payments'
  <1>1. UNCHANGED <<msgs, job, taken, torn>>
    BY EnteredApart
  <1>2. \A p \in pays : p = [id |-> p.id, course |-> p.course, lessons |-> p.lessons, from |-> p.from]
    BY DEF Payments
  <1>3. CASE UNCHANGED pays
    BY <1>1, <1>2, <1>3, PaymentsEdited
  <1>4. ASSUME NEW c \in Courses, FormPay(c, 1)
        PROVE  Payments'
    <2> DEFINE new == [id |-> ids + 1, course |-> c, lessons |-> 1,
                       from |-> [msg |-> 0, through |-> 0]]
    <2>1. pays' = pays \cup {new}
      BY <1>4 DEF FormPay, CreatePayment
    <2>2. /\ new.from.msg = 0
          /\ new = [id |-> new.id, course |-> new.course, lessons |-> new.lessons, from |-> new.from]
      OBVIOUS
    <2> HIDE DEF new
    <2> QED
      BY <1>1, <1>2, <2>1, <2>2, PaymentsEdited
  <1>5. ASSUME NEW p \in pays, FormDeletePay(p)
        PROVE  Payments'
    <2>1. pays' = pays \ {p}
      BY <1>5 DEF FormDeletePay
    <2> QED
      BY <1>1, <1>2, <2>1, PaymentsEdited
  <1>6. ASSUME NEW p \in pays, NEW c \in Courses, FormUpdatePay(p, c, 1)
        PROVE  Payments'
    <2> DEFINE new == [p EXCEPT !.course = c, !.lessons = 1]
    <2>1. pays' = (pays \ {p}) \cup {new}
      BY <1>6 DEF FormUpdatePay
    <2>2. new = [id |-> p.id, course |-> c, lessons |-> 1, from |-> p.from]
      <3> DEFINE id == p.id course == p.course lessons == p.lessons from == p.from
      <3>1. p = [id |-> id, course |-> course, lessons |-> lessons, from |-> from]
        BY <1>2
      <3> HIDE DEF id, course, lessons, from
      <3> DEFINE q == [p EXCEPT !.course = c]
      <3>a. q = [id |-> id, course |-> c, lessons |-> lessons, from |-> from]
        BY <3>1
      <3>b. new = [q EXCEPT !.lessons = 1]
        BY <3>1
      <3> HIDE DEF q, new
      <3>2. new = [id |-> id, course |-> c, lessons |-> 1, from |-> from]
        BY <3>a, <3>b
      <3> QED
        BY <3>2 DEF id, from
    <2> HIDE DEF new
    <2>3. /\ new.from = p.from
          /\ new = [id |-> new.id, course |-> new.course, lessons |-> new.lessons, from |-> new.from]
      BY <2>2
    <2>4. \A q \in pays' : q = [id |-> q.id, course |-> q.course, lessons |-> q.lessons, from |-> q.from]
      BY <1>2, <2>1, <2>3
    <2>5. \A q \in pays' : \E r \in pays : q.from = r.from
      BY <2>1, <2>3
    <2>6. \A x, y \in pays' : x # y => \E r, s \in pays : r # s /\ r.from = x.from /\ s.from = y.from
      BY <2>1, <2>3
    <2> QED
      BY <1>1, <2>4, <2>5, <2>6, PaymentsEdited
  <1>7. CASE \/ \E k \in Key, s \in Status : FormVisit(k, s)
             \/ \E k, to \in Key, s \in Status : FormUpdateVisit(k, to, s)
             \/ \E k \in Key : FormDeleteVisit(k)
    BY <1>3, <1>7 DEF FormVisit, FormUpdateVisit, FormDeleteVisit
  <1> QED
    BY <1>4, <1>5, <1>6, <1>7 DEF Entered

\* A handler that neither pays nor begins to.
LEMMA OtherJob ==
    ASSUME Answers, NEW h \in Handlers, NEW j, Goto(h, j), j.step # "pay"
    PROVE  \A k \in Handlers : Paying(k)' => Paying(k) /\ job'[k].msg = job[k].msg
  <1>1. job'[h] = j /\ \A k \in Handlers \ {h} : job'[k] = job[k]
    BY DEF Goto, Answers
  <1> QED
    BY <1>1 DEF Paying

LEMMA PressedPayments ==
    ASSUME Answers, Payments, MsgsKept, NEW h \in Handlers, Pressed(h)
    PROVE  Payments'
  <1>1. UNCHANGED <<pays, msgs, torn>>
    BY PressedApart
  <1>2. ASSUME NEW j, Goto(h, j), j.step # "pay", UNCHANGED taken
        PROVE  Payments'
    BY <1>1, <1>2, OtherJob, NothingPaid
  <1>3. ASSUME NEW i \in DOMAIN msgs, NEW s \in Status, AskTap(h, i, s)
        PROVE  Payments'
    <2>1. PICK j : Goto(h, j) /\ j.step # "pay"
      BY <1>3 DEF AskTap, Press, Edit
    <2> QED
      BY <1>2, <1>3, <2>1 DEF AskTap
  <1>4. ASSUME NEW i \in DOMAIN msgs, ReasonTap(h, i)
        PROVE  Payments'
    <2>1. PICK j : Goto(h, j) /\ j.step # "pay"
      BY <1>4 DEF ReasonTap, Press
    <2> QED
      BY <1>2, <1>4, <2>1 DEF ReasonTap
  <1>5. ASSUME NEW c \in Courses, NEW d \in Days, NEW s \in Status, AddTap(h, c, d, s)
        PROVE  Payments'
    <2>1. PICK j : Goto(h, j) /\ j.step # "pay"
      BY <1>5 DEF AddTap, Press
    <2> QED
      BY <1>2, <1>5, <2>1 DEF AddTap
  <1> QED
    BY <1>1, <1>3, <1>4, <1>5, TapPayments DEF Pressed

LEMMA WorkPayments ==
    ASSUME Answers, Payments, MsgsKept, NEW h \in Handlers, Work(h)
    PROVE  Payments'
  <1>1. CASE TapCreate(h)
    <2>1. PICK j : Goto(h, j) /\ j.step # "pay"
      BY <1>1 DEF TapCreate, Edit, Idle
    <2> QED
      BY <1>1, <2>1, OtherJob, NothingPaid, WorkApart DEF TapCreate, Work
  <1>2. CASE TapLook(h)
    <2>a. \A text, says : Edit(job[h].msg, text, says).step # "pay"
      BY DEF Edit
    <2>1. PICK j : Goto(h, j) /\ j.step # "pay"
      BY <1>2, <2>a, Zenon DEF TapLook
    <2> QED
      BY <1>2, <2>1, OtherJob, NothingPaid DEF TapLook, tables, history
  <1>3. CASE TapEdit(h) \/ TapFail(h)
    <2>1. Goto(h, Idle) /\ Idle.step # "pay"
      BY <1>3 DEF TapEdit, TapFail, Idle
    <2> QED
      BY <1>3, <2>1, OtherJob, NothingPaid DEF TapEdit, TapFail, tables, history
  <1> QED
    BY <1>1, <1>2, <1>3, WritePayments, FailPayments DEF Work

LEMMA StepPayments ==
    ASSUME Answers, Payments, MsgsKept, Next
    PROVE  Payments'
  <1>1. CASE Scheduler
    <2>1. UNCHANGED <<pays, job, taken, torn>>
      BY <1>1, SchedulerApart
    <2> QED
      BY <2>1, NothingPaid DEF Paying
  <1> QED
    BY <1>1, NextKinds, PressedPayments, WorkPayments, EnteredPayments, RestartPayments

-----------------------------------------------------------------------------
(* The ticker.                                                              *)

\* The maps are of one day, and grow on it.
SaidGrows ==
    /\ said'.date = said.date
    /\ said.reminded \subseteq said'.reminded /\ said.warned \subseteq said'.warned
    /\ said' = [date |-> said'.date, reminded |-> said'.reminded, warned |-> said'.warned]

LEMMA SameSaid ==
    ASSUME Clock, UNCHANGED said
    PROVE  SaidGrows
  BY DEF Clock, SaidGrows

LEMMA SaidNoted ==
    ASSUME Clock, NEW c
    PROVE  /\ said' = [said EXCEPT !.warned = @ \cup {c}] => SaidGrows /\ said'.warned = said.warned \cup {c} /\ said'.reminded = said.reminded
           /\ said' = [said EXCEPT !.reminded = @ \cup {c}] => SaidGrows /\ said'.reminded = said.reminded \cup {c} /\ said'.warned = said.warned
  <1> DEFINE date == said.date reminded == said.reminded warned == said.warned
  <1>1. said = [date |-> date, reminded |-> reminded, warned |-> warned]
    BY DEF Clock
  <1> HIDE DEF date, reminded, warned
  <1>2. ASSUME said' = [said EXCEPT !.warned = @ \cup {c}]
        PROVE  SaidGrows /\ said'.warned = said.warned \cup {c} /\ said'.reminded = said.reminded
    <2>1. said' = [date |-> date, reminded |-> reminded, warned |-> warned \cup {c}]
      BY <1>1, <1>2
    <2> QED
      BY <1>1, <2>1 DEF SaidGrows
  <1>3. ASSUME said' = [said EXCEPT !.reminded = @ \cup {c}]
        PROVE  SaidGrows /\ said'.reminded = said.reminded \cup {c} /\ said'.warned = said.warned
    <2>1. said' = [date |-> date, reminded |-> reminded \cup {c}, warned |-> warned]
      BY <1>1, <1>3
    <2> QED
      BY <1>1, <2>1 DEF SaidGrows
  <1> QED
    BY <1>2, <1>3

\* The pass turns to its next step, at this slot or at the next.
Turns ==
    /\ tick # Idle /\ SaidGrows /\ UNCHANGED <<now, due>>
    /\ tick'.step \in {"warn", "balance", "offer", "remind", "ask"} /\ tick'.at = tick.at
    /\ tick'.step # "offer" => tick' = [step |-> tick'.step, at |-> tick'.at, left |-> tick'.left]
    /\ tick.left # <<>>
    /\ tick'.left = tick.left \/ (tick'.left = Tail(tick.left) /\ tick'.step = "warn")

LEMMA TickTurned ==
    ASSUME Clock, tick # Idle, tick.step # "offer", NEW s
    PROVE  /\ [tick EXCEPT !.step = s] = [step |-> s, at |-> tick.at, left |-> tick.left]
           /\ [tick EXCEPT !.step = s, !.left = Tail(@)] =
                 [step |-> s, at |-> tick.at, left |-> Tail(tick.left)]
  <1> DEFINE step == tick.step at == tick.at left == tick.left
  <1>1. tick = [step |-> step, at |-> at, left |-> left]
    BY DEF Clock, Pass
  <1> HIDE DEF step, at, left
  <1> DEFINE q == [tick EXCEPT !.step = s]
  <1>2. q = [step |-> s, at |-> at, left |-> left]
    BY <1>1
  <1> DEFINE rest == Tail(left)
  <1>3. [tick EXCEPT !.step = s, !.left = Tail(@)] = [q EXCEPT !.left = rest]
    BY <1>1
  <1> HIDE DEF q, rest
  <1>4. [q EXCEPT !.left = rest] = [step |-> s, at |-> at, left |-> rest]
    BY <1>2
  <1> QED
    BY <1>2, <1>3, <1>4 DEF q, at, left, rest

LEMMA NotIdle == ASSUME NEW t, t.step \in {"warn", "balance", "offer", "remind", "ask"} PROVE t # Idle
  BY DEF Idle

LEMMA TurnsClock ==
    ASSUME Clock, Turns
    PROVE  Clock' /\ Reached' = Reached /\ tick' # Idle /\ Today' = Today
  <1>1. tick' # Idle
    BY NotIdle DEF Turns
  <1>2. Pass
    BY DEF Clock, Turns
  <1>3. Today' = Today
    BY DEF Turns, Today
  <1>4. tick'.left \in Seq(Slot)
    BY <1>2, HeadTailProperties DEF Pass, Turns
  <1>5. Pass'
    BY <1>2, <1>3, <1>4 DEF Pass, Turns, SaidGrows
  <1>6. Reached' = Reached
    BY <1>1, <1>3 DEF Reached, Turns
  <1>7. UNCHANGED <<now, due>> /\ said'.date = said.date
        /\ said' = [date |-> said'.date, reminded |-> said'.reminded, warned |-> said'.warned]
    BY DEF Turns, SaidGrows
  <1> QED
    BY <1>1, <1>3, <1>5, <1>6, <1>7 DEF Clock

LEMMA ReachedIs ==
    ASSUME Clock
    PROVE  /\ Reached \in Nat /\ Reached <= Date(now) /\ Date(now) \in Nat
           /\ due # NoTick => due \in Nat /\ Date(due) \in Nat /\ Reached <= Date(due) /\ Date(due) <= Date(now)
           /\ tick # Idle => tick.at \in Nat /\ Reached = Today /\ tick.at <= now
  <1>1. now \in Nat /\ (due # NoTick => due \in Nat /\ due <= now)
    BY DEF Clock
  <1>2. tick # Idle => tick.at \in Nat /\ tick.at <= now /\ (due # NoTick => tick.at <= due)
    BY <1>1 DEF Clock, Pass
  <1>3. Date(now) \in Nat /\ (due # NoTick => Date(due) \in Nat /\ Date(due) <= Date(now))
    BY <1>1, DayIs, DayGrows
  <1>4. tick # Idle => /\ Today \in Nat /\ Today <= Date(now)
                       /\ due # NoTick => Today <= Date(due)
    BY <1>1, <1>2, DayIs, DayGrows DEF Today
  <1> QED
    BY <1>1, <1>2, <1>3, <1>4 DEF Reached

LEMMA PassTurns ==
    ASSUME Clock, WarnCheck \/ WarnBalance \/ WarnSend \/ RemindCheck \/ RemindSend \/ TickError
    PROVE  Turns
  <1>1. tick # Idle /\ tick.left # <<>> /\ tick.step \in {"warn", "balance", "offer", "remind", "ask"}
    BY DEF WarnCheck, WarnBalance, WarnSend, RemindCheck, RemindSend, TickError, AtSlot, Idle
  <1>2. UNCHANGED <<now, due>>
    BY DEF WarnCheck, WarnBalance, WarnSend, RemindCheck, RemindSend, TickError, TickOnly
  <1>3. SaidGrows
    BY SaidNoted, SameSaid DEF WarnCheck, WarnBalance, WarnSend, RemindCheck, RemindSend, TickError
  <1>4. ASSUME NEW s \in {"warn", "balance", "remind", "ask"}, tick.step # "offer",
               tick' = [tick EXCEPT !.step = s]
        PROVE  Turns
    <2>1. tick' = [step |-> s, at |-> tick.at, left |-> tick.left]
      BY <1>1, <1>4, TickTurned
    <2> QED
      BY <1>1, <1>2, <1>3, <2>1 DEF Turns
  <1>5. ASSUME tick.step # "offer", tick' = NextSlot
        PROVE  Turns
    <2>1. tick' = [step |-> "warn", at |-> tick.at, left |-> Tail(tick.left)]
      BY <1>1, <1>5, TickTurned DEF NextSlot
    <2> QED
      BY <1>1, <1>2, <1>3, <2>1 DEF Turns
  <1>6. CASE WarnCheck
    BY <1>4, <1>6 DEF WarnCheck, TickOnly, Remind, AtSlot
  <1>7. CASE WarnBalance
    <2>1. CASE tick' = Remind
      BY <1>4, <1>7, <2>1 DEF WarnBalance, AtSlot, Remind
    <2>2. ASSUME NEW o, tick' = [step |-> "offer", at |-> tick.at, left |-> tick.left, course |-> Course,
                                 offers |-> o]
          PROVE  Turns
      BY <1>1, <1>2, <1>3, <2>2 DEF Turns
    <2>3. tick' = Remind \/ \E o : tick' = [step |-> "offer", at |-> tick.at, left |-> tick.left,
                                            course |-> Course, offers |-> o]
      BY <1>7 DEF WarnBalance, TickOnly
    <2> QED
      BY <2>1, <2>2, <2>3
  <1>8. CASE WarnSend
    BY <1>1, <1>2, <1>3, <1>8 DEF WarnSend, Turns
  <1>9. CASE RemindCheck
    BY <1>4, <1>5, <1>9 DEF RemindCheck, TickOnly, AtSlot
  <1>10. CASE RemindSend
    BY <1>5, <1>10 DEF RemindSend, AtSlot
  <1>11. CASE TickError
    BY <1>4, <1>5, <1>11 DEF TickError, TickOnly, Remind
  <1> QED
    BY <1>6, <1>7, <1>8, <1>9, <1>10, <1>11

\* The ticker never goes back, and its maps are kept for the day they are of.
ClockStep ==
    /\ Clock' /\ Reached <= Reached' /\ troubled \subseteq troubled'
    /\ SaidGrows \/ said.date < Reached' \/ said.date \in troubled'

LEMMA MinuteClock ==
    ASSUME Clock, Minute
    PROVE  ClockStep
  <1>1. /\ now' = now + 1 /\ due' = (IF due = NoTick THEN now + 1 ELSE due)
        /\ UNCHANGED <<tick, said>> /\ troubled \subseteq troubled'
    BY DEF Minute
  <1>2. now \in Nat /\ now + 1 \in Nat /\ now' \in Nat /\ (due = NoTick \/ due \in 0..now)
    BY <1>1 DEF Clock
  <1>a. (due # NoTick => due' = due) /\ (due = NoTick => due' = now + 1)
    BY <1>1
  <1>b. due' \in 0..now'
    <2>1. CASE due = NoTick
      BY <1>1, <1>2, <1>a, <2>1
    <2>2. CASE due # NoTick
      BY <1>1, <1>2, <1>a, <2>2
    <2> QED
      BY <2>1, <2>2
  <1>3. due' \in 0..now' /\ (due # NoTick => due' = due) /\ (due = NoTick => due' = now + 1)
    BY <1>a, <1>b
  <1>4. tick # Idle => Pass'
    <2> SUFFICES ASSUME tick # Idle
                 PROVE  Pass'
      OBVIOUS
    <2>1. Pass
      BY DEF Clock
    <2>2. tick'.at \in 0..now' /\ tick'.at < due'
      BY <1>1, <1>2, <1>3, <2>1 DEF Pass
    <2>3. Today' = Today
      BY <1>1 DEF Today
    <2> QED
      BY <1>1, <2>1, <2>2, <2>3 DEF Pass
  <1>5. due' # NoTick
    BY <1>3, <1>2 DEF NoTick
  <1>6. Date(now) <= Date(now + 1)
    BY <1>2, DayGrows
  <1>7. CASE tick # Idle \/ due # NoTick
    <2>1. Reached' = Reached
      BY <1>1, <1>3, <1>5, <1>7 DEF Reached, Today
    <2> QED
      BY <1>1, <1>2, <1>3, <1>4, <2>1, ReachedIs, SameSaid DEF ClockStep, Clock
  <1>8. CASE tick = Idle /\ due = NoTick
    <2>1. Reached' = Date(now + 1) /\ Reached = Date(now)
      BY <1>1, <1>3, <1>5, <1>8 DEF Reached
    <2>2. Date(now + 1) \in Nat /\ Date(now) \in Nat
      BY <1>2, DayIs
    <2>3. said.date <= Reached' /\ Reached <= Reached'
      BY <1>6, <2>1, <2>2 DEF Clock, NoTick
    <2> QED
      BY <1>1, <1>2, <1>3, <1>8, <2>3, SameSaid DEF ClockStep, Clock
  <1> QED
    BY <1>7, <1>8

\* The maps at the first pass of a day are of that day.
LEMMA MapsOf ==
    ASSUME Clock, tick = Idle, due # NoTick,
           said' = (IF said.date = Date(due) THEN said ELSE Fresh(Date(due)))
    PROVE  /\ said'.date = Date(due)
           /\ said' = [date |-> said'.date, reminded |-> said'.reminded, warned |-> said'.warned]
           /\ SaidGrows \/ (said.date < Date(due) /\ said'.reminded = {})
  <1>1. due \in Nat /\ Date(due) \in Nat /\ Reached = Date(due)
    BY ReachedIs DEF Reached
  <1>2. said.date \in Int /\ said.date <= Date(due)
    BY <1>1 DEF Clock, NoTick
  <1>3. CASE said.date = Date(due)
    BY <1>3, SameSaid DEF SaidGrows
  <1>4. CASE said.date # Date(due)
    <2>1. said' = Fresh(Date(due))
      BY <1>4
    <2> QED
      BY <1>1, <1>2, <1>4, <2>1 DEF Fresh
  <1> QED
    BY <1>3, <1>4

LEMMA StartClock ==
    ASSUME Clock, TickStart
    PROVE  ClockStep /\ tick' # Idle /\ Today' = Date(due)
  <1>1. /\ tick = Idle /\ due # NoTick /\ due' = NoTick /\ UNCHANGED <<now, troubled>>
        /\ tick' = [step |-> "warn", at |-> due,
                    left |-> IF Date(due) \in Days THEN Timetable[Date(due)] ELSE <<>>]
        /\ said' = IF said.date = Date(due) THEN said ELSE Fresh(Date(due))
    BY DEF TickStart, history
  <1>2. /\ tick'.step = "warn" /\ tick'.at = due /\ tick'.left \in Seq(Slot)
        /\ tick' = [step |-> tick'.step, at |-> tick'.at, left |-> tick'.left]
        /\ tick'.left # <<>> => Date(due) \in Days
    BY <1>1, Settings
  <1>3. tick' # Idle /\ Today' = Date(due) /\ Reached' = Date(due)
    BY <1>2, NotIdle DEF Today, Reached
  <1>4. /\ said'.date = Date(due)
        /\ said' = [date |-> said'.date, reminded |-> said'.reminded, warned |-> said'.warned]
        /\ SaidGrows \/ said.date < Date(due)
    BY <1>1, MapsOf
  <1>5. Date(due) \in Nat /\ Reached = Date(due) /\ due \in 0..now /\ now \in Nat
    BY <1>1, ReachedIs DEF Reached, Clock
  <1>6. Pass'
    BY <1>1, <1>2, <1>3, <1>4, <1>5 DEF Pass
  <1>7. Clock'
    BY <1>1, <1>3, <1>4, <1>5, <1>6 DEF Clock
  <1> QED
    BY <1>1, <1>3, <1>4, <1>5, <1>7 DEF ClockStep

LEMMA FailClock ==
    ASSUME Clock, TickFail
    PROVE  ClockStep
  <1>1. /\ tick = Idle /\ due # NoTick /\ due' = NoTick /\ UNCHANGED <<now, tick>>
        /\ troubled \subseteq troubled'
        /\ said' = IF said.date = Date(due) THEN said ELSE Fresh(Date(due))
    BY DEF TickFail
  <1>2. /\ said'.date = Date(due)
        /\ said' = [date |-> said'.date, reminded |-> said'.reminded, warned |-> said'.warned]
        /\ SaidGrows \/ said.date < Date(due)
    BY <1>1, MapsOf
  <1>3. /\ Date(due) \in Nat /\ Reached = Date(due) /\ now \in Nat /\ Date(due) <= Date(now)
        /\ Date(now) \in Nat /\ Reached' = Date(now)
    BY <1>1, ReachedIs DEF Reached, Clock
  <1>4. said.date \in Int
    BY DEF Clock, NoTick
  <1> QED
    BY <1>1, <1>2, <1>3, <1>4 DEF ClockStep, Clock

LEMMA DoneClock ==
    ASSUME Clock, TickDone
    PROVE  ClockStep
  <1>1. tick' = Idle /\ UNCHANGED <<now, due, said, troubled>>
    BY DEF TickDone, TickOnly
  <1>2. Reached' = (IF due # NoTick THEN Date(due) ELSE Date(now))
    BY <1>1 DEF Reached
  <1>3. Reached' \in Nat /\ Reached \in Nat /\ Reached <= Reached'
    BY <1>2, ReachedIs
  <1> QED
    BY <1>1, <1>3, SameSaid DEF ClockStep, Clock, NoTick

LEMMA RestartClock ==
    ASSUME Clock, Restart
    PROVE  ClockStep
  <1>1. /\ due' = NoTick /\ tick' = Idle /\ said' = Fresh(NoTick) /\ UNCHANGED now
        /\ troubled \subseteq troubled' /\ Date(now) \in troubled'
    BY DEF Restart
  <1>2. Reached' = Date(now) /\ Reached \in Nat /\ Reached <= Date(now) /\ Date(now) \in Nat
    BY <1>1, ReachedIs DEF Reached
  <1>3. said.date < Date(now) \/ said.date = Date(now)
    BY <1>2 DEF Clock, NoTick
  <1>4. Clock'
    BY <1>1, <1>2 DEF Clock, Fresh, NoTick
  <1> QED
    BY <1>1, <1>2, <1>3, <1>4 DEF ClockStep

LEMMA SameClock ==
    ASSUME Clock, UNCHANGED <<now, due, tick, said, troubled>>
    PROVE  ClockStep
  <1>1. Today' = Today /\ Reached' = Reached
    BY DEF Reached, Today
  <1>2. Clock'
    BY <1>1 DEF Clock, Pass
  <1> QED
    BY <1>1, <1>2, SameSaid, ReachedIs DEF ClockStep

LEMMA StepClock ==
    ASSUME Clock, Next
    PROVE  ClockStep
  <1>1. CASE WarnCheck \/ WarnBalance \/ WarnSend \/ RemindCheck \/ RemindSend \/ TickError
    <2>1. Turns
      BY <1>1, PassTurns
    <2>2. troubled \subseteq troubled'
      BY <1>1 DEF WarnCheck, WarnBalance, WarnSend, RemindCheck, RemindSend, TickError
    <2>3. Clock' /\ Reached' = Reached /\ SaidGrows
      BY <2>1, TurnsClock DEF Turns
    <2> QED
      BY <2>2, <2>3, ReachedIs DEF ClockStep
  <1> QED
    BY <1>1, NextKinds, MinuteClock, StartClock, FailClock, DoneClock, RestartClock, SameClock,
       PressedApart, EnteredApart, WorkApart DEF Scheduler

-----------------------------------------------------------------------------
(* What the bot says once.                                                  *)

LEMMA ReachedNext ==
    ASSUME Clock'
    PROVE  Reached' \in Nat
  <1>1. now' \in Nat /\ (due' # NoTick => due' \in Nat) /\ (tick' # Idle => tick'.at \in Nat)
    BY DEF Clock, Pass
  <1> QED
    BY <1>1, DayIs DEF Reached, Today

LEMMA KnownStands ==
    ASSUME Clock, ClockStep, NEW c, NEW d \in Nat
    PROVE  /\ Known(c, d, said.warned) => Known(c, d, said.warned)'
           /\ Known(c, d, said.reminded) => Known(c, d, said.reminded)'
  <1>1. Reached \in Nat /\ Reached' \in Nat /\ Reached <= Reached' /\ troubled \subseteq troubled'
    BY ReachedIs, ReachedNext DEF ClockStep
  <1>2. d < Reached => d < Reached'
    BY <1>1
  <1>3. CASE SaidGrows
    BY <1>1, <1>2, <1>3 DEF Known, SaidGrows
  <1>4. CASE said.date < Reached' \/ said.date \in troubled'
    BY <1>1, <1>2, <1>4 DEF Known
  <1> QED
    BY <1>3, <1>4 DEF ClockStep

LEMMA MsgDay ==
    ASSUME NEW m, MsgOK(m)
    PROVE  /\ m.kind = "warn" \/ (m.kind = "ask" /\ m.key \in Key)
           /\ m.kind = "warn" => m.day \in Nat
           /\ m.kind = "ask" => m.key[2] \in Nat /\ m.key = <<m.key[1], m.key[2]>>
  BY Settings DEF MsgOK, Key, Days

LEMMA KnownMsgStands ==
    ASSUME Clock, ClockStep, NEW m, MsgOK(m), KnownMsg(m)
    PROVE  KnownMsg(m)'
  <1>1. CASE m.kind = "warn"
    <2>1. Known(m.course, m.day, said.warned)'
      BY <1>1, MsgDay, KnownStands DEF KnownMsg
    <2> QED
      BY <1>1, <2>1 DEF KnownMsg
  <1>2. CASE m.kind = "ask"
    <2>1. Known(m.key[1], m.key[2], said.reminded)'
      BY <1>2, MsgDay, KnownStands DEF KnownMsg
    <2> QED
      BY <1>2, <2>1 DEF KnownMsg
  <1> QED
    BY <1>1, <1>2, MsgDay

LEMMA KnownMsgs ==
    ASSUME Answers, Clock, ClockStep, MsgsKept, Spoken, NEW i \in DOMAIN msgs, NEW n, n = msgs'[i]
    PROVE  KnownMsg(n)'
  <1>1. PICK m : m = msgs[i]
    OBVIOUS
  <1>2. MsgOK(m) /\ KnownMsg(m)
    BY <1>1 DEF Answers, Spoken
  <1>3. KnownMsg(m)'
    BY <1>2, KnownMsgStands
  <1>4. /\ n.kind = m.kind
        /\ m.kind = "ask" => n.key = m.key
        /\ m.kind = "warn" => n.course = m.course /\ n.day = m.day
    BY <1>1 DEF MsgsKept
  <1> QED
    BY <1>3, <1>4 DEF KnownMsg

About(m) == IF m.kind = "ask" THEN m.key ELSE <<m.course, m.day>>

LEMMA AboutStays ==
    ASSUME Answers, MsgsKept, NEW i \in DOMAIN msgs
    PROVE  msgs'[i].kind = msgs[i].kind /\ About(msgs'[i]) = About(msgs[i])
  <1>1. msgs[i].kind \in {"ask", "warn"}
    BY MsgDay DEF Answers
  <1> QED
    BY <1>1 DEF About, MsgsKept

LEMMA OnceIs ==
    SpokenOnce <=> \A i, j \in DOMAIN msgs :
        i # j /\ msgs[i].kind = msgs[j].kind /\ About(msgs[i]) = About(msgs[j]) =>
            About(msgs[i])[2] \in troubled
  BY DEF SpokenOnce, About

LEMMA OnceIsNext ==
    ASSUME \A i, j \in DOMAIN msgs' :
        i # j /\ msgs'[i].kind = msgs'[j].kind /\ About(msgs'[i]) = About(msgs'[j]) =>
            About(msgs'[i])[2] \in troubled'
    PROVE  SpokenOnce'
  BY DEF SpokenOnce, About

LEMMA SameOnce ==
    ASSUME Answers, MsgsKept, DOMAIN msgs' = DOMAIN msgs, troubled \subseteq troubled', SpokenOnce
    PROVE  SpokenOnce'
  <1>1. \A i, j \in DOMAIN msgs' :
           i # j /\ msgs'[i].kind = msgs'[j].kind /\ About(msgs'[i]) = About(msgs'[j]) =>
               About(msgs'[i])[2] \in troubled'
    BY AboutStays, OnceIs
  <1> QED
    BY <1>1, OnceIsNext

LEMMA NewOnce ==
    ASSUME Answers, troubled \subseteq troubled', SpokenOnce, NEW m, Post(m),
           \A i \in DOMAIN msgs :
               msgs[i].kind = m.kind /\ About(msgs[i]) = About(m) => About(m)[2] \in troubled'
    PROVE  SpokenOnce'
  <1>1. /\ \A i \in DOMAIN msgs' : i \in DOMAIN msgs \/ i = Len(msgs) + 1
        /\ msgs'[Len(msgs) + 1] = m /\ \A i \in DOMAIN msgs : msgs'[i] = msgs[i]
    BY Posted
  <1>2. ASSUME NEW i \in DOMAIN msgs', NEW j \in DOMAIN msgs', i # j,
               msgs'[i].kind = msgs'[j].kind, About(msgs'[i]) = About(msgs'[j])
        PROVE  About(msgs'[i])[2] \in troubled'
    <2>1. CASE i \in DOMAIN msgs /\ j \in DOMAIN msgs
      BY <1>1, <1>2, <2>1, OnceIs
    <2>2. CASE i = Len(msgs) + 1 /\ j \in DOMAIN msgs
      BY <1>1, <1>2, <2>2
    <2>3. CASE j = Len(msgs) + 1 /\ i \in DOMAIN msgs
      BY <1>1, <1>2, <2>3
    <2> QED
      BY <1>1, <1>2, <2>1, <2>2, <2>3
  <1> QED
    BY <1>2, OnceIsNext

\* The two steps that speak: of this one, nothing was said before.
LEMMA SpeakOnce ==
    ASSUME Answers, Clock, ClockStep, Spoken, tick # Idle, NEW c, NEW m, Post(m),
           \/ m.kind = "warn" /\ m.course = c /\ m.day = Today /\ c \notin said.warned
           \/ m.kind = "ask" /\ m.key = <<c, Today>> /\ c \notin said.reminded,
           KnownMsg(m)'
    PROVE  (\A i \in DOMAIN msgs : KnownMsg(msgs[i]))' /\ SpokenOnce'
  <1>1. Reached = Today /\ Today \in Nat /\ troubled \subseteq troubled' /\ MsgsKept
    BY ReachedIs, Posted DEF ClockStep
  <1>2. About(m) = <<c, Today>>
    BY DEF About
  <1>3. ASSUME NEW i \in DOMAIN msgs, msgs[i].kind = m.kind, About(msgs[i]) = About(m)
        PROVE  Today \in troubled
    <2>1. KnownMsg(msgs[i])
      BY DEF Spoken
    <2>2. CASE m.kind = "warn"
      <3>1. msgs[i].course = c /\ msgs[i].day = Today /\ c \notin said.warned
        BY <1>2, <1>3, <2>2 DEF About
      <3> QED
        BY <1>1, <1>3, <2>1, <2>2, <3>1 DEF KnownMsg, Known
    <2>3. CASE m.kind = "ask"
      <3>1. msgs[i].key = <<c, Today>> /\ c \notin said.reminded
        BY <1>2, <1>3, <2>3 DEF About
      <3> QED
        BY <1>1, <1>3, <2>1, <2>3, <3>1 DEF KnownMsg, Known
    <2> QED
      BY <2>2, <2>3
  <1>4. SpokenOnce'
    BY <1>1, <1>2, <1>3, NewOnce DEF Spoken
  <1>5. \A i \in DOMAIN msgs' : i \in DOMAIN msgs \/ msgs'[i] = m
    BY Posted
  <1>6. (\A i \in DOMAIN msgs : KnownMsg(msgs[i]))'
    BY <1>1, <1>5, KnownMsgs
  <1> QED
    BY <1>4, <1>6

\* The pass speaks of a course only when its map does not know it.
Unsaid ==
    /\ tick.step \in {"balance", "offer"} => Course \notin said.warned
    /\ tick.step = "ask" => Course \notin said.reminded

LEMMA CourseStays ==
    ASSUME tick'.left = tick.left
    PROVE  Course' = Course
  BY DEF Course

LEMMA StepUnsaid ==
    ASSUME Clock, Unsaid, Next
    PROVE  Unsaid'
  <1>1. CASE UNCHANGED <<tick, said>>
    BY <1>1 DEF Unsaid, Course
  <1>2. CASE tick'.step \in {"idle", "warn", "remind"}
    BY <1>2 DEF Unsaid
  <1>3. ASSUME tick # Idle, tick.step # "offer"
        PROVE  Remind.step = "remind" /\ NextSlot.step = "warn"
    BY <1>3, TickTurned DEF Remind, NextSlot
  <1>4. CASE WarnCheck
    <2>1. tick # Idle /\ tick.step # "offer"
      BY <1>4 DEF WarnCheck, AtSlot, Idle
    <2>2. CASE tick' = [tick EXCEPT !.step = "balance"] /\ said' = said /\ Course \notin said.warned
      <3>1. tick'.step = "balance" /\ tick'.left = tick.left
        BY <2>1, <2>2, TickTurned
      <3> QED
        BY <2>2, <3>1, CourseStays DEF Unsaid
    <2> QED
      BY <1>2, <1>3, <1>4, <2>1, <2>2 DEF WarnCheck, TickOnly
  <1>5. CASE WarnBalance
    <2>1. tick # Idle /\ tick.step = "balance" /\ UNCHANGED said
      BY <1>5 DEF WarnBalance, AtSlot, Idle
    <2>2. \/ tick' = Remind
          \/ \E o : tick' = [step |-> "offer", at |-> tick.at, left |-> tick.left,
                             course |-> Course, offers |-> o]
      BY <1>5 DEF WarnBalance, TickOnly
    <2>3. tick'.step = "remind" \/ (tick'.step = "offer" /\ tick'.left = tick.left)
      BY <1>3, <2>1, <2>2
    <2> QED
      BY <1>2, <2>1, <2>3, CourseStays DEF Unsaid
  <1>6. CASE RemindCheck
    <2>1. tick # Idle /\ tick.step # "offer"
      BY <1>6 DEF RemindCheck, AtSlot, Idle
    <2>2. CASE tick' = [tick EXCEPT !.step = "ask"] /\ said' = said /\ Course \notin said.reminded
      <3>1. tick'.step = "ask" /\ tick'.left = tick.left
        BY <2>1, <2>2, TickTurned
      <3> QED
        BY <2>2, <3>1, CourseStays DEF Unsaid
    <2> QED
      BY <1>2, <1>3, <1>6, <2>1, <2>2 DEF RemindCheck, TickOnly
  <1>7. CASE WarnSend \/ TickStart \/ TickDone \/ Restart
    BY <1>2, <1>7 DEF WarnSend, TickStart, TickDone, Restart, TickOnly, Idle
  <1>8. CASE Minute
    BY <1>1, <1>8 DEF Minute
  <1>9. CASE TickFail
    BY <1>2, <1>9 DEF TickFail, Idle
  <1>10. CASE RemindSend \/ TickError
    <2>1. tick # Idle /\ tick.step # "offer" /\ (tick' = NextSlot \/ tick' = Remind)
      BY <1>10 DEF RemindSend, TickError, AtSlot, Idle, TickOnly
    <2> QED
      BY <1>2, <1>3, <2>1
  <1> QED
    BY <1>1, <1>4, <1>5, <1>6, <1>7, <1>8, <1>9, <1>10, NextKinds, PressedApart, EnteredApart,
       WorkApart DEF Scheduler

LEMMA WarnSpoken ==
    ASSUME Answers, Clock, ClockStep, Spoken, WarnSend, msgs' # msgs
    PROVE  (\A i \in DOMAIN msgs : KnownMsg(msgs[i]))' /\ SpokenOnce'
  <1>1. tick # Idle /\ tick.left # <<>> /\ Course \notin said.warned
    BY DEF WarnSend, AtSlot, Idle, Spoken
  <1>2. said.date = Today
    BY <1>1, SlotAtHand
  <1>3. PICK c, d, m : /\ c = Course /\ d = Today
                       /\ m = [kind |-> "warn", course |-> Course, day |-> Today, text |-> "open",
                               offers |-> tick.offers]
    OBVIOUS
  <1>4. m.kind = "warn" /\ m.course = c /\ m.day = d
    BY <1>3
  <1>5. /\ Post(m)
        /\ d \in troubled' \/ said' = [said EXCEPT !.warned = @ \cup {c}]
    BY <1>3 DEF WarnSend
  <1>6. d \in troubled' \/ (said'.date = d /\ c \in said'.warned)
    <2> SUFFICES ASSUME said' = [said EXCEPT !.warned = @ \cup {c}]
                 PROVE  said'.date = d /\ c \in said'.warned
      BY <1>5
    <2>1. SaidGrows /\ said'.warned = said.warned \cup {c}
      BY SaidNoted
    <2> QED
      BY <1>2, <1>3, <2>1 DEF SaidGrows
  <1>7. KnownMsg(m)'
    BY <1>4, <1>6 DEF KnownMsg, Known
  <1> QED
    BY <1>1, <1>3, <1>4, <1>5, <1>7, SpeakOnce

LEMMA RemindSpoken ==
    ASSUME Answers, Clock, ClockStep, Spoken, RemindSend, msgs' # msgs
    PROVE  (\A i \in DOMAIN msgs : KnownMsg(msgs[i]))' /\ SpokenOnce'
  <1>1. tick # Idle /\ tick.left # <<>> /\ Course \notin said.reminded
    BY DEF RemindSend, AtSlot, Idle, Spoken
  <1>2. said.date = Today
    BY <1>1, SlotAtHand
  <1>3. PICK c, d, m : /\ c = Course /\ d = Today
                       /\ m = [kind |-> "ask", key |-> <<Course, Today>>, text |-> "open"]
    OBVIOUS
  <1>4. m.kind = "ask" /\ m.key = <<c, d>>
    BY <1>3
  <1>5. Post(m) /\ said' = [said EXCEPT !.reminded = @ \cup {c}]
    BY <1>3 DEF RemindSend
  <1>6. SaidGrows /\ said'.reminded = said.reminded \cup {c}
    BY <1>5, SaidNoted
  <1>7. said'.date = d /\ c \in said'.reminded
    BY <1>2, <1>3, <1>6 DEF SaidGrows
  <1>8. KnownMsg(m)'
    BY <1>4, <1>7 DEF KnownMsg, Known
  <1> QED
    BY <1>1, <1>3, <1>4, <1>5, <1>8, SpeakOnce

\* Only the pass says anything new.
LEMMA NothingNew ==
    ASSUME Answers, Next, ~WarnSend, ~RemindSend
    PROVE  DOMAIN msgs' = DOMAIN msgs
  <1>1. CASE Minute \/ TickStart \/ TickFail
    BY <1>1 DEF Minute, TickStart, TickFail
  <1>2. CASE TickDone \/ TickError \/ WarnCheck \/ WarnBalance \/ RemindCheck
    BY <1>2 DEF TickDone, TickError, WarnCheck, WarnBalance, RemindCheck, TickOnly
  <1>3. ASSUME NEW h \in Handlers, Work(h)
        PROVE  DOMAIN msgs' = DOMAIN msgs
    BY <1>3, Edited DEF Work, TapCreate, TapLook, TapFail, PaidWrite, PaidFail, tables
  <1>4. CASE Restart
    BY <1>4 DEF Restart
  <1> QED
    BY <1>1, <1>2, <1>3, <1>4, NextKinds, PressedApart, EnteredApart DEF Scheduler

LEMMA StepSpoken ==
    ASSUME Answers, Clock, ClockStep, MsgsKept, Spoken, Next
    PROVE  Spoken'
  <1>1. Unsaid'
    BY StepUnsaid DEF Spoken, Unsaid
  <1>2. ASSUME DOMAIN msgs' = DOMAIN msgs
        PROVE  (\A i \in DOMAIN msgs : KnownMsg(msgs[i]))' /\ SpokenOnce'
    <2>1. (\A i \in DOMAIN msgs : KnownMsg(msgs[i]))'
      BY <1>2, KnownMsgs
    <2>2. SpokenOnce'
      BY <1>2, SameOnce DEF Spoken, ClockStep
    <2> QED
      BY <2>1, <2>2
  <1>3. (\A i \in DOMAIN msgs : KnownMsg(msgs[i]))' /\ SpokenOnce'
    BY <1>2, WarnSpoken, RemindSpoken, NothingNew
  <1> QED
    BY <1>1, <1>3 DEF Spoken, Unsaid

-----------------------------------------------------------------------------
(* Asking about every lesson.                                               *)

LEMMA HandledStands ==
    ASSUME VisitsKept, MsgsKept, NEW c, NEW d, Handled(c, d)
    PROVE  Handled(c, d)'
  <1>1. CASE <<c, d>> \in marked
    BY <1>1 DEF Handled, VisitsKept
  <1>2. ASSUME NEW i \in DOMAIN msgs, msgs[i].kind = "ask", msgs[i].key = <<c, d>>
        PROVE  Handled(c, d)'
    <2>1. i \in DOMAIN msgs' /\ msgs'[i].kind = "ask" /\ msgs'[i].key = <<c, d>>
      BY <1>2 DEF MsgsKept
    <2> QED
      BY <2>1 DEF Handled
  <1> QED
    BY <1>1, <1>2 DEF Handled

\* Whom the maps have reminded.
MapAsked == said.date \in troubled \/ \A c \in said.reminded : Handled(c, said.date)

LEMMA SameAsked ==
    ASSUME MapAsked, VisitsKept, MsgsKept, troubled \subseteq troubled',
           said'.date = said.date, said'.reminded = said.reminded
    PROVE  MapAsked'
  <1>1. PICK d, S : d = said.date /\ S = said.reminded
    OBVIOUS
  <1>2. d \in troubled \/ \A c \in S : Handled(c, d)
    BY <1>1 DEF MapAsked
  <1>3. d \in troubled' \/ (\A c \in S : Handled(c, d))'
    BY <1>2, HandledStands
  <1> QED
    BY <1>1, <1>3 DEF MapAsked

LEMMA MoreAsked ==
    ASSUME MapAsked, VisitsKept, MsgsKept, troubled \subseteq troubled', NEW c, NEW d,
           said.date = d, said'.date = d, said'.reminded = said.reminded \cup {c},
           d \in troubled' \/ Handled(c, d)'
    PROVE  MapAsked'
  <1>1. PICK S : S = said.reminded
    OBVIOUS
  <1>2. d \in troubled \/ \A b \in S : Handled(b, d)
    BY <1>1 DEF MapAsked
  <1>3. d \in troubled' \/ (\A b \in S \cup {c} : Handled(b, d))'
    BY <1>2, HandledStands
  <1> QED
    BY <1>1, <1>3 DEF MapAsked

\* The reminder of the slot at hand is sent, or lost, or needless.
LEMMA SlotAsked ==
    ASSUME Answers, Clock, VisitsKept, MsgsKept, MapAsked, tick # Idle, tick.left # <<>>,
           NEW c, NEW d, c = Course, d = Today,
           \/ RemindSend
           \/ RemindCheck /\ (Exists(<<c, d>>) \/ c \in said.reminded)
    PROVE  d \in troubled' \/ Handled(c, d)'
  <1>0. c \in Courses /\ d \in Days /\ said.date = d
    BY SlotAtHand
  <1>1. CASE RemindSend
    <2>1. PICK m : m = [kind |-> "ask", key |-> <<Course, Today>>, text |-> "open"]
      OBVIOUS
    <2>2. Post(m) \/ d \in troubled'
      BY <1>1, <2>1 DEF RemindSend
    <2>3. m.kind = "ask" /\ m.key = <<c, d>>
      BY <2>1
    <2>4. ASSUME Post(m)
          PROVE  Handled(c, d)'
      <3>1. PICK i \in DOMAIN msgs' : msgs'[i] = m
        BY <2>4, Posted
      <3> QED
        BY <2>3, <3>1 DEF Handled
    <2> QED
      BY <2>2, <2>4
  <1>2. CASE RemindCheck /\ Exists(<<c, d>>)
    <2>1. <<c, d>> \in marked
      BY <1>0, <1>2 DEF Answers, Key
    <2> QED
      BY <2>1 DEF VisitsKept, Handled
  <1>3. CASE RemindCheck /\ c \in said.reminded
    <2>1. UNCHANGED troubled
      BY <1>3 DEF RemindCheck
    <2> QED
      BY <1>0, <1>3, <2>1, HandledStands DEF MapAsked
  <1> QED
    BY <1>1, <1>2, <1>3

LEMMA StepMapAsked ==
    ASSUME Answers, Clock, ClockStep, VisitsKept, MsgsKept, MapAsked, Next
    PROVE  MapAsked'
  <1>0. troubled \subseteq troubled'
    BY DEF ClockStep
  <1>1. CASE UNCHANGED said
    BY <1>0, <1>1, SameAsked
  <1>2. ASSUME NEW c, said' = [said EXCEPT !.warned = @ \cup {c}]
        PROVE  MapAsked'
    BY <1>0, <1>2, SameAsked, SaidNoted DEF SaidGrows
  <1>3. ASSUME said' = Fresh(said'.date)
        PROVE  MapAsked'
    BY <1>3 DEF Fresh, MapAsked
  <1>4. CASE RemindCheck \/ RemindSend
    <2>1. tick # Idle /\ tick.left # <<>>
      BY <1>4 DEF RemindCheck, RemindSend, AtSlot, Idle
    <2>2. PICK c, d : c = Course /\ d = Today
      OBVIOUS
    <2>3. said.date = d
      BY <2>1, <2>2, SlotAtHand
    <2>4. ASSUME said' = [said EXCEPT !.reminded = @ \cup {c}],
                 RemindSend \/ (RemindCheck /\ Exists(<<c, d>>))
          PROVE  MapAsked'
      <3>1. d \in troubled' \/ Handled(c, d)'
        BY <2>1, <2>2, <2>4, SlotAsked
      <3>2. said'.date = d /\ said'.reminded = said.reminded \cup {c}
        BY <2>3, <2>4, SaidNoted DEF SaidGrows
      <3> QED
        BY <1>0, <2>3, <3>1, <3>2, MoreAsked
    <2>5. \/ UNCHANGED said
          \/ said' = [said EXCEPT !.reminded = @ \cup {c}] /\ (RemindSend \/ (RemindCheck /\ Exists(<<c, d>>)))
      BY <1>4, <2>2 DEF RemindCheck, RemindSend
    <2> QED
      BY <1>1, <2>4, <2>5
  <1>5. CASE TickStart \/ TickFail
    <2>1. UNCHANGED said \/ said' = Fresh(Date(due))
      BY <1>5 DEF TickStart, TickFail
    <2> QED
      BY <1>1, <1>3, <2>1 DEF Fresh
  <1>6. CASE Restart
    BY <1>3, <1>6 DEF Restart, Fresh
  <1>7. CASE WarnCheck \/ WarnSend
    BY <1>1, <1>2, <1>7 DEF WarnCheck, WarnSend
  <1>8. CASE Minute \/ TickDone \/ TickError \/ WarnBalance
    BY <1>1, <1>8 DEF Minute, TickDone, TickError, WarnBalance
  <1> QED
    BY <1>1, <1>4, <1>5, <1>6, <1>7, <1>8, NextKinds, PressedApart, EnteredApart, WorkApart
       DEF Scheduler

\* A day whose last minute has come, as the ticker left it.
DayAsked(d) ==
    \/ d \in troubled
    \/ due = Final(d)
    \/ \E n \in 0 .. Len(Timetable[d]) : Covered(d, n)

SlotsOf(d) == Len(Timetable[d])

LEMMA Lengths == \A d \in Days : Timetable[d] \in Seq(Slot) /\ SlotsOf(d) \in Nat
  BY Settings, LenProperties DEF SlotsOf

LEMMA AllHandledStands ==
    ASSUME VisitsKept, MsgsKept, NEW d, NEW n, \A i \in 1..n : Handled(Timetable[d][i][2], d)
    PROVE  (\A i \in 1..n : Handled(Timetable[d][i][2], d))'
  BY HandledStands

\* Nothing is left to do for a day of which all lessons are handled.
LEMMA AllAsked ==
    ASSUME VisitsKept, MsgsKept, NEW d \in Days, Covered(d, SlotsOf(d))
    PROVE  DayAsked(d)'
  <1>1. (\A i \in 1 .. SlotsOf(d) : Handled(Timetable[d][i][2], d))'
    BY AllHandledStands DEF Covered
  <1>2. SlotsOf(d) \in 0 .. SlotsOf(d)
    BY Lengths
  <1> QED
    BY <1>1, <1>2 DEF DayAsked, Covered, SlotsOf

\* The pass of the last minute of day d has n lessons of it behind.
AtLast(d, n) == tick # Idle /\ tick.at = Final(d) /\ Passed(n)

\* The pass stays at its slot.
LEMMA SlotStays ==
    ASSUME VisitsKept, MsgsKept, NEW d \in Days, NEW n \in 0 .. SlotsOf(d), Covered(d, n), AtLast(d, n),
           tick' # Idle, tick'.at = tick.at, tick'.left = tick.left
    PROVE  DayAsked(d)'
  <1>1. Passed(n)'
    BY DEF Passed, Today, AtLast
  <1>2. (\A i \in 1..n : Handled(Timetable[d][i][2], d))'
    BY AllHandledStands DEF Covered
  <1> QED
    BY <1>1, <1>2 DEF DayAsked, Covered, AtLast, SlotsOf

LEMMA SlotLeft ==
    ASSUME Clock, tick # Idle, tick.left # <<>>, NEW d \in Days, d = Today,
           NEW n \in 0 .. SlotsOf(d), Passed(n)
    PROVE  /\ n + 1 \in 0 .. SlotsOf(d) /\ Course = Timetable[d][n + 1][2]
           /\ tick'.at = tick.at /\ tick'.left = Tail(tick.left) => Passed(n + 1)'
  <1> DEFINE left == tick.left
  <1>1. left \in Seq(Slot) /\ left # <<>>
    BY SlotAtHand DEF Pass
  <1>2. /\ Head(left) = left[1] /\ Len(left) \in Nat \ {0}
        /\ Tail(left) \in Seq(Slot) /\ Len(Tail(left)) = Len(left) - 1
        /\ \A j \in 1 .. Len(Tail(left)) : Tail(left)[j] = left[j + 1]
    <2> HIDE DEF left
    <2>1. Len(left) \in Nat
      BY <1>1, LenProperties
    <2> QED
      BY <1>1, <2>1, EmptySeq, HeadTailProperties
  <1>3. /\ Len(left) = SlotsOf(d) - n
        /\ \A j \in 1 .. Len(left) : left[j] = Timetable[d][n + j]
    BY DEF Passed, SlotsOf
  <1>4. SlotsOf(d) \in Nat
    BY Lengths
  <1> DEFINE rest == Tail(left)
  <1>5. n + 1 \in 0 .. SlotsOf(d) /\ Course = Timetable[d][n + 1][2]
    <2>1. n + 1 \in 0 .. SlotsOf(d) /\ 1 \in 1 .. Len(left)
      BY <1>2, <1>3, <1>4
    <2>2. left[1] = Timetable[d][n + 1]
      BY <1>3, <2>1
    <2> QED
      BY <1>2, <2>1, <2>2, Zenon DEF Course
  <1>6. /\ Len(rest) = SlotsOf(d) - (n + 1)
        /\ \A j \in 1 .. Len(rest) : rest[j] = Timetable[d][(n + 1) + j]
    <2>1. \A j \in 1 .. Len(rest) : j + 1 \in 1 .. Len(left) /\ n + (j + 1) = (n + 1) + j
      BY <1>2
    <2> QED
      BY <1>2, <1>3, <1>4, <2>1
  <1>7. ASSUME tick'.at = tick.at, tick'.left = rest
        PROVE  Passed(n + 1)'
    <2>1. Today' = d
      BY <1>7 DEF Today
    <2> HIDE DEF rest
    <2> QED
      BY <1>6, <1>7, <2>1 DEF Passed, SlotsOf
  <1> QED
    BY <1>5, <1>7

\* At the last minute of the day the pass leaves no slot before it is handled.
LEMMA SlotPassed ==
    ASSUME Clock, VisitsKept, MsgsKept, NEW d \in Days, NEW n \in 0 .. SlotsOf(d), Covered(d, n),
           AtLast(d, n), tick.left # <<>>, tick' # Idle, tick'.at = tick.at,
           tick'.left = Tail(tick.left), d = Today, NEW c, c = Course,
           d \in troubled' \/ Handled(c, d)'
    PROVE  DayAsked(d)'
  <1>1. /\ n + 1 \in 0 .. SlotsOf(d) /\ c = Timetable[d][n + 1][2]
        /\ Passed(n + 1)'
    BY SlotLeft DEF AtLast
  <1>2. (\A i \in 1..n : Handled(Timetable[d][i][2], d))'
    BY AllHandledStands DEF Covered
  <1>3. ASSUME Handled(c, d)'
        PROVE  Covered(d, n + 1)'
    <2>1. \A i \in 1 .. n + 1 : i \in 1..n \/ i = n + 1
      BY Lengths
    <2>2. (\A i \in 1 .. n + 1 : Handled(Timetable[d][i][2], d))'
      BY <1>1, <1>2, <1>3, <2>1
    <2> QED
      BY <1>1, <2>2 DEF Covered, AtLast
  <1> QED
    BY <1>1, <1>3 DEF DayAsked, SlotsOf

LEMMA LastMinutes ==
    ASSUME NEW d \in Days
    PROVE  d \in Nat /\ Final(d) \in Nat /\ Date(Final(d)) = d
  <1>1. d \in Nat
    BY Settings DEF Days
  <1> QED
    BY <1>1, FinalIs

\* The slot at hand of the last minute's pass is of day d, and its reminder is due.
LEMMA LastSlot ==
    ASSUME Clock, NEW d \in Days, tick # Idle, tick.at = Final(d)
    PROVE  /\ d = Today
           /\ tick.left # <<>> => tick.at >= ReminderDue
  <1>1. d \in Nat /\ Date(Final(d)) = d /\ Final(d) \in Nat
    BY LastMinutes
  <1>2. d = Today
    BY <1>1 DEF Today
  <1>3. ASSUME tick.left # <<>>
        PROVE  tick.at >= ReminderDue
    <2>1. tick.left \in Seq(Slot)
      BY <1>3, SlotAtHand DEF Pass
    <2>2. Head(tick.left) \in Slot
      BY <1>3, <2>1, HeadTailProperties
    <2>3. Head(tick.left)[1] \in Nat
      BY <2>2, Settings DEF Slot
    <2>4. d * DayLen \in Nat /\ Delay \in Nat
      BY <1>1, Minutes, Settings
    <2> DEFINE due1 == Begins + Delay
    <2>5. due1 \in Nat
      BY <1>2, <2>3, <2>4 DEF Begins
    <2>6. ReminderDue = (IF due1 > Final(d) THEN Final(d) ELSE due1)
      BY <1>2 DEF ReminderDue, Final
    <2> HIDE DEF due1
    <2>7. ReminderDue <= Final(d)
      BY <1>1, <2>5, <2>6
    <2> QED
      BY <1>1, <2>5, <2>6, <2>7
  <1> QED
    BY <1>2, <1>3

\* The pass of the day's last minute takes a step.
LEMMA PassAsked ==
    ASSUME Answers, Clock, VisitsKept, MsgsKept, MapAsked, NEW d \in Days,
           NEW n \in 0 .. SlotsOf(d), Covered(d, n), AtLast(d, n),
           WarnCheck \/ WarnBalance \/ WarnSend \/ RemindCheck \/ RemindSend \/ TickError
    PROVE  DayAsked(d)'
  <1>1. Turns /\ tick # Idle /\ tick.left # <<>> /\ tick'.at = tick.at /\ tick' # Idle
    BY PassTurns, NotIdle DEF Turns
  <1>2. d = Today /\ tick.at >= ReminderDue
    BY <1>1, LastSlot DEF AtLast
  <1>3. CASE tick'.left = tick.left
    BY <1>1, <1>3, SlotStays
  <1>4. CASE TickError
    BY <1>2, <1>4 DEF TickError, DayAsked
  <1>5. CASE RemindCheck \/ RemindSend
    <2>1. PICK c : c = Course
      OBVIOUS
    <2>2. CASE tick'.left = Tail(tick.left) /\ (RemindSend \/ (RemindCheck /\ (Exists(<<c, d>>) \/ c \in said.reminded)))
      <3>1. d \in troubled' \/ Handled(c, d)'
        BY <1>1, <1>2, <2>1, <2>2, SlotAsked
      <3> QED
        BY <1>1, <1>2, <2>1, <2>2, <3>1, SlotPassed
    <2>3. CASE RemindCheck /\ ~Exists(<<c, d>>) /\ c \notin said.reminded
      <3>1. tick' = [tick EXCEPT !.step = "ask"] /\ tick.step # "offer"
        BY <1>2, <2>1, <2>3 DEF RemindCheck, TickOnly, AtSlot
      <3>2. tick'.left = tick.left
        BY <1>1, <3>1, TickTurned
      <3> QED
        BY <1>3, <3>2
    <2> QED
      BY <1>1, <1>3, <1>5, <2>2, <2>3 DEF Turns
  <1>6. CASE WarnCheck \/ WarnBalance \/ WarnSend
    <2>1. tick'.step # "warn"
      <3>1. tick.step # "offer" => Remind.step = "remind"
        BY <1>1, TickTurned DEF Remind
      <3>2. CASE WarnCheck
        BY <1>1, <3>1, <3>2, TickTurned DEF WarnCheck, AtSlot, TickOnly
      <3>3. CASE WarnBalance
        BY <3>1, <3>3 DEF WarnBalance, AtSlot, TickOnly
      <3>4. CASE WarnSend
        BY <3>4 DEF WarnSend
      <3> QED
        BY <1>6, <3>2, <3>3, <3>4
    <2> QED
      BY <1>1, <1>3, <2>1 DEF Turns
  <1> QED
    BY <1>4, <1>5, <1>6

\* The ticker stands still.
LEMMA DayStays ==
    ASSUME VisitsKept, MsgsKept, troubled \subseteq troubled', NEW d \in Days, DayAsked(d),
           UNCHANGED tick, due = Final(d) => due' = due
    PROVE  DayAsked(d)'
  <1>1. CASE d \in troubled \/ due = Final(d)
    BY <1>1 DEF DayAsked
  <1>2. ASSUME NEW n \in 0 .. SlotsOf(d), Covered(d, n)
        PROVE  DayAsked(d)'
    <2>1. CASE n = SlotsOf(d)
      BY <1>2, <2>1, AllAsked
    <2>2. CASE AtLast(d, n)
      BY <1>2, <2>2, SlotStays DEF AtLast
    <2> QED
      BY <1>2, <2>1, <2>2 DEF Covered, AtLast, SlotsOf
  <1> QED
    BY <1>1, <1>2 DEF DayAsked, SlotsOf

LEMMA StartDay ==
    ASSUME Clock, VisitsKept, MsgsKept, troubled \subseteq troubled', NEW d \in Days, DayAsked(d),
           TickStart \/ TickFail
    PROVE  DayAsked(d)'
  <1>0. d \in Nat /\ Date(Final(d)) = d /\ tick = Idle
    BY LastMinutes DEF TickStart, TickFail
  <1>1. CASE d \in troubled
    BY <1>1 DEF DayAsked
  <1>2. CASE due = Final(d) /\ TickFail
    BY <1>0, <1>2 DEF TickFail, DayAsked
  <1>3. CASE due = Final(d) /\ TickStart
    <2>1. tick' = [step |-> "warn", at |-> Final(d), left |-> Timetable[d]] /\ tick' # Idle
      BY <1>0, <1>3, StartClock DEF TickStart
    <2>2. Today' = d /\ tick'.left = Timetable[d] /\ tick'.at = Final(d)
      BY <1>0, <2>1 DEF Today
    <2>3. SlotsOf(d) \in Nat /\ 0 \in 0 .. SlotsOf(d)
      BY Lengths
    <2>4. Passed(0)'
      <3>1. \A j \in 1 .. SlotsOf(d) : 0 + j = j
        BY <2>3
      <3> QED
        BY <2>2, <2>3, <3>1 DEF Passed, SlotsOf
    <2>5. Covered(d, 0)'
      BY <2>1, <2>2, <2>4 DEF Covered
    <2> QED
      BY <2>3, <2>5 DEF DayAsked, SlotsOf
  <1>4. ASSUME NEW n \in 0 .. SlotsOf(d), Covered(d, n)
        PROVE  DayAsked(d)'
    BY <1>0, <1>4, AllAsked DEF Covered, SlotsOf
  <1> QED
    BY <1>1, <1>2, <1>3, <1>4 DEF DayAsked, SlotsOf

LEMMA DoneDay ==
    ASSUME Clock, VisitsKept, MsgsKept, NEW d \in Days, DayAsked(d), TickDone
    PROVE  DayAsked(d)'
  <1>1. tick.left = <<>> /\ UNCHANGED <<due, troubled>> /\ tick # Idle
    BY DEF TickDone, TickOnly, Idle
  <1>2. CASE d \in troubled \/ due = Final(d)
    BY <1>1, <1>2 DEF DayAsked
  <1>3. ASSUME NEW n \in 0 .. SlotsOf(d), Covered(d, n)
        PROVE  DayAsked(d)'
    <2>1. ASSUME AtLast(d, n)
          PROVE  n = SlotsOf(d)
      <3>1. d = Today
        BY <1>1, <2>1, LastSlot DEF AtLast
      <3>2. Len(tick.left) = 0 /\ Len(tick.left) = SlotsOf(d) - n
        BY <1>1, <2>1, <3>1 DEF AtLast, Passed, SlotsOf
      <3> QED
        BY <3>2, Lengths
    <2> QED
      BY <1>3, <2>1, AllAsked DEF Covered, AtLast, SlotsOf
  <1> QED
    BY <1>2, <1>3 DEF DayAsked, SlotsOf

LEMMA RestartDay ==
    ASSUME Clock, VisitsKept, MsgsKept, NEW d \in Days, DayAsked(d), Restart
    PROVE  DayAsked(d)'
  <1>0. d \in Nat /\ Final(d) \in Nat /\ Date(Final(d)) = d
    BY LastMinutes
  <1>1. /\ troubled \subseteq troubled'
        /\ due # NoTick => Date(due) \in troubled'
        /\ tick # Idle => Date(tick.at) \in troubled'
    BY DEF Restart
  <1>2. CASE d \in troubled
    BY <1>1, <1>2 DEF DayAsked
  <1>3. CASE due = Final(d)
    BY <1>0, <1>1, <1>3 DEF DayAsked, NoTick
  <1>4. ASSUME NEW n \in 0 .. SlotsOf(d), Covered(d, n)
        PROVE  DayAsked(d)'
    BY <1>0, <1>1, <1>4, AllAsked DEF Covered, SlotsOf, DayAsked
  <1> QED
    BY <1>2, <1>3, <1>4 DEF DayAsked, SlotsOf

\* A day whose last minute has come stays asked about.
LEMMA StepDay ==
    ASSUME Answers, Clock, ClockStep, VisitsKept, MsgsKept, MapAsked, NEW d \in Days, DayAsked(d), Next
    PROVE  DayAsked(d)'
  <1>0. troubled \subseteq troubled'
    BY DEF ClockStep
  <1>1. CASE UNCHANGED <<tick, due>>
    BY <1>0, <1>1, DayStays
  <1>2. CASE Minute
    <2>1. UNCHANGED tick /\ (due # NoTick => due' = due) /\ Final(d) # NoTick
      BY <1>2, LastMinutes DEF Minute, NoTick
    <2> QED
      BY <1>0, <2>1, DayStays
  <1>3. CASE WarnCheck \/ WarnBalance \/ WarnSend \/ RemindCheck \/ RemindSend \/ TickError
    <2>1. UNCHANGED due
      BY <1>3, PassTurns DEF Turns
    <2>2. CASE d \in troubled \/ due = Final(d)
      BY <1>0, <2>1, <2>2 DEF DayAsked
    <2>3. ASSUME NEW n \in 0 .. SlotsOf(d), Covered(d, n)
          PROVE  DayAsked(d)'
      BY <1>3, <2>3, AllAsked, PassAsked DEF Covered, AtLast, SlotsOf
    <2> QED
      BY <2>2, <2>3 DEF DayAsked, SlotsOf
  <1> QED
    BY <1>0, <1>1, <1>2, <1>3, NextKinds, PressedApart, EnteredApart, WorkApart, StartDay, DoneDay,
       RestartDay DEF Scheduler

\* The last minute of a day comes.
LEMMA MinuteDay ==
    ASSUME Clock, NEW d \in Days, Minute, Final(d) = now'
    PROVE  DayAsked(d)'
  <1>1. now' = now + 1 /\ Date(Final(d)) = d
    BY LastMinutes DEF Minute
  <1>2. CASE due = NoTick
    BY <1>1, <1>2 DEF Minute, DayAsked
  <1>3. CASE due # NoTick
    BY <1>1, <1>3 DEF Minute, DayAsked
  <1> QED
    BY <1>2, <1>3

LEMMA StepAsked ==
    ASSUME Answers, Clock, ClockStep, VisitsKept, MsgsKept, Asked, Next
    PROVE  Asked'
  <1>1. MapAsked /\ \A d \in FirstDay..LastDay : Final(d) <= now => DayAsked(d)
    BY DEF Asked, MapAsked, DayAsked
  <1>2. MapAsked'
    BY <1>1, StepMapAsked
  <1>3. ASSUME NEW d \in FirstDay..LastDay, Final(d) <= now'
        PROVE  DayAsked(d)'
    <2>1. d \in Days
      BY Settings DEF Days
    <2>2. CASE Final(d) <= now
      BY <1>1, <2>1, <2>2, StepDay
    <2>3. CASE ~(Final(d) <= now)
      <3>1. now' # now
        BY <1>3, <2>3
      <3>2. Minute
        BY <3>1, NextKinds, PressedApart, EnteredApart, WorkApart, PassTurns
           DEF Scheduler, TickStart, TickFail, TickDone, TickOnly, Restart, Turns
      <3>3. now \in Nat /\ now' = now + 1 /\ Final(d) \in Nat
        BY <2>1, <3>2, LastMinutes DEF Clock, Minute
      <3>4. Final(d) = now'
        BY <1>3, <2>3, <3>3
      <3> QED
        BY <2>1, <3>2, <3>4, MinuteDay
    <2> QED
      BY <2>2, <2>3
  <1>4. (\A d \in FirstDay..LastDay : Final(d) <= now => DayAsked(d))'
    BY <1>3
  <1> QED
    BY <1>2, <1>4 DEF Asked, MapAsked, DayAsked

-----------------------------------------------------------------------------
(* What is paid, and the days it is for.                                    *)

\* What a payment is worth to a course, and what a set of them is.
Credit(c, p) == IF p.course = c THEN p.lessons ELSE 0
Credits(c, S) == [p \in S |-> IF p.course = c THEN p.lessons ELSE 0]
PaidFor(c, S) == SumFunction(Credits(c, S))

\* What was ever put in for a course.
Funds(c) == Opening[c] + PaidFor(c, pays)

\* The days up to one that a course has had, or will have from another day on.
Busy(c, from, to) ==
    {d \in Days : d <= to /\ (visit[<<c, d>>].status = "done" \/ (from <= d /\ HasLesson(c, d)))}

DoneDays(c) == {d \in Days : visit[<<c, d>>].status = "done"}

\* With n lessons more, the lessons from one day to another are paid.
Enough(c, from, to, n) ==
    c \in stray \/ Cardinality(Busy(c, from, to)) <= Funds(c) + n

LEMMA PaidForIs ==
    ASSUME NEW c, NEW S, IsFiniteSet(S), \A p \in S : p.lessons \in Nat
    PROVE  /\ PaidFor(c, S) \in Int
           /\ \A e \in S : PaidFor(c, S) = Credit(c, e) + PaidFor(c, S \ {e})
  <1> DEFINE f == Credits(c, S)
  <1>1. \A T : PaidFor(c, T) = SumFunctionOnSet(Credits(c, T), T)
    <2> TAKE T
    <2>1. DOMAIN Credits(c, T) = T
      BY DEF Credits
    <2>2. PaidFor(c, T) = SumFunctionOnSet(Credits(c, T), DOMAIN Credits(c, T))
      BY Zenon DEF PaidFor, SumFunction
    <2>3. QED
      BY <2>1, <2>2
  <1>2. \A p \in S : f[p] = Credit(c, p) /\ f[p] \in Int
    BY DEF Credits, Credit
  <1> HIDE DEF f
  <1>3. PaidFor(c, S) = SumFunctionOnSet(f, S)
    BY <1>1 DEF f
  <1>4. PaidFor(c, S) \in Int
    BY <1>2, <1>3, SumIsInt
  <1>5. ASSUME NEW e \in S
        PROVE  PaidFor(c, S) = Credit(c, e) + PaidFor(c, S \ {e})
    <2> DEFINE T == S \ {e}
               g == Credits(c, T)
    <2>1. IsFiniteSet(T) /\ T \subseteq S
      BY FS_Subset
    <2>2. \A p \in T : f[p] = g[p]
      BY <1>2 DEF Credits, Credit
    <2>3. PaidFor(c, T) = SumFunctionOnSet(g, T)
      BY <1>1
    <2> HIDE DEF g
    <2>4. SumFunctionOnSet(f, T) = SumFunctionOnSet(g, T)
      BY <2>1, <2>2, SumOfSame
    <2>5. SumFunctionOnSet(f, S) = f[e] + SumFunctionOnSet(f, T)
      BY <1>2, SumWithout
    <2>6. QED
      BY <1>2, <1>3, <2>3, <2>4, <2>5
  <1>6. QED
    BY <1>4, <1>5

\* A payment is made.
LEMMA PaidMore ==
    ASSUME NEW c, NEW S, IsFiniteSet(S), \A p \in S : p.lessons \in Nat, NEW e, e.lessons \in Nat
    PROVE  /\ IsFiniteSet(S \cup {e})
           /\ PaidFor(c, S) <= PaidFor(c, S \cup {e})
           /\ e \notin S => PaidFor(c, S \cup {e}) = PaidFor(c, S) + Credit(c, e)
  <1>1. PaidFor(c, S) \in Int /\ Credit(c, e) \in Nat
    BY PaidForIs DEF Credit
  <1>2. IsFiniteSet(S \cup {e})
    BY FS_AddElement
  <1>3. CASE e \in S
    <2>1. S \cup {e} = S
      BY <1>3
    <2>2. PaidFor(c, S \cup {e}) = PaidFor(c, S)
      BY <2>1
    <2>3. QED
      BY <1>1, <1>2, <1>3, <2>2
  <1>4. CASE e \notin S
    <2> DEFINE T == S \cup {e}
    <2>1. T \ {e} = S /\ e \in T
      BY <1>4
    <2>2. \A p \in T : p.lessons \in Nat
      OBVIOUS
    <2> HIDE DEF T
    <2>3. PaidFor(c, T) = Credit(c, e) + PaidFor(c, S)
      BY <1>2, <2>1, <2>2, PaidForIs DEF T
    <2>4. QED
      BY <1>1, <1>2, <2>3 DEF T
  <1>5. QED
    BY <1>3, <1>4

LEMMA DaysAreFinite ==
    /\ IsFiniteSet(Days) /\ Days \subseteq Nat
    /\ \A S \in SUBSET Days : IsFiniteSet(S) /\ Cardinality(S) \in Nat
    /\ \A S, T \in SUBSET Days : S \subseteq T => Cardinality(S) <= Cardinality(T)
  <1>1. IsFiniteSet(Days) /\ Days \subseteq Nat
    BY Settings, FS_Interval DEF Days
  <1>2. \A S \in SUBSET Days : IsFiniteSet(S) /\ Cardinality(S) \in Nat
    BY <1>1, FS_Subset, FS_CardinalityType
  <1>3. \A S, T \in SUBSET Days : S \subseteq T => Cardinality(S) <= Cardinality(T)
    BY <1>2, FS_Subset
  <1>4. QED
    BY <1>1, <1>2, <1>3

\* The balance of a course is what was put in less the days it has had.
LEMMA BalanceIs ==
    ASSUME NEW c \in Courses, PaidFor(c, pays) \in Int
    PROVE  Balance(c) = Funds(c) - Cardinality(DoneDays(c))
  <1> DEFINE S == DoneDays(c)
             T == {k \in Key : k[1] = c /\ visit[k].status = "done"}
             f == [d \in S |-> <<c, d>>]
  <1>1. f \in Bijection(S, T)
    <2>1. \A d \in S : <<c, d>> \in T
      BY DEF DoneDays, Key
    <2>2. \A k \in T : k[2] \in S /\ k = <<c, k[2]>>
      BY DEF DoneDays, Key
    <2>3. f \in Injection(S, T)
      BY <2>1 DEF Injection, IsInjective
    <2>4. f \in Surjection(S, T)
      BY <2>1, <2>2 DEF Surjection
    <2>5. QED
      BY <2>3, <2>4 DEF Bijection
  <1>2. IsFiniteSet(S)
    BY DaysAreFinite DEF DoneDays
  <1>3. Cardinality(T) = Cardinality(S)
    BY <1>1, <1>2, FS_Bijection DEF ExistsBijection
  <1>4. Balance(c) = Opening[c] + SumFunction(Credits(c, pays)) - Cardinality(T)
    BY Zenon DEF Balance, Credits
  <1> HIDE DEF S, T
  <1>5. Balance(c) = Opening[c] + PaidFor(c, pays) - Cardinality(T)
    BY <1>4, Zenon DEF PaidFor
  <1>6. Opening[c] \in Int /\ Cardinality(S) \in Int
    <2>1. Opening[c] \in Int
      BY LessonsAssumption DEF LessonsAssumption
    <2>2. S \in SUBSET Days
      BY DEF S, DoneDays
    <2>3. QED
      BY <2>1, <2>2, DaysAreFinite
  <1>7. Balance(c) = Funds(c) - Cardinality(S)
    BY <1>3, <1>5, <1>6 DEF Funds
  <1>8. QED
    BY <1>7 DEF S

-----------------------------------------------------------------------------
(* What a step leaves of it.                                                *)

Receipt == [id : Nat, course : Courses, lessons : Nat, from : [msg : Nat, through : Days]]

\* The payments are rows of courses, each with an id of its own.
Receipts == IsFiniteSet(pays) /\ \A p \in pays : p \in Receipt /\ p.id \in 1 .. ids

\* What is put in for a course is not taken out again, and the days it is for become
\* no more, or the course is stray.
Stands ==
    /\ stray \subseteq stray'
    /\ \A c \in Courses :
          c \in stray' \/
             /\ PaidFor(c, pays) <= PaidFor(c, pays')
             /\ \A from \in Nat : from \in Counted(c) =>
                   \A to : Busy(c, from, to)' \subseteq Busy(c, from, to)

LEMMA FundsAre ==
    ASSUME Receipts, NEW c \in Courses
    PROVE  PaidFor(c, pays) \in Int /\ Funds(c) \in Int
  <1>1. \A p \in pays : p.lessons \in Nat
    BY DEF Receipts, Receipt
  <1>2. PaidFor(c, pays) \in Int
    BY <1>1, PaidForIs DEF Receipts
  <1>3. Opening[c] \in Int
    BY LessonsAssumption DEF LessonsAssumption
  <1>4. QED
    BY <1>2, <1>3 DEF Funds

LEMMA BusyIs ==
    ASSUME NEW c, NEW from, NEW to
    PROVE  /\ Busy(c, from, to) \in SUBSET Days
           /\ Cardinality(Busy(c, from, to)) \in Nat
  <1>1. Busy(c, from, to) \in SUBSET Days
    BY DEF Busy
  <1>2. QED
    BY <1>1, DaysAreFinite

\* A course that was paid ahead stays so.
LEMMA EnoughStands ==
    ASSUME Stands, Receipts, Receipts', NEW c \in Courses, NEW from \in Nat, from \in Counted(c),
           NEW to, NEW n \in Int, Enough(c, from, to, n)
    PROVE  Enough(c, from, to, n)'
  <1>1. CASE c \in stray'
    BY <1>1 DEF Enough
  <1>2. CASE c \notin stray'
    <2>1. /\ PaidFor(c, pays) <= PaidFor(c, pays')
          /\ Busy(c, from, to)' \subseteq Busy(c, from, to)
          /\ c \notin stray
      BY <1>2 DEF Stands
    <2>2. PaidFor(c, pays) \in Int /\ Funds(c) \in Int /\ Opening[c] \in Int
      BY FundsAre, LessonsAssumption DEF LessonsAssumption
    <2>3. PaidFor(c, pays') \in Int /\ Funds(c)' \in Int
      <3>1. \A p \in pays' : p.lessons \in Nat
        BY DEF Receipts, Receipt
      <3>2. PaidFor(c, pays') \in Int
        BY <3>1, PaidForIs DEF Receipts
      <3>3. QED
        BY <2>2, <3>2 DEF Funds
    <2>4. PICK b : b = Busy(c, from, to)'
      OBVIOUS
    <2>5. b \in SUBSET Days
      BY <2>4 DEF Busy
    <2>6. Cardinality(b) \in Nat /\ Cardinality(b) <= Cardinality(Busy(c, from, to))
      BY <2>1, <2>4, <2>5, BusyIs, DaysAreFinite
    <2>7. Cardinality(Busy(c, from, to)) \in Nat /\ Cardinality(Busy(c, from, to)) <= Funds(c) + n
      BY <2>1, BusyIs DEF Enough
    <2>8. Funds(c) <= Funds(c)'
      BY <2>1, <2>2, <2>3 DEF Funds
    <2>9. Cardinality(b) <= Funds(c)' + n
      BY <2>2, <2>3, <2>6, <2>7, <2>8
    <2>10. QED
      BY <2>4, <2>9 DEF Enough
  <1>3. QED
    BY <1>1, <1>2

\* Visits are stored, moved and deleted.
LEMMA VisitsStand ==
    ASSUME Receipts, UNCHANGED pays, stray \subseteq stray',
           \A k \in Key : visit'[k].status = "done" =>
               visit[k].status = "done" \/ k[1] \in stray' \/ ~Unforeseen(k)
    PROVE  Stands
  <1> SUFFICES ASSUME NEW c \in Courses, c \notin stray'
               PROVE  /\ PaidFor(c, pays) <= PaidFor(c, pays')
                      /\ \A from \in Nat : from \in Counted(c) =>
                            \A to : Busy(c, from, to)' \subseteq Busy(c, from, to)
    BY DEF Stands
  <1>1. PaidFor(c, pays) <= PaidFor(c, pays')
    BY FundsAre
  <1>2. ASSUME NEW from \in Nat, from \in Counted(c), NEW to, NEW d \in Busy(c, from, to)'
        PROVE  d \in Busy(c, from, to)
    <2>1. /\ d \in Days /\ d \in Nat /\ d <= to
          /\ visit'[<<c, d>>].status = "done" \/ (from <= d /\ HasLesson(c, d))
      BY <1>2, DaysAreFinite DEF Busy
    <2>2. <<c, d>> \in Key /\ <<c, d>>[1] = c /\ <<c, d>>[2] = d
      BY <2>1 DEF Key
    <2>3. CASE visit'[<<c, d>>].status = "done"
      <3>1. visit[<<c, d>>].status = "done" \/ ~Unforeseen(<<c, d>>)
        BY <2>2, <2>3
      <3>2. CASE ~Unforeseen(<<c, d>>)
        <4>1. HasLesson(c, d) /\ ~(d < from)
          BY <1>2, <2>2, <3>2 DEF Unforeseen
        <4>2. QED
          BY <2>1, <4>1 DEF Busy
      <3>3. QED
        BY <2>1, <3>1, <3>2 DEF Busy
    <2>4. QED
      BY <2>1, <2>3 DEF Busy
  <1>3. QED
    BY <1>1, <1>2

\* Payments are made, changed and undone.
LEMMA PaysStand ==
    ASSUME UNCHANGED visit, stray \subseteq stray',
           \A c \in Courses : c \in stray' \/ PaidFor(c, pays) <= PaidFor(c, pays')
    PROVE  Stands
  <1>1. \A c, from, to : Busy(c, from, to)' = Busy(c, from, to)
    BY DEF Busy
  <1>2. QED
    BY <1>1 DEF Stands

LEMMA CreateStands ==
    ASSUME Receipts, VisitsOK, UNCHANGED pays, NEW k \in Key, NEW s \in Status, CreateVisit(k, s)
    PROVE  Stands
  <1>1. CASE Exists(k)
    BY <1>1, VisitsStand DEF CreateVisit
  <1>2. CASE ~Exists(k)
    <2> DEFINE v == [id |-> ids + 1, status |-> s]
    <2>1. v.status = s /\ PutVisit(k, v)
      BY <1>2 DEF CreateVisit
    <2> HIDE DEF v
    <2>2. /\ visit' = [visit EXCEPT ![k] = v]
          /\ stray' = IF s = "done" /\ Unforeseen(k) THEN stray \cup {k[1]} ELSE stray
      BY <2>1 DEF PutVisit
    <2>3. visit'[k] = v /\ \A j \in Key \ {k} : visit'[j] = visit[j]
      BY <2>2 DEF VisitsOK
    <2>4. QED
      BY <2>1, <2>2, <2>3, VisitsStand
  <1>3. QED
    BY <1>1, <1>2

LEMMA MoveStands ==
    ASSUME Receipts, VisitsOK, NEW k \in Key, NEW to \in Key, NEW s \in Status,
           FormUpdateVisit(k, to, s)
    PROVE  Stands
  <1> DEFINE v == [id |-> visit[k].id, status |-> s]
  <1>1. /\ visit' = [visit EXCEPT ![k] = NoVisit, ![to] = v] /\ UNCHANGED pays
        /\ stray' = IF s = "done" /\ Unforeseen(to) THEN stray \cup {to[1]} ELSE stray
    BY DEF FormUpdateVisit
  <1>2. v.status = s /\ NoVisit.status # "done"
    BY DEF NoVisit
  <1> HIDE DEF v
  <1>3. /\ visit'[to] = v
        /\ \A j \in Key \ {to} : visit'[j] = visit[j] \/ visit'[j] = NoVisit
    BY <1>1 DEF VisitsOK
  <1>4. \A j \in Key : visit'[j].status = "done" =>
            visit[j].status = "done" \/ j[1] \in stray' \/ ~Unforeseen(j)
    BY <1>1, <1>2, <1>3
  <1>5. QED
    BY <1>1, <1>4, VisitsStand

LEMMA DeleteStands ==
    ASSUME Receipts, VisitsOK, NEW k \in Key, FormDeleteVisit(k)
    PROVE  Stands
  <1>1. visit' = [visit EXCEPT ![k] = NoVisit] /\ UNCHANGED <<pays, stray>>
    BY DEF FormDeleteVisit
  <1>2. \A j \in Key : visit'[j] = visit[j] \/ visit'[j] = NoVisit
    BY <1>1 DEF VisitsOK
  <1>3. QED
    BY <1>1, <1>2, VisitsStand DEF NoVisit

LEMMA PayStands ==
    ASSUME Receipts, UNCHANGED <<visit, stray>>, NEW c, NEW n \in Nat, NEW from,
           CreatePayment(c, n, from)
    PROVE  Stands
  <1> DEFINE e == [id |-> ids + 1, course |-> c, lessons |-> n, from |-> from]
  <1>1. pays' = pays \cup {e} /\ e.lessons \in Nat
    BY DEF CreatePayment
  <1>2. IsFiniteSet(pays) /\ \A p \in pays : p.lessons \in Nat
    BY DEF Receipts, Receipt
  <1> HIDE DEF e
  <1>3. \A d : PaidFor(d, pays) <= PaidFor(d, pays')
    BY <1>1, <1>2, PaidMore
  <1>4. QED
    BY <1>3, PaysStand

LEMMA UndoneStands ==
    ASSUME Receipts, UNCHANGED visit, NEW p \in pays, stray' = stray \cup {p.course},
           \/ pays' = pays \ {p}
           \/ \E e : e.lessons \in Nat /\ pays' = (pays \ {p}) \cup {e}
    PROVE  Stands
  <1> DEFINE S == pays \ {p}
  <1>1. IsFiniteSet(pays) /\ IsFiniteSet(S) /\ \A q \in pays : q.lessons \in Nat
    BY FS_Subset DEF Receipts, Receipt
  <1>2. ASSUME NEW c \in Courses, c \notin stray'
        PROVE  PaidFor(c, pays) <= PaidFor(c, pays')
    <2>1. PaidFor(c, S) \in Int /\ PaidFor(c, pays) = PaidFor(c, S)
      <3>1. Credit(c, p) = 0
        BY <1>2 DEF Credit
      <3>2. PaidFor(c, S) \in Int
        BY <1>1, PaidForIs
      <3>3. QED
        BY <1>1, <3>1, <3>2, PaidForIs
    <2>2. CASE pays' = S
      BY <2>1, <2>2
    <2>3. ASSUME NEW e, e.lessons \in Nat, pays' = S \cup {e}
          PROVE  PaidFor(c, S) <= PaidFor(c, pays')
      <3>1. \A q \in S : q.lessons \in Nat
        BY <1>1
      <3> HIDE DEF S
      <3>2. QED
        BY <1>1, <2>3, <3>1, PaidMore
    <2>4. pays' = S \/ \E e : e.lessons \in Nat /\ pays' = S \cup {e}
      OBVIOUS
    <2> HIDE DEF S
    <2>5. QED
      BY <2>1, <2>2, <2>3, <2>4
  <1>3. QED
    BY <1>2, PaysStand

-----------------------------------------------------------------------------
(* What is promised.                                                        *)

\* What a handler is about to write under a question.
Speech(text, says) ==
    \/ text \in {"already", "gone", "paid"} /\ says = NoVisit
    \/ text = "why" /\ says \in Nat
    \/ text = "said" /\ says \in Said

\* Each of the offers made for a course on a day pays for all up to its last date.
Offered(c, day, offers) ==
    offers \subseteq Offer /\ \A o \in offers : Enough(c, day, o.through, o.lessons)

\* A lesson the pass is still to come to is one of its day.
OfDay ==
    tick # Idle => \A j \in 1 .. Len(tick.left) :
        \E i \in DOMAIN Timetable[Today] : Timetable[Today][i] = tick.left[j]

AtOffer ==
    tick.step = "offer" =>
        /\ tick = [step |-> "offer", at |-> tick.at, left |-> tick.left, course |-> Course,
                   offers |-> tick.offers]
        /\ Offered(Course, Today, tick.offers)

OfMsgs ==
    \A i \in DOMAIN msgs :
        /\ msgs[i] \in Msg
        /\ msgs[i].kind = "warn" => /\ msgs[i].day <= Reached
                                    /\ Offered(msgs[i].course, msgs[i].day, msgs[i].offers)

OfJobs ==
    \A h \in Handlers :
        /\ Paying(h) => job[h].offer \in msgs[job[h].msg].offers
        /\ job[h].step = "edit" => Speech(job[h].text, job[h].says)

\* What was paid by the button of a warning pays for all up to the date it named.
OfPays ==
    \A p \in pays :
        p.from.msg # 0 => Enough(msgs[p.from.msg].course, msgs[p.from.msg].day, p.from.through, 0)

\* What the tables, the maps and the history name exists.
Named ==
    /\ said.reminded \subseteq Courses /\ said.warned \subseteq Courses
    /\ taken \subseteq DOMAIN msgs /\ torn \subseteq DOMAIN msgs
    /\ marked \subseteq Key /\ touched \subseteq Key /\ stray \subseteq Courses
    /\ acts \in 0 .. MaxActs /\ stops \in 0 .. MaxStops

PromisesInv == Receipts /\ OfDay /\ AtOffer /\ OfMsgs /\ OfJobs /\ OfPays /\ Named

LEMMA DaysEnd ==
    ASSUME NEW S \in SUBSET Days, S # {}
    PROVE  \E d \in S : \A e \in S : d >= e
  <1> DEFINE Good == {T \in SUBSET Days : T = {} \/ \E d \in T : \A e \in T : d >= e}
  <1>1. ASSUME NEW T \in SUBSET Days, \A d \in T : T \ {d} \in Good
        PROVE  T \in Good
    <2> SUFFICES ASSUME T # {} PROVE \E d \in T : \A e \in T : d >= e
      OBVIOUS
    <2>1. PICK x \in T : TRUE
      OBVIOUS
    <2>2. CASE T \ {x} = {}
      <3>1. x \in Nat /\ \A e \in T : e = x
        BY <2>1, <2>2, DaysAreFinite
      <3>2. QED
        BY <2>1, <3>1
    <2>3. CASE T \ {x} # {}
      <3>1. PICK d \in T \ {x} : \A e \in T \ {x} : d >= e
        BY <1>1, <2>1, <2>3
      <3>2. x \in Nat /\ d \in Nat /\ \A e \in T : e \in Nat
        BY <2>1, <3>1, DaysAreFinite
      <3>3. CASE d >= x
        BY <3>1, <3>3
      <3>4. CASE ~(d >= x)
        <4>1. \A e \in T : x >= e
          BY <3>1, <3>2, <3>4
        <4>2. QED
          BY <2>1, <4>1
      <3>5. QED
        BY <3>3, <3>4
    <2>4. QED
      BY <2>2, <2>3
  <1>2. \A T \in SUBSET Days : T \in Good
    <2> HIDE DEF Good
    <2>1. \A T \in SUBSET Days : (\A d \in T : T \ {d} \in Good) => T \in Good
      BY <1>1
    <2>2. QED
      BY <2>1, SetInduction, DaysAreFinite
  <1>3. QED
    BY <1>2

\* The slot at hand is a lesson of the day.
LEMMA LessonAtHand ==
    ASSUME Clock, OfDay, tick # Idle, tick.left # <<>>
    PROVE  HasLesson(Course, Today)
  <1>1. tick.left \in Seq(Slot)
    BY DEF Clock, Pass
  <1>2. PICK s : s = tick.left
    OBVIOUS
  <1>3. s \in Seq(Slot) /\ s # <<>>
    BY <1>1, <1>2
  <1>4. 1 \in 1 .. Len(s) /\ Head(s) = s[1]
    BY <1>3
  <1>5. QED
    BY <1>2, <1>4 DEF OfDay, HasLesson, Course

\* What an offer names is enough: the lessons up to its date, and what is owed.
LEMMA OfferIsEnough ==
    ASSUME Receipts, NEW c \in Courses, c = Course, Today \in Days, HasLesson(c, Today),
           Balance(c) <= 0
    PROVE  Offered(c, Today, Offers(Balance(c)))
  <1> DEFINE b == Balance(c)
             owed == IF b < 0 THEN -b ELSE 0
  <1>1. Today \in Nat /\ WeekLen \in Nat \ {0} /\ IsFiniteSet(Days)
    BY DaysAreFinite, LessonsAssumption DEF LessonsAssumption
  <1>2. /\ DoneDays(c) \in SUBSET Days /\ Cardinality(DoneDays(c)) \in Nat
        /\ IsFiniteSet(DoneDays(c))
    BY DaysAreFinite DEF DoneDays
  <1>3. b = Funds(c) - Cardinality(DoneDays(c)) /\ Funds(c) \in Int
    BY FundsAre, BalanceIs
  <1>4. b \in Int /\ owed = -b /\ owed \in Nat
    BY <1>2, <1>3
  <1> HIDE DEF b
  <1>5. ASSUME NEW h \in Int, Today <= h
        PROVE  LET o == [lessons |-> Cardinality(Through(h)) + owed, through |-> Max(Through(h))]
               IN  o \in Offer /\ Enough(c, Today, o.through, o.lessons)
    <2> DEFINE n == Cardinality(Through(h))
               t == Max(Through(h))
    <2>1. Through(h) \in SUBSET Days /\ Today \in Through(h)
      BY <1>1, <1>5 DEF Through
    <2>2. n \in Nat /\ IsFiniteSet(Through(h))
      BY <2>1, DaysAreFinite
    <2>3. t \in Through(h) /\ \A e \in Through(h) : t >= e
      BY <2>1, DaysEnd DEF Max
    <2>4. t \in Days /\ t <= h
      BY <2>1, <2>3 DEF Through
    <2> HIDE DEF n, t
    <2>5. Busy(c, Today, t) \subseteq DoneDays(c) \cup Through(h)
      <3> SUFFICES ASSUME NEW d \in Busy(c, Today, t), d \notin DoneDays(c)
                   PROVE  d \in Through(h)
        OBVIOUS
      <3>1. d \in Days /\ d \in Nat /\ d <= t /\ Today <= d /\ HasLesson(c, d)
        BY DaysAreFinite DEF Busy, DoneDays
      <3>2. t \in Nat
        BY <2>4, DaysAreFinite
      <3>3. d <= h /\ d \in Int
        BY <1>5, <2>4, <3>1, <3>2
      <3>4. d \in Today .. h
        BY <1>1, <1>5, <3>1, <3>3
      <3>5. QED
        BY <3>1, <3>4 DEF Through
    <2>6. Cardinality(DoneDays(c) \cup Through(h)) <= Cardinality(DoneDays(c)) + n
      <3>1. /\ IsFiniteSet(DoneDays(c) \cap Through(h))
            /\ Cardinality(DoneDays(c) \cap Through(h)) \in Nat
        BY <1>2, DaysAreFinite
      <3>2. Cardinality(DoneDays(c) \cup Through(h)) =
              Cardinality(DoneDays(c)) + Cardinality(Through(h)) - Cardinality(DoneDays(c) \cap Through(h))
        BY <1>2, <2>2, FS_Union
      <3>3. QED
        BY <1>2, <2>2, <3>1, <3>2 DEF n
    <2>7. /\ Cardinality(Busy(c, Today, t)) <= Cardinality(DoneDays(c) \cup Through(h))
          /\ Cardinality(Busy(c, Today, t)) \in Nat
          /\ Cardinality(DoneDays(c) \cup Through(h)) \in Nat
      <3>1. DoneDays(c) \cup Through(h) \in SUBSET Days
        BY <1>2, <2>1
      <3>2. QED
        BY <2>5, <3>1, BusyIs, DaysAreFinite
    <2>8. Cardinality(Busy(c, Today, t)) <= Funds(c) + (n + owed)
      BY <1>2, <1>3, <1>4, <2>2, <2>6, <2>7 DEF n
    <2>9. n + owed \in Nat
      BY <1>4, <2>2 DEF n
    <2>10. QED
      BY <2>4, <2>8, <2>9 DEF Offer, Enough, n, t
  <1>6. \A h \in Horizons : h \in Int /\ Today <= h
    <2>1. -Today % WeekLen \in Nat
      <3>1. \A a \in Int, m \in Nat \ {0} : a % m \in Nat
        OBVIOUS
      <3>2. -Today \in Int
        BY <1>1
      <3>3. QED
        BY <1>1, <3>1, <3>2
    <2>2. PICK m \in Nat : m = -Today % WeekLen
      BY <2>1
    <2>3. Horizons = {Today, Today + m, Today + m + 2 * WeekLen}
      BY <2>2 DEF Horizons
    <2>4. QED
      BY <1>1, <2>3
  <1>7. Offers(b) = {[lessons |-> Cardinality(Through(h)) + owed, through |-> Max(Through(h))] : h \in Horizons}
    BY DEF Offers
  <1>8. QED
    BY <1>5, <1>6, <1>7 DEF Offered, b

-----------------------------------------------------------------------------
(* Every step keeps what is promised.                                       *)

LEMMA SameStands ==
    ASSUME Receipts, UNCHANGED <<visit, pays, stray>>
    PROVE  Stands
  BY VisitsStand

\* A warning that was posted, and its offers.
LEMMA WarningIs ==
    ASSUME OfMsgs, NEW i, Warns(i)
    PROVE  /\ msgs[i].course \in Courses /\ msgs[i].day \in Days /\ msgs[i].day \in Nat
           /\ msgs[i].day \in Counted(msgs[i].course)
           /\ msgs[i].day <= Reached /\ Offered(msgs[i].course, msgs[i].day, msgs[i].offers)
  <1>1. i \in DOMAIN msgs /\ msgs[i] \in Msg /\ msgs[i].kind = "warn"
    BY DEF OfMsgs, Warns
  <1>2. msgs[i].course \in Courses /\ msgs[i].day \in Days
    BY <1>1 DEF Msg
  <1>3. msgs[i].day \in Counted(msgs[i].course)
    BY <1>1 DEF Counted
  <1>4. QED
    BY <1>1, <1>2, <1>3, DaysAreFinite DEF OfMsgs

\* What the button that is being handled offers.
LEMMA OfferIs ==
    ASSUME Answers, OfMsgs, OfJobs, NEW h \in Handlers, Paying(h)
    PROVE  /\ Warns(job[h].msg) /\ job[h].msg \in Nat \ {0}
           /\ job[h].offer \in Offer
           /\ Enough(msgs[job[h].msg].course, msgs[job[h].msg].day, job[h].offer.through,
                     job[h].offer.lessons)
  <1>1. Warns(job[h].msg)
    BY DEF Answers, JobOK, Paying
  <1>2. job[h].msg \in Nat \ {0}
    BY <1>1, MsgNumbers DEF Warns
  <1>3. Offered(msgs[job[h].msg].course, msgs[job[h].msg].day, msgs[job[h].msg].offers)
    BY <1>1, WarningIs
  <1>4. QED
    BY <1>1, <1>2, <1>3 DEF OfJobs, Offered

LEMMA SchedulerStray ==
    ASSUME Scheduler
    PROVE  UNCHANGED stray
  <1>1. CASE Minute \/ TickStart \/ TickFail
    BY <1>1 DEF Minute, TickStart, TickFail, history
  <1>2. CASE TickDone \/ TickError \/ WarnCheck \/ WarnBalance \/ RemindCheck
    BY <1>2 DEF TickDone, TickError, WarnCheck, WarnBalance, RemindCheck, TickOnly
  <1>3. CASE WarnSend \/ RemindSend
    BY <1>3 DEF WarnSend, RemindSend
  <1>4. QED
    BY <1>1, <1>2, <1>3 DEF Scheduler

LEMMA StepStands ==
    ASSUME Answers, Receipts, OfMsgs, OfJobs, Next
    PROVE  Stands
  <1>1. VisitsOK
    BY DEF Answers, VisitsOK
  <1>2. CASE Scheduler
    BY <1>2, SchedulerApart, SchedulerStray, SameStands
  <1>3. ASSUME NEW h \in Handlers, Work(h)
        PROVE  Stands
    <2>1. CASE TapCreate(h)
      <3>1. job[h].key \in Key /\ job[h].status \in Status
        BY <2>1 DEF TapCreate, Working, Answers, JobOK
      <3>2. CreateVisit(job[h].key, job[h].status) /\ UNCHANGED pays
        BY <2>1 DEF TapCreate
      <3>3. QED
        BY <1>1, <3>1, <3>2, CreateStands
    <2>2. CASE PaidWrite(h)
      <3>1. job[h].offer.lessons \in Nat
        BY <2>2, OfferIs DEF PaidWrite, Working, Paying, Offer
      <3>2. /\ UNCHANGED <<visit, stray>>
            /\ CreatePayment(msgs[job[h].msg].course, job[h].offer.lessons,
                             [msg |-> job[h].msg, through |-> job[h].offer.through])
        BY <2>2 DEF PaidWrite, history
      <3>3. QED
        BY <3>1, <3>2, PayStands
    <2>3. CASE TapLook(h) \/ TapEdit(h) \/ TapFail(h) \/ PaidFail(h)
      BY <2>3, SameStands DEF TapLook, TapEdit, TapFail, PaidFail, tables, history
    <2>4. QED
      BY <1>3, <2>1, <2>2, <2>3 DEF Work
  <1>4. ASSUME NEW h \in Handlers, Pressed(h)
        PROVE  Stands
    <2>1. UNCHANGED stray
      BY <1>4 DEF Pressed, AskTap, ReasonTap, PaidTap, AddTap, Press, history
    <2>2. QED
      BY <1>4, <2>1, PressedApart, SameStands
  <1>5. CASE Entered
    <2>1. CASE \E k \in Key, s \in Status : FormVisit(k, s)
      BY <1>1, <2>1, CreateStands DEF FormVisit
    <2>2. CASE \E k, to \in Key, s \in Status : FormUpdateVisit(k, to, s)
      BY <1>1, <2>2, MoveStands
    <2>3. CASE \E k \in Key : FormDeleteVisit(k)
      BY <1>1, <2>3, DeleteStands
    <2>4. CASE \E c \in Courses : FormPay(c, 1)
      BY <2>4, PayStands DEF FormPay
    <2>5. CASE \E p \in pays : FormDeletePay(p)
      BY <2>5, UndoneStands DEF FormDeletePay
    <2>6. ASSUME NEW p \in pays, NEW c \in Courses, FormUpdatePay(p, c, 1)
          PROVE  Stands
      <3>1. PICK e : pays' = (pays \ {p}) \cup {e} /\ e = [p EXCEPT !.course = c, !.lessons = 1]
        BY <2>6 DEF FormUpdatePay
      <3>2. p \in Receipt
        BY DEF Receipts
      <3>3. e.lessons \in Nat
        BY <3>1, <3>2 DEF Receipt
      <3>4. stray' = stray \cup {p.course} /\ UNCHANGED visit
        BY <2>6 DEF FormUpdatePay
      <3>5. QED
        BY <3>1, <3>3, <3>4, UndoneStands
    <2>7. QED
      BY <1>5, <2>1, <2>2, <2>3, <2>4, <2>5, <2>6 DEF Entered
  <1>6. CASE Restart
    BY <1>6, SameStands DEF Restart, tables
  <1>7. QED
    BY <1>2, <1>3, <1>4, <1>5, <1>6, NextKinds

\* A payment is entered.
LEMMA NewReceipt ==
    ASSUME Receipts, ids \in Nat, NEW c \in Courses, NEW n \in Nat, NEW m \in Nat, NEW t \in Days,
           CreatePayment(c, n, [msg |-> m, through |-> t])
    PROVE  Receipts'
  <1> DEFINE e == [id |-> ids + 1, course |-> c, lessons |-> n, from |-> [msg |-> m, through |-> t]]
  <1>1. pays' = pays \cup {e} /\ ids' = ids + 1
    BY DEF CreatePayment
  <1>2. e \in Receipt /\ e.id = ids + 1
    BY DEF Receipt
  <1> HIDE DEF e
  <1>3. IsFiniteSet(pays')
    BY <1>1, FS_AddElement DEF Receipts
  <1>4. QED
    BY <1>1, <1>2, <1>3 DEF Receipts

LEMMA StepReceipts ==
    ASSUME Answers, Receipts, OfMsgs, OfJobs, Next
    PROVE  Receipts'
  <1>1. ids \in Nat
    BY DEF Answers
  <1>2. ASSUME UNCHANGED pays, ids' = ids \/ ids' = ids + 1
        PROVE  Receipts'
    BY <1>1, <1>2 DEF Receipts
  <1>3. CASE Scheduler \/ (\E h \in Handlers : Pressed(h)) \/ Restart
    BY <1>2, <1>3, SchedulerApart, PressedApart DEF Restart, tables
  <1>4. ASSUME NEW h \in Handlers, Work(h)
        PROVE  Receipts'
    <2>1. CASE PaidWrite(h)
      <3>1. Paying(h) /\ CreatePayment(msgs[job[h].msg].course, job[h].offer.lessons,
                             [msg |-> job[h].msg, through |-> job[h].offer.through])
        BY <2>1 DEF PaidWrite, Working, Paying
      <3>2. job[h].offer \in Offer /\ job[h].msg \in Nat /\ msgs[job[h].msg].course \in Courses
        BY <3>1, OfferIs, WarningIs
      <3>3. QED
        BY <1>1, <3>1, <3>2, NewReceipt DEF Offer
    <2>2. CASE TapCreate(h)
      BY <1>2, <2>2 DEF TapCreate, CreateVisit
    <2>3. CASE TapLook(h) \/ TapEdit(h) \/ TapFail(h) \/ PaidFail(h)
      BY <1>2, <2>3 DEF TapLook, TapEdit, TapFail, PaidFail, tables
    <2>4. QED
      BY <1>4, <2>1, <2>2, <2>3 DEF Work
  <1>5. CASE Entered
    <2>1. CASE \/ \E k \in Key, s \in Status : FormVisit(k, s)
               \/ \E k, to \in Key, s \in Status : FormUpdateVisit(k, to, s)
               \/ \E k \in Key : FormDeleteVisit(k)
      BY <1>2, <2>1 DEF FormVisit, FormUpdateVisit, FormDeleteVisit, CreateVisit
    <2>2. CASE \E c \in Courses : FormPay(c, 1)
      <3>1. 0 \in Days
        BY Settings DEF Days
      <3>2. QED
        BY <1>1, <2>2, <3>1, NewReceipt DEF FormPay
    <2>3. CASE \E p \in pays : FormDeletePay(p)
      BY <2>3, FS_Subset DEF FormDeletePay, Receipts
    <2>4. ASSUME NEW p \in pays, NEW c \in Courses, FormUpdatePay(p, c, 1)
          PROVE  Receipts'
      <3>1. PICK e : pays' = (pays \ {p}) \cup {e} /\ e = [p EXCEPT !.course = c, !.lessons = 1]
        BY <2>4 DEF FormUpdatePay
      <3>2. p \in Receipt /\ p.id \in 1 .. ids
        BY DEF Receipts
      <3>3. e \in Receipt /\ e.id = p.id
        BY <3>1, <3>2 DEF Receipt
      <3>4. UNCHANGED ids
        BY <2>4 DEF FormUpdatePay
      <3>5. IsFiniteSet(pays \ {p})
        BY FS_Subset DEF Receipts
      <3>6. IsFiniteSet(pays')
        BY <3>1, <3>5, FS_AddElement
      <3>7. QED
        BY <3>1, <3>2, <3>3, <3>4, <3>6 DEF Receipts
    <2>5. QED
      BY <1>5, <2>1, <2>2, <2>3, <2>4 DEF Entered
  <1>6. QED
    BY <1>3, <1>4, <1>5, NextKinds

OfMsg(m) ==
    m \in Msg /\ (m.kind = "warn" => m.day <= Reached /\ Offered(m.course, m.day, m.offers))

\* A warning keeps its offers.
OffersKept == \A i \in DOMAIN msgs : Warns(i) => msgs'[i].offers = msgs[i].offers

\* What holds of a step that keeps its promises.
Keeps == Stands /\ Receipts /\ Receipts'

LEMMA OfferedStands ==
    ASSUME Keeps, NEW c \in Courses, NEW d \in Nat, d \in Counted(c), NEW s, Offered(c, d, s)
    PROVE  Offered(c, d, s)'
  <1> SUFFICES ASSUME NEW o \in s PROVE Enough(c, d, o.through, o.lessons)'
    BY DEF Offered
  <1>1. o \in Offer /\ Enough(c, d, o.through, o.lessons)
    BY DEF Offered
  <1>2. PICK t, n : t = o.through /\ n = o.lessons
    OBVIOUS
  <1>3. n \in Int /\ Enough(c, d, t, n)
    BY <1>1, <1>2 DEF Offer
  <1>4. Enough(c, d, t, n)'
    BY <1>3, EnoughStands DEF Keeps
  <1>5. QED
    BY <1>2, <1>4

\* A message is what it was, or has only lost its buttons.
LEMMA OfMsgStands ==
    ASSUME Keeps, Clock, ClockStep, OfMsgs, NEW i \in DOMAIN msgs, NEW m \in Msg,
           m.kind = msgs[i].kind,
           m.kind = "warn" => m.course = msgs[i].course /\ m.day = msgs[i].day /\ m.offers = msgs[i].offers
    PROVE  OfMsg(m)'
  <1> SUFFICES ASSUME m.kind = "warn"
               PROVE  m.day <= Reached' /\ Offered(m.course, m.day, m.offers)'
    BY DEF OfMsg
  <1>1. Warns(i)
    BY DEF Warns
  <1>2. PICK c, d, s : c = msgs[i].course /\ d = msgs[i].day /\ s = msgs[i].offers
    OBVIOUS
  <1>3. c \in Courses /\ d \in Nat /\ d \in Counted(c) /\ d <= Reached /\ Offered(c, d, s)
    BY <1>1, <1>2, WarningIs
  <1>4. Offered(c, d, s)'
    BY <1>3, OfferedStands
  <1>5. Reached \in Nat /\ Reached' \in Nat /\ Reached <= Reached'
    BY ReachedIs, ReachedNext DEF ClockStep
  <1>6. d <= Reached'
    BY <1>3, <1>5
  <1>7. QED
    BY <1>2, <1>4, <1>6

LEMMA EditedMsg ==
    ASSUME Answers, OfMsgs, OfJobs, NEW h \in Handlers, TapEdit(h)
    PROVE  /\ msgs'[job[h].msg] \in Msg
           /\ Warns(job[h].msg) => msgs'[job[h].msg].offers = msgs[job[h].msg].offers
  <1>1. PICK j, i, m : j = job[h] /\ i = j.msg /\ m = msgs[i]
    OBVIOUS
  <1> DEFINE e == IF m.kind = "ask"
                  THEN [kind |-> "ask", key |-> m.key, text |-> j.text, says |-> j.says]
                  ELSE [m EXCEPT !.text = j.text]
  <1>2. JobOK(j) /\ j.step = "edit" /\ Speech(j.text, j.says)
    BY <1>1 DEF TapEdit, Working, Answers, OfJobs
  <1>3. i \in DOMAIN msgs /\ m \in Msg /\ msgs \in Seq(Own(msgs))
    BY <1>1, <1>2 DEF JobOK, Asks, Warns, OfMsgs, Answers
  <1>4. msgs' = [msgs EXCEPT ![i] = e]
    BY <1>1 DEF TapEdit
  <1>5. CASE Warns(i) /\ j.text = "paid"
    <2>1. m \in [kind: {"warn"}, course: Courses, day: Days, text: {"open", "paid"}, offers: SUBSET Offer]
      BY <1>1, <1>3, <1>5 DEF Msg, Warns
    <2>2. e = [m EXCEPT !.text = "paid"]
      BY <1>5, <2>1
    <2>3. e \in [kind: {"warn"}, course: Courses, day: Days, text: {"open", "paid"}, offers: SUBSET Offer]
          /\ e.offers = m.offers
      BY <2>1, <2>2
    <2>4. e \in Msg
      BY <2>3 DEF Msg
    <2> HIDE DEF e
    <2>5. msgs'[i] = e
      BY <1>3, <1>4, SeqEdited
    <2>6. QED
      BY <1>1, <2>3, <2>4, <2>5
  <1>6. CASE Asks(i) /\ Answer(j.text, j.says, m.key)
    <2>1. m.kind = "ask" /\ m.key \in Key
      BY <1>1, <1>3, <1>6 DEF Msg, Asks
    <2>2. e = [kind |-> "ask", key |-> m.key, text |-> j.text, says |-> j.says]
      BY <2>1
    <2>3. \/ j.text \in {"already", "gone"} /\ j.says = NoVisit
          \/ j.text = "why" /\ j.says \in Nat
          \/ j.text = "said" /\ j.says \in Said
      BY <1>2, <1>6 DEF Answer, Speech
    <2>4. e \in Msg
      BY <2>1, <2>2, <2>3 DEF Msg
    <2> HIDE DEF e
    <2>5. msgs'[i] = e
      BY <1>3, <1>4, SeqEdited
    <2>6. QED
      BY <1>1, <2>1, <2>4, <2>5 DEF Warns
  <1>7. QED
    BY <1>1, <1>2, <1>5, <1>6 DEF JobOK

\* Messages that nobody adds to, and of which one may be edited.
LEMMA SameOfMsgs ==
    ASSUME Keeps, Answers, Clock, ClockStep, OfMsgs, OfJobs,
           UNCHANGED msgs \/ \E h \in Handlers : TapEdit(h)
    PROVE  OfMsgs' /\ OffersKept
  <1>1. CASE UNCHANGED msgs
    <2>1. \A i \in DOMAIN msgs : OfMsg(msgs[i])'
      BY <1>1, OfMsgStands DEF OfMsgs
    <2>2. OfMsgs'
      BY <1>1, <2>1 DEF OfMsgs, OfMsg
    <2>3. QED
      BY <1>1, <2>2 DEF OffersKept
  <1>2. ASSUME NEW h \in Handlers, TapEdit(h)
        PROVE  OfMsgs' /\ OffersKept
    <2>1. PICK i : i = job[h].msg
      OBVIOUS
    <2>2. /\ MsgsKept /\ DOMAIN msgs' = DOMAIN msgs
          /\ i \in DOMAIN msgs /\ \A j \in DOMAIN msgs \ {i} : msgs'[j] = msgs[j]
      BY <1>2, <2>1, Edited
    <2>3. msgs'[i] \in Msg /\ (Warns(i) => msgs'[i].offers = msgs[i].offers)
      BY <1>2, <2>1, EditedMsg
    <2>4. ASSUME NEW j \in DOMAIN msgs
          PROVE  OfMsg(msgs[j])' /\ (Warns(j) => msgs'[j].offers = msgs[j].offers)
      <3>1. PICK m : m = msgs'[j]
        OBVIOUS
      <3>2. m \in Msg /\ m.kind = msgs[j].kind
        BY <2>2, <2>3, <3>1 DEF OfMsgs, MsgsKept
      <3>3. Warns(j) => m.course = msgs[j].course /\ m.day = msgs[j].day /\ m.offers = msgs[j].offers
        BY <2>2, <2>3, <3>1 DEF Warns, MsgsKept
      <3>4. OfMsg(m)'
        BY <3>2, <3>3, OfMsgStands DEF Warns
      <3>5. QED
        BY <3>1, <3>3, <3>4
    <2>5. QED
      BY <2>2, <2>4 DEF OfMsgs, OfMsg, OffersKept
  <1>3. QED
    BY <1>1, <1>2

LEMMA PostedOfMsgs ==
    ASSUME Keeps, Answers, Clock, ClockStep, OfMsgs, OfJobs, NEW m, Post(m), OfMsg(m)'
    PROVE  OfMsgs' /\ OffersKept
  <1>1. /\ Len(msgs) \in Nat /\ DOMAIN msgs = 1 .. Len(msgs) /\ DOMAIN msgs' = 1 .. Len(msgs) + 1
        /\ msgs'[Len(msgs) + 1] = m /\ \A i \in DOMAIN msgs : msgs'[i] = msgs[i]
    BY Posted
  <1>2. ASSUME NEW i \in DOMAIN msgs
        PROVE  OfMsg(msgs[i])'
    <2>1. PICK n : n = msgs[i]
      OBVIOUS
    <2>2. OfMsg(n)'
      BY <2>1, OfMsgStands DEF OfMsgs
    <2>3. msgs'[i] = n
      BY <1>1, <2>1
    <2>4. QED
      BY <2>2, <2>3
  <1>3. ASSUME NEW i \in DOMAIN msgs'
        PROVE  OfMsg(msgs[i])'
    <2>1. i \in DOMAIN msgs \/ i = Len(msgs) + 1
      BY <1>1
    <2>2. QED
      BY <1>1, <1>2, <2>1
  <1>4. OfMsgs'
    BY <1>3 DEF OfMsgs, OfMsg
  <1>5. QED
    BY <1>1, <1>4 DEF OffersKept

LEMMA StepOfMsgs ==
    ASSUME Keeps, Answers, Clock, ClockStep, AtOffer, OfMsgs, OfJobs, Next
    PROVE  OfMsgs' /\ OffersKept
  <1>1. CASE WarnSend
    <2> DEFINE m == [kind |-> "warn", course |-> Course, day |-> Today, text |-> "open",
                     offers |-> tick.offers]
    <2>1. /\ Course \in Courses /\ Today \in Days /\ Today \in Nat /\ tick # Idle
          /\ tick.step = "offer"
      BY <1>1, SlotAtHand DEF WarnSend, AtSlot, Idle
    <2>2. /\ Offered(Course, Today, tick.offers)
          /\ tick = [step |-> "offer", at |-> tick.at, left |-> tick.left, course |-> Course,
                     offers |-> tick.offers]
      BY <2>1 DEF AtOffer
    <2>3. tick.course = Course
      BY <2>2
    <2>4. PICK c, d, s : c = Course /\ d = Today /\ s = tick.offers
      OBVIOUS
    <2>5. d \in Counted(c)
      BY <2>1, <2>3, <2>4 DEF Counted, Today
    <2>6. Offered(c, d, s)'
      BY <2>1, <2>2, <2>4, <2>5, OfferedStands
    <2>7. Reached = d /\ Reached' \in Nat /\ d <= Reached'
      BY <2>1, <2>4, ReachedIs, ReachedNext DEF ClockStep
    <2>8. s \subseteq Offer
      BY <2>2, <2>4 DEF Offered
    <2>9. /\ m \in Msg /\ m.day = d /\ m.course = c /\ m.offers = s
      BY <2>1, <2>4, <2>8 DEF Msg
    <2>10. Post(m) \/ UNCHANGED msgs
      BY <1>1 DEF WarnSend
    <2>11. PICK n : n = m
      OBVIOUS
    <2> HIDE DEF m
    <2>12. OfMsg(n)'
      BY <2>6, <2>7, <2>9, <2>11 DEF OfMsg
    <2>13. QED
      BY <2>10, <2>11, <2>12, PostedOfMsgs, SameOfMsgs
  <1>2. CASE RemindSend
    <2> DEFINE m == [kind |-> "ask", key |-> <<Course, Today>>, text |-> "open"]
    <2>1. Course \in Courses /\ Today \in Days
      BY <1>2, SlotAtHand DEF RemindSend, AtSlot, Idle
    <2>2. m \in Msg /\ m.kind = "ask"
      BY <2>1 DEF Msg, Key
    <2>3. Post(m) \/ UNCHANGED msgs
      BY <1>2 DEF RemindSend
    <2>4. PICK n : n = m
      OBVIOUS
    <2> HIDE DEF m
    <2>5. OfMsg(n)'
      BY <2>2, <2>4 DEF OfMsg
    <2>6. QED
      BY <2>3, <2>4, <2>5, PostedOfMsgs, SameOfMsgs
  <1>3. CASE Minute \/ TickStart \/ TickFail
    BY <1>3, SameOfMsgs DEF Minute, TickStart, TickFail
  <1>4. CASE TickDone \/ TickError \/ WarnCheck \/ WarnBalance \/ RemindCheck
    BY <1>4, SameOfMsgs DEF TickDone, TickError, WarnCheck, WarnBalance, RemindCheck, TickOnly
  <1>5. ASSUME NEW h \in Handlers, Work(h)
        PROVE  OfMsgs' /\ OffersKept
    BY <1>5, SameOfMsgs DEF Work, TapCreate, TapLook, TapFail, PaidWrite, PaidFail, tables
  <1>6. CASE Restart
    BY <1>6, SameOfMsgs DEF Restart
  <1>7. QED
    BY <1>1, <1>2, <1>3, <1>4, <1>5, <1>6, NextKinds, PressedApart, EnteredApart, SameOfMsgs DEF Scheduler

-----------------------------------------------------------------------------
(* The pass.                                                                *)

PassStep == WarnCheck \/ WarnBalance \/ WarnSend \/ RemindCheck \/ RemindSend \/ TickError

\* What becomes of the pass.
LEMMA PassGoes ==
    ASSUME Clock, Next
    PROVE  \/ UNCHANGED tick
           \/ tick' = Idle
           \/ TickStart
           \/ PassStep
  BY NextKinds, PressedApart, EnteredApart, WorkApart
     DEF Scheduler, PassStep, Minute, TickFail, TickDone, TickOnly, Restart

LEMMA StepOfDay ==
    ASSUME Clock, OfDay, Next
    PROVE  OfDay'
  <1>1. CASE UNCHANGED tick
    BY <1>1 DEF OfDay, Today
  <1>2. CASE tick' = Idle
    BY <1>2 DEF OfDay
  <1>3. CASE TickStart
    <2>1. PICK d, s : /\ d = Date(due)
                      /\ s = IF d \in Days THEN Timetable[d] ELSE <<>>
      OBVIOUS
    <2>2. tick'.at = due /\ tick'.left = s
      BY <1>3, <2>1 DEF TickStart
    <2>3. Today' = d
      BY <2>1, <2>2 DEF Today
    <2>4. \A j \in 1 .. Len(s) : \E i \in DOMAIN Timetable[d] : Timetable[d][i] = s[j]
      <3>1. CASE d \in Days
        <4>1. Timetable[d] \in Seq(Slot) /\ s = Timetable[d]
          BY <2>1, <3>1, Settings
        <4>2. DOMAIN Timetable[d] = 1 .. Len(s)
          BY <4>1, LenProperties
        <4>3. QED
          BY <4>1, <4>2
      <3>2. CASE d \notin Days
        BY <2>1, <3>2
      <3>3. QED
        BY <3>1, <3>2
    <2>5. QED
      BY <2>2, <2>3, <2>4 DEF OfDay
  <1>4. CASE PassStep
    <2>1. Turns
      BY <1>4, PassTurns DEF PassStep
    <2>2. PICK s, t, d : s = tick.left /\ t = tick'.left /\ d = Today
      OBVIOUS
    <2>3. Today' = d
      BY <2>1, <2>2, TurnsClock
    <2>4. s \in Seq(Slot) /\ s # <<>> /\ (t = s \/ t = Tail(s))
      BY <2>1, <2>2 DEF Turns, Clock, Pass
    <2>5. \A j \in 1 .. Len(s) : \E i \in DOMAIN Timetable[d] : Timetable[d][i] = s[j]
      BY <2>1, <2>2 DEF OfDay, Turns
    <2>6. \A j \in 1 .. Len(t) : \E k \in 1 .. Len(s) : t[j] = s[k]
      BY <2>4
    <2>7. QED
      BY <2>2, <2>3, <2>5, <2>6 DEF OfDay
  <1>5. QED
    BY <1>1, <1>2, <1>3, <1>4, PassGoes

\* An offer is drawn up from the balance.
LEMMA DrawnOffer ==
    ASSUME Clock, OfDay, Receipts, WarnBalance, tick'.step = "offer"
    PROVE  /\ tick.step = "balance" /\ tick # Idle /\ tick.left # <<>> /\ Balance(Course) <= 0
           /\ \E s : /\ tick' = [step |-> "offer", at |-> tick.at, left |-> tick.left,
                                 course |-> Course, offers |-> s]
                     /\ Offered(Course, Today, s)
           /\ UNCHANGED <<visit, pays, stray>>
  <1>1. /\ tick.step = "balance" /\ tick # Idle /\ tick.left # <<>>
        /\ UNCHANGED <<visit, pays, stray>>
    BY DEF WarnBalance, AtSlot, Idle, TickOnly, tables
  <1>2. Remind.step = "remind"
    BY <1>1, TickTurned DEF Remind
  <1>3. PICK c, d : c = Course /\ d = Today
    OBVIOUS
  <1>4. PICK s \in {Offers(Balance(c)), {}} :
             tick' = IF Balance(c) > 0 THEN Remind
                     ELSE [step |-> "offer", at |-> tick.at, left |-> tick.left, course |-> c,
                           offers |-> s]
    BY <1>3 DEF WarnBalance, TickOnly
  <1>5. ~(Balance(c) > 0)
    BY <1>2, <1>4
  <1>6. c \in Courses /\ d \in Days /\ HasLesson(c, d)
    BY <1>1, <1>3, SlotAtHand, LessonAtHand
  <1>7. Balance(c) \in Int
    <2>1. Balance(c) = Funds(c) - Cardinality(DoneDays(c)) /\ Funds(c) \in Int
      BY <1>6, FundsAre, BalanceIs
    <2>2. DoneDays(c) \in SUBSET Days
      BY DEF DoneDays
    <2>3. Cardinality(DoneDays(c)) \in Nat
      BY <2>2, DaysAreFinite
    <2>4. QED
      BY <2>1, <2>3
  <1>8. Balance(c) <= 0
    BY <1>5, <1>7
  <1>9. Offered(c, d, Offers(Balance(c)))
    BY <1>3, <1>6, <1>8, OfferIsEnough
  <1>10. Offered(c, d, s)
    BY <1>4, <1>9 DEF Offered
  <1>11. QED
    BY <1>1, <1>3, <1>4, <1>5, <1>8, <1>10

\* The pass comes to an offer only from the balance.
LEMMA OfferFrom ==
    ASSUME Clock, PassStep, tick'.step = "offer"
    PROVE  WarnBalance
  <1>1. ASSUME tick # Idle, tick.step # "offer", NEW s
        PROVE  [tick EXCEPT !.step = s].step = s /\ NextSlot.step = "warn"
    BY <1>1, TickTurned DEF NextSlot
  <1>2. tick # Idle
    BY DEF PassStep, WarnCheck, WarnBalance, WarnSend, RemindCheck, RemindSend, TickError, AtSlot, Idle
  <1>3. ~WarnSend
    BY DEF WarnSend
  <1>4. ASSUME WarnCheck \/ RemindCheck \/ RemindSend \/ TickError
        PROVE  FALSE
    <2>1. tick.step # "offer"
      BY <1>4 DEF WarnCheck, RemindCheck, RemindSend, TickError, AtSlot
    <2>2. \/ \E s \in {"balance", "remind", "ask"} : tick' = [tick EXCEPT !.step = s]
          \/ tick' = NextSlot
      BY <1>4 DEF WarnCheck, RemindCheck, RemindSend, TickError, TickOnly, Remind
    <2>3. QED
      BY <1>1, <1>2, <2>1, <2>2
  <1>5. QED
    BY <1>3, <1>4 DEF PassStep

LEMMA SameOffered ==
    ASSUME UNCHANGED <<visit, pays, stray>>, NEW c, NEW d, NEW s, Offered(c, d, s)
    PROVE  Offered(c, d, s)'
  BY DEF Offered, Enough, Busy, Funds

LEMMA StepAtOffer ==
    ASSUME Keeps, Clock, OfDay, AtOffer, Next
    PROVE  AtOffer'
  <1>1. CASE UNCHANGED tick /\ tick.step = "offer"
    <2>1. tick # Idle
      BY <1>1 DEF Idle
    <2>2. tick.left # <<>>
      BY <1>1, <2>1 DEF Clock, Pass
    <2>3. PICK c, d, s : c = Course /\ d = Today /\ s = tick.offers
      OBVIOUS
    <2>4. /\ Offered(c, d, s)
          /\ tick = [step |-> "offer", at |-> tick.at, left |-> tick.left, course |-> c, offers |-> s]
      BY <1>1, <2>3 DEF AtOffer
    <2>5. c \in Courses /\ d \in Nat
      BY <2>1, <2>2, <2>3, SlotAtHand
    <2>6. tick.course = c
      BY <2>4
    <2>7. d \in Counted(c)
      BY <1>1, <2>3, <2>6 DEF Counted, Today
    <2>8. Offered(c, d, s)'
      BY <2>4, <2>5, <2>7, OfferedStands
    <2>9. Course' = c /\ Today' = d /\ tick'.offers = s
      BY <1>1, <2>3 DEF Course, Today
    <2>10. QED
      BY <1>1, <2>4, <2>8, <2>9 DEF AtOffer
  <1>2. CASE PassStep /\ tick'.step = "offer"
    <2>1. WarnBalance
      BY <1>2, OfferFrom
    <2>2. PICK c, d : c = Course /\ d = Today
      OBVIOUS
    <2>3. PICK s : /\ tick' = [step |-> "offer", at |-> tick.at, left |-> tick.left,
                               course |-> c, offers |-> s]
                   /\ Offered(c, d, s) /\ UNCHANGED <<visit, pays, stray>>
      BY <1>2, <2>1, <2>2, DrawnOffer DEF Keeps
    <2>4. Offered(c, d, s)'
      BY <2>3, SameOffered
    <2>5. Course' = c /\ Today' = d /\ tick'.offers = s
      BY <2>2, <2>3 DEF Course, Today
    <2>6. QED
      BY <2>3, <2>4, <2>5 DEF AtOffer
  <1>3. CASE tick'.step # "offer"
    BY <1>3 DEF AtOffer
  <1>4. CASE tick' = Idle \/ TickStart
    BY <1>3, <1>4 DEF TickStart, Idle
  <1>5. QED
    BY <1>1, <1>2, <1>3, <1>4, PassGoes

-----------------------------------------------------------------------------
(* Handlers and payments.                                                   *)

JobSays(j) ==
    /\ j.step = "pay" => j.offer \in msgs[j.msg].offers
    /\ j.step = "edit" => Speech(j.text, j.says)

LEMMA SaysStands ==
    ASSUME OffersKept, NEW j, JobOK(j), JobSays(j)
    PROVE  JobSays(j)'
  BY DEF JobSays, JobOK, OffersKept, Warns

LEMMA SaysNext ==
    ASSUME Answers, OfJobs, OffersKept, NEW h \in Handlers, NEW j, Goto(h, j), JobSays(j)'
    PROVE  OfJobs'
  <1>1. job'[h] = j /\ \A k \in Handlers \ {h} : job'[k] = job[k]
    BY DEF Goto, Answers
  <1>2. \A k \in Handlers : JobOK(job[k]) /\ JobSays(job[k])
    BY DEF Answers, OfJobs, JobSays, Paying
  <1>3. ASSUME NEW k \in Handlers
        PROVE  JobSays(job[k])'
    <2>1. PICK i : i = job'[k]
      OBVIOUS
    <2>2. JobSays(i)'
      BY <1>1, <1>2, <2>1, SaysStands
    <2>3. QED
      BY <2>1, <2>2
  <1>4. QED
    BY <1>3 DEF OfJobs, JobSays, Paying

LEMMA SameSays ==
    ASSUME Answers, OfJobs, OffersKept, UNCHANGED job
    PROVE  OfJobs'
  <1>1. \A k \in Handlers : JobOK(job[k]) /\ JobSays(job[k])
    BY DEF Answers, OfJobs, JobSays, Paying
  <1>2. ASSUME NEW k \in Handlers
        PROVE  JobSays(job[k])'
    <2>1. PICK i : i = job'[k]
      OBVIOUS
    <2>2. JobSays(i)'
      BY <1>1, <2>1, SaysStands
    <2>3. QED
      BY <2>1, <2>2
  <1>3. QED
    BY <1>2 DEF OfJobs, JobSays, Paying

LEMMA MuteJobs ==
    /\ JobSays(Idle)'
    /\ \A j : j.step \notin {"pay", "edit"} => JobSays(j)'
    /\ \A i, text, says : Speech(text, says) => JobSays(Edit(i, text, says))'
  <1>1. JobSays(Idle)'
    BY DEF JobSays, Idle
  <1>2. \A j : j.step \notin {"pay", "edit"} => JobSays(j)'
    BY DEF JobSays
  <1>3. \A i, text, says : Speech(text, says) => JobSays(Edit(i, text, says))'
    BY DEF JobSays, Edit, Speech
  <1>4. QED
    BY <1>1, <1>2, <1>3

LEMMA PressedSays ==
    ASSUME Answers, OfJobs, OffersKept, NEW h \in Handlers, Pressed(h)
    PROVE  OfJobs'
  <1>1. UNCHANGED msgs
    BY PressedApart
  <1>2. ASSUME NEW j, Goto(h, j), JobSays(j)'
        PROVE  OfJobs'
    BY <1>2, SaysNext
  <1>3. ASSUME NEW i \in DOMAIN msgs, NEW s \in Status, AskTap(h, i, s)
        PROVE  OfJobs'
    <2>0. PICK a, b : /\ a = Edit(i, "already", NoVisit)
                      /\ b = [step |-> "create", msg |-> i, key |-> msgs[i].key, status |-> s]
      OBVIOUS
    <2>1. JobSays(a)'
      BY <2>0, MuteJobs DEF Speech
    <2>2. b.step \notin {"pay", "edit"}
      BY <2>0
    <2>3. Goto(h, a) \/ Goto(h, b)
      BY <1>3, <2>0 DEF AskTap, Press
    <2>4. JobSays(b)'
      BY <2>2, MuteJobs
    <2>5. QED
      BY <1>2, <2>1, <2>3, <2>4
  <1>4. ASSUME NEW j, Goto(h, j), j.step \notin {"pay", "edit"}
        PROVE  OfJobs'
    BY <1>2, <1>4, MuteJobs
  <1>5. ASSUME NEW i \in DOMAIN msgs, ReasonTap(h, i)
        PROVE  OfJobs'
    <2>1. PICK j : Goto(h, j) /\ j.step \notin {"pay", "edit"}
      BY <1>5 DEF ReasonTap, Press
    <2>2. QED
      BY <1>4, <2>1
  <1>6. ASSUME NEW c \in Courses, NEW d \in Days, NEW s \in Status, AddTap(h, c, d, s)
        PROVE  OfJobs'
    <2>1. PICK j : Goto(h, j) /\ j.step \notin {"pay", "edit"}
      BY <1>6 DEF AddTap, Press
    <2>2. QED
      BY <1>4, <2>1
  <1>7. ASSUME NEW i \in DOMAIN msgs, NEW offer \in msgs[i].offers, PaidTap(h, i, offer)
        PROVE  OfJobs'
    <2> DEFINE j == [step |-> "pay", msg |-> i, offer |-> offer]
    <2>1. Goto(h, j)
      BY <1>7 DEF PaidTap, Press
    <2>2. j.step = "pay" /\ j.msg = i /\ j.offer \in msgs'[i].offers
      BY <1>1
    <2> HIDE DEF j
    <2>3. JobSays(j)'
      BY <2>2 DEF JobSays
    <2>4. QED
      BY <1>2, <2>1, <2>3
  <1>8. QED
    BY <1>3, <1>5, <1>6, <1>7 DEF Pressed

LEMMA WorkSays ==
    ASSUME Answers, OfJobs, OffersKept, NEW h \in Handlers, Work(h)
    PROVE  OfJobs'
  <1>1. ASSUME NEW j, Goto(h, j), JobSays(j)'
        PROVE  OfJobs'
    BY <1>1, SaysNext
  <1>2. CASE TapEdit(h) \/ TapFail(h) \/ PaidFail(h)
    BY <1>1, <1>2, MuteJobs DEF TapEdit, TapFail, PaidFail
  <1>3. CASE PaidWrite(h)
    <2>1. Goto(h, Edit(job[h].msg, "paid", NoVisit)) /\ Speech("paid", NoVisit)
      BY <1>3 DEF PaidWrite, Speech
    <2>2. JobSays(Edit(job[h].msg, "paid", NoVisit))'
      BY <2>1, MuteJobs, Zenon
    <2>3. PICK j : Goto(h, j) /\ JobSays(j)'
      <3>1. PICK j : j = Edit(job[h].msg, "paid", NoVisit)
        OBVIOUS
      <3>2. j.step = "edit" /\ j.text = "paid" /\ j.says = NoVisit
        BY <3>1 DEF Edit
      <3>3. JobSays(j)'
        BY <2>1, <3>2 DEF JobSays, Speech
      <3>4. QED
        BY <2>1, <3>1, <3>3
    <2>4. QED
      BY <1>1, <2>3
  <1>4. ASSUME NEW i, NEW text, NEW says, Goto(h, Edit(i, text, says)), Speech(text, says)
        PROVE  OfJobs'
    BY <1>1, <1>4, MuteJobs
  <1>5. CASE TapLook(h)
    <2>1. job[h].id \in Nat \ {0}
      BY <1>5 DEF TapLook, Working, Answers, JobOK
    <2>2. CASE Goto(h, Edit(job[h].msg, "gone", NoVisit))
      <3>1. Speech("gone", NoVisit)
        BY DEF Speech
      <3>2. PICK i : i = job[h].msg
        OBVIOUS
      <3>3. QED
        BY <1>4, <2>2, <3>1, <3>2
    <2>3. ASSUME NEW k \in Key, visit[k].id = job[h].id,
                 Goto(h, Edit(job[h].msg, "said", [key |-> k, status |-> visit[k].status]))
          PROVE  OfJobs'
      <3>1. PICK i, s : i = job[h].msg /\ s = [key |-> k, status |-> visit[k].status]
        OBVIOUS
      <3>2. visit[k].status \in Status
        BY <2>1, <2>3 DEF Answers, NoVisit
      <3>3. Speech("said", s)
        BY <3>1, <3>2 DEF Speech, Said
      <3>4. QED
        BY <1>4, <2>3, <3>1, <3>3
    <2>4. QED
      BY <1>5, <2>2, <2>3 DEF TapLook
  <1>6. CASE TapCreate(h)
    <2>1. PICK j : j = job[h]
      OBVIOUS
    <2>2. j.step = "create" /\ JobOK(j) /\ ids \in Nat
      BY <1>6, <2>1 DEF TapCreate, Working, Answers
    <2>3. j.key \in Key /\ j.status \in Status
      BY <2>2 DEF JobOK
    <2>4. PICK s, n : s = [key |-> j.key, status |-> j.status] /\ n = ids + 1
      OBVIOUS
    <2>5. Speech("said", s) /\ Speech("why", n) /\ Speech("already", NoVisit)
      BY <2>2, <2>3, <2>4 DEF Speech, Said
    <2>6. PICK look : look = [step |-> "look", msg |-> j.msg, id |-> n]
      OBVIOUS
    <2>7. JobSays(look)'
      <3>1. look.step = "look"
        BY <2>6
      <3>2. QED
        BY <3>1, MuteJobs
    <2>8. \/ Goto(h, Idle) \/ Goto(h, look)
          \/ \E i : \/ Goto(h, Edit(i, "said", s))
                    \/ Goto(h, Edit(i, "why", n))
                    \/ Goto(h, Edit(i, "already", NoVisit))
      BY <1>6, <2>1, <2>4, <2>6 DEF TapCreate
    <2>9. QED
      BY <1>1, <1>4, <2>5, <2>7, <2>8, MuteJobs
  <1>7. QED
    BY <1>2, <1>3, <1>5, <1>6 DEF Work

LEMMA StepOfJobs ==
    ASSUME Answers, OfJobs, OffersKept, Next
    PROVE  OfJobs'
  <1>1. CASE Scheduler \/ Entered
    BY <1>1, SchedulerApart, EnteredApart, SameSays
  <1>2. CASE Restart
    <2>1. \A h \in Handlers : job'[h].step = "idle"
      BY <1>2 DEF Restart, Idle
    <2>2. QED
      BY <2>1 DEF OfJobs, Paying
  <1>3. QED
    BY <1>1, <1>2, NextKinds, PressedSays, WorkSays

\* A payment that stands for one of before, or for none.
LEMMA OfPaysStand ==
    ASSUME Keeps, Answers, Payments, OfMsgs, OfPays, MsgsKept, NEW p,
           p.from.msg = 0 \/ \E q \in pays : p.from = q.from
    PROVE  p.from.msg # 0 =>
             Enough(msgs[p.from.msg].course, msgs[p.from.msg].day, p.from.through, 0)'
  <1> SUFFICES ASSUME p.from.msg # 0
               PROVE  Enough(msgs[p.from.msg].course, msgs[p.from.msg].day, p.from.through, 0)'
    OBVIOUS
  <1>1. PICK i, t : i = p.from.msg /\ t = p.from.through
    OBVIOUS
  <1>2. Warns(i) /\ Enough(msgs[i].course, msgs[i].day, t, 0)
    BY <1>1 DEF Payments, OfPays
  <1>3. PICK c, d : c = msgs[i].course /\ d = msgs[i].day
    OBVIOUS
  <1>4. c \in Courses /\ d \in Nat /\ d \in Counted(c)
    BY <1>2, <1>3, WarningIs
  <1>5. Enough(c, d, t, 0)'
    BY <1>2, <1>3, <1>4, EnoughStands DEF Keeps
  <1>6. msgs'[i].course = c /\ msgs'[i].day = d
    BY <1>2, <1>3 DEF MsgsKept, Warns
  <1>7. QED
    BY <1>1, <1>5, <1>6

\* The payment of a button is worth what its offer named.
LEMMA PaidOffer ==
    ASSUME Keeps, Answers, Payments, OfMsgs, OfJobs, OfPays, MsgsKept, NEW h \in Handlers, PaidWrite(h)
    PROVE  OfPays'
  <1>1. PICK i, o : i = job[h].msg /\ o = job[h].offer
    OBVIOUS
  <1>2. PICK c, d, n, t : c = msgs[i].course /\ d = msgs[i].day /\ n = o.lessons /\ t = o.through
    OBVIOUS
  <1>3. Paying(h)
    BY DEF PaidWrite, Working, Paying
  <1>4. /\ Warns(i) /\ i \in Nat \ {0} /\ n \in Nat /\ t \in Days /\ Enough(c, d, t, n)
    BY <1>1, <1>2, <1>3, OfferIs DEF Offer
  <1>5. c \in Courses /\ d \in Nat
    BY <1>2, <1>4, WarningIs
  <1>6. PICK e : e = [id |-> ids + 1, course |-> c, lessons |-> n, from |-> [msg |-> i, through |-> t]]
    OBVIOUS
  <1>7. pays' = pays \cup {e} /\ UNCHANGED <<visit, stray, msgs>>
    BY <1>1, <1>2, <1>6 DEF PaidWrite, CreatePayment, history
  <1>8. e.course = c /\ e.lessons = n /\ e.from.msg = i /\ e.from.through = t /\ e.id = ids + 1
    BY <1>6
  <1>9. e \notin pays
    BY <1>8 DEF Keeps, Receipts, Answers
  <1>10. Enough(c, d, t, 0)'
    <2>1. IsFiniteSet(pays) /\ \A p \in pays : p.lessons \in Nat
      BY DEF Keeps, Receipts, Receipt
    <2>2. PaidFor(c, pays') = PaidFor(c, pays) + Credit(c, e)
      BY <1>4, <1>7, <1>8, <1>9, <2>1, PaidMore
    <2>3. Credit(c, e) = n
      BY <1>8 DEF Credit
    <2>4. /\ PaidFor(c, pays) \in Int /\ Funds(c) \in Int /\ Opening[c] \in Int
      BY <1>5, FundsAre, LessonsAssumption DEF Keeps, LessonsAssumption
    <2>5. Funds(c)' = Funds(c) + n
      BY <1>4, <2>2, <2>3, <2>4 DEF Funds
    <2>6. PICK b : b = Busy(c, d, t)
      OBVIOUS
    <2>7. Busy(c, d, t)' = b
      BY <1>7, <2>6 DEF Busy
    <2>8. c \in stray \/ Cardinality(b) <= Funds(c) + n
      BY <1>4, <2>6 DEF Enough
    <2>9. c \in stray' \/ Cardinality(b) <= Funds(c)' + 0
      BY <1>4, <1>7, <2>4, <2>5, <2>8
    <2>10. QED
      BY <2>7, <2>9 DEF Enough
  <1>11. ASSUME NEW p \in pays', p.from.msg # 0
         PROVE  Enough(msgs[p.from.msg].course, msgs[p.from.msg].day, p.from.through, 0)'
    <2>1. CASE p = e
      BY <1>2, <1>7, <1>8, <1>10, <2>1
    <2>2. CASE p \in pays
      BY <1>11, <2>2, OfPaysStand
    <2>3. QED
      BY <1>7, <2>1, <2>2
  <1>12. QED
    BY <1>11 DEF OfPays

LEMMA StepOfPays ==
    ASSUME Keeps, Answers, Payments, OfMsgs, OfJobs, OfPays, MsgsKept, Next
    PROVE  OfPays'
  <1>1. ASSUME \A p \in pays' : p.from.msg = 0 \/ \E q \in pays : p.from = q.from
        PROVE  OfPays'
    BY <1>1, OfPaysStand DEF OfPays
  <1>2. CASE UNCHANGED pays
    BY <1>1, <1>2
  <1>3. CASE Scheduler \/ (\E h \in Handlers : Pressed(h)) \/ Restart
    BY <1>2, <1>3, SchedulerApart, PressedApart DEF Restart, tables
  <1>4. ASSUME NEW h \in Handlers, Work(h)
        PROVE  OfPays'
    BY <1>2, <1>4, PaidOffer DEF Work, TapCreate, TapLook, TapEdit, TapFail, PaidFail, tables
  <1>5. CASE Entered
    <2>1. ASSUME NEW c \in Courses, FormPay(c, 1)
          PROVE  OfPays'
      <3>1. PICK e : e = [id |-> ids + 1, course |-> c, lessons |-> 1, from |-> [msg |-> 0, through |-> 0]]
        OBVIOUS
      <3>2. pays' = pays \cup {e}
        BY <2>1, <3>1 DEF FormPay, CreatePayment
      <3>3. e.from.msg = 0
        BY <3>1
      <3>4. QED
        BY <1>1, <3>2, <3>3
    <2>2. ASSUME NEW p \in pays, FormDeletePay(p)
          PROVE  OfPays'
      BY <1>1, <2>2 DEF FormDeletePay
    <2>3. ASSUME NEW p \in pays, NEW c \in Courses, FormUpdatePay(p, c, 1)
          PROVE  OfPays'
      <3>1. PICK e : pays' = (pays \ {p}) \cup {e} /\ e = [p EXCEPT !.course = c, !.lessons = 1]
        BY <2>3 DEF FormUpdatePay
      <3>2. p \in Receipt
        BY DEF Keeps, Receipts
      <3>3. e.from = p.from
        BY <3>1, <3>2 DEF Receipt
      <3>4. QED
        BY <1>1, <3>1, <3>3
    <2>4. CASE \/ \E k \in Key, s \in Status : FormVisit(k, s)
               \/ \E k, to \in Key, s \in Status : FormUpdateVisit(k, to, s)
               \/ \E k \in Key : FormDeleteVisit(k)
      BY <1>2, <2>4 DEF FormVisit, FormUpdateVisit, FormDeleteVisit
    <2>5. QED
      BY <1>5, <2>1, <2>2, <2>3, <2>4 DEF Entered
  <1>6. QED
    BY <1>3, <1>4, <1>5, NextKinds

-----------------------------------------------------------------------------
(* What is named.                                                           *)

MapsNamed == said.reminded \subseteq Courses /\ said.warned \subseteq Courses
HistoryNamed == marked \subseteq Key /\ touched \subseteq Key /\ stray \subseteq Courses

LEMMA StepMapsNamed ==
    ASSUME Clock, MapsNamed, Next
    PROVE  MapsNamed'
  <1>1. CASE UNCHANGED said
    BY <1>1 DEF MapsNamed
  <1>2. CASE \/ WarnCheck \/ WarnSend \/ RemindCheck \/ RemindSend
    <2>1. tick # Idle /\ tick.left # <<>>
      BY <1>2 DEF WarnCheck, WarnSend, RemindCheck, RemindSend, AtSlot, Idle
    <2>2. PICK c : c = Course
      OBVIOUS
    <2>3. c \in Courses
      BY <2>1, <2>2, SlotAtHand
    <2>4. \/ said' = said
          \/ said' = [said EXCEPT !.warned = @ \cup {c}]
          \/ said' = [said EXCEPT !.reminded = @ \cup {c}]
      BY <1>2, <2>2 DEF WarnCheck, WarnSend, RemindCheck, RemindSend
    <2>5. QED
      BY <2>3, <2>4, SaidNoted DEF MapsNamed
  <1>3. CASE TickStart \/ TickFail \/ Restart
    BY <1>3 DEF TickStart, TickFail, Restart, MapsNamed, Fresh
  <1>4. CASE Minute \/ TickDone \/ TickError \/ WarnBalance
    BY <1>1, <1>4 DEF Minute, TickDone, TickError, WarnBalance
  <1>5. QED
    BY <1>1, <1>2, <1>3, <1>4, NextKinds, PressedApart, EnteredApart, WorkApart DEF Scheduler

LEMMA CreateNamed ==
    ASSUME HistoryNamed, NEW k \in Key, NEW s, CreateVisit(k, s), UNCHANGED touched
    PROVE  HistoryNamed'
  BY DEF CreateVisit, PutVisit, HistoryNamed, Key

LEMMA StepHistoryNamed ==
    ASSUME Answers, Receipts, HistoryNamed, Next
    PROVE  HistoryNamed'
  <1>1. CASE UNCHANGED <<marked, touched, stray>>
    BY <1>1 DEF HistoryNamed
  <1>2. CASE Scheduler \/ Restart
    BY <1>1, <1>2, SchedulerApart, SchedulerStray DEF Restart
  <1>3. ASSUME NEW h \in Handlers, Pressed(h)
        PROVE  HistoryNamed'
    BY <1>1, <1>3 DEF Pressed, AskTap, ReasonTap, PaidTap, AddTap, Press, history
  <1>4. ASSUME NEW h \in Handlers, Work(h)
        PROVE  HistoryNamed'
    <2>1. CASE TapCreate(h)
      <3>1. job[h].key \in Key
        BY <2>1 DEF TapCreate, Working, Answers, JobOK
      <3>2. CreateVisit(job[h].key, job[h].status) /\ UNCHANGED touched
        BY <2>1 DEF TapCreate
      <3>3. QED
        BY <3>1, <3>2, CreateNamed
    <2>2. QED
      BY <1>1, <1>4, <2>1 DEF Work, TapLook, TapEdit, TapFail, PaidWrite, PaidFail, history
  <1>5. CASE Entered
    <2>1. CASE \E k \in Key, s \in Status : FormVisit(k, s)
      BY <2>1, CreateNamed DEF FormVisit
    <2>2. ASSUME NEW k \in Key, NEW to \in Key, NEW s \in Status, FormUpdateVisit(k, to, s)
          PROVE  HistoryNamed'
      <3>1. /\ marked' = marked \cup {to} /\ touched' = touched \cup {k, to}
            /\ stray' = stray \/ stray' = stray \cup {to[1]}
        BY <2>2 DEF FormUpdateVisit
      <3>2. to[1] \in Courses
        BY DEF Key
      <3>3. QED
        BY <3>1, <3>2 DEF HistoryNamed
    <2>3. CASE \E k \in Key : FormDeleteVisit(k)
      BY <2>3 DEF FormDeleteVisit, HistoryNamed
    <2>4. CASE \E c \in Courses : FormPay(c, 1)
      BY <1>1, <2>4 DEF FormPay
    <2>5. CASE \E p \in pays : FormDeletePay(p) \/ \E c \in Courses : FormUpdatePay(p, c, 1)
      <3>1. \A p \in pays : p.course \in Courses
        BY DEF Receipts, Receipt
      <3>2. QED
        BY <2>5, <3>1 DEF FormDeletePay, FormUpdatePay, HistoryNamed
    <2>6. QED
      BY <1>5, <2>1, <2>2, <2>3, <2>4, <2>5 DEF Entered
  <1>6. QED
    BY <1>2, <1>3, <1>4, <1>5, NextKinds

LEMMA StepTaken ==
    ASSUME MsgsKept, taken \subseteq DOMAIN msgs, torn \subseteq DOMAIN msgs, Next
    PROVE  taken' \subseteq DOMAIN msgs' /\ torn' \subseteq DOMAIN msgs'
  <1>1. DOMAIN msgs \subseteq DOMAIN msgs'
    BY DEF MsgsKept
  <1>2. torn' \subseteq DOMAIN msgs
    <2>1. CASE Restart
      BY <2>1 DEF Restart
    <2>2. QED
      BY <2>1, NextKinds, SchedulerApart, PressedApart, EnteredApart, WorkApart
  <1>3. taken' \subseteq DOMAIN msgs
    <2>1. CASE Scheduler \/ Entered
      BY <2>1, SchedulerApart, EnteredApart
    <2>2. CASE Restart
      BY <2>2 DEF Restart
    <2>3. ASSUME NEW h, Work(h)
          PROVE  taken' \subseteq DOMAIN msgs
      BY <2>3 DEF Work, TapCreate, TapLook, TapEdit, TapFail, PaidWrite, PaidFail
    <2>4. ASSUME NEW h, Pressed(h)
          PROVE  taken' \subseteq DOMAIN msgs
      BY <2>4 DEF Pressed, AskTap, ReasonTap, PaidTap, AddTap
    <2>5. QED
      BY <2>1, <2>2, <2>3, <2>4, NextKinds
  <1>4. QED
    BY <1>1, <1>2, <1>3

LEMMA StepBounds ==
    ASSUME acts \in 0 .. MaxActs, stops \in 0 .. MaxStops, Next
    PROVE  acts' \in 0 .. MaxActs /\ stops' \in 0 .. MaxStops
  <1>1. MaxActs \in Nat /\ MaxStops \in Nat
    BY LessonsAssumption DEF LessonsAssumption
  <1>2. /\ acts' = acts \/ (acts < MaxActs /\ acts' = acts + 1)
        /\ stops' = stops \/ (stops < MaxStops /\ stops' = stops + 1)
    BY DEF Next
  <1>3. QED
    BY <1>1, <1>2

LEMMA InitPromises ==
    ASSUME Init
    PROVE  PromisesInv
  <1>1. Receipts
    BY FS_EmptySet DEF Init, Receipts
  <1>2. OfDay /\ AtOffer /\ OfJobs
    BY DEF Init, OfDay, AtOffer, OfJobs, Paying, Idle
  <1>3. OfMsgs /\ OfPays
    BY DEF Init, OfMsgs, OfPays
  <1>4. Named
    BY LessonsAssumption DEF Init, Named, Fresh, LessonsAssumption
  <1>5. QED
    BY <1>1, <1>2, <1>3, <1>4 DEF PromisesInv

LEMMA NextPromises ==
    ASSUME LessonsInv, PromisesInv, Next
    PROVE  PromisesInv'
  <1>1. Answers /\ Payments /\ Clock
    BY DEF LessonsInv
  <1>2. MsgsKept /\ ClockStep
    BY <1>1, StepAnswers, StepClock
  <1>3. Keeps
    BY <1>1, StepStands, StepReceipts DEF Keeps, PromisesInv
  <1>4. OfMsgs' /\ OffersKept
    BY <1>1, <1>2, <1>3, StepOfMsgs DEF PromisesInv
  <1>5. OfDay' /\ AtOffer'
    BY <1>1, <1>3, StepOfDay, StepAtOffer DEF PromisesInv
  <1>6. OfJobs' /\ OfPays'
    BY <1>1, <1>2, <1>3, <1>4, StepOfJobs, StepOfPays DEF PromisesInv
  <1>7. Named'
    <2>1. MapsNamed' /\ HistoryNamed'
      BY <1>1, StepMapsNamed, StepHistoryNamed DEF PromisesInv, Named, MapsNamed, HistoryNamed
    <2>2. /\ taken' \subseteq DOMAIN msgs' /\ torn' \subseteq DOMAIN msgs'
          /\ acts' \in 0 .. MaxActs /\ stops' \in 0 .. MaxStops
      BY <1>2, StepTaken, StepBounds DEF PromisesInv, Named
    <2>3. QED
      BY <2>1, <2>2 DEF Named, MapsNamed, HistoryNamed
  <1>8. QED
    BY <1>3, <1>4, <1>5, <1>6, <1>7 DEF PromisesInv, Keeps

LEMMA SamePromises ==
    ASSUME PromisesInv, UNCHANGED vars
    PROVE  PromisesInv'
  <1>1. UNCHANGED <<visit, pays, ids, msgs, now, due, tick, said, taken, job, acts, stops,
                    marked, touched, stray, torn>>
    BY DEF vars, tables, history
  <1>2. \A c, d, s : Offered(c, d, s) => Offered(c, d, s)'
    BY <1>1, SameOffered
  <1>3. Reached' = Reached /\ Course' = Course /\ Today' = Today
    BY <1>1 DEF Reached, Course, Today
  <1>4. Receipts' /\ OfDay' /\ OfJobs' /\ Named'
    BY <1>1, <1>3 DEF PromisesInv, Receipts, OfDay, OfJobs, Named, Paying
  <1>5. AtOffer'
    <2>1. PICK c, d, s : c = Course /\ d = Today /\ s = tick.offers
      OBVIOUS
    <2>2. c = Course' /\ d = Today' /\ s = tick'.offers
      BY <1>1, <1>3, <2>1
    <2>3. QED
      BY <1>1, <1>2, <2>1, <2>2 DEF PromisesInv, AtOffer
  <1>6. OfMsgs'
    <2>1. ASSUME NEW i \in DOMAIN msgs, msgs[i].kind = "warn"
          PROVE  Offered(msgs[i].course, msgs[i].day, msgs[i].offers)'
      <3>1. PICK c, d, s : c = msgs[i].course /\ d = msgs[i].day /\ s = msgs[i].offers
        OBVIOUS
      <3>2. Offered(c, d, s)'
        BY <1>2, <2>1, <3>1 DEF PromisesInv, OfMsgs
      <3>3. QED
        BY <1>1, <3>1, <3>2
    <2>2. QED
      BY <1>1, <1>3, <2>1 DEF PromisesInv, OfMsgs
  <1>7. OfPays'
    <2>1. \A c, d, t, n : Enough(c, d, t, n) => Enough(c, d, t, n)'
      BY <1>1 DEF Enough, Busy, Funds
    <2>2. ASSUME NEW p \in pays, p.from.msg # 0
          PROVE  Enough(msgs[p.from.msg].course, msgs[p.from.msg].day, p.from.through, 0)'
      <3>1. PICK c, d : c = msgs[p.from.msg].course /\ d = msgs[p.from.msg].day
        OBVIOUS
      <3>2. Enough(c, d, p.from.through, 0)'
        BY <2>1, <2>2, <3>1 DEF PromisesInv, OfPays
      <3>3. QED
        BY <1>1, <3>1, <3>2
    <2>3. QED
      BY <1>1, <2>2 DEF OfPays
  <1>8. QED
    BY <1>4, <1>5, <1>6, <1>7 DEF PromisesInv

-----------------------------------------------------------------------------
(* The theorems.                                                            *)

LEMMA InitInv ==
    ASSUME Init
    PROVE  LessonsInv
  <1>1. now \in Nat /\ now = FirstDay * DayLen /\ FirstDay \in Nat
    BY Settings, Minutes DEF Init, Days
  <1>2. Answers
    <2>1. msgs \in Seq(Own(msgs)) /\ DOMAIN msgs = {}
      BY DEF Init
    <2>2. visit \in [Key -> {NoVisit}] /\ \A k \in Key : ~Exists(k)
      BY DEF Init, Exists
    <2>3. DOMAIN job = Handlers /\ \A h \in Handlers : JobOK(job[h])
      BY DEF Init, JobOK, Idle
    <2> QED
      BY <2>1, <2>2, <2>3 DEF Init, Answers
  <1>3. Payments
    BY DEF Init, Payments, PaidOnce, Paying, Idle
  <1>4. Clock
    <2>1. tick = Idle /\ due = NoTick /\ Reached = Date(now) /\ Date(now) \in Nat
      BY <1>1, DayIs DEF Init, Reached
    <2> QED
      BY <1>1, <2>1 DEF Init, Clock, Fresh, NoTick
  <1>5. Spoken
    <2>1. DOMAIN msgs = {} /\ tick.step = "idle"
      BY DEF Init, Idle
    <2> QED
      BY <2>1 DEF Spoken, SpokenOnce
  <1>6. Asked
    <2>1. \A d \in FirstDay..LastDay : ~(Final(d) <= now)
      <3> SUFFICES ASSUME NEW d \in FirstDay..LastDay
                   PROVE  ~(Final(d) <= now)
        OBVIOUS
      <3>1. d \in Nat /\ FirstDay <= d
        BY <1>1, Settings
      <3>2. Final(d) \in Nat /\ d * DayLen + 1 <= Final(d)
        BY <3>1, FinalIs
      <3>3. FirstDay * DayLen <= d * DayLen /\ d * DayLen \in Nat
        <4>1. CASE FirstDay = d
          BY <1>1, <4>1
        <4>2. CASE FirstDay < d
          <5>1. (FirstDay + 1) * DayLen <= d * DayLen
            BY <1>1, <3>1, <4>2, DaysApart
          <5>2. (FirstDay + 1) * DayLen = FirstDay * DayLen + DayLen
            BY <1>1, Settings
          <5> QED
            BY <1>1, <3>1, <5>1, <5>2, Minutes, Settings
        <4> QED
          BY <1>1, <3>1, <4>1, <4>2
      <3> QED
        BY <1>1, <3>2, <3>3
    <2>2. said.reminded = {}
      BY DEF Init, Fresh
    <2> QED
      BY <2>1, <2>2 DEF Asked
  <1> QED
    BY <1>2, <1>3, <1>4, <1>5, <1>6 DEF LessonsInv

LEMMA SameInv ==
    ASSUME LessonsInv, UNCHANGED vars
    PROVE  LessonsInv'
  <1>1. UNCHANGED <<visit, pays, ids, msgs, now, due, tick, said, taken, job, marked, touched,
                    troubled, torn>>
    BY DEF vars, tables, history
  <1>2. ids \in Nat /\ VisitsOK
    BY DEF LessonsInv, Answers, VisitsOK
  <1>3. VisitsOK' /\ VisitsKept
    BY <1>1, <1>2, SameVisits DEF VisitsStep
  <1>4. MsgsStep /\ MsgsKept
    BY <1>1, <1>3, SameMsgs DEF MsgsStep, LessonsInv
  <1>5. JobsStep
    BY <1>1, <1>3, <1>4, SameJobs DEF LessonsInv
  <1>6. Answers'
    BY <1>3, <1>4, <1>5 DEF Answers, VisitsOK, MsgsStep, JobsStep
  <1>7. Payments'
    BY <1>1, <1>4, NothingPaid DEF LessonsInv, Paying
  <1>8. ClockStep
    BY <1>1, SameClock DEF LessonsInv
  <1>9. Spoken'
    <2>1. (\A i \in DOMAIN msgs : KnownMsg(msgs[i]))'
      BY <1>1, <1>4, <1>8, KnownMsgs DEF LessonsInv
    <2>2. SpokenOnce'
      BY <1>1, <1>4, SameOnce DEF LessonsInv, Spoken
    <2>3. (tick.step \in {"balance", "offer"} => Course \notin said.warned)'
          /\ (tick.step = "ask" => Course \notin said.reminded)'
      BY <1>1 DEF LessonsInv, Spoken, Course
    <2> QED
      BY <2>1, <2>2, <2>3 DEF Spoken
  <1>10. Asked'
    <2>1. MapAsked /\ \A d \in FirstDay..LastDay : Final(d) <= now => DayAsked(d)
      BY DEF LessonsInv, Asked, MapAsked, DayAsked
    <2>2. MapAsked'
      BY <1>1, <1>3, <1>4, <2>1, SameAsked
    <2>3. \A d \in FirstDay..LastDay : d \in Days
      BY Settings DEF Days
    <2>4. (\A d \in FirstDay..LastDay : Final(d) <= now => DayAsked(d))'
      BY <1>1, <1>3, <1>4, <2>1, <2>3, DayStays
    <2> QED
      BY <2>2, <2>4 DEF Asked, MapAsked, DayAsked
  <1> QED
    BY <1>6, <1>7, <1>8, <1>9, <1>10 DEF LessonsInv, ClockStep

LEMMA NextInv ==
    ASSUME LessonsInv, [Next]_vars
    PROVE  LessonsInv'
  <1>1. CASE Next
    <2>1. Answers' /\ VisitsKept /\ MsgsKept
      BY <1>1, StepAnswers DEF LessonsInv
    <2>2. ClockStep /\ Clock'
      BY <1>1, StepClock DEF LessonsInv, ClockStep
    <2> QED
      BY <1>1, <2>1, <2>2, StepPayments, StepSpoken, StepAsked DEF LessonsInv
  <1> QED
    BY <1>1, SameInv

\* The inductive invariant holds of every run: what messages, handlers, payments,
\* the ticker's pass and its maps say of each other.
THEOREM LessonsInvariant == Spec => []LessonsInv
  BY InitInv, NextInv, PTL DEF Spec

\* What an answered question says is what the visit is, over double taps and two
\* questions of one lesson (onReminderTap, CreateVisit, finishVisit).
THEOREM AnswersAreRecords == Spec => []AnswerIsRecord
  <1>1. LessonsInv => AnswerIsRecord
    BY DEF LessonsInv, Answers, MsgOK, Answer, Told, AnswerIsRecord
  <1> QED
    BY <1>1, LessonsInvariant, PTL

\* A warning's buttons record one payment, over double taps, failures and retries,
\* unless the process ended between the payment and the edit (paidTaps).
THEOREM PaymentsAreOnce == Spec => []PaidOnce
  <1>1. LessonsInv => PaidOnce
    BY DEF LessonsInv, Payments
  <1> QED
    BY <1>1, LessonsInvariant, PTL

\* The bot asks about a lesson once and warns of it once on a day without failed
\* calls, lost ticks and restarts (the reminded and warned maps of RunScheduler).
THEOREM BotSpeaksOnce == Spec => []SpokenOnce
  <1>1. LessonsInv => SpokenOnce
    BY DEF LessonsInv, Spoken
  <1> QED
    BY <1>1, LessonsInvariant, PTL

\* Every lesson of a day that went by without errors, lost ticks and restarts was
\* asked about or marked, however late it began and however long the delay (slotDue).
THEOREM EveryLessonIsAsked == Spec => []AskedOrMarked
  <1>1. ASSUME LessonsInv
        PROVE  AskedOrMarked
    <2> SUFFICES ASSUME NEW c \in Courses, NEW d \in FirstDay..LastDay, d < said.date,
                        d \notin troubled, HasLesson(c, d)
                 PROVE  Handled(c, d)
      BY DEF AskedOrMarked, Handled
    <2>1. d \in Days /\ d \in Nat
      BY Settings DEF Days
    <2>2. /\ Clock /\ now \in Nat /\ Reached \in Nat /\ Date(now) \in Nat
          /\ said.date \in Int /\ said.date <= Reached /\ Reached <= Date(now)
      BY <1>1, ReachedIs DEF LessonsInv, Clock, NoTick
    <2>3. d < Reached /\ d < Date(now)
      BY <2>1, <2>2
    <2>4. Final(d) \in Nat /\ Final(d) <= now /\ Date(Final(d)) = d
      BY <2>1, <2>2, <2>3, DayIsOver, LastMinutes DEF Final
    <2>5. due # Final(d)
      BY <2>2, <2>3, <2>4, ReachedIs DEF NoTick
    <2>6. ~(tick # Idle /\ tick.at = Final(d))
      BY <2>2, <2>3, <2>4, ReachedIs DEF Today
    <2>7. PICK n \in 0 .. SlotsOf(d) : Covered(d, n)
      BY <1>1, <2>4, <2>5 DEF LessonsInv, Asked, SlotsOf
    <2>8. n = SlotsOf(d)
      BY <2>6, <2>7 DEF Covered, SlotsOf
    <2>9. PICK i \in DOMAIN Timetable[d] : Timetable[d][i][2] = c
      BY DEF HasLesson
    <2>10. i \in 1 .. SlotsOf(d)
      BY <2>1, <2>9, Lengths, LenProperties DEF SlotsOf
    <2> QED
      BY <2>7, <2>8, <2>9, <2>10 DEF Covered
  <1> QED
    BY <1>1, LessonsInvariant, PTL

\* The second invariant holds of every run: each offer of a warning pays for all the
\* lessons up to the date it names, and who took one has them paid (topUpOptions).
THEOREM PromisesInvariant == Spec => []PromisesInv
  <1>1. PromisesInv /\ LessonsInv /\ [Next]_vars => PromisesInv'
    BY NextPromises, SamePromises
  <1>2. QED
    BY <1>1, InitPromises, LessonsInvariant, PTL DEF Spec

\* The type invariant holds of every run.
THEOREM LessonsTyped == Spec => []TypeOK
  <1>1. ASSUME LessonsInv, PromisesInv
        PROVE  TypeOK
    <2>1. Answers /\ Clock
      BY <1>1 DEF LessonsInv
    <2>2. /\ visit \in [Key -> {NoVisit} \cup [id: Nat \ {0}, status: Status]] /\ ids \in Nat
          /\ \A h \in Handlers : job[h].step \in {"idle", "create", "look", "edit", "pay"}
      BY <2>1 DEF Answers, JobOK
    <2>3. \A p \in pays : p.id \in 1..ids /\ p.course \in Courses /\ p.lessons \in Nat
      BY <1>1 DEF PromisesInv, Receipts, Receipt
    <2>4. \A i \in DOMAIN msgs : msgs[i] \in Msg
      BY <1>1 DEF PromisesInv, OfMsgs
    <2>5. /\ now \in Nat /\ due \in {NoTick} \cup 0..now
          /\ tick = Idle \/ (tick.step \in {"warn", "balance", "offer", "remind", "ask"} /\ tick.at \in 0..now)
      BY <2>1 DEF Clock, Pass
    <2>6. said.date \in {NoTick} \cup 0..Date(now)
      <3>1. /\ said.date = NoTick \/ said.date \in Nat
            /\ said.date <= Reached /\ Reached \in Nat /\ Reached <= Date(now) /\ Date(now) \in Nat
        BY <2>1, ReachedIs DEF Clock
      <3>2. QED
        BY <3>1
    <2>7. QED
      BY <1>1, <2>2, <2>3, <2>4, <2>5, <2>6 DEF TypeOK, PromisesInv, Named
  <1>2. QED
    BY <1>1, LessonsInvariant, PromisesInvariant, PTL

\* Who pays what a warning asks for is not asked again for the days it pays for,
\* however late the lessons are marked and whatever was owed (topUpOptions, BalanceFor).
THEOREM PaidAheadIsQuiet == Spec => PaidThroughIsQuiet
  <1> DEFINE Quiet ==
        \/ Course \in stray
        \/ \E k \in Key : k[1] = Course /\ k[2] >= Today /\ visit[k].status = "done"
        \/ \A p \in pays :
              p.from.msg # 0 /\ msgs[p.from.msg].course = Course => p.from.through < Today
  <1>1. ASSUME LessonsInv, PromisesInv, Next, tick.step = "balance", tick'.step = "offer"
        PROVE  Quiet
    <2>1. Answers /\ Payments /\ Clock /\ Receipts /\ OfDay /\ OfMsgs /\ OfPays
      BY <1>1 DEF LessonsInv, PromisesInv
    <2>2. WarnBalance
      <3>1. tick' # tick /\ tick' # Idle /\ ~TickStart
        BY <1>1 DEF TickStart, Idle
      <3>2. PassStep
        BY <1>1, <2>1, <3>1, PassGoes
      <3>3. QED
        BY <1>1, <2>1, <3>2, OfferFrom
    <2>3. PICK c, d : c = Course /\ d = Today
      OBVIOUS
    <2>4. /\ tick # Idle /\ tick.left # <<>> /\ Balance(c) <= 0
      BY <1>1, <2>1, <2>2, <2>3, DrawnOffer
    <2>5. c \in Courses /\ d \in Days /\ d \in Nat /\ HasLesson(c, d) /\ Reached = d
      BY <2>1, <2>3, <2>4, SlotAtHand, LessonAtHand, ReachedIs
    <2> SUFFICES ASSUME c \notin stray,
                        ~ \E k \in Key : k[1] = c /\ k[2] >= d /\ visit[k].status = "done",
                        NEW p \in pays, p.from.msg # 0, msgs[p.from.msg].course = c,
                        ~(p.from.through < d)
                 PROVE  FALSE
      BY <2>3
    <2>6. PICK from, t : from = msgs[p.from.msg].day /\ t = p.from.through
      OBVIOUS
    <2>7. Warns(p.from.msg) /\ Enough(c, from, t, 0)
      BY <2>1, <2>6 DEF Payments, OfPays
    <2>8. from \in Nat /\ from <= d
      BY <2>1, <2>5, <2>6, <2>7, WarningIs
    <2>9. t \in Nat /\ d <= t
      <3>1. t \in Days
        BY <2>1, <2>6 DEF Receipts, Receipt
      <3>2. QED
        BY <2>5, <2>6, <3>1, DaysAreFinite
    <2>10. \A e \in DoneDays(c) : e \in Nat /\ e < d
      <3> SUFFICES ASSUME NEW e \in DoneDays(c) PROVE e \in Nat /\ e < d
        OBVIOUS
      <3>1. e \in Days /\ e \in Nat /\ visit[<<c, e>>].status = "done"
        BY DaysAreFinite DEF DoneDays
      <3>2. <<c, e>> \in Key /\ <<c, e>>[1] = c /\ <<c, e>>[2] = e
        BY <2>5, <3>1 DEF Key
      <3>3. ~(e >= d)
        BY <3>1, <3>2
      <3>4. QED
        BY <2>5, <3>1, <3>3
    <2>11. DoneDays(c) \cup {d} \subseteq Busy(c, from, t)
      <3>1. \A e \in DoneDays(c) : e \in Busy(c, from, t)
        <4> SUFFICES ASSUME NEW e \in DoneDays(c) PROVE e \in Busy(c, from, t)
          OBVIOUS
        <4>1. e <= t
          BY <2>5, <2>9, <2>10
        <4>2. QED
          BY <4>1 DEF DoneDays, Busy
      <3>2. d \in Busy(c, from, t)
        BY <2>5, <2>8, <2>9 DEF Busy
      <3>3. QED
        BY <3>1, <3>2
    <2>12. DoneDays(c) \in SUBSET Days /\ d \notin DoneDays(c)
      BY <2>5, <2>10 DEF DoneDays
    <2>13. Cardinality(DoneDays(c)) \in Nat /\ Cardinality(DoneDays(c) \cup {d}) = Cardinality(DoneDays(c)) + 1
      BY <2>12, DaysAreFinite, FS_AddElement
    <2>14. /\ Cardinality(Busy(c, from, t)) \in Nat
           /\ Cardinality(DoneDays(c) \cup {d}) <= Cardinality(Busy(c, from, t))
      <3>1. DoneDays(c) \cup {d} \in SUBSET Days /\ Busy(c, from, t) \in SUBSET Days
        BY <2>5, <2>12, BusyIs
      <3>2. QED
        BY <2>11, <3>1, DaysAreFinite
    <2>15. Cardinality(Busy(c, from, t)) <= Funds(c) + 0
      BY <2>7 DEF Enough
    <2>16. Balance(c) = Funds(c) - Cardinality(DoneDays(c)) /\ Funds(c) \in Int
      BY <2>1, <2>5, FundsAre, BalanceIs
    <2>17. QED
      BY <2>4, <2>13, <2>14, <2>15, <2>16
  <1>2. LessonsInv /\ PromisesInv /\ [Next]_vars => [tick.step = "balance" /\ tick'.step = "offer" => Quiet]_vars
    BY <1>1
  <1>3. PaidThroughIsQuiet <=> [][tick.step = "balance" /\ tick'.step = "offer" => Quiet]_vars
    BY DEF PaidThroughIsQuiet
  <1> HIDE DEF Quiet
  <1>4. QED
    BY <1>2, <1>3, LessonsInvariant, PromisesInvariant, PTL DEF Spec

=============================================================================
