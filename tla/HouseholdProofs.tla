--------------------------- MODULE HouseholdProofs ---------------------------
(***************************************************************************)
(* The visits and the meters, as the handlers leave them, and the house they *)
(* make with the timetable and the payments of CoursesProofs.                *)
(***************************************************************************)
EXTENDS Household, CoursesProofs

-----------------------------------------------------------------------------
(* The inductive invariant.                                                 *)

CardRecord == [key : Nat, items : Seq(Item), update : Nat, boot : Nat, used : BOOLEAN]

\* What is kept behind a key: an update is of the one visit of the text.
Entry(e, batch) ==
    /\ e.items \in Seq(Item)
    /\ e.update \in {0} \cup batch
    /\ e.update # 0 => Len(e.items) = 1

Question(q, batch) ==
    \/ q = NoQuestion
    \/ q.kind = "meal"
    \/ q.kind = "edit" /\ q.id \in batch /\ q.field \in {"time", "title", "who"}

Holds(h, id) == ~Idle(h) /\ id \in clerk[h].ids

\* What a handler has read of one visit, or says of some.
HandlerOK(job, batch) ==
    \/ job.step = "free"
    \/ /\ job.step \in {"update", "status", "when"}
       /\ \E id \in batch : job.ids = {id}
       /\ job.step = "update" => job.appt \in Item /\ job.was \in ApptStatus
       /\ job.step = "status" => job.status \in ApptStatus /\ job.status # job.was.status
       /\ job.step = "when" => job.user \in Users
    \/ job.step = "tell" /\ job.ids \subseteq batch

\* A pass holds visits in an order, each once.
PassOK ==
    \/ sweep.step = "free"
    \/ /\ sweep.step \in {"post", "store"}
       /\ sweep = [step |-> sweep.step, left |-> sweep.left]
       /\ sweep.left \in Seq(Ids) /\ sweep.left # <<>>
       /\ \A m, n \in DOMAIN sweep.left : sweep.left[m] = sweep.left[n] => m = n

Shape ==
    /\ rows \in Seq(Visits)
    /\ moment \in 0..LastMoment
    /\ boot \in Nat
    /\ cards \in Seq(CardRecord)
    /\ \A k \in DOMAIN pending : Entry(pending[k], Ids)
    /\ DOMAIN awaiting = Users /\ DOMAIN asked = Users
    /\ \A u \in Users : Question(awaiting[u].q, Ids)
    /\ listed \subseteq Ids \X Chats
    /\ asks \in Seq(Ids)
    /\ PassOK
    /\ DOMAIN clerk = Clerks
    /\ \A h \in Clerks : HandlerOK(clerk[h], Ids)
    /\ torn \subseteq DOMAIN asks
    /\ DOMAIN told \subseteq Ids

\* The keys of the present process are numbered as its cards are.
OfBoot(b) == {i \in DOMAIN cards : cards[i].boot = b}

Keys ==
    /\ \A c \in DOMAIN cards : cards[c].boot <= boot
    /\ \A c \in OfBoot(boot) : cards[c].key <= Cardinality(OfBoot(boot))
    /\ PendingIsTheCard

\* A visit a pass has left was asked about by no question that counts; the one
\* whose question is posted is the first of them.
Questions ==
    /\ \A m \in DOMAIN asks \ torn :
          rows[asks[m]].prompt = m \/ (sweep.step = "store" /\ m = Len(asks))
    /\ sweep.step # "free" => \A i \in DOMAIN sweep.left : rows[sweep.left[i]].prompt = NoMsg
    /\ sweep.step = "store" =>
          asks # <<>> /\ asks[Len(asks)] = Head(sweep.left) /\ Len(asks) \notin torn

\* The group knows visit id as it is.
ToldRight(id) ==
    /\ id \in DOMAIN told
    /\ told[id].line = Line(rows[id])
    /\ rows[id].status = "cancelled" => told[id].off \/ told[id].unsaid

\* What a handler has read of a visit still holds, and what it is about to say
\* of it is how the visit is.
JobRight(job, id) ==
    \/ rows[id].deleted
    \/ /\ job.step \in {"update", "status", "when"} => ToldRight(id)
       /\ job.step = "update" => job.was = rows[id].status
       /\ job.step = "status" => Line(job.was) = Line(rows[id]) /\ job.was.status = rows[id].status
       /\ job.step = "tell" =>
             /\ job.lines[id] = Line(rows[id])
             /\ rows[id].status = "cancelled" =>
                   \/ job.verb \in {"cancelled", "deleted", "added"}
                   \/ /\ job.verb = "changed" /\ id \in DOMAIN told
                      /\ told[id].off \/ told[id].unsaid

Messages ==
    \A id \in Ids \ muddled :
        /\ \A h, k \in Clerks : Holds(h, id) /\ Holds(k, id) => h = k
        /\ \A h \in Clerks : Holds(h, id) => JobRight(clerk[h], id)
        /\ (\E h \in Clerks : Holds(h, id)) \/ rows[id].deleted \/ ToldRight(id)

AppointmentsInv == Shape /\ Keys /\ Questions /\ AnswersTheLastQuestion /\ Messages

-----------------------------------------------------------------------------
(* The table.                                                               *)

\* Nothing of what the group is told of visit o changes.
RowSame(o) ==
    /\ Line(rows'[o]) = Line(rows[o])
    /\ rows'[o].status = rows[o].status
    /\ rows'[o].deleted = rows[o].deleted

\* One row is written: the others stand, and of this one the cost question and
\* the deletion.
Rewrites(id) ==
    /\ rows' \in Seq(Visits)
    /\ Ids' = Ids
    /\ \A o \in Ids \ {id} : rows'[o] = rows[o]
    /\ rows'[id].prompt = rows[id].prompt
    /\ rows[id].deleted => rows'[id].deleted

\* Rows are added: those there were stand.
AddsRows(n) ==
    /\ rows' \in Seq(Visits)
    /\ Ids' = 1 .. Len(rows) + n
    /\ \A o \in Ids : rows'[o] = rows[o]

LEMMA IdsAre == ASSUME rows \in Seq(Visits) PROVE Len(rows) \in Nat /\ Ids = 1 .. Len(rows)
  BY LenProperties DEF Ids

LEMMA RowType == ASSUME rows \in Seq(Visits), NEW id \in Ids PROVE rows[id] \in Visits
  BY IdsAre, ElementOfSeq

LEMMA RowSet ==
    ASSUME rows \in Seq(Visits), NEW id \in Ids, NEW row \in Visits,
           rows' = [rows EXCEPT ![id] = row]
    PROVE  /\ rows' \in Seq(Visits) /\ Ids' = Ids
           /\ \A o \in Ids : rows'[o] = IF o = id THEN row ELSE rows[o]
  <1>1. id \in 1 .. Len(rows)
    BY IdsAre
  <1>2. /\ rows' \in Seq(Visits) /\ Len(rows') = Len(rows)
        /\ \A o \in 1 .. Len(rows) : rows'[o] = IF o = id THEN row ELSE rows[o]
    BY <1>1, ExceptSeq
  <1> QED
    BY <1>2, IdsAre, LenProperties DEF Ids

LEMMA StatusIsSet ==
    ASSUME rows \in Seq(Visits), NEW id \in Ids, NEW s \in ApptStatus, SetAppointmentStatus(id, s)
    PROVE  /\ Rewrites(id)
           /\ Line(rows'[id]) = Line(rows[id]) /\ rows'[id].status = s
  <1> DEFINE row == [rows[id] EXCEPT !.status = s]
  <1>1. rows[id] \in Visits
    BY RowType
  <1>2. /\ row \in Visits /\ Line(row) = Line(rows[id]) /\ row.status = s
        /\ row.prompt = rows[id].prompt /\ row.deleted = rows[id].deleted
    BY <1>1 DEF Visits, Line
  <1>3. rows' = [rows EXCEPT ![id] = row]
    BY DEF SetAppointmentStatus
  <1> HIDE DEF row
  <1>s. /\ rows' \in Seq(Visits) /\ Ids' = Ids
        /\ \A o \in Ids : rows'[o] = IF o = id THEN row ELSE rows[o]
    BY <1>2, <1>3, RowSet, Zenon
  <1> QED
    BY <1>2, <1>s DEF Rewrites

LEMMA CostIsSet ==
    ASSUME rows \in Seq(Visits), NEW id \in Ids, NEW c \in Nat, SetAppointmentCost(id, c)
    PROVE  Rewrites(id) /\ RowSame(id)
  <1> DEFINE row == [rows[id] EXCEPT !.cost = c]
  <1>1. rows[id] \in Visits
    BY RowType
  <1>2. /\ row \in Visits /\ Line(row) = Line(rows[id]) /\ row.status = rows[id].status
        /\ row.prompt = rows[id].prompt /\ row.deleted = rows[id].deleted
    BY <1>1 DEF Visits, Line
  <1>3. rows' = [rows EXCEPT ![id] = row]
    BY DEF SetAppointmentCost
  <1> HIDE DEF row
  <1>s. /\ rows' \in Seq(Visits) /\ Ids' = Ids
        /\ \A o \in Ids : rows'[o] = IF o = id THEN row ELSE rows[o]
    BY <1>2, <1>3, RowSet, Zenon
  <1> QED
    BY <1>2, <1>s DEF Rewrites, RowSame

LEMMA RowIsDeleted ==
    ASSUME rows \in Seq(Visits), NEW id \in Ids, SoftDeleteAppointment(id)
    PROVE  Rewrites(id) /\ rows'[id].deleted
  <1> DEFINE row == [rows[id] EXCEPT !.deleted = TRUE]
  <1>1. rows[id] \in Visits
    BY RowType
  <1>2. row \in Visits /\ row.prompt = rows[id].prompt /\ row.deleted
    BY <1>1 DEF Visits
  <1>3. rows' = [rows EXCEPT ![id] = row]
    BY DEF SoftDeleteAppointment
  <1> HIDE DEF row
  <1>s. /\ rows' \in Seq(Visits) /\ Ids' = Ids
        /\ \A o \in Ids : rows'[o] = IF o = id THEN row ELSE rows[o]
    BY <1>2, <1>3, RowSet, Zenon
  <1> QED
    BY <1>2, <1>s DEF Rewrites

\* What an edit of one field writes.
Edits(id) ==
    \/ \E t \in Nat : RescheduleAppointment(id, t)
    \/ \E t \in Titles : UpdateAppointmentTitle(id, t)
    \/ \E v \in Users : UpdateAppointmentPerson(id, v)
    \/ \E t \in Titles, v \in {"", Self} \cup Users : UpdateAppointmentDetails(id, t, v)

LEMMA RowIsEdited ==
    ASSUME rows \in Seq(Visits), NEW id \in Ids, Edits(id)
    PROVE  Rewrites(id) /\ rows'[id].status = rows[id].status /\ rows'[id].deleted = rows[id].deleted
  <1> DEFINE Fits(row) ==
               /\ row \in Visits /\ row.status = rows[id].status
               /\ row.prompt = rows[id].prompt /\ row.deleted = rows[id].deleted
  <1>1. rows[id] \in Visits
    BY RowType
  <1>2. ASSUME NEW row, Fits(row), rows' = [rows EXCEPT ![id] = row]
        PROVE  Rewrites(id) /\ rows'[id].status = rows[id].status /\ rows'[id].deleted = rows[id].deleted
    <2>1. row \in Visits
      BY <1>2
    <2>2. /\ rows' \in Seq(Visits) /\ Ids' = Ids
          /\ \A o \in Ids : rows'[o] = IF o = id THEN row ELSE rows[o]
      BY <1>2, <2>1, RowSet, Zenon
    <2> QED
      BY <1>2, <2>2 DEF Rewrites
  <1>3. \E row : Fits(row) /\ rows' = [rows EXCEPT ![id] = row]
    <2>1. CASE \E t \in Nat : RescheduleAppointment(id, t)
      <3>1. PICK t \in Nat : RescheduleAppointment(id, t)
        BY <2>1
      <3> DEFINE row == [rows[id] EXCEPT !.starts = t]
      <3>2. Fits(row)
        BY <1>1 DEF Visits
      <3>3. rows' = [rows EXCEPT ![id] = row]
        BY <3>1 DEF RescheduleAppointment
      <3> HIDE DEF row, Fits
      <3> QED
        BY <3>2, <3>3
    <2>2. CASE \E t \in Titles : UpdateAppointmentTitle(id, t)
      <3>1. PICK t \in Titles : UpdateAppointmentTitle(id, t)
        BY <2>2
      <3> DEFINE row == [rows[id] EXCEPT !.title = t]
      <3>2. Fits(row)
        BY <1>1 DEF Visits
      <3>3. rows' = [rows EXCEPT ![id] = row]
        BY <3>1 DEF UpdateAppointmentTitle
      <3> HIDE DEF row, Fits
      <3> QED
        BY <3>2, <3>3
    <2>3. CASE \E v \in Users : UpdateAppointmentPerson(id, v)
      <3>1. PICK v \in Users : UpdateAppointmentPerson(id, v)
        BY <2>3
      <3> DEFINE row == [rows[id] EXCEPT !.person = v]
      <3>2. Fits(row)
        BY <1>1 DEF Visits
      <3>3. rows' = [rows EXCEPT ![id] = row]
        BY <3>1 DEF UpdateAppointmentPerson
      <3> HIDE DEF row, Fits
      <3> QED
        BY <3>2, <3>3
    <2>4. CASE \E t \in Titles, v \in {"", Self} \cup Users : UpdateAppointmentDetails(id, t, v)
      <3>1. PICK t \in Titles, v \in {"", Self} \cup Users : UpdateAppointmentDetails(id, t, v)
        BY <2>4
      <3> DEFINE row == [[rows[id] EXCEPT !.title = t] EXCEPT !.person = v]
      <3>2. Fits(row)
        BY <1>1 DEF Visits
      <3>3. rows' = [rows EXCEPT ![id] = row]
        BY <1>1, <3>1 DEF UpdateAppointmentDetails
      <3> HIDE DEF row, Fits
      <3> QED
        BY <3>2, <3>3
    <2> QED
      BY <2>1, <2>2, <2>3, <2>4 DEF Edits
  <1> HIDE DEF Fits
  <1> QED
    BY <1>2, <1>3

\* A row made of a visit has its type.
LEMMA RowIsTyped ==
    ASSUME NEW a \in Item
    PROVE  /\ Row(a) \in Visits
           /\ Row(a).status = a.status /\ Row(a).prompt = NoMsg /\ Row(a).deleted = FALSE
           /\ Line(Row(a)) = Line(a)
  BY DEF Row, Item, Visits, NoMsg, Line

LEMMA RowIsUpdated ==
    ASSUME rows \in Seq(Visits), NEW id \in Ids, NEW a \in Item, UpdateAppointment(id, a)
    PROVE  Rewrites(id) /\ rows'[id].status = a.status /\ rows'[id].deleted = rows[id].deleted
  <1> DEFINE row == [Row(a) EXCEPT !.prompt = rows[id].prompt, !.deleted = rows[id].deleted]
  <1>1. rows[id] \in Visits
    BY RowType
  <1>2. rows[id].prompt \in Nat /\ rows[id].deleted \in BOOLEAN
    BY <1>1, Zenon DEF Visits
  <1>3. /\ row \in Visits /\ row.status = a.status
        /\ row.prompt = rows[id].prompt /\ row.deleted = rows[id].deleted
    BY <1>2, RowIsTyped DEF Visits, Row
  <1>4. rows' = [rows EXCEPT ![id] = row]
    BY DEF UpdateAppointment
  <1> HIDE DEF row
  <1>s. /\ rows' \in Seq(Visits) /\ Ids' = Ids
        /\ \A o \in Ids : rows'[o] = IF o = id THEN row ELSE rows[o]
    BY <1>3, <1>4, RowSet, Zenon
  <1> QED
    BY <1>3, <1>s DEF Rewrites

LEMMA RowIsAdded ==
    ASSUME rows \in Seq(Visits), NEW a \in Item, CreateAppointment(a)
    PROVE  AddsRows(1)
  <1> DEFINE row == Row(a)
  <1>1. row \in Visits /\ rows' = Append(rows, row)
    BY RowIsTyped DEF CreateAppointment
  <1> HIDE DEF row
  <1>2. /\ rows' \in Seq(Visits) /\ Len(rows') = Len(rows) + 1
        /\ \A o \in 1 .. Len(rows) : rows'[o] = rows[o]
    BY <1>1, AppendProperties
  <1> QED
    BY <1>2, IdsAre, LenProperties DEF AddsRows, Ids

LEMMA RowsAreAdded ==
    ASSUME rows \in Seq(Visits), NEW items \in Seq(Item), CreateAppointments(items)
    PROVE  AddsRows(Len(items))
  <1> DEFINE added == [i \in DOMAIN items |-> Row(items[i])]
  <1>1. Len(items) \in Nat /\ DOMAIN items = 1 .. Len(items)
    BY LenProperties
  <1>2. \A i \in DOMAIN items : Row(items[i]) \in Visits
    BY <1>1, ElementOfSeq, RowIsTyped
  <1>3. added \in [1 .. Len(items) -> Visits]
    BY <1>1, <1>2
  <1>4. added \in Seq(Visits) /\ Len(added) = Len(items)
    BY <1>1, <1>3, SeqDef, LenProperties
  <1>5. rows' = rows \o added
    BY DEF CreateAppointments
  <1> HIDE DEF added
  <1>a. /\ rows \o added \in Seq(Visits) /\ Len(rows \o added) = Len(rows) + Len(added)
        /\ \A i \in 1 .. Len(rows) + Len(added) : (rows \o added)[i] =
               IF i <= Len(rows) THEN rows[i] ELSE added[i - Len(rows)]
    BY <1>4, ConcatProperties, Zenon
  <1>6. /\ rows' \in Seq(Visits) /\ Len(rows') = Len(rows) + Len(items)
        /\ \A o \in 1 .. Len(rows) + Len(items) : rows'[o] = IF o <= Len(rows) THEN rows[o] ELSE added[o - Len(rows)]
    BY <1>4, <1>5, <1>a
  <1>7. Len(rows) \in Nat /\ Ids = 1 .. Len(rows) /\ DOMAIN rows' = 1 .. Len(rows')
    BY <1>6, IdsAre, LenProperties
  <1>8. \A o \in Ids : rows'[o] = rows[o]
    BY <1>1, <1>6, <1>7
  <1> QED
    BY <1>6, <1>7, <1>8 DEF AddsRows, Ids

-----------------------------------------------------------------------------
(* What a handler does with a visit.                                        *)

\* The job of handler h is a new one; visits that another handler holds are
\* noted.
Takes(h) ==
    /\ DOMAIN clerk' = Clerks
    /\ \A k \in Clerks \ {h} : clerk'[k] = clerk[k]
    /\ muddled' = muddled \cup {id \in clerk'[h].ids : Shared(h, id)}

\* What is known of a visit by its handler, or by the one that takes it up.
Knows(h, id) ==
    IF Idle(h) THEN rows[id].deleted \/ ToldRight(id) ELSE JobRight(clerk[h], id)

\* A handler takes up or goes on with a job and leaves the other visits alone.
Works(h) ==
    /\ Takes(h) /\ clerk'[h].step # "free"
    /\ Idle(h) \/ clerk'[h].ids = clerk[h].ids
    /\ UNCHANGED <<costs, boot, told>>
    /\ rows' \in Seq(Visits) /\ Ids \subseteq Ids' /\ Ids' \ Ids \subseteq clerk'[h].ids
    /\ \A id \in Ids : rows'[id].prompt = rows[id].prompt
    /\ \A id \in Ids \ clerk'[h].ids : RowSame(id)
    /\ HandlerOK(clerk[h], Ids)'
    /\ \A id \in clerk'[h].ids : (id \in Ids => Knows(h, id)) => JobRight(clerk[h], id)'

LEMMA HoldTakes ==
    ASSUME Shape, NEW h \in Clerks, NEW job, Hold(h, job)
    PROVE  Takes(h) /\ clerk'[h] = job
  BY DEF Shape, Hold, Takes

\* The job is to say something of these visits.
Telling1(h, verb, batch) ==
    /\ Takes(h)
    /\ clerk'[h].step = "tell" /\ clerk'[h].verb = verb /\ clerk'[h].ids = batch

LEMMA HoldTells ==
    ASSUME Shape, NEW h \in Clerks, NEW via, NEW verb, NEW batch, NEW lines,
           Hold(h, Saying(via, verb, batch, lines))
    PROVE  Telling1(h, verb, batch) /\ clerk'[h].lines = lines
  <1> DEFINE job == Saying(via, verb, batch, lines)
  <1>1. job.step = "tell" /\ job.verb = verb /\ job.ids = batch /\ job.lines = lines
    BY DEF Saying
  <1>2. Hold(h, job)
    OBVIOUS
  <1> HIDE DEF job
  <1> QED
    BY <1>1, <1>2, HoldTakes DEF Telling1

\* A form that is accepted is a visit.
LEMMA ParseGivesItem ==
    ASSUME NEW f \in Forms, NEW by \in Users \cup {Unknown}, Parse(f, by).ok
    PROVE  Parse(f, by).appt \in Item
  <1>1. /\ f.person \in {"", Self} \cup Users
        /\ f = [title |-> f.title, person |-> f.person, starts |-> f.starts,
                status |-> f.status, cost |-> f.cost]
    BY AppointmentsAssumption DEF AppointmentsAssumption
  <1>2. /\ f.title \in Titles /\ f.starts \in Nat /\ f.status \in ApptStatus
        /\ f.cost \in {NoCost} \cup Nat
    BY DEF Parse
  <1>3. Resolve(f.person, by) \in {"", Self} \cup Users
    BY <1>1 DEF Resolve
  <1> DEFINE t == f.title
             p == f.person
             at == f.starts
             st == f.status
             c == f.cost
             r == Resolve(p, by)
  <1>4. f = [title |-> t, person |-> p, starts |-> at, status |-> st, cost |-> c]
    BY <1>1
  <1>5. [f EXCEPT !.person = Resolve(@, by)] \in Item
    <2>1. t \in Titles /\ r \in {"", Self} \cup Users /\ at \in Nat /\ st \in ApptStatus
          /\ c \in {NoCost} \cup Nat
      BY <1>2, <1>3
    <2>2. [f EXCEPT !.person = Resolve(@, by)] = [f EXCEPT !.person = r]
      BY <1>4
    <2> HIDE DEF t, p, at, st, c, r
    <2>3. [f EXCEPT !.person = r] = [title |-> t, person |-> r, starts |-> at, status |-> st, cost |-> c]
      BY <1>4
    <2> QED
      BY <2>1, <2>2, <2>3 DEF Item
  <1> QED
    BY <1>5 DEF Parse

\* Rows are added, and are what is told.
LEMMA AddWorks ==
    ASSUME Shape, NEW h \in Clerks, Idle(h), NEW n \in Nat, AddsRows(n),
           Telling1(h, "added", Len(rows) + 1 .. Len(rows) + n),
           \A id \in clerk'[h].ids : clerk'[h].lines[id] = Line(rows'[id]),
           UNCHANGED <<costs, boot, told>>
    PROVE  Works(h)
  <1>1. /\ Len(rows) \in Nat /\ Ids = 1 .. Len(rows) /\ Ids' = 1 .. Len(rows) + n
        /\ clerk'[h].ids = Len(rows) + 1 .. Len(rows) + n
    BY IdsAre DEF Shape, AddsRows, Telling1
  <1>2. Ids \subseteq Ids' /\ Ids' \ Ids \subseteq clerk'[h].ids /\ clerk'[h].ids \subseteq Ids'
    BY <1>1
  <1>3. \A id \in Ids : rows'[id] = rows[id]
    BY DEF AddsRows
  <1>4. HandlerOK(clerk[h], Ids)'
    BY <1>2 DEF HandlerOK, Telling1
  <1>5. \A id \in clerk'[h].ids : JobRight(clerk[h], id)'
    BY DEF JobRight, Telling1
  <1> QED
    BY <1>2, <1>3, <1>4, <1>5 DEF Works, Telling1, AddsRows, RowSame

LEMMA CreateWorks ==
    ASSUME Shape, NEW h \in Clerks, NEW f \in Forms, NEW by \in Users \cup {Unknown},
           Create(h, f, by)
    PROVE  Works(h)
  <1> DEFINE a == Parse(f, by).appt
             id == Len(rows) + 1
  <1>1. a \in Item
    BY ParseGivesItem DEF Create
  <1>2. AddsRows(1)
    <2>1. CreateAppointment(a)
      BY DEF Create
    <2> HIDE DEF a
    <2> QED
      BY <1>1, <2>1, RowIsAdded DEF Shape
  <1>3. Telling1(h, "added", {id}) /\ clerk'[h].lines = Lines(rows', {id})
    BY HoldTells DEF Create
  <1>4. {id} = Len(rows) + 1 .. Len(rows) + 1
    BY IdsAre DEF Shape
  <1>5. \A i \in clerk'[h].ids : clerk'[h].lines[i] = Line(rows'[i])
    BY <1>3 DEF Lines, Telling1
  <1> QED
    BY <1>2, <1>3, <1>4, <1>5, AddWorks DEF Create

\* A visit is read: what is known of it is what was told.
LEMMA ReadWorks ==
    ASSUME Shape, NEW h \in Clerks, Idle(h), NEW id \in Ids, Takes(h),
           clerk'[h].ids = {id}, clerk'[h].step # "free", HandlerOK(clerk[h], Ids)',
           UNCHANGED <<rows, costs, boot, told>>,
           ToldRight(id)' => JobRight(clerk[h], id)'
    PROVE  Works(h)
  <1>1. rows' \in Seq(Visits) /\ Ids' = Ids
    BY DEF Shape, Ids
  <1>2. ToldRight(id)' = ToldRight(id)
    BY DEF ToldRight
  <1>3. rows[id].deleted => JobRight(clerk[h], id)'
    BY DEF JobRight
  <1> QED
    BY <1>1, <1>2, <1>3 DEF Works, Knows, RowSame

LEMMA UpdateReadWorks ==
    ASSUME Shape, NEW h \in Clerks, NEW id \in Ids, NEW f \in Forms, NEW by \in Users \cup {Unknown},
           UpdateRead(h, id, f, by)
    PROVE  Works(h)
  <1> DEFINE a == Parse(f, by).appt
             job == [step |-> "update", ids |-> {id}, appt |-> a, was |-> rows[id].status]
  <1>1. a \in Item
    BY ParseGivesItem DEF UpdateRead
  <1>2. Idle(h) /\ Hold(h, job) /\ UNCHANGED <<rows, costs, boot, told>>
    BY DEF UpdateRead
  <1>3. rows[id].status \in ApptStatus
    <2>1. rows[id] \in Visits
      BY RowType DEF Shape
    <2> QED
      BY <2>1 DEF Visits
  <1> HIDE DEF a
  <1>4. /\ job.step = "update" /\ job.ids = {id} /\ job.appt = a /\ job.was = rows[id].status
    OBVIOUS
  <1> HIDE DEF job
  <1>5. Takes(h) /\ clerk'[h] = job
    BY <1>2, HoldTakes
  <1>6. HandlerOK(clerk[h], Ids)'
    BY <1>1, <1>2, <1>3, <1>4, <1>5 DEF HandlerOK, Ids
  <1>7. ToldRight(id)' => JobRight(clerk[h], id)'
    BY <1>2, <1>4, <1>5 DEF JobRight
  <1> QED
    BY <1>2, <1>4, <1>5, <1>6, <1>7, ReadWorks

LEMMA SetStatusReadWorks ==
    ASSUME Shape, NEW h \in Clerks, NEW id \in Ids, NEW s \in ApptStatus, SetStatusRead(h, id, s)
    PROVE  Works(h)
  <1> DEFINE job == [step |-> "status", ids |-> {id}, status |-> s, was |-> rows[id]]
  <1>2. Idle(h) /\ Hold(h, job) /\ UNCHANGED <<rows, costs, boot, told>>
    BY DEF SetStatusRead
  <1>4. job.step = "status" /\ job.ids = {id} /\ job.status = s /\ job.was = rows[id]
    OBVIOUS
  <1>3. rows[id].status # s
    BY DEF SetStatusRead
  <1> HIDE DEF job
  <1>5. Takes(h) /\ clerk'[h] = job
    BY <1>2, HoldTakes
  <1>6. HandlerOK(clerk[h], Ids)'
    BY <1>2, <1>3, <1>4, <1>5 DEF HandlerOK, Ids
  <1>7. ToldRight(id)' => JobRight(clerk[h], id)'
    BY <1>2, <1>4, <1>5 DEF JobRight
  <1> QED
    BY <1>2, <1>4, <1>5, <1>6, <1>7, ReadWorks

\* The id and the field of a question about a visit.
LEMMA EditQuestion ==
    ASSUME Shape, NEW u \in Users, awaiting[u].q.kind = "edit"
    PROVE  awaiting[u].q.id \in Ids /\ awaiting[u].q.field \in {"time", "title", "who"}
  BY DEF Shape, Question, NoQuestion

LEMMA RescheduleAskWorks ==
    ASSUME Shape, NEW h \in Clerks, NEW u \in Users, NEW chat \in Chats, rescheduleAsk(h, u, chat)
    PROVE  Works(h)
  <1>1. PICK id \in Ids : id = awaiting[u].q.id
    BY EditQuestion DEF rescheduleAsk, takeKind
  <1> DEFINE job == [step |-> "when", ids |-> {id}, user |-> u, via |-> chat]
  <1>2. Idle(h) /\ Hold(h, job) /\ UNCHANGED <<rows, costs, boot, told>>
    BY <1>1 DEF rescheduleAsk
  <1>4. job.step = "when" /\ job.ids = {id} /\ job.user = u
    OBVIOUS
  <1> HIDE DEF job
  <1>5. Takes(h) /\ clerk'[h] = job
    BY <1>2, HoldTakes
  <1>6. HandlerOK(clerk[h], Ids)'
    BY <1>1, <1>2, <1>4, <1>5 DEF HandlerOK, Ids
  <1>7. ToldRight(id)' => JobRight(clerk[h], id)'
    BY <1>2, <1>4, <1>5 DEF JobRight
  <1> QED
    BY <1>1, <1>2, <1>4, <1>5, <1>6, <1>7, ReadWorks

\* One row is written, and is what is to be said.
LEMMA RewriteWorks ==
    ASSUME Shape, NEW h \in Clerks, NEW id \in Ids, Rewrites(id), NEW verb, Telling1(h, verb, {id}),
           Idle(h) \/ clerk[h].ids = {id},
           UNCHANGED <<costs, boot, told>>,
           Knows(h, id) => JobRight(clerk[h], id)'
    PROVE  Works(h)
  <1>1. clerk'[h].ids = {id} /\ clerk'[h].step = "tell" /\ Takes(h)
    BY DEF Telling1
  <1>2. HandlerOK(clerk[h], Ids)'
    BY <1>1 DEF HandlerOK, Rewrites
  <1>3. \A o \in Ids \ clerk'[h].ids : RowSame(o)
    BY <1>1 DEF Rewrites, RowSame
  <1>4. \A o \in Ids : rows'[o].prompt = rows[o].prompt
    BY DEF Rewrites
  <1>5. rows' \in Seq(Visits) /\ Ids' = Ids
    BY DEF Rewrites
  <1>6. \A o \in clerk'[h].ids : (o \in Ids => Knows(h, o)) => JobRight(clerk[h], o)'
    BY <1>1
  <1>7. Idle(h) \/ clerk'[h].ids = clerk[h].ids
    BY <1>1
  <1> HIDE DEF Takes, Knows, JobRight, HandlerOK, RowSame
  <1> QED
    BY <1>1, <1>2, <1>3, <1>4, <1>5, <1>6, <1>7 DEF Works

\* A handler that may edit visit id now.
MayEdit(h, id) == Idle(h) \/ (clerk[h].ids = {id} /\ clerk[h].step = "when")

\* An edit keeps the status: it is told of as it was, off or not.
LEMMA EditWorks ==
    ASSUME Shape, NEW h \in Clerks, NEW id \in Ids, Edits(id), Telling1(h, "changed", {id}),
           MayEdit(h, id),
           clerk'[h].lines = Lines(rows', {id}),
           UNCHANGED <<costs, boot, told>>
    PROVE  Works(h)
  <1>1. Rewrites(id) /\ rows'[id].status = rows[id].status /\ rows'[id].deleted = rows[id].deleted
    BY RowIsEdited DEF Shape
  <1>2. clerk'[h].lines[id] = Line(rows'[id])
    BY DEF Lines
  <1>3. ASSUME Knows(h, id)
        PROVE  JobRight(clerk[h], id)'
    <2>1. rows[id].deleted \/ ToldRight(id)
      BY <1>3 DEF Knows, JobRight, MayEdit
    <2> QED
      BY <1>1, <1>2, <2>1 DEF JobRight, ToldRight, Telling1
  <1> QED
    BY <1>1, <1>3, RewriteWorks DEF MayEdit

\* A visit that is called off is told of as one.
LEMMA CancelWorks ==
    ASSUME Shape, NEW h \in Clerks, Idle(h), NEW id \in Ids, SetAppointmentStatus(id, "cancelled"),
           Telling1(h, "cancelled", {id}), clerk'[h].lines = Lines(rows, {id}),
           UNCHANGED <<costs, boot, told>>
    PROVE  Works(h)
  <1>1. Rewrites(id) /\ Line(rows'[id]) = Line(rows[id])
    BY StatusIsSet DEF Shape, ApptStatus
  <1>2. clerk'[h].lines[id] = Line(rows'[id])
    BY <1>1 DEF Lines
  <1>3. JobRight(clerk[h], id)'
    BY <1>2 DEF JobRight, Telling1
  <1> QED
    BY <1>1, <1>3, RewriteWorks

LEMMA UpdateWriteWorks ==
    ASSUME Shape, NEW h \in Clerks, UpdateWrite(h)
    PROVE  Works(h)
  <1>1. HandlerOK(clerk[h], Ids) /\ clerk[h].step = "update"
    BY DEF Shape, UpdateWrite
  <1>2. PICK id \in Ids : clerk[h].ids = {id}
    BY <1>1 DEF HandlerOK
  <1>3. clerk[h].appt \in Item /\ clerk[h].was \in ApptStatus
    BY <1>1 DEF HandlerOK
  <1> DEFINE a == clerk[h].appt
             verb == IF a.status = "cancelled" /\ clerk[h].was # "cancelled"
                     THEN "cancelled" ELSE "changed"
  <1>4. id = CHOOSE i \in clerk[h].ids : TRUE
    BY <1>2
  <1>5. /\ UpdateAppointment(id, a)
        /\ Hold(h, Saying("form", verb, {id}, Lines(rows', {id})))
        /\ UNCHANGED <<costs, boot, told>>
    BY <1>2, <1>4 DEF UpdateWrite
  <1> HIDE DEF a, verb
  <1>6. Telling1(h, verb, {id}) /\ clerk'[h].lines = Lines(rows', {id})
    BY <1>5, HoldTells
  <1>7. Rewrites(id) /\ rows'[id].status = a.status /\ rows'[id].deleted = rows[id].deleted
    BY <1>3, <1>5, RowIsUpdated DEF Shape, a
  <1>8. clerk'[h].lines[id] = Line(rows'[id])
    BY <1>6 DEF Lines
  <1>9. ASSUME Knows(h, id)
        PROVE  JobRight(clerk[h], id)'
    <2>1. rows[id].deleted \/ (ToldRight(id) /\ clerk[h].was = rows[id].status)
      BY <1>1, <1>9 DEF Knows, JobRight, Idle
    <2>2. rows'[id].status = "cancelled" => verb = "cancelled" \/ clerk[h].was = "cancelled"
      BY <1>7 DEF verb
    <2>3. verb \in {"cancelled", "changed"}
      BY DEF verb
    <2> QED
      BY <1>5, <1>6, <1>7, <1>8, <2>1, <2>2, <2>3 DEF JobRight, ToldRight, Telling1
  <1> QED
    BY <1>2, <1>5, <1>6, <1>7, <1>9, RewriteWorks

LEMMA SetStatusWriteWorks ==
    ASSUME Shape, NEW h \in Clerks, SetStatusWrite(h)
    PROVE  Works(h)
  <1>1. HandlerOK(clerk[h], Ids) /\ clerk[h].step = "status"
    BY DEF Shape, SetStatusWrite
  <1>2. PICK id \in Ids : clerk[h].ids = {id}
    BY <1>1 DEF HandlerOK
  <1>3. clerk[h].status \in ApptStatus /\ clerk[h].status # clerk[h].was.status
    BY <1>1 DEF HandlerOK
  <1> DEFINE s == clerk[h].status
             verb == CASE s = "cancelled"                   -> "cancelled"
                       [] clerk[h].was.status = "cancelled" -> "restored"
                       [] OTHER                             -> "changed"
             lines == [i \in clerk[h].ids |-> Line(clerk[h].was)]
  <1>4. id = CHOOSE i \in clerk[h].ids : TRUE
    BY <1>2
  <1>5. /\ SetAppointmentStatus(id, s)
        /\ Hold(h, Saying("form", verb, {id}, lines))
        /\ UNCHANGED <<costs, boot, told>>
    BY <1>2, <1>4 DEF SetStatusWrite
  <1>6. lines[id] = Line(clerk[h].was)
    BY <1>2
  <1>7. s = "cancelled" => verb = "cancelled"
    <2> SUFFICES ASSUME s = "cancelled" PROVE verb = "cancelled"
      OBVIOUS
    <2>1. clerk[h].was.status # "cancelled"
      BY <1>3
    <2> QED
      BY <2>1
  <1> HIDE DEF s, verb, lines
  <1>8. Telling1(h, verb, {id}) /\ clerk'[h].lines = lines
    BY <1>5, HoldTells
  <1>9. Rewrites(id) /\ Line(rows'[id]) = Line(rows[id]) /\ rows'[id].status = s
    BY <1>3, <1>5, StatusIsSet DEF Shape, s
  <1>10. ASSUME Knows(h, id)
         PROVE  JobRight(clerk[h], id)'
    <2>1. rows[id].deleted \/ Line(clerk[h].was) = Line(rows[id])
      BY <1>1, <1>10 DEF Knows, JobRight, Idle
    <2> QED
      BY <1>6, <1>7, <1>8, <1>9, <2>1 DEF JobRight, Telling1, Rewrites
  <1> QED
    BY <1>2, <1>5, <1>8, <1>9, <1>10, RewriteWorks

LEMMA DeleteWorks ==
    ASSUME Shape, NEW h \in Clerks, NEW id \in Ids, Delete(h, id)
    PROVE  Works(h)
  <1>1. Rewrites(id) /\ rows'[id].deleted
    BY RowIsDeleted DEF Shape, Delete
  <1>2. Telling1(h, "deleted", {id})
    BY HoldTells DEF Delete
  <1>3. JobRight(clerk[h], id)'
    BY <1>1 DEF JobRight
  <1> QED
    BY <1>1, <1>2, <1>3, RewriteWorks DEF Delete

\* What is kept behind the key of a card.
LEMMA TakenEntry ==
    ASSUME Shape, NEW c \in DOMAIN cards, take(c)
    PROVE  cards[c].key \in DOMAIN pending /\ Entry(pending[cards[c].key], Ids)
  BY DEF Shape, take

LEMMA SaveWorks ==
    ASSUME Shape, NEW h \in Clerks, NEW c \in DOMAIN cards, NEW chat \in Chats, onSave(h, c, chat)
    PROVE  Works(h)
  <1> DEFINE items == pending[cards[c].key].items
             batch == Len(rows) + 1 .. Len(rows) + Len(items)
  <1>1. items \in Seq(Item)
    BY TakenEntry DEF onSave, Entry
  <1>2. /\ Idle(h) /\ CreateAppointments(items)
        /\ Hold(h, Saying(chat, "added", batch, Lines(rows', batch)))
        /\ UNCHANGED <<costs, boot, told>>
    BY DEF onSave
  <1>3. Telling1(h, "added", batch) /\ clerk'[h].lines = Lines(rows', batch)
    <2> HIDE DEF batch
    <2> QED
      BY <1>2, HoldTells
  <1>4. Len(items) \in Nat
    BY <1>1, LenProperties
  <1>5. AddsRows(Len(items))
    <2> HIDE DEF items
    <2> QED
      BY <1>1, <1>2, RowsAreAdded DEF Shape
  <1>6. \A i \in clerk'[h].ids : clerk'[h].lines[i] = Line(rows'[i])
    <2> HIDE DEF batch
    <2> QED
      BY <1>3 DEF Lines, Telling1
  <1> DEFINE n == Len(items)
  <1>7. Telling1(h, "added", Len(rows) + 1 .. Len(rows) + n) /\ n \in Nat /\ AddsRows(n)
    BY <1>3, <1>4, <1>5
  <1> HIDE DEF n, batch, items
  <1> QED
    BY <1>2, <1>6, <1>7, AddWorks

LEMMA UpdateWorks ==
    ASSUME Shape, NEW h \in Clerks, NEW c \in DOMAIN cards, NEW chat \in Chats, onUpdate(h, c, chat)
    PROVE  Works(h) \/ UNCHANGED <<rows, clerk, told, muddled, costs, boot>>
  <1>1. Entry(pending[cards[c].key], Ids)
    BY TakenEntry DEF onUpdate
  <1> DEFINE entry == pending[cards[c].key]
  <1>2. CASE entry.update = 0
    BY <1>2 DEF onUpdate
  <1>3. CASE entry.update # 0
    <2>1. PICK id \in Ids : id = entry.update
      BY <1>1, <1>3 DEF Entry
    <2>2. /\ Idle(h)
          /\ UpdateAppointmentDetails(id, entry.items[1].title, entry.items[1].person)
          /\ Hold(h, Saying(chat, "changed", {id}, Lines(rows', {id})))
          /\ UNCHANGED <<costs, boot, told>>
      BY <1>3, <2>1 DEF onUpdate
    <2>3. entry.items \in Seq(Item) /\ Len(entry.items) = 1
      BY <1>1, <1>3 DEF Entry
    <2>4. entry.items[1] \in Item
      BY <2>3, ElementOfSeq
    <2>5. Edits(id)
      BY <2>2, <2>4 DEF Edits, Item
    <2>6. Telling1(h, "changed", {id}) /\ clerk'[h].lines = Lines(rows', {id})
      BY <2>2, HoldTells
    <2>7. MayEdit(h, id)
      BY <2>2 DEF MayEdit
    <2>8. UNCHANGED <<costs, boot, told>>
      BY <2>2
    <2> QED
      BY <2>5, <2>6, <2>7, <2>8, EditWorks
  <1> QED
    BY <1>2, <1>3

LEMMA FieldEditWorks ==
    ASSUME Shape, NEW h \in Clerks, NEW u \in Users, NEW chat \in Chats, applyFieldEdit(h, u, chat)
    PROVE  Works(h)
  <1>1. PICK id \in Ids : id = awaiting[u].q.id
    BY EditQuestion DEF applyFieldEdit, takeKind
  <1>2. /\ Idle(h) /\ UNCHANGED <<costs, boot, told>>
        /\ (\E t \in Titles : UpdateAppointmentTitle(id, t)) \/ (\E v \in Users : UpdateAppointmentPerson(id, v))
        /\ Hold(h, Saying(chat, "changed", {id}, Lines(rows', {id})))
    BY <1>1 DEF applyFieldEdit
  <1>3. Edits(id)
    BY <1>2 DEF Edits
  <1>4. Telling1(h, "changed", {id}) /\ clerk'[h].lines = Lines(rows', {id})
    BY <1>2, HoldTells
  <1>5. MayEdit(h, id)
    BY <1>2 DEF MayEdit
  <1>6. UNCHANGED <<costs, boot, told>>
    BY <1>2
  <1> QED
    BY <1>3, <1>4, <1>5, <1>6, EditWorks

LEMMA RescheduleWorks ==
    ASSUME Shape, NEW h \in Clerks, applyReschedule(h)
    PROVE  Works(h)
  <1>1. HandlerOK(clerk[h], Ids) /\ clerk[h].step = "when"
    BY DEF Shape, applyReschedule
  <1>2. PICK id \in Ids : clerk[h].ids = {id}
    BY <1>1 DEF HandlerOK
  <1>3. id = CHOOSE i \in clerk[h].ids : TRUE
    BY <1>2
  <1>4. /\ \E t \in Moments : RescheduleAppointment(id, t)
        /\ Hold(h, Saying(clerk[h].via, "changed", {id}, Lines(rows', {id})))
        /\ UNCHANGED <<costs, boot, told>>
    BY <1>2, <1>3 DEF applyReschedule
  <1>5. Edits(id)
    BY <1>4, AppointmentsAssumption DEF Edits, AppointmentsAssumption
  <1>6. Telling1(h, "changed", {id}) /\ clerk'[h].lines = Lines(rows', {id})
    BY <1>4, HoldTells
  <1>7. MayEdit(h, id)
    BY <1>1, <1>2 DEF MayEdit
  <1> QED
    BY <1>4, <1>5, <1>6, <1>7, EditWorks

LEMMA DelWorks ==
    ASSUME Shape, NEW h \in Clerks, onDel(h)
    PROVE  Works(h)
  <1>1. PICK b \in listed :
           /\ SetAppointmentStatus(b[1], "cancelled")
           /\ Hold(h, Saying(b[2], "cancelled", {b[1]}, Lines(rows, {b[1]})))
    BY DEF onDel
  <1>2. PICK id \in Ids : id = b[1]
    BY <1>1 DEF Shape
  <1>3. Telling1(h, "cancelled", {id}) /\ clerk'[h].lines = Lines(rows, {id})
    BY <1>1, <1>2, HoldTells
  <1> QED
    BY <1>1, <1>2, <1>3, CancelWorks DEF onDel

LEMMA CostButtonWorks ==
    ASSUME Shape, NEW h \in Clerks, NEW msg \in DOMAIN asks, onCostButton(h, msg)
    PROVE  Works(h)
  <1>1. PICK id \in Ids : id = asks[msg]
    BY LenProperties, ElementOfSeq DEF Shape
  <1>2. Telling1(h, "cancelled", {id}) /\ clerk'[h].lines = Lines(rows, {id})
    BY <1>1, HoldTells DEF onCostButton
  <1> QED
    BY <1>1, <1>2, CancelWorks DEF onCostButton

-----------------------------------------------------------------------------
(* The kinds of steps.                                                      *)

\* Nothing of what the group is told of, and nobody who tells it, is touched.
Quiet == UNCHANGED <<rows, clerk, told, muddled>>

LEMMA FormsWork ==
    ASSUME Shape, NEW h \in Clerks, FormsOf(h)
    PROVE  Works(h)
  <1>1. CASE WebCreate(h) \/ MiniCreate(h)
    BY <1>1, CreateWorks DEF WebCreate, MiniCreate
  <1>2. CASE WebUpdate(h) \/ MiniUpdate(h)
    BY <1>2, UpdateReadWorks DEF WebUpdate, MiniUpdate
  <1>3. CASE WebDelete(h) \/ MiniDelete(h)
    BY <1>3, DeleteWorks DEF WebDelete, MiniDelete
  <1>4. CASE MiniStatus(h)
    BY <1>4, SetStatusReadWorks DEF MiniStatus
  <1>5. CASE UpdateWrite(h) \/ SetStatusWrite(h)
    BY <1>5, UpdateWriteWorks, SetStatusWriteWorks
  <1> QED
    BY <1>1, <1>2, <1>3, <1>4, <1>5 DEF FormsOf

LEMMA CardsWork ==
    ASSUME Shape, NEW h \in Clerks, CardsOf(h)
    PROVE  Works(h) \/ (Quiet /\ UNCHANGED <<costs, boot>>)
  <1>1. PICK c \in DOMAIN cards :
           onCancel(c) \/ \E chat \in Chats : onSave(h, c, chat) \/ onUpdate(h, c, chat)
    BY DEF CardsOf
  <1>2. CASE onCancel(c)
    BY <1>2 DEF onCancel, Quiet
  <1>3. CASE \E chat \in Chats : onSave(h, c, chat)
    BY <1>3, SaveWorks
  <1>4. CASE \E chat \in Chats : onUpdate(h, c, chat)
    BY <1>4, UpdateWorks DEF Quiet
  <1> QED
    BY <1>1, <1>2, <1>3, <1>4

LEMMA EditsWork ==
    ASSUME Shape, NEW h \in Clerks, EditsOf(h)
    PROVE  Works(h) \/ rescheduleRetry(h)
  <1>1. CASE \E u \in Users, chat \in Chats : applyFieldEdit(h, u, chat) \/ rescheduleAsk(h, u, chat)
    BY <1>1, FieldEditWorks, RescheduleAskWorks
  <1>2. CASE applyReschedule(h) \/ onDel(h)
    BY <1>2, RescheduleWorks, DelWorks
  <1> QED
    BY <1>1, <1>2 DEF EditsOf

LEMMA TalkIsQuiet ==
    ASSUME Talk
    PROVE  Quiet /\ UNCHANGED <<costs, boot>>
  <1>1. CASE \E u \in Users : cmdVisit(u) \/ onTextCapture(u)
    BY <1>1 DEF cmdVisit, onTextCapture, captureText, Quiet
  <1>2. CASE \E u \in Users : askMeal(u) \/ answerMeal(u) \/ onArm(u)
    BY <1>2 DEF askMeal, answerMeal, onArm, Quiet
  <1>3. CASE cmdList \/ onNav \/ \E chat \in Chats : closeList(chat)
    BY <1>3 DEF cmdList, onNav, Turned, closeList, Quiet
  <1> QED
    BY <1>1, <1>2, <1>3 DEF Talk

\* A pass over what is due, its write apart.
Sweeps == sweepRead \/ sweepPost \/ sweepPostFails \/ sweepStoreFails

LEMMA SweepIsQuiet ==
    ASSUME Sweeps
    PROVE  Quiet /\ UNCHANGED <<moment, bot, boot>>
  BY DEF Sweeps, sweepRead, sweepPost, sweepPostFails, sweepStoreFails, sweepNext, Sweep, Quiet

Lets(h) == Telling(h) \/ rescheduleRetry(h)

\* What a step is, seen from the handlers and the rows.
LEMMA StepKinds ==
    ASSUME Shape, NextAppointments
    PROVE  \/ \E h \in Clerks : Works(h) \/ Lets(h)
           \/ Quiet /\ UNCHANGED <<costs, boot>>
           \/ Sweeps \/ sweepStore
           \/ \E msg \in DOMAIN asks : costReply(msg)
           \/ restart
  <1>1. CASE \E h \in Clerks : Telling(h) \/ FormsOf(h) \/ CardsOf(h) \/ EditsOf(h)
    BY <1>1, FormsWork, CardsWork, EditsWork DEF Lets
  <1>2. CASE Talk
    BY <1>2, TalkIsQuiet
  <1>3. CASE Costs
    BY <1>3, CostButtonWorks DEF Costs, Sweeps
  <1>4. CASE Tick
    BY <1>4 DEF Tick, Quiet
  <1> QED
    BY <1>1, <1>2, <1>3, <1>4 DEF NextAppointments

\* A handler that is done: the job is gone, and no row was touched.
LEMMA LetsIsDone ==
    ASSUME Shape, NEW h \in Clerks, Lets(h)
    PROVE  /\ DOMAIN clerk' = Clerks /\ clerk'[h] = Free
           /\ \A k \in Clerks \ {h} : clerk'[k] = clerk[k]
           /\ ~Idle(h)
           /\ UNCHANGED <<rows, costs, boot>>
  <1>1. CASE mirrorToGroup(h) \/ answerInGroup(h) \/ announce(h)
    BY <1>1 DEF mirrorToGroup, answerInGroup, announce, Told, Shape, Idle
  <1>2. CASE announceFails(h)
    BY <1>2 DEF announceFails, Shape, Idle
  <1>3. CASE rescheduleRetry(h)
    BY <1>3 DEF rescheduleRetry, Shape, Idle
  <1> QED
    BY <1>1, <1>2, <1>3 DEF Lets, Telling

LEMMA CostReplied ==
    ASSUME Shape, NEW msg \in DOMAIN asks, costReply(msg)
    PROVE  /\ rows' \in Seq(Visits) /\ Ids' = Ids
           /\ \A o \in Ids : RowSame(o) /\ rows'[o].prompt = rows[o].prompt
           /\ UNCHANGED <<costs, boot, clerk, told, muddled>>
  <1>1. PICK id \in AppointmentByCostPrompt(msg), cost \in Amounts : SetAppointmentCost(id, cost)
    BY DEF costReply
  <1>2. id \in Ids /\ cost \in Nat
    BY AppointmentsAssumption DEF AppointmentByCostPrompt, AppointmentsAssumption
  <1>3. Rewrites(id) /\ RowSame(id)
    BY <1>1, <1>2, CostIsSet DEF Shape
  <1>4. UNCHANGED <<costs, boot, clerk, told, muddled>>
    BY DEF costReply
  <1> QED
    BY <1>3, <1>4 DEF Rewrites, RowSame

\* The visit whose question is posted.
LEMMA SweepHead ==
    ASSUME Shape, sweep.step # "free"
    PROVE  /\ sweep.left \in Seq(Ids) /\ sweep.left # <<>>
           /\ Head(sweep.left) \in Ids /\ Head(sweep.left) = sweep.left[1]
           /\ DOMAIN sweep.left = 1 .. Len(sweep.left) /\ Len(sweep.left) \in Nat \ {0}
  <1>1. sweep.left \in Seq(Ids) /\ sweep.left # <<>>
    BY DEF Shape, PassOK
  <1>2. Head(sweep.left) \in Ids
    BY <1>1, HeadTailProperties
  <1>3. DOMAIN sweep.left = 1 .. Len(sweep.left) /\ Len(sweep.left) \in Nat \ {0}
    BY <1>1, LenProperties, EmptySeq
  <1> QED
    BY <1>1, <1>2, <1>3

LEMMA PromptStored ==
    ASSUME Shape, sweepStore
    PROVE  /\ rows' \in Seq(Visits) /\ Ids' = Ids
           /\ \A o \in Ids : /\ RowSame(o)
                             /\ rows'[o].prompt = IF o = Head(sweep.left) THEN Len(asks) ELSE rows[o].prompt
           /\ UNCHANGED <<asks, torn, boot, clerk, told, muddled>>
  <1>1. PICK id \in Ids : id = Head(sweep.left)
    BY SweepHead DEF sweepStore
  <1> DEFINE n == Len(asks)
             row == [rows[id] EXCEPT !.prompt = n]
  <1>2. n \in Nat
    BY LenProperties DEF Shape
  <1>3. rows[id] \in Visits
    BY RowType DEF Shape
  <1>4. rows' = [rows EXCEPT ![id] = row]
    BY <1>1 DEF sweepStore, SetAppointmentCostPrompt
  <1> HIDE DEF n
  <1>5. /\ row \in Visits /\ Line(row) = Line(rows[id]) /\ row.status = rows[id].status
        /\ row.prompt = n /\ row.deleted = rows[id].deleted
    BY <1>2, <1>3 DEF Visits, Line
  <1> HIDE DEF row
  <1>6. /\ rows' \in Seq(Visits) /\ Ids' = Ids
        /\ \A o \in Ids : rows'[o] = IF o = id THEN row ELSE rows[o]
    BY <1>4, <1>5, RowSet, Zenon DEF Shape
  <1>7. UNCHANGED <<asks, torn, boot, clerk, told, muddled>>
    BY DEF sweepStore, sweepNext, Sweep
  <1> QED
    BY <1>1, <1>5, <1>6, <1>7 DEF RowSame, n

-----------------------------------------------------------------------------
(* What the group is told.                                                  *)

LEMMA SameIsRight ==
    ASSUME NEW id, RowSame(id), told' = told
    PROVE  /\ ToldRight(id)' = ToldRight(id)
           /\ \A h : clerk'[h] = clerk[h] => JobRight(clerk[h], id)' = JobRight(clerk[h], id)
  BY DEF RowSame, ToldRight, JobRight

LEMMA WorkMessages ==
    ASSUME Shape, Messages, NEW h \in Clerks, Works(h)
    PROVE  Messages'
  <1> USE DEF Works
  <1>1. /\ \A k \in Clerks \ {h} : clerk'[k] = clerk[k]
        /\ muddled' = muddled \cup {id \in clerk'[h].ids : Shared(h, id)}
        /\ told' = told
    BY DEF Takes
  <1> SUFFICES ASSUME NEW id \in Ids', id \notin muddled'
               PROVE  /\ \A j, k \in Clerks : Holds(j, id)' /\ Holds(k, id)' => j = k
                      /\ \A k \in Clerks : Holds(k, id)' => JobRight(clerk[k], id)'
                      /\ (\E k \in Clerks : Holds(k, id)') \/ rows'[id].deleted \/ ToldRight(id)'
    BY DEF Messages
  <1>2. \A k \in Clerks \ {h} : Holds(k, id)' = Holds(k, id)
    BY <1>1 DEF Holds, Idle
  <1>3. id \notin muddled
    BY <1>1
  <1>4. CASE id \in clerk'[h].ids
    <2>1. Holds(h, id)'
      BY <1>4 DEF Holds, Idle
    <2>2. \A k \in Clerks \ {h} : ~Holds(k, id)
      BY <1>1, <1>4 DEF Shared, Holds
    <2>3. id \in Ids => Knows(h, id)
      <3> SUFFICES ASSUME id \in Ids PROVE Knows(h, id)
        OBVIOUS
      <3>1. /\ \A k \in Clerks : Holds(k, id) => JobRight(clerk[k], id)
            /\ (\E k \in Clerks : Holds(k, id)) \/ rows[id].deleted \/ ToldRight(id)
        BY <1>3 DEF Messages
      <3>2. CASE Idle(h)
        <4>1. ~\E k \in Clerks : Holds(k, id)
          BY <2>2, <3>2 DEF Holds
        <4> QED
          BY <3>1, <3>2, <4>1 DEF Knows
      <3>3. CASE ~Idle(h)
        <4>1. Holds(h, id)
          BY <1>4, <3>3 DEF Holds
        <4> QED
          BY <3>1, <3>3, <4>1 DEF Knows
      <3> QED
        BY <3>2, <3>3
    <2>4. JobRight(clerk[h], id)'
      BY <1>4, <2>3
    <2> QED
      BY <1>2, <2>1, <2>2, <2>4
  <1>5. CASE id \notin clerk'[h].ids
    <2>1. id \in Ids /\ RowSame(id)
      BY <1>5
    <2>2. ~Holds(h, id)' /\ ~Holds(h, id)
      BY <1>5 DEF Holds, Idle
    <2>3. /\ \A j, k \in Clerks : Holds(j, id) /\ Holds(k, id) => j = k
          /\ \A k \in Clerks : Holds(k, id) => JobRight(clerk[k], id)
          /\ (\E k \in Clerks : Holds(k, id)) \/ rows[id].deleted \/ ToldRight(id)
      BY <1>3, <2>1 DEF Messages
    <2>4. \A k \in Clerks \ {h} : JobRight(clerk[k], id)' = JobRight(clerk[k], id)
      BY <1>1, <2>1, SameIsRight
    <2>5. ToldRight(id)' = ToldRight(id) /\ rows'[id].deleted = rows[id].deleted
      BY <1>1, <2>1, SameIsRight DEF RowSame
    <2> HIDE DEF Works
    <2>6. \A j, k \in Clerks : Holds(j, id)' /\ Holds(k, id)' => j = k
      BY <1>2, <2>2, <2>3
    <2>7. \A k \in Clerks : Holds(k, id)' => JobRight(clerk[k], id)'
      BY <1>2, <2>2, <2>3, <2>4
    <2>8. (\E k \in Clerks : Holds(k, id)') \/ rows'[id].deleted \/ ToldRight(id)'
      BY <1>2, <2>2, <2>3, <2>5
    <2> QED
      BY <2>6, <2>7, <2>8
  <1> QED
    BY <1>4, <1>5

\* What is said of a visit that a handler holds is how the visit is.
LEMMA SaidIsRight ==
    ASSUME NEW h \in Clerks, Told(h), NEW id \in clerk[h].ids, JobRight(clerk[h], id)
    PROVE  (rows[id].deleted \/ ToldRight(id))'
  <1> DEFINE job == clerk[h]
             before == job.verb = "changed" /\ id \in DOMAIN told
             off == job.verb \in {"cancelled", "deleted"} \/ (before /\ told[id].off)
             unsaid == /\ rows[id].status = "cancelled"
                       /\ job.verb = "added" \/ (before /\ told[id].unsaid)
  <1>1. job.step = "tell" /\ UNCHANGED rows
    BY DEF Told
  <1>2. id \in DOMAIN told' /\ told'[id] = [line |-> job.lines[id], off |-> off, unsaid |-> unsaid]
    BY DEF Told
  <1>3. \/ rows[id].deleted
        \/ /\ job.lines[id] = Line(rows[id])
           /\ rows[id].status = "cancelled" => off \/ unsaid
    BY <1>1 DEF JobRight
  <1> HIDE DEF job, off, unsaid
  <1>4. /\ told'[id].line = job.lines[id]
        /\ told'[id].off = off /\ told'[id].unsaid = unsaid
    BY <1>2
  <1>5. Line(rows[id])' = Line(rows[id])
    BY <1>1
  <1> QED
    BY <1>1, <1>2, <1>3, <1>4, <1>5, Zenon DEF ToldRight

LEMMA LetsMessages ==
    ASSUME Shape, Messages, NEW h \in Clerks, Lets(h)
    PROVE  Messages'
  <1>1. /\ DOMAIN clerk' = Clerks /\ clerk'[h] = Free
        /\ \A k \in Clerks \ {h} : clerk'[k] = clerk[k]
        /\ ~Idle(h) /\ UNCHANGED rows
    BY LetsIsDone
  <1>2. /\ muddled \subseteq muddled'
        /\ \A id \in Ids \ clerk[h].ids : 
              /\ id \in DOMAIN told' <=> id \in DOMAIN told
              /\ id \in DOMAIN told => told'[id] = told[id]
    <2>1. CASE mirrorToGroup(h) \/ answerInGroup(h) \/ announce(h)
      <3>1. Told(h)
        BY <2>1 DEF mirrorToGroup, answerInGroup, announce
      <3> QED
        BY <3>1 DEF Told
    <2>2. CASE announceFails(h) \/ rescheduleRetry(h)
      BY <2>2 DEF announceFails, rescheduleRetry
    <2> QED
      BY <2>1, <2>2 DEF Lets, Telling
  <1>3. ASSUME NEW id \in clerk[h].ids, id \notin muddled', JobRight(clerk[h], id)
        PROVE  (rows[id].deleted \/ ToldRight(id))'
    <2>1. CASE mirrorToGroup(h) \/ answerInGroup(h) \/ announce(h)
      <3>1. Told(h)
        BY <2>1 DEF mirrorToGroup, answerInGroup, announce
      <3> QED
        BY <1>3, <3>1, SaidIsRight
    <2>2. CASE announceFails(h)
      BY <1>3, <2>2 DEF announceFails
    <2>3. CASE rescheduleRetry(h)
      <3>1. rows[id].deleted \/ ToldRight(id)
        BY <1>3, <2>3 DEF JobRight, rescheduleRetry
      <3>2. UNCHANGED <<rows, told>>
        BY <2>3 DEF rescheduleRetry
      <3> QED
        BY <3>1, <3>2 DEF ToldRight
    <2> QED
      BY <2>1, <2>2, <2>3 DEF Lets, Telling
  <1> SUFFICES ASSUME NEW id \in Ids, id \notin muddled'
               PROVE  /\ \A j, k \in Clerks : Holds(j, id)' /\ Holds(k, id)' => j = k
                      /\ \A k \in Clerks : Holds(k, id)' => JobRight(clerk[k], id)'
                      /\ (\E k \in Clerks : Holds(k, id)') \/ rows'[id].deleted \/ ToldRight(id)'
    BY <1>1 DEF Messages, Ids
  <1>4. /\ \A j, k \in Clerks : Holds(j, id) /\ Holds(k, id) => j = k
        /\ \A k \in Clerks : Holds(k, id) => JobRight(clerk[k], id)
        /\ (\E k \in Clerks : Holds(k, id)) \/ rows[id].deleted \/ ToldRight(id)
    BY <1>2 DEF Messages
  <1>5. ~Holds(h, id)' /\ \A k \in Clerks \ {h} : Holds(k, id)' = Holds(k, id)
    BY <1>1 DEF Holds, Idle, Free
  <1>6. CASE id \in clerk[h].ids
    <2>1. Holds(h, id)
      BY <1>1, <1>6 DEF Holds
    <2>2. \A k \in Clerks \ {h} : ~Holds(k, id)
      BY <1>4, <2>1
    <2>3. (rows[id].deleted \/ ToldRight(id))'
      BY <1>3, <1>4, <1>6, <2>1
    <2> QED
      BY <1>5, <2>2, <2>3
  <1>7. CASE id \notin clerk[h].ids
    <2>1. ~Holds(h, id)
      BY <1>7 DEF Holds
    <2>2. /\ id \in DOMAIN told' <=> id \in DOMAIN told
          /\ id \in DOMAIN told => told'[id] = told[id]
      BY <1>2, <1>7
    <2>3. ToldRight(id) => ToldRight(id)'
      BY <1>1, <2>2 DEF ToldRight
    <2>4. \A k \in Clerks \ {h} : JobRight(clerk[k], id) => JobRight(clerk[k], id)'
      BY <1>1, <2>2 DEF JobRight, ToldRight
    <2>5. rows'[id].deleted = rows[id].deleted
      BY <1>1
    <2>6. \A k \in Clerks : Holds(k, id)' => k # h /\ Holds(k, id)
      BY <1>5
    <2>7. (\E k \in Clerks : Holds(k, id)) => \E k \in Clerks : Holds(k, id)'
      BY <1>5, <2>1
    <2>8. \A j, k \in Clerks : Holds(j, id)' /\ Holds(k, id)' => j = k
      BY <1>4, <2>6
    <2>9. \A k \in Clerks : Holds(k, id)' => JobRight(clerk[k], id)'
      BY <1>4, <2>4, <2>6
    <2>10. (\E k \in Clerks : Holds(k, id)') \/ rows'[id].deleted \/ ToldRight(id)'
      BY <1>4, <2>3, <2>5, <2>7
    <2> QED
      BY <2>8, <2>9, <2>10
  <1> QED
    BY <1>6, <1>7

\* Nothing changes of the visits, of what is held and of what was told.
LEMMA SameMessages ==
    ASSUME Messages, Ids' = Ids, \A id \in Ids : RowSame(id), UNCHANGED <<clerk, told, muddled>>
    PROVE  Messages'
  <1> SUFFICES ASSUME NEW id \in Ids, id \notin muddled
               PROVE  /\ \A j, k \in Clerks : Holds(j, id)' /\ Holds(k, id)' => j = k
                      /\ \A k \in Clerks : Holds(k, id)' => JobRight(clerk[k], id)'
                      /\ (\E k \in Clerks : Holds(k, id)') \/ rows'[id].deleted \/ ToldRight(id)'
    BY DEF Messages
  <1>1. \A k \in Clerks : Holds(k, id)' = Holds(k, id) /\ JobRight(clerk[k], id)' = JobRight(clerk[k], id)
    BY SameIsRight DEF Holds, Idle
  <1>2. ToldRight(id)' = ToldRight(id) /\ rows'[id].deleted = rows[id].deleted
    BY SameIsRight DEF RowSame
  <1>3. /\ \A j, k \in Clerks : Holds(j, id) /\ Holds(k, id) => j = k
        /\ \A k \in Clerks : Holds(k, id) => JobRight(clerk[k], id)
        /\ (\E k \in Clerks : Holds(k, id)) \/ rows[id].deleted \/ ToldRight(id)
    BY DEF Messages
  <1> QED
    BY <1>1, <1>2, <1>3

LEMMA StepMessages ==
    ASSUME Shape, Messages, NextAppointments
    PROVE  Messages'
  <1>1. CASE \E h \in Clerks : Works(h) \/ Lets(h)
    BY <1>1, WorkMessages, LetsMessages
  <1>2. CASE Quiet
    BY <1>2, SameMessages DEF Quiet, RowSame, Ids
  <1>3. CASE Sweeps
    BY <1>2, <1>3, SweepIsQuiet
  <1>4. CASE sweepStore
    BY <1>4, PromptStored, SameMessages
  <1>5. CASE \E msg \in DOMAIN asks : costReply(msg)
    BY <1>5, CostReplied, SameMessages
  <1>6. CASE restart
    <2>1. /\ \A h \in Clerks : ~Holds(h, 0)' /\ Idle(h)'
          /\ \A h \in Clerks : ~Idle(h) => clerk[h].ids \subseteq muddled'
          /\ muddled \subseteq muddled' /\ UNCHANGED <<rows, told>>
      BY <1>6 DEF restart, Idle, Free, Holds
    <2> SUFFICES ASSUME NEW id \in Ids, id \notin muddled'
                 PROVE  /\ \A h \in Clerks : ~Holds(h, id)'
                        /\ rows'[id].deleted \/ ToldRight(id)'
      BY <2>1 DEF Messages, Ids
    <2>2. \A h \in Clerks : ~Holds(h, id)
      BY <2>1 DEF Holds
    <2>3. rows[id].deleted \/ ToldRight(id)
      BY <2>1, <2>2 DEF Messages
    <2> QED
      BY <2>1, <2>3 DEF Holds, ToldRight
  <1> QED
    BY <1>1, <1>2, <1>3, <1>4, <1>5, <1>6, StepKinds

-----------------------------------------------------------------------------
(* What is asked of the cost of a visit.                                    *)

\* The visits of these, soonest first.
Sooners(these) == {r \in these \X these : sooner(r[1], r[2])}

LEMMA RowsStart ==
    ASSUME rows \in Seq(Visits)
    PROVE  /\ Len(rows) \in Nat /\ Ids = 1 .. Len(rows) /\ IsFiniteSet(Ids)
           /\ \A id \in Ids : rows[id].starts \in Nat
  <1>1. Len(rows) \in Nat /\ Ids = 1 .. Len(rows)
    BY LenProperties DEF Ids
  <1>2. IsFiniteSet(1 .. Len(rows))
    BY <1>1, FS_Interval
  <1>3. \A id \in Ids : rows[id] \in Visits
    BY <1>1, ElementOfSeq
  <1> QED
    BY <1>1, <1>2, <1>3 DEF Visits

\* The query has each of the visits once, and no other, in that order.
LEMMA SoonestFirstIs ==
    ASSUME rows \in Seq(Visits), NEW these \in SUBSET Ids
    PROVE  LET s == SoonestFirst(these)
           IN  /\ s \in Seq(these) /\ Len(s) = Cardinality(these) /\ Len(s) \in Nat
               /\ DOMAIN s = 1 .. Len(s)
               /\ \A id \in these : \E n \in DOMAIN s : s[n] = id
               /\ \A m, n \in DOMAIN s : m < n <=> sooner(s[m], s[n])
               /\ \A m, n \in DOMAIN s : s[m] = s[n] => m = n
  <1>1. these \subseteq Nat /\ \A id \in these : rows[id].starts \in Nat
    BY RowsStart
  <1>2. IsFiniteSet(these)
    BY RowsStart, FS_Subset
  <1>3. PICK R : R = Sooners(these)
    OBVIOUS
  <1>4. \A a, b \in these : <<a, b>> \in R <=> sooner(a, b)
    BY <1>3 DEF Sooners
  <1>5. /\ \A a \in these : ~sooner(a, a)
        /\ \A a, b \in these : a # b => sooner(a, b) \/ sooner(b, a)
        /\ \A a, b, c \in these : sooner(a, b) /\ sooner(b, c) => sooner(a, c)
    <2>1. \A a \in these : ~sooner(a, a)
      BY <1>1 DEF sooner
    <2>2. \A a, b \in these : a # b => sooner(a, b) \/ sooner(b, a)
      <3> SUFFICES ASSUME NEW a \in these, NEW b \in these, a # b
                   PROVE  sooner(a, b) \/ sooner(b, a)
        OBVIOUS
      <3>1. a \in Nat /\ b \in Nat /\ rows[a].starts \in Nat /\ rows[b].starts \in Nat
        BY <1>1
      <3> QED
        BY <3>1 DEF sooner
    <2>3. \A a, b, c \in these : sooner(a, b) /\ sooner(b, c) => sooner(a, c)
      <3> SUFFICES ASSUME NEW a \in these, NEW b \in these, NEW c \in these,
                          sooner(a, b), sooner(b, c)
                   PROVE  sooner(a, c)
        OBVIOUS
      <3>1. /\ a \in Nat /\ b \in Nat /\ c \in Nat
            /\ rows[a].starts \in Nat /\ rows[b].starts \in Nat /\ rows[c].starts \in Nat
        BY <1>1
      <3> QED
        BY <3>1 DEF sooner
    <2> QED
      BY <2>1, <2>2, <2>3
  <1>6. Orders(R, these)
    BY <1>4, <1>5 DEF Orders
  <1>7. PICK s : s = InOrder(these, R)
    OBVIOUS
  <1>8. s = SoonestFirst(these)
    <2>1. \A a \in these : {b \in these : <<b, a>> \in R} = {b \in these : sooner(b, a)}
      BY <1>4
    <2> DEFINE before(a) == {b \in these : <<b, a>> \in R}
               listed1(m) == CHOOSE a \in these : Cardinality(before(a)) = m
               nth(m) == CHOOSE a \in these : Cardinality({b \in these : sooner(b, a)}) = m
    <2>2. \A m : listed1(m) = nth(m)
      BY <2>1, Zenon
    <2>3. InOrder(these, R) = [n \in 1 .. Cardinality(these) |-> listed1(n - 1)]
      BY DEF InOrder
    <2>4. SoonestFirst(these) = [n \in 1 .. Cardinality(these) |-> nth(n - 1)]
      BY DEF SoonestFirst
    <2> HIDE DEF listed1, nth, before
    <2> QED
      BY <1>7, <2>2, <2>3, <2>4
  <1>9. /\ s \in Seq(these) /\ Len(s) = Cardinality(these) /\ Len(s) \in Nat
        /\ DOMAIN s = 1 .. Len(s)
        /\ \A id \in these : \E n \in DOMAIN s : s[n] = id
        /\ \A m, n \in DOMAIN s : m < n <=> <<s[m], s[n]>> \in R
    BY <1>2, <1>6, <1>7, InOrderIs
  <1>10. \A n \in DOMAIN s : s[n] \in these
    BY <1>9, ElementOfSeq
  <1>11. \A m, n \in DOMAIN s : m < n <=> sooner(s[m], s[n])
    BY <1>4, <1>9, <1>10
  <1>12. \A m, n \in DOMAIN s : s[m] = s[n] => m = n
    <2> SUFFICES ASSUME NEW m \in DOMAIN s, NEW n \in DOMAIN s, s[m] = s[n], m # n
                 PROVE  FALSE
      OBVIOUS
    <2>1. m < n \/ n < m
      BY <1>9
    <2> QED
      BY <1>5, <1>10, <1>11, <2>1
  <1> QED
    BY <1>8, <1>9, <1>11, <1>12

\* A pass has each visit that is due once, and no other.
LEMMA OrderingIsPass ==
    ASSUME Shape, NEW due \in SUBSET Ids, due # {}
    PROVE  LET left == SoonestFirst(due)
           IN  /\ left \in Seq(Ids) /\ left # <<>>
               /\ \A m, n \in DOMAIN left : left[m] = left[n] => m = n
               /\ \A i \in DOMAIN left : left[i] \in due
  <1>1. PICK left : left = SoonestFirst(due)
    OBVIOUS
  <1>2. /\ left \in Seq(due) /\ DOMAIN left = 1 .. Len(left) /\ Len(left) \in Nat
        /\ \A id \in due : \E n \in DOMAIN left : left[n] = id
        /\ \A m, n \in DOMAIN left : left[m] = left[n] => m = n
    BY <1>1, SoonestFirstIs DEF Shape
  <1>3. left \in Seq(Ids)
    BY <1>2, SeqMonotonic
  <1>4. \A i \in DOMAIN left : left[i] \in due
    BY <1>2, ElementOfSeq
  <1>5. left # <<>>
    <2>1. Len(left) # 0
      BY <1>2
    <2> QED
      BY <2>1, EmptySeq
  <1> QED
    BY <1>1, <1>2, <1>3, <1>4, <1>5

\* The pass goes on to the next visit.
LEMMA NextIsPass ==
    ASSUME Shape, sweep.step # "free", sweepNext
    PROVE  \/ sweep' = Free
           \/ /\ sweep' = [step |-> "post", left |-> Tail(sweep.left)]
              /\ Tail(sweep.left) \in Seq(Ids) /\ Tail(sweep.left) # <<>>
              /\ \A m, n \in DOMAIN Tail(sweep.left) : Tail(sweep.left)[m] = Tail(sweep.left)[n] => m = n
              /\ \A i \in DOMAIN Tail(sweep.left) :
                    i + 1 \in DOMAIN sweep.left /\ Tail(sweep.left)[i] = sweep.left[i + 1]
  <1> DEFINE left == sweep.left
             rest == Tail(left)
  <1>1. /\ left \in Seq(Ids) /\ left # <<>>
        /\ DOMAIN left = 1 .. Len(left) /\ Len(left) \in Nat \ {0}
        /\ \A m, n \in DOMAIN left : left[m] = left[n] => m = n
    BY SweepHead DEF Shape, PassOK
  <1>2. sweep' = IF Len(left) = 1 THEN Free ELSE [step |-> "post", left |-> rest]
    BY DEF sweepNext, Sweep
  <1> HIDE DEF left
  <1>3. rest \in Seq(Ids) /\ Len(rest) = Len(left) - 1 /\ \A i \in 1 .. Len(rest) : rest[i] = left[i + 1]
    BY <1>1, HeadTailProperties
  <1> HIDE DEF rest
  <1>4. DOMAIN rest = 1 .. Len(rest)
    BY <1>3, LenProperties
  <1>5. \A i \in DOMAIN rest : i + 1 \in DOMAIN left /\ rest[i] = left[i + 1]
    BY <1>1, <1>3, <1>4
  <1>6. \A m, n \in DOMAIN rest : rest[m] = rest[n] => m = n
    BY <1>1, <1>3, <1>4, <1>5
  <1>7. Len(left) # 1 => rest # <<>>
    BY <1>1, <1>3, EmptySeq
  <1> QED
    BY <1>2, <1>3, <1>5, <1>6, <1>7 DEF left, rest

LEMMA SweepPassesOn ==
    ASSUME Shape, sweepPostFails \/ sweepStore \/ sweepStoreFails
    PROVE  sweep.step # "free" /\ sweepNext
  BY DEF sweepPostFails, sweepStore, sweepStoreFails

\* The pass after any step: it is as it was, or an ordering of visits.
LEMMA StepPass ==
    ASSUME Shape, NextAppointments, Ids \subseteq Ids'
    PROVE  PassOK'
  <1> DEFINE IsPass(t) ==
               \/ t.step = "free"
               \/ /\ t.step \in {"post", "store"}
                  /\ t = [step |-> t.step, left |-> t.left]
                  /\ t.left \in Seq(Ids') /\ t.left # <<>>
                  /\ \A m, n \in DOMAIN t.left : t.left[m] = t.left[n] => m = n
  <1>1. \A q \in Seq(Ids) : q \in Seq(Ids')
    BY SeqMonotonic
  <1>2. CASE UNCHANGED costs
    BY <1>1, <1>2 DEF Shape, PassOK, costs
  <1>3. CASE sweepRead
    <2>1. PICK due \in SUBSET Ids : due # {} /\ Sweep([step |-> "post", left |-> SoonestFirst(due)])
      BY <1>3 DEF sweepRead, AppointmentsAwaitingCost
    <2>2. PICK left : left = SoonestFirst(due) /\ sweep' = [step |-> "post", left |-> left]
      BY <2>1 DEF Sweep
    <2>3. left \in Seq(Ids) /\ left # <<>> /\ \A m, n \in DOMAIN left : left[m] = left[n] => m = n
      BY <2>1, <2>2, OrderingIsPass
    <2> QED
      BY <1>1, <2>2, <2>3 DEF PassOK
  <1>4. CASE sweepPost
    <2>1. /\ sweep = [step |-> "post", left |-> sweep.left]
          /\ sweep.left \in Seq(Ids) /\ sweep.left # <<>>
          /\ \A m, n \in DOMAIN sweep.left : sweep.left[m] = sweep.left[n] => m = n
      BY <1>4 DEF Shape, PassOK, sweepPost
    <2> DEFINE left == sweep.left
    <2>2. sweep' = [sweep EXCEPT !.step = "store"] /\ sweep = [step |-> "post", left |-> left]
      BY <1>4, <2>1 DEF sweepPost, Sweep
    <2> HIDE DEF left
    <2>3. sweep' = [step |-> "store", left |-> left]
      BY <2>2
    <2>4. /\ left \in Seq(Ids) /\ left # <<>>
          /\ \A m, n \in DOMAIN left : left[m] = left[n] => m = n
      BY <2>1 DEF left
    <2> QED
      BY <1>1, <2>3, <2>4 DEF PassOK
  <1>5. CASE sweepPostFails \/ sweepStore \/ sweepStoreFails
    <2> DEFINE rest == Tail(sweep.left)
    <2>1. \/ sweep' = Free
          \/ /\ sweep' = [step |-> "post", left |-> rest]
             /\ rest \in Seq(Ids) /\ rest # <<>>
             /\ \A m, n \in DOMAIN rest : rest[m] = rest[n] => m = n
      BY <1>5, SweepPassesOn, NextIsPass
    <2> HIDE DEF rest
    <2> QED
      BY <1>1, <2>1 DEF PassOK, Free
  <1>6. CASE restart
    BY <1>6 DEF restart, PassOK, Free
  <1>7. CASE \E h \in Clerks : Works(h) \/ Lets(h)
    BY <1>2, <1>7, LetsIsDone DEF Works
  <1>8. CASE \E msg \in DOMAIN asks : costReply(msg)
    BY <1>2, <1>8, CostReplied
  <1> QED
    BY <1>2, <1>3, <1>4, <1>5, <1>6, <1>7, <1>8, StepKinds DEF Sweeps

\* No row's question and no question is touched.
LEMMA SameQuestions ==
    ASSUME Shape, Questions, \A o \in Ids : rows'[o].prompt = rows[o].prompt, UNCHANGED costs
    PROVE  Questions'
  <1>1. UNCHANGED <<asks, sweep, torn>>
    BY DEF costs
  <1>2. \A m \in DOMAIN asks : asks[m] \in Ids
    BY LenProperties, ElementOfSeq DEF Shape
  <1>3. sweep.step # "free" => \A i \in DOMAIN sweep.left : sweep.left[i] \in Ids
    BY SweepHead, ElementOfSeq
  <1> QED
    BY <1>1, <1>2, <1>3 DEF Questions

\* A question that is posted asks of the first visit of the pass.
LEMMA PostQuestions ==
    ASSUME Shape, Questions, sweepPost
    PROVE  Questions'
  <1> DEFINE id == Head(sweep.left)
  <1>1. /\ sweep.step = "post" /\ sweep' = [sweep EXCEPT !.step = "store"]
        /\ asks' = Append(asks, id) /\ UNCHANGED <<rows, torn>>
    BY DEF sweepPost, Sweep
  <1>2. id \in Ids /\ asks \in Seq(Ids)
    BY <1>1, SweepHead DEF Shape
  <1> HIDE DEF id
  <1>3. /\ Len(asks') = Len(asks) + 1 /\ asks' # <<>> /\ asks' \in Seq(Ids)
        /\ \A i \in 1 .. Len(asks) : asks'[i] = asks[i]
        /\ asks'[Len(asks) + 1] = id
    BY <1>1, <1>2, AppendProperties
  <1>4. /\ DOMAIN asks = 1 .. Len(asks) /\ Len(asks) \in Nat
        /\ DOMAIN asks' = 1 .. Len(asks) + 1
    BY <1>2, <1>3, LenProperties
  <1>5. sweep'.step = "store" /\ sweep'.left = sweep.left
    <2>1. sweep = [step |-> "post", left |-> sweep.left]
      BY <1>1 DEF Shape, PassOK
    <2> QED
      BY <1>1, <2>1
  <1>6. torn \subseteq DOMAIN asks
    BY DEF Shape
  <1>7. \A m \in DOMAIN asks \ torn : rows[asks[m]].prompt = m
    BY <1>1 DEF Questions
  <1>8. \A i \in DOMAIN sweep.left : rows[sweep.left[i]].prompt = NoMsg
    BY <1>1 DEF Questions
  <1>9. ASSUME NEW m \in DOMAIN asks' \ torn'
        PROVE  rows'[asks'[m]].prompt = m \/ m = Len(asks')
    BY <1>1, <1>3, <1>4, <1>7, <1>9
  <1>10. asks'[Len(asks')] = Head(sweep'.left) /\ Len(asks') \notin torn'
    BY <1>1, <1>3, <1>4, <1>5, <1>6 DEF id
  <1> QED
    BY <1>1, <1>3, <1>5, <1>8, <1>9, <1>10 DEF Questions

\* The id of a question is stored: no other question asks of the visit.
LEMMA StoreQuestions ==
    ASSUME Shape, Questions, sweepStore
    PROVE  Questions'
  <1> DEFINE id == Head(sweep.left)
             rest == Tail(sweep.left)
  <1>1. /\ \A o \in Ids : rows'[o].prompt = IF o = id THEN Len(asks) ELSE rows[o].prompt
        /\ UNCHANGED <<asks, torn>>
    BY PromptStored
  <1>2. sweep.step = "store"
    BY DEF sweepStore
  <1>3. /\ sweep.left \in Seq(Ids) /\ id \in Ids /\ id = sweep.left[1] /\ 1 \in DOMAIN sweep.left
        /\ \A m, n \in DOMAIN sweep.left : sweep.left[m] = sweep.left[n] => m = n
        /\ \A i \in DOMAIN sweep.left : sweep.left[i] \in Ids
    BY <1>2, SweepHead, ElementOfSeq DEF Shape, PassOK
  <1>4. /\ \A m \in DOMAIN asks \ torn : rows[asks[m]].prompt = m \/ m = Len(asks)
        /\ \A i \in DOMAIN sweep.left : rows[sweep.left[i]].prompt = NoMsg
        /\ asks[Len(asks)] = id
    BY <1>2 DEF Questions
  <1>5. \A m \in DOMAIN asks : asks[m] \in Ids /\ m # NoMsg
    BY LenProperties, ElementOfSeq DEF Shape, NoMsg
  <1>6. \/ sweep' = Free
        \/ /\ sweep' = [step |-> "post", left |-> rest]
           /\ \A i \in DOMAIN rest : i + 1 \in DOMAIN sweep.left /\ rest[i] = sweep.left[i + 1]
    BY <1>2, SweepPassesOn, NextIsPass
  <1>7. ASSUME NEW m \in DOMAIN asks \ torn
        PROVE  rows'[asks[m]].prompt = m
    <2>1. CASE m = Len(asks)
      BY <1>1, <1>3, <1>4, <2>1
    <2>2. CASE m # Len(asks)
      <3>1. rows[asks[m]].prompt = m /\ asks[m] \in Ids /\ m # NoMsg
        BY <1>4, <1>5, <1>7, <2>2
      <3>2. asks[m] # id
        BY <1>3, <1>4, <3>1
      <3> QED
        BY <1>1, <3>1, <3>2
    <2> QED
      BY <2>1, <2>2
  <1>8. ASSUME NEW i \in DOMAIN rest, sweep' = [step |-> "post", left |-> rest]
        PROVE  rows'[rest[i]].prompt = NoMsg
    <2>1. i + 1 \in DOMAIN sweep.left /\ rest[i] = sweep.left[i + 1]
      BY <1>6, <1>8, Zenon DEF Free
    <2>2. i \in Nat \ {0}
      <3>1. rest \in Seq(Ids)
        BY <1>3, HeadTailProperties, SweepHead, <1>2
      <3> QED
        BY <3>1, LenProperties
    <2>3. rest[i] \in Ids /\ rest[i] # id
      BY <1>3, <2>1, <2>2
    <2> QED
      BY <1>1, <1>4, <2>1, <2>3
  <1> HIDE DEF id, rest
  <1>9. sweep'.step # "store" /\ (sweep'.step # "free" => sweep' = [step |-> "post", left |-> rest])
    BY <1>6 DEF Free
  <1>10. sweep'.step # "free" => \A i \in DOMAIN sweep'.left : rows'[sweep'.left[i]].prompt = NoMsg
    BY <1>8, <1>9
  <1> QED
    BY <1>1, <1>7, <1>9, <1>10 DEF Questions

LEMMA StepQuestions ==
    ASSUME Shape, Questions, NextAppointments
    PROVE  Questions'
  <1>1. CASE \E h \in Clerks : Works(h)
    BY <1>1, SameQuestions DEF Works
  <1>2. CASE \E h \in Clerks : Lets(h)
    BY <1>2, LetsIsDone, SameQuestions
  <1>3. CASE Quiet /\ UNCHANGED <<costs, boot>>
    BY <1>3, SameQuestions DEF Quiet
  <1>4. CASE sweepRead
    <2>1. PICK due \in SUBSET Ids :
            /\ due # {} /\ \A o \in due : rows[o].prompt = NoMsg
            /\ Sweep([step |-> "post", left |-> SoonestFirst(due)])
      BY <1>4 DEF sweepRead, AppointmentsAwaitingCost
    <2>2. PICK left : left = SoonestFirst(due) /\ sweep' = [step |-> "post", left |-> left]
      BY <2>1 DEF Sweep
    <2>3. \A i \in DOMAIN left : rows[left[i]].prompt = NoMsg
      BY <2>1, <2>2, OrderingIsPass
    <2>4. sweep.step = "free" /\ UNCHANGED <<rows, asks, torn>>
      BY <1>4 DEF sweepRead
    <2> QED
      BY <2>2, <2>3, <2>4 DEF Questions
  <1>5. CASE sweepPost
    BY <1>5, PostQuestions
  <1>6. CASE sweepPostFails \/ sweepStoreFails
    <2> DEFINE rest == Tail(sweep.left)
    <2>1. \/ sweep' = Free
          \/ /\ sweep' = [step |-> "post", left |-> rest]
             /\ \A i \in DOMAIN rest : i + 1 \in DOMAIN sweep.left /\ rest[i] = sweep.left[i + 1]
      BY <1>6, SweepPassesOn, NextIsPass
    <2>2. /\ UNCHANGED <<rows, asks>> /\ sweep.step # "free" /\ torn \subseteq torn'
          /\ sweep.step = "store" => Len(asks) \in torn'
      BY <1>6 DEF sweepPostFails, sweepStoreFails
    <2> HIDE DEF rest
    <2>3. /\ sweep'.step # "store"
          /\ sweep'.step # "free" =>
                /\ sweep'.left = rest
                /\ \A i \in DOMAIN rest : i + 1 \in DOMAIN sweep.left /\ rest[i] = sweep.left[i + 1]
      <3>1. CASE sweep' = Free
        BY <3>1 DEF Free
      <3>2. CASE sweep' # Free
        BY <2>1, <3>2
      <3> QED
        BY <3>1, <3>2
    <2>4. \A m \in DOMAIN asks' \ torn' : rows'[asks'[m]].prompt = m
      BY <2>2 DEF Questions
    <2>5. \A i \in DOMAIN sweep.left : rows[sweep.left[i]].prompt = NoMsg
      BY <2>2 DEF Questions
    <2>6. ASSUME sweep'.step # "free"
          PROVE  \A i \in DOMAIN sweep'.left : rows'[sweep'.left[i]].prompt = NoMsg
      <3>1. sweep'.left = rest
        BY <2>3, <2>6
      <3>2. \A i \in DOMAIN rest : i + 1 \in DOMAIN sweep.left /\ rest[i] = sweep.left[i + 1]
        BY <2>3, <2>6
      <3> QED
        BY <2>2, <2>5, <3>1, <3>2
    <2> QED
      BY <2>3, <2>4, <2>6 DEF Questions
  <1>7. CASE sweepStore
    BY <1>7, StoreQuestions
  <1>8. CASE \E msg \in DOMAIN asks : costReply(msg)
    BY <1>8, CostReplied, SameQuestions
  <1>9. CASE restart
    BY <1>9 DEF restart, Questions, Free
  <1> QED
    BY <1>1, <1>2, <1>3, <1>4, <1>5, <1>6, <1>7, <1>8, <1>9, StepKinds DEF Sweeps

-----------------------------------------------------------------------------
(* Cards and questions.                                                     *)

LEMMA TellingBot ==
    ASSUME NEW h \in Clerks, Telling(h) \/ FormsOf(h)
    PROVE  UNCHANGED <<bot, boot>>
  <1>1. CASE Telling(h)
    BY <1>1 DEF Telling, mirrorToGroup, answerInGroup, announce, Told, announceFails
  <1>2. CASE WebCreate(h) \/ MiniCreate(h)
    BY <1>2 DEF WebCreate, MiniCreate, Create
  <1>3. CASE WebUpdate(h) \/ MiniUpdate(h)
    BY <1>3 DEF WebUpdate, MiniUpdate, UpdateRead
  <1>4. CASE WebDelete(h) \/ MiniDelete(h)
    BY <1>4 DEF WebDelete, MiniDelete, Delete
  <1>5. CASE MiniStatus(h)
    BY <1>5 DEF MiniStatus, SetStatusRead
  <1>6. CASE UpdateWrite(h) \/ SetStatusWrite(h)
    BY <1>6 DEF UpdateWrite, SetStatusWrite
  <1> QED
    BY <1>1, <1>2, <1>3, <1>4, <1>5, <1>6 DEF FormsOf

LEMMA CostsBot ==
    ASSUME Costs \/ Tick
    PROVE  UNCHANGED <<bot, boot>>
  <1>1. CASE Sweeps
    BY <1>1, SweepIsQuiet
  <1>2. CASE sweepStore
    BY <1>2 DEF sweepStore, sweepNext, Sweep
  <1>3. CASE \E msg \in DOMAIN asks : costReply(msg) \/ \E h \in Clerks : onCostButton(h, msg)
    BY <1>3 DEF costReply, onCostButton
  <1>4. CASE Tick
    BY <1>4 DEF Tick
  <1> QED
    BY <1>1, <1>2, <1>3, <1>4 DEF Costs, Sweeps

\* What a parsed text becomes.
LEMMA CaptureItems ==
    ASSUME Shape, NEW u \in Users, NEW text \in Captures, captureText(u, text)
    PROVE  \E items \in Seq(Item), update \in {0} \cup Ids :
              put(items, update) /\ (update # 0 => Len(items) = 1)
  <1> DEFINE items == resolvePerson(text, u)
             update == IF Len(items) = 1 THEN existingAt(items[1].starts) ELSE 0
  <1>1. text \in Seq(Item)
    BY AppointmentsAssumption DEF AppointmentsAssumption
  <1>2. DOMAIN text = 1 .. Len(text) /\ Len(text) \in Nat /\ \A i \in DOMAIN text : text[i] \in Item
    BY <1>1, LenProperties, ElementOfSeq
  <1>3. ASSUME NEW a \in Item
        PROVE  [a EXCEPT !.person = IF @ \in {"", Self} THEN u ELSE @] \in Item
    BY <1>3 DEF Item
  <1>4. items \in [1 .. Len(text) -> Item]
    BY <1>2, <1>3 DEF resolvePerson
  <1>5. items \in Seq(Item)
    BY <1>2, <1>4, SeqDef
  <1>6. \A t : existingAt(t) \in {0} \cup Ids
    <2> SUFFICES ASSUME NEW t PROVE existingAt(t) \in {0} \cup Ids
      OBVIOUS
    <2> DEFINE batch == ActiveAppointmentsAt(t)
    <2>1. batch \subseteq Ids
      BY DEF ActiveAppointmentsAt
    <2>2. CASE batch = {}
      <3>1. Cardinality(batch) # 1
        BY <2>2, FS_EmptySet
      <3> HIDE DEF batch
      <3> QED
        BY <3>1 DEF existingAt, batch
    <2>3. CASE batch # {}
      <3>1. (CHOOSE id \in batch : TRUE) \in Ids
        BY <2>1, <2>3
      <3> QED
        BY <3>1 DEF existingAt
    <2> QED
      BY <2>2, <2>3
  <1>7. update \in {0} \cup Ids /\ (update # 0 => Len(items) = 1)
    BY <1>6
  <1>8. put(items, update)
    BY DEF captureText
  <1> QED
    BY <1>5, <1>7, <1>8

\* What a step does to the cards and to what is kept behind their keys.
LEMMA StepCards ==
    ASSUME Shape, NextAppointments
    PROVE  \/ UNCHANGED <<pending, cards, boot>>
           \/ /\ UNCHANGED <<boot, rows>>
              /\ \E items \in Seq(Item), update \in {0} \cup Ids :
                    put(items, update) /\ (update # 0 => Len(items) = 1)
           \/ UNCHANGED boot /\ \E c \in DOMAIN cards : take(c)
           \/ restart
  <1>1. CASE \E h \in Clerks : Telling(h) \/ FormsOf(h)
    BY <1>1, TellingBot DEF bot
  <1>2. CASE \E h \in Clerks : CardsOf(h)
    BY <1>2 DEF CardsOf, onCancel, onSave, onUpdate
  <1>3. CASE \E h \in Clerks : EditsOf(h)
    <2>1. ASSUME NEW h \in Clerks, NEW u \in Users, NEW chat \in Chats,
                 applyFieldEdit(h, u, chat) \/ rescheduleAsk(h, u, chat)
          PROVE  UNCHANGED <<pending, cards, boot>>
      BY <2>1 DEF applyFieldEdit, rescheduleAsk
    <2>2. ASSUME NEW h \in Clerks, applyReschedule(h) \/ rescheduleRetry(h) \/ onDel(h)
          PROVE  UNCHANGED <<pending, cards, boot>>
      BY <2>2 DEF applyReschedule, rescheduleRetry, onDel, bot
    <2> QED
      BY <1>3, <2>1, <2>2 DEF EditsOf
  <1>4. CASE \E u \in Users : cmdVisit(u) \/ onTextCapture(u)
    <2>1. PICK u \in Users, text \in Captures : captureText(u, text)
      BY <1>4 DEF cmdVisit, onTextCapture
    <2>2. UNCHANGED <<boot, rows>>
      BY <2>1 DEF captureText
    <2> QED
      BY <2>1, <2>2, CaptureItems
  <1>5. CASE \E u \in Users : askMeal(u) \/ answerMeal(u) \/ onArm(u)
    BY <1>5 DEF askMeal, answerMeal, onArm
  <1>6. CASE cmdList \/ onNav \/ \E chat \in Chats : closeList(chat)
    BY <1>6 DEF cmdList, onNav, Turned, closeList
  <1>7. CASE Costs \/ Tick
    BY <1>7, CostsBot DEF bot
  <1> QED
    BY <1>1, <1>2, <1>3, <1>4, <1>5, <1>6, <1>7 DEF NextAppointments, Talk

\* The cards of a process once one is posted.
LEMMA PostedCard ==
    ASSUME Shape, NEW items \in Seq(Item), NEW update \in {0} \cup Ids, put(items, update)
    PROVE  /\ NextKey \in Nat
           /\ cards' = Append(cards, Card(NextKey, items, update))
           /\ cards' \in Seq(CardRecord)
           /\ DOMAIN cards = 1 .. Len(cards) /\ DOMAIN cards' = 1 .. Len(cards) + 1 /\ Len(cards) \in Nat
           /\ \A i \in DOMAIN cards : cards'[i] = cards[i]
           /\ cards'[Len(cards) + 1] = Card(NextKey, items, update)
           /\ IsFiniteSet(OfBoot(boot)) /\ NextKey = Cardinality(OfBoot(boot)) + 1
  <1> DEFINE key == NextKey
             card == Card(key, items, update)
  <1>1. DOMAIN cards = 1 .. Len(cards) /\ Len(cards) \in Nat /\ cards \in Seq(CardRecord)
    BY LenProperties DEF Shape
  <1>2. IsFiniteSet(OfBoot(boot))
    <2>1. OfBoot(boot) \subseteq 1 .. Len(cards) /\ IsFiniteSet(1 .. Len(cards))
      BY <1>1, FS_Interval DEF OfBoot
    <2> QED
      BY <2>1, FS_Subset
  <1>3. key = Cardinality(OfBoot(boot)) + 1 /\ key \in Nat
    BY <1>2, FS_CardinalityType DEF NextKey, OfBoot
  <1>4. cards' = Append(cards, card)
    BY DEF put
  <1>5. update \in Nat /\ boot \in Nat
    BY IdsAre DEF Shape
  <1> HIDE DEF key
  <1>6. card \in CardRecord
    BY <1>3, <1>5 DEF Card, CardRecord
  <1> HIDE DEF card
  <1>7. /\ cards' \in Seq(CardRecord) /\ Len(cards') = Len(cards) + 1
        /\ \A i \in 1 .. Len(cards) : cards'[i] = cards[i]
        /\ cards'[Len(cards) + 1] = card
    BY <1>1, <1>4, <1>6, AppendProperties
  <1>8. DOMAIN cards' = 1 .. Len(cards) + 1
    BY <1>7, LenProperties
  <1> QED
    BY <1>1, <1>2, <1>3, <1>4, <1>7, <1>8 DEF key, card

\* A card is taken: nothing is kept behind its key.
LEMMA TakenCard ==
    ASSUME Shape, NEW c \in DOMAIN cards, take(c)
    PROVE  /\ cards' \in Seq(CardRecord) /\ DOMAIN cards' = DOMAIN cards
           /\ \A i \in DOMAIN cards : i # c => cards'[i] = cards[i]
           /\ cards'[c].key = cards[c].key /\ cards'[c].boot = cards[c].boot
           /\ DOMAIN pending' = DOMAIN pending \ {cards[c].key}
           /\ \A k \in DOMAIN pending' : pending'[k] = pending[k]
  <1> DEFINE card == [cards[c] EXCEPT !.used = TRUE]
  <1>1. cards \in Seq(CardRecord) /\ DOMAIN cards = 1 .. Len(cards) /\ cards[c] \in CardRecord
    BY LenProperties, ElementOfSeq DEF Shape
  <1>2. card \in CardRecord /\ card.key = cards[c].key /\ card.boot = cards[c].boot
    BY <1>1 DEF CardRecord
  <1>3. cards' = [cards EXCEPT ![c] = card]
    BY DEF take
  <1> HIDE DEF card
  <1>4. /\ cards' \in Seq(CardRecord) /\ Len(cards') = Len(cards)
        /\ \A i \in 1 .. Len(cards) : cards'[i] = IF i = c THEN card ELSE cards[i]
    BY <1>1, <1>2, <1>3, ExceptSeq
  <1>5. DOMAIN cards' = DOMAIN cards
    BY <1>1, <1>4, LenProperties
  <1>6. /\ DOMAIN pending' = DOMAIN pending \ {cards[c].key}
        /\ \A k \in DOMAIN pending' : pending'[k] = pending[k]
    BY DEF take, Without
  <1> QED
    BY <1>1, <1>2, <1>4, <1>5, <1>6

LEMMA PutKeys ==
    ASSUME Shape, Keys, NEW items \in Seq(Item), NEW update \in {0} \cup Ids, put(items, update),
           UNCHANGED boot
    PROVE  Keys'
  <1> DEFINE key == NextKey
             new == Len(cards) + 1
             mine == OfBoot(boot)
  <1>1. /\ key \in Nat /\ key = Cardinality(mine) + 1 /\ IsFiniteSet(mine)
        /\ DOMAIN cards = 1 .. Len(cards) /\ DOMAIN cards' = 1 .. new /\ Len(cards) \in Nat
        /\ \A i \in DOMAIN cards : cards'[i] = cards[i]
        /\ cards'[new] = Card(key, items, update)
    BY PostedCard
  <1>2. /\ cards'[new].key = key /\ cards'[new].items = items /\ cards'[new].update = update
        /\ cards'[new].boot = boot /\ cards'[new].used = FALSE
    BY <1>1 DEF Card
  <1>3. /\ key \in DOMAIN pending'
        /\ pending'[key] = [items |-> items, update |-> update, created |-> moment]
        /\ \A k \in DOMAIN pending' : k # key => k \in DOMAIN pending /\ pending'[k] = pending[k]
    BY DEF put, Without
  <1> HIDE DEF key
  <1>4. DOMAIN cards' = DOMAIN cards \cup {new} /\ new \notin DOMAIN cards
    BY <1>1
  <1>5. OfBoot(boot)' = mine \cup {new} /\ new \notin mine
    BY <1>1, <1>2, <1>4 DEF OfBoot
  <1>6. Cardinality(OfBoot(boot)') = key
    BY <1>1, <1>5, FS_AddElement
  <1>7. /\ \A c \in DOMAIN cards : cards[c].boot <= boot
        /\ \A c \in mine : cards[c].key <= Cardinality(mine)
        /\ PendingIsTheCard
    BY DEF Keys
  <1>8. boot \in Nat /\ \A c \in DOMAIN cards : cards[c].key \in Nat
    <2>1. \A c \in DOMAIN cards : cards[c] \in CardRecord
      BY <1>1, ElementOfSeq DEF Shape
    <2> QED
      BY <2>1 DEF CardRecord, Shape
  <1>9. Cardinality(mine) \in Nat
    BY <1>1, FS_CardinalityType
  <1>10. \A c \in DOMAIN cards' : cards'[c].boot <= boot'
    BY <1>1, <1>2, <1>4, <1>7, <1>8
  <1> HIDE DEF mine, new
  <1>11. \A c \in mine : c \in DOMAIN cards /\ cards[c].key < key
    <2>1. \A c \in mine : c \in DOMAIN cards
      BY DEF mine, OfBoot
    <2> QED
      BY <1>1, <1>7, <1>8, <1>9, <2>1
  <1>12. \A c \in OfBoot(boot)' : cards'[c].key <= key
    BY <1>1, <1>2, <1>5, <1>8, <1>11
  <1>13. ASSUME NEW c \in DOMAIN cards', cards'[c].boot = boot', cards'[c].key \in DOMAIN pending'
         PROVE  /\ ~cards'[c].used
                /\ pending'[cards'[c].key].items = cards'[c].items
                /\ pending'[cards'[c].key].update = cards'[c].update
    <2>1. CASE c = new
      BY <1>2, <1>3, <2>1
    <2>2. CASE c # new
      <3>1. c \in DOMAIN cards /\ cards'[c] = cards[c] /\ cards[c].boot = boot
        BY <1>1, <1>4, <1>13, <2>2
      <3>2. cards[c].key < key
        BY <1>11, <3>1 DEF mine, OfBoot
      <3>3. cards[c].key \in DOMAIN pending /\ pending'[cards[c].key] = pending[cards[c].key]
        BY <1>1, <1>3, <1>8, <1>13, <3>1, <3>2
      <3> QED
        BY <1>7, <3>1, <3>3 DEF PendingIsTheCard
    <2> QED
      BY <2>1, <2>2
  <1> QED
    BY <1>6, <1>10, <1>12, <1>13 DEF Keys, PendingIsTheCard

LEMMA TakeKeys ==
    ASSUME Shape, Keys, NEW c \in DOMAIN cards, take(c), UNCHANGED boot
    PROVE  Keys'
  <1>1. /\ DOMAIN cards' = DOMAIN cards
        /\ \A i \in DOMAIN cards : i # c => cards'[i] = cards[i]
        /\ cards'[c].key = cards[c].key /\ cards'[c].boot = cards[c].boot
        /\ DOMAIN pending' = DOMAIN pending \ {cards[c].key}
        /\ \A k \in DOMAIN pending' : pending'[k] = pending[k]
    BY TakenCard
  <1>2. \A i \in DOMAIN cards : cards'[i].key = cards[i].key /\ cards'[i].boot = cards[i].boot
    BY <1>1
  <1>3. OfBoot(boot)' = OfBoot(boot)
    BY <1>1, <1>2 DEF OfBoot
  <1>4. \A i \in OfBoot(boot) : i \in DOMAIN cards
    BY DEF OfBoot
  <1>5. PendingIsTheCard'
    <2> SUFFICES ASSUME NEW i \in DOMAIN cards', cards'[i].boot = boot', cards'[i].key \in DOMAIN pending'
                 PROVE  /\ ~cards'[i].used
                        /\ pending'[cards'[i].key].items = cards'[i].items
                        /\ pending'[cards'[i].key].update = cards'[i].update
      BY DEF PendingIsTheCard
    <2>1. i # c /\ i \in DOMAIN cards /\ cards'[i] = cards[i]
      BY <1>1, <1>2
    <2>2. cards[i].key \in DOMAIN pending /\ pending'[cards[i].key] = pending[cards[i].key]
      BY <1>1, <2>1
    <2> QED
      BY <2>1, <2>2 DEF Keys, PendingIsTheCard
  <1> QED
    BY <1>1, <1>2, <1>3, <1>4, <1>5 DEF Keys

LEMMA StepKeys ==
    ASSUME Shape, Keys, NextAppointments
    PROVE  Keys'
  <1>1. CASE UNCHANGED <<pending, cards, boot>>
    BY <1>1 DEF Keys, OfBoot, PendingIsTheCard
  <1>2. CASE restart
    <2>1. boot' = boot + 1 /\ UNCHANGED cards /\ DOMAIN pending' = {}
      BY <1>2 DEF restart
    <2>2. /\ boot \in Nat
          /\ \A c \in DOMAIN cards : cards[c].boot \in Nat /\ cards[c].boot <= boot
      <3>1. \A c \in DOMAIN cards : cards[c] \in CardRecord
        BY LenProperties, ElementOfSeq DEF Shape
      <3> QED
        BY <3>1 DEF CardRecord, Shape, Keys
    <2>3. \A c \in DOMAIN cards' : cards'[c].boot <= boot' /\ cards'[c].boot # boot'
      BY <2>1, <2>2
    <2> QED
      BY <2>1, <2>3 DEF Keys, OfBoot, PendingIsTheCard
  <1> QED
    BY <1>1, <1>2, StepCards, PutKeys, TakeKeys

\* A question that may be put: about a meal, or about a visit of the table.
MayAsk(q) ==
    \/ q.kind = "meal"
    \/ q.kind = "edit" /\ q.id \in Ids /\ q.field \in {"time", "title", "who"}

LEMMA EditMayAsk ==
    ASSUME NEW id \in Ids, NEW field \in {"time", "title", "who"}
    PROVE  MayAsk(EditOf(id, field))
  BY DEF MayAsk, EditOf

\* What a step does to the questions.
LEMMA StepAwaiting ==
    ASSUME Shape, NextAppointments
    PROVE  \/ UNCHANGED <<awaiting, asked>>
           \/ UNCHANGED rows /\ \E u \in Users : \E q : MayAsk(q) /\ ask(u, q)
           \/ \E u \in Users, kinds \in SUBSET {"meal", "edit"} : takeKind(u, kinds)
           \/ restart
  <1>1. CASE \E h \in Clerks : Telling(h) \/ FormsOf(h)
    BY <1>1, TellingBot DEF bot
  <1>2. CASE \E h \in Clerks : CardsOf(h)
    BY <1>2 DEF CardsOf, onCancel, onSave, onUpdate
  <1>3. ASSUME NEW h \in Clerks, NEW u \in Users, NEW chat \in Chats,
               applyFieldEdit(h, u, chat) \/ rescheduleAsk(h, u, chat)
        PROVE  takeKind(u, {"edit"})
    BY <1>3 DEF applyFieldEdit, rescheduleAsk
  <1>4. ASSUME NEW h \in Clerks, applyReschedule(h) \/ onDel(h)
        PROVE  UNCHANGED <<awaiting, asked>>
    BY <1>4 DEF applyReschedule, onDel, bot
  <1>5. ASSUME NEW h \in Clerks, rescheduleRetry(h)
        PROVE  UNCHANGED rows /\ \E u \in Users : \E q : MayAsk(q) /\ ask(u, q)
    <2>1. HandlerOK(clerk[h], Ids) /\ clerk[h].step = "when"
      BY <1>5 DEF Shape, rescheduleRetry
    <2>2. PICK id \in Ids : clerk[h].ids = {id}
      BY <2>1 DEF HandlerOK
    <2>3. clerk[h].user \in Users
      BY <2>1 DEF HandlerOK
    <2>4. id = CHOOSE i \in clerk[h].ids : TRUE
      BY <2>2
    <2>5. ask(clerk[h].user, EditOf(id, "time")) /\ UNCHANGED rows
      BY <1>5, <2>4 DEF rescheduleRetry
    <2> QED
      BY <2>3, <2>5, EditMayAsk
  <1>6. ASSUME NEW u \in Users, askMeal(u)
        PROVE  UNCHANGED rows /\ \E q : MayAsk(q) /\ ask(u, q)
    <2> DEFINE q == [kind |-> "meal"]
    <2>1. ask(u, q) /\ UNCHANGED rows /\ MayAsk(q)
      BY <1>6 DEF askMeal, MayAsk
    <2> QED
      BY <2>1
  <1>7. ASSUME NEW u \in Users, answerMeal(u)
        PROVE  takeKind(u, {"meal"})
    BY <1>7 DEF answerMeal
  <1>8. ASSUME NEW u \in Users, onArm(u)
        PROVE  UNCHANGED rows /\ \E q : MayAsk(q) /\ ask(u, q)
    <2>a. PICK b \in listed :
             \E field \in cardMarkup(b[2]) \cup editMarkup(b[2]) : ask(u, EditOf(b[1], field))
      BY <1>8 DEF onArm
    <2>1. PICK field \in cardMarkup(b[2]) \cup editMarkup(b[2]) : ask(u, EditOf(b[1], field))
      BY <2>a
    <2>2. PICK id \in Ids : id = b[1]
      BY <2>1 DEF Shape
    <2>3. field \in {"time", "title", "who"}
      BY <2>1 DEF cardMarkup, editMarkup
    <2>4. UNCHANGED rows
      BY <1>8 DEF onArm
    <2> QED
      BY <2>1, <2>2, <2>3, <2>4, EditMayAsk
  <1>9. CASE \E u \in Users : cmdVisit(u) \/ onTextCapture(u)
    BY <1>9 DEF cmdVisit, onTextCapture, captureText
  <1>10. CASE cmdList \/ onNav \/ \E chat \in Chats : closeList(chat)
    BY <1>10 DEF cmdList, onNav, Turned, closeList
  <1>11. CASE Costs \/ Tick
    BY <1>11, CostsBot DEF bot
  <1>12. CASE \E h \in Clerks : EditsOf(h)
    BY <1>3, <1>4, <1>5, <1>12 DEF EditsOf
  <1> QED
    BY <1>1, <1>2, <1>6, <1>7, <1>8, <1>9, <1>10, <1>11, <1>12 DEF NextAppointments, Talk

\* The question a user is to answer is the last one put to them.
LEMMA StepAnswers ==
    ASSUME Shape, AnswersTheLastQuestion, NextAppointments
    PROVE  AnswersTheLastQuestion'
  <1>1. CASE UNCHANGED <<awaiting, asked>>
    BY <1>1 DEF AnswersTheLastQuestion
  <1>2. ASSUME NEW u \in Users, NEW q, ask(u, q)
        PROVE  AnswersTheLastQuestion'
    <2>1. /\ awaiting'[u] = [q |-> q, at |-> moment] /\ asked'[u] = q
          /\ \A v \in Users \ {u} : awaiting'[v] = awaiting[v] /\ asked'[v] = asked[v]
      BY <1>2 DEF ask, Shape
    <2> QED
      BY <2>1 DEF AnswersTheLastQuestion
  <1>3. ASSUME NEW u \in Users, NEW kinds, takeKind(u, kinds)
        PROVE  AnswersTheLastQuestion'
    <2>1. /\ awaiting'[u] = NotAwaited
          /\ \A v \in Users \ {u} : awaiting'[v] = awaiting[v] /\ asked'[v] = asked[v]
      BY <1>3 DEF takeKind, Shape
    <2> QED
      BY <2>1 DEF AnswersTheLastQuestion
  <1>4. CASE restart
    BY <1>4 DEF restart, AnswersTheLastQuestion
  <1> QED
    BY <1>1, <1>2, <1>3, <1>4, StepAwaiting

-----------------------------------------------------------------------------
(* Shapes.                                                                  *)

LEMMA StepRows ==
    ASSUME Shape, NextAppointments
    PROVE  rows' \in Seq(Visits) /\ Ids \subseteq Ids'
  <1>1. CASE UNCHANGED rows
    BY <1>1 DEF Shape, Ids
  <1>2. CASE \E h \in Clerks : Works(h) \/ Lets(h)
    BY <1>1, <1>2, LetsIsDone DEF Works
  <1>3. CASE Sweeps
    BY <1>1, <1>3, SweepIsQuiet DEF Quiet
  <1> QED
    BY <1>1, <1>2, <1>3, PromptStored, CostReplied, StepKinds DEF Quiet, restart

LEMMA BoundIsNatural == LastMoment \in Nat
  <1>1. {LastMoment, MaxVisits, MaxTaps, MaxAsks, MaxBoots} \subseteq Nat
    BY AppointmentsAssumption, Zenon DEF AppointmentsAssumption
  <1> QED
    BY <1>1, Zenon

LEMMA StepMoment ==
    ASSUME NextAppointments, moment \in 0..LastMoment
    PROVE  moment' \in 0..LastMoment
  <1>1. CASE UNCHANGED moment
    BY <1>1
  <1>2. ASSUME NEW h \in Clerks, Telling(h) \/ FormsOf(h)
        PROVE  UNCHANGED moment
    <2>1. CASE Telling(h)
      BY <2>1 DEF Telling, mirrorToGroup, answerInGroup, announce, Told, announceFails
    <2>2. CASE WebCreate(h) \/ MiniCreate(h) \/ WebUpdate(h) \/ MiniUpdate(h)
      BY <2>2 DEF WebCreate, MiniCreate, Create, WebUpdate, MiniUpdate, UpdateRead
    <2>3. CASE WebDelete(h) \/ MiniDelete(h) \/ MiniStatus(h) \/ UpdateWrite(h) \/ SetStatusWrite(h)
      BY <2>3 DEF WebDelete, MiniDelete, Delete, MiniStatus, SetStatusRead, UpdateWrite, SetStatusWrite
    <2> QED
      BY <1>2, <2>1, <2>2, <2>3 DEF FormsOf
  <1>3. CASE \E h \in Clerks : CardsOf(h)
    BY <1>1, <1>3 DEF CardsOf, onCancel, onSave, onUpdate
  <1>4. ASSUME NEW h \in Clerks, EditsOf(h)
        PROVE  UNCHANGED moment
    <2>1. CASE \E u \in Users, chat \in Chats : applyFieldEdit(h, u, chat) \/ rescheduleAsk(h, u, chat)
      BY <2>1 DEF applyFieldEdit, rescheduleAsk
    <2>2. CASE applyReschedule(h) \/ rescheduleRetry(h) \/ onDel(h)
      BY <2>2 DEF applyReschedule, rescheduleRetry, onDel
    <2> QED
      BY <1>4, <2>1, <2>2 DEF EditsOf
  <1>5. CASE Talk
    <2>1. CASE \E u \in Users : cmdVisit(u) \/ onTextCapture(u)
      BY <1>1, <2>1 DEF cmdVisit, onTextCapture, captureText
    <2>2. CASE \E u \in Users : askMeal(u) \/ answerMeal(u) \/ onArm(u)
      BY <1>1, <2>2 DEF askMeal, answerMeal, onArm
    <2>3. CASE cmdList \/ onNav \/ \E chat \in Chats : closeList(chat)
      BY <1>1, <2>3 DEF cmdList, onNav, Turned, closeList
    <2> QED
      BY <1>5, <2>1, <2>2, <2>3 DEF Talk
  <1>6. CASE Costs
    <2>1. CASE Sweeps
      BY <1>1, <2>1, SweepIsQuiet
    <2>2. CASE sweepStore
      BY <1>1, <2>2 DEF sweepStore, sweepNext, Sweep
    <2>3. CASE \E msg \in DOMAIN asks : costReply(msg) \/ \E h \in Clerks : onCostButton(h, msg)
      BY <1>1, <2>3 DEF costReply, onCostButton
    <2> QED
      BY <1>6, <2>1, <2>2, <2>3 DEF Costs, Sweeps
  <1>7. CASE Tick
    BY <1>7, BoundIsNatural DEF Tick
  <1>8. CASE restart
    BY <1>1, <1>8 DEF restart
  <1> QED
    BY <1>1, <1>2, <1>3, <1>4, <1>5, <1>6, <1>7, <1>8 DEF NextAppointments

LEMMA StepPending ==
    ASSUME Shape, NextAppointments, Ids \subseteq Ids'
    PROVE  /\ cards' \in Seq(CardRecord) /\ boot' \in Nat
           /\ \A k \in DOMAIN pending' : Entry(pending'[k], Ids')
  <1>1. \A e : Entry(e, Ids) => Entry(e, Ids')
    BY Zenon DEF Entry
  <1>2. \A k \in DOMAIN pending : Entry(pending[k], Ids)
    BY DEF Shape
  <1>3. cards \in Seq(CardRecord) /\ boot \in Nat
    BY DEF Shape
  <1>4. CASE UNCHANGED <<pending, cards, boot>>
    BY <1>1, <1>2, <1>3, <1>4
  <1>5. ASSUME NEW items \in Seq(Item), NEW update \in {0} \cup Ids, put(items, update),
               update # 0 => Len(items) = 1, UNCHANGED boot
        PROVE  /\ cards' \in Seq(CardRecord) /\ boot' \in Nat
               /\ \A k \in DOMAIN pending' : Entry(pending'[k], Ids')
    <2> DEFINE e == [items |-> items, update |-> update, created |-> moment]
    <2>1. /\ pending'[NextKey] = e
          /\ \A k \in DOMAIN pending' : k # NextKey => k \in DOMAIN pending /\ pending'[k] = pending[k]
      BY <1>5 DEF put, Without
    <2>2. Entry(e, Ids)
      BY <1>5 DEF Entry
    <2> HIDE DEF e
    <2>3. \A k \in DOMAIN pending' : Entry(pending'[k], Ids)
      BY <1>2, <2>1, <2>2
    <2> QED
      BY <1>1, <1>3, <1>5, <2>3, PostedCard
  <1>6. ASSUME NEW c \in DOMAIN cards, take(c), UNCHANGED boot
        PROVE  /\ cards' \in Seq(CardRecord) /\ boot' \in Nat
               /\ \A k \in DOMAIN pending' : Entry(pending'[k], Ids')
    <2>1. /\ cards' \in Seq(CardRecord)
          /\ \A k \in DOMAIN pending' : k \in DOMAIN pending /\ pending'[k] = pending[k]
      BY <1>6, TakenCard
    <2> QED
      BY <1>1, <1>2, <1>3, <1>6, <2>1
  <1>7. CASE restart
    BY <1>3, <1>7 DEF restart
  <1> QED
    BY <1>4, <1>5, <1>6, <1>7, StepCards

LEMMA StepQuestionsOK ==
    ASSUME Shape, NextAppointments, Ids \subseteq Ids'
    PROVE  /\ DOMAIN awaiting' = Users /\ DOMAIN asked' = Users
           /\ \A u \in Users : Question(awaiting'[u].q, Ids')
  <1>1. \A q : Question(q, Ids) => Question(q, Ids')
    BY DEF Question
  <1>2. /\ DOMAIN awaiting = Users /\ DOMAIN asked = Users
        /\ \A u \in Users : Question(awaiting[u].q, Ids)
    BY DEF Shape
  <1>3. Question(NotAwaited.q, Ids)
    BY DEF NotAwaited, Question
  <1>4. CASE UNCHANGED <<awaiting, asked>>
    BY <1>1, <1>2, <1>4
  <1>5. ASSUME NEW u \in Users, NEW q, MayAsk(q), ask(u, q)
        PROVE  /\ DOMAIN awaiting' = Users /\ DOMAIN asked' = Users
               /\ \A v \in Users : Question(awaiting'[v].q, Ids')
    <2>1. Question(q, Ids)
      BY <1>5 DEF MayAsk, Question
    <2>2. /\ DOMAIN awaiting' = Users /\ DOMAIN asked' = Users
          /\ \A v \in Users : awaiting'[v].q = IF v = u THEN q ELSE awaiting[v].q
      BY <1>2, <1>5 DEF ask
    <2> QED
      BY <1>1, <1>2, <2>1, <2>2
  <1>6. ASSUME NEW u \in Users, NEW kinds, takeKind(u, kinds)
        PROVE  /\ DOMAIN awaiting' = Users /\ DOMAIN asked' = Users
               /\ \A v \in Users : Question(awaiting'[v].q, Ids')
    <2>1. /\ DOMAIN awaiting' = Users /\ DOMAIN asked' = Users
          /\ \A v \in Users : awaiting'[v] = IF v = u THEN NotAwaited ELSE awaiting[v]
      BY <1>2, <1>6 DEF takeKind
    <2> QED
      BY <1>1, <1>2, <1>3, <2>1
  <1>7. CASE restart
    BY <1>1, <1>2, <1>3, <1>7 DEF restart
  <1> QED
    BY <1>4, <1>5, <1>6, <1>7, StepAwaiting

LEMMA StepListed ==
    ASSUME Shape, NextAppointments, Ids \subseteq Ids'
    PROVE  listed' \subseteq Ids' \X Chats
  <1>1. listed \subseteq Ids' \X Chats
    BY DEF Shape
  <1>2. CASE \E h \in Clerks : Telling(h) \/ FormsOf(h)
    BY <1>1, <1>2, TellingBot DEF bot
  <1>3. CASE \E h \in Clerks : CardsOf(h)
    BY <1>1, <1>3 DEF CardsOf, onCancel, onSave, onUpdate
  <1>4. ASSUME NEW h \in Clerks, EditsOf(h)
        PROVE  listed' \subseteq listed
    <2>1. CASE \E u \in Users, chat \in Chats : applyFieldEdit(h, u, chat) \/ rescheduleAsk(h, u, chat)
      BY <2>1 DEF applyFieldEdit, rescheduleAsk
    <2>2. CASE applyReschedule(h) \/ rescheduleRetry(h) \/ onDel(h)
      BY <2>2 DEF applyReschedule, rescheduleRetry, onDel, bot
    <2> QED
      BY <1>4, <2>1, <2>2 DEF EditsOf
  <1>5. CASE \E u \in Users : \/ cmdVisit(u) \/ onTextCapture(u)
                              \/ askMeal(u) \/ answerMeal(u) \/ onArm(u)
    BY <1>1, <1>5 DEF cmdVisit, onTextCapture, captureText, askMeal, answerMeal, onArm
  <1>6. CASE cmdList \/ onNav
    <2>1. \A offset : \A chat \in Chats : editToList(chat, offset) \subseteq Ids \X Chats
      BY DEF editToList, listView, AppointmentsBetween
    <2>2. PICK chat \in Chats : \E offset : Turned(chat, offset)
      BY <1>6 DEF cmdList, onNav
    <2> QED
      BY <1>1, <2>1, <2>2 DEF Turned
  <1>7. CASE \E chat \in Chats : closeList(chat)
    BY <1>1, <1>7 DEF closeList
  <1>8. CASE Costs \/ Tick
    BY <1>1, <1>8, CostsBot DEF bot
  <1>9. CASE restart
    BY <1>1, <1>9 DEF restart
  <1> QED
    BY <1>1, <1>2, <1>3, <1>4, <1>5, <1>6, <1>7, <1>8, <1>9 DEF NextAppointments, Talk

LEMMA StepAsks ==
    ASSUME Shape, Questions, NextAppointments, Ids \subseteq Ids'
    PROVE  asks' \in Seq(Ids') /\ torn' \subseteq DOMAIN asks'
  <1>1. asks \in Seq(Ids) /\ asks \in Seq(Ids') /\ torn \subseteq DOMAIN asks
    BY SeqMonotonic DEF Shape
  <1>2. DOMAIN asks = 1 .. Len(asks) /\ Len(asks) \in Nat
    BY <1>1, LenProperties
  <1>3. CASE UNCHANGED <<asks, torn>>
    BY <1>1, <1>3
  <1>4. sweep.step = "store" => Len(asks) \in DOMAIN asks
    <2>1. asks # <<>> => Len(asks) \in Nat \ {0}
      BY <1>1, EmptySeq
    <2> QED
      BY <1>2, <2>1 DEF Questions
  <1>5. CASE sweepPost
    <2>1. PICK id \in Ids : id = Head(sweep.left)
      BY <1>5, SweepHead DEF sweepPost
    <2>2. asks' = Append(asks, id) /\ UNCHANGED torn
      BY <1>5, <2>1 DEF sweepPost
    <2>3. id \in Ids'
      OBVIOUS
    <2>4. asks' \in Seq(Ids') /\ Len(asks') = Len(asks) + 1
      BY <1>1, <2>2, <2>3, AppendProperties
    <2>5. DOMAIN asks' = 1 .. Len(asks) + 1
      BY <2>4, LenProperties
    <2> QED
      BY <1>1, <1>2, <2>2, <2>4, <2>5
  <1>6. CASE sweepStoreFails
    BY <1>1, <1>4, <1>6 DEF sweepStoreFails
  <1>7. CASE sweepRead \/ sweepPostFails
    BY <1>3, <1>7 DEF sweepRead, sweepPostFails
  <1>8. CASE restart
    BY <1>1, <1>4, <1>8 DEF restart
  <1>9. CASE UNCHANGED costs
    BY <1>3, <1>9 DEF costs
  <1>10. CASE \E h \in Clerks : Works(h) \/ Lets(h)
    BY <1>9, <1>10, LetsIsDone DEF Works
  <1>11. CASE sweepStore
    BY <1>3, <1>11, PromptStored
  <1>12. CASE \E msg \in DOMAIN asks : costReply(msg)
    BY <1>9, <1>12, CostReplied
  <1> QED
    BY <1>5, <1>6, <1>7, <1>8, <1>9, <1>10, <1>11, <1>12, StepKinds DEF Sweeps

LEMMA StepClerks ==
    ASSUME Shape, NextAppointments, Ids \subseteq Ids'
    PROVE  DOMAIN clerk' = Clerks /\ (\A h \in Clerks : HandlerOK(clerk'[h], Ids')) /\ DOMAIN told' \subseteq Ids'
  <1>1. \A job : HandlerOK(job, Ids) => HandlerOK(job, Ids')
    BY DEF HandlerOK
  <1>2. /\ DOMAIN clerk = Clerks /\ \A h \in Clerks : HandlerOK(clerk[h], Ids)
        /\ DOMAIN told \subseteq Ids
    BY DEF Shape
  <1>3. CASE UNCHANGED <<clerk, told>>
    BY <1>1, <1>2, <1>3
  <1>4. ASSUME NEW h \in Clerks, Works(h)
        PROVE  DOMAIN clerk' = Clerks /\ (\A k \in Clerks : HandlerOK(clerk'[k], Ids')) /\ DOMAIN told' \subseteq Ids'
    <2>1. /\ DOMAIN clerk' = Clerks /\ \A k \in Clerks \ {h} : clerk'[k] = clerk[k]
          /\ HandlerOK(clerk'[h], Ids') /\ UNCHANGED told
      BY <1>4 DEF Works, Takes
    <2>2. ASSUME NEW k \in Clerks
          PROVE  HandlerOK(clerk'[k], Ids')
      <3>1. CASE k = h
        BY <2>1, <3>1
      <3>2. CASE k # h
        BY <1>1, <1>2, <2>1, <3>2
      <3> QED
        BY <3>1, <3>2
    <2> QED
      BY <1>2, <2>1, <2>2
  <1>5. ASSUME NEW h \in Clerks, Lets(h)
        PROVE  DOMAIN clerk' = Clerks /\ (\A k \in Clerks : HandlerOK(clerk'[k], Ids')) /\ DOMAIN told' \subseteq Ids'
    <2>1. /\ DOMAIN clerk' = Clerks /\ clerk'[h] = Free
          /\ \A k \in Clerks \ {h} : clerk'[k] = clerk[k]
      BY <1>5, LetsIsDone
    <2>2. HandlerOK(Free, Ids)
      BY DEF HandlerOK, Free
    <2>3. \A k \in Clerks : HandlerOK(clerk'[k], Ids)
      BY <1>2, <2>1, <2>2
    <2>4. DOMAIN told' \subseteq DOMAIN told \cup Ids
      <3>1. CASE mirrorToGroup(h) \/ answerInGroup(h) \/ announce(h)
        <4>1. Told(h)
          BY <3>1 DEF mirrorToGroup, answerInGroup, announce
        <4>2. DOMAIN told' = DOMAIN told \cup clerk[h].ids /\ clerk[h].step = "tell"
          BY <4>1 DEF Told
        <4>3. clerk[h].ids \subseteq Ids
          BY <1>2, <4>2 DEF HandlerOK
        <4> QED
          BY <4>2, <4>3
      <3>2. CASE announceFails(h) \/ rescheduleRetry(h)
        BY <3>2 DEF announceFails, rescheduleRetry
      <3> QED
        BY <1>5, <3>1, <3>2 DEF Lets, Telling
    <2> QED
      BY <1>1, <1>2, <2>1, <2>3, <2>4
  <1>6. CASE restart
    <2>1. clerk' = [h \in Clerks |-> Free] /\ UNCHANGED told
      BY <1>6 DEF restart
    <2>2. HandlerOK(Free, Ids)
      BY DEF HandlerOK, Free
    <2> QED
      BY <1>1, <1>2, <2>1, <2>2
  <1>7. CASE Quiet \/ Sweeps
    BY <1>3, <1>7, SweepIsQuiet DEF Quiet
  <1> QED
    BY <1>3, <1>4, <1>5, <1>6, <1>7, PromptStored, CostReplied, StepKinds

LEMMA StepShape ==
    ASSUME Shape, Questions, NextAppointments
    PROVE  Shape'
  <1>1. rows' \in Seq(Visits) /\ Ids \subseteq Ids'
    BY StepRows
  <1>2. moment' \in 0..LastMoment
    BY StepMoment DEF Shape
  <1>3. /\ cards' \in Seq(CardRecord) /\ boot' \in Nat
        /\ \A k \in DOMAIN pending' : Entry(pending'[k], Ids')
    BY <1>1, StepPending
  <1>4. /\ DOMAIN awaiting' = Users /\ DOMAIN asked' = Users
        /\ \A u \in Users : Question(awaiting'[u].q, Ids')
    BY <1>1, StepQuestionsOK
  <1>5. listed' \subseteq Ids' \X Chats
    BY <1>1, StepListed
  <1>6. asks' \in Seq(Ids') /\ torn' \subseteq DOMAIN asks'
    BY <1>1, StepAsks
  <1>7. PassOK'
    BY <1>1, StepPass
  <1>8. DOMAIN clerk' = Clerks /\ (\A h \in Clerks : HandlerOK(clerk'[h], Ids')) /\ DOMAIN told' \subseteq Ids'
    BY <1>1, StepClerks
  <1> QED
    BY <1>1, <1>2, <1>3, <1>4, <1>5, <1>6, <1>7, <1>8 DEF Shape

-----------------------------------------------------------------------------
(* Theorems.                                                                *)

LEMMA InitInv == InitAppointments => AppointmentsInv
  <1> SUFFICES ASSUME InitAppointments
               PROVE  AppointmentsInv
    OBVIOUS
  <1> USE DEF InitAppointments
  <1>1. rows = <<>> /\ cards = <<>> /\ asks = <<>> /\ Ids = {}
    BY DEF Ids
  <1>2. moment \in 0..LastMoment
    BY BoundIsNatural
  <1>3. rows \in Seq(Visits) /\ cards \in Seq(CardRecord) /\ asks \in Seq(Ids)
    BY <1>1, EmptySeq
  <1>4. \A u \in Users : Question(awaiting[u].q, Ids)
    BY DEF Question, NotAwaited
  <1>5. \A h \in Clerks : HandlerOK(clerk[h], Ids) /\ Idle(h)
    BY DEF HandlerOK, Free, Idle
  <1>6. Shape
    BY <1>1, <1>2, <1>3, <1>4, <1>5 DEF Shape, PassOK, Free
  <1>7. Keys
    BY <1>1 DEF Keys, OfBoot, PendingIsTheCard
  <1>8. Questions
    BY <1>1 DEF Questions, Free
  <1>9. AnswersTheLastQuestion
    BY DEF AnswersTheLastQuestion
  <1>10. Messages
    BY <1>1 DEF Messages
  <1> QED
    BY <1>6, <1>7, <1>8, <1>9, <1>10 DEF AppointmentsInv

LEMMA NextInv == AppointmentsInv /\ [NextAppointments]_apptVars => AppointmentsInv'
  <1> SUFFICES ASSUME AppointmentsInv, [NextAppointments]_apptVars
               PROVE  AppointmentsInv'
    OBVIOUS
  <1>1. CASE NextAppointments
    BY <1>1, StepShape, StepKeys, StepQuestions, StepAnswers, StepMessages DEF AppointmentsInv
  <1>2. CASE UNCHANGED apptVars
    <2>1. UNCHANGED <<rows, moment, pending, cards, awaiting, listed, asks, sweep, clerk, boot,
                      told, asked, torn, muddled>>
      BY <1>2 DEF apptVars
    <2>2. Shape'
      <3>1. \A k \in DOMAIN pending : Entry(pending[k], Ids) => Entry(pending'[k], Ids')
        BY <2>1 DEF Entry, Ids
      <3>2. \A u \in Users : Question(awaiting[u].q, Ids) => Question(awaiting'[u].q, Ids')
        BY <2>1 DEF Question, Ids
      <3>3. \A h \in Clerks : HandlerOK(clerk[h], Ids) => HandlerOK(clerk'[h], Ids')
        BY <2>1 DEF HandlerOK, Ids
      <3>4. PassOK => PassOK'
        BY <2>1 DEF PassOK, Ids
      <3>5. Ids' = Ids
        BY <2>1 DEF Ids
      <3> QED
        BY <2>1, <3>1, <3>2, <3>3, <3>4, <3>5 DEF AppointmentsInv, Shape
    <2>3. Keys' /\ Questions' /\ AnswersTheLastQuestion'
      BY <2>1 DEF AppointmentsInv, Keys, OfBoot, PendingIsTheCard, Questions, AnswersTheLastQuestion
    <2>4. Messages'
      BY <2>1, SameMessages DEF AppointmentsInv, RowSame, Ids
    <2> QED
      BY <2>2, <2>3, <2>4 DEF AppointmentsInv
  <1> QED
    BY <1>1, <1>2

\* The inductive invariant of visits holds in every reachable state.
THEOREM VisitsInvariant == SpecAppointments => []AppointmentsInv
  BY InitInv, NextInv, PTL DEF SpecAppointments

\* Every variable keeps its shape, and what handlers, cards, buttons, questions and
\* messages name is a row of the table.
THEOREM VisitsTypeCorrect == SpecAppointments => []AppointmentsTypeOK
  <1>1. AppointmentsInv => AppointmentsTypeOK
    <2> SUFFICES ASSUME AppointmentsInv
                 PROVE  AppointmentsTypeOK
      OBVIOUS
    <2>1. Shape
      BY DEF AppointmentsInv
    <2>2. \A m \in DOMAIN asks : asks[m] \in Ids
      BY <2>1, LenProperties, ElementOfSeq DEF Shape
    <2>3. \A h \in Clerks : ~Idle(h) => clerk[h].ids \subseteq Ids
      BY <2>1 DEF Shape, HandlerOK, Idle
    <2>4. \A u \in Users : awaiting[u].q.kind = "edit" => awaiting[u].q.id \in Ids
      BY <2>1, EditQuestion
    <2> QED
      BY <2>1, <2>2, <2>3, <2>4 DEF AppointmentsTypeOK, Shape, Entry
  <1> QED
    BY <1>1, VisitsInvariant, PTL

\* A tap on a card the present process has posted finds what the card shows, and
\* nothing once it was taken: the keys of a process are never given out twice
\* (pending.go).
THEOREM CardsKeepTheirItems == SpecAppointments => []PendingIsTheCard
  <1>1. AppointmentsInv => PendingIsTheCard
    BY DEF AppointmentsInv, Keys
  <1> QED
    BY <1>1, VisitsInvariant, PTL

\* The next message of a user answers the last question put to them (awaiting.go).
THEOREM AnswersAreToTheLast == SpecAppointments => []AnswersTheLastQuestion
  <1>1. AppointmentsInv => AnswersTheLastQuestion
    BY DEF AppointmentsInv
  <1> QED
    BY <1>1, VisitsInvariant, PTL

\* The cost of a visit is asked for once, and a reply to the question is one about
\* the visit, unless the question's id was lost (costprompts.go).
THEOREM AskedOnce == SpecAppointments => []OneQuestion
  <1>1. AppointmentsInv => OneQuestion
    <2> SUFFICES ASSUME AppointmentsInv
                 PROVE  OneQuestion
      OBVIOUS
    <2>1. Shape /\ Questions
      BY DEF AppointmentsInv
    <2>2. \A m \in DOMAIN asks \ torn :
             rows[asks[m]].prompt = m \/ (sweep.step = "store" /\ m = Len(asks))
      BY <2>1 DEF Questions
    <2>3. sweep.step = "store" => rows[asks[Len(asks)]].prompt = NoMsg
      <3> SUFFICES ASSUME sweep.step = "store"
                   PROVE  rows[asks[Len(asks)]].prompt = NoMsg
        OBVIOUS
      <3>1. Head(sweep.left) = sweep.left[1] /\ 1 \in DOMAIN sweep.left
        BY <2>1, SweepHead
      <3> QED
        BY <2>1, <3>1 DEF Questions
    <2>4. \A m \in DOMAIN asks : m # NoMsg
      BY <2>1, LenProperties DEF Shape, NoMsg
    <2> QED
      BY <2>2, <2>3, <2>4 DEF OneQuestion
  <1> QED
    BY <1>1, VisitsInvariant, PTL

\* Once its handlers are done, the last the group was told of a visit is how it is
\* (notify.go, mirrorToGroup), and one called off since it was entered was told to be
\* off.
THEOREM GroupKnows == SpecAppointments => []GroupIsTold
  <1>1. AppointmentsInv => GroupIsTold
    BY DEF AppointmentsInv, Messages, GroupIsTold, ToldRight, Holds
  <1> QED
    BY <1>1, VisitsInvariant, PTL

-----------------------------------------------------------------------------
(* Where a visit is read.                                                   *)

Looked == rows \in Seq(Visits) /\ moment \in Nat

LEMMA Lengths ==
    /\ DayLen \in Nat \ {0} /\ WeekDays \in Nat \ {0} /\ PageSize \in Nat \ {0}
    /\ FeedBack \in Nat /\ MaxAppointments \in Nat \ {0}
  BY AppointmentsAssumption, Zenon DEF AppointmentsAssumption

\* A number is so many whole lengths and a rest.
LEMMA Whole ==
    ASSUME NEW n \in Nat, NEW len \in Nat \ {0}
    PROVE  /\ n \div len \in Nat
           /\ (n \div len) * len \in Nat
           /\ (n \div len) * len <= n
           /\ n < (n \div len) * len + len
  OBVIOUS

\* Of fewer lengths each ends before the last begins.
LEMMA Fewer ==
    ASSUME NEW a \in Nat, NEW b \in Nat, NEW len \in Nat \ {0}, a < b
    PROVE  a * len \in Nat /\ b * len \in Nat /\ a * len + len <= b * len
  <1>1. PICK k \in Nat : b = a + 1 + k
    <2>1. b - a - 1 \in Nat /\ b = a + 1 + (b - a - 1)
      OBVIOUS
    <2> QED
      BY <2>1
  <1>2. b * len = a * len + len + k * len
    BY <1>1
  <1>3. k * len \in Nat /\ a * len \in Nat /\ b * len \in Nat
    OBVIOUS
  <1> QED
    BY <1>2, <1>3

\* The day that is on has begun and is not over.
LEMMA DayIsOn ==
    ASSUME Looked
    PROVE  /\ Today \in Nat /\ Today * DayLen \in Nat /\ Today * DayLen <= moment
           /\ (Today + 1) * DayLen = Today * DayLen + DayLen
  <1>1. moment \in Nat /\ DayLen \in Nat \ {0}
    BY Lengths DEF Looked
  <1>2. Today \in Nat /\ Today * DayLen \in Nat /\ Today * DayLen <= moment
    BY <1>1, Whole DEF Today
  <1> QED
    BY <1>1, <1>2

LEMMA UpcomingRow ==
    ASSUME Looked, NEW id \in ActiveAppointmentsFrom(moment)
    PROVE  /\ id \in Ids /\ Active(id)
           /\ rows[id].starts \in Nat /\ moment <= rows[id].starts
  <1>1. id \in Ids /\ Active(id) /\ rows[id].starts >= moment
    BY DEF ActiveAppointmentsFrom
  <1>2. rows[id] \in Visits
    BY <1>1, ElementOfSeq, LenProperties DEF Looked, Ids
  <1> QED
    BY <1>1, <1>2 DEF Visits, Looked

\* What a limit keeps of a sequence is its beginning.
LEMMA LimitedIs ==
    ASSUME NEW S, NEW s \in Seq(S), NEW n \in Nat
    PROVE  LET m == IF Len(s) > n THEN n ELSE Len(s)
           IN  /\ m \in Nat /\ Limited(s, n) \in Seq(S)
               /\ Len(Limited(s, n)) = m /\ DOMAIN Limited(s, n) = 1 .. m
               /\ \A i \in 1 .. m : Limited(s, n)[i] = s[i]
  <1> DEFINE m == IF Len(s) > n THEN n ELSE Len(s)
  <1>1. Len(s) \in Nat /\ m \in 0 .. Len(s)
    BY LenProperties
  <1>2. Limited(s, n) = SubSeq(s, 1, m)
    BY DEF Limited
  <1> HIDE DEF m
  <1>3. \A i \in 1 .. m : s[i] \in S
    BY <1>1, ElementOfSeq
  <1>4. /\ SubSeq(s, 1, m) \in Seq(S)
        /\ Len(SubSeq(s, 1, m)) = IF 1 <= m THEN m - 1 + 1 ELSE 0
        /\ \A i \in 1 .. m - 1 + 1 : SubSeq(s, 1, m)[i] = s[1 + i - 1]
    BY <1>1, <1>3, SubSeqProperties
  <1>5. /\ Limited(s, n) \in Seq(S) /\ Len(Limited(s, n)) = m
        /\ \A i \in 1 .. m : Limited(s, n)[i] = s[i]
    BY <1>1, <1>2, <1>4
  <1>6. DOMAIN Limited(s, n) = 1 .. m
    BY <1>5, LenProperties
  <1> QED
    BY <1>1, <1>5, <1>6 DEF m

\* A visit from some moment on is found when one is asked for.
LEMMA NextHasOne ==
    ASSUME Looked, NEW from, NEW id \in ActiveAppointmentsFrom(from)
    PROVE  UpcomingAppointments(from, 1) # <<>>
  <1>1. PICK these \in SUBSET Ids : these = {o \in Ids : Active(o) /\ rows[o].starts >= from}
    OBVIOUS
  <1>2. id \in these
    BY <1>1 DEF ActiveAppointmentsFrom
  <1>3. PICK s : s = SoonestFirst(these)
    OBVIOUS
  <1>4. /\ s \in Seq(these) /\ Len(s) \in Nat /\ DOMAIN s = 1 .. Len(s)
        /\ \E n \in DOMAIN s : s[n] = id
    BY <1>2, <1>3, SoonestFirstIs DEF Looked
  <1>5. Len(s) > 0
    BY <1>4
  <1>6. Len(Limited(s, 1)) = 1
    <2>1. 1 \in Nat
      OBVIOUS
    <2>2. Len(Limited(s, 1)) = IF Len(s) > 1 THEN 1 ELSE Len(s)
      BY <1>4, <2>1, LimitedIs, Zenon
    <2> QED
      BY <1>4, <1>5, <2>2
  <1>7. UpcomingAppointments(from, 1) = Limited(s, 1)
    BY <1>1, <1>3 DEF UpcomingAppointments
  <1> QED
    BY <1>6, <1>7, EmptySeq


\* "Next week", so many times, comes to the week of the visit.
LEMMA WeekHasIt ==
    ASSUME Looked, NEW id \in ActiveAppointmentsFrom(moment)
    PROVE  \E offset \in 0 .. rows[id].starts :
              /\ id \in listView(offset).items
              /\ \A o \in 0 .. offset - 1 : listView(o).next
  <1> DEFINE at == rows[id].starts
             monday == Today - (Today % WeekDays)
             week == WeekDays * DayLen
             start == monday * DayLen
             offset == (at - start) \div week
  <1>1. /\ moment \in Nat /\ at \in Nat /\ moment <= at
        /\ DayLen \in Nat \ {0} /\ WeekDays \in Nat \ {0}
    BY UpcomingRow, Lengths DEF Looked
  <1>2. Today \in Nat /\ Today * DayLen \in Nat /\ Today * DayLen <= moment
    BY DayIsOn
  <1>3. monday \in Nat /\ monday <= Today
    BY <1>1, <1>2
  <1>4. week \in Nat \ {0}
    BY <1>1
  <1>5. start \in Nat /\ start <= Today * DayLen
    <2>1. monday < Today => start + DayLen <= Today * DayLen
      BY <1>1, <1>2, <1>3, Fewer
    <2>2. start \in Nat
      BY <1>1, <1>3
    <2>3. monday = Today => start = Today * DayLen
      OBVIOUS
    <2> HIDE DEF start, monday
    <2> QED
      BY <1>1, <1>2, <1>3, <2>1, <2>2, <2>3
  <1>6. \A o \in Nat : /\ weekWindow(o).from = start + o * week
                       /\ weekWindow(o).to = start + o * week + week
                       /\ o * week \in Nat
    <2> TAKE o \in Nat
    <2>1. (monday + WeekDays * o) * DayLen = start + o * week
      <3> HIDE DEF monday
      <3> QED
        BY <1>1, <1>3
    <2>2. o * week \in Nat
      BY <1>4
    <2> QED
      BY <2>1, <2>2 DEF weekWindow
  <1> HIDE DEF at, monday, week, start
  <1>7. at - start \in Nat
    BY <1>1, <1>2, <1>5
  <1>8. /\ offset \in Nat /\ offset * week \in Nat
        /\ start + offset * week <= at /\ at < start + offset * week + week
    <2>1. /\ offset \in Nat /\ offset * week \in Nat
          /\ offset * week <= at - start /\ at - start < offset * week + week
      BY <1>4, <1>7, Whole
    <2> HIDE DEF offset
    <2> QED
      BY <1>1, <1>4, <1>5, <2>1
  <1> HIDE DEF offset
  <1>9. offset \in 0 .. at
    <2>1. offset <= offset * week
      BY <1>4, <1>8
    <2> QED
      BY <1>1, <1>5, <1>8, <2>1
  <1>10. id \in listView(offset).items
    <2>1. at < weekWindow(offset).to /\ weekWindow(offset).from <= at
      BY <1>6, <1>8
    <2>2. \A from : from <= at => id \in AppointmentsBetween(from, weekWindow(offset).to)
      BY <2>1, UpcomingRow DEF AppointmentsBetween, at
    <2> QED
      BY <1>1, <2>1, <2>2 DEF listView
  <1>11. \A o \in 0 .. offset - 1 : listView(o).next
    <2> SUFFICES ASSUME NEW o \in 0 .. offset - 1
                 PROVE  listView(o).next
      OBVIOUS
    <2>1. o \in Nat /\ o < offset
      BY <1>8
    <2>2. o * week \in Nat /\ o * week + week <= offset * week
      BY <1>4, <1>8, <2>1, Fewer
    <2>3. weekWindow(o).to <= at /\ weekWindow(o).to \in Int
      <3>1. PICK x \in Nat, y \in Nat : x = o * week /\ y = offset * week
        BY <1>8, <2>2
      <3>2. weekWindow(o).to = start + x + week
        BY <1>6, <2>1, <3>1
      <3>3. x + week <= y /\ start + y <= at
        BY <1>8, <2>2, <3>1
      <3> QED
        BY <1>1, <1>4, <1>5, <3>1, <3>2, <3>3
    <2>4. id \in ActiveAppointmentsFrom(weekWindow(o).to)
      BY <1>1, <2>3, UpcomingRow DEF ActiveAppointmentsFrom, at
    <2>5. UpcomingAppointments(weekWindow(o).to, 1) # <<>>
      BY <2>4, NextHasOne
    <2> QED
      BY <2>5 DEF listView
  <1> QED
    BY <1>9, <1>10, <1>11 DEF at

\* The rows of the web list, and how many of them come before one.
Standing == {id \in Ids : ~rows[id].deleted}
Ahead(id) == {o \in Standing : listedFirst(o, id)}

LEMMA StandingIsFinite ==
    ASSUME Looked
    PROVE  /\ IsFiniteSet(Standing) /\ Cardinality(Standing) \in Nat
           /\ Cardinality(Standing) <= Len(rows) /\ Len(rows) \in Nat
           /\ Standing \subseteq Nat
           /\ \A id \in Standing : rows[id].starts \in Nat
  <1>1. Len(rows) \in Nat /\ Ids = 1 .. Len(rows)
    BY LenProperties DEF Looked, Ids
  <1>2. IsFiniteSet(1 .. Len(rows)) /\ Cardinality(1 .. Len(rows)) = Len(rows)
    <2>1. PICK n \in Nat : n = Len(rows)
      BY <1>1
    <2>2. IsFiniteSet(1 .. n) /\ Cardinality(1 .. n) = IF 1 > n THEN 0 ELSE n - 1 + 1
      BY FS_Interval
    <2>3. Cardinality(1 .. n) = n
      BY <2>2
    <2> QED
      BY <2>1, <2>2, <2>3
  <1>3. Standing \in SUBSET (1 .. Len(rows))
    BY <1>1 DEF Standing
  <1>4. IsFiniteSet(Standing) /\ Cardinality(Standing) <= Len(rows)
    BY <1>2, <1>3, FS_Subset
  <1>5. Cardinality(Standing) \in Nat
    BY <1>4, FS_CardinalityType
  <1>6. \A id \in Standing : rows[id] \in Visits
    BY <1>1, <1>3, ElementOfSeq DEF Looked
  <1>7. \A id \in Standing : rows[id].starts \in Nat
    BY <1>6 DEF Visits
  <1>8. Standing \subseteq Nat
    BY <1>1, <1>3
  <1> QED
    BY <1>1, <1>4, <1>5, <1>7, <1>8

\* The list is in an order.
LEMMA ListedInOrder ==
    ASSUME Looked
    PROVE  /\ \A i \in Standing : ~listedFirst(i, i)
           /\ \A i \in Standing, j \in Standing : i = j \/ listedFirst(i, j) \/ listedFirst(j, i)
           /\ \A i \in Standing, j \in Standing, k \in Standing :
                 listedFirst(i, j) /\ listedFirst(j, k) => listedFirst(i, k)
  <1>1. Standing \subseteq Nat /\ \A id \in Standing : rows[id].starts \in Nat
    BY StandingIsFinite
  <1>2. moment \in Nat
    BY DEF Looked
  <1> QED
    BY <1>1, <1>2 DEF listedFirst, sooner

\* What comes first has a place of its own.
LEMMA PlacesDiffer ==
    ASSUME Looked, NEW i \in Standing
    PROVE  /\ Cardinality(Ahead(i)) \in 0 .. Cardinality(Standing) - 1
           /\ \A j \in Standing : listedFirst(i, j) => Cardinality(Ahead(i)) < Cardinality(Ahead(j))
  <1>1. \A j \in Standing : IsFiniteSet(Ahead(j)) /\ Cardinality(Ahead(j)) \in Nat
    BY StandingIsFinite, FS_Subset, FS_CardinalityType DEF Ahead
  <1>2. i \notin Ahead(i)
    BY ListedInOrder DEF Ahead
  <1>3. /\ IsFiniteSet(Ahead(i) \cup {i})
        /\ Cardinality(Ahead(i) \cup {i}) = Cardinality(Ahead(i)) + 1
    BY <1>1, <1>2, FS_AddElement
  <1>4. \A T : IsFiniteSet(T) /\ Ahead(i) \cup {i} \subseteq T =>
            Cardinality(Ahead(i)) + 1 <= Cardinality(T)
    BY <1>3, FS_Subset
  <1>5. Cardinality(Ahead(i)) + 1 <= Cardinality(Standing)
    BY <1>4, StandingIsFinite DEF Ahead
  <1>6. \A j \in Standing : listedFirst(i, j) => Cardinality(Ahead(i)) < Cardinality(Ahead(j))
    <2> SUFFICES ASSUME NEW j \in Standing, listedFirst(i, j)
                 PROVE  Cardinality(Ahead(i)) < Cardinality(Ahead(j))
      OBVIOUS
    <2>1. Ahead(i) \cup {i} \subseteq Ahead(j)
      BY ListedInOrder DEF Ahead
    <2>2. Cardinality(Ahead(i)) + 1 <= Cardinality(Ahead(j))
      BY <1>1, <1>4, <2>1
    <2> QED
      BY <1>1, <2>2
  <1> QED
    BY <1>1, <1>5, <1>6, StandingIsFinite

\* Every row is on the web list.
LEMMA OnTheList ==
    ASSUME Looked, NEW id \in Standing
    PROVE  /\ Len(ListAppointments) = Cardinality(Standing)
           /\ \E n \in 1 .. Cardinality(Standing) : ListAppointments[n] = id
  <1> DEFINE place(i) == Cardinality(Ahead(i))
             nth(n) == CHOOSE i \in Standing : place(i) = n - 1
  <1>1. ListAppointments = [n \in 1 .. Cardinality(Standing) |-> nth(n)]
    BY DEF ListAppointments, Standing, Ahead
  <1>2. Cardinality(Standing) \in Nat
    BY StandingIsFinite
  <1>3. \A i \in Standing : place(i) \in 0 .. Cardinality(Standing) - 1
    BY PlacesDiffer
  <1>4. \A i \in Standing : place(i) = place(id) => i = id
    <2> SUFFICES ASSUME NEW i \in Standing, i # id
                 PROVE  place(i) # place(id)
      OBVIOUS
    <2>1. place(i) < place(id) \/ place(id) < place(i)
      BY PlacesDiffer, ListedInOrder
    <2>2. place(i) \in Int /\ place(id) \in Int
      BY <1>2, <1>3
    <2> QED
      BY <2>1, <2>2
  <1>5. nth(place(id) + 1) = id
    <2>1. place(id) \in Int
      BY <1>2, <1>3
    <2>2. \A n, m : n - 1 = m /\ (\E i \in Standing : place(i) = m) =>
                nth(n) \in Standing /\ place(nth(n)) = m
      OBVIOUS
    <2> DEFINE m == place(id)
               n == m + 1
    <2> HIDE DEF nth, place
    <2>3. n - 1 = m /\ place(id) = m
      BY <2>1
    <2> HIDE DEF m, n
    <2>4. nth(n) \in Standing /\ place(nth(n)) = m
      BY <2>2, <2>3, Zenon
    <2>5. nth(n) = id
      BY <1>4, <2>3, <2>4, Zenon
    <2> QED
      BY <2>5 DEF n, m
  <1> HIDE DEF nth, place
  <1>6. place(id) + 1 \in 1 .. Cardinality(Standing)
    BY <1>2, <1>3
  <1>7. Len(ListAppointments) = Cardinality(Standing)
    BY <1>1, <1>2
  <1> QED
    BY <1>1, <1>5, <1>6, <1>7

\* "Next", so many times, comes to its page.
LEMMA PageHasIt ==
    ASSUME Looked, NEW id \in Standing
    PROVE  \E page \in 1 .. Len(rows) :
              /\ id \in ToSet(WebPage(page).items)
              /\ \A o \in 1 .. page - 1 : WebPage(o).next
  <1> DEFINE all == ListAppointments
             upTo(from) == IF Len(all) < from + PageSize + 1 THEN Len(all)
                           ELSE from + PageSize + 1
             rest(from) == SubSeq(all, from + 1, upTo(from))
             shown(from) == SubSeq(rest(from), 1, IF Len(rest(from)) > PageSize THEN PageSize
                                                  ELSE Len(rest(from)))
  <1>1. /\ Len(all) = Cardinality(Standing) /\ Len(all) \in Nat
        /\ Len(all) <= Len(rows) /\ Len(rows) \in Nat
        /\ PageSize \in Nat \ {0}
    BY OnTheList, StandingIsFinite, Lengths
  <1>2. PICK n \in 1 .. Len(all) : all[n] = id
    BY <1>1, OnTheList
  <1>3. \A p \in Nat : /\ WebPage(p + 1).items = shown(p * PageSize)
                       /\ WebPage(p + 1).next = (Len(rest(p * PageSize)) > PageSize)
    <2>0. \A page, p : page - 1 = p =>
             WebPage(page) = [items |-> shown(p * PageSize), next |-> Len(rest(p * PageSize)) > PageSize]
      BY ZenonT(40) DEF WebPage, Limited
    <2>1. \A page, p : page - 1 = p => /\ WebPage(page).items = shown(p * PageSize)
                                      /\ WebPage(page).next = (Len(rest(p * PageSize)) > PageSize)
      <3> HIDE DEF shown, rest
      <3> QED
        BY <2>0
    <2>2. \A p \in Nat : p + 1 - 1 = p
      OBVIOUS
    <2> HIDE DEF shown, rest
    <2> QED
      BY <2>1, <2>2
  <1> HIDE DEF all
  <1>4. ASSUME NEW from \in Nat, from < Len(all)
        PROVE  /\ Len(rest(from)) = upTo(from) - from
               /\ \A k \in 1 .. upTo(from) - from : rest(from)[k] = all[from + k]
    <2> DEFINE all2 == {all[i] : i \in from + 1 .. upTo(from)}
    <2>1. upTo(from) \in Nat /\ from + 1 <= upTo(from)
      BY <1>1, <1>4
    <2> HIDE DEF upTo
    <2>2. \A i \in from + 1 .. upTo(from) : all[i] \in all2
      OBVIOUS
    <2> HIDE DEF all2
    <2>3. /\ Len(SubSeq(all, from + 1, upTo(from))) =
                IF from + 1 <= upTo(from) THEN upTo(from) - (from + 1) + 1 ELSE 0
          /\ \A i \in 1 .. upTo(from) - (from + 1) + 1 :
                SubSeq(all, from + 1, upTo(from))[i] = all[(from + 1) + i - 1]
      BY <2>1, <2>2, SubSeqProperties
    <2> QED
      BY <1>4, <2>1, <2>3
  <1> DEFINE q == (n - 1) \div PageSize
  <1>5. /\ q \in Nat /\ q * PageSize \in Nat
        /\ q * PageSize <= n - 1 /\ n - 1 < q * PageSize + PageSize
    BY <1>1, <1>2, Whole
  <1> HIDE DEF q
  <1>6. q + 1 \in 1 .. Len(rows)
    <2>1. q <= q * PageSize
      BY <1>1, <1>5
    <2> QED
      BY <1>1, <1>2, <1>5, <2>1
  <1>7. id \in ToSet(WebPage(q + 1).items)
    <2> DEFINE from == q * PageSize
               k == n - from
    <2>1. WebPage(q + 1).items = shown(from)
      <3> HIDE DEF shown
      <3> QED
        BY <1>3, <1>5
    <2>2. from \in Nat /\ from < Len(all) /\ k \in 1 .. PageSize /\ from + k = n
      BY <1>1, <1>2, <1>5
    <2> HIDE DEF from, k
    <2>3. k \in 1 .. upTo(from) - from /\ upTo(from) - from \in Nat
      BY <1>1, <1>2, <2>2
    <2>4. Len(rest(from)) = upTo(from) - from /\ rest(from)[k] = id
      BY <1>2, <1>4, <2>2, <2>3
    <2> HIDE DEF upTo, rest
    <2> DEFINE m == IF Len(rest(from)) > PageSize THEN PageSize ELSE Len(rest(from))
               some == {rest(from)[i] : i \in 1 .. m}
    <2>5. m \in Nat /\ k \in 1 .. m
      BY <1>1, <2>2, <2>3, <2>4
    <2>6. shown(from) = SubSeq(rest(from), 1, m)
      OBVIOUS
    <2> HIDE DEF m, shown
    <2>7. \A i \in 1 .. m : rest(from)[i] \in some
      OBVIOUS
    <2> HIDE DEF some
    <2>8. /\ shown(from) \in Seq(some)
          /\ Len(shown(from)) = m
          /\ \A i \in 1 .. m : shown(from)[i] = rest(from)[i]
      <3>1. /\ SubSeq(rest(from), 1, m) \in Seq(some)
            /\ Len(SubSeq(rest(from), 1, m)) = IF 1 <= m THEN m - 1 + 1 ELSE 0
            /\ \A i \in 1 .. m - 1 + 1 : SubSeq(rest(from), 1, m)[i] = rest(from)[1 + i - 1]
        BY <2>5, <2>7, SubSeqProperties
      <3> QED
        BY <2>5, <2>6, <3>1
    <2>9. k \in DOMAIN shown(from) /\ shown(from)[k] = id
      BY <2>4, <2>5, <2>8, LenProperties
    <2>10. id \in ToSet(shown(from))
      BY <2>9 DEF ToSet
    <2> QED
      BY <2>1, <2>10
  <1>8. \A o \in 1 .. q : WebPage(o).next
    <2> SUFFICES ASSUME NEW o \in 1 .. q
                 PROVE  WebPage(o).next
      OBVIOUS
    <2>1. PICK p \in Nat : o = p + 1 /\ p < q
      <3>1. o - 1 \in Nat /\ o = o - 1 + 1 /\ o - 1 < q
        BY <1>5
      <3> QED
        BY <3>1
    <2> DEFINE from == p * PageSize
    <2>2. from \in Nat /\ from + PageSize <= q * PageSize
      BY <1>1, <1>5, <2>1, Fewer
    <2> HIDE DEF from
    <2>3. from < Len(all) /\ from + PageSize + 1 <= Len(all)
      BY <1>1, <1>2, <1>5, <2>2
    <2>4. upTo(from) = from + PageSize + 1
      BY <1>1, <2>2, <2>3
    <2>5. Len(rest(from)) = upTo(from) - from
      BY <1>4, <2>2, <2>3
    <2> HIDE DEF rest, upTo
    <2>6. Len(rest(from)) > PageSize
      BY <1>1, <2>2, <2>4, <2>5
    <2> QED
      BY <1>3, <2>1, <2>6 DEF from
  <1> DEFINE page == q + 1
  <1>9. \A o \in 1 .. page - 1 : WebPage(o).next
    <2>1. page - 1 = q
      BY <1>5
    <2> QED
      BY <1>8, <2>1
  <1>10. page \in 1 .. Len(rows) /\ id \in ToSet(WebPage(page).items)
    BY <1>6, <1>7
  <1> HIDE DEF page
  <1> QED
    BY <1>9, <1>10

\* The screens and messages that show some days.
LEMMA DaysHaveIt ==
    ASSUME Looked, NEW id \in ActiveAppointmentsFrom(moment)
    PROVE  LET itsDay == rows[id].starts \div DayLen
           IN  /\ id \in FeedVisits
               /\ itsDay < Today + WeekDays => id \in weekItems
               /\ itsDay = Today => id \in sendDailyDigest
  <1> DEFINE at == rows[id].starts
             itsDay == at \div DayLen
  <1>1. /\ id \in Ids /\ Active(id) /\ moment \in Nat /\ at \in Nat /\ moment <= at
        /\ DayLen \in Nat \ {0} /\ WeekDays \in Nat \ {0} /\ FeedBack \in Nat
    BY UpcomingRow, Lengths DEF Looked
  <1>2. /\ Today \in Nat /\ Today * DayLen \in Nat /\ Today * DayLen <= moment
        /\ (Today + 1) * DayLen = Today * DayLen + DayLen
    BY DayIsOn
  <1>3. itsDay \in Nat /\ itsDay * DayLen \in Nat /\ itsDay * DayLen <= at /\ at < itsDay * DayLen + DayLen
    BY <1>1, Whole
  <1>5. id \in FeedVisits
    <2>1. at >= Today * DayLen - FeedBack
      BY <1>1, <1>2
    <2> QED
      BY <1>1, <2>1 DEF FeedVisits, ActiveAppointmentsFrom
  <1>6. itsDay < Today + WeekDays => id \in weekItems
    <2> SUFFICES ASSUME itsDay < Today + WeekDays
                 PROVE  id \in weekItems
      OBVIOUS
    <2>1. Today + WeekDays \in Nat
      BY <1>1, <1>2
    <2>2. /\ (Today + WeekDays) * DayLen \in Nat
          /\ itsDay * DayLen + DayLen <= (Today + WeekDays) * DayLen
      BY <1>1, <1>3, <2>1, Fewer
    <2>3. at < (Today + WeekDays) * DayLen
      <3> HIDE DEF at, itsDay
      <3> QED
        BY <1>1, <1>3, <2>2
    <2> QED
      BY <1>1, <2>3 DEF weekItems, AppointmentsBetween
  <1>7. itsDay = Today => id \in sendDailyDigest
    <2> SUFFICES ASSUME itsDay = Today
                 PROVE  id \in sendDailyDigest
      OBVIOUS
    <2>1. Today * DayLen <= at /\ at < (Today + 1) * DayLen
      <3> HIDE DEF at, itsDay
      <3> QED
        BY <1>1, <1>2, <1>3
    <2> QED
      BY <1>1, <2>1 DEF sendDailyDigest, AppointmentsBetween
  <1> QED
    BY <1>5, <1>6, <1>7

\* The Mini App shows it, or shows its cap of visits that start no later.
LEMMA MiniHasIt ==
    ASSUME Looked, NEW id \in ActiveAppointmentsFrom(moment)
    PROVE  LET itsDay == rows[id].starts \div DayLen
               app == handleAppointments.days
           IN  \/ itsDay \in DOMAIN app /\ id \in app[itsDay]
               \/ /\ handleAppointments.truncated
                  /\ \A d \in DOMAIN app : \A o \in app[d] : rows[o].starts <= rows[id].starts
  <1>1. /\ id \in Ids /\ Active(id) /\ moment \in Nat
        /\ rows[id].starts \in Nat /\ moment <= rows[id].starts
        /\ MaxAppointments \in Nat \ {0}
    BY UpcomingRow, Lengths DEF Looked
  <1>2. Today * DayLen \in Nat /\ Today * DayLen <= moment
    BY DayIsOn
  <1>3. PICK these \in SUBSET Ids :
          these = {o \in Ids : ~rows[o].deleted /\ rows[o].starts >= Today * DayLen}
    OBVIOUS
  <1>4. id \in these /\ \A o \in these : rows[o].starts \in Nat
    BY <1>1, <1>2, <1>3, RowsStart DEF Active, Looked
  <1>5. PICK all : all = SoonestFirst(these)
    OBVIOUS
  <1>6. /\ all \in Seq(these) /\ Len(all) \in Nat /\ DOMAIN all = 1 .. Len(all)
        /\ \E n \in DOMAIN all : all[n] = id
        /\ \A m, n \in DOMAIN all : m < n <=> sooner(all[m], all[n])
    BY <1>4, <1>5, SoonestFirstIs DEF Looked
  <1>7. PICK place \in 1 .. Len(all) : all[place] = id
    BY <1>6
  <1>8. PICK items : items = Limited(all, MaxAppointments + 1)
    OBVIOUS
  <1>9. items = AppointmentsFrom(Today * DayLen, MaxAppointments + 1)
    BY <1>3, <1>5, <1>8 DEF AppointmentsFrom
  <1>10. PICK shown : shown = Limited(items, MaxAppointments)
    OBVIOUS
  <1>11. /\ handleAppointments.days = groupByDay(ToSet(shown))
         /\ handleAppointments.truncated = (Len(items) > MaxAppointments)
    BY <1>9, <1>10 DEF handleAppointments
  <1> DEFINE read == IF Len(all) > MaxAppointments + 1 THEN MaxAppointments + 1 ELSE Len(all)
             most == IF read > MaxAppointments THEN MaxAppointments ELSE read
  <1>12. /\ items \in Seq(these) /\ read \in Nat /\ Len(items) = read /\ DOMAIN items = 1 .. read
         /\ \A i \in 1 .. read : items[i] = all[i]
    <2>1. MaxAppointments + 1 \in Nat
      BY <1>1
    <2> QED
      BY <1>6, <1>8, <2>1, LimitedIs
  <1>14. /\ most \in Nat /\ DOMAIN shown = 1 .. most
         /\ \A i \in 1 .. most : shown[i] = all[i]
    <2>1. /\ most \in Nat /\ DOMAIN shown = 1 .. most
          /\ \A i \in 1 .. most : shown[i] = items[i]
      BY <1>1, <1>10, <1>12, LimitedIs
    <2> QED
      BY <1>1, <1>12, <2>1
  <1>15. \A o : o \in ToSet(shown) <=> \E i \in 1 .. most : o = all[i]
    <2>1. \A o : o \in ToSet(shown) <=> \E i \in DOMAIN shown : o = shown[i]
      BY DEF ToSet
    <2> HIDE DEF most
    <2> QED
      BY <1>14, <2>1
  <1>16. CASE place <= most
    <2>1. id \in ToSet(shown)
      BY <1>7, <1>15, <1>16
    <2> QED
      BY <1>11, <2>1 DEF groupByDay
  <1>17. CASE place > most
    <2>1. most = MaxAppointments /\ read > MaxAppointments /\ most < place
      <3>1. PICK n \in Nat : n = Len(all)
        BY <1>6
      <3>2. place \in 1 .. n
        BY <1>7, <3>1
      <3> QED
        BY <1>1, <1>17, <3>1, <3>2
    <2>2. \A o \in ToSet(shown) : rows[o].starts <= rows[id].starts
      <3> SUFFICES ASSUME NEW o \in ToSet(shown)
                   PROVE  rows[o].starts <= rows[id].starts
        OBVIOUS
      <3>1. PICK i \in 1 .. most : o = all[i]
        BY <1>15
      <3>2. i \in DOMAIN all /\ place \in DOMAIN all /\ i < place
        BY <1>6, <1>7, <1>14, <2>1, <3>1
      <3>3. sooner(o, id) /\ o \in these
        BY <1>6, <1>7, <3>1, <3>2, ElementOfSeq
      <3> QED
        BY <1>1, <1>4, <3>3 DEF sooner
    <2>3. \A d \in DOMAIN groupByDay(ToSet(shown)) :
             groupByDay(ToSet(shown))[d] \subseteq ToSet(shown)
      BY DEF groupByDay
    <2> QED
      BY <1>11, <1>12, <2>1, <2>2, <2>3
  <1>18. QED
    BY <1>7, <1>14, <1>16, <1>17

\* Every visit ahead can be found wherever visits are read, however many there are
\* and however long the pages, weeks and days, in the Mini App up to its cap: past
\* it the list says that it is cut off, and shows nothing that starts later
\* (listView, handleAppointments, weekItems, sendDailyDigest, handleCalendarICS).
THEOREM VisitsAreFound == SpecAppointments => []EveryVisitListed
  <1>1. AppointmentsInv => EveryVisitListed
    <2> SUFFICES ASSUME AppointmentsInv, NEW id \in ActiveAppointmentsFrom(moment)
                 PROVE  LET itsDay == rows[id].starts \div DayLen
                            app == handleAppointments.days
                        IN
                        /\ \E offset \in 0 .. rows[id].starts :
                              /\ id \in listView(offset).items
                              /\ \A o \in 0 .. offset - 1 : listView(o).next
                        /\ \E page \in 1 .. Len(rows) :
                              /\ id \in ToSet(WebPage(page).items)
                              /\ \A o \in 1 .. page - 1 : WebPage(o).next
                        /\ \/ itsDay \in DOMAIN app /\ id \in app[itsDay]
                           \/ /\ handleAppointments.truncated
                              /\ \A d \in DOMAIN app : \A o \in app[d] :
                                    rows[o].starts <= rows[id].starts
                        /\ id \in FeedVisits
                        /\ itsDay < Today + WeekDays => id \in weekItems
                        /\ itsDay = Today => id \in sendDailyDigest
      BY DEF EveryVisitListed
    <2>1. Looked
      BY BoundIsNatural DEF AppointmentsInv, Shape, Looked
    <2>2. id \in Standing
      BY <2>1, UpcomingRow DEF Standing, Active
    <2> QED
      BY <2>1, <2>2, WeekHasIt, PageHasIt, DaysHaveIt, MiniHasIt
  <1> QED
    BY <1>1, VisitsInvariant, PTL

-----------------------------------------------------------------------------
(* The bills.                                                               *)

Maths == [kind : Kinds, unit : STRING \cup {NoValue}, rate1 : Int, rate2 : Int \cup {NoValue}]

\* A row of readings, whatever its columns hold.
IsReading(r) ==
    r = [utility |-> r.utility, tariff |-> r.tariff, period |-> r.period,
         prev1 |-> r.prev1, prev2 |-> r.prev2, curr1 |-> r.curr1, curr2 |-> r.curr2,
         consumed1 |-> r.consumed1, consumed2 |-> r.consumed2,
         amount |-> r.amount, paid |-> r.paid]

PricedBy(r, t) == ComputeAmount(r, t) = r

\* What a handler has read still holds if it was alone.
CreateJob(j) ==
    /\ j = [step |-> "create", alone |-> j.alone, r |-> j.r]
    /\ IsReading(j.r)
    /\ j.r.tariff \in DOMAIN tariffs
    /\ j.alone => PricedBy(j.r, tariffs[j.r.tariff])

EditJob(j) ==
    /\ j = [step |-> "edit", alone |-> j.alone, id |-> j.id, r |-> j.r]
    /\ IsReading(j.r)
    /\ j.alone => /\ j.id \in ReadingIds
                  /\ j.r.utility = readings[j.id].utility
                  /\ j.r.tariff = readings[j.id].tariff
                  /\ PricedBy(j.r, tariffs[j.r.tariff])

TariffJob(j) ==
    /\ j = [step |-> j.step, alone |-> j.alone, id |-> j.id, t |-> j.t]
    /\ j.step \in {"tariff", "write"}
    /\ j.id \in DOMAIN tariffs
    /\ j.t \in Maths
    /\ j.alone /\ j.step = "write" /\ TariffUsedInReadings(j.id)
          => Math(tariffs[j.id]) = Math(j.t)

JobOK(j) == j = Away \/ (j.alone \in BOOLEAN /\ (CreateJob(j) \/ EditJob(j) \/ TariffJob(j)))

Jobs == DOMAIN desk = Desks /\ \A d \in Desks : JobOK(desk[d])

\* The tables hold rows, and a tariff that is named exists.
Tables ==
    /\ addresses \in Seq(BOOLEAN)
    /\ tariffs \in Seq(Tariff)
    /\ utilities \in Seq(Utility)
    /\ \A u \in DOMAIN utilities : utilities[u].tariff \in {NoTariff} \cup DOMAIN tariffs
    /\ \A id \in ReadingIds : IsReading(readings[id]) /\ readings[id].tariff \in DOMAIN tariffs

MeterInv == Tables /\ Jobs /\ PricedAsBilled

-----------------------------------------------------------------------------
(* Pricing.                                                                 *)

Used1(r, t) == IF t.kind # "flat" /\ Known(r.prev1, r.curr1)
               THEN r.curr1 - r.prev1 ELSE NoValue
Used2(r, t) == IF t.kind = "meter_zoned" /\ Known(r.prev2, r.curr2) /\ t.rate2 # NoValue
               THEN r.curr2 - r.prev2 ELSE NoValue
Cost(used, rate) == IF used = NoValue THEN 0 ELSE used * rate
Keep1(v, t) == IF t.kind = "flat" THEN NoValue ELSE v
Keep2(v, t) == IF t.kind = "meter_zoned" THEN v ELSE NoValue
Amount(r, t) == IF t.kind = "flat" THEN t.rate1
                ELSE Cost(Used1(r, t), t.rate1) + Cost(Used2(r, t), t.rate2)

LEMMA PricingIs ==
    ASSUME NEW r, IsReading(r), NEW t
    PROVE  ComputeAmount(r, t) =
               [utility |-> r.utility, tariff |-> r.tariff, period |-> r.period,
                prev1 |-> Keep1(r.prev1, t), prev2 |-> Keep2(r.prev2, t),
                curr1 |-> Keep1(r.curr1, t), curr2 |-> Keep2(r.curr2, t),
                consumed1 |-> Used1(r, t), consumed2 |-> Used2(r, t),
                amount |-> Amount(r, t), paid |-> r.paid]
  <1>1. ComputeAmount(r, t) =
            [r EXCEPT !.prev1 = Keep1(r.prev1, t), !.curr1 = Keep1(r.curr1, t),
                      !.prev2 = Keep2(r.prev2, t), !.curr2 = Keep2(r.curr2, t),
                      !.consumed1 = Used1(r, t), !.consumed2 = Used2(r, t),
                      !.amount = Amount(r, t)]
    BY DEF ComputeAmount, Keep1, Keep2, Used1, Used2, Amount, Cost
  <1>2. QED
    BY <1>1 DEF IsReading

\* Pricing a reading gives a reading of the same service at the same tariff.
LEMMA PricingKeeps ==
    ASSUME NEW r, IsReading(r), NEW t
    PROVE  /\ IsReading(ComputeAmount(r, t))
           /\ ComputeAmount(r, t).utility = r.utility
           /\ ComputeAmount(r, t).tariff = r.tariff
  BY PricingIs DEF IsReading

\* Pricing a priced reading again changes nothing.
LEMMA PricingSettles ==
    ASSUME NEW r, IsReading(r), NEW t
    PROVE  PricedBy(ComputeAmount(r, t), t)
  <1> DEFINE p == ComputeAmount(r, t)
  <1>1. IsReading(p)
    BY PricingKeeps
  <1>2. /\ p.utility = r.utility /\ p.tariff = r.tariff /\ p.period = r.period
        /\ p.prev1 = Keep1(r.prev1, t) /\ p.prev2 = Keep2(r.prev2, t)
        /\ p.curr1 = Keep1(r.curr1, t) /\ p.curr2 = Keep2(r.curr2, t)
        /\ p.consumed1 = Used1(r, t) /\ p.consumed2 = Used2(r, t)
        /\ p.amount = Amount(r, t) /\ p.paid = r.paid
    BY PricingIs
  <1> HIDE DEF p
  <1>3. /\ Keep1(p.prev1, t) = p.prev1 /\ Keep1(p.curr1, t) = p.curr1
        /\ Keep2(p.prev2, t) = p.prev2 /\ Keep2(p.curr2, t) = p.curr2
    BY <1>2 DEF Keep1, Keep2
  <1>4. Used1(p, t) = Used1(r, t) /\ Used2(p, t) = Used2(r, t)
    BY <1>2 DEF Used1, Used2, Keep1, Keep2
  <1>5. Amount(p, t) = Amount(r, t)
    BY <1>4 DEF Amount
  <1>6. ComputeAmount(p, t) = p
    BY <1>1, <1>2, <1>3, <1>4, <1>5, PricingIs DEF IsReading
  <1>7. QED
    BY <1>6 DEF PricedBy, p

\* Only the tariff's kind and rates matter.
LEMMA PricingByMath ==
    ASSUME NEW r, NEW t, NEW s, t.kind = s.kind, t.rate1 = s.rate1, t.rate2 = s.rate2
    PROVE  ComputeAmount(r, t) = ComputeAmount(r, s)
  BY DEF ComputeAmount

\* Paying changes nothing of the price.
LEMMA PricingUnpaid ==
    ASSUME NEW r, IsReading(r), NEW t, PricedBy(r, t), NEW p
    PROVE  IsReading([r EXCEPT !.paid = p]) /\ PricedBy([r EXCEPT !.paid = p], t)
  <1> DEFINE q == [r EXCEPT !.paid = p]
  <1>1. /\ IsReading(q)
        /\ q.utility = r.utility /\ q.tariff = r.tariff /\ q.period = r.period
        /\ q.prev1 = r.prev1 /\ q.prev2 = r.prev2 /\ q.curr1 = r.curr1 /\ q.curr2 = r.curr2
        /\ q.consumed1 = r.consumed1 /\ q.consumed2 = r.consumed2 /\ q.amount = r.amount
    BY DEF IsReading
  <1> HIDE DEF q
  <1>2. Used1(q, t) = Used1(r, t) /\ Used2(q, t) = Used2(r, t)
    BY <1>1 DEF Used1, Used2
  <1>3. Amount(q, t) = Amount(r, t)
    BY <1>2 DEF Amount
  <1>4. /\ r.prev1 = Keep1(r.prev1, t) /\ r.prev2 = Keep2(r.prev2, t)
        /\ r.curr1 = Keep1(r.curr1, t) /\ r.curr2 = Keep2(r.curr2, t)
        /\ r.consumed1 = Used1(r, t) /\ r.consumed2 = Used2(r, t) /\ r.amount = Amount(r, t)
    <2>1. r = [utility |-> r.utility, tariff |-> r.tariff, period |-> r.period,
                prev1 |-> Keep1(r.prev1, t), prev2 |-> Keep2(r.prev2, t),
                curr1 |-> Keep1(r.curr1, t), curr2 |-> Keep2(r.curr2, t),
                consumed1 |-> Used1(r, t), consumed2 |-> Used2(r, t),
                amount |-> Amount(r, t), paid |-> r.paid]
      BY PricingIs DEF PricedBy
    <2>2. QED
      BY <2>1
  <1>5. ComputeAmount(q, t) = q
    BY <1>1, <1>2, <1>3, <1>4, PricingIs DEF IsReading
  <1>6. QED
    BY <1>1, <1>5 DEF PricedBy, q

-----------------------------------------------------------------------------
(* Handlers in flight.                                                      *)

\* One handler reads, or gives up: what the others have read stands.
LEMMA ReadKeepsJobs ==
    ASSUME Jobs, NEW d \in Desks, NEW job, Reads(d, job), JobOK(job),
           UNCHANGED <<tariffs, readings>>
    PROVE  Jobs'
  <1>1. DOMAIN desk' = Desks /\ \A o \in Desks : desk'[o] = IF o = d THEN job ELSE desk[o]
    BY DEF Jobs, Reads
  <1>2. ASSUME NEW o \in Desks PROVE JobOK(desk[o])' /\ JobOK(desk'[o])
    <2>1. JobOK(desk'[o])
      BY <1>1 DEF Jobs
    <2>2. QED
      BY <2>1 DEF JobOK, CreateJob, EditJob, TariffJob, TariffUsedInReadings, ReadingIds
  <1>3. QED
    BY <1>1, <1>2 DEF Jobs

\* What a handler has read, once it is no longer alone.
LEMMA CrowdedCreate ==
    ASSUME NEW j, NEW k, CreateJob(j), k = [j EXCEPT !.alone = FALSE]
    PROVE  k = [step |-> "create", alone |-> FALSE, r |-> j.r]
  <1> DEFINE a == j.alone  x == j.r
  <1>1. j = [step |-> "create", alone |-> a, r |-> x]
    BY DEF CreateJob
  <1> HIDE DEF a, x
  <1>2. k = [step |-> "create", alone |-> FALSE, r |-> x]
    BY <1>1
  <1>3. QED
    BY <1>2 DEF x

LEMMA CrowdedEdit ==
    ASSUME NEW j, NEW k, EditJob(j), k = [j EXCEPT !.alone = FALSE]
    PROVE  k = [step |-> "edit", alone |-> FALSE, id |-> j.id, r |-> j.r]
  <1> DEFINE a == j.alone  id == j.id  x == j.r
  <1>1. j = [step |-> "edit", alone |-> a, id |-> id, r |-> x]
    BY DEF EditJob
  <1> HIDE DEF a, id, x
  <1>2. k = [step |-> "edit", alone |-> FALSE, id |-> id, r |-> x]
    BY <1>1
  <1>3. QED
    BY <1>2 DEF id, x

\* One handler writes: nobody else is alone any more.
LEMMA WriteKeepsJobs ==
    ASSUME Jobs, NEW d \in Desks, Writes(d), DOMAIN tariffs \subseteq DOMAIN tariffs'
    PROVE  Jobs'
  <1>1. DOMAIN desk' = Desks
    BY DEF Writes
  <1>2. ASSUME NEW o \in Desks PROVE JobOK(desk[o])'
    <2> DEFINE j == desk[o]
    <2>1. CASE o = d \/ j = Away
      BY <2>1, <1>2 DEF Writes, JobOK
    <2>2. CASE o # d /\ j # Away
      <3>1. desk'[o] = [j EXCEPT !.alone = FALSE]
        BY <2>2, <1>2 DEF Writes
      <3>2. j.alone \in BOOLEAN /\ (CreateJob(j) \/ EditJob(j) \/ TariffJob(j))
        BY <2>2, <1>2 DEF Jobs, JobOK
      <3> HIDE DEF j
      <3>3. CASE CreateJob(j)
        <4>1. desk'[o] = [step |-> "create", alone |-> FALSE, r |-> j.r]
          BY <3>1, <3>3, CrowdedCreate, Zenon
        <4>2. CreateJob(desk[o])'
          BY <4>1, <3>3 DEF CreateJob
        <4>3. QED
          BY <4>1, <4>2 DEF JobOK
      <3>4. CASE EditJob(j)
        <4>1. desk'[o] = [step |-> "edit", alone |-> FALSE, id |-> j.id, r |-> j.r]
          BY <3>1, <3>4, CrowdedEdit, Zenon
        <4>2. EditJob(desk[o])'
          BY <4>1, <3>4 DEF EditJob
        <4>3. QED
          BY <4>1, <4>2 DEF JobOK
      <3>5. CASE TariffJob(j)
        <4>1. desk'[o] = [step |-> j.step, alone |-> FALSE, id |-> j.id, t |-> j.t]
          BY <3>1, <3>5 DEF TariffJob
        <4>2. TariffJob(desk[o])'
          BY <4>1, <3>5 DEF TariffJob
        <4>3. QED
          BY <4>1, <4>2 DEF JobOK
      <3>6. QED
        BY <3>2, <3>3, <3>4, <3>5
    <2>3. QED
      BY <2>1, <2>2
  <1>3. QED
    BY <1>1, <1>2 DEF Jobs

\* A handler that is in the middle of one thing is not in the middle of another.
LEMMA JobOfStep ==
    ASSUME Jobs, NEW d \in Desks
    PROVE  /\ desk[d].step = "create" => CreateJob(desk[d]) /\ desk[d].alone \in BOOLEAN
           /\ desk[d].step = "edit" => EditJob(desk[d]) /\ desk[d].alone \in BOOLEAN
           /\ desk[d].step \in {"tariff", "write"} => TariffJob(desk[d]) /\ desk[d].alone \in BOOLEAN
  <1> DEFINE j == desk[d]
  <1>1. JobOK(j)
    BY DEF Jobs
  <1> HIDE DEF j
  <1>2. Away.step = "away"
    BY DEF Away
  <1>3. /\ CreateJob(j) => j.step = "create"
        /\ EditJob(j) => j.step = "edit"
        /\ TariffJob(j) => j.step \in {"tariff", "write"}
    BY DEF CreateJob, EditJob, TariffJob
  <1>4. QED
    BY <1>1, <1>2, <1>3 DEF JobOK, j

\* Nobody is away and alone: a job to give up is no job.
LEMMA AwayIsOK == JobOK(Away)
  BY DEF JobOK

-----------------------------------------------------------------------------

LEMMA MeterInit == InitMeters => MeterInv
  <1> SUFFICES ASSUME InitMeters PROVE MeterInv
    OBVIOUS
  <1>1. ReadingIds = {}
    BY DEF InitMeters, ReadingIds
  <1>2. Tables
    BY <1>1, MetersAssumption DEF InitMeters, Tables, MetersAssumption
  <1>3. Jobs
    BY AwayIsOK DEF InitMeters, Jobs
  <1>4. QED
    BY <1>1, <1>2, <1>3 DEF MeterInv, PricedAsBilled

-----------------------------------------------------------------------------
(* Readings.                                                                *)

\* A blank reading of a service, with what was posted put on it.
LEMMA FormsAreReadings ==
    ASSUME NEW base, IsReading(base), NEW f
    PROVE  /\ IsReading(readingFromForm(base, f))
           /\ readingFromForm(base, f).utility = base.utility
           /\ readingFromForm(base, f).tariff = base.tariff
  <1> DEFINE p == f.period  a1 == f.prev1  b1 == f.curr1  a2 == f.prev2  b2 == f.curr2
             q == f.paid
             r == readingFromForm(base, f)
  <1>1. r = [base EXCEPT !.period = p, !.prev1 = a1, !.curr1 = b1,
                         !.prev2 = a2, !.curr2 = b2, !.paid = q]
    BY DEF readingFromForm
  <1> HIDE DEF p, a1, b1, a2, b2, q, r
  <1>2. IsReading(r) /\ r.utility = base.utility /\ r.tariff = base.tariff
    BY <1>1 DEF IsReading
  <1>3. QED
    BY <1>2 DEF r

LEMMA CreateReadStep ==
    ASSUME MeterInv, NEW d \in Desks, NEW u \in DOMAIN utilities, NEW f \in ReadingForms,
           ReadingCreateRead(d, u, f)
    PROVE  MeterInv'
  <1> DEFINE base == newReadingForm(u)
  <1>1. PICK carried \in BOOLEAN :
            Reads(d, [step |-> "create", alone |-> TRUE,
                      r |-> ComputeAmount(
                                readingFromForm(base, IF carried THEN [f EXCEPT !.prev1 = base.prev1] ELSE f),
                                tariffs[base.tariff])])
    BY DEF ReadingCreateRead
  <1> DEFINE form == IF carried THEN [f EXCEPT !.prev1 = base.prev1] ELSE f
             r == ComputeAmount(readingFromForm(base, form), tariffs[base.tariff])
             job == [step |-> "create", alone |-> TRUE, r |-> r]
  <1>2. IsReading(base) /\ base.tariff = utilities[u].tariff
    BY DEF newReadingForm, IsReading
  <1>3. base.tariff \in DOMAIN tariffs
    BY <1>2 DEF MeterInv, Tables, ReadingCreateRead
  <1> HIDE DEF base, form
  <1>4. /\ IsReading(readingFromForm(base, form))
        /\ readingFromForm(base, form).tariff = base.tariff
    BY <1>2, FormsAreReadings
  <1>5. IsReading(r) /\ r.tariff = base.tariff /\ PricedBy(r, tariffs[base.tariff])
    BY <1>4, PricingKeeps, PricingSettles
  <1> HIDE DEF r
  <1>6. CreateJob(job)
    BY <1>3, <1>5 DEF CreateJob
  <1>7. JobOK(job)
    BY <1>6 DEF JobOK
  <1>8. Reads(d, job)
    BY <1>1 DEF form, r
  <1>9. UNCHANGED <<addresses, utilities, tariffs, readings, raced>>
    BY DEF ReadingCreateRead
  <1> HIDE DEF job
  <1>10. Jobs'
    BY <1>7, <1>8, <1>9, ReadKeepsJobs DEF MeterInv
  <1>11. QED
    BY <1>9, <1>10 DEF MeterInv, Tables, PricedAsBilled, ReadingIds

LEMMA UpdateReadStep ==
    ASSUME MeterInv, NEW d \in Desks, NEW id \in ReadingIds, NEW f \in ReadingForms,
           ReadingUpdateRead(d, id, f)
    PROVE  MeterInv'
  <1> DEFINE base == readings[id]
             r == ComputeAmount(readingFromForm(base, f), tariffs[base.tariff])
             job == [step |-> "edit", alone |-> TRUE, id |-> id, r |-> r]
  <1>1. Reads(d, job) /\ UNCHANGED <<addresses, utilities, tariffs, readings, raced>>
    BY DEF ReadingUpdateRead, editReadingForm
  <1>2. IsReading(base)
    BY DEF MeterInv, Tables
  <1> HIDE DEF base
  <1>3. /\ IsReading(readingFromForm(base, f))
        /\ readingFromForm(base, f).tariff = base.tariff
        /\ readingFromForm(base, f).utility = base.utility
    BY <1>2, FormsAreReadings
  <1>4. /\ IsReading(r) /\ r.tariff = base.tariff /\ r.utility = base.utility
        /\ PricedBy(r, tariffs[base.tariff])
    BY <1>3, PricingKeeps, PricingSettles
  <1> HIDE DEF r
  <1>5. EditJob(job)
    BY <1>4 DEF EditJob, base
  <1>6. JobOK(job)
    BY <1>5 DEF JobOK
  <1> HIDE DEF job
  <1>7. Jobs'
    BY <1>1, <1>6, ReadKeepsJobs DEF MeterInv
  <1>8. QED
    BY <1>1, <1>7 DEF MeterInv, Tables, PricedAsBilled, ReadingIds

LEMMA CreateWriteStep ==
    ASSUME MeterInv, NEW d \in Desks, ReadingCreateWrite(d)
    PROVE  MeterInv'
  <1> DEFINE r == desk[d].r
             id == NextReading
  <1>1. /\ UNCHANGED <<addresses, utilities, tariffs>>
        /\ \/ Reads(d, Away) /\ UNCHANGED <<readings, raced>>
           \/ CreateReading(id, r) /\ Raced(d, {id}) /\ Writes(d)
    BY DEF ReadingCreateWrite
  <1>2. /\ IsReading(r) /\ r.tariff \in DOMAIN tariffs /\ desk[d].alone \in BOOLEAN
        /\ desk[d].alone => PricedBy(r, tariffs[r.tariff])
    BY JobOfStep DEF ReadingCreateWrite, MeterInv, CreateJob
  <1> HIDE DEF r, id
  <1>3. CASE Reads(d, Away) /\ UNCHANGED <<readings, raced>>
    <2>1. Jobs'
      BY <1>1, <1>3, AwayIsOK, ReadKeepsJobs DEF MeterInv
    <2>2. QED
      BY <1>1, <1>3, <2>1 DEF MeterInv, Tables, PricedAsBilled, ReadingIds
  <1>4. CASE CreateReading(id, r) /\ Raced(d, {id}) /\ Writes(d)
    <2>1. Jobs'
      BY <1>1, <1>4, WriteKeepsJobs DEF MeterInv
    <2>2. /\ ReadingIds' = ReadingIds \cup {id}
          /\ \A o \in ReadingIds' : readings'[o] = IF o = id THEN r ELSE readings[o]
      BY <1>4 DEF CreateReading, ReadingIds
    <2>3. Tables'
      BY <1>1, <1>2, <2>2 DEF MeterInv, Tables
    <2>4. /\ raced \subseteq raced'
          /\ ~desk[d].alone => id \in raced'
      BY <1>4 DEF Raced
    <2>5. ASSUME NEW o \in ReadingIds' \ raced'
          PROVE  PricedBy(readings'[o], tariffs[readings'[o].tariff])
      <3>1. CASE o = id
        BY <1>2, <2>2, <2>4, <2>5, <3>1
      <3>2. CASE o # id
        BY <2>2, <2>4, <2>5, <3>2 DEF MeterInv, PricedAsBilled, PricedBy
      <3>3. QED
        BY <3>1, <3>2
    <2>6. PricedAsBilled'
      BY <1>1, <2>5 DEF PricedAsBilled, PricedBy
    <2>7. QED
      BY <2>1, <2>3, <2>6 DEF MeterInv
  <1>5. QED
    BY <1>1, <1>3, <1>4

LEMMA UpdateWriteStep ==
    ASSUME MeterInv, NEW d \in Desks, ReadingUpdateWrite(d)
    PROVE  MeterInv'
  <1> DEFINE id == desk[d].id
             r == desk[d].r
  <1>1. /\ UNCHANGED <<addresses, utilities, tariffs>>
        /\ \/ Reads(d, Away) /\ UNCHANGED <<readings, raced>>
           \/ UpdateReading(id, r) /\ Raced(d, {id} \cap ReadingIds) /\ Writes(d)
    BY DEF ReadingUpdateWrite
  <1>2. /\ IsReading(r) /\ desk[d].alone \in BOOLEAN
        /\ desk[d].alone => /\ r.utility = readings[id].utility
                            /\ r.tariff = readings[id].tariff
                            /\ PricedBy(r, tariffs[r.tariff])
    BY JobOfStep DEF ReadingUpdateWrite, MeterInv, EditJob
  <1> HIDE DEF r, id
  <1>3. CASE Reads(d, Away) /\ UNCHANGED <<readings, raced>>
    <2>1. Jobs'
      BY <1>1, <1>3, AwayIsOK, ReadKeepsJobs DEF MeterInv
    <2>2. QED
      BY <1>1, <1>3, <2>1 DEF MeterInv, Tables, PricedAsBilled, ReadingIds
  <1>4. CASE UpdateReading(id, r) /\ Raced(d, {id} \cap ReadingIds) /\ Writes(d)
    <2>1. Jobs'
      BY <1>1, <1>4, WriteKeepsJobs DEF MeterInv
    <2>2. /\ ReadingIds' = ReadingIds
          /\ \A o \in ReadingIds \ {id} : readings'[o] = readings[o]
      BY <1>4 DEF UpdateReading, ReadingIds
    <2>3. ASSUME id \in ReadingIds
          PROVE  /\ IsReading(readings'[id])
                 /\ readings'[id].tariff = readings[id].tariff
                 /\ desk[d].alone => readings'[id] = r
      <3> DEFINE q == readings'[id]
                 u == readings[id].utility
                 t == readings[id].tariff
      <3>1. q = [r EXCEPT !.utility = u, !.tariff = t]
        BY <1>4, <2>3 DEF UpdateReading
      <3> HIDE DEF q, u, t
      <3>2. /\ IsReading(q) /\ q.tariff = t
            /\ u = r.utility /\ t = r.tariff => q = r
        BY <1>2, <3>1 DEF IsReading
      <3>3. QED
        BY <1>2, <3>2 DEF q, u, t
    <2>4. Tables'
      BY <1>1, <2>2, <2>3 DEF MeterInv, Tables
    <2>5. /\ raced \subseteq raced'
          /\ ~desk[d].alone /\ id \in ReadingIds => id \in raced'
      BY <1>4 DEF Raced
    <2>6. ASSUME NEW o \in ReadingIds' \ raced'
          PROVE  PricedBy(readings'[o], tariffs[readings'[o].tariff])
      <3>1. CASE o = id
        BY <1>2, <2>2, <2>3, <2>5, <2>6, <3>1
      <3>2. CASE o # id
        BY <2>2, <2>5, <2>6, <3>2 DEF MeterInv, PricedAsBilled, PricedBy
      <3>3. QED
        BY <3>1, <3>2
    <2>7. PricedAsBilled'
      BY <1>1, <2>6 DEF PricedAsBilled, PricedBy
    <2>8. QED
      BY <2>1, <2>4, <2>7 DEF MeterInv
  <1>5. QED
    BY <1>1, <1>3, <1>4

LEMMA PaidStep ==
    ASSUME MeterInv, NEW d \in Desks, NEW id \in ReadingIds, handleReadingPaid(d, id)
    PROVE  MeterInv'
  <1>1. /\ TogglePaid(id) /\ Writes(d)
        /\ UNCHANGED <<addresses, utilities, tariffs, raced>>
    BY DEF handleReadingPaid
  <1>2. Jobs'
    BY <1>1, WriteKeepsJobs DEF MeterInv
  <1>3. /\ ReadingIds' = ReadingIds
        /\ \A o \in ReadingIds \ {id} : readings'[o] = readings[o]
        /\ readings'[id] = [readings[id] EXCEPT !.paid = ~@]
    BY <1>1 DEF TogglePaid, ReadingIds
  <1> DEFINE r == readings[id]
             q == readings'[id]
             p == ~r.paid
  <1>4. IsReading(r) /\ r.tariff \in DOMAIN tariffs
    BY DEF MeterInv, Tables
  <1>5. q = [r EXCEPT !.paid = p]
    BY <1>3
  <1> HIDE DEF r, q, p
  <1>6. IsReading(q) /\ q.tariff = r.tariff
    BY <1>4, <1>5 DEF IsReading
  <1>7. ASSUME NEW t, PricedBy(r, t) PROVE PricedBy(q, t)
    BY <1>4, <1>5, <1>7, PricingUnpaid
  <1>8. Tables'
    BY <1>1, <1>3, <1>4, <1>6 DEF MeterInv, Tables, r, q
  <1>9. ASSUME NEW o \in ReadingIds' \ raced'
        PROVE  PricedBy(readings'[o], tariffs[readings'[o].tariff])
    <2>1. PricedBy(readings[o], tariffs[readings[o].tariff])
      BY <1>1, <1>3, <1>9 DEF MeterInv, PricedAsBilled, PricedBy
    <2>2. QED
      BY <1>3, <1>6, <1>7, <1>9, <2>1 DEF r, q
  <1>10. PricedAsBilled'
    BY <1>1, <1>9 DEF PricedAsBilled, PricedBy
  <1>11. QED
    BY <1>2, <1>8, <1>10 DEF MeterInv

LEMMA DeleteStep ==
    ASSUME MeterInv, NEW d \in Desks, NEW id \in ReadingIds, handleReadingDelete(d, id)
    PROVE  MeterInv'
  <1>1. /\ DeleteReading(id) /\ Writes(d) /\ raced' = raced \ {id}
        /\ UNCHANGED <<addresses, utilities, tariffs>>
    BY DEF handleReadingDelete
  <1>2. Jobs'
    BY <1>1, WriteKeepsJobs DEF MeterInv
  <1>3. /\ ReadingIds' = ReadingIds \ {id}
        /\ \A o \in ReadingIds' : readings'[o] = readings[o]
    BY <1>1 DEF DeleteReading, ReadingIds
  <1>4. QED
    BY <1>1, <1>2, <1>3 DEF MeterInv, Tables, PricedAsBilled

-----------------------------------------------------------------------------
(* Reference data.                                                          *)

LEMMA AddressStep ==
    ASSUME MeterInv, NEW d \in Desks, handleAddressSave(d)
    PROVE  MeterInv'
  <1>1. /\ addresses' = Append(addresses, TRUE) /\ Writes(d)
        /\ UNCHANGED <<utilities, tariffs, readings, raced>>
    BY DEF handleAddressSave, CreateAddress
  <1>2. Jobs'
    BY <1>1, WriteKeepsJobs DEF MeterInv
  <1>3. addresses' \in Seq(BOOLEAN)
    BY <1>1, AppendProperties DEF MeterInv, Tables
  <1>4. QED
    BY <1>1, <1>2, <1>3 DEF MeterInv, Tables, PricedAsBilled, ReadingIds

LEMMA UtilityStep ==
    ASSUME MeterInv, NEW d \in Desks, handleUtilitySave(d)
    PROVE  MeterInv'
  <1>1. /\ Writes(d) /\ UNCHANGED <<addresses, tariffs, readings, raced>>
    BY DEF handleUtilitySave
  <1>2. Jobs'
    BY <1>1, WriteKeepsJobs DEF MeterInv
  <1>3. PICK a \in DOMAIN addresses, n \in Names, t \in {NoTariff} \cup DOMAIN tariffs :
            LET u == [address |-> a, name |-> n, tariff |-> t, active |-> TRUE]
            IN  CreateUtility(u) \/ \E id \in DOMAIN utilities : UpdateUtility(id, u)
    BY DEF handleUtilitySave
  <1> DEFINE u == [address |-> a, name |-> n, tariff |-> t, active |-> TRUE]
  <1>4. a \in Nat /\ t \in Nat
    BY DEF MeterInv, Tables, NoTariff
  <1>5. u \in Utility /\ u.tariff = t
    BY <1>4 DEF Utility
  <1>6. utilities \in Seq(Utility)
        /\ \A o \in DOMAIN utilities : utilities[o].tariff \in {NoTariff} \cup DOMAIN tariffs
    BY DEF MeterInv, Tables
  <1>7. CreateUtility(u) \/ \E id \in DOMAIN utilities : UpdateUtility(id, u)
    BY <1>3
  <1> HIDE DEF u
  <1>8. /\ utilities' \in Seq(Utility)
        /\ \A o \in DOMAIN utilities' : utilities'[o].tariff \in {NoTariff} \cup DOMAIN tariffs
    <2>1. CASE CreateUtility(u)
      <3>1. /\ utilities' \in Seq(Utility) /\ Len(utilities') = Len(utilities) + 1
            /\ \A o \in 1 .. Len(utilities) : utilities'[o] = utilities[o]
            /\ utilities'[Len(utilities) + 1] = u
        BY <1>5, <1>6, <2>1, AppendProperties DEF CreateUtility
      <3>2. QED
        BY <1>5, <1>6, <3>1
    <2>2. CASE \E id \in DOMAIN utilities : UpdateUtility(id, u)
      <3>1. PICK id \in DOMAIN utilities : UpdateUtility(id, u)
        BY <2>2
      <3> DEFINE active == utilities[id].active
                 row == [u EXCEPT !.active = active]
      <3>2. utilities[id] \in Utility
        BY <1>6
      <3>3. active \in BOOLEAN
        BY <3>2, Zenon DEF Utility
      <3>4. utilities' = [utilities EXCEPT ![id] = row]
        BY <3>1 DEF UpdateUtility
      <3> HIDE DEF active
      <3>5. row = [address |-> a, name |-> n, tariff |-> t, active |-> active]
        BY DEF u
      <3>6. row \in Utility /\ row.tariff = t
        BY <1>4, <3>3, <3>5 DEF Utility
      <3> HIDE DEF row
      <3>7. /\ utilities' \in Seq(Utility) /\ Len(utilities') = Len(utilities)
            /\ \A o \in 1 .. Len(utilities) : utilities'[o] = IF o = id THEN row ELSE utilities[o]
        BY <1>6, <3>4, <3>6, ExceptSeq
      <3>8. QED
        BY <1>6, <3>6, <3>7
    <2>3. QED
      BY <1>7, <2>1, <2>2
  <1>9. QED
    BY <1>1, <1>2, <1>8 DEF MeterInv, Tables, PricedAsBilled, ReadingIds

\* A row appended: the others stand.
LEMMA TariffCreateStep ==
    ASSUME MeterInv, NEW d \in Desks, NEW f \in TariffForms, TariffCreate(d, f)
    PROVE  MeterInv'
  <1>1. /\ tariffs' = Append(tariffs, TariffRow(f, TRUE)) /\ Writes(d)
        /\ UNCHANGED <<addresses, utilities, readings, raced>>
    BY DEF TariffCreate, CreateTariff
  <1>2. f \in Maths
    BY MetersAssumption DEF MetersAssumption, Maths, TariffCreate
  <1>3. TariffRow(f, TRUE) \in Tariff
    BY <1>2 DEF TariffRow, Tariff, Maths
  <1>. DEFINE row == TariffRow(f, TRUE)
  <1>a. tariffs \in Seq(Tariff) /\ row \in Tariff /\ tariffs' = Append(tariffs, row)
    BY <1>1, <1>3 DEF MeterInv, Tables
  <1>. HIDE DEF row
  <1>4. /\ tariffs' \in Seq(Tariff) /\ Len(tariffs') = Len(tariffs) + 1
        /\ \A o \in 1 .. Len(tariffs) : tariffs'[o] = tariffs[o]
    BY <1>a, AppendProperties
  <1>5. /\ DOMAIN tariffs \subseteq DOMAIN tariffs'
        /\ \A o \in DOMAIN tariffs : tariffs'[o] = tariffs[o]
    BY <1>a, <1>4
  <1>6. Jobs'
    BY <1>1, <1>5, WriteKeepsJobs DEF MeterInv
  <1>7. QED
    BY <1>1, <1>4, <1>5, <1>6 DEF MeterInv, Tables, PricedAsBilled, ReadingIds

\* A row changed: what it is called, or how it calculates.
LEMMA TariffsChanged ==
    ASSUME MeterInv, NEW d \in Desks, Writes(d), NEW id \in DOMAIN tariffs,
           NEW row \in Tariff, tariffs' = [tariffs EXCEPT ![id] = row],
           Math(row) = Math(tariffs[id]) \/ {o \in ReadingIds : readings[o].tariff = id} \subseteq raced',
           raced \subseteq raced', UNCHANGED <<addresses, utilities, readings>>
    PROVE  MeterInv'
  <1>1. /\ tariffs' \in Seq(Tariff) /\ DOMAIN tariffs' = DOMAIN tariffs
        /\ \A o \in DOMAIN tariffs : tariffs'[o] = IF o = id THEN row ELSE tariffs[o]
    BY ExceptSeq DEF MeterInv, Tables
  <1>2. Jobs'
    BY <1>1, WriteKeepsJobs DEF MeterInv
  <1>3. Tables'
    BY <1>1 DEF MeterInv, Tables, ReadingIds
  <1>4. ASSUME NEW o \in ReadingIds \ raced'
        PROVE  PricedBy(readings[o], tariffs'[readings[o].tariff])
    <2> DEFINE r == readings[o]
               t == r.tariff
    <2>1. PricedBy(r, tariffs[t]) /\ t \in DOMAIN tariffs
      BY <1>4 DEF MeterInv, Tables, PricedAsBilled, PricedBy
    <2>2. CASE t # id
      BY <1>1, <2>1, <2>2
    <2>3. CASE t = id
      <3>1. Math(row) = Math(tariffs[id])
        BY <1>4, <2>3
      <3>2. /\ row.kind = tariffs[id].kind /\ row.rate1 = tariffs[id].rate1
            /\ row.rate2 = tariffs[id].rate2
        BY <3>1 DEF Math
      <3>3. ComputeAmount(r, row) = ComputeAmount(r, tariffs[id])
        BY <3>2, PricingByMath
      <3>4. QED
        BY <1>1, <2>1, <2>3, <3>3 DEF PricedBy
    <2>4. QED
      BY <2>2, <2>3
  <1>5. PricedAsBilled'
    BY <1>4 DEF PricedAsBilled, PricedBy, ReadingIds
  <1>6. QED
    BY <1>2, <1>3, <1>5 DEF MeterInv

LEMMA TariffReadStep ==
    ASSUME MeterInv, NEW d \in Desks, NEW id \in DOMAIN tariffs, NEW f \in TariffForms,
           TariffSaveRead(d, id, f)
    PROVE  MeterInv'
  <1> DEFINE locked == TariffUsedInReadings(id)
             old == tariffs[id]
             field(v, stored, blank) == IF v # Absent THEN v ELSE IF locked THEN stored ELSE blank
             t == [kind |-> field(f.kind, old.kind, Blank),
                   unit |-> field(f.unit, old.unit, NoValue),
                   rate1 |-> field(f.rate1, old.rate1, 0),
                   rate2 |-> field(f.rate2, old.rate2, NoValue)]
             job == [step |-> "tariff", alone |-> TRUE, id |-> id, t |-> t]
  <1>1. /\ t.kind # Blank /\ Reads(d, job)
        /\ UNCHANGED <<addresses, utilities, tariffs, readings, raced>>
    BY DEF TariffSaveRead
  <1>2. old \in Tariff
    BY DEF MeterInv, Tables
  <1>3. f \in [kind : Kinds \cup {Absent}, unit : STRING \cup {NoValue, Absent},
               rate1 : Int \cup {Absent}, rate2 : Int \cup {NoValue, Absent}]
    BY MetersAssumption DEF MetersAssumption
  <1> HIDE DEF old, locked
  <1>4. t \in Maths
    BY <1>1, <1>2, <1>3 DEF Maths, Tariff
  <1> HIDE DEF t
  <1>5. TariffJob(job)
    BY <1>4 DEF TariffJob
  <1>6. JobOK(job)
    BY <1>5 DEF JobOK
  <1> HIDE DEF job
  <1>7. Jobs'
    BY <1>1, <1>6, ReadKeepsJobs DEF MeterInv
  <1>8. QED
    BY <1>1, <1>7 DEF MeterInv, Tables, PricedAsBilled, ReadingIds

LEMMA TariffCheckStep ==
    ASSUME MeterInv, NEW d \in Desks, UpdateTariffRead(d)
    PROVE  MeterInv'
  <1> DEFINE j == desk[d]
             job == IF TariffUsedInReadings(j.id) /\ tariffMathChanged(j.id, j.t)
                    THEN Away ELSE [j EXCEPT !.step = "write"]
  <1>1. Reads(d, job) /\ UNCHANGED <<addresses, utilities, tariffs, readings, raced>>
    BY DEF UpdateTariffRead
  <1>2. TariffJob(j) /\ j.alone \in BOOLEAN
    BY JobOfStep DEF UpdateTariffRead, MeterInv
  <1> HIDE DEF j
  <1>3. JobOK(job)
    <2>1. CASE TariffUsedInReadings(j.id) /\ tariffMathChanged(j.id, j.t)
      BY <2>1, AwayIsOK
    <2>2. CASE ~(TariffUsedInReadings(j.id) /\ tariffMathChanged(j.id, j.t))
      <3>1. job = [j EXCEPT !.step = "write"]
        BY <2>2
      <3> HIDE DEF job
      <3>2. /\ job = [step |-> "write", alone |-> j.alone, id |-> j.id, t |-> j.t]
        BY <1>2, <3>1 DEF TariffJob
      <3>3. TariffJob(job) /\ job.alone \in BOOLEAN
        BY <1>2, <2>2, <3>2 DEF TariffJob, tariffMathChanged
      <3>4. QED
        BY <3>3 DEF JobOK
    <2>3. QED
      BY <2>1, <2>2
  <1> HIDE DEF job
  <1>4. Jobs'
    BY <1>1, <1>3, ReadKeepsJobs DEF MeterInv
  <1>5. QED
    BY <1>1, <1>4 DEF MeterInv, Tables, PricedAsBilled, ReadingIds

LEMMA TariffWriteStep ==
    ASSUME MeterInv, NEW d \in Desks, UpdateTariffWrite(d)
    PROVE  MeterInv'
  <1> DEFINE j == desk[d]
             id == j.id
             row == TariffRow(j.t, tariffs[id].active)
  <1>1. TariffJob(j) /\ j.alone \in BOOLEAN /\ j.step = "write"
    BY JobOfStep DEF UpdateTariffWrite, MeterInv
  <1>2. /\ tariffs' = [tariffs EXCEPT ![id] = row] /\ Writes(d)
        /\ Raced(d, {o \in ReadingIds : readings[o].tariff = id})
        /\ UNCHANGED <<addresses, utilities, readings>>
    BY DEF UpdateTariffWrite, UpdateTariff
  <1>3. id \in DOMAIN tariffs /\ j.t \in Maths /\ tariffs[id] \in Tariff
    BY <1>1 DEF TariffJob, MeterInv, Tables
  <1>4. row \in Tariff /\ Math(row) = Math(j.t)
    BY <1>3 DEF TariffRow, Tariff, Maths, Math
  <1>5. raced \subseteq raced'
    BY <1>2 DEF Raced
  <1>6. Math(row) = Math(tariffs[id]) \/ {o \in ReadingIds : readings[o].tariff = id} \subseteq raced'
    <2>1. CASE j.alone /\ TariffUsedInReadings(id)
      BY <1>1, <1>4, <2>1 DEF TariffJob
    <2>2. CASE ~TariffUsedInReadings(id)
      BY <2>2 DEF TariffUsedInReadings
    <2>3. CASE ~j.alone
      BY <1>2, <2>3 DEF Raced
    <2>4. QED
      BY <2>1, <2>2, <2>3
  <1> HIDE DEF row, id
  <1>7. QED
    BY <1>2, <1>3, <1>4, <1>5, <1>6, TariffsChanged

LEMMA ToggleStep ==
    ASSUME MeterInv, NEW d \in Desks, handleMeterToggle(d)
    PROVE  MeterInv'
  <1>1. ToggleActive /\ Writes(d) /\ UNCHANGED <<readings, raced>>
    BY DEF handleMeterToggle
  <1>2. CASE /\ \E a \in DOMAIN addresses : addresses' = [addresses EXCEPT ![a] = ~@]
             /\ UNCHANGED <<utilities, tariffs>>
    <2>1. Jobs'
      BY <1>1, <1>2, WriteKeepsJobs DEF MeterInv
    <2>2. addresses' \in Seq(BOOLEAN)
      BY <1>2, ExceptSeq DEF MeterInv, Tables
    <2>3. QED
      BY <1>1, <1>2, <2>1, <2>2 DEF MeterInv, Tables, PricedAsBilled, ReadingIds
  <1>3. CASE /\ \E u \in DOMAIN utilities : utilities' = [utilities EXCEPT ![u].active = ~@]
             /\ UNCHANGED <<addresses, tariffs>>
    <2>1. Jobs'
      BY <1>1, <1>3, WriteKeepsJobs DEF MeterInv
    <2>2. PICK u \in DOMAIN utilities : utilities' = [utilities EXCEPT ![u].active = ~@]
      BY <1>3
    <2> DEFINE row == [utilities[u] EXCEPT !.active = ~@]
    <2>3. utilities[u] \in Utility
      BY DEF MeterInv, Tables
    <2>4. row \in Utility /\ row.tariff = utilities[u].tariff
      BY <2>3 DEF Utility
    <2>5. utilities' = [utilities EXCEPT ![u] = row]
      BY <2>2
    <2> HIDE DEF row
    <2>6. /\ utilities' \in Seq(Utility) /\ DOMAIN utilities' = DOMAIN utilities
          /\ \A o \in DOMAIN utilities : utilities'[o] = IF o = u THEN row ELSE utilities[o]
      BY <2>4, <2>5, ExceptSeq DEF MeterInv, Tables
    <2>7. \A o \in DOMAIN utilities' : utilities'[o].tariff \in {NoTariff} \cup DOMAIN tariffs
      BY <2>4, <2>6 DEF MeterInv, Tables
    <2>8. QED
      BY <1>1, <1>3, <2>1, <2>6, <2>7 DEF MeterInv, Tables, PricedAsBilled, ReadingIds
  <1>4. CASE /\ \E t \in DOMAIN tariffs : tariffs' = [tariffs EXCEPT ![t].active = ~@]
             /\ UNCHANGED <<addresses, utilities>>
    <2>1. PICK t \in DOMAIN tariffs : tariffs' = [tariffs EXCEPT ![t].active = ~@]
      BY <1>4
    <2> DEFINE row == [tariffs[t] EXCEPT !.active = ~@]
    <2>2. tariffs[t] \in Tariff
      BY DEF MeterInv, Tables
    <2>3. row \in Tariff /\ Math(row) = Math(tariffs[t])
      BY <2>2 DEF Tariff, Math
    <2>4. tariffs' = [tariffs EXCEPT ![t] = row]
      BY <2>1
    <2> HIDE DEF row
    <2>5. QED
      BY <1>1, <1>4, <2>3, <2>4, TariffsChanged
  <1>5. QED
    BY <1>1, <1>2, <1>3, <1>4 DEF ToggleActive

-----------------------------------------------------------------------------

\* The tables refer to what exists, a handler that was alone still holds what it
\* read, and so every month stays priced.
THEOREM MetersInvariant == SpecMeters => []MeterInv
  <1>1. InitMeters => MeterInv
    BY MeterInit
  <1>2. MeterInv /\ [NextMeters]_meterVars => MeterInv'
    <2> SUFFICES ASSUME MeterInv, [NextMeters]_meterVars PROVE MeterInv'
      OBVIOUS
    <2>1. CASE UNCHANGED meterVars
      BY <2>1 DEF meterVars, MeterInv, Tables, Jobs, JobOK, CreateJob, EditJob, TariffJob,
                  TariffUsedInReadings, PricedAsBilled, ReadingIds
    <2>2. CASE NextMeters
      <3>1. PICK d \in Desks :
              \/ \E u \in DOMAIN utilities, f \in ReadingForms : ReadingCreateRead(d, u, f)
              \/ \E id \in ReadingIds, f \in ReadingForms : ReadingUpdateRead(d, id, f)
              \/ ReadingCreateWrite(d) \/ ReadingUpdateWrite(d)
              \/ \E id \in ReadingIds : handleReadingPaid(d, id) \/ handleReadingDelete(d, id)
              \/ handleAddressSave(d) \/ handleUtilitySave(d)
              \/ \E f \in TariffForms : TariffCreate(d, f)
              \/ \E id \in DOMAIN tariffs, f \in TariffForms : TariffSaveRead(d, id, f)
              \/ UpdateTariffRead(d) \/ UpdateTariffWrite(d) \/ handleMeterToggle(d)
        BY <2>2 DEF NextMeters
      <3>2. QED
        BY <3>1, CreateReadStep, UpdateReadStep, CreateWriteStep, UpdateWriteStep, PaidStep,
           DeleteStep, AddressStep, UtilityStep, TariffCreateStep, TariffReadStep,
           TariffCheckStep, TariffWriteStep, ToggleStep
    <2>3. QED
      BY <2>1, <2>2
  <1>3. QED
    BY <1>1, <1>2, PTL DEF SpecMeters

\* However handlers interleave, a month nobody raced over is what its tariff makes
\* of it (handleReadingUpdate, UpdateTariff).
THEOREM MonthsStayPriced == SpecMeters => []PricedAsBilled
  BY MetersInvariant, PTL DEF MeterInv

-----------------------------------------------------------------------------
(* What the rows hold and name.                                             *)

Values == Int \cup {NoValue}

\* A reading of a service that is there, with numbers in its columns.
RowOK(r, services) ==
    /\ r.utility \in services
    /\ r.period \in Periods
    /\ r.prev1 \in Values /\ r.curr1 \in Values
    /\ r.prev2 \in Values /\ r.curr2 \in Values
    /\ r.amount \in Int

Addressed == \A u \in DOMAIN utilities : utilities[u].address \in DOMAIN addresses

Stored == \A id \in ReadingIds : RowOK(readings[id], DOMAIN utilities)

\* The reading in the hands of a handler is such a row too.
Held ==
    \A d \in Desks : desk[d].step \in {"create", "edit"} => RowOK(desk[d].r, DOMAIN utilities)

Numbered == ReadingIds \subseteq 1 .. MaxReadings /\ raced \subseteq ReadingIds

RowsInv == Addressed /\ Stored /\ Held /\ Numbered

\* In a finite set that is not empty some element comes after all the others.
LEMMA LastOfAll ==
    ASSUME NEW S, IsFiniteSet(S), S # {}, NEW R,
           \A x \in S : <<x, x>> \notin R,
           \A x \in S, y \in S, z \in S : <<x, y>> \in R /\ <<y, z>> \in R => <<x, z>> \in R
    PROVE  \E x \in S : \A y \in S : <<x, y>> \notin R
  <1> DEFINE after(x) == {y \in S : <<x, y>> \in R}
             T == {after(x) : x \in S}
  <1>1. IsWellFoundedOn(StrictSubsetOrdering(S), FiniteSubsetsOf(S))
    BY FS_StrictSubsetOrderingWellFounded
  <1>2. T \subseteq FiniteSubsetsOf(S) /\ T # {}
    <2>1. \A x \in S : after(x) \in SUBSET S
      OBVIOUS
    <2>2. \A x \in S : IsFiniteSet(after(x))
      <3> HIDE DEF after
      <3>1. QED
        BY <2>1, FS_Subset
    <2> HIDE DEF after
    <2>3. QED
      BY <2>1, <2>2 DEF FiniteSubsetsOf
  <1>3. PICK A \in T : \A B \in T : <<B, A>> \notin StrictSubsetOrdering(S)
    BY <1>1, <1>2, WFMin
  <1>4. PICK x \in S : A = after(x)
    OBVIOUS
  <1>5. ASSUME NEW y \in S, <<x, y>> \in R PROVE FALSE
    <2>1. after(y) \subseteq after(x) /\ y \in after(x) /\ y \notin after(y)
      BY <1>5
    <2>2. after(y) \in T /\ after(y) \in SUBSET S /\ after(x) \in SUBSET S
      OBVIOUS
    <2> HIDE DEF after, T
    <2>3. <<after(y), after(x)>> \in StrictSubsetOrdering(S)
      BY <2>1, <2>2 DEF StrictSubsetOrdering
    <2>4. QED
      BY <1>3, <1>4, <2>2, <2>3
  <1>6. QED
    BY <1>5

LEMMA IdsAreFinite ==
    ASSUME Numbered
    PROVE  (\A id \in ReadingIds : id \in Nat) /\ IsFiniteSet(ReadingIds)
  <1>1. MaxReadings \in Nat
    BY MetersAssumption DEF MetersAssumption
  <1>2. IsFiniteSet(1 .. MaxReadings)
    BY <1>1, FS_Interval
  <1>3. ReadingIds \in SUBSET (1 .. MaxReadings)
    BY DEF Numbered
  <1>4. IsFiniteSet(ReadingIds)
    BY <1>2, <1>3, FS_Subset
  <1>5. QED
    BY <1>1, <1>3, <1>4

\* The id a reading gets is one that no reading has.
LEMMA NextIsNew ==
    ASSUME Numbered
    PROVE  NextReading \in Nat \ {0} /\ NextReading \notin ReadingIds
  <1> DEFINE S == ReadingIds
             R == {p \in S \X S : p[1] < p[2]}
  <1>1. (\A x \in S : x \in Nat) /\ IsFiniteSet(S)
    BY IdsAreFinite
  <1>2. CASE S = {}
    BY <1>2 DEF NextReading
  <1>3. CASE S # {}
    <2>1. \A x \in S, y \in S : <<x, y>> \in R <=> x < y
      OBVIOUS
    <2> HIDE DEF S, R
    <2>2. /\ \A x \in S : <<x, x>> \notin R
          /\ \A x \in S, y \in S, z \in S : <<x, y>> \in R /\ <<y, z>> \in R => <<x, z>> \in R
      BY <1>1, <2>1
    <2>3. PICK x \in S : \A y \in S : <<x, y>> \notin R
      BY <1>1, <1>3, <2>2, LastOfAll
    <2>4. \A y \in S : x >= y
      <3> TAKE y \in S
      <3>1. ~(x < y)
        BY <2>1, <2>3
      <3>2. x \in Nat /\ y \in Nat
        BY <1>1
      <3>3. QED
        BY <3>1, <3>2
    <2>5. Max(S) \in S /\ \A y \in S : Max(S) >= y
      BY <2>4 DEF Max
    <2>6. NextReading = Max(S) + 1
      BY <1>3 DEF NextReading, S
    <2>7. QED
      BY <1>1, <2>5, <2>6 DEF S
  <1>4. QED
    BY <1>2, <1>3

\* The latest reading of a service is one.
LEMMA LatestIsThere ==
    ASSUME Numbered, Stored, NEW u
    PROVE  LatestReadingForUtility(u) \in {0} \cup ReadingIds
  <1> DEFINE S == {id \in ReadingIds : readings[id].utility = u}
             later(a, b) == \/ readings[a].period < readings[b].period
                            \/ readings[a].period = readings[b].period /\ a < b
             R == {p \in S \X S : later(p[1], p[2])}
  <1>1. (\A x \in S : x \in Nat) /\ IsFiniteSet(S)
    <2>1. S \in SUBSET ReadingIds
      OBVIOUS
    <2> HIDE DEF S
    <2>2. QED
      BY <2>1, IdsAreFinite, FS_Subset
  <1>2. \A id \in S : readings[id].period \in Nat
    BY MetersAssumption DEF MetersAssumption, Stored, RowOK
  <1>3. CASE S = {}
    BY <1>3 DEF LatestReadingForUtility
  <1>4. CASE S # {}
    <2>1. \A x \in S, y \in S : <<x, y>> \in R <=> later(x, y)
      OBVIOUS
    <2>2. /\ \A x \in S : ~later(x, x)
          /\ \A x \in S, y \in S, z \in S : later(x, y) /\ later(y, z) => later(x, z)
      <3> HIDE DEF S
      <3>1. QED
        BY <1>1, <1>2
    <2>3. \A x \in S, y \in S : ~later(x, y) =>
              \/ readings[y].period < readings[x].period
              \/ readings[y].period = readings[x].period /\ y <= x
      <3> HIDE DEF S
      <3>1. QED
        BY <1>1, <1>2
    <2>4. S \subseteq ReadingIds
      OBVIOUS
    <2>5. LatestReadingForUtility(u) =
              CHOOSE id \in S : \A o \in S :
                  \/ readings[o].period < readings[id].period
                  \/ readings[o].period = readings[id].period /\ o <= id
      BY <1>4 DEF LatestReadingForUtility
    <2> HIDE DEF S, R, later
    <2>6. PICK x \in S : \A y \in S : <<x, y>> \notin R
      <3>1. /\ \A x \in S : <<x, x>> \notin R
            /\ \A x \in S, y \in S, z \in S : <<x, y>> \in R /\ <<y, z>> \in R => <<x, z>> \in R
        BY <2>1, <2>2
      <3>2. QED
        BY <1>1, <1>4, <3>1, LastOfAll
    <2>7. \A y \in S : \/ readings[y].period < readings[x].period
                       \/ readings[y].period = readings[x].period /\ y <= x
      BY <2>1, <2>3, <2>6
    <2>8. QED
      BY <2>4, <2>5, <2>7
  <1>5. QED
    BY <1>3, <1>4

\* A form puts numbers into the columns, and pricing keeps them numbers.
LEMMA PricedRow ==
    ASSUME NEW base, IsReading(base), NEW f \in ReadingForms, NEW prev1 \in Values,
           NEW form, form = f \/ form = [f EXCEPT !.prev1 = prev1],
           NEW t \in Tariff, NEW services, base.utility \in services
    PROVE  RowOK(ComputeAmount(readingFromForm(base, form), t), services)
  <1>1. f \in [period : Periods, prev1 : Values, curr1 : Values, prev2 : Values,
               curr2 : Values, paid : BOOLEAN]
    BY MetersAssumption DEF MetersAssumption, Values
  <1>2. /\ form.period \in Periods /\ form.prev1 \in Values /\ form.curr1 \in Values
        /\ form.prev2 \in Values /\ form.curr2 \in Values
    BY <1>1
  <1> DEFINE p == form.period  a1 == form.prev1  b1 == form.curr1
             a2 == form.prev2  b2 == form.curr2  q == form.paid
             r == readingFromForm(base, form)
  <1>3. r = [base EXCEPT !.period = p, !.prev1 = a1, !.curr1 = b1,
                         !.prev2 = a2, !.curr2 = b2, !.paid = q]
    BY DEF readingFromForm
  <1>4. IsReading(r)
    BY FormsAreReadings
  <1> HIDE DEF p, a1, b1, a2, b2, q, r
  <1>5. /\ r.utility = base.utility /\ r.period = p /\ r.prev1 = a1 /\ r.curr1 = b1
        /\ r.prev2 = a2 /\ r.curr2 = b2
    BY <1>3 DEF IsReading
  <1>6. /\ p \in Periods /\ a1 \in Values /\ b1 \in Values /\ a2 \in Values /\ b2 \in Values
    BY <1>2 DEF p, a1, b1, a2, b2
  <1> DEFINE c == ComputeAmount(r, t)
  <1>7. /\ c.utility = r.utility /\ c.period = r.period
        /\ c.prev1 = Keep1(r.prev1, t) /\ c.prev2 = Keep2(r.prev2, t)
        /\ c.curr1 = Keep1(r.curr1, t) /\ c.curr2 = Keep2(r.curr2, t)
        /\ c.amount = Amount(r, t)
    BY <1>4, PricingIs
  <1> HIDE DEF c
  <1>8. /\ t.rate1 \in Int /\ t.rate2 \in Values
    BY DEF Tariff, Values
  <1>9. Used1(r, t) \in Values /\ Used2(r, t) \in Values
        /\ (Used2(r, t) # NoValue => t.rate2 \in Int)
    BY <1>5, <1>6, <1>8 DEF Used1, Used2, Known, Values
  <1>10. \A used \in Values : \A rate : (used # NoValue => rate \in Int) => Cost(used, rate) \in Int
    BY DEF Cost, Values
  <1>11. Amount(r, t) \in Int
    <2>1. Cost(Used1(r, t), t.rate1) \in Int /\ Cost(Used2(r, t), t.rate2) \in Int
      BY <1>8, <1>9, <1>10
    <2>2. QED
      BY <1>8, <2>1 DEF Amount
  <1>12. QED
    BY <1>5, <1>6, <1>7, <1>11 DEF RowOK, Keep1, Keep2, Values, c, r

\* One handler reads, or gives up.
LEMMA ReadKeepsHeld ==
    ASSUME Jobs, Held, NEW d \in Desks, NEW job, Reads(d, job), UNCHANGED utilities,
           job.step \in {"create", "edit"} => RowOK(job.r, DOMAIN utilities)
    PROVE  Held'
  <1>1. \A o \in Desks : desk'[o] = IF o = d THEN job ELSE desk[o]
    BY DEF Jobs, Reads
  <1>2. QED
    BY <1>1 DEF Held

\* One handler writes: what the others hold they go on holding.
LEMMA WriteKeepsHeld ==
    ASSUME Jobs, Held, NEW d \in Desks, Writes(d), DOMAIN utilities \subseteq DOMAIN utilities'
    PROVE  Held'
  <1>1. \A r : RowOK(r, DOMAIN utilities) => RowOK(r, DOMAIN utilities')
    BY DEF RowOK
  <1>2. Away.step = "away"
    BY DEF Away
  <1>3. ASSUME NEW o \in Desks, desk'[o].step \in {"create", "edit"}
        PROVE  desk[o].step \in {"create", "edit"} /\ desk'[o].r = desk[o].r
    <2> DEFINE j == desk[o]
    <2>1. o # d /\ j # Away /\ desk'[o] = [j EXCEPT !.alone = FALSE]
      BY <1>2, <1>3 DEF Writes
    <2>2. CreateJob(j) \/ EditJob(j) \/ TariffJob(j)
      BY <2>1, <1>3 DEF Jobs, JobOK
    <2> HIDE DEF j
    <2>3. CASE CreateJob(j)
      <3>1. desk'[o] = [step |-> "create", alone |-> FALSE, r |-> j.r]
        BY <2>1, <2>3, CrowdedCreate, Zenon
      <3>2. QED
        BY <2>3, <3>1 DEF CreateJob, j
    <2>4. CASE EditJob(j)
      <3>1. desk'[o] = [step |-> "edit", alone |-> FALSE, id |-> j.id, r |-> j.r]
        BY <2>1, <2>4, CrowdedEdit, Zenon
      <3>2. QED
        BY <2>4, <3>1 DEF EditJob, j
    <2>5. CASE TariffJob(j)
      <3>1. desk'[o] = [step |-> j.step, alone |-> FALSE, id |-> j.id, t |-> j.t]
        BY <2>1, <2>5 DEF TariffJob
      <3>2. QED
        BY <1>3, <2>5, <3>1 DEF TariffJob
    <2>6. QED
      BY <2>2, <2>3, <2>4, <2>5
  <1>4. \A o \in Desks : desk'[o].step \in {"create", "edit"} => RowOK(desk'[o].r, DOMAIN utilities')
    BY <1>1, <1>3 DEF Held
  <1>5. QED
    BY <1>4 DEF Held

\* The readings are as they were, and services are added at most.
LEMMA StoredStands ==
    ASSUME Stored, Numbered, UNCHANGED readings, DOMAIN utilities \subseteq DOMAIN utilities',
           raced' \subseteq ReadingIds
    PROVE  Stored' /\ Numbered'
  BY DEF Stored, Numbered, RowOK, ReadingIds

LEMMA RowsReads ==
    ASSUME MeterInv, RowsInv, NEW d \in Desks,
           \/ \E u \in DOMAIN utilities, f \in ReadingForms : ReadingCreateRead(d, u, f)
           \/ \E id \in ReadingIds, f \in ReadingForms : ReadingUpdateRead(d, id, f)
    PROVE  RowsInv'
  <1> USE DEF RowsInv
  <1>1. UNCHANGED <<addresses, utilities, tariffs, readings, raced>>
    BY DEF ReadingCreateRead, ReadingUpdateRead
  <1>2. \E job : Reads(d, job) /\ job.step \in {"create", "edit"} /\ RowOK(job.r, DOMAIN utilities)
    <2>1. CASE \E u \in DOMAIN utilities, f \in ReadingForms : ReadingCreateRead(d, u, f)
      <3>1. PICK u \in DOMAIN utilities, f \in ReadingForms : ReadingCreateRead(d, u, f)
        BY <2>1
      <3> DEFINE base == newReadingForm(u)
                 prev1 == base.prev1
                 form(carried) == IF carried THEN [f EXCEPT !.prev1 = prev1] ELSE f
                 r(carried) == ComputeAmount(readingFromForm(base, form(carried)), tariffs[base.tariff])
                 job(carried) == [step |-> "create", alone |-> TRUE, r |-> r(carried)]
      <3>2. PICK carried \in BOOLEAN : Reads(d, job(carried))
        BY <3>1 DEF ReadingCreateRead
      <3>3. IsReading(base) /\ base.utility = u /\ base.tariff = utilities[u].tariff
        BY DEF newReadingForm, IsReading
      <3>4. prev1 \in Values
        <4>1. LatestReadingForUtility(u) \in {0} \cup ReadingIds
          BY LatestIsThere
        <4>2. prev1 = NoValue \/ \E id \in ReadingIds : prev1 = readings[id].curr1
          BY <4>1 DEF newReadingForm
        <4>3. QED
          BY <4>2 DEF Stored, RowOK, Values
      <3>5. tariffs[base.tariff] \in Tariff
        <4>1. base.tariff \in DOMAIN tariffs
          BY <3>1, <3>3 DEF MeterInv, Tables, ReadingCreateRead
        <4>2. QED
          BY <4>1 DEF MeterInv, Tables
      <3> HIDE DEF base, prev1
      <3>6. form(carried) = f \/ form(carried) = [f EXCEPT !.prev1 = prev1]
        OBVIOUS
      <3> HIDE DEF form
      <3>7. RowOK(r(carried), DOMAIN utilities)
        BY <3>3, <3>4, <3>5, <3>6, PricedRow
      <3> HIDE DEF r
      <3>8. job(carried).step = "create" /\ job(carried).r = r(carried)
        OBVIOUS
      <3> HIDE DEF job
      <3>9. QED
        BY <3>2, <3>7, <3>8
    <2>2. CASE \E id \in ReadingIds, f \in ReadingForms : ReadingUpdateRead(d, id, f)
      <3>1. PICK id \in ReadingIds, f \in ReadingForms : ReadingUpdateRead(d, id, f)
        BY <2>2
      <3> DEFINE base == readings[id]
                 r == ComputeAmount(readingFromForm(base, f), tariffs[base.tariff])
                 job == [step |-> "edit", alone |-> TRUE, id |-> id, r |-> r]
      <3>2. Reads(d, job)
        BY <3>1 DEF ReadingUpdateRead, editReadingForm
      <3>3. IsReading(base) /\ base.utility \in DOMAIN utilities /\ tariffs[base.tariff] \in Tariff
        BY DEF MeterInv, Tables, Stored, RowOK
      <3> HIDE DEF base
      <3>4. 0 \in Values
        BY DEF Values
      <3>5. RowOK(r, DOMAIN utilities)
        BY <3>3, <3>4, PricedRow
      <3> HIDE DEF r
      <3>6. job.step = "edit" /\ job.r = r
        OBVIOUS
      <3> HIDE DEF job
      <3>7. QED
        BY <3>2, <3>5, <3>6
    <2>3. QED
      BY <2>1, <2>2
  <1>3. Held'
    BY <1>1, <1>2, ReadKeepsHeld DEF MeterInv
  <1>4. Stored' /\ Numbered'
    BY <1>1, StoredStands DEF Numbered
  <1>5. QED
    BY <1>1, <1>3, <1>4 DEF Addressed

LEMMA RowsCreateWrite ==
    ASSUME MeterInv, RowsInv, NEW d \in Desks, ReadingCreateWrite(d)
    PROVE  RowsInv'
  <1> USE DEF RowsInv
  <1> DEFINE r == desk[d].r
             id == NextReading
  <1>1. /\ UNCHANGED <<addresses, utilities, tariffs>>
        /\ \/ Reads(d, Away) /\ UNCHANGED <<readings, raced>>
           \/ id <= MaxReadings /\ CreateReading(id, r) /\ Raced(d, {id}) /\ Writes(d)
    BY DEF ReadingCreateWrite
  <1>2. RowOK(r, DOMAIN utilities)
    BY DEF ReadingCreateWrite, Held
  <1>3. Addressed'
    BY <1>1 DEF Addressed
  <1>4. CASE Reads(d, Away) /\ UNCHANGED <<readings, raced>>
    <2>1. Held'
      BY <1>1, <1>4, ReadKeepsHeld DEF MeterInv, Away
    <2>2. QED
      BY <1>1, <1>3, <1>4, <2>1, StoredStands DEF Numbered
  <1>5. CASE id <= MaxReadings /\ CreateReading(id, r) /\ Raced(d, {id}) /\ Writes(d)
    <2>1. id \in Nat \ {0} /\ MaxReadings \in Nat
      BY NextIsNew, MetersAssumption DEF MetersAssumption
    <2> HIDE DEF id, r
    <2>2. /\ ReadingIds' = ReadingIds \cup {id}
          /\ \A o \in ReadingIds' : readings'[o] = IF o = id THEN r ELSE readings[o]
      BY <1>5 DEF CreateReading, ReadingIds
    <2>3. Stored'
      BY <1>1, <1>2, <2>2 DEF Stored
    <2>4. Numbered'
      BY <1>5, <2>1, <2>2 DEF Numbered, Raced
    <2>5. Held'
      BY <1>1, <1>5, WriteKeepsHeld DEF MeterInv
    <2>6. QED
      BY <1>3, <2>3, <2>4, <2>5
  <1>6. QED
    BY <1>1, <1>4, <1>5

LEMMA RowsUpdateWrite ==
    ASSUME MeterInv, RowsInv, NEW d \in Desks, ReadingUpdateWrite(d)
    PROVE  RowsInv'
  <1> USE DEF RowsInv
  <1> DEFINE r == desk[d].r
             id == desk[d].id
  <1>1. /\ UNCHANGED <<addresses, utilities, tariffs>>
        /\ \/ Reads(d, Away) /\ UNCHANGED <<readings, raced>>
           \/ UpdateReading(id, r) /\ Raced(d, {id} \cap ReadingIds) /\ Writes(d)
    BY DEF ReadingUpdateWrite
  <1>2. RowOK(r, DOMAIN utilities) /\ IsReading(r)
    BY JobOfStep DEF ReadingUpdateWrite, Held, MeterInv, EditJob
  <1>3. Addressed'
    BY <1>1 DEF Addressed
  <1> HIDE DEF id, r
  <1>4. CASE Reads(d, Away) /\ UNCHANGED <<readings, raced>>
    <2>1. Held'
      BY <1>1, <1>4, ReadKeepsHeld DEF MeterInv, Away
    <2>2. QED
      BY <1>1, <1>3, <1>4, <2>1, StoredStands DEF Numbered
  <1>5. CASE UpdateReading(id, r) /\ Raced(d, {id} \cap ReadingIds) /\ Writes(d)
    <2> DEFINE row(o) == [r EXCEPT !.utility = readings[o].utility, !.tariff = readings[o].tariff]
    <2>1. /\ ReadingIds' = ReadingIds
          /\ \A o \in ReadingIds' : readings'[o] = IF o = id THEN row(o) ELSE readings[o]
      BY <1>5 DEF UpdateReading, ReadingIds
    <2>2. ASSUME NEW o \in ReadingIds PROVE RowOK(row(o), DOMAIN utilities)
      <3> DEFINE u == readings[o].utility  t == readings[o].tariff  q == row(o)
      <3>1. q = [r EXCEPT !.utility = u, !.tariff = t] /\ u \in DOMAIN utilities
        BY DEF Stored, RowOK
      <3> HIDE DEF u, t, q
      <3>2. /\ q.utility = u /\ q.period = r.period /\ q.prev1 = r.prev1 /\ q.curr1 = r.curr1
            /\ q.prev2 = r.prev2 /\ q.curr2 = r.curr2 /\ q.amount = r.amount
        BY <1>2, <3>1 DEF IsReading
      <3>3. QED
        BY <1>2, <3>1, <3>2 DEF RowOK, q
    <2> HIDE DEF row
    <2>3. Stored'
      BY <1>1, <2>1, <2>2 DEF Stored
    <2>4. Numbered'
      BY <1>5, <2>1 DEF Numbered, Raced
    <2>5. Held'
      BY <1>1, <1>5, WriteKeepsHeld DEF MeterInv
    <2>6. QED
      BY <1>3, <2>3, <2>4, <2>5
  <1>6. QED
    BY <1>1, <1>4, <1>5

LEMMA RowsPaidOrDeleted ==
    ASSUME MeterInv, RowsInv, NEW d \in Desks, NEW id \in ReadingIds,
           handleReadingPaid(d, id) \/ handleReadingDelete(d, id)
    PROVE  RowsInv'
  <1> USE DEF RowsInv
  <1>1. Writes(d) /\ UNCHANGED <<addresses, utilities, tariffs>>
    BY DEF handleReadingPaid, handleReadingDelete
  <1>2. Addressed' /\ Held'
    BY <1>1, WriteKeepsHeld DEF Addressed, MeterInv
  <1>3. CASE handleReadingPaid(d, id)
    <2> DEFINE r == readings[id]
               p == ~r.paid
               q == [r EXCEPT !.paid = p]
    <2>1. readings' = [readings EXCEPT ![id] = q] /\ raced' = raced
      BY <1>3 DEF handleReadingPaid, TogglePaid
    <2>2. IsReading(r) /\ RowOK(r, DOMAIN utilities)
      BY DEF MeterInv, Tables, Stored
    <2> HIDE DEF r, p
    <2>3. /\ q.utility = r.utility /\ q.period = r.period /\ q.prev1 = r.prev1 /\ q.curr1 = r.curr1
          /\ q.prev2 = r.prev2 /\ q.curr2 = r.curr2 /\ q.amount = r.amount
      BY <2>2 DEF IsReading
    <2> HIDE DEF q
    <2>4. RowOK(q, DOMAIN utilities)
      BY <2>2, <2>3 DEF RowOK
    <2>5. ReadingIds' = ReadingIds
          /\ \A o \in ReadingIds : readings'[o] = IF o = id THEN q ELSE readings[o]
      BY <2>1 DEF ReadingIds
    <2>6. QED
      BY <1>1, <1>2, <2>1, <2>4, <2>5 DEF Stored, Numbered
  <1>4. CASE handleReadingDelete(d, id)
    <2>1. /\ ReadingIds' = ReadingIds \ {id} /\ raced' = raced \ {id}
          /\ \A o \in ReadingIds' : readings'[o] = readings[o]
      BY <1>4 DEF handleReadingDelete, DeleteReading, ReadingIds
    <2>2. QED
      BY <1>1, <1>2, <2>1 DEF Stored, Numbered
  <1>5. QED
    BY <1>3, <1>4

\* Properties and services are added and changed, and services name properties.
LEMMA RowsReference ==
    ASSUME MeterInv, RowsInv, NEW d \in Desks,
           handleAddressSave(d) \/ handleUtilitySave(d) \/ handleMeterToggle(d)
    PROVE  RowsInv'
  <1> USE DEF RowsInv
  <1>1. Writes(d) /\ UNCHANGED <<readings, raced>>
    BY DEF handleAddressSave, handleUtilitySave, handleMeterToggle
  <1>2. addresses \in Seq(BOOLEAN) /\ utilities \in Seq(Utility)
    BY DEF MeterInv, Tables
  <1>3. DOMAIN utilities \subseteq DOMAIN utilities' /\ Addressed'
    <2>1. CASE handleAddressSave(d)
      <3>1. addresses' = Append(addresses, TRUE) /\ utilities' = utilities
        BY <2>1 DEF handleAddressSave, CreateAddress
      <3>2. DOMAIN addresses \subseteq DOMAIN addresses'
        BY <1>2, <3>1, AppendProperties
      <3>3. QED
        BY <3>1, <3>2 DEF Addressed
    <2>2. CASE handleUtilitySave(d)
      <3>1. PICK a \in DOMAIN addresses, n \in Names, t \in {NoTariff} \cup DOMAIN tariffs :
                LET u == [address |-> a, name |-> n, tariff |-> t, active |-> TRUE]
                IN  CreateUtility(u) \/ \E id \in DOMAIN utilities : UpdateUtility(id, u)
        BY <2>2 DEF handleUtilitySave
      <3> DEFINE u == [address |-> a, name |-> n, tariff |-> t, active |-> TRUE]
      <3>2. addresses' = addresses
        BY <2>2 DEF handleUtilitySave
      <3>3. \A b : [u EXCEPT !.active = b].address = a
        OBVIOUS
      <3>4. u.address = a
        OBVIOUS
      <3>5. CreateUtility(u) \/ \E id \in DOMAIN utilities : UpdateUtility(id, u)
        BY <3>1
      <3> HIDE DEF u
      <3>6. CASE CreateUtility(u)
        <4>1. utilities' = Append(utilities, u)
          BY <3>6 DEF CreateUtility
        <4>2. /\ DOMAIN utilities = 1 .. Len(utilities) /\ Len(utilities) \in Nat
              /\ DOMAIN utilities' = 1 .. Len(utilities) + 1
              /\ \A o \in 1 .. Len(utilities) : utilities'[o] = utilities[o]
              /\ utilities'[Len(utilities) + 1] = u
          BY <1>2, <4>1
        <4>3. QED
          BY <3>2, <3>4, <4>2 DEF Addressed
      <3>7. CASE \E id \in DOMAIN utilities : UpdateUtility(id, u)
        <4>1. PICK id \in DOMAIN utilities : UpdateUtility(id, u)
          BY <3>7
        <4> DEFINE row == [u EXCEPT !.active = utilities[id].active]
        <4>2. utilities' = [utilities EXCEPT ![id] = row] /\ row.address = a
          BY <3>3, <4>1 DEF UpdateUtility
        <4> HIDE DEF row
        <4>3. QED
          BY <3>2, <4>2 DEF Addressed
      <3>8. QED
        BY <3>5, <3>6, <3>7
    <2>3. CASE handleMeterToggle(d)
      <3>1. ToggleActive
        BY <2>3 DEF handleMeterToggle
      <3>2. CASE addresses' = addresses /\ utilities' = utilities
        BY <3>2 DEF Addressed
      <3>3. CASE \E a \in DOMAIN addresses : addresses' = [addresses EXCEPT ![a] = ~@]
                                            /\ utilities' = utilities
        BY <3>3 DEF Addressed
      <3>4. CASE \E u \in DOMAIN utilities : utilities' = [utilities EXCEPT ![u].active = ~@]
                                            /\ addresses' = addresses
        <4>1. PICK u \in DOMAIN utilities : utilities' = [utilities EXCEPT ![u].active = ~@]
                                            /\ addresses' = addresses
          BY <3>4
        <4> DEFINE b == ~utilities[u].active
                   row == [utilities[u] EXCEPT !.active = b]
        <4>2. utilities' = [utilities EXCEPT ![u] = row]
          BY <4>1
        <4>3. row.address = utilities[u].address
          <5>1. utilities[u] \in Utility
            BY <1>2
          <5> HIDE DEF b
          <5>2. QED
            BY <5>1 DEF Utility
        <4> HIDE DEF row
        <4>4. QED
          BY <4>1, <4>2, <4>3 DEF Addressed
      <3>5. QED
        BY <3>1, <3>2, <3>3, <3>4 DEF ToggleActive
    <2>4. QED
      BY <2>1, <2>2, <2>3
  <1>4. Held'
    BY <1>1, <1>3, WriteKeepsHeld DEF MeterInv
  <1>5. QED
    BY <1>1, <1>3, <1>4, StoredStands DEF Numbered

\* A tariff is made, read, checked or written.
LEMMA RowsTariffs ==
    ASSUME MeterInv, RowsInv, NEW d \in Desks,
           \/ \E f \in TariffForms : TariffCreate(d, f)
           \/ \E id \in DOMAIN tariffs, f \in TariffForms : TariffSaveRead(d, id, f)
           \/ UpdateTariffRead(d) \/ UpdateTariffWrite(d)
    PROVE  RowsInv'
  <1> USE DEF RowsInv
  <1>1. UNCHANGED <<addresses, utilities, readings>>
    BY DEF TariffCreate, TariffSaveRead, UpdateTariffRead, UpdateTariffWrite
  <1>2. raced' \subseteq ReadingIds
    BY DEF TariffCreate, TariffSaveRead, UpdateTariffRead, UpdateTariffWrite, Raced, Numbered
  <1>3. Held'
    <2>1. CASE Writes(d)
      BY <1>1, <2>1, WriteKeepsHeld DEF MeterInv
    <2>2. CASE \E job : Reads(d, job) /\ job.step \notin {"create", "edit"}
      BY <1>1, <2>2, ReadKeepsHeld DEF MeterInv
    <2>3. ASSUME NEW id \in DOMAIN tariffs, NEW f \in TariffForms, TariffSaveRead(d, id, f)
          PROVE  \E job : Reads(d, job) /\ job.step \notin {"create", "edit"}
      <3>1. \E t : Reads(d, [step |-> "tariff", alone |-> TRUE, id |-> id, t |-> t])
        BY <2>3 DEF TariffSaveRead
      <3>2. QED
        BY <3>1
    <2>4. ASSUME UpdateTariffRead(d)
          PROVE  \E job : Reads(d, job) /\ job.step \notin {"create", "edit"}
      <3> DEFINE j == desk[d]
      <3>1. TariffJob(j)
        BY <2>4, JobOfStep DEF UpdateTariffRead, MeterInv
      <3>2. Reads(d, Away) \/ Reads(d, [j EXCEPT !.step = "write"])
        BY <2>4 DEF UpdateTariffRead
      <3> HIDE DEF j
      <3>3. [j EXCEPT !.step = "write"].step = "write"
        BY <3>1 DEF TariffJob
      <3>4. Away.step = "away"
        BY DEF Away
      <3>5. QED
        BY <3>2, <3>3, <3>4
    <2>5. (\E f \in TariffForms : TariffCreate(d, f)) \/ UpdateTariffWrite(d) => Writes(d)
      BY DEF TariffCreate, UpdateTariffWrite
    <2>6. QED
      BY <2>1, <2>2, <2>3, <2>4, <2>5
  <1>4. QED
    BY <1>1, <1>2, <1>3, StoredStands DEF Addressed

LEMMA RowsInit == InitMeters => RowsInv
  <1> SUFFICES ASSUME InitMeters PROVE RowsInv
    OBVIOUS
  <1>1. ReadingIds = {} /\ raced = {}
    BY DEF InitMeters, ReadingIds
  <1>2. \A d \in Desks : desk[d].step = "away"
    BY DEF InitMeters, Away
  <1>3. Addressed
    BY MetersAssumption DEF InitMeters, Addressed, MetersAssumption
  <1>4. QED
    BY <1>1, <1>2, <1>3 DEF RowsInv, Stored, Held, Numbered

LEMMA RowsNext == MeterInv /\ RowsInv /\ [NextMeters]_meterVars => RowsInv'
  <1> SUFFICES ASSUME MeterInv, RowsInv, [NextMeters]_meterVars PROVE RowsInv'
    OBVIOUS
  <1>1. CASE UNCHANGED meterVars
    BY <1>1 DEF meterVars, RowsInv, Addressed, Stored, Held, Numbered, ReadingIds
  <1>2. CASE NextMeters
    <2>1. PICK d \in Desks :
            \/ \E u \in DOMAIN utilities, f \in ReadingForms : ReadingCreateRead(d, u, f)
            \/ \E id \in ReadingIds, f \in ReadingForms : ReadingUpdateRead(d, id, f)
            \/ ReadingCreateWrite(d) \/ ReadingUpdateWrite(d)
            \/ \E id \in ReadingIds : handleReadingPaid(d, id) \/ handleReadingDelete(d, id)
            \/ handleAddressSave(d) \/ handleUtilitySave(d)
            \/ \E f \in TariffForms : TariffCreate(d, f)
            \/ \E id \in DOMAIN tariffs, f \in TariffForms : TariffSaveRead(d, id, f)
            \/ UpdateTariffRead(d) \/ UpdateTariffWrite(d) \/ handleMeterToggle(d)
      BY <1>2 DEF NextMeters
    <2>2. QED
      BY <2>1, RowsReads, RowsCreateWrite, RowsUpdateWrite, RowsPaidOrDeleted, RowsReference,
         RowsTariffs
  <1>3. QED
    BY <1>1, <1>2

\* Whatever handlers interleave: a reading is of a service, a period and a tariff
\* that are there, a service of a property and a tariff that are there, and every
\* amount is a number (internal/store/readings.go, utilities.go, tariffs.go).
THEOREM MetersTyped == SpecMeters => []MetersTypeOK
  <1>1. SpecMeters => []RowsInv
    <2>1. RowsInv /\ MeterInv /\ [NextMeters]_meterVars => RowsInv'
      BY RowsNext
    <2>2. QED
      BY RowsInit, <2>1, MetersInvariant, PTL DEF SpecMeters
  <1>2. MeterInv /\ RowsInv => MetersTypeOK
    BY DEF MeterInv, Tables, RowsInv, Addressed, Stored, RowOK, Numbered, MetersTypeOK
  <1>3. QED
    BY <1>1, <1>2, MetersInvariant, PTL

-----------------------------------------------------------------------------
(* A month is summed up.  Every figure is the sum of some amounts, and the    *)
(* figures that must agree are sums of the same ones, cut in different ways.  *)

\* What the sums are over.
Billed == Tables /\ Addressed /\ Stored /\ Numbered

AmountOf == [id \in ReadingIds |-> readings[id].amount]
UtilityOf == [id \in ReadingIds |-> readings[id].utility]

Month(p) == {id \in ReadingIds : readings[id].period = p}
Mine(a, p) == {id \in ReadingIds : readings[id].period = p /\ AddressOf(id) = a}

LEMMA MonthOfRows ==
    ASSUME Billed, NEW p
    PROVE  /\ IsFiniteSet(ReadingIds)
           /\ Month(p) \in SUBSET ReadingIds /\ IsFiniteSet(Month(p))
           /\ \A id \in ReadingIds : AmountOf[id] \in Int
           /\ \A id \in ReadingIds : /\ UtilityOf[id] \in DOMAIN utilities
                                      /\ AddressOf(id) \in DOMAIN addresses
           /\ IsFiniteSet(DOMAIN utilities) /\ IsFiniteSet(DOMAIN addresses)
  <1>1. IsFiniteSet(ReadingIds)
    BY IdsAreFinite DEF Billed
  <1>2. Month(p) \in SUBSET ReadingIds
    BY DEF Month
  <1>3. IsFiniteSet(Month(p))
    BY <1>1, <1>2, FS_Subset
  <1>4. \A id \in ReadingIds : /\ AmountOf[id] \in Int
                               /\ UtilityOf[id] \in DOMAIN utilities
    BY DEF Billed, Stored, RowOK, AmountOf, UtilityOf
  <1>5. \A id \in ReadingIds : AddressOf(id) \in DOMAIN addresses
    BY DEF Billed, Stored, RowOK, Addressed, AddressOf
  <1>6. /\ DOMAIN utilities = 1 .. Len(utilities) /\ Len(utilities) \in Nat
        /\ DOMAIN addresses = 1 .. Len(addresses) /\ Len(addresses) \in Nat
    BY LenProperties DEF Billed, Tables
  <1>7. IsFiniteSet(DOMAIN utilities) /\ IsFiniteSet(DOMAIN addresses)
    BY <1>6, FS_Interval
  <1>8. QED
    BY <1>1, <1>2, <1>3, <1>4, <1>5, <1>7

LEMMA TotalIs ==
    ASSUME Billed, NEW rowIds \in SUBSET ReadingIds
    PROVE  Total(rowIds) = SumFunctionOnSet(AmountOf, rowIds)
  <1> DEFINE f == [id \in rowIds |-> readings[id].amount]
  <1>1. Total(rowIds) = SumFunctionOnSet(f, rowIds)
    <2>1. DOMAIN f = rowIds
      OBVIOUS
    <2>2. Total(rowIds) = SumFunctionOnSet(f, DOMAIN f)
      BY Zenon DEF Total, SumFunction
    <2> HIDE DEF f
    <2>3. QED
      BY <2>1, <2>2
  <1>2. \A id \in rowIds : f[id] = AmountOf[id]
    BY DEF AmountOf
  <1>3. IsFiniteSet(rowIds)
    BY IdsAreFinite, FS_Subset DEF Billed
  <1> HIDE DEF f
  <1>4. SumFunctionOnSet(f, rowIds) = SumFunctionOnSet(AmountOf, rowIds)
    BY <1>2, <1>3, SumOfSame
  <1>5. QED
    BY <1>1, <1>4

\* Totals of parts of the readings, each reading in one part, add up to the total
\* of all of them.
LEMMA TotalsAddUp ==
    ASSUME Billed, NEW rowIds \in SUBSET ReadingIds, NEW group, NEW g, IsFiniteSet(DOMAIN group),
           Groups(group, rowIds), \A k \in DOMAIN group : g[k] = Total(group[k])
    PROVE  SumFunctionOnSet(g, DOMAIN group) = Total(rowIds)
  <1>1. SumOfEach(g, AmountOf, group)
    <2>1. \A k \in DOMAIN group : group[k] \in SUBSET ReadingIds
      BY DEF Groups
    <2>2. \A k \in DOMAIN group : Total(group[k]) = SumFunctionOnSet(AmountOf, group[k])
      BY <2>1, TotalIs
    <2>3. QED
      BY <2>2 DEF SumOfEach
  <1>2. IsFiniteSet(rowIds)
    BY IdsAreFinite, FS_Subset DEF Billed
  <1>3. \A id \in rowIds : AmountOf[id] \in Int
    BY MonthOfRows
  <1>4. SumFunctionOnSet(g, DOMAIN group) = SumFunctionOnSet(AmountOf, rowIds)
    BY <1>1, <1>2, <1>3, SumByGroups
  <1>5. QED
    BY <1>4, TotalIs

\* The readings of a month, service by service.
LEMMA TotalsOfServices ==
    ASSUME Billed, NEW p, NEW us \in SUBSET (DOMAIN utilities),
           NEW g, DOMAIN g = us, \A u \in us : g[u] = Total(InMonth(u, p))
    PROVE  SumFunction(g) = Total({id \in Month(p) : UtilityOf[id] \in us})
  <1> DEFINE group == [u \in us |-> InMonth(u, p)]
             rowIds == {id \in Month(p) : UtilityOf[id] \in us}
  <1>1. Groups(group, rowIds)
    BY DEF Groups, InMonth, Month, UtilityOf
  <1>2. rowIds \in SUBSET ReadingIds
    BY MonthOfRows
  <1>3. IsFiniteSet(us)
    BY MonthOfRows, FS_Subset
  <1>4. DOMAIN group = us /\ \A k \in us : g[k] = Total(group[k])
    OBVIOUS
  <1> HIDE DEF group, rowIds
  <1>5. SumFunctionOnSet(g, us) = Total(rowIds)
    BY <1>1, <1>2, <1>3, <1>4, TotalsAddUp
  <1>6. QED
    BY <1>5 DEF SumFunction, rowIds

\* The page of a property and the message to the group: what is shown and what is
\* archived make up the month.
LEMMA ReportAddsUp ==
    ASSUME Billed, NEW p \in Periods, NEW a \in DOMAIN addresses
    PROVE  /\ monthReport(a, p).total + Total({id \in Mine(a, p) : readings[id].utility \notin Shown(a)})
                  = Total(Mine(a, p))
           /\ \A u \in monthReport(a, p).missing : InMonth(u, p) = {}
           /\ monthReport(a, p).unpaid # 0 => \E id \in Mine(a, p) : ~readings[id].paid
  <1> DEFINE lines == CurrentMonthStatus(p, a)
             read == {u \in Shown(a) : lines[u].count > 0}
             late == {u \in read : ~lines[u].paid}
             totals(us) == [u \in us |-> lines[u].amount]
             shown == {id \in Month(p) : UtilityOf[id] \in read}
             archived == {id \in Mine(a, p) : readings[id].utility \notin Shown(a)}
  <1>1. DOMAIN lines = Shown(a)
    BY DEF CurrentMonthStatus
  <1>2. \A u \in Shown(a) : /\ lines[u].count = Cardinality(InMonth(u, p))
                            /\ lines[u].amount = Total(InMonth(u, p))
                            /\ lines[u].paid <=> /\ InMonth(u, p) # {}
                                                /\ \A id \in InMonth(u, p) : readings[id].paid
    BY DEF CurrentMonthStatus, Status
  <1>3. /\ monthReport(a, p).total = SumFunction(totals(read))
        /\ monthReport(a, p).unpaid = SumFunction(totals(late))
        /\ monthReport(a, p).missing = Shown(a) \ read
    BY <1>1 DEF monthReport, Sums
  <1> HIDE DEF lines
  <1>4. \A u : IsFiniteSet(InMonth(u, p)) /\ InMonth(u, p) \in SUBSET ReadingIds
    <2> TAKE u
    <2>1. InMonth(u, p) \in SUBSET ReadingIds
      BY DEF InMonth
    <2>2. QED
      BY <2>1, MonthOfRows, FS_Subset
  <1>5. \A u \in Shown(a) : u \in read <=> InMonth(u, p) # {}
    <2> TAKE u \in Shown(a)
    <2>1. Cardinality(InMonth(u, p)) \in Nat
          /\ (Cardinality(InMonth(u, p)) = 0 <=> InMonth(u, p) = {})
      BY <1>4, FS_CardinalityType, FS_EmptySet
    <2>2. QED
      BY <1>2, <2>1
  <1>6. \A u \in Shown(a) : \A id \in InMonth(u, p) : id \in Mine(a, p)
    BY DEF Shown, InMonth, Mine, AddressOf
  <1>7. Shown(a) \subseteq DOMAIN utilities
    BY DEF Shown
  <1>8. monthReport(a, p).total = Total(shown)
    <2>1. read \in SUBSET (DOMAIN utilities)
      BY <1>7
    <2>2. \A u \in read : totals(read)[u] = Total(InMonth(u, p))
      BY <1>2
    <2>3. DOMAIN totals(read) = read
      OBVIOUS
    <2> DEFINE g == totals(read)
    <2>4. DOMAIN g = read /\ \A u \in read : g[u] = Total(InMonth(u, p))
      BY <2>2, <2>3
    <2> HIDE DEF g, read
    <2>5. SumFunction(g) = Total({id \in Month(p) : UtilityOf[id] \in read})
      BY <2>1, <2>4, TotalsOfServices
    <2>6. QED
      BY <1>3, <2>5 DEF g, read
  <1>9. Mine(a, p) = shown \cup archived /\ shown \cap archived = {}
    <2>1. \A id \in shown : id \in InMonth(UtilityOf[id], p) /\ UtilityOf[id] \in Shown(a)
      BY DEF InMonth, Month, UtilityOf
    <2>2. \A id \in shown : id \in Mine(a, p) /\ readings[id].utility \in Shown(a)
      BY <1>6, <2>1 DEF UtilityOf, Month
    <2>3. \A id \in Mine(a, p) : readings[id].utility \in Shown(a) => id \in shown
      <3> SUFFICES ASSUME NEW id \in Mine(a, p), readings[id].utility \in Shown(a)
                   PROVE  id \in shown
        OBVIOUS
      <3>1. id \in InMonth(readings[id].utility, p) /\ id \in Month(p) /\ UtilityOf[id] = readings[id].utility
        BY DEF Mine, InMonth, Month, UtilityOf
      <3>2. UtilityOf[id] \in read
        BY <1>5, <3>1
      <3>3. QED
        BY <3>1, <3>2
    <2> HIDE DEF shown
    <2>4. QED
      BY <2>2, <2>3
  <1>10. monthReport(a, p).total + Total(archived) = Total(Mine(a, p))
    <2>1. /\ shown \in SUBSET ReadingIds /\ archived \in SUBSET ReadingIds
          /\ Mine(a, p) \in SUBSET ReadingIds
      BY DEF Month, Mine
    <2> HIDE DEF shown, archived
    <2>2. IsFiniteSet(shown) /\ IsFiniteSet(archived)
      BY <2>1, MonthOfRows, FS_Subset
    <2>3. \A id \in shown \cup archived : AmountOf[id] \in Int
      BY <2>1, MonthOfRows
    <2>4. SumFunctionOnSet(AmountOf, shown \cup archived)
              = SumFunctionOnSet(AmountOf, shown) + SumFunctionOnSet(AmountOf, archived)
      BY <1>9, <2>2, <2>3, SumOfParts
    <2>5. /\ Total(shown) = SumFunctionOnSet(AmountOf, shown)
          /\ Total(archived) = SumFunctionOnSet(AmountOf, archived)
          /\ Total(Mine(a, p)) = SumFunctionOnSet(AmountOf, Mine(a, p))
      BY <2>1, TotalIs
    <2>6. QED
      BY <1>8, <1>9, <2>4, <2>5
  <1>11. \A u \in monthReport(a, p).missing : InMonth(u, p) = {}
    BY <1>3, <1>5
  <1>12. ASSUME monthReport(a, p).unpaid # 0 PROVE \E id \in Mine(a, p) : ~readings[id].paid
    <2>1. late # {}
      <3>1. SUFFICES ASSUME late = {} PROVE FALSE
        OBVIOUS
      <3> DEFINE g == totals(late)
      <3>2. DOMAIN g = {}
        BY <3>1
      <3>3. SumFunction(g) = SumFunctionOnSet(g, DOMAIN g)
        BY Zenon DEF SumFunction
      <3>4. monthReport(a, p).unpaid = SumFunction(g)
        BY <1>3
      <3> HIDE DEF g
      <3>5. SumFunction(g) = 0
        BY <3>2, <3>3, SumOfNone
      <3>6. QED
        BY <1>12, <3>4, <3>5
    <2>2. PICK u \in Shown(a) : u \in read /\ ~lines[u].paid
      BY <2>1
    <2>3. PICK id \in InMonth(u, p) : ~readings[id].paid
      BY <1>2, <1>5, <2>2
    <2>4. QED
      BY <1>6, <2>2, <2>3
  <1>13. QED
    BY <1>10, <1>11, <1>12

\* The services of a property as the statistics have them make up its month.
LEMMA ServicesAddUp ==
    ASSUME Billed, NEW p \in Periods, NEW a \in DOMAIN addresses
    PROVE  SumFunction(MonthlyTotalsByUtility(a, p)) = MonthlyTotalsByAddress(p, a)
  <1> DEFINE us == {readings[id].utility : id \in Mine(a, p)}
             g == MonthlyTotalsByUtility(a, p)
  <1>1. DOMAIN g = us /\ \A u \in us : g[u] = Total(InMonth(u, p))
    BY DEF MonthlyTotalsByUtility, Mine
  <1>2. us \in SUBSET (DOMAIN utilities)
    BY MonthOfRows DEF Mine, UtilityOf
  <1>3. {id \in Month(p) : UtilityOf[id] \in us} = Mine(a, p)
    <2>1. \A id \in Mine(a, p) : id \in Month(p) /\ UtilityOf[id] = readings[id].utility
      BY DEF Mine, Month, UtilityOf
    <2>2. \A id \in Month(p) : UtilityOf[id] \in us => id \in Mine(a, p)
      <3> SUFFICES ASSUME NEW id \in Month(p), NEW o \in Mine(a, p),
                          UtilityOf[id] = readings[o].utility
                   PROVE  id \in Mine(a, p)
        OBVIOUS
      <3>1. QED
        BY DEF Mine, Month, UtilityOf, AddressOf
    <2>3. QED
      BY <2>1, <2>2
  <1> HIDE DEF us, g
  <1>4. SumFunction(g) = Total(Mine(a, p))
    <2>1. SumFunction(g) = Total({id \in Month(p) : UtilityOf[id] \in us})
      BY <1>1, <1>2, TotalsOfServices
    <2>2. QED
      BY <1>3, <2>1
  <1>5. QED
    BY <1>4 DEF g, MonthlyTotalsByAddress, Mine

\* The properties, in use or not, make up the total of the statistics.
LEMMA AddressesAddUp ==
    ASSUME Billed, NEW p \in Periods
    PROVE  handleStatsMeters(p).total = Total(Month(p))
  <1> DEFINE g == [a \in DOMAIN addresses |-> MonthlyTotalsByAddress(p, a)]
             group == [a \in DOMAIN addresses |-> Mine(a, p)]
  <1>1. handleStatsMeters(p).total = SumFunctionOnSet(g, DOMAIN addresses)
    <2>1. handleStatsMeters(p).total = SumFunctionOnSet(g, DOMAIN g)
      BY Zenon DEF handleStatsMeters, SumFunction
    <2>2. DOMAIN g = DOMAIN addresses
      OBVIOUS
    <2> HIDE DEF g
    <2>3. QED
      BY <2>1, <2>2
  <1>2. Groups(group, Month(p))
    BY MonthOfRows DEF Groups, Mine, Month
  <1>3. /\ DOMAIN group = DOMAIN addresses
        /\ \A a \in DOMAIN addresses : g[a] = Total(group[a])
    BY DEF MonthlyTotalsByAddress, Mine
  <1>4. IsFiniteSet(DOMAIN addresses) /\ Month(p) \in SUBSET ReadingIds
    BY MonthOfRows
  <1> HIDE DEF g, group
  <1>5. SumFunctionOnSet(g, DOMAIN addresses) = Total(Month(p))
    BY <1>2, <1>3, <1>4, TotalsAddUp
  <1>6. QED
    BY <1>1, <1>5

\* What a flat tariff has no meter for is not compared.
LEMMA ComparedWasUsed ==
    ASSUME Billed, PricedAsBilled, NEW p \in Periods, NEW n, NEW a,
           MonthlyConsumptionByAddress(n, p, a) # 0
    PROVE  \E id \in ReadingIds : /\ AddressOf(id) = a
                                  /\ tariffs[readings[id].tariff].kind # "flat" \/ id \in raced
  <1> DEFINE used(v) == IF v = NoValue THEN 0 ELSE v
             mine == {id \in ReadingIds : /\ readings[id].period = p /\ AddressOf(id) = a
                                          /\ utilities[readings[id].utility].name = n}
             g == [id \in mine |-> used(readings[id].consumed1) + used(readings[id].consumed2)]
  <1>1. MonthlyConsumptionByAddress(n, p, a) = SumFunctionOnSet(g, mine)
    <2>1. MonthlyConsumptionByAddress(n, p, a) = SumFunctionOnSet(g, DOMAIN g)
      BY Zenon DEF MonthlyConsumptionByAddress, SumFunction
    <2>2. DOMAIN g = mine
      OBVIOUS
    <2> HIDE DEF g, mine
    <2>3. QED
      BY <2>1, <2>2
  <1>2. PICK id \in mine : g[id] # 0
    <2>1. mine \in SUBSET ReadingIds
      OBVIOUS
    <2> HIDE DEF g, mine
    <2>2. IsFiniteSet(mine)
      BY <2>1, MonthOfRows, FS_Subset
    <2>3. QED
      BY <1>1, <2>2, SumOfZeros
  <1>3. id \in ReadingIds /\ AddressOf(id) = a
    OBVIOUS
  <1>4. ~(readings[id].consumed1 = NoValue /\ readings[id].consumed2 = NoValue)
    BY <1>2
  <1>5. ASSUME tariffs[readings[id].tariff].kind = "flat", id \notin raced
        PROVE  FALSE
    <2> DEFINE r == readings[id]
               t == tariffs[readings[id].tariff]
    <2>1. IsReading(r) /\ ComputeAmount(r, t) = r
      BY <1>3, <1>5 DEF Billed, Tables, PricedAsBilled
    <2>2. t.kind = "flat"
      BY <1>5
    <2> HIDE DEF r, t
    <2>3. r.consumed1 = Used1(r, t) /\ r.consumed2 = Used2(r, t)
      BY <2>1, PricingIs
    <2>4. r.consumed1 = NoValue /\ r.consumed2 = NoValue
      BY <2>2, <2>3 DEF Used1, Used2
    <2>5. QED
      BY <1>4, <2>4 DEF r
  <1>6. QED
    BY <1>3, <1>5

\* A month comes to one figure wherever it is read, for any bills
\* (stats_meters.go, stats.go, meters_report.go:56-57).
THEOREM MonthsAreSummed == SpecMeters => []MonthIsSummed
  <1>1. MeterInv /\ RowsInv => MonthIsSummed
    <2> SUFFICES ASSUME MeterInv, RowsInv PROVE MonthIsSummed
      OBVIOUS
    <2>1. Billed /\ PricedAsBilled
      BY DEF MeterInv, RowsInv, Billed
    <2>2. ASSUME NEW p \in Periods, NEW a \in DOMAIN addresses
          PROVE  LET report == monthReport(a, p)
                     byUtility == MonthlyTotalsByUtility(a, p)
                     mine == {id \in ReadingIds : readings[id].period = p /\ AddressOf(id) = a}
                     archived == {id \in mine : readings[id].utility \notin Shown(a)}
                 IN  /\ a \in AddressesActive => handleMeterReadings(a, p) = report
                     /\ report.total + Total(archived) = MonthlyTotalsByAddress(p, a)
                     /\ SumFunction(byUtility) = MonthlyTotalsByAddress(p, a)
                     /\ \A u \in report.missing : InMonth(u, p) = {}
                     /\ report.unpaid # 0 => \E id \in mine : ~readings[id].paid
      <3>1. a \in AddressesActive => handleMeterReadings(a, p) = monthReport(a, p)
        BY DEF handleMeterReadings, monthReport
      <3>2. Mine(a, p) = {id \in ReadingIds : readings[id].period = p /\ AddressOf(id) = a}
            /\ Total(Mine(a, p)) = MonthlyTotalsByAddress(p, a)
        BY DEF Mine, MonthlyTotalsByAddress
      <3>3. QED
        BY <2>1, <3>1, <3>2, ReportAddsUp, ServicesAddUp
    <2>3. ASSUME NEW p \in Periods
          PROVE  handleStatsMeters(p).total = Total({id \in ReadingIds : readings[id].period = p})
      BY <2>1, AddressesAddUp DEF Month
    <2>4. ASSUME NEW p \in Periods, NEW n \in UtilityNames, NEW a \in DOMAIN addresses,
                 handleStatsMeters(p).compared[n][a] # 0
          PROVE  \E id \in ReadingIds :
                    /\ AddressOf(id) = a
                    /\ tariffs[readings[id].tariff].kind # "flat" \/ id \in raced
      <3>1. MonthlyConsumptionByAddress(n, p, a) # 0
        BY <2>4 DEF handleStatsMeters
      <3>2. QED
        BY <2>1, <3>1, ComparedWasUsed
    <2>5. QED
      BY <2>2, <2>3, <2>4 DEF MonthIsSummed
  <1>2. SpecMeters => []RowsInv
    <2>1. RowsInv /\ MeterInv /\ [NextMeters]_meterVars => RowsInv'
      BY RowsNext
    <2>2. QED
      BY RowsInit, <2>1, MetersInvariant, PTL DEF SpecMeters
  <1>3. QED
    BY <1>1, <1>2, MetersInvariant, PTL

-----------------------------------------------------------------------------
(* The parts side by side.                                                  *)

LEMMA PartsBegin ==
    InitHousehold => InitAppointments /\ InitMeters /\ InitTimetable /\ InitPasses
  BY DEF InitHousehold

LEMMA PartsStep ==
    [NextHousehold]_householdVars =>
        /\ [NextAppointments]_apptVars /\ [NextMeters]_meterVars
        /\ [NextTimetable]_timetableVars /\ [NextPasses]_passesVars
  <1>1. UNCHANGED householdVars =>
            UNCHANGED apptVars /\ UNCHANGED meterVars
            /\ UNCHANGED timetableVars /\ UNCHANGED passesVars
    BY DEF householdVars
  <1>2. NextHousehold =>
            /\ NextAppointments \/ UNCHANGED apptVars
            /\ NextMeters \/ UNCHANGED meterVars
            /\ NextTimetable \/ UNCHANGED timetableVars
            /\ NextPasses \/ UNCHANGED passesVars
    BY DEF NextHousehold
  <1>3. QED
    BY <1>1, <1>2

\* The visits, the meters, the timetable and the payments have no table in common:
\* a step of the house is one of each part or leaves it as it is, so that what holds
\* of a part by itself holds of it in the house.
THEOREM PartsStandAlone ==
    SpecHousehold => SpecAppointments /\ SpecMeters /\ SpecTimetable /\ SpecPasses
  BY PartsBegin, PartsStep, PTL
     DEF SpecHousehold, SpecAppointments, SpecMeters, SpecTimetable, SpecPasses

\* Every part of the house keeps its types: rows, cards, readings, courses and
\* payments stay of their kind, and what one row names of another is there.
THEOREM HouseholdTyped == SpecHousehold => []HouseholdTypeOK
  BY PartsStandAlone, VisitsTypeCorrect, MetersTyped, TimetableTyped, PassesTyped, PTL
     DEF HouseholdTypeOK

=============================================================================
