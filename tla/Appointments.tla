---------------------------- MODULE Appointments ----------------------------
(***************************************************************************)
(* One-off visits: what the bot captures from free text and confirms on a   *)
(* card, the /list message, the edits a person types in answer to a         *)
(* question, the minute ticker that asks what a visit cost, and the forms of *)
(* the web and the Mini App (internal/bot/appointments.go, applist.go,      *)
(* pending.go, awaiting.go, costprompts.go; internal/appointments;          *)
(* internal/store/appointments.go).                                         *)
(*                                                                         *)
(* The grain is one store call or one message; the read of a row that only  *)
(* says what to tell is taken with the write beside it.  Time is a natural  *)
(* number, DayLen of them to a day, WeekDays days to a week.  Places, notes, *)
(* ends and authors of visits are left out.                                 *)
(***************************************************************************)
EXTENDS Integers, Sequences, FiniteSets, SequencesExt

CONSTANTS
    Users,      \* who talks to the bot and uses the Mini App
    Titles,
    Captures,   \* what the parser makes of a text: sequences of visits
    Forms,      \* what a person may fill in
    Moments,    \* what ParseWhen may answer
    Amounts,    \* the amounts typed in a reply
    Clerks,     \* handlers that may be in flight at one time
    DayLen, WeekDays,
    PageSize,   \* rows of a page of the web list
    MaxAppointments, \* the cap of the Mini App's list
    FeedBack,   \* how far back the calendar feed goes
    CardTTL, AwaitTTL, \* how long a card and a question are kept
    CostDelay, Lookback, \* when a cost is asked for, and how far back
    LastMoment, \* bound: the clock stops here
    MaxVisits,  \* bound: rows of the table
    MaxTaps,    \* bound: what people do, navigation apart
    MaxAsks,    \* bound: the cost questions posted
    MaxBoots    \* bound: how often the process is started

ApptStatus == {"planned", "done", "cancelled"}
Unknown == "web"
Self == "me"
NoCost == -1

\* A visit as it is captured or filled in.
Item == [title : Titles, person : {"", Self} \cup Users, starts : Nat,
         status : ApptStatus, cost : {NoCost} \cup Nat]

AppointmentsAssumption ==
    /\ {DayLen, WeekDays, PageSize, MaxAppointments} \subseteq Nat \ {0}
    /\ {CardTTL, AwaitTTL, CostDelay, Lookback, FeedBack} \subseteq Nat
    /\ {LastMoment, MaxVisits, MaxTaps, MaxAsks, MaxBoots} \subseteq Nat
    /\ Moments \subseteq Nat /\ Amounts \subseteq Nat
    /\ Captures \subseteq Seq(Item)
    \* A form has the fields of a visit, whatever is typed in them.
    /\ \A f \in Forms :
          /\ f.person \in {"", Self} \cup Users
          /\ f = [title |-> f.title, person |-> f.person, starts |-> f.starts,
                  status |-> f.status, cost |-> f.cost]

ASSUME AppointmentsAssumption

VARIABLES
    rows,     \* table appointments; a row's id is its place
    moment,   \* the clock
    pending,  \* pendingStore: the parsed items behind each key
    cards,    \* the confirmation cards posted
    awaiting, \* awaitingStore: the question each user is to answer
    listed,   \* the buttons of the /list messages: visits by chat
    asks,     \* the cost questions posted; a message's id is its place
    sweep,    \* what the pass over due costs has read
    clerk,    \* what each handler in flight has read
    boot,     \* how often the process was started
    taps,
    \* History, read by properties only.
    told,     \* what the group was last told of each visit
    asked,    \* the last question put to each user that has no answer
    torn,     \* the cost questions whose id was not stored
    muddled   \* visits told of by two handlers at once, or by none

apptVars == <<rows, moment, pending, cards, awaiting, listed, asks, sweep, clerk,
              boot, taps, told, asked, torn, muddled>>

Chats == {"private", "group"}
NoMsg == 0
Free == [step |-> "free"]
NoQuestion == [kind |-> "none"]
NotAwaited == [q |-> NoQuestion, at |-> 0]

InitAppointments ==
    /\ rows = <<>>
    /\ moment = 0
    /\ pending = [k \in {} |-> 0]
    /\ cards = <<>>
    /\ awaiting = [u \in Users |-> NotAwaited]
    /\ listed = {}
    /\ asks = <<>>
    /\ sweep = Free
    /\ clerk = [h \in Clerks |-> Free]
    /\ boot = 1
    /\ taps = 0
    /\ told = <<>>
    /\ asked = [u \in Users |-> NoQuestion]
    /\ torn = {}
    /\ muddled = {}

-----------------------------------------------------------------------------
(* The table.                                                               *)

Ids == DOMAIN rows

Row(a) == [title |-> a.title, person |-> a.person, starts |-> a.starts,
           status |-> a.status, cost |-> a.cost, prompt |-> NoMsg, deleted |-> FALSE]

Active(id) == ~rows[id].deleted /\ rows[id].status # "cancelled"

\* ORDER BY starts_at: rows that start together come in the order of their ids.
sooner(a, b) ==
    \/ rows[a].starts < rows[b].starts
    \/ rows[a].starts = rows[b].starts /\ a < b

\* The n-th is the one that all but n - 1 of them come after.
SoonestFirst(ids) ==
    [n \in 1 .. Cardinality(ids) |->
        CHOOSE id \in ids : Cardinality({o \in ids : sooner(o, id)}) = n - 1]

\* LIMIT n.
Limited(s, n) == SubSeq(s, 1, IF Len(s) > n THEN n ELSE Len(s))

CreateAppointment(a) == rows' = Append(rows, Row(a))

\* One transaction: all of them or none.
CreateAppointments(items) == rows' = rows \o [i \in DOMAIN items |-> Row(items[i])]

SetAppointmentStatus(id, status) == rows' = [rows EXCEPT ![id].status = status]

RescheduleAppointment(id, t) == rows' = [rows EXCEPT ![id].starts = t]

UpdateAppointmentTitle(id, title) == rows' = [rows EXCEPT ![id].title = title]

UpdateAppointmentPerson(id, person) == rows' = [rows EXCEPT ![id].person = person]

UpdateAppointmentDetails(id, title, person) ==
    rows' = [rows EXCEPT ![id].title = title, ![id].person = person]

\* The editable fields; the prompt's id and the deletion are not among them.
UpdateAppointment(id, a) ==
    rows' = [rows EXCEPT ![id] = [Row(a) EXCEPT !.prompt = rows[id].prompt,
                                                !.deleted = rows[id].deleted]]

\* Mutant of SoftDeleteAppointment: the row goes.
HardDelete(id) == rows' = SubSeq(rows, 1, id - 1) \o SubSeq(rows, id + 1, Len(rows))

SoftDeleteAppointment(id) == rows' = [rows EXCEPT ![id].deleted = TRUE]

UpcomingAppointments(from, limit) ==
    Limited(SoonestFirst({id \in Ids : Active(id) /\ rows[id].starts >= from}), limit)

AppointmentsBetween(from, to) ==
    {id \in Ids : Active(id) /\ from <= rows[id].starts /\ rows[id].starts < to}

\* With the visits called off.
AppointmentsFrom(from, limit) ==
    Limited(SoonestFirst({id \in Ids : ~rows[id].deleted /\ rows[id].starts >= from}), limit)

ActiveAppointmentsFrom(from) == {id \in Ids : Active(id) /\ rows[id].starts >= from}

\* What is ahead comes soonest first, then what is past, latest first.
listedFirst(i, j) ==
    LET past(id) == rows[id].starts < moment
    IN  \/ ~past(i) /\ past(j)
        \/ ~past(i) /\ ~past(j) /\ sooner(i, j)
        \/ past(i) /\ past(j) /\ sooner(j, i)

\* All of them, in that order.
ListAppointments ==
    LET ids == {id \in Ids : ~rows[id].deleted}
    IN  [n \in 1 .. Cardinality(ids) |->
            CHOOSE id \in ids : Cardinality({o \in ids : listedFirst(o, id)}) = n - 1]

ActiveAppointmentsAt(t) == {id \in Ids : Active(id) /\ rows[id].starts = t}

\* Mutant: whether the question was asked is not looked at.
AwaitingCostAgain(notBefore, until) ==
    {id \in Ids : /\ Active(id)
                  /\ rows[id].cost = NoCost
                  /\ notBefore <= rows[id].starts /\ rows[id].starts <= until}

AppointmentsAwaitingCost(notBefore, until) ==
    {id \in Ids : /\ Active(id)
                  /\ rows[id].cost = NoCost /\ rows[id].prompt = NoMsg
                  /\ notBefore <= rows[id].starts /\ rows[id].starts <= until}

AppointmentByCostPrompt(msg) == {id \in Ids : rows[id].prompt = msg /\ ~rows[id].deleted}

SetAppointmentCostPrompt(id, msg) == rows' = [rows EXCEPT ![id].prompt = msg]

SetAppointmentCost(id, cost) == rows' = [rows EXCEPT ![id].cost = cost]

-----------------------------------------------------------------------------
(* What the group is told, and by which handler.                            *)

Line(a) == [title |-> a.title, person |-> a.person, starts |-> a.starts]
Lines(r, ids) == [id \in ids |-> Line(r[id])]

bot == <<pending, cards, awaiting, listed, asked>>
costs == <<asks, sweep, torn>>

Tap == taps < MaxTaps /\ taps' = taps + 1
Idle(h) == clerk[h].step = "free"

\* Another handler has read or written visit id and has not told of it yet.
Shared(h, id) == \E k \in Clerks \ {h} : ~Idle(k) /\ id \in clerk[k].ids

\* Handler h holds what it has read or written of these visits.
Hold(h, job) ==
    /\ clerk' = [clerk EXCEPT ![h] = job]
    /\ muddled' = muddled \cup {id \in job.ids : Shared(h, id)}

Saying(via, verb, ids, lines) ==
    [step |-> "tell", via |-> via, verb |-> verb, ids |-> ids, lines |-> lines]

\* The message of handler h is in the group.  Of a visit's status only the
\* messages of a cancellation, a deletion and a restored visit say anything: one
\* entered as called off is announced as any new one is, which unsaid keeps.
Told(h) ==
    LET job == clerk[h]
        before(id) == job.verb = "changed" /\ id \in DOMAIN told
        off(id) == \/ job.verb \in {"cancelled", "deleted"}
                   \/ before(id) /\ told[id].off
        unsaid(id) == /\ rows[id].status = "cancelled"
                      /\ \/ job.verb = "added"
                         \/ before(id) /\ told[id].unsaid
    IN  /\ job.step = "tell"
        /\ told' = [id \in DOMAIN told \cup job.ids |->
                       IF id \in job.ids THEN [line |-> job.lines[id], off |-> off(id),
                                               unsaid |-> unsaid(id)]
                                         ELSE told[id]]
        /\ clerk' = [clerk EXCEPT ![h] = Free]
        /\ UNCHANGED <<rows, moment, bot, costs, boot, taps, muddled>>

\* Mutant of mirrorToGroup: what is done in a private chat stays there.
mirrorNothing(h) ==
    /\ clerk[h].step = "tell"
    /\ clerk[h].via = "private"
    /\ clerk' = [clerk EXCEPT ![h] = Free]
    /\ UNCHANGED <<rows, moment, bot, costs, boot, taps, told, muddled>>

\* What was done in a private chat is repeated in the group.
mirrorToGroup(h) == Told(h) /\ clerk[h].via = "private"

\* What was done in the group, the answer of the handler says there.
answerInGroup(h) == Told(h) /\ clerk[h].via = "group"

\* The message of a form.
announce(h) == Told(h) /\ clerk[h].via = "form"

\* announce and mirrorToGroup are best effort: a failure is logged.
announceFails(h) ==
    /\ clerk[h].step = "tell"
    /\ muddled' = muddled \cup clerk[h].ids
    /\ clerk' = [clerk EXCEPT ![h] = Free]
    /\ UNCHANGED <<rows, moment, bot, costs, boot, taps, told>>

-----------------------------------------------------------------------------
(* The forms of the web and the Mini App, through one service.              *)

\* "Me" becomes the author's name, when there is one.
Resolve(person, by) == IF person = Self /\ by # Unknown THEN by ELSE person

\* A title, a start that is a date and a time, a status of the list, an amount
\* that is no amount only when it is left empty.
Parse(f, by) ==
    [ok |-> f.title \in Titles /\ f.starts \in Nat /\ f.status \in ApptStatus
            /\ f.cost \in {NoCost} \cup Nat,
     appt |-> [f EXCEPT !.person = Resolve(@, by)]]

\* Create: parse, insert, announce.
Create(h, f, by) ==
    LET p == Parse(f, by) id == Len(rows) + 1
    IN  /\ Idle(h) /\ Tap /\ p.ok
        /\ Len(rows) < MaxVisits
        /\ CreateAppointment(p.appt)
        /\ Hold(h, Saying("form", "added", {id}, Lines(rows', {id})))
        /\ UNCHANGED <<moment, bot, costs, boot, told>>

\* Update up to its read of the row as it was, deleted or not.
UpdateRead(h, id, f, by) ==
    LET p == Parse(f, by)
    IN  /\ Idle(h) /\ Tap /\ p.ok
        /\ Hold(h, [step |-> "update", ids |-> {id}, appt |-> p.appt, was |-> rows[id].status])
        /\ UNCHANGED <<rows, moment, bot, costs, boot, told>>

\* Update from its write on: an edit that cancels is told of as a cancellation.
UpdateWrite(h) ==
    LET job == clerk[h] id == CHOOSE i \in job.ids : TRUE
        verb == IF job.appt.status = "cancelled" /\ job.was # "cancelled"
                THEN "cancelled" ELSE "changed"
    IN  /\ job.step = "update"
        /\ UpdateAppointment(id, job.appt)
        /\ Hold(h, Saying("form", verb, job.ids, Lines(rows', job.ids)))
        /\ UNCHANGED <<moment, bot, costs, boot, taps, told>>

\* SetStatus up to its read; a tap that changes nothing ends here.
SetStatusRead(h, id, status) ==
    /\ Idle(h) /\ Tap
    /\ rows[id].status # status
    /\ Hold(h, [step |-> "status", ids |-> {id}, status |-> status, was |-> rows[id]])
    /\ UNCHANGED <<rows, moment, bot, costs, boot, told>>

\* SetStatus from its write on; what it tells of is the row it read.
SetStatusWrite(h) ==
    LET job == clerk[h] id == CHOOSE i \in job.ids : TRUE
        verb == CASE job.status = "cancelled"     -> "cancelled"
                  [] job.was.status = "cancelled" -> "restored"
                  [] OTHER                        -> "changed"
    IN  /\ job.step = "status"
        /\ SetAppointmentStatus(id, job.status)
        /\ Hold(h, Saying("form", verb, job.ids, [i \in job.ids |-> Line(job.was)]))
        /\ UNCHANGED <<moment, bot, costs, boot, taps, told>>

\* Delete: a second tap finds the row and tells of it again.
Delete(h, id) ==
    /\ Idle(h) /\ Tap
    /\ SoftDeleteAppointment(id)
    /\ Hold(h, Saying("form", "deleted", {id}, Lines(rows, {id})))
    /\ UNCHANGED <<moment, bot, costs, boot, told>>

WebCreate(h) == \E f \in Forms : Create(h, f, Unknown)
WebUpdate(h) == \E id \in Ids, f \in Forms : UpdateRead(h, id, f, Unknown)
WebDelete(h) == \E id \in Ids : Delete(h, id)

MiniCreate(h) == \E f \in Forms, u \in Users : Create(h, f, u)
MiniUpdate(h) == \E id \in Ids, f \in Forms, u \in Users : UpdateRead(h, id, f, u)
MiniStatus(h) == \E id \in Ids, s \in ApptStatus : SetStatusRead(h, id, s)
MiniDelete(h) == \E id \in Ids : Delete(h, id)

-----------------------------------------------------------------------------
(* Free text and the card that confirms it.                                 *)

\* Whom a parsed visit is for: the sender, when nobody or "me" is named.
resolvePerson(items, self) ==
    [i \in DOMAIN items |->
        [items[i] EXCEPT !.person = IF @ \in {"", Self} THEN self ELSE @]]

\* The one visit at that time, or none.
existingAt(t) ==
    LET ids == ActiveAppointmentsAt(t)
    IN  IF Cardinality(ids) = 1 THEN CHOOSE id \in ids : TRUE ELSE 0

Without(f, keys) == [k \in DOMAIN f \ keys |-> f[k]]

evicted == {k \in DOMAIN pending : moment - pending[k].created > CardTTL}

\* The keys given out since the process started; a restart counts from 1 again.
NextKey == Cardinality({i \in DOMAIN cards : cards[i].boot = boot}) + 1

\* A card shows the parsed visits and what its buttons do with them.
Card(key, items, update) ==
    [key |-> key, items |-> items, update |-> update, boot |-> boot, used |-> FALSE]

\* Mutant of put: the key is one that is free, of a card taken or evicted.
putAtFree(items, update) ==
    LET key == CHOOSE k \in 1 .. Len(cards) + 1 : k \notin DOMAIN pending
        kept == Without(pending, evicted)
    IN  /\ pending' = [k \in DOMAIN kept \cup {key} |->
                          IF k = key THEN [items |-> items, update |-> update, created |-> moment]
                                     ELSE kept[k]]
        /\ cards' = Append(cards, Card(key, items, update))

\* pendingStore.put, and the card that carries its key.
put(items, update) ==
    LET key == NextKey kept == Without(pending, evicted)
    IN  /\ pending' = [k \in DOMAIN kept \cup {key} |->
                          IF k = key THEN [items |-> items, update |-> update, created |-> moment]
                                     ELSE kept[k]]
        /\ cards' = Append(cards, Card(key, items, update))

\* captureText: a single visit at a taken time may update the one there.
captureText(u, text) ==
    LET items == resolvePerson(text, u)
        update == IF Len(items) = 1 THEN existingAt(items[1].starts) ELSE 0
    IN  /\ Tap
        /\ put(items, update)
        /\ UNCHANGED <<rows, moment, awaiting, listed, asked, costs, clerk, boot, told, muddled>>

\* A user whose question has been asked too long ago is not awaited.
Awaited(u) == awaiting[u] # NotAwaited /\ moment - awaiting[u].at <= AwaitTTL

\* /visit is a capture whatever is awaited.
cmdVisit(u) == \E text \in Captures : captureText(u, text)

\* Free text of a private chat is one only when no answer is awaited of its
\* author; an expired question is cleared on the way, which nothing else sees.
onTextCapture(u) == ~Awaited(u) /\ \E text \in Captures : captureText(u, text)

\* pendingStore.take for a tap on card c.
take(c) ==
    /\ cards[c].key \in DOMAIN pending
    /\ pending' = Without(pending, {cards[c].key})
    /\ cards' = [cards EXCEPT ![c].used = TRUE]

\* onSave: the items behind the key of the card, which may be gone.
onSave(h, c, chat) ==
    LET key == cards[c].key
        items == pending[key].items
        ids == Len(rows) + 1 .. Len(rows) + Len(items)
    IN  /\ Idle(h) /\ Tap
        /\ take(c)
        /\ Len(rows) + Len(items) <= MaxVisits
        /\ CreateAppointments(items)
        /\ Hold(h, Saying(chat, "added", ids, Lines(rows', ids)))
        /\ UNCHANGED <<moment, awaiting, listed, asked, costs, boot, told>>

\* onUpdate: title and person of the visit found at the capture, whatever has
\* become of it since.
onUpdate(h, c, chat) ==
    LET key == cards[c].key
        entry == pending[key]
    IN  /\ Idle(h) /\ Tap
        /\ cards[c].update # 0
        /\ take(c)
        /\ IF entry.update = 0
           THEN UNCHANGED <<rows, clerk, muddled>>
           ELSE /\ UpdateAppointmentDetails(entry.update, entry.items[1].title, entry.items[1].person)
                /\ Hold(h, Saying(chat, "changed", {entry.update}, Lines(rows', {entry.update})))
        /\ UNCHANGED <<moment, awaiting, listed, asked, costs, boot, told>>

onCancel(c) ==
    /\ Tap
    /\ take(c)
    /\ UNCHANGED <<rows, moment, awaiting, listed, asked, costs, clerk, boot, told, muddled>>

-----------------------------------------------------------------------------
(* Questions answered with the next message.                                *)

\* awaitingStore.put, and the message that asks.
ask(u, q) ==
    /\ awaiting' = [awaiting EXCEPT ![u] = [q |-> q, at |-> moment]]
    /\ asked' = [asked EXCEPT ![u] = q]

EditOf(id, field) == [kind |-> "edit", id |-> id, field |-> field]

\* onEveningOther asks what was eaten; the answer is recognised elsewhere.
askMeal(u) ==
    /\ Tap
    /\ ask(u, [kind |-> "meal"])
    /\ UNCHANGED <<rows, moment, pending, cards, listed, costs, clerk, boot, told, muddled>>

\* Mutant of takeKind: the question is looked up and kept.
takeKindKeeps(u, kinds) ==
    /\ Awaited(u) /\ awaiting[u].q.kind \in kinds
    /\ asked' = [asked EXCEPT ![u] = NoQuestion]
    /\ UNCHANGED awaiting

\* awaitingStore.takeKind: fresh, of one of these kinds, and no longer awaited.
takeKind(u, kinds) ==
    /\ Awaited(u) /\ awaiting[u].q.kind \in kinds
    /\ awaiting' = [awaiting EXCEPT ![u] = NotAwaited]
    /\ asked' = [asked EXCEPT ![u] = NoQuestion]

\* A text answers either question; a photo only the one about a meal.
answerMeal(u) ==
    /\ Tap
    /\ takeKind(u, {"meal"})
    /\ UNCHANGED <<rows, moment, pending, cards, listed, costs, clerk, boot, told, muddled>>

\* applyFieldEdit: the answer is the new title or person.
applyFieldEdit(h, u, chat) ==
    LET q == awaiting[u].q
    IN  /\ Idle(h) /\ Tap
        /\ takeKind(u, {"edit"}) /\ q.field # "time"
        /\ \/ q.field = "title" /\ \E t \in Titles : UpdateAppointmentTitle(q.id, t)
           \/ q.field = "who" /\ \E v \in Users : UpdateAppointmentPerson(q.id, v)
        /\ Hold(h, Saying(chat, "changed", {q.id}, Lines(rows', {q.id})))
        /\ UNCHANGED <<moment, pending, cards, listed, costs, boot, told>>

\* applyReschedule up to the answer of ParseWhen.
rescheduleAsk(h, u, chat) ==
    LET q == awaiting[u].q
    IN  /\ Idle(h) /\ Tap
        /\ takeKind(u, {"edit"}) /\ q.field = "time"
        /\ Hold(h, [step |-> "when", ids |-> {q.id}, user |-> u, via |-> chat])
        /\ UNCHANGED <<rows, moment, pending, cards, listed, costs, boot, told>>

\* The date is understood: the visit is moved.
applyReschedule(h) ==
    LET job == clerk[h] id == CHOOSE i \in job.ids : TRUE
    IN  /\ job.step = "when"
        /\ \E t \in Moments : RescheduleAppointment(id, t)
        /\ Hold(h, Saying(job.via, "changed", job.ids, Lines(rows', job.ids)))
        /\ UNCHANGED <<moment, bot, costs, boot, taps, told>>

\* It is not: the same question is asked again, over any asked since.
rescheduleRetry(h) ==
    LET job == clerk[h] id == CHOOSE i \in job.ids : TRUE
    IN  /\ job.step = "when"
        /\ ask(job.user, EditOf(id, "time"))
        /\ clerk' = [clerk EXCEPT ![h] = Free]
        /\ UNCHANGED <<rows, moment, pending, cards, listed, costs, boot, taps, told, muddled>>

-----------------------------------------------------------------------------
(* /list: a message edited from view to view.  What its buttons reach is kept:  *)
(* a message that is not closed keeps them, and the view it shows is in them.   *)

Today == moment \div DayLen

\* The calendar week so many weeks from now, as moments.
weekWindow(offset) ==
    LET monday == Today - (Today % WeekDays)
        first == (monday + WeekDays * offset) * DayLen
    IN  [from |-> first, to |-> first + WeekDays * DayLen]

\* Mutant of listView: "next week" asks for visits after the first moment of it.
listViewSkips(offset) ==
    LET w == weekWindow(offset)
        from == IF offset = 0 THEN moment ELSE w.from
    IN  [items |-> AppointmentsBetween(from, w.to),
         next |-> UpcomingAppointments(w.to + 1, 1) # <<>>]

\* The visits of a week and whether a later one has any; this week from now on.
listView(offset) ==
    LET w == weekWindow(offset)
        from == IF offset = 0 THEN moment ELSE w.from
    IN  [items |-> AppointmentsBetween(from, w.to),
         next |-> UpcomingAppointments(w.to, 1) # <<>>]

\* The buttons of a page.
editToList(chat, offset) == {<<id, chat>> : id \in listView(offset).items}

Turned(chat, offset) ==
    /\ listed' = listed \cup editToList(chat, offset)
    /\ listed' # listed
    /\ UNCHANGED <<rows, moment, pending, cards, awaiting, asked, costs, clerk, boot, taps,
                   told, muddled>>

cmdList == \E chat \in Chats : Turned(chat, 0)

\* "Next week" is offered where a later week has a visit.
onNav ==
    \E chat \in Chats, offset \in 1 .. LastMoment :
        listView(offset - 1).next /\ Turned(chat, offset)

\* closeList: the buttons of a message go.
closeList(chat) ==
    /\ \E id \in Ids : <<id, chat>> \in listed
    /\ listed' = {b \in listed : b[2] # chat}
    /\ UNCHANGED <<rows, moment, pending, cards, awaiting, asked, costs, clerk, boot, taps,
                   told, muddled>>

\* The buttons of a visit's card and of its edit menu that ask for a new value;
\* a group has neither.
cardMarkup(chat) == IF chat = "private" THEN {"time"} ELSE {}
editMarkup(chat) == IF chat = "private" THEN {"time", "title", "who"} ELSE {}

onArm(u) ==
    /\ Tap
    /\ \E b \in listed :
          \E field \in cardMarkup(b[2]) \cup editMarkup(b[2]) : ask(u, EditOf(b[1], field))
    /\ UNCHANGED <<rows, moment, pending, cards, listed, costs, clerk, boot, told, muddled>>

\* onDel: the visit of the card is called off, deleted or not.
onDel(h) ==
    /\ Idle(h) /\ Tap
    /\ \E b \in listed :
          /\ SetAppointmentStatus(b[1], "cancelled")
          /\ Hold(h, Saying(b[2], "cancelled", {b[1]}, Lines(rows, {b[1]})))
          /\ listed' = listed \ {b}
    /\ UNCHANGED <<moment, pending, cards, awaiting, asked, costs, boot, told>>

-----------------------------------------------------------------------------
(* The other places a visit is read at.                                     *)

\* The page of the web list: a row past its end is asked for to know of a next.
WebPage(page) ==
    LET from == (page - 1) * PageSize
        all == ListAppointments
        items == SubSeq(all, from + 1, IF Len(all) < from + PageSize + 1 THEN Len(all)
                                       ELSE from + PageSize + 1)
    IN  [items |-> Limited(items, PageSize),
         next |-> Len(items) > PageSize]

\* The visits of the Mini App's list by their days.
groupByDay(ids) == [d \in {rows[id].starts \div DayLen : id \in ids} |->
                        {id \in ids : rows[id].starts \div DayLen = d}]

\* That list, from the start of today: a row past its cap is asked for to know
\* that it is cut off.
handleAppointments ==
    LET items == AppointmentsFrom(Today * DayLen, MaxAppointments + 1)
    IN  [days |-> groupByDay(ToSet(Limited(items, MaxAppointments))),
         truncated |-> Len(items) > MaxAppointments]

\* /week and the weekly digest: from now to the end of the seventh day.
weekItems == AppointmentsBetween(moment, (Today + WeekDays) * DayLen)

\* The morning's digest: today.
sendDailyDigest == AppointmentsBetween(Today * DayLen, (Today + 1) * DayLen)

\* The visits of the calendar feed: from some days back on.
FeedVisits == ActiveAppointmentsFrom(Today * DayLen - FeedBack)

-----------------------------------------------------------------------------
(* What a visit cost.                                                       *)

\* A minute of the clock, if no handler has to be waited for.
Tick ==
    /\ moment < LastMoment
    /\ moment' = moment + 1
    /\ UNCHANGED <<rows, bot, costs, clerk, boot, taps, told, muddled>>

Sweep(s) ==
    /\ sweep' = s
    /\ UNCHANGED <<moment, bot, clerk, boot, taps, told, muddled>>

\* sendDueCostPrompts reads what is due.
sweepRead ==
    /\ sweep.step = "free"
    /\ LET due == AppointmentsAwaitingCost(moment - Lookback, moment - CostDelay)
       IN  /\ due # {}
           /\ Sweep([step |-> "post", left |-> SoonestFirst(due)])
    /\ UNCHANGED <<rows, asks, torn>>

\* The question is posted, whatever has become of the visit since.
sweepPost ==
    /\ sweep.step = "post"
    /\ Len(asks) < MaxAsks
    /\ asks' = Append(asks, Head(sweep.left))
    /\ Sweep([sweep EXCEPT !.step = "store"])
    /\ UNCHANGED <<rows, torn>>

sweepNext == Sweep(IF Len(sweep.left) = 1 THEN Free
                   ELSE [step |-> "post", left |-> Tail(sweep.left)])

\* It is not: the next minute tries again.
sweepPostFails ==
    /\ sweep.step = "post"
    /\ sweepNext
    /\ UNCHANGED <<rows, asks, torn>>

\* Its id is stored.
sweepStore ==
    /\ sweep.step = "store"
    /\ SetAppointmentCostPrompt(Head(sweep.left), Len(asks))
    /\ sweepNext
    /\ UNCHANGED <<asks, torn>>

\* Its id is not: a reply to it is no reply to a question.
sweepStoreFails ==
    /\ sweep.step = "store"
    /\ torn' = torn \cup {Len(asks)}
    /\ sweepNext
    /\ UNCHANGED <<rows, asks>>

\* costReply: the amount goes to the visit whose question is replied to.
costReply(msg) ==
    /\ Tap
    /\ \E id \in AppointmentByCostPrompt(msg), cost \in Amounts : SetAppointmentCost(id, cost)
    /\ UNCHANGED <<moment, bot, costs, clerk, boot, told, muddled>>

\* onCostButton: "it did not happen" calls the visit off; the edited question
\* says so in the group.  "No amount" writes nothing.
onCostButton(h, msg) ==
    LET id == asks[msg]
    IN  /\ Idle(h) /\ Tap
        /\ SetAppointmentStatus(id, "cancelled")
        /\ Hold(h, Saying("group", "cancelled", {id}, Lines(rows, {id})))
        /\ UNCHANGED <<moment, bot, costs, boot, told>>

\* The process ends: cards and questions are forgotten, keys begin again, and
\* what handlers were about to tell is not told.
restart ==
    /\ boot < MaxBoots
    /\ boot' = boot + 1
    /\ pending' = [k \in {} |-> 0]
    /\ awaiting' = [u \in Users |-> NotAwaited]
    /\ muddled' = muddled \cup UNION {clerk[h].ids : h \in {k \in Clerks : ~Idle(k)}}
    /\ clerk' = [h \in Clerks |-> Free]
    /\ torn' = IF sweep.step = "store" THEN torn \cup {Len(asks)} ELSE torn
    /\ sweep' = Free
    /\ UNCHANGED <<rows, moment, cards, listed, asked, asks, taps, told>>

-----------------------------------------------------------------------------

Telling(h) == mirrorToGroup(h) \/ answerInGroup(h) \/ announce(h) \/ announceFails(h)

FormsOf(h) ==
    \/ WebCreate(h) \/ WebUpdate(h) \/ WebDelete(h)
    \/ MiniCreate(h) \/ MiniUpdate(h) \/ MiniStatus(h) \/ MiniDelete(h)
    \/ UpdateWrite(h) \/ SetStatusWrite(h)

CardsOf(h) ==
    \E c \in DOMAIN cards : onCancel(c) \/ \E chat \in Chats : onSave(h, c, chat) \/ onUpdate(h, c, chat)

EditsOf(h) ==
    \/ \E u \in Users, chat \in Chats : applyFieldEdit(h, u, chat) \/ rescheduleAsk(h, u, chat)
    \/ applyReschedule(h) \/ rescheduleRetry(h)
    \/ onDel(h)

Talk ==
    \/ \E u \in Users : \/ cmdVisit(u) \/ onTextCapture(u)
                        \/ askMeal(u) \/ answerMeal(u) \/ onArm(u)
    \/ cmdList \/ onNav \/ \E chat \in Chats : closeList(chat)

Costs ==
    \/ sweepRead \/ sweepPost \/ sweepPostFails \/ sweepStore \/ sweepStoreFails
    \/ \E msg \in DOMAIN asks : costReply(msg) \/ \E h \in Clerks : onCostButton(h, msg)

NextAppointments ==
    \/ \E h \in Clerks : Telling(h) \/ FormsOf(h) \/ CardsOf(h) \/ EditsOf(h)
    \/ Talk \/ Costs \/ Tick \/ restart

SpecAppointments == InitAppointments /\ [][NextAppointments]_apptVars

-----------------------------------------------------------------------------
(* Properties.                                                              *)

Visits == [title : Titles, person : {"", Self} \cup Users, starts : Nat,
           status : ApptStatus, cost : {NoCost} \cup Nat, prompt : Nat, deleted : BOOLEAN]

\* Every variable keeps its shape; what handlers, cards and questions name exists.
AppointmentsTypeOK ==
    /\ rows \in Seq(Visits)
    /\ moment \in 0..LastMoment
    /\ \A k \in DOMAIN pending : pending[k].update \in {0} \cup Ids
    /\ \A u \in Users : awaiting[u].q.kind = "edit" => awaiting[u].q.id \in Ids
    /\ listed \subseteq Ids \X Chats
    /\ \A m \in DOMAIN asks : asks[m] \in Ids
    /\ \A h \in Clerks : ~Idle(h) => clerk[h].ids \subseteq Ids
    /\ torn \subseteq DOMAIN asks
    /\ DOMAIN told \subseteq Ids

\* A tap on a card the present process has posted finds what the card shows, and
\* nothing once it has been taken (pending.go).
PendingIsTheCard ==
    \A c \in DOMAIN cards :
        cards[c].boot = boot /\ cards[c].key \in DOMAIN pending =>
            /\ ~cards[c].used
            /\ pending[cards[c].key].items = cards[c].items
            /\ pending[cards[c].key].update = cards[c].update

\* A tap on any card finds what the card shows or nothing: "a restart drops
\* pending confirmations, which is harmless" (pending.go:12-13).
CardsOutliveNothing ==
    \A c \in DOMAIN cards :
        cards[c].key \in DOMAIN pending => pending[cards[c].key].items = cards[c].items

\* A visit's cost is asked for once, and a reply to the question is one about the
\* visit, unless the question's id was lost (costprompts.go, sendDueCostPrompts).
OneQuestion ==
    /\ \A m, n \in DOMAIN asks \ torn : asks[m] = asks[n] => m = n
    /\ \A m \in DOMAIN asks \ torn :
          rows[asks[m]].prompt = m \/ (sweep.step = "store" /\ m = Len(asks))

\* The next message of a user is used as the answer to the last question put to
\* them, and to no question answered before (awaiting.go).
AnswersTheLastQuestion ==
    \A u \in Users : awaiting[u] # NotAwaited => awaiting[u].q = asked[u]

\* Once its handlers are done, the last the group was told of a visit is how it
\* is, and a visit called off was told to be off; two handlers at once and a
\* message that failed apart (notify.go, mirrorToGroup).  A visit entered as
\* called off is the exception: it is announced as a new one, and as long as it
\* stays called off the group need not be told, whatever edits of it follow.
GroupIsTold ==
    \A id \in Ids \ muddled :
        \/ \E h \in Clerks : ~Idle(h) /\ id \in clerk[h].ids
        \/ rows[id].deleted
        \/ /\ id \in DOMAIN told
           /\ told[id].line = Line(rows[id])
           /\ rows[id].status = "cancelled" => told[id].off \/ told[id].unsaid

\* Every visit ahead can be found wherever visits are read: on a page that "next
\* week" of /list leads to, on a page that "next" of the web list leads to, in the
\* calendar feed, in the digests of its week and of its day, and in the Mini App
\* under its day; or else the Mini App says that its list is cut off, and shows
\* nothing that starts later (listView, handleAppointments, weekItems,
\* sendDailyDigest, handleCalendarICS).
EveryVisitListed ==
    \A id \in ActiveAppointmentsFrom(moment) :
        LET day == rows[id].starts \div DayLen
            app == handleAppointments.days
        IN
        /\ \E offset \in 0 .. rows[id].starts :
              /\ id \in listView(offset).items
              /\ \A o \in 0 .. offset - 1 : listView(o).next
        /\ \E page \in 1 .. Len(rows) :
              /\ id \in ToSet(WebPage(page).items)
              /\ \A o \in 1 .. page - 1 : WebPage(o).next
        /\ \/ day \in DOMAIN app /\ id \in app[day]
           \/ /\ handleAppointments.truncated
              /\ \A d \in DOMAIN app : \A o \in app[d] : rows[o].starts <= rows[id].starts
        /\ id \in FeedVisits
        /\ day < Today + WeekDays => id \in weekItems
        /\ day = Today => id \in sendDailyDigest

=============================================================================
