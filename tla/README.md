# family-hub in TLA+

A verification development of family-hub, the household service of this
repository: a Go server with a SQLite database, a web front, a Telegram Mini App
and a Telegram bot. The modules here model what the program's parts promise when
they run against each other and against failures; TLC checks them on small
instances and TLAPS proves the properties that matter most for all of them.

    tlc -workers 4 -config MCChores_record.cfg MCChores
    tlapm ChoresProofs.tla

## 1. Inventory

One process. `cmd/server` opens the database, starts the materialiser goroutine
(`reminders.RunMaterialiser`), the bot's four minute loops (`RunScheduler`,
`RunDigests`, `RunCostPrompts`, `RunBillingReminders`), the Telegram update
handlers (concurrent: telebot runs each update in its own goroutine) and the
HTTP handlers of the web and the Mini App. They share the database and nothing
else, apart from a few in-memory maps of the bot. `internal/db` opens SQLite in
WAL mode with immediate transactions and a busy timeout, so a statement or a
transaction is atomic and writers are serialised, and everything between two
store calls of a handler may be interleaved with everybody else. A stop loses
what is in memory and keeps what was committed.

| component | state | operations | hard behaviour | what makes it correct |
|---|---|---|---|---|
| chore record (`reminders`, `store/reminders.go`) | `reminders`, `reminder_rules` (versions), `reminder_occurrences` (rows) | a materialiser pass, repair on read, mark, create, switch, add a version, amend a version, delete | three queries per pass and four per mark with writes of others in between; pauses; downtime; two saves in a minute | no row ahead of the clock, none inside a pause, none nothing scheduled; a decision is never lost; what is owed gets its row |
| chore push and nag (`bot/reminders.go`, `bot/digests.go`) | the push mark and the nag's date, in memory | a push query and send, a nag query and send, restart | the rows it asks about are written by another ticker in the same minute; a failed send may have arrived | said once; no backlog after downtime; one nag per chore |
| chore message (`bot/reminders.go`) | the text and keyboard of a sent message, in Telegram | tap, redraw | taps run concurrently and redraw from separate reads; the list is read back from the keyboard | it shows what the record says; lines stay |
| dishes and meals (`store/meals.go`, `store/dishes.go`, `kitchen`) | dishes with a status, meals planned or eaten | plan, record eaten, say exactly what was eaten, turn down, drop the plans | short transactions behind handlers that read first | no plan joins an eaten meal; what was eaten stays until somebody says exactly; nothing eaten is still a suggestion |
| menu and evening check (`bot/menu.go`, `mini/menu.go`, `mini/kitchen.go`, `menu`) | two messages, their keyboards, the list of meals nobody was at home for | send, shuffle, pick, evening answers, the picker, redraw | buttons of old keyboards; taps, the picker and photos at one time; an answer kept in two places | an answer given is an answer kept; a late answer only redraws |
| plate cards (`bot/cooked.go`, `awaiting.go`, `pending.go`) | cards and questions in memory | photo, recognise, correct, create a dish, confirm, cancel | a confirm in flight with a second tap, a cancel or a correction; a write that fails half way; restart | one confirmation writes a card; what the card reports is in the journal |
| dish suggestions (`bot/suggest.go`, `dish`) | suggested dishes, their message | propose, add, refuse | a refusal decided on two calls earlier | a dish is suggested once; an eaten dish is not a suggestion |
| visits and scheduler (`bot/scheduler.go`, `callbacks.go`, `store/visits.go`) | visits, in-memory sets of what was said today | remind, tap, warn about an empty balance | duplicate taps, a restart within the day | one visit per lesson; a reminder per lesson and day |
| payments and balances (`payments`, `store`, `bot/topup.go`) | payments, visits, enrolments | pay, take back, top up from a message | a double tap on a paid button, a price or pack that changed | the balance is what was paid less what was attended |
| billing reminders (`bot/billing.go`, `store/billing.go`, `payments`) | payments of both kinds, one claim per course and end of coverage | pay, change and take back, claim, send | claim before send, a stop between; payments that move the end and move it back | at most one warning of one end |
| appointments and cost prompts (`appointments`, `store/appointments.go`, `bot/appointments.go`, `applist.go`, `pending.go`, `awaiting.go`, `costprompts.go`, `web` and `mini` forms) | one table; cards and questions in the bot's memory; the id of the cost question on the row | capture and confirm, list and page, move and rename by a typed answer, call off, forms, ask for the cost, reply | five surfaces that read, write and tell in three steps; keys of cards and one question a person; mark after send; restart | a card saves what it shows; an answer goes to the question last asked; the group's last message is how the visit is; every visit ahead can be found; one question about a cost |
| audit ledger and forecast (`audit`, `store/store.go`, `store/audit.go`) | none (pure) | balance, coverage, ledger, forecast, packs | boundaries of days, periods, months and packs; entries ahead of today | one balance, however it is cut; what is asked for is enough |
| slot versions (`store/slots.go`, `enrollment_write.go`, `trainers.go`, `schedule`, `web/enrollments.go`, `mini/lessons.go`) | courses, slots with versions that begin at a moment, absences | create, move and delete a slot, an absence, a course | two saves in a minute; a move before or after today's lesson; a course deleted between its check and its delete | the past is not rewritten; the bot, the calendar, the forecast and the cards say the same |
| utilities (`store/readings.go`, `tariffs.go`, `utilities.go`, `stats_meters.go`, `web/meters_*.go`) | properties, services, tariffs, readings with a stored amount | read, correct, pay, delete, change a tariff, archive, sum | two or three statements per form; archiving and moving what has readings | an amount is what its tariff makes of its values; a month comes to one figure |
| appointment digests (`bot/digests.go`), calendar feed (`web/calendar.go`) | none | reads | boundaries of weeks and days | with appointments and slot versions |
| agenda, ICS text, chore history, other statistics | none | reads | | |
| actor, auth, parse, dish recognition, routers, templates | none | parsing, authentication, rendering, calls of language models | | |

The hazards each of these is exposed to are listed with their lines in
`PROJECT.json`.

## 2. Plan

1. `ChoreRecord`, `Chores`, `ChoresProofs`: the record, its service, the proofs. Done.
2. `ChorePush`, `ChoreMessage`: the bot over the record, with `ChorePushProofs` and
   `ChoreMessageProofs`. Done.
3. `MealRecord`, `Meals`, `Kitchen`, `KitchenProofs`: what a day of the meal journal promises, the
   calls of the store, the people, messages and cards over them, and the proofs. Done.
4. `Lessons`, `LessonsProofs`: visits, payments and balances with the scheduler and
   the buttons of its messages. Done.
5. `Appointments`, `Meters`, `Audit`, `Timetable`, `Passes`, checked side by side
   in `Household`. Done. Operators of `Audit` are pure and written without
   RECURSIVE, so that modules over them can be proved about.
6. Proofs over the parts of 5: `CoursesProofs` for the timetable and the payments,
   `HouseholdProofs` for the visits, the meters and the four parts together, and
   `SumTheorems`, which has what sums and running sums need. Done.
7. Left: the choice of a menu.

## 3. Modules

### ChoreRecord

The promise of the record to whoever reads it: an entry of a chore and a minute
is `none`, `pending`, `done` or `skipped`; it is recorded only when its minute
has come; an answer may change to the other answer and never goes away; only an
open entry may be withdrawn. `Chores` implements it, and the modules of the bot
are composed with it instead of with the tables.

### Chores

`chores`, `rules` and `rows` are the three tables of
`internal/store/reminders.go`; `pass`, `mark` and `edit` hold what a
materialiser pass, a `Mark` and an `AddRule` in flight have read. An action is a
store call together with the code up to the next one.

| action | code |
|---|---|
| `PassStart`, `PassRules`, `PassWrite`, `PassFail` | `materialiseSince`: `ActiveReminders`; `RulesForAll` and the expansion of every chore above its floor; `MaterialiseOccurrences`; an error |
| `MarkStart`, `MarkReminder`, `MarkRules`, `MarkWrite` | `Mark`: the future check and `GetOccurrence`; `GetReminder` and the floor; `RulesFor` and `occursAt`; `MarkOccurrence` |
| `Create`, `SetActive`, `SoftDelete` | one statement or transaction each |
| `AmendRule` | `AmendRuleAndDropOpen`, one transaction, failing as a whole on the index |
| `AddStart`, `AddInsert`, `AddAmend` | `AddRule`: `RulesFor`, then an insert or an amendment |
| `Tick`, `Crash` | the minute; the end of the process |

Abstractions. Time is in minutes, the resolution of every stored instant, so
that seconds at the edge of a window (the clock has them, the columns do not)
are outside the model, and so are the two nights of a change of clock. A rule
text is the set of instants `recur.Expand` lists for it. The clock is read in
the same step as `ActiveReminders`. A chore's title, person and length are left
out. The chosen start of an amended version is any minute: the forms carry it,
and carry it from an earlier read.

### ChorePush

`RunDigests` as far as chores go: `Wake` is a tick with `dueThisMinute`, then
`NagQuery`/`NagSend`/`NagFail`, then `PushQuery`/`PushSend`/`PushFail`. The
record moves between them (`RecordStep`, any step of `ChoreRecord`) and chores
are deleted. A send that reports an error may have arrived; a restart forgets
the nag's date and sets the mark to the clock.

### ChoreMessage

One message and the taps on it. `Press` carries the message as it is and a
button the person saw, perhaps of an older keyboard; `Check`, `Mark` and one
`RedrawRead` per line follow, each its own query, and `Edit`. A line that is
answered has no buttons, and what a redraw lists is read from the buttons.

### MealRecord, Meals, Kitchen

`MealRecord` is the promise of one day of the meal journal: what the family
thinks of each dish, what is planned for each meal and what was eaten at it, and
the seven things that can happen to them. `Meals` has the three tables behind it
and one operator per call of the store, each an immediate transaction. `Kitchen`
adds everybody who makes those calls.

| state | code |
|---|---|
| `status`, `row`, `evening` | `dishes.status`, the status of the row of `meals` for a dish and a meal, the row of `evening_messages` |
| `shown`, `buttons` | what the posted check says of each meal; what the buttons of the keyboards it has had may say, any of which a person may still press |
| `card` | the `cookedEntry` in memory: the catalogue's dishes on the plate, the names not in the catalogue, the meal, `recorded`, `busy`; `plate` is what is being or was written |
| `job` | what each handler in flight has read and where it is |

| action | code |
|---|---|
| `MenuTap`, `PlannerSave`, `NameDish` | `applyMenuTap`; one meal of `handlePlannerSave`; `dishIDs` |
| `Suggest`, `SuggestAdd`, `SuggestNo`, `NoEaten`, `NoWrite` | `proposeDishes`; `applySuggestTap`: `Dish`, `DishEaten`, `SetDishStatus` |
| `BuildCheck`, `SendCheck`, `KeepCheck` | `sendEveningCheck`: `buildEvening`, the post, `SaveEveningMessage` |
| `AnswerYes`, `AnswerPick`, `AnswerHome`, `AnswerReject` | `applyEveningTap` up to and with its first call |
| `ConfirmYes`, `RecordPick`, `Away` | its second call |
| `ReadDay`, `Edit` | `eveningStateFrom`, the edit of the message |
| `PickerSave`, `Recheck` | `handlePickerSave`: `SetEaten`, then `RedrawEvening` |
| `CardSend`, `CardCorrect`, `CardMeal`, `CardCancel` | `recognise` and the correcting taps of `cooked.go` |
| `CardNew`, `NewWrite`, `NewPut` | `onCookedNew`: `begin`, `EnsureDish`, the assignment and `end` |
| `CardConfirm`, `PlateWrite`, `PlateDone`, `PlateFail` | `onCookedConfirm`: `claim`, one `RecordEaten` per dish, the report, `release` |
| `Fail`, `Restart` | an error of a call; the end of the process |

Abstractions. One date and the catalogue and the meals of the day before as
constants. A button press and the first call of its handler are one step: the
callback carries the keyboard as Telegram has it then, and the handler touches
nothing in between. `buttons` only grows, so that a person may press what any
earlier keyboard had; "Yes" carries any dish of the plan where the code has the
first. A recognizer is configured, so every open meal is asked about, and the
check is posted once. One plate card per life of the process (cards do not meet
each other). Who answered, the leftover mark, the wording and the menu message are
left out. A correction of the card may make its dishes any set of the catalogue,
which covers dropping, restoring and taking another reading.

### Lessons

| state | code |
|---|---|
| `visit`, `pays`, `ids` | the tables `visits` (unique by course and date) and `payments` |
| `msgs` | the reminders and warnings in the group, with what each says now |
| `due`, `tick`, `said` | the tick waiting in the ticker's channel; what the pass has read; `reminded`, `warned` and `remindedDate` |
| `taken`, `job` | `paidTaps`; what each button handler in flight has read |

| action | code |
|---|---|
| `Minute`, `TickStart`, `TickFail`, `TickDone`, `TickError` | the ticker, whose channel holds one tick; the head of a pass; its failing queries |
| `WarnCheck`, `WarnBalance`, `WarnSend` | `warnEmptyBalance`: window and visit, balance and offers, the message |
| `RemindCheck`, `RemindSend` | `remindSlot` |
| `AskTap`, `AddTap`, `TapCreate` | `onReminderTap` and `onAddStatus`: the look, then `CreateVisit` |
| `ReasonTap`, `TapLook`, `TapEdit`, `TapFail` | `onReasonTap`, `finishVisit`; the edit of the message; an error |
| `PaidTap`, `PaidWrite`, `PaidFail` | `onPaidTap`: `LoadOrStore`, `Create`, `Delete` of the key |
| `FormVisit`, `FormUpdateVisit`, `FormDeleteVisit`, `FormPay`, `FormUpdatePay`, `FormDeletePay` | the forms of the web and the Mini App |
| `Restart` | the end of the process |

`marked`, `touched`, `stray`, `troubled` and `torn` are history: no action reads
them. They say what a property leaves out, and why: a lesson entered for a day
the timetable does not have, or for a day before the warning, was in no offer
(`stray`); a day with an error, a tick that was dropped or a restart owes no
reminder (`troubled`); a warning whose payment was written and whose buttons were
still there when the process ended may be paid twice (`torn`).

Abstractions. The timetable is a constant, and with it the trainers' absences and
the switches of a course; the reminder is not switched off. "Done" is one status
and the three others are one. A course is paid for by the lesson. Only buttons
that the message still has are pressed; a press and the handler's first call
are one step. An error of `GetVisit` is told as a deleted visit, as in the code.
Comments, the messages of /add, the line about the balance, prices and the
announcements of payments are left out.

### Appointments

| state | code |
|---|---|
| `rows` | the table `appointments`, with the deletion and the id of the cost question |
| `pending`, `cards`, `boot` | `pendingStore` by key; the cards in the chat with the visits they show; which process posted them |
| `awaiting` | `awaitingStore`: one question a person |
| `listed` | the visits that the buttons of the /list messages reach, by chat |
| `asks`, `sweep` | the cost questions in the group; the pass that posts them |
| `clerk` | what each handler in flight has read or is about to tell |

| action | code |
|---|---|
| `cmdVisit`, `onTextCapture`, `onSave`, `onUpdate`, `onCancel` | a capture posts a card (`put`); its buttons `take` what is behind its key |
| `askMeal`, `answerMeal`, `onArm`, `applyFieldEdit`, `rescheduleAsk`, `applyReschedule`, `rescheduleRetry` | questions and their typed answers; a date goes through the parser between its look-up and its write |
| `cmdList`, `onNav`, `closeList`, `onDel` | /list, its weeks, and calling a visit off from it |
| `WebCreate` ... `MiniDelete`, `UpdateWrite`, `SetStatusWrite` | the forms, read and write apart |
| `mirrorToGroup`, `answerInGroup`, `announce`, `announceFails` | the message of what was done, or none |
| `sweepRead`, `sweepPost`, `sweepPostFails`, `sweepStore`, `sweepStoreFails`, `costReply`, `onCostButton` | `sendDueCostPrompts`, visit by visit; the answers |
| `Tick`, `restart` | the minute; the end of the process |

`told`, `asked`, `torn` and `muddled` are history. `muddled` has the visits that
two handlers were at in one time, or whose message failed: what the group reads
last is then up to the order of the messages. `torn` has the cost questions whose
id was not stored, which are asked again. Abstractions: what the language model
makes of a text is one of `Captures`; place, note, end and author are left out.

### Meters

`addresses`, `utilities`, `tariffs`, `readings` are the four tables. `desk` holds
what a form in flight has read: `ReadingCreateRead`/`ReadingCreateWrite`,
`ReadingUpdateRead`/`ReadingUpdateWrite`, and three steps for a tariff
(`TariffSaveRead`, `UpdateTariffRead`, `UpdateTariffWrite`), because
`UpdateTariff` asks whether readings use the row before it writes it. `raced`
(history) has the readings for which a handler wrote after another one had: the
code does nothing against it, and the amount may then be of rates that are gone.
A form may carry the "previous" value it was offered or one typed; a field may be
absent from a request, as a locked one is.

### Audit

Operators for the columns of a balance, the paid period today is in and the next
one ahead, the ledger of a period, the forecast, the months to buy and the packs
a balance consists of. A date is a number, a month an interval of them; a month's
length is a constant, so that short and long ones can meet.

### Timetable, Passes

`Timetable` has the courses, the slots with their versions by the moment they
begin, and the trainers' absences, with every form that writes them, and the five
ways the timetable is read (the bot's question, the calendar, the forecast, two
screens). `took` (history) is what the slots stood for as each moment passed,
absences apart. A course is deleted by two statements, the check and the delete;
visits and payments may come between.

`Passes` has one course with its payments of both kinds and its visits, which
change under it, the hourly pass of warnings in three steps (`sendDueBillingReminders`,
`ClaimBillingReminder`, `SendWarning`) with `StartOver` at any of them, and the
page (`Build`) and the line (`loadPacks`) that are worked out of it.

### Household, MCHousehold

These four parts have no table and no variable in common (`Passes` takes the
course's weekdays and absences as constants). `Household` puts them side by side: `part` is chosen at the start and says whose steps a behaviour takes, so
that the states are the sum of the parts' and not their product. A type invariant
over all four is `HouseholdTypeOK`. Handlers of one kind are interchangeable,
hence the symmetry. `MCHousehold` gives the constants their values.

## 4. Runs

| run | shows | bounds |
|---|---|---|
| `chores_record` | type, no row ahead, no open row in a pause, decisions stand, refinement of `ChoreRecord` | one chore, one version that is amended between two texts sharing an instant, minutes 0..2, a backfill of one minute: enough for on, off and on again with a pass in flight over each edge, and for an instant that leaves the backfill |
| `chores_edits` | one version per start, rows explained, owed rows get written | two versions and one AddRule, overtaken by amendments, which may move the other version onto its start |
| `chores_ghost` | violated: open rows match the text of their version | as above without a mark |
| `push_clock` | said once, one nag window, no flood | minutes 0..2 with a day of two minutes, so that two nags fall into the run, and a lookback of one |
| `push_mark` | violated: the minute the mark stands on was said | minutes 0..3, lookback two |
| `message_taps` | shown answers exist; undisturbed messages show the record | two chores, two taps, the record changing elsewhere |
| `message_lines` | violated: a redraw keeps the lines | two chores, two taps |
| `kitchen_day` | type, nothing eaten is a proposal, plates land, one writer per card, answers shown are answers kept, refinement of `MealRecord` | a dish of the family eaten yesterday and one nobody has heard of, two meals, two handlers in flight, four acts of people: enough to plan, post, press and report in between, or to suggest, plan, eat and refuse |
| `kitchen_late` | violated: a late answer only redraws | the same |
| `lessons_days` | type, lessons are asked about, once; answers say what was recorded; one payment per warning, which covers what it says | one course, two days of three minutes: two lessons on the first, one on the second, so late that its reminder would fall on the next day; one lesson owed at the start; two handlers in flight, two acts of people, one restart: enough for a double tap with a restart or a failure in between |
| `household` | what is told, listed, priced, summed, scheduled, warned of and balanced is what is stored: thirteen properties of the four parts | *visits*: one person, two captures at one time, a form that plans a visit, one that enters it as called off and one without a title, a Mini App that shows one visit, two handlers, three acts, two processes, a clock of two moments in days of two and weeks of two, cards and questions that are too old a moment later: enough for a card, a second card at its key, a question asked over, a form between another's read and write, a cost asked for and stored too late. *meters*: two forms in flight, three forms posted, two tariffs and one row more, two months: enough to read, change the tariff and correct the reading. *timetable*: two courses, two slots, one absence, four forms, five moments in days of two and weeks of two days, a feed that ends five moments ahead and so in the middle of a day or at the end of one: enough to move a slot and move it back with a lesson before, between and after. *payments*: both ways to bill, two payments, two visits, four acts, months of 1, 2 and 2 days and a notice of 3: enough for months that touch, a gap, a period ahead, a claim that moves away and comes back, and a restart; a behaviour of the payments starts on any day, and in one of another part they stay at the last day |
| `stale_card` | violated: a button on any card finds what the card shows or nothing | one handler, two cards, one restart |

Every bound is a constant of the specification or of its MC module. The proofs
below hold for every value of them. Deadlock is not checked where the bounds on
acts and on the clock stop the system.

Fairness is used by one run. `FairSpec` asks that the ticker's pass is started
again and again (weak fairness of `PassStart`: `RunMaterialiser` ticks every
minute for as long as the process is up, and a start runs a pass at once) and
that a pass which is started again and again is at some time let through to the
end (strong fairness of `PassRules` and `PassWrite`: neither the database nor a
crash stops every single one). Nothing is assumed of marks, edits or readers.

## 5. Disagreements between the code and what is written about it

- `OpenRowsMatchTheirRule`: amending a version is said to clear its open rows and
  have them regenerated. A pass that read the rules before the amendment and
  writes after it brings rows of the old text back, and nothing removes them.
- `MarkedMinuteWasSaid`: the mark is said to close a minute only when something
  was said about it. A chore of an earlier minute, found late, closes the current
  minute as well; a row of that minute written after the query is never pushed.
- `LinesStay`: a redraw is said to keep the chores a message always listed. An
  answered line loses its buttons and the next redraw reads the list from the
  buttons.
- `LateAnswerOnlyRedraws`: an answer to a meal that was reported eaten since the
  check was drawn is said to redraw only. The look and the write are two calls; a
  dish the picker or a photo records between them is not seen. "Yesterday's dish
  again" then puts a second lunch on the day, and "yes" takes the other lunch off.
- `CardsOutliveNothing`: a restart is said to drop pending confirmations
  harmlessly. The counter behind the keys starts again too: an old card in the
  chat comes to carry the key of a new one, and its buttons save, update or drop
  the visits of the new one. Plate cards (`cooked.go:42`, 98-115) are numbered in
  the same way.

Seen while modelling and not held as a run. Of chores, meals and lessons: `recordPlate`'s comment
(`cooked.go:655`) says a plan for a dish that is not on the plate is dropped, and
`RecordEaten` keeps it, as its own comment says; the meal of a plate card is read
for every dish, so that a correction during the write splits the plate over two
meals; `Mark` accepts an instant inside a
pause (the comment at `reminders.go:223` says it refuses); `ARCHITECTURE.md:1023`
says an amendment leaves written rows alone and `AmendRuleAndDropOpen` deletes
the open ones; a chore due in the minute of the nag whose row comes after the
query is in no nag window; of two concurrent taps the older redraw may be the one
that stays; `bot.go:132` says of the warnings' buttons that after a restart there
is nothing left to tap, which does not hold of a process that ends between the
payment and the edit, or after an edit that failed (`torn`); a reminder whose send
failed counts as sent, while a warning is sent again; `finishVisit` takes every
error of `GetVisit` for a deleted visit.

Of visits: `RescheduleAppointment` moves the start and leaves `ends_at`;
`store/appointments.go:208-210` says every read filters on the deletion, and
`GetAppointment` (75-78) does not, so that a deleted visit can be told of as
changed or deleted once more; an edit that takes a cancellation back is told of
as "changed"; a visit entered as cancelled is told of as a new one with no word of
its status (`notify.go:23-29`), which `GroupIsTold` leaves out by name (`unsaid`);
the Mini App shows a hundred visits, those called off among them, and then says that
its list is cut off (`mini/appointments.go:300-313`), which is `MaxAppointments` and
`truncated`; the cost question is said
to be sent exactly once (`store/appointments.go:239-240`) and is sent again when
its id was not stored, a reply to the first being none; a web form opened before
a cost was replied wipes it; a date that is not understood asks again over a
question put meanwhile.

Of meters: `tariffs.go:118-125` says a used tariff does not change how it
calculates, and the look and the write are two statements (141-161), so that a
reading entered between them keeps the amount of the old rates (`raced`); the form
of a month that was missed offers the value of a later month as "previous"
(`readings.go:138-143`); ids of deleted readings are given again; saving a reading
that is gone reports success; the page of an archived property shows the first
other one; the total of the statistics has archived properties in it, the columns
have not.

Of courses and payments: months to buy are counted by the same day of the next
month (`forecast.go:231-236`), so from 31 January to 3 March and one month too
few, and from the end of a short month one too many; with nothing paid they are
counted from the day before the first lesson; the lessons before a period that is
paid ahead count as paid in the forecast (`forecast.go:77` with the end of an
upcoming period, `service.go:95`); a warning may go out after the month was paid,
between its read and its send; a lesson of today at 16:00, moved at 10:00 to 09:00,
is gone from the calendar of today while the bot asks about 09:00.

## 6. Proofs

Every theorem is of the specification with all its constants left open. The
arguments have one shape: an inductive invariant that says of everything in
flight what it has read and how much of it still holds, one lemma per action for
each part of it, and the property out of the parts.

`ChoresProofs` proves, for any sets of chores, versions, texts and callers, any
windows and any bound on time:

- `TypeCorrect`, `NothingAhead`, `VersionsUnique`, `RowsExplained`,
  `PausesStayPauses`: the invariants of the two passing runs;
- `DecisionsKept`: the action property;
- `Implements`: `Spec => Record!Spec`, each step mapped to a step of the record
  or a stutter.

The argument is one inductive invariant, `IInv`. None of the properties is
inductive by itself, because a pass or a mark writes what it read several steps
ago: `IInv` says of every call in flight that its clock is not ahead
(`InFlightNotAhead`), that the version it chose exists, belongs to the chore and
has covered the instant (`InFlightSourced`), and that a chore it read as switched
on was on in every minute from its floor to the clock of the read (`OnSince`).
The last is what keeps rows out of pauses, and it needs that switching on moves
the floor while switching off leaves it. `NoOrphans` is needed for a new chore to
have no version that clashes with its first.

`ChorePushProofs` proves `PushTyped` (the type), `PushedOnce`, `NoBacklogPushed`
and `NaggedInOneWindow` (`OneNagWindow`) for any lookback, day and set of chores.
`PushInv` says that what was said without a doubt lies at or before the mark, and
that what is about to be said lies after it, inside the lookback and not after the
tick. For the nag, `NagInv` says that every nag said ended at a nag's minute and
had the chore in its window, and so has the nag in hand; two windows that end on
different days share no minute (`WindowsApart`, `OneWindow`), because each is one
day long.

`ChoreMessageProofs` proves the type, `ShownAnswersAreThere` and
`TapsShowTheRecord` for any chores and any number of taps at one time. An answer
once given stays one (the record's own promise), so that what a redraw has read,
however long ago, is still an answer (`AnswersExist`). As long as nothing came
between, one tap is at work at most, and its reads are how the record is
(`OneByOne`): without that part a message shown true would not stay so while its
tap is between the write and the edit.

`KitchenProofs` proves, for any dishes, meals and handlers in flight, any
catalogue, any yesterday and any number of acts:

- `TypeCorrect`, `EatenNeverProposed`, `OneWriter`, `PlatesLand`, `AnsweredWas`:
  the invariants of `kitchen_day`;
- `Implements`: `Spec => Record!Spec`, so that no order of taps, saves, photos,
  suggestions, failures and restarts does more to the journal than `MealRecord`
  allows.

The argument has two halves. Every step makes at most one call of the store, with
dishes that exist (`Call`; `ActCalls`, `WorkCalls`), and every call keeps the
journal in order and takes nothing eaten away without noting it (`Journal`,
`Kept`; `CallsKeep`) and is a step of `MealRecord` (`RecordNext`). The first half
needs `Sourced`: the dishes in rows, on buttons, in the hands of a handler and on
the card are in the catalogue, whenever they were read, because nothing leaves
the catalogue. It also needs `RowsKnown`: the buttons, and the plan an answer
confirms, are read from the rows of the day. The card needs two facts more: as long as someone
writes it, it is open and claimed (`OneWriterPerCard`, which is inductive), and
what the writer has not written yet is all that is missing (`PlateUnderway`).

`AnsweredWas` (`AnsweredIsAnswered`) has an invariant of its own, `CheckInv`, over
the first: as long as redraws come one after the other, at most one handler is on
its way to a redraw (`Alone`, with a save of the picker before the post as the only
other), it is before, at or after the post and the record of the message
(`Stage`), what it read is so (`JobTrue`), and what the check shows is so
(`ShownTrue`).

`LessonsProofs` proves `AnswersAreRecords` (`AnswerIsRecord`), `PaymentsAreOnce`
(`PaidOnce`), `BotSpeaksOnce` (`SpokenOnce`) and `EveryLessonIsAsked`
(`AskedOrMarked`) for any timetable, courses, handlers, delay and notice, from an
invariant of five parts. `Answers`: an id in the hands of a handler is of the visit
its message asks about, and what it will say is so unless a form touched the visit.
`Payments`: a warning that is being paid is taken by one handler, and one with a
payment is taken, without buttons, or `torn`, which is what makes the second tap
come too late. `Clock`: a tick lies in the past, a pass is of the day of its maps.
`Spoken`: a message is of a day that went by, or its course is in the map of today.
`Asked` is about the last minute of a day, at which every reminder is due: it was
lost, or waits in the channel, or its pass has handled the slots it left behind. So
the proof says more than the run why a lesson late in the evening is asked about:
not because its own minute is reached, but because no day ends without its last.

`PaidAheadIsQuiet` (`PaidThroughIsQuiet`) and `LessonsTyped` stand on a second
invariant over the first, `PromisesInv`. It counts days and not lessons: `Busy` is
the set of the days up to a date that a course has had, or has ahead from the day of
a warning on, and `Enough` says that what was ever put in for the course
(`Funds`) is at least their number. An offer is enough because the balance is the
funds less the days had, so what is owed and what is ahead add up to the busy days
(`OfferIsEnough`, with `BalanceIs`). It stays so (`Stands`): marking a lesson that
was ahead moves a day from one half of the set to the other, a payment only adds,
and what else can happen makes the course `stray`. The payment of a button turns an
offer into funds (`PaidOffer`). When a second warning is drawn up for a paid day,
the days had and today are all busy, so there are fewer of them than the funds and
the balance is not empty. The proof showed that the property has to look at the
course the warning was for: a form may move a payment to another course, and it
takes the note of its warning along.

`HouseholdProofs` is about the visits, the meters and the house. Of the visits it
proves the type and

- `CardsKeepTheirItems` (`PendingIsTheCard`): within a process a key is given to
  one card, since it is the number of cards so far (`Keys`);
- `AnswersAreToTheLast` (`AnswersTheLastQuestion`, which is inductive with the
  shapes);
- `AskedOnce` (`OneQuestion`): what a pass has left was asked about by no question
  that counts, and what it posted is the head of what it has left (`Questions`);
- `GroupKnows` (`GroupIsTold`): for a visit no two handlers were at together, what
  the one at it has read still holds, and nobody at it means that the group knows
  it as it is (`Messages`, `JobRight`); a visit entered as called off is told of
  as a new one, and that it is off need not be told for as long as it stays so;
- `VisitsAreFound` (`EveryVisitListed`): a visit ahead is in one week of the bot's
  list, on one page of the web's, and in the days of both; the Mini App may leave
  it out only when its list is full of visits that start no later, and says that it
  is cut off (`MiniHasIt`). This needs only the shapes. A week's number is a
  quotient, so it is arithmetic for the list; a page is a stretch of places, and the
  place of a row is the number of rows before it, so different rows have different
  places below the count (`ListedInOrder`, `PlacesDiffer`, `OnTheList`).

For this a list is written as what its order says, the row with n others before it
at place n + 1 (`SoonestFirst`, `SoonestFirstIs`). Rows that start together come in
the order of their ids there, where the query names none; a limit then cuts one list
and not several.

`MonthsStayPriced` (`PricedAsBilled`) holds for any tariffs, forms
and number of handlers in flight. Four lemmas are about `ComputeAmount`: it keeps
the service and the tariff of a reading, pricing what is priced changes nothing,
only the kind and the rates of a tariff matter, and paying does not. `MeterInv`
says of each handler in flight what it has read, and that this still holds as long
as it is alone: the reading in the hands of an insert or an update is priced by the
tariff as it is now, and a tariff that was found to calculate as before does. Every
write makes the others not alone, so that what they write is in `raced`.

`MetersTyped` adds to it what the columns hold (`RowsInv`). A value offered as
"previous" is one of a row because a service with readings has a latest one, and an
id is new because the ids have a last: both are the same fact about a finite set
and an order (`LastOfAll`), by the least element of a well-founded relation.

`MonthsAreSummed` (`MonthIsSummed`) follows from these two: the bill by
service, the bill by property, the columns of the statistics and their total are
sums of the amounts of the same readings, cut into groups in different ways, and a
sum does not depend on the cut (`SumByGroups`). `SumTheorems` proves that and what
else is used of sums over finite sets: that the recursive fold behind
`SumFunctionOnSet` exists, that any element may be taken first (`SumWithout`), that a
sum of integers is one (`SumIsInt`). The induction is over the subsets of a finite
set, as the set of those for which the fact holds (`SetInduction`).

The house is the four parts side by side. A step of it is a step of each part or
leaves the part alone (`PartsStep`), so it implements each of them
(`PartsStandAlone`), and `HouseholdTyped` (`HouseholdTypeOK`) is their four type
theorems together.

`CoursesProofs` is about the timetable, the payments and the pages worked out of
them.

`PastIsKept` (`PastStands`) and `TimetableTyped` hold for any
week, any day, any forms and any number of moves. `TimeInv` says that ids are given
in order, that slots are of courses that exist, that no version begins ahead of
the clock, and that a slot yet to be made took place at no time. Two lemmas about
`expandVersioned` carry the argument: a stretch of time may be cut anywhere
(`ExpandCut`, for the step of the clock), and a version that begins now changes
nothing before now (`PastUntouched`, for the move of a slot).

`CalendarAgrees` (`CalendarIsAsked`) compares the five readers of the timetable in
every state of `TimeInv`. The bot reads the versions of this moment, the calendar
and the forecast read the stretch of a day or more: the version in force now is the
last one and every moment from now on is its (`VersionOfNow`), and moments of a
date are those of one quotient (`DayOfMoment`, `LaterDay`). The feed ends
`LessonHorizon` from now (90 days, `web/calendar.go:23`), most often within a day:
the two are compared to the last day it takes in whole (`DayIsWhole`). That the forecast's
sequence has each date once and in order is a fact about places (`InOrderIs`,
`DatesAre`).

`WarnedOnce` (`OneWarning`) holds for any payments
and visits, any lengths of months and any number of passes and restarts. `WarnInv`
says that what the group was warned of had been claimed, and that what is about to
be sent was claimed by this very pass; a claim is inserted once and never taken
back, whatever the payments do to the end it names.

`PaymentsInvariant` and `PassesTyped` say what the store of payments comes to. `PayInv`
has what the pages need: a payment has an id of its own that was given, it is for
lessons or for a month and an extra for neither, marks and claims are days of the
calendar. Everything else about the pages is worked out of one such state.

`LedgersAgree` (`LedgerAgrees`) rests on two facts about what is put in order
(`InOrder`): every element has one place, the number of those before it
(`InOrderIs`), and a running sum along the places ends at the sum over the set
(`RunningIs`, `SumAlong`). So the last line of a ledger is its opening with the
payments of the period less the lessons of it (`LedgerCloses`), the same number for
every period that ends that day, because a set of payments may be cut at any day
(`CutIs`, `BooksHold`). The packs have the same sum cut at what is spent: what
is left of the packs not yet used up is what was paid less what was done
(`PacksLeft`), and the last pack is spent with the lesson whose number is the
balance, which is the last one that the page counts as paid (`PacksDo`).

`AheadIsPaid` (`PaidAhead`) has three parts. The end of the paid days is found by
going along the months in the order they begin, each joined that begins no later
than the day after the end so far: all days up to the end are then paid and the one
after is not, since whatever would join it would have been joined when it came
(`EndOfRunIs`, `ReachIs`, `CoverageIs`). By the lesson, the dates ahead that the
balance does not reach and the debt make up what is asked for (`TopUpIs`,
`LessonsDo`). By the month, the count goes from a day to the same day of the next
month; while months do not get shorter it stays in step with the calendar
(`MonthLater`, `MonthsReach`), and where they do it need not, which is why the
property asks for it. It holds from wherever the page counts (`CountedFrom`): the
end of the paid run of now or the first ahead, and with nothing paid the day before
the first lesson, where the months are those after the month of that day and a
lesson in that month itself is one more to buy (`PaidUntil`). The lessons before a
run ahead are in none of its three parts, the page takes them for paid. The count is
a function that refers to itself along the calendar; that there is one is shown from
a bound on the steps to the end (`MonthsFromIs`, `CountExists`).

Assumptions are the `...Assumption` of each module:
bounds are numbers, the repair window is no longer than the backfill, the ticker
is not one of the readers, there is at most one nag time and it is a minute of
the day; the lines of a message are of minutes of the model; the catalogue gives every dish a status, and what was eaten yesterday
was no suggestion then; a day of lessons has two minutes or more and each slot
falls into one; days, weeks, pages and lists of visits are not empty, a capture is a
sequence of visits, and a form has the fields of one; a course is
billed by the lesson or by the month, its dates lie in the calendar, which goes on for
a day at least after the last the model looks at, and a form of a payment has a kind,
a date, a number of lessons and a month or none; a day has
a length, the feed a horizon, the form of a course has a mode,
a trainer and a switch, an absence a trainer and two dates; the bills begin with rows that refer to each other, and a form
holds a period, four values that are numbers or missing, and a mark.

Only model-checked:

- the liveness of `OwedIsRecorded`: the prover does neither fairness nor ENABLED;
- that each run of section 5 is a violation: a counterexample is a run, not a
  theorem.

## 7. Not modelled

- The recurrence library and the language model behind texts and photos: what
  they may answer is an input.
- Routing, authentication, templates, wording, the set-up of the database and the
  commands: input and output without state of their own.
- The menu message (shuffle, offered dishes, `menu_messages`) and its post before
  it is recorded (`menu.go:475`).
- Reads of chores ahead and back (agenda, history, feeds): the record merged with
  a projection of the rules.
- The nights on which the clock changes: moments are those of the wall.
- `AmendSlotVersion` and `VersionsFor`, which no screen calls.
- Lists that only choose what is offered first (frequent courses, comments,
  labels) and the other statistics.
