------------------------------ MODULE Kitchen ------------------------------
(***************************************************************************)
(* The people and the clock around one day of the meal journal: the morning *)
(* menu and the Mini App's planner, the evening check, the Mini App's       *)
(* picker, the card of a photographed plate and the card of suggestions     *)
(* (internal/bot/menu.go, cooked.go, suggest.go; internal/mini/kitchen.go,  *)
(* menu.go), over the tables of Meals.                                      *)
(*                                                                         *)
(* The grain is one store call or one edit of a message.  Handlers run at   *)
(* the same time, so anything may happen between two steps of one; what it  *)
(* has read is kept in job.  A person may press a button of a keyboard that *)
(* has been replaced since.                                                 *)
(***************************************************************************)
EXTENDS Meals, Naturals

CONSTANTS
    Handlers,  \* handlers that may be in flight at one time
    MaxActs,   \* bound: the taps, saves, photos and suggestions of the day
    Catalogue, \* the status of each name when the day begins
    Yesterday  \* the dishes eaten on the day before

ASSUME KitchenAssumption ==
    /\ MaxActs \in Nat
    /\ Catalogue \in [Dishes -> Status]
    /\ Yesterday \subseteq {d \in Dishes : Catalogue[d] \in {"active", "rejected"}}

VARIABLES
    shown,    \* what the posted evening check says of each meal
    buttons,  \* what the buttons its keyboards have had may say
    card,     \* the plate card held in memory
    acts,     \* how many of those there have been
    job,      \* what each handler in flight has read
    \* History, read by properties only.
    unset,    \* the dishes an exact answer took off a meal they were eaten at
    disturbed \* a redraw of the check was overtaken or did not happen

history == <<unset, disturbed>>
check == <<shown, buttons>>
vars == <<tables, check, card, job, acts, history>>

Idle == [step |-> "idle"]
NoCard == [stage |-> "none"]

\* Yes, not ours, yesterday's again, not at home.
Button == {"yes", "rej", "pick", "home"}

Init ==
    /\ status = Catalogue
    /\ row = [k \in Key |-> "none"]
    /\ evening = [saved |-> FALSE, away |-> {}]
    /\ shown = [m \in Meals |-> "none"]
    /\ buttons = [b \in Button |-> {}]
    /\ card = NoCard
    /\ job = [h \in Handlers |-> Idle]
    /\ acts = 0
    /\ unset = {}
    /\ disturbed = FALSE

Goto(h, j) == job' = [job EXCEPT ![h] = j]

\* The handlers that will redraw the evening check.
DrawSteps == {"confirm", "record", "away", "draw", "edit", "recheck", "send", "keep"}
Drawing == {h \in Handlers : job[h].step \in DrawSteps}

-----------------------------------------------------------------------------
(* The morning: one transaction each, nothing read before it is used.       *)

\* A tap on the menu, while the day is today.
MenuTap(d, m) ==
    /\ d \in Known
    /\ PlanMeal(d, m)
    /\ UNCHANGED <<check, card, job, history>>

\* One meal of the planner; the next meal is another transaction.
PlannerSave(m, D) ==
    /\ D \subseteq Known
    /\ SetPlan(m, D)
    /\ UNCHANGED <<check, card, job, history>>

\* dishIDs: a name typed in the planner or the picker, before the meal is saved.
NameDish(d) ==
    /\ EnsureDish(d)
    /\ UNCHANGED <<check, card, job, history>>

\* A suggestion whose name the catalogue already has is not written.
Suggest(d) ==
    /\ CreateDish(d)
    /\ UNCHANGED <<check, card, job, history>>

SuggestAdd(d) ==
    /\ d \in Known
    /\ SetDishStatus(d, "active")
    /\ UNCHANGED <<check, card, job, history>>

\* "No": the dish is read, then whether it was ever eaten, then it is rejected.
SuggestNo(h, d) ==
    /\ job[h].step = "idle"
    /\ d \in Known
    /\ Goto(h, [step |-> IF status[d] = "active" THEN "no?" ELSE "no", dish |-> d])
    /\ UNCHANGED <<tables, check, card, history>>

NoEaten(h) ==
    /\ job[h].step = "no?"
    /\ LET d == job[h].dish
       IN  Goto(h, IF d \in Yesterday \/ \E m \in Meals : d \in EatenAt(m)
                   THEN Idle ELSE [step |-> "no", dish |-> d])
    /\ UNCHANGED <<tables, check, card, history>>

NoWrite(h) ==
    /\ job[h].step = "no"
    /\ SetDishStatus(job[h].dish, "rejected")
    /\ Goto(h, Idle)
    /\ UNCHANGED <<check, card, history>>

-----------------------------------------------------------------------------
(* The evening check.                                                       *)

\* eveningView.  An eaten meal is answered whatever the keyboard said.  A planned
\* one is asked about by name ("yes" carries the first dish of the plan, here any)
\* and a planned proposal may be turned down; the others offer yesterday's dishes.
View(open) ==
    LET asked == {m \in open : EatenAt(m) = {}}
        plan  == {k \in Key : k[2] \in asked /\ row[k] = "planned"}
    IN  [says |-> [m \in Meals |-> IF EatenAt(m) # {} THEN "eaten"
                                   ELSE IF m \in open THEN "ask" ELSE "away"],
         yes  |-> plan,
         rej  |-> {k \in plan : status[k[1]] = "proposed"},
         pick |-> {m \in asked : PlannedAt(m) = {}},
         home |-> asked]

\* The message is posted or edited.
Put(view) ==
    /\ shown' = view.says
    /\ buttons' = [b \in Button |-> buttons[b] \cup view[b]]

\* Once a day; nothing is posted when every meal is answered.
BuildCheck(h) ==
    /\ job[h].step = "idle"
    /\ \A m \in Meals : shown[m] = "none"
    /\ \A g \in Handlers : job[g].step # "send"
    /\ \E m \in Meals : EatenAt(m) = {}
    /\ Goto(h, [step |-> "send", view |-> View(Meals)])
    /\ UNCHANGED <<tables, check, card, history>>

SendCheck(h) ==
    /\ job[h].step = "send"
    /\ Put(job[h].view)
    /\ disturbed' = (disturbed \/ Drawing # {h})
    /\ Goto(h, [step |-> "keep"])
    /\ UNCHANGED <<tables, card, unset>>

KeepCheck(h) ==
    /\ job[h].step = "keep"
    /\ SaveEveningMessage
    /\ Goto(h, Idle)
    /\ UNCHANGED <<check, card, history>>

Asked == {m \in Meals : shown[m] = "ask"}

\* A button is pressed: the callback carries the keyboard as it is now, and the
\* handler makes its first call of the store.
Press(h, j) ==
    /\ job[h].step = "idle"
    /\ Goto(h, j)
    /\ disturbed' = (disturbed \/ Drawing # {})
    /\ UNCHANGED <<check, card, unset>>

Draw(open) == [step |-> "draw", open |-> open]

\* "Yes", of the plan, or of the dish on the button when the plan has gone
\* since: the rows of the day are read; an answered meal is only redrawn.
AnswerYes(h, m, d) ==
    /\ <<d, m>> \in buttons.yes
    /\ LET plan == IF PlannedAt(m) = {} THEN {d} ELSE PlannedAt(m)
       IN  Press(h, IF EatenAt(m) # {} THEN Draw(Asked)
                    ELSE [step |-> "confirm", meal |-> m, set |-> plan, open |-> Asked])
    /\ UNCHANGED tables

\* A dish of yesterday again.  eatenOtherThan: another dish was recorded since,
\* so the tap only redraws.
AnswerPick(h, m, d) ==
    /\ m \in buttons.pick
    /\ d \in Yesterday
    /\ Press(h, IF EatenAt(m) # {} /\ d \notin EatenAt(m) THEN Draw(Asked)
                ELSE [step |-> "record", meal |-> m, dish |-> d, open |-> Asked])
    /\ UNCHANGED tables

\* "Not at home".
AnswerHome(h, m) ==
    /\ m \in buttons.home
    /\ DropPlans(m)
    /\ Press(h, [step |-> "away", meal |-> m, open |-> Asked])

\* "Not ours".
AnswerReject(h, m, d) ==
    /\ <<d, m>> \in buttons.rej
    /\ TurnDown(d, m)
    /\ Press(h, Draw(Asked \cup {m}))

\* The eaten rows an exact answer deletes.
Unset(m, D) == unset' = unset \cup {<<d, m>> : d \in EatenAt(m) \ D}

ConfirmYes(h) ==
    /\ job[h].step = "confirm"
    /\ SetEaten(job[h].meal, job[h].set)
    /\ Unset(job[h].meal, job[h].set)
    /\ Goto(h, Draw(job[h].open))
    /\ UNCHANGED <<check, card, disturbed>>

RecordPick(h) ==
    /\ job[h].step = "record"
    /\ RecordEaten(job[h].dish, job[h].meal)
    /\ Goto(h, Draw(job[h].open))
    /\ UNCHANGED <<check, card, history>>

Away(h) ==
    /\ job[h].step = "away"
    /\ MarkAway(job[h].meal)
    /\ Goto(h, Draw(job[h].open \ {job[h].meal}))
    /\ UNCHANGED <<check, card, history>>

\* eveningStateFrom reads the day, then the message is edited.
ReadDay(h) ==
    /\ job[h].step = "draw"
    /\ Goto(h, [step |-> "edit", view |-> View(job[h].open)])
    /\ UNCHANGED <<tables, check, card, history>>

Edit(h) ==
    /\ job[h].step = "edit"
    /\ Put(job[h].view)
    /\ Goto(h, Idle)
    /\ UNCHANGED <<tables, card, history>>

\* The picker's save, and then RedrawEvening.
PickerSave(h, m, D) ==
    /\ job[h].step = "idle"
    /\ D \subseteq Known
    /\ SetEaten(m, D)
    /\ Unset(m, D)
    /\ Goto(h, [step |-> "recheck"])
    /\ disturbed' = (disturbed \/ Drawing # {})
    /\ UNCHANGED <<check, card>>

\* EveningMessage: a check that was not recorded is not redrawn.
Recheck(h) ==
    /\ job[h].step = "recheck"
    /\ Goto(h, IF evening.saved THEN Draw(Meals \ evening.away) ELSE Idle)
    /\ UNCHANGED <<tables, check, card, history>>

-----------------------------------------------------------------------------
(* The plate card: in memory, one at a time.                                *)

CardOpen == card.stage = "open"

CardSet(c) ==
    /\ card' = c
    /\ UNCHANGED <<tables, check, job, history>>

\* recognise: dishes of the catalogue, and names the model found no dish for.
CardSend(K, N, m) ==
    /\ card = NoCard
    /\ K \subseteq Known
    /\ K \cup N # {}
    /\ K \cap N = {}
    /\ CardSet([stage |-> "open", on |-> K, new |-> N, meal |-> m,
                recorded |-> FALSE, busy |-> FALSE, plate |-> {}])

\* The corrections do not ask whether the card is being written.  (What they do
\* to a card that was written or cancelled nothing reads.)
\* A dish is dropped, put back, or another reading of the item is taken.
CardCorrect(on) ==
    /\ CardOpen
    /\ on \subseteq Known
    /\ CardSet([card EXCEPT !.on = on, !.new = @ \ on])

CardMeal(m) ==
    /\ CardOpen
    /\ CardSet([card EXCEPT !.meal = m])

\* begin: one creation at a time, and none once the card is recorded.
CardNew(h, d) ==
    /\ job[h].step = "idle"
    /\ CardOpen
    /\ d \in card.new
    /\ ~card.busy /\ ~card.recorded
    /\ card' = [card EXCEPT !.busy = TRUE]
    /\ Goto(h, [step |-> "new", dish |-> d])
    /\ UNCHANGED <<tables, check, history>>

NewWrite(h) ==
    /\ job[h].step = "new"
    /\ EnsureDish(job[h].dish)
    /\ Goto(h, [job[h] EXCEPT !.step = "put"])
    /\ UNCHANGED <<check, card, history>>

\* The item becomes the dish, whatever it was corrected to meanwhile (that goes),
\* and stays off the plate if it was dropped; end.
NewPut(h) ==
    /\ job[h].step = "put"
    /\ LET d == job[h].dish
           becomes == {(card.on \ {x}) \cup {d} : x \in card.on \cup {d}}
       IN  IF CardOpen
           THEN \E on \in {card.on} \cup becomes :
                  card' = [card EXCEPT !.busy = FALSE, !.new = @ \ {d}, !.on = on]
           ELSE card' = card
    /\ Goto(h, Idle)
    /\ UNCHANGED <<tables, check, history>>

\* Mutant of CardConfirm: the claim is not looked at.
ConfirmTwice(h) ==
    /\ job[h].step = "idle"
    /\ CardOpen
    /\ card.on # {}
    /\ card' = [card EXCEPT !.recorded = TRUE, !.plate = card.on]
    /\ Goto(h, [step |-> "plate", set |-> card.on])
    /\ UNCHANGED <<tables, check, history>>

\* claim; a plate with nothing to write is released at once.
CardConfirm(h) ==
    /\ job[h].step = "idle"
    /\ CardOpen
    /\ ~card.recorded
    /\ card.on # {}
    /\ card' = [card EXCEPT !.recorded = TRUE, !.plate = card.on]
    /\ Goto(h, [step |-> "plate", set |-> card.on])
    /\ UNCHANGED <<tables, check, history>>

\* recordPlate: one transaction per dish, at the meal the card has by then.
PlateWrite(h, d) ==
    /\ job[h].step = "plate"
    /\ d \in job[h].set
    /\ RecordEaten(d, card.meal)
    /\ Goto(h, [job[h] EXCEPT !.set = @ \ {d}])
    /\ UNCHANGED <<check, card, history>>

PlateDone(h) ==
    /\ job[h].step = "plate"
    /\ job[h].set = {}
    /\ card' = [stage |-> "done", plate |-> card.plate]
    /\ Goto(h, Idle)
    /\ UNCHANGED <<tables, check, history>>

\* A write failed: the dishes before it stay written and the card may be tapped again.
PlateFail(h) ==
    /\ job[h].step = "plate"
    /\ job[h].set # {}
    /\ card' = [card EXCEPT !.recorded = FALSE, !.plate = {}]
    /\ Goto(h, Idle)
    /\ UNCHANGED <<tables, check, history>>

\* Cancelling claims the card, if it is not being written already.
CardCancel ==
    /\ CardOpen
    /\ ~card.recorded
    /\ CardSet([stage |-> "cancelled"])

-----------------------------------------------------------------------------

\* An error ends a handler where it is.
Fail(h) ==
    /\ job[h].step \notin {"idle", "plate", "put"}
    /\ Goto(h, Idle)
    /\ card' = IF job[h].step = "new" /\ CardOpen THEN [card EXCEPT !.busy = FALSE] ELSE card
    /\ disturbed' = (disturbed \/ h \in Drawing)
    /\ UNCHANGED <<tables, check, unset>>

\* The process ends: the tables and the messages stay.
Restart ==
    /\ job' = [h \in Handlers |-> Idle]
    /\ card' = NoCard
    /\ disturbed' = (disturbed \/ Drawing # {})
    /\ UNCHANGED <<tables, check, unset>>

\* What a person starts, or the weekly suggestions.
Act ==
    \/ \E d \in Dishes, m \in Meals : MenuTap(d, m)
    \/ \E m \in Meals, D \in SUBSET Dishes : PlannerSave(m, D)
    \/ \E d \in Dishes : Suggest(d) \/ NameDish(d) \/ SuggestAdd(d)
    \/ \E h \in Handlers, d \in Dishes : SuggestNo(h, d) \/ CardNew(h, d)
    \/ \E h \in Handlers, m \in Meals :
         \/ AnswerHome(h, m)
         \/ \E d \in Dishes : AnswerYes(h, m, d) \/ AnswerPick(h, m, d) \/ AnswerReject(h, m, d)
         \/ \E D \in SUBSET Dishes : PickerSave(h, m, D)
    \/ \E K, N \in SUBSET Dishes, m \in Meals : CardSend(K, N, m)
    \/ \E on \in SUBSET Dishes : CardCorrect(on)
    \/ \E m \in Meals : CardMeal(m)
    \/ \E h \in Handlers : CardConfirm(h)
    \/ CardCancel

\* What the bot does on its own, or goes on doing.
Work(h) ==
    \/ BuildCheck(h) \/ SendCheck(h) \/ KeepCheck(h)
    \/ ConfirmYes(h) \/ RecordPick(h) \/ Away(h)
    \/ Recheck(h) \/ ReadDay(h) \/ Edit(h)
    \/ NoEaten(h) \/ NoWrite(h)
    \/ NewWrite(h) \/ NewPut(h)
    \/ \E d \in Dishes : PlateWrite(h, d)
    \/ PlateDone(h) \/ PlateFail(h)
    \/ Fail(h)

Next ==
    \/ acts < MaxActs /\ acts' = acts + 1 /\ Act
    \/ acts' = acts /\ ((\E h \in Handlers : Work(h)) \/ Restart)

Spec == Init /\ [][Next]_vars

-----------------------------------------------------------------------------

Job ==
    [step: {"idle", "keep", "recheck"}]
    \cup [step: {"no", "no?", "new", "put"}, dish: Dishes]
    \cup [step: {"send", "edit"},
          view: [says: [Meals -> {"eaten", "ask", "away"}], yes: SUBSET Key, rej: SUBSET Key,
                 pick: SUBSET Meals, home: SUBSET Meals]]
    \cup [step: {"record"}, meal: Meals, dish: Dishes, open: SUBSET Meals]
    \cup [step: {"away"}, meal: Meals, open: SUBSET Meals]
    \cup [step: {"confirm"}, meal: Meals, set: SUBSET Dishes, open: SUBSET Meals]
    \cup [step: {"draw"}, open: SUBSET Meals]
    \cup [step: {"plate"}, set: SUBSET Dishes]

OpenCard ==
    [stage: {"open"}, on: SUBSET Dishes, new: SUBSET Dishes, meal: Meals,
     recorded: BOOLEAN, busy: BOOLEAN, plate: SUBSET Dishes]

Card ==
    OpenCard \cup [stage: {"none", "cancelled"}]
    \cup [stage: {"done"}, plate: SUBSET Dishes]

\* The type invariant.
TypeOK ==
    /\ status \in [Dishes -> Status]
    /\ row \in [Key -> {"none", "planned", "eaten"}]
    /\ evening \in [saved: BOOLEAN, away: SUBSET Meals]
    /\ shown \in [Meals -> {"none", "eaten", "ask", "away"}]
    /\ buttons \in [yes: SUBSET Key, rej: SUBSET Key, pick: SUBSET Meals, home: SUBSET Meals]
    /\ card \in Card
    /\ job \in [Handlers -> Job]
    /\ acts \in 0..MaxActs
    /\ unset \subseteq Key
    /\ disturbed \in BOOLEAN

\* A dish that was eaten is nobody's suggestion any more, whichever of the tap,
\* the picker and the photo recorded it and whatever was suggested since
\* (recordEatenTx, createDishTx).
EatenIsNoProposal ==
    \A m \in Meals : \A d \in EatenAt(m) : status[d] \in {"active", "rejected"}

\* A plate the card reported as recorded is in the journal, dish by dish, over
\* failed writes and second attempts, unless somebody has since said exactly
\* what the meal was (recordPlate, SetEaten).
PlateLands ==
    card.stage = "done" =>
        \A d \in card.plate : \E m \in Meals : d \in EatenAt(m) \/ <<d, m>> \in unset

\* A card is written by one confirmation at a time, and by none once it was
\* cancelled (claim, release, begin of cookedPending).
OneWriterPerCard ==
    LET writers == {h \in Handlers : job[h].step = "plate"}
    IN  /\ \A g, h \in writers : g = h
        /\ writers # {} => CardOpen /\ card.recorded

\* With nothing in flight, and no redraw having been overtaken or lost, what the
\* check says was answered was: a dish was eaten, or nobody was at home
\* (applyEveningTap keeps the second in the keyboard, MarkAway in the table).
AnsweredIsAnswered ==
    Drawing = {} /\ ~disturbed =>
        \A m \in Meals :
            /\ shown[m] = "eaten" => EatenAt(m) # {}
            /\ shown[m] = "away" => m \in evening.away

Planned == [m \in Meals |-> PlannedAt(m)]
Eaten == [m \in Meals |-> EatenAt(m)]

Record == INSTANCE MealRecord WITH
    standing <- status, planned <- Planned, eaten <- Eaten

\* The journal promises what MealRecord says: no plan joins an eaten meal, what
\* was eaten leaves it by an exact answer only and takes no other plan with it,
\* and a dish is suggested once, before anybody knew it (PlanMeal, SetPlan,
\* RecordEaten, SetEaten, DropPlans, TurnDown, createDishTx).
ImplementsMeals == Record!Spec

\* applyEveningTap: an answer to a meal that another dish was recorded for since
\* the check was drawn "only redraws".
LateAnswerOnlyRedraws ==
    [][\A h \in Handlers, m \in Meals :
         /\ job[h].step \in {"confirm", "record"}
         /\ job'[h].step = "draw"
         /\ job[h].meal = m
         /\ EatenAt(m) # {}
         => EatenAt(m)' = EatenAt(m)]_vars

=============================================================================
