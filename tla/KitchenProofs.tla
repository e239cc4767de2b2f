--------------------------- MODULE KitchenProofs ---------------------------
(***************************************************************************)
(* What holds of the meal journal for every number of dishes, meals and     *)
(* handlers, every catalogue and every bound on what people do.             *)
(*                                                                         *)
(* The order: what one call of the store keeps; that every step makes at    *)
(* most one call, with dishes that exist; what a step does to the handlers  *)
(* in flight, the keyboards and the card; the theorems; the evening check   *)
(* and its redraws; and last that every call is one of MealRecord.          *)
(***************************************************************************)
EXTENDS Kitchen, TLAPS

TablesOK ==
    /\ status \in [Dishes -> Status]
    /\ row \in [Key -> {"none", "planned", "eaten"}]
    /\ evening \in [saved: BOOLEAN, away: SUBSET Meals]

\* A row of the meals table refers to a row of the dishes table.
RowsKnown == \A k \in Key : row[k] # "none" => k[1] \in Known

Journal == TablesOK /\ RowsKnown /\ EatenIsNoProposal

\* What one call does to the tables, and to the history with them.
Call ==
    \/ UNCHANGED <<tables, unset>>
    \/ UNCHANGED unset /\ \E d \in Dishes :
         \/ CreateDish(d) \/ EnsureDish(d)
         \/ d \in Known /\ \E s \in {"active", "rejected"} : SetDishStatus(d, s)
    \/ UNCHANGED unset /\ \E m \in Meals :
         \/ DropPlans(m) \/ MarkAway(m)
         \/ \E d \in Dishes : TurnDown(d, m)
         \/ \E d \in Known : PlanMeal(d, m) \/ RecordEaten(d, m)
         \/ \E D \in SUBSET Known : SetPlan(m, D)
    \/ \E m \in Meals : \E D \in SUBSET Known : SetEaten(m, D) /\ Unset(m, D)
    \/ UNCHANGED unset /\ SaveEveningMessage

\* Known dishes stay known, and what was eaten stays or is noted as taken off.
Kept ==
    /\ Known \subseteq Known'
    /\ unset \subseteq unset'
    /\ unset \subseteq Key => unset' \subseteq Key
    /\ \A k \in Key : row[k] = "eaten" => row'[k] = "eaten" \/ k \in unset'

-----------------------------------------------------------------------------
(* One call. *)

\* What is to be shown of a call: it writes well-typed rows of known dishes, a
\* dish it records is no proposal, and it makes a proposal of a new dish only.
LEMMA CallKeeps ==
    ASSUME Journal, TablesOK',
           unset \subseteq unset' /\ (unset \subseteq Key => unset' \subseteq Key),
           \A d \in Dishes : /\ status[d] # "none" => status'[d] # "none"
                             /\ status'[d] = "proposed" => status[d] \in {"none", "proposed"},
           \A k \in Key : /\ row'[k] # "none" => row[k] # "none" \/ status'[k[1]] # "none"
                          /\ row'[k] = "eaten" => row[k] = "eaten" \/ status'[k[1]] # "proposed"
                          /\ row[k] = "eaten" => row'[k] = "eaten" \/ k \in unset'
    PROVE  Journal' /\ Kept
  <1>1. Known \subseteq Known' /\ Kept
    BY DEF Kept, Known
  <1>2. \A k \in Key : k[1] \in Dishes
    BY DEF Key
  <1>3. RowsKnown'
    BY <1>2 DEF Journal, RowsKnown, Known
  <1>4. ASSUME NEW m \in Meals, NEW d \in Dishes, row'[<<d, m>>] = "eaten"
        PROVE  status'[d] \in {"active", "rejected"}
    <2>1. <<d, m>> \in Key /\ <<d, m>>[1] = d
      BY DEF Key
    <2>2. status'[d] \in Status /\ status'[d] # "none"
      BY <1>3, <1>4, <2>1 DEF RowsKnown, Known, TablesOK
    <2>3. row[<<d, m>>] = "eaten" => status[d] \in {"active", "rejected"}
      BY DEF Journal, EatenIsNoProposal, EatenAt, RowsAt
    <2>4. status'[d] # "proposed"
      BY <1>4, <2>1, <2>3
    <2> QED
      BY <2>2, <2>4 DEF Status
  <1>5. EatenIsNoProposal'
    BY <1>4 DEF EatenIsNoProposal, EatenAt, RowsAt
  <1> QED
    BY <1>1, <1>3, <1>5 DEF Journal

\* Calls that only change the catalogue.
LEMMA DishCalls ==
    ASSUME Journal, NEW d \in Dishes, UNCHANGED unset,
           \/ CreateDish(d) \/ EnsureDish(d)
           \/ d \in Known /\ \E s \in {"active", "rejected"} : SetDishStatus(d, s)
    PROVE  Journal' /\ Kept
  <1>1. UNCHANGED <<row, evening>>
    BY DEF CreateDish, EnsureDish, SetDishStatus
  <1>2. /\ status' \in [Dishes -> Status]
        /\ \A e \in Dishes : /\ status[e] # "none" => status'[e] # "none"
                             /\ status'[e] = "proposed" => status[e] \in {"none", "proposed"}
    BY DEF CreateDish, EnsureDish, SetDishStatus, Journal, TablesOK, Status
  <1>3. TablesOK'
    BY <1>1, <1>2 DEF Journal, TablesOK
  <1> QED
    BY <1>1, <1>2, <1>3, CallKeeps

\* Calls that plan a meal or drop its plans, and the mark of the evening message.
LEMMA PlanCalls ==
    ASSUME Journal, NEW m \in Meals, UNCHANGED unset,
           \/ DropPlans(m) \/ MarkAway(m)
           \/ \E d \in Known : PlanMeal(d, m)
           \/ \E D \in SUBSET Known : SetPlan(m, D)
    PROVE  Journal' /\ Kept
  <1>1. UNCHANGED status
    BY DEF DropPlans, MarkAway, PlanMeal, SetPlan
  <1>2. evening' \in [saved: BOOLEAN, away: SUBSET Meals]
    BY DEF DropPlans, MarkAway, PlanMeal, SetPlan, Journal, TablesOK
  <1>3. /\ row' \in [Key -> {"none", "planned", "eaten"}]
        /\ \A k \in Key : /\ row'[k] # "none" => row[k] # "none" \/ k[1] \in Known
                          /\ row'[k] = "eaten" <=> row[k] = "eaten"
    <2>1. CASE DropPlans(m)
      BY <2>1 DEF DropPlans, Journal, TablesOK
    <2>2. CASE MarkAway(m)
      BY <2>2 DEF MarkAway, Journal, TablesOK
    <2>3. ASSUME NEW D \in SUBSET Known, EatenAt(m) = {},
                 row' = [k \in Key |-> IF k[2] # m THEN row[k]
                                       ELSE IF k[1] \in D THEN "planned" ELSE "none"]
          PROVE  /\ row' \in [Key -> {"none", "planned", "eaten"}]
                 /\ \A k \in Key : /\ row'[k] # "none" => row[k] # "none" \/ k[1] \in Known
                                   /\ row'[k] = "eaten" <=> row[k] = "eaten"
      <3>1. \A k \in Key : k[1] \in Dishes /\ (k[2] = m => row[k] # "eaten")
        BY <2>3 DEF EatenAt, RowsAt, Key
      <3> QED
        BY <2>3, <3>1 DEF Journal, TablesOK
    <2>4. CASE \E D \in SUBSET Known : SetPlan(m, D)
      BY <2>3, <2>4 DEF SetPlan, Journal, TablesOK
    <2>5. CASE \E d \in Known : PlanMeal(d, m)
      <3>1. PICK d \in Known : PlanMeal(d, m)
        BY <2>5
      <3>2. CASE EatenAt(m) # {}
        BY <3>1, <3>2 DEF PlanMeal, Journal, TablesOK
      <3>3. CASE EatenAt(m) = {}
        <4>1. row' = [k \in Key |-> IF k[2] # m THEN row[k]
                                    ELSE IF k[1] \in {d} THEN "planned" ELSE "none"]
          BY <3>1, <3>3 DEF PlanMeal
        <4>2. {d} \in SUBSET Known
          BY <3>1
        <4> QED
          BY <2>3, <3>3, <4>1, <4>2
      <3> QED BY <3>2, <3>3
    <2> QED
      BY <2>1, <2>2, <2>4, <2>5
  <1>4. TablesOK'
    BY <1>1, <1>2, <1>3 DEF Journal, TablesOK
  <1> QED
    BY <1>1, <1>3, <1>4, CallKeeps DEF Known

\* The answer "not ours".
LEMMA TurnDownCall ==
    ASSUME Journal, NEW m \in Meals, NEW d \in Dishes, UNCHANGED unset, TurnDown(d, m)
    PROVE  Journal' /\ Kept
  <1>1. TablesOK'
    BY DEF TurnDown, Journal, TablesOK, Status, Key
  <1>2. \A e \in Dishes : /\ status[e] # "none" => status'[e] # "none"
                          /\ status'[e] = "proposed" => status[e] \in {"none", "proposed"}
    BY DEF TurnDown, Journal, TablesOK
  <1>3. \A k \in Key : /\ row'[k] # "none" => row[k] # "none"
                       /\ row'[k] = "eaten" <=> row[k] = "eaten"
    BY DEF TurnDown, Journal, TablesOK, Key
  <1> QED
    BY <1>1, <1>2, <1>3, CallKeeps

\* What Accept does to a dish.
LEMMA AcceptKeeps ==
    ASSUME status \in [Dishes -> Status], NEW D, Accept(D)
    PROVE  /\ status' \in [Dishes -> Status]
           /\ \A d \in Dishes : /\ status[d] # "none" => status'[d] # "none"
                                /\ status'[d] = "proposed" => status[d] = "proposed" /\ d \notin D
  BY DEF Accept, Status

\* One dish was eaten.
LEMMA RecordCall ==
    ASSUME Journal, NEW m \in Meals, NEW d \in Known, UNCHANGED unset, RecordEaten(d, m)
    PROVE  Journal' /\ Kept
  <1>1. d \in Dishes /\ <<d, m>> \in Key /\ status \in [Dishes -> Status]
    BY DEF Known, Key, Journal, TablesOK
  <1>2. /\ row' = [row EXCEPT ![<<d, m>>] = "eaten"]
        /\ row' \in [Key -> {"none", "planned", "eaten"}]
        /\ \A k \in Key : k = <<d, m>> \/ row'[k] = row[k]
        /\ row'[<<d, m>>] = "eaten"
    BY <1>1 DEF RecordEaten, Journal, TablesOK
  <1>3. /\ status' \in [Dishes -> Status]
        /\ \A e \in Dishes : /\ status[e] # "none" => status'[e] # "none"
                             /\ status'[e] = "proposed" => status[e] = "proposed"
        /\ row[<<d, m>>] # "eaten" => status'[d] # "proposed"
    <2>1. CASE row[<<d, m>>] = "eaten"
      BY <1>1, <2>1 DEF RecordEaten
    <2>2. CASE row[<<d, m>>] # "eaten"
      <3>1. Accept({d})
        BY <2>2 DEF RecordEaten
      <3> QED
        BY <1>1, <2>2, <3>1, AcceptKeeps
    <2> QED BY <2>1, <2>2
  <1>4. TablesOK'
    BY <1>2, <1>3 DEF RecordEaten, Journal, TablesOK
  <1>5. status'[d] # "none" /\ <<d, m>>[1] = d
    BY <1>3 DEF Known
  <1> QED
    BY <1>1, <1>2, <1>3, <1>4, <1>5, CallKeeps

\* Somebody says exactly what was eaten.
LEMMA SettleCall ==
    ASSUME Journal, NEW m \in Meals, NEW D \in SUBSET Known, SetEaten(m, D), Unset(m, D)
    PROVE  Journal' /\ Kept
  <1>1. /\ row' \in [Key -> {"none", "planned", "eaten"}]
        /\ \A k \in Key :
             /\ row'[k] # "none" => row[k] # "none" \/ k[1] \in Known
             /\ row'[k] = "eaten" => row[k] = "eaten" \/ (k[2] = m /\ k[1] \in D)
             /\ row[k] = "eaten" => row'[k] = "eaten" \/ (k[2] = m /\ k[1] \notin D)
    <2>1. row \in [Key -> {"none", "planned", "eaten"}] /\ D \subseteq Known
      BY DEF Journal, TablesOK
    <2>2. row' = [k \in Key |-> IF k[2] # m THEN row[k]
                                ELSE IF k[1] \in D THEN "eaten"
                                ELSE IF row[k] = "eaten" THEN "none" ELSE row[k]]
      BY DEF SetEaten
    <2> QED
      BY <2>1, <2>2
  <1>2. /\ status' \in [Dishes -> Status]
        /\ \A e \in Dishes : /\ status[e] # "none" => status'[e] # "none"
                             /\ status'[e] = "proposed" =>
                                   status[e] = "proposed" /\ (e \notin D \/ row[<<e, m>>] = "eaten")
    <2>1. status \in [Dishes -> Status] /\ Accept({d \in D : row[<<d, m>>] # "eaten"})
      BY DEF SetEaten, Journal, TablesOK
    <2>2. D \subseteq Dishes
      BY DEF Known
    <2> DEFINE new == {d \in D : row[<<d, m>>] # "eaten"}
    <2>3. \A e \in Dishes : e \notin new => e \notin D \/ row[<<e, m>>] = "eaten"
      OBVIOUS
    <2>4. status \in [Dishes -> Status] /\ Accept(new)
      BY <2>1
    <2> HIDE DEF new
    <2> QED
      BY <2>2, <2>3, <2>4, AcceptKeeps
  <1>3. TablesOK'
    BY <1>1, <1>2 DEF SetEaten, Journal, TablesOK
  <1>4. \A k \in Key : k = <<k[1], k[2]>> /\ k[1] \in Dishes
    BY DEF Key
  <1>5. \A k \in Key : row[k] = "eaten" => row'[k] = "eaten" \/ k \in unset'
    <2> SUFFICES ASSUME NEW k \in Key, row[k] = "eaten", row'[k] # "eaten"
                 PROVE  k \in unset'
      OBVIOUS
    <2>1. k[2] = m /\ k[1] \notin D /\ k = <<k[1], m>>
      BY <1>1, <1>4
    <2>2. k[1] \in EatenAt(m) \ D
      BY <1>4, <2>1 DEF EatenAt, RowsAt
    <2> QED
      BY <2>1, <2>2 DEF Unset
  <1>6. unset \subseteq unset' /\ (unset \subseteq Key => unset' \subseteq Key)
    <2>1. EatenAt(m) \subseteq Dishes
      BY DEF EatenAt, RowsAt
    <2> QED
      BY <2>1 DEF Unset, Key
  <1>7. \A k \in Key : /\ row'[k] # "none" => row[k] # "none" \/ status'[k[1]] # "none"
                       /\ row'[k] = "eaten" => row[k] = "eaten" \/ status'[k[1]] # "proposed"
    <2> SUFFICES ASSUME NEW k \in Key
                 PROVE  /\ row'[k] # "none" => row[k] # "none" \/ status'[k[1]] # "none"
                        /\ row'[k] = "eaten" => row[k] = "eaten" \/ status'[k[1]] # "proposed"
      OBVIOUS
    <2>1. row'[k] # "none" => row[k] # "none" \/ status'[k[1]] # "none"
      BY <1>1, <1>2, <1>4 DEF Known
    <2>2. row'[k] = "eaten" => row[k] = "eaten" \/ status'[k[1]] # "proposed"
      BY <1>1, <1>2, <1>4
    <2> QED BY <2>1, <2>2
  <1>8. \A e \in Dishes : /\ status[e] # "none" => status'[e] # "none"
                          /\ status'[e] = "proposed" => status[e] \in {"none", "proposed"}
    BY <1>2
  <1> QED
    BY <1>3, <1>5, <1>6, <1>7, <1>8, CallKeeps

\* Every call.
LEMMA CallsKeep ==
    ASSUME Journal, Call
    PROVE  Journal' /\ Kept
  <1>1. CASE UNCHANGED <<tables, unset>>
    BY <1>1 DEF Journal, TablesOK, RowsKnown, Known, EatenIsNoProposal, EatenAt, RowsAt,
                Kept, tables
  <1>2. CASE SaveEveningMessage /\ UNCHANGED unset
    <2>1. TablesOK'
      BY <1>2 DEF SaveEveningMessage, Journal, TablesOK
    <2> QED
      BY <1>2, <2>1, CallKeeps DEF SaveEveningMessage
  <1> QED
    BY <1>1, <1>2, DishCalls, PlanCalls, TurnDownCall, RecordCall, SettleCall DEF Call, Known

-----------------------------------------------------------------------------
(* Every step makes at most one call, with dishes that exist. *)

\* What a handler holds are dishes of the catalogue, but for a name to be created.
KnownJob(j) ==
    /\ j.step \in {"no", "no?", "put", "record"} => j.dish \in Known
    /\ j.step \in {"confirm", "plate"} => j.set \subseteq Known
    /\ j.step \in {"send", "edit"} => \A k \in j.view.yes \cup j.view.rej : k[1] \in Known

JobsKnown == \A h \in Handlers : KnownJob(job[h])

ButtonsKnown == \A k \in buttons.yes \cup buttons.rej : k[1] \in Known

CardKnown == CardOpen => card.on \subseteq Known

Sourced ==
    /\ Yesterday \subseteq Known
    /\ JobsKnown
    /\ ButtonsKnown
    /\ CardKnown

\* The parts of a job, by its step.
LEMMA JobParts ==
    ASSUME NEW j \in Job
    PROVE  /\ j.step \in {"no", "no?", "new", "put", "record"} => j.dish \in Dishes
           /\ j.step \in {"record", "away", "confirm"} => j.meal \in Meals /\ j.open \in SUBSET Meals
           /\ j.step = "draw" => j.open \in SUBSET Meals
           /\ j.step \in {"confirm", "plate"} => j.set \in SUBSET Dishes
           /\ j.step \in {"send", "edit"} =>
                j.view \in [says: [Meals -> {"eaten", "ask", "away"}], yes: SUBSET Key,
                            rej: SUBSET Key, pick: SUBSET Meals, home: SUBSET Meals]
  BY DEF Job

\* What a person starts.
LEMMA ActCalls ==
    ASSUME TypeOK, Sourced, Act
    PROVE  Call
  <1> USE DEF Call
  <1>1. CASE \E d \in Dishes, m \in Meals : MenuTap(d, m)
    BY <1>1 DEF MenuTap, history
  <1>2. CASE \E m \in Meals, D \in SUBSET Dishes : PlannerSave(m, D)
    BY <1>2 DEF PlannerSave, history
  <1>3. CASE \E d \in Dishes : Suggest(d) \/ NameDish(d) \/ SuggestAdd(d)
    BY <1>3 DEF Suggest, NameDish, SuggestAdd, history
  <1>4. CASE \E h \in Handlers, d \in Dishes : SuggestNo(h, d) \/ CardNew(h, d)
    BY <1>4 DEF SuggestNo, CardNew, history
  <1>5. CASE \E h \in Handlers, m \in Meals : AnswerHome(h, m)
    BY <1>5 DEF AnswerHome, Press
  <1>6. CASE \E h \in Handlers, m \in Meals, d \in Dishes :
               AnswerYes(h, m, d) \/ AnswerPick(h, m, d)
    BY <1>6 DEF AnswerYes, AnswerPick, Press
  <1>7. CASE \E h \in Handlers, m \in Meals, d \in Dishes : AnswerReject(h, m, d)
    BY <1>7 DEF AnswerReject, Press
  <1>8. CASE \E h \in Handlers, m \in Meals, D \in SUBSET Dishes : PickerSave(h, m, D)
    BY <1>8 DEF PickerSave
  <1>9. CASE \/ \E K, N \in SUBSET Dishes, m \in Meals : CardSend(K, N, m)
             \/ \E on \in SUBSET Dishes : CardCorrect(on)
             \/ \E m \in Meals : CardMeal(m)
             \/ CardCancel
    BY <1>9 DEF CardSend, CardCorrect, CardMeal, CardCancel, CardSet, history
  <1>10. CASE \E h \in Handlers : CardConfirm(h)
    BY <1>10 DEF CardConfirm, history
  <1> QED
    BY <1>1, <1>2, <1>3, <1>4, <1>5, <1>6, <1>7, <1>8, <1>9, <1>10 DEF Act

\* What the bot goes on doing.
LEMMA WorkCalls ==
    ASSUME TypeOK, Sourced, OneWriterPerCard, NEW h \in Handlers, Work(h)
    PROVE  Call
  <1> USE DEF Call
  <1>1. job[h] \in Job /\ KnownJob(job[h])
    BY DEF TypeOK, Sourced, JobsKnown
  <1>2. CASE BuildCheck(h) \/ SendCheck(h) \/ ReadDay(h) \/ Edit(h) \/ Recheck(h) \/ NoEaten(h)
             \/ NewPut(h) \/ PlateDone(h) \/ PlateFail(h) \/ Fail(h)
    BY <1>2 DEF BuildCheck, SendCheck, ReadDay, Edit, Recheck, NoEaten, NewPut, PlateDone,
                PlateFail, Fail, history
  <1>3. CASE KeepCheck(h)
    BY <1>3 DEF KeepCheck, history
  <1>4. CASE ConfirmYes(h)
    BY <1>1, <1>4, JobParts DEF ConfirmYes, KnownJob
  <1>5. CASE RecordPick(h)
    BY <1>1, <1>5, JobParts DEF RecordPick, KnownJob, history
  <1>6. CASE Away(h)
    BY <1>1, <1>6, JobParts DEF Away, history
  <1>7. CASE NoWrite(h)
    BY <1>1, <1>7, JobParts DEF NoWrite, KnownJob, history
  <1>8. CASE NewWrite(h)
    BY <1>1, <1>8, JobParts DEF NewWrite, history
  <1>9. CASE \E d \in Dishes : PlateWrite(h, d)
    <2>1. PICK d \in Dishes : PlateWrite(h, d)
      BY <1>9
    <2>2. d \in Known
      BY <1>1, <2>1 DEF PlateWrite, KnownJob
    <2>3. CardOpen
      BY <2>1 DEF PlateWrite, OneWriterPerCard
    <2>4. card.meal \in Meals
      BY <2>3 DEF TypeOK, Card, OpenCard, CardOpen
    <2> QED
      BY <2>1, <2>2, <2>4 DEF PlateWrite, history
  <1> QED
    BY <1>2, <1>3, <1>4, <1>5, <1>6, <1>7, <1>8, <1>9 DEF Work


LEMMA StepCalls ==
    ASSUME TypeOK, Sourced, OneWriterPerCard, [Next]_vars
    PROVE  Call
  <1>1. CASE acts < MaxActs /\ acts' = acts + 1 /\ Act
    BY <1>1, ActCalls
  <1>2. CASE \E h \in Handlers : Work(h)
    BY <1>2, WorkCalls
  <1>3. CASE Restart
    BY <1>3 DEF Restart, Call
  <1>4. CASE UNCHANGED vars
    BY <1>4 DEF vars, history, Call
  <1> QED
    BY <1>1, <1>2, <1>3, <1>4 DEF Next

-----------------------------------------------------------------------------
(* What a step does to the handlers in flight, the check and the card. *)

\* A view is well-typed, and asks about dishes of the journal.
LEMMA ViewType ==
    ASSUME TablesOK, RowsKnown, NEW open \in SUBSET Meals
    PROVE  /\ View(open) \in [says: [Meals -> {"eaten", "ask", "away"}], yes: SUBSET Key,
                              rej: SUBSET Key, pick: SUBSET Meals, home: SUBSET Meals]
           /\ \A k \in View(open).yes \cup View(open).rej : k[1] \in Known
  BY DEF View, RowsKnown

\* What a step may put into job: nothing, one handler's next state, or all idle.
JobStep ==
    \/ UNCHANGED job
    \/ \E h \in Handlers : \E j \in Job : Goto(h, j) /\ KnownJob(j)'
    \/ job' = [h \in Handlers |-> Idle]

LEMMA JobStepKeeps ==
    ASSUME job \in [Handlers -> Job], JobsKnown, Known \subseteq Known', JobStep
    PROVE  job' \in [Handlers -> Job] /\ JobsKnown'
  <1>1. \A j : KnownJob(j) => KnownJob(j)'
    BY DEF KnownJob
  <1>2. CASE UNCHANGED job
    BY <1>1, <1>2 DEF JobsKnown
  <1>3. CASE \E h \in Handlers : \E j \in Job : Goto(h, j) /\ KnownJob(j)'
    BY <1>1, <1>3 DEF JobsKnown, Goto
  <1>4. CASE job' = [h \in Handlers |-> Idle]
    BY <1>4 DEF JobsKnown, KnownJob, Idle, Job
  <1> QED
    BY <1>2, <1>3, <1>4 DEF JobStep


\* The handlers a person's act starts.
LEMMA ActJobs ==
    ASSUME TypeOK, Journal, Sourced, Known \subseteq Known', Act
    PROVE  JobStep
  <1> USE DEF JobStep
  <1>1. CASE \/ \E d \in Dishes, m \in Meals : MenuTap(d, m)
             \/ \E m \in Meals, D \in SUBSET Dishes : PlannerSave(m, D)
             \/ \E d \in Dishes : Suggest(d) \/ NameDish(d) \/ SuggestAdd(d)
             \/ \E K, N \in SUBSET Dishes, m \in Meals : CardSend(K, N, m)
             \/ \E on \in SUBSET Dishes : CardCorrect(on)
             \/ \E m \in Meals : CardMeal(m)
             \/ CardCancel
    BY <1>1 DEF MenuTap, PlannerSave, Suggest, NameDish, SuggestAdd, CardSend, CardCorrect,
                CardMeal, CardCancel, CardSet
  <1>2. ASSUME NEW h \in Handlers, NEW d \in Dishes, SuggestNo(h, d) \/ CardNew(h, d)
        PROVE  JobStep
    <2>1. CASE SuggestNo(h, d)
      <3>1. PICK s \in {"no", "no?"} : Goto(h, [step |-> s, dish |-> d]) /\ d \in Known
        BY <2>1 DEF SuggestNo
      <3> QED
        BY <3>1 DEF Job, KnownJob
    <2>2. CASE CardNew(h, d)
      <3>1. Goto(h, [step |-> "new", dish |-> d])
        BY <2>2 DEF CardNew
      <3> QED
        BY <3>1 DEF Job, KnownJob
    <2> QED BY <1>2, <2>1, <2>2
  <1>3. ASSUME NEW h \in Handlers, NEW open \in SUBSET Meals, Goto(h, Draw(open))
        PROVE  JobStep
    BY <1>3 DEF Draw, Job, KnownJob
  <1>4. Asked \in SUBSET Meals
    BY DEF Asked
  <1>5. ASSUME NEW h \in Handlers, NEW m \in Meals, AnswerHome(h, m)
        PROVE  JobStep
    <2>1. Goto(h, [step |-> "away", meal |-> m, open |-> Asked])
      BY <1>5 DEF AnswerHome, Press
    <2> QED
      BY <1>4, <2>1 DEF Job, KnownJob
  <1>6. ASSUME NEW h \in Handlers, NEW m \in Meals, NEW d \in Dishes, AnswerYes(h, m, d)
        PROVE  JobStep
    <2> DEFINE plan == IF PlannedAt(m) = {} THEN {d} ELSE PlannedAt(m)
    <2>1. \/ Goto(h, Draw(Asked))
          \/ Goto(h, [step |-> "confirm", meal |-> m, set |-> plan, open |-> Asked])
      BY <1>6 DEF AnswerYes, Press
    <2>2. d \in Known /\ PlannedAt(m) \subseteq Known
      <3>1. d \in Known
        BY <1>6 DEF AnswerYes, Sourced, ButtonsKnown
      <3>2. \A e \in PlannedAt(m) : <<e, m>> \in Key /\ row[<<e, m>>] # "none"
        BY DEF PlannedAt, RowsAt, Key
      <3> QED
        BY <3>1, <3>2 DEF Journal, RowsKnown
    <2> QED
      BY <1>3, <1>4, <2>1, <2>2 DEF Job, KnownJob, Known
  <1>7. ASSUME NEW h \in Handlers, NEW m \in Meals, NEW d \in Dishes, AnswerPick(h, m, d)
        PROVE  JobStep
    <2>1. \/ Goto(h, Draw(Asked))
          \/ Goto(h, [step |-> "record", meal |-> m, dish |-> d, open |-> Asked])
      BY <1>7 DEF AnswerPick, Press
    <2>2. d \in Known'
      BY <1>7 DEF AnswerPick, Sourced
    <2> QED
      BY <1>3, <1>4, <2>1, <2>2 DEF Job, KnownJob
  <1>8. ASSUME NEW h \in Handlers, NEW m \in Meals, NEW d \in Dishes, AnswerReject(h, m, d)
        PROVE  JobStep
    BY <1>3, <1>4, <1>8 DEF AnswerReject, Press
  <1>9. ASSUME NEW h \in Handlers, NEW m \in Meals, NEW D \in SUBSET Dishes, PickerSave(h, m, D)
        PROVE  JobStep
    <2>1. Goto(h, [step |-> "recheck"])
      BY <1>9 DEF PickerSave
    <2> QED
      BY <2>1 DEF Job, KnownJob
  <1>10. ASSUME NEW h \in Handlers, CardConfirm(h)
         PROVE  JobStep
    <2>1. Goto(h, [step |-> "plate", set |-> card.on]) /\ card.on \subseteq Known'
      BY <1>10 DEF CardConfirm, Sourced, CardKnown
    <2>2. card.on \subseteq Dishes
      BY <2>1 DEF Known
    <2> QED
      BY <2>1, <2>2 DEF Job, KnownJob
  <1> QED
    BY <1>1, <1>2, <1>5, <1>6, <1>7, <1>8, <1>9, <1>10 DEF Act


\* Where the bot takes a handler from there.
LEMMA WorkJobs ==
    ASSUME TypeOK, Journal, Sourced, Known \subseteq Known', NEW h \in Handlers, Work(h)
    PROVE  JobStep
  <1> USE DEF JobStep
  <1>1. job[h] \in Job /\ KnownJob(job[h])
    BY DEF TypeOK, Sourced, JobsKnown
  <1>2. ASSUME Goto(h, Idle) PROVE JobStep
    BY <1>2 DEF Idle, Job, KnownJob
  <1>3. ASSUME NEW open \in SUBSET Meals, Goto(h, Draw(open)) PROVE JobStep
    BY <1>3 DEF Draw, Job, KnownJob
  <1>4. ASSUME NEW s \in {"send", "edit"}, NEW open \in SUBSET Meals,
               Goto(h, [step |-> s, view |-> View(open)])
        PROVE  JobStep
    <2> DEFINE v == View(open)
    <2>1. /\ v \in [says: [Meals -> {"eaten", "ask", "away"}], yes: SUBSET Key,
                    rej: SUBSET Key, pick: SUBSET Meals, home: SUBSET Meals]
          /\ \A k \in v.yes \cup v.rej : k[1] \in Known'
      BY ViewType DEF Journal
    <2>2. Goto(h, [step |-> s, view |-> v])
      BY <1>4
    <2> HIDE DEF v
    <2> QED
      BY <2>1, <2>2 DEF Job, KnownJob
  <1>5. CASE NoWrite(h) \/ KeepCheck(h) \/ Edit(h) \/ NewPut(h) \/ PlateDone(h) \/ PlateFail(h)
             \/ Fail(h)
    BY <1>2, <1>5 DEF NoWrite, KeepCheck, Edit, NewPut, PlateDone, PlateFail, Fail
  <1>6. CASE ConfirmYes(h) \/ RecordPick(h) \/ Away(h)
    <2>1. job[h].open \in SUBSET Meals
      BY <1>1, <1>6, JobParts DEF ConfirmYes, RecordPick, Away
    <2>2. job[h].open \ {job[h].meal} \in SUBSET Meals
      BY <2>1
    <2> QED
      BY <1>3, <1>6, <2>1, <2>2 DEF ConfirmYes, RecordPick, Away
  <1>7. CASE Recheck(h)
    <2>1. evening.saved => Meals \ evening.away \in SUBSET Meals
      OBVIOUS
    <2> QED
      BY <1>2, <1>3, <1>7, <2>1 DEF Recheck
  <1>8. CASE BuildCheck(h)
    BY <1>4, <1>8 DEF BuildCheck
  <1>9. CASE ReadDay(h)
    <2>1. job[h].open \in SUBSET Meals
      BY <1>1, <1>9, JobParts DEF ReadDay
    <2> QED
      BY <1>4, <1>9, <2>1 DEF ReadDay
  <1>10. CASE SendCheck(h)
    BY <1>10 DEF SendCheck, Job, KnownJob
  <1>11. CASE NoEaten(h)
    <2> DEFINE d == job[h].dish
    <2>1. d \in Dishes /\ d \in Known'
      BY <1>1, <1>11, JobParts DEF NoEaten, KnownJob
    <2>2. Goto(h, Idle) \/ Goto(h, [step |-> "no", dish |-> d])
      BY <1>11 DEF NoEaten
    <2> HIDE DEF d
    <2> QED
      BY <1>2, <2>1, <2>2 DEF Job, KnownJob
  <1>12. CASE NewWrite(h)
    <2> DEFINE d == job[h].dish
               j == [job[h] EXCEPT !.step = "put"]
    <2>1. d \in Dishes /\ d \in Known'
      <3>1. d \in Dishes
        BY <1>1, <1>12, JobParts DEF NewWrite
      <3>2. status' = [status EXCEPT ![d] = "active"]
        BY <1>12 DEF NewWrite, EnsureDish
      <3> QED
        BY <3>1, <3>2 DEF Known, TypeOK
    <2>2. j = [step |-> "put", dish |-> d]
      BY <1>1, <1>12 DEF NewWrite, Job
    <2>3. Goto(h, [step |-> "put", dish |-> d])
      BY <1>12, <2>2 DEF NewWrite
    <2> HIDE DEF d
    <2> QED
      BY <2>1, <2>3 DEF Job, KnownJob
  <1>13. CASE \E d \in Dishes : PlateWrite(h, d)
    <2>1. PICK d \in Dishes : PlateWrite(h, d)
      BY <1>13
    <2> DEFINE D == job[h].set \ {d}
    <2>2. D \subseteq Dishes /\ D \subseteq Known'
      BY <1>1, <2>1, JobParts DEF PlateWrite, KnownJob
    <2>3. [job[h] EXCEPT !.set = @ \ {d}] = [step |-> "plate", set |-> D]
      BY <1>1, <2>1 DEF PlateWrite, Job
    <2>4. Goto(h, [step |-> "plate", set |-> D])
      BY <2>1, <2>3 DEF PlateWrite
    <2> HIDE DEF D
    <2> QED
      BY <2>2, <2>4 DEF Job, KnownJob
  <1> QED
    BY <1>5, <1>6, <1>7, <1>8, <1>9, <1>10, <1>11, <1>12, <1>13 DEF Work


\* Only a handler that draws touches the check.
LEMMA ActCheck ==
    ASSUME Act
    PROVE  UNCHANGED check
  <1>1. CASE \/ \E d \in Dishes, m \in Meals : MenuTap(d, m)
             \/ \E m \in Meals, D \in SUBSET Dishes : PlannerSave(m, D)
             \/ \E d \in Dishes : Suggest(d) \/ NameDish(d) \/ SuggestAdd(d)
             \/ \E h \in Handlers, d \in Dishes : SuggestNo(h, d) \/ CardNew(h, d)
    BY <1>1 DEF MenuTap, PlannerSave, Suggest, NameDish, SuggestAdd, SuggestNo, CardNew
  <1>2. ASSUME NEW h \in Handlers, NEW m \in Meals,
               \/ AnswerHome(h, m)
               \/ \E d \in Dishes : AnswerYes(h, m, d) \/ AnswerPick(h, m, d) \/ AnswerReject(h, m, d)
               \/ \E D \in SUBSET Dishes : PickerSave(h, m, D)
        PROVE  UNCHANGED check
    <2>1. CASE AnswerHome(h, m)
      BY <2>1 DEF AnswerHome, Press
    <2>2. CASE \E d \in Dishes : AnswerYes(h, m, d) \/ AnswerPick(h, m, d) \/ AnswerReject(h, m, d)
      BY <2>2 DEF AnswerYes, AnswerPick, AnswerReject, Press
    <2>3. CASE \E D \in SUBSET Dishes : PickerSave(h, m, D)
      BY <2>3 DEF PickerSave
    <2> QED
      BY <1>2, <2>1, <2>2, <2>3
  <1>3. CASE \/ \E K, N \in SUBSET Dishes, m \in Meals : CardSend(K, N, m)
             \/ \E on \in SUBSET Dishes : CardCorrect(on)
             \/ \E m \in Meals : CardMeal(m)
             \/ \E h \in Handlers : CardConfirm(h)
             \/ CardCancel
    BY <1>3 DEF CardSend, CardCorrect, CardMeal, CardConfirm, CardCancel, CardSet
  <1> QED
    BY <1>1, <1>2, <1>3 DEF Act

LEMMA WorkCheck ==
    ASSUME NEW h \in Handlers, Work(h)
    PROVE  UNCHANGED check \/ (job[h].step \in {"send", "edit"} /\ Put(job[h].view))
  BY DEF Work, BuildCheck, SendCheck, KeepCheck, ConfirmYes, RecordPick, Away, Recheck, ReadDay,
         Edit, NoEaten, NoWrite, NewWrite, NewPut, PlateWrite, PlateDone, PlateFail, Fail

LEMMA CheckKeeps ==
    ASSUME TypeOK, Sourced, Known \subseteq Known', [Next]_vars
    PROVE  /\ shown' \in [Meals -> {"none", "eaten", "ask", "away"}]
           /\ buttons' \in [yes: SUBSET Key, rej: SUBSET Key, pick: SUBSET Meals,
                            home: SUBSET Meals]
           /\ ButtonsKnown'
  <1>1. CASE UNCHANGED check
    BY <1>1 DEF check, TypeOK, Sourced, ButtonsKnown
  <1>2. ASSUME NEW h \in Handlers, job[h].step \in {"send", "edit"}, Put(job[h].view)
        PROVE  /\ shown' \in [Meals -> {"none", "eaten", "ask", "away"}]
               /\ buttons' \in [yes: SUBSET Key, rej: SUBSET Key, pick: SUBSET Meals,
                                home: SUBSET Meals]
               /\ ButtonsKnown'
    <2> DEFINE v == job[h].view
    <2>1. /\ v \in [says: [Meals -> {"eaten", "ask", "away"}], yes: SUBSET Key,
                    rej: SUBSET Key, pick: SUBSET Meals, home: SUBSET Meals]
          /\ \A k \in v.yes \cup v.rej : k[1] \in Known'
      <3>1. job[h] \in Job /\ KnownJob(job[h])
        BY DEF TypeOK, Sourced, JobsKnown
      <3> QED
        BY <1>2, <3>1, JobParts DEF KnownJob
    <2>2. shown' = v.says /\ buttons' = [b \in Button |-> buttons[b] \cup v[b]]
      BY <1>2 DEF Put
    <2> HIDE DEF v
    <2>3. shown' \in [Meals -> {"none", "eaten", "ask", "away"}]
      BY <2>1, <2>2
    <2>4. buttons' = [yes |-> buttons.yes \cup v.yes, rej |-> buttons.rej \cup v.rej,
                      pick |-> buttons.pick \cup v.pick, home |-> buttons.home \cup v.home]
      BY <2>2 DEF Button
    <2>5. buttons \in [yes: SUBSET Key, rej: SUBSET Key, pick: SUBSET Meals, home: SUBSET Meals]
      BY DEF TypeOK
    <2>6. \A k \in buttons.yes \cup buttons.rej : k[1] \in Known'
      BY DEF Sourced, ButtonsKnown
    <2>7. ButtonsKnown'
      BY <2>1, <2>4, <2>6 DEF ButtonsKnown
    <2> QED
      BY <2>1, <2>3, <2>4, <2>5, <2>7
  <1>3. UNCHANGED check \/ \E h \in Handlers : Work(h)
    <2>1. CASE acts < MaxActs /\ acts' = acts + 1 /\ Act
      BY <2>1, ActCheck
    <2>2. CASE Restart
      BY <2>2 DEF Restart
    <2>3. CASE UNCHANGED vars
      BY <2>3 DEF vars, check
    <2> QED
      BY <2>1, <2>2, <2>3 DEF Next
  <1> QED
    BY <1>1, <1>2, <1>3, WorkCheck

\* A card has the type of a card, and its dishes exist.
CardOK(c) == c \in Card /\ (c.stage = "open" => c.on \subseteq Known)

LEMMA CardKinds ==
    ASSUME CardOK(card)
    PROVE  CardOpen => card \in OpenCard /\ card.on \in SUBSET Dishes /\ card.plate \in SUBSET Dishes
  BY DEF CardOK, Card, OpenCard, CardOpen

LEMMA ActCard ==
    ASSUME TypeOK, Sourced, Known \subseteq Known', Act
    PROVE  CardOK(card)' /\ disturbed' \in BOOLEAN
  <1>1. CardOK(card) /\ disturbed \in BOOLEAN
    BY DEF CardOK, TypeOK, Sourced, CardKnown, CardOpen
  <1>2. CASE UNCHANGED card /\ disturbed' \in BOOLEAN
    BY <1>1, <1>2 DEF CardOK
  <1>3. CASE \/ \E d \in Dishes, m \in Meals : MenuTap(d, m)
             \/ \E m \in Meals, D \in SUBSET Dishes : PlannerSave(m, D)
             \/ \E d \in Dishes : Suggest(d) \/ NameDish(d) \/ SuggestAdd(d)
             \/ \E h \in Handlers, d \in Dishes : SuggestNo(h, d)
             \/ \E h \in Handlers, m \in Meals :
                  \/ AnswerHome(h, m)
                  \/ \E d \in Dishes :
                       AnswerYes(h, m, d) \/ AnswerPick(h, m, d) \/ AnswerReject(h, m, d)
                  \/ \E D \in SUBSET Dishes : PickerSave(h, m, D)
    <2>1. CASE \/ \E d \in Dishes, m \in Meals : MenuTap(d, m)
               \/ \E m \in Meals, D \in SUBSET Dishes : PlannerSave(m, D)
               \/ \E d \in Dishes : Suggest(d) \/ NameDish(d) \/ SuggestAdd(d)
               \/ \E h \in Handlers, d \in Dishes : SuggestNo(h, d)
      BY <1>1, <1>2, <2>1 DEF MenuTap, PlannerSave, Suggest, NameDish, SuggestAdd, SuggestNo, history
    <2>2. ASSUME NEW h \in Handlers, NEW j, Press(h, j)
          PROVE  UNCHANGED card /\ disturbed' \in BOOLEAN
      BY <2>2 DEF Press
    <2>3. CASE \E h \in Handlers, m \in Meals : AnswerHome(h, m)
      BY <1>2, <2>2, <2>3 DEF AnswerHome
    <2>4. CASE \E h \in Handlers, m \in Meals, d \in Dishes :
                 AnswerYes(h, m, d) \/ AnswerPick(h, m, d) \/ AnswerReject(h, m, d)
      <3>1. PICK h \in Handlers : \E j : Press(h, j)
        BY <2>4 DEF AnswerYes, AnswerPick, AnswerReject
      <3> QED
        BY <1>2, <2>2, <3>1
    <2>5. CASE \E h \in Handlers, m \in Meals, D \in SUBSET Dishes : PickerSave(h, m, D)
      BY <1>2, <2>5 DEF PickerSave
    <2> QED
      BY <1>3, <2>1, <2>3, <2>4, <2>5
  <1>4. ASSUME card' \in OpenCard, card'.on \subseteq Known'
        PROVE  CardOK(card)'
    BY <1>4 DEF CardOK, Card
  <1>5. ASSUME NEW K \in SUBSET Dishes, NEW N \in SUBSET Dishes, NEW m \in Meals, CardSend(K, N, m)
        PROVE  CardOK(card)' /\ UNCHANGED disturbed
    <2>1. /\ card' = [stage |-> "open", on |-> K, new |-> N, meal |-> m,
                      recorded |-> FALSE, busy |-> FALSE, plate |-> {}]
          /\ K \subseteq Known' /\ UNCHANGED disturbed
      BY <1>5 DEF CardSend, CardSet, history
    <2> QED
      BY <1>4, <2>1 DEF OpenCard
  <1>6. CardOpen => card \in OpenCard /\ card.on \in SUBSET Dishes /\ card.on \subseteq Known'
    BY <1>1, CardKinds DEF Sourced, CardKnown
  <1>7. ASSUME NEW D \in SUBSET Dishes, CardCorrect(D)
        PROVE  CardOK(card)' /\ UNCHANGED disturbed
    <2>1. /\ CardOpen /\ D \subseteq Known' /\ UNCHANGED disturbed
          /\ card' = [card EXCEPT !.on = D, !.new = @ \ D]
      BY <1>7 DEF CardCorrect, CardSet, history
    <2>2. card' \in OpenCard /\ card'.on = D
      BY <1>6, <2>1 DEF OpenCard
    <2> QED
      BY <1>4, <2>1, <2>2
  <1>8. ASSUME NEW m \in Meals, CardMeal(m)
        PROVE  CardOK(card)' /\ UNCHANGED disturbed
    <2>1. CardOpen /\ card' = [card EXCEPT !.meal = m] /\ UNCHANGED disturbed
      BY <1>8 DEF CardMeal, CardSet, history
    <2>2. card' \in OpenCard /\ card'.on = card.on
      BY <1>6, <2>1 DEF OpenCard
    <2> QED
      BY <1>4, <1>6, <2>1, <2>2
  <1>9. ASSUME NEW h \in Handlers, NEW d \in Dishes, CardNew(h, d)
        PROVE  CardOK(card)' /\ UNCHANGED disturbed
    <2>1. CardOpen /\ card' = [card EXCEPT !.busy = TRUE] /\ UNCHANGED disturbed
      BY <1>9 DEF CardNew, history
    <2>2. card' \in OpenCard /\ card'.on = card.on
      BY <1>6, <2>1 DEF OpenCard
    <2> QED
      BY <1>4, <1>6, <2>1, <2>2
  <1>10. ASSUME NEW h \in Handlers, CardConfirm(h)
         PROVE  CardOK(card)' /\ UNCHANGED disturbed
    <2>1. /\ CardOpen /\ UNCHANGED disturbed
          /\ card' = [card EXCEPT !.recorded = TRUE, !.plate = card.on]
      BY <1>10 DEF CardConfirm, history
    <2>2. card' \in OpenCard /\ card'.on = card.on
      BY <1>6, <2>1 DEF OpenCard
    <2> QED
      BY <1>4, <1>6, <2>1, <2>2
  <1>11. ASSUME CardCancel
         PROVE  CardOK(card)' /\ UNCHANGED disturbed
    BY <1>11 DEF CardCancel, CardSet, CardOK, Card, history
  <1> QED
    BY <1>1, <1>3, <1>5, <1>7, <1>8, <1>9, <1>10, <1>11 DEF Act

LEMMA WorkCard ==
    ASSUME TypeOK, Sourced, OneWriterPerCard, Known \subseteq Known', NEW h \in Handlers, Work(h)
    PROVE  CardOK(card)' /\ disturbed' \in BOOLEAN
  <1>1. CardOK(card) /\ disturbed \in BOOLEAN
    BY DEF CardOK, TypeOK, Sourced, CardKnown, CardOpen
  <1>2. CASE UNCHANGED card /\ disturbed' \in BOOLEAN
    BY <1>1, <1>2 DEF CardOK
  <1>3. CASE \/ BuildCheck(h) \/ SendCheck(h) \/ KeepCheck(h) \/ ConfirmYes(h) \/ RecordPick(h)
             \/ Away(h) \/ Recheck(h) \/ ReadDay(h) \/ Edit(h) \/ NoEaten(h) \/ NoWrite(h)
             \/ NewWrite(h) \/ \E d \in Dishes : PlateWrite(h, d)
    BY <1>1, <1>2, <1>3 DEF BuildCheck, SendCheck, KeepCheck, ConfirmYes, RecordPick, Away, Recheck,
            ReadDay, Edit, NoEaten, NoWrite, NewWrite, PlateWrite, history
  <1>4. ASSUME card' \in OpenCard, card'.on \subseteq Known'
        PROVE  CardOK(card)'
    BY <1>4 DEF CardOK, Card
  <1>5. CardOpen => card \in OpenCard /\ card.on \in SUBSET Dishes /\ card.on \subseteq Known'
    BY <1>1, CardKinds DEF Sourced, CardKnown
  <1>6. CASE NewPut(h)
    <2> DEFINE d == job[h].dish
    <2>1. d \in Dishes /\ d \in Known' /\ UNCHANGED disturbed
      <3>1. job[h] \in Job /\ KnownJob(job[h])
        BY DEF TypeOK, Sourced, JobsKnown
      <3> QED
        BY <1>6, <3>1, JobParts DEF NewPut, KnownJob, history
    <2>2. CASE CardOpen
      <3>1. PICK on \in {card.on} \cup {(card.on \ {x}) \cup {d} : x \in card.on \cup {d}} :
               card' = [card EXCEPT !.busy = FALSE, !.new = @ \ {d}, !.on = on]
        BY <1>6, <2>2 DEF NewPut
      <3>2. on \in SUBSET Dishes /\ on \subseteq Known'
        BY <1>5, <2>1, <2>2, <3>1
      <3>3. card' \in OpenCard /\ card'.on = on
        <4> HIDE DEF d
        <4> QED
          BY <1>5, <2>2, <3>1, <3>2 DEF OpenCard
      <3> QED
        BY <1>1, <1>4, <2>1, <3>2, <3>3
    <2>3. CASE ~CardOpen
      BY <1>1, <1>2, <1>6, <2>1, <2>3 DEF NewPut
    <2> QED BY <2>2, <2>3
  <1>7. CASE PlateDone(h) \/ PlateFail(h)
    <2>1. CardOpen /\ UNCHANGED disturbed
      BY <1>7 DEF PlateDone, PlateFail, OneWriterPerCard, history
    <2>2. card.plate \in SUBSET Dishes
      BY <1>1, <2>1, CardKinds
    <2>3. CASE PlateDone(h)
      BY <1>1, <2>1, <2>2, <2>3 DEF PlateDone, CardOK, Card
    <2>4. CASE PlateFail(h)
      <3>1. card' = [card EXCEPT !.recorded = FALSE, !.plate = {}]
        BY <2>4 DEF PlateFail
      <3>2. card' \in OpenCard /\ card'.on = card.on
        BY <1>5, <2>1, <3>1 DEF OpenCard
      <3> QED
        BY <1>1, <1>4, <1>5, <2>1, <3>2
    <2> QED
      BY <1>7, <2>3, <2>4
  <1>8. CASE Fail(h)
    <2>1. disturbed' \in BOOLEAN
      BY <1>1, <1>8 DEF Fail
    <2>2. CASE UNCHANGED card
      BY <1>2, <2>1, <2>2
    <2>3. CASE CardOpen /\ card' = [card EXCEPT !.busy = FALSE]
      <3>1. card' \in OpenCard /\ card'.on = card.on
        BY <1>5, <2>3 DEF OpenCard
      <3> QED
        BY <1>4, <1>5, <2>1, <2>3, <3>1
    <2> QED
      BY <1>8, <2>2, <2>3 DEF Fail
  <1> QED
    BY <1>3, <1>6, <1>7, <1>8 DEF Work

-----------------------------------------------------------------------------
(* Who writes the card. *)

Writing(h) == job[h].step = "plate"

\* Nobody begins to write, and who writes has the same dishes to go.
NoNewWriter == \A h \in Handlers : Writing(h)' => Writing(h) /\ job'[h] = job[h]

\* The card is being written, or was.
Claimed == CardOpen /\ card.recorded

ClaimStays == Claimed => Claimed' /\ card'.plate = card.plate

\* No card becomes a finished one.
NoneDone == card'.stage = "done" => card' = card

\* Only a confirmation makes a writer, and no act of a person takes the claim back.
LEMMA ActWriters ==
    ASSUME TypeOK, Act, \A h \in Handlers : ~CardConfirm(h)
    PROVE  NoNewWriter /\ ClaimStays /\ NoneDone
  <1>1. ASSUME NEW h \in Handlers, NEW j, j.step # "plate", Goto(h, j)
        PROVE  NoNewWriter
    BY <1>1 DEF NoNewWriter, Writing, Goto, TypeOK
  <1>2. ASSUME UNCHANGED job
        PROVE  NoNewWriter
    BY <1>2 DEF NoNewWriter, Writing
  <1>3. ASSUME UNCHANGED card
        PROVE  ClaimStays /\ NoneDone
    BY <1>3 DEF ClaimStays, NoneDone, Claimed, CardOpen
  <1>4. CASE \/ \E d \in Dishes, m \in Meals : MenuTap(d, m)
             \/ \E m \in Meals, D \in SUBSET Dishes : PlannerSave(m, D)
             \/ \E d \in Dishes : Suggest(d) \/ NameDish(d) \/ SuggestAdd(d)
    BY <1>2, <1>3, <1>4 DEF MenuTap, PlannerSave, Suggest, NameDish, SuggestAdd
  <1>5. CASE \/ \E h \in Handlers, d \in Dishes : SuggestNo(h, d)
             \/ \E h \in Handlers, m \in Meals :
                  \/ AnswerHome(h, m)
                  \/ \E d \in Dishes :
                       AnswerYes(h, m, d) \/ AnswerPick(h, m, d) \/ AnswerReject(h, m, d)
                  \/ \E D \in SUBSET Dishes : PickerSave(h, m, D)
    <2> DEFINE Drawn(h) == UNCHANGED card /\ \E j : j.step # "plate" /\ Goto(h, j)
    <2>2. ASSUME NEW h \in Handlers, NEW d \in Dishes, SuggestNo(h, d)
          PROVE  Drawn(h)
      BY <2>2 DEF SuggestNo
    <2>3. ASSUME NEW h \in Handlers, NEW j, j.step # "plate", Press(h, j)
          PROVE  Drawn(h)
      BY <2>3 DEF Press
    <2>4. ASSUME NEW h \in Handlers, NEW m \in Meals, AnswerHome(h, m)
          PROVE  Drawn(h)
      BY <2>3, <2>4 DEF AnswerHome
    <2>5. ASSUME NEW h \in Handlers, NEW m \in Meals, NEW d \in Dishes,
                 AnswerYes(h, m, d) \/ AnswerPick(h, m, d) \/ AnswerReject(h, m, d)
          PROVE  Drawn(h)
      <3>1. CASE AnswerYes(h, m, d)
        <4>1. PICK j : j.step # "plate" /\ Press(h, j)
          BY <3>1 DEF AnswerYes, Draw
        <4> QED
          BY <2>3, <4>1
      <3>2. CASE AnswerPick(h, m, d)
        <4>1. PICK j : j.step # "plate" /\ Press(h, j)
          BY <3>2 DEF AnswerPick, Draw
        <4> QED
          BY <2>3, <4>1
      <3>3. CASE AnswerReject(h, m, d)
        BY <2>3, <3>3 DEF AnswerReject, Draw
      <3> QED
        BY <2>5, <3>1, <3>2, <3>3
    <2>6. ASSUME NEW h \in Handlers, NEW m \in Meals, NEW D \in SUBSET Dishes, PickerSave(h, m, D)
          PROVE  Drawn(h)
      BY <2>6 DEF PickerSave
    <2>1. PICK h \in Handlers : Drawn(h)
      <3> HIDE DEF Drawn
      <3> QED
        BY <1>5, <2>2, <2>4, <2>5, <2>6
    <2> QED
      BY <1>1, <1>3, <2>1
  <1>6. CardOpen => card \in OpenCard
    BY DEF TypeOK, Card, OpenCard, CardOpen
  <1>7. CASE \/ \E on \in SUBSET Dishes : CardCorrect(on)
             \/ \E m \in Meals : CardMeal(m)
             \/ \E h \in Handlers, d \in Dishes : CardNew(h, d)
    <2>1. /\ CardOpen
          /\ \/ \E on : card' = [card EXCEPT !.on = on, !.new = @ \ on]
             \/ \E m : card' = [card EXCEPT !.meal = m]
             \/ card' = [card EXCEPT !.busy = TRUE]
      BY <1>7 DEF CardCorrect, CardMeal, CardNew, CardSet
    <2>2. /\ card.stage = "open" /\ card'.stage = "open" /\ card'.recorded = card.recorded
          /\ card'.plate = card.plate
      BY <1>6, <2>1 DEF OpenCard, CardOpen
    <2>3. NoNewWriter
      <3>1. UNCHANGED job \/ \E h \in Handlers, d \in Dishes : Goto(h, [step |-> "new", dish |-> d])
        BY <1>7 DEF CardCorrect, CardMeal, CardNew, CardSet
      <3> QED
        BY <1>1, <1>2, <3>1
    <2> QED
      BY <2>2, <2>3 DEF ClaimStays, NoneDone, Claimed, CardOpen
  <1>8. CASE CardCancel \/ \E K, N \in SUBSET Dishes, m \in Meals : CardSend(K, N, m)
    <2>1. UNCHANGED job /\ ~Claimed /\ card'.stage # "done"
      BY <1>8 DEF CardCancel, CardSend, CardSet, Claimed, CardOpen, NoCard
    <2> QED
      BY <1>2, <2>1 DEF ClaimStays, NoneDone
  <1> QED
    BY <1>4, <1>5, <1>7, <1>8 DEF Act

\* The bot takes it back only with the writer.
LEMMA WorkWriters ==
    ASSUME TypeOK, OneWriterPerCard, NEW h \in Handlers, Work(h),
           \A d \in Dishes : ~PlateWrite(h, d)
    PROVE  /\ NoNewWriter
           /\ ClaimStays \/ (Writing(h) /\ ~Writing(h)')
           /\ NoneDone \/ PlateDone(h)
  <1>1. ASSUME NEW j, j.step # "plate", Goto(h, j)
        PROVE  NoNewWriter
    BY <1>1 DEF NoNewWriter, Writing, Goto, TypeOK
  <1>2. ASSUME UNCHANGED card
        PROVE  ClaimStays /\ NoneDone
    BY <1>2 DEF ClaimStays, NoneDone, Claimed, CardOpen
  <1>3. job[h] \in Job /\ (CardOpen => card \in OpenCard)
    BY DEF TypeOK, Card, OpenCard, CardOpen
  <1>4. CASE BuildCheck(h) \/ SendCheck(h) \/ KeepCheck(h) \/ ConfirmYes(h) \/ RecordPick(h)
             \/ Away(h) \/ Recheck(h) \/ ReadDay(h) \/ Edit(h) \/ NoEaten(h) \/ NoWrite(h)
    <2>1. UNCHANGED card /\ \E j : j.step # "plate" /\ Goto(h, j)
      BY <1>4 DEF BuildCheck, SendCheck, KeepCheck, ConfirmYes, RecordPick, Away, Recheck, ReadDay,
              Edit, NoEaten, NoWrite, Draw, Idle
    <2> QED
      BY <1>1, <1>2, <2>1
  <1>5. CASE NewWrite(h)
    <2>1. UNCHANGED card /\ Goto(h, [job[h] EXCEPT !.step = "put"]) /\ job[h].step = "new"
      BY <1>5 DEF NewWrite
    <2>2. [job[h] EXCEPT !.step = "put"].step = "put"
      BY <1>3, <2>1 DEF Job
    <2> QED
      BY <1>1, <1>2, <2>1, <2>2
  <1>7. CASE NewPut(h) \/ Fail(h)
    <2>1. Goto(h, Idle)
      BY <1>7 DEF NewPut, Fail
    <2>2. \/ UNCHANGED card
          \/ CardOpen /\ card' = [card EXCEPT !.busy = FALSE]
          \/ /\ CardOpen
             /\ \E on : card' = [card EXCEPT !.busy = FALSE, !.new = @ \ {job[h].dish}, !.on = on]
      BY <1>7 DEF NewPut, Fail
    <2>3. ClaimStays /\ NoneDone
      BY <1>2, <1>3, <2>2 DEF OpenCard, ClaimStays, NoneDone, Claimed, CardOpen
    <2> QED
      BY <1>1, <2>1, <2>3 DEF Idle
  <1>8. CASE PlateDone(h) \/ PlateFail(h)
    <2>1. Goto(h, Idle) /\ Writing(h)
      BY <1>8 DEF PlateDone, PlateFail, Writing
    <2>2. ~Writing(h)'
      BY <2>1 DEF Goto, Idle, Writing, TypeOK
    <2>3. PlateFail(h) => NoneDone
      <3>1. CardOpen
        BY <2>1 DEF OneWriterPerCard, Writing
      <3>2. PlateFail(h) => card' = [card EXCEPT !.recorded = FALSE, !.plate = {}]
        BY DEF PlateFail
      <3> QED
        BY <1>3, <3>1, <3>2 DEF OpenCard, NoneDone
    <2> QED
      BY <1>1, <1>8, <2>1, <2>2, <2>3 DEF Idle
  <1> QED
    BY <1>4, <1>5, <1>7, <1>8 DEF Work

LEMMA OneWriterKeeps ==
    ASSUME TypeOK, OneWriterPerCard, [Next]_vars
    PROVE  OneWriterPerCard'
  <1> USE DEF OneWriterPerCard
  <1>1. \A g, h \in Handlers : Writing(g) /\ Writing(h) => g = h
    BY DEF Writing
  <1>2. (\E h \in Handlers : Writing(h)) => Claimed
    BY DEF Writing, Claimed
  <1>3. SUFFICES /\ \A g, h \in Handlers : Writing(g)' /\ Writing(h)' => g = h
                 /\ (\E h \in Handlers : Writing(h)') => Claimed'
    BY <1>3 DEF Writing, Claimed
  <1>4. ASSUME NoNewWriter, ClaimStays
        PROVE  /\ \A g, h \in Handlers : Writing(g)' /\ Writing(h)' => g = h
               /\ (\E h \in Handlers : Writing(h)') => Claimed'
    BY <1>1, <1>2, <1>4 DEF NoNewWriter, ClaimStays
  <1>5. CASE \E h \in Handlers : CardConfirm(h)
    <2>1. PICK h \in Handlers : CardConfirm(h)
      BY <1>5
    <2>2. \A g \in Handlers : ~Writing(g)
      BY <1>2, <2>1 DEF CardConfirm, Claimed
    <2>3. \A g \in Handlers : Writing(g)' => g = h
      BY <2>1, <2>2 DEF CardConfirm, Goto, Writing, TypeOK
    <2>4. card \in OpenCard /\ card' = [card EXCEPT !.recorded = TRUE, !.plate = card.on]
      BY <2>1 DEF CardConfirm, TypeOK, Card, OpenCard, CardOpen
    <2>5. Claimed'
      BY <2>4 DEF OpenCard, Claimed, CardOpen
    <2> QED
      BY <2>3, <2>5
  <1>6. CASE Act /\ \A h \in Handlers : ~CardConfirm(h)
    BY <1>4, <1>6, ActWriters
  <1>7. ASSUME NEW h \in Handlers, Work(h), \A d \in Dishes : ~PlateWrite(h, d)
        PROVE  /\ \A f, g \in Handlers : Writing(f)' /\ Writing(g)' => f = g
               /\ (\E g \in Handlers : Writing(g)') => Claimed'
    <2>1. NoNewWriter /\ (ClaimStays \/ (Writing(h) /\ ~Writing(h)'))
      BY <1>7, WorkWriters
    <2>2. CASE Writing(h) /\ ~Writing(h)'
      <3>1. \A g \in Handlers : ~Writing(g)'
        BY <1>1, <2>1, <2>2 DEF NoNewWriter
      <3> QED BY <3>1
    <2> QED
      BY <1>4, <2>1, <2>2
  <1>8. CASE Restart
    <2>1. \A h \in Handlers : ~Writing(h)'
      BY <1>8 DEF Restart, Writing, Idle
    <2> QED BY <2>1
  <1>9. CASE UNCHANGED vars
    BY <1>4, <1>9 DEF vars, NoNewWriter, ClaimStays, Writing, Claimed, CardOpen
  <1>10. CASE \E h \in Handlers, d \in Dishes : PlateWrite(h, d)
    <2>1. PICK h \in Handlers, d \in Dishes : PlateWrite(h, d)
      BY <1>10
    <2>2. UNCHANGED card /\ Writing(h) /\ \A g \in Handlers : g # h => job'[g] = job[g]
      BY <2>1 DEF PlateWrite, Writing, Goto, TypeOK
    <2>3. \A g \in Handlers : Writing(g)' => Writing(g)
      BY <2>2 DEF Writing
    <2> QED
      BY <1>1, <1>2, <2>2, <2>3 DEF Claimed, CardOpen
  <1> QED
    BY <1>5, <1>6, <1>7, <1>8, <1>9, <1>10 DEF Next

-----------------------------------------------------------------------------
(* Where the dishes of a plate are. *)

Landed(d) == \E m \in Meals : d \in EatenAt(m) \/ <<d, m>> \in unset

\* What a confirmation still has to write is what is missing from the journal.
PlateUnderway ==
    \A h \in Handlers : Writing(h) =>
        \A d \in card.plate : d \in job[h].set \/ Landed(d)

LEMMA LandedStays ==
    ASSUME Kept, NEW d \in Dishes, Landed(d)
    PROVE  Landed(d)'
  <1>1. PICK m \in Meals : d \in EatenAt(m) \/ <<d, m>> \in unset
    BY DEF Landed
  <1>2. <<d, m>> \in Key
    BY DEF Key
  <1>3. d \in EatenAt(m)' \/ <<d, m>> \in unset'
    BY <1>1, <1>2 DEF Kept, EatenAt, RowsAt
  <1> QED
    BY <1>3 DEF Landed

LEMMA PlateKeeps ==
    ASSUME TypeOK, OneWriterPerCard, PlateUnderway, PlateLands, Kept, [Next]_vars
    PROVE  PlateUnderway' /\ PlateLands'
  <1> DEFINE Underway(h) == Writing(h) => \A d \in card.plate : d \in job[h].set \/ Landed(d)
             Lands == card.stage = "done" => \A d \in card.plate : Landed(d)
  <1>1. Lands /\ \A h \in Handlers : Underway(h)
    BY DEF PlateUnderway, PlateLands, Landed
  <1>2. /\ \A h \in Handlers : Writing(h) => Claimed
        /\ \A g, h \in Handlers : Writing(g) /\ Writing(h) => g = h
    BY DEF OneWriterPerCard, Writing, Claimed
  <1>3. CardOpen \/ card.stage = "done" => card.plate \subseteq Dishes
    BY DEF TypeOK, Card, OpenCard, CardOpen
  <1>4. \A d \in Dishes : Landed(d) => Landed(d)'
    BY LandedStays
  <1>5. ASSUME NoneDone PROVE Lands'
    BY <1>1, <1>3, <1>4, <1>5 DEF NoneDone
  <1>6. ASSUME NoNewWriter, ClaimStays PROVE \A h \in Handlers : Underway(h)'
    BY <1>1, <1>2, <1>3, <1>4, <1>6 DEF NoNewWriter, ClaimStays, Writing, Claimed
  <1>7. SUFFICES Lands' /\ \A h \in Handlers : Underway(h)'
    BY <1>7 DEF PlateUnderway, PlateLands, Landed
  <1> HIDE DEF Lands
  <1>8. CASE \E h \in Handlers : CardConfirm(h)
    <2>1. PICK h \in Handlers : CardConfirm(h)
      BY <1>8
    <2>2. \A g \in Handlers : ~Writing(g)
      BY <1>2, <2>1 DEF CardConfirm, Claimed
    <2>3. card \in OpenCard /\ card' = [card EXCEPT !.recorded = TRUE, !.plate = card.on]
      BY <2>1 DEF CardConfirm, TypeOK, Card, OpenCard, CardOpen
    <2>4. card'.plate = card.on /\ card'.stage = "open"
      BY <2>3 DEF OpenCard
    <2>5. job' = [job EXCEPT ![h] = [step |-> "plate", set |-> card.on]]
      BY <2>1 DEF CardConfirm, Goto
    <2>6. \A g \in Handlers : Writing(g)' => job'[g].set = card.on
      BY <2>2, <2>5 DEF Writing, TypeOK
    <2>7. NoneDone
      BY <2>4 DEF NoneDone
    <2> QED
      BY <1>5, <2>4, <2>6, <2>7
  <1>9. CASE Act /\ \A h \in Handlers : ~CardConfirm(h)
    BY <1>5, <1>6, <1>9, ActWriters
  <1>10. CASE \E h \in Handlers, d \in Dishes : PlateWrite(h, d)
    <2>1. PICK h \in Handlers, d \in Dishes : PlateWrite(h, d)
      BY <1>10
    <2>2. /\ UNCHANGED card /\ Writing(h) /\ CardOpen
          /\ job' = [job EXCEPT ![h] = [job[h] EXCEPT !.set = @ \ {d}]]
      BY <1>2, <2>1 DEF PlateWrite, Writing, Goto, Claimed
    <2>3. Landed(d)'
      <3>1. card.meal \in Meals
        BY <2>2 DEF TypeOK, Card, OpenCard, CardOpen
      <3>2. <<d, card.meal>> \in Key /\ row' = [row EXCEPT ![<<d, card.meal>>] = "eaten"]
        BY <2>1, <3>1 DEF PlateWrite, RecordEaten, Key
      <3>3. row'[<<d, card.meal>>] = "eaten"
        BY <3>2 DEF TypeOK
      <3>4. d \in EatenAt(card.meal)'
        BY <2>2, <3>3 DEF EatenAt, RowsAt
      <3> QED
        BY <2>2, <3>1, <3>4 DEF Landed
    <2>4. job[h] \in Job /\ job[h].step = "plate"
      BY <2>2 DEF TypeOK, Writing
    <2>5. job'[h].set = job[h].set \ {d}
      BY <2>2, <2>4 DEF TypeOK, Job
    <2>6. Underway(h)'
      BY <1>1, <1>3, <1>4, <2>2, <2>3, <2>5
    <2>7. \A g \in Handlers : g # h => ~Writing(g)'
      BY <1>2, <2>2 DEF Writing, TypeOK
    <2> QED
      BY <1>5, <2>2, <2>6, <2>7 DEF NoneDone
  <1>11. ASSUME NEW h \in Handlers, Work(h), \A d \in Dishes : ~PlateWrite(h, d)
         PROVE  Lands' /\ \A g \in Handlers : Underway(g)'
    <2>1. /\ NoNewWriter
          /\ ClaimStays \/ (Writing(h) /\ ~Writing(h)')
          /\ NoneDone \/ PlateDone(h)
      BY <1>11, WorkWriters
    <2>2. \A g \in Handlers : Underway(g)'
      <3>1. CASE Writing(h) /\ ~Writing(h)'
        <4>1. \A g \in Handlers : ~Writing(g)'
          BY <1>2, <2>1, <3>1 DEF NoNewWriter
        <4> QED BY <4>1
      <3> QED
        BY <1>6, <2>1, <3>1
    <2>3. CASE PlateDone(h)
      <3>1. /\ Writing(h) /\ job[h].set = {} /\ CardOpen
            /\ card' = [stage |-> "done", plate |-> card.plate]
        BY <1>2, <2>3 DEF PlateDone, Writing, Claimed
      <3>2. \A d \in card.plate : Landed(d)
        BY <1>1, <3>1
      <3> QED
        BY <1>3, <1>4, <2>2, <3>1, <3>2 DEF Lands
    <2> QED
      BY <1>5, <2>1, <2>2, <2>3
  <1>12. CASE Restart
    <2>1. NoneDone /\ \A h \in Handlers : ~Writing(h)'
      BY <1>12 DEF Restart, Writing, Idle, NoneDone, NoCard
    <2> QED
      BY <1>5, <2>1
  <1>13. CASE UNCHANGED vars
    <2>1. NoneDone /\ NoNewWriter /\ ClaimStays
      BY <1>13 DEF vars, NoneDone, NoNewWriter, ClaimStays, Writing, Claimed, CardOpen
    <2> QED
      BY <1>5, <1>6, <2>1
  <1> QED
    BY <1>8, <1>9, <1>10, <1>11, <1>12, <1>13 DEF Next

-----------------------------------------------------------------------------
(* The inductive invariant and what follows from it. *)

IInv ==
    /\ TypeOK
    /\ Journal
    /\ Sourced
    /\ OneWriterPerCard
    /\ PlateUnderway
    /\ PlateLands

LEMMA InitInv ==
    ASSUME Init
    PROVE  IInv
  <1> USE DEF Init
  <1>1. TypeOK
    <2>1. job \in [Handlers -> Job] /\ card \in Card
      BY DEF Job, Idle, Card, NoCard
    <2>2. status \in [Dishes -> Status] /\ acts \in 0..MaxActs
      BY KitchenAssumption
    <2>3. buttons \in [yes: SUBSET Key, rej: SUBSET Key, pick: SUBSET Meals, home: SUBSET Meals]
      <3>1. buttons = [yes |-> {}, rej |-> {}, pick |-> {}, home |-> {}]
        BY DEF Button
      <3> QED
        BY <3>1
    <2>4. evening \in [saved: BOOLEAN, away: SUBSET Meals]
      OBVIOUS
    <2> QED
      BY <2>1, <2>2, <2>3, <2>4 DEF TypeOK
  <1>2. \A k \in Key : row[k] = "none"
    OBVIOUS
  <1>3. \A m \in Meals : EatenAt(m) = {}
    BY DEF EatenAt, RowsAt, Key
  <1>4. Journal
    BY <1>1, <1>2, <1>3 DEF Journal, TablesOK, TypeOK, RowsKnown, EatenIsNoProposal
  <1>5. Sourced
    <2>1. Yesterday \subseteq Known
      BY KitchenAssumption DEF Known
    <2> QED
      BY <2>1 DEF Sourced, JobsKnown, KnownJob, Idle, ButtonsKnown, Button, CardKnown, CardOpen,
                  NoCard
  <1>6. OneWriterPerCard /\ PlateUnderway /\ PlateLands
    BY DEF OneWriterPerCard, PlateUnderway, Writing, PlateLands, Idle, NoCard
  <1> QED
    BY <1>1, <1>4, <1>5, <1>6 DEF IInv

LEMMA StepInv ==
    ASSUME IInv, [Next]_vars
    PROVE  IInv' /\ Call /\ Kept
  <1> USE DEF IInv
  <1>1. Call
    BY StepCalls
  <1>2. Journal' /\ Kept
    BY <1>1, CallsKeep
  <1>3. Known \subseteq Known'
    BY <1>2 DEF Kept
  <1>4. JobStep /\ CardOK(card)' /\ disturbed' \in BOOLEAN
    <2>1. CASE acts < MaxActs /\ acts' = acts + 1 /\ Act
      BY <1>3, <2>1, ActJobs, ActCard
    <2>2. CASE \E h \in Handlers : Work(h)
      BY <1>3, <2>2, WorkJobs, WorkCard
    <2>3. CASE Restart
      BY <2>3 DEF Restart, JobStep, CardOK, Card, NoCard, TypeOK
    <2>4. CASE UNCHANGED vars
      BY <1>3, <2>4 DEF vars, JobStep, CardOK, TypeOK, Sourced, CardKnown, CardOpen, history
    <2> QED
      BY <2>1, <2>2, <2>3, <2>4 DEF Next
  <1>5. job' \in [Handlers -> Job] /\ JobsKnown'
    BY <1>3, <1>4, JobStepKeeps DEF TypeOK, Sourced
  <1>6. /\ shown' \in [Meals -> {"none", "eaten", "ask", "away"}]
        /\ buttons' \in [yes: SUBSET Key, rej: SUBSET Key, pick: SUBSET Meals,
                         home: SUBSET Meals]
        /\ ButtonsKnown'
    BY <1>3, CheckKeeps
  <1>7. acts' \in 0..MaxActs
    BY KitchenAssumption DEF Next, vars, TypeOK
  <1>8. unset' \subseteq Key
    BY <1>2 DEF Kept, TypeOK
  <1>9. TypeOK'
    BY <1>2, <1>4, <1>5, <1>6, <1>7, <1>8 DEF TypeOK, Journal, TablesOK, CardOK
  <1>10. Sourced'
    BY <1>3, <1>4, <1>5, <1>6 DEF Sourced, CardOK, CardKnown, CardOpen
  <1> QED
    BY <1>1, <1>2, <1>9, <1>10, OneWriterKeeps, PlateKeeps

\* IInv holds throughout a day: what the theorems below rest on.
THEOREM Inductive == Spec => []IInv
  <1>1. Init => IInv
    BY InitInv
  <1>2. IInv /\ [Next]_vars => IInv'
    BY StepInv
  <1> QED
    BY <1>1, <1>2, PTL DEF Spec

\* Every state of a day has the types it should.
THEOREM TypeCorrect == Spec => []TypeOK
  <1>1. IInv => TypeOK
    BY DEF IInv
  <1> QED
    BY <1>1, Inductive, PTL

\* No dish that was eaten is still a suggestion, whoever recorded it and whatever
\* was decided on an older read (recordEatenTx, createDishTx).
THEOREM EatenNeverProposed == Spec => []EatenIsNoProposal
  <1>1. IInv => EatenIsNoProposal
    BY DEF IInv, Journal
  <1> QED
    BY <1>1, Inductive, PTL

\* A plate card is written by one confirmation at a time (claim of cookedPending).
THEOREM OneWriter == Spec => []OneWriterPerCard
  <1>1. IInv => OneWriterPerCard
    BY DEF IInv
  <1> QED
    BY <1>1, Inductive, PTL

\* What a card reported as recorded is in the journal, or was taken off it by an
\* exact answer (recordPlate, SetEaten).
THEOREM PlatesLand == Spec => []PlateLands
  <1>1. IInv => PlateLands
    BY DEF IInv
  <1> QED
    BY <1>1, Inductive, PTL

-----------------------------------------------------------------------------
(* The evening check says what is so, as long as its redraws come one after *)
(* the other and none is lost.                                              *)

\* What is said of each meal is so.
Holds(says) ==
    \A m \in Meals : /\ says[m] = "eaten" => EatenAt(m) # {}
                     /\ says[m] = "away" => m \in evening.away

\* A meal that is not asked about any more is answered.
Left(open) == \A m \in Meals \ open : EatenAt(m) # {} \/ m \in evening.away

\* What a handler that will redraw holds is so.
JobTrue(j) ==
    /\ j.step \in {"send", "edit"} => Holds(j.view.says)
    /\ j.step = "send" => \A m \in Meals : j.view.says[m] # "away"
    /\ j.step \in {"confirm", "record", "away", "draw"} => Left(j.open)
    /\ j.step = "confirm" => j.set # {}

\* One redraw at a time; only a save of the picker may still be on its way when
\* the check is built.
Alone ==
    \A g, h \in Drawing : g # h => {job[g].step, job[h].step} = {"send", "recheck"}

Unposted ==
    /\ \A m \in Meals : shown[m] = "none"
    /\ \A b \in Button : buttons[b] = {}
    /\ \A h \in Drawing : job[h].step \in {"send", "recheck"}

Posted ==
    /\ \A m \in Meals : shown[m] # "none"
    /\ \A h \in Drawing : job[h].step # "send"

\* The check is recorded with its message, or about to be.
Stage ==
    \/ Unposted /\ ~evening.saved
    \/ Posted /\ (evening.saved \/ \E h \in Drawing : job[h].step = "keep")

ShownTrue ==
    /\ (\A h \in Drawing : job[h].step = "keep") => Holds(shown)
    /\ (\E h \in Drawing : job[h].step = "keep") => \A m \in Meals : shown[m] # "away"

InOrder == Alone /\ Stage /\ (\A h \in Drawing : JobTrue(job[h])) /\ ShownTrue

CheckInv == ~disturbed => InOrder

\* What the calls of the store leave of the answers there are.
Answered ==
    /\ \A m \in Meals : EatenAt(m) # {} => EatenAt(m)' # {}
    /\ evening.away \subseteq evening'.away
    /\ evening'.saved = evening.saved

LEMMA AnsweredKeeps ==
    ASSUME Answered
    PROVE  /\ \A says : Holds(says) => Holds(says)'
           /\ \A open : Left(open) => Left(open)'
           /\ \A j : JobTrue(j) => JobTrue(j)'
  <1>1. \A says : Holds(says) => Holds(says)'
    BY DEF Answered, Holds
  <1>2. \A open : Left(open) => Left(open)'
    BY DEF Answered, Left
  <1> QED
    BY <1>1, <1>2 DEF JobTrue

\* What is drawn when the answered meals are left out is so.
LEMMA ViewHolds ==
    ASSUME NEW open, Left(open)
    PROVE  Holds(View(open).says)
  BY DEF Left, Holds, View

\* The calls that answer no meal otherwise.
LEMMA Rows ==
    ASSUME TablesOK, UNCHANGED evening, \A k \in Key : row[k] = "eaten" => row'[k] = "eaten"
    PROVE  Answered
  BY DEF TablesOK, Answered, EatenAt, RowsAt, Key

LEMMA CatalogueAnswers ==
    ASSUME TablesOK, UNCHANGED <<row, evening>>
    PROVE  Answered
  BY DEF TablesOK, Answered, EatenAt, RowsAt

LEMMA CallAnswers ==
    ASSUME TablesOK, NEW m \in Meals, NEW d \in Dishes,
           \/ PlanMeal(d, m) \/ \E D \in SUBSET Dishes : SetPlan(m, D)
           \/ RecordEaten(d, m) \/ DropPlans(m) \/ TurnDown(d, m)
    PROVE  Answered
  <1>1. UNCHANGED evening
    BY DEF PlanMeal, SetPlan, RecordEaten, DropPlans, TurnDown
  <1>2. \A k \in Key : row[k] = "eaten" => row'[k] = "eaten"
    <2>1. CASE PlanMeal(d, m) \/ \E D \in SUBSET Dishes : SetPlan(m, D)
      <3>1. EatenAt(m) = {} => \A k \in Key : k[2] = m => row[k] # "eaten"
        BY DEF EatenAt, RowsAt, Key
      <3> QED
        BY <2>1, <3>1 DEF PlanMeal, SetPlan
    <2>2. CASE RecordEaten(d, m)
      BY <2>2 DEF RecordEaten, TablesOK
    <2>3. CASE DropPlans(m)
      BY <2>3 DEF DropPlans
    <2>4. CASE TurnDown(d, m)
      BY <2>4 DEF TurnDown, TablesOK
    <2> QED
      BY <2>1, <2>2, <2>3, <2>4
  <1> QED
    BY <1>1, <1>2, Rows

\* A step that no redraw takes part in.
Apart ==
    /\ Answered
    /\ UNCHANGED <<check, disturbed>>
    /\ \A h \in Handlers : h \in Drawing \/ job'[h].step \in DrawSteps => job'[h] = job[h]

LEMMA ApartKeeps ==
    ASSUME CheckInv, Apart
    PROVE  CheckInv'
  <1> SUFFICES ASSUME InOrder PROVE InOrder'
    BY DEF CheckInv, Apart
  <1>1. Drawing' = Drawing /\ \A h \in Drawing : job'[h] = job[h]
    BY DEF Apart, Drawing
  <1>2. UNCHANGED <<shown, buttons>> /\ evening'.saved = evening.saved
    BY DEF Apart, Answered, check
  <1>3. Alone'
    BY <1>1 DEF InOrder, Alone
  <1>4. Stage'
    BY <1>1, <1>2 DEF InOrder, Stage, Posted, Unposted
  <1>5. (\A h \in Drawing : JobTrue(job[h]))'
    BY <1>1, AnsweredKeeps DEF InOrder, Apart
  <1>6. ShownTrue'
    BY <1>1, <1>2, AnsweredKeeps DEF InOrder, ShownTrue, Apart
  <1> QED
    BY <1>3, <1>4, <1>5, <1>6 DEF InOrder

\* A step of a handler outside the check.
LEMMA Elsewhere ==
    ASSUME NEW h \in Handlers, NEW j, job \in [Handlers -> Job], Goto(h, j),
           h \notin Drawing, j.step \notin DrawSteps
    PROVE  \A g \in Handlers : g \in Drawing \/ job'[g].step \in DrawSteps => job'[g] = job[g]
  BY DEF Goto, Drawing

\* A redraw goes on, or ends: nobody else is at one.
LEMMA OneGoesOn ==
    ASSUME NEW h \in Handlers, NEW j, job \in [Handlers -> Job], Goto(h, j), Drawing \subseteq {h}
    PROVE  /\ Drawing' = IF j.step \in DrawSteps THEN {h} ELSE {}
           /\ job'[h] = j
  BY DEF Goto, Drawing

\* What a person's act outside the check leaves.
LEMMA ActApart ==
    ASSUME TypeOK, Journal,
           \/ \E d \in Dishes, m \in Meals : MenuTap(d, m)
           \/ \E m \in Meals, D \in SUBSET Dishes : PlannerSave(m, D)
           \/ \E d \in Dishes : Suggest(d) \/ NameDish(d) \/ SuggestAdd(d)
           \/ \E h \in Handlers, d \in Dishes : SuggestNo(h, d) \/ CardNew(h, d)
           \/ \E K, N \in SUBSET Dishes, m \in Meals : CardSend(K, N, m)
           \/ \E on \in SUBSET Dishes : CardCorrect(on)
           \/ \E m \in Meals : CardMeal(m)
           \/ \E h \in Handlers : CardConfirm(h)
           \/ CardCancel
    PROVE  Apart
  <1> USE DEF Apart
  <1>1. TablesOK /\ job \in [Handlers -> Job]
    BY DEF Journal, TypeOK
  <1>2. ASSUME NEW d \in Dishes, NEW m \in Meals, MenuTap(d, m)
        PROVE  Apart
    BY <1>1, <1>2, CallAnswers DEF MenuTap, history
  <1>3. ASSUME NEW m \in Meals, NEW D \in SUBSET Dishes, PlannerSave(m, D)
        PROVE  Apart
    <2>1. SetPlan(m, D) /\ UNCHANGED <<check, job, disturbed>>
      BY <1>3 DEF PlannerSave, history
    <2>2. Answered
      <3>1. CASE Dishes = {}
        <4>1. UNCHANGED evening /\ \A k \in Key : row[k] # "eaten"
          BY <2>1, <3>1 DEF SetPlan, Key
        <4> QED
          BY <1>1, <4>1, Rows
      <3>2. ASSUME NEW d \in Dishes
            PROVE  Answered
        BY <1>1, <2>1, CallAnswers
      <3> QED
        BY <3>1, <3>2
    <2> QED
      BY <2>1, <2>2
  <1>4. ASSUME NEW d \in Dishes, Suggest(d) \/ NameDish(d) \/ SuggestAdd(d)
        PROVE  Apart
    <2>1. UNCHANGED <<row, evening, check, job, disturbed>>
      BY <1>4 DEF Suggest, NameDish, SuggestAdd, CreateDish, EnsureDish, SetDishStatus, history
    <2> QED
      BY <1>1, <2>1, CatalogueAnswers
  <1>5. ASSUME UNCHANGED <<tables, check, disturbed>>, NEW h \in Handlers, h \notin Drawing,
               NEW j, Goto(h, j), j.step \notin DrawSteps
        PROVE  Apart
    <2>1. Answered
      BY <1>1, <1>5, CatalogueAnswers DEF tables
    <2> QED
      BY <1>1, <1>5, <2>1, Elsewhere
  <1>6. "idle" \notin DrawSteps /\ "no" \notin DrawSteps /\ "no?" \notin DrawSteps
        /\ "new" \notin DrawSteps /\ "plate" \notin DrawSteps
    BY DEF DrawSteps
  <1>7. \A h \in Handlers : job[h].step = "idle" => h \notin Drawing
    BY <1>6 DEF Drawing
  <1>8. ASSUME NEW h \in Handlers, NEW d \in Dishes, SuggestNo(h, d)
        PROVE  Apart
    <2>1. PICK s \in {"no", "no?"} : Goto(h, [step |-> s, dish |-> d])
      BY <1>8 DEF SuggestNo
    <2>2. UNCHANGED <<tables, check, disturbed>> /\ h \notin Drawing
      BY <1>7, <1>8 DEF SuggestNo, history
    <2> QED
      BY <1>5, <1>6, <2>1, <2>2
  <1>9. ASSUME NEW h \in Handlers, NEW d \in Dishes, CardNew(h, d)
        PROVE  Apart
    <2>1. Goto(h, [step |-> "new", dish |-> d]) /\ UNCHANGED <<tables, check, disturbed>> /\ h \notin Drawing
      BY <1>7, <1>9 DEF CardNew, history
    <2> QED
      BY <1>5, <1>6, <2>1
  <1>10. ASSUME NEW h \in Handlers, CardConfirm(h)
         PROVE  Apart
    <2>1. /\ Goto(h, [step |-> "plate", set |-> card.on])
          /\ UNCHANGED <<tables, check, disturbed>> /\ h \notin Drawing
      BY <1>7, <1>10 DEF CardConfirm, history
    <2> QED
      BY <1>5, <1>6, <2>1
  <1>11. CASE \/ \E K, N \in SUBSET Dishes, m \in Meals : CardSend(K, N, m)
              \/ \E on \in SUBSET Dishes : CardCorrect(on)
              \/ \E m \in Meals : CardMeal(m)
              \/ CardCancel
    <2>1. UNCHANGED <<row, evening, check, job, disturbed>>
      BY <1>11 DEF CardSend, CardCorrect, CardMeal, CardCancel, CardSet, tables, history
    <2> QED
      BY <1>1, <2>1, CatalogueAnswers
  <1> QED
    BY <1>2, <1>3, <1>4, <1>8, <1>9, <1>10, <1>11

\* What the bot does outside the check leaves.
LEMMA WorkApart ==
    ASSUME TypeOK, Journal, OneWriterPerCard, NEW h \in Handlers,
           \/ NoEaten(h) \/ NoWrite(h) \/ NewWrite(h) \/ NewPut(h)
           \/ \E d \in Dishes : PlateWrite(h, d)
           \/ PlateDone(h) \/ PlateFail(h)
           \/ Fail(h) /\ h \notin Drawing
    PROVE  Apart
  <1> USE DEF Apart
  <1>1. TablesOK /\ job \in [Handlers -> Job] /\ job[h] \in Job
    BY DEF Journal, TypeOK
  <1>2. \A s \in {"idle", "no", "no?", "new", "put", "plate"} : s \notin DrawSteps
    BY DEF DrawSteps
  <1>3. Idle.step = "idle"
    BY DEF Idle
  <1>4. ASSUME Answered, UNCHANGED <<check, disturbed>>, h \notin Drawing,
               NEW j, Goto(h, j), j.step \notin DrawSteps
        PROVE  Apart
    BY <1>1, <1>4, Elsewhere
  <1>5. UNCHANGED <<row, evening>> => Answered
    BY <1>1, CatalogueAnswers
  <1>6. CASE NoEaten(h)
    <2> DEFINE d == job[h].dish
    <2>1. Goto(h, Idle) \/ Goto(h, [step |-> "no", dish |-> d])
      BY <1>6 DEF NoEaten
    <2>2. UNCHANGED <<row, evening, check, disturbed>> /\ h \notin Drawing
      BY <1>2, <1>6 DEF NoEaten, tables, history, Drawing
    <2> HIDE DEF d
    <2> QED
      BY <1>2, <1>3, <1>4, <1>5, <2>1, <2>2
  <1>7. CASE NoWrite(h)
    <2>1. Goto(h, Idle) /\ UNCHANGED <<row, evening, check, disturbed>> /\ h \notin Drawing
      BY <1>2, <1>7 DEF NoWrite, SetDishStatus, history, Drawing
    <2> QED
      BY <1>2, <1>3, <1>4, <1>5, <2>1
  <1>8. CASE NewWrite(h)
    <2> DEFINE j == [job[h] EXCEPT !.step = "put"]
    <2>1. j.step = "put"
      BY <1>1, <1>8 DEF NewWrite, Job
    <2>2. Goto(h, j) /\ UNCHANGED <<row, evening, check, disturbed>> /\ h \notin Drawing
      BY <1>2, <1>8 DEF NewWrite, EnsureDish, history, Drawing
    <2> HIDE DEF j
    <2> QED
      BY <1>2, <1>4, <1>5, <2>1, <2>2
  <1>9. CASE NewPut(h) \/ PlateDone(h) \/ PlateFail(h)
    <2>1. Goto(h, Idle) /\ UNCHANGED <<row, evening, check, disturbed>> /\ h \notin Drawing
      BY <1>2, <1>9 DEF NewPut, PlateDone, PlateFail, tables, history, Drawing
    <2> QED
      BY <1>2, <1>3, <1>4, <1>5, <2>1
  <1>10. ASSUME NEW d \in Dishes, PlateWrite(h, d)
         PROVE  Apart
    <2> DEFINE j == [job[h] EXCEPT !.set = @ \ {d}]
    <2>1. j.step = "plate"
      BY <1>1, <1>10 DEF PlateWrite, Job
    <2>2. Goto(h, j) /\ UNCHANGED <<check, disturbed>> /\ h \notin Drawing
      BY <1>2, <1>10 DEF PlateWrite, history, Drawing
    <2>3. CardOpen
      BY <1>10 DEF PlateWrite, OneWriterPerCard
    <2>4. card.meal \in Meals
      BY <2>3 DEF TypeOK, Card, OpenCard, CardOpen
    <2>5. RecordEaten(d, card.meal)
      BY <1>10 DEF PlateWrite
    <2>6. Answered
      BY <1>1, <2>4, <2>5, CallAnswers
    <2> HIDE DEF j
    <2> QED
      BY <1>2, <1>4, <2>1, <2>2, <2>6
  <1>11. CASE Fail(h) /\ h \notin Drawing
    <2>1. Goto(h, Idle) /\ UNCHANGED <<row, evening, check>> /\ disturbed' = (disturbed \/ FALSE)
      BY <1>11 DEF Fail, tables
    <2>2. UNCHANGED disturbed
      BY <2>1 DEF TypeOK
    <2> QED
      BY <1>2, <1>3, <1>4, <1>5, <1>11, <2>1, <2>2
  <1> QED
    BY <1>6, <1>7, <1>8, <1>9, <1>10, <1>11

\* Where the redraws are in order and this handler does not build the check or
\* look whether there is one, nobody else is at it.
LEMMA Only ==
    ASSUME InOrder, NEW h \in Drawing, job[h].step \notin {"send", "recheck"}
    PROVE  Drawing = {h}
  BY DEF InOrder, Alone

\* A handler that is past the button: the check is posted and recorded.
LEMMA PastTheButton ==
    ASSUME InOrder, NEW h \in Drawing, job[h].step \notin {"send", "recheck", "keep"}
    PROVE  Drawing = {h} /\ Posted /\ evening.saved
  <1>1. Drawing = {h}
    BY Only
  <1> QED
    BY <1>1 DEF InOrder, Stage, Unposted

\* A check that stays posted and recorded, with one handler in flight whose
\* business is so.
LEMMA OneInOrder ==
    ASSUME NEW h \in Handlers, Drawing' = {h}, Posted', evening'.saved,
           job'[h].step # "keep", JobTrue(job[h])'
    PROVE  InOrder'
  BY DEF InOrder, Alone, Stage, ShownTrue

\* The answer of a tap is written, or only looked up.
LEMMA AnswerKeeps ==
    ASSUME TypeOK, Journal, CheckInv, NEW h \in Handlers,
           ConfirmYes(h) \/ RecordPick(h) \/ Away(h) \/ ReadDay(h)
    PROVE  CheckInv'
  <1> SUFFICES ASSUME InOrder PROVE InOrder'
    BY DEF CheckInv, ConfirmYes, RecordPick, Away, ReadDay, history
  <1>1. TablesOK /\ job \in [Handlers -> Job] /\ job[h] \in Job
    BY DEF Journal, TypeOK
  <1>2. h \in Drawing /\ job[h].step \notin {"send", "recheck", "keep"} /\ JobTrue(job[h])
    BY DEF InOrder, ConfirmYes, RecordPick, Away, ReadDay, Drawing, DrawSteps
  <1>3. Drawing = {h} /\ Posted /\ evening.saved
    BY <1>2, PastTheButton
  <1>4. ASSUME UNCHANGED shown, evening'.saved, NEW j, Goto(h, j),
               j.step \in {"draw", "edit"}, JobTrue(j)'
        PROVE  InOrder'
    <2>1. Drawing' = {h} /\ job'[h] = j
      BY <1>1, <1>3, <1>4, OneGoesOn DEF DrawSteps
    <2>2. Posted'
      BY <1>3, <1>4, <2>1 DEF Posted
    <2>3. JobTrue(job[h])'
      BY <1>4, <2>1
    <2> QED
      BY <1>4, <2>1, <2>2, <2>3, OneInOrder
  <1>5. ASSUME UNCHANGED shown, evening'.saved, NEW open, Goto(h, Draw(open)), Left(open)'
        PROVE  InOrder'
    <2>1. Draw(open).step = "draw" /\ JobTrue(Draw(open))'
      BY <1>5 DEF Draw, JobTrue
    <2> QED
      BY <1>4, <1>5, <2>1
  <1> DEFINE m == job[h].meal
             D == job[h].set
  <1>10. PICK open : open = job[h].open
    OBVIOUS
  <1>6. CASE ConfirmYes(h)
    <2>1. m \in Meals /\ D \subseteq Dishes /\ D # {} /\ Left(open)
      BY <1>1, <1>2, <1>6, <1>10, JobParts DEF ConfirmYes, JobTrue
    <2>2. SetEaten(m, D) /\ UNCHANGED <<shown, evening>> /\ Goto(h, Draw(open))
      BY <1>6, <1>10 DEF ConfirmYes, SetEaten, check
    <2> HIDE DEF m, D
    <2>3. \A n \in Meals : EatenAt(n) # {} => EatenAt(n)' # {}
      BY <2>1, <2>2 DEF SetEaten, EatenAt, RowsAt, Key
    <2>4. Left(open)'
      BY <2>1, <2>2, <2>3 DEF Left
    <2> QED
      BY <1>3, <1>5, <2>2, <2>4
  <1>7. CASE RecordPick(h)
    <2>1. job[h].dish \in Dishes /\ m \in Meals /\ Left(open)
      BY <1>1, <1>2, <1>7, <1>10, JobParts DEF RecordPick, JobTrue
    <2>2. RecordEaten(job[h].dish, m) /\ UNCHANGED <<shown, evening>> /\ Goto(h, Draw(open))
      BY <1>7, <1>10 DEF RecordPick, RecordEaten, check
    <2>3. Answered
      BY <1>1, <2>1, <2>2, CallAnswers
    <2>4. Left(open)'
      BY <2>1, <2>3, AnsweredKeeps
    <2> QED
      BY <1>3, <1>5, <2>2, <2>4
  <1>8. CASE Away(h)
    <2>1. Left(open)
      BY <1>2, <1>8, <1>10 DEF Away, JobTrue
    <2>2. PICK rest : rest = open \ {m}
      OBVIOUS
    <2>3. /\ UNCHANGED <<shown, status, row>> /\ Goto(h, Draw(rest))
          /\ evening' = [evening EXCEPT !.away = @ \cup {m}]
      BY <1>3, <1>8, <1>10, <2>2 DEF Away, MarkAway, check
    <2>4. evening'.saved /\ evening'.away = evening.away \cup {m}
      BY <1>1, <1>3, <2>3 DEF TablesOK
    <2> HIDE DEF m
    <2>5. Left(rest)'
      BY <2>1, <2>2, <2>3, <2>4 DEF Left, EatenAt, RowsAt
    <2> QED
      BY <1>5, <2>3, <2>4, <2>5
  <1>9. CASE ReadDay(h)
    <2>0. PICK view : view = View(open)
      OBVIOUS
    <2>1. Holds(view.says)
      BY <1>2, <1>9, <1>10, <2>0, ViewHolds DEF ReadDay, JobTrue
    <2>2. Goto(h, [step |-> "edit", view |-> view]) /\ UNCHANGED <<shown, row, evening>>
      BY <1>9, <1>10, <2>0 DEF ReadDay, tables, check
    <2>3. JobTrue([step |-> "edit", view |-> view])'
      BY <2>1, <2>2 DEF JobTrue, Holds, EatenAt, RowsAt
    <2> QED
      BY <1>3, <1>4, <2>2, <2>3
  <1> QED
    BY <1>6, <1>7, <1>8, <1>9

\* The check is edited.
LEMMA EditKeeps ==
    ASSUME TypeOK, CheckInv, NEW h \in Handlers, Edit(h)
    PROVE  CheckInv'
  <1> SUFFICES ASSUME InOrder PROVE InOrder'
    BY DEF CheckInv, Edit, history
  <1>1. h \in Drawing /\ job[h].step \notin {"send", "recheck", "keep"} /\ job[h].step = "edit"
    BY DEF Edit, Drawing, DrawSteps
  <1>2. Drawing = {h} /\ Posted /\ evening.saved
    BY <1>1, PastTheButton
  <1>3. Holds(job[h].view.says) /\ job[h].view.says \in [Meals -> {"eaten", "ask", "away"}]
    BY <1>1, JobParts DEF InOrder, JobTrue, TypeOK
  <1>4. Goto(h, Idle) /\ UNCHANGED <<row, evening>> /\ shown' = job[h].view.says
    BY DEF Edit, tables, Put
  <1>5. Drawing' = {}
    BY <1>2, <1>4, OneGoesOn DEF TypeOK, Idle, DrawSteps
  <1>6. Holds(shown)'
    BY <1>3, <1>4 DEF Holds, EatenAt, RowsAt
  <1>7. Posted'
    BY <1>3, <1>4, <1>5 DEF Posted
  <1> QED
    BY <1>2, <1>4, <1>5, <1>6, <1>7 DEF InOrder, Alone, Stage, ShownTrue

\* The check is built, sent and recorded.
LEMMA BuildKeeps ==
    ASSUME TypeOK, CheckInv, NEW h \in Handlers, BuildCheck(h)
    PROVE  CheckInv'
  <1>0. PICK view : view = View(Meals)
    OBVIOUS
  <1> DEFINE j == [step |-> "send", view |-> view]
  <1> SUFFICES ASSUME InOrder PROVE InOrder'
    BY DEF CheckInv, BuildCheck, history
  <1>1. /\ Goto(h, j) /\ UNCHANGED <<row, evening, shown, buttons>> /\ h \notin Drawing
        /\ \A g \in Drawing : job[g].step # "send"
    BY <1>0 DEF BuildCheck, tables, check, history, Drawing, DrawSteps
  <1>2. Unposted /\ ~evening.saved
    BY DEF BuildCheck, InOrder, Stage, Posted
  <1>3. Holds(view.says) /\ \A m \in Meals : view.says[m] # "away"
    <2>1. Left(Meals)
      BY DEF Left
    <2> QED
      BY <1>0, <2>1, ViewHolds DEF View
  <1>4. j.step = "send" /\ JobTrue(j)'
    BY <1>1, <1>3 DEF JobTrue, Holds, EatenAt, RowsAt
  <1> HIDE DEF j
  <1>5. /\ Drawing' = Drawing \cup {h} /\ job'[h] = j
        /\ \A g \in Drawing : job'[g] = job[g] /\ job[g].step = "recheck"
    BY <1>1, <1>2, <1>4 DEF TypeOK, Goto, Drawing, DrawSteps, Unposted
  <1>6. Alone'
    BY <1>4, <1>5 DEF InOrder, Alone
  <1>7. Unposted' /\ ~evening'.saved
    BY <1>1, <1>2, <1>4, <1>5 DEF Unposted
  <1>8. (\A g \in Drawing : JobTrue(job[g]))'
    BY <1>4, <1>5 DEF JobTrue
  <1>9. ShownTrue'
    BY <1>4, <1>5 DEF ShownTrue
  <1> QED
    BY <1>6, <1>7, <1>8, <1>9 DEF InOrder, Stage

LEMMA SendKeeps ==
    ASSUME TypeOK, CheckInv, NEW h \in Handlers, SendCheck(h)
    PROVE  CheckInv'
  <1> DEFINE j == [step |-> "keep"]
  <1> SUFFICES ASSUME InOrder, Drawing = {h} PROVE InOrder'
    BY DEF CheckInv, SendCheck
  <1>1. job[h].step = "send" /\ h \in Drawing
    BY DEF SendCheck
  <1>2. /\ Holds(job[h].view.says) /\ job[h].view.says \in [Meals -> {"eaten", "ask", "away"}]
        /\ \A m \in Meals : job[h].view.says[m] # "away"
    BY <1>1, JobParts DEF InOrder, JobTrue, TypeOK
  <1>3. Goto(h, j) /\ UNCHANGED <<row, evening>> /\ shown' = job[h].view.says
    BY DEF SendCheck, tables, Put
  <1>4. Drawing' = {h} /\ job'[h] = j /\ j.step = "keep"
    BY <1>3, OneGoesOn DEF TypeOK, DrawSteps
  <1> HIDE DEF j
  <1>5. Holds(shown)'
    BY <1>2, <1>3 DEF Holds, EatenAt, RowsAt
  <1>6. Posted'
    BY <1>2, <1>3, <1>4 DEF Posted
  <1>7. ShownTrue'
    BY <1>2, <1>3, <1>5 DEF ShownTrue
  <1>8. JobTrue(j)'
    BY <1>4 DEF JobTrue
  <1> QED
    BY <1>4, <1>6, <1>7, <1>8 DEF InOrder, Alone, Stage, JobTrue

LEMMA KeepKeeps ==
    ASSUME TypeOK, CheckInv, NEW h \in Handlers, KeepCheck(h)
    PROVE  CheckInv'
  <1> SUFFICES ASSUME InOrder PROVE InOrder'
    BY DEF CheckInv, KeepCheck, history
  <1>1. h \in Drawing /\ job[h].step = "keep"
    BY DEF KeepCheck, Drawing, DrawSteps
  <1>2. Drawing = {h}
    BY <1>1, Only
  <1>3. Posted /\ Holds(shown) /\ \A m \in Meals : shown[m] # "away"
    BY <1>1, <1>2 DEF InOrder, Stage, Unposted, ShownTrue
  <1>4. /\ Goto(h, Idle) /\ UNCHANGED <<row, shown>>
        /\ evening' = [saved |-> TRUE, away |-> {}]
    BY DEF KeepCheck, SaveEveningMessage, check
  <1>5. Drawing' = {}
    BY <1>2, <1>4, OneGoesOn DEF TypeOK, Idle, DrawSteps
  <1>6. Holds(shown)'
    BY <1>3, <1>4 DEF Holds, EatenAt, RowsAt
  <1>7. Posted' /\ evening'.saved
    BY <1>3, <1>4, <1>5 DEF Posted
  <1> QED
    BY <1>5, <1>6, <1>7 DEF InOrder, Alone, Stage, ShownTrue

\* A button is pressed: with no redraw under way the check was posted and
\* recorded, and what it does not ask about is answered.
LEMMA PressKeeps ==
    ASSUME TypeOK, Journal, CheckInv, NEW h \in Handlers, NEW m \in Meals,
           AnswerHome(h, m) \/ \E d \in Dishes : \/ AnswerYes(h, m, d) \/ AnswerPick(h, m, d)
                                                 \/ AnswerReject(h, m, d)
    PROVE  CheckInv'
  <1>1. /\ job[h].step = "idle" /\ UNCHANGED <<shown, buttons>>
        /\ disturbed' = (disturbed \/ Drawing # {})
    BY DEF AnswerHome, AnswerYes, AnswerPick, AnswerReject, Press, check
  <1> SUFFICES ASSUME InOrder, Drawing = {}
               PROVE  InOrder'
    BY <1>1 DEF CheckInv
  <1>2. TablesOK /\ job \in [Handlers -> Job]
    BY DEF Journal, TypeOK
  <1>3. Answered
    <2>1. CASE AnswerHome(h, m)
      <3>1. DropPlans(m) /\ UNCHANGED evening
        BY <2>1 DEF AnswerHome, DropPlans
      <3>2. \A k \in Key : row[k] = "eaten" => row'[k] = "eaten"
        BY <3>1 DEF DropPlans
      <3> QED
        BY <1>2, <3>1, <3>2, Rows
    <2>2. ASSUME NEW d \in Dishes, AnswerYes(h, m, d) \/ AnswerPick(h, m, d)
          PROVE  Answered
      <3>1. UNCHANGED <<row, evening>>
        BY <2>2 DEF AnswerYes, AnswerPick, tables
      <3> QED
        BY <1>2, <3>1, CatalogueAnswers
    <2>3. ASSUME NEW d \in Dishes, AnswerReject(h, m, d)
          PROVE  Answered
      BY <1>2, <2>3, CallAnswers DEF AnswerReject
    <2> QED
      BY <2>1, <2>2, <2>3
  <1>4. Posted /\ evening.saved /\ Holds(shown)
    <2>1. ~Unposted
      BY DEF AnswerHome, AnswerYes, AnswerPick, AnswerReject, Unposted, Button, TypeOK
    <2> QED
      BY <2>1 DEF InOrder, Stage, ShownTrue
  <1>5. Left(Asked)
    BY <1>4 DEF Posted, Holds, Left, Asked, TypeOK
  <1>6. ASSUME NEW open, Left(open), NEW j, Goto(h, j),
               j.step \in {"confirm", "record", "away", "draw"}, j.open = open,
               j.step = "confirm" => j.set # {}
        PROVE  InOrder'
    <2>1. Drawing' = {h} /\ job'[h] = j
      BY <1>2, <1>6, OneGoesOn DEF DrawSteps
    <2>2. Posted'
      BY <1>1, <1>4, <1>6, <2>1 DEF Posted
    <2>3. JobTrue(j)
      BY <1>6 DEF JobTrue
    <2>4. JobTrue(j)'
      BY <1>3, <2>3, AnsweredKeeps
    <2>5. JobTrue(job[h])'
      BY <2>1, <2>4
    <2>6. evening'.saved
      BY <1>3, <1>4 DEF Answered
    <2> QED
      BY <1>6, <2>1, <2>2, <2>5, <2>6, OneInOrder
  <1>7. PICK open : open = Asked
    OBVIOUS
  <1>8. CASE AnswerHome(h, m)
    <2>1. Goto(h, [step |-> "away", meal |-> m, open |-> open])
      BY <1>7, <1>8 DEF AnswerHome, Press
    <2> QED
      BY <1>5, <1>6, <1>7, <2>1
  <1>9. ASSUME Goto(h, Draw(open)) PROVE InOrder'
    BY <1>5, <1>6, <1>7, <1>9 DEF Draw
  <1>10. ASSUME NEW d \in Dishes, AnswerYes(h, m, d)
         PROVE  InOrder'
    <2>1. PICK plan : plan = IF PlannedAt(m) = {} THEN {d} ELSE PlannedAt(m)
      OBVIOUS
    <2>2. \/ Goto(h, Draw(open))
          \/ Goto(h, [step |-> "confirm", meal |-> m, set |-> plan, open |-> open])
      BY <1>7, <1>10, <2>1 DEF AnswerYes, Press
    <2>3. plan # {}
      BY <2>1
    <2> QED
      BY <1>5, <1>6, <1>7, <1>9, <2>2, <2>3
  <1>11. ASSUME NEW d \in Dishes, AnswerPick(h, m, d)
         PROVE  InOrder'
    <2>1. \/ Goto(h, Draw(open))
          \/ Goto(h, [step |-> "record", meal |-> m, dish |-> d, open |-> open])
      BY <1>7, <1>11 DEF AnswerPick, Press
    <2> QED
      BY <1>5, <1>6, <1>7, <1>9, <2>1
  <1>12. ASSUME NEW d \in Dishes, AnswerReject(h, m, d)
         PROVE  InOrder'
    <2>1. PICK wider : wider = open \cup {m}
      OBVIOUS
    <2>2. Goto(h, Draw(wider))
      BY <1>7, <1>12, <2>1 DEF AnswerReject, Press
    <2>3. Left(wider)
      BY <1>5, <1>7, <2>1 DEF Left
    <2> QED
      BY <1>6, <2>2, <2>3 DEF Draw
  <1> QED
    BY <1>8, <1>10, <1>11, <1>12

\* The picker saves, and its redraw looks whether there is a check.
LEMMA PickerKeeps ==
    ASSUME TypeOK, CheckInv, NEW h \in Handlers, NEW m \in Meals, NEW D \in SUBSET Dishes,
           PickerSave(h, m, D)
    PROVE  CheckInv'
  <1>1. /\ Goto(h, [step |-> "recheck"]) /\ UNCHANGED <<shown, buttons, evening>>
        /\ disturbed' = (disturbed \/ Drawing # {})
    BY DEF PickerSave, SetEaten, check
  <1> SUFFICES ASSUME InOrder, Drawing = {}
               PROVE  InOrder'
    BY <1>1 DEF CheckInv
  <1>2. Drawing' = {h} /\ job'[h].step = "recheck"
    BY <1>1, OneGoesOn DEF TypeOK, DrawSteps
  <1>3. Stage'
    BY <1>1, <1>2 DEF InOrder, Stage, Posted, Unposted
  <1>4. JobTrue(job[h])'
    BY <1>2 DEF JobTrue
  <1> QED
    BY <1>2, <1>3, <1>4 DEF InOrder, Alone, ShownTrue

LEMMA RecheckKeeps ==
    ASSUME TypeOK, CheckInv, NEW h \in Handlers, Recheck(h)
    PROVE  CheckInv'
  <1> SUFFICES ASSUME InOrder
               PROVE  InOrder'
    BY DEF CheckInv, Recheck, history
  <1>1. /\ h \in Drawing /\ job[h].step = "recheck" /\ job \in [Handlers -> Job]
        /\ UNCHANGED <<row, evening, shown, buttons>>
    BY DEF Recheck, Drawing, DrawSteps, TypeOK, tables, check
  <1>2. CASE evening.saved
    <2>1. PICK open : open = Meals \ evening.away
      OBVIOUS
    <2>2. Posted /\ Drawing = {h}
      BY <1>1, <1>2 DEF InOrder, Stage, Posted, Alone
    <2>3. Goto(h, Draw(open)) /\ Left(open)
      BY <1>2, <2>1 DEF Recheck, Left
    <2>4. Draw(open).step = "draw" /\ JobTrue(Draw(open))'
      BY <1>1, <2>3 DEF Draw, JobTrue, Left, EatenAt, RowsAt
    <2>5. Drawing' = {h} /\ job'[h] = Draw(open)
      BY <1>1, <2>2, <2>3, <2>4, OneGoesOn DEF DrawSteps
    <2>6. Posted'
      BY <1>1, <2>2, <2>4, <2>5 DEF Posted
    <2>7. JobTrue(job[h])'
      BY <2>4, <2>5
    <2> QED
      BY <1>1, <1>2, <2>4, <2>5, <2>6, <2>7, OneInOrder
  <1>3. CASE ~evening.saved
    <2>1. Goto(h, Idle) /\ Idle.step = "idle"
      BY <1>3 DEF Recheck, Idle
    <2>2. /\ Drawing' = Drawing \ {h}
          /\ \A g \in Drawing \ {h} : job'[g] = job[g] /\ job[g].step = "send"
      BY <1>1, <2>1 DEF Goto, Drawing, DrawSteps, InOrder, Alone
    <2>3. Unposted
      BY <1>1, <1>3 DEF InOrder, Stage, Alone
    <2>4. Holds(shown)'
      BY <1>1, <2>3 DEF Unposted, Holds
    <2>5. Unposted' /\ ~evening'.saved
      BY <1>1, <1>3, <2>2, <2>3 DEF Unposted
    <2>6. ShownTrue'
      BY <2>2, <2>4 DEF ShownTrue
    <2>7. Alone'
      BY <2>2 DEF InOrder, Alone
    <2>8. ASSUME NEW g \in Drawing \ {h}
          PROVE  JobTrue(job[g])'
      BY <1>1, <2>2, <2>8 DEF InOrder, JobTrue, Holds, EatenAt, RowsAt
    <2> QED
      BY <2>2, <2>5, <2>6, <2>7, <2>8 DEF InOrder, Stage
  <1> QED
    BY <1>2, <1>3

\* Every step of the day.
LEMMA CheckStep ==
    ASSUME TypeOK, Journal, OneWriterPerCard, CheckInv, [Next]_vars
    PROVE  CheckInv'
  <1>1. CASE Act
    <2>1. ASSUME NEW h \in Handlers, NEW m \in Meals,
                 \/ AnswerHome(h, m)
                 \/ \E d \in Dishes : AnswerYes(h, m, d) \/ AnswerPick(h, m, d) \/ AnswerReject(h, m, d)
                 \/ \E D \in SUBSET Dishes : PickerSave(h, m, D)
          PROVE  CheckInv'
      BY <2>1, PressKeeps, PickerKeeps
    <2>2. CASE \/ \E d \in Dishes, m \in Meals : MenuTap(d, m)
               \/ \E m \in Meals, D \in SUBSET Dishes : PlannerSave(m, D)
               \/ \E d \in Dishes : Suggest(d) \/ NameDish(d) \/ SuggestAdd(d)
               \/ \E h \in Handlers, d \in Dishes : SuggestNo(h, d) \/ CardNew(h, d)
               \/ \E K, N \in SUBSET Dishes, m \in Meals : CardSend(K, N, m)
               \/ \E on \in SUBSET Dishes : CardCorrect(on)
               \/ \E m \in Meals : CardMeal(m)
               \/ \E h \in Handlers : CardConfirm(h)
               \/ CardCancel
      BY <2>2, ActApart, ApartKeeps
    <2> QED
      BY <1>1, <2>1, <2>2 DEF Act
  <1>2. ASSUME NEW h \in Handlers, Work(h)
        PROVE  CheckInv'
    <2>1. CASE BuildCheck(h) \/ SendCheck(h) \/ KeepCheck(h)
      BY <2>1, BuildKeeps, SendKeeps, KeepKeeps
    <2>2. CASE ConfirmYes(h) \/ RecordPick(h) \/ Away(h) \/ ReadDay(h)
      BY <2>2, AnswerKeeps
    <2>3. CASE Recheck(h) \/ Edit(h)
      BY <2>3, RecheckKeeps, EditKeeps
    <2>4. CASE \/ NoEaten(h) \/ NoWrite(h) \/ NewWrite(h) \/ NewPut(h)
               \/ \E d \in Dishes : PlateWrite(h, d)
               \/ PlateDone(h) \/ PlateFail(h)
               \/ Fail(h) /\ h \notin Drawing
      BY <2>4, WorkApart, ApartKeeps
    <2>5. CASE Fail(h) /\ h \in Drawing
      BY <2>5 DEF Fail, CheckInv
    <2> QED
      BY <1>2, <2>1, <2>2, <2>3, <2>4, <2>5 DEF Work
  <1>3. CASE Restart
    <2>1. CASE Drawing # {}
      BY <1>3, <2>1 DEF Restart, CheckInv
    <2>2. CASE Drawing = {}
      <3>1. UNCHANGED <<row, evening, check, disturbed>>
        BY <1>3, <2>2 DEF Restart, tables, TypeOK
      <3>2. \A h \in Handlers : job'[h].step \notin DrawSteps
        BY <1>3 DEF Restart, Idle, DrawSteps
      <3>3. Answered
        BY <3>1, CatalogueAnswers DEF Journal
      <3>4. Apart
        BY <2>2, <3>1, <3>2, <3>3 DEF Apart
      <3> QED
        BY <3>4, ApartKeeps
    <2> QED
      BY <2>1, <2>2
  <1>4. CASE UNCHANGED vars
    <2>1. UNCHANGED <<row, evening, check, job, disturbed>>
      BY <1>4 DEF vars, tables, history
    <2>2. Answered
      BY <2>1, CatalogueAnswers DEF Journal
    <2>3. Apart
      BY <2>1, <2>2 DEF Apart
    <2> QED
      BY <2>3, ApartKeeps
  <1> QED
    BY <1>1, <1>2, <1>3, <1>4 DEF Next

LEMMA CheckInit ==
    ASSUME Init
    PROVE  CheckInv
  <1>1. Drawing = {}
    BY DEF Init, Drawing, Idle, DrawSteps
  <1>2. Unposted /\ ~evening.saved
    BY <1>1 DEF Init, Unposted
  <1>3. Holds(shown)
    BY <1>2 DEF Unposted, Holds
  <1> QED
    BY <1>1, <1>2, <1>3 DEF CheckInv, InOrder, Alone, Stage, ShownTrue

\* Redraws that come one after the other hold what is so, and the check they
\* leave says what is so (eveningView, redrawEvening, RedrawEvening).
THEOREM CheckInvariant == Spec => []CheckInv
  <1>1. Init => CheckInv
    BY CheckInit
  <1>2. IInv /\ CheckInv /\ [Next]_vars => CheckInv'
    BY CheckStep DEF IInv
  <1> QED
    BY <1>1, <1>2, Inductive, PTL DEF Spec

\* What the check says was answered was, for any meals and dishes and any taps,
\* saves, failures and restarts that leave its redraws in order (applyEveningTap,
\* MarkAway).
THEOREM AnsweredWas == Spec => []AnsweredIsAnswered
  <1>1. CheckInv => AnsweredIsAnswered
    BY DEF CheckInv, InOrder, ShownTrue, Holds, AnsweredIsAnswered
  <1> QED
    BY <1>1, CheckInvariant, PTL

-----------------------------------------------------------------------------
(* Every call is a step of MealRecord, or none of its business. *)

LEMMA RecordInit ==
    ASSUME Init
    PROVE  Record!Init
  <1>1. status \in [Dishes -> Record!Standing]
    BY KitchenAssumption DEF Init, Status, Record!Standing
  <1>2. \A m \in Meals : PlannedAt(m) = {} /\ EatenAt(m) = {}
    BY DEF Init, PlannedAt, EatenAt, RowsAt, Key
  <1> QED
    BY <1>1, <1>2 DEF Record!Init, Planned, Eaten

\* A call that touches the rows of one meal changes that meal only.
LEMMA OtherMeals ==
    ASSUME NEW m \in Meals,
           \A d \in Dishes, n \in Meals : n # m => row'[<<d, n>>] = row[<<d, n>>]
    PROVE  /\ Planned' = [Planned EXCEPT ![m] = Planned'[m]]
           /\ Eaten' = [Eaten EXCEPT ![m] = Eaten'[m]]
  <1>1. \A n \in Meals : n # m => PlannedAt(n)' = PlannedAt(n) /\ EatenAt(n)' = EatenAt(n)
    BY DEF PlannedAt, EatenAt, RowsAt
  <1>2. Planned \in [Meals -> SUBSET Dishes] /\ Eaten \in [Meals -> SUBSET Dishes]
    BY DEF Planned, Eaten, PlannedAt, EatenAt, RowsAt
  <1> QED
    BY <1>1, <1>2 DEF Planned, Eaten

LEMMA SameRows ==
    ASSUME UNCHANGED row
    PROVE  UNCHANGED <<Planned, Eaten>>
  BY DEF Planned, Eaten, PlannedAt, EatenAt, RowsAt

\* A suggestion is made of a new dish, or a verdict is passed on one.
LEMMA DishRecord ==
    ASSUME Journal, NEW d \in Dishes,
           \/ CreateDish(d) \/ EnsureDish(d)
           \/ d \in Known /\ \E s \in {"active", "rejected"} : SetDishStatus(d, s)
    PROVE  [Record!Next]_Record!vars
  <1>1. UNCHANGED <<Planned, Eaten>>
    BY SameRows DEF CreateDish, EnsureDish, SetDishStatus
  <1>2. status \in [Dishes -> Status] /\ Record!Known = Known
    BY DEF Journal, TablesOK, Record!Known, Known
  <1>3. CASE CreateDish(d)
    <2>1. CASE status[d] = "none"
      BY <1>1, <1>2, <1>3, <2>1 DEF CreateDish, Known, Record!Propose, Record!Next
    <2>2. CASE status[d] # "none"
      BY <1>1, <1>2, <1>3, <2>2 DEF CreateDish, Record!vars
    <2> QED BY <2>1, <2>2
  <1>4. CASE EnsureDish(d)
    BY <1>1, <1>4 DEF EnsureDish, Record!Judge, Record!Next
  <1>5. CASE d \in Known /\ \E s \in {"active", "rejected"} : SetDishStatus(d, s)
    BY <1>1, <1>2, <1>5 DEF SetDishStatus, Record!Judge, Record!Next
  <1> QED BY <1>3, <1>4, <1>5

\* A meal that was not eaten is planned with known dishes; an eaten one only loses plans.
LEMMA PlanRecord ==
    ASSUME Journal, NEW m \in Meals,
           \/ DropPlans(m)
           \/ \E d \in Known : PlanMeal(d, m)
           \/ \E D \in SUBSET Known : SetPlan(m, D)
    PROVE  [Record!Next]_Record!vars
  <1>1. UNCHANGED status /\ Record!Known = Known
    BY DEF DropPlans, PlanMeal, SetPlan, Record!Known, Known
  <1>2. \A d \in Dishes, n \in Meals : <<d, n>> \in Key /\ <<d, n>>[1] = d /\ <<d, n>>[2] = n
    BY DEF Key
  <1>3. CASE UNCHANGED row
    BY <1>1, <1>3, SameRows DEF Record!vars
  <1>4. CASE DropPlans(m)
    <2>1. \A d \in Dishes, n \in Meals :
            row'[<<d, n>>] = IF n = m /\ row[<<d, n>>] = "planned" THEN "none" ELSE row[<<d, n>>]
      BY <1>2, <1>4 DEF DropPlans
    <2>2. Planned'[m] = {} /\ Eaten'[m] = Eaten[m]
      BY <2>1 DEF Planned, Eaten, PlannedAt, EatenAt, RowsAt
    <2>3. Planned' = [Planned EXCEPT ![m] = Planned'[m]]
          /\ Eaten' = [Eaten EXCEPT ![m] = Eaten'[m]]
      BY <2>1, OtherMeals
    <2>4. Eaten' = Eaten
      BY <2>2, <2>3 DEF Eaten
    <2>5. Record!Plan(m)
      BY <1>1, <2>2, <2>3, <2>4 DEF Record!Plan
    <2> QED BY <2>5 DEF Record!Next
  <1>5. ASSUME NEW D \in SUBSET Known, EatenAt(m) = {},
               row' = [k \in Key |-> IF k[2] # m THEN row[k]
                                     ELSE IF k[1] \in D THEN "planned" ELSE "none"]
        PROVE  Record!Next
    <2>1. \A d \in Dishes, n \in Meals :
            row'[<<d, n>>] = IF n # m THEN row[<<d, n>>]
                             ELSE IF d \in D THEN "planned" ELSE "none"
      BY <1>2, <1>5
    <2>2. Planned'[m] \subseteq Known /\ Eaten'[m] = {} /\ Eaten[m] = {}
      BY <1>5, <2>1 DEF Planned, Eaten, PlannedAt, EatenAt, RowsAt
    <2>3. Planned' = [Planned EXCEPT ![m] = Planned'[m]]
          /\ Eaten' = [Eaten EXCEPT ![m] = Eaten'[m]]
      BY <2>1, OtherMeals
    <2>4. Eaten' = Eaten
      BY <2>2, <2>3 DEF Eaten
    <2>5. Record!Plan(m)
      BY <1>1, <2>2, <2>3, <2>4 DEF Record!Plan
    <2> QED BY <2>5 DEF Record!Next
  <1>6. CASE \E D \in SUBSET Known : SetPlan(m, D)
    BY <1>3, <1>5, <1>6 DEF SetPlan
  <1>7. CASE \E d \in Known : PlanMeal(d, m)
    <2>1. PICK d \in Known : PlanMeal(d, m)
      BY <1>7
    <2>2. {d} \in SUBSET Known /\ \A e : e \in {d} <=> e = d
      BY <2>1
    <2>3. CASE EatenAt(m) = {}
      <3>1. row' = [k \in Key |-> IF k[2] # m THEN row[k]
                                  ELSE IF k[1] \in {d} THEN "planned" ELSE "none"]
        BY <2>1, <2>3 DEF PlanMeal
      <3> QED BY <1>5, <2>2, <2>3, <3>1
    <2> QED
      BY <1>3, <2>1, <2>3 DEF PlanMeal
  <1> QED BY <1>4, <1>6, <1>7

\* The answer "not ours".
LEMMA TurnDownRecord ==
    ASSUME Journal, NEW m \in Meals, NEW d \in Dishes, TurnDown(d, m)
    PROVE  Record!Next
  <1>1. \A e \in Dishes, n \in Meals :
          row'[<<e, n>>] = IF e = d /\ n = m /\ row[<<e, n>>] = "planned" THEN "none"
                           ELSE row[<<e, n>>]
    BY DEF TurnDown, Journal, TablesOK, Key
  <1>2. Planned'[m] = Planned[m] \ {d} /\ Eaten'[m] = Eaten[m]
    BY <1>1 DEF Planned, Eaten, PlannedAt, EatenAt, RowsAt
  <1>3. Planned' = [Planned EXCEPT ![m] = Planned'[m]]
        /\ Eaten' = [Eaten EXCEPT ![m] = Eaten'[m]]
    BY <1>1, OtherMeals
  <1>4. Eaten' = Eaten
    BY <1>2, <1>3 DEF Eaten
  <1>5. Record!TurnDown(d, m)
    BY <1>2, <1>3, <1>4 DEF TurnDown, Record!TurnDown
  <1> QED BY <1>5 DEF Record!Next

\* One dish was eaten.  A row that was eaten before accepts nothing, and has
\* nothing to: its dish is no proposal.
LEMMA ReportRecord ==
    ASSUME Journal, NEW m \in Meals, NEW d \in Known, RecordEaten(d, m)
    PROVE  Record!Next
  <1>1. d \in Dishes /\ <<d, m>> \in Key /\ Record!Known = Known
    BY DEF Known, Key, Record!Known
  <1>2. \A e \in Dishes, n \in Meals :
          row'[<<e, n>>] = IF e = d /\ n = m THEN "eaten" ELSE row[<<e, n>>]
    BY <1>1 DEF RecordEaten, Journal, TablesOK, Key
  <1>3. Planned'[m] = Planned[m] \ {d} /\ Eaten'[m] = Eaten[m] \cup {d}
    BY <1>1, <1>2 DEF Planned, Eaten, PlannedAt, EatenAt, RowsAt
  <1>4. Planned' = [Planned EXCEPT ![m] = Planned'[m]]
        /\ Eaten' = [Eaten EXCEPT ![m] = Eaten'[m]]
    BY <1>2, OtherMeals
  <1>5. Record!Ate({d})
    <2>1. CASE row[<<d, m>>] = "eaten"
      <3>1. status[d] # "proposed"
        BY <1>1, <2>1 DEF Journal, EatenIsNoProposal, EatenAt, RowsAt
      <3> QED
        BY <2>1, <3>1 DEF RecordEaten, Journal, TablesOK, Record!Ate
    <2>2. CASE row[<<d, m>>] # "eaten"
      BY <2>2 DEF RecordEaten, Accept, Record!Ate
    <2> QED BY <2>1, <2>2
  <1>6. Record!Report(d, m)
    BY <1>1, <1>3, <1>4, <1>5 DEF Record!Report
  <1> QED BY <1>1, <1>6 DEF Record!Next

\* Somebody says exactly what was eaten.
LEMMA SettleRecord ==
    ASSUME Journal, NEW m \in Meals, NEW D \in SUBSET Known, SetEaten(m, D)
    PROVE  Record!Next
  <1>1. D \subseteq Dishes /\ Record!Known = Known
    BY DEF Known, Record!Known
  <1>2. \A d \in Dishes, n \in Meals :
          row'[<<d, n>>] = IF n # m THEN row[<<d, n>>]
                           ELSE IF d \in D THEN "eaten"
                           ELSE IF row[<<d, n>>] = "eaten" THEN "none" ELSE row[<<d, n>>]
    BY DEF SetEaten, Key
  <1>3. Eaten'[m] = D
    BY <1>1, <1>2 DEF Planned, Eaten, PlannedAt, EatenAt, RowsAt
  <1>4. Planned'[m] = Planned[m] \ D
    BY <1>1, <1>2 DEF Planned, Eaten, PlannedAt, EatenAt, RowsAt
  <1>5. Planned' = [Planned EXCEPT ![m] = Planned'[m]]
        /\ Eaten' = [Eaten EXCEPT ![m] = Eaten'[m]]
    BY <1>2, OtherMeals
  <1>6. Record!Ate(D)
    <2>1. \A d \in D : row[<<d, m>>] = "eaten" => status[d] # "proposed"
      BY <1>1 DEF Journal, EatenIsNoProposal, EatenAt, RowsAt
    <2> QED
      BY <2>1 DEF SetEaten, Accept, Record!Ate
  <1>7. Record!Settle(m)
    BY <1>1, <1>3, <1>4, <1>5, <1>6 DEF Record!Settle
  <1> QED BY <1>7 DEF Record!Next

LEMMA RecordNext ==
    ASSUME Journal, Call
    PROVE  [Record!Next]_Record!vars
  <1>1. CASE UNCHANGED <<tables, unset>>
    BY <1>1, SameRows DEF tables, Record!vars
  <1>2. CASE SaveEveningMessage \/ \E m \in Meals : MarkAway(m)
    BY <1>2, SameRows DEF SaveEveningMessage, MarkAway, Record!vars
  <1> QED
    BY <1>1, <1>2, DishRecord, PlanRecord, TurnDownRecord, ReportRecord, SettleRecord DEF Call, Known

\* The screens and their handlers, whatever they interleave, do to the journal
\* what MealRecord lets be done to it.
THEOREM Implements == Spec => ImplementsMeals
  <1>1. Init => Record!Init
    BY RecordInit
  <1>2. IInv /\ [Next]_vars => [Record!Next]_Record!vars
    BY StepInv, RecordNext DEF IInv
  <1> QED
    BY <1>1, <1>2, Inductive, PTL DEF Spec, ImplementsMeals, Record!Spec

=============================================================================
