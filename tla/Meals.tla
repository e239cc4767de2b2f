------------------------------- MODULE Meals -------------------------------
(***************************************************************************)
(* The tables behind the menu, for one day, and the calls of the store that *)
(* write them (internal/store/meals.go, dishes.go, menu_messages.go).       *)
(*                                                                         *)
(*   dishes            the catalogue: family's own, suggested, turned down  *)
(*   meals             one row per dish and meal, planned or eaten          *)
(*   evening_messages  the posted evening check, and who was not at home    *)
(*                                                                         *)
(* Each call is one immediate transaction.  No code deletes a dish, so a    *)
(* dish on a button exists and the calls' ErrNoRows branch cannot be taken. *)
(* Who answered and the leftover mark of a row are left out.                *)
(***************************************************************************)
CONSTANTS
    Dishes,   \* names the family, the model or a person may come up with
    Meals     \* the meals of the day

VARIABLES
    status,   \* table dishes: the status of each name, "none" before it is a row
    row,      \* table meals: the status of the row of each dish and meal
    evening   \* the row of evening_messages: is there one, and its away list

tables == <<status, row, evening>>

Status == {"none", "proposed", "active", "rejected"}
Key == Dishes \X Meals

Known == {d \in Dishes : status[d] # "none"}
RowsAt(m, s) == {d \in Dishes : row[<<d, m>>] = s}
EatenAt(m) == RowsAt(m, "eaten")
PlannedAt(m) == RowsAt(m, "planned")

-----------------------------------------------------------------------------

\* Of a new suggestion; an existing row comes back untouched.
CreateDish(d) ==
    /\ status' = [status EXCEPT ![d] = IF @ = "none" THEN "proposed" ELSE @]
    /\ UNCHANGED <<row, evening>>

\* The dish was eaten or asked for by name: it is the family's.
EnsureDish(d) ==
    /\ status' = [status EXCEPT ![d] = "active"]
    /\ UNCHANGED <<row, evening>>

SetDishStatus(d, s) ==
    /\ status' = [status EXCEPT ![d] = s]
    /\ UNCHANGED <<row, evening>>

\* One dish for one meal: the other plans go, an eaten meal is left alone.
PlanMeal(d, m) ==
    /\ row' = IF EatenAt(m) # {} THEN row
              ELSE [k \in Key |-> IF k[2] # m THEN row[k]
                                  ELSE IF k[1] = d THEN "planned" ELSE "none"]
    /\ UNCHANGED <<status, evening>>

\* Mutant of SetPlan: an eaten meal is planned.
SetPlanAlways(m, D) ==
    /\ row' = [k \in Key |->
                 IF k[2] # m \/ row[k] = "eaten" THEN row[k]
                 ELSE IF k[1] \in D THEN "planned" ELSE "none"]
    /\ UNCHANGED <<status, evening>>

\* D is exactly the plan of the meal, unless it was eaten.
SetPlan(m, D) ==
    /\ row' = IF EatenAt(m) # {} THEN row
              ELSE [k \in Key |-> IF k[2] # m THEN row[k]
                                  ELSE IF k[1] \in D THEN "planned" ELSE "none"]
    /\ UNCHANGED <<status, evening>>

\* recordEatenTx for the dishes of D: a proposal that was eaten is none any more.
Accept(D) ==
    status' = [d \in Dishes |->
                 IF d \in D /\ status[d] = "proposed" THEN "active" ELSE status[d]]

\* Mutant of RecordEaten: the proposal stays one.
RecordOnly(d, m) ==
    /\ row' = [row EXCEPT ![<<d, m>>] = "eaten"]
    /\ UNCHANGED <<status, evening>>

\* Mutant of RecordEaten: INSERT OR IGNORE, which does not confirm a plan.
RecordIgnored(d, m) ==
    /\ row' = [row EXCEPT ![<<d, m>>] = IF @ = "none" THEN "eaten" ELSE @]
    /\ Accept({d})
    /\ UNCHANGED evening

\* A plan of the dish is confirmed, the other plans stay.  An eaten row is
\* already: nothing is written, its dish having been accepted or turned down since.
RecordEaten(d, m) ==
    /\ row' = [row EXCEPT ![<<d, m>>] = "eaten"]
    /\ IF row[<<d, m>>] = "eaten" THEN UNCHANGED status ELSE Accept({d})
    /\ UNCHANGED evening

\* D is exactly what was eaten at the meal.
SetEaten(m, D) ==
    /\ row' = [k \in Key |->
                 IF k[2] # m THEN row[k]
                 ELSE IF k[1] \in D THEN "eaten"
                 ELSE IF row[k] = "eaten" THEN "none" ELSE row[k]]
    /\ Accept({d \in D : row[<<d, m>>] # "eaten"})
    /\ UNCHANGED evening

\* Every plan of the meal goes; what was eaten stands.
DropPlans(m) ==
    /\ row' = [k \in Key |->
                 IF k[2] = m /\ row[k] = "planned" THEN "none" ELSE row[k]]
    /\ UNCHANGED <<status, evening>>

\* The plan of the dish goes; a proposal is rejected, a dish of the family not.
TurnDown(d, m) ==
    /\ row' = [row EXCEPT ![<<d, m>>] = IF @ = "planned" THEN "none" ELSE @]
    /\ status' = [status EXCEPT ![d] = IF @ = "proposed" THEN "rejected" ELSE @]
    /\ UNCHANGED evening

\* Mutant of MarkAway: the list is replaced.
MarkAwayOnly(m) ==
    /\ evening' = IF evening.saved THEN [evening EXCEPT !.away = {m}] ELSE evening
    /\ UNCHANGED <<status, row>>

\* A check that was never recorded has no row to mark.
MarkAway(m) ==
    /\ evening' = IF evening.saved THEN [evening EXCEPT !.away = @ \cup {m}] ELSE evening
    /\ UNCHANGED <<status, row>>

\* Mutant of SaveEveningMessage: the list is not written.
SaveNoAway ==
    /\ evening' = [saved |-> TRUE]
    /\ UNCHANGED <<status, row>>

\* A new question: nobody is away.
SaveEveningMessage ==
    /\ evening' = [saved |-> TRUE, away |-> {}]
    /\ UNCHANGED <<status, row>>

=============================================================================
