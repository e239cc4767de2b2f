----------------------------- MODULE MealRecord -----------------------------
(***************************************************************************)
(* What one day of the meal journal promises to whoever reads it (the menu, *)
(* the evening check, the history), without buttons, cards or messages.  A  *)
(* dish is planned for a meal only while nothing was eaten at it; what was  *)
(* eaten stays until somebody says exactly what the meal was; a suggestion  *)
(* is made once, of a dish nobody knew, and eating it makes it the          *)
(* family's.                                                                *)
(***************************************************************************)
CONSTANTS
    Dishes,
    Meals

VARIABLES
    standing, \* what the family thinks of each dish
    planned,  \* the dishes planned for each meal
    eaten     \* the dishes eaten at each meal

vars == <<standing, planned, eaten>>

Standing == {"none", "proposed", "active", "rejected"}
Known == {d \in Dishes : standing[d] # "none"}

\* The day begins; the catalogue is what it is.
Init ==
    /\ standing \in [Dishes -> Standing]
    /\ planned = [m \in Meals |-> {}]
    /\ eaten = [m \in Meals |-> {}]

\* A dish of D that was only a suggestion is now the family's.
Ate(D) ==
    standing' = [d \in Dishes |->
                   IF d \in D /\ standing[d] = "proposed" THEN "active" ELSE standing[d]]

Propose(d) ==
    /\ d \notin Known
    /\ standing' = [standing EXCEPT ![d] = "proposed"]
    /\ UNCHANGED <<planned, eaten>>

Judge(d, verdict) ==
    /\ standing' = [standing EXCEPT ![d] = verdict]
    /\ UNCHANGED <<planned, eaten>>

\* The plan of a meal is made over, or shrinks.  It gains nothing once something
\* was eaten: nobody would be asked about it again.
Plan(m) ==
    /\ planned'[m] \subseteq IF eaten[m] = {} THEN Known ELSE planned[m]
    /\ planned' = [planned EXCEPT ![m] = planned'[m]]
    /\ UNCHANGED <<standing, eaten>>

\* The answer "not ours": it refuses a suggestion, never a dish of the family.
TurnDown(d, m) ==
    /\ planned' = [planned EXCEPT ![m] = @ \ {d}]
    /\ standing' = [standing EXCEPT ![d] = IF @ = "proposed" THEN "rejected" ELSE @]
    /\ UNCHANGED eaten

\* One dish was eaten; the other plans of the meal stay.
Report(d, m) ==
    /\ d \in Known
    /\ eaten' = [eaten EXCEPT ![m] = @ \cup {d}]
    /\ planned' = [planned EXCEPT ![m] = @ \ {d}]
    /\ Ate({d})

\* Somebody says exactly what was eaten.
Settle(m) ==
    /\ eaten'[m] \subseteq Known
    /\ eaten' = [eaten EXCEPT ![m] = eaten'[m]]
    /\ planned' = [planned EXCEPT ![m] = @ \ eaten'[m]]
    /\ Ate(eaten'[m])

Next ==
    \/ \E d \in Dishes :
         \/ Propose(d) \/ Judge(d, "active")
         \/ d \in Known /\ Judge(d, "rejected")
    \/ \E m \in Meals : Plan(m) \/ Settle(m)
    \/ \E m \in Meals, d \in Dishes : TurnDown(d, m) \/ Report(d, m)

Spec == Init /\ [][Next]_vars

=============================================================================
