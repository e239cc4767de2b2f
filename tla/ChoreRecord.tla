----------------------------- MODULE ChoreRecord -----------------------------
(***************************************************************************)
(* What the chore record promises to whoever reads it (the calendar, the    *)
(* nag, the history page), without passes, rules or switches: an occurrence *)
(* is unrecorded, open, or answered; it is recorded only once its minute    *)
(* has come; an answer may be corrected and never disappears; and only an   *)
(* open entry may be withdrawn, by a correction of the schedule.            *)
(***************************************************************************)
EXTENDS Integers

CONSTANTS
    Chores,  \* ids of reminders
    MaxTime  \* bound: the last minute of the model

VARIABLES
    now,     \* the clock
    record   \* the entry of each chore and minute

vars == <<now, record>>

Time == 0..MaxTime
Key == Chores \X Time
Answer == {"done", "skipped"}
Entry == {"none", "pending"} \cup Answer

Init ==
    /\ now = 0
    /\ record = [k \in Key |-> "none"]

\* The clock reaches the next minute.
Tick ==
    /\ now' = now + 1
    /\ now' \in Time
    /\ UNCHANGED record

\* A pass records minutes that have come.
Open(S) ==
    /\ \A k \in S : k[2] <= now /\ record[k] = "none"
    /\ record' = [k \in Key |-> IF k \in S THEN "pending" ELSE record[k]]
    /\ UNCHANGED now

\* A person answers, for the first time or instead of an earlier answer.
Decide(k, answer) ==
    /\ k[2] <= now
    /\ record' = [record EXCEPT ![k] = answer]
    /\ UNCHANGED now

\* A correction of the schedule takes open entries back.
Withdraw(S) ==
    /\ \A k \in S : record[k] = "pending"
    /\ record' = [k \in Key |-> IF k \in S THEN "none" ELSE record[k]]
    /\ UNCHANGED now

Next ==
    \/ Tick
    \/ \E S \in SUBSET Key : Open(S) \/ Withdraw(S)
    \/ \E k \in Key, answer \in Answer : Decide(k, answer)

Spec == Init /\ [][Next]_vars

=============================================================================
