---------------------------- MODULE ChoreMessage ----------------------------
(***************************************************************************)
(* One chore message in the group and the people who tap its buttons:       *)
(* buildNagMarkup, onChoreTap and redrawNag of internal/bot/reminders.go.   *)
(*                                                                         *)
(* The bot keeps nothing about a message.  What it lists is read back from  *)
(* the keyboard of the message as it stood when the button was pressed, and *)
(* its lines from the record, one query each; updates are handled           *)
(* concurrently.  The record is ChoreRecord, which the tables implement.    *)
(***************************************************************************)
EXTENDS Integers

CONSTANTS
    Chores,   \* ids of reminders
    MaxTime,  \* bound: the last minute of the model
    Taps,     \* taps in flight at one time
    Listed,   \* what the message listed when it was sent
    Others    \* whether the record also changes from elsewhere

ASSUME MessageAssumption ==
    /\ MaxTime \in Nat
    /\ Listed \subseteq Chores \X (0..MaxTime)
    /\ Others \in BOOLEAN

VARIABLES
    now,      \* the clock
    record,   \* the entry of each chore and minute
    message,  \* the lines of the message: what it lists, with the status shown
    tap,      \* what each tap in flight has read
    disturbed \* history: a tap was overtaken, or ended without its redraw

recordVars == <<now, record>>
vars == <<recordVars, message, tap, disturbed>>

Record == INSTANCE ChoreRecord

Key == Record!Key
Answer == Record!Answer

\* buildNagMarkup: a line that is answered has no buttons.
Buttons == {k \in DOMAIN message : message[k] = "pending"}

Idle == [step |-> "idle"]

\* The message has just been sent: everything it lists was open.
Init ==
    /\ now = MaxTime
    /\ record = [k \in Key |-> IF k \in Listed THEN "pending" ELSE "none"]
    /\ message = [k \in Listed |-> "pending"]
    /\ tap = [t \in Taps |-> Idle]
    /\ disturbed = FALSE

\* The Mini App, the web, an amended schedule.
RecordStep ==
    /\ Others
    /\ Record!Next
    /\ disturbed' = TRUE
    /\ UNCHANGED <<message, tap>>

-----------------------------------------------------------------------------

\* A button is pressed.  The callback carries the message as it is now, and the
\* button of the keyboard the person saw, which may be an older one.
Press(t, k, s) ==
    /\ tap[t].step = "idle"
    /\ tap' = [tap EXCEPT ![t] = [step |-> "check", key |-> k, status |-> s,
                                  refs |-> Buttons]]
    /\ disturbed' = (disturbed \/ \E u \in Taps : tap[u].step # "idle")
    /\ UNCHANGED <<recordVars, message>>

\* GetOccurrence: the same answer again is not written a second time.
Check(t) ==
    /\ tap[t].step = "check"
    /\ tap' = [tap EXCEPT ![t].step =
                  IF record[tap[t].key] = tap[t].status THEN "start" ELSE "mark"]
    /\ UNCHANGED <<recordVars, message, disturbed>>

\* Service.Mark decides.
Mark(t) ==
    /\ tap[t].step = "mark"
    /\ Record!Decide(tap[t].key, tap[t].status)
    /\ tap' = [tap EXCEPT ![t].step = "start"]
    /\ UNCHANGED <<message, disturbed>>

\* Service.Mark refuses what nothing scheduled, or fails: no redraw.
MarkRefused(t) ==
    /\ tap[t].step = "mark"
    /\ tap' = [tap EXCEPT ![t] = Idle]
    /\ UNCHANGED <<recordVars, message, disturbed>>

\* redrawNag: nothing to redraw a message without buttons against.
RedrawStart(t) ==
    /\ tap[t].step = "start"
    /\ tap' = [tap EXCEPT ![t] =
                  IF tap[t].refs = {} THEN Idle
                  ELSE [step |-> "read", refs |-> tap[t].refs, lines |-> [k \in {} |-> ""]]]
    /\ disturbed' = (disturbed \/ tap[t].refs = {})
    /\ UNCHANGED <<recordVars, message>>

\* Mutant of RedrawRead: a row that is gone is drawn.
RedrawGone(t, k) ==
    /\ tap[t].step = "read"
    /\ k \in tap[t].refs
    /\ LET got == tap[t].lines
       IN  tap' = [tap EXCEPT
                     ![t].refs  = @ \ {k},
                     ![t].lines = [j \in DOMAIN got \cup {k} |->
                                     IF j = k THEN record[k] ELSE got[j]]]
    /\ UNCHANGED <<recordVars, message, disturbed>>

\* Mutant of RedrawRead: every line is ticked off.
RedrawTicked(t, k) ==
    /\ tap[t].step = "read"
    /\ k \in tap[t].refs
    /\ LET got == tap[t].lines
       IN  tap' = [tap EXCEPT
                     ![t].refs  = @ \ {k},
                     ![t].lines = [j \in DOMAIN got \cup {k} |->
                                     IF j = k THEN "done" ELSE got[j]]]
    /\ UNCHANGED <<recordVars, message, disturbed>>

\* One GetOccurrence of the list; a row that is gone gives the redraw up.
RedrawRead(t, k) ==
    /\ tap[t].step = "read"
    /\ k \in tap[t].refs
    /\ LET got == tap[t].lines
       IN  tap' = [tap EXCEPT ![t] =
                     IF record[k] = "none" THEN Idle
                     ELSE [step  |-> "read",
                           refs  |-> tap[t].refs \ {k},
                           lines |-> [j \in DOMAIN got \cup {k} |->
                                        IF j = k THEN record[k] ELSE got[j]]]]
    /\ disturbed' = (disturbed \/ record[k] = "none")
    /\ UNCHANGED <<recordVars, message>>

\* Mutant of Edit: the message is left as it was.
EditNothing(t) ==
    /\ tap[t].step = "read"
    /\ tap[t].refs = {}
    /\ tap' = [tap EXCEPT ![t] = Idle]
    /\ UNCHANGED <<recordVars, message, disturbed>>

\* c.Edit replaces the text and the keyboard.
Edit(t) ==
    /\ tap[t].step = "read"
    /\ tap[t].refs = {}
    /\ message' = tap[t].lines
    /\ tap' = [tap EXCEPT ![t] = Idle]
    /\ UNCHANGED <<recordVars, disturbed>>

\* An error anywhere, or the end of the process, ends a tap where it is.
Drop(t) ==
    /\ tap[t].step # "idle"
    /\ tap' = [tap EXCEPT ![t] = Idle]
    /\ disturbed' = TRUE
    /\ UNCHANGED <<recordVars, message>>

TapStep(t) ==
    \/ \E k \in Listed, s \in Answer : Press(t, k, s)
    \/ Check(t) \/ Mark(t) \/ MarkRefused(t)
    \/ RedrawStart(t)
    \/ \E k \in Listed : RedrawRead(t, k)
    \/ Edit(t)
    \/ Drop(t)

Next == RecordStep \/ \E t \in Taps : TapStep(t)

Spec == Init /\ [][Next]_vars

-----------------------------------------------------------------------------

PartialOn(S, T) == UNION {[D -> T] : D \in SUBSET S}

\* The type invariant.
TypeOK ==
    /\ now \in Record!Time
    /\ record \in [Key -> Record!Entry]
    /\ message \in PartialOn(Listed, Record!Entry \ {"none"})
    /\ tap \in [Taps ->
                  [step: {"idle"}]
                  \cup [step: {"check", "mark", "start"}, key: Listed,
                        status: Answer, refs: SUBSET Listed]
                  \cup [step: {"read"}, refs: SUBSET Listed,
                        lines: PartialOn(Listed, Record!Entry \ {"none"})]]
    /\ disturbed \in BOOLEAN

\* No line claims an answer the record does not hold: whatever order taps,
\* redraws and other edits come in, what is shown as closed is closed, perhaps
\* by now the other way (redrawNag over decisions that are never reopened).
ShownAnswersExist ==
    \A k \in DOMAIN message : message[k] \in Answer => record[k] \in Answer

\* Taps one after the other, each carried through, leave the message showing
\* what the record says of the lines it has, whatever keyboard the person still
\* had on the screen (onChoreTap, redrawNag).
ShowsTheRecord ==
    (\A t \in Taps : tap[t].step = "idle") /\ ~disturbed
        => \A k \in DOMAIN message : message[k] = record[k]

\* A redraw lists what the message always listed (redrawNag).
LinesStay == [][DOMAIN message \subseteq DOMAIN message']_vars

=============================================================================
