----------------------------- MODULE ChorePush -----------------------------
(***************************************************************************)
(* The bot's clock for chores: the due-time push and the evening nag of     *)
(* internal/bot/reminders.go, run by the minute loop of RunDigests.         *)
(*                                                                         *)
(* The loop reads the record and sends messages while the record moves on   *)
(* under it, so it is composed here with ChoreRecord, which the tables      *)
(* implement (Chores).  A pass of the loop is one tick: the nag if it is    *)
(* due, then the push, each a query and a send.                             *)
(*                                                                         *)
(* Minutes are counted from a midnight; a day has Day of them.              *)
(***************************************************************************)
EXTENDS Integers

CONSTANTS
    Chores,    \* ids of reminders
    MaxTime,   \* bound: the last minute of the model
    Lookback,  \* maxPushLookback
    Day,       \* minutes in a day
    NagTimes   \* the minute of the day of the nag, empty when it is not set

ASSUME PushAssumption ==
    /\ MaxTime \in Nat
    /\ Lookback \in Nat
    /\ Day \in Nat \ {0}
    /\ NagTimes \subseteq 0 .. Day - 1
    /\ \A t, u \in NagTimes : t = u

VARIABLES
    now,       \* the clock
    record,    \* the entry of each chore and minute
    deleted,   \* the chores that have been deleted: their rows stay, unread
    lastPush,  \* the mark: minutes up to it are closed for the push
    lastNag,   \* last.nag: the date of the last nag, none after a start
    digest,    \* the loop: where it is, the time it read, what it found
    \* History, read by properties only.
    boot,      \* the time of the last start
    announced, \* what has reached the chat in a push
    twice,     \* what has reached it in two
    doubtful,  \* what has reached it in a push that reported an error
    nagged     \* what a nag has tried to send, with the end of its window

Record == INSTANCE ChoreRecord

recordVars == <<now, record, deleted>>
loopVars == <<lastPush, lastNag, digest>>
historyVars == <<boot, announced, twice, doubtful, nagged>>
vars == <<recordVars, loopVars, historyVars>>

Time == Record!Time
Key == Record!Key

\* The dates of the model; none is before all of them.
Today(t) == t \div Day
None == -1

\* Unclosed: the open rows of a window, ends included, of the chores that are
\* still there.
Unclosed(from, to) ==
    {k \in Key : /\ from <= k[2] /\ k[2] <= to
                 /\ record[k] = "pending"
                 /\ k[1] \notin deleted}

\* Mutant of PushFrom: the lower bound is inclusive.
PushFromMark(at, since) == IF since < at - Lookback THEN at - Lookback ELSE since

\* Mutant of PushFrom: no clamp.
PushFromUnclamped(at, since) == since + 1

\* pushWindow: from the minute after the mark, no further back than Lookback.
PushFrom(at, since) == (IF since < at - Lookback THEN at - Lookback ELSE since) + 1

\* dueThisMinute: the nag is set, it is its minute, and it has not gone out on
\* this date.
NagDue(at) == at % Day \in NagTimes /\ lastNag # Today(at)

\* nagWindow: the day that ends at the most recent nag instant.
NagTo(at) ==
    LET nagTime == CHOOSE t \in NagTimes : TRUE
        today == Today(at) * Day + nagTime
    IN  IF today > at THEN today - Day ELSE today

\* Mutant of NagFrom: two windows share the minute of the nag.
NagFromNag(at) == NagTo(at) - Day

\* The window starts the minute after the nag before.
NagFrom(at) == NagTo(at) - Day + 1

Resting == [step |-> "idle", at |-> 0, found |-> {}]

Init ==
    /\ Record!Init
    /\ deleted = {}
    /\ lastPush = 0
    /\ lastNag = None
    /\ digest = Resting
    /\ boot = 0
    /\ announced = {}
    /\ twice = {}
    /\ doubtful = {}
    /\ nagged = {}

-----------------------------------------------------------------------------

\* The clock, the passes and the people: anything the record may do.
RecordStep ==
    /\ Record!Next
    /\ UNCHANGED <<deleted, loopVars, historyVars>>

\* SoftDeleteReminder.
Delete(c) ==
    /\ deleted' = deleted \cup {c}
    /\ UNCHANGED <<now, record, loopVars, historyVars>>

\* Mutant of Wake: the clock is rounded up.
WakeAhead ==
    /\ digest.step = "idle"
    /\ digest' = [step |-> "push", at |-> now + 1, found |-> {}]
    /\ UNCHANGED <<recordVars, lastPush, lastNag, historyVars>>

\* A tick of the loop: dueThisMinute decides about the nag.
Wake ==
    /\ digest.step = "idle"
    /\ digest' = [step  |-> IF NagDue(now) THEN "nag" ELSE "push",
                   at    |-> now,
                   found |-> {}]
    /\ UNCHANGED <<recordVars, lastPush, lastNag, historyVars>>

\* The nag is over for the date, whatever came of it.
NagDone ==
    /\ lastNag' = Today(digest.at)
    /\ digest' = [digest EXCEPT !.step = "push", !.found = {}]

\* sendReminderNag: the query.  Nothing open is not worth a message.
NagQuery ==
    /\ digest.step = "nag"
    /\ LET open == Unclosed(NagFrom(digest.at), NagTo(digest.at))
       IN  IF open = {}
           THEN NagDone
           ELSE /\ digest' = [digest EXCEPT !.step = "nagSend", !.found = open]
                /\ UNCHANGED lastNag
    /\ UNCHANGED <<recordVars, lastPush, boot, announced, twice, doubtful, nagged>>

\* Its send, delivered or not: an error is logged and the date is spent.
NagSend ==
    /\ digest.step = "nagSend"
    /\ NagDone
    /\ nagged' = nagged \cup (digest.found \X {NagTo(digest.at)})
    /\ UNCHANGED <<recordVars, lastPush, boot, announced, twice, doubtful>>

\* Its query fails: logged, and the date is spent all the same.
NagFail ==
    /\ digest.step = "nag"
    /\ NagDone
    /\ UNCHANGED <<recordVars, lastPush, historyVars>>

\* sendDueChores: the query.  An empty window leaves the mark alone.
PushQuery ==
    /\ digest.step = "push"
    /\ LET due == Unclosed(PushFrom(digest.at, lastPush), digest.at)
       IN  digest' = IF due = {} THEN Resting
                     ELSE [digest EXCEPT !.step = "pushSend", !.found = due]
    /\ UNCHANGED <<recordVars, lastPush, lastNag, historyVars>>

\* What has been said is in the chat.
Deliver(S) ==
    /\ announced' = announced \cup S
    /\ twice' = twice \cup (announced \cap S)

\* The send succeeds and the mark moves (markAfterPass).
PushSend ==
    /\ digest.step = "pushSend"
    /\ Deliver(digest.found)
    /\ lastPush' = digest.at
    /\ digest' = Resting
    /\ UNCHANGED <<recordVars, lastNag, boot, doubtful, nagged>>

\* The query or the send fails: the mark stays.  A send may have reached the
\* chat although its answer did not come back.
PushFail ==
    /\ digest.step \in {"push", "pushSend"}
    /\ \/ UNCHANGED <<announced, twice, doubtful>>
       \/ /\ Deliver(digest.found)
          /\ doubtful' = doubtful \cup digest.found
    /\ digest' = Resting
    /\ UNCHANGED <<recordVars, lastPush, lastNag, boot, nagged>>

\* The process stops, with a send perhaps delivered, and starts at once or
\* later: the mark is the time of the start, the dates are forgotten.
Restart ==
    /\ \/ UNCHANGED <<announced, twice, doubtful, nagged>>
       \/ /\ digest.step = "pushSend"
          /\ Deliver(digest.found)
          /\ doubtful' = doubtful \cup digest.found
          /\ UNCHANGED nagged
       \/ /\ digest.step = "nagSend"
          /\ nagged' = nagged \cup (digest.found \X {NagTo(digest.at)})
          /\ UNCHANGED <<announced, twice, doubtful>>
    /\ lastPush' = now
    /\ lastNag' = None
    /\ digest' = Resting
    /\ boot' = now
    /\ UNCHANGED recordVars

Next ==
    \/ RecordStep
    \/ \E c \in Chores : Delete(c)
    \/ Wake
    \/ NagQuery \/ NagSend \/ NagFail
    \/ PushQuery \/ PushSend \/ PushFail
    \/ Restart

Spec == Init /\ [][Next]_vars

-----------------------------------------------------------------------------

\* The type invariant.
TypeOK ==
    /\ now \in Time
    /\ record \in [Key -> Record!Entry]
    /\ deleted \subseteq Chores
    /\ lastPush \in Time
    /\ lastNag \in Int
    /\ digest \in [step: {"idle", "nag", "nagSend", "push", "pushSend"},
                   at: Time, found: SUBSET Key]
    /\ digest.step \in {"nag", "nagSend"} => NagTimes # {}
    /\ boot \in Time
    /\ announced \subseteq Key
    /\ twice \subseteq announced
    /\ doubtful \subseteq announced
    /\ nagged \subseteq Key \X Int

\* A chore is pushed once, over any number of ticks, restarts and late rows:
\* what reaches the chat a second time was first in a message whose sending
\* reported an error (markAfterPass).
AnnouncedOnce == twice \subseteq doubtful

\* A push never tells of what came due at or before the start of the process,
\* nor of what is further back than the lookback, however much a catch-up pass
\* has just recorded (pushWindow, RunDigests).
NoFlood ==
    [][\A k \in announced' \ announced :
          boot < k[2] /\ digest.at - Lookback < k[2]]_vars

\* A chore belongs to one nag: the windows of two evenings never share it, and
\* a second sending after a restart is about the same window (nagWindow).
OneNagWindow ==
    \A a, b \in nagged : a[1] = b[1] => a[2] = b[2]

-----------------------------------------------------------------------------
(* The inductive invariant for the push. *)

\* What is in the chat without a doubt lies at or before the mark, and what is
\* about to be sent lies after it.
MarkCovers ==
    /\ \A k \in announced \ doubtful : k[2] <= lastPush
    /\ digest.step = "push" => digest.found = {}
    /\ digest.step = "pushSend" =>
          /\ digest.found # {}
          /\ \A k \in digest.found :
                lastPush < k[2] /\ digest.at - Lookback < k[2] /\ k[2] <= digest.at

\* The mark lies between the start and the clock, and so does a tick's time.
MarkInTime ==
    /\ boot <= lastPush
    /\ lastPush <= now
    /\ digest.at <= now

PushInv ==
    /\ TypeOK
    /\ MarkCovers
    /\ MarkInTime
    /\ AnnouncedOnce

-----------------------------------------------------------------------------
(* What comments say and the code does not do. *)

\* The minute the mark stands on is finished: no chore that came due in it and
\* is open is unannounced (markAfterPass).
MarkedMinuteWasSaid ==
    \A k \in Key :
        record[k] = "pending" /\ k[1] \notin deleted /\ boot < k[2] /\ k[2] = lastPush
            => k \in announced

=============================================================================
