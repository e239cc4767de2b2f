------------------------- MODULE ChoreMessageProofs -------------------------
(***************************************************************************)
(* One chore message for any chores it lists, any number of people tapping   *)
(* at one time and whatever else becomes of the record meanwhile: no line    *)
(* claims an answer that is not there, and taps carried through one after    *)
(* the other leave the message as the record is.                             *)
(***************************************************************************)
EXTENDS ChoreMessage, TLAPS

Line == Record!Entry \ {"none"}

Reading(t) == tap[t].step = "read"

\* What a redraw has read so far, or the message says, of answers is so.
AnswersExist ==
    /\ \A k \in DOMAIN message : message[k] \in Answer => record[k] \in Answer
    /\ \A t \in Taps : Reading(t) =>
          \A k \in DOMAIN tap[t].lines : tap[t].lines[k] \in Answer => record[k] \in Answer

\* The tap at work has not yet come to the record.
Untouched(t) == tap[t].step \in {"idle", "check", "mark"}

\* While nothing came between, one tap is at work at most; what it has read is
\* what the record says, and until it writes the message is, too.
OneByOne ==
    ~disturbed =>
        /\ \A t, u \in Taps : tap[t].step # "idle" /\ tap[u].step # "idle" => t = u
        /\ \A t \in Taps : Reading(t) => \A k \in DOMAIN tap[t].lines : tap[t].lines[k] = record[k]
        /\ (\A t \in Taps : Untouched(t)) => \A k \in DOMAIN message : message[k] = record[k]

MessageInv == TypeOK /\ AnswersExist /\ OneByOne

-----------------------------------------------------------------------------
(* Shapes.                                                                  *)

LEMMA PartialIs ==
    ASSUME NEW S, NEW T, NEW f
    PROVE  f \in PartialOn(S, T) <=>
               DOMAIN f \subseteq S /\ f = [k \in DOMAIN f |-> f[k]] /\ \A k \in DOMAIN f : f[k] \in T
  <1>1. f \in PartialOn(S, T) <=> \E D \in SUBSET S : f \in [D -> T]
    BY DEF PartialOn
  <1>2. ASSUME NEW D \in SUBSET S, f \in [D -> T]
        PROVE  DOMAIN f \subseteq S /\ f = [k \in DOMAIN f |-> f[k]] /\ \A k \in DOMAIN f : f[k] \in T
    BY <1>2
  <1>3. ASSUME DOMAIN f \subseteq S, f = [k \in DOMAIN f |-> f[k]], \A k \in DOMAIN f : f[k] \in T
        PROVE  \E D \in SUBSET S : f \in [D -> T]
    <2>1. f \in [DOMAIN f -> T]
      BY <1>3
    <2> QED
      BY <1>3, <2>1
  <1> QED
    BY <1>1, <1>2, <1>3

Shown == PartialOn(Listed, Line)
Pressed == [step: {"check", "mark", "start"}, key: Listed, status: Answer, refs: SUBSET Listed]
Redraw == [step: {"read"}, refs: SUBSET Listed, lines: Shown]

LEMMA TypeIs ==
    TypeOK <=> /\ now \in Record!Time /\ record \in [Key -> Record!Entry]
               /\ message \in Shown /\ disturbed \in BOOLEAN
               /\ tap \in [Taps -> [step: {"idle"}] \cup Pressed \cup Redraw]
  BY DEF TypeOK, Shown, Line, Pressed, Redraw

LEMMA TypeIsNext ==
    ASSUME now' \in Record!Time, record' \in [Key -> Record!Entry],
           message' \in Shown, disturbed' \in BOOLEAN,
           tap' \in [Taps -> [step: {"idle"}] \cup Pressed \cup Redraw]
    PROVE  TypeOK'
  BY DEF TypeOK, Shown, Line, Pressed, Redraw

LEMMA ListedAreKeys == Listed \subseteq Key /\ "pending" \in Line /\ Answer \subseteq Record!Entry
  BY MessageAssumption DEF Key, Record!Key, Record!Time, Line, Record!Entry, Answer

\* The steps of the record keep its type and every answer.
LEMMA RecordKeeps ==
    ASSUME TypeOK, Record!Next
    PROVE  /\ now' \in Record!Time /\ record' \in [Key -> Record!Entry]
           /\ \A k \in Key : record[k] \in Answer => record'[k] \in Answer
  <1> USE DEF TypeOK, Key, Answer
  <1>1. CASE Record!Tick
    BY <1>1 DEF Record!Tick
  <1>2. ASSUME NEW S \in SUBSET Record!Key, Record!Open(S) \/ Record!Withdraw(S)
        PROVE  /\ now' = now /\ record' \in [Key -> Record!Entry]
               /\ \A k \in Key : record[k] \in Answer => record'[k] \in Answer
    BY <1>2 DEF Record!Open, Record!Withdraw, Record!Entry, Record!Answer
  <1>3. ASSUME NEW k \in Record!Key, NEW answer \in Record!Answer, Record!Decide(k, answer)
        PROVE  /\ now' = now /\ record' \in [Key -> Record!Entry]
               /\ \A j \in Key : record[j] \in Answer => record'[j] \in Answer
    BY <1>3 DEF Record!Decide, Record!Entry
  <1> QED
    BY <1>1, <1>2, <1>3 DEF Record!Next

\* The mark of a tap, as a step of the record.
LEMMA MarkKeeps ==
    ASSUME TypeOK, NEW k \in Key, NEW s \in Answer, Record!Decide(k, s)
    PROVE  /\ now' \in Record!Time /\ record' \in [Key -> Record!Entry]
           /\ \A j \in Key : record[j] \in Answer => record'[j] \in Answer
  BY RecordKeeps DEF Record!Next, Key, Answer

\* What is listed or read is a key.
LEMMA LinesAreKeys ==
    ASSUME TypeOK
    PROVE  /\ DOMAIN message \subseteq Key
           /\ \A t \in Taps : Reading(t) => tap[t] \in Redraw /\ DOMAIN tap[t].lines \subseteq Key
  <1>1. DOMAIN message \subseteq Key
    BY TypeIs, PartialIs, ListedAreKeys DEF Shown
  <1>2. ASSUME NEW t \in Taps, Reading(t)
        PROVE  tap[t] \in Redraw /\ DOMAIN tap[t].lines \subseteq Key
    <2>1. tap[t] \in Redraw
      BY <1>2, TypeIs DEF Reading, Pressed
    <2>2. tap[t].lines \in Shown
      BY <2>1 DEF Redraw
    <2> QED
      BY <2>1, <2>2, PartialIs, ListedAreKeys DEF Shown
  <1> QED
    BY <1>1, <1>2

-----------------------------------------------------------------------------
(* Taps.                                                                    *)

\* Tap t becomes j; the record and the message stay.
Turns(t, j) == tap' = [tap EXCEPT ![t] = j]

LEMMA TurnsTo ==
    ASSUME TypeOK, NEW t \in Taps, NEW j, Turns(t, j), j \in [step: {"idle"}] \cup Pressed \cup Redraw
    PROVE  /\ tap' \in [Taps -> [step: {"idle"}] \cup Pressed \cup Redraw]
           /\ tap'[t] = j /\ \A u \in Taps \ {t} : tap'[u] = tap[u]
  <1>1. tap \in [Taps -> [step: {"idle"}] \cup Pressed \cup Redraw]
    BY TypeIs
  <1> QED
    BY <1>1 DEF Turns

\* A tap that writes nothing and goes where it reads nothing off the record.
LEMMA QuietTurn ==
    ASSUME MessageInv, NEW t \in Taps, NEW j, Turns(t, j), j \in [step: {"idle"}] \cup Pressed,
           UNCHANGED <<recordVars, message>>, disturbed' \in BOOLEAN, disturbed => disturbed',
           ~disturbed' => \A u \in Taps : u # t /\ tap[u].step # "idle" => j.step = "idle",
           ~disturbed' => Untouched(t) \/ ~(j.step \in {"idle", "check", "mark"})
    PROVE  MessageInv'
  <1>1. /\ tap' \in [Taps -> [step: {"idle"}] \cup Pressed \cup Redraw]
        /\ tap'[t] = j /\ \A u \in Taps \ {t} : tap'[u] = tap[u]
    BY TurnsTo DEF MessageInv
  <1>2. j.step # "read"
    BY DEF Pressed
  <1>3. TypeOK'
    BY <1>1, TypeIs, TypeIsNext DEF MessageInv, recordVars
  <1>4. \A u \in Taps : Reading(u)' => Reading(u) /\ tap'[u] = tap[u]
    BY <1>1, <1>2 DEF Reading
  <1>5. AnswersExist'
    BY <1>4 DEF MessageInv, AnswersExist, recordVars
  <1>6. OneByOne'
    <2> SUFFICES ASSUME ~disturbed'
                 PROVE  /\ \A u, v \in Taps : tap'[u].step # "idle" /\ tap'[v].step # "idle" => u = v
                        /\ (\A u \in Taps : Untouched(u)') => \A u \in Taps : Untouched(u)
      BY <1>4 DEF MessageInv, OneByOne, recordVars
    <2>1. ~disturbed
      OBVIOUS
    <2>2. \A u, v \in Taps : tap'[u].step # "idle" /\ tap'[v].step # "idle" => u = v
      BY <1>1, <2>1 DEF MessageInv, OneByOne
    <2>3. ASSUME \A u \in Taps : Untouched(u)', NEW u \in Taps
          PROVE  Untouched(u)
      BY <1>1, <2>3 DEF Untouched
    <2> QED
      BY <2>2, <2>3
  <1> QED
    BY <1>3, <1>5, <1>6 DEF MessageInv


\* A button is pressed.
LEMMA PressKeeps ==
    ASSUME MessageInv, NEW t \in Taps, NEW k \in Listed, NEW s \in Answer, Press(t, k, s)
    PROVE  MessageInv'
  <1> DEFINE j == [step |-> "check", key |-> k, status |-> s, refs |-> Buttons]
  <1>1. Buttons \subseteq Listed
    BY TypeIs, PartialIs DEF MessageInv, Buttons, Shown
  <1>2. j \in Pressed /\ j.step = "check"
    BY <1>1 DEF Pressed
  <1>3. /\ Turns(t, j) /\ UNCHANGED <<recordVars, message>> /\ Untouched(t)
        /\ disturbed' = (disturbed \/ \E u \in Taps : tap[u].step # "idle")
    BY DEF Press, Turns, Untouched
  <1>4. disturbed \in BOOLEAN
    BY DEF MessageInv, TypeOK
  <1> HIDE DEF j
  <1> QED
    BY <1>2, <1>3, <1>4, QuietTurn

\* A tap ends without a redraw.
LEMMA EndKeeps ==
    ASSUME MessageInv, NEW t \in Taps, Turns(t, Idle), UNCHANGED <<recordVars, message>>,
           disturbed' \in BOOLEAN, disturbed => disturbed', ~disturbed' => Untouched(t)
    PROVE  MessageInv'
  <1>1. Idle \in [step: {"idle"}] /\ Idle.step = "idle"
    BY DEF Idle
  <1> QED
    BY <1>1, QuietTurn

\* The tap finds its answer there, or goes on to record it.
LEMMA CheckKeeps ==
    ASSUME MessageInv, NEW t \in Taps, Check(t)
    PROVE  MessageInv'
  <1>1. tap[t] \in Pressed /\ tap[t].step = "check"
    BY TypeIs DEF MessageInv, Check, Redraw
  <1>2. PICK step \in {"mark", "start"} : tap' = [tap EXCEPT ![t].step = step]
    BY DEF Check
  <1> DEFINE j == [tap[t] EXCEPT !.step = step]
  <1>3. j \in Pressed /\ j.step = step
    BY <1>1 DEF Pressed
  <1>4. Turns(t, j)
    BY <1>2 DEF Turns
  <1>5. UNCHANGED <<recordVars, message, disturbed>> /\ Untouched(t) /\ disturbed \in BOOLEAN
    BY <1>1 DEF Check, Untouched, MessageInv, TypeOK
  <1>6. ~disturbed => \A u \in Taps : u # t => tap[u].step = "idle"
    BY <1>1 DEF MessageInv, OneByOne
  <1> HIDE DEF j
  <1> QED
    BY <1>3, <1>4, <1>5, <1>6, QuietTurn

\* The tap records its answer.
LEMMA MarkStepKeeps ==
    ASSUME MessageInv, NEW t \in Taps, Mark(t)
    PROVE  MessageInv'
  <1>1. tap[t] \in Pressed /\ tap[t].step = "mark"
    BY TypeIs DEF MessageInv, Mark, Redraw
  <1> DEFINE j == [tap[t] EXCEPT !.step = "start"]
  <1>2. j \in Pressed /\ j.step = "start"
    BY <1>1 DEF Pressed
  <1>3. Turns(t, j) /\ UNCHANGED <<message, disturbed>> /\ Record!Decide(tap[t].key, tap[t].status)
    BY DEF Mark, Turns
  <1>4. tap[t].key \in Key /\ tap[t].status \in Answer
    BY <1>1, ListedAreKeys DEF Pressed
  <1>5. /\ now' \in Record!Time /\ record' \in [Key -> Record!Entry]
        /\ \A k \in Key : record[k] \in Answer => record'[k] \in Answer
    BY <1>3, <1>4, MarkKeeps DEF MessageInv
  <1> HIDE DEF j
  <1>6. /\ tap' \in [Taps -> [step: {"idle"}] \cup Pressed \cup Redraw]
        /\ tap'[t] = j /\ \A u \in Taps \ {t} : tap'[u] = tap[u]
    BY <1>2, <1>3, TurnsTo DEF MessageInv
  <1>7. TypeOK'
    BY <1>3, <1>5, <1>6, TypeIs, TypeIsNext DEF MessageInv
  <1>8. \A u \in Taps : Reading(u)' => Reading(u) /\ tap'[u] = tap[u]
    BY <1>2, <1>6 DEF Reading
  <1>9. AnswersExist'
    BY <1>3, <1>5, <1>8, LinesAreKeys DEF MessageInv, AnswersExist
  <1>10. OneByOne'
    <2>1. ~disturbed => \A u \in Taps : u # t => tap[u].step = "idle"
      BY <1>1 DEF MessageInv, OneByOne
    <2>2. ~Untouched(t)' /\ ~Reading(t)'
      BY <1>2, <1>6 DEF Untouched, Reading
    <2> QED
      BY <1>3, <1>6, <2>1, <2>2 DEF OneByOne, Reading
  <1> QED
    BY <1>7, <1>9, <1>10 DEF MessageInv

\* Anything else happens to the record.
LEMMA RecordStepKeeps ==
    ASSUME MessageInv, RecordStep
    PROVE  MessageInv'
  <1>1. /\ now' \in Record!Time /\ record' \in [Key -> Record!Entry]
        /\ \A k \in Key : record[k] \in Answer => record'[k] \in Answer
    BY RecordKeeps DEF MessageInv, RecordStep
  <1>2. UNCHANGED <<message, tap>> /\ disturbed' = TRUE
    BY DEF RecordStep
  <1>3. TypeOK'
    BY <1>1, <1>2, TypeIs, TypeIsNext DEF MessageInv
  <1>4. AnswersExist'
    BY <1>1, <1>2, LinesAreKeys DEF MessageInv, AnswersExist, Reading
  <1> QED
    BY <1>2, <1>3, <1>4 DEF MessageInv, OneByOne

\* The mark is refused.
LEMMA RefusedKeeps ==
    ASSUME MessageInv, NEW t \in Taps, MarkRefused(t)
    PROVE  MessageInv'
  <1>1. Turns(t, Idle) /\ UNCHANGED <<recordVars, message>> /\ disturbed' = disturbed /\ Untouched(t)
    BY DEF MarkRefused, Turns, Untouched
  <1>2. disturbed \in BOOLEAN
    BY DEF MessageInv, TypeOK
  <1> QED
    BY <1>1, <1>2, EndKeeps

\* A tap is lost on its way.
LEMMA DropKeeps ==
    ASSUME MessageInv, NEW t \in Taps, Drop(t)
    PROVE  MessageInv'
  <1>1. Turns(t, Idle) /\ UNCHANGED <<recordVars, message>> /\ disturbed' = TRUE
    BY DEF Drop, Turns
  <1> QED
    BY <1>1, EndKeeps

\* A redraw that goes on: what it holds of the record is so.
LEMMA RedrawGoesOn ==
    ASSUME MessageInv, NEW t \in Taps, NEW j \in Redraw, Turns(t, j), ~Untouched(t),
           UNCHANGED <<recordVars, message, disturbed>>,
           \A k \in DOMAIN j.lines : j.lines[k] \in Answer => record[k] \in Answer,
           ~disturbed => \A k \in DOMAIN j.lines : j.lines[k] = record[k]
    PROVE  MessageInv'
  <1>1. /\ tap' \in [Taps -> [step: {"idle"}] \cup Pressed \cup Redraw]
        /\ tap'[t] = j /\ \A u \in Taps \ {t} : tap'[u] = tap[u]
    BY TurnsTo DEF MessageInv
  <1>2. j.step = "read"
    BY DEF Redraw
  <1>3. TypeOK'
    BY <1>1, TypeIs, TypeIsNext DEF MessageInv, recordVars
  <1>4. AnswersExist'
    BY <1>1 DEF MessageInv, AnswersExist, Reading, recordVars
  <1>5. OneByOne'
    <2> SUFFICES ASSUME ~disturbed
                 PROVE  /\ \A u, v \in Taps : tap'[u].step # "idle" /\ tap'[v].step # "idle" => u = v
                        /\ \A u \in Taps : Reading(u)' => \A k \in DOMAIN tap'[u].lines : tap'[u].lines[k] = record[k]
                        /\ ~Untouched(t)'
      BY DEF OneByOne, recordVars
    <2>1. tap[t].step # "idle"
      BY DEF Untouched
    <2>2. \A u \in Taps \ {t} : tap[u].step = "idle"
      BY <2>1 DEF MessageInv, OneByOne
    <2>3. ~Untouched(t)'
      BY <1>1, <1>2 DEF Untouched
    <2> QED
      BY <1>1, <2>2, <2>3 DEF Reading
  <1> QED
    BY <1>3, <1>4, <1>5 DEF MessageInv

\* The redraw begins, with nothing read; without buttons it ends here.
LEMMA RedrawStartKeeps ==
    ASSUME MessageInv, NEW t \in Taps, RedrawStart(t)
    PROVE  MessageInv'
  <1> DEFINE none == [k \in {} |-> ""]
             j == [step |-> "read", refs |-> tap[t].refs, lines |-> none]
  <1>1. tap[t] \in Pressed /\ ~Untouched(t) /\ UNCHANGED <<recordVars, message>>
    BY TypeIs DEF MessageInv, RedrawStart, Redraw, Untouched
  <1>2. CASE tap[t].refs = {}
    <2>1. Turns(t, Idle) /\ disturbed' = TRUE
      BY <1>2 DEF RedrawStart, Turns
    <2> QED
      BY <1>1, <2>1, EndKeeps
  <1>3. CASE tap[t].refs # {}
    <2>1. Turns(t, j) /\ disturbed' = (disturbed \/ FALSE)
      BY <1>3 DEF RedrawStart, Turns
    <2>2. disturbed' = disturbed
      BY <2>1 DEF MessageInv, TypeOK
    <2>3. DOMAIN none = {} /\ none \in Shown
      <3>1. DOMAIN none = {} /\ none \in [{} -> Line]
        OBVIOUS
      <3> HIDE DEF none
      <3> QED
        BY <3>1 DEF Shown, PartialOn
    <2>4. j.lines = none /\ j \in Redraw
      BY <1>1, <2>3 DEF Pressed, Redraw
    <2> HIDE DEF j, none
    <2> QED
      BY <1>1, <2>1, <2>2, <2>3, <2>4, RedrawGoesOn
  <1> QED
    BY <1>2, <1>3

\* One line is read off the record.
LEMMA RedrawReadKeeps ==
    ASSUME MessageInv, NEW t \in Taps, NEW k \in Listed, RedrawRead(t, k)
    PROVE  MessageInv'
  <1> DEFINE got == tap[t].lines
             more == [i \in DOMAIN got \cup {k} |-> IF i = k THEN record[k] ELSE got[i]]
             j == [step |-> "read", refs |-> tap[t].refs \ {k}, lines |-> more]
  <1>1. Reading(t) /\ ~Untouched(t) /\ UNCHANGED <<recordVars, message>>
    BY DEF RedrawRead, Reading, Untouched
  <1>2. tap[t] \in Redraw /\ DOMAIN got \subseteq Key
    BY <1>1, LinesAreKeys DEF MessageInv
  <1>3. CASE record[k] = "none"
    <2>1. Turns(t, Idle) /\ disturbed' = TRUE
      BY <1>3 DEF RedrawRead, Turns
    <2> QED
      BY <1>1, <2>1, EndKeeps
  <1>4. CASE record[k] # "none"
    <2>1. Turns(t, j) /\ disturbed' = (disturbed \/ FALSE)
      BY <1>4 DEF RedrawRead, Turns
    <2>2. disturbed' = disturbed
      BY <2>1 DEF MessageInv, TypeOK
    <2>3. record[k] \in Line
      BY <1>4, ListedAreKeys, TypeIs DEF MessageInv, Line
    <2>4. DOMAIN got \subseteq Listed /\ \A i \in DOMAIN got : got[i] \in Line
      BY <1>2, PartialIs DEF Redraw, Shown
    <2>5. more \in Shown
      BY <2>3, <2>4, PartialIs DEF Shown
    <2>6. j \in Redraw /\ j.lines = more
      BY <1>2, <2>5 DEF Redraw
    <2>7. \A i \in DOMAIN more : more[i] \in Answer => record[i] \in Answer
      BY <1>1 DEF MessageInv, AnswersExist
    <2>8. ~disturbed => \A i \in DOMAIN more : more[i] = record[i]
      BY <1>1 DEF MessageInv, OneByOne
    <2> HIDE DEF j, more
    <2> QED
      BY <1>1, <2>1, <2>2, <2>6, <2>7, <2>8, RedrawGoesOn
  <1> QED
    BY <1>3, <1>4

\* The message is edited to what was read.
LEMMA EditKeeps ==
    ASSUME MessageInv, NEW t \in Taps, Edit(t)
    PROVE  MessageInv'
  <1>1. /\ Reading(t) /\ Turns(t, Idle) /\ message' = tap[t].lines
        /\ UNCHANGED <<recordVars, disturbed>>
    BY DEF Edit, Turns, Reading
  <1>2. tap[t].lines \in Shown
    BY <1>1, LinesAreKeys DEF MessageInv, Redraw
  <1>3. Idle \in [step: {"idle"}] /\ Idle.step = "idle"
    BY DEF Idle
  <1>4. /\ tap' \in [Taps -> [step: {"idle"}] \cup Pressed \cup Redraw]
        /\ tap'[t] = Idle /\ \A u \in Taps \ {t} : tap'[u] = tap[u]
    BY <1>1, <1>3, TurnsTo DEF MessageInv
  <1>5. TypeOK'
    BY <1>1, <1>2, <1>4, TypeIs, TypeIsNext DEF MessageInv, recordVars
  <1>6. \A u \in Taps : Reading(u)' => Reading(u) /\ tap'[u] = tap[u]
    BY <1>3, <1>4 DEF Reading
  <1>7. AnswersExist'
    BY <1>1, <1>6 DEF MessageInv, AnswersExist, recordVars
  <1>8. OneByOne'
    BY <1>1, <1>3, <1>4, <1>6 DEF MessageInv, OneByOne, recordVars
  <1> QED
    BY <1>5, <1>7, <1>8 DEF MessageInv

-----------------------------------------------------------------------------
(* The invariant.                                                           *)

LEMMA InitInv == Init => MessageInv
  <1> SUFFICES ASSUME Init PROVE MessageInv
    OBVIOUS
  <1>1. Idle \in [step: {"idle"}] /\ Idle.step = "idle"
    BY DEF Idle
  <1>2. now \in Record!Time /\ record \in [Key -> Record!Entry] /\ disturbed \in BOOLEAN
    <2>1. MaxTime \in Record!Time
      BY MessageAssumption DEF Record!Time
    <2>2. "pending" \in Record!Entry /\ "none" \in Record!Entry
      BY DEF Record!Entry
    <2>3. [k \in Key |-> IF k \in Listed THEN "pending" ELSE "none"] \in [Key -> Record!Entry]
      BY <2>2
    <2> QED
      BY <2>1, <2>3 DEF Init
  <1>3. DOMAIN message = Listed /\ \A k \in Listed : message[k] = "pending" /\ record[k] = "pending"
    BY ListedAreKeys DEF Init
  <1>4. message \in Shown
    <2>1. message = [k \in DOMAIN message |-> message[k]]
      BY DEF Init
    <2> QED
      BY <1>3, <2>1, PartialIs, ListedAreKeys DEF Shown
  <1>5. tap = [t \in Taps |-> Idle]
    BY DEF Init
  <1>6. TypeOK
    BY <1>1, <1>2, <1>4, <1>5, TypeIs
  <1>7. "pending" \notin Answer
    BY DEF Answer, Record!Answer
  <1> QED
    BY <1>1, <1>3, <1>5, <1>6, <1>7 DEF MessageInv, AnswersExist, OneByOne, Reading

LEMMA TapKeeps ==
    ASSUME MessageInv, NEW t \in Taps, TapStep(t)
    PROVE  MessageInv'
  <1>1. CASE \E k \in Listed, s \in Answer : Press(t, k, s)
    BY <1>1, PressKeeps
  <1>2. CASE Check(t)
    BY <1>2, CheckKeeps
  <1>3. CASE Mark(t)
    BY <1>3, MarkStepKeeps
  <1>4. CASE MarkRefused(t)
    BY <1>4, RefusedKeeps
  <1>5. CASE RedrawStart(t)
    BY <1>5, RedrawStartKeeps
  <1>6. CASE \E k \in Listed : RedrawRead(t, k)
    BY <1>6, RedrawReadKeeps
  <1>7. CASE Edit(t)
    BY <1>7, EditKeeps
  <1>8. CASE Drop(t)
    BY <1>8, DropKeeps
  <1> QED
    BY <1>1, <1>2, <1>3, <1>4, <1>5, <1>6, <1>7, <1>8 DEF TapStep

LEMMA NextInv == MessageInv /\ [Next]_vars => MessageInv'
  <1> SUFFICES ASSUME MessageInv, [Next]_vars PROVE MessageInv'
    OBVIOUS
  <1>1. CASE RecordStep
    BY <1>1, RecordStepKeeps
  <1>2. ASSUME NEW t \in Taps, TapStep(t) PROVE MessageInv'
    BY <1>2, TapKeeps
  <1>3. CASE UNCHANGED vars
    BY <1>3 DEF vars, recordVars, MessageInv, TypeOK, AnswersExist, OneByOne, Reading, Untouched
  <1> QED
    BY <1>1, <1>2, <1>3 DEF Next

\* However taps, redraws and changes of the record from elsewhere interleave,
\* what a redraw has read of answers stays so, and a tap alone at work holds the
\* record as it is (onChoreTap, redrawNag).
THEOREM MessageInvariant == Spec => []MessageInv
  BY InitInv, NextInv, PTL DEF Spec

\* The record, the message and what each tap has read keep their shape
\* (buildNagMarkup, redrawNag).
THEOREM MessageTyped == Spec => []TypeOK
  <1>1. MessageInv => TypeOK
    BY DEF MessageInv
  <1> QED
    BY <1>1, MessageInvariant, PTL

\* No line claims an answer the record does not hold, for any messages, taps
\* and order of theirs (redrawNag, Service.Mark).
THEOREM ShownAnswersAreThere == Spec => []ShownAnswersExist
  <1>1. MessageInv => ShownAnswersExist
    BY DEF MessageInv, AnswersExist, ShownAnswersExist
  <1> QED
    BY <1>1, MessageInvariant, PTL

\* Taps carried through one after the other leave the message as the record
\* is, however many lines it has and whatever keyboards were pressed
\* (onChoreTap, redrawNag).
THEOREM TapsShowTheRecord == Spec => []ShowsTheRecord
  <1>1. MessageInv => ShowsTheRecord
    BY DEF MessageInv, OneByOne, Untouched, ShowsTheRecord
  <1> QED
    BY <1>1, MessageInvariant, PTL

=============================================================================
