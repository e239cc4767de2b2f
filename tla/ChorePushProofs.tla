-------------------------- MODULE ChorePushProofs --------------------------
(***************************************************************************)
(* The due-time push for any lookback, any day, and any record: what it has *)
(* said without a doubt lies behind its mark, and what it is about to say   *)
(* lies ahead of it.                                                        *)
(***************************************************************************)
EXTENDS ChorePush, TLAPS

\* Minutes are numbers.
LEMMA Minutes ==
    /\ Time \subseteq Nat
    /\ 0 \in Time
    /\ \A k \in Key : k[2] \in Nat
  BY PushAssumption DEF Time, Key, Record!Time, Record!Key

\* The record keeps its type, and its clock does not go back.
LEMMA RecordSteps ==
    ASSUME TypeOK, Record!Next
    PROVE  now' \in Time /\ now <= now' /\ record' \in [Key -> Record!Entry]
  <1> USE DEF TypeOK, Key, Time
  <1>1. CASE Record!Tick
    BY <1>1, Minutes DEF Record!Tick
  <1>2. ASSUME NEW S \in SUBSET Record!Key, Record!Open(S) \/ Record!Withdraw(S)
        PROVE  now' = now /\ record' \in [Key -> Record!Entry]
    BY <1>2 DEF Record!Open, Record!Withdraw, Record!Entry
  <1>3. ASSUME NEW k \in Record!Key, NEW answer \in Record!Answer, Record!Decide(k, answer)
        PROVE  now' = now /\ record' \in [Key -> Record!Entry]
    BY <1>3 DEF Record!Decide, Record!Entry
  <1>4. QED
    BY <1>1, <1>2, <1>3, Minutes DEF Record!Next

\* What the push finds lies after its mark, within the lookback, and not after
\* the time of the tick.
LEMMA PushFinds ==
    ASSUME TypeOK, NEW k \in Unclosed(PushFrom(digest.at, lastPush), digest.at)
    PROVE  k \in Key /\ lastPush < k[2] /\ digest.at - Lookback < k[2] /\ k[2] <= digest.at
  <1>1. k \in Key /\ PushFrom(digest.at, lastPush) <= k[2] /\ k[2] <= digest.at
    BY DEF Unclosed
  <1>2. lastPush \in Nat /\ digest.at \in Nat /\ k[2] \in Nat /\ Lookback \in Nat
    BY <1>1, Minutes, PushAssumption DEF TypeOK
  <1>3. QED
    BY <1>1, <1>2 DEF PushFrom

\* The dates and the windows of the nag are numbers.
LEMMA NagNumbers ==
    ASSUME TypeOK
    PROVE  /\ Today(digest.at) \in Int
           /\ NagTimes # {} => NagTo(digest.at) \in Int
  <1> DEFINE nagTime == CHOOSE t \in NagTimes : TRUE
  <1>1. digest.at \in Int /\ Day \in Int /\ Day > 0
    <2>1. digest.at \in Time
      BY DEF TypeOK
    <2>2. digest.at \in Nat
      BY <2>1, Minutes
    <2>3. QED
      BY <2>2, PushAssumption
  <1>2. Today(digest.at) \in Int
    BY <1>1 DEF Today
  <1>3. ASSUME NagTimes # {} PROVE nagTime \in Int
    <2>1. nagTime \in NagTimes
      BY <1>3
    <2> HIDE DEF nagTime
    <2>2. QED
      BY <2>1, PushAssumption
  <1> HIDE DEF nagTime
  <1>4. ASSUME NagTimes # {} PROVE NagTo(digest.at) \in Int
    BY <1>1, <1>2, <1>3, <1>4 DEF NagTo, nagTime
  <1>5. QED
    BY <1>2, <1>4

\* The invariant holds at the start.
LEMMA InitPush == Init => PushInv
  <1> SUFFICES ASSUME Init PROVE PushInv
    OBVIOUS
  <1>1. now = 0 /\ record \in [Key -> Record!Entry]
    BY DEF Init, Record!Init, Record!Entry, Key
  <1>2. TypeOK
    BY <1>1, Minutes DEF Init, TypeOK, Resting, None
  <1>3. QED
    BY <1>1, <1>2 DEF Init, PushInv, MarkCovers, MarkInTime, AnnouncedOnce, Resting

\* The steps of the nag touch neither the mark nor what the push has said.
LEMMA NagSteps ==
    ASSUME PushInv, NagQuery \/ NagSend \/ NagFail
    PROVE  PushInv' /\ UNCHANGED <<boot, announced>>
  <1>1. /\ UNCHANGED <<recordVars, lastPush, boot, announced, twice, doubtful>>
        /\ digest'.at = digest.at
        /\ digest'.step \in {"push", "nagSend"}
        /\ digest'.step = "push" => digest'.found = {}
        /\ digest'.step = "nagSend" => NagTimes # {}
        /\ digest' \in [step: {"push", "nagSend"}, at: Time, found: SUBSET Key]
    <2>1. Unclosed(NagFrom(digest.at), NagTo(digest.at)) \in SUBSET Key
      BY DEF Unclosed
    <2>2. CASE NagQuery
      BY <2>1, <2>2 DEF PushInv, TypeOK, NagQuery, NagDone
    <2>3. CASE NagSend
      BY <2>3 DEF PushInv, TypeOK, NagSend, NagDone
    <2>4. CASE NagFail
      BY <2>4 DEF PushInv, TypeOK, NagFail, NagDone, historyVars
    <2>5. QED
      BY <2>2, <2>3, <2>4
  <1>2. lastNag' \in Int
    BY NagNumbers DEF PushInv, TypeOK, NagQuery, NagSend, NagFail, NagDone
  <1>3. nagged' \subseteq Key \X Int
    BY NagNumbers DEF PushInv, TypeOK, NagQuery, NagSend, NagFail, historyVars
  <1>4. TypeOK'
    BY <1>1, <1>2, <1>3 DEF PushInv, TypeOK, recordVars
  <1>5. QED
    BY <1>1, <1>4 DEF PushInv, MarkCovers, MarkInTime, AnnouncedOnce, recordVars

\* What a message that reaches the chat adds, when its chores lie after the
\* mark: nothing that was there without a doubt.
LEMMA DeliverNew ==
    ASSUME PushInv, digest.step = "pushSend", Deliver(digest.found)
    PROVE  /\ announced' = announced \cup digest.found
           /\ announced' \subseteq Key
           /\ twice' \subseteq announced'
           /\ twice' \subseteq doubtful
  <1>1. /\ announced' = announced \cup digest.found
        /\ twice' = twice \cup (announced \cap digest.found)
    BY DEF Deliver
  <1>2. ASSUME NEW k \in announced \cap digest.found PROVE k \in doubtful
    <2>1. /\ lastPush \in Nat /\ k[2] \in Nat
          /\ lastPush < k[2]
      BY <1>2, Minutes DEF PushInv, TypeOK, MarkCovers
    <2>2. QED
      BY <1>2, <2>1 DEF PushInv, MarkCovers
  <1>3. QED
    BY <1>1, <1>2 DEF PushInv, TypeOK, AnnouncedOnce

\* The mark moves to the time of the tick only with what it passes in the chat.
LEMMA PushSendInv ==
    ASSUME PushInv, PushSend
    PROVE  PushInv'
  <1>1. /\ announced' = announced \cup digest.found
        /\ announced' \subseteq Key /\ twice' \subseteq announced' /\ twice' \subseteq doubtful
    BY DeliverNew DEF PushSend
  <1>2. /\ UNCHANGED <<now, record, deleted, lastNag, boot, doubtful, nagged>>
        /\ lastPush' = digest.at /\ digest' = Resting /\ digest.step = "pushSend"
    BY DEF PushSend, recordVars
  <1>3. TypeOK'
    BY <1>1, <1>2, Minutes DEF PushInv, TypeOK, Resting
  <1>4. PICK k \in digest.found : lastPush < k[2] /\ k[2] <= digest.at
    BY <1>2 DEF PushInv, MarkCovers
  <1>5. /\ lastPush \in Nat /\ digest.at \in Nat /\ boot \in Nat /\ now \in Nat
        /\ \A j \in announced \cup digest.found : j[2] \in Nat
        /\ k[2] \in Nat
    BY <1>4, Minutes DEF PushInv, TypeOK
  <1>6. lastPush <= digest.at
    BY <1>4, <1>5
  <1>7. \A j \in announced' \ doubtful' : j[2] <= lastPush'
    BY <1>1, <1>2, <1>5, <1>6 DEF PushInv, MarkCovers
  <1>8. MarkCovers'
    BY <1>2, <1>7 DEF MarkCovers, Resting
  <1>9. MarkInTime'
    BY <1>2, <1>5, <1>6 DEF PushInv, MarkInTime, Resting
  <1>10. QED
    BY <1>1, <1>2, <1>3, <1>8, <1>9 DEF PushInv, AnnouncedOnce

\* A send that fails or that a stop cuts off leaves the mark or moves it to the
\* clock; what it may have delivered is in doubt.
LEMMA PushStopInv ==
    ASSUME PushInv, PushFail \/ Restart
    PROVE  PushInv'
  <1>1. \/ UNCHANGED <<announced, twice, doubtful>>
        \/ /\ digest.step = "pushSend"
           /\ Deliver(digest.found)
           /\ doubtful' = doubtful \cup digest.found
        \/ /\ digest.found = {}
           /\ Deliver(digest.found)
           /\ doubtful' = doubtful \cup digest.found
    BY DEF PushFail, Restart, PushInv, MarkCovers
  <1>2. /\ announced' \subseteq Key /\ twice' \subseteq announced' /\ doubtful' \subseteq announced'
        /\ announced' \ doubtful' \subseteq announced \ doubtful
        /\ twice' \subseteq doubtful'
    BY <1>1, DeliverNew DEF PushInv, TypeOK, AnnouncedOnce, Deliver
  <1>3. /\ UNCHANGED <<now, record, deleted>>
        /\ digest' = Resting
        /\ lastNag' \in {lastNag, None}
        /\ \/ lastPush' = lastPush /\ boot' = boot
           \/ lastPush' = now /\ boot' = now
    BY DEF PushFail, Restart, recordVars
  <1>8. nagged' \subseteq Key \X Int
    <2>1. \/ nagged' = nagged
          \/ /\ digest.step = "nagSend"
             /\ nagged' = nagged \cup (digest.found \X {NagTo(digest.at)})
      BY DEF PushFail, Restart
    <2>2. digest.step = "nagSend" => NagTo(digest.at) \in Int
      BY NagNumbers DEF PushInv, TypeOK
    <2>3. QED
      BY <2>1, <2>2 DEF PushInv, TypeOK
  <1>4. TypeOK'
    BY <1>2, <1>3, <1>8, Minutes DEF PushInv, TypeOK, Resting, None
  <1>5. /\ lastPush \in Nat /\ boot \in Nat /\ now \in Nat
        /\ \A j \in announced : j[2] \in Nat
    BY Minutes DEF PushInv, TypeOK
  <1>6. MarkCovers' /\ MarkInTime'
    BY <1>2, <1>3, <1>5 DEF PushInv, MarkCovers, MarkInTime, Resting
  <1>7. QED
    BY <1>2, <1>4, <1>6 DEF PushInv, AnnouncedOnce

\* Every step keeps the invariant.
LEMMA NextPush == PushInv /\ [Next]_vars => PushInv'
  <1> SUFFICES ASSUME PushInv, [Next]_vars PROVE PushInv'
    OBVIOUS
  <1>1. CASE RecordStep
    <2>1. /\ now' \in Time /\ now <= now' /\ record' \in [Key -> Record!Entry]
          /\ UNCHANGED <<deleted, loopVars, historyVars>>
      BY <1>1, RecordSteps DEF RecordStep, PushInv
    <2>2. TypeOK'
      BY <2>1 DEF PushInv, TypeOK, loopVars, historyVars
    <2>3. MarkInTime'
      <3>1. now \in Nat /\ now' \in Nat /\ lastPush \in Nat /\ digest.at \in Nat
        BY <2>1, Minutes DEF PushInv, TypeOK
      <3>2. QED
        BY <2>1, <3>1 DEF PushInv, MarkInTime, loopVars, historyVars
    <2>4. QED
      BY <2>1, <2>2, <2>3 DEF PushInv, MarkCovers, AnnouncedOnce, loopVars, historyVars
  <1>8. CASE \E c \in Chores : Delete(c)
    <2>1. deleted' \subseteq Chores /\ UNCHANGED <<now, record, loopVars, historyVars>>
      BY <1>8 DEF Delete, PushInv, TypeOK
    <2>2. QED
      BY <2>1 DEF PushInv, TypeOK, MarkCovers, MarkInTime, AnnouncedOnce, loopVars, historyVars
  <1>2. CASE Wake
    <2>1. /\ UNCHANGED <<now, record, deleted, lastPush, lastNag, boot, announced, twice,
                         doubtful, nagged>>
          /\ digest'.step \in {"nag", "push"} /\ digest'.at = now /\ digest'.found = {}
          /\ digest' \in [step: {"nag", "push"}, at: Time, found: SUBSET Key]
          /\ digest'.step = "nag" => NagTimes # {}
      BY <1>2 DEF Wake, NagDue, PushInv, TypeOK, recordVars, historyVars
    <2>2. TypeOK'
      BY <2>1 DEF PushInv, TypeOK
    <2>3. now \in Nat
      BY Minutes DEF PushInv, TypeOK
    <2>4. QED
      BY <2>1, <2>2, <2>3 DEF PushInv, MarkCovers, MarkInTime, AnnouncedOnce
  <1>3. CASE NagQuery \/ NagSend \/ NagFail
    BY <1>3, NagSteps
  <1>4. CASE PushQuery
    <2> DEFINE due == Unclosed(PushFrom(digest.at, lastPush), digest.at)
    <2>1. /\ UNCHANGED <<now, record, deleted, lastPush, lastNag, boot, announced, twice,
                         doubtful, nagged>>
          /\ digest' = IF due = {} THEN Resting
                       ELSE [digest EXCEPT !.step = "pushSend", !.found = due]
      BY <1>4 DEF PushQuery, recordVars, historyVars
    <2>2. due \subseteq Key
      BY DEF Unclosed
    <2>3. TypeOK'
      BY <2>1, <2>2, Minutes DEF PushInv, TypeOK, Resting
    <2>4. CASE due = {}
      <3>1. MarkInTime'
        BY <2>1, <2>4, Minutes DEF PushInv, TypeOK, MarkInTime, Resting
      <3>2. QED
        BY <2>1, <2>3, <2>4, <3>1 DEF PushInv, MarkCovers, AnnouncedOnce, Resting
    <2>5. CASE due # {}
      <3>1. digest'.step = "pushSend" /\ digest'.found = due /\ digest'.at = digest.at
        BY <2>1, <2>5 DEF PushInv, TypeOK
      <3>2. \A k \in due :
               lastPush < k[2] /\ digest.at - Lookback < k[2] /\ k[2] <= digest.at
        BY PushFinds DEF PushInv
      <3> HIDE DEF due
      <3>3. QED
        BY <2>1, <2>3, <2>5, <3>1, <3>2 DEF PushInv, MarkCovers, MarkInTime, AnnouncedOnce
    <2>6. QED
      BY <2>4, <2>5
  <1>5. CASE PushSend
    BY <1>5, PushSendInv
  <1>6. CASE PushFail \/ Restart
    BY <1>6, PushStopInv
  <1>7. CASE UNCHANGED vars
    BY <1>7 DEF vars, recordVars, loopVars, historyVars, PushInv, TypeOK, MarkCovers,
                MarkInTime, AnnouncedOnce
  <1>9. QED
    BY <1>1, <1>2, <1>3, <1>4, <1>5, <1>6, <1>7, <1>8 DEF Next

\* Every state of the loop satisfies the invariant.
THEOREM PushInvariant == Spec => []PushInv
  BY InitPush, NextPush, PTL DEF Spec

\* Nothing is pushed twice that was not in doubt, whatever the lookback and
\* however passes, restarts and late rows interleave with the loop.
THEOREM PushedOnce == Spec => []AnnouncedOnce
  <1>1. PushInv => AnnouncedOnce
    BY DEF PushInv
  <1>2. QED
    BY <1>1, PushInvariant, PTL

\* No start announces what came due before it, and no tick what is older than
\* the lookback.
THEOREM NoBacklogPushed == Spec => NoFlood
  <1>1. PushInv /\ [Next]_vars =>
           [\A k \in announced' \ announced :
               boot < k[2] /\ digest.at - Lookback < k[2]]_vars
    <2> SUFFICES ASSUME PushInv, [Next]_vars, NEW k \in announced' \ announced
                 PROVE  boot < k[2] /\ digest.at - Lookback < k[2]
      OBVIOUS
    <2>1. digest.step = "pushSend" /\ k \in digest.found
      <3>1. CASE PushSend \/ PushFail \/ Restart
        BY <3>1 DEF PushSend, PushFail, Restart, Deliver, PushInv, MarkCovers
      <3>2. CASE NagQuery \/ NagSend \/ NagFail
        BY <3>2, NagSteps
      <3>3. CASE RecordStep \/ (\E c \in Chores : Delete(c)) \/ Wake \/ PushQuery
                 \/ UNCHANGED vars
        BY <3>3 DEF RecordStep, Delete, Wake, PushQuery, vars, historyVars
      <3>4. QED
        BY <3>1, <3>2, <3>3 DEF Next
    <2>2. /\ k[2] \in Nat /\ boot \in Nat /\ lastPush \in Nat
          /\ lastPush < k[2] /\ digest.at - Lookback < k[2] /\ boot <= lastPush
      BY <2>1, Minutes DEF PushInv, TypeOK, MarkCovers, MarkInTime
    <2>3. QED
      BY <2>2
  <1>2. QED
    BY <1>1, PushInvariant, PTL DEF Spec, NoFlood

\* The loop keeps its types.
THEOREM PushTyped == Spec => []TypeOK
  <1>1. PushInv => TypeOK
    BY DEF PushInv
  <1>2. QED
    BY <1>1, PushInvariant, PTL

-----------------------------------------------------------------------------
(* The nag. *)

NagTime == CHOOSE t \in NagTimes : TRUE

\* The end of a nag's window is the minute of the nag on some day.
NagEnd(to) == \E n \in Int : to = n * Day + NagTime

\* The day that ends with the window.
InWindow(k, to) == to - Day < k[2] /\ k[2] <= to

\* What was nagged about lay in the window of that evening, and so does what is
\* about to be.
NagInv ==
    /\ \A a \in nagged : NagTimes # {} /\ NagEnd(a[2]) /\ InWindow(a[1], a[2])
    /\ digest.step = "nagSend" => \A k \in digest.found : InWindow(k, NagTo(digest.at))

LEMMA WindowsApart ==
    ASSUME NEW n \in Int, NEW m \in Int, n < m
    PROVE  n * Day + Day <= m * Day
  <1>1. PICK d \in Nat : m = n + 1 + d
    <2>1. m - n - 1 \in Nat /\ m = n + 1 + (m - n - 1)
      OBVIOUS
    <2>2. QED
      BY <2>1
  <1>2. Day \in Nat
    BY PushAssumption
  <1>3. m * Day = n * Day + Day + d * Day
    BY <1>1, <1>2
  <1>4. d * Day \in Nat /\ n * Day \in Int
    BY <1>1, <1>2
  <1>5. QED
    BY <1>2, <1>3, <1>4

\* Windows that share a chore are one.
LEMMA OneWindow ==
    ASSUME NagTimes # {}, NEW k \in Key, NEW s, NEW t, NagEnd(s), NagEnd(t),
           InWindow(k, s), InWindow(k, t)
    PROVE  s = t
  <1>1. PICK n \in Int : s = n * Day + NagTime
    BY DEF NagEnd
  <1>2. PICK m \in Int : t = m * Day + NagTime
    BY DEF NagEnd
  <1>3. NagTime \in Int
    <2>1. NagTime \in NagTimes
      BY DEF NagTime
    <2>2. QED
      BY <2>1, PushAssumption
  <1>4. k[2] \in Nat /\ Day \in Nat /\ n * Day \in Int /\ m * Day \in Int
    BY Minutes, PushAssumption
  <1>5. ~(n < m) /\ ~(m < n)
    <2>1. CASE n < m
      <3>1. n * Day + Day <= m * Day
        BY <2>1, WindowsApart
      <3>2. QED
        BY <1>1, <1>2, <1>3, <1>4, <3>1 DEF InWindow
    <2>2. CASE m < n
      <3>1. m * Day + Day <= n * Day
        BY <2>2, WindowsApart
      <3>2. QED
        BY <1>1, <1>2, <1>3, <1>4, <3>1 DEF InWindow
    <2>3. QED
      BY <2>1, <2>2
  <1>6. QED
    BY <1>1, <1>2, <1>5

LEMMA NagEnds ==
    ASSUME TypeOK, NagTimes # {}
    PROVE  NagEnd(NagTo(digest.at)) /\ NagTo(digest.at) \in Int
  <1> DEFINE n == Today(digest.at)
             today == n * Day + NagTime
  <1>1. NagTo(digest.at) = IF today > digest.at THEN today - Day ELSE today
    BY DEF NagTo, NagTime
  <1>2. n \in Int /\ NagTo(digest.at) \in Int
    BY NagNumbers
  <1>3. NagTime \in Int
    <2>1. NagTime \in NagTimes
      BY DEF NagTime
    <2>2. QED
      BY <2>1, PushAssumption
  <1>4. NagTo(digest.at) = today \/ NagTo(digest.at) = today - Day
    <2> HIDE DEF today
    <2>1. QED
      BY <1>1
  <1> HIDE DEF n
  <1>5. n - 1 \in Int /\ today - Day = (n - 1) * Day + NagTime
    BY <1>2, <1>3, PushAssumption
  <1>6. QED
    BY <1>2, <1>4, <1>5 DEF NagEnd

LEMMA DigestTurns ==
    ASSUME TypeOK, NEW step, NEW found, digest' = [digest EXCEPT !.step = step, !.found = found]
    PROVE  digest'.step = step /\ digest'.found = found /\ digest'.at = digest.at
  BY DEF TypeOK

\* A step after which no nag is about to be sent.
LEMMA NoNagNext ==
    ASSUME TypeOK, Wake \/ NagFail \/ NagSend \/ PushQuery \/ PushSend \/ PushFail \/ Restart
    PROVE  digest'.step # "nagSend"
  <1>1. CASE Wake
    BY <1>1 DEF Wake
  <1>2. CASE NagFail \/ NagSend
    <2>1. digest' = [digest EXCEPT !.step = "push", !.found = {}]
      BY <1>2 DEF NagFail, NagSend, NagDone
    <2>2. digest'.step = "push"
      BY <2>1, DigestTurns, Zenon
    <2>3. QED
      BY <2>2
  <1>3. CASE PushQuery
    <2>1. digest' = Resting \/ \E due : digest' = [digest EXCEPT !.step = "pushSend", !.found = due]
      BY <1>3 DEF PushQuery
    <2>2. ASSUME NEW due, digest' = [digest EXCEPT !.step = "pushSend", !.found = due]
          PROVE  digest'.step = "pushSend"
      BY <2>2, DigestTurns, Zenon
    <2>3. digest' = Resting \/ digest'.step = "pushSend"
      BY <2>1, <2>2, Zenon
    <2>4. QED
      BY <2>3 DEF Resting
  <1>4. CASE PushSend \/ PushFail \/ Restart
    BY <1>4 DEF PushSend, PushFail, Restart, Resting
  <1>5. QED
    BY <1>1, <1>2, <1>3, <1>4

\* A sending of the nag, or a stop that cuts it off.
LEMMA NaggedInv ==
    ASSUME TypeOK, NagInv, digest'.step # "nagSend",
           \/ nagged' = nagged
           \/ /\ digest.step = "nagSend"
              /\ nagged' = nagged \cup (digest.found \X {NagTo(digest.at)})
    PROVE  NagInv'
  <1>1. CASE nagged' = nagged
    BY <1>1 DEF NagInv
  <1>2. CASE /\ digest.step = "nagSend"
             /\ nagged' = nagged \cup (digest.found \X {NagTo(digest.at)})
    <2>1. NagTimes # {} /\ NagEnd(NagTo(digest.at))
      BY <1>2, NagEnds DEF TypeOK
    <2>2. \A a \in digest.found \X {NagTo(digest.at)} : NagEnd(a[2]) /\ InWindow(a[1], a[2])
      BY <1>2, <2>1 DEF NagInv
    <2>3. QED
      BY <1>2, <2>1, <2>2 DEF NagInv
  <1>3. QED
    BY <1>1, <1>2

LEMMA NagStep == PushInv /\ NagInv /\ [Next]_vars => NagInv'
  <1> SUFFICES ASSUME PushInv, NagInv, [Next]_vars PROVE NagInv'
    OBVIOUS
  <1>0. TypeOK
    BY DEF PushInv
  <1>1. CASE UNCHANGED <<digest, nagged>>
    BY <1>1 DEF NagInv
  <1>2. CASE RecordStep \/ (\E c \in Chores : Delete(c)) \/ UNCHANGED vars
    BY <1>1, <1>2 DEF RecordStep, Delete, vars, loopVars, historyVars
  <1>3. CASE Wake \/ NagFail \/ PushQuery \/ PushSend \/ PushFail
    <2>1. UNCHANGED nagged
      BY <1>3 DEF Wake, NagFail, PushQuery, PushSend, PushFail, historyVars
    <2>2. digest'.step # "nagSend"
      BY <1>0, <1>3, NoNagNext
    <2>3. QED
      BY <1>0, <2>1, <2>2, NaggedInv
  <1>4. CASE NagSend \/ Restart
    <2>1. digest'.step # "nagSend"
      BY <1>0, <1>4, NoNagNext
    <2>2. QED
      BY <1>0, <1>4, <2>1, NaggedInv DEF NagSend, Restart
  <1>5. CASE NagQuery
    <2> DEFINE open == Unclosed(NagFrom(digest.at), NagTo(digest.at))
    <2>1. UNCHANGED nagged /\ digest.step = "nag"
      BY <1>5 DEF NagQuery
    <2>2. CASE open = {}
      <3>1. digest'.step # "nagSend"
        <4>1. digest' = [digest EXCEPT !.step = "push", !.found = {}]
          BY <1>5, <2>2 DEF NagQuery, NagDone
        <4>2. digest'.step = "push"
          BY <1>0, <4>1, DigestTurns, Zenon
        <4>3. QED
          BY <4>2
      <3>2. QED
        BY <1>0, <2>1, <3>1, NaggedInv
    <2>3. CASE open # {}
      <3>1. digest' = [digest EXCEPT !.step = "nagSend", !.found = open]
        BY <1>5, <2>3 DEF NagQuery
      <3>2. \A k \in open : InWindow(k, NagTo(digest.at))
        <4>1. NagTo(digest.at) \in Int
          BY <1>0, <2>1, NagEnds DEF TypeOK
        <4>2. QED
          BY <4>1, Minutes, PushAssumption DEF Unclosed, NagFrom, InWindow
      <3> HIDE DEF open
      <3>3. digest'.found = open /\ digest'.at = digest.at
        BY <1>0, <3>1, DigestTurns, Zenon
      <3>4. QED
        BY <2>1, <3>2, <3>3 DEF NagInv, NagTo
    <2>4. QED
      BY <2>2, <2>3
  <1>6. QED
    BY <1>2, <1>3, <1>4, <1>5 DEF Next

THEOREM NagInvariant == Spec => []NagInv
  <1>1. Init => NagInv
    BY DEF Init, NagInv, Resting
  <1>2. QED
    BY <1>1, NagStep, PushInvariant, PTL DEF Spec

\* No chore belongs to the windows of two evenings, whatever the minute of the
\* nag and however restarts repeat a sending (nagWindow).
THEOREM NaggedInOneWindow == Spec => []OneNagWindow
  <1>1. PushInv /\ NagInv => OneNagWindow
    <2> SUFFICES ASSUME PushInv, NagInv, NEW a \in nagged, NEW b \in nagged, a[1] = b[1]
                 PROVE  a[2] = b[2]
      BY DEF OneNagWindow
    <2>1. a[1] \in Key
      BY DEF PushInv, TypeOK
    <2>2. NagEnd(a[2]) /\ NagEnd(b[2]) /\ InWindow(a[1], a[2]) /\ InWindow(a[1], b[2]) /\ NagTimes # {}
      BY DEF NagInv
    <2>3. QED
      BY <2>1, <2>2, OneWindow
  <1>2. QED
    BY <1>1, PushInvariant, NagInvariant, PTL

=============================================================================
