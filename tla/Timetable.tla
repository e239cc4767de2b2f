------------------------------ MODULE Timetable ------------------------------
(***************************************************************************)
(* When the courses are: the weekly slots with their versions, the absences  *)
(* of the trainers, and what is read from them (internal/schedule,           *)
(* internal/store/slots.go, trainers.go, enrollment_write.go).  A slot moved *)
(* keeps its past: each version holds from a moment on.  The bot asks by the *)
(* version of now, the calendar is expanded through all of them.             *)
(* The clock is that of the wall; a moment is a minute in which a lesson may *)
(* begin, HourLen of them are a day.  Names, prices and notes are left out.  *)
(***************************************************************************)
EXTENDS Audit

CONSTANTS
    Trainers,
    Nobody,      \* no trainer is attached
    CourseForms, \* what the form of a course may hold
    SlotForms,   \* what the form of a slot may hold
    Absences,    \* the absences that may be entered
    HourLen,     \* moments of a day
    LessonHorizon, \* how far ahead the feed has lessons, in moments
    LastClock,   \* bound: the clock stops here
    MaxCourses, MaxSlots, MaxAbsences, \* bounds: rows ever made
    MaxMoves     \* bound: forms saved

TimetableAssumption ==
    /\ Nobody \notin Trainers
    /\ HourLen \in Nat \ {0}
    /\ {LessonHorizon, LastClock, MaxCourses, MaxSlots, MaxAbsences, MaxMoves} \subseteq Nat
    /\ CourseForms \subseteq [mode : STRING, trainer : Trainers \cup {Nobody}, active : BOOLEAN]
    /\ Absences \subseteq [trainer : Trainers, from : Int, to : Int]

ASSUME TimetableAssumption

VARIABLES
    clock,
    courses,  \* table enrollments, by id
    slots,    \* regular_slots with their slot_versions, by id and valid_from_at
    away,     \* table trainer_absences, by id
    kept,     \* the courses that visits or payments name
    doomed,   \* a course found without visits and payments, to be deleted
    ids,      \* the ids given so far: SQLite gives none twice
    moves,
    took      \* history: when each slot took place, were the trainer there

timetableVars == <<clock, courses, slots, away, kept, doomed, ids, moves, took>>

Modes == {"per_session", "exceptions_only"}
NoCourse == 0
DateOf(t) == t \div HourLen
OnDate == DateOf(clock)

InitTimetable ==
    /\ clock = 0
    /\ courses = <<>> /\ slots = <<>> /\ away = <<>>
    /\ kept = {}
    /\ doomed = NoCourse
    /\ ids = [courses |-> 0, slots |-> 0, away |-> 0]
    /\ moves = 0
    /\ took = [s \in 1 .. MaxSlots |-> {}]

-----------------------------------------------------------------------------
(* The reads.                                                               *)

\* The version of a slot that holds now: the latest that has begun.
currentVersion(s) ==
    slots[s].versions[Max({from \in DOMAIN slots[s].versions : from <= clock})]

ListSlots(c) == {s \in DOMAIN slots : slots[s].course = c}
ListEnrollments(activeOnly) == {c \in DOMAIN courses : courses[c].active \/ ~activeOnly}
SlotHistories == {s \in DOMAIN slots : courses[slots[s].course].active}
AllActiveSlots == SlotHistories

absencesOf(c, absences) == {a \in absences : a.trainer = courses[c].trainer}
Entered == {away[a] : a \in DOMAIN away}
AbsencesForEnrollment(c) == absencesOf(c, Entered)
UpcomingAbsences(d) == {a \in Entered : a.to >= d}

\* The absence that each course's card shows; of several the one ending last.
ActiveAbsenceByEnrollment(d) ==
    LET now(c) == {a \in AbsencesForEnrollment(c) : a.from <= d /\ d <= a.to}
    IN  [c \in {e \in ListEnrollments(TRUE) : now(e) # {}} |-> Max({a.to : a \in now(c)})]

\* The slots the bot asks about on a day.
SlotsForWeekday(weekday, d) ==
    {s \in DOMAIN slots :
        LET c == slots[s].course
        IN  /\ courses[c].active
            /\ currentVersion(s).weekday = weekday
            /\ courses[c].mode = "per_session"
            /\ ~absentOn(d, AbsencesForEnrollment(c))}

\* The lessons of one slot in a stretch of time: each version until the next.
\* Mutant of expandVersioned: the next version's first moment is in both.
expandOverlapping(versions, absent, from, to) ==
    {t \in from .. to :
        /\ ~absentOn(DateOf(t), absent)
        /\ \E v \in DOMAIN versions :
              /\ v <= t /\ \A next \in DOMAIN versions : next > v => t <= next
              /\ DateOf(t) % WeekLen = versions[v].weekday
              /\ t % HourLen = versions[v].time}

expandVersioned(versions, absent, from, to) ==
    {t \in from .. to :
        /\ ~absentOn(DateOf(t), absent)
        /\ \E v \in DOMAIN versions :
              /\ v <= t /\ \A next \in DOMAIN versions : next > v => t < next
              /\ DateOf(t) % WeekLen = versions[v].weekday
              /\ t % HourLen = versions[v].time}

Expand(histories, absences, from, to) ==
    UNION {{[slot |-> s, at |-> t] :
               t \in expandVersioned(slots[s].versions,
                                     absencesOf(slots[s].course, absences), from, to)} :
           s \in histories}

\* The lessons of the calendar feed, to its horizon (lessonHorizon).
handleCalendarICS ==
    Expand(SlotHistories, UpcomingAbsences(OnDate), clock, clock + LessonHorizon)

\* The cards of the Mini App: the courses' own screen and the home screen.
slotDTOs(c) == {currentVersion(s) : s \in ListSlots(c)}
handleCourses ==
    [c \in ListEnrollments(TRUE) |->
        [schedule |-> slotDTOs(c), absence |-> c \in DOMAIN ActiveAbsenceByEnrollment(OnDate)]]

scheduleLines(c) == {currentVersion(s) : s \in {r \in AllActiveSlots : slots[r].course = c}}
homeCourses ==
    [c \in {b \in DOMAIN courses : courses[b].active} |->
        [schedule |-> scheduleLines(c), absence |-> c \in DOMAIN ActiveAbsenceByEnrollment(OnDate)]]

-----------------------------------------------------------------------------
(* The courses.                                                             *)

Move ==
    /\ moves < MaxMoves
    /\ moves' = moves + 1

validateEnrollment(f) == f.mode \in Modes

CreateEnrollment(e) ==
    /\ courses' = [c \in DOMAIN courses \cup {ids.courses + 1} |->
                      IF c \in DOMAIN courses THEN courses[c] ELSE e]
    /\ ids' = [ids EXCEPT !.courses = @ + 1]

\* A new course is active whatever the form says.
handleEnrollmentCreate == \E f \in CourseForms :
    /\ Move /\ ids.courses < MaxCourses
    /\ validateEnrollment(f)
    /\ CreateEnrollment([f EXCEPT !.active = TRUE])
    /\ UNCHANGED <<clock, slots, away, kept, doomed, took>>

UpdateEnrollment(id, e) == courses' = [courses EXCEPT ![id] = e]

handleEnrollmentUpdate == \E id \in DOMAIN courses, f \in CourseForms :
    /\ Move
    /\ validateEnrollment(f)
    /\ UpdateEnrollment(id, f)
    /\ UNCHANGED <<clock, slots, away, kept, doomed, ids, took>>

\* A visit or a payment is stored, of a course that is there.
Keep == \E c \in DOMAIN courses :
    /\ kept' = kept \cup {c}
    /\ UNCHANGED <<clock, courses, slots, away, doomed, ids, moves, took>>

\* What is counted before a course is deleted may be stored in between.
DeleteEnrollmentRead == \E c \in DOMAIN courses :
    /\ Move
    /\ doomed = NoCourse
    /\ c \notin kept
    /\ doomed' = c
    /\ UNCHANGED <<clock, courses, slots, away, kept, ids, took>>

\* The slots go with the course; visits and payments keep it.
handleEnrollmentDelete ==
    LET gone == {doomed} \ kept
    IN  /\ doomed # NoCourse
        /\ doomed' = NoCourse
        /\ courses' = [c \in DOMAIN courses \ gone |-> courses[c]]
        /\ slots' = [s \in {r \in DOMAIN slots : slots[r].course \notin gone} |-> slots[s]]
        /\ UNCHANGED <<clock, away, kept, ids, moves, took>>

-----------------------------------------------------------------------------
(* The slots.  A form that is not a day and a time of day is refused.        *)

ParseSlot(f) == f.weekday \in 0 .. WeekLen - 1 /\ f.time \in 0 .. HourLen - 1

CreateSlot(c, f, validFrom) ==
    /\ slots' = [s \in DOMAIN slots \cup {ids.slots + 1} |->
                    IF s \in DOMAIN slots THEN slots[s]
                    ELSE [course |-> c, versions |-> [from \in {validFrom} |-> f]]]
    /\ ids' = [ids EXCEPT !.slots = @ + 1]

handleSlotCreate == \E c \in DOMAIN courses, f \in SlotForms :
    /\ Move /\ ids.slots < MaxSlots
    /\ ParseSlot(f)
    /\ CreateSlot(c, f, clock)
    /\ UNCHANGED <<clock, courses, away, kept, doomed, took>>

\* Mutant of AddSlotVersion: the version that holds is corrected in place.
AmendCurrent(s, validFrom, f) ==
    slots' = [slots EXCEPT ![s].versions[Max({v \in DOMAIN slots[s].versions : v <= validFrom})] = f]

\* A second save within the minute corrects the first.
AddSlotVersion(s, validFrom, f) ==
    slots' = [slots EXCEPT ![s].versions =
                 [from \in DOMAIN @ \cup {validFrom} |-> IF from = validFrom THEN f ELSE @[from]]]

\* Read and written in two statements, but a slot that is gone stays gone.
handleSlotUpdate == \E s \in DOMAIN slots, f \in SlotForms :
    /\ Move
    /\ ParseSlot(f)
    /\ AddSlotVersion(s, clock, f)
    /\ UNCHANGED <<clock, courses, away, kept, doomed, ids, took>>

DeleteSlot(s) == slots' = [r \in DOMAIN slots \ {s} |-> slots[r]]

handleSlotDelete == \E s \in DOMAIN slots :
    /\ Move
    /\ DeleteSlot(s)
    /\ UNCHANGED <<clock, courses, away, kept, doomed, ids, took>>

-----------------------------------------------------------------------------
(* The absences.                                                            *)

CreateAbsence(a) ==
    /\ a.from <= a.to
    /\ away' = [b \in DOMAIN away \cup {ids.away + 1} |->
                   IF b \in DOMAIN away THEN away[b] ELSE a]
    /\ ids' = [ids EXCEPT !.away = @ + 1]

handleAbsenceCreate == \E a \in Absences :
    /\ Move /\ ids.away < MaxAbsences
    /\ CreateAbsence(a)
    /\ UNCHANGED <<clock, courses, slots, kept, doomed, took>>

handleAbsenceDelete == \E a \in DOMAIN away :
    /\ Move
    /\ away' = [b \in DOMAIN away \ {a} |-> away[b]]
    /\ UNCHANGED <<clock, courses, slots, kept, doomed, ids, took>>

\* A moment passes: what was to take place in it did.
Pass ==
    /\ clock < LastClock
    /\ clock' = clock + 1
    /\ took' = [s \in DOMAIN took |->
                   took[s] \cup (IF s \in DOMAIN slots
                                 THEN expandVersioned(slots[s].versions, {}, clock, clock) ELSE {})]
    /\ UNCHANGED <<courses, slots, away, kept, doomed, ids, moves>>

NextTimetable ==
    \/ handleEnrollmentCreate \/ handleEnrollmentUpdate
    \/ Keep \/ DeleteEnrollmentRead \/ handleEnrollmentDelete
    \/ handleSlotCreate \/ handleSlotUpdate \/ handleSlotDelete
    \/ handleAbsenceCreate \/ handleAbsenceDelete
    \/ Pass

SpecTimetable == InitTimetable /\ [][NextTimetable]_timetableVars

-----------------------------------------------------------------------------
(* Properties.                                                              *)

TimetableTypeOK ==
    /\ clock \in 0 .. LastClock
    /\ \A c \in DOMAIN courses :
          /\ c \in 1 .. ids.courses
          /\ courses[c].mode \in Modes /\ courses[c].active \in BOOLEAN
          /\ courses[c].trainer \in Trainers \cup {Nobody}
    /\ \A s \in DOMAIN slots :
          /\ s \in 1 .. ids.slots
          /\ slots[s].course \in DOMAIN courses
          /\ DOMAIN slots[s].versions \in (SUBSET (0 .. clock)) \ {{}}
    /\ kept \subseteq DOMAIN courses
    /\ doomed \in {NoCourse} \cup 1 .. ids.courses

\* However often a slot is moved, the calendar expanded over the past shows the
\* lesson at every moment it was at and at no other: "leaving everything before
\* it exactly as it was recorded" (schedule/expand.go:90-95).
PastStands ==
    \A s \in DOMAIN slots : expandVersioned(slots[s].versions, {}, 0, clock - 1) = took[s]

\* What the family is told of the lessons agrees: at every moment the bot asks
\* about the very slots that the calendar has a lesson of just now; the calendar
\* shows on the days ahead, to the last that its horizon takes in whole, the dates
\* that the forecast counts; a card says that the trainer is away exactly when the
\* bot is silent about the course; and both screens of the Mini App show the same
\* cards.
CalendarIsAsked ==
    LET lessons == handleCalendarICS
        now == {l.slot : l \in {k \in lessons : k.at = clock}}
        whole == DateOf(clock + LessonHorizon + 1) - 1
        weekday == OnDate % WeekLen
        asked == SlotsForWeekday(weekday, OnDate)
        perSession == {s \in SlotHistories : courses[slots[s].course].mode = "per_session"}
    IN  /\ {s \in asked : currentVersion(s).time = clock % HourLen} = now \cap perSession
        /\ \A c \in ListEnrollments(TRUE) :
              LET ahead == {DateOf(l.at) : l \in {k \in lessons : slots[k.slot].course = c}}
                  weekdays == {v.weekday : v \in slotDTOs(c)}
              IN  {d \in ahead : OnDate < d /\ d <= whole} =
                  ToSet(DatesOf(weekdays, AbsencesForEnrollment(c), OnDate + 1, whole))
        /\ \A s \in perSession : currentVersion(s).weekday = weekday =>
              (s \in asked <=> ~handleCourses[slots[s].course].absence)
        /\ handleCourses = homeCourses

=============================================================================
