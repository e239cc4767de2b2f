------------------------------- MODULE Chores -------------------------------
(***************************************************************************)
(* The recurring-chore record: internal/reminders over the three tables of *)
(* internal/store/reminders.go.                                            *)
(*                                                                         *)
(*   reminders             what the chore is, and whether it is switched on *)
(*   reminder_rules        how it repeated, as versions with a start        *)
(*   reminder_occurrences  what came due, one row per (chore, instant)      *)
(*                                                                         *)
(* The grain is one store call.  SQLite serialises writers (immediate       *)
(* transactions, internal/db), so a call is atomic; a handler or a pass     *)
(* that makes several is several actions, and anything may happen between   *)
(* them.  What it read earlier is kept in pass, mark or edit.               *)
(*                                                                         *)
(* Time is counted in minutes, the resolution of due_at, valid_from_at and  *)
(* active_since.  A rule text (dtstart and RRULE together) is the set of    *)
(* instants recur.Expand would list for it.                                 *)
(***************************************************************************)
EXTENDS Integers, Functions

CONSTANTS
    Chores,         \* ids of reminders
    RuleIds,        \* ids of rows of reminder_rules
    Texts,          \* the rule texts a person may save, each a set of instants
    MaxTime,        \* bound: the last minute of the model
    BackfillWindow, \* how far back the ticker's pass looks
    RepairWindow,   \* how far back the pass inside Upcoming looks
    Ticker,         \* the materialiser goroutine
    Readers,        \* concurrent calls of Upcoming, each running its repair
    Markers,        \* concurrent calls of Mark
    Editors         \* concurrent calls of AddRule

ASSUME ChoresAssumption ==
    /\ MaxTime \in Nat
    /\ BackfillWindow \in Nat
    /\ RepairWindow \in 0..BackfillWindow
    /\ Texts \subseteq SUBSET Nat
    /\ Ticker \notin Readers

VARIABLES
    now,     \* the service clock
    chores,  \* table reminders
    rules,   \* table reminder_rules, by id
    rows,    \* table reminder_occurrences, by its natural key
    pass,    \* what each materialiser pass in flight has read
    mark,    \* what each Mark in flight has read
    edit,    \* what each AddRule in flight has read
    \* History, read by properties only.
    ever,    \* the instants each rule version has ever covered with a text
    on       \* the minutes in which each chore was switched on

dbVars == <<chores, rules, rows>>
historyVars == <<ever, on>>
vars == <<now, chores, rules, rows, pass, mark, edit, ever, on>>

Time == 0..MaxTime
Key == Chores \X Time
Passes == {Ticker} \cup Readers

Closed == {"done", "skipped"}
Status == {"pending"} \cup Closed

Chore == [state: {"absent", "kept", "deleted"}, active: BOOLEAN, since: Time]
Rule == [chore: Chores, from: Time, text: Texts]
Row == [status: Status, rule: RuleIds]
OpenRow == [status: {"pending"}, rule: RuleIds]

\* The empty function, where a partial function has nothing yet.
Nothing == [x \in {} |-> 0]

\* Mutant of InsertOrIgnore: a pass writes over what is there.
InsertOrReplace(table, new) ==
    [k \in DOMAIN table \cup DOMAIN new |->
        IF k \in DOMAIN new THEN new[k] ELSE table[k]]

\* INSERT ... ON CONFLICT DO NOTHING of the rows new into a table.
InsertOrIgnore(table, new) ==
    [k \in DOMAIN table \cup DOMAIN new |->
        IF k \in DOMAIN table THEN table[k] ELSE new[k]]

\* The upsert and the plain insert of one row.
Put(table, key, row) ==
    [k \in DOMAIN table \cup {key} |-> IF k = key THEN row ELSE table[k]]

-----------------------------------------------------------------------------
(* Reading the tables. *)

\* store.ActiveReminders: not deleted and switched on.
ActiveReminders ==
    {c \in Chores : chores[c].state = "kept" /\ chores[c].active}

\* Mutant of RuleAt: the newest version, in force or not.
NewestRule(c, t) ==
    {r \in DOMAIN rules :
        /\ rules[r].chore = c
        /\ \A q \in DOMAIN rules : rules[q].chore = c => rules[q].from <= rules[r].from}

\* The versions whose valid_from_at has passed at t and that no later version
\* has replaced by then: at most one, valid_from_at being unique per chore.
\* expandVersioned cuts its window at the same boundaries ruleAt walks.
RuleAt(c, t) ==
    {r \in DOMAIN rules :
        /\ rules[r].chore = c
        /\ rules[r].from <= t
        /\ \A q \in DOMAIN rules :
              rules[q].chore = c /\ rules[q].from <= t
                  => rules[q].from <= rules[r].from}

\* The version that schedules an occurrence of c at t, if one does.
OccursAt(c, t) == {r \in RuleAt(c, t) : t \in rules[r].text}

\* How far back a pass of p reaches: the backfill of the ticker, or the two
\* minutes a read repairs.
Reach(p) == IF p = Ticker THEN BackfillWindow ELSE RepairWindow

\* Mutant of DueKeys: the window runs on to the next minute.
DueKeysAhead(p, at, since) ==
    {k \in Key :
        /\ k[1] \in DOMAIN since
        /\ since[k[1]] <= k[2]
        /\ at - Reach(p) <= k[2]
        /\ k[2] <= at + 1
        /\ OccursAt(k[1], k[2]) # {}}

\* Mutant of DueKeys: the backfill ignores active_since.
DueKeysUnfloored(p, at, since) ==
    {k \in Key :
        /\ k[1] \in DOMAIN since
        /\ at - Reach(p) <= k[2]
        /\ k[2] <= at
        /\ OccursAt(k[1], k[2]) # {}}

\* Mutant of DueKeys: the window leaves out its last minute.
DueKeysBefore(p, at, since) ==
    {k \in Key :
        /\ k[1] \in DOMAIN since
        /\ since[k[1]] <= k[2]
        /\ at - Reach(p) <= k[2]
        /\ k[2] < at
        /\ OccursAt(k[1], k[2]) # {}}

\* materialiseSince: the keys a pass that read the clock as at and the active
\* chores with their active_since writes, under the rules as they are now.
DueKeys(p, at, since) ==
    {k \in Key :
        /\ k[1] \in DOMAIN since
        /\ since[k[1]] <= k[2]
        /\ at - Reach(p) <= k[2]
        /\ k[2] <= at
        /\ OccursAt(k[1], k[2]) # {}}

\* Mutant of FreeFrom: the index is missing.
AnyFrom(c, from, ids) == TRUE

\* UNIQUE (reminder_id, valid_from_at), for a version other than those in ids.
FreeFrom(c, from, ids) ==
    \A q \in DOMAIN rules \ ids :
        ~(rules[q].chore = c /\ rules[q].from = from)

-----------------------------------------------------------------------------
(* The processes at rest. *)

IdlePass == [step |-> "idle", at |-> 0, since |-> Nothing, batch |-> Nothing]
IdleMark == [step |-> "idle"]
IdleEdit == [step |-> "idle"]

Init ==
    /\ now = 0
    /\ chores = [c \in Chores |->
                    [state |-> "absent", active |-> FALSE, since |-> 0]]
    /\ rules = Nothing
    /\ rows = Nothing
    /\ pass = [p \in Passes |-> IdlePass]
    /\ mark = [m \in Markers |-> IdleMark]
    /\ edit = [e \in Editors |-> IdleEdit]
    /\ ever = {}
    /\ on = {}

Tick ==
    /\ now < MaxTime
    /\ now' = now + 1
    /\ on' = on \cup (ActiveReminders \X {now'})
    /\ UNCHANGED <<chores, rules, rows, pass, mark, edit, ever>>

-----------------------------------------------------------------------------
(* The materialiser: Materialise from its ticker, materialiseSince from     *)
(* Upcoming.                                                                *)

\* Reads the clock, then ActiveReminders.
PassStart(p) ==
    /\ pass[p].step = "idle"
    /\ ActiveReminders # {}
    /\ pass' = [pass EXCEPT ![p] =
                  [step  |-> "rules",
                   at    |-> now,
                   since |-> [c \in ActiveReminders |-> chores[c].since],
                   batch |-> Nothing]]
    /\ UNCHANGED <<now, chores, rules, rows, mark, edit, ever, on>>

\* Reads RulesForAll and expands every chore of the first read.
PassRules(p) ==
    /\ pass[p].step = "rules"
    /\ pass' = [pass EXCEPT ![p] =
                  [step  |-> "write",
                   at    |-> 0,
                   since |-> Nothing,
                   batch |-> [k \in DueKeys(p, pass[p].at, pass[p].since) |->
                                 [status |-> "pending",
                                  rule   |-> CHOOSE r \in OccursAt(k[1], k[2]) : TRUE]]]]
    /\ UNCHANGED <<now, chores, rules, rows, mark, edit, ever, on>>

\* MaterialiseOccurrences: one transaction, ON CONFLICT DO NOTHING.
PassWrite(p) ==
    /\ pass[p].step = "write"
    /\ rows' = InsertOrIgnore(rows, pass[p].batch)
    /\ pass' = [pass EXCEPT ![p] = IdlePass]
    /\ UNCHANGED <<now, chores, rules, mark, edit, ever, on>>

\* A query or the transaction fails: the pass is logged and nothing is written.
PassFail(p) ==
    /\ pass[p].step # "idle"
    /\ pass' = [pass EXCEPT ![p] = IdlePass]
    /\ UNCHANGED <<now, chores, rules, rows, mark, edit, ever, on>>

-----------------------------------------------------------------------------
(* Mark: a person closes one occurrence. *)

\* Refuses a future instant, then looks for the row.  The row is the authority
\* when there is one; otherwise the rules are asked.
MarkStart(m, k, s) ==
    /\ mark[m].step = "idle"
    /\ k[2] <= now
    /\ mark' = [mark EXCEPT ![m] =
                  IF k \in DOMAIN rows
                  THEN [step |-> "write", key |-> k, status |-> s, rule |-> rows[k].rule]
                  ELSE [step |-> "reminder", key |-> k, status |-> s, at |-> now]]
    /\ UNCHANGED <<now, chores, rules, rows, pass, edit, ever, on>>

\* GetReminder, then the backfill floor; not whether the chore is switched on.
MarkReminder(m) ==
    /\ mark[m].step = "reminder"
    /\ LET c == mark[m].key[1]
           t == mark[m].key[2]
       IN  mark' = [mark EXCEPT ![m] =
                      IF /\ chores[c].state = "kept"
                         /\ chores[c].since <= t
                         /\ mark[m].at - BackfillWindow <= t
                      THEN [step |-> "rules", key |-> mark[m].key, status |-> mark[m].status]
                      ELSE IdleMark]
    /\ UNCHANGED <<now, chores, rules, rows, pass, edit, ever, on>>

\* RulesFor and occursAt.
MarkRules(m) ==
    /\ mark[m].step = "rules"
    /\ LET found == OccursAt(mark[m].key[1], mark[m].key[2])
       IN  mark' = [mark EXCEPT ![m] =
                      IF found = {}
                      THEN IdleMark
                      ELSE [step |-> "write", key |-> mark[m].key,
                            status |-> mark[m].status,
                            rule |-> CHOOSE r \in found : TRUE]]
    /\ UNCHANGED <<now, chores, rules, rows, pass, edit, ever, on>>

\* MarkOccurrence: inserts, or overwrites the status and keeps the rule.
MarkWrite(m) ==
    /\ mark[m].step = "write"
    /\ LET k == mark[m].key
           r == IF k \in DOMAIN rows THEN rows[k].rule ELSE mark[m].rule
       IN  rows' = Put(rows, k, [status |-> mark[m].status, rule |-> r])
    /\ mark' = [mark EXCEPT ![m] = IdleMark]
    /\ UNCHANGED <<now, chores, rules, pass, edit, ever, on>>

-----------------------------------------------------------------------------
(* The chore and its switch. *)

\* The instants a version covers from its start on.
Covers(r, from, text) == {r} \X {t \in text : t \in Time /\ from <= t}

\* Service.Create: the chore and its first version in one transaction, switched
\* on, active_since stamped from the service clock.
Create(c, r, from, text) ==
    /\ chores[c].state = "absent"
    /\ r \notin DOMAIN rules
    /\ chores' = [chores EXCEPT ![c] =
                    [state |-> "kept", active |-> TRUE, since |-> now]]
    /\ rules' = Put(rules, r, [chore |-> c, from |-> from, text |-> text])
    /\ ever' = ever \cup Covers(r, from, text)
    /\ on' = on \cup {<<c, now>>}
    /\ UNCHANGED <<now, rows, pass, mark, edit>>

\* Mutant of SetActive: the floor is stamped a minute late.
SetActiveLate(c, active) ==
    /\ chores[c].state = "kept"
    /\ chores' = [chores EXCEPT
                    ![c].active = active,
                    ![c].since  = IF active THEN now + 1 ELSE @]
    /\ on' = IF active THEN on \cup {<<c, now>>} ELSE on
    /\ UNCHANGED <<now, rules, rows, pass, mark, edit, ever>>

\* SetReminderActive: switching on moves active_since, switching off does not.
\* The caller compared with a chore it read earlier, so either value may come.
SetActive(c, active) ==
    /\ chores[c].state = "kept"
    /\ chores' = [chores EXCEPT
                    ![c].active = active,
                    ![c].since  = IF active THEN now ELSE @]
    /\ on' = IF active THEN on \cup {<<c, now>>} ELSE on
    /\ UNCHANGED <<now, rules, rows, pass, mark, edit, ever>>

\* SoftDeleteReminder: the rows stay.
SoftDelete(c) ==
    /\ chores[c].state = "kept"
    /\ chores' = [chores EXCEPT ![c].state = "deleted"]
    /\ UNCHANGED <<now, rules, rows, pass, mark, edit, ever, on>>

-----------------------------------------------------------------------------
(* Rule versions. *)

\* Mutant of OpenRowsOf: answered rows are dropped too.
AllRowsOf(r) == {k \in DOMAIN rows : rows[k].rule = r}

\* The open rows a version produced.
OpenRowsOf(r) == {k \in DOMAIN rows : rows[k].rule = r /\ rows[k].status = "pending"}

\* AmendRuleAndDropOpen: rewrites the version and drops its open rows in one
\* transaction.  A clash of valid_from_at rolls both back.
AmendTx(r, from, text) ==
    IF FreeFrom(rules[r].chore, from, {r})
    THEN /\ rules' = [rules EXCEPT ![r].from = from, ![r].text = text]
         /\ rows' = Restrict(rows, DOMAIN rows \ OpenRowsOf(r))
         /\ ever' = ever \cup Covers(r, from, text)
    ELSE UNCHANGED <<rules, rows, ever>>

\* Service.AmendRule from a form: the new start is the one the form carries,
\* which may have been read before another edit moved it.
AmendRule(r, from, text) ==
    /\ r \in DOMAIN rules
    /\ AmendTx(r, from, text)
    /\ UNCHANGED <<now, chores, pass, mark, edit, on>>

\* Service.AddRule: the chore exists, RulesFor is read, and a version already
\* starting at that minute is amended instead.
AddStart(e, c, from, text) ==
    /\ edit[e].step = "idle"
    /\ chores[c].state = "kept"
    /\ LET same == {r \in DOMAIN rules : rules[r].chore = c /\ rules[r].from = from}
       IN  edit' = [edit EXCEPT ![e] =
                      IF same = {}
                      THEN [step |-> "insert", chore |-> c, from |-> from, text |-> text]
                      ELSE [step |-> "amend", rule |-> CHOOSE r \in same : TRUE,
                            from |-> from, text |-> text]]
    /\ UNCHANGED <<now, chores, rules, rows, pass, mark, ever, on>>

\* store.AddRule: the schema refuses a start another save took meanwhile.
AddInsert(e, r) ==
    /\ edit[e].step = "insert"
    /\ r \notin DOMAIN rules
    /\ LET new == [chore |-> edit[e].chore, from |-> edit[e].from, text |-> edit[e].text]
       IN  IF FreeFrom(new.chore, new.from, {})
           THEN /\ rules' = Put(rules, r, new)
                /\ ever' = ever \cup Covers(r, new.from, new.text)
           ELSE UNCHANGED <<rules, ever>>
    /\ edit' = [edit EXCEPT ![e] = IdleEdit]
    /\ UNCHANGED <<now, chores, rows, pass, mark, on>>

AddAmend(e) ==
    /\ edit[e].step = "amend"
    /\ AmendTx(edit[e].rule, edit[e].from, edit[e].text)
    /\ edit' = [edit EXCEPT ![e] = IdleEdit]
    /\ UNCHANGED <<now, chores, pass, mark, on>>

-----------------------------------------------------------------------------

\* The process stops: what was in flight is gone, the tables stay.  The next
\* start runs a pass like any other tick does.
Crash ==
    /\ pass' = [p \in Passes |-> IdlePass]
    /\ mark' = [m \in Markers |-> IdleMark]
    /\ edit' = [e \in Editors |-> IdleEdit]
    /\ UNCHANGED <<now, chores, rules, rows, ever, on>>

PassStep(p) == PassStart(p) \/ PassRules(p) \/ PassWrite(p) \/ PassFail(p)

MarkStep(m) ==
    \/ \E k \in Key, s \in Closed : MarkStart(m, k, s)
    \/ MarkReminder(m)
    \/ MarkRules(m)
    \/ MarkWrite(m)

EditStep ==
    \/ \E c \in Chores, r \in RuleIds, from \in Time, text \in Texts :
          Create(c, r, from, text)
    \/ \E c \in Chores, active \in BOOLEAN : SetActive(c, active)
    \/ \E c \in Chores : SoftDelete(c)
    \/ \E r \in RuleIds, from \in Time, text \in Texts : AmendRule(r, from, text)

AddStep(e) ==
    \/ \E c \in Chores, from \in Time, text \in Texts : AddStart(e, c, from, text)
    \/ \E r \in RuleIds : AddInsert(e, r)
    \/ AddAmend(e)

Next ==
    \/ Tick
    \/ \E p \in Passes : PassStep(p)
    \/ \E m \in Markers : MarkStep(m)
    \/ EditStep
    \/ \E e \in Editors : AddStep(e)
    \/ Crash

Spec == Init /\ [][Next]_vars

\* The ticker keeps ticking, and neither the database nor a crash stops every
\* single pass: a pass that is reached again and again is let through.
Fairness ==
    /\ WF_vars(PassStart(Ticker))
    /\ SF_vars(PassRules(Ticker))
    /\ SF_vars(PassWrite(Ticker))

FairSpec == Spec /\ Fairness

-----------------------------------------------------------------------------
(* What the record promises. *)

PassType ==
    [step: {"idle", "rules", "write"}, at: Time,
     since: UNION {[S -> Time] : S \in SUBSET Chores},
     batch: UNION {[S -> OpenRow] : S \in SUBSET Key}]

MarkType ==
    [step: {"idle"}]
    \cup [step: {"reminder"}, key: Key, status: Closed, at: Time]
    \cup [step: {"rules"}, key: Key, status: Closed]
    \cup [step: {"write"}, key: Key, status: Closed, rule: RuleIds]

EditType ==
    [step: {"idle"}]
    \cup [step: {"insert"}, chore: Chores, from: Time, text: Texts]
    \cup [step: {"amend"}, rule: RuleIds, from: Time, text: Texts]

\* The type invariant: the tables hold what their columns may hold, and every
\* call in flight carries what its last read can have returned.
TypeOK ==
    /\ now \in Time
    /\ chores \in [Chores -> Chore]
    /\ DOMAIN rules \subseteq RuleIds
    /\ rules \in [DOMAIN rules -> Rule]
    /\ DOMAIN rows \subseteq Key
    /\ rows \in [DOMAIN rows -> Row]
    /\ pass \in [Passes -> PassType]
    /\ mark \in [Markers -> MarkType]
    /\ edit \in [Editors -> EditType]
    /\ \A e \in Editors : edit[e].step = "amend" => edit[e].rule \in DOMAIN rules
    /\ ever \subseteq RuleIds \X Time
    /\ on \subseteq Key

\* No row lies ahead of the clock, whatever a pass or a mark read and however
\* late it writes: the future is projected from the rules, and a stored row
\* there would be a second copy of it (ErrFutureMark, model.ReminderOccurrence).
NoRowAhead == \A k \in DOMAIN rows : k[2] <= now

\* A chore never has two versions starting at one minute, although two saves
\* may each have read that there was none: otherwise the version in force
\* there is ambiguous and expandVersioned lists the instant twice.
OneVersionPerStart ==
    \A r, q \in DOMAIN rules :
        rules[r].chore = rules[q].chore /\ rules[r].from = rules[q].from => r = q

\* A row explains itself: it names a version of its own chore, and that version
\* has at some time scheduled the instant.  Nothing invents history: neither a
\* mark whose check a later edit overtook nor a pass with old rules
\* (ErrNoSuchOccurrence).
RowsWereScheduled ==
    \A k \in DOMAIN rows :
        /\ rules[rows[k].rule].chore = k[1]
        /\ <<rows[k].rule, k[2]>> \in ever

\* An open row is a minute in which the chore was switched on: no catch-up pass
\* reads a pause as something forgotten (backfillFloor, SetReminderActive).
OpenRowsWereOn ==
    \A k \in DOMAIN rows : rows[k].status = "pending" => k \in on

\* A decision a person recorded may be changed to the other one but is never
\* lost and never reopened, by a pass, an edit of the schedule or a restart
\* (MaterialiseOccurrences, AmendRuleAndDropOpen).
DecisionsStand ==
    [][\A k \in DOMAIN rows :
          rows[k].status \in Closed
              => k \in DOMAIN rows' /\ rows'[k].status \in Closed]_vars

\* The occurrence is one the record owes: due, inside the backfill, since the
\* chore was switched on, and scheduled by the version in force.
Owed(k) ==
    /\ k[1] \in ActiveReminders
    /\ chores[k[1]].since <= k[2]
    /\ k[2] <= now
    /\ now - BackfillWindow <= k[2]
    /\ OccursAt(k[1], k[2]) # {}

\* The materialiser heals itself: what the record owes gets its row, after any
\* failed pass or restart, unless it stops being owed first (Materialise).
OwedIsRecorded == \A k \in Key : Owed(k) ~> (k \in DOMAIN rows \/ ~Owed(k))

-----------------------------------------------------------------------------
(* The three tables and everything in flight over them implement the record *)
(* of ChoreRecord: an entry is the status of its row.                       *)

recorded == [k \in Key |-> IF k \in DOMAIN rows THEN rows[k].status ELSE "none"]

Record == INSTANCE ChoreRecord WITH record <- recorded

\* Every behaviour of the service is one of the record: passes that insert or
\* ignore, marks that upsert and amendments that drop open rows are the only
\* ways an entry moves.
ImplementsRecord == Record!Spec

-----------------------------------------------------------------------------
(* The inductive invariant: what must be true of the calls in flight for    *)
(* the tables to stay right.                                                *)

\* Clocks read earlier are behind, and everything about to be written is due.
InFlightNotAhead ==
    /\ \A p \in Passes :
          /\ pass[p].at <= now
          /\ \A k \in DOMAIN pass[p].batch : k[2] <= now
    /\ \A m \in Markers : mark[m].step # "idle" => mark[m].key[2] <= now

\* Version r belongs to the chore of k and has covered its instant.
Sourced(r, k) ==
    /\ r \in DOMAIN rules
    /\ rules[r].chore = k[1]
    /\ <<r, k[2]>> \in ever

\* Every version a call has chosen for a row is one it may name.
InFlightSourced ==
    /\ \A r \in DOMAIN rules : Covers(r, rules[r].from, rules[r].text) \subseteq ever
    /\ \A k \in DOMAIN rows : Sourced(rows[k].rule, k)
    /\ \A p \in Passes : \A k \in DOMAIN pass[p].batch : Sourced(pass[p].batch[k].rule, k)
    /\ \A m \in Markers : mark[m].step = "write" => Sourced(mark[m].rule, mark[m].key)

\* Every version, and every version about to be added, is one of a chore that
\* was created: so a new chore has none yet.
NoOrphans ==
    /\ \A r \in DOMAIN rules : chores[rules[r].chore].state # "absent"
    /\ \A e \in Editors :
          edit[e].step = "insert" => chores[edit[e].chore].state # "absent"

\* A chore has been on without a break since its active_since, now if it is
\* still on, and up to its clock for a pass that read it as on.
OnSince ==
    /\ \A c \in ActiveReminders : \A t \in chores[c].since .. now : <<c, t>> \in on
    /\ \A p \in Passes :
          /\ \A c \in DOMAIN pass[p].since :
                \A t \in pass[p].since[c] .. pass[p].at : <<c, t>> \in on
          /\ DOMAIN pass[p].batch \subseteq on

IInv ==
    /\ TypeOK
    /\ NoRowAhead
    /\ InFlightNotAhead
    /\ NoOrphans
    /\ OneVersionPerStart
    /\ InFlightSourced
    /\ OnSince
    /\ OpenRowsWereOn

-----------------------------------------------------------------------------
(* What comments and documents say and the code does not do. *)

\* After a version is amended no open row of it shows the old text: they are
\* cleared and regenerated (AmendRule, AmendRuleAndDropOpen).
OpenRowsMatchTheirRule ==
    \A k \in DOMAIN rows :
        rows[k].status = "pending" => k[2] \in rules[rows[k].rule].text

=============================================================================
