------------------------------- MODULE Meters -------------------------------
(***************************************************************************)
(* Household bills: properties, the services billed at each, the tariffs     *)
(* they are priced by and one reading of a service a month, entered through  *)
(* web forms (internal/web/meters_*.go, internal/store/readings.go,          *)
(* tariffs.go, utilities.go, stats_meters.go, internal/model/utilities.go).  *)
(*                                                                         *)
(* The grain is one statement of the database: a handler that reads and then *)
(* writes is two steps, or three.  A read that only chooses where the reader  *)
(* is sent next is left out.  Names, colours, comments and dates are left     *)
(* out; a period is a natural number, a meter's value and a rate an integer.  *)
(***************************************************************************)
EXTENDS Integers, Sequences, FiniteSets, FiniteSetsExt

CONSTANTS
    SeedAddresses, SeedTariffs, SeedUtilities, \* the tables as migrated
    Names,        \* names of services
    Periods,
    TariffForms,  \* what a tariff's form may hold
    ReadingForms, \* what a reading's form may hold
    NoValue,      \* a value that is not known, a rate that is not there
    Absent,       \* a field that a form does not carry
    Desks,        \* handlers that may be in flight at one time
    MaxReadings,  \* bound: ids of readings
    MaxTariffs,   \* bound: rows of tariffs
    MaxUtilities, \* bound: rows of utilities and of addresses
    MaxSaves      \* bound: forms posted

NoTariff == 0
Kinds == {"flat", "meter", "meter_zoned"}
Tariff == [active : BOOLEAN, kind : Kinds, unit : STRING \cup {NoValue},
           rate1 : Int, rate2 : Int \cup {NoValue}]
Utility == [address : Nat, name : Names, tariff : Nat, active : BOOLEAN]

MetersAssumption ==
    /\ Periods \subseteq Nat
    /\ NoValue \notin Int /\ Absent \notin Int
    /\ SeedAddresses \in Seq(BOOLEAN)
    /\ SeedTariffs \in Seq(Tariff) /\ SeedUtilities \in Seq(Utility)
    /\ \A u \in DOMAIN SeedUtilities :
          /\ SeedUtilities[u].address \in DOMAIN SeedAddresses
          /\ SeedUtilities[u].tariff \in {NoTariff} \cup DOMAIN SeedTariffs
    /\ TariffForms \subseteq
           [kind : Kinds \cup {Absent}, unit : STRING \cup {NoValue, Absent},
            rate1 : Int \cup {Absent}, rate2 : Int \cup {NoValue, Absent}]
    /\ ReadingForms \subseteq
           [period : Periods, prev1 : Int \cup {NoValue}, curr1 : Int \cup {NoValue},
            prev2 : Int \cup {NoValue}, curr2 : Int \cup {NoValue}, paid : BOOLEAN]
    /\ {MaxReadings, MaxTariffs, MaxUtilities, MaxSaves} \subseteq Nat

ASSUME MetersAssumption

VARIABLES
    addresses, \* is each property in use
    utilities, \* the services: property, name, tariff of the next reading
    tariffs,
    readings,  \* table readings, by id
    desk,      \* what each handler in flight has read
    saves,
    raced      \* readings another handler's write got between; for properties

meterVars == <<addresses, utilities, tariffs, readings, desk, saves, raced>>

Blank == "blank"
Away == [step |-> "away", alone |-> TRUE]

InitMeters ==
    /\ addresses = SeedAddresses
    /\ utilities = SeedUtilities
    /\ tariffs = SeedTariffs
    /\ readings = [id \in {} |-> 0]
    /\ desk = [d \in Desks |-> Away]
    /\ saves = 0
    /\ raced = {}

-----------------------------------------------------------------------------
(* Pricing.                                                                 *)

Known(a, b) == a # NoValue /\ b # NoValue

\* Reading.ComputeAmount: consumption and amount as the tariff calculates them;
\* the fields its kind has no use for are cleared.
ComputeAmount(r, t) ==
    LET used1 == IF t.kind # "flat" /\ Known(r.prev1, r.curr1)
                 THEN r.curr1 - r.prev1 ELSE NoValue
        used2 == IF t.kind = "meter_zoned" /\ Known(r.prev2, r.curr2) /\ t.rate2 # NoValue
                 THEN r.curr2 - r.prev2 ELSE NoValue
        cost(used, rate) == IF used = NoValue THEN 0 ELSE used * rate
        keep1(v) == IF t.kind = "flat" THEN NoValue ELSE v
        keep2(v) == IF t.kind = "meter_zoned" THEN v ELSE NoValue
    IN  [r EXCEPT !.prev1 = keep1(@), !.curr1 = keep1(@),
                  !.prev2 = keep2(@), !.curr2 = keep2(@),
                  !.consumed1 = used1, !.consumed2 = used2,
                  !.amount = IF t.kind = "flat" THEN t.rate1
                             ELSE cost(used1, t.rate1) + cost(used2, t.rate2)]

-----------------------------------------------------------------------------
(* The tables.                                                              *)

ReadingIds == DOMAIN readings

\* SQLite gives the id after the last one present.
NextReading == IF ReadingIds = {} THEN 1 ELSE Max(ReadingIds) + 1

\* The latest reading of a service, by period.
LatestReadingForUtility(u) ==
    LET mine == {id \in ReadingIds : readings[id].utility = u}
    IN  IF mine = {} THEN 0
        ELSE CHOOSE id \in mine : \A o \in mine :
                \/ readings[o].period < readings[id].period
                \/ readings[o].period = readings[id].period /\ o <= id

\* The unique index: a service has one reading a period and tariff.
Taken(id, r) ==
    \E o \in ReadingIds \ {id} :
        /\ readings[o].utility = r.utility /\ readings[o].period = r.period
        /\ readings[o].tariff = r.tariff

CreateReading(id, r) ==
    readings' = [o \in ReadingIds \cup {id} |-> IF o = id THEN r ELSE readings[o]]

\* Every column but the service and the tariff; a row that is gone is no error.
UpdateReading(id, r) ==
    readings' = [o \in ReadingIds |->
                    IF o = id THEN [r EXCEPT !.utility = readings[o].utility,
                                             !.tariff = readings[o].tariff]
                              ELSE readings[o]]

TogglePaid(id) == readings' = [readings EXCEPT ![id].paid = ~@]

DeleteReading(id) == readings' = [o \in ReadingIds \ {id} |-> readings[o]]

TariffUsedInReadings(t) == \E id \in ReadingIds : readings[id].tariff = t

Math(t) == [kind |-> t.kind, unit |-> t.unit, rate1 |-> t.rate1, rate2 |-> t.rate2]

tariffMathChanged(id, t) == Math(tariffs[id]) # Math(t)

CreateAddress(active) == addresses' = Append(addresses, active)

CreateUtility(u) == utilities' = Append(utilities, u)

\* Every column but the one that archives.
UpdateUtility(id, u) == utilities' = [utilities EXCEPT ![id] = [u EXCEPT !.active = utilities[id].active]]

TariffRow(t, active) == [active |-> active, kind |-> t.kind, unit |-> t.unit,
                         rate1 |-> t.rate1, rate2 |-> t.rate2]

CreateTariff(t) == tariffs' = Append(tariffs, TariffRow(t, TRUE))

\* UpdateTariff's statement: the archived stay archived.
UpdateTariff(id, t) == tariffs' = [tariffs EXCEPT ![id] = TariffRow(t, @.active)]

\* ToggleActive, of one of three tables.
ToggleActive ==
    \/ /\ \E a \in DOMAIN addresses : addresses' = [addresses EXCEPT ![a] = ~@]
       /\ UNCHANGED <<utilities, tariffs>>
    \/ /\ \E u \in DOMAIN utilities : utilities' = [utilities EXCEPT ![u].active = ~@]
       /\ UNCHANGED <<addresses, tariffs>>
    \/ /\ \E t \in DOMAIN tariffs : tariffs' = [tariffs EXCEPT ![t].active = ~@]
       /\ UNCHANGED <<addresses, utilities>>

-----------------------------------------------------------------------------
(* Handlers in flight.                                                      *)

Start(d) == desk[d] = Away /\ saves < MaxSaves /\ saves' = saves + 1

Reads(d, job) == desk' = [desk EXCEPT ![d] = job]

\* Handler d has written: whoever else is in flight read the tables as they were.
Writes(d) ==
    desk' = [o \in Desks |-> IF o = d \/ desk[o] = Away THEN Away
                             ELSE [desk[o] EXCEPT !.alone = FALSE]]

\* The readings another handler got between, of those handler d has written.
Raced(d, ids) == raced' = IF desk[d].alone THEN raced ELSE raced \cup ids

-----------------------------------------------------------------------------
(* Readings.                                                                *)

\* newReadingForm: a blank reading of the service at its current tariff, its
\* "previous" the "current" of the latest one.
newReadingForm(u) ==
    LET last == LatestReadingForUtility(u)
    IN  [utility |-> u, tariff |-> utilities[u].tariff, period |-> 0,
         prev1 |-> IF last = 0 THEN NoValue ELSE readings[last].curr1,
         prev2 |-> IF last = 0 THEN NoValue ELSE readings[last].curr2,
         curr1 |-> NoValue, curr2 |-> NoValue, consumed1 |-> NoValue,
         consumed2 |-> NoValue, amount |-> 0, paid |-> FALSE]

\* The posted fields on what the form does not get to change.  The page may have
\* been opened long before; a field left as offered is posted as it was then.
readingFromForm(base, f) ==
    [base EXCEPT !.period = f.period, !.prev1 = f.prev1, !.curr1 = f.curr1,
                 !.prev2 = f.prev2, !.curr2 = f.curr2, !.paid = f.paid]

\* handleReadingCreate up to its reads: a service without a tariff has no form.
ReadingCreateRead(d, u, f) ==
    /\ Start(d)
    /\ utilities[u].tariff # NoTariff
    /\ \E carried \in BOOLEAN : \* prev1 as offered, or as typed
          LET base == newReadingForm(u)
              form == IF carried THEN [f EXCEPT !.prev1 = base.prev1] ELSE f
          IN  Reads(d, [step |-> "create", alone |-> TRUE,
                        r |-> ComputeAmount(readingFromForm(base, form),
                                            tariffs[base.tariff])])
    /\ UNCHANGED <<addresses, utilities, tariffs, readings, raced>>

\* Its insert, refused when the month has a reading at that tariff.
ReadingCreateWrite(d) ==
    LET r == desk[d].r
    IN  /\ desk[d].step = "create"
        /\ IF Taken(0, r)
           THEN Reads(d, Away) /\ UNCHANGED <<readings, raced>>
           ELSE /\ NextReading <= MaxReadings
                /\ CreateReading(NextReading, r)
                /\ Raced(d, {NextReading})
                /\ Writes(d)
        /\ UNCHANGED <<addresses, utilities, tariffs, saves>>

\* editReadingForm: the reading, and the tariff it was billed at.
editReadingForm(id) == [reading |-> readings[id], tariff |-> tariffs[readings[id].tariff]]

\* handleReadingUpdate up to its reads: priced at the tariff it was billed at.
ReadingUpdateRead(d, id, f) ==
    LET form == editReadingForm(id)
    IN  /\ Start(d)
        /\ Reads(d, [step |-> "edit", alone |-> TRUE, id |-> id,
                     r |-> ComputeAmount(readingFromForm(form.reading, f), form.tariff)])
        /\ UNCHANGED <<addresses, utilities, tariffs, readings, raced>>

ReadingUpdateWrite(d) ==
    LET job == desk[d]
    IN  /\ job.step = "edit"
        /\ IF job.id \in ReadingIds
              /\ Taken(job.id, [readings[job.id] EXCEPT !.period = job.r.period])
           THEN Reads(d, Away) /\ UNCHANGED <<readings, raced>>
           ELSE /\ UpdateReading(job.id, job.r)
                /\ Raced(d, {job.id} \cap ReadingIds)
                /\ Writes(d)
        /\ UNCHANGED <<addresses, utilities, tariffs, saves>>

handleReadingPaid(d, id) ==
    /\ Start(d)
    /\ TogglePaid(id)
    /\ Writes(d)
    /\ UNCHANGED <<addresses, utilities, tariffs, raced>>

handleReadingDelete(d, id) ==
    /\ Start(d)
    /\ DeleteReading(id)
    /\ raced' = raced \ {id}
    /\ Writes(d)
    /\ UNCHANGED <<addresses, utilities, tariffs>>

-----------------------------------------------------------------------------
(* Reference data.                                                          *)

\* handleAddressSave, of a new property: what an edit changes is left out.
handleAddressSave(d) ==
    /\ Start(d)
    /\ Len(addresses) < MaxUtilities
    /\ CreateAddress(TRUE)
    /\ Writes(d)
    /\ UNCHANGED <<utilities, tariffs, readings, raced>>

\* handleUtilitySave: a property has to be chosen, a tariff has not.
handleUtilitySave(d) ==
    /\ Start(d)
    /\ \E a \in DOMAIN addresses, n \in Names, t \in {NoTariff} \cup DOMAIN tariffs :
          LET u == [address |-> a, name |-> n, tariff |-> t, active |-> TRUE]
          IN  \/ Len(utilities) < MaxUtilities /\ CreateUtility(u)
              \/ \E id \in DOMAIN utilities : UpdateUtility(id, u)
    /\ Writes(d)
    /\ UNCHANGED <<addresses, tariffs, readings, raced>>

\* handleTariffSave of a new tariff.
TariffCreate(d, f) ==
    /\ Start(d)
    /\ Absent \notin {f.kind, f.unit, f.rate1, f.rate2}
    /\ Len(tariffs) < MaxTariffs
    /\ CreateTariff(f)
    /\ Writes(d)
    /\ UNCHANGED <<addresses, utilities, readings, raced>>

\* handleTariffSave of a stored one, up to its reads: once readings use it, a
\* field the request does not carry is what the row holds; before that, a field
\* it does not carry is blank, and a kind that is blank is refused.
TariffSaveRead(d, id, f) ==
    LET locked == TariffUsedInReadings(id)
        old == tariffs[id]
        field(v, stored, blank) == IF v # Absent THEN v ELSE IF locked THEN stored ELSE blank
        t == [kind |-> field(f.kind, old.kind, Blank),
              unit |-> field(f.unit, old.unit, NoValue),
              rate1 |-> field(f.rate1, old.rate1, 0),
              rate2 |-> field(f.rate2, old.rate2, NoValue)]
    IN  /\ Start(d)
        /\ t.kind # Blank
        /\ Reads(d, [step |-> "tariff", alone |-> TRUE, id |-> id, t |-> t])
        /\ UNCHANGED <<addresses, utilities, tariffs, readings, raced>>

\* Mutant of UpdateTariffRead: only the kind is looked at.
UpdateTariffKind(d) ==
    LET job == desk[d]
    IN  /\ job.step = "tariff"
        /\ IF TariffUsedInReadings(job.id) /\ tariffs[job.id].kind # job.t.kind
           THEN Reads(d, Away)
           ELSE Reads(d, [job EXCEPT !.step = "write"])
        /\ UNCHANGED <<addresses, utilities, tariffs, readings, saves, raced>>

\* UpdateTariff up to its reads: a used tariff keeps how it calculates.
UpdateTariffRead(d) ==
    LET job == desk[d]
    IN  /\ job.step = "tariff"
        /\ IF TariffUsedInReadings(job.id) /\ tariffMathChanged(job.id, job.t)
           THEN Reads(d, Away)
           ELSE Reads(d, [job EXCEPT !.step = "write"])
        /\ UNCHANGED <<addresses, utilities, tariffs, readings, saves, raced>>

\* UpdateTariff's write.
UpdateTariffWrite(d) ==
    LET job == desk[d]
    IN  /\ job.step = "write"
        /\ UpdateTariff(job.id, job.t)
        /\ Raced(d, {id \in ReadingIds : readings[id].tariff = job.id})
        /\ Writes(d)
        /\ UNCHANGED <<addresses, utilities, readings, saves>>

handleMeterToggle(d) ==
    /\ Start(d)
    /\ ToggleActive
    /\ Writes(d)
    /\ UNCHANGED <<readings, raced>>

-----------------------------------------------------------------------------
(* What is read.                                                            *)

Total(ids) == SumFunction([id \in ids |-> readings[id].amount])

InMonth(u, p) == {id \in ReadingIds : readings[id].utility = u /\ readings[id].period = p}

Status(u, ids) ==
    [count |-> Cardinality(ids), amount |-> Total(ids),
     paid |-> ids # {} /\ \A id \in ids : readings[id].paid]

Shown(a) ==
    {u \in DOMAIN utilities : utilities[u].active /\ utilities[u].address = a /\ addresses[a]}

\* Mutant of CurrentMonthStatus: one reading of the month is taken.
CurrentMonthStatusPicks(p, a) ==
    [u \in Shown(a) |->
        Status(u, IF InMonth(u, p) = {} THEN {} ELSE {Max(InMonth(u, p))})]

\* One row for every active service of a property in use.
CurrentMonthStatus(p, a) == [u \in Shown(a) |-> Status(u, InMonth(u, p))]

Sums(rows) ==
    LET read == {u \in DOMAIN rows : rows[u].count > 0}
        sum(us) == SumFunction([u \in us |-> rows[u].amount])
    IN  [total |-> sum(read), unpaid |-> sum({u \in read : ~rows[u].paid}),
         missing |-> DOMAIN rows \ read]

AddressesActive == {a \in DOMAIN addresses : addresses[a]}

\* The month's page of the property asked for, or of the first one in use.
handleMeterReadings(a, p) ==
    IF AddressesActive = {} THEN Sums(<<>>)
    ELSE Sums(CurrentMonthStatus(p, IF a \in AddressesActive THEN a ELSE Min(AddressesActive)))

\* The month as it is sent to the group.
monthReport(a, p) == Sums(CurrentMonthStatus(p, a))

AddressOf(id) == utilities[readings[id].utility].address

MonthlyTotalsByAddress(p, a) ==
    Total({id \in ReadingIds : readings[id].period = p /\ AddressOf(id) = a})

MonthlyTotalsByUtility(a, p) ==
    [u \in {readings[id].utility : id \in {i \in ReadingIds : readings[i].period = p /\ AddressOf(i) = a}} |->
        Total(InMonth(u, p))]

\* The services a comparison between properties can be drawn for.
UtilityNames ==
    {n \in Names : Cardinality({utilities[u].address :
                        u \in {v \in DOMAIN utilities : utilities[v].name = n}}) > 1}

MonthlyConsumptionByAddress(n, p, a) ==
    LET used(v) == IF v = NoValue THEN 0 ELSE v
        mine == {id \in ReadingIds : /\ readings[id].period = p /\ AddressOf(id) = a
                                     /\ utilities[readings[id].utility].name = n}
    IN  SumFunction([id \in mine |-> used(readings[id].consumed1) + used(readings[id].consumed2)])

\* The statistics page: a column for each property in use, a total for all.
handleStatsMeters(p) ==
    [columns |-> [a \in AddressesActive |-> MonthlyTotalsByAddress(p, a)],
     total |-> SumFunction([a \in DOMAIN addresses |-> MonthlyTotalsByAddress(p, a)]),
     compared |-> [n \in UtilityNames |->
                      [a \in DOMAIN addresses |-> MonthlyConsumptionByAddress(n, p, a)]]]

-----------------------------------------------------------------------------

NextMeters == \E d \in Desks :
    \/ \E u \in DOMAIN utilities, f \in ReadingForms : ReadingCreateRead(d, u, f)
    \/ \E id \in ReadingIds, f \in ReadingForms : ReadingUpdateRead(d, id, f)
    \/ ReadingCreateWrite(d) \/ ReadingUpdateWrite(d)
    \/ \E id \in ReadingIds : handleReadingPaid(d, id) \/ handleReadingDelete(d, id)
    \/ handleAddressSave(d) \/ handleUtilitySave(d)
    \/ \E f \in TariffForms : TariffCreate(d, f)
    \/ \E id \in DOMAIN tariffs, f \in TariffForms : TariffSaveRead(d, id, f)
    \/ UpdateTariffRead(d) \/ UpdateTariffWrite(d) \/ handleMeterToggle(d)

SpecMeters == InitMeters /\ [][NextMeters]_meterVars

-----------------------------------------------------------------------------
(* Properties.                                                              *)

\* What readings, services and handlers name exists.
MetersTypeOK ==
    /\ \A u \in DOMAIN utilities : /\ utilities[u].address \in DOMAIN addresses
                                   /\ utilities[u].tariff \in {NoTariff} \cup DOMAIN tariffs
    /\ \A id \in ReadingIds : /\ readings[id].utility \in DOMAIN utilities
                              /\ readings[id].tariff \in DOMAIN tariffs
                              /\ readings[id].period \in Periods
                              /\ readings[id].amount \in Int
    /\ raced \subseteq ReadingIds

\* The amount of every month is what the tariff it names makes of the meter's
\* values, whatever was archived, repriced or corrected since, unless two handlers
\* were at it at once (tariffs.go:118-125, handleReadingUpdate).
PricedAsBilled ==
    \A id \in ReadingIds \ raced :
        ComputeAmount(readings[id], tariffs[readings[id].tariff]) = readings[id]

\* A month comes to one figure wherever it is read: on its page, in the message, by
\* property, by service and in the statistics; what differs is what is archived,
\* what is called missing has no reading, and a flat service has used nothing
\* (stats_meters.go, stats.go, meters_report.go:56-57).
MonthIsSummed ==
    \A p \in Periods :
        /\ \A a \in DOMAIN addresses :
            LET report == monthReport(a, p)
                byUtility == MonthlyTotalsByUtility(a, p)
                mine == {id \in ReadingIds : readings[id].period = p /\ AddressOf(id) = a}
                archived == {id \in mine : readings[id].utility \notin Shown(a)}
            IN  /\ a \in AddressesActive => handleMeterReadings(a, p) = report
                /\ report.total + Total(archived) = MonthlyTotalsByAddress(p, a)
                /\ SumFunction(byUtility) = MonthlyTotalsByAddress(p, a)
                /\ \A u \in report.missing : InMonth(u, p) = {}
                /\ report.unpaid # 0 => \E id \in mine : ~readings[id].paid
        /\ handleStatsMeters(p).total = Total({id \in ReadingIds : readings[id].period = p})
        /\ \A n \in UtilityNames, a \in DOMAIN addresses :
              handleStatsMeters(p).compared[n][a] # 0 =>
                  \E id \in ReadingIds :
                      /\ AddressOf(id) = a
                      /\ tariffs[readings[id].tariff].kind # "flat" \/ id \in raced

=============================================================================
