---------------------------- MODULE ChoresProofs ----------------------------
(***************************************************************************)
(* What holds of the chore record for every number of chores, versions,     *)
(* passes, marks and edits, every rule text, and every length of the two    *)
(* windows.                                                                 *)
(*                                                                         *)
(* The order: the types; what one step may do to the tables and to the      *)
(* calls in flight; one lemma per conjunct of IInv; the theorems; and last  *)
(* that every step is one of ChoreRecord.                                   *)
(***************************************************************************)
EXTENDS Chores, TLAPS

\* The types of partial functions, without the set of all of them.
LEMMA PartialType ==
    ASSUME NEW S, NEW D, NEW f
    PROVE  f \in UNION {[E -> S] : E \in SUBSET D}
              <=> DOMAIN f \subseteq D /\ f \in [DOMAIN f -> S]
  OBVIOUS

-----------------------------------------------------------------------------
\* The empty function has every such type.
LEMMA NothingType ==
    ASSUME NEW S, NEW D
    PROVE  /\ DOMAIN Nothing = {}
           /\ DOMAIN Nothing \subseteq D
           /\ Nothing \in [DOMAIN Nothing -> S]
           /\ Nothing \in UNION {[E -> S] : E \in SUBSET D}
  <1>1. DOMAIN Nothing = {} /\ Nothing \in [{} -> S]
    BY DEF Nothing
  <1>2. QED
    BY <1>1, PartialType

\* A process at rest.
LEMMA IdleTypes ==
    /\ IdlePass \in PassType
    /\ IdleMark \in MarkType
    /\ IdleEdit \in EditType
  <1>1. 0 \in Time
    BY ChoresAssumption DEF Time
  <1>2. /\ Nothing \in UNION {[S -> Time] : S \in SUBSET Chores}
        /\ Nothing \in UNION {[S -> OpenRow] : S \in SUBSET Key}
    BY NothingType
  <1>3. QED
    BY <1>1, <1>2 DEF IdlePass, IdleMark, IdleEdit, PassType, MarkType, EditType

\* What a pass holds after each of its reads has the type of a pass.
LEMMA PassRulesType ==
    ASSUME TypeOK, NEW p \in Passes, PassRules(p)
    PROVE  pass' \in [Passes -> PassType]
  <1> DEFINE due == DueKeys(p, pass[p].at, pass[p].since)
             batch == [k \in due |-> [status |-> "pending",
                          rule |-> CHOOSE r \in OccursAt(k[1], k[2]) : TRUE]]
  <1>1. due \subseteq Key /\ \A k \in due : OccursAt(k[1], k[2]) # {}
    BY DEF DueKeys
  <1>2. \A k \in due : (CHOOSE r \in OccursAt(k[1], k[2]) : TRUE) \in RuleIds
    BY <1>1 DEF OccursAt, RuleAt, TypeOK
  <1>3. batch \in [due -> OpenRow]
    BY <1>2 DEF OpenRow
  <1>4. batch \in UNION {[S -> OpenRow] : S \in SUBSET Key}
    <2>1. DOMAIN batch = due /\ due \in SUBSET Key
      BY <1>1
    <2> HIDE DEF batch, due
    <2> QED
      BY <1>3, <2>1, PartialType
  <1>5. Nothing \in UNION {[S -> Time] : S \in SUBSET Chores} /\ 0 \in Time
    BY NothingType, ChoresAssumption DEF Time
  <1>6. [step |-> "write", at |-> 0, since |-> Nothing, batch |-> batch] \in PassType
    <2> HIDE DEF batch
    <2> QED BY <1>4, <1>5 DEF PassType
  <1>7. pass' = [pass EXCEPT ![p] = [step |-> "write", at |-> 0, since |-> Nothing, batch |-> batch]]
    BY DEF PassRules
  <1> HIDE DEF batch
  <1>8. QED
    BY <1>6, <1>7 DEF TypeOK

\* The same for its first read.
LEMMA PassStartType ==
    ASSUME TypeOK, NEW p \in Passes, PassStart(p)
    PROVE  pass' \in [Passes -> PassType]
  <1> DEFINE since == [c \in ActiveReminders |-> chores[c].since]
  <1>1. ActiveReminders \in SUBSET Chores
    BY DEF ActiveReminders
  <1>2. since \in [ActiveReminders -> Time]
    BY <1>1 DEF TypeOK, Chore
  <1>3. since \in UNION {[S -> Time] : S \in SUBSET Chores}
    <2>1. DOMAIN since = ActiveReminders
      OBVIOUS
    <2> HIDE DEF since
    <2> QED BY <1>1, <1>2, <2>1, PartialType
  <1>4. Nothing \in UNION {[S -> OpenRow] : S \in SUBSET Key}
    BY NothingType
  <1>5. [step |-> "rules", at |-> now, since |-> since, batch |-> Nothing] \in PassType
    <2> HIDE DEF since
    <2> QED BY <1>3, <1>4 DEF PassType, TypeOK
  <1>6. QED
    BY <1>5 DEF PassStart, TypeOK

\* Every batch and every active_since a pass holds is a partial function.
LEMMA PassParts ==
    ASSUME TypeOK, NEW p \in Passes
    PROVE  /\ pass[p].at \in Time
           /\ DOMAIN pass[p].since \subseteq Chores
           /\ pass[p].since \in [DOMAIN pass[p].since -> Time]
           /\ DOMAIN pass[p].batch \subseteq Key
           /\ pass[p].batch \in [DOMAIN pass[p].batch -> OpenRow]
  <1>1. pass[p] \in PassType
    BY DEF TypeOK
  <1>2. /\ pass[p].at \in Time
        /\ pass[p].since \in UNION {[S -> Time] : S \in SUBSET Chores}
        /\ pass[p].batch \in UNION {[S -> OpenRow] : S \in SUBSET Key}
    BY <1>1 DEF PassType
  <1>3. QED
    BY <1>2, PartialType

-----------------------------------------------------------------------------
(* Marks and edits in flight. *)

\* What a mark carries.
LEMMA MarkTypes ==
    ASSUME TypeOK, NEW m \in Markers
    PROVE  /\ mark[m].step # "idle" => mark[m].key \in Key /\ mark[m].status \in Closed
           /\ mark[m].step = "write" => mark[m].rule \in RuleIds
  BY DEF TypeOK, MarkType

\* What an AddRule carries.
LEMMA EditTypes ==
    ASSUME TypeOK, NEW e \in Editors
    PROVE  /\ edit[e].step = "insert" =>
                edit[e].chore \in Chores /\ edit[e].from \in Time /\ edit[e].text \in Texts
           /\ edit[e].step = "amend" =>
                edit[e].rule \in RuleIds /\ edit[e].from \in Time /\ edit[e].text \in Texts
  BY DEF TypeOK, EditType

\* Each step of Mark leaves it carrying what it should.
LEMMA MarkStepType ==
    ASSUME TypeOK, NEW m \in Markers, MarkStep(m)
    PROVE  mark' \in [Markers -> MarkType]
  <1>1. IdleMark \in MarkType
    BY IdleTypes
  <1>2. ASSUME NEW k \in Key, NEW s \in Closed, MarkStart(m, k, s)
        PROVE  mark' \in [Markers -> MarkType]
    <2>1. CASE k \in DOMAIN rows
      <3>1. rows[k].rule \in RuleIds
        BY <2>1 DEF TypeOK, Row
      <3>2. [step |-> "write", key |-> k, status |-> s, rule |-> rows[k].rule] \in MarkType
        BY <3>1 DEF MarkType
      <3>3. QED
        BY <1>2, <2>1, <3>2 DEF MarkStart, TypeOK
    <2>2. CASE k \notin DOMAIN rows
      <3>1. [step |-> "reminder", key |-> k, status |-> s, at |-> now] \in MarkType
        BY DEF MarkType, TypeOK
      <3>2. QED
        BY <1>2, <2>2, <3>1 DEF MarkStart, TypeOK
    <2>3. QED
      BY <2>1, <2>2
  <1>3. CASE MarkReminder(m)
    <2>1. [step |-> "rules", key |-> mark[m].key, status |-> mark[m].status] \in MarkType
      BY <1>3, MarkTypes DEF MarkReminder, MarkType
    <2>2. QED
      BY <1>1, <1>3, <2>1 DEF MarkReminder, TypeOK
  <1>4. CASE MarkRules(m)
    <2> DEFINE found == OccursAt(mark[m].key[1], mark[m].key[2])
    <2>1. CASE found = {}
      BY <1>1, <1>4, <2>1 DEF MarkRules, TypeOK
    <2>2. CASE found # {}
      <3>1. (CHOOSE r \in found : TRUE) \in RuleIds
        BY <2>2 DEF OccursAt, RuleAt, TypeOK
      <3>2. [step |-> "write", key |-> mark[m].key, status |-> mark[m].status,
             rule |-> CHOOSE r \in found : TRUE] \in MarkType
        <4> HIDE DEF found
        <4> QED BY <1>4, <3>1, MarkTypes DEF MarkRules, MarkType
      <3>3. QED
        BY <1>4, <2>2, <3>2 DEF MarkRules, TypeOK
    <2>3. QED
      BY <2>1, <2>2
  <1>5. CASE MarkWrite(m)
    BY <1>1, <1>5 DEF MarkWrite, TypeOK
  <1>6. QED
    BY <1>2, <1>3, <1>4, <1>5, MarkStep(m) DEF MarkStep

\* What the upsert of a mark writes: one answered row, its rule kept.
LEMMA MarkWriteRows ==
    ASSUME TypeOK, NEW m \in Markers, MarkWrite(m)
    PROVE  /\ mark[m].key \in Key
           /\ DOMAIN rows' = DOMAIN rows \cup {mark[m].key}
           /\ DOMAIN rows' \subseteq Key
           /\ rows' \in [DOMAIN rows' -> Row]
           /\ rows'[mark[m].key].status = mark[m].status
           /\ rows'[mark[m].key].rule =
                 IF mark[m].key \in DOMAIN rows THEN rows[mark[m].key].rule ELSE mark[m].rule
           /\ \A j \in DOMAIN rows \ {mark[m].key} : rows'[j] = rows[j]
  <1> DEFINE k == mark[m].key
             r == IF k \in DOMAIN rows THEN rows[k].rule ELSE mark[m].rule
             row == [status |-> mark[m].status, rule |-> r]
  <1>1. k \in Key /\ mark[m].status \in Closed /\ mark[m].rule \in RuleIds
    BY MarkTypes DEF MarkWrite
  <1>2. r \in RuleIds
    BY <1>1 DEF TypeOK, Row
  <1>3. row \in Row
    BY <1>1, <1>2 DEF Row, Status
  <1>4. rows' = Put(rows, k, row)
    BY DEF MarkWrite
  <1>5. row.status = mark[m].status /\ row.rule = r
    OBVIOUS
  <1> HIDE DEF row, r, k
  <1>6. /\ DOMAIN rows' = DOMAIN rows \cup {k}
        /\ DOMAIN rows' \subseteq Key
        /\ rows' \in [DOMAIN rows' -> Row]
    BY <1>1, <1>3, <1>4 DEF Put, TypeOK
  <1>7. rows'[k] = row /\ \A j \in DOMAIN rows \ {k} : rows'[j] = rows[j]
    BY <1>4 DEF Put
  <1>8. QED
    BY <1>1, <1>5, <1>6, <1>7 DEF k, r

\* What a whole pass writes: every row there was, and open rows for the rest.
LEMMA PassWriteRows ==
    ASSUME TypeOK, NEW p \in Passes, PassWrite(p)
    PROVE  /\ DOMAIN rows' = DOMAIN rows \cup DOMAIN pass[p].batch
           /\ DOMAIN rows' \subseteq Key
           /\ rows' \in [DOMAIN rows' -> Row]
           /\ \A k \in DOMAIN rows : rows'[k] = rows[k]
           /\ \A k \in DOMAIN rows' \ DOMAIN rows :
                 rows'[k] = pass[p].batch[k] /\ rows'[k].status = "pending"
  <1>1. rows' = InsertOrIgnore(rows, pass[p].batch)
    BY DEF PassWrite
  <1>2. /\ DOMAIN pass[p].batch \subseteq Key
        /\ pass[p].batch \in [DOMAIN pass[p].batch -> OpenRow]
    BY PassParts
  <1>3. OpenRow \subseteq Row
    BY DEF OpenRow, Row, Status
  <1>4. pass[p].batch \in [DOMAIN pass[p].batch -> Row]
    BY <1>2, <1>3
  <1>5. /\ DOMAIN rows' = DOMAIN rows \cup DOMAIN pass[p].batch
        /\ DOMAIN rows' \subseteq Key
        /\ rows' \in [DOMAIN rows' -> Row]
    BY <1>1, <1>2, <1>4 DEF InsertOrIgnore, TypeOK
  <1>6. /\ \A k \in DOMAIN rows : rows'[k] = rows[k]
        /\ \A k \in DOMAIN rows' \ DOMAIN rows : rows'[k] = pass[p].batch[k]
    BY <1>1, <1>5 DEF InsertOrIgnore
  <1>7. \A k \in DOMAIN pass[p].batch : pass[p].batch[k].status = "pending"
    BY <1>2 DEF OpenRow
  <1>8. QED
    BY <1>5, <1>6, <1>7

\* What an amendment does to the two tables when it is let through.
LEMMA AmendTables ==
    ASSUME TypeOK, NEW r \in DOMAIN rules, NEW from \in Time, NEW text \in Texts,
           AmendTx(r, from, text)
    PROVE  /\ DOMAIN rules' = DOMAIN rules
           /\ rules' \in [DOMAIN rules' -> Rule]
           /\ \A q \in DOMAIN rules : rules'[q].chore = rules[q].chore
           /\ DOMAIN rows' \subseteq DOMAIN rows
           /\ rows' \in [DOMAIN rows' -> Row]
           /\ \A k \in DOMAIN rows' : rows'[k] = rows[k]
           /\ \A k \in DOMAIN rows \ DOMAIN rows' : rows[k].status = "pending"
           /\ ever \subseteq ever' /\ ever' \subseteq RuleIds \X Time
  <1>1. CASE FreeFrom(rules[r].chore, from, {r})
    <2>1. /\ rules' = [rules EXCEPT ![r].from = from, ![r].text = text]
          /\ rows' = Restrict(rows, DOMAIN rows \ OpenRowsOf(r))
          /\ ever' = ever \cup Covers(r, from, text)
      BY <1>1 DEF AmendTx
    <2>2. /\ DOMAIN rules' = DOMAIN rules
          /\ rules' \in [DOMAIN rules' -> Rule]
          /\ \A q \in DOMAIN rules : rules'[q].chore = rules[q].chore
      BY <2>1 DEF TypeOK, Rule
    <2>3. /\ DOMAIN rows' = DOMAIN rows \ OpenRowsOf(r)
          /\ rows' \in [DOMAIN rows' -> Row]
          /\ \A k \in DOMAIN rows' : rows'[k] = rows[k]
      BY <2>1 DEF Restrict, TypeOK
    <2>4. Covers(r, from, text) \subseteq RuleIds \X Time
      BY DEF Covers, TypeOK
    <2>5. QED
      BY <2>1, <2>2, <2>3, <2>4 DEF OpenRowsOf, TypeOK
  <1>2. CASE ~FreeFrom(rules[r].chore, from, {r})
    BY <1>2 DEF AmendTx, TypeOK
  <1>3. QED
    BY <1>1, <1>2

\* The first read of AddRule leaves it carrying what it should.
LEMMA AddStartType ==
    ASSUME TypeOK, NEW e \in Editors, NEW c \in Chores, NEW from \in Time, NEW text \in Texts,
           AddStart(e, c, from, text)
    PROVE  edit' \in [Editors -> EditType]
  <1> DEFINE same == {r \in DOMAIN rules : rules[r].chore = c /\ rules[r].from = from}
  <1>1. CASE same = {}
    <2>1. [step |-> "insert", chore |-> c, from |-> from, text |-> text] \in EditType
      BY DEF EditType
    <2>2. QED
      BY <1>1, <2>1 DEF AddStart, TypeOK
  <1>2. CASE same # {}
    <2>1. (CHOOSE r \in same : TRUE) \in RuleIds
      BY <1>2 DEF TypeOK
    <2>2. [step |-> "amend", rule |-> CHOOSE r \in same : TRUE,
           from |-> from, text |-> text] \in EditType
      <3> HIDE DEF same
      <3> QED BY <2>1 DEF EditType
    <2>3. QED
      BY <1>2, <2>2 DEF AddStart, TypeOK
  <1>3. QED
    BY <1>1, <1>2

-----------------------------------------------------------------------------
(* Type correctness. *)

\* A version inserted by Create or AddRule.
LEMMA PutRule ==
    ASSUME TypeOK, NEW r \in RuleIds, r \notin DOMAIN rules, NEW new \in Rule,
           rules' = Put(rules, r, new)
    PROVE  /\ DOMAIN rules' = DOMAIN rules \cup {r}
           /\ DOMAIN rules' \subseteq RuleIds
           /\ rules' \in [DOMAIN rules' -> Rule]
           /\ rules'[r] = new
           /\ \A q \in DOMAIN rules : rules'[q] = rules[q]
  BY DEF Put, TypeOK

\* Types hold at the start.
LEMMA InitType == Init => TypeOK
  <1> SUFFICES ASSUME Init PROVE TypeOK
    OBVIOUS
  <1>1. 0 \in Time
    BY ChoresAssumption DEF Time
  <1>2. /\ now \in Time
        /\ chores \in [Chores -> Chore]
        /\ ever \subseteq RuleIds \X Time
        /\ on \subseteq Key
    BY <1>1 DEF Init, Chore
  <1>3. /\ DOMAIN rules \subseteq RuleIds /\ rules \in [DOMAIN rules -> Rule]
        /\ DOMAIN rows \subseteq Key /\ rows \in [DOMAIN rows -> Row]
    BY NothingType DEF Init
  <1>4. /\ pass \in [Passes -> PassType]
        /\ mark \in [Markers -> MarkType]
        /\ edit \in [Editors -> EditType]
        /\ \A e \in Editors : edit[e].step # "amend"
    BY IdleTypes DEF Init, IdleEdit
  <1>5. QED
    BY <1>2, <1>3, <1>4 DEF TypeOK

\* Every action keeps the types.
LEMMA NextType == TypeOK /\ [Next]_vars => TypeOK'
  <1> SUFFICES ASSUME TypeOK, [Next]_vars PROVE TypeOK'
    OBVIOUS
  <1>1. CASE Tick
    <2>1. now' \in Time
      BY <1>1, ChoresAssumption DEF Tick, TypeOK, Time
    <2>2. on' \subseteq Key
      BY <1>1, <2>1 DEF Tick, TypeOK, ActiveReminders, Key
    <2>3. QED
      BY <1>1, <2>1, <2>2 DEF Tick, TypeOK
  <1>2. ASSUME NEW p \in Passes, PassStep(p) PROVE TypeOK'
    <2>1. CASE PassStart(p)
      BY <2>1, PassStartType DEF PassStart, TypeOK
    <2>2. CASE PassRules(p)
      BY <2>2, PassRulesType DEF PassRules, TypeOK
    <2>3. CASE PassWrite(p)
      <3>1. pass' \in [Passes -> PassType]
        BY <2>3, IdleTypes DEF PassWrite, TypeOK
      <3>2. QED
        BY <2>3, <3>1, PassWriteRows DEF PassWrite, TypeOK
    <2>4. CASE PassFail(p)
      BY <2>4, IdleTypes DEF PassFail, TypeOK
    <2>5. QED
      BY <1>2, <2>1, <2>2, <2>3, <2>4 DEF PassStep
  <1>3. ASSUME NEW m \in Markers, MarkStep(m) PROVE TypeOK'
    <2>1. mark' \in [Markers -> MarkType]
      BY <1>3, MarkStepType
    <2>2. CASE MarkWrite(m)
      BY <2>1, <2>2, MarkWriteRows DEF MarkWrite, TypeOK
    <2>3. CASE ~MarkWrite(m)
      <3>1. UNCHANGED <<now, chores, rules, rows, pass, edit, ever, on>>
        BY <1>3, <2>3 DEF MarkStep, MarkStart, MarkReminder, MarkRules
      <3>2. QED
        BY <2>1, <3>1 DEF TypeOK
    <2>4. QED
      BY <2>2, <2>3
  <1>4. ASSUME NEW c \in Chores, NEW r \in RuleIds, NEW from \in Time, NEW text \in Texts,
               Create(c, r, from, text)
        PROVE  TypeOK'
    <2> DEFINE new == [chore |-> c, from |-> from, text |-> text]
    <2>1. new \in Rule
      BY DEF Rule
    <2>2. r \notin DOMAIN rules /\ rules' = Put(rules, r, new)
      BY <1>4 DEF Create
    <2> HIDE DEF new
    <2>3. /\ DOMAIN rules \subseteq DOMAIN rules'
          /\ DOMAIN rules' \subseteq RuleIds /\ rules' \in [DOMAIN rules' -> Rule]
      BY <2>1, <2>2, PutRule
    <2>4. chores' \in [Chores -> Chore]
      BY <1>4 DEF Create, TypeOK, Chore
    <2>5. ever' \subseteq RuleIds \X Time
      BY <1>4 DEF Create, TypeOK, Covers
    <2>6. on' \subseteq Key
      BY <1>4 DEF Create, TypeOK, Key
    <2>7. UNCHANGED <<now, rows, pass, mark, edit>>
      BY <1>4 DEF Create
    <2>8. QED
      BY <2>3, <2>4, <2>5, <2>6, <2>7 DEF TypeOK
  <1>5. ASSUME NEW c \in Chores, NEW active \in BOOLEAN, SetActive(c, active)
        PROVE  TypeOK'
    <2>1. chores' \in [Chores -> Chore]
      BY <1>5 DEF SetActive, TypeOK, Chore
    <2>2. on' \subseteq Key
      BY <1>5 DEF SetActive, TypeOK, Key
    <2>3. QED
      BY <1>5, <2>1, <2>2 DEF SetActive, TypeOK
  <1>6. ASSUME NEW c \in Chores, SoftDelete(c) PROVE TypeOK'
    <2>1. chores' \in [Chores -> Chore]
      BY <1>6 DEF SoftDelete, TypeOK, Chore
    <2>2. QED
      BY <1>6, <2>1 DEF SoftDelete, TypeOK
  <1>7. ASSUME NEW r \in RuleIds, NEW from \in Time, NEW text \in Texts,
               AmendRule(r, from, text)
        PROVE  TypeOK'
    <2>1. r \in DOMAIN rules /\ AmendTx(r, from, text)
      BY <1>7 DEF AmendRule
    <2>2. QED
      BY <1>7, <2>1, AmendTables DEF AmendRule, TypeOK
  <1>8. ASSUME NEW e \in Editors, AddStep(e) PROVE TypeOK'
    <2>1. ASSUME NEW c \in Chores, NEW from \in Time, NEW text \in Texts,
                 AddStart(e, c, from, text)
          PROVE  TypeOK'
      <3>1. edit' \in [Editors -> EditType]
        BY <2>1, AddStartType
      <3>2. \A f \in Editors : edit'[f].step = "amend" => edit'[f].rule \in DOMAIN rules
        BY <2>1 DEF AddStart, TypeOK
      <3>3. QED
        BY <2>1, <3>1, <3>2 DEF AddStart, TypeOK
    <2>2. ASSUME NEW r \in RuleIds, AddInsert(e, r) PROVE TypeOK'
      <3> DEFINE new == [chore |-> edit[e].chore, from |-> edit[e].from, text |-> edit[e].text]
      <3>1. /\ edit' \in [Editors -> EditType]
            /\ \A f \in Editors : edit'[f].step = "amend" =>
                  edit[f].step = "amend" /\ edit'[f].rule = edit[f].rule
        BY <2>2, IdleTypes DEF AddInsert, TypeOK, IdleEdit
      <3>2. new \in Rule /\ new.from \in Time /\ new.text \in Texts
        BY <2>2, EditTypes DEF AddInsert, Rule
      <3>3. r \notin DOMAIN rules
            /\ \/ rules' = Put(rules, r, new) /\ ever' = ever \cup Covers(r, new.from, new.text)
               \/ UNCHANGED <<rules, ever>>
        BY <2>2 DEF AddInsert
      <3> HIDE DEF new
      <3>4. /\ DOMAIN rules \subseteq DOMAIN rules'
            /\ DOMAIN rules' \subseteq RuleIds /\ rules' \in [DOMAIN rules' -> Rule]
            /\ ever' \subseteq RuleIds \X Time
        BY <3>2, <3>3, PutRule DEF TypeOK, Covers
      <3>5. QED
        BY <2>2, <3>1, <3>4 DEF AddInsert, TypeOK
    <2>3. CASE AddAmend(e)
      <3>1. /\ edit[e].rule \in RuleIds /\ edit[e].from \in Time /\ edit[e].text \in Texts
            /\ AmendTx(edit[e].rule, edit[e].from, edit[e].text)
        BY <2>3, EditTypes DEF AddAmend
      <3>2. edit' \in [Editors -> EditType]
        BY <2>3, IdleTypes DEF AddAmend, TypeOK
      <3>3. edit[e].rule \in DOMAIN rules
        BY <2>3 DEF AddAmend, TypeOK
      <3>4. \A f \in Editors : edit'[f].step = "amend" =>
               edit[f].step = "amend" /\ edit'[f].rule = edit[f].rule
        BY <2>3 DEF AddAmend, TypeOK, IdleEdit
      <3>5. QED
        BY <2>3, <3>1, <3>2, <3>3, <3>4, AmendTables DEF AddAmend, TypeOK
    <2>4. QED
      BY <1>8, <2>1, <2>2, <2>3 DEF AddStep
  <1>9. CASE Crash
    BY <1>9, IdleTypes DEF Crash, TypeOK, IdleEdit
  <1>10. CASE UNCHANGED vars
    BY <1>10 DEF vars, TypeOK
  <1>11. QED
    BY <1>1, <1>2, <1>3, <1>4, <1>5, <1>6, <1>7, <1>8, <1>9, <1>10 DEF Next, EditStep

-----------------------------------------------------------------------------
(* What any step does to the tables. *)

\* Rows are only taken away, and only open ones.
Withdraws ==
    /\ DOMAIN rows' \subseteq DOMAIN rows
    /\ \A k \in DOMAIN rows' : rows'[k] = rows[k]
    /\ \A k \in DOMAIN rows \ DOMAIN rows' : rows[k].status = "pending"
    /\ now' = now

\* An amendment, wherever it comes from, in the terms of the later proofs.
LEMMA AmendStep ==
    ASSUME TypeOK,
           \/ \E r \in RuleIds, from \in Time, text \in Texts : AmendRule(r, from, text)
           \/ \E e \in Editors : AddAmend(e)
    PROVE  /\ \E r \in DOMAIN rules, from \in Time, text \in Texts : AmendTx(r, from, text)
           /\ Withdraws
           /\ UNCHANGED <<now, chores, pass, mark, on>>
           /\ DOMAIN rules' = DOMAIN rules
           /\ \A q \in DOMAIN rules : rules'[q].chore = rules[q].chore
           /\ ever \subseteq ever'
  <1>1. ASSUME NEW r \in RuleIds, NEW from \in Time, NEW text \in Texts,
               AmendRule(r, from, text)
        PROVE  /\ r \in DOMAIN rules
               /\ AmendTx(r, from, text)
               /\ UNCHANGED <<now, chores, pass, mark, on>>
    BY <1>1 DEF AmendRule
  <1>2. ASSUME NEW e \in Editors, AddAmend(e)
        PROVE  /\ edit[e].rule \in DOMAIN rules
               /\ edit[e].from \in Time /\ edit[e].text \in Texts
               /\ AmendTx(edit[e].rule, edit[e].from, edit[e].text)
               /\ UNCHANGED <<now, chores, pass, mark, on>>
    BY <1>2, EditTypes DEF AddAmend, TypeOK
  <1>3. PICK r \in DOMAIN rules, from \in Time, text \in Texts :
            AmendTx(r, from, text) /\ UNCHANGED <<now, chores, pass, mark, on>>
    BY <1>1, <1>2
  <1>4. QED
    BY <1>3, AmendTables DEF Withdraws

\* The three ways rows change at all.
LEMMA RowSteps ==
    ASSUME TypeOK, [Next]_vars
    PROVE  \/ rows' = rows
           \/ \E p \in Passes : PassWrite(p)
           \/ \E m \in Markers : MarkWrite(m)
           \/ Withdraws
  <1>1. ASSUME NEW p \in Passes, PassStep(p), ~PassWrite(p) PROVE rows' = rows
    BY <1>1 DEF PassStep, PassStart, PassRules, PassFail
  <1>2. ASSUME NEW m \in Markers, MarkStep(m), ~MarkWrite(m) PROVE rows' = rows
    BY <1>2 DEF MarkStep, MarkStart, MarkReminder, MarkRules
  <1>3. ASSUME EditStep PROVE rows' = rows \/ Withdraws
    BY <1>3, AmendStep DEF EditStep, Create, SetActive, SoftDelete
  <1>4. ASSUME NEW e \in Editors, AddStep(e) PROVE rows' = rows \/ Withdraws
    BY <1>4, AmendStep DEF AddStep, AddStart, AddInsert
  <1>5. QED
    BY <1>1, <1>2, <1>3, <1>4 DEF Next, Tick, Crash, vars

\* Versions keep their chore, and the histories and the clock only grow.
LEMMA Growth ==
    ASSUME TypeOK, [Next]_vars
    PROVE  /\ DOMAIN rules \subseteq DOMAIN rules'
           /\ \A q \in DOMAIN rules : rules'[q].chore = rules[q].chore
           /\ ever \subseteq ever'
           /\ on \subseteq on'
           /\ now <= now'
  <1>1. now \in Nat
    BY DEF TypeOK, Time
  <1>2. CASE Tick
    BY <1>1, <1>2 DEF Tick
  <1>3. ASSUME NEW p \in Passes, PassStep(p)
        PROVE  UNCHANGED <<rules, ever, on, now>>
    BY <1>3 DEF PassStep, PassStart, PassRules, PassWrite, PassFail
  <1>4. ASSUME NEW m \in Markers, MarkStep(m)
        PROVE  UNCHANGED <<rules, ever, on, now>>
    BY <1>4 DEF MarkStep, MarkStart, MarkReminder, MarkRules, MarkWrite
  <1>5. ASSUME NEW c \in Chores, NEW r \in RuleIds, NEW from \in Time, NEW text \in Texts,
               Create(c, r, from, text)
        PROVE  /\ DOMAIN rules \subseteq DOMAIN rules'
               /\ \A q \in DOMAIN rules : rules'[q] = rules[q]
               /\ ever \subseteq ever' /\ on \subseteq on' /\ now' = now
    BY <1>5 DEF Create, Put
  <1>6. ASSUME NEW c \in Chores, NEW active \in BOOLEAN, SetActive(c, active)
        PROVE  UNCHANGED <<rules, ever, now>> /\ on \subseteq on'
    BY <1>6 DEF SetActive
  <1>7. ASSUME NEW c \in Chores, SoftDelete(c)
        PROVE  UNCHANGED <<rules, ever, on, now>>
    BY <1>7 DEF SoftDelete
  <1>8. ASSUME NEW e \in Editors, NEW c \in Chores, NEW from \in Time, NEW text \in Texts,
               AddStart(e, c, from, text)
        PROVE  UNCHANGED <<rules, ever, on, now>>
    BY <1>8 DEF AddStart
  <1>9. ASSUME NEW e \in Editors, NEW r \in RuleIds, AddInsert(e, r)
        PROVE  /\ DOMAIN rules \subseteq DOMAIN rules'
               /\ \A q \in DOMAIN rules : rules'[q] = rules[q]
               /\ ever \subseteq ever' /\ UNCHANGED <<on, now>>
    BY <1>9 DEF AddInsert, Put
  <1>10. CASE Crash \/ UNCHANGED vars
    BY <1>1, <1>10 DEF Crash, vars
  <1>11. CASE \/ \E r \in RuleIds, from \in Time, text \in Texts : AmendRule(r, from, text)
              \/ \E e \in Editors : AddAmend(e)
    BY <1>1, <1>11, AmendStep
  <1>12. QED
    BY <1>1, <1>2, <1>3, <1>4, <1>5, <1>6, <1>7, <1>8, <1>9, <1>10, <1>11
       DEF Next, EditStep, AddStep

\* What any step does to the calls in flight.
LEMMA PassSteps ==
    ASSUME TypeOK, [Next]_vars, NEW p \in Passes
    PROVE  \/ pass'[p] = pass[p]
           \/ pass'[p] = IdlePass
           \/ PassStart(p)
           \/ PassRules(p)
  <1>1. ASSUME NEW q \in Passes, PassStep(q)
        PROVE  \/ pass'[p] = pass[p] \/ pass'[p] = IdlePass
               \/ PassStart(p) \/ PassRules(p)
    BY <1>1 DEF PassStep, PassStart, PassRules, PassWrite, PassFail, TypeOK
  <1>2. ASSUME NEW m \in Markers, MarkStep(m) PROVE pass' = pass
    BY <1>2 DEF MarkStep, MarkStart, MarkReminder, MarkRules, MarkWrite
  <1>3. CASE EditStep
    BY <1>3 DEF EditStep, Create, SetActive, SoftDelete, AmendRule
  <1>4. ASSUME NEW e \in Editors, AddStep(e) PROVE pass' = pass
    BY <1>4 DEF AddStep, AddStart, AddInsert, AddAmend
  <1>5. QED
    BY <1>1, <1>2, <1>3, <1>4 DEF Next, Tick, Crash, vars

\* The same for a mark.
LEMMA MarkSteps ==
    ASSUME TypeOK, [Next]_vars, NEW m \in Markers
    PROVE  \/ mark'[m] = mark[m]
           \/ mark'[m] = IdleMark
           \/ \E k \in Key, s \in Closed : MarkStart(m, k, s)
           \/ MarkReminder(m)
           \/ MarkRules(m)
  <1>1. ASSUME NEW p \in Passes, PassStep(p) PROVE mark' = mark
    BY <1>1 DEF PassStep, PassStart, PassRules, PassWrite, PassFail
  <1>2. ASSUME NEW n \in Markers, MarkStep(n), n # m PROVE mark'[m] = mark[m]
    BY <1>2 DEF MarkStep, MarkStart, MarkReminder, MarkRules, MarkWrite, TypeOK
  <1>3. CASE MarkStep(m)
    BY <1>3 DEF MarkStep, MarkWrite, TypeOK
  <1>4. CASE EditStep
    BY <1>4 DEF EditStep, Create, SetActive, SoftDelete, AmendRule
  <1>5. ASSUME NEW e \in Editors, AddStep(e) PROVE mark' = mark
    BY <1>5 DEF AddStep, AddStart, AddInsert, AddAmend
  <1>6. QED
    BY <1>1, <1>2, <1>3, <1>4, <1>5 DEF Next, Tick, Crash, vars

-----------------------------------------------------------------------------
(* Nothing lies ahead of the clock. *)

\* What is written and what is about to be written stays behind the clock.
LEMMA NextNotAhead ==
    ASSUME TypeOK, NoRowAhead, InFlightNotAhead, [Next]_vars
    PROVE  NoRowAhead' /\ InFlightNotAhead'
  <1>1. /\ now \in Nat /\ now' \in Nat /\ now <= now'
        /\ \A k \in Key : k[2] \in Nat
        /\ \A t \in Nat : t <= now => t <= now'
    BY Growth, NextType DEF TypeOK, Time, Key
  <1>2. NoRowAhead'
    <2>1. CASE rows' = rows
      BY <1>1, <2>1 DEF NoRowAhead, TypeOK
    <2>2. ASSUME NEW p \in Passes, PassWrite(p) PROVE NoRowAhead'
      <3>1. now' = now
        BY <2>2 DEF PassWrite
      <3>2. QED
        BY <2>2, <3>1, PassWriteRows DEF NoRowAhead, InFlightNotAhead
    <2>3. ASSUME NEW m \in Markers, MarkWrite(m) PROVE NoRowAhead'
      <3>1. now' = now /\ mark[m].key[2] <= now
        BY <2>3 DEF MarkWrite, InFlightNotAhead
      <3>2. QED
        BY <2>3, <3>1, MarkWriteRows DEF NoRowAhead
    <2>4. CASE Withdraws
      BY <2>4 DEF Withdraws, NoRowAhead
    <2>5. QED
      BY <2>1, <2>2, <2>3, <2>4, RowSteps
  <1>3. ASSUME NEW p \in Passes
        PROVE  pass'[p].at <= now' /\ \A k \in DOMAIN pass'[p].batch : k[2] <= now'
    <2>1. CASE pass'[p] = pass[p]
      BY <1>1, <2>1, PassParts DEF InFlightNotAhead, Time
    <2>2. CASE pass'[p] = IdlePass
      BY <1>1, <2>2, NothingType DEF IdlePass
    <2>3. CASE PassStart(p)
      <3>1. pass'[p].at = now /\ DOMAIN pass'[p].batch = {}
        BY <2>3, NothingType DEF PassStart, TypeOK
      <3>2. QED
        BY <1>1, <3>1
    <2>4. CASE PassRules(p)
      <3>1. /\ pass'[p].at = 0
            /\ DOMAIN pass'[p].batch = DueKeys(p, pass[p].at, pass[p].since)
        BY <2>4 DEF PassRules, TypeOK
      <3>2. pass[p].at \in Nat /\ pass[p].at <= now
        BY PassParts DEF InFlightNotAhead, Time
      <3>3. \A k \in DueKeys(p, pass[p].at, pass[p].since) : k[2] \in Nat /\ k[2] <= pass[p].at
        BY <1>1 DEF DueKeys
      <3>4. QED
        BY <1>1, <3>1, <3>2, <3>3
    <2>5. QED
      BY <2>1, <2>2, <2>3, <2>4, PassSteps
  <1>4. ASSUME NEW m \in Markers, mark'[m].step # "idle"
        PROVE  mark'[m].key[2] <= now'
    <2>1. CASE mark'[m] = mark[m]
      BY <1>1, <1>4, <2>1, MarkTypes DEF InFlightNotAhead
    <2>2. CASE mark'[m] = IdleMark
      BY <1>4, <2>2 DEF IdleMark
    <2>3. ASSUME NEW k \in Key, NEW s \in Closed, MarkStart(m, k, s)
          PROVE  mark'[m].key[2] <= now'
      <3>1. mark'[m].key = k /\ k[2] <= now
        BY <2>3 DEF MarkStart, TypeOK
      <3>2. QED
        BY <1>1, <3>1
    <2>4. CASE MarkReminder(m) \/ MarkRules(m)
      <3>1. mark'[m].key = mark[m].key /\ mark[m].step # "idle"
        BY <1>4, <2>4 DEF MarkReminder, MarkRules, IdleMark, TypeOK
      <3>2. QED
        BY <1>1, <3>1, MarkTypes DEF InFlightNotAhead
    <2>5. QED
      BY <2>1, <2>2, <2>3, <2>4, MarkSteps
  <1>5. QED
    BY <1>2, <1>3, <1>4 DEF InFlightNotAhead

-----------------------------------------------------------------------------
(* Decisions. *)

\* No step loses a decision or reopens it.
LEMMA NextDecisions ==
    ASSUME TypeOK, [Next]_vars, NEW k \in DOMAIN rows, rows[k].status \in Closed
    PROVE  k \in DOMAIN rows' /\ rows'[k].status \in Closed
  <1>1. CASE rows' = rows
    BY <1>1
  <1>2. ASSUME NEW p \in Passes, PassWrite(p)
        PROVE  k \in DOMAIN rows' /\ rows'[k].status \in Closed
    BY <1>2, PassWriteRows
  <1>3. ASSUME NEW m \in Markers, MarkWrite(m)
        PROVE  k \in DOMAIN rows' /\ rows'[k].status \in Closed
    <2>1. mark[m].status \in Closed
      BY <1>3, MarkTypes DEF MarkWrite
    <2>2. QED
      BY <1>3, <2>1, MarkWriteRows
  <1>4. CASE Withdraws
    BY <1>4 DEF Withdraws, Closed
  <1>5. QED
    BY <1>1, <1>2, <1>3, <1>4, RowSteps

-----------------------------------------------------------------------------
(* Versions. *)

\* A version is added where the chore has none yet.
AddsVersion(r, new) ==
    /\ r \notin DOMAIN rules
    /\ rules' = Put(rules, r, new)
    /\ ever' = ever \cup Covers(r, new.from, new.text)
    /\ FreeFrom(new.chore, new.from, {})
    /\ chores'[new.chore].state # "absent"

\* A chore that was created stays created.
LEMMA ChoresStay ==
    ASSUME TypeOK, [Next]_vars, NEW c \in Chores, chores[c].state # "absent"
    PROVE  chores'[c].state # "absent"
  <1>1. ASSUME NEW p \in Passes, PassStep(p) PROVE chores' = chores
    BY <1>1 DEF PassStep, PassStart, PassRules, PassWrite, PassFail
  <1>2. ASSUME NEW m \in Markers, MarkStep(m) PROVE chores' = chores
    BY <1>2 DEF MarkStep, MarkStart, MarkReminder, MarkRules, MarkWrite
  <1>3. ASSUME NEW e \in Editors, AddStep(e) PROVE chores' = chores
    BY <1>3 DEF AddStep, AddStart, AddInsert, AddAmend
  <1>4. ASSUME NEW d \in Chores, NEW r \in RuleIds, NEW from \in Time, NEW text \in Texts,
               Create(d, r, from, text)
        PROVE  chores'[c].state # "absent"
    BY <1>4 DEF Create, TypeOK
  <1>5. ASSUME NEW d \in Chores, NEW active \in BOOLEAN, SetActive(d, active)
        PROVE  chores'[c].state # "absent"
    <2>1. chores[d].state = "kept" /\ chores'[d].state = chores[d].state
      BY <1>5 DEF SetActive, TypeOK, Chore
    <2>2. QED
      BY <1>5, <2>1 DEF SetActive, TypeOK
  <1>6. ASSUME NEW d \in Chores, SoftDelete(d)
        PROVE  chores'[c].state # "absent"
    BY <1>6 DEF SoftDelete, TypeOK, Chore
  <1>7. ASSUME NEW r \in RuleIds, NEW from \in Time, NEW text \in Texts,
               AmendRule(r, from, text)
        PROVE  chores' = chores
    BY <1>7 DEF AmendRule
  <1>8. QED
    BY <1>1, <1>2, <1>3, <1>4, <1>5, <1>6, <1>7 DEF Next, EditStep, Tick, Crash, vars

\* The three ways the versions change at all.
LEMMA RuleSteps ==
    ASSUME TypeOK, NoOrphans, [Next]_vars
    PROVE  \/ UNCHANGED <<rules, ever>>
           \/ \E r \in RuleIds, new \in Rule : AddsVersion(r, new)
           \/ \E r \in DOMAIN rules, from \in Time, text \in Texts : AmendTx(r, from, text)
  <1> DEFINE Goal == \/ UNCHANGED <<rules, ever>>
                     \/ \E r \in RuleIds, new \in Rule : AddsVersion(r, new)
                     \/ \E r \in DOMAIN rules, from \in Time, text \in Texts :
                           AmendTx(r, from, text)
  <1>1. ASSUME NEW p \in Passes, PassStep(p) PROVE Goal
    BY <1>1 DEF PassStep, PassStart, PassRules, PassWrite, PassFail
  <1>2. ASSUME NEW m \in Markers, MarkStep(m) PROVE Goal
    BY <1>2 DEF MarkStep, MarkStart, MarkReminder, MarkRules, MarkWrite
  <1>3. ASSUME NEW c \in Chores, NEW r \in RuleIds, NEW from \in Time, NEW text \in Texts,
               Create(c, r, from, text)
        PROVE  Goal
    <2> DEFINE new == [chore |-> c, from |-> from, text |-> text]
    <2>1. new \in Rule
      BY DEF Rule
    <2>2. FreeFrom(c, from, {})
      BY <1>3 DEF Create, FreeFrom, NoOrphans
    <2>3. chores'[c].state # "absent"
      BY <1>3 DEF Create, TypeOK
    <2>4. AddsVersion(r, new)
      BY <1>3, <2>2, <2>3 DEF Create, AddsVersion
    <2>5. QED
      BY <2>1, <2>4
  <1>4. CASE \/ \E c \in Chores, active \in BOOLEAN : SetActive(c, active)
             \/ \E c \in Chores : SoftDelete(c)
    BY <1>4 DEF SetActive, SoftDelete
  <1>5. ASSUME NEW e \in Editors, NEW c \in Chores, NEW from \in Time, NEW text \in Texts,
               AddStart(e, c, from, text)
        PROVE  Goal
    BY <1>5 DEF AddStart
  <1>6. ASSUME NEW e \in Editors, NEW r \in RuleIds, AddInsert(e, r)
        PROVE  Goal
    <2> DEFINE new == [chore |-> edit[e].chore, from |-> edit[e].from, text |-> edit[e].text]
    <2>1. new \in Rule
      BY <1>6, EditTypes DEF AddInsert, Rule
    <2>2. CASE FreeFrom(new.chore, new.from, {})
      <3>1. chores'[new.chore].state # "absent"
        BY <1>6 DEF AddInsert, NoOrphans
      <3>2. AddsVersion(r, new)
        BY <1>6, <2>2, <3>1 DEF AddInsert, AddsVersion
      <3>3. QED
        BY <2>1, <3>2
    <2>3. CASE ~FreeFrom(new.chore, new.from, {})
      BY <1>6, <2>3 DEF AddInsert
    <2>4. QED
      BY <2>2, <2>3
  <1>7. CASE \/ \E r \in RuleIds, from \in Time, text \in Texts : AmendRule(r, from, text)
             \/ \E e \in Editors : AddAmend(e)
    BY <1>7, AmendStep
  <1>8. CASE Tick \/ Crash \/ UNCHANGED vars
    BY <1>8 DEF Tick, Crash, vars
  <1>9. QED
    BY <1>1, <1>2, <1>3, <1>4, <1>5, <1>6, <1>7, <1>8 DEF Next, EditStep, AddStep

\* Versions, and the one an AddRule is about to add, keep having a chore.
LEMMA NextNoOrphans ==
    ASSUME TypeOK, NoOrphans, [Next]_vars
    PROVE  NoOrphans'
  <1>1. ASSUME NEW r \in DOMAIN rules' PROVE chores'[rules'[r].chore].state # "absent"
    <2>1. CASE r \in DOMAIN rules
      <3>1. rules[r].chore \in Chores /\ rules'[r].chore = rules[r].chore
        BY <2>1, Growth DEF TypeOK, Rule
      <3>2. QED
        BY <2>1, <3>1, ChoresStay DEF NoOrphans
    <2>2. CASE r \notin DOMAIN rules
      <3>1. PICK q \in RuleIds, new \in Rule : AddsVersion(q, new)
        BY <2>2, RuleSteps, AmendTables
      <3>2. r = q /\ rules'[r] = new
        BY <2>2, <3>1 DEF AddsVersion, Put
      <3>3. QED
        BY <3>1, <3>2 DEF AddsVersion
    <2>3. QED
      BY <2>1, <2>2
  <1>2. ASSUME NEW e \in Editors, edit'[e].step = "insert"
        PROVE  chores'[edit'[e].chore].state # "absent"
    <2>1. CASE edit'[e] = edit[e]
      BY <1>2, <2>1, EditTypes, ChoresStay DEF NoOrphans
    <2>2. ASSUME NEW c \in Chores, NEW from \in Time, NEW text \in Texts,
                 AddStart(e, c, from, text)
          PROVE  chores'[edit'[e].chore].state # "absent"
      BY <1>2, <2>2 DEF AddStart, TypeOK
    <2>3. \/ edit'[e] = edit[e]
          \/ \E c \in Chores, from \in Time, text \in Texts : AddStart(e, c, from, text)
      <3>1. ASSUME NEW p \in Passes, PassStep(p) PROVE edit' = edit
        BY <3>1 DEF PassStep, PassStart, PassRules, PassWrite, PassFail
      <3>2. ASSUME NEW m \in Markers, MarkStep(m) PROVE edit' = edit
        BY <3>2 DEF MarkStep, MarkStart, MarkReminder, MarkRules, MarkWrite
      <3>3. ASSUME EditStep PROVE edit' = edit
        BY <3>3 DEF EditStep, Create, SetActive, SoftDelete, AmendRule
      <3>4. ASSUME NEW f \in Editors, AddStep(f), f # e PROVE edit'[e] = edit[e]
        BY <3>4 DEF AddStep, AddStart, AddInsert, AddAmend, TypeOK
      <3>5. ASSUME \/ \E r \in RuleIds : AddInsert(e, r)
                   \/ AddAmend(e)
                   \/ Crash
            PROVE  FALSE
        BY <1>2, <3>5 DEF AddInsert, AddAmend, Crash, IdleEdit, TypeOK
      <3>6. QED
        BY <3>1, <3>2, <3>3, <3>4, <3>5 DEF Next, AddStep, Tick, vars
    <2>4. QED
      BY <2>1, <2>2, <2>3
  <1>3. QED
    BY <1>1, <1>2 DEF NoOrphans

\* No step gives a chore a second version from one minute.
LEMMA NextOneVersion ==
    ASSUME TypeOK, NoOrphans, OneVersionPerStart, [Next]_vars
    PROVE  OneVersionPerStart'
  <1>1. CASE UNCHANGED rules
    BY <1>1 DEF OneVersionPerStart
  <1>2. ASSUME NEW r \in RuleIds, NEW new \in Rule, AddsVersion(r, new)
        PROVE  OneVersionPerStart'
    BY <1>2 DEF AddsVersion, Put, FreeFrom, OneVersionPerStart
  <1>3. ASSUME NEW r \in DOMAIN rules, NEW from \in Time, NEW text \in Texts,
               AmendTx(r, from, text), rules' # rules
        PROVE  OneVersionPerStart'
    <2>1. /\ FreeFrom(rules[r].chore, from, {r})
          /\ rules' = [rules EXCEPT ![r].from = from, ![r].text = text]
      BY <1>3 DEF AmendTx
    <2>2. /\ DOMAIN rules' = DOMAIN rules
          /\ rules'[r].chore = rules[r].chore /\ rules'[r].from = from
          /\ \A q \in DOMAIN rules \ {r} : rules'[q] = rules[q]
      BY <2>1 DEF TypeOK, Rule
    <2>3. QED
      BY <2>1, <2>2 DEF FreeFrom, OneVersionPerStart
  <1>4. QED
    BY <1>1, <1>2, <1>3, RuleSteps

-----------------------------------------------------------------------------
(* Rows name a version that scheduled them. *)

\* A version that schedules an instant may be named for it.
LEMMA OccursSourced ==
    ASSUME TypeOK, InFlightSourced, NEW k \in Key, NEW r \in OccursAt(k[1], k[2])
    PROVE  Sourced(r, k)
  <1>1. /\ r \in DOMAIN rules /\ rules[r].chore = k[1]
        /\ rules[r].from <= k[2] /\ k[2] \in rules[r].text
    BY DEF OccursAt, RuleAt
  <1>2. k[2] \in Time
    BY DEF Key
  <1>3. <<r, k[2]>> \in Covers(r, rules[r].from, rules[r].text)
    BY <1>1, <1>2 DEF Covers
  <1>4. QED
    BY <1>1, <1>3 DEF InFlightSourced, Sourced

\* Every version a row names or a call has chosen is one it may name.
LEMMA NextSourced ==
    ASSUME TypeOK, NoOrphans, InFlightSourced, [Next]_vars
    PROVE  InFlightSourced'
  <1>1. ASSUME NEW r \in DOMAIN rules'
        PROVE  Covers(r, rules'[r].from, rules'[r].text) \subseteq ever'
    <2>1. CASE UNCHANGED <<rules, ever>>
      BY <2>1 DEF InFlightSourced
    <2>2. ASSUME NEW q \in RuleIds, NEW new \in Rule, AddsVersion(q, new)
          PROVE  Covers(r, rules'[r].from, rules'[r].text) \subseteq ever'
      BY <2>2 DEF AddsVersion, Put, InFlightSourced
    <2>3. ASSUME NEW q \in DOMAIN rules, NEW from \in Time, NEW text \in Texts,
                 AmendTx(q, from, text), FreeFrom(rules[q].chore, from, {q})
          PROVE  Covers(r, rules'[r].from, rules'[r].text) \subseteq ever'
      <3>1. /\ rules' = [rules EXCEPT ![q].from = from, ![q].text = text]
            /\ ever' = ever \cup Covers(q, from, text)
        BY <2>3 DEF AmendTx
      <3>2. /\ r \in DOMAIN rules
            /\ r = q => rules'[r].from = from /\ rules'[r].text = text
            /\ r # q => rules'[r] = rules[r]
        BY <3>1 DEF TypeOK, Rule
      <3>3. QED
        BY <3>1, <3>2 DEF InFlightSourced
    <2>4. QED
      BY <2>1, <2>2, <2>3, RuleSteps DEF AmendTx
  <1>2. ASSUME NEW k \in DOMAIN rows' PROVE Sourced(rows[k].rule, k)'
    <2>1. CASE k \in DOMAIN rows /\ rows'[k].rule = rows[k].rule
      BY <2>1, Growth DEF Sourced, InFlightSourced
    <2>2. ASSUME NEW p \in Passes, PassWrite(p), k \notin DOMAIN rows
          PROVE  Sourced(rows[k].rule, k)'
      <3>1. k \in DOMAIN pass[p].batch /\ rows'[k] = pass[p].batch[k]
        BY <2>2, PassWriteRows
      <3>2. QED
        BY <3>1, Growth DEF Sourced, InFlightSourced
    <2>3. ASSUME NEW m \in Markers, MarkWrite(m), k \notin DOMAIN rows
          PROVE  Sourced(rows[k].rule, k)'
      <3>1. k = mark[m].key /\ rows'[k].rule = mark[m].rule /\ mark[m].step = "write"
        BY <2>3, MarkWriteRows DEF MarkWrite
      <3>2. QED
        BY <3>1, Growth DEF Sourced, InFlightSourced
    <2>4. ASSUME NEW m \in Markers, MarkWrite(m), k \in DOMAIN rows
          PROVE  rows'[k].rule = rows[k].rule
      BY <2>4, MarkWriteRows
    <2>5. ASSUME NEW p \in Passes, PassWrite(p), k \in DOMAIN rows
          PROVE  rows'[k].rule = rows[k].rule
      BY <2>5, PassWriteRows
    <2>6. QED
      BY <2>1, <2>2, <2>3, <2>4, <2>5, RowSteps DEF Withdraws
  <1>3. ASSUME NEW p \in Passes, NEW k \in DOMAIN pass'[p].batch
        PROVE  Sourced(pass[p].batch[k].rule, k)'
    <2>1. CASE pass'[p] = pass[p]
      BY <2>1, Growth DEF Sourced, InFlightSourced
    <2>2. CASE pass'[p] = IdlePass
      BY <2>2, NothingType DEF IdlePass
    <2>3. CASE PassStart(p)
      BY <2>3, NothingType DEF PassStart, TypeOK
    <2>4. CASE PassRules(p)
      <3>1. /\ k \in DueKeys(p, pass[p].at, pass[p].since)
            /\ pass'[p].batch[k].rule = CHOOSE r \in OccursAt(k[1], k[2]) : TRUE
        BY <2>4 DEF PassRules, TypeOK
      <3>2. k \in Key /\ OccursAt(k[1], k[2]) # {}
        BY <3>1 DEF DueKeys
      <3>3. pass'[p].batch[k].rule \in OccursAt(k[1], k[2])
        BY <3>1, <3>2
      <3>4. QED
        BY <3>2, <3>3, OccursSourced, Growth DEF Sourced
    <2>5. QED
      BY <2>1, <2>2, <2>3, <2>4, PassSteps
  <1>4. ASSUME NEW m \in Markers, mark'[m].step = "write"
        PROVE  Sourced(mark[m].rule, mark[m].key)'
    <2>1. CASE mark'[m] = mark[m]
      BY <1>4, <2>1, Growth DEF Sourced, InFlightSourced
    <2>2. CASE mark'[m] = IdleMark
      BY <1>4, <2>2 DEF IdleMark
    <2>3. ASSUME NEW k \in Key, NEW s \in Closed, MarkStart(m, k, s)
          PROVE  Sourced(mark[m].rule, mark[m].key)'
      <3>1. k \in DOMAIN rows /\ mark'[m].key = k /\ mark'[m].rule = rows[k].rule
        BY <1>4, <2>3 DEF MarkStart, TypeOK
      <3>2. QED
        BY <3>1, Growth DEF Sourced, InFlightSourced
    <2>4. CASE MarkReminder(m)
      BY <1>4, <2>4 DEF MarkReminder, IdleMark, TypeOK
    <2>5. CASE MarkRules(m)
      <3> DEFINE k == mark[m].key
                 found == OccursAt(k[1], k[2])
      <3>1. k \in Key
        BY <2>5, MarkTypes DEF MarkRules
      <3>2. found # {} /\ mark'[m].key = k /\ mark'[m].rule = CHOOSE r \in found : TRUE
        BY <1>4, <2>5 DEF MarkRules, IdleMark, TypeOK
      <3>3. mark'[m].rule \in found
        <4> HIDE DEF found
        <4> QED BY <3>2
      <3>4. QED
        BY <3>1, <3>2, <3>3, OccursSourced, Growth DEF Sourced
    <2>6. QED
      BY <2>1, <2>2, <2>3, <2>4, <2>5, MarkSteps
  <1>5. QED
    BY <1>1, <1>2, <1>3, <1>4 DEF InFlightSourced

-----------------------------------------------------------------------------
(* The switch. *)

\* The chores, the clock and the minutes the switch was on move together.
LEMMA SwitchSteps ==
    ASSUME TypeOK, [Next]_vars
    PROVE  \/ UNCHANGED <<chores, now>>
           \/ Tick
           \/ \E c \in Chores, r \in RuleIds, from \in Time, text \in Texts :
                 Create(c, r, from, text)
           \/ \E c \in Chores, active \in BOOLEAN : SetActive(c, active)
           \/ \E c \in Chores : SoftDelete(c)
  <1>1. ASSUME NEW p \in Passes, PassStep(p) PROVE UNCHANGED <<chores, now>>
    BY <1>1 DEF PassStep, PassStart, PassRules, PassWrite, PassFail
  <1>2. ASSUME NEW m \in Markers, MarkStep(m) PROVE UNCHANGED <<chores, now>>
    BY <1>2 DEF MarkStep, MarkStart, MarkReminder, MarkRules, MarkWrite
  <1>3. ASSUME NEW e \in Editors, AddStep(e) PROVE UNCHANGED <<chores, now>>
    BY <1>3 DEF AddStep, AddStart, AddInsert, AddAmend
  <1>4. ASSUME NEW r \in RuleIds, NEW from \in Time, NEW text \in Texts,
               AmendRule(r, from, text)
        PROVE  UNCHANGED <<chores, now>>
    BY <1>4 DEF AmendRule
  <1>5. QED
    BY <1>1, <1>2, <1>3, <1>4 DEF Next, EditStep, Crash, vars

\* A chore that is on has been on since its active_since.
LEMMA NextChoresOn ==
    ASSUME TypeOK, OnSince, [Next]_vars, NEW c \in ActiveReminders',
           NEW t \in chores'[c].since .. now'
    PROVE  <<c, t>> \in on'
  <1>1. c \in Chores /\ chores'[c].state = "kept" /\ chores'[c].active
    BY DEF ActiveReminders
  <1>2. now \in Nat /\ on \subseteq on'
    BY Growth DEF TypeOK, Time
  <1>3. ASSUME chores'[c] = chores[c], now' = now PROVE <<c, t>> \in on'
    BY <1>1, <1>2, <1>3 DEF OnSince, ActiveReminders
  <1>4. ASSUME chores'[c].since = now, now' = now, <<c, now>> \in on'
        PROVE  <<c, t>> \in on'
    BY <1>2, <1>4
  <1>5. CASE Tick
    <2>1. /\ chores'[c] = chores[c] /\ now' = now + 1 /\ chores[c].since \in Nat
          /\ on' = on \cup (ActiveReminders \X {now'})
      BY <1>1, <1>5 DEF Tick, TypeOK, Chore, Time
    <2>2. c \in ActiveReminders
      BY <1>1, <2>1 DEF ActiveReminders
    <2>3. t = now' \/ t \in chores[c].since .. now
      BY <1>2, <2>1
    <2>4. QED
      BY <2>1, <2>2, <2>3 DEF OnSince
  <1>6. ASSUME NEW d \in Chores, NEW r \in RuleIds, NEW from \in Time, NEW text \in Texts,
               Create(d, r, from, text)
        PROVE  <<c, t>> \in on'
    <2>1. CASE c = d
      BY <1>1, <1>4, <1>6, <2>1 DEF Create, TypeOK
    <2>2. CASE c # d
      BY <1>1, <1>3, <1>6, <2>2 DEF Create, TypeOK
    <2>3. QED
      BY <2>1, <2>2
  <1>7. ASSUME NEW d \in Chores, NEW active \in BOOLEAN, SetActive(d, active)
        PROVE  <<c, t>> \in on'
    <2>1. CASE c = d
      <3>1. chores'[d].active = active
            /\ chores'[d].since = (IF active THEN now ELSE chores[d].since)
        BY <1>7 DEF SetActive, TypeOK, Chore
      <3>2. active
        BY <1>1, <2>1, <3>1
      <3>3. QED
        BY <1>4, <1>7, <2>1, <3>1, <3>2 DEF SetActive
    <2>2. CASE c # d
      BY <1>1, <1>3, <1>7, <2>2 DEF SetActive, TypeOK
    <2>3. QED
      BY <2>1, <2>2
  <1>8. ASSUME NEW d \in Chores, SoftDelete(d) PROVE <<c, t>> \in on'
    <2>1. c # d
      BY <1>1, <1>8 DEF SoftDelete, TypeOK, Chore
    <2>2. QED
      BY <1>1, <1>3, <1>8, <2>1 DEF SoftDelete, TypeOK
  <1>9. QED
    BY <1>3, <1>5, <1>6, <1>7, <1>8, SwitchSteps

\* What a pass read as on stays on in history, whatever the switch does next.
LEMMA NextOn ==
    ASSUME TypeOK, OnSince, [Next]_vars
    PROVE  OnSince'
  <1>1. on \subseteq on'
    BY Growth
  <1>2. ASSUME NEW p \in Passes
        PROVE  /\ \A c \in DOMAIN pass'[p].since :
                     \A t \in pass'[p].since[c] .. pass'[p].at : <<c, t>> \in on'
               /\ DOMAIN pass'[p].batch \subseteq on'
    <2>1. CASE pass'[p] = pass[p]
      BY <1>1, <2>1 DEF OnSince
    <2>2. CASE pass'[p] = IdlePass
      BY <2>2, NothingType DEF IdlePass
    <2>3. CASE PassStart(p)
      <3>1. /\ pass'[p].at = now
            /\ pass'[p].since = [c \in ActiveReminders |-> chores[c].since]
            /\ pass'[p].batch = Nothing
        BY <2>3 DEF PassStart, TypeOK
      <3>2. QED
        BY <1>1, <3>1, NothingType DEF OnSince
    <2>4. CASE PassRules(p)
      <3>1. /\ pass'[p].since = Nothing
            /\ DOMAIN pass'[p].batch = DueKeys(p, pass[p].at, pass[p].since)
        BY <2>4 DEF PassRules, TypeOK
      <3>2. ASSUME NEW k \in DueKeys(p, pass[p].at, pass[p].since)
            PROVE  k \in on
        <4>1. /\ k \in Key
              /\ k[1] \in DOMAIN pass[p].since
              /\ pass[p].since[k[1]] <= k[2] /\ k[2] <= pass[p].at
          BY DEF DueKeys
        <4>2. pass[p].since[k[1]] \in Nat /\ k[2] \in Nat /\ pass[p].at \in Nat
          BY <4>1, PassParts DEF Key, Time
        <4>3. k[2] \in pass[p].since[k[1]] .. pass[p].at
          BY <4>1, <4>2
        <4>4. k = <<k[1], k[2]>>
          BY <4>1 DEF Key
        <4>5. QED
          BY <4>1, <4>3, <4>4 DEF OnSince
      <3>3. QED
        BY <1>1, <3>1, <3>2, NothingType
    <2>5. QED
      BY <2>1, <2>2, <2>3, <2>4, PassSteps
  <1>3. QED
    BY <1>2, NextChoresOn DEF OnSince

\* Only what was on becomes an open row.
LEMMA NextOpenOn ==
    ASSUME TypeOK, OnSince, OpenRowsWereOn, [Next]_vars
    PROVE  OpenRowsWereOn'
  <1>1. on \subseteq on'
    BY Growth
  <1>2. CASE rows' = rows \/ Withdraws
    BY <1>1, <1>2 DEF Withdraws, OpenRowsWereOn
  <1>3. ASSUME NEW p \in Passes, PassWrite(p) PROVE OpenRowsWereOn'
    BY <1>1, <1>3, PassWriteRows DEF OnSince, OpenRowsWereOn
  <1>4. ASSUME NEW m \in Markers, MarkWrite(m) PROVE OpenRowsWereOn'
    <2>1. mark[m].status # "pending"
      BY <1>4, MarkTypes DEF MarkWrite, Closed
    <2>2. ASSUME NEW k \in DOMAIN rows', rows'[k].status = "pending"
          PROVE  k \in on'
      <3>1. k # mark[m].key
        BY <1>4, <2>1, <2>2, MarkWriteRows
      <3>2. k \in DOMAIN rows /\ rows'[k] = rows[k]
        BY <1>4, <2>2, <3>1, MarkWriteRows
      <3>3. QED
        BY <1>1, <2>2, <3>2 DEF OpenRowsWereOn
    <2>3. QED
      BY <2>2 DEF OpenRowsWereOn
  <1>5. QED
    BY <1>2, <1>3, <1>4, RowSteps

-----------------------------------------------------------------------------
(* The inductive invariant and what follows from it. *)

\* It holds when the tables are empty and nothing is in flight.
LEMMA InitInv == Init => IInv
  <1> SUFFICES ASSUME Init PROVE IInv
    OBVIOUS
  <1>1. TypeOK
    BY InitType
  <1>2. DOMAIN rows = {} /\ DOMAIN rules = {}
    BY NothingType DEF Init
  <1>3. ASSUME NEW p \in Passes
        PROVE  pass[p].at = 0 /\ DOMAIN pass[p].since = {} /\ DOMAIN pass[p].batch = {}
    BY NothingType DEF Init, IdlePass
  <1>4. ASSUME NEW m \in Markers PROVE mark[m].step = "idle"
    BY DEF Init, IdleMark
  <1>5. ASSUME NEW e \in Editors PROVE edit[e].step = "idle"
    BY DEF Init, IdleEdit
  <1>6. ActiveReminders = {} /\ now = 0
    BY DEF Init, ActiveReminders
  <1>7. NoRowAhead /\ OneVersionPerStart /\ OpenRowsWereOn
    BY <1>2 DEF NoRowAhead, OneVersionPerStart, OpenRowsWereOn
  <1>8. InFlightNotAhead /\ OnSince
    BY <1>3, <1>4, <1>6 DEF InFlightNotAhead, OnSince
  <1>9. NoOrphans /\ InFlightSourced
    BY <1>2, <1>3, <1>4, <1>5 DEF NoOrphans, InFlightSourced
  <1>10. QED
    BY <1>1, <1>7, <1>8, <1>9 DEF IInv

\* And every step keeps it.
LEMMA NextInv == IInv /\ [Next]_vars => IInv'
  <1> SUFFICES ASSUME IInv, [Next]_vars PROVE IInv'
    OBVIOUS
  <1>1. TypeOK'
    BY NextType DEF IInv
  <1>2. NoRowAhead' /\ InFlightNotAhead'
    BY NextNotAhead DEF IInv
  <1>3. NoOrphans' /\ OneVersionPerStart'
    BY NextNoOrphans, NextOneVersion DEF IInv
  <1>4. InFlightSourced'
    BY NextSourced DEF IInv
  <1>5. OnSince' /\ OpenRowsWereOn'
    BY NextOn, NextOpenOn DEF IInv
  <1>6. QED
    BY <1>1, <1>2, <1>3, <1>4, <1>5 DEF IInv

\* Every state the service reaches satisfies the inductive invariant.
THEOREM Invariant == Spec => []IInv
  BY InitInv, NextInv, PTL DEF Spec

\* The tables and every call in flight keep their types.
THEOREM TypeCorrect == Spec => []TypeOK
  <1>1. IInv => TypeOK
    BY DEF IInv
  <1>2. QED
    BY <1>1, Invariant, PTL

\* No pass and no mark, however old its clock, writes a row ahead of the clock.
THEOREM NothingAhead == Spec => []NoRowAhead
  <1>1. IInv => NoRowAhead
    BY DEF IInv
  <1>2. QED
    BY <1>1, Invariant, PTL

\* However saves race, a chore has one version per start.
THEOREM VersionsUnique == Spec => []OneVersionPerStart
  <1>1. IInv => OneVersionPerStart
    BY DEF IInv
  <1>2. QED
    BY <1>1, Invariant, PTL

\* Every row names a version of its own chore that scheduled its instant.
THEOREM RowsExplained == Spec => []RowsWereScheduled
  <1>1. IInv => RowsWereScheduled
    BY DEF IInv, InFlightSourced, Sourced, RowsWereScheduled
  <1>2. QED
    BY <1>1, Invariant, PTL

\* No pause becomes a backlog: an open row is of a minute in which the chore
\* was switched on.
THEOREM PausesStayPauses == Spec => []OpenRowsWereOn
  <1>1. IInv => OpenRowsWereOn
    BY DEF IInv
  <1>2. QED
    BY <1>1, Invariant, PTL

\* What a person recorded is never lost and never reopened.
THEOREM DecisionsKept == Spec => DecisionsStand
  <1>1. TypeOK /\ [Next]_vars =>
           [\A k \in DOMAIN rows :
               rows[k].status \in Closed
                   => k \in DOMAIN rows' /\ rows'[k].status \in Closed]_vars
    BY NextDecisions
  <1>2. QED
    BY <1>1, TypeCorrect, PTL DEF Spec, DecisionsStand

-----------------------------------------------------------------------------
(* The service implements the record. *)

\* Only the minute tick moves the clock, and it writes no row.
LEMMA ClockSteps ==
    ASSUME TypeOK, [Next]_vars
    PROVE  now' = now \/ (Tick /\ rows' = rows)
  BY SwitchSteps DEF Tick, Create, SetActive, SoftDelete

\* The empty tables are the empty record.
LEMMA RecordInit == Init => Record!Init
  <1> SUFFICES ASSUME Init PROVE Record!Init
    OBVIOUS
  <1>1. DOMAIN rows = {}
    BY NothingType DEF Init
  <1>2. QED
    BY <1>1 DEF Init, Record!Init, recorded, Record!Key, Key, Record!Time, Time

\* A pass opens what had no row, a mark decides one entry, an amendment
\* withdraws open ones, and nothing else touches the record.
LEMMA RecordNext ==
    ASSUME IInv, [Next]_vars
    PROVE  [Record!Next]_Record!vars
  <1> USE DEF Record!Key, Key, Record!Time, Time
  <1>1. TypeOK /\ now \in Nat /\ DOMAIN rows \subseteq Key /\ DOMAIN rows' \subseteq Key
    BY NextType DEF IInv, TypeOK
  <1>2. CASE rows' = rows /\ now' = now
    BY <1>2 DEF recorded, Record!vars
  <1>3. CASE Tick /\ rows' = rows
    <2>1. now' = now + 1 /\ now' \in Time /\ recorded' = recorded
      BY <1>1, <1>3, NextType DEF Tick, recorded, TypeOK
    <2>2. Record!Tick
      BY <2>1 DEF Record!Tick
    <2>3. QED
      BY <2>2 DEF Record!Next
  <1>4. ASSUME NEW p \in Passes, PassWrite(p) PROVE Record!Next
    <2> DEFINE S == DOMAIN rows' \ DOMAIN rows
    <2>1. now' = now
      BY <1>4 DEF PassWrite
    <2>2. S \in SUBSET Key /\ \A k \in S : k[2] <= now /\ recorded[k] = "none"
      BY <1>1, <1>4, PassWriteRows DEF recorded, IInv, InFlightNotAhead
    <2>3. recorded' = [k \in Key |-> IF k \in S THEN "pending" ELSE recorded[k]]
      BY <1>1, <1>4, PassWriteRows DEF recorded
    <2>4. Record!Open(S)
      BY <2>1, <2>2, <2>3 DEF Record!Open
    <2>5. QED
      BY <2>2, <2>4 DEF Record!Next
  <1>5. ASSUME NEW m \in Markers, MarkWrite(m) PROVE Record!Next
    <2> DEFINE k == mark[m].key
               answer == mark[m].status
    <2>1. k \in Key /\ answer \in Record!Answer /\ k[2] <= now /\ now' = now
      BY <1>1, <1>5, MarkTypes
         DEF MarkWrite, IInv, InFlightNotAhead, Record!Answer, Closed
    <2>2. recorded' = [recorded EXCEPT ![k] = answer]
      BY <1>1, <1>5, <2>1, MarkWriteRows DEF recorded
    <2>3. Record!Decide(k, answer)
      BY <2>1, <2>2 DEF Record!Decide
    <2>4. QED
      BY <2>1, <2>3 DEF Record!Next
  <1>6. CASE Withdraws
    <2> DEFINE S == DOMAIN rows \ DOMAIN rows'
    <2>1. S \in SUBSET Key /\ \A k \in S : recorded[k] = "pending"
      BY <1>1, <1>6 DEF Withdraws, recorded
    <2>2. recorded' = [k \in Key |-> IF k \in S THEN "none" ELSE recorded[k]]
      BY <1>1, <1>6 DEF Withdraws, recorded
    <2>3. Record!Withdraw(S)
      BY <1>6, <2>1, <2>2 DEF Withdraws, Record!Withdraw
    <2>4. QED
      BY <2>1, <2>3 DEF Record!Next
  <1>7. QED
    BY <1>1, <1>2, <1>3, <1>4, <1>5, <1>6, RowSteps, ClockSteps

\* Passes, marks and edits in any interleaving, with failures and restarts,
\* are behaviours of the record.
THEOREM Implements == Spec => ImplementsRecord
  <1>1. Init => Record!Init
    BY RecordInit
  <1>2. IInv /\ [Next]_vars => [Record!Next]_Record!vars
    BY RecordNext
  <1>3. QED
    BY <1>1, <1>2, Invariant, PTL DEF Spec, ImplementsRecord, Record!Spec

=============================================================================
