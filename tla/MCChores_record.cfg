SPECIFICATION Spec
CONSTANTS
    c1 = c1
    r1 = r1
    r2 = r2
    ticker = ticker
    reader = reader
    m1 = m1
    e1 = e1
    Chores = {c1}
    RuleIds = {r1}
    Texts <- TwoTexts
    MaxTime = 2
    BackfillWindow = 1
    RepairWindow = 1
    Ticker = ticker
    Readers = {}
    Markers = {m1}
    Editors = {}
INVARIANTS
    TypeOK
    NoRowAhead
    OpenRowsWereOn
PROPERTIES
    DecisionsStand
    ImplementsRecord
