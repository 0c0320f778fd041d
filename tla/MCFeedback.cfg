SPECIFICATION Spec
CONSTANTS
    Users = {u1}
    Prompts = {p1, p2}
    Forms = {"v1", "v2", "bad"}
    FormRows <- MCFormRows
    Tabs = {t1, t2}
    Asked = {"r1", "r2"}
    Scores = {2, 3}
    AnswerLists <- MCAnswerLists
    Retention = 0
    CleanupInterval = 1
    BatchSize = 1
    None = None
    MaxTime = 2
INVARIANTS TypeOK AnswersFit CooldownKept
PROPERTIES DeletedOnlyOld ImplementsLedger
SYMMETRY Symmetry
