SPECIFICATION Spec
CONSTANTS
    r1 = r1
    r2 = r2
    s1 = s1
    s2 = s2
    p1 = p1
    p2 = p2
    pupil = pupil
    term = term
    reg = reg
    check = check
    visit = visit
    filled = filled
    blank = blank
    None = None
    Blank = blank
    Requests = {r1, r2}
    Sessions = {s1, s2}
    EntryIds = {1, 2, 3}
    Respondents = {p1}
    Records = {pupil}
    Drafts <- NoDrafts
    Staged <- NothingStaged
    LastStaged = 0
    Registered = {}
    Periods = {term}
    Steps = {reg, visit}
    Registration = {reg}
    Repeatable = {visit}
    Keyed = {}
    Scope <- MCScope
    MinOf <- MCMin
    MaxOf <- MCMax
    Answers = {filled}
    MaxStaged = 1
    Quota = 2
    Events = {"queue_error", "crash"}
    Calls = {"open", "save", "delete", "reset", "submit"}
INVARIANTS
    TypeOK
    OneOpenDraft
    EntryFiledOnce
    NothingLeftBehind
    StagedBounded
SYMMETRY MCSymmetry
CHECK_DEADLOCK FALSE
