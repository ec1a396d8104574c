SPECIFICATION Spec
CONSTANTS
    r1 = r1
    r2 = r2
    s1 = s1
    s2 = s2
    p1 = p1
    p2 = p2
    pupil = pupil
    term = term
    reg = reg
    check = check
    visit = visit
    filled = filled
    blank = blank
    None = None
    Blank = blank
    Requests = {r1, r2}
    Sessions = {s1, s2}
    EntryIds = {1, 2, 3, 4, 5}
    Respondents = {p1, p2}
    Records = {pupil}
    Drafts <- TwoDrafts
    Staged <- SomeStaged
    LastStaged = 5
    Registered = {pupil}
    Periods = {term}
    Steps = {check, visit}
    Registration = {}
    Repeatable = {visit}
    Keyed = {}
    Scope <- MCScope
    MinOf <- MCMin
    MaxOf <- MCMax
    Answers = {filled}
    MaxStaged = 3
    Quota = 4
    Events = {}
    Calls = {"submit", "moderate"}
INVARIANTS
    OccurrenceUnique
    MaxEntriesRespected
    MonthBounded
SYMMETRY RequestSymmetry
CHECK_DEADLOCK FALSE
