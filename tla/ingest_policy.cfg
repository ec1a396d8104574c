SPECIFICATION FairSpec
CONSTANTS
    r1 = r1
    r2 = r2
    r3 = r3
    anna = anna
    bert = bert
    Requests = {r1, r2}
    Respondents = {anna, bert}
    RespondentOf <- MCRespondentOf
    SignedIn = {}
    AllowMultiple = FALSE
    MonthlyMax = 2
    FormCap = 2
    PriorRows = 1
    Months = 1
    Events = {"store_error", "owner_edit", "crash"}
INVARIANT OneAnonymousResponse
PROPERTY DeletedFormLeavesCache
CHECK_DEADLOCK FALSE
