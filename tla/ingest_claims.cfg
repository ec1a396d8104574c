SPECIFICATION Spec
CONSTANTS
    r1 = r1
    r2 = r2
    r3 = r3
    anna = anna
    bert = bert
    Requests = {r1, r2, r3}
    Respondents = {anna, bert}
    RespondentOf <- MCRespondentOf
    SignedIn = {r1, r2}
    AllowMultiple = FALSE
    MonthlyMax = 1
    FormCap = 2
    PriorRows = 1
    Months = 2
    Events = {"counter_expired", "month_rollover", "crash", "moderation"}
INVARIANTS
    TypeOK
    FormCapRespected
    MonthCounterExact
    MonthlyQuotaRespected
    SlotsFollowOutcome
CHECK_DEADLOCK FALSE
