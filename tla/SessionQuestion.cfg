SPECIFICATION Spec
CONSTANTS
    t1 = t1
    a1 = a1
    o1 = o1
    c1 = c1
    d1 = d1
    r1 = r1
    n1 = n1
    Entries = {t1, a1, c1, d1}
    Tasks = {}
    None = None
    ClassOf <- MCClassOf
    TaskOf <- MCNoTask
    Budget <- MCQuestion
    TickAnywhere = FALSE
CHECK_DEADLOCK FALSE
PROPERTIES
    QuestionHolds
    AnswerLeads
