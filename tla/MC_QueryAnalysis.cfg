CONSTANTS
    r1 = r1  r2 = r2  r3 = r3
    single = single  multi = multi  anon = anon  bad = bad  ws = ws  absent = absent
    A = A  B = B  none = none
    Requests <- MCRequests
    Queries <- MCQueries
    Absent = absent
    Blank = {absent, ws}
    OpNames = {A, B, none}
    NoName = none
    Documents <- MCDocuments
    Limit = 2
SPECIFICATION Spec
SYMMETRY Symmetry
INVARIANTS
    TypeOK
    CacheHoldsParseResults
    ResponseAgreesWithParse
CHECK_DEADLOCK FALSE
