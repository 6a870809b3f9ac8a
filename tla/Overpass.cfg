\* Twenty-one queries and six XAPI requests over 162 maps under seven settings, and
\* the texts one token away from a query over one map.
SPECIFICATION Spec
CONSTANTS
    Words <- MCWords
    Numbers <- MCNumbers
    Quoted = {"'v'"}
    Value <- MCValue
    Lowest = 0
    Highest = 2
    Nodes = {1, 2, 3}
    Ways = {4, 5}
    Relations = {6, 7, 8}
    Accounts <- MCAccounts
    Requests <- MCRequests
    Worlds <- MCWorlds
INVARIANTS
    TypeOK
    AnswersExactly
    GeometryComplete
    DrawnWhole
    NothingElseIgnoredAtFirst
\* A query ends.
CHECK_DEADLOCK FALSE
