SPECIFICATION SetupSpec
CONSTANTS Records = {1,2,3,4,5,6,7}
 Entries <- E1
 PageSize = 2 
 MaxPages = 3
 MaxRows = 7
 MaxIds = 4
 BatchSize = 2
 MaxChanges = 2
 InitialLists <- Lists
 Recorded <- Ids
 NoToken = NoToken
INVARIANTS StoredWasAccepted WholeUnlessCut ShiftNeedsCause
PROPERTY FetchEnds
CHECK_DEADLOCK FALSE
