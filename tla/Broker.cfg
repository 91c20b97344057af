SPECIFICATION FairSpec
CONSTANTS
    Jobs = {j1, j2, j3}
    Subscribers = {s1, s2}
    AdhocCount = 1
    Accesses = {"Blocking", "NoBlocking"}
    OverlapMayMiss = TRUE
    Nobody = Nobody
INVARIANTS TypeOK AdhocConserved FreeSessClean ReadFindsContent WaiterCovered
PROPERTIES AskedIsReplied ImplementsBrokerSpec
