SPECIFICATION FairSpec
CONSTANTS
    Networks <- SomeNetworks
    SplitStart = 100
    Epochs = 2
    MiniBatches = 3
    Clients = {c1}
    Scripts <- ResetsBeforeRun
    NanLoss = TRUE
INVARIANTS TypeOK RefCountExact DepRefExact ReplyMeansTrained DataReady
PROPERTIES RunAnswered ImplementsPlanSpec
CHECK_DEADLOCK FALSE
