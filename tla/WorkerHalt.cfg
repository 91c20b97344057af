SPECIFICATION Spec
CONSTANTS
    r = r
    b = b
    n = n
    h = h
    NoJob = NoJob
    Jobs = {h, r}
    Kind <- KindOf
    GpuCount = 1
    JcCount = 2
    DopCount = 1
    Tensors = 1
    MaxPasses = 0
    Spurious = TRUE
INVARIANTS JobHandledOnce
CHECK_DEADLOCK FALSE
