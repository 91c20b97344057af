SPECIFICATION Spec
CONSTANTS
    r = r
    b = b
    n = n
    h = h
    NoJob = NoJob
    Jobs = {b, n}
    Kind <- KindOf
    GpuCount = 1
    JcCount = 2
    DopCount = 1
    Tensors = 2
    MaxPasses = 1
    Spurious = FALSE
INVARIANTS TypeOK ReadyOnce TensorIsAllocated
CHECK_DEADLOCK FALSE
