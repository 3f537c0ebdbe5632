\* One configuration, another program that uses the disk once, failures anywhere.
CONSTANTS
    Users = {"app", "driver", "tool"}
    Pages = 2
    PageSectors = 4
    FreeBatch = 1
    Amount = 2
    Contents = {"zeros", "engine", "BMI160_0", "BMI160_1", "ADXL345"}
    Zero = "zeros"
    NoPage = NoPage
    MaxIo <- MCMaxIo
    AllocMayFail = TRUE
    Tables <- MCTables
    Requests <- MCRequests
    MaxSends = 1
    OpenMayFail = TRUE
    WriteMayFail = TRUE
SPECIFICATION Spec
INVARIANTS TypeOK NoBugOn NothingLeaks ConfigArrives
PROPERTIES ImplementsSectorStore
\* The module is unloaded in the end.
CHECK_DEADLOCK FALSE
