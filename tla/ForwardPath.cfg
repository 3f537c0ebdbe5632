\* Two writers, each write after the transfer of the one before.
CONSTANTS
    Writers = {"w1", "w2"}
    Kinds = {"SM_PRIMARY_SPI", "SM_DMA_NORMAL", "SM_RAMDISK_CONFIG", "SM_RAMDISK_CLEAR"}
    MaxPosts = 4
    Paced = TRUE
    SpiMayFail = TRUE
SPECIFICATION Spec
INVARIANTS ConfiguredBeforeUse
PROPERTIES ImplementsFpgaLink EveryCommandRuns
\* The thread ends when the module is unloaded.
CHECK_DEADLOCK FALSE
