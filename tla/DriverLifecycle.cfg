\* Two users, one failure at most, every interrupt at every moment.
CONSTANTS
    Users = {"u1", "u2"}
    Devices = {"DEVICE_COMMANDER"}
    Commands = {"SM_DMA_NORMAL", "SM_DMA_SENSOR", "SM_DMA_SINGLE", "SM_RAMDISK_CONFIG",
                "SM_PRIMARY_SPI", "SM_FPGA_RESET"}
    Scenes <- MCScenes
SPECIFICATION Spec
INVARIANTS NothingMissingIsUsed ReleasedOnce ExclusiveOpen
PROPERTIES ConfiguredThenRounds UnloadEnds
\* The module is unloaded in the end.
CHECK_DEADLOCK FALSE
