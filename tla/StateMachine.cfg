\* Three commands, written at any time.
CONSTANTS
    Commands = {"SM_DMA_NORMAL", "SM_RAMDISK_CONFIG", "SM_PRIMARY_SPI"}
    MaxPosts = 4
    Paced = FALSE
SPECIFICATION Spec
INVARIANTS SleepsOnlyWhenIdle
PROPERTIES ImplementsCommandService WindsDown StopsWhenAsked
\* The thread ends when the module is unloaded.
CHECK_DEADLOCK FALSE
