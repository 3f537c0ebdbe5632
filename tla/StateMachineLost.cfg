\* One command at a time is enough: the thread's own SM_DONE overwrites it.
CONSTANTS
    Commands = {"SM_DMA_NORMAL"}
    MaxPosts = 2
    Paced = FALSE
SPECIFICATION Spec
PROPERTIES EveryCommandRuns
\* The thread ends when the module is unloaded.
CHECK_DEADLOCK FALSE
