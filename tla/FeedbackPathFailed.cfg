\* One failed transfer is enough: the lock stays held.
CONSTANTS
    Replies = 1
    Spaced = FALSE
    QuietConfig = FALSE
    SpiMayFail = TRUE
    MaxRounds = 1
    MaxFrames = 0
    MaxSamples = 1
SPECIFICATION Spec
PROPERTIES LockIsReleased
\* The FPGA may fall silent and the application stop reading.
CHECK_DEADLOCK FALSE
