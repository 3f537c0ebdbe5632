\* Interrupts at any time, transfers that fail, a frame that brings data back.
CONSTANTS
    Replies = 1
    Spaced = FALSE
    QuietConfig = FALSE
    SpiMayFail = TRUE
    MaxRounds = 1
    MaxFrames = 1
    MaxSamples = 1
SPECIFICATION Spec
INVARIANTS LockIsForOneTransfer BufferHoldsOnlyUnread SampleIsSignalled
PROPERTIES TransferReleasesReader
\* The FPGA may fall silent and the application stop reading.
CHECK_DEADLOCK FALSE
