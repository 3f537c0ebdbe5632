\* Two configurations and a sample; the FPGA waits for a transfer to end before
\* the next interrupt and no sample falls into a configuration.
CONSTANTS
    Replies = 2
    Spaced = TRUE
    QuietConfig = TRUE
    SpiMayFail = FALSE
    MaxRounds = 2
    MaxFrames = 0
    MaxSamples = 1
SPECIFICATION Spec
INVARIANTS ConfigDoneMeansAnswered AnsweredMeansConfigDone
PROPERTIES LockIsReleased
\* The FPGA may fall silent and the application stop reading.
CHECK_DEADLOCK FALSE
