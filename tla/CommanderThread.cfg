\* The GUI asks at any time, writes fail, every read is answered in the end.
CONSTANTS
    Requests = {"IO_COM_IDLE", "IO_COM_READ_ONLY", "IO_COM_GET_CALIBRATION", "IO_COM_SET_CALIBRATION"}
    MaxRequests = 3
    WriteMayFail = TRUE
    KernelAnswers = TRUE
SPECIFICATION Spec
INVARIANTS CalibrationIsWhole
PROPERTIES ImplementsCommandService EveryFrameIsWritten ShutdownEnds
\* The threads end when the application deletes its DroneCtrl.
CHECK_DEADLOCK FALSE
