\* Two addresses, two interfaces, one user, two failures at most.
CONSTANTS
    Users = {"u1"}
    Devices = {"MAIN_COMMANDER"}
    Interfaces = {"wlp2s0", "lo"}
    Packets <- MCPackets
    AllowedSender = 1
    LastHost = 2
    Scenes <- MCScenes
SPECIFICATION Spec
INVARIANTS HostListIsExact PacketsAreHandledRight UnloadsUnderAScan NothingIsLeftBehind
PROPERTIES AskedIsScanned
\* The module is unloaded in the end.
CHECK_DEADLOCK FALSE
