\* Two objects in turn, devices in use or not, memory of any content.
CONSTANTS
    MaxObjects = 2
    OpenMayFail = TRUE
    Memory = {FALSE, TRUE}
SPECIFICATION Spec
INVARIANTS NothingOutlivesTheObject LeavesFpgaReset
PROPERTIES ReachesNormalMode DeleteEnds
\* The user may stop creating objects.
CHECK_DEADLOCK FALSE
