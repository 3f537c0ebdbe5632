-------------------------- MODULE MCDriverLifecycle --------------------------
(* DriverLifecycle with the interrupts and users that meet in pairs.       *)
EXTENDS DriverLifecycle

Scene(who, commands, failures) ==
    [who |-> who, commands |-> commands, failures |-> failures]

MCScenes ==
    {Scene({"u1", "u2"}, {"SM_DMA_NORMAL"}, 0),
     Scene({"irqSpi", "u1"}, {"SM_DMA_SENSOR", "SM_DMA_SINGLE", "SM_FPGA_RESET"}, 0),
     Scene({"irqSpi", "irqTimer"}, {}, 1),
     Scene({"u1"}, {"SM_DMA_NORMAL", "SM_RAMDISK_CONFIG", "SM_PRIMARY_SPI"}, 0),
     Scene({"u1"}, {"SM_RAMDISK_CONFIG"}, 1)}
=============================================================================
