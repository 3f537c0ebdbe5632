----------------------------- MODULE ConfigPath ------------------------------
(***************************************************************************)
(* How the devices' configuration travels: RamDisk.cpp of the application  *)
(* assembles one record per device and writes each to a sector of its own  *)
(* of /dev/IceNETDisk0, through the page cache; the driver's ramAxis.c     *)
(* maps the sectors of the block device (module RamDisk) and concatenates  *)
(* them into the buffer of the next DMA transfer.  A record is the number  *)
(* of its device: what its bytes say is constant, how many they are is not.*)
(* The page cache is external: write() puts a sector there, and a device   *)
(* is written back when its last user closes it.                           *)
(***************************************************************************)
EXTENDS RamDisk, Integers

CONSTANTS
    Tables,         \* numbers of registers of the devices, one record per table of devices
    Requests,       \* what somebody else asks of the device
    MaxSends,       \* bound: configurations sent
    OpenMayFail,    \* TRUE: the application may not be allowed to open the device
    WriteMayFail    \* TRUE: write() may fail

VARIABLES
    table,      \* m_devices: registers of each device
    app,        \* where sendConfig is
    configs,    \* m_deviceConfigs: devices of the records, oldest first
    next,       \* loop variable of sendConfig
    sends,      \* number of configurations sent
    cache,      \* page cache of device 0
    dirty,      \* its pages that are to be written back
    command,    \* SM_RAMDISK_CONFIG is posted
    driver,     \* where prepareRamDiskTransfer is
    sector,     \* its current sector
    mapped,     \* sectors whose sectorAddress is not NULL
    depth,      \* kmap_atomic calls of the transfer that are not undone yet
    rxData, configBytesAmount, payloadBytes, payloadReady,  \* ramAxis
    meddled     \* history: the last configuration was not simply sent

appVars    == <<table, app, configs, next, sends>>
cacheVars  == <<cache, dirty>>
axisVars   == <<rxData, configBytesAmount, payloadBytes, payloadReady>>
driverVars == <<command, driver, sector, mapped, depth, axisVars>>
vars == <<brdVars, appVars, cacheVars, driverVars, meddled>>

\* ramSectorType: the engine's header, then the devices'.
SECTOR_ENGINE == 0
SECTOR_AMOUNT == 4
Devices == <<"BMI160_0", "BMI160_1", "ADXL345">>
DMA_BUFFER_ALLOCATION_SIZE == 128

\* A table says of each record how many registers it has; those of the devices
\* fit the buffer of the DMA transfer.
\* What the block layer asks for has a size; the segments of a read or a write
\* lie on one page each (bio_for_each_segment), a discard has no data.
ASSUME ConfigAssumption ==
    /\ {"app", "driver", "tool"} \subseteq Users
    /\ {"engine", "BMI160_0", "BMI160_1", "ADXL345"} \subseteq Contents \ {Zero}
    /\ SECTOR_AMOUNT <= Capacity
    /\ \A t \in Tables :
        /\ t \in [Contents \ {Zero, "engine"} -> Nat]
        /\ 4 + 3 * 5 + 2 * (t.BMI160_0 + t.BMI160_1 + t.ADXL345) <= DMA_BUFFER_ALLOCATION_SIZE
    /\ \A r \in Requests :
        /\ r.op \in {"read", "write", "discard"}
        /\ r.sector \in Nat /\ r.segs # <<>>
        /\ r.segs \in Seq(IF r.op = "discard" THEN Nat \ {0} ELSE 1 .. PageSectors)
        /\ r.data \in Seq(Contents)
        /\ Len(r.data) = IF r.op = "write" THEN Sectors(r.segs) ELSE 0
    /\ MaxSends \in Nat /\ OpenMayFail \in BOOLEAN /\ WriteMayFail \in BOOLEAN

Init ==
    /\ BrdInit
    /\ table \in Tables
    /\ app = "idle" /\ configs = <<>> /\ next = 0 /\ sends = 0
    /\ cache = [p \in 0 .. Pages - 1 |-> NoPage] /\ dirty = {}
    /\ command = FALSE /\ driver = "idle" /\ sector = 0 /\ mapped = {} /\ depth = 0
    /\ rxData = <<>> /\ configBytesAmount = 0 /\ payloadBytes = 0 /\ payloadReady = FALSE
    /\ meddled = FALSE

-----------------------------------------------------------------------------
(* Sizes.                                                                  *)

\* sizeof(DeviceConfigType) + registers and values + checksum, in a uint8_t.
DeviceSize(ops) == (4 + 2 * ops + 1) % 256

HEADER_SIZE == 4

\* What byte 0 of a sector says of its length; a sector of zeros has none.
SizeByte(content) ==
    CASE content = Zero   -> 0
      [] content = "engine" -> HEADER_SIZE
      [] OTHER            -> DeviceSize(table[content])

\* Mutant: the number is kept in an int.
PayloadWide(bytes) == bytes - 4 - 5 * (SECTOR_AMOUNT - 1)

\* ramAxis.payloadBytes += bytes - 4 - 5 * (SECTOR_AMOUNT - 1), eight bits wide.
Payload(bytes) == (bytes - 4 - 5 * (SECTOR_AMOUNT - 1)) % 256

-----------------------------------------------------------------------------
(* The page cache (external).                                              *)

\* A sector is written to its page, which is read first if it is not cached.
PutInCache(s, content) ==
    LET p == PageOf(s)
        old == IF cache[p] # NoPage THEN cache[p] ELSE IF tree[p] # NoPage THEN tree[p] ELSE ZeroPage
    IN /\ cache' = [cache EXCEPT ![p] = [old EXCEPT ![(s % PageSectors) + 1] = content]]
       /\ dirty' = dirty \cup {p}

\* The last user of a device writes its dirty pages back before he closes it ...
SyncBeforeClose(u) ==
    /\ Openers = 1 /\ dirty # {}
    /\ LET p == Min(dirty)
       IN /\ brd_make_request(u, "write", p * PageSectors, <<PageSectors>>, cache[p])
          /\ dirty' = dirty \ {p}
    /\ UNCHANGED <<appVars, cache, driverVars, meddled>>

\* ... and the cache goes with him.
CloseCached(u) ==
    /\ Close(u)
    /\ Openers = 1 => dirty = {}
    /\ cache' = IF Openers = 1 THEN [p \in DOMAIN cache |-> NoPage] ELSE cache
    /\ UNCHANGED dirty

-----------------------------------------------------------------------------
(* The application: DroneCtrl::sendFpgaConfigToRamDisk, then the command.  *)

\* assembleConfig appends a record per device; openDEV's result is ignored.
SendOpen ==
    /\ app = "idle" /\ sends < MaxSends
    /\ life \in {"live", "allocating"}
    /\ configs' = configs \o Devices
    /\ sends' = sends + 1
    /\ \/ /\ Open("app")
          /\ app' = "engine"
          /\ meddled' = opened["tool"]
       \/ /\ OpenMayFail
          /\ app' = "unopened"
          /\ meddled' = TRUE
          /\ UNCHANGED brdVars
    /\ next' = 0
    /\ UNCHANGED <<table, cacheVars, driverVars>>

\* Writing to -1 fails: sendConfig returns, its records stay for the next time.
SendUnopened ==
    /\ app = "unopened"
    /\ app' = "command"
    /\ UNCHANGED <<brdVars, table, configs, next, sends, cacheVars, driverVars, meddled>>

SendEngine ==
    /\ app = "engine"
    /\ PutInCache(SECTOR_ENGINE, "engine")
    /\ app' = "devices"
    /\ UNCHANGED <<brdVars, table, configs, next, sends, driverVars, meddled>>

SendEngineFails ==
    /\ WriteMayFail /\ app = "engine"
    /\ app' = "close"
    /\ meddled' = TRUE
    /\ UNCHANGED <<brdVars, table, configs, next, sends, cacheVars, driverVars>>

\* Mutant: each record goes where the one before it went.
DeviceSectorOff(i) == i

\* lseek(SECTOR_SIZE * (i + 1)): the engine has sector 0.
DeviceSector(i) == i + 1

\* A record per sector; what lies past the device's end is refused like a failure.
SendDevice ==
    /\ app = "devices" /\ next < Len(configs)
    /\ DeviceSector(next) < Capacity
    /\ PutInCache(DeviceSector(next), configs[next + 1])
    /\ next' = next + 1
    /\ UNCHANGED <<brdVars, table, app, configs, sends, driverVars, meddled>>

\* All records are freed, whether one of them failed or all are written.
SendDeviceFails ==
    /\ app = "devices" /\ next < Len(configs)
    /\ WriteMayFail \/ DeviceSector(next) >= Capacity
    /\ app' = "close" /\ configs' = <<>>
    /\ meddled' = TRUE
    /\ UNCHANGED <<brdVars, table, next, sends, cacheVars, driverVars>>

SendAll ==
    /\ app = "devices" /\ next = Len(configs)
    /\ app' = "close" /\ configs' = <<>>
    /\ UNCHANGED <<brdVars, table, next, sends, cacheVars, driverVars, meddled>>

\* Another user who has the device open keeps what was written in the cache.
SendClose ==
    /\ app = "close"
    /\ CloseCached("app")
    /\ app' = "command"
    /\ meddled' = (meddled \/ Openers > 1)
    /\ UNCHANGED <<table, configs, next, sends, driverVars>>

\* The result of sendConfig is ignored: CMD_RAMDISK_CONFIG follows in any case.
SendCommand ==
    /\ app = "command"
    /\ app' = "idle"
    /\ command' = TRUE
    /\ UNCHANGED <<brdVars, table, configs, next, sends, cacheVars, driver, sector, mapped,
                   depth, axisVars, meddled>>

-----------------------------------------------------------------------------
(* The driver: prepareRamDiskTransfer, run by the state machine thread.    *)

ToDriver(at, s) == driver' = at /\ sector' = s

\* The sectors are gone through four at a time, three times over.
NextSector(at, then) ==
    IF sector + 1 < SECTOR_AMOUNT THEN ToDriver(at, sector + 1) ELSE ToDriver(then, 0)

Prepare ==
    /\ driver = "idle" /\ command
    /\ life = "live"
    /\ command' = FALSE
    /\ ToDriver("get", 0)
    /\ depth' = 0
    /\ UNCHANGED <<brdVars, appVars, cacheVars, mapped, axisVars, meddled>>

\* get_brd_device_by_name opens the device ...
GetDevice ==
    /\ driver = "get"
    /\ Open("driver")
    /\ ToDriver("put", sector)
    /\ UNCHANGED <<appVars, cacheVars, command, mapped, depth, axisVars, meddled>>

\* ... and closes it again before the page is used.
PutDevice ==
    /\ driver = "put"
    /\ CloseCached("driver")
    /\ ToDriver("lookup", sector)
    /\ UNCHANGED <<appVars, command, mapped, depth, axisVars, meddled>>

\* ramDiskGetPointer's kmap_atomic, or NULL for a page nobody has written to.
ramDiskGetPointer ==
    /\ driver = "lookup"
    /\ LET there == tree[PageOf(sector)] # NoPage
       IN /\ mapped' = IF there THEN mapped \cup {sector} ELSE mapped \ {sector}
          /\ depth' = IF there THEN depth + 1 ELSE depth
    /\ NextSector("get", "prepare")
    /\ UNCHANGED <<brdVars, appVars, cacheVars, command, axisVars, meddled>>

\* begin: the first sector starts a new transfer.
BytesBefore == IF sector = SECTOR_ENGINE THEN 0 ELSE configBytesAmount

\* A sector without a pointer is left out, its begin and end with it.
prepareTransfer ==
    /\ driver = "prepare"
    /\ IF sector \notin mapped THEN UNCHANGED axisVars
       ELSE LET content == IF tree[PageOf(sector)] = NoPage THEN Zero ELSE OnPage(tree, sector)
                bytes == (BytesBefore + SizeByte(content)) % 256
                end == sector = SECTOR_AMOUNT - 1
            IN /\ configBytesAmount' = bytes
               /\ rxData' = (IF BytesBefore = 0 THEN <<>> ELSE rxData)
                            \o (IF content = Zero THEN <<>> ELSE <<content>>)
               /\ payloadBytes' = IF end THEN Payload(payloadBytes + bytes)
                                  ELSE IF sector = SECTOR_ENGINE THEN 0 ELSE payloadBytes
               /\ payloadReady' = (end \/ (sector # SECTOR_ENGINE /\ payloadReady))
    /\ NextSector("prepare", "destroy")
    /\ UNCHANGED <<brdVars, appVars, cacheVars, command, mapped, depth, meddled>>

\* ramDiskReleasePointer is called for every sector, mapped or not.
Released == depth - 1

destroyTransfer ==
    /\ driver = "destroy"
    /\ depth' = Released
    /\ NextSector("destroy", "idle")
    /\ UNCHANGED <<brdVars, appVars, cacheVars, command, mapped, axisVars, meddled>>

Driver == Prepare \/ GetDevice \/ PutDevice \/ ramDiskGetPointer \/ prepareTransfer \/ destroyTransfer

-----------------------------------------------------------------------------
(* Somebody else with the device open, by direct I/O.                      *)

Meddle ==
    \/ /\ Open("tool")
       /\ UNCHANGED <<cacheVars, meddled>>
    \/ /\ CloseCached("tool")
       /\ UNCHANGED meddled
    \/ \E r \in Requests :
        /\ brd_make_request("tool", r.op, r.sector, r.segs, r.data)
        /\ meddled' = (meddled \/ r.op # "read")
        /\ UNCHANGED cacheVars
    \/ /\ brd_ioctl("tool")     \* kill_bdev: the cache goes first
       /\ cache' = [p \in DOMAIN cache |-> NoPage] /\ dirty' = {}
       /\ meddled' = TRUE

\* A write that finds no page is reported to nobody.
RequestStep(u) ==
    /\ IoStep(u)
    /\ meddled' = (meddled \/ (io[u].op = "write" /\ io'[u] = NoIo /\ io[u].at # "done"))
    /\ UNCHANGED <<appVars, cacheVars, driverVars>>

Rest == UNCHANGED <<appVars, cacheVars, driverVars, meddled>>

Next ==
    \/ (Lifecycle \/ brd_probe(Amount)) /\ Rest
    \/ Unload /\ driver = "idle" /\ Rest
    \/ SendOpen \/ SendUnopened \/ SendEngine \/ SendEngineFails \/ SendDevice \/ SendDeviceFails
    \/ SendAll \/ SendClose \/ SendCommand
    \/ Driver
    \/ Meddle /\ UNCHANGED <<appVars, driverVars>>
    \/ \E u \in Users : RequestStep(u) \/ SyncBeforeClose(u)

Spec == Init /\ [][Next]_vars

-----------------------------------------------------------------------------
(* Properties.                                                             *)

Registers == table.BMI160_0 + table.BMI160_1 + table.ADXL345

\* Every variable keeps its type.
TypeOK ==
    /\ BrdTypeOK
    /\ table \in Tables
    /\ app \in {"idle", "unopened", "engine", "devices", "close", "command"}
    /\ configs \in Seq(Contents) /\ sends \in 0 .. MaxSends
    /\ next \in 0 .. Len(Devices) * sends
    /\ cache \in [0 .. Pages - 1 -> [1 .. PageSectors -> Contents] \cup {NoPage}]
    /\ dirty \subseteq 0 .. Pages - 1
    /\ command \in BOOLEAN
    /\ driver \in {"idle", "get", "put", "lookup", "prepare", "destroy"}
    /\ sector \in 0 .. SECTOR_AMOUNT - 1 /\ mapped \subseteq 0 .. SECTOR_AMOUNT - 1
    /\ depth \in Int /\ rxData \in Seq(Contents)
    /\ configBytesAmount \in 0 .. 255 /\ payloadBytes \in 0 .. 255 /\ payloadReady \in BOOLEAN
    /\ meddled \in BOOLEAN

\* A configuration that was sent while nobody else used the disk, and for which
\* nothing failed, is the one the driver transfers: the header and the records
\* of all devices in their order, with the number of registers and values
\* that isConfDone will compare against; and its pointers are all given back.
ConfigArrives ==
    driver = "idle" /\ payloadReady /\ ~command /\ app = "idle" /\ ~meddled =>
        /\ rxData = <<"engine">> \o Devices
        /\ configBytesAmount = 4 + 2 * Registers + 3 * 5
        /\ payloadBytes = 2 * Registers
        /\ depth = 0
=============================================================================
