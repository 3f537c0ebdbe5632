------------------------------- MODULE RamDisk -------------------------------
(***************************************************************************)
(* The block device of firmware/arm/src/ramDisk.c: pages that come into    *)
(* being when a sector of theirs is first written, requests that walk      *)
(* their segments page by page without a lock, BLKFLSBUF that frees all    *)
(* pages, and the devices' own life from ramDiskInit to ramDiskDestroy.    *)
(* A user is one open of the device and one thread that uses it; the block *)
(* layer and the module loader are external.                               *)
(***************************************************************************)
EXTENDS Naturals, Sequences, FiniteSets, FiniteSetsExt

CONSTANTS
    Users,          \* who may open device 0
    Pages,          \* pages of a device
    PageSectors,    \* ICE_PAGE_SECTORS
    FreeBatch,      \* ICE_FREE_BATCH
    Amount,         \* ICE_RAM_DISK_AMOUNT
    Contents,       \* what a sector may hold
    Zero,           \* a sector of zeros
    NoPage,         \* an empty slot of the radix tree
    MaxIo,          \* bound: requests of each user in a behaviour
    AllocMayFail    \* TRUE: pages, queues and disks may be refused

ASSUME RamDiskAssumption ==
    /\ IsFiniteSet(Users) /\ MaxIo \in [Users -> Nat]
    /\ {Pages, PageSectors, FreeBatch, Amount} \subseteq Nat \ {0}
    /\ Zero \in Contents /\ NoPage \notin [1 .. PageSectors -> Contents]
    /\ AllocMayFail \in BOOLEAN

VARIABLES
    life,       \* where the module is between load and unload
    devices,    \* brd_devices: numbers of the devices in the list
    added,      \* numbers given to add_disk and not to del_gendisk
    opened,     \* which users have device 0 open
    tree,       \* brd_pages of device 0
    io,         \* each user's request
    ios         \* number of requests each user has begun

brdVars == <<life, devices, added, opened, tree, io, ios>>

Capacity == Pages * PageSectors
PageOf(sector) == sector \div PageSectors
ZeroPage == [i \in 1 .. PageSectors |-> Zero]
NoIo == [at |-> "idle", op |-> "none", sector |-> 0, segs |-> <<>>, part |-> 1,
         data |-> <<>>, got |-> <<>>]

BrdInit ==
    /\ life = "unloaded"
    /\ devices = {} /\ added = {}
    /\ opened = [u \in Users |-> FALSE]
    /\ tree = [p \in 0 .. Pages - 1 |-> NoPage]
    /\ io = [u \in Users |-> NoIo]
    /\ ios = [u \in Users |-> 0]

ioVars == <<opened, tree, io, ios>>
lifeVars == <<life, devices, added>>

-----------------------------------------------------------------------------
(* ramDiskInit and ramDiskDestroy.                                         *)

register_blkdev ==
    /\ life = "unloaded"
    /\ life' = "allocating"
    /\ UNCHANGED <<devices, added, ioVars>>

\* brd_alloc allocates the device, its queue and its disk; a refusal undoes
\* what it has done itself, and ramDiskInit then undoes the earlier devices.
brd_alloc ==
    /\ life = "allocating"
    /\ Cardinality(devices) < Amount
    /\ devices' = devices \cup {Cardinality(devices)}
    /\ UNCHANGED <<life, added, ioVars>>

\* Mutant: the devices allocated before the refusal stay.
OutFreeForgotten ==
    /\ life = "allocating" /\ AllocMayFail
    /\ Cardinality(devices) < Amount
    /\ life' = "failed"
    /\ UNCHANGED <<devices, added, ioVars>>

OutFree ==
    /\ life = "allocating" /\ AllocMayFail
    /\ Cardinality(devices) < Amount
    /\ devices' = {}
    /\ life' = "failed"
    /\ UNCHANGED <<added, ioVars>>

add_disk ==
    /\ life = "allocating"
    /\ Cardinality(devices) = Amount
    /\ added # devices
    /\ added' = added \cup {Min(devices \ added)}
    /\ UNCHANGED <<life, devices, ioVars>>

blk_register_region ==
    /\ life = "allocating"
    /\ added = 0 .. Amount - 1
    /\ life' = "live"
    /\ UNCHANGED <<devices, added, ioVars>>

\* Opening the node of a device that does not exist makes it, one number at a
\* time under brd_devices_mutex; the loader refuses once unloading has begun.
brd_probe(i) ==
    /\ life = "live"
    /\ i \notin devices
    /\ devices' = devices \cup {i}
    /\ added' = added \cup {i}
    /\ UNCHANGED <<life, ioVars>>

\* brd_free: the pages of device 0 are freed with it.
BrdFree(i) == tree' = IF i = 0 THEN [p \in DOMAIN tree |-> NoPage] ELSE tree

\* The loader unloads a module only while none of its devices is open.
Unload ==
    /\ life = "live"
    /\ \A u \in Users : ~opened[u]
    /\ life' = "going"
    /\ UNCHANGED <<devices, added, ioVars>>

brd_del_one ==
    /\ life = "going"
    /\ devices # {}
    /\ LET i == Min(devices)
       IN devices' = devices \ {i} /\ added' = added \ {i} /\ BrdFree(i)
    /\ UNCHANGED <<life, opened, io, ios>>

unregister_blkdev ==
    /\ life = "going"
    /\ devices = {}
    /\ life' = "gone"
    /\ UNCHANGED <<devices, added, ioVars>>

Lifecycle ==
    \/ register_blkdev \/ brd_alloc \/ OutFree \/ add_disk \/ blk_register_region
    \/ brd_del_one \/ unregister_blkdev

-----------------------------------------------------------------------------
(* Opening, closing and brd_make_request.                                  *)

Flushing == \E u \in Users : io[u].at \in {"flush", "flushed"}

\* An open waits for bd_mutex, which BLKFLSBUF holds.
Open(u) ==
    /\ 0 \in added /\ life \in {"allocating", "live"}
    /\ ~opened[u]
    /\ ~Flushing
    /\ opened' = [opened EXCEPT ![u] = TRUE]
    /\ UNCHANGED <<lifeVars, tree, io, ios>>

Close(u) ==
    /\ opened[u]
    /\ io[u] = NoIo
    /\ ~Flushing
    /\ opened' = [opened EXCEPT ![u] = FALSE]
    /\ UNCHANGED <<lifeVars, tree, io, ios>>

Sectors(segs) == FoldSet(LAMBDA i, sum : segs[i] + sum, 0, DOMAIN segs)

\* A request past the end and a discard of less than whole pages are refused.
Accepted(op, sector, segs) ==
    /\ sector + Sectors(segs) <= Capacity
    /\ op = "discard" => /\ sector % PageSectors = 0
                         /\ Sectors(segs) % PageSectors = 0

\* What a request does first with a segment: a write makes sure of its pages.
FirstStep(op) == CASE op = "write" -> "setup" [] op = "read" -> "copy" [] OTHER -> "zero"

brd_make_request(u, op, sector, segs, data) ==
    /\ opened[u]
    /\ io[u] = NoIo
    /\ ios[u] < MaxIo[u]
    /\ Accepted(op, sector, segs)
    /\ io' = [io EXCEPT ![u] = [NoIo EXCEPT !.at = FirstStep(op), !.op = op, !.sector = sector,
                                            !.segs = segs, !.data = data]]
    /\ ios' = [ios EXCEPT ![u] = @ + 1]
    /\ UNCHANGED <<lifeVars, opened, tree>>

\* copy = min_t(size_t, n, PAGE_SIZE - offset): sectors of the segment that lie
\* on the page of its first sector.
Copy1(r) == Min({Head(r.segs), PageSectors - (r.sector % PageSectors)})
Spans(r) == Copy1(r) < Head(r.segs)

\* Mutant: copy_to_brd_setup forgets that a segment may reach a second page.
SetupOnePage(r) == [r EXCEPT !.at = "copy", !.part = 1]

\* The next page to make sure of, or on to the copy.
NextSetup(r) ==
    IF r.part = 1 /\ Spans(r) THEN [r EXCEPT !.at = "setup", !.part = 2]
    ELSE [r EXCEPT !.at = "copy", !.part = 1]

SetupPage(r) == PageOf(r.sector) + r.part - 1

\* brd_insert_page looks without a lock whether the page is there ...
LookupForWrite(u) ==
    LET r == io[u]
    IN /\ r.at = "setup"
       /\ io' = [io EXCEPT ![u] =
                    IF tree[SetupPage(r)] # NoPage THEN NextSetup(r) ELSE [r EXCEPT !.at = "insert"]]
       /\ UNCHANGED <<lifeVars, opened, tree, ios>>

\* ... and a page that cannot be allocated ends the request.
AllocPageFails(u) ==
    /\ AllocMayFail
    /\ io[u].at = "setup"
    /\ tree[SetupPage(io[u])] = NoPage
    /\ io' = [io EXCEPT ![u] = NoIo]
    /\ UNCHANGED <<lifeVars, opened, tree, ios>>

\* Mutant: the page of the one who comes second replaces the first.
InsertReplaces(u) ==
    LET r == io[u]
    IN /\ r.at = "insert"
       /\ tree' = [tree EXCEPT ![SetupPage(r)] = ZeroPage]
       /\ io' = [io EXCEPT ![u] = NextSetup(r)]
       /\ UNCHANGED <<lifeVars, opened, ios>>

\* Under brd_lock; whoever finds a page inserted meanwhile frees his own.
brd_insert_page(u) ==
    LET r == io[u]
    IN /\ r.at = "insert"
       /\ tree' = [tree EXCEPT ![SetupPage(r)] = IF @ = NoPage THEN ZeroPage ELSE @]
       /\ io' = [io EXCEPT ![u] = NextSetup(r)]
       /\ UNCHANGED <<lifeVars, opened, ios>>

\* n sectors of a segment are done: the rest of it, the next segment or the end.
Advance(r, n) ==
    LET rest == Head(r.segs) - n
        segs == IF rest > 0 THEN <<rest>> \o Tail(r.segs) ELSE Tail(r.segs)
    IN [r EXCEPT !.sector = r.sector + n, !.segs = segs, !.part = 1,
                 !.at = IF segs = <<>> THEN "done" ELSE IF rest > 0 THEN r.at ELSE FirstStep(r.op)]

OnPage(tr, sector) == tr[PageOf(sector)][(sector % PageSectors) + 1]

\* One memcpy of copy_to_brd.
copy_to_brd(u) ==
    LET r == io[u]
        n == Copy1(r)
        p == PageOf(r.sector)
        o == r.sector % PageSectors
    IN /\ r.at = "copy" /\ r.op = "write"
       /\ tree' = [tree EXCEPT ![p] = [i \in 1 .. PageSectors |->
                        IF i \in o + 1 .. o + n THEN r.data[i - o] ELSE @[i]]]
       /\ io' = [io EXCEPT ![u] = [Advance(r, n) EXCEPT !.data = SubSeq(@, n + 1, Len(@))]]
       /\ UNCHANGED <<lifeVars, opened, ios>>

\* One memcpy of copy_from_brd; a page that is not there reads as zeros.
copy_from_brd(u) ==
    LET r == io[u]
        n == Copy1(r)
        At(i) == IF tree[PageOf(r.sector)] = NoPage THEN Zero ELSE OnPage(tree, r.sector + i - 1)
    IN /\ r.at = "copy" /\ r.op = "read"
       /\ io' = [io EXCEPT ![u] = [Advance(r, n) EXCEPT !.got = @ \o [i \in 1 .. n |-> At(i)]]]
       /\ UNCHANGED <<lifeVars, opened, tree, ios>>

DiscardNext(r) ==
    LET left == Sectors(r.segs) - PageSectors
    IN [r EXCEPT !.sector = @ + PageSectors, !.segs = IF left = 0 THEN <<>> ELSE <<left>>,
                 !.at = IF left = 0 THEN "done" ELSE "zero"]

\* discard_from_brd keeps the pages and clears them.
brd_zero_page(u) ==
    LET r == io[u]
        p == PageOf(r.sector)
    IN /\ r.at = "zero"
       /\ tree' = [tree EXCEPT ![p] = IF @ = NoPage THEN NoPage ELSE ZeroPage]
       /\ io' = [io EXCEPT ![u] = DiscardNext(r)]
       /\ UNCHANGED <<lifeVars, opened, ios>>

bio_endio(u) ==
    /\ io[u].at \in {"done", "flushed"}
    /\ io' = [io EXCEPT ![u] = NoIo]
    /\ UNCHANGED <<lifeVars, opened, tree, ios>>

-----------------------------------------------------------------------------
(* BLKFLSBUF: frees every page, for a user who is alone.                   *)

Openers == Cardinality({u \in Users : opened[u]})

brd_ioctl(u) ==
    /\ opened[u] /\ io[u] = NoIo /\ ios[u] < MaxIo[u]
    /\ ~Flushing
    /\ Openers <= 1
    /\ io' = [io EXCEPT ![u] = [NoIo EXCEPT !.at = "flush", !.op = "flush", !.segs = <<Capacity>>]]
    /\ ios' = [ios EXCEPT ![u] = @ + 1]
    /\ UNCHANGED <<lifeVars, opened, tree>>

\* radix_tree_gang_lookup: the lowest pages from the position on, at most a batch.
Batch(pos) ==
    LET there == {p \in DOMAIN tree : p >= pos /\ tree[p] # NoPage}
    IN {p \in there : Cardinality({q \in there : q < p}) < FreeBatch}

brd_free_pages(u) ==
    LET r == io[u]
        batch == Batch(PageOf(r.sector))
        next == IF Cardinality(batch) = FreeBatch THEN (Max(batch) + 1) * PageSectors ELSE Capacity
    IN /\ r.at = "flush"
       /\ tree' = [p \in DOMAIN tree |-> IF p \in batch THEN NoPage ELSE tree[p]]
       /\ io' = [io EXCEPT ![u] = [r EXCEPT !.sector = next, !.segs = <<Capacity - next>>,
                    !.at = IF Cardinality(batch) = FreeBatch THEN "flush" ELSE "flushed"]]
       /\ UNCHANGED <<lifeVars, opened, ios>>

\* Whatever a request under way does next.
IoStep(u) ==
    \/ LookupForWrite(u) \/ AllocPageFails(u) \/ brd_insert_page(u)
    \/ copy_to_brd(u) \/ copy_from_brd(u) \/ brd_zero_page(u) \/ brd_free_pages(u) \/ bio_endio(u)

-----------------------------------------------------------------------------
(* Properties.                                                             *)

\* Every variable keeps its type (the module's state as the code declares it).
BrdTypeOK ==
    /\ life \in {"unloaded", "allocating", "failed", "live", "going", "gone"}
    /\ added \subseteq devices /\ devices \subseteq Nat
    /\ opened \in [Users -> BOOLEAN]
    /\ tree \in [0 .. Pages - 1 -> [1 .. PageSectors -> Contents] \cup {NoPage}]
    /\ \A u \in Users :
        /\ io[u].at \in {"idle", "setup", "insert", "copy", "zero", "flush", "flushed", "done"}
        /\ io[u].sector \in 0 .. Capacity
        /\ io[u].at # "idle" => opened[u]
    /\ \A u \in Users : ios[u] \in 0 .. MaxIo[u]

\* copy_to_brd never meets BUG_ON(!page): the pages of the segment it copies
\* are there, although they were made sure of earlier and without a lock
\* ("brd pages will never be deleted under us").
NoBugOn ==
    \A u \in Users : LET r == io[u] IN
        r.at = "copy" /\ r.op = "write" =>
            \A s \in r.sector .. r.sector + Head(r.segs) - 1 : tree[PageOf(s)] # NoPage

\* Nothing is left when the module is gone or its loading has failed: no
\* device, no page, no request.
NothingLeaks ==
    life \in {"gone", "failed"} =>
        /\ devices = {} /\ added = {}
        /\ \A p \in DOMAIN tree : tree[p] = NoPage
        /\ \A u \in Users : ~opened[u] /\ io[u] = NoIo

\* Requests of several users, the pages that come and go under them included,
\* have the effect of reads and writes of an array of sectors.
Store == INSTANCE SectorStore WITH
    Size <- Capacity,
    disk <- [s \in 0 .. Capacity - 1 |->
                IF tree[PageOf(s)] = NoPage THEN Zero ELSE OnPage(tree, s)],
    task <- [u \in Users |->
                [op |-> io[u].op, next |-> io[u].sector, todo |-> Sectors(io[u].segs),
                 data |-> io[u].data, got |-> io[u].got]]
ImplementsSectorStore == Store!Spec
=============================================================================
