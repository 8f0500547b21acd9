# EgGS: a TLA+ model of the kernel's block layer, file system and console

EgGS is a small kernel in the style of Linux 0.11. One context, *main*, boots
the machine, mounts a Minix file system and then loops for ever; there is no
scheduler (every `sleep_on` and `wake_up` is commented out), so whoever waits,
spins. What makes the code hard is the second context: the handler of interrupt
14, which finishes disk commands, starts the next ones and prints its errors
while main is anywhere in `blk/`, `fs/` or `scrn.c`; and the disk, which may
fail at any sector.

## Inventory

| Component | State | Operations | Talks to | What makes it correct |
|---|---|---|---|---|
| Request queue (`blk/blk_main.c`, `blk_main.h`) | `request_list`, the list behind `current_request` | `ll_rw_block`, `add_request` (elevator), `init_request_queue` | locks the buffer, runs the driver if it is stopped | each request in use is in the list once; the current one stays first; at most two sweeps |
| Hard disk driver (`blk/hd.c`) | `reset`, `recalibrate`, the installed routine, the controller | `do_hd_request`, `read_intr`, `write_intr`, `recal_intr`, `bad_rw_intr`, `end_request` | called by `add_request` in main and by the interrupt | one context at a time, but for the interrupt of a refused write; every command has its request; retries resume in the right place |
| Buffer locks (`blk/buffer.c`) | `b_lock`, `b_uptodate`, `b_dirt`, interrupt flag | `wait_on_buff`, `lock_buff`, `unlock_buff` | released by `end_request` in interrupt context | locked exactly while queued; every lock ends; a clean buffer equals its block |
| Buffer cache (`blk/buffer.c`) | hash chains, circular free list, `b_count` | `get_buff`, `put_buff`, `read_buff`, `read_buff_page`, `read_buff_ahead`, `sync_dev`, `invalidate_buff(s)` | `ll_rw_block` below, the file system above | a block has one buffer; only idle buffers are reused; references are counted |
| Zones (`fs/zone.c`, `fs/super.c`) | zone bitmap | `add_zone_bitmap`, `free_zone_bitmap`, `create_block`, `delete_block`, `delete_indirecte_block` | buffer cache | the bitmap says exactly which zones are in use |
| File block map (`fs/inode.c`) | `i_zone`, indirect blocks | `locate_by_inode`, `truncate` | zones | no zone belongs to two blocks; a block keeps its zone |
| Inode cache (`fs/inode.c`) | `inode_list`, `i_count`, `i_dirt` | `new_inode`, `find_inode`, `retain_inode`, `put_inode`, `create_inode`, `delete_inode` | inode bitmap, buffer cache, mounts | an inode has one copy; its last change is never lost; the inode bitmap is exact |
| Super blocks (`fs/super.c`, `fs/sys_fs.c`) | `super_block_list` | `find_super`, `read_super`, `put_super`, `sys_setup` | buffer cache | a mounted device holds all its bitmap blocks; each failure gives back all |
| Path walk and directories (`fs/inode.c`) | the loops' entry number, pointer and buffer; references along a path | `retain_inode_by_name`, `retain_inode_by_path`, `create_inode_by_name` | inode cache, block map, super blocks | a name leads to its entry; no entry in use is overwritten; every buffer and reference is given back |
| Interrupt dispatch (`irq.c`, `isrs.c`, `idt.c`) | the gates, `irq_routines`, the two controllers | `idt_install`, `isrs_install`, `irq_install`, `irq_install_handler`, the stubs and `irq_handler` | driver, timer | no interrupt before its gate; none nested; none left unanswered |
| Screen and printing (`scrn.c`, `util.c`) | `csr_x`, `csr_y`, the video memory, the static buffer of `printk` | `printk`, `puts`, `putch`, `scroll`, `move_csr`, `init_video` | called by main and by the interrupt, without a lock | no store leaves the screen; `puts` finds the end of its string |
| Kernel start (`kernel.c`) | the processor's interrupt flag | `kmain` | all of the above | set-up is complete before the first `sti` |
| Not modelled | | boot code, segment table, exceptions, ports, `page.c`, `name2inode.c` | | see "Not modelled" |

Hard behaviours: interrupts between any two steps of main (queue, locks, the
scan of `new_buff`, a `printk`); errors at each sector and the retry in the
middle of a request; a write that the drive refuses while main still polls for
DRQ; the time-out of that loop; more buffers than requests;
all buffers in use; a full file system; an indirect block, a directory block or
a bitmap block that cannot be read; interrupts that the controller reports
although their request is gone. `PROJECT.json` lists each at its line.

## Modules

    BlockIO       implements BlockDevice: queue,        MCBlockIO      BlockIOProof
                  driver, buffer locks, data
    BlockDevice   abstract device: transfers, outcomes
    BufferPool    abstract cache: map, counts, age
    BufferCache   implements BufferPool with pointers   MCBufferCache  BufferCacheProof
    FileZones     bitmap, block map, truncate           MCFileZones    FileZonesProof
    InodeCache    inode table and bitmap, path walk     MCInodeCache   InodeCacheProof
    SuperBlocks   table of mounted devices
    Directory     entries, blocks and the two loops
    FileSystem    composes SuperBlocks and Directory    MCFileSystem   FileSystemProof
    Interrupts    gates, irq_handler, controllers
    Console       printk and the screen, two contexts                  ConsoleProof
    Kernel        composes Interrupts and Console       MCKernel       KernelProof
    LeastNumber   a lemma that six of the proofs share

The models are layers. `BufferCache` sees of `BlockIO` only that
`ll_rw_block` locks a buffer and that `end_request` later unlocks it, in any
order and with any outcome: that each lock ends and that nobody else unlocks is
`EveryLockEnds` and `LockedMeansQueued` of `BlockIO`. `FileZones`,
`InodeCache`, `SuperBlocks` and `Directory` see of the cache only that a block
is read or cannot be read. `BlockIO` takes from `Interrupts` that one handler
runs at a time and that every request of a line is answered, which are
`HandlersDoNotNest` and `EveryRequestAnswered` of `Kernel`.

### BlockIO

`request_list` and `queue` are the array and the list from `current_request`;
`b_lock`, `b_uptodate`, `b_dirt`, `b_data` are the buffer heads, `disk` is the
drive, two sectors to a block. `hd` is the controller, external to the
repository, modelled from how `hd.c` uses it: it needs its data before a write,
raises one interrupt per sector, stops at an error, and a failed write may or
may not have reached the drive. `intr` is the interrupt flag main has set.

The drive may also refuse a write before it asks for data, at once or late
(`hd_abort`). Then DRQ never comes, and an interrupt does, for which `hd_out` has
already installed `write_intr`. If main is the one who polls, it polls with
interrupts enabled (`blk_main.c:51-52`), and `write_intr_abort` runs the driver
inside main's. The handler is followed as a whole: it charges the error to
the request that is current, or counts it behind a null pointer if there is none (after
a time-out that gave up the last request); that count never reaches `MAX_ERRORS`,
as an interrupt vector of the BIOS is negative as an `int`, but it may
set `reset`. If the handler polls instead, it reads the status with
interrupts disabled, and each such read takes the interrupt back, so nothing but
the time-out follows. Main, in turn, is in the state "reentered" and is not
followed: its request may be gone, it goes on with another one or with a null
pointer, and it polls and writes the data port of a controller that is busy with
a command of the handler. Nothing sensible can be said of that, and it is
reported as a finding (`peace`). The properties thus speak of main up to this
point, and of the handlers also beyond it: `EveryLockEnds` says of such a state
that the handlers finish the queue, not what main may do to it. The models above
assume that no write is refused this way while main polls.

A call of main is unfolded into the list `work` of its steps, each one access
to shared state (`wait_on_buff`, the test before `ll_rw_block`, the end of
`new_buff`, ...), and `pc` says where main and the handler are in `ll_rw_block`
and `do_hd_request`. The handler runs only when `intr = 1`, a command has ended
and no handler is running; while it runs main stands still. Which block a
buffer holds is a constant here. Reclaiming a buffer for its block is a way of
`get_buff`: the block is cached, or its buffer was clean, or it was dirty and
`sync_dev` wrote it. When `bad_rw_intr` looks at `CURRENT_REQUEST->errors` with no request
left, the value behind the null pointer is a nondeterministic choice.

`modify` stands for every holder of a buffer that writes `b_data` and sets
`b_dirt` (inode blocks, bitmaps, indirect blocks), which no caller delays while
the buffer is locked. Left out: the panics of `hd_out` (bad head, controller not
ready), the branch for a device without driver, and `init_hd_info`, whose
results are the constants `NR_HD`, `SECT`, `HEADS`, `partition_info`. `NR_HD`
is at most 1, as the loop of `init_hd_info` ends after the first drive unless
the first entry is larger than the whole table.

Steps that are one action although interrupts could fall into them commute with
the handler: filling a request that is not in the list, `lock_buff` between its
`cli` and `sti`, the rest of `add_request` with interrupts disabled.

`BlockDevice` is what the cache relies on: a buffer waits for at most one
transfer; a half is sent or received at a time; a transfer ends once, with
nothing of it under way, and if it succeeded the buffer agrees with the drive
except for changes made since the request. A failed write leaves each half old or
as it was sent. The order of the queue, retries, resets, the splitting of a
transfer and the two contexts do not show. `Pending` maps the queue to the
command each buffer waits for, `Content` the drive to the blocks of the buffers,
and `Sending` the controller's data to the half on its way. Invisible are the
locks: `LockedMeansQueued` says how they follow from the queue.

### BufferPool and BufferCache

`BufferCache` keeps the pointers: `queues` holds `b_next`, `b_prev`,
`b_next_free`, `b_prev_free`, `hash_table` and `free_list`. A call advances
through `get_buff` in steps: find the block, wait, scan the ring one buffer at
a time, wait and check again, take the buffer. `end_request` may run between any
two. `refs` counts what the callers hold and `leaked` what `invalidate_buff` kept
for ever in its early return. `b_count` is a byte. `BufferPool` is what callers
rely on: a hit counts up, a miss takes a buffer nobody uses and puts it last.
The mapping is `count <- b_count` and `order <- ` the ring from `free_list`.

The store through a null `b_next` when a chain is empty (`buffer.c:131`) goes to
low memory that nobody reads, and is left out. The argument list of
`read_buff_ahead` ends at the first number not below `MAX_HD`, as the code
compares it unsigned (`buffer.c:323`); so only blocks below `MAX_HD` are read
ahead.

### FileZones

A file is a tree: `DIRECT` zones, an indirect and a double indirect one with
`PER` entries per block (7 and 512 in the code). `Path` is the arithmetic of
`locate_by_inode`; each level of it is a step, since between two levels a block
is read, which may fail. Deleting works off a list of blocks the way the nested
loops of `truncate` do; a null pointer in the list is passed over by
`skip_hole`. `boot` records what happens to block 0, `lost` the
zones that the code knowingly cannot free: those below an unreadable indirect
block, and those of an inode without a file type, for which `truncate` returns
at once. Zones behind the end are assumed to be marked in the bitmap when the
file system was made (`FileSystemAssumption`): `add_zone_bitmap` tests
`block > s_nzones`, one too weak, and `free_zone_bitmap` would panic.

### InodeCache

`inode` is `inode_list` (`i_num`, 0 for an unused slot, `i_count`, `i_dirt`),
`node` the part of a slot that is copied to and from the inode blocks `dinode`,
`imap` the inode bitmap, `dir` the inodes a directory names. `refs`, `leaked`
and `latest` record what the callers hold, what failed walks kept, and what was
last written to an inode. Only main runs this code and `lock_inode` never sets
a lock, so a call is one step, except `retain_inode_by_path`: reading the next
name and putting the inode that was left are steps of their own, and the walk
may fail at each name. It then keeps its reference (`leaked`): the code returns
NULL without `put_inode`. A directory is abstracted to a set here; its blocks
and entries are in `Directory`. `unlink` is the one action without a
function in the repository: it stands for the caller that drops the last link,
which `put_inode` handles. What `truncate` frees is in `FileZones`. With
`i_mount` never set the branch of `find_inode` for mount points is left out. The
panics (no slot left, unreadable inode block) end in a state without a way out.

### SuperBlocks, Directory and FileSystem

`SuperBlocks` keeps `super_block_list` and, as `b_count`, the references to
bitmap blocks that its code holds. `read_super` may stop at an unreadable super
block, at a wrong magic number, or at any bitmap block; then its second loop
goes on with the block at which the first one failed, and the sum of both counts
decides. An entry keeps the pointers of its last use, as the code clears them
only before it loads the maps. `put_super` refuses the root and a mount point.
`lock_super` sets its lock only while it is set already, so it never locks; as
only main runs this code, a call is one step.

`Directory` has the two loops of `inode.c` that walk over entries, one step per
entry or block border: `lookup` is `retain_inode_by_name`, `create` is
`create_inode_by_name`. `entry` is what is on the blocks, `i_size` the size in
entries, and `call` the locals `i`, `de` and `bh`. `match` compares as many
characters as the name has, so it is a prefix comparison, and it looks at
removed entries, too. When a block cannot be read the code skips its entries but
leaves `bh` null and `de` where it was: the next test compares `de` with
`BLOCK_SIZE+NULL`, and its outcome is a nondeterministic choice. Either the next
block is tried, or the loop goes on in memory it no longer holds. `wild` records
that a call has done so; from there on the contents of an entry are arbitrary,
`create` may overwrite any entry at the same offset in a block (the buffer may
still be in the cache, or hold another block of the directory), and what the
call returns says nothing (`Lost`). `lookup_entry` lets a lookup come back with
an entry in use only: for a removed one that matches, the code calls
`read_inode(dev, 0)`, whose block number `(0 - 1) / INODES_PER_BLOCK`, computed
unsigned, lies far behind every device, so that `read_inode_from_buff` panics
(`inode.c:547`, `73-76`). Names are short sequences of
numbers. The branch for ".." at the root of a device changes no state: the root
device is its own mount point, whose reference is given back and taken again,
and no other device has one.

`FileSystem` composes the two: `sys_setup` mounts the root or panics; then
main mounts and unmounts any device between its calls on the directory, whose
device needs its super block for each inode that is read or created and for
each new block of the directory. Without it the kernel panics, as it does for an
inode that cannot be read, for lack of an inode slot, and for the removed entry
above (`LookupPanics`, `CreatePanics`). The inode
bitmap is `imap`; how `create_inode` picks the first free number and what
remains when no slot is to be had (the bit stays set) is part of the action.

### Interrupts, Console and Kernel

`Interrupts` has the entries of the descriptor table that are present, the base
vectors of the two controllers (external, modelled as `irq_remap` programs them:
edge triggered, fully nested, the slave behind line 2), `irq_routines` and the
processor's flag. `handling` is the line whose stub runs and how far it has got:
the end of interrupt commands come before the routine. A request that is
withdrawn in time is reported as line 7 or 15 and is not in service.

`Console` is the screen driver with two contexts. The `makefile` builds without
optimisation, so each read and each write by main of the static buffer, of
`csr_x`, `csr_y`, of the video memory and of the display's registers is a step;
the handler's `vsprintf` is one step, and then one for each `putch`, while main
stands still. `torn` records that the handler has printed while main was
printing; `output` is what has been printed until then. What `vsprintf` makes
of a format is a constant; a backspace is in no message of the kernel.

`Kernel` composes them: `kmain`'s calls in their order, the first `sti`, which
is that of `lock_buff` for the first block that `sys_setup` reads
(`buffer.c:32`), then `hd_out`, which installs the disk's routine with the first
command (an interrupt 14 before that finds none), main's printing and its pairs
of `cli` and `sti`, and interrupts on any line, of which the disk's prints at
most one message here (a request that is given up prints up to three; `Console`
by itself allows any number, and its theorems cover them). What the disk's routine does otherwise is in `BlockIO`. The timer's
routine only counts.

## Runs

| Run | Instance | Checks |
|---|---|---|
| `changes` | 3 blocks, one in the partition, one cut off by its end and one behind it; 2 requests; sectors with two values, `MAX_ERRORS` 3 | `TypeOK`; `CleanCopy`: a clean unlocked buffer equals its block, with holders that change the two sectors while they are queued or transferred; `CommandHasRequest`: a command under way belongs to the current request; `LockedMeansQueued` and `NeverLockedTwice` with the request list full; `OnlyAbortReenters`: nothing enters a running driver but the interrupt of a refused write; the refinement `ImplementsDevice` |
| `queue` | 3 buffers, 3 requests | `QueueHoldsRequests`, `TwoSweeps`, `CurrentStays`; `EveryLockEnds` under fairness |
| `cache_calls` | 2 buffers, 3 blocks on 2 devices, all calls but `sync_dev` | `CountsReferences` (with the types), `TakesIdleBuffers`; `GetEnds` under fairness |
| `cache_lists` | 3 buffers, 4 blocks, 2 buckets, `create_block` and `sync_dev` | `OneCopy`, `ListsIntact` (chains and ring), and the refinement `ImplementsPool` |
| `zones` | 2 files, 4 zones, 7 blocks on three levels | `BitmapExact` (with the types), `NoPanic`, `NoSharing`, `BlocksStay` |
| `inodes` | 3 slots, 4 inodes: root, a directory, a file, one free | `OneInode`, `CountsInodes`, `InodesAccounted` (with the types), `LatestContent` |
| `mount` | 3 devices, 2 super blocks; a directory of up to 3 blocks with 2 entries each, 2 names | `HeldByMounted` (with the types), `MapsComplete`, `OneBuffer`, `LookupRight`, `LastBlockHarmless`, `CreatedIsNamed`, `EntriesKeep` |
| `start` | a screen of 2 lines with 4 columns, lines 0, 8 and 14, 2 interrupts | `FindsEnd`, `StaysInVideo`, `CursorOnScreen`, `ShowsOutput`, `NothingInService`, `HandlersDoNotNest`; `EveryRequestAnswered` and `PrintEnds` under fairness |

Four runs end in a counterexample, each against a sentence in the code:

* `peace` (`blk_main.c:51`): `add_request` "disables interrupts so that it can
  muck with the request-lists in peace" (`blk_main.c:36-37`), but runs the driver, which takes
  requests out of the list, after its `sti`. A drive that refuses a write then
  has its interrupt run the driver inside main's.
* `give_up` (`hd.c:252`): the range check is repeated on a retry with the sector
  already advanced, so the second sector of a partition's last block is given up
  after one error instead of `MAX_ERRORS`.
* `lost_write` (`blk_main.c:46`): a write that fails leaves `b_dirt` at 0; the
  change in memory is never written again.
* `zones_full` (`zone.c:23`): on a full file system `create_block` clears block 0.

What the runs show of the two loops over directories: as long as a call stays in
its buffers, entry number and pointer agree, a lookup finds what its name leads
to, and no entry in use is lost (`LookupRight`, `CreatedIsNamed`,
`EntriesKeep`). A lookup comes back only from the first entry that
matches, and only if that is in use: asking for `<<1>>` meets the removed entry
`<<1, 2>>` and ends in the panic, though an entry in use stands behind it. A
lookup leaves its buffers only if a block that cannot be
read has entries behind it (`LastBlockHarmless`); a creation always may. Once
that has happened, `i` counts more entries than `de` has passed, and an entry in
use is overwritten even in a block that has been read; `EntriesKeep` therefore
exempts calls that are `wild`.

### Bounds

`MAX_ERRORS` is 7 in the code; 3 has all cases (retry, retry with reset, give
up), 1 and 2 fewer. Two requests are the fewest that still leave writes a slot
(the low two thirds), and with three buffers the list is full with one buffer
waiting; three requests let the elevator choose between front, middle and end.
The drive has 3 sectors to a track and 2 heads, so that a block crosses a track;
the last block of some tables is cut off by the end of the partition. In
`changes` only one of the three blocks has content on the drive, and the calls
are `read_buff` and `read_buff_ahead` on a cached or a dirty buffer: with two
contents the instance has more than ten million states. The other calls
(`create_block`, `read_buff_page`, `sync_dev`, the invalidations) are those of `queue`.
That no transfer reaches another block, and that a cleared block fits the
abstract device, is proved (`CleanIsCopy`, `IsDevice`) for all calls. In the
cache, `sync_dev`, the longest call, is in `cache_lists`, and
three blocks of one bucket give removals at the head, in the middle and
at the end of a chain; `MaxRefs` = 1 reference per buffer for the callers is
enough to make a buffer busy, more only lengthens `CountsReferences`. Four zones
hold a file that reaches the double indirect level, and run out. Three inode
slots, one of them kept by the root, are just enough for a walk, which holds two
at a time; a reference more and `new_inode` finds none. `MaxRefs` and `MaxLeaks`
are 1, and `Changing` names the inode (the directory) whose content callers
change; the others change by creation and `unlink`.

In `mount`, `PER` = 2 and `MaxBlocks` = 3 (32 entries and 262,663 blocks in the
code) give a block at the beginning, one between two others and one at the end,
each of which may be unreadable; five entries leave room for one more before the
directory needs no new block, a removed entry precedes one in use, and its name
begins with another name that is asked for. One of five inodes is free, so that
the bitmap runs full. Two entries for three devices let the table run full, with
entries used again by a device with more bitmap blocks or fewer; `MAP_SLOTS` is
2 (8 in the code), so one device fills its slots and others do not.

In `start`, a screen of 2 lines scrolls after two line feeds, 4 columns with tab
stops at 2 let a tab reach the edge and a text run over it, and `BYTE` = 4 makes
the cursor's position need both registers of the display. `BUF` = 4 holds the
longest text and its end. Lines 0 and 8 are the first of each controller and 8
is where the comparison with 40 decides; 14 prints. `MaxInterrupts` and
`MaxOutput` bound the interrupts and the characters printed; two interrupts are
one that interrupts main and another that waits for it, or comes later in the
same `printk`.

### Fairness

`BlockIO!Fairness`: main executes the steps of its call and the handler the
driver (they are straight code on one processor); a pending interrupt is taken
if interrupts stay enabled; the controller ends each command that has its data, with success or
error (that it asks for data, or refuses to, is not assumed: the polling loop
ends by itself); and kmain makes finitely many calls and then enables interrupts for good
(`SF` on `kmain_halt`), as `kernel.c:25` does. No call is assumed to be made.
`BufferCache!Fairness`: main executes its call, and the block layer finishes
what it was given, which is `EveryLockEnds`.
`Kernel!KernelFairness`: kmain gets through its calls, and a context that runs
goes on (weak, straight code again); main's `cli` is followed by an `sti` some
day (strong on `main_sti`, as interrupts may come in between for ever), and with
interrupts enabled again and again the processor takes a pending one (strong on
`acknowledge`, since each handler disables interrupts for its time). That
devices raise interrupts, or that anybody prints, is not assumed.

## Proofs

All theorems hold for every value of the constants that the named assumptions of
the modules admit. None of the safety properties is inductive by itself; each
proof module has an inductive invariant, a lemma for every action that keeps it,
and the properties as consequences.

### BlockIOProof

For every number of buffers, requests and tolerated errors, every geometry and
partition table and every content (the five named assumptions of
`BlockIO`: sizes, layout, distinct blocks, the sets of calls):

* `AddressedSector`: the controller accesses the sector whose cylinder, head and
  number the two divisions of `do_hd_request` yield.
* `Invariance`: `Spec => []IOInv`; from it `TypeCorrect`, `QueueIsComplete`,
  `LocksAccounted`, `LockIsFree`, `OnlyAborts`, `HandlersHaveRequest`,
  and the action property `CurrentIsStable`.

`IOInv` is their conjunction with four more parts: `RequestFields` (count,
buffer pointer and sector of a request agree, so that a resumed request stays
within its block), `WorkOK` (each step that needs an unlocked buffer follows a
wait for the same buffer, and between the two nobody locks: only main does),
`DriverControl` (a context is in the driver only between two commands, hence no
interrupt can start a second one but that of a refused write, which finds
`write_intr` installed) and `CommandState` (command, installed
routine and count of the controller are those of the head of the queue).
`QueueInv` collects what concerns the list, and lemmas on `Tail` and on the
insertion carry the list through `end_request` and the elevator.

* `CleanIsCopy`: `Spec => []CleanCopy`. The content of buffers and drive needs an
  invariant of its own on top of `IOInv`, `CopyInv`: `Halfway` (the first half of a
  block whose request waits for the second agrees with the drive unless the
  buffer is dirty), `Transfer` (address and data of the controller are those of
  the half that the head of the queue names) and `Unread` (a buffer that main is
  about to have read is not up to date). A write reaches only a sector of its own
  block because blocks are distinct (`DistinctAssumption`), and a resumed request
  that `do_hd_request` lets pass still has its whole block in the partition.
* `IsDevice`: `Spec => ImplementsDevice`. Each step maps to one of `BlockDevice` or to
  a stutter: `add_request` to `Submit`, the polling loop and the interrupt after a
  written sector to `Send`, the controller to `Sent`, the interrupts of a read to
  `Receive`, `end_request` to `End`, and the rest is invisible. `CopyInv` gives the
  guard of a successful `End`, `DriverControl` that nothing is being sent at one,
  and `Unread` and `Asked` (a buffer that main is about to have written is still
  dirty) the guard of `Submit`.
* `SweepsAtMostTwo`: `Spec => []TwoSweeps`. `IN_ORDER` compares two requests of the
  queue by command, device and block only (`OrderFacts`), so the queue keeps its
  order when the driver advances the request at its head by a sector. An insertion
  between two neighbours that `add_request` accepts adds no descent to the queue.
  One at the end of a queue with a descent adds none either: if the new request did
  not follow the last one, it would have fitted in front of the first request
  behind the descent that it does not follow (`AppendFits`).

### InodeCacheProof

For any number of slots and inodes, any file system to begin with, any number of
references and walks of any length: `CacheInvariance` (`CInv`), `OneSlotEach`,
`ReferencesCounted`, `ChangesSurvive` and `BitmapAccounted`, which are all
invariants of the run `inodes`.

`CInv` restates `LatestContent` slot by slot, and adds what it depends on:
`FreeSlots` (an unused slot is not dirty and has no user, or `new_inode` would
wait for ever), `RootCached` (the system's four references keep the root in its
slot), `Links` (the link count of an inode says whether a directory names it, and
each cached inode is allocated), `WalkOK` and `Counts` (a walk's two references
belong to slots in use). `Links` is what makes `put_inode` free exactly the
inodes that nobody can find; it needs `LatestContent`, because the link count may
be on the drive only, and `LatestContent` needs `OneInode`. `FreeIsUncached`
follows: the number that `create_inode` gets from the bitmap is never cached.

### BufferCacheProof

For any number of buffers, of buckets, of blocks and devices, any hash function,
and up to 126 references of the callers to a buffer (`CacheAssumption`; `b_count`
is a byte, and `leaked` and the call in progress add to it): `Invariant`
(`IInv`), `ReferenceCounts`, `OneBuffer`, `WholeLists`, the action property
`IdleBuffers`, and `IsPool`: the cache with its pointers implements `BufferPool`.

`IInv` says of the pointers that an order of the buffers exists through which
`b_next_free` and `b_prev_free` lead (`RingOK`), and for each bucket a finite
sequence without repetition of exactly the buffers whose block hashes to it
(`ChainsOK`). Existence of a sequence takes the place of reachability:
`remove_from_queues` deletes a position of the sequence, `insert_into_queues`
adds one at its head, and the witnesses for the next state are written down
(`MoveLast` for the ring), so that no induction along the list is needed. The
recursive functions of the model that follow the pointers, as `find_buff` and
the refinement mapping do, agree with these sequences by the argument of the
least number at which they would not. `Counts` accounts for `b_count` by the
callers' references, the leaked ones and those of the call; `Room` bounds the
sum, so that it never wraps; `CallOK` says for each `pc` what the call holds, in
particular that a buffer about to be taken is idle and that its block is still
not in the cache. This last part is what makes `OneCopy` inductive:
`get_buff` looks for the block long before it takes a buffer.

### FileZonesProof

For any number of direct zones and of pointers to a block, any bitmap to begin
with, and any set of inodes (`FileSystemAssumption`): `Invariant` (`IInv`),
`BitmapSaysUse`, `OneOwner`, `FreesDataZones` and the action property
`BlocksNeverMove`.

`IInv` says that the pointers of all files form a forest (`Forest`): for each zone
in use there is one pointer that leads to it (`ptr`), the number of levels below
it (`dep`) and the inode at its root (`rt`). These three are quantified, not
computed, and each action's lemma names the new ones. `Accounts` then says that
the bit of a zone is set exactly if the zone is kept by a file, is lost, or is
still to be deleted, and never two of these. `TodoOK` says that the tasks of
`truncate` cover disjoint parts of the tree of the inode, each with the depth
that its zone has, or 0 for a block read and emptied; so `free_zone_bitmap` never meets a
bit that is clear. `CallOK` says that the walk of `locate_by_inode` stands at a
zone with as many levels below it as its path has left, hence never takes a
data block for an indirect one.

### FileSystemProof

For any number of entries to a block, of blocks, names, devices, super block
entries and bitmap blocks, and any directory to begin with:

* `DirectoryInvariance` (`DInv`) and from it `BuffersGivenBack`, `LookupFinds`,
  `LookupLeavesLate`, `CreatedStays`, and the action property `EntriesStay`.
  A lookup that comes back has found the first entry that
  matches, and that entry is in use. `InStep` is the heart of it: until foreign memory is used, `i` and `de`
  agree, or `i` stands behind an unreadable block. `NoMatchYet` says that what a
  lookup has passed does not match.
* `MountedComplete` and `MountsAccounted`. Each mounted entry has the bitmap
  blocks of its device in order, so no block is in two entries (`Held`); and
  the lemma `Change` shows that an entry that changes takes its references with it,
  counted as the cardinality of its uses.
* `FileSystemTypes`: the types, and the bound on the size, which needs
  `call.i < call.de + PER`: a call leaves its buffers by less than a block.

### ConsoleProof and KernelProof

For every size of screen, tab, buffer and register with `ScreenAssumption`, and
any texts that fit the buffer: `ConsoleInvariance`, `ConsoleTypes`, `StringEnds`,
`StoresInVideo`, `CursorReturns` and `ScreenShowsOutput`. The invariant of the
first five (`IInv`) consists of `FindsEnd`, which is
the reason why `puts` ends although its string is replaced while it reads (the
handler writes a whole string with its end, and main's own stores lie before a
NUL), `CursorOK` (which lets the cursor be one column or one row outside while
somebody prints) and `LocalsOK` (what main has read of it is old, but in range).

`ScreenShowsOutput` relates the screen to an output of any length. Its invariant
`Undisturbed` holds until a handler prints into a print of main: for some `d`,
the first `d` characters of the output are on the screen, the others are the rest
of printk's buffer (`Reading`), and the steps of `putch` that have been taken for
character `d + 1` have had their effect (`Drawn`). While `scroll` copies, the cells
before `at.k` show the paper one row further down than those behind it (`Halfway`). No
induction over the output is needed: that the recursion of `Position` defines a
function follows from the least length for which it would not (`PositionExists`);
from then on the invariant takes one character at a time, and what a character
adds to the paper depends only on the position before it.

`KernelProof` builds on it, for any set of lines and any number of interrupts:
`KernelInvariance` (`KInv`), `ServiceEnds`, `GatesComeFirst`, `OneHandler`; and
the refinement `KernelRunsConsole`: `KernelSpec` implements `Console`'s `Spec`,
so that `KernelPrintsSafely` gets the properties of the screen for the kernel
with its interrupts.

### Only model-checked

The liveness properties `EveryLockEnds`, `GetEnds`, `EveryRequestAnswered` and
`PrintEnds`: fairness and `ENABLED` are out of the prover's reach. Every invariant
and action property of a passing run is stated by a theorem.

## Not modelled

* `start.s`, `gdt.c`, `linker.ld`, `stage1`, `stage2`: set up the processor and
  load the kernel before any state of these models exists. `kmain`'s return on a
  wrong magic number comes before everything else.
* `fault_handler` and the non-maskable interrupt: an exception prints a message
  and stops the machine.
* `init_hd_info` reads geometry and partition table once; they are constants.
* `timer_wait` and `putx` have no caller. `test_inode`, which `kmain` calls last,
  is one of the sequences of calls that the models let main make.
* The formats of `vsprintf`, and string functions: no property is about wording.
* Mount points below the root: no code sets `i_mount`, so the branch for it in
  `find_inode` cannot be entered, and ".." never leaves a device. On a device
  that is not mounted, ".." at the root reads `s_imount` behind a null pointer;
  what low memory holds there is left out.
* `page.c` and `fs/name2inode.c` are not linked into the kernel; `inc/` has
  declarations and single machine instructions.
* `lock_super` and `lock_inode` set their lock only while it is set, so they
  never lock; only main runs the code between, and the waits have no effect.
* The drive's contents are taken as `mkfs` writes them: the counts of bitmap
  blocks fit the eight slots (`SuperAssumption`), and bits behind the end of
  the maps are set (`FileSystemAssumption` of `FileZones`).
* `b_count` is a byte; `MaxRefs` is at most 126 in `BufferCache`, as the callers in
  the kernel hold a handful of references; the leaked ones may be as many.

## What is left

1. `Directory` over the block map of `FileZones` and the slots of `InodeCache`
   instead of `blocks` and `imap`.
2. `BufferCache` over `BlockDevice` in place of its own `end_request`, with buffers
   that change their block.
