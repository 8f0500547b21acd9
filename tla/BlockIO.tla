------------------------------ MODULE BlockIO ------------------------------
(***************************************************************************)
(* The block I/O path of the kernel: the request queue of blk/blk_main.c,  *)
(* the hard disk driver of blk/hd.c, and the part of blk/buffer.c that     *)
(* locks buffers, submits them and waits for them.                         *)
(*                                                                         *)
(* Two contexts run this code: the kernel's main context ("main"), and the *)
(* handler of interrupt 14 ("irq"), which preempts main whenever the       *)
(* interrupt flag is set and runs with interrupts disabled.  The disk      *)
(* controller runs beside both.  A call of main (read_buff, sync_dev, ...) *)
(* is the sequence of its steps in "work"; a step is one access to shared  *)
(* state or one busy-wait.  Which block a buffer holds is fixed here.      *)
(***************************************************************************)
EXTENDS Integers, Sequences, FiniteSets

CONSTANTS NR_BUFFERS,      \* buffers in the cache
          NR_REQUEST,      \* entries of request_list
          MAX_ERRORS,      \* errors after which a request is given up
          NR_HD,           \* drives found at boot
          SECT, HEADS,     \* geometry of the drive: hd_info[0]
          partition_info,  \* partition table: start_sect and nr_sects
          Sectors,         \* addresses of the sectors on the drive
          b_dev, b_blocknr,\* device and block number of each buffer
          Values,          \* contents of one sector
          Zero,            \* the content of a cleared sector
          disk0, memory0,  \* contents of the drive and of b_data at boot
          Calls, Ways      \* the calls main makes, and the ways get_buff goes

MAX_HD == 2
READ == 0
WRITE == 1
READA == 2

Buffers == 1..NR_BUFFERS
Slots == 0..(NR_REQUEST - 1)
Half == {0, 1}             \* the two sectors of a block
Flag == {0, 1}
MAJOR(dev) == dev \div 256
MINOR(dev) == dev % 256
MAJOR_NR == 3

(* Sector of the drive that holds half h of buffer b's block. *)
Home(b, h) == partition_info[MINOR(b_dev[b])].start_sect + 2 * b_blocknr[b] + h

(* The block of b lies on a partition of a drive that was found. *)
InPartition(b) == /\ MINOR(b_dev[b]) < 5 * NR_HD
                  /\ 2 * b_blocknr[b] + 2 <= partition_info[MINOR(b_dev[b])].nr_sects

ASSUME SizeAssumption ==
    /\ NR_BUFFERS \in Nat \ {0}
    /\ NR_REQUEST \in Nat /\ NR_REQUEST >= 2
    /\ MAX_ERRORS \in Nat \ {0}
    /\ NR_HD \in {0, 1}    \* init_hd_info stops after the first drive
    /\ SECT \in Nat \ {0} /\ HEADS \in Nat \ {0}

ASSUME LayoutAssumption ==
    /\ Sectors \subseteq Nat
    /\ partition_info \in [0..(5 * NR_HD - 1) -> [start_sect : Nat, nr_sects : Nat]]
    /\ \A p \in DOMAIN partition_info : \A s \in 0..(partition_info[p].nr_sects - 1) :
            partition_info[p].start_sect + s \in Sectors
    /\ b_dev \in [Buffers -> Nat]
    /\ b_blocknr \in [Buffers -> Nat]
    /\ \A b \in Buffers : MAJOR(b_dev[b]) = MAJOR_NR

(* A cached block has one buffer (new_buff), and no sector belongs to the  *)
(* blocks of two buffers: partitions in use are disjoint.                  *)
ASSUME DistinctAssumption ==
    /\ \A a, b \in Buffers : b_dev[a] = b_dev[b] /\ b_blocknr[a] = b_blocknr[b] => a = b
    /\ \A a, b \in Buffers : \A g, h \in Half :
        InPartition(a) /\ InPartition(b) /\ Home(a, g) = Home(b, h) => a = b /\ g = h

ASSUME CallAssumption ==
    /\ Calls \subseteq {"read_buff", "read_buff_page", "read_buff_ahead", "create_block",
                        "sync_dev", "invalidate_buff", "invalidate_buffs"}
    /\ Ways \subseteq {"cached", "clean", "dirty"}

ASSUME DataAssumption ==
    /\ Zero \in Values
    /\ disk0 \in [Sectors -> Values]
    /\ memory0 \in [Buffers -> [Half -> Values]]

VARIABLES request_list,    \* slot -> struct request
          queue,           \* slots from current_request along the next pointers
          b_lock, b_uptodate, b_dirt, b_data,
          reset, recalibrate,
          handler,         \* routine installed for interrupt 14
          hd,              \* the controller: command, phase, position
          disk,            \* content of the drive
          intr,            \* interrupt flag of the processor as main sees it
          work,            \* steps left of main's call
          held,            \* buffers main holds a reference to
          pc               \* control point of each context

bufVars == <<b_lock, b_uptodate, b_dirt, b_data>>
drvVars == <<reset, recalibrate, handler>>
vars == <<request_list, queue, b_lock, b_uptodate, b_dirt, b_data, reset,
          recalibrate, handler, hd, disk, intr, work, held, pc>>

(* A controller without a command; what its registers hold is immaterial. *)
HdIdle == [cmd |-> "none", phase |-> "idle", lba |-> 0, left |-> 0, data |-> Zero]

(* An entry of request_list that is not in use, its other fields stale. *)
NoRequest == [dev |-> -1, cmd |-> READ, errors |-> 0, sector |-> 0,
              nr_sectors |-> 0, buffer |-> 0, bh |-> 1]

Init ==
    /\ request_list = [s \in Slots |-> NoRequest]
    /\ queue = <<>>
    /\ b_lock = [b \in Buffers |-> 0]
    /\ b_uptodate = [b \in Buffers |-> 0]
    /\ b_dirt = [b \in Buffers |-> 0]
    /\ b_data = memory0
    /\ reset = 1
    /\ recalibrate = 1
    /\ handler = "none"
    /\ hd = HdIdle
    /\ disk = disk0
    /\ intr = 0
    /\ work = <<>>
    /\ held = {}
    /\ pc = [main |-> "next", irq |-> "idle"]

Goto(c, label) == pc' = [pc EXCEPT ![c] = label]

(* Where context c continues when do_hd_request returns. *)
Return(c) == IF c = "main" THEN pc' = [pc EXCEPT !.main = "next"]
                           ELSE pc' = [pc EXCEPT !.irq = "idle"]

----------------------------------------------------------------------------
(* The request at the head of the queue: current_request of the driver. *)
Current == request_list[Head(queue)]

(* end_request: publish the outcome, unlock the buffer, free the slot and *)
(* advance the queue.                                                     *)
end_request(uptodate) ==
    /\ b_uptodate' = [b_uptodate EXCEPT ![Current.bh] = uptodate]
    /\ b_lock' = [b_lock EXCEPT ![Current.bh] = 0]
    /\ request_list' = [request_list EXCEPT ![Head(queue)] = NoRequest]
    /\ queue' = Tail(queue)

(* Mutant: gives up one error late. *)
bad_rw_intr_late ==
    IF Current.errors + 1 > MAX_ERRORS
    THEN /\ end_request(0)
         /\ reset' \in {reset, 1}
    ELSE /\ request_list' = [request_list EXCEPT ![Head(queue)].errors = @ + 1]
         /\ reset' = 1
         /\ UNCHANGED <<b_uptodate, b_lock, queue>>

(* bad_rw_intr: count the error; give up at MAX_ERRORS.  The second test   *)
(* reads the errors of whatever request is then current: the next one, or, *)
(* when none is left, the memory behind a null pointer.                    *)
bad_rw_intr ==
    IF Current.errors + 1 >= MAX_ERRORS
    THEN /\ end_request(0)
         /\ IF queue' = <<>>
            THEN reset' \in {reset, 1}
            ELSE reset' = IF request_list[Head(queue')].errors > MAX_ERRORS \div 2
                          THEN 1 ELSE reset
    ELSE /\ request_list' = [request_list EXCEPT ![Head(queue)].errors = @ + 1]
         /\ reset' = IF Current.errors + 1 > MAX_ERRORS \div 2 THEN 1 ELSE reset
         /\ UNCHANGED <<b_uptodate, b_lock, queue>>

(* The two divl instructions of do_hd_request: address of a sector as      *)
(* cylinder, head and sector number (counted from 1).                      *)
CHS(block) == [sec  |-> (block % SECT) + 1,
               head |-> (block \div SECT) % HEADS,
               cyl  |-> (block \div SECT) \div HEADS]

(* The sector the controller accesses for the address in its registers. *)
Addressed(chs) == SECT * (HEADS * chs.cyl + chs.head) + chs.sec - 1

(* hd_out: install the handler for the interrupt that the command will     *)
(* raise and write the command registers.  A WRITE first asks for data.    *)
hd_out(cmd, nsect, chs, intr_addr) ==
    /\ handler' = intr_addr
    /\ hd' = [cmd |-> cmd, phase |-> IF cmd = "WRITE" THEN "wait" ELSE "busy",
              lba |-> Addressed(chs), left |-> nsect, data |-> Zero]

(* port_write: fill the controller's sector buffer from the data of the    *)
(* request; the controller then stores it if it expects another sector.    *)
port_write(buffer) ==
    hd' = IF hd.left = 0 THEN HdIdle
          ELSE [hd EXCEPT !.phase = "busy", !.data = b_data[Current.bh][buffer]]

(* port_read: empty the controller's sector buffer; it then fetches the    *)
(* next sector of the command, if there is one.                            *)
port_read ==
    /\ b_data' = [b_data EXCEPT ![Current.bh][Current.buffer] = hd.data]
    /\ hd' = IF hd.left = 0 THEN HdIdle ELSE [hd EXCEPT !.phase = "busy", !.data = Zero]

----------------------------------------------------------------------------
(* do_hd_request, run by context c at label "do_hd". *)

Driving(c, label) == pc[c] = label /\ (c = "main" => pc.irq = "idle")

OutOfRange(req) ==
    \/ MINOR(req.dev) >= NR_HD * 5
    \/ req.sector + 2 > partition_info[MINOR(req.dev)].nr_sects

Address(req) == CHS(partition_info[MINOR(req.dev)].start_sect + req.sector)

do_hd_idle(c) ==
    /\ Driving(c, "do_hd")
    /\ queue = <<>>
    /\ Return(c)
    /\ UNCHANGED <<request_list, queue, bufVars, drvVars, hd, disk, intr, work, held>>

do_hd_reject(c) ==
    /\ Driving(c, "do_hd")
    /\ queue # <<>>
    /\ OutOfRange(Current)
    /\ end_request(0)
    /\ UNCHANGED <<b_dirt, b_data, drvVars, hd, disk, intr, work, held, pc>>

Accepts(c) ==
    /\ Driving(c, "do_hd")
    /\ queue # <<>>
    /\ ~OutOfRange(Current)

(* reset_controller: the first and the last argument of WIN_SPECIFY do not *)
(* matter here, only the interrupt it raises.                              *)
do_hd_reset(c) ==
    /\ Accepts(c)
    /\ reset = 1
    /\ reset' = 0
    /\ recalibrate' = 1
    /\ hd_out("SPECIFY", 0, CHS(0), "recal_intr")
    /\ Return(c)
    /\ UNCHANGED <<request_list, queue, bufVars, disk, intr, work, held>>

do_hd_recalibrate(c) ==
    /\ Accepts(c)
    /\ reset = 0 /\ recalibrate = 1
    /\ recalibrate' = 0
    /\ hd_out("RESTORE", 0, CHS(0), "recal_intr")
    /\ Return(c)
    /\ UNCHANGED <<request_list, queue, bufVars, reset, disk, intr, work, held>>

(* Mutant: a resumed read begins with the first sector again. *)
do_hd_read_restart(c) ==
    /\ Accepts(c)
    /\ reset = 0 /\ recalibrate = 0
    /\ Current.cmd = READ
    /\ hd_out("READ", Current.nr_sectors,
              Address([Current EXCEPT !.sector = @ - Current.buffer]), "read_intr")
    /\ Return(c)
    /\ UNCHANGED <<request_list, queue, bufVars, reset, recalibrate, disk, intr, work, held>>

do_hd_read(c) ==
    /\ Accepts(c)
    /\ reset = 0 /\ recalibrate = 0
    /\ Current.cmd = READ
    /\ hd_out("READ", Current.nr_sectors, Address(Current), "read_intr")
    /\ Return(c)
    /\ UNCHANGED <<request_list, queue, bufVars, reset, recalibrate, disk, intr, work, held>>

(* Mutant: the wrong handler is installed. *)
do_hd_write_read_intr(c) ==
    /\ Accepts(c)
    /\ reset = 0 /\ recalibrate = 0
    /\ Current.cmd = WRITE
    /\ hd_out("WRITE", Current.nr_sectors, Address(Current), "read_intr")
    /\ Goto(c, "drq")
    /\ UNCHANGED <<request_list, queue, bufVars, reset, recalibrate, disk, intr, work, held>>

do_hd_write(c) ==
    /\ Accepts(c)
    /\ reset = 0 /\ recalibrate = 0
    /\ Current.cmd = WRITE
    /\ hd_out("WRITE", Current.nr_sectors, Address(Current), "write_intr")
    /\ Goto(c, "drq")
    /\ UNCHANGED <<request_list, queue, bufVars, reset, recalibrate, disk, intr, work, held>>

(* The polling loop sees DRQ_STAT: hand over the first sector. *)
drq_ready(c) ==
    /\ Driving(c, "drq")
    /\ hd.phase = "wait"
    /\ port_write(Current.buffer)
    /\ Return(c)
    /\ UNCHANGED <<request_list, queue, bufVars, drvVars, disk, intr, work, held>>

(* The polling loop runs out: count an error and start over.  A drive that *)
(* aborted the command never sets DRQ_STAT, and each read of its status    *)
(* takes its interrupt back.                                               *)
drq_timeout(c) ==
    /\ Driving(c, "drq")
    /\ hd' = IF hd.phase = "abort" THEN HdIdle ELSE hd
    /\ bad_rw_intr
    /\ Goto(c, "do_hd")
    /\ UNCHANGED <<b_dirt, b_data, recalibrate, handler, disk, intr, work, held>>

(* Main in a driver that the handler has run meanwhile.  Its request may   *)
(* be gone, and it polls and writes the registers of a controller that may *)
(* be busy with another command: what then happens is not followed.        *)
do_hd_reentered ==
    /\ pc.main = "reentered" /\ pc.irq = "idle"
    /\ UNCHANGED vars

do_hd_request(c) ==
    \/ do_hd_idle(c)
    \/ do_hd_reject(c)
    \/ do_hd_reset(c)
    \/ do_hd_recalibrate(c)
    \/ do_hd_read(c)
    \/ do_hd_write(c)
    \/ drq_ready(c)
    \/ drq_timeout(c)

----------------------------------------------------------------------------
(* Interrupt 14: irq_handler calls the installed routine, interrupts stay  *)
(* disabled until it returns.  win_result is hd.phase \in {"err", "abort"}. *)

Interrupt(routine) ==
    /\ intr = 1
    /\ pc.irq = "idle"
    /\ hd.phase \in {"ok", "err", "abort"}
    /\ handler = routine

(* One sector further: the pointer, the sector and the count left. *)
Advanced(r, errors) ==
    [dev |-> r.dev, cmd |-> r.cmd, errors |-> errors, sector |-> r.sector + 1,
     nr_sectors |-> r.nr_sectors - 1, buffer |-> r.buffer + 1, bh |-> r.bh]

(* The same in all three routines. *)
intr_error(routine) ==
    /\ Interrupt(routine)
    /\ hd.phase = "err"
    /\ hd' = HdIdle
    /\ bad_rw_intr
    /\ Goto("irq", "do_hd")
    /\ UNCHANGED <<b_dirt, b_data, recalibrate, handler, disk, intr, work, held>>

(* The same for a WRITE that the drive aborted before it asked for data:   *)
(* the routine takes the request that is current now for the one that was  *)
(* written, or counts the error in the memory behind a null pointer, which *)
(* never reaches MAX_ERRORS: an interrupt vector of the BIOS is negative   *)
(* as an int.  And it may have interrupted main in do_hd_request.          *)
write_intr_abort ==
    /\ Interrupt("write_intr")
    /\ hd.phase = "abort"
    /\ hd' = HdIdle
    /\ \/ queue # <<>> /\ bad_rw_intr
       \/ /\ queue = <<>>
          /\ reset' \in {reset, 1}
          /\ UNCHANGED <<request_list, queue, b_lock, b_uptodate>>
    /\ pc' = [main |-> IF pc.main \in {"do_hd", "drq"} THEN "reentered" ELSE pc.main,
              irq |-> "do_hd"]
    /\ UNCHANGED <<b_dirt, b_data, recalibrate, handler, disk, intr, work, held>>

read_intr_more ==
    /\ Interrupt("read_intr")
    /\ hd.phase = "ok"
    /\ Current.nr_sectors # 1
    /\ port_read
    /\ request_list' = [request_list EXCEPT ![Head(queue)] = Advanced(Current, 0)]
    /\ handler' = "read_intr"
    /\ UNCHANGED <<queue, b_lock, b_uptodate, b_dirt, reset, recalibrate, disk, intr, work, held, pc>>

read_intr_done ==
    /\ Interrupt("read_intr")
    /\ hd.phase = "ok"
    /\ Current.nr_sectors = 1
    /\ port_read
    /\ end_request(1)
    /\ Goto("irq", "do_hd")
    /\ UNCHANGED <<b_dirt, drvVars, disk, intr, work, held>>

(* Mutant: hands over the sector that has been written once more. *)
write_intr_more_same ==
    /\ Interrupt("write_intr")
    /\ hd.phase = "ok"
    /\ Current.nr_sectors # 1
    /\ request_list' = [request_list EXCEPT ![Head(queue)] = Advanced(Current, Current.errors)]
    /\ handler' = "write_intr"
    /\ port_write(Current.buffer)
    /\ UNCHANGED <<queue, bufVars, reset, recalibrate, disk, intr, work, held, pc>>

write_intr_more ==
    /\ Interrupt("write_intr")
    /\ hd.phase = "ok"
    /\ Current.nr_sectors # 1
    /\ request_list' = [request_list EXCEPT ![Head(queue)] = Advanced(Current, Current.errors)]
    /\ handler' = "write_intr"
    /\ port_write(Current.buffer + 1)
    /\ UNCHANGED <<queue, bufVars, reset, recalibrate, disk, intr, work, held, pc>>

write_intr_done ==
    /\ Interrupt("write_intr")
    /\ hd.phase = "ok"
    /\ Current.nr_sectors = 1
    /\ hd' = HdIdle
    /\ end_request(1)
    /\ Goto("irq", "do_hd")
    /\ UNCHANGED <<b_dirt, b_data, drvVars, disk, intr, work, held>>

recal_intr_ok ==
    /\ Interrupt("recal_intr")
    /\ hd.phase = "ok"
    /\ hd' = HdIdle
    /\ Goto("irq", "do_hd")
    /\ UNCHANGED <<request_list, queue, bufVars, drvVars, disk, intr, work, held>>

irq_handler ==
    \/ intr_error("read_intr") \/ read_intr_more \/ read_intr_done
    \/ intr_error("write_intr") \/ write_intr_more \/ write_intr_done
    \/ write_intr_abort
    \/ intr_error("recal_intr") \/ recal_intr_ok

----------------------------------------------------------------------------
(* The controller carries out one sector of a command, or the whole of one *)
(* that moves no data, and raises the interrupt.  A failed write leaves    *)
(* the sector as it was or as it should be.                                *)

hdUnchanged == UNCHANGED <<request_list, queue, bufVars, drvVars, intr, work, held, pc>>

hd_read ==
    /\ hd.phase = "busy" /\ hd.cmd = "READ" /\ hd.lba \in Sectors
    /\ hd' = [cmd |-> "READ", phase |-> "ok", lba |-> hd.lba + 1, left |-> hd.left - 1,
              data |-> disk[hd.lba]]
    /\ UNCHANGED disk
    /\ hdUnchanged

hd_write ==
    /\ hd.phase = "busy" /\ hd.cmd = "WRITE" /\ hd.lba \in Sectors
    /\ hd' = [cmd |-> "WRITE", phase |-> "ok", lba |-> hd.lba + 1, left |-> hd.left - 1,
              data |-> hd.data]
    /\ disk' = [disk EXCEPT ![hd.lba] = hd.data]
    /\ hdUnchanged

hd_settle ==
    /\ hd.phase = "busy" /\ hd.cmd \in {"SPECIFY", "RESTORE"}
    /\ hd' = [hd EXCEPT !.phase = "ok"]
    /\ UNCHANGED disk
    /\ hdUnchanged

hd_fail ==
    /\ hd.phase = "busy"
    /\ hd' = [hd EXCEPT !.phase = "err"]
    /\ \/ UNCHANGED disk
       \/ hd.cmd = "WRITE" /\ disk' = [disk EXCEPT ![hd.lba] = hd.data]
    /\ hdUnchanged

controller == hd_read \/ hd_write \/ hd_settle \/ hd_fail

(* The drive refuses a WRITE, at once or late, without asking for data. *)
hd_abort ==
    /\ hd.phase = "wait"
    /\ hd' = [hd EXCEPT !.phase = "abort"]
    /\ UNCHANGED disk
    /\ hdUnchanged

----------------------------------------------------------------------------
(* The steps of main's calls.  "wait" is wait_on_buff; "fetch", "read",    *)
(* "reada" and "write" submit the buffer if it needs it; "drop" declares   *)
(* its content void, at the end of new_buff and in invalidate_buff;        *)
(* "clear" is the body of create_block; "hold" and "release" take and give *)
(* back the caller's reference; "continue" skips another device's buffer.  *)

Submits == {"fetch", "read", "reada", "write"}
Ops == Submits \cup {"wait", "drop", "clear", "hold", "release", "continue"}

Step(op, b) == [op |-> op, bh |-> b]
Steps == [op : Ops, bh : Buffers]

(* Two steps for every buffer of the device, in the order of the array. *)
ForDevice(dev, op) ==
    [k \in 1..(2 * NR_BUFFERS) |->
        LET b == (k + 1) \div 2
        IN  Step(IF b_dev[b] # dev THEN "continue"
                 ELSE IF k % 2 = 1 THEN "wait" ELSE op, b)]

sync_dev(dev) == ForDevice(dev, "write")
invalidate_buffs(dev) == ForDevice(dev, "drop")

(* Mutant: a cached buffer is returned without waiting for its lock. *)
get_buff_no_wait(b, way) ==
    IF way = "cached" THEN <<>>
    ELSE sync_dev(b_dev[b]) \o <<Step("wait", b), Step("drop", b)>>

(* get_buff finds the block in the cache, or gives it a buffer that        *)
(* new_buff reclaimed: a clean one, or a dirty one after sync_dev.         *)
get_buff(b, way) ==
    CASE way = "cached" -> <<Step("wait", b)>>
      [] way = "clean"  -> <<Step("wait", b), Step("drop", b)>>
      [] way = "dirty"  -> sync_dev(b_dev[b]) \o <<Step("wait", b), Step("drop", b)>>

(* A block in use is in the cache, and one with unwritten changes leaves   *)
(* the cache only after sync_dev.                                          *)
CanGet(b, way) ==
    /\ way # "cached" => b \notin held
    /\ way = "clean" => b_dirt[b] = 0

read_buff(b, way) ==
    get_buff(b, way) \o <<Step("fetch", b), Step("wait", b), Step("hold", b)>>

(* Two of the four blocks of a page; put_buff waits once more for each. *)
read_buff_page(a, b, way) ==
    <<Step("wait", a), Step("read", a)>> \o get_buff(b, way) \o
    <<Step("read", b), Step("wait", a), Step("wait", a), Step("wait", b), Step("wait", b)>>

(* One block ahead: the loop over the arguments stops at the first that is *)
(* not below MAX_HD.                                                       *)
read_buff_ahead(a, b, way) ==
    <<Step("wait", a), Step("read", a)>> \o
    (IF b_blocknr[b] < MAX_HD
     THEN get_buff(b, way) \o <<Step("reada", b)>> ELSE <<>>) \o
    <<Step("wait", a), Step("hold", a)>>

create_block(b, way) ==
    get_buff(b, way) \o <<Step("clear", b), Step("wait", b)>>

invalidate_buff(b) == <<Step("wait", b), Step("drop", b), Step("wait", b)>>
put_buff(b) == <<Step("wait", b), Step("release", b)>>

----------------------------------------------------------------------------
(* Main between two calls. *)
Running == pc.irq = "idle"
AtRest == Running /\ pc.main = "next" /\ work = <<>>

ioVars == <<request_list, queue, drvVars, hd, disk>>

Call(name, steps) ==
    /\ AtRest
    /\ name \in Calls
    /\ work' = steps
    /\ UNCHANGED <<ioVars, bufVars, intr, held, pc>>

call_read_buff == \E b \in Buffers, w \in Ways :
    CanGet(b, w) /\ Call("read_buff", read_buff(b, w))
call_read_buff_page == \E a, b \in Buffers, w \in Ways :
    a # b /\ CanGet(b, w) /\ Call("read_buff_page", read_buff_page(a, b, w))
call_read_buff_ahead == \E a, b \in Buffers, w \in Ways :
    a # b /\ CanGet(b, w) /\ Call("read_buff_ahead", read_buff_ahead(a, b, w))
call_create_block == \E b \in Buffers, w \in Ways :
    b \notin held /\ CanGet(b, w) /\ Call("create_block", create_block(b, w))
call_sync_dev == \E b \in Buffers : Call("sync_dev", sync_dev(b_dev[b]))
call_invalidate_buff == \E b \in Buffers \ held :
    Call("invalidate_buff", invalidate_buff(b))
call_invalidate_buffs == \E b \in Buffers :
    Call("invalidate_buffs", invalidate_buffs(b_dev[b]))

call_put_buff ==
    /\ AtRest
    /\ \E b \in held : work' = put_buff(b)
    /\ UNCHANGED <<ioVars, bufVars, intr, held, pc>>

(* A holder changes the data of its buffer and marks it dirty, without     *)
(* asking whether the buffer is locked.                                    *)
modify(b, h, v) ==
    /\ AtRest
    /\ b \in held
    /\ b_data' = [b_data EXCEPT ![b][h] = v]
    /\ b_dirt' = [b_dirt EXCEPT ![b] = 1]
    /\ UNCHANGED <<ioVars, b_lock, b_uptodate, intr, work, held, pc>>

call_modify == \E b \in Buffers, h \in Half, v \in Values : modify(b, h, v)

(* kmain after its last call: sti and an endless loop. *)
kmain_halt ==
    /\ AtRest
    /\ intr' = 1
    /\ Goto("main", "halt")
    /\ UNCHANGED <<ioVars, bufVars, work, held>>

kmain_spin ==
    /\ Running
    /\ pc.main = "halt"
    /\ UNCHANGED vars

calls ==
    \/ call_read_buff \/ call_read_buff_page \/ call_read_buff_ahead
    \/ call_create_block \/ call_put_buff \/ call_sync_dev
    \/ call_invalidate_buff \/ call_invalidate_buffs \/ call_modify

----------------------------------------------------------------------------
(* Main executes the next step of its call. *)
bh == Head(work).bh
At(label) == Running /\ pc.main = label /\ work # <<>>
Do(op) == At("next") /\ Head(work).op = op
Done == work' = Tail(work)

(* The submitting steps, whose condition the caller tests. *)
Wanted == IF Head(work).op = "write" THEN b_dirt[bh] = 1 ELSE b_uptodate[bh] = 0

rw == IF Head(work).op = "write" THEN WRITE
      ELSE IF Head(work).op = "reada" THEN READA ELSE READ

step_skip ==
    /\ At("next")
    /\ \/ Head(work).op = "continue"
       \/ Head(work).op \in {"read", "reada", "write"} /\ ~Wanted
    /\ Done
    /\ UNCHANGED <<ioVars, bufVars, intr, held, pc>>

(* read_buff finds the buffer up to date and returns it at once. *)
step_cached ==
    /\ Do("fetch")
    /\ ~Wanted
    /\ work' = <<Step("hold", bh)>>
    /\ UNCHANGED <<ioVars, bufVars, intr, held, pc>>

step_submit ==
    /\ At("next")
    /\ Head(work).op \in Submits
    /\ Wanted
    /\ Goto("main", "ll_rw")
    /\ UNCHANGED <<ioVars, bufVars, intr, work, held>>

(* wait_on_buff: cli, then the loop that enables interrupts while it spins. *)
step_wait ==
    /\ Do("wait")
    /\ intr' = 0
    /\ Goto("main", "wait")
    /\ UNCHANGED <<ioVars, bufVars, work, held>>

(* Mutant: spins with interrupts disabled. *)
wait_spin_cli ==
    /\ At("wait")
    /\ b_lock[bh] = 1
    /\ UNCHANGED <<ioVars, bufVars, intr, work, held, pc>>

wait_spin ==
    /\ At("wait")
    /\ b_lock[bh] = 1
    /\ intr' = 1
    /\ UNCHANGED <<ioVars, bufVars, work, held, pc>>

wait_end ==
    /\ At("wait")
    /\ b_lock[bh] = 0
    /\ Done
    /\ Goto("main", "next")
    /\ UNCHANGED <<ioVars, bufVars, intr, held>>

step_drop ==
    /\ Do("drop")
    /\ b_dirt' = [b_dirt EXCEPT ![bh] = 0]
    /\ b_uptodate' = [b_uptodate EXCEPT ![bh] = 0]
    /\ Done
    /\ UNCHANGED <<ioVars, b_lock, b_data, intr, held, pc>>

step_clear ==
    /\ Do("clear")
    /\ b_data' = [b_data EXCEPT ![bh] = [h \in Half |-> Zero]]
    /\ b_uptodate' = [b_uptodate EXCEPT ![bh] = 1]
    /\ b_dirt' = [b_dirt EXCEPT ![bh] = 1]
    /\ Done
    /\ UNCHANGED <<ioVars, b_lock, intr, held, pc>>

(* read_buff returns the buffer if it could be read; else it gives it back *)
(* with put_buff, whose wait_on_buff disables interrupts, and returns NULL. *)
step_hold ==
    /\ Do("hold")
    /\ held' = IF b_uptodate[bh] = 1 THEN held \cup {bh} ELSE held
    /\ intr' = IF b_uptodate[bh] = 1 THEN intr ELSE 0
    /\ Done
    /\ UNCHANGED <<ioVars, bufVars, pc>>

step_release ==
    /\ Do("release")
    /\ held' = held \ {bh}
    /\ Done
    /\ UNCHANGED <<ioVars, bufVars, intr, pc>>

----------------------------------------------------------------------------
(* ll_rw_block: lock the buffer (cli and sti around the assignment), and   *)
(* look for a free request unless there is nothing to do.                  *)
Skips(op) == op = READA /\ b_lock[bh] = 1
NothingToDo(op) == IF op = WRITE THEN b_dirt[bh] = 0 ELSE b_uptodate[bh] = 1

lock_buff(b) == b_lock' = [b_lock EXCEPT ![b] = 1]
unlock_buff(b) == b_lock' = [b_lock EXCEPT ![b] = 0]

ll_rw_block ==
    /\ At("ll_rw")
    /\ IF Skips(rw) \/ NothingToDo(rw)
       THEN /\ IF Skips(rw) THEN UNCHANGED <<b_lock, intr>>
                            ELSE unlock_buff(bh) /\ intr' = 1
            /\ Done
            /\ Goto("main", "next")
       ELSE /\ lock_buff(bh)
            /\ intr' = 1
            /\ Goto("main", "repeat")
            /\ UNCHANGED work
    /\ UNCHANGED <<ioVars, b_uptodate, b_dirt, b_data, held>>

(* Slots a request may use: writes leave the last third to reads. *)
UsableSlots(op) == IF op = WRITE THEN 0..((NR_REQUEST * 2) \div 3 - 1) ELSE Slots
FreeSlots_unchecked(op) == UsableSlots(op)  \* Mutant: does not look at dev
FreeSlots(op) == {s \in UsableSlots(op) : request_list[s].dev < 0}

(* Mutant: the early return of read-ahead forgets the lock. *)
repeat_ahead_locked ==
    /\ At("repeat")
    /\ rw = READA
    /\ FreeSlots(rw) = {}
    /\ Done
    /\ Goto("main", "next")
    /\ UNCHANGED <<ioVars, bufVars, intr, held>>

(* No request is free: read-ahead gives up, anything else tries again. *)
repeat_ahead ==
    /\ At("repeat")
    /\ rw = READA
    /\ FreeSlots(rw) = {}
    /\ unlock_buff(bh)
    /\ Done
    /\ Goto("main", "next")
    /\ UNCHANGED <<ioVars, b_uptodate, b_dirt, b_data, intr, held>>

NewRequest(b, op) ==
    [dev |-> b_dev[b], cmd |-> IF op = WRITE THEN WRITE ELSE READ, errors |-> 0,
     sector |-> 2 * b_blocknr[b], nr_sectors |-> 2, buffer |-> 0, bh |-> b]

IN_ORDER(s1, s2) ==
    \/ s1.cmd < s2.cmd
    \/ /\ s1.cmd = s2.cmd
       /\ \/ s1.dev < s2.dev
          \/ s1.dev = s2.dev /\ s1.sector < s2.sector

Fits_never(i, req) == FALSE  \* Mutant: requests are appended
(* The elevator stops behind position i of the queue. *)
Fits(i, req) ==
    LET tmp == request_list[queue[i]]
        next == request_list[queue[i + 1]]
    IN  (IN_ORDER(tmp, req) \/ ~IN_ORDER(tmp, next)) /\ IN_ORDER(req, next)

Position(i, req) ==
    /\ i < Len(queue) => Fits(i, req)
    /\ \A j \in 1..(i - 1) : ~Fits(j, req)

(* Mutant: inserts before position i. *)
InsertBefore(i, s) ==
    [k \in 1..(Len(queue) + 1) |->
        IF k < i THEN queue[k] ELSE IF k = i THEN s ELSE queue[k - 1]]

InsertBehind(i, s) ==
    [k \in 1..(Len(queue) + 1) |->
        IF k <= i THEN queue[k] ELSE IF k = i + 1 THEN s ELSE queue[k - 1]]

(* Mutant: runs the driver even if it is not stopped. *)
add_request_restarts(s, req) ==
    /\ request_list' = [request_list EXCEPT ![s] = req]
    /\ b_dirt' = [b_dirt EXCEPT ![req.bh] = 0]
    /\ intr' = 1
    /\ Done
    /\ queue' = Append(queue, s)
    /\ Goto("main", "do_hd")

(* add_request, interrupts disabled: the driver is stopped, so it becomes  *)
(* current and main runs the driver; or it is put in the elevator's order. *)
add_request(s, req) ==
    /\ request_list' = [request_list EXCEPT ![s] = req]
    /\ b_dirt' = [b_dirt EXCEPT ![req.bh] = 0]
    /\ intr' = 1
    /\ Done
    /\ \/ /\ queue = <<>>
          /\ queue' = <<s>>
          /\ Goto("main", "do_hd")
       \/ /\ \E i \in 1..Len(queue) : Position(i, req) /\ queue' = InsertBehind(i, s)
          /\ Goto("main", "next")

(* A request is free: take the topmost.  Finding and filling it commutes   *)
(* with the interrupt handler, which only frees requests and does not look *)
(* at one outside the queue.                                               *)
repeat_found ==
    /\ At("repeat")
    /\ \E s \in FreeSlots(rw) :
        /\ \A t \in FreeSlots(rw) : t <= s
        /\ add_request(s, NewRequest(bh, rw))
    /\ UNCHANGED <<b_lock, b_uptodate, b_data, drvVars, hd, disk, held>>

main_steps ==
    \/ step_skip \/ step_cached \/ step_submit
    \/ step_wait \/ wait_spin \/ wait_end
    \/ step_drop \/ step_clear \/ step_hold \/ step_release
    \/ ll_rw_block \/ repeat_ahead \/ repeat_found
    \/ do_hd_request("main")

Next ==
    \/ calls \/ kmain_halt \/ kmain_spin
    \/ main_steps
    \/ irq_handler
    \/ do_hd_request("irq")
    \/ do_hd_reentered
    \/ controller \/ hd_abort

Spec == Init /\ [][Next]_vars

(* Main and the handler execute their code, the processor takes pending    *)
(* interrupts, the controller finishes the commands it has all data for,   *)
(* and kmain makes only finitely many calls.  A drive that is slow to ask  *)
(* for data need never answer.                                             *)
Fairness ==
    /\ WF_vars(main_steps)
    /\ WF_vars(irq_handler)
    /\ WF_vars(do_hd_request("irq"))
    /\ WF_vars(controller)
    /\ SF_vars(kmain_halt)

LiveSpec == Spec /\ Fairness

----------------------------------------------------------------------------
Request == [dev : Nat \cup {-1}, cmd : {READ, WRITE}, errors : 0..(MAX_ERRORS - 1),
            sector : Nat, nr_sectors : 0..2, buffer : Half, bh : Buffers]

(* Types of the state: flags are 0 or 1, the error counter stays below     *)
(* MAX_ERRORS, and the transfer position of a request stays within the two *)
(* sectors of its buffer.                                                  *)
TypeOK ==
    /\ request_list \in [Slots -> Request]
    /\ queue \in Seq(Slots)
    /\ b_lock \in [Buffers -> Flag]
    /\ b_uptodate \in [Buffers -> Flag]
    /\ b_dirt \in [Buffers -> Flag]
    /\ b_data \in [Buffers -> [Half -> Values]]
    /\ reset \in Flag /\ recalibrate \in Flag
    /\ handler \in {"none", "read_intr", "write_intr", "recal_intr"}
    /\ hd \in [cmd : {"none", "READ", "WRITE", "SPECIFY", "RESTORE"},
               phase : {"idle", "wait", "busy", "ok", "err", "abort"},
               lba : Nat, left : 0..2, data : Values]
    /\ disk \in [Sectors -> Values]
    /\ intr \in Flag
    /\ work \in Seq(Steps)
    /\ held \in SUBSET Buffers
    /\ pc \in [main : {"next", "wait", "ll_rw", "repeat", "do_hd", "drq", "reentered", "halt"},
               irq : {"idle", "do_hd", "drq"}]

Queued == {queue[i] : i \in 1..Len(queue)}

(* The queue reaches every request in use exactly once and no free one.    *)
QueueHoldsRequests ==
    /\ \A i, j \in 1..Len(queue) : queue[i] = queue[j] => i = j
    /\ \A s \in Slots : request_list[s].dev >= 0 <=> s \in Queued

Submitting(b) == pc.main = "repeat" /\ work # <<>> /\ bh = b

(* A buffer is locked exactly while one request carries it, or while       *)
(* ll_rw_block looks for a request for it: no lock is lost or leaked and   *)
(* no buffer is queued twice.                                              *)
LockedMeansQueued ==
    \A b \in Buffers :
        /\ b_lock[b] = 1 <=> Submitting(b) \/ \E s \in Queued : request_list[s].bh = b
        /\ Submitting(b) => \A s \in Queued : request_list[s].bh # b
        /\ \A s, t \in Queued :
              request_list[s].bh = b /\ request_list[t].bh = b => s = t

(* lock_buff does not wait for the lock; its callers must have done so.    *)
NeverLockedTwice == pc.main = "ll_rw" => work # <<>> /\ b_lock[bh] = 0

(* add_request runs the driver with interrupts enabled.  What keeps the    *)
(* handler out of it is that no command is under way; the one interrupt    *)
(* that can still come is that of a WRITE the drive refused before it      *)
(* asked for data, through write_intr.                                     *)
Active == hd.phase \in {"busy", "ok", "err"}
OnlyAbortReenters ==
    pc.main \in {"do_hd", "drq"} =>
        /\ pc.irq = "idle"
        /\ ~Active
        /\ hd.phase = "abort" => hd.cmd = "WRITE" /\ handler = "write_intr"

(* blk_main.c: add_request "disables interrupts so that it can muck with   *)
(* the request-lists in peace": the handler never runs the driver, which   *)
(* removes requests, while main runs it from there.                        *)
InPeace == pc.main \in {"do_hd", "drq", "reentered"} => pc.irq = "idle"

(* A command under way belongs to the current request: the handlers and    *)
(* the polling loop dereference current_request, and its buffer is locked. *)
(* Only write_intr_abort may find another request, or none.                *)
InDrq == \E c \in DOMAIN pc : pc[c] = "drq"
CommandHasRequest ==
    Active \/ InDrq =>
        /\ queue # <<>>
        /\ b_lock[Current.bh] = 1
        /\ ~InDrq => pc.irq = "idle"
        /\ handler = "read_intr" => Current.cmd = READ /\ hd.cmd = "READ"
        /\ handler = "write_intr" => Current.cmd = WRITE /\ hd.cmd = "WRITE"
        /\ InDrq => handler = "write_intr" /\ hd.phase \in {"wait", "abort"}

(* A buffer that is unlocked, up to date and clean has the content of its  *)
(* block on the drive, whatever errors, retries and changes during the     *)
(* transfer there were.                                                    *)
CleanCopy ==
    \A b \in Buffers :
        b_lock[b] = 0 /\ b_uptodate[b] = 1 /\ b_dirt[b] = 0 =>
            InPartition(b) /\ \A h \in Half : b_data[b][h] = disk[Home(b, h)]

(* The elevator keeps the queue in at most two ascending sweeps.           *)
Descent(i) == ~IN_ORDER(request_list[queue[i]], request_list[queue[i + 1]])
TwoSweeps ==
    \A i, j \in 1..(Len(queue) - 1) : Descent(i) /\ Descent(j) => i = j

(* blk_main.c, hd.c: seen from the cache, requests, retries, resumed        *)
(* transfers and the interrupt handler are a device that transfers blocks  *)
(* in the background: nothing of a transfer happens after its end, a       *)
(* success means agreement, and a failure leaves old or new sectors.       *)
Pending == [b \in Buffers |->
    {request_list[s].cmd : s \in {t \in Queued : request_list[t].bh = b}}]
Present == {b \in Buffers : InPartition(b)}
Content(d) == [b \in Present |-> [h \in Half |-> d[Home(b, h)]]]
Nothing == [bh |-> 0, half |-> 0, data |-> Zero]
Sending == IF hd.phase = "busy" /\ hd.cmd = "WRITE"
           THEN [bh |-> Current.bh, half |-> Current.buffer, data |-> hd.data]
           ELSE Nothing
Device == INSTANCE BlockDevice WITH pending <- Pending, block <- Content(disk),
                                    sending <- Sending, Empty <- memory0,
                                    Blank <- Content(disk0)
ImplementsDevice == Device!Spec

(* Nothing is put before the request the driver works on; the queue only   *)
(* moves on when that request ends.                                        *)
CurrentStays ==
    [][queue # <<>> /\ queue' # <<>> /\ Head(queue') # Head(queue) => queue' = Tail(queue)]_vars

(* A locked buffer is unlocked some day: the driver never forgets a        *)
(* request, and main never waits with interrupts disabled.                 *)
EveryLockEnds == \A b \in Buffers : b_lock[b] = 1 ~> b_lock[b] = 0

(* hd.c: MAX_ERRORS is "Max read/write errors/sector": a request for a     *)
(* block of the partition is given up only after that many errors.         *)
GivesUpAtMaxErrors ==
    [][\A s \in Queued :
        /\ request_list[s].dev >= 0 /\ request_list'[s].dev < 0
        /\ InPartition(request_list[s].bh)
        /\ b_uptodate'[request_list[s].bh] = 0
        => request_list[s].errors + 1 >= MAX_ERRORS]_vars

(* fs.h: b_dirt is 0 for a clean buffer: a buffer in use that is unlocked  *)
(* and not marked dirty has no change that is not on the drive.            *)
NotDirtyMeansWritten ==
    \A b \in held :
        b_lock[b] = 0 /\ b_dirt[b] = 0 => \A h \in Half : b_data[b][h] = disk[Home(b, h)]

=============================================================================
