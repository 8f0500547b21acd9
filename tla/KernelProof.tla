---------------------------- MODULE KernelProof ----------------------------
(***************************************************************************)
(* Proofs about Kernel for any set of interrupt lines and any number of    *)
(* interrupts: kmain with its interrupts runs the screen driver as Console *)
(* describes it, and the controllers as irq.c leaves them.                 *)
(***************************************************************************)
EXTENDS Kernel, ConsoleProof

InterruptStages == {"none", "entry", "routine", "print", "done"}

(* Interrupts come only after kmain's calls; the line of a handler is in   *)
(* service until irq_handler has told the controllers, together with line  *)
(* 2 if it is one of the slave.  A spurious interrupt, reported as line 7  *)
(* or 15, has only line 2 in service, or none.                             *)
KInv ==
    /\ booted \in 0..6 /\ gates \in SUBSET Nat
    /\ interrupt_flag \in {0, 1} /\ irr \subseteq Lines
    /\ handling \in [line : {-1} \cup (0..15 \ {2}), stage : InterruptStages]
    /\ handling.line = -1 <=> handling.stage = "none"
    /\ booted >= 4 => vectors = [master |-> 32, slave |-> 40] /\ 32..47 \subseteq gates
    /\ interrupt_flag = 1 => booted = 6
    /\ handling.line # -1 => booted = 6 /\ interrupt_flag = 0
    /\ in_service \subseteq (IF handling.stage = "entry"
                             THEN {handling.line, IRQ!MasterLine(handling.line)} ELSE {})

-----------------------------------------------------------------------------
LEMMA KernelInitInv == KernelInit => KInv
BY DEF KernelInit, IRQ!Init, KInv, InterruptStages

LEMMA BootLength == Len(Boot) = 6 /\ Boot[1] = "idt_install" /\ Boot[2] = "init_video"
                    /\ Boot[3] = "isrs_install" /\ Boot[4] = "irq_install"
                    /\ Boot[5] = "timer_install" /\ Boot[6] = "sys_setup"
BY DEF Boot

LEMMA BootInv ==
    ASSUME KInv, kmain_boot
    PROVE  KInv'
  <1>1. booted' = booted + 1 /\ booted < 6 /\ handling.line = -1 /\ booted \in 0..5
    BY BootLength DEF kmain_boot, idt_install, init_video, isrs_install, irq_install,
                      timer_install, sys_setup, Call, Running, KInv
  <1>2. UNCHANGED <<in_service, handling>> /\ irr' \subseteq Lines
    BY DEF kmain_boot, idt_install, init_video, isrs_install, irq_install, timer_install,
           sys_setup, IRQ!idt_install, IRQ!isrs_install, IRQ!irq_install, IRQ!irq_remap,
           IRQ!irq_install_handler, IRQ!set_interrupt_flag, IRQ!hardware, interrupts, KInv
  <1>3. gates' \in SUBSET Nat
        /\ (booted' >= 4 => vectors' = [master |-> 32, slave |-> 40] /\ 32..47 \subseteq gates')
        /\ interrupt_flag' \in {0, 1} /\ (interrupt_flag' = 1 => booted' = 6)
    <2>1. CASE idt_install
      BY <1>1, <2>1, BootLength DEF idt_install, Call, IRQ!idt_install, KInv
    <2>2. CASE init_video
      BY <1>1, <2>2, BootLength DEF init_video, Call, interrupts, KInv
    <2>3. CASE isrs_install
      BY <1>1, <2>3, BootLength DEF isrs_install, Call, IRQ!isrs_install, KInv
    <2>4. CASE irq_install
      BY <1>1, <2>4, BootLength DEF irq_install, Call, IRQ!irq_install, IRQ!irq_remap, KInv
    <2>5. CASE timer_install
      BY <1>1, <2>5, BootLength DEF timer_install, Call, IRQ!irq_install_handler, KInv
    <2>6. CASE sys_setup
      BY <1>1, <2>6, BootLength DEF sys_setup, Call, IRQ!set_interrupt_flag, KInv
    <2> QED BY <2>1, <2>2, <2>3, <2>4, <2>5, <2>6 DEF kmain_boot
  <1> QED BY <1>1, <1>2, <1>3 DEF KInv, InterruptStages

(* Steps of main and of the devices that leave the handlers alone. *)
LEMMA QuietInv ==
    ASSUME KInv,
           \/ hd_out \/ main_cli \/ main_sti \/ main_printk \/ main_step \/ kmain_spin
           \/ raise \/ UNCHANGED kernel
    PROVE  KInv'
  <1>1. UNCHANGED <<gates, vectors, in_service, handling, booted>>
    BY DEF hd_out, main_cli, main_sti, main_printk, main_step, kmain_spin, raise, kernel,
           interrupts, IRQ!irq_install_handler, IRQ!set_interrupt_flag, IRQ!hardware, IRQ!raise
  <1>2. irr' \subseteq Lines
    BY DEF hd_out, main_cli, main_sti, main_printk, main_step, kmain_spin, raise, kernel,
           interrupts, IRQ!irq_install_handler, IRQ!set_interrupt_flag, IRQ!hardware, IRQ!raise, KInv
  <1>3. \/ interrupt_flag' = interrupt_flag
        \/ interrupt_flag' \in {0, 1} /\ booted = 6 /\ handling.line = -1
    BY BootLength DEF hd_out, main_cli, main_sti, main_printk, main_step, kmain_spin, raise,
           kernel, interrupts, IRQ!set_interrupt_flag, IRQ!raise, Up, Running
  <1> QED BY <1>1, <1>2, <1>3 DEF KInv

LEMMA StubInv ==
    ASSUME KInv, acknowledge \/ acknowledge_spurious
    PROVE  KInv'
  <1>1. /\ UNCHANGED <<gates, vectors, booted>> /\ interrupt_flag = 1 /\ interrupt_flag' = 0
        /\ irr' \subseteq Lines
    BY DEF acknowledge, acknowledge_spurious, Quiet, IRQ!acknowledge, IRQ!acknowledge_spurious,
           IRQ!irq_stub, KInv
  <1>2. handling.line = -1 /\ handling.stage = "none" /\ in_service = {} /\ booted = 6
    BY <1>1 DEF KInv
  <1>3. \E line \in 0..15 \ {2} :
           /\ handling' = [line |-> line, stage |-> "entry"]
           /\ in_service' \subseteq {line, IRQ!MasterLine(line)}
    <2>1. CASE acknowledge
      <3>1. PICK line \in IRQ!Deliverable :
               /\ in_service' = in_service \cup {line, IRQ!MasterLine(line)}
               /\ IRQ!irq_stub(line)
        BY <2>1 DEF acknowledge, IRQ!acknowledge
      <3>2. line \in 0..15 \ {2}
        BY LinesAssumption DEF IRQ!LinesConstants, IRQ!Deliverable, KInv
      <3> QED BY <1>2, <3>1, <3>2 DEF IRQ!irq_stub
    <2>2. CASE acknowledge_spurious
      <3>1. PICK line \in IRQ!Deliverable :
               /\ in_service' = IF line < 8 THEN in_service ELSE in_service \cup {2}
               /\ IRQ!irq_stub(IF line < 8 THEN 7 ELSE 15)
        BY <2>2 DEF acknowledge_spurious, IRQ!acknowledge_spurious
      <3>2. CASE line < 8
        BY <1>2, <3>1, <3>2 DEF IRQ!irq_stub
      <3>3. CASE ~(line < 8)
        BY <1>2, <3>1, <3>3 DEF IRQ!irq_stub, IRQ!MasterLine
      <3> QED BY <3>2, <3>3
    <2> QED BY <2>1, <2>2
  <1> QED BY <1>1, <1>2, <1>3 DEF KInv, InterruptStages

LEMMA EndOfOne ==
    ASSUME NEW n \in Nat, NEW chip \in SUBSET {n}
    PROVE  IRQ!Ended(chip) = {}
  <1> SUFFICES ASSUME NEW line \in IRQ!Ended(chip) PROVE FALSE
    OBVIOUS
  <1>1. line \in chip /\ \A other \in chip : line = n /\ other = n
    BY DEF IRQ!Ended
  <1>2. \A other \in chip : line <= other
    BY <1>1
  <1> QED BY <1>1, <1>2 DEF IRQ!Ended

(* irq_handler ends what the interrupt has put in service, at one or at    *)
(* both controllers.                                                       *)
LEMMA EndOfInterrupt ==
    ASSUME NEW line \in 0..15 \ {2}, vectors = [master |-> 32, slave |-> 40],
           in_service \subseteq {line, IRQ!MasterLine(line)}
    PROVE  /\ IRQ!Ended(IRQ!Master(in_service)) = {}
           /\ (IF IRQ!Vector(line) >= 40 THEN IRQ!Ended(IRQ!Slave(in_service))
                                         ELSE IRQ!Slave(in_service)) = {}
  <1>1. line \in Nat
    OBVIOUS
  <1>2. CASE line < 8
    <2>1. in_service \subseteq {line} /\ ~(IRQ!Vector(line) >= 40)
      BY <1>2 DEF IRQ!MasterLine, IRQ!Vector
    <2>2. IRQ!Slave(in_service) = {}
      <3> SUFFICES ASSUME NEW l \in IRQ!Slave(in_service) PROVE FALSE
        OBVIOUS
      <3>1. l \in in_service /\ l > 7
        BY DEF IRQ!Slave
      <3> QED BY <1>1, <1>2, <2>1, <3>1
    <2>3. IRQ!Master(in_service) \in SUBSET {line}
      BY <2>1 DEF IRQ!Master
    <2> QED BY <1>1, <2>1, <2>2, <2>3, EndOfOne
  <1>3. CASE line > 7
    <2>1. in_service \subseteq {line, 2} /\ IRQ!Vector(line) >= 40
      BY <1>3 DEF IRQ!MasterLine, IRQ!Vector
    <2>2. IRQ!Slave(in_service) \in SUBSET {line}
      <3> SUFFICES ASSUME NEW l \in IRQ!Slave(in_service) PROVE l = line
        OBVIOUS
      <3>1. l \in in_service /\ l > 7
        BY DEF IRQ!Slave
      <3> QED BY <2>1, <3>1
    <2>3. IRQ!Master(in_service) \in SUBSET {2}
      <3> SUFFICES ASSUME NEW l \in IRQ!Master(in_service) PROVE l = 2
        OBVIOUS
      <3>1. l \in in_service /\ l < 8
        BY DEF IRQ!Master
      <3> QED BY <1>1, <1>3, <2>1, <3>1
    <2> QED BY <1>1, <2>1, <2>2, <2>3, EndOfOne
  <1> QED BY <1>1, <1>2, <1>3

LEMMA HandlerInv ==
    ASSUME KInv, irq_handler \/ disk_printk \/ disk_puts \/ interrupt_return
    PROVE  KInv'
  <1>1. handling \in [line : {-1} \cup (0..15 \ {2}), stage : InterruptStages]
        /\ handling.stage # "none" /\ handling.line # -1 /\ booted = 6 /\ interrupt_flag = 0
        /\ UNCHANGED <<gates, vectors, irr, booted>>
    BY DEF irq_handler, disk_printk, disk_puts, interrupt_return, Quiet, IRQ!irq_handler_eoi,
           IRQ!irq_return, IRQ!hardware, KInv
  <1>2. CASE irq_handler
    <2>1. /\ handling.stage = "entry" /\ UNCHANGED interrupt_flag
          /\ handling' = [handling EXCEPT !.stage = "routine"]
          /\ in_service' = (IF IRQ!Vector(handling.line) >= 40 THEN IRQ!Ended(IRQ!Slave(in_service))
                                                               ELSE IRQ!Slave(in_service))
                           \cup IRQ!Ended(IRQ!Master(in_service))
      BY <1>2 DEF irq_handler, IRQ!irq_handler_eoi
    <2>2. in_service' = {}
      BY <1>1, <2>1, EndOfInterrupt DEF KInv
    <2> QED BY <1>1, <2>1, <2>2 DEF KInv, InterruptStages
  <1>3. CASE disk_printk \/ disk_puts
    <2>1. \E stage \in {"print", "done"} : handling' = [handling EXCEPT !.stage = stage]
      BY <1>3 DEF disk_printk, disk_puts
    <2>2. in_service' = {} /\ UNCHANGED interrupt_flag
      BY <1>3 DEF disk_printk, disk_puts, KInv
    <2> QED BY <1>1, <2>1, <2>2 DEF KInv, InterruptStages
  <1>4. CASE interrupt_return
    <2>1. /\ handling' = [line |-> -1, stage |-> "none"] /\ interrupt_flag' = 1
          /\ in_service' = {}
      BY <1>4 DEF interrupt_return, IRQ!irq_return, IRQ!hardware, KInv
    <2> QED BY <1>1, <2>1 DEF KInv, InterruptStages
  <1> QED BY <1>2, <1>3, <1>4

LEMMA KernelNextInv == KInv /\ [KernelNext]_kernel => KInv'
BY BootInv, QuietInv, StubInv, HandlerInv DEF KernelNext, kmain_boot

(* The inductive invariant of the interrupts. *)
THEOREM KernelInvariance == KernelSpec => []KInv
  <1> QED BY KernelInitInv, KernelNextInv, PTL DEF KernelSpec

(* Whenever main runs, nothing is left in service at the controllers: each *)
(* interrupt, a spurious one of the slave included, has been ended at      *)
(* every controller that counts it.                                        *)
THEOREM ServiceEnds == KernelSpec => []NothingInService
  <1>1. KInv => NothingInService
    BY DEF KInv, NothingInService, Running
  <1> QED BY <1>1, KernelInvariance, PTL

(* No interrupt comes before its gate is set and the controllers have been *)
(* moved off the vectors of the exceptions.                                *)
THEOREM GatesComeFirst == KernelSpec => []GateIsSet
  <1>1. KInv => GateIsSet
    <2> SUFFICES ASSUME KInv, handling.line # -1
                 PROVE  IRQ!Vector(handling.line) \in gates \cap 32..47
      BY DEF GateIsSet, Running
    <2>1. handling.line \in 0..15 /\ vectors = [master |-> 32, slave |-> 40]
          /\ 32..47 \subseteq gates
      BY DEF KInv
    <2> QED BY <2>1 DEF IRQ!Vector
  <1> QED BY <1>1, KernelInvariance, PTL

(* A handler begins only when none runs, although the controllers were     *)
(* told before the routine ran.                                            *)
THEOREM OneHandler == KernelSpec => HandlersDoNotNest
  <1>1. KInv /\ [KernelNext]_kernel =>
            [handling' # handling /\ handling'.stage = "entry" => Running]_kernel
    <2> SUFFICES ASSUME KInv, KernelNext, handling' # handling, handling'.stage = "entry"
                 PROVE  Running
      OBVIOUS
    <2>1. CASE acknowledge \/ acknowledge_spurious
      BY <2>1 DEF acknowledge, acknowledge_spurious, IRQ!acknowledge, IRQ!acknowledge_spurious,
             KInv, Running
    <2>2. CASE irq_handler \/ disk_printk \/ disk_puts \/ interrupt_return
      BY <2>2 DEF irq_handler, disk_printk, disk_puts, interrupt_return, IRQ!irq_handler_eoi,
             IRQ!irq_return, KInv
    <2>3. CASE kmain_boot
      BY <2>3 DEF kmain_boot, idt_install, init_video, isrs_install, irq_install,
             timer_install, sys_setup, IRQ!idt_install, IRQ!isrs_install, IRQ!irq_install,
             IRQ!irq_install_handler, IRQ!set_interrupt_flag, interrupts
    <2>4. CASE hd_out \/ main_cli \/ main_sti \/ main_printk \/ main_step \/ kmain_spin \/ raise
      BY <2>4 DEF hd_out, main_cli, main_sti, main_printk, main_step, kmain_spin, raise, kernel,
             interrupts, IRQ!irq_install_handler, IRQ!set_interrupt_flag, IRQ!raise
    <2> QED BY <2>1, <2>2, <2>3, <2>4 DEF KernelNext, kmain_boot
  <1> QED BY <1>1, KernelInvariance, PTL DEF KernelSpec, HandlersDoNotNest

-----------------------------------------------------------------------------
(* The kernel uses the screen driver in no other way than Console allows:  *)
(* main and the handler print only between each other's steps, and the     *)
(* rest of the kernel leaves cursor, screen and buffer alone.              *)
THEOREM KernelRunsConsole == KernelSpec => Spec
  <1>1. KernelInit => Init
    BY DEF KernelInit
  <1>2. [KernelNext]_kernel => [Next]_vars
    <2> SUFFICES ASSUME KernelNext PROVE Next \/ UNCHANGED vars
      BY DEF kernel
    <2>1. CASE main_printk
      BY <2>1 DEF main_printk, Next
    <2>2. CASE main_step
      BY <2>2 DEF main_step, Next
    <2>3. CASE disk_printk
      BY <2>3 DEF disk_printk, Next
    <2>4. CASE disk_puts
      BY <2>4 DEF disk_puts, Next
    <2>5. CASE kmain_boot
      BY <2>5 DEF kmain_boot, idt_install, init_video, isrs_install, irq_install,
             timer_install, sys_setup
    <2>6. CASE hd_out \/ main_cli \/ main_sti \/ kmain_spin \/ raise
      BY <2>6 DEF hd_out, main_cli, main_sti, kmain_spin, raise, kernel
    <2>7. CASE acknowledge \/ acknowledge_spurious \/ irq_handler \/ interrupt_return
      BY <2>7 DEF acknowledge, acknowledge_spurious, irq_handler, interrupt_return, Quiet
    <2> QED BY <2>1, <2>2, <2>3, <2>4, <2>5, <2>6, <2>7 DEF KernelNext, kmain_boot
  <1> QED BY <1>1, <1>2, PTL DEF KernelSpec, Spec

(* So the screen driver stays within its memory and shows what was printed *)
(* in the whole kernel, under the interrupts that its controllers deliver. *)
THEOREM KernelPrintsSafely ==
    KernelSpec => [](TypeOK /\ FindsEnd /\ StaysInVideo /\ CursorOnScreen /\ ShowsOutput)
BY KernelRunsConsole, ConsoleTypes, StringEnds, StoresInVideo, CursorReturns,
   ScreenShowsOutput, PTL

=============================================================================
