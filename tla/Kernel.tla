------------------------------ MODULE Kernel ------------------------------
(***************************************************************************)
(* kmain, which sets up interrupts and screen and then runs the rest of    *)
(* the kernel, composed of Interrupts and Console: the routine of the disk *)
(* prints between any two steps of a printk of main.                       *)
(***************************************************************************)
EXTENDS Console, FiniteSets

CONSTANTS Lines,
          MaxInterrupts,     \* bound on the interrupts raised
          MaxOutput          \* bound on the characters printed

VARIABLES gates, vectors, irq_routines, interrupt_flag, irr, in_service, handling,
          booted,            \* the calls of kmain that are done
          raised             \* the interrupts raised so far

IRQ == INSTANCE Interrupts

ASSUME LinesAssumption == IRQ!LinesConstants
ASSUME BoundsAssumption == MaxInterrupts \in Nat /\ MaxOutput \in Nat

interrupts == <<gates, vectors, irq_routines, interrupt_flag, irr, in_service, handling>>
kernel == <<vars, interrupts, booted, raised>>

Boot == <<"idt_install", "init_video", "isrs_install", "irq_install", "timer_install",
          "sys_setup">>

KernelInit ==
    /\ Init
    /\ IRQ!Init
    /\ booted = 0 /\ raised = 0

Running == handling.line = -1

-----------------------------------------------------------------------------
(* kmain.  Interrupts are disabled until the first sti, which is in the    *)
(* lock_buff of the first block that sys_setup reads.                      *)
Call(name) == Running /\ Idle /\ booted < Len(Boot) /\ Boot[booted + 1] = name
              /\ booted' = booted + 1 /\ UNCHANGED raised

idt_install == Call("idt_install") /\ IRQ!idt_install /\ UNCHANGED vars
init_video == Call("init_video") /\ UNCHANGED <<vars, interrupts>>
isrs_install == Call("isrs_install") /\ IRQ!isrs_install /\ UNCHANGED vars
irq_install == Call("irq_install") /\ IRQ!irq_install /\ UNCHANGED vars
timer_install ==
    /\ Call("timer_install")
    /\ IRQ!irq_install_handler(0, "timer_handler")
    /\ UNCHANGED <<vars, interrupt_flag>>
sys_setup ==
    /\ Call("sys_setup")
    /\ IRQ!set_interrupt_flag(1)
    /\ UNCHANGED vars

Up == Running /\ booted = Len(Boot)

(* The first command to the disk: until then an interrupt 14 finds no      *)
(* routine.                                                                *)
hd_out ==
    /\ Up /\ Idle
    /\ IRQ!irq_install_handler(14, "read_intr")
    /\ UNCHANGED <<vars, interrupt_flag, booted, raised>>

(* lock_buff, wait_on_buff and add_request disable and enable interrupts,  *)
(* some of them around a printk.                                           *)
main_cli == Up /\ Idle /\ interrupt_flag = 1 /\ IRQ!set_interrupt_flag(0)
            /\ UNCHANGED <<vars, booted, raised>>
main_sti == Up /\ Idle /\ interrupt_flag = 0 /\ IRQ!set_interrupt_flag(1)
            /\ UNCHANGED <<vars, booted, raised>>

main_printk == /\ Running /\ booted >= Len(Boot) - 1
               /\ \E text \in Texts : /\ Len(output) + Len(text) <= MaxOutput
                                       /\ printk(text)
               /\ UNCHANGED <<interrupts, booted, raised>>

main_step == Running /\ MainStep /\ UNCHANGED <<interrupts, booted, raised>>

(* for (;;) *)
kmain_spin == Up /\ Idle /\ UNCHANGED kernel

-----------------------------------------------------------------------------
(* Devices and interrupts. *)

raise == /\ raised < MaxInterrupts /\ raised' = raised + 1
         /\ \E line \in Lines \ irr : IRQ!raise(line)
         /\ UNCHANGED <<vars, booted>>

Quiet == UNCHANGED <<vars, booted, raised>>
acknowledge == IRQ!acknowledge /\ Quiet
acknowledge_spurious == IRQ!acknowledge_spurious /\ Quiet
irq_handler == IRQ!irq_handler_eoi /\ Quiet

(* The routine of the disk reports an error, or is done.  The timer's      *)
(* only counts its ticks.                                                  *)
disk_printk ==
    /\ handling.stage = "routine" /\ IRQ!Routine = "read_intr"
    /\ \E text \in HandlerTexts : /\ Len(output) + Len(text) <= MaxOutput
                                   /\ handler_printk(text)
    /\ handling' = [handling EXCEPT !.stage = "print"]
    /\ UNCHANGED <<gates, vectors, irq_routines, interrupt_flag, irr, in_service, booted, raised>>

disk_puts ==
    /\ handling.stage = "print"
    /\ handler_puts
    /\ handling' = [handling EXCEPT !.stage = IF handler' = -1 THEN "done" ELSE "print"]
    /\ UNCHANGED <<gates, vectors, irq_routines, interrupt_flag, irr, in_service, booted, raised>>

interrupt_return == IRQ!irq_return /\ Quiet

-----------------------------------------------------------------------------
KernelNext ==
    \/ idt_install \/ init_video \/ isrs_install \/ irq_install \/ timer_install \/ sys_setup
    \/ hd_out \/ main_cli \/ main_sti \/ main_printk \/ main_step \/ kmain_spin
    \/ raise \/ acknowledge \/ acknowledge_spurious
    \/ irq_handler \/ disk_printk \/ disk_puts \/ interrupt_return

KernelSpec == KernelInit /\ [][KernelNext]_kernel

kmain_boot == \/ idt_install \/ init_video \/ isrs_install
              \/ irq_install \/ timer_install \/ sys_setup
handler_step == irq_handler \/ disk_puts \/ interrupt_return

(* kmain gets through its calls, and a context that runs goes on; every    *)
(* cli of main is followed by an sti; and with interrupts enabled again    *)
(* and again, the processor takes a pending one.                           *)
KernelFairness ==
    /\ WF_kernel(kmain_boot) /\ WF_kernel(main_step) /\ WF_kernel(handler_step)
    /\ SF_kernel(main_sti)
    /\ SF_kernel(acknowledge \/ acknowledge_spurious)

KernelLiveSpec == KernelSpec /\ KernelFairness

(* irq.c:238-246: whenever main runs, nothing is left in service that      *)
(* would keep later interrupts away, also after an interrupt that the      *)
(* controller reports although its request is gone.                        *)
NothingInService == Running => in_service = {}

(* kernel.c:13-20: no interrupt comes before its gate is set and the       *)
(* controllers are moved off the vectors of the exceptions, and            *)
(* irq_handler's index into irq_routines is in range.                      *)
GateIsSet == ~Running => IRQ!Vector(handling.line) \in gates \cap 32..47

(* irq.c:241: the controllers are told before the routine has run, so only *)
(* the processor's flag keeps the next interrupt out of it.                *)
HandlersDoNotNest ==
    [][handling' # handling /\ handling'.stage = "entry" => Running]_kernel

(* "If you don't send an EOI, you won't raise any more IRQs": each request *)
(* is answered some day.                                                   *)
EveryRequestAnswered == \A line \in Lines : line \in irr ~> line \notin irr

=============================================================================
