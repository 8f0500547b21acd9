---------------------------- MODULE Interrupts ----------------------------
(***************************************************************************)
(* Hardware interrupts: the descriptor table of idt.c, the stubs and       *)
(* irq_handler of irq.c, and the two interrupt controllers as that code    *)
(* programs them: edge triggered, the slave behind line 2 of the master,   *)
(* lower lines first, and each line in service until an "end of interrupt" *)
(* names no line and ends the first one.                                   *)
(***************************************************************************)
EXTENDS Integers, FiniteSets

CONSTANT Lines               \* lines that have a device; line 2 is the slave

LinesConstants == Lines \subseteq (0..15 \ {2})

VARIABLES gates,             \* entries of idt[] that are present
          vectors,           \* the first vector of master and slave
          irq_routines,
          interrupt_flag,    \* of the processor
          irr, in_service,   \* requested and acknowledged lines, of both controllers
          handling           \* the line whose stub runs, and how far; -1 for none

hardware == <<irr, in_service>>

Vector(line) == IF line < 8 THEN vectors.master + line ELSE vectors.slave + line - 8

(* The order of the lines, first to last: 0, 1, 8 to 15, 3 to 7. *)
Before(a, b) == LET rank(line) == IF line < 2 THEN line ELSE IF line > 7 THEN line - 6 ELSE line + 7
                IN  rank(a) < rank(b)

(* Lines that may be acknowledged: nothing in service comes before them,   *)
(* and for the slave no line of it is in service.  The master sees the     *)
(* slave as its line 2.                                                    *)
MasterLine(line) == IF line < 8 THEN line ELSE 2
Deliverable ==
    {line \in irr : /\ \A s \in in_service : s < 8 => MasterLine(line) < s
                    /\ line > 7 => \A s \in in_service : s > 7 => line < s}

Init ==
    /\ gates = {} /\ vectors = [master |-> 8, slave |-> 112]
    /\ irq_routines = [line \in 0..15 |-> "none"]
    /\ interrupt_flag = 0
    /\ irr = {} /\ in_service = {}
    /\ handling = [line |-> -1, stage |-> "none"]

-----------------------------------------------------------------------------
(* Setting up. *)

idt_install == /\ gates' = {}
               /\ UNCHANGED <<vectors, irq_routines, interrupt_flag, hardware, handling>>

isrs_install == /\ gates' = gates \cup 0..31
                /\ UNCHANGED <<vectors, irq_routines, interrupt_flag, hardware, handling>>

(* The first command word to a controller forgets what was requested; the  *)
(* mask is then 0.                                                         *)
irq_remap == /\ vectors' = [master |-> 32, slave |-> 40]
             /\ irr' = {}

irq_install == /\ irq_remap
               /\ gates' = gates \cup 32..47
               /\ UNCHANGED <<irq_routines, interrupt_flag, in_service, handling>>

irq_install_handler(line, routine) ==
    /\ irq_routines' = [irq_routines EXCEPT ![line] = routine]
    /\ UNCHANGED <<gates, vectors, hardware, handling>>

(* cli and sti of main. *)
set_interrupt_flag(flag) ==
    /\ interrupt_flag' = flag
    /\ UNCHANGED <<gates, vectors, irq_routines, hardware, handling>>

-----------------------------------------------------------------------------
(* An interrupt. *)

raise(line) == /\ irr' = irr \cup {line}
               /\ UNCHANGED <<gates, vectors, irq_routines, interrupt_flag, in_service, handling>>

(* Changed: a trap gate, and no cli. *)
irq_stub_trap(line) == /\ handling' = [line |-> line, stage |-> "entry"]
                       /\ UNCHANGED <<gates, vectors, irq_routines, interrupt_flag>>

(* The gate is an interrupt gate (0x8E), and the stub begins with cli. *)
irq_stub(line) == /\ interrupt_flag' = 0
                  /\ handling' = [line |-> line, stage |-> "entry"]
                  /\ UNCHANGED <<gates, vectors, irq_routines>>

acknowledge ==
    /\ interrupt_flag = 1
    /\ \E line \in Deliverable :
          /\ \A other \in Deliverable : other = line \/ Before(line, other)
          /\ irr' = irr \ {line}
          /\ in_service' = in_service \cup {line, MasterLine(line)}
          /\ irq_stub(line)

(* A request that is withdrawn before the controller is asked for it is    *)
(* reported as the last line of its controller, which is then not in       *)
(* service.                                                                *)
acknowledge_spurious ==
    /\ interrupt_flag = 1
    /\ \E line \in Deliverable :
          /\ irr' = irr \ {line}
          /\ in_service' = IF line < 8 THEN in_service ELSE in_service \cup {2}
          /\ irq_stub(IF line < 8 THEN 7 ELSE 15)

(* What is left in service after an end of interrupt. *)
Ended(chip) == chip \ {line \in chip : \A other \in chip : line <= other}
Slave(lines) == {line \in lines : line > 7}
Master(lines) == {line \in lines : line < 8}

(* Changed: int_no > 40, as the comment says. *)
irq_handler_eoi_above ==
    LET slave == IF Vector(handling.line) > 40 THEN Ended(Slave(in_service))
                                               ELSE Slave(in_service)
    IN  /\ handling.stage = "entry"
        /\ in_service' = slave \cup Ended(Master(in_service))
        /\ handling' = [handling EXCEPT !.stage = "routine"]
        /\ UNCHANGED <<gates, vectors, irq_routines, interrupt_flag, irr>>

(* Changed: only one of the controllers is told. *)
irq_handler_eoi_one ==
    /\ handling.stage = "entry"
    /\ in_service' = IF Vector(handling.line) >= 40
                     THEN Ended(Slave(in_service)) \cup Master(in_service)
                     ELSE Slave(in_service) \cup Ended(Master(in_service))
    /\ handling' = [handling EXCEPT !.stage = "routine"]
    /\ UNCHANGED <<gates, vectors, irq_routines, interrupt_flag, irr>>

(* irq_handler: outb(0x20, 0xA0) for the slave, outb(0x20, 0x20). *)
irq_handler_eoi ==
    LET slave == IF Vector(handling.line) >= 40 THEN Ended(Slave(in_service))
                                                ELSE Slave(in_service)
    IN  /\ handling.stage = "entry"
        /\ in_service' = slave \cup Ended(Master(in_service))
        /\ handling' = [handling EXCEPT !.stage = "routine"]
        /\ UNCHANGED <<gates, vectors, irq_routines, interrupt_flag, irr>>

(* handler = irq_routines[r->int_no - 32] *)
Routine == irq_routines[Vector(handling.line) - 32]

(* The routine has returned, or there is none: popa, iret. *)
irq_return ==
    /\ handling.stage \in {"routine", "done"}
    /\ interrupt_flag' = 1
    /\ handling' = [line |-> -1, stage |-> "none"]
    /\ UNCHANGED <<gates, vectors, irq_routines, hardware>>

=============================================================================
