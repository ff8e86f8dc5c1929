-------------------------------- MODULE Pic --------------------------------
(***************************************************************************)
(* The cascaded 8259 interrupt controllers and their driver, i8259.c.     *)
(* The driver keeps a copy of each chip's interrupt mask register         *)
(* (master_mask, slave_mask) and writes it to the chip on every change.   *)
(* The chips' in-service registers are modelled as the sets of their      *)
(* lines that are in service; the IRQ lines that devices assert are irr.  *)
(* A CPU takes one interrupt at a time: cpu is the IRQ whose handler is   *)
(* running, and the handler ends with send_eoi(cpu).                      *)
(***************************************************************************)
EXTENDS Integers, FiniteSets, Bitwise

CONSTANTS
    NUM_IRQ,       \* last valid IRQ number (i8259.h, not in the repository)
    ICW3_SLAVE,    \* the master line the slave is cascaded on
    Devices,       \* IRQ numbers that devices raise
    Requests,      \* IRQ numbers passed to enable_irq / disable_irq
    NoIrq          \* model value: no handler is running

VARIABLES master_mask, slave_mask, master_isr, slave_isr, irr, cpu

pic_vars == <<master_mask, slave_mask, master_isr, slave_isr, irr, cpu>>

PIC_IRQ_MASK == 255          \* all eight lines masked
ChipLines == 0..7

\* C's "mask &= ~(1 << b)" and "mask |= (1 << b)" on a uint8_t mask.
ClearBit(m, b) == m & (65535 - 2^b)
SetBit(m, b)   == (m | 2^b) % 256
BitSet(m, b)   == (m \div 2^b) % 2 = 1

\* enable_irq(irq_num): the new <<master_mask, slave_mask>>.
enable_irq(n) ==
    CASE n > NUM_IRQ -> <<master_mask, slave_mask>>
      [] n > 7       -> <<ClearBit(master_mask, ICW3_SLAVE), ClearBit(slave_mask, n - 8)>>
      [] OTHER       -> <<ClearBit(master_mask, n), slave_mask>>

\* disable_irq(irq_num): the new <<master_mask, slave_mask>>.
disable_irq(n) ==
    CASE n > NUM_IRQ -> <<master_mask, slave_mask>>
      [] n > 7       -> <<SetBit(master_mask, ICW3_SLAVE), SetBit(slave_mask, n - 8)>>
      [] OTHER       -> <<SetBit(master_mask, n), slave_mask>>

\* Variant: send_eoi(irq_num) omitting the cascade EOI to the master.
send_eoi_slave_only(mi, si, n) ==
    CASE n > NUM_IRQ -> <<mi, si>>
      [] n > 7       -> <<mi, si \ {n - 8}>>
      [] OTHER       -> <<mi \ {n}, si>>

\* send_eoi(irq_num): a specific EOI for the line on the slave and one for
\* the cascade line on the master, or one for the line on the master.
\* The in-service sets <<mi, si>> after it.
send_eoi(mi, si, n) ==
    CASE n > NUM_IRQ -> <<mi, si>>
      [] n > 7       -> <<mi \ {ICW3_SLAVE}, si \ {n - 8}>>
      [] OTHER       -> <<mi \ {n}, si>>

\* Whether IRQ n reaches the CPU when asserted: its mask bit and, for a
\* slave line, the cascade line's mask bit are clear.
LineOpen(n) ==
    IF n > 7 THEN ~BitSet(slave_mask, n - 8) /\ ~BitSet(master_mask, ICW3_SLAVE)
             ELSE ~BitSet(master_mask, n)

\* Fully nested mode: a line is blocked while it or a line of higher
\* priority (a lower number) on the same chip is in service.
Blocked(isr, line) == \E l \in isr : l <= line

Deliverable(n) ==
    /\ n \in irr
    /\ LineOpen(n)
    /\ IF n > 7 THEN ~Blocked(slave_isr, n - 8) /\ ~Blocked(master_isr, ICW3_SLAVE)
                ELSE ~Blocked(master_isr, n)

\* The chips' acknowledge cycle: the line's in-service bit is set (for a
\* slave line, the cascade line's on the master as well).
Acknowledge(n) ==
    IF n > 7 THEN <<master_isr \cup {ICW3_SLAVE}, slave_isr \cup {n - 8}>>
             ELSE <<master_isr \cup {n}, slave_isr>>

PicTypeOK ==
    /\ master_mask \in 0..255 /\ slave_mask \in 0..255
    /\ master_isr \subseteq ChipLines /\ slave_isr \subseteq ChipLines
    /\ irr \subseteq Devices
    /\ cpu \in Devices \cup {NoIrq}

\* Boot: the masks' static initialisers and i8259_init, which masks both
\* chips before programming them; nothing is asserted or in service.
PicInit ==
    /\ master_mask = PIC_IRQ_MASK /\ slave_mask = PIC_IRQ_MASK
    /\ master_isr = {} /\ slave_isr = {}
    /\ irr = {} /\ cpu = NoIrq

\* enable_irq(n) and disable_irq(n), called by any kernel code.
EnableIrq(n) ==
    /\ master_mask' = enable_irq(n)[1] /\ slave_mask' = enable_irq(n)[2]
    /\ UNCHANGED <<master_isr, slave_isr, irr, cpu>>

DisableIrq(n) ==
    /\ master_mask' = disable_irq(n)[1] /\ slave_mask' = disable_irq(n)[2]
    /\ UNCHANGED <<master_isr, slave_isr, irr, cpu>>

\* A device asserts its IRQ line.
Raise(n) ==
    /\ n \notin irr
    /\ irr' = irr \cup {n}
    /\ UNCHANGED <<master_mask, slave_mask, master_isr, slave_isr, cpu>>

\* With interrupts enabled (no handler running), the CPU takes a
\* deliverable request: the chips set the in-service bits and the
\* request is cleared (edge-triggered).
Interrupt(n) ==
    /\ cpu = NoIrq
    /\ Deliverable(n)
    /\ irr' = irr \ {n}
    /\ master_isr' = Acknowledge(n)[1] /\ slave_isr' = Acknowledge(n)[2]
    /\ cpu' = n
    /\ UNCHANGED <<master_mask, slave_mask>>

\* The handler ends with send_eoi(its IRQ) and returns.
Eoi ==
    /\ cpu # NoIrq
    /\ master_isr' = send_eoi(master_isr, slave_isr, cpu)[1]
    /\ slave_isr' = send_eoi(master_isr, slave_isr, cpu)[2]
    /\ cpu' = NoIrq
    /\ UNCHANGED <<master_mask, slave_mask, irr>>

PicNext ==
    \/ \E n \in Requests : EnableIrq(n) \/ DisableIrq(n)
    \/ \E n \in Devices : Raise(n) \/ Interrupt(n)
    \/ Eoi

\* The handler runs to its end (weak fairness); a request the chips keep
\* presenting whenever the CPU is between handlers is taken (strong
\* fairness: the CPU checks for interrupts between instructions).
PicFairness == WF_pic_vars(Eoi) /\ \A n \in Devices : SF_pic_vars(Interrupt(n))

PicSpec == PicInit /\ [][PicNext]_pic_vars /\ PicFairness

-----------------------------------------------------------------------------
\* Every request asserted on an open line is eventually taken by the CPU
\* (or its line is masked): the handlers' EOIs never leave a line, or the
\* cascade line, in service for good.
RequestServiced ==
    \A n \in Devices : (n \in irr /\ LineOpen(n)) ~> (n \notin irr \/ ~LineOpen(n))

\* The driver implements the interface of IrqMask: enabling or disabling
\* one IRQ never changes whether another device line reaches the CPU.
Mask == INSTANCE IrqMask WITH Lines <- Devices,
                              enabled <- {l \in Devices : LineOpen(l)}

ImplementsIrqMask == Mask!Spec
=============================================================================
