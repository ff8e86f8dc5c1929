-------------------------------- MODULE Rtc --------------------------------
(***************************************************************************)
(* The real-time clock driver, rtc.c, with the MC146818 clock and the     *)
(* 8259 controllers (Pic) it raises IRQ 8 through.                        *)
(*                                                                        *)
(* The clock: register A's low nibble selects the periodic rate, bit 6 of *)
(* register B (PIE) enables the periodic interrupt, and pf is the         *)
(* periodic flag of register C: set by a tick, it holds the IRQ 8 line    *)
(* high until register C is read, so the controller sees a new edge only  *)
(* after a read.  The driver: intflag, which the interrupt handler sets   *)
(* and rtc_read spins on.  rtc_read runs with interrupts enabled, so the  *)
(* handler can run between its test of intflag and its clearing of it;   *)
(* reader is where rtc_read is.  rtc_open, rtc_write and the handler run  *)
(* with interrupts disabled and are single steps.  Around the RTC, other *)
(* devices raise their IRQs and other code enables and disables lines.   *)
(***************************************************************************)
EXTENDS Pic

CONSTANT Freqs        \* frequencies passed to rtc_write

VARIABLES
    regA, regB, pf,   \* the clock's registers A and B, and register C's flag
    intflag,          \* rtc.c: set by the handler, consumed by rtc_read
    reader,           \* "idle", "spin" (testing intflag) or "seen" (found it 1)
    ret,              \* the last value rtc_write returned
    opened,           \* rtc_open has run (callers read only an opened RTC)
    requested,        \* ghost: the rate the last open or write asked for
    ticks             \* ghost: handler runs since the last rtc_read returned
                      \*        or rtc_init ran, capped at 2

rtc_vars == <<regA, regB, pf, intflag, reader, ret, opened, requested, ticks>>
vars == <<rtc_vars, pic_vars>>

REG_B_PIE == 6        \* MASK_RTC: bit 6 of register B
RTC_IRQ == 8
Supported == {2, 4, 8, 16, 32, 64, 128, 256, 512, 1024}

\* The rate register value to the periodic interrupt frequency (MC146818,
\* 32.768 kHz time base): 0 is off, 1 and 2 give 256 and 128 Hz, and r >= 3
\* gives 2^(16 - r) Hz.
RateHz(r) == CASE r = 0 -> 0 [] r \in {1, 2} -> 2^(9 - r) [] OTHER -> 2^(16 - r)

Periodic == BitSet(regB, REG_B_PIE) /\ regA % 16 # 0

\* rtc_write's chain of comparisons turning a frequency into a rate.  The
\* test for 256 is the assignment "frequency = 256", whose value is true:
\* every frequency not matched before it takes rate 1.
rtc_write_code(f) ==
    CASE f = 2   -> 15 [] f = 4  -> 14 [] f = 8  -> 13 [] f = 16  -> 12
      [] f = 32  -> 11 [] f = 64 -> 10 [] f = 128 -> 2
      [] OTHER   -> 1

\* outb((tempA & 0xF0) | frequency): the new register A (the int -1 would
\* be written as 0xFF).
ProgramRate(a, code) == (a & 240) | (code % 256)

\* rtc_init's rate: register A to rate 0x0F (2 Hz).
rtc_init_rate(a) == ProgramRate(a, 15)

\* The rest of rtc_init: PIE on (if the periodic flag is already set the
\* IRQ line rises now), enable_irq(8), intflag = 0.  rtc_call_count is
\* never read and is not modelled.
rtc_init ==
    /\ regB' = SetBit(regB, REG_B_PIE)
    /\ irr' = IF pf /\ ~BitSet(regB, REG_B_PIE) THEN irr \cup {RTC_IRQ} ELSE irr
    /\ master_mask' = enable_irq(RTC_IRQ)[1] /\ slave_mask' = enable_irq(RTC_IRQ)[2]
    /\ intflag' = 0
    /\ ticks' = 0

RtcTypeOK ==
    /\ regA \in 0..255 /\ regB \in 0..255 /\ pf \in BOOLEAN
    /\ intflag \in {0, 1}
    /\ reader \in {"idle", "spin", "seen"}
    /\ opened \in BOOLEAN /\ requested \in Supported /\ ticks \in 0..2

\* After the BIOS: register A 0x26 (32.768 kHz base, 1024 Hz), register B
\* 0x02 (periodic interrupt off); the periodic flag may be set already.
Init ==
    /\ PicInit
    /\ regA = 38 /\ regB = 2 /\ pf \in BOOLEAN
    /\ intflag = 0 /\ reader = "idle" /\ ret = 0
    /\ opened = FALSE /\ requested = 1024 /\ ticks = 0

\* rtc_init called on its own (at boot and by the tests).
RtcInit ==
    /\ reader = "idle"
    /\ rtc_init
    /\ regA' = rtc_init_rate(regA)
    /\ UNCHANGED <<pf, reader, ret, opened, master_isr, slave_isr, cpu>>
    /\ requested' = 2

\* rtc_open: rtc_init, then rtc_write(2), with interrupts off; returns 0.
RtcOpen ==
    /\ reader = "idle"
    /\ rtc_init
    /\ regA' = ProgramRate(rtc_init_rate(regA), rtc_write_code(2))
    /\ ret' = 0 /\ opened' = TRUE /\ requested' = 2
    /\ UNCHANGED <<pf, reader, master_isr, slave_isr, cpu>>

\* rtc_write(&f, 4) with interrupts off: program the rate and return it.
RtcWrite(f) ==
    /\ reader = "idle"
    /\ regA' = ProgramRate(regA, rtc_write_code(f))
    /\ ret' = rtc_write_code(f)
    /\ requested' = IF f \in Supported THEN f ELSE requested
    /\ UNCHANGED <<regB, pf, intflag, reader, opened, ticks, pic_vars>>

\* rtc_close does nothing and returns 0.
RtcClose ==
    /\ reader = "idle"
    /\ ret' = 0
    /\ UNCHANGED <<regA, regB, pf, intflag, reader, opened, requested, ticks, pic_vars>>

\* A period of the clock ends: the periodic flag is set; with PIE on the
\* IRQ 8 line rises (an edge only if the flag was clear).
Tick ==
    /\ regA % 16 # 0
    /\ ~pf
    /\ pf' = TRUE
    /\ irr' = IF BitSet(regB, REG_B_PIE) THEN irr \cup {RTC_IRQ} ELSE irr
    /\ UNCHANGED <<regA, regB, intflag, reader, ret, opened, requested, ticks,
                   master_mask, slave_mask, master_isr, slave_isr, cpu>>

\* The CPU takes IRQ 8 and runs rtc_interrupt_handler to its end with
\* interrupts off: intflag = 1, read register C (the flag clears and the
\* line falls), send_eoi(8).  Variant: the handler does not read C.
RtcInterruptNoRegC ==
    LET ack == Acknowledge(RTC_IRQ)
    IN /\ cpu = NoIrq /\ Deliverable(RTC_IRQ)
       /\ irr' = irr \ {RTC_IRQ}
       /\ intflag' = 1 /\ ticks' = IF ticks < 2 THEN ticks + 1 ELSE 2
       /\ UNCHANGED pf
       /\ master_isr' = send_eoi(ack[1], ack[2], RTC_IRQ)[1]
       /\ slave_isr' = send_eoi(ack[1], ack[2], RTC_IRQ)[2]
       /\ UNCHANGED <<regA, regB, reader, ret, opened, requested,
                      master_mask, slave_mask, cpu>>

RtcInterrupt ==
    LET ack == Acknowledge(RTC_IRQ)
    IN /\ cpu = NoIrq /\ Deliverable(RTC_IRQ)
       /\ irr' = irr \ {RTC_IRQ}
       /\ intflag' = 1 /\ ticks' = IF ticks < 2 THEN ticks + 1 ELSE 2
       /\ pf' = FALSE
       /\ master_isr' = send_eoi(ack[1], ack[2], RTC_IRQ)[1]
       /\ slave_isr' = send_eoi(ack[1], ack[2], RTC_IRQ)[2]
       /\ UNCHANGED <<regA, regB, reader, ret, opened, requested,
                      master_mask, slave_mask, cpu>>

\* rtc_read (callers read an opened RTC): the busy loop tests intflag and,
\* having seen 1, clears it and returns 0.  An interrupt may come between.
RtcReadStart ==
    /\ opened /\ reader = "idle"
    /\ reader' = "spin"
    /\ UNCHANGED <<regA, regB, pf, intflag, ret, opened, requested, ticks, pic_vars>>

RtcReadTest ==
    /\ reader = "spin" /\ intflag = 1
    /\ reader' = "seen"
    /\ UNCHANGED <<regA, regB, pf, intflag, ret, opened, requested, ticks, pic_vars>>

\* Variant: rtc_read returns without clearing intflag.
RtcReadClearKeepFlag ==
    /\ reader = "seen"
    /\ reader' = "idle" /\ ret' = 0 /\ ticks' = 0
    /\ UNCHANGED <<regA, regB, pf, intflag, opened, requested, pic_vars>>

RtcReadClear ==
    /\ reader = "seen"
    /\ intflag' = 0
    /\ reader' = "idle" /\ ret' = 0 /\ ticks' = 0
    /\ UNCHANGED <<regA, regB, pf, opened, requested, pic_vars>>

OtherIrqs ==
    \/ \E n \in Devices \ {RTC_IRQ} : Raise(n) \/ Interrupt(n)
    \/ Eoi
    \/ \E n \in Requests : EnableIrq(n) \/ DisableIrq(n)

\* The RTC's actions, and around them the other devices' interrupts (a
\* generic handler that ends with send_eoi) and other code's calls of
\* enable_irq / disable_irq.
Next ==
    \/ RtcInit \/ RtcOpen \/ RtcClose \/ \E f \in Freqs : RtcWrite(f)
    \/ Tick \/ RtcInterrupt
    \/ RtcReadStart \/ RtcReadTest \/ RtcReadClear
    \/ OtherIrqs /\ UNCHANGED rtc_vars

\* The clock keeps ticking while its rate is non-zero; a handler runs to
\* its end; the CPU, which runs kernel code (rtc_read's loop included)
\* with interrupts enabled, takes a request the controllers keep
\* presenting whenever no handler runs (strong fairness: another device's
\* handler may hold the CPU at times); the loop keeps running.
Fairness ==
    /\ WF_vars(Tick) /\ WF_vars(Eoi /\ UNCHANGED rtc_vars)
    /\ SF_vars(RtcInterrupt)
    /\ \A n \in Devices \ {RTC_IRQ} : SF_vars(Interrupt(n) /\ UNCHANGED rtc_vars)
    /\ WF_vars(RtcReadTest) /\ WF_vars(RtcReadClear)

Spec == Init /\ [][Next]_vars /\ Fairness

-----------------------------------------------------------------------------
\* rtc_read returns only after an RTC interrupt that came after the previous
\* rtc_read returned and after rtc_init last cleared intflag: a read never
\* consumes a tick twice or one from before the device was (re)opened.
ReadWaitsForTick == [][reader = "seen" /\ reader' = "idle" => ticks >= 1]_vars

\* Every rtc_read of an opened RTC returns: the clock keeps raising IRQ 8,
\* the handler re-arms it by reading register C and acknowledges it on
\* both controllers, and the loop sees the flag.
ReadReturns == reader = "spin" ~> reader = "idle"

\* spec.md: write accepts exactly the supported rates.  After rtc_write(f)
\* for a supported f the clock interrupts at f Hz, and an unsupported f
\* leaves the rate as it was.
RateMatchesRequest == opened => RateHz(regA % 16) = requested
=============================================================================
