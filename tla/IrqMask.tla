------------------------------ MODULE IrqMask ------------------------------
(***************************************************************************)
(* What the interrupt-controller interface promises its callers: a set of *)
(* enabled device IRQ lines.  enable_irq(n) adds n, disable_irq(n)        *)
(* removes n, and no call changes whether any OTHER line is enabled; an   *)
(* IRQ number past the last line changes nothing (a stuttering step).     *)
(***************************************************************************)
CONSTANT Lines     \* the device IRQ lines (0..15 without the cascade line 2)

VARIABLE enabled

Init == enabled = {}

Enable(n) == enabled' = enabled \cup {n}

Disable(n) == enabled' = enabled \ {n}

Next == \E n \in Lines : Enable(n) \/ Disable(n)

Spec == Init /\ [][Next]_enabled
=============================================================================
