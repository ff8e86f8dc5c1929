\* IRQ 8 only; rtc_write gets the frequencies of RtcMC.
CONSTANTS
    NUM_IRQ = 15
    ICW3_SLAVE = 2
    Devices = {1, 8}
    Requests = {1, 16}
    NoIrq = NoIrq
    Freqs <- MC_Freqs

SPECIFICATION Spec

\* A read that never sees a tick spins in rtc_read's loop without changing
\* any state: TLC would call that a deadlock; ReadReturns is the check for it.
CHECK_DEADLOCK FALSE



INVARIANT RateMatchesRequest
