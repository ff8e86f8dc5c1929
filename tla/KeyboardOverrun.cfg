CONSTANTS
    Scancodes <- MC_Scancodes
    NBytes <- MC_OverrunNBytes
    MaxKeys <- MC_MaxKeys

SPECIFICATION Spec

\* After its key budget a read waits for a key that never comes; nothing
\* else moves.  A user who stops typing leaves the reader spinning.
CHECK_DEADLOCK FALSE



INVARIANT NoOverrun
