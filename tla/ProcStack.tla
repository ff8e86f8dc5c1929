----------------------------- MODULE ProcStack -----------------------------
(***************************************************************************)
(* What the process layer promises (spec.md 4.3 and 5): running programs  *)
(* form a stack.  execute either fails and returns to its caller, or      *)
(* pushes a new program on a free process slot; halt(status) pops the top *)
(* program and its caller's execute returns status.  The process-limit    *)
(* result 256 is returned only when every slot is in use.  Every other    *)
(* system call leaves the stack alone.                                    *)
(***************************************************************************)
EXTENDS Integers, Sequences, SequencesExt

CONSTANTS Slots    \* the process slots (0..NUM_MAX_PROCESSES-1)

VARIABLES stack,   \* the running programs, by slot, bottom first
          ret      \* the last value a system call returned to its caller

vars == <<stack, ret>>

Init == stack = <<>> /\ ret = 0

\* execute succeeded on a free slot: the new program runs on top.
Spawn(p) ==
    /\ p \in Slots \ ToSet(stack)
    /\ stack' = Append(stack, p)
    /\ UNCHANGED ret

\* halt(status): the top program ends; its caller's execute returns the
\* status byte.
Exit ==
    /\ stack # <<>>
    /\ stack' = Front(stack)
    /\ ret' \in 0..255

\* execute refused for lack of a slot.
Refuse ==
    /\ ToSet(stack) = Slots
    /\ ret' = 256
    /\ UNCHANGED stack

\* Any other outcome of a system call: the stack is unchanged and the
\* result is not the process-limit code.
Other ==
    /\ ret' # 256
    /\ UNCHANGED stack

Next == (\E p \in Slots : Spawn(p)) \/ Exit \/ Refuse \/ Other

Spec == Init /\ [][Next]_vars
=============================================================================
