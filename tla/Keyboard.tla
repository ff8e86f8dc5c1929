------------------------------ MODULE Keyboard ------------------------------
(***************************************************************************)
(* The keyboard driver and line editor (keyboard.c) under terminal_read   *)
(* (terminal.c).  The interrupt handler handle_charpress turns a scan     *)
(* code into a key code under the modifier state and leaves it in the     *)
(* one-key slot pushed_key.  A reader, terminal_read -> getline ->        *)
(* getchar, spins until pushed_key is non-zero, takes it, clears the      *)
(* slot, and edits the line in the caller's buffer.  The handler can run  *)
(* between any two of getchar's accesses to pushed_key.                   *)
(*                                                                        *)
(* rd is where the reader is: "idle" (no terminal_read), "wait" (spinning *)
(* on pushed_key), "load" (found it non-zero, about to copy it), "clear"  *)
(* (holds key, about to clear the slot and hand key to getline).  line is *)
(* buf[0 .. lp-1]; top is how many bytes from buf[0] getline has stored   *)
(* to; typed and taken are the key codes the handler pushed and getchar   *)
(* returned since the read began.                                         *)
(***************************************************************************)
EXTENDS Integers, SequencesExt

CONSTANTS
    Scancodes,    \* scan codes the keyboard sends
    NBytes,       \* sizes of the buffers callers pass to terminal_read
    MaxKeys       \* key codes the user types per read

VARIABLES ctrl_stat, shift_stat, alt_stat, caps_stat, pushed_key,
          rd, key, line, max, size, top, ret, typed, taken

vars == <<ctrl_stat, shift_stat, alt_stat, caps_stat, pushed_key,
          rd, key, line, max, size, top, ret, typed, taken>>

\* keyboard.c / keyboard.h / terminal.c constants (scan codes and ASCII).
CTRL == \h1D
SHIFT_LEFT == \h2A
SHIFT_RIGHT == \h36
ALT == \h38
CAPS == \h3A
BACKSPACE == \h0E
KEY_L == \h26
KEY_ENTER == \h1C
PR_CONVER == \h80
CAPS_CONVER == \h20
CHAR_MASK == \o177
ASCII_MIN == \h20
ASCII_MAX == \h7E
NUM_CHAR_HANDLE == 58
CTRL_L == 12
BS == 8
ESC == 27
CAP == 13
MAX_INPUT_CHARS == 128

\* The rows of scan2ascii for the keys modelled: <<plain, shifted>> ASCII.
scan2ascii ==
    (\h00 :> <<0, 0>>) @@ (\h01 :> <<ESC, ESC>>) @@ (\h02 :> <<49, 33>>)  \* '1' '!'
    @@ (\h0E :> <<BS, BS>>) @@ (\h1C :> <<CAP, CAP>>)
    @@ (\h1E :> <<97, 65>>) @@ (\h26 :> <<108, 76>>)                     \* 'a' 'A', 'l' 'L'
    @@ (\h39 :> <<32, 32>>)                                              \* ' '

ASSUME \A sc \in Scancodes : sc < NUM_CHAR_HANDLE =>
           sc \in DOMAIN scan2ascii \cup {CTRL, SHIFT_LEFT, SHIFT_RIGHT, ALT, CAPS}

IsLower(k) == 97 <= k /\ k <= 122
IsUpper(k) == 65 <= k /\ k <= 90

\* The default arm of handle_charpress's switch: the key code for a scan
\* code that is not a modifier, 0 when the handler returns or maps it to 0.
\* With alt held only backspace passes; with ctrl held only backspace,
\* enter and L (giving CTRL_L); the table's entry is taken with shift_stat,
\* and caps lock swaps the case of letters.
DefaultKey(sc) ==
    LET k == scan2ascii[sc][shift_stat + 1]
    IN CASE alt_stat = 1 /\ sc # BACKSPACE                      -> 0
         [] sc >= NUM_CHAR_HANDLE                               -> IF alt_stat = 1 THEN BS ELSE 0
         [] ctrl_stat = 1 /\ sc \notin {BACKSPACE, KEY_ENTER, KEY_L} -> 0
         [] ctrl_stat = 1 /\ sc = KEY_L                         -> scan2ascii[sc][1] - 97 + 1
         [] caps_stat = 1 /\ IsLower(k)                         -> k - CAPS_CONVER
         [] caps_stat = 1 /\ IsUpper(k)                         -> k + CAPS_CONVER
         [] OTHER                                               -> k

\* handle_charpress: the new modifier state and the key code (0: none).
handle_charpress(sc) ==
    LET s == [ctrl |-> ctrl_stat, shift |-> shift_stat, alt |-> alt_stat,
              caps |-> caps_stat, keycode |-> 0]
    IN CASE sc = CTRL                                  -> [s EXCEPT !.ctrl = 1]
         [] sc = CTRL + PR_CONVER                      -> [s EXCEPT !.ctrl = 0]
         [] sc \in {SHIFT_LEFT, SHIFT_RIGHT}           -> [s EXCEPT !.shift = 1]
         [] sc \in {SHIFT_LEFT + PR_CONVER, SHIFT_RIGHT + PR_CONVER} -> [s EXCEPT !.shift = 0]
         [] sc = ALT                                   -> [s EXCEPT !.alt = 1]
         [] sc = ALT + PR_CONVER                       -> [s EXCEPT !.alt = 0]
         [] sc = CAPS                                  -> [s EXCEPT !.caps = 1 - caps_stat]
         [] sc = CAPS + PR_CONVER                      -> s
         [] OTHER                                      -> [s EXCEPT !.keycode = DefaultKey(sc)]

\* getline's handling of one character c (getchar() & CHAR_MASK): enter
\* stores the terminating NUL at buf[lp] and returns lp; backspace (or
\* DEL) steps lp back; CTRL_L clears; a printable character is stored at
\* buf[lp] unless lp - buf >= max.  The new [line, top, done]; a variant
\* tests lp - buf > max.
getline_step_past_max(c) ==
    CASE c \in {10, 13}     -> [line |-> line, top |-> Max({top, Len(line) + 1}), done |-> TRUE]
      [] c \in {BS, 127}    -> [line |-> IF line = <<>> THEN line ELSE Front(line), top |-> top, done |-> FALSE]
      [] c = CTRL_L         -> [line |-> <<>>, top |-> top, done |-> FALSE]
      [] Len(line) > max    -> [line |-> line, top |-> top, done |-> FALSE]
      [] ASCII_MIN <= c /\ c <= ASCII_MAX
                            -> [line |-> Append(line, c), top |-> Max({top, Len(line) + 1}), done |-> FALSE]
      [] OTHER              -> [line |-> line, top |-> top, done |-> FALSE]

\* Variant: the max test comes before the switch, so at a full line enter
\* is dropped as well.
getline_step_max_first(c) ==
    CASE Len(line) >= max /\ c \notin {BS, 127, CTRL_L}
                            -> [line |-> line, top |-> top, done |-> FALSE]
      [] c \in {10, 13}     -> [line |-> line, top |-> Max({top, Len(line) + 1}), done |-> TRUE]
      [] c \in {BS, 127}    -> [line |-> IF line = <<>> THEN line ELSE Front(line), top |-> top, done |-> FALSE]
      [] c = CTRL_L         -> [line |-> <<>>, top |-> top, done |-> FALSE]
      [] ASCII_MIN <= c /\ c <= ASCII_MAX
                            -> [line |-> Append(line, c), top |-> Max({top, Len(line) + 1}), done |-> FALSE]
      [] OTHER              -> [line |-> line, top |-> top, done |-> FALSE]

getline_step(c) ==
    CASE c \in {10, 13}     -> [line |-> line, top |-> Max({top, Len(line) + 1}), done |-> TRUE]
      [] c \in {BS, 127}    -> [line |-> IF line = <<>> THEN line ELSE Front(line), top |-> top, done |-> FALSE]
      [] c = CTRL_L         -> [line |-> <<>>, top |-> top, done |-> FALSE]
      [] Len(line) >= max   -> [line |-> line, top |-> top, done |-> FALSE]
      [] ASCII_MIN <= c /\ c <= ASCII_MAX
                            -> [line |-> Append(line, c), top |-> Max({top, Len(line) + 1}), done |-> FALSE]
      [] OTHER              -> [line |-> line, top |-> top, done |-> FALSE]

\* What a line editor that honours backspace and clear-screen makes of a
\* sequence of characters: the reference getline is checked against.
EditLine(keys, m) ==
    LET Edit(l, c) ==
          CASE c \in {BS, 127}                             -> IF l = <<>> THEN l ELSE Front(l)
            [] c = CTRL_L                                  -> <<>>
            [] ASCII_MIN <= c /\ c <= ASCII_MAX /\ Len(l) < m -> Append(l, c)
            [] OTHER                                       -> l
    IN FoldLeft(Edit, <<>>, SelectSeq(keys, LAMBDA c : c \notin {10, 13}))

KeyCodes == {0, BS, CTRL_L, CAP} \cup {scan2ascii[sc][i] : sc \in DOMAIN scan2ascii, i \in 1..2}
            \cup {k + CAPS_CONVER : k \in 65..90} \cup {k - CAPS_CONVER : k \in 97..122}

TypeOK ==
    /\ {ctrl_stat, shift_stat, alt_stat, caps_stat} \subseteq {0, 1}
    /\ pushed_key \in KeyCodes /\ key \in KeyCodes
    /\ rd \in {"idle", "wait", "load", "clear"}
    /\ line \in Seq(ASCII_MIN..ASCII_MAX) /\ Len(line) <= max

\* Boot: the statics are zero and no read is running.
Init ==
    /\ ctrl_stat = 0 /\ shift_stat = 0 /\ alt_stat = 0 /\ caps_stat = 0
    /\ pushed_key = 0
    /\ rd = "idle" /\ key = 0 /\ line = <<>> /\ max = 0 /\ size = 0 /\ top = 0
    /\ ret = 0 /\ typed = <<>> /\ taken = <<>>

\* The keyboard interrupt: handle_charpress(scan code); a non-zero key
\* code overwrites pushed_key.  (The EOI is sent by the assembly wrapper,
\* which is not in the repository.)
KeyPress(sc) ==
    LET h == handle_charpress(sc)
    IN /\ h.keycode # 0 => Len(typed) < MaxKeys
       /\ ctrl_stat' = h.ctrl /\ shift_stat' = h.shift
       /\ alt_stat' = h.alt /\ caps_stat' = h.caps
       /\ pushed_key' = IF h.keycode # 0 THEN h.keycode ELSE pushed_key
       /\ typed' = IF h.keycode # 0 THEN Append(typed, h.keycode) ELSE typed
       /\ UNCHANGED <<rd, key, line, max, size, top, ret, taken>>

\* terminal_read(0, buf, n) for a buffer of n bytes: n, taken as unsigned,
\* is clamped to 128, and getline(buf, n) starts.  A key already in
\* pushed_key is the first this read can take.
TerminalRead(n) ==
    /\ rd = "idle"
    /\ max' = IF n < 0 \/ n > MAX_INPUT_CHARS THEN MAX_INPUT_CHARS ELSE n
    /\ size' = n
    /\ rd' = "wait" /\ line' = <<>> /\ top' = 0
    /\ typed' = IF pushed_key # 0 THEN <<pushed_key>> ELSE <<>>
    /\ taken' = <<>>
    /\ UNCHANGED <<ctrl_stat, shift_stat, alt_stat, caps_stat, pushed_key, key, ret>>

\* getchar: "while (!pushed_key);" ends.
GetcharWake ==
    /\ rd = "wait" /\ pushed_key # 0
    /\ rd' = "load"
    /\ UNCHANGED <<ctrl_stat, shift_stat, alt_stat, caps_stat, pushed_key,
                   key, line, max, size, top, ret, typed, taken>>

\* getchar: "if (pushed_key < PR_CONVER) key = pushed_key"; otherwise the
\* slot is cleared and the wait starts again.
GetcharLoad ==
    /\ rd = "load"
    /\ IF pushed_key < PR_CONVER
          THEN rd' = "clear" /\ key' = pushed_key /\ UNCHANGED pushed_key
          ELSE rd' = "wait" /\ pushed_key' = 0 /\ UNCHANGED key
    /\ UNCHANGED <<ctrl_stat, shift_stat, alt_stat, caps_stat,
                   line, max, size, top, ret, typed, taken>>

\* getchar: "pushed_key = 0; return key", and getline handles the key.
\* Variant: the slot is not cleared.
GetcharReturnKeep ==
    LET g == getline_step(key % (CHAR_MASK + 1))
    IN /\ rd = "clear"
       /\ taken' = Append(taken, key)
       /\ line' = g.line /\ top' = g.top
       /\ rd' = IF g.done THEN "idle" ELSE "wait"
       /\ ret' = IF g.done THEN Len(line) ELSE ret
       /\ UNCHANGED <<ctrl_stat, shift_stat, alt_stat, caps_stat, pushed_key,
                      key, max, size, typed>>

GetcharReturn ==
    LET g == getline_step(key % (CHAR_MASK + 1))
    IN /\ rd = "clear"
       /\ pushed_key' = 0
       /\ taken' = Append(taken, key)
       /\ line' = g.line /\ top' = g.top
       /\ rd' = IF g.done THEN "idle" ELSE "wait"
       /\ ret' = IF g.done THEN Len(line) ELSE ret
       /\ UNCHANGED <<ctrl_stat, shift_stat, alt_stat, caps_stat,
                      key, max, size, typed>>

Next ==
    \/ \E sc \in Scancodes : KeyPress(sc)
    \/ \E n \in NBytes : TerminalRead(n)
    \/ GetcharWake \/ GetcharLoad \/ GetcharReturn

\* terminal_read runs getline with interrupts enabled (sti), so between
\* handlers the CPU runs getchar's loop: each of its steps, once enabled,
\* stays enabled until it is taken (the handler only ever stores a
\* non-zero key).  The user is under no obligation to type.
Fairness == WF_vars(GetcharWake) /\ WF_vars(GetcharLoad) /\ WF_vars(GetcharReturn)

Spec == Init /\ [][Next]_vars /\ Fairness

-----------------------------------------------------------------------------
\* getchar hands getline each key the handler pushed at most once and in
\* the order they were pushed: what a read has taken is a subsequence of
\* what was typed for it, whatever the handler did between getchar's
\* accesses to pushed_key.  (Keys may be lost: pushed_key holds one.)
KeysInOrder ==
    \E idx \in SUBSET DOMAIN typed :
        LET pos == SetToSortSeq(idx, <) IN taken = [i \in DOMAIN pos |-> typed[pos[i]]]

\* The line getline holds, and the count it returns, is what a line
\* editor makes of the characters getchar delivered: printable ones up to
\* max, backspace and CTRL_L applied.
LineIsEdited ==
    /\ line = EditLine(taken, max)
    /\ rd = "idle" /\ taken # <<>> => ret = Len(line)

\* A read whose next key is enter returns, full line or not: once the
\* handler has left enter in pushed_key while getchar spins, getchar takes
\* it and getline returns the line, unless the user types another key
\* over it first (the slot holds one key).
EnterEndsRead ==
    (rd = "wait" /\ pushed_key = CAP) ~> (rd = "idle" \/ pushed_key \notin {0, CAP})

\* spec.md: the console read copies a line into the caller's buffer of the
\* given size: getline stores only to buf[0 .. nbytes-1] (nothing for a
\* size of zero or less).
NoOverrun == top <= Max({size, 0})
=============================================================================
