------------------------------ MODULE FdTable ------------------------------
(***************************************************************************)
(* One process's file-descriptor table (file_t file_array[] of pcb.h) and *)
(* the open/close/read/write system calls of syscalls.c that dispatch     *)
(* through it into the kind-specific handlers of filesys.c, rtc.c and     *)
(* terminal.c.  The operation table pointer of a slot is abstracted to    *)
(* the name of the table it points to.  The operators on a table value    *)
(* (file_open, open_call, ...) are reused by the Kernel module, which   *)
(* keeps one table per process; the actions below are the single-process*)
(* specification.                                                         *)
(*                                                                         *)
(* Ghost state: received[fd] and listed[fd] are the file bytes and the    *)
(* directory names the user program has read through fd since its open.   *)
(***************************************************************************)
EXTENDS FsImage

CONSTANTS
    NUM_MAX_OPEN_FILES,  \* pcb.h: 8
    NBytes,              \* the nbytes arguments a program passes to read/write
    LineLens             \* lengths of lines getline delivers and of strings written

VARIABLES file_array, ret, intflag, received, listed

vars == <<file_array, ret, intflag, received, listed>>

Fds == 0..NUM_MAX_OPEN_FILES-1
\* syscalls.c close/read/write compare fd against the literal 7, which is
\* NUM_MAX_OPEN_FILES - 1.
MAX_FD == NUM_MAX_OPEN_FILES - 1

FILE_AVAIL == 1
FILE_OCCUP == 0
OpsTables == {"none", "terminal_ops", "file_ops", "directory_ops", "rtc_ops"}

\* (uint32_t) of an int32: a negative value becomes at least 2^31; BIG
\* stands for it, since it is only ever compared with small lengths.
BIG == 2147483647
AsU32(x) == IF x >= 0 THEN x ELSE BIG

FileRec == [file_ops_table_ptr : OpsTables, inode_num : Int,
            file_position : Int, flags : {FILE_AVAIL, FILE_OCCUP}]

\* filesys_init: the blank entry.
blank == [file_ops_table_ptr |-> "none", inode_num |-> 0,
          file_position |-> 0, flags |-> FILE_AVAIL]

\* init_file_array: every slot blank, then stdin and stdout bound to the
\* terminal and occupied.
init_file_array ==
    [i \in Fds |-> IF i \in {0, 1}
                   THEN [blank EXCEPT !.file_ops_table_ptr = "terminal_ops",
                                      !.flags = FILE_OCCUP]
                   ELSE blank]

(***************************************************************************)
(* file_open: the name must be shorter than FILENAME_LEN and found; the   *)
(* lowest available slot from 2 up is bound by the entry's type.  For an  *)
(* RTC entry the code sets the table and inode, calls rtc_open and        *)
(* returns at once, before file_position and flags are set.               *)
(* Result: the new table, the return value, whether rtc_open ran.         *)
(***************************************************************************)
file_open(fa, filename) ==
    LET d    == read_dentry_by_name(filename)
        free == {i \in 2..NUM_MAX_OPEN_FILES-1 : fa[i].flags = FILE_AVAIL}
        fail == [fa |-> fa, ret |-> -1, rtc |-> FALSE]
        idx  == MinOf(free)
        bind(ops) == [fa |-> [fa EXCEPT ![idx] = [file_ops_table_ptr |-> ops,
                                                   inode_num |-> d.inode_num,
                                                   file_position |-> 0,
                                                   flags |-> FILE_OCCUP]],
                      ret |-> idx, rtc |-> FALSE]
    IN  IF NameLen[filename] >= FILENAME_LEN \/ d = NotFound \/ free = {}
        THEN fail
        ELSE CASE d.filetype = FILE_TYPE_FILE -> bind("file_ops")
               [] d.filetype = FILE_TYPE_DIR  -> bind("directory_ops")
               [] d.filetype = FILE_TYPE_RTC  ->
                    [fa |-> [fa EXCEPT ![idx].file_ops_table_ptr = "rtc_ops",
                                       ![idx].inode_num = d.inode_num],
                     ret |-> idx, rtc |-> TRUE]
               [] OTHER -> fail

\* directory_open: look the name up again; it must be a directory; then
\* file_open.
directory_open(fa, filename) ==
    LET d == read_dentry_by_name(filename)
    IN  IF d = NotFound \/ d.filetype # FILE_TYPE_DIR
        THEN [fa |-> fa, ret |-> -1, rtc |-> FALSE]
        ELSE file_open(fa, filename)

(***************************************************************************)
(* open (syscalls.c): look the name up and switch on its type.  A         *)
(* directory goes through directory_open, which looks it up again and     *)
(* checks the type before file_open.  The RTC case calls file_open and,   *)
(* having no break, falls through into the FILE case's file_open.         *)
(***************************************************************************)
open_call(fa, filename) ==
    LET d  == read_dentry_by_name(filename)
        r1 == file_open(fa, filename)
        r2 == file_open(r1.fa, filename)
    IN  CASE d = NotFound                  -> [fa |-> fa, ret |-> -1, rtc |-> FALSE]
          [] d.filetype = FILE_TYPE_DIR    -> directory_open(fa, filename)
          [] d.filetype = FILE_TYPE_RTC    ->
                IF r1.ret = -1 THEN r1
                ELSE [r2 EXCEPT !.rtc = TRUE]
          [] d.filetype = FILE_TYPE_FILE   -> r1
          [] OTHER                         -> [fa |-> fa, ret |-> -1, rtc |-> FALSE]

\* The guard shared by close, read and write: fd in range, slot occupied.
Dispatchable(fa, fd, lo) == fd >= lo /\ fd <= MAX_FD /\ fa[fd].flags # FILE_AVAIL

\* file_close: fd in range and occupied, then the slot is reset to blank.
file_close(fa, fd) ==
    IF fd >= NUM_MAX_OPEN_FILES \/ fd < 0 \/ fa[fd].flags = FILE_AVAIL
    THEN [fa |-> fa, ret |-> -1]
    ELSE [fa |-> [fa EXCEPT ![fd] = blank], ret |-> 0]

\* directory_close is file_close.
directory_close(fa, fd) == file_close(fa, fd)

\* close: fd 2..7 and occupied, then the table's close; rtc_close does
\* nothing and returns 0.
close_call(fa, fd) ==
    IF ~Dispatchable(fa, fd, 2) THEN [fa |-> fa, ret |-> -1]
    ELSE CASE fa[fd].file_ops_table_ptr = "file_ops"      -> file_close(fa, fd)
           [] fa[fd].file_ops_table_ptr = "directory_ops" -> directory_close(fa, fd)
           [] OTHER                                       -> [fa |-> fa, ret |-> 0]

\* Variant: the cursor advances by the request, not by what was read.
file_read_by_request(f, nbytes) ==
    LET r == read_data(f.inode_num, AsU32(f.file_position), AsU32(nbytes))
    IN  [pos |-> f.file_position + nbytes, ret |-> r.n, out |-> r.bytes]

(***************************************************************************)
(* file_read: read_data at the cursor; the cursor is advanced by what     *)
(* read_data returned, stored in a uint32_t, so a -1 moves it back by one.*)
(***************************************************************************)
file_read(f, nbytes) ==
    LET r == read_data(f.inode_num, AsU32(f.file_position), AsU32(nbytes))
    IN  [pos |-> f.file_position + r.n, ret |-> r.n, out |-> r.bytes]

\* Variant: the cursor is not advanced after an entry is returned.
directory_read_no_advance(f) ==
    LET d == read_dentry_by_index(f.file_position)
    IN  IF d = NotFound THEN [pos |-> f.file_position, ret |-> -1, out |-> <<>>]
        ELSE [pos |-> f.file_position,
              ret |-> IF NameLen[d.name] < 32 THEN NameLen[d.name] ELSE 32,
              out |-> <<d.name>>]

(***************************************************************************)
(* directory_read: the entry at the cursor (by index, up to NUM_FILES),   *)
(* cursor + 1, and the name copied out: at most 32 characters.            *)
(***************************************************************************)
directory_read(f) ==
    LET d == read_dentry_by_index(f.file_position)
    IN  IF d = NotFound THEN [pos |-> f.file_position, ret |-> -1, out |-> <<>>]
        ELSE [pos |-> f.file_position + 1,
              ret |-> IF NameLen[d.name] < 32 THEN NameLen[d.name] ELSE 32,
              out |-> <<d.name>>]

\* terminal_read: fd 0 only; nbytes, taken as unsigned, is clamped to
\* MAX_INPUT_CHARS (128); getline returns the length of the line typed,
\* at most that bound.
terminal_read(fd, nbytes, line) ==
    LET maxc == IF AsU32(nbytes) > 128 THEN 128 ELSE nbytes
    IN  IF fd # 0 THEN -1 ELSE IF line < maxc THEN line ELSE maxc

\* terminal_write: fd 1 only; 0 for nbytes 0; otherwise characters up to
\* the first NUL (slen of them) or nbytes, taken as unsigned.
terminal_write(fd, nbytes, slen) ==
    IF fd # 1 THEN -1 ELSE IF nbytes = 0 THEN 0
    ELSE MinOf({slen, AsU32(nbytes)})

(***************************************************************************)
(* read: fd 0..7 and occupied, then the table's read.  terminal_read only *)
(* serves fd 0 and returns the length of the line getline collected, at   *)
(* most min(nbytes, 128); rtc_read spins until the tick flag is set and   *)
(* clears it.  Result: new slot, return value, output, new tick flag.     *)
(***************************************************************************)
read_call(fa, fd, nbytes, line, flag) ==
    LET f    == fa[fd]
        rf   == file_read(f, nbytes)
        rd   == directory_read(f)
    IN  CASE f.file_ops_table_ptr = "file_ops" ->
               [f |-> [f EXCEPT !.file_position = rf.pos], ret |-> rf.ret,
                out |-> rf.out, flag |-> flag]
          [] f.file_ops_table_ptr = "directory_ops" ->
               [f |-> [f EXCEPT !.file_position = rd.pos], ret |-> rd.ret,
                out |-> rd.out, flag |-> flag]
          [] f.file_ops_table_ptr = "terminal_ops" ->
               [f |-> f, ret |-> terminal_read(fd, nbytes, line),
                out |-> <<>>, flag |-> flag]
          [] OTHER ->   \* rtc_ops
               [f |-> f, ret |-> 0, out |-> <<>>, flag |-> 0]

\* rtc_read busy-waits: the read cannot complete while the flag is clear.
read_blocked(fa, fd, flag) ==
    Dispatchable(fa, fd, 0) /\ fa[fd].file_ops_table_ptr = "rtc_ops" /\ flag = 0

\* file_write and directory_write: a read-only filesystem, always -1.
file_write == -1
directory_write == -1

(***************************************************************************)
(* write: fd 0..7 and occupied, then the table's write, called through  *)
(* the function pointer with (fd, buf, nbytes).  terminal_write serves fd *)
(* 1 only, returns 0 for nbytes 0, and otherwise writes characters until  *)
(* the first NUL (slen of them) or nbytes.  rtc_write(buf, nbytes) would  *)
(* take fd as its buffer and read the int at address fd: a page fault.    *)
(* No slot holds rtc_ops while occupied (open's RTC case leaves it        *)
(* available), so that arm is never taken; it yields PAGE_FAULT, which is *)
(* not a return value.                                                     *)
(***************************************************************************)
PAGE_FAULT == "page fault"

write_call(fa, fd, nbytes, slen) ==
    IF ~Dispatchable(fa, fd, 0) THEN -1
    ELSE CASE fa[fd].file_ops_table_ptr = "terminal_ops"  -> terminal_write(fd, nbytes, slen)
           [] fa[fd].file_ops_table_ptr = "file_ops"      -> file_write
           [] fa[fd].file_ops_table_ptr = "directory_ops" -> directory_write
           [] OTHER                                       -> PAGE_FAULT

-----------------------------------------------------------------------------
(* The single-process specification.                                       *)

TypeOK ==
    /\ file_array \in [Fds -> FileRec]
    /\ ret \in Int
    /\ intflag \in {0, 1}
    /\ received \in [Fds -> Seq(Int)]
    /\ listed \in [Fds -> Seq(Names)]

Init ==
    /\ file_array = init_file_array
    /\ ret = 0
    /\ intflag = 0
    /\ received = [i \in Fds |-> <<>>]
    /\ listed = [i \in Fds |-> <<>>]

\* open(filename).  A successful open starts the descriptor's history;
\* rtc_open (rtc_init) clears the tick flag.
Open(filename) ==
    LET r == open_call(file_array, filename)
    IN  /\ file_array' = r.fa
        /\ ret' = r.ret
        /\ intflag' = IF r.rtc THEN 0 ELSE intflag
        /\ received' = IF r.ret >= 0 THEN [received EXCEPT ![r.ret] = <<>>]
                       ELSE received
        /\ listed' = IF r.ret >= 0 THEN [listed EXCEPT ![r.ret] = <<>>] ELSE listed

\* close(fd).
Close(fd) ==
    LET r == close_call(file_array, fd)
    IN  /\ file_array' = r.fa
        /\ ret' = r.ret
        /\ UNCHANGED <<intflag, received, listed>>

\* read(fd, buf, nbytes) on a descriptor it rejects.
ReadRejected(fd) ==
    /\ ~Dispatchable(file_array, fd, 0)
    /\ ret' = -1
    /\ UNCHANGED <<file_array, intflag, received, listed>>

\* read(fd, buf, nbytes) dispatched to the descriptor's table.
Read(fd, nbytes, line) ==
    LET f == file_array[fd]
        r == read_call(file_array, fd, nbytes, line, intflag)
    IN  /\ Dispatchable(file_array, fd, 0)
        /\ ~read_blocked(file_array, fd, intflag)
        /\ file_array' = [file_array EXCEPT ![fd] = r.f]
        /\ ret' = r.ret
        /\ intflag' = r.flag
        /\ received' = IF r.ret >= 0 /\ f.file_ops_table_ptr = "file_ops"
                       THEN [received EXCEPT ![fd] = @ \o r.out] ELSE received
        /\ listed' = IF r.ret >= 0 /\ f.file_ops_table_ptr = "directory_ops"
                     THEN [listed EXCEPT ![fd] = @ \o r.out] ELSE listed

\* write(fd, buf, nbytes) of a string of slen characters: nothing in the
\* table changes.
Write(fd, nbytes, slen) ==
    /\ ret' = write_call(file_array, fd, nbytes, slen)
    /\ UNCHANGED <<file_array, intflag, received, listed>>

\* Variant: the handler counts ticks in the flag.
RtcInterruptCount ==
    /\ intflag' = intflag + 1
    /\ UNCHANGED <<file_array, ret, received, listed>>

\* rtc_interrupt_handler: the periodic interrupt sets the tick flag.
RtcInterrupt ==
    /\ intflag' = 1
    /\ UNCHANGED <<file_array, ret, received, listed>>

Next ==
    \/ \E n \in Names : Open(n)
    \/ \E fd \in -1..NUM_MAX_OPEN_FILES : Close(fd)
    \/ \E fd \in -1..NUM_MAX_OPEN_FILES : ReadRejected(fd)
    \/ \E fd \in Fds, n \in NBytes, l \in LineLens : Read(fd, n, l)
    \/ \E fd \in -1..NUM_MAX_OPEN_FILES, n \in NBytes, l \in LineLens : Write(fd, n, l)
    \/ RtcInterrupt

Spec == Init /\ [][Next]_vars

-----------------------------------------------------------------------------
(* Properties.                                                             *)

\* The bytes of file inode in [0, k).
FilePrefix(inode, k) ==
    [j \in 1..k |-> DataBlocks[Inodes[inode].blocks[(j - 1) \div BLOCK_SIZE + 1]]
                              [((j - 1) % BLOCK_SIZE) + 1]]

\* Reading a regular file through a descriptor in chunks of any sizes
\* (file_read advancing file_position by read_data's result) delivers the
\* file's bytes in order, without gap or repeat: what the program has
\* received is exactly the file's prefix up to the cursor, and the cursor
\* stays within the file.
ReadCursorConsistent ==
    \A fd \in Fds :
        (file_array[fd].flags = FILE_OCCUP
         /\ file_array[fd].file_ops_table_ptr = "file_ops") =>
            LET pos == file_array[fd].file_position
            IN  /\ 0 <= pos
                /\ pos <= flength(file_array[fd].inode_num)
                /\ received[fd] = FilePrefix(file_array[fd].inode_num, pos)

\* Repeated reads of a directory descriptor (directory_read) list the
\* directory entries in index order, each once: the names received are
\* those of entries 0 .. cursor-1.
DirListingInOrder ==
    \A fd \in Fds :
        (file_array[fd].flags = FILE_OCCUP
         /\ file_array[fd].file_ops_table_ptr = "directory_ops") =>
            listed[fd] = [j \in 1..file_array[fd].file_position |->
                               DirEntries[j - 1].name]

\* A descriptor that open returns is usable: its slot is occupied, so the
\* read, write and close that dispatch through it accept it, and no later
\* open can hand the same slot out again (open's RTC case in syscalls.c).
OpenedFdOccupied ==
    [][\A n \in Names :
         (Open(n) /\ ret' >= 0) => file_array'[ret'].flags = FILE_OCCUP]_vars
=============================================================================
