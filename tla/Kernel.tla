------------------------------ MODULE Kernel ------------------------------
(***************************************************************************)
(* The process-control and system-call layer of syscalls.c composed with  *)
(* one FdTable per process: execute, halt, getargs, vidmap and the file   *)
(* system calls, on a single CPU where the running context is either the  *)
(* kernel's boot code or one user program.                                *)
(* The 128 MB page's TLB entry and the exception handlers of idt.c, which *)
(* stop the machine, are part of the state.                                *)
(*                                                                         *)
(* Memory is modelled by address where the code computes addresses: the   *)
(* PCBs live at BASE_PROCESS_POSITION - (pid + 2) * PROCESS_OFFSET, the   *)
(* TSS's esp0 is an address, and getCurrentProcessPCB masks the stack     *)
(* pointer with ~PCB_MASK.  pcb maps each 8 kB kernel-stack slot address  *)
(* to the PCB stored at its bottom; exec_frame maps it to the child whose *)
(* halt the execute() frame suspended on that stack is waiting for.       *)
(***************************************************************************)
EXTENDS FsImage, SequencesExt

CONSTANTS
    NUM_MAX_OPEN_FILES, NBytes, LineLens,  \* as in FdTable
    NUM_MAX_PROCESSES,  \* syscalls.h: 6
    Commands,           \* execute arguments: [name, argc] (argc: argument length)
    Statuses,           \* halt status values
    Vectors,            \* exception vectors a user program's instruction may raise
    KERNEL              \* model value: the kernel's boot context

VARIABLES
    pid_array,     \* pid_array[]: PROG_ACTIVE / PROG_NOT_ACTIVE per slot
    curr_process,  \* curr_process
    pcb,           \* PCB contents, by PCB address
    esp0,          \* tss.esp0
    pde_user,      \* page_directory[32]: frame number of the 128 MB page, -1 absent
    tlb_user,      \* the TLB's cached translation of the 128 MB page: a frame, -1 none
    vidmap_on,     \* page_directory[PAGE_VIDMAP] present
    ctx,           \* the context the CPU runs: KERNEL or a pid's user program
    exec_frame,    \* suspended execute() frame on each kernel stack: child pid or -1
    ret,           \* the last system call's return value to ctx
    intflag,       \* rtc.c intflag
    panic          \* the handler stop() spins in, and the privilege it was entered from

vars == <<pid_array, curr_process, pcb, esp0, pde_user, tlb_user, vidmap_on, ctx,
          exec_frame, ret, intflag, panic>>

Fd == INSTANCE FdTable WITH file_array <- <<>>, received <- <<>>, listed <- <<>>

Procs == 0..NUM_MAX_PROCESSES-1
PROG_NOT_ACTIVE == 0
PROG_ACTIVE == 1

BASE_PROCESS_POSITION == 8388608   \* 0x800000
PROCESS_OFFSET == 8192             \* 0x2000, also PCB_MASK + 1
C_4B == 4

\* The 8 kB-aligned address esp & ~PCB_MASK (getCurrentProcessPCB).
Masked(esp) == esp - (esp % PROCESS_OFFSET)
\* Where execute and halt put and find the PCB of pid.
PcbAddr(pid) == BASE_PROCESS_POSITION - (pid + 2) * PROCESS_OFFSET
\* Variant: the stack top taken one slot lower, at the PCB's own slot
\* base (the pid + 2 convention of the PCB address).
StackTopLow(pid) == BASE_PROCESS_POSITION - (pid + 2) * PROCESS_OFFSET - C_4B
\* tss.esp0 for pid, as execute and halt compute it.
StackTop(pid) == BASE_PROCESS_POSITION - (pid + 1) * PROCESS_OFFSET - C_4B
\* The boot stack runs just below 0x800000.
KERNEL_ESP == BASE_PROCESS_POSITION - C_4B
\* The kernel-stack slots: the boot stack's and one per process.
StackSlots == {BASE_PROCESS_POSITION - k * PROCESS_OFFSET : k \in 1..NUM_MAX_PROCESSES+1}

\* The stack pointer when ctx enters the kernel: a user program traps onto
\* tss.esp0; the kernel's own code runs on the boot stack.
CurEsp == IF ctx = KERNEL THEN KERNEL_ESP ELSE esp0
\* getCurrentProcessPCB()
CurPcb == Masked(CurEsp)
\* The context whose code runs on the stack containing esp.
StackOwner(esp) ==
    IF Masked(esp) = Masked(KERNEL_ESP) THEN KERNEL
    ELSE (BASE_PROCESS_POSITION - Masked(esp)) \div PROCESS_OFFSET - 2

PcbRec == [file_array : [Fd!Fds -> Fd!FileRec], parent_num : Procs,
           parent_esp : Int, num_char_in_arg : Nat]

\* Kernel memory holding no PCB yet.
NoPcb == [file_array |-> [i \in Fd!Fds |-> Fd!blank], parent_num |-> 0,
          parent_esp |-> 0, num_char_in_arg |-> 0]

\* The frame number execute/halt put in the 128 MB directory entry of pid
\* (0x800000 + pid * 0x400000 >> 22).
Frame(pid) == 2 + pid

ELF_MAGIC == <<127, 69, 76, 70>>   \* 7F 45 4C 46

\* init_idt: vectors 0-18 get the handler of their exception (15, reserved,
\* gets generic_error); every vector from 19 to NUM_VEC - 1 generic_error.
ExceptionHandlers ==
    <<"divide_error", "debug", "nmi", "breakpoint", "overflow", "bounds",
      "invalid_op", "device_not_available", "double_fault", "segment_overrun",
      "invalid_TSS", "segment_not_present", "stack_segment",
      "general_protection", "page_fault", "generic_error", "fp",
      "alignment_check", "machine_check">>
idt(v) == IF v <= 18 THEN ExceptionHandlers[v + 1] ELSE "generic_error"
PAGE_FAULT_VEC == 14

\* The machine is running: no handler has stopped it.
NoPanic == [handler |-> "none", cpl |-> 0]

TypeOK ==
    /\ pid_array \in [Procs -> {PROG_NOT_ACTIVE, PROG_ACTIVE}]
    /\ curr_process \in Procs
    /\ pcb \in [StackSlots -> PcbRec]
    /\ esp0 \in Int
    /\ pde_user \in {-1} \cup {Frame(p) : p \in Procs}
    /\ tlb_user \in {-1} \cup {Frame(p) : p \in Procs}
    /\ vidmap_on \in BOOLEAN
    /\ ctx \in Procs \cup {KERNEL}
    /\ exec_frame \in [StackSlots -> Procs \cup {-1}]
    /\ ret \in Int
    /\ intflag \in {0, 1}
    /\ panic \in {NoPanic} \cup [handler : {idt(v) : v \in 0..255}, cpl : {0, 3}]

\* paging_init: every directory entry not present except the 4 kB table
\* of the first 4 MB and the kernel's 4 MB page; so neither the 128 MB
\* program page nor the video page at 132 MB is mapped.
paging_init == pde_user = -1 /\ vidmap_on = FALSE /\ tlb_user = -1

\* flush_tlb: rewriting CR3 empties the TLB (the 4 MB user entry, flags
\* 0x87, is not global).
flush_tlb == tlb_user' = -1

\* The MMU on an access to the 128 MB page: a miss walks the directory and
\* caches the frame it finds; a hit keeps the cached one.
TlbFill(t, frame) == IF t = -1 THEN frame ELSE t

\* Variant: the directory entry is written and the TLB left as it was.
update_page_directory_noflush(frame) == pde_user' = frame /\ UNCHANGED tlb_user

\* update_page_directory(C_128MB, C_8MB + pid * C_4MB, 0x87), which
\* flushes the TLB after writing the entry.
update_page_directory(frame) == pde_user' = frame /\ flush_tlb

\* Boot: after paging_init no process is active and the kernel runs on
\* its boot stack.
Init ==
    /\ pid_array = [p \in Procs |-> PROG_NOT_ACTIVE]
    /\ curr_process = 0
    /\ pcb = [a \in StackSlots |-> NoPcb]
    /\ esp0 = BASE_PROCESS_POSITION
    /\ paging_init
    /\ ctx = KERNEL
    /\ exec_frame = [a \in StackSlots |-> -1]
    /\ ret = 0
    /\ intflag = 0
    /\ panic = NoPanic

\* Variant: the slot search stops one short of the last slot.
FreeSlotsShort == {p \in 0..NUM_MAX_PROCESSES-2 : pid_array[p] = PROG_NOT_ACTIVE}
\* The process slots get_next_process_number would find free.
FreeSlots == {p \in Procs : pid_array[p] = PROG_NOT_ACTIVE}

-----------------------------------------------------------------------------
(* execute(command), split at its return statements.                       *)

\* The checks before a slot is taken: the first token must be shorter
\* than FILENAME_LEN - 1, name a regular file, and start with the ELF magic.
ExecutableOk(cmd) ==
    LET d == read_dentry_by_name(cmd.name)
        h == read_data(d.inode_num, 0, 4)
    IN  /\ NameLen[cmd.name] < FILENAME_LEN - 1
        /\ d # NotFound
        /\ d.filetype = FILE_TYPE_FILE
        /\ h.n = 4
        /\ h.bytes = ELF_MAGIC

\* The program image loads completely: read_data of flength bytes
\* returns flength.
ImageLoads(cmd) ==
    LET ino == read_dentry_by_name(cmd.name).inode_num
    IN  read_data(ino, 0, flength(ino)).n = flength(ino)

ExecuteRejected(cmd) ==
    /\ ~ExecutableOk(cmd)
    /\ ret' = -1
    /\ UNCHANGED <<pid_array, curr_process, pcb, esp0, pde_user, tlb_user, vidmap_on,
                   ctx, exec_frame, intflag>>

\* get_next_process_number found no free slot: "return 256".
ExecuteNoSlot(cmd) ==
    /\ ExecutableOk(cmd)
    /\ FreeSlots = {}
    /\ ret' = 256
    /\ UNCHANGED <<pid_array, curr_process, pcb, esp0, pde_user, tlb_user, vidmap_on,
                   ctx, exec_frame, intflag>>

\* Variant: the rollback writes the directory entry without a flush, so
\* the translation cached while the image was written stays in the TLB.
ExecuteLoadFailedRollbackNoFlush(cmd) ==
    LET next == MinOf(FreeSlots)
    IN  /\ ExecutableOk(cmd)
        /\ FreeSlots # {}
        /\ ~ImageLoads(cmd)
        /\ pid_array' = [pid_array EXCEPT ![next] = PROG_ACTIVE]
        /\ pde_user' = Frame(curr_process)
        /\ tlb_user' = TlbFill(-1, Frame(next))
        /\ ret' = -1
        /\ UNCHANGED <<curr_process, pcb, esp0, vidmap_on, ctx, exec_frame, intflag>>

\* get_next_process_number marked the lowest free slot active; the 128 MB
\* page was remapped to it (and the TLB flushed); read_data wrote the image
\* through the new entry, so the TLB cached Frame(next), and failed; the
\* rollback update_page_directory maps curr_process's frame and flushes
\* that translation; -1 is returned.  pid_array is not reset.
ExecuteLoadFailed(cmd) ==
    LET next == MinOf(FreeSlots)
    IN  /\ ExecutableOk(cmd)
        /\ FreeSlots # {}
        /\ ~ImageLoads(cmd)
        /\ pid_array' = [pid_array EXCEPT ![next] = PROG_ACTIVE]
        /\ update_page_directory(Frame(curr_process))
        /\ ret' = -1
        /\ UNCHANGED <<curr_process, pcb, esp0, vidmap_on, ctx, exec_frame, intflag>>

\* Variant: the caller's stack pointer saved in the PCB is computed from
\* curr_process rather than read from esp.
ExecuteStartCurrStack(cmd) ==
    LET next == MinOf(FreeSlots)
    IN  /\ ExecutableOk(cmd)
        /\ FreeSlots # {}
        /\ ImageLoads(cmd)
        /\ pid_array' = [pid_array EXCEPT ![next] = PROG_ACTIVE]
        /\ update_page_directory(Frame(next))
        /\ esp0' = StackTop(next)
        /\ pcb' = [pcb EXCEPT ![PcbAddr(next)] =
                      [file_array |-> Fd!init_file_array,
                       parent_num |-> curr_process,
                       parent_esp |-> StackTop(curr_process),
                       num_char_in_arg |-> cmd.argc]]
        /\ exec_frame' = [exec_frame EXCEPT ![Masked(CurEsp)] = next]
        /\ curr_process' = next
        /\ ctx' = next
        /\ UNCHANGED <<vidmap_on, ret, intflag>>

\* The program starts: tss.esp0 to the child's stack, its PCB initialised
\* (descriptor table, parent, the caller's stack pointer, arguments), the
\* child made current and active, and control transferred to user mode.
\* The caller's execute() frame stays suspended on its stack.
ExecuteStart(cmd) ==
    LET next == MinOf(FreeSlots)
    IN  /\ ExecutableOk(cmd)
        /\ FreeSlots # {}
        /\ ImageLoads(cmd)
        /\ pid_array' = [pid_array EXCEPT ![next] = PROG_ACTIVE]
        /\ update_page_directory(Frame(next))
        /\ esp0' = StackTop(next)
        /\ pcb' = [pcb EXCEPT ![PcbAddr(next)] =
                      [file_array |-> Fd!init_file_array,
                       parent_num |-> curr_process,
                       parent_esp |-> CurEsp,
                       num_char_in_arg |-> cmd.argc]]
        /\ exec_frame' = [exec_frame EXCEPT ![Masked(CurEsp)] = next]
        /\ curr_process' = next
        /\ ctx' = next
        /\ UNCHANGED <<vidmap_on, ret, intflag>>

-----------------------------------------------------------------------------
(* halt(status): the PCB of curr_process gives the parent; the 128 MB page *)
(* and tss.esp0 go back to the parent, the slot is freed, and              *)
(* return_to_execute resumes the execute() frame on the stack of           *)
(* parent_esp, which returns status.                                        *)

\* Variant: halt leaves the slot marked active.
HaltKeepSlot(status) ==
    LET cur    == pcb[PcbAddr(curr_process)]
        parent == cur.parent_num
    IN  /\ ctx # KERNEL
        /\ update_page_directory(Frame(parent))
        /\ esp0' = StackTop(parent)
        /\ curr_process' = parent
        /\ ctx' = StackOwner(cur.parent_esp)
        /\ exec_frame' = [exec_frame EXCEPT ![Masked(cur.parent_esp)] = -1]
        /\ ret' = status
        /\ UNCHANGED <<pid_array, pcb, vidmap_on, intflag>>

Halt(status) ==
    LET cur    == pcb[PcbAddr(curr_process)]
        parent == cur.parent_num
    IN  /\ ctx # KERNEL
        /\ update_page_directory(Frame(parent))
        /\ esp0' = StackTop(parent)
        /\ pid_array' = [pid_array EXCEPT ![curr_process] = PROG_NOT_ACTIVE]
        /\ curr_process' = parent
        /\ ctx' = StackOwner(cur.parent_esp)
        /\ exec_frame' = [exec_frame EXCEPT ![Masked(cur.parent_esp)] = -1]
        /\ ret' = status
        /\ UNCHANGED <<pcb, vidmap_on, intflag>>

-----------------------------------------------------------------------------
(* The other system calls of a user program, on the PCB its stack gives.   *)

Open(filename) ==
    LET r == Fd!open_call(pcb[CurPcb].file_array, filename)
    IN  /\ ctx # KERNEL
        /\ pcb' = [pcb EXCEPT ![CurPcb].file_array = r.fa]
        /\ ret' = r.ret
        /\ intflag' = IF r.rtc THEN 0 ELSE intflag
        /\ UNCHANGED <<pid_array, curr_process, esp0, pde_user, tlb_user, vidmap_on,
                       ctx, exec_frame>>

Close(fd) ==
    LET r == Fd!close_call(pcb[CurPcb].file_array, fd)
    IN  /\ ctx # KERNEL
        /\ pcb' = [pcb EXCEPT ![CurPcb].file_array = r.fa]
        /\ ret' = r.ret
        /\ UNCHANGED <<pid_array, curr_process, esp0, pde_user, tlb_user, vidmap_on,
                       ctx, exec_frame, intflag>>

Read(fd, nbytes, line) ==
    LET fa == pcb[CurPcb].file_array
        r  == Fd!read_call(fa, fd, nbytes, line, intflag)
    IN  /\ ctx # KERNEL
        /\ IF Fd!Dispatchable(fa, fd, 0)
           THEN /\ ~Fd!read_blocked(fa, fd, intflag)
                /\ pcb' = [pcb EXCEPT ![CurPcb].file_array[fd] = r.f]
                /\ ret' = r.ret
                /\ intflag' = r.flag
           ELSE /\ ret' = -1
                /\ UNCHANGED <<pcb, intflag>>
        /\ UNCHANGED <<pid_array, curr_process, esp0, pde_user, tlb_user, vidmap_on,
                       ctx, exec_frame>>

\* write: the RTC arm dereferences the descriptor number in kernel mode,
\* and the page fault enters idt[14], which stops the machine.
Write(fd, nbytes, slen) ==
    LET fa == pcb[CurPcb].file_array
    IN  /\ ctx # KERNEL
        /\ IF Fd!Dispatchable(fa, fd, 0) /\ fa[fd].file_ops_table_ptr = "rtc_ops"
           THEN /\ panic' = [handler |-> idt(PAGE_FAULT_VEC), cpl |-> 0]
                /\ UNCHANGED ret
           ELSE /\ ret' = Fd!write_call(fa, fd, nbytes, slen)
                /\ UNCHANGED panic
        /\ UNCHANGED <<pid_array, curr_process, pcb, esp0, pde_user, tlb_user, vidmap_on,
                       ctx, exec_frame, intflag>>

\* getargs(buf, nbytes): fails when no argument was stored or nbytes is
\* smaller than its length; otherwise copies it and returns 0.
GetArgs(nbytes) ==
    /\ ctx # KERNEL
    /\ ret' = IF pcb[CurPcb].num_char_in_arg = 0 THEN -1
              ELSE IF nbytes < pcb[CurPcb].num_char_in_arg THEN -1
              ELSE 0
    /\ UNCHANGED <<pid_array, curr_process, pcb, esp0, pde_user, tlb_user, vidmap_on,
                   ctx, exec_frame, intflag>>

\* vidmap(screen_start): a pointer outside the user page fails; otherwise
\* the video page is mapped at 132 MB.
Vidmap(inPage) ==
    /\ ctx # KERNEL
    /\ vidmap_on' = (inPage \/ vidmap_on)
    /\ IF inPage THEN flush_tlb ELSE UNCHANGED tlb_user
    /\ ret' = IF inPage THEN 0 ELSE -1
    /\ UNCHANGED <<pid_array, curr_process, pcb, esp0, pde_user, ctx,
                   exec_frame, intflag>>

\* set_handler and sigreturn are not implemented: they print and return -1.
SetHandler ==
    /\ ctx # KERNEL
    /\ ret' = -1
    /\ UNCHANGED <<pid_array, curr_process, pcb, esp0, pde_user, tlb_user, vidmap_on,
                   ctx, exec_frame, intflag>>

Sigreturn ==
    /\ ctx # KERNEL
    /\ ret' = -1
    /\ UNCHANGED <<pid_array, curr_process, pcb, esp0, pde_user, tlb_user, vidmap_on,
                   ctx, exec_frame, intflag>>

\* Variant: the handler counts ticks in the flag.
RtcInterruptCount ==
    /\ intflag' = intflag + 1
    /\ UNCHANGED <<pid_array, curr_process, pcb, esp0, pde_user, tlb_user, vidmap_on,
                   ctx, exec_frame, ret>>

\* rtc_interrupt_handler.
RtcInterrupt ==
    /\ intflag' = 1
    /\ UNCHANGED <<pid_array, curr_process, pcb, esp0, pde_user, tlb_user, vidmap_on,
                   ctx, exec_frame, ret>>

-----------------------------------------------------------------------------
(* The exception handlers of idt.c: each prints a blue screen and calls    *)
(* stop(), which clears IF and spins.  A user program's instruction may    *)
(* raise any exception; the handler is entered from privilege level 3.     *)

Fault(v) ==
    /\ ctx # KERNEL
    /\ panic' = [handler |-> idt(v), cpl |-> 3]
    /\ UNCHANGED <<pid_array, curr_process, pcb, esp0, pde_user, tlb_user, vidmap_on,
                   ctx, exec_frame, ret, intflag>>

\* The user program runs: an instruction fetch from its 128 MB page misses
\* in an empty TLB and walks the page directory, or hits the cached entry.
UserRuns ==
    /\ ctx # KERNEL
    /\ tlb_user' = TlbFill(tlb_user, pde_user)
    /\ UNCHANGED <<pid_array, curr_process, pcb, esp0, pde_user, vidmap_on,
                   ctx, exec_frame, ret, intflag>>

\* stop(): with interrupts off and no return, the machine spins for ever.
Stopped ==
    /\ panic # NoPanic
    /\ UNCHANGED vars

\* The steps of a running machine that leave panic alone.
Step ==
    \/ \E c \in Commands :
          ExecuteRejected(c) \/ ExecuteNoSlot(c) \/ ExecuteLoadFailed(c)
          \/ ExecuteStart(c)
    \/ \E s \in Statuses : Halt(s)
    \/ \E n \in Names : Open(n)
    \/ \E fd \in -1..NUM_MAX_OPEN_FILES : Close(fd)
    \/ \E fd \in -1..NUM_MAX_OPEN_FILES, n \in NBytes, l \in LineLens : Read(fd, n, l)
    \/ \E n \in 0..3 : GetArgs(n)
    \/ \E b \in BOOLEAN : Vidmap(b)
    \/ SetHandler \/ Sigreturn
    \/ RtcInterrupt
    \/ UserRuns

Next ==
    \/ /\ panic = NoPanic
       /\ \/ Step /\ UNCHANGED panic
          \/ \E fd \in -1..NUM_MAX_OPEN_FILES, n \in NBytes, l \in LineLens : Write(fd, n, l)
          \/ \E v \in Vectors : Fault(v)
    \/ Stopped

Spec == Init /\ [][Next]_vars

-----------------------------------------------------------------------------
(* Properties.                                                             *)

\* The stack of running programs, read from the PCBs: the running
\* program, below it the owner of the stack its execute was called on,
\* and so on down to the kernel.
RECURSIVE ChainFrom(_, _)
ChainFrom(c, depth) ==
    IF c = KERNEL \/ depth = 0 THEN <<>>
    ELSE Append(ChainFrom(StackOwner(pcb[PcbAddr(c)].parent_esp), depth - 1), c)

Chain == ChainFrom(ctx, NUM_MAX_PROCESSES + 1)

\* While a user program runs, everything the kernel uses to find "the
\* current process" agrees on it: curr_process (halt), tss.esp0 and so
\* the PCB getCurrentProcessPCB finds (open/read/write/close/getargs),
\* the 128 MB page mapping, and its slot is active.
ContextConsistent ==
    ctx # KERNEL =>
        /\ curr_process = ctx
        /\ esp0 = StackTop(ctx)
        /\ CurPcb = PcbAddr(ctx)
        /\ pde_user = Frame(ctx)
        /\ pid_array[ctx] = PROG_ACTIVE

\* The active slots are exactly the programs on the stack of running
\* programs: a slot is taken only by a program that started, and freed
\* when it halts (spec.md 4.3: a slot whose execute fails never becomes
\* Active).
ActiveIsCallChain ==
    {p \in Procs : pid_array[p] = PROG_ACTIVE} = ToSet(Chain)

\* halt returns control to the execute() that started the halting
\* program: the stack it resumes on holds a suspended execute() frame
\* waiting for exactly this child.
HaltResumesCreator ==
    [][\A s \in Statuses :
         Halt(s) => exec_frame[Masked(pcb[PcbAddr(curr_process)].parent_esp)] = ctx]_vars

\* The process layer implements the ProcStack specification under the
\* mapping of the stack to Chain.
\* A running program's memory accesses reach its own frame: whatever
\* translation the TLB cached while an earlier program ran was dropped
\* when execute, halt or a failed load rewrote the 128 MB entry.
TlbMapsRunningProgram ==
    ctx # KERNEL /\ tlb_user # -1 => tlb_user = Frame(ctx)

Abstract == INSTANCE ProcStack WITH Slots <- Procs, stack <- Chain, ret <- ret
ImplementsProcStack == Abstract!Spec
=============================================================================
