# TLA+ models of the CheetOS kernel core

This directory holds TLA+ models of the CheetOS kernel in `src/student-distrib/`, together with the TLC configurations that check them. The models cover the read-only file system, the per-process file descriptor table with its system calls, process control (`execute`/`halt`), the 8259 interrupt controllers, the RTC driver, and the keyboard driver with its line editor. Every definition is translated from the C source. `PROJECT.json` maps each definition to the source lines it models and lists the runs, mutants, findings and hazards.

Tools, run from this directory:

```
tlasany Kernel.tla
tlc -workers 2 -config Kernel.cfg KernelMC
```

## 1. The system

CheetOS is a single-CPU x86 teaching kernel. These are the parts the model is concerned with.

| Part | Source | State | Operations |
|---|---|---|---|
| File system driver | `filesys.c/.h` | The boot block, inodes and data blocks of a read-only image; the image does not change after `filesys_init`. | `read_dentry_by_name`, `read_dentry_by_index`, `read_data`, `flength`, plus the file and directory drivers: `file_open/close/read/write` and `directory_open/close/read/write`. |
| Descriptor table | `pcb.h`, `syscalls.c` | `pcb_t.file_array[8]`. Each slot holds an ops table pointer, an inode, a `file_position` and `flags` (`FILE_AVAIL`/`FILE_OCCUP`). | The system calls `open`, `close`, `read` and `write`. Each checks `fd` and `flags` and then dispatches through the ops table to the file, directory, terminal or RTC driver. |
| Process control | `syscalls.c/.h`, `pcb.h`, `paging.c` | `pid_array[6]` and `curr_process`. Each process has a PCB at `0x800000 - (pid+2)*0x2000`, at the bottom of its 8 kB kernel stack. Also `tss.esp0` and the page-directory entry for the 128 MB user page. | `execute`, `halt`, `get_next_process_number`, `getCurrentProcessPCB` (which masks `esp`), `getargs` and `vidmap`. |
| RTC driver | `rtc.c/.h` | `intflag`, and the clock's registers A (rate), B (periodic interrupt enable) and C (periodic flag). | `rtc_init`; `rtc_open` (which calls `rtc_init` and `rtc_write(2)`); `rtc_read` (a busy-wait on `intflag`); `rtc_write` (frequency to rate code); `rtc_close`; the interrupt handler, which sets `intflag`, reads register C and sends EOI. |
| Terminal / keyboard | `terminal.c`, `keyboard.c/.h` | `pushed_key` (one slot), the modifier flags and the screen. | `terminal_read`, which clamps to 128 and calls `getline`. `terminal_write`, which writes until NUL or `n`. The keyboard interrupt handler `handle_charpress`. `getchar` and `getline`. |
| 8259 PIC | `i8259.c` | The driver's copies of the two mask registers; the chips' in-service registers. | `i8259_init`, `enable_irq`, `disable_irq`, `send_eoi`. |
| IDT, paging set-up | `idt.c`, `paging.c` | The IDT and the initial page tables. | Boot-time set-up and exception handlers that print and stop. |
| Tests | `tests.c` | — | Boot-time unit tests. They are read only as statements of expected behaviour. |

**How the parts interact.**

- Devices raise IRQs through the cascaded 8259s: the keyboard on master line 1, the RTC on slave line 0 (IRQ 8) behind master line 2. A handler runs with interrupts off and ends with `send_eoi`. `rtc_read` and `getline` spin in kernel code with interrupts on, waiting for a handler to set `intflag` or `pushed_key`.
- A user program enters the kernel through a system call, onto its kernel stack at `tss.esp0`.
- `open`/`close`/`read`/`write` find the caller's descriptor table through `getCurrentProcessPCB`, which masks the stack pointer.
- `halt` finds its PCB through `curr_process` instead. The two ways of locating "the current process" have to agree.
- `execute`:
  1. checks the command: a name shorter than 31 characters, a regular file, and the ELF magic in its first 4 bytes;
  2. takes the lowest free slot, which `get_next_process_number` marks active at once;
  3. maps the 128 MB page to the slot's frame and reads the image with `read_data`;
  4. initialises the child's PCB, saving the caller's `esp` in `parent_esp`;
  5. switches to user mode.

  The caller's `execute()` frame stays suspended on the caller's kernel stack.
- `halt(status)` restores the parent's page and `tss.esp0`, frees the slot, and jumps back to `parent_esp`. The suspended `execute()` then returns `status`. Programs therefore form a stack (spec.md §5).

**Behaviours that are hard to test.**

- A failure partway through `execute`, after the slot is taken.
- The two independent ways of finding the current process.
- Nested `execute`/`halt` through saved stack pointers.
- Block-boundary arithmetic in `read_data`.
- Cursor arithmetic on error returns (a `uint32_t` holding `-1`).
- `open`'s switch, which falls through.
- The keyboard/RTC interrupt flags, which are each tested and cleared in two separate steps while the handler can run in between.
- The two chips' masks and in-service bits, which one driver call must keep consistent for lines it was not asked about.

## 2. Modules

| Module | Models | Kind |
|---|---|---|
| `FsImage` | The image as CONSTANTS (`Inodes`, `DataBlocks`, `DirEntries`, `NameLen`, counts). `read_dentry_by_index`, `read_dentry_by_name`, `flength`, and `read_data`, which uses the RECURSIVE `ReadBlocks` to follow the code's outer block loop. | Pure operators. |
| `FsReadMC` | Checks `read_data` against `ReadDataSpec`, a reference definition written as a set comprehension over byte positions. | MC / algorithm check. |
| `FdTable` | One process's descriptor table. It has the drivers' `file_open`, `directory_open`, `file_close`/`directory_close`, `file_read`, `directory_read`, `file_write`/`directory_write` (always -1), `terminal_read`, `terminal_write` and the RTC flag, plus the system calls `open_call`, `close_call`, `read_call` and `write_call`. Actions are `Open`, `Close`, `ReadRejected`, `Read`, `Write` and `RtcInterrupt`. The ghosts `received` and `listed` record what the program got through each descriptor since it was opened. | Component. |
| `FdTableMC` | Directory: `.`, `shell`, `frame0.txt`, `rtc`, a 32-character name, and a blank entry. Two-byte blocks. Four descriptors. `GoodInodes`, and `BadInodes` (a block index past `data_count`). | MC. |
| `ProcStack` | What process control promises. Running programs form a stack. `Spawn` pushes a free slot, `Exit` pops and returns a status byte, `Refuse` (256) happens only when every slot is in use, and any other call leaves the stack alone. | Abstract spec. |
| `Kernel` | Process control composed with one `FdTable` per PCB (`Fd == INSTANCE FdTable`), the paging updates with the TLB, and the exception handlers of `idt.c`. See below. | Composition. |
| `KernelMC` | Two executables (`shell`, `cat`), a data file, `.`, `rtc`, a too-long name and a missing name. `BadInodes` gives `cat` an unloadable image whose header still reads. | MC. |
| `IrqMask` | What `enable_irq`/`disable_irq` promise: a set of enabled device lines, where each call changes only its own line. | Abstract spec. |
| `Pic` | The 8259 pair and `i8259.c`. `master_mask`/`slave_mask` are the driver's globals (`uint8_t`, updated with `Bitwise`); `master_isr`/`slave_isr` are the chips' in-service lines; `irr` is the asserted IRQs; `cpu` is the IRQ whose handler runs. `enable_irq`, `disable_irq` and `send_eoi` are operators; the actions are `EnableIrq`, `DisableIrq`, `Raise` (a device), `Interrupt` (the CPU takes a deliverable request in fully nested mode) and `Eoi` (a handler's `send_eoi`). `Mask` maps the chips to `IrqMask`: a line is enabled when its bit, and for a slave line the cascade bit, is clear. | Component + refinement. |
| `Rtc` | `rtc.c` composed with `Pic` (EXTENDS). `regA`, `regB`, `pf` are the clock's registers; `intflag` the driver's flag; `reader` is where `rtc_read`'s loop is (`spin`: testing, `seen`: about to clear). Actions: `RtcInit`, `RtcOpen`, `RtcWrite(f)`, `RtcClose`, `Tick` (the clock), `RtcInterrupt` (the CPU takes IRQ 8 and runs the whole handler), `RtcReadStart/Test/Clear`, and `OtherIrqs`: the keyboard's IRQ 1 and other code's `enable_irq`/`disable_irq` calls. `rtc_write_code` is the comparison chain including `frequency = 256`; `RateHz` is the MC146818's rate table. | Composition. |
| `RtcMC` | `rtc_write` arguments 2, 128, 256, 512, 17, -15. | MC. |
| `Keyboard` | `keyboard.c` and `terminal_read`. The modifier flags and `pushed_key` are the statics; `rd`, `key`, `line` (`buf[0..lp-1]`), `max` are the reader's; `size`, `top`, `typed`, `taken` are ghosts (the caller's buffer size, how far getline stored, the keys pushed and taken in this read). `handle_charpress` (with `DefaultKey` for the `default:` arm) and `getline_step` are operators; actions are `KeyPress(sc)`, `TerminalRead(n)`, and `getchar`'s three accesses to `pushed_key`: `GetcharWake`, `GetcharLoad`, `GetcharReturn` (which also runs `getline` on the key). `EditLine` is a reference line editor (a fold over the keys). | Component. |
| `KeyboardMC` | Keys A, L, backspace, enter, A's release, shift/ctrl/alt press and release, caps lock; buffer sizes -1, 0, 2; three keys per read. | MC. |

**Kernel state and how it corresponds to the code.**

- `pid_array` and `curr_process` are the globals of the same name.
- `pcb` maps each 8 kB kernel-stack slot address to the PCB stored there. That PCB has `file_array`, `parent_num`, `parent_esp` and `num_char_in_arg`.
- `esp0` is `tss.esp0`.
- `pde_user` is `page_directory[32]`, the frame of the 128 MB page. `vidmap_on` is `page_directory[33]`.
- `tlb_user` is the processor's TLB entry for the 128 MB page: the frame it cached at the last miss, or none. `flush_tlb`'s CR3 reload empties it; the entry (flags `0x87`) is not global.
- `panic` is the exception handler `stop()` spins in, with the privilege level it was entered from, or `NoPanic` while the machine runs.
- `ctx` is the context the CPU runs: the kernel's boot code, or a pid's program.
- `exec_frame` is a ghost. For each kernel stack, it records the child whose `halt` the suspended `execute()` frame on that stack is waiting for.

The stack pointer of a system call is `esp0` for a user context and the boot stack otherwise. `getCurrentProcessPCB` is `Masked(esp)`. Addresses are kept as the code computes them (`PcbAddr`, `StackTop`, `Masked`), so an off-by-one in any of these formulas shows up in the model.

**Kernel actions.**

- `execute` is split at its returns:
  - `ExecuteRejected`: the name is too long, not found, not a regular file, the header read is short, or the magic is bad.
  - `ExecuteNoSlot`: returns 256.
  - `ExecuteLoadFailed`: the slot is taken, the page is moved to the slot's frame (flushing the TLB), `read_data` writes the image through it (so the TLB caches the slot's frame, `TlbFill`), the load fails, the page is moved back to `curr_process` with a second flush, and the call returns -1.
  - `ExecuteStart`.
- `Halt`.
- `Open`, `Close`, `Read` and `Write` on the PCB that the stack gives.
- `GetArgs` and `Vidmap`.
- `SetHandler` and `Sigreturn`, which return -1 as the code does.
- `RtcInterrupt`.
- `UserRuns`: the program executes in its 128 MB page, so the TLB caches the translation the directory gives.
- `Fault(v)`: an instruction of the user program raises exception `v`; `idt(v)`, the table `init_idt` fills, names the handler, which prints a blue screen and calls `stop()`.
- `Stopped`: `stop()` has cleared IF and spins. It is the only step left, written as an explicit stuttering step so that TLC still checks every other state for deadlock.

The running steps sit under `panic = NoPanic` in `Next`: after `stop()` no interrupt and no code runs. `update_page_directory` writes `pde_user` and flushes the TLB; `vidmap` flushes it too.

`paging_init` is the part of `Init` that fixes the two directory entries the kernel later changes: both the 128 MB program page and the 132 MB video page start absent.

**The RTC arm of `write`.** `write()` calls the ops function as `(fd, buf, nbytes)`, but `rtc_write(const void* buf, int32_t nbytes)` reads `*(int*)buf`, so it dereferences the descriptor number (2..7). The first page of the first 4 MB is not present, so this page-faults into `idt.c`'s handler, which stops the machine. `write_call` returns `PAGE_FAULT` there, and `Kernel`'s `Write` enters `idt[14]` from kernel mode. The arm is unreachable today, because `open` never leaves an RTC descriptor occupied (finding 1). Once that bug is fixed, this one shows.

The context-switch assembly (`context_switch`, `return_to_execute`) is modelled by its effect: `ctx` becomes the child, or the owner of the stack that `parent_esp` lies in.

## 3. Runs

| Run | cfg | Expect | Checks | What it shows |
|---|---|---|---|---|
| `fs_read` | `FsRead.cfg` | pass | `ReadDataMatchesSpec` | Checks every inode in 0..4, offset in 0..6 and length in 1..6 on an image with 2-byte blocks. The image has a three-block file, a file with a bad second block, a file with a bad first block, an empty file, and an inode past `inode_count`. For each request, `read_data`'s count and bytes equal the specified ones. |
| `fd_table` | `FdTable.cfg` | pass | `TypeOK`, `ReadCursorConsistent`, `DirListingInOrder` | Any sequence of open/read/write/close on a well-formed image is checked, with nbytes -1, 0 and 2 (-1 is a huge `uint32_t`). Each file descriptor has delivered exactly the file's prefix up to its cursor, and the cursor stays within the file. Each directory descriptor has listed entries 0..cursor-1 in order. |
| `fd_rtc_open` | `FdTableRtcOpen.cfg` | violation | `OpenedFdOccupied` | `open("rtc")` returns a descriptor whose slot is still `FILE_AVAIL`. |
| `fd_bad_block` | `FdTableBadBlock.cfg` | violation | `ReadCursorConsistent` | A read that meets a bad block index returns -1 and moves the cursor back by one. |
| `kernel` | `Kernel.cfg` | pass | `TypeOK`, `ContextConsistent`, `TlbMapsRunningProgram`, `ActiveIsCallChain`, `HaltResumesCreator`, `ImplementsProcStack` | Nested `execute`/`halt` with file system calls in between. While a program runs, `curr_process`, `tss.esp0`, the PCB the stack gives, and the page mapping all name it. The TLB never holds another program's translation of the 128 MB page. The active slots are exactly the programs on the call chain. `halt` resumes the `execute()` that created the program. The layer refines `ProcStack`. |
| `kernel_bad_image` | `KernelBadImage.cfg` | pass | `ContextConsistent`, `TlbMapsRunningProgram`, `HaltResumesCreator` | With an unloadable program, `execute`'s rollback of the page mapping keeps the running context consistent, and `halt` still returns to its creator. The image write between the two remaps caches the new slot's frame in the TLB; the rollback's flush must drop it, or the caller resumes with the child's memory. |
| `kernel_leak` | `KernelLeak.cfg` | violation | `ActiveIsCallChain` | A failed image load leaves the slot active. |
| `pic_mask_cascade` | `PicMaskCascade.cfg` | violation | `ImplementsIrqMask` | `enable_irq(8)`, `enable_irq(12)`, `disable_irq(12)`: the last call masks the cascade line and IRQ 8 no longer reaches the CPU, although nobody disabled it. |
| `rtc` | `Rtc.cfg` | pass | `RequestServiced`, `ReadWaitsForTick`, `ReadReturns` | The RTC beside keyboard interrupts and other `enable_irq`/`disable_irq(1)` calls. Every request on an open line is eventually taken; `rtc_read` returns only after a tick handled since the last read returned or `rtc_init` ran; and every `rtc_read` of an opened RTC returns. |
| `rtc_write_rate` | `RtcWriteRate.cfg` | violation | `RateMatchesRequest` | After `rtc_open`, `rtc_write(17)` sets the clock to 256 Hz (and `rtc_write(512)` too), instead of rejecting 17 or honouring 512. |
| `keyboard` | `Keyboard.cfg` | pass | `KeysInOrder`, `LineIsEdited`, `EnterEndsRead` | Whatever the handler does between `getchar`'s accesses to `pushed_key`, a read takes keys at most once and in the order they were typed. `getline`'s line (and its return value) is the reference editor's line of the keys taken, capped at `max`. A pending Enter ends the read, even when the line is full, unless another key overwrites it first. |
| `keyboard_overrun` | `KeyboardOverrun.cfg` | violation | `NoOverrun` | `terminal_read(0, buf, 0)` followed by Enter stores the NUL at `buf[0]`; with `n = 2` and two characters typed it stores at `buf[2]`. This run takes sizes 0 and 2 only, so the trace is one of these. |

**Bounds and why they suffice.**

- **Blocks are 2 bytes.** Every request then crosses block boundaries, and a 5-byte file spans three blocks, the last one partly used.
- **Descriptor tables.** `FdTable` uses 4 slots, so two are free after stdin/stdout. That is enough to hold a file and a directory at once, and to exhaust the table. `Kernel` uses 3 slots (one free) to keep the product with the process state small.
- **Two process slots in `Kernel`.** Two slots reach a full table (`ExecuteNoSlot`), a nested chain (`shell` → `cat`), a halt of the root program back to the kernel, and a leaked slot. A trial with three slots did not finish within five minutes.
- **Exception vectors.** 0 (divide error), 14 (page fault) and 19 (the first vector `init_idt` gives `generic_error`). Every handler stops the machine, so one vector per kind of table entry suffices.
- **nbytes.** nbytes = -1 exercises the signed/unsigned conversions. Terminal line lengths and argument lengths are only compared with bounds, so two values of each suffice.
- **PIC.** Devices 1, 8 and 12 (one master line, two slave lines) and IRQ 16 (one past `NUM_IRQ`) reach every branch of the three driver functions and the cascade interaction. In `Rtc` the other code enables and disables only IRQ 1, so the RTC's line stays open and the liveness of `rtc_read` is a question about the handler, not about the known cascade bug.
- **RTC.** One value per arm class of `rtc_write`: a power of two matched early (2), the last `==` arm (128), the assignment arm (256), values it should match later or reject (512, 17, -15). The periodic flag may be set or clear at boot.
- **Keyboard.** Three keys per read reach: a key pushed while another waits (overwrite), a key pushed between `getchar`'s copy and clear, a line filled to `max = 2` with a third character dropped, backspace on an empty and a non-empty line, ctrl-L, and caps with shift. Sizes 0 and 2 put the NUL at and past the boundary; -1 is clamped to 128.

**Fairness.** `FsRead`, `FdTable` and `Kernel` assume none: system calls happen when the program makes them, and the kernel does not schedule. `Rtc` assumes:

- weak fairness of `Tick`: the clock's oscillator ends a period whenever its rate is non-zero;
- weak fairness of a running handler's `Eoi`: a handler runs to its end;
- strong fairness of `RtcInterrupt` and of each other device's `Interrupt`: the CPU checks for interrupts between instructions whenever IF is set, and the PIC presents a pending, open, unblocked request. The request is only intermittently deliverable because another handler may be running, so weak fairness would not be enough;
- weak fairness of `rtc_read`'s test and clear: the loop keeps running.

`Keyboard` assumes weak fairness of `getchar`'s three steps: `terminal_read` calls `sti()` before `getline`, so the CPU keeps running the spin loop between keyboard interrupts. `KeyPress` and `TerminalRead` get none, because the user need not type and the program need not read.

The one assumption the repository cannot confirm is that `rtc_read` runs with interrupts enabled: it does not call `sti()` itself (unlike `terminal_read`), and the system call gate is set up in files that are not here. `Raise`, `EnableIrq`/`DisableIrq`, `rtc_write` and the other calls have no fairness: nobody has to call them.

**Deadlock.** Deadlock is checked in `FdTable` and `Kernel`: `Read` of an RTC descriptor can wait, but `RtcInterrupt` is always enabled. In `Kernel`, a stopped machine takes only the `Stopped` step, so the check still covers every running state. `Rtc` and `Keyboard` turn it off: their readers busy-wait, and a loop that never sees its flag is a state with no change, which TLC would report as a deadlock. In `Rtc`, `ReadReturns` checks instead that this never lasts. In `Keyboard`, a user who stops typing really leaves `getline` spinning.

## 4. Findings

1. **`open("rtc")`.** `file_open`'s RTC branch returns before marking the slot occupied (`filesys.c:53-58`). `open`'s `case FILE_TYPE_RTC` then falls through into a second `file_open` (`syscalls.c:31-38`), which binds the same still-available slot again. As a result, the descriptor returned for the RTC cannot be read, written or closed, and it is handed out again.
2. **Cursor moves back on error.** `file_read` adds `read_data`'s `-1` to `file_position` (`filesys.c:108-109`). The next read re-delivers a byte.
3. **Slot leak in `execute`.** When the image read falls short (`syscalls.c:255-258`), `execute` returns -1 without clearing `pid_array[next]`. spec.md §4.3 says a failed `execute` never makes a slot Active.
4. **`disable_irq` silences every slave IRQ.** For a slave IRQ, `disable_irq` also sets the master's cascade bit (`i8259.c:105`). Every other slave line then stops reaching the CPU, the RTC's IRQ 8 included, until someone enables any slave IRQ again. The function's comment says it masks the specified IRQ.
5. **`rtc_write` accepts everything.** `else if ((frequency = 256))` (`rtc.c:107`) is an assignment: every value not matched by the earlier arms (17, -15, 512, 1024, ...) programs 256 Hz and returns 1. spec.md §8 says the write accepts exactly 2..1024 in powers of two and rejects everything else. The tests in `tests.c` compare only with 0 and -1, so they pass. spec.md §9 lists this branch as an open question. The device table of spec.md also says the write returns the accepted rate, whereas the code returns the register code (1 for 256 Hz).
6. **`getline` writes `max + 1` bytes.** The line stops growing at `max` characters, but Enter stores the NUL at `buf[lp]` (`keyboard.c:213`), which can be `buf[max]`. `terminal_read` passes the caller's `nbytes` as `max`, so a full line overruns the caller's buffer by one byte. For `nbytes` = 0 it writes `buf[0]` (the trace of `keyboard_overrun`). By the code, a negative `nbytes` is clamped to 128, so such a read may write up to 129 bytes; the run leaves this case out, since a negative size promises no buffer at all. The kernel's own `terminal()` loop (`keyboard.c:251-254`) passes 128 for its `char buf[128]`, so it overruns too.

## 5. Not modelled, and the plan

**Left out.**

- Byte contents of names, arguments and the screen. These are abstracted to lengths or model values. The echo (`putc`), `clear()` and `clear_terminal` only write the screen.
- `filesys_init`: a boot-time fill with no choices, taken as the constant image. Of `paging_init`, only the two entries later changed are state; `remap_video` is never called. Of the TLB, only the 128 MB entry is state: the kernel's own pages never change.
- The IRQ and system call gates. `init_idt` points every vector from 19 up at `generic_error`; the real gates, the keyboard's EOI and the system call entry are in `kernel.c` and the assembly wrappers, which are not in the repository. `Pic` and `Keyboard` assume the handlers are installed after `init_idt` and the keyboard's wrapper sends its EOI. The exception half of `idt.c` is in `Kernel`.
- `i8259.h` is not in the repository either. `NUM_IRQ` (15), `ICW3_SLAVE` (2) and `PIC_IRQ_MASK` (0xFF, all masked) are taken from the standard 8259 set-up and the bounds test in `tests.c`.
- `rtc_call_count`, which the handler increments and nothing reads.
- Key loss. `pushed_key` holds one key, and nothing promises more. `KeysInOrder` allows loss.
- `tests.c`.

**Hazards without a property.** `vidmap` surviving `halt` (`syscalls.c:146`), `getargs`'s buffer bound (`syscalls.c:327`), `directory_read`'s 33-byte copy (`filesys.c:196`) and `execute`'s unbounded argument copy (`syscalls.c:237`) would each need a model of buffer bytes, which the abstraction leaves out, and a violation run of its own.

**Larger instances tried.** A third process slot in `Kernel` did not finish within five minutes before the TLB was added, and the TLB and exception state double the space again. A fourth key per read multiplies `Keyboard`'s 978,688 states several times over its one-minute run. Both stay at the bounds above, which already reach every branch named there.

**What further work would need.** `vidmap` surviving `halt`, `getargs`'s NUL one byte past `nbytes`, `directory_read`'s 33 bytes and `execute`'s argument copy all concern bytes written to memory, which the models abstract to lengths. A model of the user buffer as a byte count, checked in a violation run, would cover them.
