------------------------------ MODULE KernelMC ------------------------------
(***************************************************************************)
(* Model values for Kernel: two process slots, three descriptor slots     *)
(* (one free after stdin and stdout), two-byte blocks, and a directory    *)
(* with two executables (shell and cat, both starting with the ELF magic),*)
(* a data file, the RTC device, "." and a name too long for execute.      *)
(* GoodInodes is a well-formed image; BadInodes gives cat a third block   *)
(* index past data_count, so its header reads but its image does not.    *)
(***************************************************************************)
EXTENDS Kernel, TLC

LongName == "verylargetextwithverylongname.tx"

MC_BLOCK_SIZE == 2
MC_NUM_FILES == 6
MC_FILENAME_LEN == 32
MC_NameLen == ("." :> 1) @@ ("shell" :> 5) @@ ("cat" :> 3) @@ ("frame0.txt" :> 10)
              @@ ("rtc" :> 3) @@ (LongName :> 32) @@ ("nosuch" :> 6)
Entry(n, t, i) == [name |-> n, filetype |-> t, inode_num |-> i]
MC_DirEntries == [i \in 0..5 |->
                    CASE i = 0 -> Entry(".", 1, 0)
                      [] i = 1 -> Entry("shell", 2, 0)
                      [] i = 2 -> Entry("cat", 2, 2)
                      [] i = 3 -> Entry("frame0.txt", 2, 1)
                      [] i = 4 -> Entry("rtc", 0, 0)
                      [] i = 5 -> Entry(LongName, 2, 0)]
MC_InodeCount == 3
MC_DataCount == 3
\* Block 0 holds 7F 45, block 1 holds 4C 46: the ELF magic.
MC_DataBlocks == (0 :> <<127, 69>>) @@ (1 :> <<76, 70>>) @@ (2 :> <<1, 2>>)
GoodInodes == (0 :> [length |-> 5, blocks |-> <<0, 1, 2>>])
              @@ (1 :> [length |-> 3, blocks |-> <<2, 0>>])
              @@ (2 :> [length |-> 4, blocks |-> <<0, 1>>])
BadInodes == [GoodInodes EXCEPT ![2] = [length |-> 5, blocks |-> <<0, 1, 7>>]]

MC_NUM_MAX_OPEN_FILES == 3
MC_NBytes == {2}
MC_LineLens == {0}
MC_NUM_MAX_PROCESSES == 2
MC_Commands == {[name |-> "shell", argc |-> 0], [name |-> "cat", argc |-> 2],
                [name |-> "frame0.txt", argc |-> 0], [name |-> ".", argc |-> 0],
                [name |-> LongName, argc |-> 0], [name |-> "nosuch", argc |-> 0]}
MC_Statuses == {3}
\* Divide error, page fault, and a vector past the named exceptions.
MC_Vectors == {0, 14, 19}
=============================================================================
