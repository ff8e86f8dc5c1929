----------------------------- MODULE FdTableMC -----------------------------
(***************************************************************************)
(* Model values for FdTable: four descriptor slots (two free after stdin  *)
(* and stdout), two-byte blocks, and a six-entry directory table holding  *)
(* ".", two regular files, the RTC device, a file whose stored name fills *)
(* all 32 bytes, and one blank entry.  GoodInodes is a well-formed image; *)
(* BadInodes gives frame0.txt a second block index past data_count.       *)
(***************************************************************************)
EXTENDS FdTable, TLC

LongName == "verylargetextwithverylongname.tx"

MC_BLOCK_SIZE == 2
MC_NUM_FILES == 6
MC_FILENAME_LEN == 32
MC_NameLen == ("" :> 0) @@ ("." :> 1) @@ ("shell" :> 5) @@ ("frame0.txt" :> 10)
              @@ ("rtc" :> 3) @@ (LongName :> 32) @@ ("nosuch" :> 6)
Entry(n, t, i) == [name |-> n, filetype |-> t, inode_num |-> i]
MC_DirEntries == [i \in 0..5 |->
                    CASE i = 0 -> Entry(".", 1, 0)
                      [] i = 1 -> Entry("shell", 2, 0)
                      [] i = 2 -> Entry("frame0.txt", 2, 1)
                      [] i = 3 -> Entry("rtc", 0, 0)
                      [] i = 4 -> Entry(LongName, 2, 1)
                      [] i = 5 -> Entry("", 0, 0)]
MC_InodeCount == 2
MC_DataCount == 3
GoodInodes == [i \in 0..1 |-> IF i = 0 THEN [length |-> 5, blocks |-> <<2, 0, 1>>]
                               ELSE [length |-> 3, blocks |-> <<1, 2>>]]
BadInodes == [GoodInodes EXCEPT ![1] = [length |-> 3, blocks |-> <<1, 5>>]]
MC_DataBlocks == [b \in 0..2 |-> <<2 * b + 1, 2 * b + 2>>]

MC_NUM_MAX_OPEN_FILES == 4
MC_NBytes == {-1, 0, 2}
MC_LineLens == {0, 3}
=============================================================================
