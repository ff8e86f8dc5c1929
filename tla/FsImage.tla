------------------------------ MODULE FsImage ------------------------------
(***************************************************************************)
(* The read-only filesystem driver of src/student-distrib/filesys.c: the   *)
(* boot block's directory-entry table, the inodes and the data blocks of   *)
(* a static image, and the three lookups the rest of the kernel calls:     *)
(* read_dentry_by_name, read_dentry_by_index and read_data.  The image is  *)
(* never written, so it is a set of CONSTANTS and the driver is a set of   *)
(* operators; the modules that hold state (FdTable, Kernel) extend this    *)
(* one.  Byte values are abstracted to small integers; names are strings   *)
(* whose C length (strlen) is given by NameLen.                            *)
(***************************************************************************)
EXTENDS Integers, Sequences, FiniteSets

CONSTANTS
    BLOCK_SIZE,    \* NUM_B_IN_FOUR_KB: bytes per data block (4096 in the code)
    NUM_FILES,     \* capacity of the directory-entry table (63 in the code)
    FILENAME_LEN,  \* FILENAME_LEN (32)
    NameLen,       \* NameLen[n]: strlen of name n; "" is the blank entry's name
    DirEntries,    \* [0..NUM_FILES-1 -> [name, filetype, inode_num]]
    InodeCount,    \* boot_block->inode_count
    DataCount,     \* boot_block->data_count
    Inodes,        \* [0..InodeCount-1 -> [length, blocks]]: inode_block_t
    DataBlocks     \* [0..DataCount-1 -> Seq(byte)], each of BLOCK_SIZE bytes

Names == DOMAIN NameLen

\* dentry_t.filetype values (filesys.h)
FILE_TYPE_RTC  == 0
FILE_TYPE_DIR  == 1
FILE_TYPE_FILE == 2

\* The "no entry" outcome of a failed lookup (the functions return -1).
NotFound == [name |-> "", filetype |-> -1, inode_num |-> -1]

ASSUME /\ BLOCK_SIZE \in Nat \ {0}
       /\ DOMAIN DirEntries = 0..NUM_FILES-1
       /\ \A i \in 0..NUM_FILES-1 : DirEntries[i].name \in Names
       /\ DOMAIN Inodes = 0..InodeCount-1
       /\ DOMAIN DataBlocks = 0..DataCount-1
       /\ \A b \in 0..DataCount-1 : Len(DataBlocks[b]) = BLOCK_SIZE

MinOf(S) == CHOOSE x \in S : \A y \in S : x <= y
MinOf3(a, b, c) == MinOf({a, b, c})

(***************************************************************************)
(* read_dentry_by_index: bounds-checked against the table's capacity, not *)
(* against dir_count, so blank entries past the live ones are returned.   *)
(***************************************************************************)
read_dentry_by_index(index) ==
    IF index >= NUM_FILES \/ index < 0 THEN NotFound ELSE DirEntries[index]

(***************************************************************************)
(* read_dentry_by_name: an empty name fails; otherwise the first entry of *)
(* the whole table (all NUM_FILES slots) whose name matches.               *)
(***************************************************************************)
read_dentry_by_name(fname) ==
    LET hits == {i \in 0..NUM_FILES-1 : DirEntries[i].name = fname}
    IN  IF NameLen[fname] = 0 \/ hits = {} THEN NotFound
        ELSE read_dentry_by_index(MinOf(hits))

\* flength: the inode's length field, no bounds check.
flength(inode) == Inodes[inode].length

(***************************************************************************)
(* read_data.  The outer while loop of the code walks the inode's block   *)
(* list; each iteration checks the block index against data_count, then   *)
(* the inner loop copies until the request, the block or the file ends.   *)
(* Result: [n |-> bytes copied or -1, bytes |-> what was written to buf]. *)
(* On a bad block the bytes already copied stay in buf but n is -1.       *)
(***************************************************************************)
RECURSIVE ReadBlocks(_, _, _, _, _, _)
ReadBlocks(inode, index_in_inode, index_in_data_block, offset, length, buf) ==
    LET flen           == Inodes[inode].length
        data_block_num == Inodes[inode].blocks[index_in_inode + 1]
    IN  IF data_block_num >= DataCount
        THEN [n |-> -1, bytes |-> buf]
        ELSE LET k    == MinOf3(length - Len(buf),
                                BLOCK_SIZE - index_in_data_block,
                                flen - offset)
                 buf2 == buf \o SubSeq(DataBlocks[data_block_num],
                                       index_in_data_block + 1,
                                       index_in_data_block + k)
             IN  IF Len(buf2) >= length \/ offset + k >= flen
                 THEN [n |-> Len(buf2), bytes |-> buf2]
                 ELSE ReadBlocks(inode, index_in_inode + 1, 0,
                                 offset + k, length, buf2)

\* Variant: the walk starts at the beginning of the first block,
\* ignoring offset % BLOCK_SIZE.
read_data_block_aligned(inode, offset, length) ==
    IF inode >= InodeCount THEN [n |-> -1, bytes |-> <<>>]
    ELSE IF offset >= Inodes[inode].length THEN [n |-> 0, bytes |-> <<>>]
    ELSE ReadBlocks(inode, offset \div BLOCK_SIZE, 0, offset, length, <<>>)

read_data(inode, offset, length) ==
    IF inode >= InodeCount THEN [n |-> -1, bytes |-> <<>>]
    ELSE IF offset >= Inodes[inode].length THEN [n |-> 0, bytes |-> <<>>]
    ELSE ReadBlocks(inode, offset \div BLOCK_SIZE, offset % BLOCK_SIZE,
                    offset, length, <<>>)

=============================================================================
