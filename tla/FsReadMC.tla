------------------------------ MODULE FsReadMC ------------------------------
(***************************************************************************)
(* Checks read_data (FsImage) against the driver's specified result over  *)
(* every (inode, offset, length) of a small image with two-byte blocks.   *)
(* The image has a well-formed three-block file, a file whose second      *)
(* block index is out of range, a file whose first one is, an empty file  *)
(* and an inode number past inode_count.  The state is the request; each  *)
(* step picks a new one, so every reachable state is one request.         *)
(***************************************************************************)
EXTENDS FsImage

VARIABLES inode, offset, length

vars == <<inode, offset, length>>

MC_BLOCK_SIZE == 2
MC_NUM_FILES == 2
MC_FILENAME_LEN == 32
MC_NameLen == [n \in {"", "f"} |-> IF n = "" THEN 0 ELSE 1]
MC_DirEntries == [i \in 0..1 |->
                    IF i = 0 THEN [name |-> "f", filetype |-> 2, inode_num |-> 0]
                    ELSE [name |-> "", filetype |-> 0, inode_num |-> 0]]
MC_InodeCount == 4
MC_DataCount == 3
MC_Inodes == [i \in 0..3 |->
                CASE i = 0 -> [length |-> 5, blocks |-> <<2, 0, 1>>]
                  [] i = 1 -> [length |-> 4, blocks |-> <<1, 7>>]
                  [] i = 2 -> [length |-> 3, blocks |-> <<9, 0>>]
                  [] i = 3 -> [length |-> 0, blocks |-> <<>>]]
MC_DataBlocks == [b \in 0..2 |-> <<2 * b + 1, 2 * b + 2>>]

Requests == [inode : 0..4, offset : 0..6, length : 1..6]

Init == \E r \in Requests : inode = r.inode /\ offset = r.offset /\ length = r.length

\* A caller issues another read_data request.
Request == \E r \in Requests :
              inode' = r.inode /\ offset' = r.offset /\ length' = r.length

Next == Request

Spec == Init /\ [][Next]_vars

(***************************************************************************)
(* The specified result of read_data: an inode past inode_count fails; an *)
(* offset at or past the file's end gives zero bytes; otherwise the bytes *)
(* [offset, offset + min(length, flen - offset)) of the file, failing if  *)
(* any block holding one of those bytes has an index past data_count.     *)
(***************************************************************************)
ByteAt(i, x) == DataBlocks[Inodes[i].blocks[x \div BLOCK_SIZE + 1]][(x % BLOCK_SIZE) + 1]

ReadDataSpec(i, off, len) ==
    IF i >= InodeCount THEN [n |-> -1]
    ELSE IF off >= Inodes[i].length THEN [n |-> 0, bytes |-> <<>>]
    ELSE LET cnt  == IF len < Inodes[i].length - off THEN len ELSE Inodes[i].length - off
             used == {Inodes[i].blocks[(off + j) \div BLOCK_SIZE + 1] : j \in 0..cnt-1}
         IN  IF \E b \in used : b >= DataCount THEN [n |-> -1]
             ELSE [n |-> cnt, bytes |-> [j \in 1..cnt |-> ByteAt(i, off + j - 1)]]

\* read_data returns the specified count, and on success the specified
\* bytes, across block boundaries and at the end of the file (the
\* block-walking loop of read_data in filesys.c).
ReadDataMatchesSpec ==
    LET got  == read_data(inode, offset, length)
        want == ReadDataSpec(inode, offset, length)
    IN  /\ got.n = want.n
        /\ want.n >= 0 => got.bytes = want.bytes

TypeOK == /\ inode \in 0..4
          /\ offset \in 0..6
          /\ length \in 1..6
=============================================================================
