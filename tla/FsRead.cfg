CONSTANTS
    BLOCK_SIZE <- MC_BLOCK_SIZE
    NUM_FILES <- MC_NUM_FILES
    FILENAME_LEN <- MC_FILENAME_LEN
    NameLen <- MC_NameLen
    DirEntries <- MC_DirEntries
    InodeCount <- MC_InodeCount
    DataCount <- MC_DataCount
    Inodes <- MC_Inodes
    DataBlocks <- MC_DataBlocks

SPECIFICATION Spec

INVARIANT ReadDataMatchesSpec
