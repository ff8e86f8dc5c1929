CONSTANTS
    BLOCK_SIZE <- MC_BLOCK_SIZE
    NUM_FILES <- MC_NUM_FILES
    FILENAME_LEN <- MC_FILENAME_LEN
    NameLen <- MC_NameLen
    DirEntries <- MC_DirEntries
    InodeCount <- MC_InodeCount
    DataCount <- MC_DataCount
    Inodes <- BadInodes
    DataBlocks <- MC_DataBlocks
    NUM_MAX_OPEN_FILES <- MC_NUM_MAX_OPEN_FILES
    NBytes <- MC_NBytes
    LineLens <- MC_LineLens

SPECIFICATION Spec




INVARIANT ReadCursorConsistent
