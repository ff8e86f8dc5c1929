CONSTANTS
    BLOCK_SIZE <- MC_BLOCK_SIZE
    NUM_FILES <- MC_NUM_FILES
    FILENAME_LEN <- MC_FILENAME_LEN
    NameLen <- MC_NameLen
    DirEntries <- MC_DirEntries
    InodeCount <- MC_InodeCount
    DataCount <- MC_DataCount
    Inodes <- GoodInodes
    DataBlocks <- MC_DataBlocks
    NUM_MAX_OPEN_FILES <- MC_NUM_MAX_OPEN_FILES
    NBytes <- MC_NBytes
    LineLens <- MC_LineLens
    NUM_MAX_PROCESSES <- MC_NUM_MAX_PROCESSES
    Commands <- MC_Commands
    Statuses <- MC_Statuses
    Vectors <- MC_Vectors
    KERNEL = KERNEL

SPECIFICATION Spec

INVARIANT TypeOK
INVARIANT ContextConsistent
INVARIANT TlbMapsRunningProgram
INVARIANT ActiveIsCallChain
PROPERTY HaltResumesCreator
PROPERTY ImplementsProcStack
