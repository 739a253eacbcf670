\* rmdir and mkdir in the root directory; the spec says a bad path is an
\* ordinary error result.
CONSTANTS
    f = f
    big = big
    BigFile = big
    FileName <- MCFileName
    DirName <- MCDirName
    CdArg <- MCCdArg
    MaxInum = 4
    MaxBlock = 14
    MetaBlocks = 1
    NDirect = 1
    NIndirect = 5
    BigDbl = 3
    NDentries = 4
    BlkBytes = 1
    NFd = 1
    WriteLen <- MCWriteLen
    SeekOff <- MCSeekOff
    Ops <- MCOpsDirs
SPECIFICATION Spec
INVARIANTS
    NoWildAccess
\* A run stops when a handler goes wild or an allocation passes the bound.
CHECK_DEADLOCK FALSE
