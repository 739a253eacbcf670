\* Every system call of fs.c on four inodes (the root directory and 8MB.dat
\* take two) and fourteen blocks: the metadata block, the root directory's,
\* the twelve of 8MB.dat, of which init_bigfile leaves the last three
\* unmarked, so those are all alloc_block hands out.  The first
\* double-indirect table of 8MB.dat has two free entries, so writes at its
\* end allocate as in the lseek test.  cd only goes down, so
\* the directories rmdir removes are empty.  The view leaves out what no
\* handler reads before overwriting it: free inode records no descriptor
\* names, blocks that are not a live directory's, and the contents of
\* invalidated dentries.
CONSTANTS
    f = f
    big = big
    BigFile = big
    FileName <- MCFileName
    DirName <- MCDirName
    CdArg <- MCCdArg
    MaxInum = 4
    MaxBlock = 14
    MetaBlocks = 1
    NDirect = 1
    NIndirect = 5
    BigDbl = 3
    NDentries = 4
    BlkBytes = 1
    NFd = 1
    WriteLen <- MCWriteLen
    SeekOff <- MCSeekOff
    Ops <- MCOpsAll
SPECIFICATION Spec
VIEW LiveView
INVARIANTS
    TypeOK
    NamesMatchRefs
    BlocksWithinSize
\* A run stops when a handler goes wild or an allocation passes the bound.
CHECK_DEADLOCK FALSE
