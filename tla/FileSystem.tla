----------------------------- MODULE FileSystem -----------------------------
(***************************************************************************)
(* The on-disk file system of src/kernel/fs/fs.c: the inode and block      *)
(* bitmaps, the inode table, the dentry blocks of directories, the global  *)
(* file-descriptor table fdesc_array[] and the working directory of the    *)
(* shell (current_running->cwd_inum).                                      *)
(*                                                                         *)
(* Every do_* handler is one system call and runs whole under the big      *)
(* kernel lock, so each is one action.  Paths are single names (paths      *)
(* with '/' are not modelled), file contents are left out (a data block's  *)
(* dentry list is empty), and a directory keeps its dentries in            *)
(* direct[0] only: no code path gives a directory a second block.  A       *)
(* handler that reads or writes inode 0 or block 0 (the superblock and     *)
(* the first block-map sectors), or writes file data over the dentries of  *)
(* a live directory, leaves the file system undefined: variable wild,      *)
(* after which nothing is modelled.                                        *)
(***************************************************************************)
EXTENDS Integers, Sequences, SequencesExt, FiniteSets

CONSTANTS
    FileName,    \* names the user gives touch, ln, rm and fopen
    DirName,     \* names the user gives mkdir and rmdir
    CdArg,       \* names the user gives cd
    MaxInum,     \* bound: inodes the model has (4096 on disk)
    MaxBlock,    \* bound: blocks the model has (131072 on disk)
    MetaBlocks,  \* blocks do_mkfs marks used before the root directory (70)
    NDirect,     \* NDIRECT_BLOCKS
    NIndirect,   \* NINDIRECT_BLOCKS: block numbers in one pointer block
    BigDbl,      \* entries init_bigfile fills in the double-indirect level (1014)
    BigFile,     \* "8MB.dat", the file init_bigfile makes
    NDentries,   \* NDENTRIES_PER_BLOCK
    BlkBytes,    \* NBYTES_PER_BLOCK
    NFd,         \* NUM_FDESCS
    WriteLen,    \* lengths passed to fwrite and fread
    SeekOff,     \* offsets passed to lseek
    Ops          \* which system calls a run makes

ASSUME /\ MetaBlocks \in Nat /\ MaxBlock > MetaBlocks /\ MaxInum \in Nat \ {0}
       /\ NDirect \in Nat \ {0} /\ NDentries >= 2 /\ BlkBytes \in Nat \ {0}
       /\ WriteLen \subseteq Nat \ {0} /\ {".", ".."} \cap (FileName \cup DirName) = {}
       /\ 0 < BigDbl /\ BigDbl < NIndirect
       /\ MaxBlock >= MetaBlocks + NDirect + NIndirect + BigDbl + 4

Inum    == 1..MaxInum
Block   == 1..MaxBlock
DirIdx  == 0..NDirect-1
ExtIdx  == 0..2*NIndirect-1                   \* indirect[], then the first double-indirect table
Fd      == 0..NFd-1
RootInum == 1                                 \* ROOT_DIR_INUM
BigInum  == 2                                 \* TEST_BIG_FILE_INUM
Names   == FileName \cup DirName \cup {BigFile, ".", ".."}

Dentry(n, i) == [valid |-> TRUE, inum |-> i, name |-> n]
\* ptr is <<indirect, double_indirect, double_indirect[0]>>; ext holds the
\* block numbers written in the indirect block and then in the first block
\* of the double-indirect level.
NoInode  == [type |-> "NONE", ref |-> 0, size |-> 0, direct |-> [k \in DirIdx |-> 0],
             ptr |-> [k \in 0..2 |-> 0], ext |-> [k \in ExtIdx |-> 0]]
NoFdesc  == [inum |-> 0, read |-> FALSE, write |-> FALSE, offset |-> 0]

VARIABLES
    imap,    \* set bits of the inode map; bit b stands for inode b+1
    bmap,    \* set bits of the block map; bit b stands for block b+1
    inode,   \* inode[i]: the on-disk inode record (freeing keeps it)
    blk,     \* blk[b]: the dentries (slots with inum # 0) of block b
    fdesc,   \* fdesc_array[]
    cwd,     \* current_running->cwd_inum of the shell
    wild,    \* a handler touched inode 0, block 0 or live dentries with data
    full     \* an allocation ran past the model's bound

vars == <<imap, bmap, inode, blk, fdesc, cwd, wild, full>>

FState == [imap |-> imap, bmap |-> bmap, inode |-> inode, blk |-> blk,
           fdesc |-> fdesc, cwd |-> cwd, wild |-> wild, full |-> full]

Commit(S) ==
    /\ imap' = S.imap /\ bmap' = S.bmap /\ inode' = S.inode /\ blk' = S.blk
    /\ fdesc' = S.fdesc /\ cwd' = S.cwd /\ wild' = S.wild /\ full' = S.full

Wild(S) == [S EXCEPT !.wild = TRUE]

\* One handler: it stays inside the model's bounds and nothing undefined
\* happened before it.  A handler that went wild leaves only the flag: what
\* it wrote after that is not modelled.
Step(S) ==
    /\ ~wild /\ ~S.full
    /\ Commit(IF S.wild THEN Wild(FState) ELSE S)

-----------------------------------------------------------------------------
(* Bitmaps.                                                                *)

\* The bits `1 << s` sets in 64-bit word w: the shift is of an int, so RV64
\* shifts by s mod 32 and sign-extends the result into the uint64_t word; a
\* shift by 31 (or by -1) marks bits 31..63.
ShlBits(w, s) ==
    LET t == s % 32
    IN  {w * 64 + x : x \in (IF t = 31 THEN 31..63 ELSE {t})}

\* The first clear bit below n, or n when there is none.
FirstZero(used, n) ==
    LET free == {b \in 0..n-1 : b \notin used}
    IN  IF free = {} THEN n ELSE Min(free)

\* alloc_inode: inode number first-clear-bit + 1, the bit set by 1 << bit.
NewInum(S) == FirstZero(S.imap, MaxInum) + 1

AllocInode(S) ==
    LET k == FirstZero(S.imap, MaxInum)
    IN  IF k = MaxInum THEN [S EXCEPT !.full = TRUE]
        ELSE [S EXCEPT !.imap = @ \cup ShlBits(k \div 64, k % 64)]

\* free_inode: word inum / 64, bit inum % 64 - 1.
FreeInode(S, n) == [S EXCEPT !.imap = @ \ ShlBits(n \div 64, (n % 64) - 1)]

\* alloc_block: block number first-clear-bit + 1.
NewBlock(S) == FirstZero(S.bmap, MaxBlock) + 1

AllocBlock(S) ==
    LET k == FirstZero(S.bmap, MaxBlock)
    IN  IF k = MaxBlock THEN [S EXCEPT !.full = TRUE]
        ELSE [S EXCEPT !.bmap = @ \cup ShlBits(k \div 64, k % 64)]

\* free_block: ignores 0; sector n / 4096, word (n % 4096) / 64, bit
\* (n % 4096) % 64 - 1.
FreeBlockBits(n) ==
    IF n = 0 THEN {}
    ELSE ShlBits((n \div 4096) * 64 + (n % 4096) \div 64, ((n % 4096) % 64) - 1)

\* The loop over direct[] that do_rm and do_rmdir end with.
FreeBlocks(S, direct) ==
    [S EXCEPT !.bmap = @ \ UNION {FreeBlockBits(direct[k]) : k \in DirIdx}]

Live(S) == {i \in Inum : i - 1 \in S.imap}

\* offset_to_blk for file block k: direct[k]; then entry k - NDirect of the
\* indirect block; then, past NDirect + NIndirect, entry (k - NDirect -
\* NIndirect) % NIndirect of the table whose number is at index
\* (k - NDirect - NIndirect) / NIndirect in the double-indirect block.  A
\* pointer that is 0 makes read_block(0) read the superblock as a table
\* (-1).  Only the first table of the double-indirect block is ever written,
\* the others are 0.
BlockAt(ino, k) ==
    IF k < NDirect THEN ino.direct[k]
    ELSE IF k < NDirect + NIndirect
         THEN IF ino.ptr[0] = 0 THEN -1 ELSE ino.ext[k - NDirect]
    ELSE IF ino.ptr[1] = 0 \/ ino.ptr[2] = 0 \/ k >= NDirect + 2 * NIndirect THEN -1
    ELSE ino.ext[k - NDirect]

\* set_inode_blk_num: the same slot BlockAt reads, set to b.
SetBlockAt(ino, k, b) ==
    IF k < NDirect THEN [ino EXCEPT !.direct[k] = b]
    ELSE [ino EXCEPT !.ext[k - NDirect] = b]

-----------------------------------------------------------------------------
(* Directories.                                                            *)

DirBlock(S, d) == S.inode[d].direct[0]

\* The dentries a directory scan reads: none when direct[0] is 0.
Slots(S, d) == IF DirBlock(S, d) = 0 THEN <<>> ELSE S.blk[DirBlock(S, d)]

\* The first valid dentry named n; the scans stop at the first slot with
\* inum 0, which is the end of the list.
LookupIdx(S, d, n) == SelectInSeq(Slots(S, d), LAMBDA e : e.valid /\ e.name = n)

\* parse_path for a one-name path: the inode number, 0 for failure.
Lookup(S, d, n) ==
    IF LookupIdx(S, d, n) = 0 THEN 0 ELSE Slots(S, d)[LookupIdx(S, d, n)].inum

\* Mutant of AddDentry: no check that the block has a free slot.
AddDentryNoLimit(S, d, n, i) ==
    LET b == DirBlock(S, d)
    IN  IF b # 0 THEN [S EXCEPT !.blk[b] = Append(@, Dentry(n, i))] ELSE Wild(S)

\* The append that ends do_mkdir, do_touch and do_ln: the first slot with
\* inum 0 of direct[0]; when the block is full the scan leaves block_num 0
\* (direct[1] of a directory) and block 0 is written.
AddDentry(S, d, n, i) ==
    LET b == DirBlock(S, d)
    IN  IF b # 0 /\ Len(S.blk[b]) < NDentries
        THEN [S EXCEPT !.blk[b] = Append(@, Dentry(n, i))]
        ELSE Wild(S)

\* init_dir_inode: a new inode and block, the block holding "." and "..".
InitDirInode(S, parent) ==
    LET i  == NewInum(S)
        S1 == AllocInode(S)
        b  == NewBlock(S1)
        S2 == AllocBlock(S1)
    IN  IF S2.full THEN S2
        ELSE [S2 EXCEPT !.inode[i] = [NoInode EXCEPT !.type = "DIR", !.ref = 1,
                                                      !.direct[0] = b],
                        !.blk[b] = <<Dentry(".", i), Dentry("..", parent)>>]

-----------------------------------------------------------------------------
(* Handlers.  Each Do* operator is the state a handler leaves; a call that *)
(* fails before changing anything is left out of the action by its guard.  *)

\* do_mkdir: fails when the name exists in the working directory.
DoMkdir(S, n) ==
    LET S1 == InitDirInode(S, S.cwd)
    IN  IF S1.full THEN S1 ELSE AddDentry(S1, S.cwd, n, NewInum(S))

\* do_rmdir: parse_path returns 0 for a missing name and read_inode(0) copies
\* from offset (uint32_t)-1 of its sector buffer, far out of bounds; otherwise the dentry is invalidated, the inode
\* and its direct blocks freed.  Emptiness, links and "." are not checked.
DoRmdir(S, n) ==
    LET d   == Lookup(S, S.cwd, n)
        idx == LookupIdx(S, S.cwd, n)
        S1  == [S EXCEPT !.blk[DirBlock(S, S.cwd)][idx].valid = FALSE]
    IN  IF d = 0 THEN Wild(S)
        ELSE FreeBlocks(FreeInode(S1, d), S.inode[d].direct)

\* do_touch: a new inode of type FILE with one link and no blocks.
DoTouch(S, n) ==
    LET i  == NewInum(S)
        S1 == AllocInode(S)
        S2 == [S1 EXCEPT !.inode[i] = [NoInode EXCEPT !.type = "FILE", !.ref = 1]]
    IN  IF S1.full THEN S1 ELSE AddDentry(S2, S.cwd, n, i)

\* init_bigfile: do_touch("8MB.dat") in the root, then inode 2 is given the
\* blocks after the root directory's, in order: direct[], the indirect block
\* and its NIndirect entries, the double-indirect block, its first table
\* and BigDbl entries; the size covers every data block.  The first sector
\* of the block map is then overwritten with the bits of the metadata, the
\* root directory and the data blocks (70 + 1 + 2048): the three pointer
\* blocks are not counted.
InitBigfile(S) ==
    LET S1  == DoTouch(S, BigFile)
        fb  == MetaBlocks + 2                     \* free_block = 72
        nd  == NDirect + NIndirect + BigDbl       \* 8MB / 4KB data blocks
        ip  == fb + NDirect
        dp  == ip + 1 + NIndirect
        ino == [S1.inode[BigInum] EXCEPT
                  !.direct = [k \in DirIdx |-> fb + k],
                  !.ptr    = [k \in 0..2 |-> IF k = 0 THEN ip ELSE dp + k - 1],
                  !.ext    = [j \in ExtIdx |->
                                IF j < NIndirect THEN ip + 1 + j
                                ELSE IF j - NIndirect < BigDbl THEN dp + 2 + j - NIndirect
                                ELSE 0],
                  !.size   = nd * BlkBytes]
    IN  IF S1.full THEN S1
        ELSE [S1 EXCEPT !.inode[BigInum] = ino, !.bmap = 0..(MetaBlocks + nd)]

\* do_mkfs: block map reset to the metadata blocks, inode map cleared, the
\* root directory made again and the shell moved to it.  Inode records,
\* block contents and fdesc_array[] are not touched; init_bigfile ends it.
DoMkfs(S) ==
    LET S1 == [S EXCEPT !.bmap = 0..MetaBlocks-1, !.imap = {}]
    IN  InitBigfile([InitDirInode(S1, RootInum) EXCEPT !.cwd = RootInum])

\* Mutant of DoLn: the source's ref is not raised.
DoLnNoRef(S, src, dst) ==
    LET i  == Lookup(S, S.cwd, src)
    IN  IF i = 0 THEN Wild(S) ELSE AddDentry(S, S.cwd, dst, i)

\* do_ln: a new dentry for the source inode, whose ref is raised.  Neither a
\* missing source (read_inode(0)) nor an existing destination is checked.
DoLn(S, src, dst) ==
    LET i  == Lookup(S, S.cwd, src)
        S1 == AddDentry(S, S.cwd, dst, i)
    IN  IF i = 0 THEN Wild(S)
        ELSE [S1 EXCEPT !.inode[i].ref = @ + 1]

\* do_rm: the dentry invalidated, ref lowered; the last link frees the inode
\* and its direct blocks without writing the lowered ref back.
DoRm(S, n) ==
    LET i   == Lookup(S, S.cwd, n)
        idx == LookupIdx(S, S.cwd, n)
        S1  == [S EXCEPT !.blk[DirBlock(S, S.cwd)][idx].valid = FALSE]
    IN  IF S.inode[i].ref - 1 > 0 THEN [S1 EXCEPT !.inode[i].ref = @ - 1]
        ELSE FreeBlocks(FreeInode(S1, i), S.inode[i].direct)

\* do_statfs copies a whole sector into the 32-byte static superblock; the
\* 480 bytes after it land on the statics that follow.  Where the build puts
\* fdesc_array[] next, the descriptors become the zero bytes of the
\* superblock sector: all closed.  The other outcome changes nothing the
\* model keeps.
DoStatfs(S) == [S EXCEPT !.fdesc = [k \in Fd |-> NoFdesc]]

\* do_fopen: the first free descriptor; the offset is not reset, the modes
\* O_RDONLY 1, O_WRONLY 2, O_RDWR 3 set read and write.
DoFopen(S, n, m) ==
    LET k == Min({x \in Fd : S.fdesc[x].inum = 0})
    IN  [S EXCEPT !.fdesc[k] = [@ EXCEPT !.inum = Lookup(S, S.cwd, n),
                                         !.read = m \in {1, 3},
                                         !.write = m \in {2, 3}]]

LiveDirs(S) == {d \in Live(S) : S.inode[d].type = "DIR"}

LiveDirBlocks(S) == {DirBlock(S, d) : d \in LiveDirs(S)}

\* do_cd: to any inode parse_path finds that is not a FILE.
DoCd(S, n) == [S EXCEPT !.cwd = Lookup(S, S.cwd, n)]

\* The loop of do_fread: bytes of the blocks from offset on, up to the first
\* block that is 0 (the size is not looked at), or -1 when offset_to_blk
\* reads block 0 as a pointer table.
RECURSIVE ReadBytes(_, _, _)
ReadBytes(ino, off, len) ==
    IF len <= 0 THEN 0
    ELSE IF BlockAt(ino, off \div BlkBytes) = -1 THEN -1
    ELSE IF BlockAt(ino, off \div BlkBytes) = 0 THEN 0
    ELSE LET l == IF (off % BlkBytes) + len > BlkBytes THEN BlkBytes - (off % BlkBytes) ELSE len
             r == ReadBytes(ino, off + l, len - l)
         IN  IF r = -1 THEN -1 ELSE l + r

\* do_fread: the descriptor's offset moves by the bytes read.
DoFread(S, k, len) ==
    LET f == S.fdesc[k]
        r == ReadBytes(S.inode[f.inum], f.offset, len)
    IN  IF r = -1 THEN Wild(S) ELSE [S EXCEPT !.fdesc[k].offset = @ + r]

\* The loop of do_fwrite over the direct-block indices k..last of inode i:
\* a missing block is taken from alloc_block and recorded (set_inode_blk_num),
\* then the block is written with data.
RECURSIVE WriteBlocks(_, _, _, _)
WriteBlocks(S, i, k, last) ==
    IF k > last THEN S
    ELSE IF BlockAt(S.inode[i], k) = -1 THEN Wild(S)
    ELSE LET old == BlockAt(S.inode[i], k)
             b   == IF old = 0 THEN NewBlock(S) ELSE old
             S1  == IF old = 0
                    THEN [AllocBlock(S) EXCEPT !.inode[i] = SetBlockAt(@, k, b)]
                    ELSE S
         IN  IF S1.full THEN S1
             ELSE IF b \in LiveDirBlocks(S1) THEN Wild(S1)
             ELSE WriteBlocks([S1 EXCEPT !.blk[b] = <<>>], i, k + 1, last)

\* Mutant of DoFwrite: the size set to the end of the write, even below it.
DoFwriteSetSize(S, k, len) ==
    LET f  == S.fdesc[k]
        S1 == [S EXCEPT !.inode[f.inum].size = f.offset + len,
                        !.fdesc[k].offset = f.offset + len]
    IN  WriteBlocks(S1, f.inum, f.offset \div BlkBytes,
                    (f.offset + len - 1) \div BlkBytes)

\* do_fwrite: size and offset move past the write before the blocks are
\* written; the descriptor's inode is not checked to be live.
DoFwrite(S, k, len) ==
    LET f  == S.fdesc[k]
        S1 == [S EXCEPT !.inode[f.inum].size =
                            IF f.offset + len > @ THEN f.offset + len ELSE @,
                        !.fdesc[k].offset = f.offset + len]
    IN  WriteBlocks(S1, f.inum, f.offset \div BlkBytes,
                    (f.offset + len - 1) \div BlkBytes)

\* do_fclose: the descriptor zeroed.
DoFclose(S, k) == [S EXCEPT !.fdesc[k] = NoFdesc]

\* The offset do_lseek computes, clamped to [0, size].
SeekTo(cur, size, off, whence) ==
    CASE whence = 0 -> IF off >= 0 THEN (IF off > size THEN size ELSE off) ELSE 0
      [] whence = 1 -> IF off >= 0
                       THEN (IF off + cur > size THEN size ELSE off + cur)
                       ELSE (IF off + cur >= 0 THEN off + cur ELSE 0)
      [] whence = 2 -> IF off >= 0 THEN size
                       ELSE (IF size + off >= 0 THEN size + off ELSE 0)

\* do_lseek: a closed descriptor has inum 0, so read_inode(0).
DoLseek(S, k, off, whence) ==
    LET f == S.fdesc[k]
    IN  IF f.inum = 0 THEN Wild(S)
        ELSE [S EXCEPT !.fdesc[k].offset =
                          SeekTo(f.offset, S.inode[f.inum].size, off, whence)]

-----------------------------------------------------------------------------
(* Actions.                                                                *)

FileInums == {i \in Inum : inode[i].type = "FILE"}

Mkfs == "mkfs" \in Ops /\ Step(DoMkfs(FState))

Statfs == "statfs" \in Ops /\ Step(DoStatfs(FState))

Mkdir(n) ==
    /\ "mkdir" \in Ops
    /\ Lookup(FState, cwd, n) = 0
    /\ Step(DoMkdir(FState, n))

Rmdir(n) ==
    /\ "rmdir" \in Ops
    /\ Lookup(FState, cwd, n) \notin FileInums
    /\ Step(DoRmdir(FState, n))

Touch(n) ==
    /\ "touch" \in Ops
    /\ Lookup(FState, cwd, n) = 0
    /\ Step(DoTouch(FState, n))

Ln(src, dst) ==
    /\ "ln" \in Ops
    /\ src # dst
    /\ Step(DoLn(FState, src, dst))

Rm(n) ==
    /\ "rm" \in Ops
    /\ Lookup(FState, cwd, n) \in FileInums
    /\ Step(DoRm(FState, n))

Cd(n) ==
    /\ "cd" \in Ops
    /\ Lookup(FState, cwd, n) \in Inum \ FileInums
    /\ Step(DoCd(FState, n))

Fopen(n, m) ==
    /\ "fopen" \in Ops
    /\ Lookup(FState, cwd, n) # 0
    /\ \E k \in Fd : fdesc[k].inum = 0
    /\ Step(DoFopen(FState, n, m))

Fread(k, len) ==
    /\ "fread" \in Ops
    /\ fdesc[k].read
    /\ Step(DoFread(FState, k, len))

Fwrite(k, len) ==
    /\ "fwrite" \in Ops
    /\ fdesc[k].write
    /\ Step(DoFwrite(FState, k, len))

Fclose(k) ==
    /\ "fclose" \in Ops
    /\ fdesc[k] # NoFdesc
    /\ Step(DoFclose(FState, k))

Lseek(k, off, whence) ==
    /\ "lseek" \in Ops
    /\ Step(DoLseek(FState, k, off, whence))

\* A blank disk: init_superblock finds no magic and calls do_mkfs.
Blank == [imap |-> {}, bmap |-> {}, inode |-> [i \in Inum |-> NoInode],
          blk |-> [b \in Block |-> <<>>], fdesc |-> [k \in Fd |-> NoFdesc],
          cwd |-> RootInum, wild |-> FALSE, full |-> FALSE]

Init ==
    LET S == DoMkfs(Blank)
    IN  /\ imap = S.imap /\ bmap = S.bmap /\ inode = S.inode /\ blk = S.blk
        /\ fdesc = S.fdesc /\ cwd = S.cwd /\ wild = S.wild /\ full = S.full

Next ==
    \/ Mkfs
    \/ Statfs
    \/ \E n \in DirName : Mkdir(n) \/ Rmdir(n)
    \/ \E n \in FileName : Touch(n) \/ Rm(n)
    \/ \E s, d \in FileName : Ln(s, d)
    \/ \E n \in CdArg : Cd(n)
    \/ \E n \in FileName, m \in {1, 2, 3} : Fopen(n, m)
    \/ \E k \in Fd, len \in WriteLen : Fread(k, len) \/ Fwrite(k, len)
    \/ \E k \in Fd : Fclose(k)
    \/ \E k \in Fd, off \in SeekOff, w \in {0, 1, 2} : Lseek(k, off, w)

Spec == Init /\ [][Next]_vars

-----------------------------------------------------------------------------
(* Properties.                                                             *)

Dentries == [valid : BOOLEAN, inum : Nat, name : Names]

TypeOK ==
    /\ imap \subseteq Nat /\ bmap \subseteq Nat
    /\ inode \in [Inum -> [type : {"NONE", "FILE", "DIR"}, ref : Nat, size : Nat,
                          direct : [DirIdx -> 0..MaxBlock],
                          ptr : [0..2 -> 0..MaxBlock], ext : [ExtIdx -> 0..MaxBlock]]]
    /\ \A b \in Block : blk[b] \in Seq(Dentries) /\ Len(blk[b]) <= NDentries
    /\ fdesc \in [Fd -> [inum : 0..MaxInum, read : BOOLEAN, write : BOOLEAN,
                         offset : Nat]]
    /\ cwd \in Inum /\ wild \in BOOLEAN /\ full \in BOOLEAN

\* The valid dentries other than "." and ".." that name inode i in the
\* blocks of live directories.
NameCount(i) ==
    MapThenSumSet(LAMBDA d : Cardinality({j \in DOMAIN Slots(FState, d) :
                                 LET e == Slots(FState, d)[j]
                                 IN  e.valid /\ e.inum = i /\ e.name \notin {".", ".."}}),
                  LiveDirs(FState))

\* Link counts: every inode but the root has as many names in live
\* directories as its ref field when it is allocated, and none when it is
\* free.  do_rm frees a file when its ref drops to 0 and do_ln raises it;
\* a count that drifts leaves a name to a freed inode or a file nobody can
\* reach.
NamesMatchRefs ==
    \A i \in Inum \ {RootInum} :
        NameCount(i) = IF i \in Live(FState) THEN inode[i].ref ELSE 0

\* The slots of an inode record that hold block numbers.
Slot == {<<"direct", k>> : k \in DirIdx} \cup {<<"ext", j>> : j \in ExtIdx}
          \cup {<<"ptr", j>> : j \in 0..2}

SlotBlock(ino, s) == ino[s[1]][s[2]]

\* Block ownership: a block an allocated inode reaches (direct, pointer or
\* table entry) sits in no other slot of any allocated inode, so
\* alloc_block in do_fwrite or do_mkdir never hands out a block that a file
\* or directory still uses, whatever init_bigfile and free_block left in the
\* block map.
LiveBlocksOwnedOnce ==
    \A i, j \in Live(FState), s, t \in Slot :
        LET b == SlotBlock(inode[i], s)
        IN  b # 0 /\ <<i, s>> # <<j, t>> => SlotBlock(inode[j], t) # b

\* File sizes: every data block an allocated file reaches starts inside the
\* file's size.  do_fwrite raises the size before it allocates, lseek and
\* fread never allocate, and do_touch's fresh record has no blocks; a write
\* that lowered the size (the lseek test writes at the end, then at the
\* start of 8MB.dat) would leave blocks past the end.
BlocksWithinSize ==
    \A i \in Live(FState), k \in 0..NDirect + 2 * NIndirect - 1 :
        inode[i].type = "FILE" /\ BlockAt(inode[i], k) > 0
            => k * BlkBytes < inode[i].size

\* No handler reads or writes inode 0 or block 0, or writes file data over
\* a live directory: a bad path is a failed call, never an out-of-bounds
\* read_inode(0) or a write over the superblock.
NoWildAccess == ~wild

\* A descriptor reaches only its own file: every block named by the inode
\* record an open descriptor points at belongs to no other allocated inode,
\* so do_fwrite through it cannot change another file.
FdWritesOwnBlocks ==
    \A k \in Fd, j \in Live(FState), s, t \in Slot :
        LET i == fdesc[k].inum
        IN  /\ i # 0 /\ j # i /\ SlotBlock(inode[i], s) # 0
            => SlotBlock(inode[j], t) # SlotBlock(inode[i], s)

====
