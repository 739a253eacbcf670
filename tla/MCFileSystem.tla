---------------------------- MODULE MCFileSystem ----------------------------
(* Instances of FileSystem for TLC: two file names and 8MB.dat, one        *)
(* directory name.                                                         *)
EXTENDS FileSystem, TLC

CONSTANTS f, big

MCFileName == {f, big}
MCDirName  == {"d"}
MCCdArg    == {"d"}
MCWriteLen == {1, 2}
MCSeekOff  == {0}
MCOpsAll   == {"mkfs", "statfs", "mkdir", "rmdir", "touch", "ln", "rm", "cd",
               "fopen", "fread", "fwrite", "fclose", "lseek"}
LiveView ==
    <<imap, bmap,
      [i \in Inum |-> IF i \in Live(FState) \/ \E k \in Fd : fdesc[k].inum = i
                     THEN inode[i] ELSE NoInode],
      [b \in Block |-> IF b \in LiveDirBlocks(FState)
                        THEN [j \in DOMAIN blk[b] |-> IF blk[b][j].valid THEN blk[b][j]
                                                     ELSE [valid |-> FALSE]]
                        ELSE <<>>],
      fdesc, cwd, wild, full>>
MCOpsDirs  == {"mkdir", "rmdir"}
MCOpsBig   == {"touch", "fopen", "lseek", "fwrite", "fread"}
====
