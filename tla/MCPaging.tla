------------------------------ MODULE MCPaging ------------------------------
(* Instances of Paging for TLC.  Addresses are page numbers (uva >> 12):   *)
(* USER_VA_START 0x10000 is 16, a heap page after it 17,                   *)
(* SHARE_PAGE_UVA_START 0x100000 is 256 and USER_VA_SP_BASE 0xf0000f000 is *)
(* 15728655 (vpn2 60, vpn1 0, vpn0 15).                                    *)
EXTENDS Paging

MCUva == {16, 17, 15728655}
MCUvaNoHeap == {16, 15728655}
MCOpsExit == {"exit"}
MCOpsShm == {"shm"}
=============================================================================
