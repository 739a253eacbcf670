------------------------------- MODULE Paging -------------------------------
(***************************************************************************)
(* User memory of src/kernel/mm/mm.c and the page-fault handler of         *)
(* src/kernel/irq/irq.c: physical frames from kalloc/kfree, the Sv39 page  *)
(* tables of every process (pgtable.h, map_uva_to_kva, get_pte_of_uva,     *)
(* free_pagetable), the page descriptors pages[] with the FIFO             *)
(* present_pages_queue and swapped_pages_queue, and one shared page        *)
(* (share_pages[]).                                                        *)
(*                                                                         *)
(* Every handler runs whole under the big kernel lock, so each action is   *)
(* one kernel entry.  A frame is a number: kalloc hands out FREE_BASE and  *)
(* up (FREEMEM_KERNEL), the frames below are the boot page tables, and 0   *)
(* is the address 0.  A page-table page is the set of its non-zero PTE     *)
(* words, which are encoded as pgtable.h encodes them.  A user address is  *)
(* its page number uva >> 12.  Page contents and disk sectors are left     *)
(* out.  A failed assert, or a NULL page passed to swap_in, stops the      *)
(* kernel: variable panic.                                                 *)
(***************************************************************************)
EXTENDS Integers, Sequences, SequencesExt, FiniteSets, Bitwise

CONSTANTS
    Proc,        \* page directories of user processes
    Uva,         \* user pages a process touches (not the shm one)
    ShmUva,      \* SHARE_PAGE_UVA_START, where shm_page_get maps first
    ImageUva,    \* USER_VA_START, where load_task_img maps the image
    ImagePages,  \* pages of the image (memsz / PAGE_SIZE)
    StackUva,    \* USER_VA_SP_BASE, mapped by init_pcb_context at exec
    ShmKey,      \* the key processes pass to shm_page_get
    Shell,       \* the process init_pcb creates
    MaxPfn,      \* MAX_PFN: slots of pages[]
    MaxPresent,  \* MAX_PRESENT_PFN
    MaxFrame,    \* bound: frames kalloc can hand out
    Ops          \* which user operations a run makes

ASSUME /\ Shell \in Proc /\ ShmUva \notin Uva /\ StackUva \in Uva
       /\ ImagePages \in Nat \ {0} /\ ImageUva..ImageUva + ImagePages - 1 \subseteq Uva /\ ShmKey # 0
       /\ MaxPfn \in Nat \ {0} /\ MaxPresent \in Nat \ {0}
       /\ MaxFrame \in Nat \ {0}

-----------------------------------------------------------------------------
(* pgtable.h.                                                              *)

PPN_BITS == 9
PAGE_PFN_SHIFT == 10
PAGE_PRESENT == 1
PAGE_READ == 2
PAGE_WRITE == 4
PAGE_EXEC == 8
PAGE_USER == 16
PAGE_ACCESSED == 64
PAGE_DIRTY == 128
KERNEL_VA_VPN2 == 257   \* 0x101
IO_REMAP_VA_VPN2 == 384 \* 0x180

\* The three indices of a page number, after uva &= VA_MASK (39 bits).
Vpn2(u) == (u % 2^27) \div 2^(2 * PPN_BITS)
Vpn1(u) == (u \div 2^PPN_BITS) % 2^PPN_BITS
Vpn0(u) == u % 2^PPN_BITS

\* get_uva_from_vpns, as a page number.
UvaFromVpns(v2, v1, v0) == (v2 * 2^PPN_BITS + v1) * 2^PPN_BITS + v0

\* set_pfn on an entry: *entry = 0, then the pfn above the attribute bits.
SetPfn(pfn) == pfn * 2^PAGE_PFN_SHIFT

\* get_pa / get_pfn: the frame a PTE points at.  The mask of the reserved
\* bits 54..63 is left out: no PTE here sets them.
GetPfn(w) == w \div 2^PAGE_PFN_SHIFT

\* set_attribute / unset_attribute (w & ~bits).  Every attribute mask is
\* below 2^10, so only the low ten bits take part in the bit operation.
SetAttribute(w, bits) == (w - (w % 2^PAGE_PFN_SHIFT)) + ((w % 2^PAGE_PFN_SHIFT) | bits)

UnsetAttribute(w, bits) == w - ((w % 2^PAGE_PFN_SHIFT) & bits)

IsPresent(w) == w % 2 = 1

-----------------------------------------------------------------------------
Addr  == Uva \cup {ShmUva}
FREE_BASE == 6              \* the first frame kalloc hands out
Frame == FREE_BASE..MaxFrame
Slot  == 1..MaxPfn
NullPte == <<0, 0>>         \* get_pte_of_uva returning NULL

VARIABLES
    mem,        \* mem[f][i]: entry i of frame f, where non-zero
    root,       \* root[d]: the page directory frame of process d, 0 if none
    pages,      \* pages[i]: [used (page_id # 0), uva, kva, dir]
    pq, sq,     \* present_pages_queue, swapped_pages_queue
    presentNum, \* present_pages_num
    fl, brk,    \* freemem_list: kfree'd frames on top of the untouched tail at brk
    shm,        \* share_pages[0]: [key, ref, kva]
    panic

vars == <<mem, root, pages, pq, sq, presentNum, fl, brk, shm, panic>>

PState == [mem |-> mem, root |-> root, pages |-> pages, pq |-> pq, sq |-> sq,
           presentNum |-> presentNum, fl |-> fl, brk |-> brk, shm |-> shm,
           panic |-> panic]

Commit(S) ==
    /\ mem' = S.mem /\ root' = S.root /\ pages' = S.pages /\ pq' = S.pq
    /\ sq' = S.sq /\ presentNum' = S.presentNum /\ fl' = S.fl /\ brk' = S.brk
    /\ shm' = S.shm /\ panic' = S.panic

Panic(S) == [S EXCEPT !.panic = TRUE]

\* Op applied to the state S, computed once however often Op reads it: the
\* operators below thread one kernel state through a chain of calls, and
\* bind each intermediate state by this.
Bind(S, Op(_)) == CHOOSE r \in {Op(s) : s \in {S}} : TRUE

-----------------------------------------------------------------------------
(* Page-table memory.                                                      *)

\* A page holding no non-zero entry.
ZeroPage == [i \in {} |-> 0]

Rd(S, f, i) == IF f \in DOMAIN S.mem /\ i \in DOMAIN S.mem[f] THEN S.mem[f][i] ELSE 0

Wr(S, f, i, w) ==
    [S EXCEPT !.mem[f] = IF w = 0 THEN [j \in DOMAIN @ \ {i} |-> @[j]]
                         ELSE (i :> w) @@ @]

\* The indices of the non-zero entries of page f, and the same in the
\* increasing order of the loops that scan a page.
Entries(S, f) == IF f \in DOMAIN S.mem THEN DOMAIN S.mem[f] ELSE {}

RECURSIVE Ascending(_)
Ascending(X) == IF X = {} THEN <<>> ELSE <<Min(X)>> \o Ascending(X \ {Min(X)})

Used(S, f) == Ascending(Entries(S, f))

\* clear_pgdir, and the memset of a page-table page.
ClearPgdir(S, f) == [S EXCEPT !.mem[f] = ZeroPage]

-----------------------------------------------------------------------------
(* Frames.                                                                 *)

\* kalloc: the head of freemem_list; when it is the last node the list moves
\* on to the next untouched page.  The page is zeroed.
NextFrame(S) == IF S.fl = <<>> THEN S.brk ELSE Head(S.fl)

\* Mutant of Kalloc: freemem_list is not advanced past a kfree'd page.
KallocNoPop(S) ==
    Bind(S, LAMBDA s :
        ClearPgdir(IF s.fl = <<>> THEN [s EXCEPT !.brk = @ + 1] ELSE s, NextFrame(s)))

Kalloc(S) ==
    Bind(S, LAMBDA s :
        ClearPgdir(IF s.fl = <<>> THEN [s EXCEPT !.brk = @ + 1]
                   ELSE [s EXCEPT !.fl = Tail(@)], NextFrame(s)))

\* kfree: addresses below FREEMEM_KERNEL, 0 and the boot tables among
\* them, are ignored.
Kfree(S, k) == IF k < FREE_BASE THEN S ELSE [S EXCEPT !.fl = <<k>> \o @]

-----------------------------------------------------------------------------
(* The walker (mm.c).                                                      *)

\* get_pte_of_uva: the entry of u in directory g, or NULL when a level is 0.
GetPteOfUva(S, u, g) ==
    LET e2 == Rd(S, g, Vpn2(u))
        e1 == Rd(S, GetPfn(e2), Vpn1(u))
    IN  IF e2 = 0 \/ e1 = 0 \/ Rd(S, GetPfn(e1), Vpn0(u)) = 0 THEN NullPte
        ELSE <<GetPfn(e1), Vpn0(u)>>

\* The leaf PTE word of u in directory g (0 where get_pte_of_uva is NULL).
Leaf(S, u, g) == LET p == GetPteOfUva(S, u, g) IN IF p = NullPte THEN 0 ELSE Rd(S, p[1], p[2])

\* get_kva_of_uva.
GetKvaOfUva(S, u, g) == GetPfn(Leaf(S, u, g))

\* One level of map_uva_to_kva: a zero entry i of table f gets a new
\* zeroed table from kalloc, present.
NewTable(S, f, i) ==
    Bind(S, LAMBDA s :
        IF Rd(s, f, i) # 0 THEN s
        ELSE ClearPgdir(Wr(Kalloc(s), f, i, SetAttribute(SetPfn(NextFrame(s)), PAGE_PRESENT)),
                        NextFrame(s)))

\* map_uva_to_kva: missing levels allocated, then the leaf set to frame k
\* with V, R, W, X and U.
MapUvaToKva(S, u, k, g) ==
    Bind(NewTable(S, g, Vpn2(u)), LAMBDA s1 :
    Bind(NewTable(s1, GetPfn(Rd(s1, g, Vpn2(u))), Vpn1(u)), LAMBDA s2 :
        Wr(s2, GetPfn(Rd(s2, GetPfn(Rd(s2, g, Vpn2(u))), Vpn1(u))), Vpn0(u),
           SetAttribute(SetPfn(k), PAGE_PRESENT + PAGE_READ + PAGE_WRITE
                                   + PAGE_EXEC + PAGE_USER))))

\* set_attribute / unset_attribute through a pointer from get_pte_of_uva.
SetAttrAt(S, p, bits) ==
    Bind(S, LAMBDA s : Wr(s, p[1], p[2], SetAttribute(Rd(s, p[1], p[2]), bits)))

UnsetAttrAt(S, p, bits) ==
    Bind(S, LAMBDA s : Wr(s, p[1], p[2], UnsetAttribute(Rd(s, p[1], p[2]), bits)))

-----------------------------------------------------------------------------
(* Boot: the kernel page directory every process shares.                  *)

\* Static frames below FREEMEM_KERNEL: the kernel directory at PGDIR_PA,
\* the boot loader's tables for the identity mapping (vpn2 1) and the
\* kernel mapping (vpn2 0x101), each mapping 0x50000000 (pfn 0x50000) with a
\* 2 MiB leaf at vpn1 128.
PGDIR == 1
BootPmd == 2
KernelPmd == 3
KernelLeaf == SetAttribute(SetPfn(327680), PAGE_PRESENT + PAGE_READ + PAGE_WRITE + PAGE_EXEC)
\* The state main starts from: the boot tables, pg_base at the last of
\* them, init_kernel_freemem's list at FREEMEM_KERNEL, no process.
BootState ==
    [mem |-> [[f \in 1..MaxFrame |-> ZeroPage] EXCEPT
                 ![PGDIR] = (1 :> SetAttribute(SetPfn(BootPmd), PAGE_PRESENT))
                            @@ (KERNEL_VA_VPN2 :> SetAttribute(SetPfn(KernelPmd), PAGE_PRESENT)),
                 ![BootPmd] = 128 :> KernelLeaf,
                 ![KernelPmd] = 128 :> KernelLeaf],
     pgBase |-> KernelPmd,
     root |-> [d \in Proc |-> 0],
     pages |-> [i \in Slot |-> [used |-> FALSE, uva |-> 0, kva |-> 0, dir |-> 0]],
     pq |-> <<>>, sq |-> <<>>, presentNum |-> 0,
     fl |-> <<>>, brk |-> FREE_BASE,
     shm |-> [key |-> 0, ref |-> 0, kva |-> 0],
     panic |-> FALSE]

\* unmap_boot_page: clear the identity table and its directory entry.
UnmapBootPage(S) ==
    Bind(S, LAMBDA s : Wr(ClearPgdir(s, GetPfn(Rd(s, PGDIR, 1))), PGDIR, 1, 0))

\* map_va_to_io_pa: map_uva_to_kva on the kernel directory, with tables from
\* alloc_kernel_pgtable_page (pg_base += PAGE_SIZE) instead of kalloc.
IoTable(S, f, i) ==
    Bind(S, LAMBDA s :
        IF Rd(s, f, i) # 0 THEN s
        ELSE ClearPgdir(Wr([s EXCEPT !.pgBase = @ + 1], f, i,
                           SetAttribute(SetPfn(s.pgBase + 1), PAGE_PRESENT)), s.pgBase + 1))

MapVaToIoPa(S, va, pa) ==
    Bind(IoTable(S, PGDIR, Vpn2(va)), LAMBDA s1 :
    Bind(IoTable(s1, GetPfn(Rd(s1, PGDIR, Vpn2(va))), Vpn1(va)), LAMBDA s2 :
        Wr(s2, GetPfn(Rd(s2, GetPfn(Rd(s2, PGDIR, Vpn2(va))), Vpn1(va))), Vpn0(va),
           SetAttribute(SetPfn(pa), PAGE_PRESENT + PAGE_READ + PAGE_WRITE
                                    + PAGE_EXEC + PAGE_USER))))

\* ioremap of the e1000 registers, 8 pages at io_base: the page number of
\* IO_ADDR_START = 0xffffffe000000000 (vpn2 0x180) after VA_MASK, and a
\* frame number for the address bios_read_fdt returns.
IO_BASE == 384 * 2^(2 * PPN_BITS)
E1000_PFN == 262144
IoRemap(S) == FoldLeft(LAMBDA s, i : MapVaToIoPa(s, IO_BASE + i, E1000_PFN + i),
                       S, [i \in 1..8 |-> i - 1])

\* share_pgtable: every non-zero entry of the kernel directory copied.
SharePgtable(S, g) ==
    Bind(S, LAMBDA s0 :
        FoldLeft(LAMBDA s, i : Bind(s, LAMBDA t : Wr(t, g, i, Rd(t, PGDIR, i))),
                 s0, Used(s0, PGDIR)))

-----------------------------------------------------------------------------
(* Page descriptors.                                                       *)

\* find_page_with_uva / find_page_with_kva: the first match in a queue, or
\* 0 for NULL.
FindUva(S, q, u, d) ==
    LET i == SelectInSeq(S[q], LAMBDA x : S.pages[x].uva = u /\ S.pages[x].dir = d)
    IN  IF i = 0 THEN 0 ELSE S[q][i]

FindKva(S, q, k) ==
    LET i == SelectInSeq(S[q], LAMBDA x : S.pages[x].kva = k)
    IN  IF i = 0 THEN 0 ELSE S[q][i]

\* add_new_pre_page: the first unused slot of pages[] (assert if none),
\* appended to present_pages_queue.
AddNewPrePage(S, u, k, d) ==
    Bind(S, LAMBDA s :
        LET free == {i \in Slot : ~s.pages[i].used}
        IN  IF free = {} THEN Panic(s)
            ELSE [s EXCEPT !.pages[Min(free)] = [used |-> TRUE, uva |-> u, kva |-> k, dir |-> d],
                           !.pq = Append(@, Min(free)),
                           !.presentNum = @ + 1])

\* Mutant of SwapOut: the PTE keeps its present bit.
SwapOutKeepPresent(S) ==
    Bind(S, LAMBDA s :
        LET i == Head(s.pq)
        IN  Kfree([s EXCEPT !.pq = Tail(@), !.sq = Append(@, i),
                            !.presentNum = @ - 1], s.pages[i].kva))

\* swap_out: FIFO victim, written to disk, its PTE in the owner's directory
\* made not present and its frame freed.
SwapOut(S) ==
    Bind(S, LAMBDA s :
        LET i == Head(s.pq)
            g == s.pages[i]
            p == GetPteOfUva(s, g.uva, s.root[g.dir])
        IN  IF p = NullPte THEN Panic(s)
            ELSE Kfree([UnsetAttrAt(s, p, PAGE_PRESENT) EXCEPT !.pq = Tail(@),
                           !.sq = Append(@, i), !.presentNum = @ - 1], g.kva))

\* Mutant of SwapIn: the page is not mapped again.
SwapInNoMap(S, i) ==
    Bind(S, LAMBDA s :
        [Kalloc(s) EXCEPT !.sq = SelectSeq(@, LAMBDA x : x # i), !.pq = Append(@, i),
                          !.pages[i].kva = NextFrame(s), !.presentNum = @ + 1])

\* swap_in: back to the present queue in a fresh frame, mapped again in the
\* page's own directory.
SwapIn(S, i) ==
    Bind(S, LAMBDA s :
    Bind([Kalloc(s) EXCEPT !.sq = SelectSeq(@, LAMBDA x : x # i),
                           !.pq = Append(@, i),
                           !.pages[i].kva = NextFrame(s),
                           !.presentNum = @ + 1], LAMBDA s1 :
        MapUvaToKva(s1, s.pages[i].uva, NextFrame(s), s1.root[s.pages[i].dir])))

\* Mutant of AllocPageHelper: swaps out only above the limit.
AllocPageHelperLateSwap(S, u, d) ==
    Bind(S, LAMBDA s :
    Bind(MapUvaToKva(Kalloc(s), u, NextFrame(s), s.root[d]), LAMBDA s1 :
    Bind(IF s1.presentNum > MaxPresent THEN SwapOut(s1) ELSE s1, LAMBDA s2 :
        IF s2.panic THEN s2 ELSE AddNewPrePage(s2, u, NextFrame(s), d))))

\* alloc_page_helper: kalloc, map, make room, record the page.
AllocPageHelper(S, u, d) ==
    Bind(S, LAMBDA s :
    Bind(MapUvaToKva(Kalloc(s), u, NextFrame(s), s.root[d]), LAMBDA s1 :
    Bind(IF s1.presentNum >= MaxPresent THEN SwapOut(s1) ELSE s1, LAMBDA s2 :
        IF s2.panic THEN s2 ELSE AddNewPrePage(s2, u, NextFrame(s), d))))

\* reset_page_info, list_delete_entry, then kfree(page->kva), which reads
\* the kva reset_page_info has just cleared.  reset_page_info leaves pgdir;
\* a free slot's pgdir is never read, so the model clears it.
DropPage(S, q, i) ==
    Kfree([S EXCEPT !.pages[i] = [used |-> FALSE, uva |-> 0, kva |-> 0, dir |-> 0],
                    ![q] = SelectSeq(@, LAMBDA x : x # i)],
          0)

\* Mutant of FreeFound: only the swapped queue is searched.
FreeFoundSwappedOnly(S, ip, is) ==
    IF is # 0 THEN DropPage(S, "sq", is) ELSE Panic(S)

\* free_page_with_uva / free_page_with_kva: a present page, else a swapped
\* page, else assert(0).
FreeFound(S, ip, is) ==
    IF ip # 0 THEN [DropPage(S, "pq", ip) EXCEPT !.presentNum = @ - 1]
    ELSE IF is # 0 THEN DropPage(S, "sq", is)
    ELSE Panic(S)

FreePageWithUva(S, u, d) ==
    Bind(S, LAMBDA s : FreeFound(s, FindUva(s, "pq", u, d), FindUva(s, "sq", u, d)))

FreePageWithKva(S, k) ==
    Bind(S, LAMBDA s : FreeFound(s, FindKva(s, "pq", k), FindKva(s, "sq", k)))

-----------------------------------------------------------------------------
(* Kernel entries.                                                         *)

\* A step is taken only if the frames it allocates stay within MaxFrame.
Step(S) == \E s \in {S} : s.brk <= MaxFrame + 1 /\ Commit(s)

\* swap_in_all_pages: walk a snapshot of swapped_pages_queue (the safe
\* iterator) and swap in d's pages while there is room.
RECURSIVE SwapInAll(_, _, _)
SwapInAll(S, d, w) ==
    Bind(S, LAMBDA s :
        IF w = <<>> THEN s
        ELSE SwapInAll(IF s.pages[Head(w)].dir = d /\ s.presentNum < MaxPresent
                       THEN SwapIn(s, Head(w)) ELSE s, d, Tail(w)))

\* The innermost loop of free_pagetable over the third-level table of
\* (v2, v1): every non-zero leaf is freed by its address and cleared, then
\* the table page is kfree'd.
FreePte(S, d, v2, v1, pt) ==
    Bind(S, LAMBDA s0 :
    Bind(FoldLeft(LAMBDA s, v0 : Bind(s, LAMBDA t :
                      IF t.panic THEN t
                      ELSE Wr(FreePageWithUva(t, UvaFromVpns(v2, v1, v0), d), pt, v0, 0)),
                  s0, Used(s0, pt)), LAMBDA s1 :
        IF s1.panic THEN s1 ELSE Kfree(s1, pt)))

\* The middle loop over the second-level table of v2, then its memset and
\* kfree.
FreePmd(S, d, v2) ==
    Bind(S, LAMBDA s0 :
    Bind(GetPfn(Rd(s0, s0.root[d], v2)), LAMBDA pmd :
    Bind(FoldLeft(LAMBDA s, v1 : Bind(s, LAMBDA t :
                      IF t.panic THEN t ELSE FreePte(t, d, v2, v1, GetPfn(Rd(t, pmd, v1)))),
                  s0, Used(s0, pmd)), LAMBDA s1 :
        IF s1.panic THEN s1 ELSE Kfree(ClearPgdir(s1, pmd), pmd))))

\* Mutant of FreePagetable: only the I/O entry is skipped.
FreePagetableNoSkip(S, d) ==
    Bind(S, LAMBDA s0 :
        FoldLeft(LAMBDA s, v2 : Bind(s, LAMBDA t :
                     IF t.panic \/ v2 = IO_REMAP_VA_VPN2 THEN t ELSE FreePmd(t, d, v2)),
                 s0, Used(s0, s0.root[d])))

\* free_pagetable: every non-zero directory entry but the two the kernel
\* shares.
FreePagetable(S, d) ==
    Bind(S, LAMBDA s0 :
        FoldLeft(LAMBDA s, v2 : Bind(s, LAMBDA t :
                     IF t.panic \/ v2 \in {KERNEL_VA_VPN2, IO_REMAP_VA_VPN2} THEN t
                     ELSE FreePmd(t, d, v2)),
                 s0, Used(s0, s0.root[d])))

\* free_pgdir: memset and kfree the directory.
FreePgdir(S, d) ==
    Bind(S, LAMBDA s : [Kfree(ClearPgdir(s, s.root[d]), s.root[d]) EXCEPT !.root[d] = 0])

\* load_task_img: alloc_page_helper for each page of the image from
\* USER_VA_START on; the SD-card copy and the bss memset fill page
\* contents, which are left out.
LoadTaskImg(S, d) ==
    FoldLeft(LAMBDA s, i : Bind(s, LAMBDA t :
                 IF t.panic THEN t ELSE AllocPageHelper(t, ImageUva + i, d)),
             S, [i \in 1..ImagePages |-> i - 1])

\* create_pcb: kalloc the directory, load_task_img, share_pgtable, then
\* init_pcb_context: kalloc the kernel stack, map the user stack and clear
\* its X bit.
CreatePcb(S, d) ==
    Bind(S, LAMBDA s :
    Bind(LoadTaskImg([Kalloc(s) EXCEPT !.root[d] = NextFrame(s)], d), LAMBDA s1 :
        IF s1.panic THEN s1
        ELSE Bind(AllocPageHelper(Kalloc(SharePgtable(s1, s1.root[d])), StackUva, d), LAMBDA s3 :
                 IF s3.panic THEN s3
                 ELSE UnsetAttrAt(s3, GetPteOfUva(s3, StackUva, s3.root[d]), PAGE_EXEC))))

\* init_pcb: the kernel stacks of pid0_pcb and pid0_pcb2, then
\* create_pcb("shell").
InitPcb(S) == CreatePcb(Kalloc(Kalloc(S)), Shell)

\* main on hart 0: unmap_boot_page, init_kernel_freemem, init_pcb, ioremap
\* of the e1000 registers, and share_pgtable again into the shell's
\* directory, which init_pcb filled before the I/O entry existed.
Main ==
    Bind(IoRemap(InitPcb(UnmapBootPage(BootState))), LAMBDA s :
        SharePgtable(s, s.root[Shell]))

\* do_exec of a process with the free directory slot d.
Exec(d) ==
    /\ ~panic /\ root[d] = 0
    /\ Step(CreatePcb(PState, d))

\* handle_page_fault on an access (a store if st) of d to u whose PTE is 0
\* or not present: get_kva_of_uva 0 means never mapped, else the page is
\* looked up in the swapped queue (NULL reaches swap_in), room is made and
\* it is swapped in; the PTE then gets A, and D for a store.
PageFault(d, u, st) ==
    /\ ~panic /\ root[d] # 0 /\ ~IsPresent(Leaf(PState, u, root[d]))
    /\ u = ShmUva => Leaf(PState, u, root[d]) # 0
    /\ Step(Bind(IF GetKvaOfUva(PState, u, root[d]) = 0
                 THEN AllocPageHelper(PState, u, d)
                 ELSE Bind(IF presentNum >= MaxPresent THEN SwapOut(PState) ELSE PState,
                           LAMBDA s0 : IF FindUva(PState, "sq", u, d) = 0 \/ s0.panic
                                       THEN Panic(s0)
                                       ELSE SwapIn(s0, FindUva(PState, "sq", u, d))),
                 LAMBDA s1 :
                     IF s1.panic THEN s1
                     ELSE SetAttrAt(s1, GetPteOfUva(s1, u, root[d]),
                                    IF st THEN PAGE_ACCESSED + PAGE_DIRTY ELSE PAGE_ACCESSED)))

\* find_idle_task picks a task of d: swap_in_all_pages(d).
Schedule(d) ==
    /\ ~panic /\ root[d] # 0
    /\ Step(SwapInAll(PState, d, sq))

\* do_exit of the last thread of d: free_pagetable, find_idle_task picks
\* some e (0: a task with no user pages), free_pgdir.
Exit(d) ==
    /\ ~panic /\ "exit" \in Ops /\ root[d] # 0
    /\ \E s1 \in {FreePagetable(PState, d)} :
       \E e \in {0} \cup {x \in Proc \ {d} : root[x] # 0} :
           Step(Bind(IF e = 0 \/ s1.panic THEN s1 ELSE SwapInAll(s1, e, s1.sq), LAMBDA s2 :
                    IF s2.panic THEN s2 ELSE FreePgdir(s2, d)))

\* shm_page_get(key): an existing page is mapped at the first free shm
\* address, else a free slot takes the key and alloc_page_helper backs it.
ShmPageGet(d) ==
    /\ ~panic /\ "shm" \in Ops /\ root[d] # 0
    /\ GetPteOfUva(PState, ShmUva, root[d]) = NullPte
    /\ IF shm.key = ShmKey
       THEN Step(MapUvaToKva([PState EXCEPT !.shm.ref = @ + 1], ShmUva, shm.kva, root[d]))
       ELSE Step(AllocPageHelper([PState EXCEPT !.shm = [key |-> ShmKey,
                                     ref |-> @.ref + 1, kva |-> NextFrame(PState)]],
                                 ShmUva, d))

\* Mutant of ShmPageDt: the page is freed on the first detach.
ShmPageDtNoRefCheck(d) ==
    /\ ~panic /\ "shm" \in Ops /\ root[d] # 0
    /\ GetPteOfUva(PState, ShmUva, root[d]) # NullPte
    /\ LET k == GetKvaOfUva(PState, ShmUva, root[d])
           p == GetPteOfUva(PState, ShmUva, root[d])
       IN  Step(Bind(Wr(PState, p[1], p[2], 0), LAMBDA s1 :
                    IF shm.kva = k
                    THEN [FreePageWithKva([s1 EXCEPT !.shm.key = 0, !.shm.ref = 0], k)
                            EXCEPT !.shm.kva = 0]
                    ELSE s1))

\* shm_page_dt(addr): clear d's PTE; the slot whose kva equals the frame
\* the PTE held loses a reference, and the last one frees the page.
ShmPageDt(d) ==
    /\ ~panic /\ "shm" \in Ops /\ root[d] # 0
    /\ GetPteOfUva(PState, ShmUva, root[d]) # NullPte
    /\ LET k == GetKvaOfUva(PState, ShmUva, root[d])
           p == GetPteOfUva(PState, ShmUva, root[d])
       IN  Step(Bind(Wr(PState, p[1], p[2], 0), LAMBDA s1 :
                Bind(IF shm.kva = k THEN [s1 EXCEPT !.shm.ref = @ - 1] ELSE s1, LAMBDA s2 :
                    IF shm.kva = k /\ s2.shm.ref = 0
                    THEN [FreePageWithKva([s2 EXCEPT !.shm.key = 0], k) EXCEPT !.shm.kva = 0]
                    ELSE s2)))

\* The state main leaves when it switches to the shell.
Init ==
    \E s \in {Main} :
        /\ mem = s.mem /\ root = s.root /\ pages = s.pages
        /\ pq = s.pq /\ sq = s.sq /\ presentNum = s.presentNum
        /\ fl = s.fl /\ brk = s.brk /\ shm = s.shm /\ panic = s.panic

Next ==
    \E d \in Proc :
        \/ Exec(d) \/ Schedule(d) \/ ShmPageGet(d) \/ ShmPageDt(d)
        \/ \E u \in Addr, st \in BOOLEAN : PageFault(d, u, st)
        \/ Exit(d)

Spec == Init /\ [][Next]_vars

-----------------------------------------------------------------------------
(* Properties.                                                             *)

TypeOK ==
    /\ DOMAIN mem = 1..MaxFrame
    /\ \A f \in 1..MaxFrame : DOMAIN mem[f] \subseteq 0..511 /\ \A i \in DOMAIN mem[f] : mem[f][i] \in Nat \ {0}
    /\ root \in [Proc -> {0} \cup Frame]
    /\ pages \in [Slot -> [used : BOOLEAN, uva : Addr \cup {0},
                           kva : {0} \cup Frame, dir : Proc \cup {0}]]
    /\ pq \in Seq(Slot) /\ sq \in Seq(Slot)
    /\ presentNum \in 0..MaxPresent
    /\ fl \in Seq(Frame) /\ brk \in FREE_BASE..MaxFrame + 1
    /\ shm \in [key : {0, ShmKey}, ref : Nat, kva : {0} \cup Frame]
    /\ panic \in BOOLEAN

\* No kernel entry ends in a failed assert or a NULL dereference: pages[]
\* always has a free slot for add_new_pre_page (mm.c:181), free_pagetable
\* and shm_page_dt find every page they free (mm.c:283, 304), swap_out
\* finds the PTE of its victim (mm.c:209), and a fault on a mapped page
\* finds it in the swapped queue (irq.c:74).
NoPanic == ~panic

\* Every present user mapping points at the frame of a page on
\* present_pages_queue: no process reads or writes a frame that swap_out or
\* a free has handed back to kalloc.
MappedFrameIsPresentPage ==
    \A d \in Proc, u \in Addr :
        root[d] # 0 /\ IsPresent(Leaf(PState, u, root[d])) =>
            \E j \in 1..Len(pq) : pages[pq[j]].kva = GetKvaOfUva(PState, u, root[d])

\* pages[] and the page tables agree: present_pages_num counts the present
\* queue, the walk of a present page's address in its directory finds a
\* present PTE to its kva, and that of a swapped page a PTE with the present
\* bit clear, which is what the fault handler tells a swapped page by.
PagesMatchPtes ==
    /\ presentNum = Len(pq)
    /\ \A j \in 1..Len(pq) :
           LET g == pages[pq[j]]
               w == Leaf(PState, g.uva, root[g.dir])
           IN  IsPresent(w) /\ GetPfn(w) = g.kva
    /\ \A j \in 1..Len(sq) :
           LET g == pages[sq[j]]
               w == Leaf(PState, g.uva, root[g.dir])
           IN  w # 0 /\ ~IsPresent(w)

\* The page-table pages of process d: its directory and the second- and
\* third-level tables its own entries lead to (the kernel's are shared).
UserEntries(g) == {i \in Entries(PState, g) : i \notin {KERNEL_VA_VPN2, IO_REMAP_VA_VPN2}}
Pmds(g) == {GetPfn(Rd(PState, g, i)) : i \in UserEntries(g)}
TableFrames(d) ==
    LET g == root[d]
    IN  {g} \cup Pmds(g) \cup UNION {{GetPfn(Rd(PState, m, i)) : i \in Entries(PState, m)} : m \in Pmds(g)}

\* No frame has two owners: the page-table pages of live processes, the
\* frames of present pages and the entries of freemem_list are pairwise
\* disjoint, every one of them was handed out by kalloc, and no frame is
\* on freemem_list twice.  A double kfree, or a kalloc that hands out a
\* page it did not unlink, lets two owners write the same memory.
FramesOwnedOnce ==
    LET live  == {d \in Proc : root[d] # 0}
        owned == [o \in {<<"t", d>> : d \in live} \cup {<<"p", j>> : j \in 1..Len(pq)}
                   \cup {<<"f", j>> : j \in 1..Len(fl)} |->
                     CASE o[1] = "t" -> TableFrames(o[2])
                       [] o[1] = "p" -> {pages[pq[o[2]]].kva}
                       [] OTHER      -> {fl[o[2]]}]
    IN  /\ \A o \in DOMAIN owned : owned[o] \subseteq FREE_BASE..brk - 1
        /\ \A o1, o2 \in DOMAIN owned : o1 # o2 => owned[o1] \cap owned[o2] = {}

\* The kernel half of every address space stays as main set it up: the
\* boot, kernel and I/O tables keep their entries, and every live
\* directory holds the kernel directory's two shared entries.  A
\* free_pagetable that clears a shared table unmaps the kernel from every
\* process at once.
KernelMapShared ==
    /\ \A f \in 1..FREE_BASE - 1 : mem[f] = Main.mem[f]
    /\ \A d \in Proc : root[d] # 0 =>
           \A i \in {KERNEL_VA_VPN2, IO_REMAP_VA_VPN2} : Rd(PState, root[d], i) = Rd(PState, PGDIR, i)

=============================================================================
