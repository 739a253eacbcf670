\* The shell and one more process, each with an image and a stack page,
\* under a present limit of two, with room in pages[] for all four pages.
\* mm.h has MAX_PFN = MAX_PRESENT_PFN, where the first eviction fails the
\* assert of add_new_pre_page (mm.c:181); MaxPfn 4 gets past it to check
\* the swap paths, so NoPanic is not checked here.
\* Frames 6 and 7 are pid0's kernel stacks, 8-15 the shell's; MaxFrame 24
\* lets a second process run, both exit and one exec again on freed frames.
CONSTANTS
    Proc = {1, 2}
    Uva <- MCUvaNoHeap
    ImageUva = 16
    ImagePages = 1
    ShmUva = 256
    StackUva = 15728655
    ShmKey = 7
    Shell = 1
    MaxPfn = 4
    MaxPresent = 2
    MaxFrame = 24
    Ops <- MCOpsExit
SPECIFICATION Spec
INVARIANTS TypeOK MappedFrameIsPresentPage PagesMatchPtes FramesOwnedOnce KernelMapShared
\* Every exit loses its data frames and kernel stack (mm.c:274,
\* sched.c:177), so MaxFrame is reached and allocation stops there, as the
\* kernel runs out of memory.
CHECK_DEADLOCK FALSE
