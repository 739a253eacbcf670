\* Two processes attach and detach a shared page while every page stays
\* present (MAX_PRESENT_PFN not reached).
CONSTANTS
    Proc = {1, 2}
    Uva <- MCUvaNoHeap
    ImageUva = 16
    ImagePages = 1
    ShmUva = 256
    StackUva = 15728655
    ShmKey = 7
    Shell = 1
    MaxPfn = 7
    MaxPresent = 7
    MaxFrame = 28
    Ops <- MCOpsShm
SPECIFICATION Spec
INVARIANTS NoPanic MappedFrameIsPresentPage
\* Each detach of the last reference loses its frame, so MaxFrame is reached
\* and allocation stops there.
CHECK_DEADLOCK FALSE
