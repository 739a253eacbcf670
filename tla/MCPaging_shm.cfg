\* Two processes that share a page while their pages are swapped.
CONSTANTS
    Proc = {1, 2}
    Uva <- MCUvaNoHeap
    ImageUva = 16
    ImagePages = 1
    ShmUva = 256
    StackUva = 15728655
    ShmKey = 7
    Shell = 1
    MaxPfn = 5
    MaxPresent = 2
    MaxFrame = 24
    Ops <- MCOpsShm
SPECIFICATION Spec
INVARIANT MappedFrameIsPresentPage
