\* Two tasks sending and receiving over rings of three descriptors; four
\* packets each way, so both rings wrap and the receive ring fills and drops.
CONSTANTS
    t1 = t1
    t2 = t2
    Task <- MCTask
    TxDescs = 3
    RxDescs = 3
    PktNums = {1, 2}
    MaxSend = 4
    MaxArrive = 4
SPECIFICATION FairSpec
INVARIANT TypeOK
INVARIANT TxNoLoss
PROPERTY RxRefined
PROPERTY RecvNotStranded
\* Every run ends once the bounded wire is quiet, with receivers waiting;
\* and a full transmit ring stops its senders for good (see MCNet_tx_full).
CHECK_DEADLOCK FALSE
