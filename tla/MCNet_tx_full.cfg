\* As MCNet.cfg: three sends with nothing sent by the card yet fill the
\* three-descriptor transmit ring.
CONSTANTS
    t1 = t1
    t2 = t2
    Task <- MCTask
    TxDescs = 3
    RxDescs = 3
    PktNums = {1, 2}
    MaxSend = 4
    MaxArrive = 4
SPECIFICATION FairSpec
PROPERTY TxRefined
CHECK_DEADLOCK FALSE
