SPECIFICATION UartSpec
CONSTANTS
    RingLen = 2
    ReadSize = 1
    MaxBytes = 6
    MaxWrites = 2
    MaxRefusals = 1
CHECK_DEADLOCK FALSE
INVARIANTS UartTypeOK RxInOrder TxInOrder ClosedIsIdle
PROPERTIES Announced RxRead TxCompletes
