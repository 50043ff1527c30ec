SPECIFICATION Spec
CONSTANTS
    Thread = {t1, t2}
    Char <- MCChar
    Item <- MCItem
    Messages <- MCMessages
    PRINT_BUFF_SIZE = 4
    NUM_BUFF_SIZE = 12
INVARIANTS
    NumbersExact
    MessageKept
SYMMETRY Symmetric
