SPECIFICATION FairSpec
CONSTANTS
    Inputs <- LexInputs
    Letter <- LexLetters
    Reserved <- LexReserved
    Mnemonics <- LexMnemonics
    MaxPieces = 4
INVARIANTS TokensMatch NothingLost RejectionDeserved NewlinesCollapsed
PROPERTIES EndsCleanly
CHECK_DEADLOCK FALSE
