SPECIFICATION FairSpec
CONSTANTS
    Block = {1, 2}
    ZeroBlock = 0
    Client = {c1, c2}
    Entitled = {c1, c2}
    MaxEvents = 4
    MaxOdd = 1
INVARIANTS
    StaleNeverHeld
    HeldIsTranslated
    AnsweredOnce
    InvalidationJustified
PROPERTIES
    StaleAnswered
CHECK_DEADLOCK FALSE
