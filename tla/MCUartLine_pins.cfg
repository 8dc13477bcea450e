SPECIFICATION FairSpec
CONSTANTS
    CommandPins <- TwoCommandPins
INVARIANTS
    TxWhileHolding
    MutedByReception
    ArmPinReleased
    TimerLives
PROPERTIES
    AlarmRaised
