CONSTANTS
    Minutes = {1, 2, 3}
    DefaultMinutes = 2
    MaxIdle = 6
SPECIFICATION FairTimerSpec
INVARIANT TimerInv
PROPERTY UnattendedTabLocks
