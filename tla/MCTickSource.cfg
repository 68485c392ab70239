SPECIFICATION Spec
CONSTANTS
    Threads = {main_thread, consumer_thread}
    MaxTick = 4
INVARIANTS
    TickInv
PROPERTIES
    ReturnedTickIsFresh
    TicksAscendAlone
