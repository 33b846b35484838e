SPECIFICATION MemorySpec
CONSTANT EvergreenCrtcs = 2
INVARIANT HaltedWhileMoved
