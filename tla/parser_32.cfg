\* A 32-bit build: usize is as wide as the length prefix and sums wrap.
CONSTANTS
    Base = 3
    SigLen = 1
    UsizeMod = 81
    MaxLen = 9
    Credentials <- AllCredentials
SPECIFICATION Spec
INVARIANTS Tiling RoundTrip
PROPERTY TurnsConsume
CHECK_DEADLOCK FALSE
