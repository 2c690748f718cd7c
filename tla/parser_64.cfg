\* A 64-bit build: usize is wider than the length prefix.
CONSTANTS
    Base = 2
    SigLen = 1
    UsizeMod = 256
    MaxLen = 13
    Credentials <- AllCredentials
SPECIFICATION Spec
INVARIANTS TypeOK Tiling NoPanic RoundTrip
PROPERTY Terminates
CHECK_DEADLOCK FALSE
