\* A 32-bit build: a length that wraps the sum at line 826 passes the check.
CONSTANTS
    Base = 2
    SigLen = 1
    UsizeMod = 16
    MaxLen = 7
    Credentials <- AllCredentials
SPECIFICATION Spec
INVARIANT NoPanic
CHECK_DEADLOCK FALSE
