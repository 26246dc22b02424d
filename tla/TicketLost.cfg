CONSTANTS
    Calls = {1, 2}
    MaxMessages = 3
SPECIFICATION Spec
INVARIANTS
    AcceptedIsKept
