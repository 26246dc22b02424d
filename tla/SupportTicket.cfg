\* Two handlers overlap, and changes of the status.
CONSTANTS
    Calls = {1, 2}
    MaxMessages = 4
SPECIFICATION Spec
INVARIANTS
    TypeOK
    RepliesAreNotified
