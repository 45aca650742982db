CONSTANTS
    PAGE_SIZE = 8
    HEADER = 2
    Sizes = {0, 3, 9}
    MaxPages = 3
SPECIFICATION Spec
INVARIANTS
    BlocksAreDisjoint
    NothingLeaks
    RetrySucceeds
