SPECIFICATION Spec
CONSTANTS
    Modes = {"chunked"}
    MaxTags = 2
    ChunkSizes = {1, 3}
INVARIANT TagsAsSent
CHECK_DEADLOCK FALSE
