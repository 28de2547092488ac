SPECIFICATION Spec
CONSTANTS
    t1 = t1
    t2 = t2
SYMMETRY Symmetry
INVARIANTS FilesWhole ReceivedAsSent PicturesAssembled AgreedIsKept
PROPERTIES OutInOrder OutDecodes SeeksLand
CHECK_DEADLOCK FALSE
