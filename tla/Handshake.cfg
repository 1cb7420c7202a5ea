SPECIFICATION FairSpec
CONSTANTS
    Pieces = 4
    Capacity = 2
CHECK_DEADLOCK FALSE
INVARIANTS TypeOK MappedFirst FailureIsClean DescriptorsClosed
PROPERTIES StartReturns ChildLeaves
