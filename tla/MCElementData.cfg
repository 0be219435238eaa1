CONSTANTS
    e1 = e1
    e2 = e2
    e3 = e3
    d1 = d1
    d2 = d2
    d3 = d3
    d4 = d4
    d5 = d5
    Null = Null
    NoData = NoData
    Elements <- MCElements
    DataIds <- MCDataIds
    Names <- MCNames
    Values <- MCValues
INIT Init
NEXT Next
INVARIANTS
    NoAssertionFailure
    IdMapConsistent
    UniqueDataNotShared
    IdForStyleMatchesAttribute
PROPERTY
    ImplementsAttributeStore
