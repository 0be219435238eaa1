CONSTANTS
    e1 = e1
    e2 = e2
    e3 = e3
    doc = doc
    Null = Null
SPECIFICATION Spec
INVARIANTS
    InheritedStatesFollowNearestAncestor
    KeywordsReflectInCanonicalCase
