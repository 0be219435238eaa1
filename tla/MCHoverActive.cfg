CONSTANTS
    doc = doc
    e1 = e1
    e2 = e2
    e3 = e3
    e4 = e4
    t1 = t1
    t2 = t2
    Null = Null
    DocNode <- doc
    Elements <- MCElements
    TextNodes <- MCTextNodes
    Parent <- MCParent
SPECIFICATION Spec
PROPERTIES
    HoverActiveFollowNearestRenderedAncestor
\* A detached document cannot be attached again (Document::detach's own
\* comment): once it is detached the model stops.
CHECK_DEADLOCK FALSE
