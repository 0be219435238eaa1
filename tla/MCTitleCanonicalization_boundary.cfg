CONSTANTS
    Alphabet <- MCBoundaryAlphabet
    Category <- BoundaryCategory
    MaxTitleLength = 3
INIT Init
NEXT Next
INVARIANT TitleFollowsComment
