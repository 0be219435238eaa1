SPECIFICATION Spec
INVARIANTS
  IsValidNameFollowsRules
  ParseQualifiedNameFollowsQName
  TitleFollowsComment
