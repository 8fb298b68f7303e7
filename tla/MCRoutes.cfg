SPECIFICATION Spec

CONSTANTS
  Nil = Nil
  u = u
  N = 3
  Item <- SmallItem
  Table <- SmallTable
  User = {u}
  ShortName = {1}
  Query <- SmallQuery
  Tags <- SmallTags
  Limit = {1, 2, 3}
  PageSize = 2
  ApiRateLimiterEnabled = TRUE
  Burst = 1
  MaxChanges = 2

INVARIANTS
  RoutesTypeOK
  
  
  NoPanic
  
  PatchedByGroup
  

PROPERTY WalkEnds
