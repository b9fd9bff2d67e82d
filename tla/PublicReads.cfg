SPECIFICATION Spec
CONSTANTS
  Posts = {1, 2, 3}
  Tags = {"old", "new"}
  Links = {1, 2, 3}
  LinkPost <- MCLinkPost
  LinkTag <- MCLinkTag
  PageSize = 1
  AdminLimit = 2
  Horizon = 1
  MaxVisits = 1
INVARIANTS
  TourIsCycle
  ListingHoldsCloud
  CountsFitRows
  WalkMissesNothing
  CountFitsItems
