SPECIFICATION Spec
CONSTANTS
  qAll = qAll
  qTwo = qTwo
  qPosts = qPosts
  qRows = qRows
  Queries <- MCQueries
  References <- MCSearches
  Kind <- MCKind
  FirstLimit <- MCFirstLimit
  MoreLimit <- MCMoreLimit
  Hits <- MCHits
  Followed <- MCFollowed
  NoCursor = NoCursor
  NoLoad = NoLoad
  NoReference = NoReference
  RecentLimit = 2
  MaxSubmits = 3
  Ids = {1, 2, 3}
  MaxTime = 2
INVARIANTS
  PagesInv
  RowsAreInOrder
  NothingLeftOut
  RecentBounded
PROPERTIES
  PagesAdvance
