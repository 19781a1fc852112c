SPECIFICATION FairSpec
CONSTANTS
  Models = {m1}
  Sizes = {x1, x2}
  MaxTime = 2
  MaxId = 1
INVARIANT TypeOK SessionsHaveSizes OneOpenSession
PROPERTY ApprovalSettles FoundSizesKept CompleteCardCloses
