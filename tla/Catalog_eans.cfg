SPECIFICATION FairSpec
CONSTANTS
  Products = {p1}
  Eans = {e1}
  Variants = {v1, v2}
  None = None
  p1 = p1
  e1 = e1
  v1 = v1
  v2 = v2
  MaxAttempts = 2
  MaxEdits = 1
PROPERTY EansFollowSite
