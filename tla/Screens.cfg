SPECIFICATION FairSpec
CONSTANTS
  own = own
  other = other
  sync = sync
  direct = direct
  Threads <- MCThreads
  Own = own
  Slots <- MCSlots
  Sync = sync
  Corrected = TRUE
  MaxId = 1
  InboxSize = 2
INVARIANT TypeOK OnlyCommittedShown
PROPERTY ScreenConverges
