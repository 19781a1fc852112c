SPECIFICATION FairAccess
CONSTANTS
  d1 = d1
  s1 = s1
  None = None
  Devices = {d1}
  Sockets = {s1}
  Owner <- OneDevice
INVARIANTS TypeOK RoomCovered GivenUpIsDoomed AccessTypeOK
PROPERTIES GhostsLeave GivenUpIsCut ConnectedAreCut LimitTakesHold PagesFollowAccess
