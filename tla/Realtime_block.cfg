SPECIFICATION FairSpec
CONSTANTS
  d1 = d1
  s1 = s1
  s2 = s2
  Devices = {d1}
  Sockets = {s1, s2}
  Owner <- OneDevice
PROPERTY BlockTakesEffect
