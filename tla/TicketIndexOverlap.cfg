CONSTANTS
  r1 = r1
  r2 = r2
  c1 = c1
  k1 = k1
  k2 = k2
  k3 = k3
  s1 = s1
  s2 = s2
  Requests <- MCRequests
  Calls <- MCCalls
  Keys <- MCKeys
  Sids <- MCSids
  NoKey = NoKey
  NoSid = NoSid
  Absent = Absent
  Faults = {}
SPECIFICATION Spec
SYMMETRY IndexSymmetry
PROPERTY LogoutLeavesNoTicket
