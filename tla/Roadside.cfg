SPECIFICATION MCSpec
CONSTANTS
  None = None
  w1 = w1  w2 = w2  s1 = s1  p1 = p1
  Towers = {w1, w2}
  Shops = {s1}
  Points = {p1}
  Haul <- MCHaul
  Approach = {300}
  Tracked = {0, 2200}
  Platform <- MCPlatform
  Card <- MCCard
  WaitRate <- MCWaitRate
  Grace = 10
  Cap = 60
  Night = {40}
  Minutes = 40
  MaxTime = 40
  MaxTows = 2
  h1 = h1  h2 = h2
  Nobody = Nobody
  Rider = Rider
  Server = Server
  Helpers = {h1, h2}
  LastVersion = 1
  MaxSlips = 1
  MaxTalking = 2
  g1 = g1  g2 = g2
  Garages = {g1, g2}
  Place = Place
  Absent = Absent
  Driver = Driver
  Tower = Tower
  MaxEstimates = 2
  Week = 3
  Midnight = 4
  Every = Every
  Unset = Unset
  Settings <- MCSettings
  Offset = 1
  MaxAhead = 2
  LastMinute = 11
  MaxBooked = 1
CONSTRAINT Followed
INVARIANTS
  FareIsExplained
  RoomsFitTheJob
  DropOffIsAgreed
  HoursAgree
PROPERTIES
  CeilingNeverRises
