SPECIFICATION RatingSpec
CONSTANTS
  ann = ann
  bob = bob
  plate1 = plate1
  plate2 = plate2
  Users = {ann, bob}
  Plates = {plate1, plate2}
  Types = {"CAR", "VAN"}
  Requests = {"r1", "r2"}
  Cron = "cron"
  Nothing = Nothing
  Founded <- MCFounded
  MaxCalls = 4
  Resolved <- MCResolved
  Scores = {1, 5}
  MaxSubmits = 2
CHECK_DEADLOCK FALSE
INVARIANTS
  RecordsAgree
  RatingHeals
PROPERTIES
  LicenceStands
  GhostsFade
