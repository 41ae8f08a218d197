\* One job edited.

CONSTANTS
  a1 = a1
  a2 = a2
  Attempt = {a1, a2}
  Prior = Prior
  Foreign = Foreign
  NoFile = NoFile
  MaxJobs = 4
  MaxChanges = 1
SPECIFICATION InstallSpec
CHECK_DEADLOCK FALSE
PROPERTIES
  EditSurvivesRollback
