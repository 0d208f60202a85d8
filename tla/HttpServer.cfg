SPECIFICATION FairSpec
CONSTANTS
  Families = {v4}
  Sessions = {h1, h2}
  Streams <- Cases
  MaxLine = 8
  MaxHeaders = 1
  MaxClients = 1
  None = None
INVARIANTS TypeOK RequestExact ResponseWhole CallbacksSurvive
PROPERTIES Served
CHECK_DEADLOCK FALSE
