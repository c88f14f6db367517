SPECIFICATION Spec
CONSTANTS
  ann = ann
  bob = bob
  cyd = cyd
  Unset = Unset
  Kinds = {"source", "gain", "mixer", "sink"}
  None = None
  Slow = {bob}
  Clients <- MCClients
  Order <- MCOrder
  FirstLog <- MCFirstLog
  Saved = {}
  HandEdits <- MCHandEdits
  Online = {ann, bob}
  Sends <- MCSends
  MaxMessages <- MCMaxMessages
  MaxWork = 2
  Leavers = {bob, cyd}
INVARIANTS
  LogRebuildsGraph
  SavedIsLoaded
  ClientsConverge
  AgentIdsHold
CHECK_DEADLOCK FALSE
