SPECIFICATION FairSpec
CONSTANTS
  Mails = {m1}
  Pids <- MCPids
  Dues = {0, 2}
  Delay = 1
  MaxDefers = 1
  MaxTime = 3
  Slots = 2
  Nodes = 2
  MaxCrashes = 1
  MaxKills = 1
  Orders = {"restart", "shutdown", "flush", "flush domain"}
  MaxOrders = 1
INVARIANTS OneHolder OnTime
PROPERTIES Staffed QueueServed
CHECK_DEADLOCK FALSE
