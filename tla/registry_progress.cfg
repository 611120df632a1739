SPECIFICATION FairSpec
CONSTANTS
  llm = llm vlm = vlm chat = chat vision = vision npu = npu cpu = cpu
  Components = {llm, vlm}
  Threads = {t1, t2}
  Entries = {e1, e2, e3}
  Models = {chat, vision}
  Engines = {npu, cpu}
  Handles = {}
  NoEntry = NoEntry NoEngine = NoEngine NoHandle = NoHandle NoDesc = NoDesc
  NoThread = NoThread NoRequest = NoRequest
  Requests <- PlacementRequests
  Serves <- MCServes
  Priority <- MCPriority
  Npu = npu
  ReentrantSubscribers = FALSE
PROPERTIES
  StoreSpec
  GateReleased
  TeardownFinishes
