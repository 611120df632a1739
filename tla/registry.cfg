SPECIFICATION Spec
CONSTANTS
  llm = llm vlm = vlm chat = chat vision = vision npu = npu cpu = cpu
  Components = {llm, vlm}
  Threads = {t1, t2, t3}
  Entries = {e1, e2, e3, e4}
  Models = {chat, vision}
  Engines = {npu, cpu}
  Handles = {}
  NoEntry = NoEntry NoEngine = NoEngine NoHandle = NoHandle NoDesc = NoDesc
  NoThread = NoThread NoRequest = NoRequest
  Requests <- PinnedRequests
  Serves <- MCServes
  Priority <- MCPriority
  Npu = npu
  ReentrantSubscribers = TRUE
SYMMETRY MCSymmetry
INVARIANTS
  TypeOK
  SingleHolder
  NoUseAfterDestroy
  NoLeakedBackend
  OneBackendPerModel
  OneNpuSlot
  NoSelfDeadlock
PROPERTIES
  ReadyGivesWay
