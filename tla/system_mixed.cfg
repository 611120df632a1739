SPECIFICATION SystemSpec
CONSTANTS
  llm = llm cpu = cpu chat = chat
  Components = {llm}
  Threads = {t1, t2, t3}
  Entries = {e1, e2, e3, e4}
  Models = {chat}
  Engines = {cpu}
  FacadeEngines = {cpu}
  Handles = {h1}
  ComponentOf <- OneHandle
  Requests <- OneModel
  Serves <- OneServer
  Priority <- OnePriority
  Npu = cpu
  ReentrantSubscribers = FALSE
  NoEntry = NoEntry NoEngine = NoEngine NoHandle = NoHandle NoDesc = NoDesc
  NoThread = NoThread NoRequest = NoRequest NoOwner = NoOwner
SYMMETRY MCSymmetry
CHECK_DEADLOCK FALSE
INVARIANTS
  ReadyIsUsable
