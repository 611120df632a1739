SPECIFICATION FairFacadeSpec
CONSTANTS
  llm = llm vlm = vlm h1 = h1 h2 = h2
  Components = {llm, vlm}
  Threads = {t1, t2, t3}
  Entries = {e1, e2, e3}
  Models = {chat, vision}
  Engines = {npu}
  FacadeEngines = {npu}
  Handles = {h1, h2}
  ComponentOf <- OwnComponent
  NoEntry = NoEntry NoEngine = NoEngine NoHandle = NoHandle NoDesc = NoDesc
  NoOwner = NoOwner
INVARIANTS
  FacadeTypeOK
  PinBookkeeping
  OneBackendPerComponent
PROPERTIES
  StoreSpec
  HandleUnlocked
