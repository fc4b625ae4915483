SPECIFICATION EngineSpec
CONSTANTS
  Worlds <- MCWorlds
  Nodes = {"n1", "n2"}
  MaxPackets = 3
  Calls = {"c1", "c2"}
  Targets = {0, 1, 2}
  MaxClients = 5
  MaxFlips = 2
  AgentNames = {"coder"}
  Handlings = {"h1"}
  MaxObjects = 3
  MaxTools = 2
  MaxLog = 1
  MaxTasks = 3
  MaxAgents = 2
  MaxActions = 2
  MaxMail = 1
  Requests = {"r1", "r2", "r3"}
  Readings = {1, 2}
  MaxSamples = 2
  MaxRecorded = 3
  Components = {"cache"}
  Critical <- MCCritical
  Fallbacks = {"create_translator"}
  Needed <- MCNeeded
  MaxChecks = 4
  Explicit <- MCExplicit
  Skills = {"say", "other"}
  Builtins = {"translate"}
  Contents <- MCContents
  MaxEdits = 4
  Texts = {"t1", "t2", "t3"}
  Chats = {"c1", "c2"}
  MaxClose = 1
INVARIANTS
  LoadOrderSafe
  
  HeartbeatsSurviveSplits
  FailoverSound
  
  ObserversSound
  
CHECK_DEADLOCK FALSE
