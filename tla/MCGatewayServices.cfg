SPECIFICATION ServicesSpec
CONSTANTS
  Clients = {"a", "b"}
  Messages <- MCMessages
  Requests = 2
  Window = 2
  Tolerance = 1
  NonceTTL = 2
  MaxTime = 5
  KeyNames = {"dev"}
  MaxKeys = 2
  Users = {"u"}
  Providers = {"deepl", "google"}
  MaxSecrets = 2
  Hooks = {"h1", "h2"}
  MaxRetries <- MCRetries
  Wanted <- MCWanted
  Events = {"health.change", "chat.completed"}
  MaxFired = 2
  MaxSeconds = 4
  QueueSize = 1
  Casts <- MCCasts
  MaxCasts = 3
  Sizes = {1, 2, 9}
  MinSample = 2
  MaxRequests = 4
  MaxMinutes = 3
  Items = 4
  Concurrency = 2
  MaxChats = 3
  Calls = {"c1", "c2", "c3"}
  Feeds = {"f1", "f2"}
  MaxUpdates = 2
INVARIANTS
  NoWindowOverLimit
  VerifiedOnce
  
  RetriesRunTheirCourse
  StreamKeepsOrder
  AnomaliesOfAMinute
  BatchAccounts
  
CHECK_DEADLOCK FALSE
