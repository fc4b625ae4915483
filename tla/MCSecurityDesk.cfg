SPECIFICATION DeskSpec
CONSTANTS
  Members = {"v1", "v2", "ops"}
  Founders <- MCFounders
  OpenChannels = {"virus_team", "all"}
  AlertTypes = {"virus_alert", "vulnerability"}
  MaxMessages = 1
  MaxAcks = 2
  Authorities = {"FTC", "SEC"}
  MaxEvidence = 2
  MaxReports = 2
  MaxCustody = 3
  Contents = {"c1", "c2"}
  Handlers = {"system"}
  MaxHandlers = 3
  MaxBundles = 2
  Paths = {"p"}
  Scans = {"s1", "s2"}
  Engines = {"clamav", "microsoft_defender"}
  MaxFiles = 3
  ScanIds = {"daily_downloads", "weekly_full", "added"}
  Data = {"d1", "d2"}
  Names = {"WannaCry"}
  KnownLevels <- MCLevels
  MaxScans = 2
  MaxActions = 1
  Phrases = {"call now", "love", "gift cards", "bitcoin", "mining"}
  ScamTypes <- MCTypes
  Patterns <- MCPatterns
  ContentPhrases = {"urgent", "verify", "login", "account"}
  Sources = {"crack", "free download", "patch", "keygen"}
  Indicators <- MCIndicators
  IntelPatterns <- MCIntelPatterns

  
  
  
PROPERTY MoreNeverCalms
CHECK_DEADLOCK FALSE
