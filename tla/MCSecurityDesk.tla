--------------------------- MODULE MCSecurityDesk ---------------------------
EXTENDS SecurityDesk

MCFounders == [v1 |-> "virus_team", v2 |-> "virus_team", lead |-> "security_team"]
MCLevels == [WannaCry |-> "critical", Conficker |-> "medium"]

MCTypes == <<"tech_support", "romance_scam", "crypto_scam">>
MCPatterns ==
  [tech_support |-> {"call now"},
   romance_scam |-> {"love", "gift cards", "bitcoin"},
   crypto_scam  |-> {"bitcoin", "mining"}]
MCIndicators ==
  [yt_crackwatch |-> {"crack", "free download"},
   gh_pirated    |-> {"free download", "patch"}]
MCIntelPatterns ==
  [youtube |-> {"crack", "keygen"}, forum |-> {"crack"}]
=============================================================================
