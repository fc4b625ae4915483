--------------------------- MODULE ScamAssessment ---------------------------
(* The scoring of core_engine/scam_fighter.py (calls, phone numbers, sites,  *)
(* e-mails) and of ScammerAttribution in core_engine/virus_guard.py          *)
(* (download sources).  One case is looked into at a time.  What is known of *)
(* it is the set of the tables' marks and phrases that occur in it; it       *)
(* grows, and each analysis is made anew.                                    *)
EXTENDS Naturals, Sequences, FiniteSets, FiniteSetsExt

CONSTANTS Phrases,        \* phrases of the tables a text may contain
          ScamTypes,      \* sequence: the scam types in the table's order
          Patterns,       \* scam type -> phrases that match it
          ContentPhrases, \* phishing keywords an e-mail may contain
          Sources,        \* phrases of a download source
          Indicators,     \* scammer profile -> phrases
          IntelPatterns   \* threat feed -> phrases

VARIABLES kind,   \* what the case is about
          known,  \* the marks and phrases found so far
          filed   \* reports in ScamFighter._reports_filed (0..1)

scamVars == <<kind, known, filed>>

PhoneMarks == {"suspicious prefix", "area code 473"}
SiteMarks == {"bait in domain", "long domain", "suspicious tld"}
MailMarks == {"digits", "support", "admin", "verify user", "free provider"}

Marks(k) == CASE k = "call" -> Phrases
              [] k = "phone" -> PhoneMarks
              [] k = "site" -> SiteMarks
              [] k = "mail" -> MailMarks \cup ContentPhrases
              [] k = "source" -> Sources

Init ==
  /\ kind \in {"call", "phone", "site", "mail", "source"}
  /\ known = {}
  /\ filed = 0

---------------------------------------------------------------------------
(* analyze_call *)
Matches(type, text) == Cardinality(Patterns[type] \cap text)

MatchedTypes(text) ==
  {i \in DOMAIN ScamTypes : Matches(ScamTypes[i], text) > 0}

(* The stable descending sort puts the earliest of the best types first.     *)
Primary(text) ==
  Min({i \in MatchedTypes(text) :
         \A j \in MatchedTypes(text) :
           Matches(ScamTypes[j], text) <= Matches(ScamTypes[i], text)})

DetermineCategory(text) ==
  LET n == Cardinality(MatchedTypes(text))
  IN CASE n >= 3 -> "scam_network"
       [] n = 2 -> "call_center"
       [] OTHER -> "individual"

(* min(matches / 5, 1), in fifths *)
AnalyzeCall_Variant(text) ==
  \* A bug: the list is not sorted, and the table's first match decides.
  IF MatchedTypes(text) = {}
    THEN [type |-> "tech_support", category |-> "individual", confidence |-> 0]
    ELSE LET t == ScamTypes[Min(MatchedTypes(text))]
         IN [type |-> t, category |-> DetermineCategory(text),
             confidence |-> Min({Matches(t, text), 5})]

AnalyzeCall(text) ==
  IF MatchedTypes(text) = {}
    THEN [type |-> "tech_support", category |-> "individual", confidence |-> 0]
    ELSE LET t == ScamTypes[Primary(text)]
         IN [type |-> t, category |-> DetermineCategory(text),
             confidence |-> Min({Matches(t, text), 5})]

CategoryRank(c) ==
  CASE c = "individual" -> 0 [] c = "call_center" -> 1 [] c = "scam_network" -> 2

(* Any finding will do: the two numbers that are excused have none.          *)
AnalyzePhoneNumber(marks) == IF marks = {} THEN 0 ELSE 1

AnalyzeWebsite(marks) ==
  LET score == (IF "bait in domain" \in marks THEN 30 ELSE 0)
             + (IF "long domain" \in marks THEN 20 ELSE 0)
             + (IF "suspicious tld" \in marks THEN 40 ELSE 0)
  IN CASE score > 50 -> 2 [] score \in 26..50 -> 1 [] OTHER -> 0

(* The number of issues; any issue makes the mail suspicious.                *)
AnalyzeEmail(marks) ==
  Cardinality(marks \cap MailMarks)
    + (IF Cardinality(marks \cap ContentPhrases) > 3 THEN 1 ELSE 0)

(* check_software_attribution: each phrase of each row that matches is an    *)
(* entry.                                                                    *)
Entries(table, text) ==
  {pair \in (DOMAIN table) \X text : pair[2] \in table[pair[1]]}

AttributionRisk(text) ==
  LET profiles == Cardinality(Entries(Indicators, text))
      feeds == Cardinality(Entries(IntelPatterns, text))
  IN CASE profiles > 2 \/ feeds > 2 -> 2
       [] profiles \in 1..2 /\ feeds <= 2 -> 1
       [] OTHER -> 0

---------------------------------------------------------------------------
(* The answer of the case's route: confidence or risk, and category.         *)
Assess(marks) ==
  CASE kind = "call" ->
         LET r == AnalyzeCall(marks)
         IN [risk |-> r.confidence, category |-> CategoryRank(r.category)]
    [] kind = "phone" -> [risk |-> AnalyzePhoneNumber(marks), category |-> 0]
    [] kind = "site" -> [risk |-> AnalyzeWebsite(marks), category |-> 0]
    [] kind = "mail" -> [risk |-> AnalyzeEmail(marks), category |-> 0]
    [] kind = "source" -> [risk |-> AttributionRisk(marks), category |-> 0]

FindMore ==
  \E mark \in Marks(kind) \ known :
    /\ known' = known \cup {mark}
    /\ UNCHANGED <<kind, filed>>

GenerateAuthorityReport ==
  /\ filed = 0
  /\ filed' = 1
  /\ UNCHANGED <<kind, known>>

Next == FindMore \/ GenerateAuthorityReport

Spec == Init /\ [][Next]_scamVars

---------------------------------------------------------------------------
(* Finding more never calms the assessment down, although the best matching  *)
(* scam type may change on the way: neither the confidence in a call nor its *)
(* category falls, nor the risk of a site, a mail or a source.               *)
MoreNeverCalms ==
  [][/\ Assess(known').risk >= Assess(known).risk
     /\ Assess(known').category >= Assess(known).category]_scamVars
=============================================================================
