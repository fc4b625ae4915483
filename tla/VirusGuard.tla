----------------------------- MODULE VirusGuard -----------------------------
(* core_engine/virus_guard.py, VirusDetector and VirusEradicator behind      *)
(* gateway/routes/virus.py: data is compared with every signature, the best  *)
(* match above a threshold decides, and what is critical is remembered as    *)
(* quarantined.  A similarity is one of three classes, by the thresholds     *)
(* 0.5 and 0.7; which class a piece of data has for a signature is free.     *)
EXTENDS Naturals, Sequences, FiniteSets

CONSTANTS Data,        \* hashes of scanned data and eradication targets
          Names,       \* signature names
          KnownLevels, \* [SUBSET Names -> Levels]: _setup_known_signatures
          MaxScans, MaxActions

Levels == {"low", "medium", "high", "critical"}
Similarity == {"clean", "suspicious", "infected"}   \* <= 0.5 < .. <= 0.7 < ..

VARIABLES signatures,  \* name -> threat level
          quarantine,  \* the set of entries of _quarantine
          detections,  \* _detection_history: [status, name, data, level]
          actions,     \* VirusEradicator._actions_log
          verdict      \* the status the last scan request was answered with

guardVars == <<signatures, quarantine, detections, actions, verdict>>

Init ==
  /\ signatures = KnownLevels
  /\ quarantine = {}
  /\ detections = <<>>
  /\ actions = <<>>
  /\ verdict = "none"

---------------------------------------------------------------------------
(* Adding a name again replaces the signature, its threat level included.    *)
AddSignature ==
  \E n \in Names, l \in Levels :
    /\ signatures' = [x \in DOMAIN signatures \cup {n} |->
                        IF x = n THEN l ELSE signatures[x]]
    /\ UNCHANGED <<quarantine, detections, actions, verdict>>

(* scan_data: name is the best match and class its similarity.               *)
ScanData(d, name, class) ==
  /\ detections' = Append(detections,
       [status |-> class, data |-> d,
        name |-> IF class = "clean" THEN "Unknown" ELSE name,
        level |-> IF class = "infected" THEN signatures[name] ELSE "none"])
  /\ quarantine' = IF class = "infected" /\ signatures[name] = "critical"
                     THEN quarantine \cup {d} ELSE quarantine
  /\ verdict' = class
  /\ UNCHANGED <<signatures, actions>>

(* The data of a request, or the bytes of a file that can be read.           *)
Scan ==
  \E d \in Data, n \in DOMAIN signatures, class \in Similarity :
    /\ Len(detections) < MaxScans
    /\ ScanData(d, n, class)

(* scan_file on a file it cannot read: the history does not show the scan.   *)
ScanUnreadableFile ==
  /\ verdict' = "suspicious"
  /\ UNCHANGED <<signatures, quarantine, detections, actions>>

(* detect_behavior: a known phrase and any similarity above 0.3 is an        *)
(* infection; the answer is not stored.                                      *)
DetectBehavior ==
  \E knownPhrase, alike \in BOOLEAN :
    /\ verdict' = IF knownPhrase /\ alike THEN "infected" ELSE "clean"
    /\ UNCHANGED <<signatures, quarantine, detections, actions>>

Eradicate ==
  \E n \in Names, target \in Data :
    LET known == n \in DOMAIN signatures
    IN /\ Len(actions) < MaxActions
       /\ quarantine' = IF known /\ signatures[n] \in {"critical", "high"}
                          THEN quarantine \cup {target} ELSE quarantine
       /\ actions' = Append(actions, [type |-> "eradicate", target |-> target,
                       success |-> known,
                       isolated |-> known /\ signatures[n] \in {"critical", "high"}])
       /\ UNCHANGED <<signatures, detections, verdict>>

PatchVulnerability ==
  /\ Len(actions) < MaxActions
  /\ actions' = Append(actions, [type |-> "patch", target |-> "none",
                                 success |-> TRUE, isolated |-> FALSE])
  /\ UNCHANGED <<signatures, quarantine, detections, verdict>>

Next ==
  \/ AddSignature
  \/ Scan
  \/ ScanUnreadableFile
  \/ DetectBehavior
  \/ Eradicate
  \/ PatchVulnerability

Spec == Init /\ [][Next]_guardVars

---------------------------------------------------------------------------
(* The quarantine list is accounted for by the two logs, both ways: it holds *)
(* the data of every detection that was critical when it was made, and       *)
(* nothing that no critical detection and no eradication isolated, although  *)
(* a signature's level may have been replaced since.                         *)
QuarantineAccounted ==
  quarantine =
    {detections[i].data : i \in {k \in DOMAIN detections :
                                   detections[k].level = "critical"}}
    \cup {actions[i].target : i \in {k \in DOMAIN actions :
                                   actions[k].isolated}}
=============================================================================
