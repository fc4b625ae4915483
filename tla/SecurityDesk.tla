---------------------------- MODULE SecurityDesk ----------------------------
(* The scanning and reporting side of the gateway: seven services in one      *)
(* process, each behind its own routes, that share no variable.  A step of   *)
(* one leaves the others alone, and every property is about one of them, so  *)
(* an instance follows the requests to one of them, chosen at the start.     *)
EXTENDS Naturals, Sequences, FiniteSets

CONSTANTS Members, Founders, OpenChannels, AlertTypes, MaxMessages, MaxAcks,
          Authorities, MaxEvidence, MaxReports, MaxCustody,
          Contents, Handlers, MaxHandlers, MaxBundles,
          Paths, Scans, Engines, MaxFiles, ScanIds,
          Data, Names, KnownLevels, MaxScans, MaxActions,
          Phrases, ScamTypes, Patterns, ContentPhrases, Sources, Indicators,
          IntelPatterns

ASSUME RosterAssumption == IsFiniteSet(DOMAIN Founders)
ASSUME ScamTablesAssumption ==
  /\ ScamTypes \in Seq(DOMAIN Patterns)
  /\ IsFiniteSet(DOMAIN Indicators) /\ IsFiniteSet(DOMAIN IntelPatterns)

VARIABLES desk,
          channels, alerts, sent, cleared,
          evidence, reports, failed,
          bundles, dossiers, reply,
          disk, vault, born, task, suspected,
          scheduled, running, daemon, created,
          signatures, quarantine, detections, actions, verdict,
          kind, known, filed

Intel == INSTANCE IntelNetwork
Custody == INSTANCE EvidenceCustody
Files == INSTANCE FileScanning
Guard == INSTANCE VirusGuard
Scam == INSTANCE ScamAssessment

\* What the requests name is checked against these tables before anything.
ASSUME NamesAssumption ==
  /\ OpenChannels \subseteq Intel!Channels
  /\ AlertTypes \subseteq DOMAIN Intel!RouteRules
ASSUME LevelsAssumption == KnownLevels \in [DOMAIN KnownLevels -> Guard!Levels]

intel == <<channels, alerts, sent, cleared>>
custody == <<evidence, reports, failed>>
court == <<bundles, dossiers, reply>>
files == <<disk, vault, born, task, suspected>>
schedule == <<scheduled, running, daemon, created>>
guard == <<signatures, quarantine, detections, actions, verdict>>
scam == <<kind, known, filed>>
deskVars == <<desk, intel, custody, court, files, schedule, guard, scam>>

DeskInit ==
  /\ desk \in {"intel", "custody", "court", "files", "schedule",
                  "guard", "scam"}
  /\ Intel!Init /\ Custody!CustodyInit /\ Custody!CourtInit
  /\ Files!ScanInit /\ Files!ScheduleInit /\ Guard!Init /\ Scam!Init
  \* The kind of artefact varies for the service that sees it.
  /\ desk # "scam" => kind = "call"

DeskNext ==
  /\ UNCHANGED desk
  /\ \/ /\ desk = "intel" /\ Intel!Next
        /\ UNCHANGED <<custody, court, files, schedule, guard, scam>>
     \/ /\ desk = "custody" /\ Custody!CustodyNext
        /\ UNCHANGED <<intel, court, files, schedule, guard, scam>>
     \/ /\ desk = "court" /\ Custody!CourtNext
        /\ UNCHANGED <<intel, custody, files, schedule, guard, scam>>
     \/ /\ desk = "files" /\ Files!ScanNext
        /\ UNCHANGED <<intel, custody, court, schedule, guard, scam>>
     \/ /\ desk = "schedule" /\ Files!ScheduleNext
        /\ UNCHANGED <<intel, custody, court, files, guard, scam>>
     \/ /\ desk = "guard" /\ Guard!Next
        /\ UNCHANGED <<intel, custody, court, files, schedule, scam>>
     \/ /\ desk = "scam" /\ Scam!Next
        /\ UNCHANGED <<intel, custody, court, files, schedule, guard>>

DeskSpec == DeskInit /\ [][DeskNext]_deskVars

(* A cleared message was read by all its recipients (IntelNetwork).          *)
NotClearedUnread == Intel!NotClearedUnread

(* Evidence is sound: records and reports agree on every submission, also     *)
(* after requests that fail half-way, and the hash of a court bundle's        *)
(* custody entry binds the whole chain before it (EvidenceCustody).           *)
EvidenceSound == Custody!SubmissionsMatchReports /\ Custody!ChainBindsCustody

(* Quarantine is sound on both sides: what a scan reports as quarantined is   *)
(* gone, although another scan or program came between (FileScanning), and    *)
(* the quarantine list is what the two logs account for (VirusGuard).         *)
QuarantineSound == Files!QuarantinedIsGone /\ Guard!QuarantineAccounted

(* More evidence never lowers a risk (ScamAssessment).                       *)
MoreNeverCalms == Scam!MoreNeverCalms
=============================================================================
