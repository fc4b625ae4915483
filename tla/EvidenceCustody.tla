--------------------------- MODULE EvidenceCustody ----------------------------
(* The evidence store of core_engine/evidence.py behind the routes of        *)
(* gateway/routes/evidence.py: records, custody steps, reports to            *)
(* authorities and submission packages.  Every handler runs without          *)
(* suspending and is one step.                                               *)
EXTENDS Naturals, Sequences, FiniteSets, SequencesExt

CONSTANTS Authorities,  \* report types the requests name
          MaxEvidence,  \* bound: records collected
          MaxReports,   \* bound: reports written
          MaxCustody    \* bound: custody steps of one record

VARIABLES evidence,  \* EvidenceCollector._evidence, in the order collected
          reports,   \* EvidenceCollector._reports, in the order written
          failed     \* submission requests answered with an error so far

custodyVars == <<evidence, reports, failed>>

(* LegalReporter.REPORT_FORMATS knows these authorities, and no other.       *)
ReportFormats == {"FTC", "FBI_IC3", "FCC"}

Unknown == 0       \* an id that no record has
Ids == 1..Len(evidence) \cup {Unknown}
IdLists == UNION {[1..n -> Ids] : n \in 1..2}

Occurrences(x, s) == Cardinality({i \in DOMAIN s : s[i] = x})

CustodyInit ==
  /\ evidence = <<>>
  /\ reports = <<>>
  /\ failed = 0

---------------------------------------------------------------------------
(* collect_evidence: a record is born chained, its custody begun.            *)
Collect ==
  /\ Len(evidence) < MaxEvidence
  /\ evidence' = Append(evidence, [custody |-> <<"collected">>,
                                   integrity |-> "chained",
                                   submittedTo |-> <<>>])

CollectEvidence == Collect /\ UNCHANGED <<reports, failed>>

AddCustodyStep ==
  \E e \in 1..Len(evidence) :
    /\ Len(evidence[e].custody) < MaxCustody
    /\ evidence' = [evidence EXCEPT ![e].custody = Append(@, "handled")]
    /\ UNCHANGED <<reports, failed>>

(* No hash is compared: every record that exists verifies, a submitted one   *)
(* included, whose integrity then no longer says so.                         *)
Verify(e) == evidence' = [evidence EXCEPT ![e].integrity = "verified"]

VerifyIntegrity ==
  \E e \in 1..Len(evidence) : Verify(e) /\ UNCHANGED <<reports, failed>>

Submitted(rec, authority, n) ==
  IF n = 0 THEN rec
  ELSE [rec EXCEPT !.submittedTo = @ \o [k \in 1..n |-> authority],
                   !.integrity = "submitted"]

MarkSubmitted_Variant(ids, authority) ==
  \* A bug: an id listed twice is marked once.
  [e \in DOMAIN evidence |->
     Submitted(evidence[e], authority, IF e \in ToSet(ids) THEN 1 ELSE 0)]

MarkSubmitted(ids, authority) ==
  [e \in DOMAIN evidence |->
     Submitted(evidence[e], authority, Occurrences(e, ids))]

GenerateReport(ids, authority) ==
  /\ Len(reports) < MaxReports
  /\ reports' = Append(reports, [authority |-> authority, ids |-> ids,
                                 chainVerified |-> Unknown \notin ToSet(ids)])
  /\ evidence' = MarkSubmitted(ids, authority)

(* POST /report/generate takes any authority name.                           *)
GenerateAuthorityReport ==
  \E ids \in IdLists, a \in Authorities :
    GenerateReport(ids, a) /\ UNCHANGED failed

FormatForAuthority(ids, authority) ==
  [error |-> authority \notin ReportFormats,
   summary |-> IF authority \in ReportFormats
                 THEN SelectSeq(ids, LAMBDA e : e # Unknown) ELSE <<>>]

(* generate_submission_package writes its report before it looks at what     *)
(* format_for_authority answered: for an authority without a format the      *)
(* request fails on the missing "submission_url" with the report written.    *)
GenerateSubmissionPackage(ids, authority) ==
  /\ GenerateReport(ids, authority)
  /\ failed' = IF FormatForAuthority(ids, authority).error
                 THEN failed + 1 ELSE failed

SubmitPackage ==
  \E ids \in IdLists, a \in Authorities : GenerateSubmissionPackage(ids, a)

CustodyNext ==
  \/ CollectEvidence
  \/ AddCustodyStep
  \/ VerifyIntegrity
  \/ GenerateAuthorityReport
  \/ SubmitPackage

---------------------------------------------------------------------------
\* The places of the reports to an authority that list a record.
Listings(e, a) ==
  UNION {{<<r, k>> : k \in {i \in DOMAIN reports[r].ids : reports[r].ids[i] = e}} :
           r \in {x \in DOMAIN reports : reports[x].authority = a}}

(* What a record says of its submissions is what the reports say: it names   *)
(* an authority once for every time a report to that authority lists it,     *)
(* and that holds through the requests that failed after writing.            *)
SubmissionsMatchReports ==
  \A e \in DOMAIN evidence, a \in Authorities :
    Occurrences(a, evidence[e].submittedTo) = Cardinality(Listings(e, a))

---------------------------------------------------------------------------
(* core_engine/secure_report.py: evidence bundles whose custody chain is     *)
(* hashed link by link, and the court reports that list them.  A hash is     *)
(* modelled by what it binds, the sequence of everything hashed into it; a   *)
(* signature is a fresh random token.                                        *)

CONSTANTS Contents, Handlers, MaxHandlers, MaxBundles

VARIABLES bundles,   \* SecureReporter._evidence, in the order created
          dossiers,  \* SecureReporter._reports
          reply      \* what the last call answered

courtVars == <<bundles, dossiers, reply>>

Missing == 0        \* an id no bundle has
BundleIds == 1..Len(bundles) \cup {Missing}

CourtInit == bundles = <<>> /\ dossiers = <<>> /\ reply = "none"

(* current_hash before the i-th entry of a chain with these signatures.      *)
LinkHash(content, sigs, i) == <<content>> \o SubSeq(sigs, 1, i - 1)

CreateEvidenceBundle ==
  \E content \in Contents, n \in 1..MaxHandlers :
    \E actors \in [1..n -> Handlers] :
      /\ Len(bundles) < MaxBundles
      /\ LET sigs == [i \in 1..n |-> <<Len(bundles) + 1, i>>]
         IN bundles' = Append(bundles,
              [content |-> content,
               chain |-> [i \in 1..n |->
                            [actor |-> actors[i], signature |-> sigs[i],
                             hashBefore |-> LinkHash(content, sigs, i)]],
               chainHash |-> LinkHash(content, sigs, n + 1)])
      /\ UNCHANGED <<dossiers, reply>>

(* chain_verified is written as True whatever the ids are.                   *)
GenerateCourtReport ==
  \E ids \in SUBSET BundleIds :
    /\ dossiers = <<>>
    /\ dossiers' = <<[ids |-> ids, chainVerified |-> TRUE]>>
    /\ UNCHANGED <<bundles, reply>>

(* Only the bundles that exist are looked at, and a stored bundle always     *)
(* says verified: an export of nothing is intact too.                        *)
ExportCourtReady ==
  \E ids \in SUBSET BundleIds :
    /\ reply' = IF ids \ {Missing} = {} THEN "intact, empty" ELSE "intact"
    /\ UNCHANGED <<bundles, dossiers>>

(* hdc_encrypt asks a bytes object for its digest and raises: no layer of    *)
(* encrypt_report is finished and nothing is stored.                         *)
EncryptReport ==
  /\ reply' = "AttributeError"
  /\ UNCHANGED <<bundles, dossiers>>

CourtNext ==
  \/ CreateEvidenceBundle
  \/ GenerateCourtReport
  \/ ExportCourtReady
  \/ EncryptReport

---------------------------------------------------------------------------
(* The hash an entry carries binds everything before it: two entries, of one *)
(* bundle or of two, carry the same hash only if they stand at the same      *)
(* place of a chain over the same content signed by the same earlier         *)
(* handlers, so an entry cannot be dropped, swapped or moved unnoticed.      *)
ChainBindsCustody ==
  \A b, d \in DOMAIN bundles :
    \A i \in DOMAIN bundles[b].chain, j \in DOMAIN bundles[d].chain :
      bundles[b].chain[i].hashBefore = bundles[d].chain[j].hashBefore =>
        /\ bundles[b].content = bundles[d].content
        /\ i = j
        /\ \A k \in 1..(i - 1) : bundles[b].chain[k] = bundles[d].chain[k]
===============================================================================
