---------------------------- MODULE SupplyChain ----------------------------
(***************************************************************************)
(* Verification of a Sigstore bundle, crates/a-quo-supply-chain/src/lib.rs *)
(* and verify_bundle of linux.rs: the parent snapshots the artifact, the   *)
(* bundle and the trusted root one after the other while other programs    *)
(* may replace the files, the worker inspects the frame of the two, and    *)
(* the parent normalises whatever the worker answered.                     *)
(*                                                                         *)
(* A digest is the content it is of.  A text is "unsafe" when it is empty, *)
(* over-long or not displayable, "long" when it exceeds MAX_POLICY_BYTES   *)
(* only.  IsolatedWorker models the processes; a frame is what it holds.   *)
(***************************************************************************)
EXTENDS Naturals, Sequences, FiniteSets

CONSTANTS
  None,
  Artifacts,        \* contents of the artifact
  Bundles,          \* contents of the bundle file
  Roots,            \* contents of the trusted root file
  Policies,         \* the identities and issuers a person may ask for
  Answers,          \* responses of a worker that does not follow run_worker
  MaxSubjects, MaxTlogs, MaxTimestamps,
  MaxReplacements   \* bound: how often files are replaced

VARIABLES
  disk,        \* the three files
  replaced,
  step,        \* where the parent is
  policy,      \* the identity and issuer asked for
  snapshots,   \* the sealed copies
  answer,      \* the worker's response
  honest,      \* it came from run_worker
  report,      \* what verify_bundle returned, or an error
  exit         \* what the command exits with

vars == <<disk, replaced, step, policy, snapshots, answer, honest, report, exit>>

(***************************************************************************)
(* The checks the code makes, in its order: the code of the first failure. *)
(***************************************************************************)
FirstFailure(checks) ==
  LET failed == {i \in DOMAIN checks : ~checks[i].ok} IN
  IF failed = {} THEN None
  ELSE checks[CHOOSE i \in failed : \A j \in failed : i <= j].code

Check(ok, code) == [ok |-> ok, code |-> code]

\* require_safe_display
SafeDisplay(text) == text # "unsafe"
\* validate_policy
ValidPolicy(text) == SafeDisplay(text) /\ text # "long"

\* The JSON values an object's field may hold.
Optional(value, kind) == value \in {"absent", "null", kind}
Text(value) == value \in {"text", "unsafe"}

\* inspect_slsa_provenance: parameters stands for the fields that must be an
\* object if present, dependencies for those that must be an array.
SlsaFailure(p) ==
  FirstFailure(<<
    Check(p.predicate = "object", "InvalidSlsaProvenance"),
    Check(p.buildDefinition = "object" /\ p.runDetails = "object" /\ p.builder = "object",
          "InvalidSlsaProvenance"),
    Check(Text(p.buildType), "InvalidSlsaProvenance"),
    Check(SafeDisplay(p.buildType), "EvidenceTextUnsafe"),
    Check(Text(p.id), "InvalidSlsaProvenance"),
    Check(SafeDisplay(p.id), "EvidenceTextUnsafe"),
    Check(Optional(p.parameters, "object"), "InvalidSlsaProvenance"),
    Check(Optional(p.dependencies, "array"), "InvalidSlsaProvenance")>>)

SlsaSummary(p) ==
  [predicate |-> "slsa", structure |-> "required_v1_fields_present",
   builder |-> p.id, type |-> p.buildType,
   expectations |-> "not_evaluated", level |-> "not_established"]

\* inspect_attestation, the failure and the summary.
AttestationFailure(c) ==
  IF c.kind = "message"
  THEN FirstFailure(<<Check(c.digest = "sha256", "UnsupportedArtifactDigest")>>)
  ELSE FirstFailure(<<
    Check(c.signatures = 1, "InvalidDsseSignatureCount"),
    Check(c.payload = "in-toto", "InvalidInTotoStatement"),
    Check(c.statement = "in-toto" /\ c.subjects \in 1..MaxSubjects, "InvalidInTotoStatement"),
    Check(SafeDisplay(c.predicate), "EvidenceTextUnsafe"),
    Check(c.predicate = "slsa" => SlsaFailure(c.slsa) = None,
          IF c.predicate = "slsa" THEN SlsaFailure(c.slsa) ELSE None)>>)

AttestationSummary(c) ==
  IF c.kind = "message"
  THEN [kind |-> "blob", statement |-> None, predicate |-> None, slsa |-> None]
  ELSE [kind |-> "statement", statement |-> "in-toto", predicate |-> c.predicate,
        slsa |-> IF c.predicate = "slsa" THEN SlsaSummary(c.slsa) ELSE None]

\* The sigstore library's verify, with the default policy: the bundle signs
\* this artifact under this root.  It does not know the identity asked for.
SigstoreVerifies(artifact, bundle, root) ==
  bundle.signs = artifact /\ bundle.under = root.name

\* inspect_in_worker_result: the media types of both inputs before either is
\* parsed, the attestation before the cryptography.
WorkerFailure(artifact, bundle, root) ==
  FirstFailure(<<
    Check(bundle.json # "malformed", "InvalidBundleJson"),
    Check(bundle.media = "v0.3", "UnsupportedBundleFormat"),
    Check(root.json # "malformed", "InvalidTrustedRootJson"),
    Check(root.media = "v0.1", "UnsupportedTrustedRootFormat"),
    Check(bundle.json = "typed", "InvalidBundleJson"),
    Check(root.json = "typed", "InvalidTrustedRootJson"),
    Check(bundle.material = "certificate", "UnsupportedVerificationMaterial"),
    Check(bundle.tlogs <= MaxTlogs /\ bundle.timestamps <= MaxTimestamps,
          "UnsupportedBundleFormat"),
    Check(AttestationFailure(bundle.content) = None, AttestationFailure(bundle.content)),
    Check(SigstoreVerifies(artifact, bundle, root), "SigstoreVerificationFailed"),
    Check(SafeDisplay(bundle.identity) /\ SafeDisplay(bundle.issuer), "EvidenceTextUnsafe")>>)

\* inspect_in_worker, the closed response run_worker writes.
InspectInWorker(artifact, bundle, root) ==
  [schema |-> "v1",
   failure |-> WorkerFailure(artifact, bundle, root),
   evidence |->
     IF WorkerFailure(artifact, bundle, root) # None THEN None
     ELSE [identity |-> bundle.identity, issuer |-> bundle.issuer,
           tlogs |-> bundle.tlogs, timestamps |-> bundle.timestamps,
           attestation |-> AttestationSummary(bundle.content)]]

(***************************************************************************)
(* The parent's reading of the response.                                   *)
(***************************************************************************)
SafeOrNone(text) == text = None \/ SafeDisplay(text)

\* validate_attestation_summary
ValidAttestation(a) ==
  /\ SafeOrNone(a.statement) /\ SafeOrNone(a.predicate)
  /\ a.slsa # None =>
       /\ \A field \in DOMAIN a.slsa : SafeDisplay(a.slsa[field])
       /\ a.predicate = "slsa" /\ a.slsa.predicate = "slsa"
       /\ a.slsa.structure = "required_v1_fields_present"
       /\ a.slsa.expectations = "not_evaluated"
       /\ a.slsa.level = "not_established"
  /\ \/ a.kind = "blob" /\ a.statement = None /\ a.predicate = None /\ a.slsa = None
     \/ a.kind = "statement" /\ a.statement = "in-toto" /\ a.predicate # None

\* validate_worker_evidence
ValidEvidence(e) ==
  /\ e.timestamps <= MaxTimestamps
  /\ e.tlogs \in 1..MaxTlogs
  /\ SafeOrNone(e.identity) /\ SafeOrNone(e.issuer)
  /\ ValidAttestation(e.attestation)

\* The identity is compared before the issuer; both are exact.
PolicyFailure(e) ==
  IF e.identity # policy.identity THEN "SignerIdentityMismatch"
  ELSE IF e.issuer # policy.issuer THEN "SignerIssuerMismatch"
  ELSE None

Unverified == [status |-> "not verified", tlogs |-> 0, timestamps |-> 0]

Report(failure, evidence, e) ==
  [artifact |-> snapshots.artifact, bundle |-> snapshots.bundle, root |-> snapshots.root,
   outcome |-> IF failure = None THEN "verified" ELSE "invalid",
   failure |-> failure, evidence |-> evidence,
   identity |-> IF e = None THEN None ELSE e.identity,
   issuer |-> IF e = None THEN None ELSE e.issuer,
   attestation |-> IF e = None THEN None ELSE e.attestation]

InvalidWorkerReport == [outcome |-> "error"]

\* normalize_worker_response
NormalizeWorkerResponse(a) ==
  IF a.schema # "v1" THEN InvalidWorkerReport
  ELSE IF a.failure # None THEN Report(a.failure, Unverified, None)
  ELSE IF ~ValidEvidence(a.evidence) THEN InvalidWorkerReport
  ELSE Report(PolicyFailure(a.evidence),
              [status |-> "verified", tlogs |-> a.evidence.tlogs,
               timestamps |-> a.evidence.timestamps],
              a.evidence)

(***************************************************************************)
(* verify_bundle, step by step.                                            *)
(***************************************************************************)
Init ==
  /\ disk \in [artifact: Artifacts, bundle: Bundles, root: Roots]
  /\ replaced = 0
  /\ step = "idle"
  /\ policy = None
  /\ snapshots = [artifact |-> None, bundle |-> None, root |-> None]
  /\ answer = None /\ honest = FALSE
  /\ report = None /\ exit = None

\* The policy is validated before a file is opened.
VerifyBundle ==
  /\ step = "idle"
  /\ \E p \in Policies :
       IF ValidPolicy(p.identity) /\ ValidPolicy(p.issuer)
       THEN step' = "artifact" /\ policy' = p /\ UNCHANGED exit
       ELSE step' = "done" /\ exit' = "failed" /\ UNCHANGED policy
  /\ UNCHANGED <<disk, replaced, snapshots, answer, honest, report>>

After(file) == CASE file = "artifact" -> "bundle" [] file = "bundle" -> "root" [] OTHER -> "frame"

\* snapshot_path: the artifact, then the bundle, then the root.
SnapshotPath ==
  \E file \in {"artifact", "bundle", "root"} :
    /\ step = file
    /\ snapshots' = [snapshots EXCEPT ![file] = disk[file]]
    /\ step' = After(file)
    /\ UNCHANGED <<disk, replaced, policy, answer, honest, report, exit>>

\* Another program replaces one of the files.
FileIsReplaced ==
  /\ step \notin {"idle", "done"} /\ replaced < MaxReplacements
  /\ \/ \E a \in Artifacts : disk' = [disk EXCEPT !.artifact = a]
     \/ \E r \in Roots : disk' = [disk EXCEPT !.root = r]
  /\ disk' # disk
  /\ replaced' = replaced + 1
  /\ UNCHANGED <<step, policy, snapshots, answer, honest, report, exit>>

SlipFrameFromPaths ==
  /\ step = "frame"
  /\ answer' = InspectInWorker(snapshots.artifact, snapshots.bundle, disk.root)
  /\ honest' = TRUE /\ step' = "answered"
  /\ UNCHANGED <<disk, replaced, policy, snapshots, report, exit>>

\* The frame is built from the snapshots and the worker answers about it and
\* about the digest of the artifact's snapshot.
WorkerAnswers ==
  /\ step = "frame"
  /\ answer' = InspectInWorker(snapshots.artifact, snapshots.bundle, snapshots.root)
  /\ honest' = TRUE /\ step' = "answered"
  /\ UNCHANGED <<disk, replaced, policy, snapshots, report, exit>>

\* A worker whose parser went astray answers anything that parses.
WorkerStrays ==
  /\ step = "frame"
  /\ answer' \in Answers
  /\ honest' = FALSE /\ step' = "answered"
  /\ UNCHANGED <<disk, replaced, policy, snapshots, report, exit>>

\* verify_supply_chain_bundle prints the report, then fails unless it is verified.
ReportAnswer ==
  /\ step = "answered"
  /\ report' = NormalizeWorkerResponse(answer)
  /\ exit' = IF report'.outcome = "verified" THEN "ok" ELSE "failed"
  /\ step' = "done"
  /\ UNCHANGED <<disk, replaced, policy, snapshots, answer, honest>>

Next ==
  VerifyBundle \/ SnapshotPath \/ FileIsReplaced \/ WorkerAnswers \/ WorkerStrays \/ ReportAnswer
Spec == Init /\ [][Next]_vars

(***************************************************************************)
(* Properties.                                                             *)
(***************************************************************************)
\* A command that succeeds after run_worker answered has checked one triple:
\* the very artifact, bundle and root the report names, signed by the identity
\* and issuer asked for, whatever happened to the files meanwhile.
VerifiedIsOneTriple ==
  exit = "ok" /\ honest =>
    /\ SigstoreVerifies(report.artifact, report.bundle, report.root)
    /\ report.bundle.identity = policy.identity /\ report.bundle.issuer = policy.issuer
    /\ report.bundle.media = "v0.3" /\ report.root.media = "v0.1"
    /\ report.bundle.material = "certificate"

\* normalize_worker_response: whatever the worker answers, a command succeeds
\* only when both the identity and the issuer it prints are the ones asked for
\* (the test identity_mismatch_never_becomes_verified).
PolicyIsExact ==
  exit = "ok" =>
    /\ report.identity = policy.identity /\ report.issuer = policy.issuer
    /\ report.evidence.tlogs > 0 /\ report.attestation # None

=============================================================================
