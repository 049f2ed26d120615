----------------------------- MODULE RiskAssessment -----------------------------
(***************************************************************************)
(* risk.rs: the records that carry the evidence for one install or update, *)
(* and validate_risk_record_set_shape_and_bindings, which decides whether  *)
(* they belong together and whether the policy result follows from them.   *)
(* A SHA-256 of a record is the record (digests do not collide); text      *)
(* fields are values of small sets.                                        *)
(***************************************************************************)
EXTENDS Integers, Sequences, FiniteSets, TLC

CONSTANTS
    None,
    Manifest        \* the path of manifest.json in a package

-----------------------------------------------------------------------------
(* Publisher evidence                                                      *)

Recognized(registry) == registry \notin {"not checked", "unrecognized"}

\* The key status each registry status allows.
KeyAgrees(registry, key) ==
    CASE registry \in {"active", "retired", "compromised"} -> key = registry
      [] registry \in {"evidence only", "archived", "terminally revoked"} -> key # None
      [] OTHER -> key = None

ContinuityIsBound(p) ==
    /\ p.continuity \in {"verified", "invalid"} => p.root # None
    /\ p.continuity = "not managed" => p.root = None

Authorized(p) ==
    /\ p.registry = "active" /\ p.key = "active"
    /\ p.agree = TRUE
    /\ p.continuity \in {"verified", "not managed"}

\* PublisherEvidenceRecord::validate.
PublisherValid(p) ==
    /\ Recognized(p.registry) = (p.persona # None /\ p.agree \in BOOLEAN /\ p.key # None)
    /\ ~Recognized(p.registry) => p.root = None /\ p.continuity = "not checked"
    /\ Recognized(p.registry) => p.continuity # "not checked"
    /\ ContinuityIsBound(p)
    /\ KeyAgrees(p.registry, p.key)
    /\ Authorized(p) = (p.authority = "authorized")

-----------------------------------------------------------------------------
(* Structural facts                                                        *)

FilePaths(s) == DOMAIN s.files

ExecutablePaths(s) == {f \in FilePaths(s) : s.files[f].mode = 493}

EntryPointPaths(s) == {f \in FilePaths(s) : s.files[f].entryPoint}

\* StructuralRecord::validate: counts, derived lists and the manifest agree
\* with the list of files.
StructuralValid(s) ==
    /\ s.links = 0 /\ s.special = 0
    /\ s.entries = s.regular + s.directories
    /\ s.regular = Cardinality(FilePaths(s))
    /\ \A f \in FilePaths(s) : s.files[f].mode \in {420, 493}
    /\ s.executable = ExecutablePaths(s)
    /\ s.entryPoints = EntryPointPaths(s)
    /\ s.undeclared = ExecutablePaths(s) \ EntryPointPaths(s)
    /\ Manifest \in FilePaths(s)
    /\ s.subject.manifest = s.files[Manifest].sha

-----------------------------------------------------------------------------
(* Update delta                                                            *)

FileState(f) == [sha |-> f.sha, mode |-> f.mode]

ChangeKind(previous, current) ==
    CASE previous.sha # current.sha /\ previous.mode # current.mode -> "content and mode"
      [] previous.sha # current.sha /\ previous.mode = current.mode -> "content"
      [] OTHER -> "mode"

Delta(path, change, previous, current) ==
    [path |-> path, change |-> change, previous |-> previous, current |-> current]

\* derive_file_deltas.
DeriveFileDeltas(old, new) ==
    {Delta(p, "added", None, FileState(new.files[p])) : p \in FilePaths(new) \ FilePaths(old)}
      \union {Delta(p, "removed", FileState(old.files[p]), None) : p \in FilePaths(old) \ FilePaths(new)}
      \union {Delta(p, ChangeKind(old.files[p], new.files[p]), FileState(old.files[p]), FileState(new.files[p])) :
                p \in {q \in FilePaths(old) \intersect FilePaths(new) :
                         FileState(old.files[q]) # FileState(new.files[q])}}

\* derive_publisher_continuity.
DerivePublisherContinuity(old, new) ==
    CASE old.persona = None \/ new.persona = None -> "not checked"
      [] old.persona # None /\ new.persona # None /\ old.persona # new.persona -> "mismatched"
      [] OTHER ->
           IF "invalid" \in {old.continuity, new.continuity} THEN "mismatched"
           ELSE IF {old.continuity, new.continuity} = {"verified"}
           THEN IF old.root = new.root THEN "matched" ELSE "mismatched"
           ELSE "not checked"

IdDelta(old, new) == IF old.id = new.id THEN "unchanged" ELSE "changed"

VersionDelta(old, new) ==
    IF new.version > old.version THEN "upgrade"
    ELSE IF new.version = old.version THEN "equal" ELSE "downgrade"

\* validate_file_delta.
FileDeltaValid(d) ==
    CASE d.change = "added" -> d.previous = None /\ d.current # None
      [] d.change = "removed" -> d.previous # None /\ d.current = None
      [] OTHER -> /\ d.previous # None /\ d.current # None
                  /\ d.previous # d.current
                  /\ d.change = ChangeKind(d.previous, d.current)

Material(d) ==
    \/ d.files # {} \/ d.providers # {}
    \/ d.continuity # "matched" \/ d.idDelta # "unchanged" \/ d.versionDelta # "upgrade"

\* UpdateDeltaRecord::validate.
UpdateDeltaValid(d) ==
    /\ d.idDelta = IdDelta(d.previousSubject, d.subject)
    /\ d.versionDelta = VersionDelta(d.previousSubject, d.subject)
    /\ \A f \in d.files : FileDeltaValid(f)
    /\ d.freshConsent = Material(d)

-----------------------------------------------------------------------------
(* Policy, native reports and policy result                                *)

\* LocalPolicyRecord::validate: approval by a person cannot be switched off.
PolicyValid(p) == p.revision > 0 /\ p.interactive = "consent"

\* validate_native_report_bindings, for a function from provider to binding.
BindingsValid(reports) ==
    \A id \in DOMAIN reports : LET b == reports[id] IN
      /\ b.schema # None => b.digest # None
      /\ b.status \in {"complete", "incomplete"} => b.schema # None /\ b.digest # None
      /\ b.status = "not run" => b.schema = None /\ b.digest = None

Reason(code, disposition, provider) ==
    [code |-> code, disposition |-> disposition, provider |-> provider]

HardFailures ==
    {"publisher not authorized", "publisher continuity not matched",
     "manifest validator not passed", "plugin id changed", "version not upgrade"}

AboutProvider ==
    {"missing required provider", "incomplete", "error", "unsupported", "not run",
     "indeterminate comparison"}

\* validate_policy_reason.
ReasonValid(r) ==
    /\ (r.code \in AboutProvider) = (r.provider # None)
    /\ r.code = "interactive approval required" => r.disposition = "consent"
    /\ r.code \in HardFailures => r.disposition = "block"

\* validate_enablement_context.
EnablementValid(action, e) ==
    IF action = "install" THEN e.before = "not referenced" /\ e.intent = "leave unreferenced"
                          ELSE e.intent = "preserve"

Decision(reasons) ==
    IF \E r \in reasons : r.disposition = "block" THEN "block" ELSE "consent"

\* PolicyResultRecord::validate.
ResultValid(r) ==
    /\ (r.action = "install") = (r.delta = None)
    /\ EnablementValid(r.action, r.enablement)
    /\ BindingsValid(r.reports)
    /\ \A reason \in r.reasons : ReasonValid(reason)
    /\ \E reason \in r.reasons : reason.code = "interactive approval required"
    /\ r.decision = Decision(r.reasons)

\* OperationAssessment::validate.
AssessmentValid(a) ==
    /\ (a.action = "install") = (a.delta = None)
    /\ EnablementValid(a.action, a.enablement)
    /\ BindingsValid(a.reports)
    /\ a.expires > a.issued /\ a.expires - a.issued <= 600

-----------------------------------------------------------------------------
(* The record set                                                          *)

\* provider_status_reason; the policy's handling is a function of the status.
StatusReasons(policy, reports) ==
    {Reason(reports[id].status, policy.handling[reports[id].status], id) :
       id \in {i \in DOMAIN reports : reports[i].status # "complete"}}

MissingReasons(policy, reports) ==
    {Reason("missing required provider", policy.handling["missing"], id) :
       id \in policy.required \ DOMAIN reports}

UpdateReasons(set) ==
    IF set.delta = None THEN {}
    ELSE {Reason(c[1], "block", None) :
            c \in {k \in {<<"publisher continuity not matched", set.delta.continuity = "matched">>,
                          <<"plugin id changed", set.delta.idDelta = "unchanged">>,
                          <<"version not upgrade", set.delta.versionDelta = "upgrade">>} : ~k[2]}}
           \union {Reason("indeterminate comparison", set.policy.indeterminate, p.id) : p \in set.delta.providers}

ExpectedReasons(set) ==
    {Reason("interactive approval required", "consent", None)}
      \union (IF set.publisher.authority = "authorized" THEN {}
              ELSE {Reason("publisher not authorized", "block", None)})
      \union (IF set.structural.validation = "passed" THEN {}
              ELSE {Reason("manifest validator not passed", "block", None)})
      \union MissingReasons(set.policy, set.result.reports)
      \union StatusReasons(set.policy, set.result.reports)
      \union UpdateReasons(set)

ReportDigest(reports, id) == IF id \in DOMAIN reports THEN reports[id].digest ELSE None

\* The update's providers are those of either side, with both digests.
ProvidersAgree(set) ==
    /\ {p.id : p \in set.delta.providers} = DOMAIN set.previousReports \union DOMAIN set.result.reports
    /\ \A p \in set.delta.providers :
         /\ p.previous = ReportDigest(set.previousReports, p.id)
         /\ p.current = ReportDigest(set.result.reports, p.id)

\* What result and assessment say of the operation and of the other records.
OperationsAgree(set) ==
    /\ {set.structural.subject, set.result.subject, set.assessment.subject} = {set.publisher.subject}
    /\ set.result.operation = set.assessment.operation
    /\ set.result.action = set.assessment.action
    /\ set.result.enablement = set.assessment.enablement
    /\ set.result.reports = set.assessment.reports

\* A variant that checks the assessment's bindings only.
SlipAssessmentOnly(set) ==
    /\ set.assessment.publisher = set.publisher
    /\ set.assessment.structural = set.structural
    /\ set.assessment.policy = set.policy

DigestsAgree(set) ==
    /\ {set.result.publisher, set.assessment.publisher} = {set.publisher}
    /\ {set.result.structural, set.assessment.structural} = {set.structural}
    /\ {set.result.policy, set.assessment.policy} = {set.policy}
    /\ set.assessment.result = set.result

InstallShape(set) ==
    /\ set.assessment.action = "install"
    /\ set.previousPublisher = None /\ set.previousStructural = None /\ set.delta = None
    /\ DOMAIN set.previousReports = {}
    /\ set.result.delta = None /\ set.assessment.delta = None

UpdateShape(set) ==
    /\ set.assessment.action = "update"
    /\ set.previousPublisher # None /\ set.previousStructural # None /\ set.delta # None
    /\ set.delta.subject = set.publisher.subject
    /\ set.delta.previousSubject = set.previousPublisher.subject
    /\ set.delta.previousSubject = set.previousStructural.subject
    /\ set.delta.previousPublisher = set.previousPublisher
    /\ set.delta.publisher = set.publisher
    /\ set.delta.previousStructural = set.previousStructural
    /\ set.delta.structural = set.structural
    /\ set.delta.files = DeriveFileDeltas(set.previousStructural, set.structural)
    /\ set.delta.continuity = DerivePublisherContinuity(set.previousPublisher, set.publisher)
    /\ set.result.delta = set.delta /\ set.assessment.delta = set.delta
    /\ ProvidersAgree(set)

\* The records of the set, each on its own.
EachValid(set) ==
    /\ PublisherValid(set.publisher) /\ StructuralValid(set.structural)
    /\ PolicyValid(set.policy) /\ ResultValid(set.result) /\ AssessmentValid(set.assessment)
    /\ set.previousPublisher # None => PublisherValid(set.previousPublisher)
    /\ set.previousStructural # None => StructuralValid(set.previousStructural)
    /\ set.delta # None => UpdateDeltaValid(set.delta)
    /\ BindingsValid(set.previousReports)

\* validate_risk_record_set_shape_and_bindings.
SetAccepted(set) ==
    /\ EachValid(set)
    /\ OperationsAgree(set)
    /\ DigestsAgree(set)
    /\ InstallShape(set) \/ UpdateShape(set)
    /\ set.result.reasons = ExpectedReasons(set)

(***************************************************************************)
(* A coordinator observes a release, derives the records, and validates    *)
(* them later.  In between one of the records may be replaced by another   *)
(* valid one (observed at another time, made for another release or under  *)
(* another policy) or the policy result may be restated.                   *)
(***************************************************************************)
CONSTANTS
    Publishers,     \* publisher evidence, but for the subject
    Trees,          \* structural facts, but for the subject
    Policies,       \* local policies
    Reports,        \* native report bindings
    OldPublishers, OldTrees, OldReports,  \* those of the installed release
    Versions, PluginIds

VARIABLES made, set, verdict

vars == <<made, set, verdict>>

Subject(id, version, tree) ==
    [id |-> id, version |-> version, manifest |-> tree.files[Manifest].sha]

\* A publisher record with authority as derived.
PublisherRecord(p, subject) ==
    [subject |-> subject, registry |-> p.registry, persona |-> p.persona, root |-> p.root,
     agree |-> p.agree, key |-> p.key, continuity |-> p.continuity,
     authority |-> IF Authorized(p) THEN "authorized" ELSE "denied"]

StructuralRecord(t, subject) ==
    LET s == [files |-> t.files] IN
    [subject |-> subject, links |-> 0, special |-> 0, directories |-> 0,
     entries |-> Cardinality(DOMAIN t.files), regular |-> Cardinality(DOMAIN t.files),
     files |-> t.files, executable |-> ExecutablePaths(s), entryPoints |-> EntryPointPaths(s),
     undeclared |-> ExecutablePaths(s) \ EntryPointPaths(s), validation |-> t.validation]

DeltaRecord(op, os, p, s, oldReports, reports) ==
    LET d == [previousSubject |-> op.subject, subject |-> p.subject,
              previousPublisher |-> op, publisher |-> p, previousStructural |-> os, structural |-> s,
              continuity |-> DerivePublisherContinuity(op, p),
              idDelta |-> IdDelta(op.subject, p.subject),
              versionDelta |-> VersionDelta(op.subject, p.subject),
              files |-> DeriveFileDeltas(os, s),
              providers |-> {[id |-> i, previous |-> ReportDigest(oldReports, i),
                              current |-> ReportDigest(reports, i)] :
                               i \in DOMAIN oldReports \union DOMAIN reports}]
    IN [freshConsent |-> Material(d)] @@ d

Enablement(action) ==
    [before |-> "not referenced", intent |-> IF action = "install" THEN "leave unreferenced" ELSE "preserve"]

\* The records of a set, completed with result and assessment.
Complete(action, p, s, op, os, delta, policy, oldReports, reports) ==
    LET base == [subject |-> p.subject, operation |-> 1, action |-> action,
                 enablement |-> Enablement(action), policy |-> policy, publisher |-> p,
                 structural |-> s, delta |-> delta, reports |-> reports]
        partial == [publisher |-> p, structural |-> s, policy |-> policy, delta |-> delta,
                    previousPublisher |-> op, previousStructural |-> os,
                    previousReports |-> oldReports, result |-> base]
        reasons == ExpectedReasons(partial)
        result == base @@ [reasons |-> reasons, decision |-> Decision(reasons)]
    IN [partial EXCEPT !.result = result]
         @@ [assessment |-> base @@ [result |-> result, issued |-> 0, expires |-> 600]]

NoReports == [i \in {} |-> None]

Install(p, t, policy, reports, id, version) ==
    LET subject == Subject(id, version, t) IN
    Complete("install", PublisherRecord(p, subject), StructuralRecord(t, subject), None, None, None,
             policy, NoReports, reports)

Update(p, t, op, ot, policy, oldReports, reports, id, version) ==
    LET subject == Subject(id, version, t)
        old == Subject("plugin", 1, ot)
        np == PublisherRecord(p, subject)
        ns == StructuralRecord(t, subject)
        pp == PublisherRecord(op, old)
        ps == StructuralRecord(ot, old)
    IN Complete("update", np, ns, pp, ps, DeltaRecord(pp, ps, np, ns, oldReports, reports),
                policy, oldReports, reports)

Init == made = None /\ set = None /\ verdict = None

AssembleInstall ==
    /\ made = None
    /\ \E p \in Publishers, t \in Trees, policy \in Policies, reports \in Reports :
         made' = Install(p, t, policy, reports, "plugin", 1)
    /\ set' = made'
    /\ UNCHANGED verdict

AssembleUpdate ==
    /\ made = None
    /\ \E p \in Publishers, t \in Trees, op \in OldPublishers, ot \in OldTrees, policy \in Policies,
          old \in OldReports, reports \in Reports, id \in PluginIds, version \in Versions :
         made' = Update(p, t, op, ot, policy, old, reports, id, version)
    /\ set' = made'
    /\ UNCHANGED verdict

\* A record of the set is replaced.
Replace ==
    /\ made # None /\ set = made /\ verdict = None
    /\ \/ \E p \in Publishers : set' = [set EXCEPT !.publisher = PublisherRecord(p, set.publisher.subject)]
       \/ \E t \in Trees : set' = [set EXCEPT !.structural = StructuralRecord(t, set.structural.subject)]
       \/ \E policy \in Policies : set' = [set EXCEPT !.policy = policy]
       \/ /\ set.previousPublisher # None
          /\ \E p \in OldPublishers :
               set' = [set EXCEPT !.previousPublisher = PublisherRecord(p, set.previousPublisher.subject)]
       \/ \E r \in OldReports : set' = [set EXCEPT !.previousReports = r]
    /\ UNCHANGED <<made, verdict>>

\* The result is restated and the assessment follows it: a reason left out, or
\* the records of another observation named.
Restate ==
    /\ made # None /\ set = made /\ verdict = None
    /\ \E result \in {[set.result EXCEPT !.reasons = @ \ {r}, !.decision = Decision(set.result.reasons \ {r})] :
                        r \in set.result.reasons}
                \union {[set.result EXCEPT !.decision = "consent"]}
                \union {[set.result EXCEPT !.publisher = PublisherRecord(p, @.subject)] : p \in Publishers}
                \union {[set.result EXCEPT !.reports = r] : r \in Reports} :
         set' = [set EXCEPT !.result = result, !.assessment.result = result]
    /\ UNCHANGED <<made, verdict>>

Validate ==
    /\ set # None /\ verdict = None
    /\ verdict' = IF SetAccepted(set) THEN "accepted" ELSE "rejected"
    /\ UNCHANGED <<made, set>>

Validated == verdict # None /\ UNCHANGED vars

Next == AssembleInstall \/ AssembleUpdate \/ Replace \/ Restate \/ Validate \/ Validated

Spec == Init /\ [][Next]_vars

-----------------------------------------------------------------------------

Accepted == verdict = "accepted"

\* validate_risk_record_set_shape_and_bindings: a set is accepted only as it was
\* made (a record replaced, a reason left out or a binding restated is noticed;
\* of the previous native reports only the digests are bound), and one open to
\* consent rests on an active key whose label and history agree, a validator
\* that passed and, for an update, the same persona, root and plugin and a
\* later version.
AcceptedIsAsMade ==
    Accepted =>
      /\ [set EXCEPT !.previousReports = None] = [made EXCEPT !.previousReports = None]
      /\ DOMAIN set.previousReports = DOMAIN made.previousReports
      /\ \A i \in DOMAIN set.previousReports :
           set.previousReports[i].digest = made.previousReports[i].digest
      /\ set.result.decision = "consent" =>
           /\ set.publisher.key = "active" /\ set.publisher.agree = TRUE
           /\ set.publisher.continuity # "invalid"
           /\ set.structural.validation = "passed"
           /\ set.delta # None =>
                /\ set.previousPublisher.persona = set.publisher.persona
                /\ set.previousPublisher.root = set.publisher.root
                /\ set.publisher.continuity = "verified"
                /\ set.previousPublisher.subject.id = set.publisher.subject.id
                /\ set.publisher.subject.version > set.previousPublisher.subject.version
=============================================================================
