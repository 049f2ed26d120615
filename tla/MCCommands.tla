----------------------------- MODULE MCCommands -----------------------------
(***************************************************************************)
(* The commands of the tool: those on continuity evidence                  *)
(* (ContinuityCommands), those that ask the daemon for a journaled proof   *)
(* (JournalRequests), signing and verification (SigningCommands), backups  *)
(* and their materialization (BackupCommands), root cards and pins         *)
(* (RootDistribution) and supply-chain bundles (SupplyChain).  Each works  *)
(* on state of its own; one moves in a behaviour, the subject, and the     *)
(* others stay where they start.                                           *)
(***************************************************************************)
EXTENDS BackupCommands, FiniteSets

CONSTANTS r1, k1, k2, q1, ann, bob

VARIABLES
    subject,
    command, given, pc, opened, charged, work, signed, output, journal, bound,
    replayed, outcome,
    root, chain, ended, shared, client, queue, answers, outputs, durable, runs,
    faults, reports,
    exists, store, lock, artifact, keyFiles, out, clock, line, job, printed,
    issued, events,
    rootFile, cardFile, pinFile, pinWriter, pinRoute, accepted, report,
    disk, replaced, step, policy, snapshots, answer, honest, verdict, exit

continuityVars == <<command, given, pc, opened, charged, work, signed, output, journal,
                    bound, replayed, outcome>>
journalVars == <<root, chain, ended, shared, client, queue, answers, outputs, durable,
                 runs, faults, reports>>
signingVars == <<exists, store, lock, artifact, keyFiles, out, clock, line, job, printed,
                 issued, events>>
rootVars == <<rootFile, cardFile, pinFile, pinWriter, pinRoute, accepted, report>>
supplyVars == <<disk, replaced, step, policy, snapshots, answer, honest, verdict, exit>>
commandVars ==
    <<subject, vars, continuityVars, journalVars, signingVars, rootVars, supplyVars>>

-----------------------------------------------------------------------------
(* Backups: a root alone; one with a policy; the same, revoked.            *)

OnlyRoot == [root |-> r1, chain |-> << >>, policies |-> << >>, terminal |-> FALSE, tip |-> k1]
Policied == [OnlyRoot EXCEPT !.policies = <<"p">>]
Revoked == [Policied EXCEPT !.chain = <<"end">>, !.terminal = TRUE]

File(archived, archive) == [valid |-> TRUE, archived |-> archived, archive |-> archive]
MCBackups == {File(TRUE, None), File(FALSE, OnlyRoot), File(FALSE, Policied),
              File(TRUE, Revoked), [File(FALSE, Policied) EXCEPT !.valid = FALSE]}
MCSupplied == {OnlyRoot}
MCKeys == {k1, k2}

-----------------------------------------------------------------------------
(* Continuity evidence: an enrolment of two or three keys, an update by    *)
(* them, and one too many.                                                 *)

FileCommands ==
    {"create_transition", "verify_transition", "verify_chain", "create_policy",
     "update_policy", "verify_policy", "record_policy", "create_recovery",
     "verify_recovery", "commit_recovery", "create_terminal", "verify_terminal",
     "commit_terminal", "verify_recovery_chain", "start_ceremony", "respond", "assemble"}

Routine == [kind |-> "routine", signatures |-> 2]
Recovery(n) == [kind |-> "recovery", signatures |-> n]
Terminal == [kind |-> "terminal", signatures |-> 2]

Evidence == INSTANCE ContinuityCommands WITH
    MAX_VERIFICATIONS <- 40, MAX_CONTINUITY_TRANSITIONS <- 2,
    MAX_RECOVERY_POLICY_VERSIONS <- 2, MIN_RECOVERY_AUTHORITIES <- 2,
    MAX_RECOVERY_AUTHORITIES <- 3, Commands <- FileCommands,
    PolicyChains <- {<<>>, <<2>>, <<2, 4, 4>>},
    TransitionChains <- {<<>>, <<Routine>>, <<Routine, Recovery(2)>>,
                         <<Routine, Terminal>>, <<Routine, Routine, Routine>>},
    ApprovalCounts <- {0, 2, 4}, FaultPairs <- FALSE

-----------------------------------------------------------------------------
(* Two command lines and an output path.                                   *)

Requests == INSTANCE JournalRequests WITH
    Clients <- {"c1", "c2"}, Paths <- {"o1"}, Keys <- {k2}, RootKey <- k1,
    Bindings <- {"b1"}, MaxRuns <- 2, MaxFaults <- 1,
    journal <- chain, file <- outputs, told <- reports

Signing == INSTANCE SigningCommands WITH
    OtherKeys <- {q1}, Contents <- {"x", "y"}, Days <- {1, 2}, MaxDays <- 1, Skew <- 1,
    MaxTime <- 3, pc <- line, commands <- issued, outside <- events

-----------------------------------------------------------------------------
(* Two personas, a root of the start and one that came later.              *)

Distribution == INSTANCE RootDistribution WITH
    Statements <- {[persona |-> ann, issued_at |-> 0], [persona |-> bob, issued_at |-> 2]},
    MaxTime <- 3, LateAfter <- 1, ReviewAfter <- 2, Channels <- {"paper"}

-----------------------------------------------------------------------------
(* Bundles that differ from a sound one in one respect or two, and answers *)
(* that differ from a sound one likewise.                                  *)

SupplyPolicies ==
  [identity: {"alice", "bob"}, issuer: {"hub"}]
    \cup {[identity |-> "alice", issuer |-> "forge"],
          [identity |-> "long", issuer |-> "hub"]}

SupplyRoots ==
  [name: {"old", "new"}, json: {"typed"}, media: {"v0.1"}]
    \cup {[name |-> "old", json |-> "malformed", media |-> "v0.1"],
          [name |-> "old", json |-> "typed", media |-> "v9"]}

GoodPredicate ==
  [predicate |-> "object", buildDefinition |-> "object", runDetails |-> "object",
   builder |-> "object", buildType |-> "text", id |-> "text",
   parameters |-> "object", dependencies |-> "absent"]

Predicates ==
  {GoodPredicate}
    \cup {[GoodPredicate EXCEPT ![f] = v] :
            f \in DOMAIN GoodPredicate, v \in {"unsafe"}}

Message(digest) ==
  [kind |-> "message", digest |-> digest, signatures |-> 1, payload |-> "in-toto",
   statement |-> "in-toto", subjects |-> 1, predicate |-> "slsa", slsa |-> GoodPredicate]
Statement(predicate, slsa) ==
  [Message("sha256") EXCEPT !.kind = "statement", !.predicate = predicate, !.slsa = slsa]

Contents ==
  {Message("sha256"), Message("sha512"), Message(None),
   Statement("vsa", GoodPredicate), Statement("unsafe", GoodPredicate)}
    \cup {Statement("slsa", p) : p \in Predicates}
    \cup {[Statement("slsa", GoodPredicate) EXCEPT !.signatures = n] : n \in {0, 2}}
    \cup {[Statement("slsa", GoodPredicate) EXCEPT !.subjects = n] : n \in {0, 2, 3}}
    \cup {[Statement("vsa", GoodPredicate) EXCEPT !.payload = "other"],
          [Statement("vsa", GoodPredicate) EXCEPT !.statement = "other"]}

GoodBundle ==
  [json |-> "typed", media |-> "v0.3", material |-> "certificate", tlogs |-> 1,
   timestamps |-> 0, content |-> Message("sha256"), signs |-> "a", under |-> "old",
   identity |-> "alice", issuer |-> "hub"]

SupplyBundles ==
  {[GoodBundle EXCEPT !.content = c] : c \in Contents}
    \cup {[GoodBundle EXCEPT !.tlogs = n, !.timestamps = m] :
            n \in {0, 3}, m \in {0, 2}}
    \cup {[GoodBundle EXCEPT !.identity = i, !.issuer = j] :
            i \in {"alice", "long", "unsafe", None}, j \in {"hub", "forge", None}}
    \cup {[GoodBundle EXCEPT !.json = j, !.media = m] :
            j \in {"malformed", "untyped", "typed"}, m \in {"v0.3", "legacy"}}
    \cup {[GoodBundle EXCEPT !.material = "key"]}

GoodEvidence ==
  [identity |-> "alice", issuer |-> "hub", tlogs |-> 1, timestamps |-> 0,
   attestation |-> 
     [kind |-> "statement", statement |-> "in-toto", predicate |-> "slsa",
      slsa |-> [predicate |-> "slsa", structure |-> "required_v1_fields_present",
                builder |-> "text", type |-> "text", expectations |-> "not_evaluated",
                level |-> "not_established"]]]

StrayEvidence ==
  {[GoodEvidence EXCEPT !.identity = i, !.issuer = j] :
     i \in {"alice", "bob", "unsafe"}, j \in {"hub", None}}
    \cup {[GoodEvidence EXCEPT !.tlogs = n] : n \in {0, 3}}
    \cup {[GoodEvidence EXCEPT !.attestation.kind = k, !.attestation.predicate = p] :
            k \in {"blob", "statement"}, p \in {"slsa", "vsa", None}}
    \cup {[GoodEvidence EXCEPT !.attestation.slsa[f] = "unsafe"] :
            f \in {"builder", "type"}}
    \cup {[GoodEvidence EXCEPT !.attestation.slsa.level = "3"]}

SupplyAnswers ==
  [schema: {"v1"}, failure: {None}, evidence: StrayEvidence]
    \cup [schema: {"v2"}, failure: {None}, evidence: {GoodEvidence}]
    \cup [schema: {"v1"}, failure: {"SigstoreVerificationFailed"}, evidence: {None}]

Supply == INSTANCE SupplyChain WITH
    Artifacts <- {"a", "b"}, Bundles <- SupplyBundles, Roots <- SupplyRoots,
    Policies <- SupplyPolicies, Answers <- SupplyAnswers, MaxSubjects <- 2, MaxTlogs <- 2,
    MaxTimestamps <- 1, MaxReplacements <- 1, report <- verdict

-----------------------------------------------------------------------------

Subjects == {"backup", "evidence", "requests", "signing", "distribution", "supply"}

\* A component that is not the subject has no command running.  Contents and
\* keys are alike to the signing commands, so one choice of them to start from
\* is enough.
CommandInit ==
    /\ subject \in Subjects
    /\ IF subject = "evidence" THEN Evidence!Init
       ELSE /\ command = None /\ given = None /\ pc = 1 /\ opened = FALSE /\ charged = 0
            /\ work = 0 /\ signed = FALSE /\ output = "none" /\ journal = "open"
            /\ bound = "none" /\ replayed = FALSE /\ outcome = "running"
    /\ Init /\ (subject # "backup" => /\ db = NoPersona /\ file = File(TRUE, None)
                                      /\ signers = [l \in Locators |-> k1])
    /\ Requests!Init
    /\ subject # "requests" => shared /\ \A o \in DOMAIN outputs : outputs[o] = None
    /\ Signing!Init
    /\ artifact = "x" /\ (exists => store.keys[k1] = "active")
    /\ subject # "signing" => ~exists /\ store.keys[k1] = "unknown" /\ keyFiles.public = k1
    /\ Distribution!Init
    /\ IF subject = "supply" THEN Supply!Init
       ELSE /\ disk = None /\ replaced = 0 /\ step = "idle" /\ policy = None
            /\ snapshots = None /\ answer = None /\ honest = FALSE /\ verdict = None
            /\ exit = None

CommandNext ==
    /\ UNCHANGED subject
    /\ \/ /\ subject = "backup" /\ Next
          /\ UNCHANGED <<continuityVars, journalVars, signingVars, rootVars, supplyVars>>
       \/ /\ subject = "evidence" /\ Evidence!Next
          /\ UNCHANGED <<vars, journalVars, signingVars, rootVars, supplyVars>>
       \/ /\ subject = "requests" /\ Requests!Next
          /\ UNCHANGED <<vars, continuityVars, signingVars, rootVars, supplyVars>>
       \/ /\ subject = "signing" /\ Signing!Next
          /\ UNCHANGED <<vars, continuityVars, journalVars, rootVars, supplyVars>>
       \/ /\ subject = "distribution" /\ Distribution!Next
          /\ UNCHANGED <<vars, continuityVars, journalVars, signingVars, supplyVars>>
       \/ /\ subject = "supply" /\ Supply!Next
          /\ UNCHANGED <<vars, continuityVars, journalVars, signingVars, rootVars>>

CommandSpec == CommandInit /\ [][CommandNext]_commandVars

-----------------------------------------------------------------------------

\* See JournalRequests and SigningCommands: a proof in an output file is
\* journaled in the store the client reads, and a file that was reported
\* stays; a proof is written under the authority its persona has at that
\* moment, for the bytes and the statement that were asked for.
WrittenIsAuthorized ==
    [][/\ Requests!OutputIsJournaled' /\ Requests!CreatedFileStays'
       /\ Signing!WrittenUnderAuthority /\ Signing!WrittenIsWhatWasAsked
       /\ Signing!DomainProofIsItsOwn]_<<journalVars, signingVars>>

\* See ContinuityCommands, SigningCommands, RootDistribution and SupplyChain:
\* what a command reports as sound has nothing wrong with it, is about one
\* snapshot of what it read, and is compared with what was really accepted.
VerdictsAreSound ==
    /\ Evidence!AcceptsOnlySound /\ Evidence!SignsOnSoundEvidence
    /\ Evidence!SuccessIsItsOwnFile /\ Evidence!BindingIsWhatWasAsked
    /\ Signing!StatusIsExplained
    /\ Distribution!ComparesWithWhatWasAccepted /\ Distribution!TimesAddUp
    /\ Supply!VerifiedIsOneTriple /\ Supply!PolicyIsExact

\* See BackupCommands: a retry after a lost answer succeeds, a materialization
\* that says matched did match, and imports and exports are what they say.
BackupAnswersAreTrue ==
    [][/\ RetrySucceeds /\ ImportSaysItsDisposition /\ ExportKeepsContinuity
       /\ MatchedIsTrue']_vars
=============================================================================
