---------------------------- MODULE PersonaArchive ----------------------------
(***************************************************************************)
(* Backups of a persona (crate a-quo-store): importing one into a database *)
(* that does not know the persona, the quarantine in which the imported    *)
(* continuity evidence then stays, the three explicit ways out of it       *)
(* (direct activation, recovery activation, terminal hydration), the       *)
(* sealed receipt each leaves behind, and exporting again.                 *)
(*                                                                         *)
(* The database is that of PersonaStore, whose operations go on working    *)
(* beside and after those of this module.  A persona that was created      *)
(* rather than imported is PersonaStore's alone.                           *)
(*                                                                         *)
(* A backup file is a record                                               *)
(*    [keys, lifecycle, exportedAt, archive]                               *)
(* of the keys' statuses, the latest time of the persona's and its keys'   *)
(* lifecycle, the export time and NoRow or the continuity evidence         *)
(*    [root, policies, journal, terminal],                                 *)
(* whose entries have the shape of the store's rows: their recordedAt and  *)
(* committedAt are the archive's observed_at.                              *)
(***************************************************************************)
EXTENDS PersonaStore, FiniteSetsExt

CONSTANTS
    Backups,      \* the backup files at hand, valid or not, once decoded
    MAX_PERSONA_BACKUP_CONTINUITY_TRANSITIONS,   \* 256 in lib.rs
    MAX_PERSONA_BACKUP_RECOVERY_POLICIES,        \* 256 in lib.rs
    MAX_PERSONA_BACKUP_KEYS                      \* 256 in lib.rs

VARIABLES
    lifecycle,    \* the latest timestamp of the persona's key records and events
    answered      \* receipts that some caller was given

archiveVars == <<vars, lifecycle, answered>>

\* What a decoded archive consists of, whether it verifies or not.
IsTransitionRow(row) ==
    /\ DOMAIN row = TransitionFields
    /\ IsStatement(row.statement) /\ row.committedAt \in Times
IsEvidence(a) ==
    /\ DOMAIN a.root = PolicyFields /\ a.root.recordedAt \in Times
    /\ a.root.statement.key \in Keys /\ a.root.statement.issuedAt \in Times
    /\ IsSequence(a.policies)
    /\ \A v \in 1 .. Len(a.policies) : /\ DOMAIN a.policies[v] = PolicyFields
                                       /\ a.policies[v].recordedAt \in Times
    /\ IsSequence(a.journal)
    /\ \A i \in 1 .. Len(a.journal) : IsTransitionRow(a.journal[i])
    /\ a.terminal # NoRow => IsTransitionRow(a.terminal)

ASSUME BackupAssumption ==
    \A b \in Backups : /\ b.keys \in [Keys -> Statuses]
                       /\ b.lifecycle \in Times
                       /\ b.archive # NoRow => IsEvidence(b.archive)

-----------------------------------------------------------------------------
(* Verifying a backup *)

Statements(rows) == [i \in 1 .. Len(rows) |-> rows[i].statement]

\* The transitions that a verifier sees: the terminal proof, which has a field
\* of its own, comes last.
ArchiveChain(a) ==
    IF a.terminal = NoRow THEN Statements(a.journal)
    ELSE Append(Statements(a.journal), a.terminal.statement)

\* archive_observed_at_max
ObservedMax(a) ==
    Max({a.root.recordedAt}
        \cup {a.policies[v].recordedAt : v \in 1 .. Len(a.policies)}
        \cup {a.journal[i].committedAt : i \in 1 .. Len(a.journal)}
        \cup (IF a.terminal = NoRow THEN {} ELSE {a.terminal.committedAt}))

KeysOf(b) == {k \in Keys : b.keys[k] # "unknown"}
ActiveKeysOf(b) == {k \in Keys : b.keys[k] = "active"}

\* validate_persona_history.  That statuses, events and timestamps agree with
\* each other is part of what a key's status stands for here.
ValidatePersonaHistory(b) ==
    /\ Cardinality(KeysOf(b)) <= MAX_PERSONA_BACKUP_KEYS
    /\ b.lifecycle <= b.exportedAt

NondecreasingFrom(start, times) ==
    \A i \in 1 .. Len(times) : times[i] >= IF i = 1 THEN start ELSE times[i - 1]

ValidateBackupContinuityStructure(b) ==
    LET a == b.archive
        observed == [i \in 1 .. Len(a.journal) |-> a.journal[i].committedAt]
        recorded == [v \in 1 .. Len(a.policies) |-> a.policies[v].recordedAt]
    IN
    /\ \A i \in 1 .. Len(a.journal) : ~ IsTerminal(a.journal[i].statement)
    /\ Len(a.policies) <= MAX_PERSONA_BACKUP_RECOVERY_POLICIES
    /\ Len(ArchiveChain(a)) <= MAX_PERSONA_BACKUP_CONTINUITY_TRANSITIONS
    /\ ObservedMax(a) <= b.exportedAt
    /\ NondecreasingFrom(a.root.recordedAt, recorded)
    /\ NondecreasingFrom(a.root.recordedAt,
                         IF a.terminal = NoRow THEN observed
                         ELSE Append(observed, a.terminal.committedAt))
    /\ a.policies = << >> =>
          /\ a.terminal = NoRow
          /\ \A i \in 1 .. Len(a.journal) : a.journal[i].statement.kind # "Recovery"

\* The derived tip is the only active key, or a terminal archive has none and
\* the revoked key's status says why.
ArchiveTipMatchesKeys(b) ==
    LET a == b.archive IN
    IF a.terminal = NoRow
    THEN ActiveKeysOf(b) = {TipKey(a.root.statement, Statements(a.journal), Len(a.journal))}
    ELSE /\ ActiveKeysOf(b) = {}
         /\ b.keys[a.terminal.statement.previousKey]
               = ReplacedStatus(a.terminal.statement.reason)

\* verify_persona_backup_continuity and, without evidence, the validation alone.
VerifyBackup(b) ==
    /\ ValidatePersonaHistory(b)
    /\ b.archive # NoRow =>
          LET a == b.archive IN
          /\ ValidateBackupContinuityStructure(b)
          /\ VerifyChain(a.root.statement, ArchiveChain(a), Statements(a.policies))
          /\ OnlineKeys(a.root.statement, ArchiveChain(a)) \subseteq KeysOf(b)
          /\ ArchiveTipMatchesKeys(b)

-----------------------------------------------------------------------------
(* Comparing an archive with pins obtained elsewhere *)

Checkpoint(sequence, digest) == [sequence |-> sequence, digest |-> digest]
EffectiveHead(a) == Checkpoint(Len(ArchiveChain(a)),
                               LastDigest(ArchiveChain(a), Len(ArchiveChain(a))))
LatestPolicyDigest(a) == LastDigest(Statements(a.policies), Len(a.policies))

\* What a caller pins who knows the archive a: its digest, root, head, latest
\* policy and current key.
PinsOf(a) ==
    [archive |-> Digest(a), root |-> Digest(a.root.statement),
     head |-> EffectiveHead(a), policy |-> LatestPolicyDigest(a),
     key |-> IF a.terminal = NoRow
             THEN TipKey(a.root.statement, Statements(a.journal), Len(a.journal))
             ELSE None]

\* compare_persona_backup_continuity: the relation it reports between the
\* archive's effective head and the pinned one.
HeadRelation(a, pins) ==
    LET n == Len(ArchiveChain(a)) IN
    IF n < pins.head.sequence THEN "ShorterThanExpectedInconclusive"
    ELSE IF LastDigest(ArchiveChain(a), pins.head.sequence) # pins.head.digest
         THEN "DivergentAtOrBeforePin"
         ELSE IF n = pins.head.sequence THEN "Exact" ELSE "ExtensionBeyondPin"

ExactlyPinned(b, pins) ==
    /\ VerifyBackup(b)
    /\ pins.root = Digest(b.archive.root.statement)
    /\ pins.policy = LatestPolicyDigest(b.archive)
    /\ HeadRelation(b.archive, pins) = "Exact"

-----------------------------------------------------------------------------
(* Exporting *)

\* live_backup_archive_in: the live journal as continuity evidence.
LiveArchive ==
    [root |-> root, policies |-> policies, journal |-> journal, terminal |-> terminal]

\* A live root is exported before any archive it came from.
ExportedArchive ==
    IF root # NoRow THEN LiveArchive
    ELSE IF archive # NoRow THEN archive.evidence ELSE NoRow

Export(now) ==
    [keys |-> keys, lifecycle |-> lifecycle,
     exportedAt |-> Max({now, lifecycle} \cup
                        (IF ExportedArchive = NoRow THEN {}
                         ELSE {ObservedMax(ExportedArchive)})),
     archive |-> ExportedArchive]

\* archived_backup_in: the retained evidence with the current key records.
ArchivedBackup ==
    [keys |-> keys, lifecycle |-> lifecycle,
     exportedAt |-> Max({lifecycle, ObservedMax(archive.evidence)}),
     archive |-> archive.evidence]

Quarantined == archive # NoRow /\ root = NoRow

-----------------------------------------------------------------------------
(* The sources of a materialization, checked at a clock reading t *)

\* No statement of the archive claims to be issued after t.
SignedIssuanceAtOrBefore(a, t) ==
    /\ a.root.statement.issuedAt <= t
    /\ \A v \in 1 .. Len(a.policies) : a.policies[v].statement.issuedAt <= t
    /\ \A i \in 1 .. Len(ArchiveChain(a)) : ArchiveChain(a)[i].issuedAt <= t

LifecycleAtOrBefore(b, t) == b.lifecycle <= t

\* What all three materializations ask of the stored archive and of the pins.
MaterializationSource(pins, t) ==
    /\ Quarantined
    /\ receipt = NoRow
    /\ t >= archive.importedAt
    /\ LifecycleAtOrBefore(ArchivedBackup, t)
    /\ ExactlyPinned(ArchivedBackup, pins)
    /\ pins.archive = Digest(archive.evidence)
    /\ SignedIssuanceAtOrBefore(archive.evidence, t)

VerifiedDirectActivationSource(request, t) ==
    /\ MaterializationSource(request.pins, t)
    /\ archive.evidence.terminal = NoRow
    /\ PinsOf(archive.evidence).key = request.pins.key
    /\ keys[request.pins.key] = "active"

\* The recovery proof extends exactly the pinned head, under the pinned policy,
\* inside the policy's and the ceremony's window.
VerifiedRecoveryActivationSource(request, t) ==
    LET a == archive.evidence
        st == request.proof.statement
    IN
    /\ request.pins.policy # None
    /\ MaterializationSource(request.pins, t)
    /\ a.terminal = NoRow
    /\ Len(a.journal) < MAX_PERSONA_BACKUP_CONTINUITY_TRANSITIONS
    /\ keys[PinsOf(a).key] = "active"
    /\ st.sequence = request.pins.head.sequence + 1
    /\ st.previous = request.pins.head.digest
    /\ st.root = request.pins.root
    /\ st.previousKey = PinsOf(a).key
    /\ st.policy = request.pins.policy
    /\ st.issuedAt <= t
    /\ CeremonyActiveAt(st.expiresAt, t)
    /\ PolicyActiveAt(a.policies[Len(a.policies)].statement, t)
    /\ RecoveryExtension(a.root.statement, ArchiveChain(a), Statements(a.policies), st)
    /\ RequireUnknownKey(st.nextKey)

\* require_recovery_archive_activation_reservations
RecoveryActivationReservations ==
    /\ Cardinality(KnownKeys) + 1 <= MAX_STORED_PERSONA_KEYS
    /\ Len(archive.evidence.journal) + 1 <= MAX_CONTINUITY_TRANSITIONS
    /\ Len(archive.evidence.policies) <= MAX_RECOVERY_POLICY_VERSIONS

VerifiedTerminalHydrationSource(request, t) ==
    /\ request.pins.policy # None
    /\ MaterializationSource(request.pins, t)
    /\ archive.evidence.terminal # NoRow
    /\ archive.evidence.terminal.statement.sequence = Len(archive.evidence.journal) + 1

-----------------------------------------------------------------------------
(* Materializing *)

\* materialize_verified_archive_prefix: every copied row is recorded at the
\* materialization, whatever the archive says it was observed at.
SlipKeepsObservedTimes(rows, at) == rows
CopiedTransitions(rows, at) ==
    [i \in 1 .. Len(rows) |-> [rows[i] EXCEPT !.committedAt = at]]
CopiedPolicies(rows, at) ==
    [v \in 1 .. Len(rows) |-> [rows[v] EXCEPT !.recordedAt = at]]
CopiedPolicyHead(rows, at) ==
    IF rows = << >> THEN NoRow
    ELSE [revision |-> Len(rows), digest |-> Digest(rows[Len(rows)].statement),
          recordedAt |-> at]
PrefixHead(a) ==
    LET n == Len(a.journal) IN
    [revision |-> n, sequence |-> n,
     key |-> TipKey(a.root.statement, Statements(a.journal), n),
     last |-> LastDigest(Statements(a.journal), n),
     issuedAt |-> LastIssuedAt(a.root.statement, Statements(a.journal), n)]

MaterializeArchivePrefix(a, at) ==
    /\ root' = [a.root EXCEPT !.recordedAt = at]
    /\ policies' = CopiedPolicies(a.policies, at)
    /\ policyHead' = CopiedPolicyHead(a.policies, at)

\* The receipt that the materialization seals.  sourceSequence is the effective
\* head of the archive, so it counts a terminal revocation.
ReceiptOf(method, request, resultHead, resultKey, at) ==
    [method |-> method, evidence |-> archive.evidence,
     importedAt |-> archive.importedAt, snapshot |-> ArchivedBackup,
     pins |-> request.pins, proof |-> request.proof,
     sourceSequence |-> request.pins.head.sequence,
     resultHead |-> resultHead, resultKey |-> resultKey, materializedAt |-> at]

MaterializeDirectActivation(request, at) ==
    LET a == archive.evidence IN
    /\ MaterializeArchivePrefix(a, at)
    /\ journal' = CopiedTransitions(a.journal, at)
    /\ head' = PrefixHead(a)
    /\ terminal' = NoRow
    /\ refs' = refs \cup {request.pins.key}
    /\ receipt' = ReceiptOf("DirectActivation", request, request.pins.head,
                            request.pins.key, at)
    /\ UNCHANGED <<keys, lifecycle>>

\* The archived tip is given up before the recovery's successor becomes active.
SucceedArchivedTip(request, at) ==
    LET st == request.proof.statement IN
    keys' = [keys EXCEPT ![st.previousKey] = ReplacedStatus(st.reason),
                         ![st.nextKey] = "active"]

MaterializeRecoveryActivation(request, at) ==
    LET a == archive.evidence
        st == request.proof.statement
    IN
    /\ MaterializeArchivePrefix(a, at)
    /\ SucceedArchivedTip(request, at)
    /\ refs' = refs \cup {st.nextKey}
    /\ journal' = Append(CopiedTransitions(a.journal, at),
                         [statement |-> st, wrapper |-> request.proof.wrapper,
                          committedAt |-> at])
    /\ head' = [revision |-> st.sequence, sequence |-> st.sequence, key |-> st.nextKey,
                last |-> Digest(st), issuedAt |-> st.issuedAt]
    /\ terminal' = NoRow
    /\ receipt' = ReceiptOf("RecoveryActivation", request,
                            Checkpoint(st.sequence, Digest(st)), st.nextKey, at)
    /\ lifecycle' = at

\* No key changes and no reference is made: the imported statuses already are
\* those of a revoked persona.
MaterializeTerminalHydration(request, at) ==
    LET a == archive.evidence IN
    /\ refs = {}
    /\ MaterializeArchivePrefix(a, at)
    /\ journal' = CopiedTransitions(a.journal, at)
    /\ head' = PrefixHead(a)
    /\ terminal' = [a.terminal EXCEPT !.committedAt = at]
    /\ receipt' = ReceiptOf("TerminalHydration", request, request.pins.head, None, at)
    /\ lifecycle' = Max({lifecycle, at})
    /\ UNCHANGED <<keys, refs>>

-----------------------------------------------------------------------------
(* Validating the sealed receipt, as every later read of the persona does *)

\* stored_materialization_checkpoint
StoredCheckpoint(checkpoint) ==
    /\ checkpoint.sequence <= MAX_TERMINAL_PERSONA_REVOCATION_SEQUENCE
    /\ (checkpoint.sequence = 0) <=> (checkpoint.digest = None)

\* Which fields a receipt of each method has, and how they hang together.
MethodShape ==
    LET source == receipt.pins.head IN
    CASE receipt.method = "DirectActivation" ->
            /\ receipt.pins.key # None /\ receipt.resultKey = receipt.pins.key
            /\ receipt.resultHead = source
            /\ source.sequence <= MAX_CONTINUITY_TRANSITIONS
            /\ receipt.proof = None
      [] receipt.method = "RecoveryActivation" ->
            /\ receipt.pins.policy # None
            /\ receipt.resultKey \notin {None, receipt.pins.key}
            /\ receipt.resultHead.sequence = source.sequence + 1
            /\ source.sequence < MAX_CONTINUITY_TRANSITIONS
            /\ receipt.proof # None
      [] OTHER ->
            /\ receipt.pins.policy # None
            /\ receipt.resultHead = source /\ source.sequence > 0
            /\ receipt.pins.key = None /\ receipt.resultKey = None
            /\ receipt.proof = None

\* stored_continuity_materialization_in: the row is well formed.
StoredMaterialization ==
    /\ receipt.materializedAt >= receipt.importedAt
    /\ StoredCheckpoint(receipt.pins.head)
    /\ StoredCheckpoint(receipt.resultHead)
    /\ MethodShape

\* Lifecycle events after the materialization are not dated before it.
ImportedEventBoundary ==
    keys # receipt.snapshot.keys => lifecycle >= receipt.materializedAt

\* How a source key's status may differ from the one in the snapshot.
SourceKeyPreserved(k) ==
    LET before == receipt.snapshot.keys[k]
        st == receipt.proof.statement
    IN
    CASE receipt.method = "TerminalHydration" -> keys[k] = before
      [] receipt.method = "DirectActivation" -> keys[k] # "unknown"
      [] receipt.method = "RecoveryActivation" /\ k = st.previousKey ->
            /\ before = "active"
            /\ keys[k] \in {ReplacedStatus(st.reason), "compromised"}
      [] OTHER -> \/ keys[k] = before
                  \/ before = "retired" /\ keys[k] = "compromised"

ValidateSourceKeys ==
    /\ receipt.method = "TerminalHydration" => KnownKeys = KeysOf(receipt.snapshot)
    /\ \A k \in KeysOf(receipt.snapshot) : SourceKeyPreserved(k)

\* The sealed recovery proof still extends the archive, in its policy's and its
\* ceremony's window at the time of the materialization.
ValidateRecoveryProof ==
    LET a == receipt.evidence
        st == receipt.proof.statement
    IN
    receipt.method = "RecoveryActivation" =>
        /\ CeremonyActiveAt(st.expiresAt, receipt.materializedAt)
        /\ PolicyActiveAt(a.policies[Len(a.policies)].statement, receipt.materializedAt)
        /\ RecoveryExtension(a.root.statement, ArchiveChain(a), Statements(a.policies), st)
        /\ receipt.resultHead = Checkpoint(st.sequence, Digest(st))
        /\ receipt.resultKey = st.nextKey

\* The transitions that the materialization itself put into the journal.
CopiedCount ==
    IF receipt.method = "TerminalHydration" THEN receipt.resultHead.sequence - 1
                                            ELSE receipt.resultHead.sequence

\* validate_materialized_prefix_observation_times_in
PrefixObservationTimes ==
    LET copiedPolicies == Len(receipt.evidence.policies) IN
    /\ Len(journal) >= CopiedCount
    /\ \A i \in 1 .. Len(journal) :
          IF i <= CopiedCount THEN journal[i].committedAt = receipt.materializedAt
                              ELSE journal[i].committedAt >= receipt.materializedAt
    /\ Len(policies) >= copiedPolicies
    /\ \A v \in 1 .. Len(policies) :
          IF v <= copiedPolicies THEN policies[v].recordedAt = receipt.materializedAt
                                 ELSE policies[v].recordedAt >= receipt.materializedAt
    /\ policyHead # NoRow => policyHead.recordedAt >= receipt.materializedAt

\* The exact proofs of the archive begin the live journal and policy chain.
PrefixPreserved ==
    LET a == receipt.evidence IN
    /\ root.statement = a.root.statement
    /\ root.recordedAt = receipt.materializedAt
    /\ IsPrefixOf(Statements(a.policies), PolicyStatements)
    /\ Len(journal) >= Len(a.journal)
    /\ \A i \in 1 .. Len(a.journal) : SameProof(journal[i], a.journal[i])

ValidateLiveResult ==
    /\ VerifiedSnapshot
    /\ PrefixPreserved
    /\ PrefixObservationTimes
    /\ CASE receipt.method = "TerminalHydration" ->
              /\ ActiveKeys = {} /\ refs = {}
              /\ terminal # NoRow
              /\ SameProof(terminal, receipt.evidence.terminal)
              /\ terminal.committedAt = receipt.materializedAt
         [] receipt.method = "RecoveryActivation" ->
              /\ head.sequence >= receipt.resultHead.sequence
              /\ SameProof(journal[receipt.resultHead.sequence], receipt.proof)
              /\ refs \cap KeysOf(receipt.snapshot) = {}
         [] OTHER ->
              /\ head.sequence >= receipt.resultHead.sequence
              /\ TipKey(root.statement, TransitionStatements, receipt.resultHead.sequence)
                    = receipt.resultKey

\* validate_sealed_continuity_materialization_in
SealedMaterializationValid ==
    /\ StoredMaterialization
    /\ archive = [evidence |-> receipt.evidence, importedAt |-> receipt.importedAt]
    /\ receipt.snapshot.archive = receipt.evidence
    /\ ExactlyPinned(receipt.snapshot, receipt.pins)
    /\ (receipt.method = "TerminalHydration") <=> (receipt.evidence.terminal # NoRow)
    /\ ImportedEventBoundary
    /\ ValidateSourceKeys
    /\ ValidateRecoveryProof
    /\ ValidateLiveResult

-----------------------------------------------------------------------------
(* Operations *)

\* import_persona_backup verifies the file, and then writes persona, keys,
\* events and evidence in one transaction.  No signing reference is imported.
ImportBackup(b, now) ==
    /\ CanWrite
    /\ VerifyBackup(b)
    /\ KnownKeys = {}
    /\ keys' = b.keys
    /\ lifecycle' = b.lifecycle
    /\ audit' = b.lifecycle
    /\ archive' = IF b.archive = NoRow THEN NoRow
                  ELSE [evidence |-> b.archive, importedAt |-> now]
    /\ UNCHANGED <<refs, root, journal, head, policies, policyHead, terminal,
                   receipt, proofs, lock, sess, told, answered>>

DirectRequests == {[pins |-> PinsOf(b.archive), proof |-> None] :
                      b \in {c \in Backups : c.archive # NoRow}}

\* Recovery proofs for the archives at hand, by the authorities of their latest
\* policy.
RecoveryProofsFor(a) ==
    {[statement |->
        [kind |-> "Recovery", root |-> Digest(a.root.statement),
         sequence |-> EffectiveHead(a).sequence + 1, previous |-> EffectiveHead(a).digest,
         previousKey |-> PinsOf(a).key, nextKey |-> k, issuedAt |-> t, expiresAt |-> e,
         policy |-> LatestPolicyDigest(a), reason |-> r],
      wrapper |-> w] :
        k \in Keys, t \in IssueTimes, e \in CeremonyEnds,
        r \in {"Recovery", "Compromise"}, w \in Wrappers}
RecoveryRequests ==
    UNION {{[pins |-> PinsOf(b.archive), proof |-> p] : p \in RecoveryProofsFor(b.archive)} :
              b \in {c \in Backups : /\ c.archive # NoRow
                                     /\ c.archive.terminal = NoRow
                                     /\ c.archive.policies # << >>}}

\* The checks before the write transaction, up to and including the challenge
\* to the signer; t is the clock reading they use.
Preflight(s, method, request, t) ==
    /\ sess[s] = Idle
    /\ receipt = NoRow
    /\ sess' = [sess EXCEPT ![s] = [phase |-> method, request |-> request, at |-> t]]
    /\ UNCHANGED <<storeVars, proofs, lock, told, lifecycle, answered>>

PreflightDirectActivation(s, request, t) ==
    /\ VerifiedDirectActivationSource(request, t)
    /\ Preflight(s, "DirectActivation", request, t)

PreflightRecoveryActivation(s, request, t) ==
    /\ VerifiedRecoveryActivationSource(request, t)
    /\ RecoveryActivationReservations
    /\ Preflight(s, "RecoveryActivation", request, t)

PreflightTerminalHydration(s, request, t) ==
    /\ VerifiedTerminalHydrationSource(request, t)
    /\ Preflight(s, "TerminalHydration", request, t)

\* What the three write transactions share: they begin by looking for a receipt
\* again and end by validating the sealed one before the commit.
Materialize(s, method, at) ==
    /\ Carries(s, method)
    /\ CanWrite
    /\ receipt = NoRow
    /\ at >= sess[s].at
    /\ audit' = at
    /\ answered' = answered \cup {receipt'}
    /\ sess' = [sess EXCEPT ![s] = Idle]
    /\ UNCHANGED <<archive, proofs, lock, told>>
    /\ SealedMaterializationValid'

ActivateDirect(s, at) ==
    LET request == sess[s].request IN
    /\ Carries(s, "DirectActivation")
    /\ VerifiedDirectActivationSource(request, at)
    /\ MaterializeDirectActivation(request, at)
    /\ Materialize(s, "DirectActivation", at)

\* A third clock reading, just before the commit, is again inside the windows.
ActivateByRecovery(s, at) ==
    LET request == sess[s].request IN
    /\ Carries(s, "RecoveryActivation")
    /\ VerifiedRecoveryActivationSource(request, at)
    /\ RecoveryActivationReservations
    /\ MaterializeRecoveryActivation(request, at)
    /\ Materialize(s, "RecoveryActivation", at)
    /\ \E committed \in Times :
          /\ committed >= at
          /\ CeremonyActiveAt(request.proof.statement.expiresAt, committed)
          /\ PolicyActiveAt(policies'[Len(policies')].statement, committed)

HydrateTerminal(s, at) ==
    LET request == sess[s].request IN
    /\ Carries(s, "TerminalHydration")
    /\ VerifiedTerminalHydrationSource(request, at)
    /\ MaterializeTerminalHydration(request, at)
    /\ Materialize(s, "TerminalHydration", at)

RequestMatchesReceipt(request, method) ==
    /\ receipt.method = method
    /\ receipt.pins = request.pins
    /\ receipt.proof = request.proof

\* From the lookup before the write transaction, or from the one inside it.
AnswerFromReceipt(s, method, request) ==
    /\ \/ sess[s] = Idle
       \/ Carries(s, method) /\ sess[s].request = request /\ CanWrite
    /\ receipt # NoRow
    /\ SealedMaterializationValid
    /\ RequestMatchesReceipt(request, method)
    /\ answered' = answered \cup {[receipt EXCEPT !.pins = request.pins,
                                                  !.proof = request.proof]}
    /\ sess' = [sess EXCEPT ![s] = Idle]
    /\ UNCHANGED <<storeVars, proofs, lock, told, lifecycle>>

ReplayDirectActivation(s, request) ==
    AnswerFromReceipt(s, "DirectActivation", request)
\* The recovery was recorded under a policy that was active at that time.
ReplayRecoveryActivation(s, request) ==
    /\ AnswerFromReceipt(s, "RecoveryActivation", request)
    /\ PolicyActiveAt(receipt.evidence.policies[Len(receipt.evidence.policies)].statement,
                      receipt.materializedAt)
ReplayTerminalHydration(s, request) ==
    AnswerFromReceipt(s, "TerminalHydration", request)

-----------------------------------------------------------------------------
(* The store with backups *)

\* A step of PersonaStore.  Key records and events carry its time.  A
\* quarantined persona's evidence is verified before a key is marked.
StoreStep ==
    /\ Next
    /\ lifecycle' = IF keys' = keys THEN lifecycle ELSE audit'
    /\ Quarantined /\ keys' # keys => VerifyBackup(ArchivedBackup)
    /\ UNCHANGED answered

ArchiveStep(s) ==
    \/ \E request \in DirectRequests, t \in Times :
          \/ PreflightDirectActivation(s, request, t)
          \/ PreflightTerminalHydration(s, request, t)
    \/ \E request \in RecoveryRequests, t \in Times :
          PreflightRecoveryActivation(s, request, t)
    \/ \E at \in Times :
          \/ ActivateDirect(s, at)
          \/ ActivateByRecovery(s, at)
          \/ HydrateTerminal(s, at)
    \/ \E request \in DirectRequests :
          \/ ReplayDirectActivation(s, request)
          \/ ReplayTerminalHydration(s, request)
    \/ \E request \in RecoveryRequests :
          ReplayRecoveryActivation(s, request)

ArchiveNext ==
    \/ StoreStep
    \/ \E b \in Backups, now \in Times : ImportBackup(b, now)
    \/ \E s \in Sessions : ArchiveStep(s)

ArchiveInit == Init /\ lifecycle = 0 /\ answered = {}

ArchiveSpec == ArchiveInit /\ [][ArchiveNext]_archiveVars

-----------------------------------------------------------------------------
(* Properties *)

\* While imported evidence is quarantined nothing can be signed with its keys,
\* no live row exists, and there is no receipt.  Afterwards every read of the
\* activated or hydrated persona validates its sealed receipt against the
\* retained archive, the keys and the live rows of that moment: no operation, of
\* whatever session and however much later, leaves a state behind that fails
\* this, for it would end the persona for good.  And a caller who asked for a
\* materialization, the first time or as a retry after a lost answer, was told of
\* exactly the receipt that is sealed, with their own pins and proof in it.
QuarantineGrantsNothing ==
    /\ Quarantined =>
          /\ refs = {} /\ lock = None /\ receipt = NoRow
          /\ head = NoRow /\ journal = << >> /\ policies = << >> /\ terminal = NoRow
    /\ receipt # NoRow => SealedMaterializationValid
    /\ \A r \in answered : r = receipt

\* Quarantine ends only by a receipt, and until then local operations can only
\* take trust in a key away.
QuarantineEndsByReceipt ==
    [][Quarantined =>
          /\ archive' = archive
          /\ \/ receipt' # NoRow
             \/ /\ Quarantined'
                /\ \A k \in Keys : keys'[k] \in {keys[k], "compromised"}
      ]_archiveVars
=============================================================================
