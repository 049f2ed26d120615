----------------------- MODULE PersonaArchiveInvariant -----------------------
(***************************************************************************)
(* What is proved of the store with backups: whatever backup files are     *)
(* around, however many keys and sessions there are and whatever the       *)
(* limits.  The operations of PersonaStore keep their invariant beside the *)
(* import and the materializations, and quarantine and the sealed receipt  *)
(* keep their promises.                                                    *)
(***************************************************************************)
EXTENDS PersonaArchive, PersonaStoreInvariant

-----------------------------------------------------------------------------
(* The inductive invariant *)

\* Rows have the fields of their tables, so a copy with another time keeps the rest.
RowsAreWhole ==
    /\ root # NoRow => DOMAIN root = PolicyFields
    /\ \A i \in 1 .. Len(journal) : DOMAIN journal[i] = TransitionFields
    /\ \A v \in 1 .. Len(policies) : DOMAIN policies[v] = PolicyFields
    /\ terminal # NoRow => DOMAIN terminal = TransitionFields

\* The retained archive is that of some backup, whose keys came with it.
ArchiveIsABackup ==
    archive # NoRow => /\ KnownKeys # {}
                       /\ \E b \in Backups : b.archive # NoRow /\ archive.evidence = b.archive

QuarantineIsLocked == Quarantined => refs = {} /\ lock = None

ReceiptFields == {"method", "evidence", "importedAt", "snapshot", "pins", "proof",
                  "sourceSequence", "resultHead", "resultKey", "materializedAt"}

\* A receipt has all its fields, and its head is one that a chain can have.
IsReceipt(r) ==
    /\ r = [f \in ReceiptFields |-> r[f]]
    /\ r.resultHead.sequence \in Nat
    /\ r.method \in {"DirectActivation", "RecoveryActivation", "TerminalHydration"}
    /\ r.method = "RecoveryActivation" => r.resultHead.sequence # 0
    /\ r.snapshot.keys \in [Keys -> Statuses]
    /\ Len(r.evidence.policies) \in Nat

ReceiptIsSealed == receipt # NoRow => IsReceipt(receipt) /\ SealedMaterializationValid

\* Nobody was given a receipt before one was sealed, and then only that one.
AnswersAreTheReceipt ==
    /\ \A r \in answered : r = receipt
    /\ receipt = NoRow => answered = {}

\* A session that prepares a recovery activation carries one of the requests.
RequestsAreCarried ==
    \A s \in Sessions : sess[s].phase = "RecoveryActivation" => sess[s].request \in RecoveryRequests

AInv ==
    /\ IInv
    /\ RowsAreWhole
    /\ lifecycle \in Times
    /\ refs \subseteq KnownKeys
    /\ ArchiveIsABackup
    /\ QuarantineIsLocked
    /\ ReceiptIsSealed
    /\ AnswersAreTheReceipt
    /\ RequestsAreCarried

-----------------------------------------------------------------------------
(* Quarantine under the store's operations *)

\* No operation of the store brings a quarantined persona to life: the most it
\* can do is to distrust a key that was not active.
LEMMA QuarantinedStep ==
    ASSUME IInv, [Next]_vars, Quarantined, refs = {}, lock = None
    PROVE  /\ UNCHANGED <<root, refs, lock>>
           /\ \A k \in Keys : keys'[k] \in {keys[k], "compromised"}
<1>0. /\ archive # NoRow /\ root = NoRow /\ ~ VerifiedSnapshot /\ ~ RequireNoEvidenceArchive
      /\ ~ ContinuityUnmanaged /\ keys \in [Keys -> Statuses]
  BY Zenon DEF Quarantined, VerifiedSnapshot, RequireNoEvidenceArchive, ContinuityUnmanaged, IInv,
         TypeOK
<1>1. CASE KeyStep
  <2>1. \E k \in Keys, now \in Times : MarkKeyCompromised(k, now)
    BY <1>0, <1>1, ZenonT(60) DEF KeyStep, EnrollKey, RotateKey, BindSigningReference,
                      UnbindSigningReference, RecordContinuityRoot
  <2> QED
    BY <1>0, <2>1, Zenon DEF MarkKeyCompromised
<1>2. CASE UNCHANGED <<root, refs, lock, keys>>
  BY <1>2, Zenon
<1>3. ASSUME NEW s \in Sessions, SessionStep(s) PROVE UNCHANGED <<root, refs, lock, keys>>
  <2>1. CASE QuietStep(s)
    <3>1. UNCHANGED storeVars
      BY <2>1, QuietStepTypes, Zenon
    <3>2. lock' = lock
      BY <1>0, <2>1, Zenon DEF QuietStep, WithActiveKeyAuthorization, BeginRoutine, ReplayRoutine,
                ReplayRecovery, ReplayTerminal, VerifyRecovery, VerifyTerminal, AnswerCommitted,
                SessionEnds
    <3> QED
      BY <3>1, <3>2, Zenon DEF storeVars
  <2> QED
    BY <1>0, <1>3, <2>1, Zenon DEF SessionStep, QuietStep, CommitRoutineTransition,
                            CommitRecoveryTransition, CommitTerminalPersonaRevocation
<1>4. CASE RecordRecoveryPolicyChain
  BY <1>0, <1>4, Zenon DEF RecordRecoveryPolicyChain
<1>5. CASE SignStep
  BY <1>0, <1>5, Zenon DEF SignStep
<1>6. CASE UNCHANGED vars
  BY <1>2, <1>6, Zenon DEF vars
<1> QED
  BY <1>1, <1>2, <1>3, <1>4, <1>5, <1>6, Zenon DEF Next

-----------------------------------------------------------------------------
(* The sealed receipt under the store's operations *)

\* The sequences of an archive.
LEMMA EvidenceShape ==
    ASSUME NEW a, IsEvidence(a)
    PROVE  /\ Len(a.journal) \in Nat /\ Len(a.policies) \in Nat
           /\ IsSequence(Statements(a.journal)) /\ Len(Statements(a.journal)) = Len(a.journal)
           /\ IsSequence(Statements(a.policies)) /\ Len(Statements(a.policies)) = Len(a.policies)
           /\ \A i \in 1 .. Len(a.journal) : Statements(a.journal)[i] = a.journal[i].statement
           /\ \A v \in 1 .. Len(a.policies) : Statements(a.policies)[v] = a.policies[v].statement
<1>1. IsSequence(a.journal) /\ IsSequence(a.policies)
  BY Zenon DEF IsEvidence
<1>2. ASSUME NEW rows, IsSequence(rows)
      PROVE  /\ Len(rows) \in Nat
             /\ IsSequence(Statements(rows)) /\ Len(Statements(rows)) = Len(rows)
             /\ \A i \in 1 .. Len(rows) : Statements(rows)[i] = rows[i].statement
  <2>1. Len(rows) \in Nat
    BY <1>2 DEF IsSequence
  <2>2. /\ DOMAIN Statements(rows) = 1 .. Len(rows)
        /\ Statements(rows) = [i \in 1 .. Len(rows) |-> Statements(rows)[i]]
        /\ \A i \in 1 .. Len(rows) : Statements(rows)[i] = rows[i].statement
    BY Zenon DEF Statements
  <2> QED
    BY <2>1, <2>2, SequenceDefined, Zenon
<1> QED
  BY <1>1, <1>2, Zenon

\* The evidence of a sealed receipt is that of the retained archive.
LEMMA SealedEvidence ==
    ASSUME AInv, receipt # NoRow
    PROVE  /\ IsEvidence(receipt.evidence) /\ receipt.evidence # NoRow
           /\ root # NoRow /\ VerifiedSnapshot
<1>1. SealedMaterializationValid
  BY Zenon DEF AInv, ReceiptIsSealed
<1>2. root # NoRow /\ VerifiedSnapshot
  BY <1>1, Zenon DEF SealedMaterializationValid, ValidateLiveResult, VerifiedSnapshot
<1>3. archive = [evidence |-> receipt.evidence, importedAt |-> receipt.importedAt]
  BY <1>1, Zenon DEF SealedMaterializationValid
<1>4. archive # NoRow /\ archive.evidence = receipt.evidence
  BY <1>3 DEF NoRow
<1> QED
  BY <1>2, <1>4, BackupAssumption, Zenon DEF AInv, ArchiveIsABackup

\* Once a recovery activation gave the archived tip up, no key that came with
\* the backup is active or will be: that the tip was the only active one is what
\* the verification of the backup says.
LEMMA SourceKeysAreSpent ==
    ASSUME AInv, receipt # NoRow, receipt.method = "RecoveryActivation",
           NEW k \in KeysOf(receipt.snapshot)
    PROVE  /\ keys[k] \in {"retired", "compromised"}
           /\ k # receipt.proof.statement.previousKey =>
                 receipt.snapshot.keys[k] \in {"retired", "compromised"}
<1> DEFINE a == receipt.evidence
           st == receipt.proof.statement
<1>1. /\ SealedMaterializationValid /\ IsEvidence(a) /\ a # NoRow
      /\ receipt.snapshot.keys \in [Keys -> Statuses]
  BY SealedEvidence, Zenon DEF AInv, ReceiptIsSealed, IsReceipt
<1>2. /\ VerifyBackup(receipt.snapshot) /\ receipt.snapshot.archive = a
      /\ a.terminal = NoRow
      /\ RecoveryExtension(a.root.statement, ArchiveChain(a), Statements(a.policies), st)
  BY <1>1 DEF SealedMaterializationValid, ExactlyPinned, ValidateRecoveryProof
<1>3. st.previousKey = TipKey(a.root.statement, ArchiveChain(a), Len(ArchiveChain(a)))
  BY <1>2, Zenon DEF RecoveryExtension, RecoveryAwareTransitionAtHead, LinksAt
<1>4. ArchiveChain(a) = Statements(a.journal) /\ Len(ArchiveChain(a)) = Len(a.journal)
  BY <1>1, <1>2, EvidenceShape, Zenon DEF ArchiveChain
<1>6. ActiveKeysOf(receipt.snapshot) = {st.previousKey}
  <2>1. ArchiveTipMatchesKeys(receipt.snapshot)
    BY <1>1, <1>2, Zenon DEF VerifyBackup
  <2> QED
    BY <1>2, <1>3, <1>4, <2>1, Zenon DEF ArchiveTipMatchesKeys
<1>7. k \in Keys /\ receipt.snapshot.keys[k] \in {"active", "retired", "compromised"}
  BY <1>1, Zenon DEF KeysOf, Statuses
<1>8. k # st.previousKey => receipt.snapshot.keys[k] \in {"retired", "compromised"}
  BY <1>6, <1>7, Zenon DEF ActiveKeysOf
<1>9. SourceKeyPreserved(k)
  BY <1>1, Zenon DEF SealedMaterializationValid, ValidateSourceKeys
<1> HIDE DEF a
<1>10. k = st.previousKey => keys[k] \in {"retired", "compromised"}
  BY <1>9 DEF SourceKeyPreserved, ReplacedStatus
<1>11. k # st.previousKey => keys[k] \in {"retired", "compromised"}
  BY <1>8, <1>9 DEF SourceKeyPreserved
<1> QED
  BY <1>8, <1>10, <1>11, Zenon

\* What later proofs use of a step of the store: rows stay where they are, the
\* rows behind them carry the new audit time, and that never runs backward.
LiveStep ==
    /\ Len(journal) \in Nat /\ Len(journal') \in Nat /\ Len(journal) <= Len(journal')
    /\ \A i \in 1 .. Len(journal) : journal'[i] = journal[i]
    /\ \A i \in 1 .. Len(journal') : i > Len(journal) => journal'[i].committedAt = audit'
    /\ Len(policies) \in Nat /\ Len(policies') \in Nat /\ Len(policies) <= Len(policies')
    /\ \A v \in 1 .. Len(policies) : policies'[v] = policies[v]
    /\ \A v \in 1 .. Len(policies') : v > Len(policies) => policies'[v].recordedAt = audit'
    /\ root # NoRow => root' = root
    /\ audit \in Nat /\ audit' \in Nat /\ audit <= audit'

\* Every step of the store is one.
LEMMA StepIsLive ==
    ASSUME IInv, [Next]_vars
    PROVE  LiveStep
<1>1. RowsStay /\ NewRowsAreDated /\ IInv'
  BY StepHistory, StepDatesRows, NextInvariant, Zenon
<1>2. /\ IsSequence(journal) /\ IsSequence(journal') /\ IsSequence(policies)
      /\ IsSequence(policies') /\ audit \in Times /\ audit' \in Times
  BY <1>1, Zenon DEF IInv, TypeOK, IsSequence
<1>3. /\ Len(journal) \in Nat /\ Len(journal') \in Nat /\ Len(policies) \in Nat
      /\ Len(policies') \in Nat /\ audit \in Nat /\ audit' \in Nat
  BY <1>2, StoreAssumption DEF IsSequence, Times
<1>4. \A i \in 1 .. Len(journal') : i > Len(journal) => journal'[i].committedAt = audit'
  <2>1. \A i \in 1 .. Len(journal) : ~ i > Len(journal)
    BY <1>3
  <2> QED
    BY <1>1, <2>1, Zenon DEF NewRowsAreDated
<1>5. \A v \in 1 .. Len(policies') : v > Len(policies) => policies'[v].recordedAt = audit'
  <2>1. \A v \in 1 .. Len(policies) : ~ v > Len(policies)
    BY <1>3
  <2> QED
    BY <1>1, <2>1, Zenon DEF NewRowsAreDated
<1> QED
  BY <1>1, <1>3, <1>4, <1>5, Zenon DEF LiveStep, RowsStay, IsPrefixOf

\* A later event is not dated before the materialization.
LEMMA BoundaryStays ==
    ASSUME AInv, receipt # NoRow, receipt' = receipt, LiveStep,
           lifecycle' = IF keys' = keys THEN lifecycle ELSE audit'
    PROVE  /\ ImportedEventBoundary'
           /\ receipt.materializedAt \in Nat /\ receipt.materializedAt <= audit
<1>1. ImportedEventBoundary /\ PrefixPreserved /\ root # NoRow
  BY SealedEvidence, Zenon DEF AInv, ReceiptIsSealed, SealedMaterializationValid,
                            ValidateLiveResult
<1>2. root.recordedAt = receipt.materializedAt /\ root.recordedAt <= audit
  BY <1>1, Zenon DEF PrefixPreserved, AInv, IInv, AuditCoversRows
<1>3. receipt.materializedAt \in Nat /\ receipt.materializedAt <= audit
  <2>1. root.recordedAt \in Times
    BY <1>1, Zenon DEF AInv, IInv, TypeOK
  <2> QED
    BY <1>2, <2>1, StoreAssumption DEF Times
<1>4. audit' >= receipt.materializedAt
  BY <1>3 DEF LiveStep
<1>5. CASE keys' = keys
  BY <1>1, <1>3, <1>5, Zenon DEF ImportedEventBoundary
<1>6. CASE keys' # keys
  BY <1>3, <1>4, <1>6, Zenon DEF ImportedEventBoundary
<1> QED
  BY <1>5, <1>6, Zenon

\* The statuses that came with the backup are still accounted for.
LEMMA SourceKeysStay ==
    ASSUME AInv, receipt # NoRow, receipt' = receipt, \A k \in Keys : KeyMoves(k),
           receipt.method # "TerminalHydration"
    PROVE  ValidateSourceKeys'
<1>1. ValidateSourceKeys /\ IsReceipt(receipt)
  BY Zenon DEF AInv, ReceiptIsSealed, SealedMaterializationValid
<1>2. ASSUME NEW k \in KeysOf(receipt.snapshot) PROVE SourceKeyPreserved(k)'
  <2>1. k \in Keys /\ KeyMoves(k) /\ SourceKeyPreserved(k)
    BY <1>1, Zenon DEF KeysOf, ValidateSourceKeys
  <2>2. CASE receipt.method = "DirectActivation"
    <3>1. keys[k] # "unknown"
      BY <2>1, <2>2, Zenon DEF SourceKeyPreserved
    <3>2. keys'[k] # "unknown"
      BY <2>1, <3>1 DEF KeyMoves
    <3> QED
      BY <2>2, <3>2, Zenon DEF SourceKeyPreserved
  <2>3. CASE receipt.method = "RecoveryActivation"
    <3> DEFINE st == receipt.proof.statement
    <3>1. /\ keys[k] \in {"retired", "compromised"}
          /\ k # st.previousKey => receipt.snapshot.keys[k] \in {"retired", "compromised"}
      BY <2>3, SourceKeysAreSpent, Zenon
    <3>2. keys'[k] = keys[k] \/ keys'[k] = "compromised"
      BY <2>1, <3>1 DEF KeyMoves
    <3>3. CASE k = st.previousKey
      BY <2>1, <2>3, <3>2, <3>3 DEF SourceKeyPreserved, ReplacedStatus
    <3>4. CASE k # st.previousKey
      BY <2>1, <2>3, <3>1, <3>2, <3>4 DEF SourceKeyPreserved
    <3> QED
      BY <3>3, <3>4, Zenon
  <2> QED
    BY <1>1, <2>2, <2>3, Zenon DEF IsReceipt
<1> QED
  BY <1>2, Zenon DEF ValidateSourceKeys

\* The copied rows stay in front, dated at the materialization, and nothing that
\* follows is dated before it.
LEMMA PrefixStays ==
    ASSUME AInv, IInv', receipt # NoRow, receipt' = receipt, LiveStep
    PROVE  PrefixPreserved' /\ PrefixObservationTimes'
<1>1. PrefixPreserved /\ PrefixObservationTimes /\ IsReceipt(receipt)
  BY Zenon DEF AInv, ReceiptIsSealed, SealedMaterializationValid, ValidateLiveResult
<1>2. root' = root /\ root # NoRow /\ IsEvidence(receipt.evidence) /\ VerifiedSnapshot'
  BY SealedEvidence, Zenon DEF LiveStep, IInv, StoreAlwaysVerifies
<1>3. /\ receipt.materializedAt \in Nat /\ receipt.materializedAt <= audit
      /\ audit' >= receipt.materializedAt
  <2>1. root.recordedAt = receipt.materializedAt /\ root.recordedAt <= audit
        /\ root.recordedAt \in Times
    BY <1>1, <1>2, Zenon DEF PrefixPreserved, AInv, IInv, AuditCoversRows, TypeOK
  <2> QED
    BY <2>1, StoreAssumption DEF Times, LiveStep
<1>4. /\ Len(receipt.evidence.journal) \in Nat /\ Len(receipt.evidence.policies) \in Nat
      /\ Len(Statements(receipt.evidence.policies)) = Len(receipt.evidence.policies)
      /\ CopiedCount \in Int /\ CopiedCount' = CopiedCount
  <2>1. CopiedCount \in Int /\ CopiedCount' = CopiedCount
    BY <1>1 DEF CopiedCount, IsReceipt
  <2> QED
    BY <1>2, <2>1, EvidenceShape, Zenon
<1>5. PrefixPreserved'
  <2>1. /\ Len(receipt.evidence.journal) <= Len(journal)
        /\ \A i \in 1 .. Len(receipt.evidence.journal) :
              i \in 1 .. Len(journal) /\ journal'[i] = journal[i]
    BY <1>1, <1>4 DEF PrefixPreserved, LiveStep
  <2>2. Len(journal') >= Len(receipt.evidence.journal)
    BY <1>4, <2>1 DEF LiveStep
  <2>3. IsPrefixOf(Statements(receipt.evidence.policies), PolicyStatements')
    <3>1. /\ Len(PolicyStatements) = Len(policies)
          /\ \A v \in 1 .. Len(policies) : PolicyStatements[v] = policies[v].statement
      BY PolicyStatementsAre, Zenon DEF AInv, IInv, TypeOK
    <3>2. Len(PolicyStatements') = Len(policies')
      <4>1. IsSequence(policies')
        BY Zenon DEF IInv, TypeOK, IsSequence
      <4>2. /\ DOMAIN PolicyStatements' = 1 .. Len(policies')
            /\ PolicyStatements' = [v \in 1 .. Len(policies') |-> PolicyStatements'[v]]
        BY Zenon DEF PolicyStatements
      <4> QED
        BY <4>2, SequenceDefined, Zenon DEF LiveStep
    <3>3. \A v \in 1 .. Len(policies') : PolicyStatements'[v] = policies'[v].statement
      BY Zenon DEF PolicyStatements
    <3>4. IsPrefixOf(Statements(receipt.evidence.policies), PolicyStatements)
      BY <1>1, Zenon DEF PrefixPreserved
    <3>5. /\ Len(receipt.evidence.policies) <= Len(policies)
          /\ Len(receipt.evidence.policies) <= Len(policies')
          /\ \A v \in 1 .. Len(receipt.evidence.policies) :
                v \in 1 .. Len(policies) /\ v \in 1 .. Len(policies')
      BY <1>4, <3>1, <3>4 DEF IsPrefixOf, LiveStep
    <3>6. ASSUME NEW v \in 1 .. Len(Statements(receipt.evidence.policies))
          PROVE  Statements(receipt.evidence.policies)[v] = PolicyStatements'[v]
      <4>1. v \in 1 .. Len(policies) /\ v \in 1 .. Len(policies') /\ policies'[v] = policies[v]
        BY <1>4, <3>5, Zenon DEF LiveStep
      <4> QED
        BY <3>1, <3>3, <3>4, <4>1, Zenon DEF IsPrefixOf
    <3> QED
      BY <1>4, <3>2, <3>5, <3>6, Zenon DEF IsPrefixOf
  <2> QED
    BY <1>1, <1>2, <2>1, <2>2, <2>3, Zenon DEF PrefixPreserved, SameProof
<1>6. PrefixObservationTimes'
  <2>1. Len(journal') >= CopiedCount
    BY <1>1, <1>4 DEF PrefixObservationTimes, LiveStep
  <2>2. ASSUME NEW i \in 1 .. Len(journal')
        PROVE  IF i <= CopiedCount THEN journal'[i].committedAt = receipt.materializedAt
                                   ELSE journal'[i].committedAt >= receipt.materializedAt
    <3>1. CASE i \in 1 .. Len(journal)
      BY <1>1, <3>1, Zenon DEF PrefixObservationTimes, LiveStep
    <3>2. CASE i \notin 1 .. Len(journal)
      <4>1. i > Len(journal) /\ ~ i <= CopiedCount
        BY <1>1, <1>4, <3>2 DEF PrefixObservationTimes, LiveStep
      <4> QED
        BY <1>3, <4>1, Zenon DEF LiveStep
    <3> QED
      BY <3>1, <3>2, Zenon
  <2>3. Len(policies') >= Len(receipt.evidence.policies)
    BY <1>1, <1>4 DEF PrefixObservationTimes, LiveStep
  <2>4. ASSUME NEW v \in 1 .. Len(policies')
        PROVE  IF v <= Len(receipt.evidence.policies)
               THEN policies'[v].recordedAt = receipt.materializedAt
               ELSE policies'[v].recordedAt >= receipt.materializedAt
    <3>1. CASE v \in 1 .. Len(policies)
      BY <1>1, <3>1, Zenon DEF PrefixObservationTimes, LiveStep
    <3>2. CASE v \notin 1 .. Len(policies)
      <4>1. v > Len(policies) /\ ~ v <= Len(receipt.evidence.policies)
        BY <1>1, <1>4, <3>2 DEF PrefixObservationTimes, LiveStep
      <4> QED
        BY <1>3, <4>1, Zenon DEF LiveStep
    <3> QED
      BY <3>1, <3>2, Zenon
  <2>5. policyHead' # NoRow => policyHead'.recordedAt >= receipt.materializedAt
    <3> SUFFICES ASSUME policyHead' # NoRow PROVE policyHead'.recordedAt >= receipt.materializedAt
      OBVIOUS
    <3>1. /\ policies' # << >>
          /\ policyHead'.recordedAt = policies'[Len(policies')].recordedAt
      BY <1>2, Zenon DEF VerifiedSnapshot, ValidateStoredRecoveryPolicies
    <3>2. Len(policies') \in 1 .. Len(policies')
      <4>1. IsSequence(policies')
        BY Zenon DEF IInv, TypeOK, IsSequence
      <4> QED
        BY <3>1, <4>1 DEF IsSequence
    <3>3. policies'[Len(policies')].recordedAt >= receipt.materializedAt
      BY <1>3, <2>4, <3>2
    <3> QED
      BY <3>1, <3>3, Zenon
  <2> QED
    BY <1>4, <2>1, <2>2, <2>3, <2>4, <2>5, Zenon DEF PrefixObservationTimes
<1> QED
  BY <1>5, <1>6, Zenon

\* Nothing that a step of the store does makes a later read of the sealed
\* receipt fail.
LEMMA SealStays ==
    ASSUME AInv, [Next]_vars, receipt # NoRow,
           lifecycle' = IF keys' = keys THEN lifecycle ELSE audit'
    PROVE  SealedMaterializationValid'
<1>1. /\ SealedMaterializationValid /\ IsReceipt(receipt)
      /\ UNCHANGED <<archive, receipt>> /\ IInv /\ IInv'
  BY ArchiveUntouched, NextInvariant, Zenon DEF AInv, ReceiptIsSealed
<1>2. LiveStep /\ \A k \in Keys : KeyMoves(k)
  BY <1>1, StepIsLive, StepMovesKeys, Zenon
<1>3. /\ StoredMaterialization' /\ ValidateRecoveryProof'
      /\ archive' = [evidence |-> receipt'.evidence, importedAt |-> receipt'.importedAt]
      /\ receipt'.snapshot.archive = receipt'.evidence
      /\ ExactlyPinned(receipt'.snapshot, receipt'.pins)
      /\ (receipt'.method = "TerminalHydration") <=> (receipt'.evidence.terminal # NoRow)
  <2>1. StoredMaterialization' <=> StoredMaterialization
    BY <1>1, Zenon DEF StoredMaterialization, MethodShape
  <2>2. ValidateRecoveryProof' <=> ValidateRecoveryProof
    BY <1>1, Zenon DEF ValidateRecoveryProof
  <2> QED
    BY <1>1, <2>1, <2>2, Zenon DEF SealedMaterializationValid
<1>4. ImportedEventBoundary' /\ PrefixPreserved' /\ PrefixObservationTimes'
  BY <1>1, <1>2, BoundaryStays, PrefixStays, Zenon
<1>5. VerifiedSnapshot' /\ VerifiedSnapshot
  BY <1>1, <1>2, SealedEvidence, Zenon DEF LiveStep, IInv, StoreAlwaysVerifies
<1>6. CASE receipt.method = "TerminalHydration"
  <2>1. terminal # NoRow
    BY <1>1, <1>6, Zenon DEF SealedMaterializationValid, ValidateLiveResult
  <2>2. UNCHANGED storeVars
    BY <1>1, <2>1, WritersCheck, Zenon
  <2>3. UNCHANGED <<keys, refs, terminal, receipt>>
    BY <2>2, Zenon DEF storeVars
  <2>4. ValidateSourceKeys'
    <3>1. \A k \in Keys : SourceKeyPreserved(k)' <=> SourceKeyPreserved(k)
      BY <2>3, Zenon DEF SourceKeyPreserved
    <3>2. \A k \in KeysOf(receipt.snapshot) : k \in Keys
      BY Zenon DEF KeysOf
    <3> QED
      BY <1>1, <2>3, <3>1, <3>2, Zenon DEF SealedMaterializationValid, ValidateSourceKeys, KnownKeys
  <2>5. ValidateLiveResult'
    BY <1>1, <1>4, <1>5, <1>6, <2>3, Zenon DEF SealedMaterializationValid, ValidateLiveResult,
                                            ActiveKeys
  <2> QED
    BY <1>3, <1>4, <2>4, <2>5, Zenon DEF SealedMaterializationValid
<1>7. CASE receipt.method # "TerminalHydration"
  <2>1. ValidateSourceKeys'
    BY <1>1, <1>2, <1>7, SourceKeysStay, Zenon
  <2> DEFINE n == receipt.resultHead.sequence
  <2>2. /\ n \in Nat /\ n <= Len(journal)
        /\ head.sequence = Len(journal) /\ head'.sequence = Len(journal')
    <3>1. head.sequence = Len(journal) /\ head'.sequence = Len(journal')
      BY <1>5, Zenon DEF VerifiedSnapshot, ValidateLiveChainHead
    <3>2. head.sequence >= n
      BY <1>1, <1>7, Zenon DEF SealedMaterializationValid, ValidateLiveResult, IsReceipt
    <3> QED
      BY <1>1, <1>2, <3>1, <3>2 DEF IsReceipt, LiveStep
  <2>3. head'.sequence >= n
    BY <1>2, <2>2 DEF LiveStep
  <2>4. CASE receipt.method = "RecoveryActivation"
    <3>1. n \in 1 .. Len(journal) /\ journal'[n] = journal[n]
      <4>1. n # 0
        BY <1>1, <2>4, Zenon DEF IsReceipt
      <4> QED
        BY <1>2, <2>2, <4>1 DEF LiveStep
    <3>2. refs' \cap KeysOf(receipt.snapshot) = {}
      <4> SUFFICES ASSUME NEW k \in refs', k \in KeysOf(receipt.snapshot) PROVE FALSE
        BY Zenon
      <4>1. k \notin refs
        BY <1>1, <2>4, Zenon DEF SealedMaterializationValid, ValidateLiveResult
      <4>2. keys[k] \in {"retired", "compromised"}
        BY <2>4, SourceKeysAreSpent, Zenon
      <4>3. keys[k] \in {"active", "unknown"}
        BY <1>1, <4>1, StepRefs, Zenon
      <4> QED
        BY <4>2, <4>3
    <3>3. SameProof(journal[n], receipt.proof)
      BY <1>1, <2>4, Zenon DEF SealedMaterializationValid, ValidateLiveResult
    <3>4. ValidateLiveResult'
      BY <1>1, <1>4, <1>5, <2>3, <2>4, <3>1, <3>2, <3>3, Zenon DEF ValidateLiveResult, SameProof
    <3> QED
      BY <1>3, <1>4, <2>1, <3>4, Zenon DEF SealedMaterializationValid
  <2>5. CASE receipt.method = "DirectActivation"
    <3>1. TipKey(root.statement, TransitionStatements, n) = receipt.resultKey
      BY <1>1, <2>5, Zenon DEF SealedMaterializationValid, ValidateLiveResult
    <3>2. n # 0 => TransitionStatements'[n] = TransitionStatements[n]
      <4>1. ASSUME n # 0 PROVE n \in 1 .. Len(journal) /\ n \in 1 .. Len(journal')
        BY <1>2, <2>2, <4>1 DEF LiveStep
      <4> QED
        BY <1>2, <4>1, Zenon DEF TransitionStatements, LiveStep
    <3>3. root' = root
      BY <1>2, SealedEvidence, Zenon DEF LiveStep
    <3>4. TipKey(root.statement, TransitionStatements, n)' = receipt.resultKey
      BY <1>1, <3>1, <3>2, <3>3, Zenon DEF TipKey, IsTerminal
    <3>5. ValidateLiveResult'
      BY <1>1, <1>4, <1>5, <2>3, <2>5, <3>4, Zenon DEF ValidateLiveResult
    <3> QED
      BY <1>3, <1>4, <2>1, <3>5, Zenon DEF SealedMaterializationValid
  <2> QED
    BY <1>1, <1>7, <2>4, <2>5, Zenon DEF IsReceipt
<1> QED
  BY <1>6, <1>7, Zenon

\* A step of the store, with backups around, keeps the whole invariant.
LEMMA StoreStepInvariant ==
    ASSUME AInv, [Next]_vars, UNCHANGED answered,
           lifecycle' = IF keys' = keys THEN lifecycle ELSE audit'
    PROVE  AInv'
<1>1. /\ IInv /\ IInv' /\ UNCHANGED <<archive, receipt>>
      /\ NewRowsAreDated /\ RowsStay /\ \A k \in Keys : KeyMoves(k)
  BY ArchiveUntouched, NextInvariant, StepDatesRows, StepHistory, StepMovesKeys, Zenon DEF AInv
<1>2. RowsAreWhole'
  BY <1>1, Zenon DEF AInv, RowsAreWhole, NewRowsAreDated
<1>3. lifecycle' \in Times
  BY <1>1, Zenon DEF AInv, IInv, TypeOK
<1>4. \A k \in Keys : k \in KnownKeys => k \in KnownKeys'
  BY <1>1 DEF KnownKeys, KeyMoves
<1>5. refs' \subseteq KnownKeys'
  <2> SUFFICES ASSUME NEW k \in refs' PROVE k \in KnownKeys'
    BY Zenon
  <2>1. CASE k \in refs
    BY <1>4, <2>1, Zenon DEF AInv, KnownKeys
  <2>2. CASE k \in Keys /\ keys'[k] = "active"
    BY <2>2, Zenon DEF KnownKeys
  <2> QED
    BY <1>1, <2>1, <2>2, StepRefs, Zenon
<1>6. ArchiveIsABackup'
  <2>1. KnownKeys # {} => KnownKeys' # {}
    BY <1>4, Zenon DEF KnownKeys
  <2> QED
    BY <1>1, <2>1, Zenon DEF AInv, ArchiveIsABackup
<1>7. QuarantineIsLocked'
  <2> SUFFICES ASSUME Quarantined' PROVE refs' = {} /\ lock' = None
    BY Zenon DEF QuarantineIsLocked
  <2>1. Quarantined /\ refs = {} /\ lock = None
    BY <1>1, Zenon DEF Quarantined, RowsStay, AInv, QuarantineIsLocked
  <2> QED
    BY <1>1, <2>1, QuarantinedStep, Zenon
<1>8. ReceiptIsSealed'
  <2>1. receipt # NoRow => IsReceipt(receipt) /\ SealedMaterializationValid'
    BY SealStays, Zenon DEF AInv, ReceiptIsSealed
  <2> QED
    BY <1>1, <2>1, Zenon DEF ReceiptIsSealed, IsReceipt
<1>9. AnswersAreTheReceipt'
  BY <1>1, Zenon DEF AInv, AnswersAreTheReceipt
<1>10. RequestsAreCarried'
  BY <1>1, StepSessions, Zenon DEF AInv, RequestsAreCarried, RecoveryRequests
<1> QED
  BY <1>1, <1>2, <1>3, <1>5, <1>6, <1>7, <1>8, <1>9, <1>10, Zenon DEF AInv

-----------------------------------------------------------------------------
(* Importing, and the steps that only concern a session *)

\* Importing happens before anything else did, so that there is no live row.
LEMMA ImportInvariant ==
    ASSUME AInv, NEW b \in Backups, NEW now \in Times, ImportBackup(b, now)
    PROVE  AInv'
<1>1. /\ lock = None /\ VerifyBackup(b) /\ KnownKeys = {}
      /\ keys' = b.keys /\ lifecycle' = b.lifecycle /\ audit' = b.lifecycle
      /\ archive' = IF b.archive = NoRow THEN NoRow
                    ELSE [evidence |-> b.archive, importedAt |-> now]
      /\ UNCHANGED <<refs, root, journal, head, policies, policyHead, terminal,
                     receipt, proofs, lock, sess, told, answered>>
  BY Zenon DEF ImportBackup, CanWrite
<1>2. /\ b.keys \in [Keys -> Statuses] /\ b.lifecycle \in Times
      /\ b.archive # NoRow => IsEvidence(b.archive)
  BY BackupAssumption, Zenon
<1>3. refs = {} /\ root = NoRow
  <2>1. root # NoRow => root.statement.key \in KnownKeys
    BY Zenon DEF AInv, IInv, StoreAlwaysVerifies, VerifiedSnapshot, ValidateLiveChainKeys, OnlineKeys
  <2> QED
    BY <1>1, <2>1, Zenon DEF AInv
<1>4. /\ journal = << >> /\ policies = << >> /\ receipt = NoRow
      /\ head = NoRow /\ policyHead = NoRow /\ terminal = NoRow
  BY <1>3, Zenon DEF AInv, IInv, UnrootedIsEmpty
<1>5. TypeOK'
  <2>1. \A s \in Sessions : IsSession(sess[s])'
    <3>1. \A s \in Sessions : IsSession(sess[s])
      BY Zenon DEF AInv, IInv, TypeOK
    <3> QED
      BY <1>1, <3>1, Zenon DEF IsSession
  <2>2. TypeOK
    BY Zenon DEF AInv, IInv
  <2> QED
    BY <1>1, <1>2, <1>3, <2>1, <2>2, Zenon DEF TypeOK, IsStatement, IsTerminal, IsSequence
<1>6. IInv'
  <2>1. \A i \in 1 .. Len(<< >>) : FALSE
    BY EmptyLength
  <2>2. StoreAlwaysVerifies' /\ UnrootedIsEmpty' /\ AuditCoversRows' /\ VersionsCount'
    BY <1>1, <1>3, <1>4, <2>1, Zenon DEF StoreAlwaysVerifies, UnrootedIsEmpty, AuditCoversRows,
                                      VersionsCount
  <2> QED
    BY <1>5, <2>2, Zenon DEF IInv
<1>7. ArchiveIsABackup'
  <2> SUFFICES ASSUME b.archive # NoRow
               PROVE  KnownKeys' # {} /\ archive'.evidence = b.archive
    BY <1>1, Zenon DEF ArchiveIsABackup
  <2>1. b.archive.root.statement.key \in KeysOf(b)
    BY <1>1, Zenon DEF VerifyBackup, OnlineKeys
  <2>2. archive'.evidence = b.archive
    BY <1>1
  <2> QED
    BY <1>1, <2>1, <2>2, Zenon DEF KeysOf, KnownKeys
<1>8. RowsAreWhole' /\ AnswersAreTheReceipt'
  BY <1>1, Zenon DEF AInv, RowsAreWhole, AnswersAreTheReceipt
<1>9. RequestsAreCarried'
  BY <1>1, Zenon DEF AInv, RequestsAreCarried, RecoveryRequests
<1> QED
  BY <1>1, <1>2, <1>3, <1>4, <1>6, <1>7, <1>8, <1>9, Zenon
  DEF AInv, QuarantineIsLocked, ReceiptIsSealed

\* A step that leaves the database alone.
LEMMA SessionInvariant ==
    ASSUME AInv, UNCHANGED <<storeVars, proofs, lock, told, lifecycle>>,
           NEW s \in Sessions, NEW record, sess' = [sess EXCEPT ![s] = record],
           IsSession(record),
           record.phase = "RecoveryActivation" => record.request \in RecoveryRequests,
           AnswersAreTheReceipt'
    PROVE  AInv'
<1>1. /\ UNCHANGED <<keys, refs, root, journal, head, policies, policyHead, terminal,
                     archive, receipt, audit>>
  BY Zenon DEF storeVars
<1>2. TypeOK /\ DOMAIN sess = Sessions /\ \A r \in Sessions : IsSession(sess[r])
  BY Zenon DEF AInv, IInv, TypeOK
<1>3. TypeOK'
  <2>1. \A r \in Sessions : IsSession(sess'[r])
    BY <1>2, Zenon
  <2>2. \A r \in Sessions : IsSession(sess[r])'
    BY <2>1, Zenon DEF IsSession
  <2> QED
    BY <1>1, <1>2, <2>2, ZenonT(60) DEF TypeOK, IsStatement, IsTerminal, IsSequence
<1>4. IInv'
  BY <1>3, StoreUnchanged, Zenon DEF AInv, IInv
<1>5. RequestsAreCarried'
  BY <1>2, Zenon DEF AInv, RequestsAreCarried, RecoveryRequests
<1>6. /\ RowsAreWhole' /\ lifecycle' \in Times /\ refs' \subseteq KnownKeys'
      /\ ArchiveIsABackup' /\ QuarantineIsLocked'
  BY <1>1, Zenon DEF AInv, RowsAreWhole, ArchiveIsABackup, QuarantineIsLocked, KnownKeys,
                  Quarantined
<1>7. ReceiptIsSealed'
  <2>1. lifecycle' = lifecycle
    BY Zenon
  <2>2. \A k \in Keys : SourceKeyPreserved(k)' <=> SourceKeyPreserved(k)
    BY <1>1, Zenon DEF SourceKeyPreserved
  <2>3. ValidateSourceKeys' <=> ValidateSourceKeys
    BY <1>1, <2>2, Zenon DEF ValidateSourceKeys, KnownKeys, KeysOf
  <2>4. /\ StoredMaterialization' <=> StoredMaterialization
        /\ ValidateRecoveryProof' <=> ValidateRecoveryProof
        /\ ImportedEventBoundary' <=> ImportedEventBoundary
    BY <1>1, <2>1, Zenon DEF StoredMaterialization, MethodShape, ValidateRecoveryProof,
                          ImportedEventBoundary
  <2>5. root # NoRow => VerifiedSnapshot'
    BY <1>1, <1>4, Zenon DEF IInv, StoreAlwaysVerifies
  <2>6. /\ PrefixPreserved' <=> PrefixPreserved
        /\ PrefixObservationTimes' <=> PrefixObservationTimes
    BY <1>1, Zenon DEF PrefixPreserved, PrefixObservationTimes, PolicyStatements, CopiedCount
  <2>7. ValidateLiveResult /\ root # NoRow => ValidateLiveResult'
    BY <1>1, <2>5, <2>6, Zenon DEF ValidateLiveResult, ActiveKeys, TransitionStatements
  <2>8. SealedMaterializationValid /\ root # NoRow => SealedMaterializationValid'
    BY <1>1, <2>3, <2>4, <2>7, Zenon DEF SealedMaterializationValid
  <2>9. receipt # NoRow => SealedMaterializationValid /\ root # NoRow /\ IsReceipt(receipt)
    BY SealedEvidence, Zenon DEF AInv, ReceiptIsSealed
  <2> QED
    BY <1>1, <2>8, <2>9, Zenon DEF ReceiptIsSealed, IsReceipt
<1> QED
  BY <1>4, <1>5, <1>6, <1>7, Zenon DEF AInv

\* The checks before a materialization.
LEMMA PreflightInvariant ==
    ASSUME AInv, NEW s \in Sessions, NEW t \in Times, NEW request,
           NEW method \in {"DirectActivation", "RecoveryActivation", "TerminalHydration"},
           method = "RecoveryActivation" => request \in RecoveryRequests,
           Preflight(s, method, request, t)
    PROVE  AInv'
<1> DEFINE record == [phase |-> method, request |-> request, at |-> t]
<1>1. /\ sess' = [sess EXCEPT ![s] = record]
      /\ UNCHANGED <<storeVars, proofs, lock, told, lifecycle, answered>>
  BY Zenon DEF Preflight
<1>2. record.phase = method /\ record.request = request /\ record.at = t
  OBVIOUS
<1> HIDE DEF record
<1>3. IsSession(record)
  BY <1>2, Zenon DEF IsSession
<1>4. AnswersAreTheReceipt'
  BY <1>1, Zenon DEF AInv, AnswersAreTheReceipt, storeVars
<1> QED
  BY <1>1, <1>2, <1>3, <1>4, SessionInvariant, Zenon

\* A caller who asks again is given the receipt as it is sealed.
LEMMA AnswerInvariant ==
    ASSUME AInv, NEW s \in Sessions, NEW method, NEW request,
           AnswerFromReceipt(s, method, request)
    PROVE  AInv'
<1>1. /\ receipt # NoRow /\ receipt.pins = request.pins /\ receipt.proof = request.proof
      /\ sess' = [sess EXCEPT ![s] = Idle]
      /\ UNCHANGED <<storeVars, proofs, lock, told, lifecycle>>
      /\ answered' = answered \cup {[receipt EXCEPT !.pins = request.pins,
                                                    !.proof = request.proof]}
  BY Zenon DEF AnswerFromReceipt, RequestMatchesReceipt
<1>2. receipt = [f \in ReceiptFields |-> receipt[f]]
  BY <1>1, Zenon DEF AInv, ReceiptIsSealed, IsReceipt
<1>3. [receipt EXCEPT !.pins = request.pins, !.proof = request.proof] = receipt
  BY <1>1, <1>2
<1>4. AnswersAreTheReceipt'
  BY <1>1, <1>3, Zenon DEF AInv, AnswersAreTheReceipt, storeVars
<1>5. IsSession(Idle) /\ Idle.phase # "RecoveryActivation"
  BY DEF IsSession, Idle
<1> QED
  BY <1>1, <1>4, <1>5, SessionInvariant, Zenon

-----------------------------------------------------------------------------
(* Materializing *)

\* The tip of an archive is one of the keys.
LEMMA EvidenceTip ==
    ASSUME NEW a, IsEvidence(a)
    PROVE  /\ TipKey(a.root.statement, Statements(a.journal), Len(a.journal)) \in Keys
           /\ LastIssuedAt(a.root.statement, Statements(a.journal), Len(a.journal)) \in Times
           /\ Len(ArchiveChain(a)) \in Nat
           /\ a.terminal = NoRow => Len(ArchiveChain(a)) = Len(a.journal)
<1> DEFINE n == Len(a.journal)
<1>1. /\ n \in Nat /\ IsSequence(Statements(a.journal)) /\ Len(Statements(a.journal)) = n
      /\ \A i \in 1 .. n : Statements(a.journal)[i] = a.journal[i].statement
  BY EvidenceShape, Zenon
<1>2. a.root.statement.key \in Keys /\ a.root.statement.issuedAt \in Times
  BY DEF IsEvidence
<1>3. ASSUME n # 0
      PROVE  /\ IsStatement(Statements(a.journal)[n])
  <2>1. n \in 1 .. n
    BY <1>1, <1>3
  <2> QED
    BY <1>1, <2>1, Zenon DEF IsEvidence, IsTransitionRow
<1>4. TipKey(a.root.statement, Statements(a.journal), n) \in Keys
  BY <1>2, <1>3, Zenon DEF TipKey, IsStatement
<1>5. LastIssuedAt(a.root.statement, Statements(a.journal), n) \in Times
  BY <1>2, <1>3, Zenon DEF LastIssuedAt, IsStatement
<1>6. Len(Append(Statements(a.journal), a.terminal.statement)) \in Nat
  BY <1>1, SequenceAppend
<1> QED
  BY <1>1, <1>4, <1>5, <1>6, Zenon DEF ArchiveChain

TransitionCopy(row, at) == [row EXCEPT !.committedAt = at]
PolicyCopy(row, at) == [row EXCEPT !.recordedAt = at]

\* A copied transition is whole and has the same proof.
LEMMA TransitionCopied ==
    ASSUME NEW at \in Times, NEW row, IsTransitionRow(row)
    PROVE  /\ IsTransitionRow(TransitionCopy(row, at))
           /\ TransitionCopy(row, at).committedAt = at
           /\ TransitionCopy(row, at).statement = row.statement
           /\ TransitionCopy(row, at).wrapper = row.wrapper
<1>1. /\ DOMAIN TransitionCopy(row, at) = TransitionFields
      /\ TransitionCopy(row, at).committedAt = at
      /\ TransitionCopy(row, at).statement = row.statement
      /\ TransitionCopy(row, at).wrapper = row.wrapper
  BY DEF IsTransitionRow, TransitionFields, TransitionCopy
<1> QED
  BY <1>1, Zenon DEF IsTransitionRow

\* So is a copied policy, and the copied root.
LEMMA PolicyCopied ==
    ASSUME NEW at, NEW row, DOMAIN row = PolicyFields
    PROVE  /\ DOMAIN PolicyCopy(row, at) = PolicyFields
           /\ PolicyCopy(row, at).recordedAt = at
           /\ PolicyCopy(row, at).statement = row.statement
BY DEF PolicyFields, PolicyCopy

\* The rows that a materialization copies from an archive.
LEMMA CopiedRows ==
    ASSUME NEW a, IsEvidence(a), NEW at \in Times
    PROVE  /\ IsSequence(CopiedTransitions(a.journal, at))
           /\ Len(CopiedTransitions(a.journal, at)) = Len(a.journal)
           /\ \A i \in 1 .. Len(a.journal) :
                 CopiedTransitions(a.journal, at)[i] = TransitionCopy(a.journal[i], at)
           /\ \A i \in 1 .. Len(a.journal) :
                 /\ IsTransitionRow(CopiedTransitions(a.journal, at)[i])
                 /\ CopiedTransitions(a.journal, at)[i].committedAt = at
           /\ IsSequence(CopiedPolicies(a.policies, at))
           /\ Len(CopiedPolicies(a.policies, at)) = Len(a.policies)
           /\ \A v \in 1 .. Len(a.policies) :
                 /\ DOMAIN CopiedPolicies(a.policies, at)[v] = PolicyFields
                 /\ CopiedPolicies(a.policies, at)[v].recordedAt = at
           /\ DOMAIN PolicyCopy(a.root, at) = PolicyFields
           /\ PolicyCopy(a.root, at).recordedAt = at
           /\ PolicyCopy(a.root, at).statement = a.root.statement
<1>1. Len(a.journal) \in Nat /\ Len(a.policies) \in Nat
  BY EvidenceShape, Zenon
<1>2. \A i \in 1 .. Len(a.journal) :
         CopiedTransitions(a.journal, at)[i] = TransitionCopy(a.journal[i], at)
  BY Zenon DEF CopiedTransitions, TransitionCopy
<1>3. \A v \in 1 .. Len(a.policies) :
         CopiedPolicies(a.policies, at)[v] = PolicyCopy(a.policies[v], at)
  BY Zenon DEF CopiedPolicies, PolicyCopy
<1>4. /\ \A i \in 1 .. Len(a.journal) : IsTransitionRow(a.journal[i])
      /\ \A v \in 1 .. Len(a.policies) : DOMAIN a.policies[v] = PolicyFields
  BY Zenon DEF IsEvidence
<1>5. DOMAIN a.root = PolicyFields
  BY DEF IsEvidence, PolicyFields
<1>6. /\ DOMAIN CopiedTransitions(a.journal, at) = 1 .. Len(a.journal)
      /\ CopiedTransitions(a.journal, at) =
            [i \in 1 .. Len(a.journal) |-> CopiedTransitions(a.journal, at)[i]]
      /\ DOMAIN CopiedPolicies(a.policies, at) = 1 .. Len(a.policies)
      /\ CopiedPolicies(a.policies, at) =
            [v \in 1 .. Len(a.policies) |-> CopiedPolicies(a.policies, at)[v]]
  BY Zenon DEF CopiedTransitions, CopiedPolicies
<1>7. /\ IsSequence(CopiedTransitions(a.journal, at))
      /\ Len(CopiedTransitions(a.journal, at)) = Len(a.journal)
      /\ IsSequence(CopiedPolicies(a.policies, at))
      /\ Len(CopiedPolicies(a.policies, at)) = Len(a.policies)
  BY <1>1, <1>6, SequenceDefined, Zenon
<1>8. ASSUME NEW i \in 1 .. Len(a.journal)
      PROVE  /\ IsTransitionRow(CopiedTransitions(a.journal, at)[i])
             /\ CopiedTransitions(a.journal, at)[i].committedAt = at
  <2>1. /\ IsTransitionRow(TransitionCopy(a.journal[i], at))
        /\ TransitionCopy(a.journal[i], at).committedAt = at
    BY <1>4, TransitionCopied, Zenon
  <2> QED
    BY <1>2, <2>1, Zenon
<1>9. ASSUME NEW v \in 1 .. Len(a.policies)
      PROVE  /\ DOMAIN CopiedPolicies(a.policies, at)[v] = PolicyFields
             /\ CopiedPolicies(a.policies, at)[v].recordedAt = at
  <2>1. /\ DOMAIN PolicyCopy(a.policies[v], at) = PolicyFields
        /\ PolicyCopy(a.policies[v], at).recordedAt = at
    BY <1>4, PolicyCopied, Zenon
  <2> QED
    BY <1>3, <2>1, Zenon
<1>10. /\ DOMAIN PolicyCopy(a.root, at) = PolicyFields
       /\ PolicyCopy(a.root, at).recordedAt = at
       /\ PolicyCopy(a.root, at).statement = a.root.statement
  BY <1>5, PolicyCopied, Zenon
<1> QED
  BY <1>2, <1>7, <1>8, <1>9, <1>10, Zenon

\* What the three materializations have in common.
LEMMA MaterializedInvariant ==
    ASSUME AInv, NEW s \in Sessions, NEW method, NEW at \in Times, Materialize(s, method, at),
           Quarantined, MaterializeArchivePrefix(archive.evidence, at),
           IsSequence(journal'),
           \A i \in 1 .. Len(journal') : /\ IsTransitionRow(journal'[i])
                                         /\ journal'[i].committedAt = at,
           head'.revision \in Nat, head'.sequence \in Nat, head'.key \in Keys,
           head'.issuedAt \in Times,
           terminal' # NoRow => IsTransitionRow(terminal'),
           keys' \in [Keys -> Statuses], \A k \in Keys : keys[k] # "unknown" => keys'[k] # "unknown",
           refs' \subseteq KnownKeys', lifecycle' \in Times,
           receipt' # NoRow, IsReceipt(receipt')
    PROVE  AInv'
<1> DEFINE a == archive.evidence
<1>1. /\ receipt = NoRow /\ audit' = at /\ answered' = answered \cup {receipt'}
      /\ sess' = [sess EXCEPT ![s] = Idle] /\ UNCHANGED <<archive, proofs, lock, told>>
      /\ SealedMaterializationValid'
  BY Zenon DEF Materialize
<1>2. /\ root' = PolicyCopy(a.root, at)
      /\ policies' = CopiedPolicies(a.policies, at)
  BY Zenon DEF MaterializeArchivePrefix, PolicyCopy
<1>3. IsEvidence(a)
  BY BackupAssumption, Zenon DEF Quarantined, AInv, ArchiveIsABackup
<1>4. /\ root'.recordedAt = at /\ root'.statement = a.root.statement
      /\ DOMAIN root' = PolicyFields
      /\ IsSequence(policies')
      /\ \A v \in 1 .. Len(policies') : /\ DOMAIN policies'[v] = PolicyFields
                                        /\ policies'[v].recordedAt = at
  <2>1. /\ root'.recordedAt = at /\ root'.statement = a.root.statement
        /\ DOMAIN root' = PolicyFields
    BY <1>2, <1>3, CopiedRows, Zenon
  <2>2. /\ IsSequence(policies') /\ Len(policies') = Len(a.policies)
        /\ \A v \in 1 .. Len(a.policies) : /\ DOMAIN policies'[v] = PolicyFields
                                           /\ policies'[v].recordedAt = at
    <3> DEFINE copies == CopiedPolicies(a.policies, at)
    <3>1. /\ IsSequence(copies) /\ Len(copies) = Len(a.policies)
          /\ \A v \in 1 .. Len(a.policies) : /\ DOMAIN copies[v] = PolicyFields
                                             /\ copies[v].recordedAt = at
      BY <1>3, CopiedRows, ZenonT(60)
    <3> HIDE DEF copies
    <3> QED
      BY <1>2, <3>1, Zenon DEF copies
  <2> QED
    BY <2>1, <2>2, Zenon
<1>5. a.root.statement.key \in Keys /\ a.root.statement.issuedAt \in Times
  BY <1>3 DEF IsEvidence
<1>6. VerifiedSnapshot' /\ root' # NoRow
  BY <1>1, Zenon DEF SealedMaterializationValid, ValidateLiveResult, VerifiedSnapshot
<1>7. refs' \subseteq Keys
  BY Zenon DEF KnownKeys
<1>8. TypeOK'
  <2>1. TypeOK /\ DOMAIN sess = Sessions /\ \A r \in Sessions : IsSession(sess[r])
    BY Zenon DEF AInv, IInv, TypeOK
  <2>2. DOMAIN sess' = Sessions /\ \A r \in Sessions : IsSession(sess'[r])
    BY <1>1, <2>1, Zenon DEF IsSession
  <2>3. \A r \in Sessions : IsSession(sess[r])'
    BY <1>1, <2>2, Zenon DEF IsSession
  <2>4. /\ \A i \in 1 .. Len(journal') : IsStatement(journal'[i].statement)
        /\ terminal' # NoRow => IsStatement(terminal'.statement) /\ terminal'.committedAt \in Times
    BY Zenon DEF IsTransitionRow
  <2> QED
    BY <1>1, <1>4, <1>5, <1>7, <2>1, <2>2, <2>3, <2>4, Zenon
    DEF TypeOK, IsStatement, IsTerminal, IsSequence
<1>9. AuditCoversRows'
  <2>1. at <= at
    BY StoreAssumption DEF Times
  <2> QED
    BY <1>1, <1>4, <2>1, Zenon DEF AuditCoversRows
<1>10. VersionsCount'
  <2>1. VerifyChain(root'.statement, LiveTransitions', PolicyStatements')
    BY <1>6, Zenon DEF VerifiedSnapshot
  <2>2. PolicyStatements' = [v \in 1 .. Len(policies') |-> policies'[v].statement]
    BY Zenon DEF PolicyStatements
  <2>3. Len(policies') \in Nat
    BY <1>4 DEF IsSequence
  <2>4. Len(PolicyStatements') = Len(policies')
    <3>1. /\ DOMAIN PolicyStatements' = 1 .. Len(policies')
          /\ PolicyStatements' = [v \in 1 .. Len(policies') |-> PolicyStatements'[v]]
      BY <2>2, Zenon
    <3> QED
      BY <2>3, <3>1, SequenceDefined, Zenon
  <2>5. CASE PolicyStatements' = << >>
    <3>1. \A v \in 1 .. Len(policies') : FALSE
      BY <2>4, <2>5, EmptyLength
    <3> QED
      BY <3>1, Zenon DEF VersionsCount
  <2>6. CASE PolicyStatements' # << >>
    <3>1. VerifyRecoveryPolicySequence(root'.statement, PolicyStatements')
      BY <2>1, <2>6, Zenon DEF VerifyChain, VerifyRecoveryAwareChain
    <3>2. \A v \in 1 .. Len(policies') : PolicyStatements'[v].version = v
      BY <2>4, <3>1, VersionsAreCounted, Zenon
    <3> QED
      BY <2>2, <3>2, Zenon DEF VersionsCount
  <2> QED
    BY <2>5, <2>6, Zenon
<1>11. IInv'
  BY <1>6, <1>8, <1>9, <1>10, Zenon DEF IInv, StoreAlwaysVerifies, UnrootedIsEmpty
<1>12. RowsAreWhole'
  BY <1>4, Zenon DEF RowsAreWhole, IsTransitionRow
<1>13. ArchiveIsABackup' /\ QuarantineIsLocked'
  <2>1. KnownKeys' # {}
    BY Zenon DEF KnownKeys, AInv, ArchiveIsABackup, Quarantined
  <2> QED
    BY <1>1, <1>6, <2>1, Zenon DEF AInv, ArchiveIsABackup, QuarantineIsLocked, Quarantined
<1>14. ReceiptIsSealed' /\ AnswersAreTheReceipt'
  BY <1>1, Zenon DEF ReceiptIsSealed, AInv, AnswersAreTheReceipt, IsReceipt
<1>15. RequestsAreCarried'
  <2>1. Idle.phase # "RecoveryActivation" /\ DOMAIN sess = Sessions
    BY DEF Idle, AInv, IInv, TypeOK
  <2> QED
    BY <1>1, <2>1, Zenon DEF AInv, RequestsAreCarried, RecoveryRequests
<1> QED
  BY <1>11, <1>12, <1>13, <1>14, <1>15, Zenon DEF AInv

\* What every materialization checked of the archive it copies.
LEMMA SourceFacts ==
    ASSUME AInv, NEW pins, NEW t, MaterializationSource(pins, t)
    PROVE  /\ Quarantined /\ refs = {} /\ IsEvidence(archive.evidence)
           /\ keys \in [Keys -> Statuses]
           /\ pins.head.sequence = Len(ArchiveChain(archive.evidence))
           /\ pins.head.sequence \in Nat
<1>1. Quarantined /\ refs = {} /\ keys \in [Keys -> Statuses]
  BY Zenon DEF MaterializationSource, AInv, QuarantineIsLocked, IInv, TypeOK
<1>2. IsEvidence(archive.evidence)
  BY <1>1, BackupAssumption, Zenon DEF Quarantined, AInv, ArchiveIsABackup
<1>3. HeadRelation(archive.evidence, pins) = "Exact"
  <2>1. ArchivedBackup.archive = archive.evidence
    BY DEF ArchivedBackup
  <2> QED
    BY <2>1, Zenon DEF MaterializationSource, ExactlyPinned
<1>4. pins.head.sequence = Len(ArchiveChain(archive.evidence))
  BY <1>3 DEF HeadRelation
<1>5. Len(ArchiveChain(archive.evidence)) \in Nat
  BY <1>2, EvidenceTip, Zenon
<1> QED
  BY <1>1, <1>2, <1>4, <1>5, Zenon

\* The receipt that a materialization writes has all its fields.
LEMMA ReceiptIsWhole ==
    ASSUME IsEvidence(archive.evidence), keys \in [Keys -> Statuses],
           NEW method \in {"DirectActivation", "RecoveryActivation", "TerminalHydration"},
           NEW request, NEW resultHead, NEW resultKey, NEW at, resultHead.sequence \in Nat,
           method = "RecoveryActivation" => resultHead.sequence # 0,
           NEW r, r = ReceiptOf(method, request, resultHead, resultKey, at)
    PROVE  r # NoRow /\ IsReceipt(r)
<1> DEFINE snapshot == ArchivedBackup
<1>1. snapshot.keys = keys
  BY DEF ArchivedBackup
<1>2. Len(archive.evidence.policies) \in Nat
  BY EvidenceShape, Zenon
<1>3. r = [method |-> method, evidence |-> archive.evidence,
           importedAt |-> archive.importedAt, snapshot |-> snapshot,
           pins |-> request.pins, proof |-> request.proof,
           sourceSequence |-> request.pins.head.sequence,
           resultHead |-> resultHead, resultKey |-> resultKey, materializedAt |-> at]
  BY Zenon DEF ReceiptOf
<1> HIDE DEF snapshot
<1>4. /\ r = [f \in ReceiptFields |-> r[f]] /\ r # NoRow
      /\ r.resultHead = resultHead /\ r.method = method /\ r.snapshot = snapshot
      /\ r.evidence = archive.evidence
  BY <1>3 DEF ReceiptFields, NoRow
<1> QED
  BY <1>1, <1>2, <1>4, Zenon DEF IsReceipt

\* A direct activation keeps the invariant.
LEMMA ActivateDirectInvariant ==
    ASSUME AInv, NEW s \in Sessions, NEW at \in Times, ActivateDirect(s, at)
    PROVE  AInv'
<1> DEFINE request == sess[s].request
           a == archive.evidence
           n == Len(a.journal)
<1>1. /\ VerifiedDirectActivationSource(request, at)
      /\ MaterializeDirectActivation(request, at)
      /\ Materialize(s, "DirectActivation", at)
  BY Zenon DEF ActivateDirect
<1>2. /\ MaterializationSource(request.pins, at) /\ a.terminal = NoRow
      /\ PinsOf(a).key = request.pins.key /\ keys[request.pins.key] = "active"
  BY <1>1, Zenon DEF VerifiedDirectActivationSource
<1>3. /\ Quarantined /\ refs = {} /\ IsEvidence(a) /\ keys \in [Keys -> Statuses]
      /\ request.pins.head.sequence \in Nat
  BY <1>2, SourceFacts, Zenon
<1>4. /\ MaterializeArchivePrefix(a, at) /\ journal' = CopiedTransitions(a.journal, at)
      /\ head' = PrefixHead(a) /\ terminal' = NoRow /\ refs' = refs \cup {request.pins.key}
      /\ receipt' = ReceiptOf("DirectActivation", request, request.pins.head, request.pins.key, at)
      /\ UNCHANGED <<keys, lifecycle>>
  BY <1>1, Zenon DEF MaterializeDirectActivation
<1>5. /\ IsSequence(journal')
      /\ \A i \in 1 .. Len(journal') : IsTransitionRow(journal'[i]) /\ journal'[i].committedAt = at
  <2> DEFINE copies == CopiedTransitions(a.journal, at)
  <2>1. /\ IsSequence(copies) /\ Len(copies) = n
        /\ \A i \in 1 .. n : IsTransitionRow(copies[i]) /\ copies[i].committedAt = at
    BY <1>3, CopiedRows, Zenon
  <2> HIDE DEF copies
  <2> QED
    BY <1>4, <2>1, Zenon DEF copies
<1>6. head'.revision \in Nat /\ head'.sequence \in Nat /\ head'.key \in Keys /\ head'.issuedAt \in Times
  <2>1. /\ head'.revision = n /\ head'.sequence = n
        /\ head'.key = TipKey(a.root.statement, Statements(a.journal), n)
        /\ head'.issuedAt = LastIssuedAt(a.root.statement, Statements(a.journal), n)
    BY <1>4 DEF PrefixHead
  <2> QED
    BY <1>3, <2>1, EvidenceShape, EvidenceTip, Zenon
<1>7. request.pins.key \in Keys
  <2>1. PinsOf(a).key = TipKey(a.root.statement, Statements(a.journal), n)
    BY <1>2 DEF PinsOf
  <2> QED
    BY <1>2, <1>3, <2>1, EvidenceTip, Zenon
<1>8. refs' \subseteq KnownKeys'
  <2>1. request.pins.key \in KnownKeys
    BY <1>2, <1>7 DEF KnownKeys
  <2> QED
    BY <1>3, <1>4, <2>1, Zenon DEF KnownKeys
<1>9. receipt' # NoRow /\ IsReceipt(receipt')
  <2>1. "DirectActivation" \in {"DirectActivation", "RecoveryActivation", "TerminalHydration"}
        /\ "DirectActivation" # "RecoveryActivation"
    OBVIOUS
  <2> QED
    BY <1>3, <1>4, <2>1, ReceiptIsWhole, Zenon
<1>10. lifecycle' \in Times
  BY <1>4, Zenon DEF AInv
<1> HIDE DEF request, a
<1> QED
  BY <1>1, <1>3, <1>4, <1>5, <1>6, <1>8, <1>9, <1>10, MaterializedInvariant, Zenon DEF a

\* So does a terminal hydration.
LEMMA HydrateTerminalInvariant ==
    ASSUME AInv, NEW s \in Sessions, NEW at \in Times, HydrateTerminal(s, at)
    PROVE  AInv'
<1> DEFINE request == sess[s].request
           a == archive.evidence
           n == Len(a.journal)
<1>1. /\ VerifiedTerminalHydrationSource(request, at)
      /\ MaterializeTerminalHydration(request, at)
      /\ Materialize(s, "TerminalHydration", at)
  BY Zenon DEF HydrateTerminal
<1>2. MaterializationSource(request.pins, at) /\ a.terminal # NoRow
  BY <1>1, Zenon DEF VerifiedTerminalHydrationSource
<1>3. /\ Quarantined /\ refs = {} /\ IsEvidence(a) /\ keys \in [Keys -> Statuses]
      /\ request.pins.head.sequence \in Nat
  BY <1>2, SourceFacts, Zenon
<1>4. /\ MaterializeArchivePrefix(a, at) /\ journal' = CopiedTransitions(a.journal, at)
      /\ head' = PrefixHead(a) /\ terminal' = TransitionCopy(a.terminal, at)
      /\ receipt' = ReceiptOf("TerminalHydration", request, request.pins.head, None, at)
      /\ lifecycle' = Max({lifecycle, at})
      /\ UNCHANGED <<keys, refs>>
  BY <1>1, Zenon DEF MaterializeTerminalHydration, TransitionCopy
<1>5. /\ IsSequence(journal')
      /\ \A i \in 1 .. Len(journal') : IsTransitionRow(journal'[i]) /\ journal'[i].committedAt = at
  <2> DEFINE copies == CopiedTransitions(a.journal, at)
  <2>1. /\ IsSequence(copies) /\ Len(copies) = n
        /\ \A i \in 1 .. n : IsTransitionRow(copies[i]) /\ copies[i].committedAt = at
    BY <1>3, CopiedRows, Zenon
  <2> HIDE DEF copies
  <2> QED
    BY <1>4, <2>1, Zenon DEF copies
<1>6. head'.revision \in Nat /\ head'.sequence \in Nat /\ head'.key \in Keys /\ head'.issuedAt \in Times
  <2>1. /\ head'.revision = n /\ head'.sequence = n
        /\ head'.key = TipKey(a.root.statement, Statements(a.journal), n)
        /\ head'.issuedAt = LastIssuedAt(a.root.statement, Statements(a.journal), n)
    BY <1>4 DEF PrefixHead
  <2> QED
    BY <1>3, <2>1, EvidenceShape, EvidenceTip, Zenon
<1>7. IsTransitionRow(terminal')
  <2>1. IsTransitionRow(a.terminal)
    BY <1>2, <1>3, Zenon DEF IsEvidence
  <2> QED
    BY <1>4, <2>1, TransitionCopied, Zenon
<1>8. refs' \subseteq KnownKeys'
  BY <1>3, <1>4, Zenon
<1>9. receipt' # NoRow /\ IsReceipt(receipt')
  <2>1. "TerminalHydration" \in {"DirectActivation", "RecoveryActivation", "TerminalHydration"}
        /\ "TerminalHydration" # "RecoveryActivation"
    OBVIOUS
  <2> QED
    BY <1>3, <1>4, <2>1, ReceiptIsWhole, Zenon
<1>10. lifecycle' \in Times
  <2>1. lifecycle \in Times /\ lifecycle \in Int /\ at \in Int
    BY StoreAssumption DEF AInv, Times
  <2>2. \E x \in {lifecycle, at} : \A y \in {lifecycle, at} : x >= y
    <3>1. CASE lifecycle >= at
      BY <2>1, <3>1
    <3>2. CASE at >= lifecycle
      BY <2>1, <3>2
    <3> QED
      BY <2>1, <3>1, <3>2
  <2>3. Max({lifecycle, at}) \in {lifecycle, at}
    BY <2>2, Zenon DEF Max
  <2> QED
    BY <1>4, <2>1, <2>3, Zenon
<1> HIDE DEF request, a
<1> QED
  BY <1>1, <1>3, <1>4, <1>5, <1>6, <1>7, <1>8, <1>9, <1>10, MaterializedInvariant, Zenon DEF a

\* A recovery request asks for a statement of a recovery.
LEMMA RequestedRecovery ==
    ASSUME NEW request \in RecoveryRequests
    PROVE  LET st == request.proof.statement IN
           /\ st.kind = "Recovery" /\ st.nextKey \in Keys /\ st.issuedAt \in Times
           /\ st.reason \in {"Recovery", "Compromise"}
<1>0. PICK b \in Backups :
         \E p \in RecoveryProofsFor(b.archive) : request = [pins |-> PinsOf(b.archive), proof |-> p]
  BY Zenon DEF RecoveryRequests
<1>1. PICK p \in RecoveryProofsFor(b.archive) :
         request = [pins |-> PinsOf(b.archive), proof |-> p]
  BY <1>0, Zenon
<1>2. request.proof = p
  BY <1>1
<1>3. \E k \in Keys, t \in IssueTimes, r \in {"Recovery", "Compromise"} :
         p.statement.kind = "Recovery" /\ p.statement.nextKey = k /\ p.statement.issuedAt = t
         /\ p.statement.reason = r
  <2> DEFINE a == b.archive
             first == Digest(a.root.statement)
             sequence == EffectiveHead(a).sequence + 1
             before == EffectiveHead(a).digest
             tip == PinsOf(a).key
             latest == LatestPolicyDigest(a)
             Statement(k, t, e, r) ==
                [kind |-> "Recovery", root |-> first, sequence |-> sequence,
                 previous |-> before, previousKey |-> tip, nextKey |-> k, issuedAt |-> t,
                 expiresAt |-> e, policy |-> latest, reason |-> r]
  <2>0. RecoveryProofsFor(a) =
           {[statement |-> Statement(k, t, e, r), wrapper |-> w] :
               k \in Keys, t \in IssueTimes, e \in CeremonyEnds,
               r \in {"Recovery", "Compromise"}, w \in Wrappers}
    BY DEF RecoveryProofsFor
  <2> HIDE DEF Statement
  <2>1. PICK k \in Keys, t \in IssueTimes, e \in CeremonyEnds, r \in {"Recovery", "Compromise"},
             w \in Wrappers :
           p = [statement |-> Statement(k, t, e, r), wrapper |-> w]
    BY <2>0
  <2> HIDE DEF first, sequence, before, tip, latest
  <2>2. /\ p.statement.kind = "Recovery" /\ p.statement.nextKey = k /\ p.statement.issuedAt = t
        /\ p.statement.reason = r
    BY <2>1 DEF Statement
  <2> QED
    BY <2>2, Zenon
<1>4. IssueTimes \subseteq Times
  BY StoreAssumption, Zenon
<1> QED
  BY <1>2, <1>3, <1>4, Zenon

\* A recovery activation keeps the invariant.
LEMMA ActivateByRecoveryInvariant ==
    ASSUME AInv, NEW s \in Sessions, NEW at \in Times, ActivateByRecovery(s, at)
    PROVE  AInv'
<1> DEFINE request == sess[s].request
           a == archive.evidence
           st == request.proof.statement
           row == [statement |-> st, wrapper |-> request.proof.wrapper, committedAt |-> at]
<1>1. /\ VerifiedRecoveryActivationSource(request, at)
      /\ MaterializeRecoveryActivation(request, at)
      /\ Materialize(s, "RecoveryActivation", at)
      /\ Carries(s, "RecoveryActivation")
  BY Zenon DEF ActivateByRecovery
<1>2. /\ MaterializationSource(request.pins, at) /\ a.terminal = NoRow
      /\ st.sequence = request.pins.head.sequence + 1 /\ st.previousKey = PinsOf(a).key
  BY <1>1, Zenon DEF VerifiedRecoveryActivationSource
<1>3. /\ Quarantined /\ refs = {} /\ IsEvidence(a) /\ keys \in [Keys -> Statuses]
      /\ request.pins.head.sequence \in Nat
  BY <1>2, SourceFacts, Zenon
<1>4. /\ MaterializeArchivePrefix(a, at)
      /\ keys' = [keys EXCEPT ![st.previousKey] = ReplacedStatus(st.reason),
                              ![st.nextKey] = "active"]
      /\ refs' = refs \cup {st.nextKey}
      /\ journal' = Append(CopiedTransitions(a.journal, at), row)
      /\ head' = [revision |-> st.sequence, sequence |-> st.sequence, key |-> st.nextKey,
                  last |-> Digest(st), issuedAt |-> st.issuedAt]
      /\ terminal' = NoRow
      /\ receipt' = ReceiptOf("RecoveryActivation", request,
                              Checkpoint(st.sequence, Digest(st)), st.nextKey, at)
      /\ lifecycle' = at
  BY <1>1, Zenon DEF MaterializeRecoveryActivation, SucceedArchivedTip
<1>5. /\ st.kind = "Recovery" /\ st.nextKey \in Keys /\ st.issuedAt \in Times
      /\ st.reason \in {"Recovery", "Compromise"}
  <2>1. request \in RecoveryRequests
    BY <1>1, Zenon DEF Carries, AInv, RequestsAreCarried
  <2> QED
    BY <2>1, RequestedRecovery, Zenon
<1>6. st.sequence \in Nat \ {0} /\ st.sequence \in Nat /\ st.sequence # 0
  BY <1>2, <1>3
<1>7. st.previousKey \in Keys
  <2>1. PinsOf(a).key = TipKey(a.root.statement, Statements(a.journal), Len(a.journal))
    BY <1>2 DEF PinsOf
  <2> QED
    BY <1>2, <1>3, <2>1, EvidenceTip, Zenon
<1>8. st # None
  <2>1. StoredCheckpoint(receipt'.resultHead)
    BY <1>1, Zenon DEF Materialize, SealedMaterializationValid, StoredMaterialization
  <2>2. receipt'.resultHead = Checkpoint(st.sequence, Digest(st))
    <3> HIDE DEF st
    <3> QED BY <1>4 DEF ReceiptOf
  <2>3. /\ Checkpoint(st.sequence, Digest(st)).sequence = st.sequence
        /\ Checkpoint(st.sequence, Digest(st)).digest = st
    <3> HIDE DEF st
    <3> QED BY DEF Checkpoint, Digest
  <2> QED
    BY <1>6, <2>1, <2>2, <2>3, Zenon DEF StoredCheckpoint
<1>9. IsStatement(st)
  BY <1>5, <1>6, <1>7, <1>8, Zenon DEF IsStatement, IsTerminal
<1> HIDE DEF request, a, st
<1>10. IsTransitionRow(row) /\ row.committedAt = at
  <2>1. DOMAIN row = TransitionFields /\ row.statement = st /\ row.committedAt = at
    BY DEF TransitionFields
  <2> HIDE DEF row
  <2> QED
    BY <1>9, <2>1, Zenon DEF IsTransitionRow
<1> HIDE DEF row
<1>11. /\ IsSequence(journal')
       /\ \A i \in 1 .. Len(journal') : IsTransitionRow(journal'[i]) /\ journal'[i].committedAt = at
  <2> DEFINE copies == CopiedTransitions(a.journal, at)
             n == Len(a.journal)
  <2>1. /\ IsSequence(copies) /\ Len(copies) = n
        /\ \A i \in 1 .. n : IsTransitionRow(copies[i]) /\ copies[i].committedAt = at
    BY <1>3, CopiedRows, Zenon
  <2>2. journal' = Append(copies, row)
    BY <1>4, Zenon
  <2> HIDE DEF copies
  <2>3. /\ IsSequence(journal') /\ n \in Nat /\ Len(journal') = n + 1
        /\ \A i \in 1 .. n : journal'[i] = copies[i]
        /\ journal'[n + 1] = row
    BY <2>1, <2>2, SequenceAppend
  <2>4. ASSUME NEW i \in 1 .. Len(journal') PROVE i \in 1 .. n \/ i = n + 1
    BY <2>3
  <2> QED
    BY <1>10, <2>1, <2>3, <2>4, Zenon
<1>12. /\ head'.revision \in Nat /\ head'.sequence \in Nat /\ head'.key \in Keys
       /\ head'.issuedAt \in Times
  <2>1. /\ head'.revision = st.sequence /\ head'.sequence = st.sequence
        /\ head'.key = st.nextKey /\ head'.issuedAt = st.issuedAt
    BY <1>4
  <2> QED
    BY <1>5, <1>6, <2>1, Zenon
<1>13. /\ keys' \in [Keys -> Statuses]
       /\ \A k \in Keys : keys[k] # "unknown" => keys'[k] # "unknown"
       /\ keys'[st.nextKey] = "active"
  <2>1. ReplacedStatus(st.reason) \in {"retired", "compromised"}
    BY Zenon DEF ReplacedStatus
  <2> QED
    BY <1>3, <1>4, <1>5, <1>7, <2>1 DEF Statuses
<1>14. refs' \subseteq KnownKeys'
  <2>1. st.nextKey \in KnownKeys'
    BY <1>5, <1>13, Zenon DEF KnownKeys
  <2> QED
    BY <1>3, <1>4, <2>1, Zenon
<1>15. receipt' # NoRow /\ IsReceipt(receipt')
  <2>1. Checkpoint(st.sequence, Digest(st)).sequence = st.sequence
    BY DEF Checkpoint
  <2>2. "RecoveryActivation" \in {"DirectActivation", "RecoveryActivation", "TerminalHydration"}
    OBVIOUS
  <2> QED
    BY <1>3, <1>4, <1>6, <2>1, <2>2, ReceiptIsWhole, Zenon DEF a
<1> QED
  BY <1>1, <1>3, <1>4, <1>11, <1>12, <1>13, <1>14, <1>15, MaterializedInvariant, Zenon DEF a

-----------------------------------------------------------------------------
(* Invariance *)

\* The store starts with none of all this.
LEMMA ArchiveInitInvariant == ArchiveInit => AInv
<1> SUFFICES ASSUME ArchiveInit PROVE AInv
  OBVIOUS
<1>1. /\ Init /\ lifecycle = 0 /\ answered = {} /\ refs = {} /\ root = NoRow /\ journal = << >>
      /\ policies = << >> /\ terminal = NoRow /\ archive = NoRow /\ receipt = NoRow
      /\ sess = [s \in Sessions |-> Idle]
  BY Zenon DEF ArchiveInit, Init
<1>2. IInv
  BY <1>1, InitInvariant, Zenon
<1>3. lifecycle \in Times
  BY <1>1, StoreAssumption DEF Times
<1>4. RowsAreWhole
  <2>1. \A i \in 1 .. Len(<< >>) : FALSE
    BY EmptyLength
  <2> QED
    BY <1>1, <2>1, Zenon DEF RowsAreWhole
<1>5. RequestsAreCarried
  <2>1. Idle.phase # "RecoveryActivation"
    BY DEF Idle
  <2> QED
    BY <1>1, <2>1, Zenon DEF RequestsAreCarried
<1> QED
  BY <1>1, <1>2, <1>3, <1>4, <1>5, Zenon DEF AInv, ArchiveIsABackup, QuarantineIsLocked,
       Quarantined, ReceiptIsSealed, AnswersAreTheReceipt

\* Every operation of a session on backups keeps the invariant.
LEMMA ArchiveStepInvariant ==
    ASSUME AInv, NEW s \in Sessions, ArchiveStep(s)
    PROVE  AInv'
<1>1. CASE \E request \in DirectRequests, t \in Times :
              \/ PreflightDirectActivation(s, request, t)
              \/ PreflightTerminalHydration(s, request, t)
  <2>1. PICK request \in DirectRequests, t \in Times,
             method \in {"DirectActivation", "TerminalHydration"} :
           Preflight(s, method, request, t)
    BY <1>1, Zenon DEF PreflightDirectActivation, PreflightTerminalHydration
  <2>2. method # "RecoveryActivation"
        /\ method \in {"DirectActivation", "RecoveryActivation", "TerminalHydration"}
    OBVIOUS
  <2> QED
    BY <2>1, <2>2, PreflightInvariant, Zenon
<1>2. CASE \E request \in RecoveryRequests, t \in Times : PreflightRecoveryActivation(s, request, t)
  <2>1. PICK request \in RecoveryRequests, t \in Times :
           Preflight(s, "RecoveryActivation", request, t)
    BY <1>2, Zenon DEF PreflightRecoveryActivation
  <2>2. "RecoveryActivation" \in {"DirectActivation", "RecoveryActivation", "TerminalHydration"}
    OBVIOUS
  <2> QED
    BY <2>1, <2>2, PreflightInvariant, Zenon
<1>3. CASE \E at \in Times : \/ ActivateDirect(s, at)
                             \/ ActivateByRecovery(s, at)
                             \/ HydrateTerminal(s, at)
  BY <1>3, ActivateDirectInvariant, ActivateByRecoveryInvariant, HydrateTerminalInvariant, Zenon
<1>4. CASE \E method, request : AnswerFromReceipt(s, method, request)
  BY <1>4, AnswerInvariant, Zenon
<1> QED
  BY <1>1, <1>2, <1>3, <1>4, Zenon DEF ArchiveStep, ReplayDirectActivation, ReplayTerminalHydration,
       ReplayRecoveryActivation

\* A step that changes nothing is a step of the store that changes nothing.
LEMMA ArchiveNextInvariant ==
    ASSUME AInv, [ArchiveNext]_archiveVars
    PROVE  AInv'
<1>1. CASE StoreStep
  <2>1. [Next]_vars /\ UNCHANGED answered
        /\ lifecycle' = IF keys' = keys THEN lifecycle ELSE audit'
    BY <1>1, Zenon DEF StoreStep
  <2> QED
    BY <2>1, StoreStepInvariant, Zenon
<1>2. CASE UNCHANGED archiveVars
  <2>1. [Next]_vars /\ UNCHANGED answered
        /\ lifecycle' = IF keys' = keys THEN lifecycle ELSE audit'
    BY <1>2, Zenon DEF archiveVars, vars
  <2> QED
    BY <2>1, StoreStepInvariant, Zenon
<1>3. CASE \E b \in Backups, now \in Times : ImportBackup(b, now)
  BY <1>3, ImportInvariant, Zenon
<1>4. CASE \E s \in Sessions : ArchiveStep(s)
  BY <1>4, ArchiveStepInvariant, Zenon
<1> QED
  BY <1>1, <1>2, <1>3, <1>4, Zenon DEF ArchiveNext

\* The strengthened invariant holds in every reachable state of the store with
\* backups.
THEOREM ArchiveInvariance == ArchiveSpec => []AInv
<1>1. ArchiveInit => AInv
  BY ArchiveInitInvariant, Zenon
<1>2. AInv /\ [ArchiveNext]_archiveVars => AInv'
  BY ArchiveNextInvariant, Zenon
<1> QED
  BY <1>1, <1>2, PTL DEF ArchiveSpec

\* While imported evidence is quarantined it grants nothing; afterwards every
\* read finds a receipt that validates against the archive, the keys and the live
\* rows of that moment; and every caller was told of exactly that receipt.
THEOREM QuarantineIsSafe == ArchiveSpec => []QuarantineGrantsNothing
<1>1. AInv => QuarantineGrantsNothing
  BY Zenon DEF AInv, QuarantineGrantsNothing, QuarantineIsLocked, ReceiptIsSealed,
            AnswersAreTheReceipt, Quarantined, IInv, UnrootedIsEmpty
<1> QED
  BY <1>1, ArchiveInvariance, PTL

\* Importing and materializing leave the live store as verifiable as its own
\* operations do.
THEOREM MaterializedStoreVerifies == ArchiveSpec => []StoreAlwaysVerifies
<1>1. AInv => StoreAlwaysVerifies
  BY Zenon DEF AInv, IInv
<1> QED
  BY <1>1, ArchiveInvariance, PTL

\* What a step may do to a quarantined persona.
QuarantineKept ==
    Quarantined => /\ archive' = archive
                   /\ \/ receipt' # NoRow
                      \/ /\ Quarantined'
                         /\ \A k \in Keys : keys'[k] \in {keys[k], "compromised"}

\* Every step of the store with backups is such a step.
LEMMA StepKeepsQuarantine ==
    ASSUME AInv, [ArchiveNext]_archiveVars
    PROVE  QuarantineKept
<1> SUFFICES ASSUME Quarantined
             PROVE  /\ archive' = archive
                    /\ \/ receipt' # NoRow
                       \/ /\ Quarantined'
                          /\ \A k \in Keys : keys'[k] \in {keys[k], "compromised"}
  BY Zenon DEF QuarantineKept
<1>1. AInv' /\ IInv /\ refs = {} /\ lock = None /\ KnownKeys # {}
  BY ArchiveNextInvariant, Zenon DEF AInv, QuarantineIsLocked, ArchiveIsABackup, Quarantined
<1>2. CASE [Next]_vars
  <2>1. UNCHANGED <<archive, root>> /\ \A k \in Keys : keys'[k] \in {keys[k], "compromised"}
    BY <1>1, <1>2, ArchiveUntouched, QuarantinedStep, Zenon
  <2> QED
    BY <2>1, Zenon DEF Quarantined
<1>3. CASE UNCHANGED storeVars
  BY <1>3, Zenon DEF storeVars, Quarantined
<1>4. CASE \E b \in Backups, now \in Times : ImportBackup(b, now)
  BY <1>1, <1>4, Zenon DEF ImportBackup
<1>5. CASE \E s, method, at : Materialize(s, method, at)
  <2>1. archive' = archive /\ receipt' \in answered'
    BY <1>5, Zenon DEF Materialize
  <2> QED
    BY <1>1, <2>1, Zenon DEF AInv, AnswersAreTheReceipt
<1>6. ASSUME NEW s \in Sessions, ArchiveStep(s)
      PROVE  UNCHANGED storeVars \/ \E r, method, at : Materialize(r, method, at)
  <2>1. CASE \E method, request, t : Preflight(s, method, request, t)
    BY <2>1, Zenon DEF Preflight
  <2>2. CASE \E method, request : AnswerFromReceipt(s, method, request)
    BY <2>2, Zenon DEF AnswerFromReceipt
  <2> QED
    BY <1>6, <2>1, <2>2, Zenon DEF ArchiveStep, PreflightDirectActivation,
         PreflightTerminalHydration, PreflightRecoveryActivation, ActivateDirect,
         ActivateByRecovery, HydrateTerminal, ReplayDirectActivation, ReplayTerminalHydration,
         ReplayRecoveryActivation
<1>7. StoreStep => [Next]_vars
  BY Zenon DEF StoreStep
<1>8. UNCHANGED archiveVars => [Next]_vars
  BY Zenon DEF archiveVars
<1> QED
  BY <1>2, <1>3, <1>4, <1>5, <1>6, <1>7, <1>8, Zenon DEF ArchiveNext

\* Quarantine ends by a sealed receipt and in no other way: until then the archive
\* stays what was imported and local operations can only take trust away.
THEOREM QuarantineEnds == ArchiveSpec => QuarantineEndsByReceipt
<1>1. AInv /\ [ArchiveNext]_archiveVars =>
        [Quarantined =>
            /\ archive' = archive
            /\ \/ receipt' # NoRow
               \/ /\ Quarantined'
                  /\ \A k \in Keys : keys'[k] \in {keys[k], "compromised"}]_archiveVars
  BY StepKeepsQuarantine, Zenon DEF QuarantineKept
<1> QED
  BY <1>1, ArchiveInvariance, PTL DEF ArchiveSpec, QuarantineEndsByReceipt
=============================================================================
