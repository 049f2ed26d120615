------------------------ MODULE PersonaArchiveProofs ------------------------
(***************************************************************************)
(* What a backup is good for: a pinned head pins the whole history before  *)
(* it, restoring revives neither a spent key nor a revoked persona, and a  *)
(* live persona can be exported at any time and restored from that export. *)
(***************************************************************************)
EXTENDS PersonaArchiveInvariant

-----------------------------------------------------------------------------
(* What a pinned head says about two archives *)

\* compare_persona_backup_continuity looks at one digest only, the one at the
\* pinned sequence.  That suffices: an archive that it reports as exactly the
\* pinned one, or as an extension of it, has the whole pinned chain as its
\* beginning and the pinned root, provided both verify.
THEOREM PinnedHeadPinsHistory ==
    ASSUME NEW a, IsEvidence(a), NEW b, IsEvidence(b),
           VerifyChain(a.root.statement, ArchiveChain(a), Statements(a.policies)),
           VerifyChain(b.root.statement, ArchiveChain(b), Statements(b.policies)),
           PinsOf(a).root = Digest(b.root.statement),
           HeadRelation(b, PinsOf(a)) \in {"Exact", "ExtensionBeyondPin"}
    PROVE  /\ a.root.statement = b.root.statement
           /\ IsPrefixOf(ArchiveChain(a), ArchiveChain(b))
           /\ HeadRelation(b, PinsOf(a)) = "Exact" =>
                 Len(ArchiveChain(b)) = Len(ArchiveChain(a))
<1> DEFINE ts == ArchiveChain(a)
           us == ArchiveChain(b)
           n == Len(ts)
           pins == PinsOf(a)
<1>1. Len(ts) \in Nat /\ Len(us) \in Nat
  BY EvidenceTip, Zenon
<1>2. /\ pins.root = a.root.statement
      /\ pins.head.sequence = n /\ pins.head.digest = LastDigest(ts, n)
  BY DEF PinsOf, EffectiveHead, Checkpoint, Digest
<1> HIDE DEF ts, us, pins
<1>3. ~ (Len(us) < n) /\ LastDigest(us, n) = LastDigest(ts, n)
  BY <1>2, Zenon DEF HeadRelation, ts, us, pins
<1>4. HeadRelation(b, pins) = "Exact" => Len(us) = n
  BY <1>2, <1>3, Zenon DEF HeadRelation, us
<1>5. a.root.statement = b.root.statement
  BY <1>2, Zenon DEF Digest, pins
<1>6. n <= Len(us)
  BY <1>1, <1>3
<1>7. ASSUME NEW i \in 1 .. n PROVE ts[i] = us[i]
  <2>1. n # 0 /\ n \in 1 .. Len(ts) /\ n \in 1 .. Len(us)
    BY <1>1, <1>6
  <2>2. ts[n] = us[n]
    BY <1>3, <2>1, Zenon DEF LastDigest, Digest
  <2>3. \A j \in 1 .. n : ts[j] = us[j]
    <3>1. n \in Nat
      BY <1>1
    <3>2. /\ VerifyChain(a.root.statement, ts, Statements(a.policies))
          /\ VerifyChain(b.root.statement, us, Statements(b.policies))
      BY Zenon DEF ts, us
    <3> HIDE DEF n
    <3>3. a.root.statement = b.root.statement /\ \A j \in 1 .. n : ts[j] = us[j]
      BY <1>1, <2>1, <2>2, <3>1, <3>2, SameEntrySameHistory, SMTT(30)
    <3> QED
      BY <3>3, Zenon
  <2> QED
    BY <2>3
<1> QED
  BY <1>4, <1>5, <1>6, <1>7, Zenon DEF IsPrefixOf, ts, us, pins

-----------------------------------------------------------------------------
(* What importing and materializing never do *)

\* Importing happens to a persona without keys, and a recovery activation moves
\* two keys: the archived tip, which is active, and a successor that is unknown.
LEMMA ArchiveMovesKeys ==
    ASSUME AInv, NEW s \in Sessions, ArchiveStep(s)
    PROVE  \A k \in Keys : KeyMoves(k)
<1>1. CASE keys' = keys
  BY <1>1, Zenon DEF KeyMoves
<1>2. CASE \E method, request, t : Preflight(s, method, request, t)
  BY <1>1, <1>2, Zenon DEF Preflight, storeVars
<1>3. CASE \E method, request : AnswerFromReceipt(s, method, request)
  BY <1>1, <1>3, Zenon DEF AnswerFromReceipt, storeVars
<1>4. CASE \E at \in Times : ActivateDirect(s, at) \/ HydrateTerminal(s, at)
  BY <1>1, <1>4, Zenon DEF ActivateDirect, HydrateTerminal, MaterializeDirectActivation,
       MaterializeTerminalHydration
<1>5. ASSUME NEW at \in Times, ActivateByRecovery(s, at)
      PROVE  \A k \in Keys : KeyMoves(k)
  <2> DEFINE st == sess[s].request.proof.statement
  <2>1. /\ keys[st.previousKey] = "active" /\ RequireUnknownKey(st.nextKey)
        /\ keys' = [keys EXCEPT ![st.previousKey] = ReplacedStatus(st.reason),
                                ![st.nextKey] = "active"]
    BY <1>5, Zenon DEF ActivateByRecovery, VerifiedRecoveryActivationSource,
         MaterializeRecoveryActivation, SucceedArchivedTip
  <2>2. keys \in [Keys -> Statuses]
    BY Zenon DEF AInv, IInv, TypeOK
  <2>3. keys[st.nextKey] = "unknown"
    BY <2>1, Zenon DEF RequireUnknownKey
  <2>4. ReplacedStatus(st.reason) \in {"retired", "compromised"}
    BY Zenon DEF ReplacedStatus
  <2> HIDE DEF st
  <2> QED
    BY <2>1, <2>2, <2>3, <2>4 DEF KeyMoves
<1> QED
  BY <1>2, <1>3, <1>4, <1>5, Zenon DEF ArchiveStep, PreflightDirectActivation,
       PreflightTerminalHydration, PreflightRecoveryActivation, ReplayDirectActivation,
       ReplayTerminalHydration, ReplayRecoveryActivation

\* A key that was retired or marked compromised, here or in the backup that was
\* imported, is never active again: no materialization revives one.
THEOREM RestoredKeysNeverReturn == ArchiveSpec => NoKeyReturns
<1>1. ASSUME AInv, [ArchiveNext]_archiveVars
      PROVE  \A k \in Keys :
                /\ keys[k] \in {"retired", "compromised"}
                      => keys'[k] \in {"retired", "compromised"}
                /\ keys[k] = "compromised" => keys'[k] = "compromised"
  <2>1. CASE [Next]_vars
    BY <1>1, <2>1, StepMovesKeys, Zenon DEF KeyMoves, AInv
  <2>2. CASE \E b \in Backups, now \in Times : ImportBackup(b, now)
    BY <2>2, Zenon DEF ImportBackup, KnownKeys
  <2>3. CASE \E s \in Sessions : ArchiveStep(s)
    BY <1>1, <2>3, ArchiveMovesKeys, Zenon DEF KeyMoves
  <2> QED
    BY <1>1, <2>1, <2>2, <2>3, Zenon DEF ArchiveNext, StoreStep, archiveVars
<1>2. AInv /\ [ArchiveNext]_archiveVars =>
        [\A k \in Keys :
            /\ keys[k] \in {"retired", "compromised"}
                  => keys'[k] \in {"retired", "compromised"}
            /\ keys[k] = "compromised" => keys'[k] = "compromised"]_vars
  BY <1>1, Zenon
<1> QED
  BY <1>2, ArchiveInvariance, PTL DEF ArchiveSpec, NoKeyReturns

\* A revoked persona has a root, so it is neither without keys nor in quarantine.
LEMMA RevokedIsLive ==
    ASSUME AInv, terminal # NoRow
    PROVE  root # NoRow /\ KnownKeys # {}
<1>1. root # NoRow
  BY Zenon DEF AInv, IInv, UnrootedIsEmpty
<1>2. root.statement.key \in KnownKeys
  BY <1>1, Zenon DEF AInv, IInv, StoreAlwaysVerifies, VerifiedSnapshot, ValidateLiveChainKeys, OnlineKeys
<1> QED
  BY <1>1, <1>2, Zenon

\* Once a persona is terminally revoked, by a commit here or by hydrating the
\* revocation of its backup, nothing changes any of its rows: no import and no
\* materialization that a session had prepared before.
THEOREM RestoredRevocationIsFinal == ArchiveSpec => TerminalIsFinal
<1>1. ASSUME AInv, [ArchiveNext]_archiveVars, terminal # NoRow
      PROVE  UNCHANGED storeVars
  <2>1. CASE [Next]_vars
    BY <1>1, <2>1, WritersCheck, Zenon DEF AInv
  <2>2. CASE \E b \in Backups, now \in Times : ImportBackup(b, now)
    BY <1>1, <2>2, RevokedIsLive, Zenon DEF ImportBackup
  <2>3. ASSUME NEW s \in Sessions, ArchiveStep(s)
        PROVE  UNCHANGED storeVars
    <3>1. CASE \E method, request, t : Preflight(s, method, request, t)
      BY <3>1, Zenon DEF Preflight
    <3>2. CASE \E method, request : AnswerFromReceipt(s, method, request)
      BY <3>2, Zenon DEF AnswerFromReceipt
    <3>3. CASE \E pins, t : MaterializationSource(pins, t)
      BY <1>1, <3>3, RevokedIsLive, Zenon DEF MaterializationSource, Quarantined
    <3> QED
      BY <2>3, <3>1, <3>2, <3>3, Zenon DEF ArchiveStep, PreflightDirectActivation,
           PreflightTerminalHydration, PreflightRecoveryActivation, ReplayDirectActivation,
           ReplayTerminalHydration, ReplayRecoveryActivation, ActivateDirect, ActivateByRecovery,
           HydrateTerminal, VerifiedDirectActivationSource, VerifiedRecoveryActivationSource,
           VerifiedTerminalHydrationSource
  <2> QED
    BY <1>1, <2>1, <2>2, <2>3, Zenon DEF ArchiveNext, StoreStep, archiveVars
<1>2. AInv /\ [ArchiveNext]_archiveVars => [terminal # NoRow => UNCHANGED storeVars]_vars
  BY <1>1, Zenon
<1> QED
  BY <1>2, ArchiveInvariance, PTL DEF ArchiveSpec, TerminalIsFinal

-----------------------------------------------------------------------------
(* The latest of several times *)

\* A bounded set of times has a latest one, and Max is it.
LEMMA LatestTime ==
    ASSUME NEW S, S \subseteq Times, S # {}
    PROVE  Max(S) \in S /\ \A t \in S : t <= Max(S)
<1> DEFINE Latest(T, x) == x \in T /\ \A y \in T : x >= y
           P == {n \in Nat : \A T \in SUBSET (0 .. n) : T # {} => \E x \in T : Latest(T, x)}
<1>1. 0 \in P
  <2> SUFFICES ASSUME NEW T \in SUBSET (0 .. 0), T # {}
               PROVE  \E x \in T : Latest(T, x)
    OBVIOUS
  <2>1. 0 .. 0 = {0}
    OBVIOUS
  <2>2. 0 \in T /\ \A y \in T : y = 0
    BY <2>1, Zenon
  <2>3. 0 >= 0
    OBVIOUS
  <2> QED
    BY <2>2, <2>3, Zenon
<1>2. ASSUME NEW n \in P PROVE n + 1 \in P
  <2> SUFFICES ASSUME NEW T \in SUBSET (0 .. (n + 1)), T # {}
               PROVE  \E x \in T : Latest(T, x)
    OBVIOUS
  <2>1. CASE n + 1 \in T
    BY <2>1
  <2>2. CASE n + 1 \notin T
    <3>1. T \in SUBSET (0 .. n)
      BY <2>2
    <3> QED
      BY <3>1
  <2> QED
    BY <2>1, <2>2
<1>3. P = Nat
  <2>1. P \in SUBSET Nat
    OBVIOUS
  <2> HIDE DEF P
  <2> QED
    BY <1>1, <1>2, <2>1, SetInduction, Zenon
<1>4. PICK x \in S : Latest(S, x)
  <2>1. MaxTime \in P /\ S \in SUBSET (0 .. MaxTime)
    BY <1>3, StoreAssumption DEF Times
  <2> HIDE DEF Latest
  <2> QED
    BY <2>1
<1>5. Max(S) \in S /\ \A y \in S : Max(S) >= y
  BY <1>4, Zenon DEF Max
<1>6. Max(S) \in Nat /\ \A y \in S : y \in Nat
  <2>1. \A y \in Times : y \in Nat
    BY StoreAssumption DEF Times
  <2> QED
    BY <1>5, <2>1, Zenon
<1>7. ASSUME NEW t \in S PROVE t <= Max(S)
  <2>1. Max(S) >= t /\ t \in Nat
    BY <1>5, <1>6, Zenon
  <2> HIDE DEF Max
  <2> QED
    BY <1>6, <2>1
<1> QED
  BY <1>5, <1>7, Zenon

-----------------------------------------------------------------------------
(* Exporting a live persona *)

\* A verifier of the export sees the chain and the policies that the store's own
\* snapshot validation sees.
LEMMA LiveEvidence ==
    ASSUME AInv, root # NoRow
    PROVE  /\ IsEvidence(LiveArchive)
           /\ LiveArchive # NoRow
           /\ LiveArchive.root = root /\ LiveArchive.journal = journal
           /\ LiveArchive.policies = policies /\ LiveArchive.terminal = terminal
           /\ Statements(journal) = TransitionStatements
           /\ Statements(policies) = PolicyStatements
           /\ ArchiveChain(LiveArchive) = LiveTransitions
<1>1. /\ LiveArchive.root = root /\ LiveArchive.journal = journal
      /\ LiveArchive.policies = policies /\ LiveArchive.terminal = terminal
      /\ LiveArchive # NoRow
  BY DEF LiveArchive, NoRow
<1>2. /\ Statements(journal) = TransitionStatements
      /\ Statements(policies) = PolicyStatements
  BY Zenon DEF Statements, TransitionStatements, PolicyStatements
<1>3. ArchiveChain(LiveArchive) = LiveTransitions
  BY <1>1, <1>2, Zenon DEF ArchiveChain, LiveTransitions
<1>4. TypeOK /\ RowsAreWhole
  BY Zenon DEF AInv, IInv
<1>5. IsEvidence(LiveArchive)
  BY <1>1, <1>4, Zenon DEF IsEvidence, IsTransitionRow, TypeOK, RowsAreWhole
<1> QED
  BY <1>1, <1>2, <1>3, <1>5, Zenon

\* The latest time that an archive's rows carry is one of them.
LEMMA ObservedMaxCovers ==
    ASSUME NEW a, IsEvidence(a)
    PROVE  ObservedMax(a) \in Times
<1> DEFINE S == {a.root.recordedAt}
                \cup {a.policies[v].recordedAt : v \in 1 .. Len(a.policies)}
                \cup {a.journal[i].committedAt : i \in 1 .. Len(a.journal)}
                \cup (IF a.terminal = NoRow THEN {} ELSE {a.terminal.committedAt})
<1>1. a.root.recordedAt \in Times
  BY DEF IsEvidence
<1>2. S \subseteq Times /\ S # {}
  <2>1. /\ \A v \in 1 .. Len(a.policies) : a.policies[v].recordedAt \in Times
        /\ \A i \in 1 .. Len(a.journal) : a.journal[i].committedAt \in Times
        /\ a.terminal # NoRow => a.terminal.committedAt \in Times
    BY Zenon DEF IsEvidence, IsTransitionRow
  <2> QED
    BY <1>1, <2>1
<1>3. ObservedMax(a) = Max(S)
  BY Zenon DEF ObservedMax
<1> HIDE DEF S
<1> QED
  BY <1>2, <1>3, LatestTime, Zenon

\* require_backup limits; the live store allows far longer journals.
WithinBackupLimits ==
    /\ Cardinality(KnownKeys) <= MAX_PERSONA_BACKUP_KEYS
    /\ Len(LiveTransitions) <= MAX_PERSONA_BACKUP_CONTINUITY_TRANSITIONS
    /\ Len(policies) <= MAX_PERSONA_BACKUP_RECOVERY_POLICIES

\* The statements of a live chain, by position: the terminal revocation is the
\* last one, follows the head and puts no key online.
LEMMA LivePositions ==
    ASSUME AInv, root # NoRow
    PROVE  /\ VerifiedSnapshot
           /\ Len(journal) \in Nat
           /\ \A i \in 1 .. Len(journal) : LiveTransitions[i] = journal[i].statement
           /\ \A i \in 1 .. Len(journal) : ~ IsTerminal(journal[i].statement)
           /\ terminal = NoRow => Len(LiveTransitions) = Len(journal)
           /\ terminal # NoRow =>
                 /\ Len(LiveTransitions) = Len(journal) + 1
                 /\ LiveTransitions[Len(journal) + 1] = terminal.statement
                 /\ IsTerminal(terminal.statement)
                 /\ terminal.statement.previousKey = head.key
           /\ OnlineKeys(root.statement, LiveTransitions) \subseteq KnownKeys
<1> DEFINE n == Len(journal)
           ts == TransitionStatements
<1>1. VerifiedSnapshot /\ IsSequence(journal)
  BY Zenon DEF AInv, IInv, TypeOK, StoreAlwaysVerifies
<1>2. /\ VerifyChain(root.statement, LiveTransitions, PolicyStatements)
      /\ ValidateStoredTransitionRows /\ ValidateLiveChainHead /\ ValidateLiveChainKeys
  BY <1>1, Zenon DEF VerifiedSnapshot
<1>3. /\ IsSequence(ts) /\ Len(ts) = n /\ n \in Nat
      /\ \A i \in 1 .. n : ts[i] = journal[i].statement
  <2>1. IsSequence(ts) /\ Len(ts) = n
    BY <1>1, StatementsAre, Zenon
  <2>2. n \in Nat
    BY <1>1 DEF IsSequence
  <2>3. \A i \in 1 .. n : ts[i] = journal[i].statement
    BY Zenon DEF TransitionStatements
  <2> QED
    BY <2>1, <2>2, <2>3
<1>4. /\ OnlineKeys(root.statement, ts) \subseteq KnownKeys
      /\ head.key = TipKey(root.statement, ts, n)
      /\ \A i \in 1 .. n : ~ IsTerminal(journal[i].statement)
      /\ terminal # NoRow => IsTerminal(terminal.statement)
  BY <1>2, Zenon DEF ValidateLiveChainKeys, ValidateLiveChainHead, ValidateStoredTransitionRows
<1> HIDE DEF ts, n
<1>5. CASE terminal = NoRow
  <2>1. LiveTransitions = ts
    BY <1>5, Zenon DEF LiveTransitions, ts
  <2> QED
    BY <1>1, <1>3, <1>4, <1>5, <2>1, Zenon DEF n
<1>6. CASE terminal # NoRow
  <2> DEFINE last == terminal.statement
             us == LiveTransitions
  <2>1. us = Append(ts, last)
    BY <1>6, Zenon DEF LiveTransitions, ts
  <2>2. /\ Len(us) = n + 1 /\ us[n + 1] = last
        /\ \A i \in 1 .. n : us[i] = ts[i]
    <3> HIDE DEF us, last
    <3>1. /\ Len(Append(ts, last)) = Len(ts) + 1 /\ Append(ts, last)[Len(ts) + 1] = last
          /\ \A i \in 1 .. Len(ts) : Append(ts, last)[i] = ts[i]
      BY <1>3, SequenceAppend
    <3> QED
      BY <1>3, <2>1, <3>1, Zenon
  <2>3. OnlineKeys(root.statement, us) = OnlineKeys(root.statement, ts)
    <3> DEFINE S == {ts[i] : i \in DOMAIN ts} \cup {last}
    <3>1. ts \in Seq({ts[i] : i \in DOMAIN ts})
      BY <1>3, Zenon DEF IsSequence
    <3>2. ts \in Seq(S) /\ last \in S
      BY <3>1
    <3> HIDE DEF S, us, last
    <3>3. OnlineKeys(root.statement, Append(ts, last)) =
             OnlineKeys(root.statement, ts) \cup (IF IsTerminal(last) THEN {} ELSE {last.nextKey})
      BY <3>2, OnlineKeysAppend, ZenonT(60)
    <3>4. IsTerminal(last)
      BY <1>4, <1>6, Zenon DEF last
    <3> QED
      BY <2>1, <3>3, <3>4, Zenon
  <2>4. LinksAt(root.statement, us, n, last)
    <3>1. \A i \in 1 .. Len(us) : LinksAt(root.statement, us, i - 1, us[i])
      BY <1>2, VerifiedChainLinks, Zenon
    <3> HIDE DEF us, last
    <3>2. n + 1 \in 1 .. Len(us) /\ (n + 1) - 1 = n
      BY <1>3, <2>2
    <3>3. LinksAt(root.statement, us, (n + 1) - 1, us[n + 1])
      BY <3>1, <3>2, Zenon
    <3> QED
      BY <2>2, <3>2, <3>3, Zenon
  <2>5. TipKey(root.statement, us, n) = TipKey(root.statement, ts, n)
    <3>1. n = 0 \/ n \in 1 .. n
      BY <1>3
    <3> HIDE DEF us
    <3> QED
      BY <2>2, <3>1, Zenon DEF TipKey
  <2>6. last.previousKey = head.key
    BY <1>4, <2>4, <2>5, Zenon DEF LinksAt
  <2> HIDE DEF us, last
  <2>7. \A i \in 1 .. n : us[i] = journal[i].statement
    BY <1>3, <2>2, Zenon
  <2> QED
    BY <1>1, <1>3, <1>4, <1>6, <2>2, <2>3, <2>6, <2>7, Zenon DEF us, last, n
<1> QED
  BY <1>5, <1>6

\* The times of a live archive never go back, so neither do those of the export.
LEMMA ExportIsOrdered ==
    ASSUME AInv, root # NoRow
    PROVE  /\ NondecreasingFrom(root.recordedAt,
                                [v \in 1 .. Len(policies) |-> policies[v].recordedAt])
           /\ LET observed == [i \in 1 .. Len(journal) |-> journal[i].committedAt]
              IN NondecreasingFrom(root.recordedAt,
                                   IF terminal = NoRow THEN observed
                                   ELSE Append(observed, terminal.committedAt))
<1> DEFINE n == Len(journal)
           observed == [i \in 1 .. n |-> journal[i].committedAt]
           recorded == [v \in 1 .. Len(policies) |-> policies[v].recordedAt]
<1>1. /\ ValidateLiveObservationOrder /\ IsSequence(journal) /\ IsSequence(policies)
      /\ n \in Nat
  BY LivePositions, Zenon DEF AInv, IInv, TypeOK, VerifiedSnapshot
<1>2. Len(policies) \in Nat
  BY <1>1, PolicyStatementsAre, Zenon
<1>3. /\ DOMAIN observed = 1 .. n /\ observed = [i \in 1 .. n |-> observed[i]]
      /\ \A i \in 1 .. n : observed[i] = journal[i].committedAt
      /\ DOMAIN recorded = 1 .. Len(policies)
      /\ recorded = [v \in 1 .. Len(policies) |-> recorded[v]]
      /\ \A v \in 1 .. Len(policies) : recorded[v] = policies[v].recordedAt
  BY Zenon
<1>4. /\ \A v \in 1 .. Len(policies) :
            policies[v].recordedAt >=
               IF v = 1 THEN root.recordedAt ELSE policies[v - 1].recordedAt
      /\ \A i \in 1 .. n : journal[i].committedAt >=
            IF i = 1 THEN root.recordedAt ELSE journal[i - 1].committedAt
      /\ terminal # NoRow =>
            terminal.committedAt >= IF journal = << >> THEN root.recordedAt
                                    ELSE journal[Len(journal)].committedAt
  BY <1>1, Zenon DEF ValidateLiveObservationOrder
<1> HIDE DEF observed, recorded
<1>5. IsSequence(observed) /\ Len(observed) = n /\ Len(recorded) = Len(policies)
  BY <1>1, <1>2, <1>3, SequenceDefined, Zenon
<1>6. NondecreasingFrom(root.recordedAt, recorded)
  <2> SUFFICES ASSUME NEW v \in 1 .. Len(policies)
               PROVE  recorded[v] >= IF v = 1 THEN root.recordedAt ELSE recorded[v - 1]
    BY <1>5, Zenon DEF NondecreasingFrom
  <2>1. v = 1 \/ v - 1 \in 1 .. Len(policies)
    BY <1>2
  <2> QED
    BY <1>3, <1>4, <2>1, Zenon
<1>7. ASSUME NEW i \in 1 .. n
      PROVE  observed[i] >= IF i = 1 THEN root.recordedAt ELSE observed[i - 1]
  <2>1. i = 1 \/ i - 1 \in 1 .. n
    BY <1>1
  <2> QED
    BY <1>3, <1>4, <2>1, Zenon
<1>8. CASE terminal = NoRow
  <2>1. NondecreasingFrom(root.recordedAt, observed)
    BY <1>5, <1>7, Zenon DEF NondecreasingFrom
  <2> QED
    BY <1>6, <1>8, <2>1, Zenon DEF observed, recorded, n
<1>9. CASE terminal # NoRow
  <2> DEFINE us == Append(observed, terminal.committedAt)
  <2>1. /\ Len(us) = n + 1 /\ us[n + 1] = terminal.committedAt
        /\ \A i \in 1 .. n : us[i] = observed[i]
    BY <1>5, SequenceAppend
  <2> HIDE DEF us
  <2>2. NondecreasingFrom(root.recordedAt, us)
    <3> SUFFICES ASSUME NEW i \in 1 .. n + 1
                 PROVE  us[i] >= IF i = 1 THEN root.recordedAt ELSE us[i - 1]
      BY <2>1, Zenon DEF NondecreasingFrom
    <3>1. CASE i \in 1 .. n
      <4>1. i = 1 \/ i - 1 \in 1 .. n
        BY <1>1, <3>1
      <4> QED
        BY <1>7, <2>1, <3>1, <4>1, Zenon
    <3>2. CASE i = n + 1 /\ n = 0
      <4>1. i = 1 /\ journal = << >>
        BY <1>1, <3>2 DEF IsSequence
      <4> QED
        BY <1>4, <1>9, <2>1, <3>2, <4>1, Zenon
    <3>3. CASE i = n + 1 /\ n # 0
      <4>1. i # 1 /\ i - 1 = n /\ n \in 1 .. n /\ journal # << >>
        BY <1>1, <3>3, EmptyLength
      <4>2. us[i - 1] = journal[n].committedAt /\ us[i] = terminal.committedAt
        BY <1>3, <2>1, <3>3, <4>1, Zenon
      <4> QED
        BY <1>4, <1>9, <4>1, <4>2, Zenon DEF n
    <3> QED
      BY <1>1, <3>1, <3>2, <3>3
  <2> QED
    BY <1>6, <1>9, <2>2, Zenon DEF observed, recorded, n, us
<1> QED
  BY <1>8, <1>9

\* A persona within the backup limits can always be exported, whatever the clock
\* says: the file passes the verification that an import begins with.
LEMMA ExportVerifies ==
    ASSUME AInv, root # NoRow, WithinBackupLimits, NEW at \in Times
    PROVE  VerifyBackup(Export(at))
<1> DEFINE a == LiveArchive
           b == Export(at)
           S == {at, lifecycle} \cup {ObservedMax(a)}
<1>1. /\ IsEvidence(a) /\ a # NoRow
      /\ a.root = root /\ a.journal = journal /\ a.policies = policies /\ a.terminal = terminal
      /\ Statements(journal) = TransitionStatements /\ Statements(policies) = PolicyStatements
      /\ ArchiveChain(a) = LiveTransitions
  BY LiveEvidence, Zenon
<1>2. /\ b.keys = keys /\ b.lifecycle = lifecycle /\ b.archive = a
      /\ b.exportedAt = Max(S)
  <2>1. ExportedArchive = a
    BY Zenon DEF ExportedArchive
  <2> HIDE DEF a
  <2> QED
    BY <1>1, <2>1 DEF Export
<1> HIDE DEF a, b
<1>3. /\ VerifiedSnapshot
      /\ Len(journal) \in Nat
      /\ \A i \in 1 .. Len(journal) : LiveTransitions[i] = journal[i].statement
      /\ \A i \in 1 .. Len(journal) : ~ IsTerminal(journal[i].statement)
      /\ terminal = NoRow => Len(LiveTransitions) = Len(journal)
      /\ terminal # NoRow =>
            /\ Len(LiveTransitions) = Len(journal) + 1
            /\ LiveTransitions[Len(journal) + 1] = terminal.statement
            /\ IsTerminal(terminal.statement)
            /\ terminal.statement.previousKey = head.key
      /\ OnlineKeys(root.statement, LiveTransitions) \subseteq KnownKeys
  BY LivePositions, Zenon
<1>4. lifecycle <= b.exportedAt /\ ObservedMax(a) <= b.exportedAt
  <2>1. S \subseteq Times /\ S # {}
    BY <1>1, ObservedMaxCovers, Zenon DEF AInv
  <2>2. \A t \in S : t <= Max(S)
    <3> HIDE DEF S
    <3> QED
      BY <2>1, LatestTime, Zenon
  <2> QED
    BY <1>2, <2>2, Zenon
<1>5. ValidatePersonaHistory(b)
  BY <1>2, <1>4, Zenon DEF ValidatePersonaHistory, KeysOf, KnownKeys, WithinBackupLimits
<1>6. VerifyChain(root.statement, LiveTransitions, PolicyStatements)
  BY <1>3, Zenon DEF VerifiedSnapshot
<1>7. ASSUME policies = << >>
      PROVE  /\ terminal = NoRow
             /\ \A i \in 1 .. Len(journal) : journal[i].statement.kind # "Recovery"
  <2>1. PolicyStatements = << >>
    BY <1>7, PolicyStatementsAre, Zenon DEF AInv, IInv, TypeOK
  <2>2. \A i \in 1 .. Len(LiveTransitions) : LiveTransitions[i].kind = "Routine"
    BY <1>6, <2>1, Zenon DEF VerifyChain, VerifyRoutineChain
  <2>3. terminal = NoRow
    <3> SUFFICES ASSUME terminal # NoRow PROVE FALSE
      OBVIOUS
    <3>1. Len(journal) + 1 \in 1 .. Len(LiveTransitions)
      BY <1>3
    <3>2. terminal.statement.kind = "Routine" /\ terminal.statement.kind = "TerminalRevocation"
      BY <1>3, <2>2, <3>1, Zenon DEF IsTerminal
    <3> QED
      BY <3>2
  <2>4. ASSUME NEW i \in 1 .. Len(journal)
        PROVE  journal[i].statement.kind # "Recovery"
    <3>1. i \in 1 .. Len(LiveTransitions)
      BY <1>3, <2>3
    <3>2. journal[i].statement.kind = "Routine"
      BY <1>3, <2>2, <3>1, Zenon
    <3> QED
      BY <3>2
  <2> QED
    BY <2>3, <2>4
<1>8. ValidateBackupContinuityStructure(b)
  <2>1. /\ Len(a.policies) <= MAX_PERSONA_BACKUP_RECOVERY_POLICIES
        /\ Len(ArchiveChain(a)) <= MAX_PERSONA_BACKUP_CONTINUITY_TRANSITIONS
    BY <1>1, Zenon DEF WithinBackupLimits
  <2>2. /\ NondecreasingFrom(a.root.recordedAt,
                             [v \in 1 .. Len(a.policies) |-> a.policies[v].recordedAt])
        /\ LET observed == [i \in 1 .. Len(a.journal) |-> a.journal[i].committedAt]
           IN NondecreasingFrom(a.root.recordedAt,
                                IF a.terminal = NoRow THEN observed
                                ELSE Append(observed, a.terminal.committedAt))
    BY <1>1, ExportIsOrdered, Zenon
  <2>3. /\ \A i \in 1 .. Len(a.journal) : ~ IsTerminal(a.journal[i].statement)
        /\ a.policies = << >> =>
              /\ a.terminal = NoRow
              /\ \A i \in 1 .. Len(a.journal) : a.journal[i].statement.kind # "Recovery"
    BY <1>1, <1>3, <1>7, Zenon
  <2> QED
    BY <1>2, <1>4, <2>1, <2>2, <2>3, Zenon DEF ValidateBackupContinuityStructure
<1>9. ArchiveTipMatchesKeys(b)
  <2>1. ActiveKeysOf(b) = ActiveKeys
    BY <1>2, Zenon DEF ActiveKeysOf, ActiveKeys
  <2>2. head.key = TipKey(root.statement, TransitionStatements, Len(journal))
    BY <1>3, Zenon DEF VerifiedSnapshot, ValidateLiveChainHead
  <2>3. IF terminal = NoRow THEN ActiveKeys = {head.key}
        ELSE /\ ActiveKeys = {}
             /\ keys[head.key] = ReplacedStatus(terminal.statement.reason)
    BY <1>3, Zenon DEF VerifiedSnapshot, ValidateLiveChainKeys, ReplacedStatus
  <2> QED
    BY <1>1, <1>2, <1>3, <2>1, <2>2, <2>3, Zenon DEF ArchiveTipMatchesKeys
<1>10. OnlineKeys(a.root.statement, ArchiveChain(a)) \subseteq KeysOf(b)
  BY <1>1, <1>2, <1>3, Zenon DEF KeysOf, KnownKeys
<1>11. VerifyBackup(b)
  BY <1>1, <1>2, <1>5, <1>6, <1>8, <1>9, <1>10, Zenon DEF VerifyBackup
<1> QED
  BY <1>11, Zenon DEF b

-----------------------------------------------------------------------------
(* Restoring an export *)

\* The rows of the restored store: those of this one, all recorded at the
\* materialization.
LEMMA RestoredRows ==
    ASSUME AInv, root # NoRow, NEW at \in Times
    PROVE  LET rows == CopiedTransitions(journal, at)
               copies == CopiedPolicies(policies, at)
           IN
           /\ Len(rows) = Len(journal)
           /\ \A i \in 1 .. Len(journal) : /\ rows[i].statement = journal[i].statement
                                           /\ rows[i].committedAt = at
           /\ Len(copies) = Len(policies)
           /\ \A v \in 1 .. Len(policies) : /\ copies[v].statement = policies[v].statement
                                            /\ copies[v].recordedAt = at
           /\ copies = << >> <=> policies = << >>
           /\ rows = << >> <=> journal = << >>
           /\ PolicyCopy(root, at) # NoRow
           /\ PolicyCopy(root, at).statement = root.statement
           /\ PolicyCopy(root, at).recordedAt = at
           /\ terminal # NoRow => /\ TransitionCopy(terminal, at) # NoRow
                                  /\ TransitionCopy(terminal, at).statement = terminal.statement
                                  /\ TransitionCopy(terminal, at).committedAt = at
<1> DEFINE rows == CopiedTransitions(journal, at)
           copies == CopiedPolicies(policies, at)
<1>1. IsEvidence(LiveArchive) /\ LiveArchive.root = root /\ LiveArchive.journal = journal
      /\ LiveArchive.policies = policies /\ LiveArchive.terminal = terminal
  BY LiveEvidence, Zenon
<1>2. /\ IsSequence(rows) /\ Len(rows) = Len(journal)
      /\ \A i \in 1 .. Len(journal) : rows[i] = TransitionCopy(journal[i], at)
      /\ IsSequence(copies) /\ Len(copies) = Len(policies)
      /\ DOMAIN PolicyCopy(root, at) = PolicyFields
      /\ PolicyCopy(root, at).recordedAt = at
      /\ PolicyCopy(root, at).statement = root.statement
  <2> DEFINE a == LiveArchive
  <2> HIDE DEF a
  <2>1. /\ IsSequence(CopiedTransitions(a.journal, at))
        /\ Len(CopiedTransitions(a.journal, at)) = Len(a.journal)
        /\ \A i \in 1 .. Len(a.journal) :
              CopiedTransitions(a.journal, at)[i] = TransitionCopy(a.journal[i], at)
        /\ IsSequence(CopiedPolicies(a.policies, at))
        /\ Len(CopiedPolicies(a.policies, at)) = Len(a.policies)
        /\ DOMAIN PolicyCopy(a.root, at) = PolicyFields
        /\ PolicyCopy(a.root, at).recordedAt = at
        /\ PolicyCopy(a.root, at).statement = a.root.statement
    <3>1. IsEvidence(a)
      BY <1>1, Zenon DEF a
    <3> QED
      BY <3>1, CopiedRows
  <2> QED
    BY <1>1, <2>1, Zenon DEF a
<1>3. /\ \A i \in 1 .. Len(journal) : IsTransitionRow(journal[i])
      /\ \A v \in 1 .. Len(policies) : DOMAIN policies[v] = PolicyFields
      /\ terminal # NoRow => IsTransitionRow(terminal)
      /\ IsSequence(journal) /\ IsSequence(policies)
  BY <1>1, Zenon DEF IsEvidence
<1>4. ASSUME NEW i \in 1 .. Len(journal)
      PROVE  rows[i].statement = journal[i].statement /\ rows[i].committedAt = at
  <2>1. /\ TransitionCopy(journal[i], at).statement = journal[i].statement
        /\ TransitionCopy(journal[i], at).committedAt = at
    BY <1>3, TransitionCopied, ZenonT(60)
  <2> HIDE DEF rows
  <2> QED
    BY <1>2, <2>1, Zenon
<1>5. ASSUME NEW v \in 1 .. Len(policies)
      PROVE  copies[v].statement = policies[v].statement /\ copies[v].recordedAt = at
  <2>1. /\ PolicyCopy(policies[v], at).statement = policies[v].statement
        /\ PolicyCopy(policies[v], at).recordedAt = at
    BY <1>3, PolicyCopied, Zenon
  <2>2. copies[v] = PolicyCopy(policies[v], at)
    BY Zenon DEF CopiedPolicies, PolicyCopy
  <2> HIDE DEF copies
  <2> QED
    BY <2>1, <2>2, Zenon
<1>6. ASSUME NEW s, IsSequence(s) PROVE s = << >> <=> Len(s) = 0
  BY <1>6 DEF IsSequence
<1>7. (copies = << >> <=> policies = << >>) /\ (rows = << >> <=> journal = << >>)
  <2> HIDE DEF copies, rows
  <2> QED
    BY <1>2, <1>3, <1>6, Zenon
<1>8. PolicyCopy(root, at) # NoRow
  BY <1>2, SMTT(30) DEF PolicyFields, NoRow
<1>9. ASSUME terminal # NoRow
      PROVE  /\ TransitionCopy(terminal, at) # NoRow
             /\ TransitionCopy(terminal, at).statement = terminal.statement
             /\ TransitionCopy(terminal, at).committedAt = at
  <2>1. /\ IsTransitionRow(TransitionCopy(terminal, at))
        /\ TransitionCopy(terminal, at).statement = terminal.statement
        /\ TransitionCopy(terminal, at).committedAt = at
    BY <1>3, <1>9, TransitionCopied, Zenon
  <2>2. TransitionCopy(terminal, at) # NoRow
    BY <2>1 DEF IsTransitionRow, TransitionFields, NoRow
  <2> QED
    BY <2>1, <2>2
<1> HIDE DEF rows, copies
<1> QED
  BY <1>2, <1>4, <1>5, <1>7, <1>8, <1>9, Zenon DEF rows, copies

\* The head that goes with the copied rows, and the policy head.
LEMMA RestoredHeads ==
    ASSUME AInv, root # NoRow, NEW at \in Times
    PROVE  LET tip == PrefixHead(LiveArchive)
               latest == CopiedPolicyHead(policies, at)
           IN
           /\ tip # NoRow /\ tip.revision = Len(journal) /\ tip.sequence = Len(journal)
           /\ tip.key = head.key
           /\ tip.key = TipKey(root.statement, TransitionStatements, Len(journal))
           /\ tip.last = LastDigest(TransitionStatements, Len(journal))
           /\ tip.issuedAt = LastIssuedAt(root.statement, TransitionStatements, Len(journal))
           /\ policies = << >> => latest = NoRow
           /\ policies # << >> => /\ latest # NoRow /\ latest.revision = Len(policies)
                                  /\ latest.digest = LatestPolicy
                                  /\ latest.recordedAt = at
<1> DEFINE tip == PrefixHead(LiveArchive)
           latest == CopiedPolicyHead(policies, at)
<1>1. /\ LiveArchive.root = root /\ LiveArchive.journal = journal
      /\ Statements(journal) = TransitionStatements
  BY LiveEvidence, Zenon
<1>2. /\ tip # NoRow /\ tip.revision = Len(journal) /\ tip.sequence = Len(journal)
      /\ tip.key = TipKey(root.statement, TransitionStatements, Len(journal))
      /\ tip.last = LastDigest(TransitionStatements, Len(journal))
      /\ tip.issuedAt = LastIssuedAt(root.statement, TransitionStatements, Len(journal))
  BY <1>1 DEF PrefixHead, NoRow
<1>3. /\ policies = << >> => latest = NoRow
      /\ policies # << >> => /\ latest # NoRow /\ latest.revision = Len(policies)
                             /\ latest.digest = LatestPolicy
                             /\ latest.recordedAt = at
  BY DEF CopiedPolicyHead, NoRow, LatestPolicy, Digest
<1>4. head.key = TipKey(root.statement, TransitionStatements, Len(journal))
  BY LivePositions, Zenon DEF VerifiedSnapshot, ValidateLiveChainHead
<1> HIDE DEF tip, latest
<1> QED
  BY <1>2, <1>3, <1>4, Zenon DEF tip, latest

\* No copied row is older than what its statement says, and none is out of order:
\* all carry the time of the materialization, which comes after every statement.
LEMMA RestoredTimes ==
    ASSUME AInv, root # NoRow, NEW at \in Times, SignedIssuanceAtOrBefore(LiveArchive, at)
    PROVE  LET rows == CopiedTransitions(journal, at)
               copies == CopiedPolicies(policies, at)
               first == PolicyCopy(root, at)
               last == TransitionCopy(terminal, at)
           IN
           /\ \A i \in 1 .. Len(rows) :
                 /\ ~ IsTerminal(rows[i].statement)
                 /\ rows[i].committedAt >= rows[i].statement.issuedAt
                 /\ ~ (i > Len(LiveTransitions))
                 /\ rows[i].committedAt >=
                       IF i = 1 THEN first.recordedAt ELSE rows[i - 1].committedAt
                 /\ \A v \in 1 .. Len(copies) : rows[i].committedAt >= copies[v].recordedAt
           /\ terminal # NoRow =>
                 /\ IsTerminal(last.statement)
                 /\ last.committedAt >= last.statement.issuedAt
                 /\ last.committedAt >= IF rows = << >> THEN first.recordedAt
                                        ELSE rows[Len(rows)].committedAt
                 /\ \A v \in 1 .. Len(copies) : last.committedAt >= copies[v].recordedAt
           /\ \A v \in 1 .. Len(copies) :
                 LET sequence == copies[v].statement.checkpoint.sequence IN
                 /\ copies[v].recordedAt >= copies[v].statement.issuedAt
                 /\ copies[v].recordedAt >=
                       IF v = 1 THEN first.recordedAt ELSE copies[v - 1].recordedAt
                 /\ sequence > 0 => /\ sequence <= Len(rows)
                                    /\ copies[v].recordedAt >= rows[sequence].committedAt
           /\ policies # << >> => /\ copies[Len(copies)].statement = LatestPolicy
                                  /\ copies[Len(copies)].recordedAt = at
<1> DEFINE rows == CopiedTransitions(journal, at)
           copies == CopiedPolicies(policies, at)
           first == PolicyCopy(root, at)
           last == TransitionCopy(terminal, at)
           n == Len(journal)
<1>1. /\ Len(rows) = n
      /\ \A i \in 1 .. n : rows[i].statement = journal[i].statement /\ rows[i].committedAt = at
      /\ Len(copies) = Len(policies)
      /\ \A v \in 1 .. Len(policies) : /\ copies[v].statement = policies[v].statement
                                       /\ copies[v].recordedAt = at
      /\ rows = << >> <=> journal = << >>
      /\ first.recordedAt = at
      /\ terminal # NoRow => last.statement = terminal.statement /\ last.committedAt = at
  BY RestoredRows, Zenon
<1>2. /\ VerifiedSnapshot /\ n \in Nat /\ Len(policies) \in Nat
      /\ \A i \in 1 .. n : LiveTransitions[i] = journal[i].statement
      /\ \A i \in 1 .. n : ~ IsTerminal(journal[i].statement)
      /\ terminal = NoRow => Len(LiveTransitions) = n
      /\ terminal # NoRow => /\ Len(LiveTransitions) = n + 1
                             /\ LiveTransitions[n + 1] = terminal.statement
                             /\ IsTerminal(terminal.statement)
  BY LivePositions, PolicyStatementsAre, Zenon DEF AInv, IInv, TypeOK
<1>3. /\ \A v \in 1 .. Len(policies) : policies[v].statement.issuedAt <= at
      /\ \A i \in 1 .. Len(LiveTransitions) : LiveTransitions[i].issuedAt <= at
  <2>1. LiveArchive.policies = policies /\ ArchiveChain(LiveArchive) = LiveTransitions
    BY LiveEvidence, Zenon
  <2> QED
    BY <2>1, Zenon DEF SignedIssuanceAtOrBefore
<1>4. at >= at
  BY StoreAssumption DEF Times
<1>5. ASSUME NEW t, t <= at PROVE at >= t
  BY <1>5
<1> HIDE DEF rows, copies, first, last, n
<1>6. ASSUME NEW i \in 1 .. n
      PROVE  journal[i].statement.issuedAt <= at /\ ~ (i > Len(LiveTransitions))
  <2>1. i \in 1 .. Len(LiveTransitions) /\ ~ (i > Len(LiveTransitions))
    BY <1>2
  <2> QED
    BY <1>2, <1>3, <2>1, Zenon
<1>7. ASSUME NEW i \in 1 .. Len(rows)
      PROVE  /\ ~ IsTerminal(rows[i].statement)
             /\ rows[i].committedAt >= rows[i].statement.issuedAt
             /\ ~ (i > Len(LiveTransitions))
             /\ rows[i].committedAt >=
                   IF i = 1 THEN first.recordedAt ELSE rows[i - 1].committedAt
             /\ \A v \in 1 .. Len(copies) : rows[i].committedAt >= copies[v].recordedAt
  <2>1. i = 1 \/ i - 1 \in 1 .. n
    BY <1>1, <1>2
  <2> QED
    BY <1>1, <1>2, <1>4, <1>5, <1>6, <2>1, ZenonT(60)
<1>8. ASSUME terminal # NoRow
      PROVE  /\ IsTerminal(last.statement)
             /\ last.committedAt >= last.statement.issuedAt
             /\ last.committedAt >= IF rows = << >> THEN first.recordedAt
                                    ELSE rows[Len(rows)].committedAt
             /\ \A v \in 1 .. Len(copies) : last.committedAt >= copies[v].recordedAt
  <2>1. n + 1 \in 1 .. Len(LiveTransitions)
    BY <1>2, <1>8
  <2>2. terminal.statement.issuedAt <= at
    BY <1>2, <1>3, <1>8, <2>1, Zenon
  <2>3. rows # << >> => n \in 1 .. n
    <3>1. journal # << >> => n # 0
      BY DEF AInv, IInv, TypeOK, IsSequence, n
    <3> QED
      BY <1>1, <1>2, <3>1
  <2> QED
    BY <1>1, <1>2, <1>4, <1>5, <1>8, <2>2, <2>3, Zenon
<1>9. ASSUME NEW v \in 1 .. Len(copies)
      PROVE  LET sequence == copies[v].statement.checkpoint.sequence IN
             /\ copies[v].recordedAt >= copies[v].statement.issuedAt
             /\ copies[v].recordedAt >=
                   IF v = 1 THEN first.recordedAt ELSE copies[v - 1].recordedAt
             /\ sequence > 0 => /\ sequence <= Len(rows)
                                /\ copies[v].recordedAt >= rows[sequence].committedAt
  <2> DEFINE sequence == policies[v].statement.checkpoint.sequence
  <2>1. sequence > 0 => sequence <= n
    BY <1>1, <1>2, Zenon DEF VerifiedSnapshot, ValidateLiveObservationOrder, n
  <2>2. sequence \in Nat
    BY <1>1, <1>2, CheckpointsAreNumbers, Zenon DEF AInv, IInv, TypeOK
  <2> HIDE DEF sequence
  <2>3. sequence > 0 => sequence \in 1 .. n
    BY <1>2, <2>1, <2>2
  <2>4. v = 1 \/ v - 1 \in 1 .. Len(policies)
    BY <1>1, <1>2
  <2>5. /\ copies[v].statement.checkpoint.sequence = sequence /\ copies[v].recordedAt = at
        /\ copies[v].recordedAt >= copies[v].statement.issuedAt
    BY <1>1, <1>3, <1>5, Zenon DEF sequence
  <2> QED
    BY <1>1, <1>4, <2>1, <2>3, <2>4, <2>5, Zenon
<1>10. ASSUME policies # << >>
       PROVE  copies[Len(copies)].statement = LatestPolicy /\ copies[Len(copies)].recordedAt = at
  <2>1. Len(policies) # 0
    BY <1>10 DEF AInv, IInv, TypeOK, IsSequence
  <2>2. Len(policies) \in 1 .. Len(policies)
    BY <1>2, <2>1
  <2> QED
    BY <1>1, <2>2, Zenon DEF LatestPolicy
<1> QED
  BY <1>7, <1>8, <1>9, <1>10, Zenon DEF rows, copies, first, last

\* The store that importing this export elsewhere and materializing it at time
\* at would give.
Restored(at) == INSTANCE PersonaStore WITH
    refs <- {},
    root <- PolicyCopy(root, at),
    journal <- CopiedTransitions(journal, at),
    head <- PrefixHead(LiveArchive),
    policies <- CopiedPolicies(policies, at),
    policyHead <- CopiedPolicyHead(policies, at),
    terminal <- IF terminal = NoRow THEN NoRow ELSE TransitionCopy(terminal, at),
    archive <- [evidence |-> LiveArchive, importedAt |-> at],
    receipt <- [sourceSequence |-> Len(LiveTransitions)]

\* A backup is good for something: whatever a live persona within the backup
\* limits went through, it can be exported whatever the clock says, also when it
\* is behind times that an imported archive brought along: the exported file
\* passes the verification that an import begins with.  And the rows that a
\* materialization copies from that export verify as a live store, at every time
\* at which the materialization's own checks let it run.
BackupCanBeRestored ==
    root # NoRow /\ WithinBackupLimits =>
        \A at \in Times :
            /\ VerifyBackup(Export(at))
            /\ lifecycle <= at /\ SignedIssuanceAtOrBefore(LiveArchive, at)
                  => Restored(at)!VerifiedSnapshot

\* The restored store applies the same continuity rules.
LEMMA SameRules ==
    ASSUME NEW at, NEW r, NEW ts, NEW ps
    PROVE  /\ Restored(at)!VerifyChain(r, ts, ps) <=> VerifyChain(r, ts, ps)
           /\ Restored(at)!OnlineKeys(r, ts) = OnlineKeys(r, ts)
           /\ \A n : /\ Restored(at)!TipKey(r, ts, n) = TipKey(r, ts, n)
                     /\ Restored(at)!LastDigest(ts, n) = LastDigest(ts, n)
                     /\ Restored(at)!LastIssuedAt(r, ts, n) = LastIssuedAt(r, ts, n)
<1>1. ASSUME NEW st PROVE Restored(at)!IsTerminal(st) <=> IsTerminal(st)
  BY Zenon DEF Restored!IsTerminal, IsTerminal
<1>2. ASSUME NEW n
      PROVE  /\ Restored(at)!TipKey(r, ts, n) = TipKey(r, ts, n)
             /\ Restored(at)!LastDigest(ts, n) = LastDigest(ts, n)
             /\ Restored(at)!LastIssuedAt(r, ts, n) = LastIssuedAt(r, ts, n)
  BY Zenon DEF Restored!TipKey, TipKey, Restored!LastDigest, LastDigest, Restored!Digest,
               Digest, Restored!LastIssuedAt, LastIssuedAt, Restored!IsTerminal, IsTerminal
<1>3. Restored(at)!OnlineKeys(r, ts) = OnlineKeys(r, ts)
  BY Zenon DEF Restored!OnlineKeys, OnlineKeys, Restored!IsTerminal, IsTerminal
<1>4. ASSUME NEW st
      PROVE  /\ Restored(at)!ValidateStatement(st) <=> ValidateStatement(st)
             /\ Restored(at)!AuthorizedByPolicies(r, ps, st) <=> AuthorizedByPolicies(r, ps, st)
             /\ \A n : Restored(at)!LinksAt(r, ts, n, st) <=> LinksAt(r, ts, n, st)
  <2>1. Restored(at)!ValidateStatement(st) <=> ValidateStatement(st)
    BY Zenon DEF Restored!ValidateStatement, ValidateStatement,
         Restored!MAX_TERMINAL_PERSONA_REVOCATION_SEQUENCE,
         MAX_TERMINAL_PERSONA_REVOCATION_SEQUENCE
  <2>2. Restored(at)!AuthorizedByPolicies(r, ps, st) <=> AuthorizedByPolicies(r, ps, st)
    BY Zenon DEF Restored!AuthorizedByPolicies, AuthorizedByPolicies,
         Restored!RecoveryPolicyForTransition, RecoveryPolicyForTransition, Restored!Digest,
         Digest, Restored!ValidateRecoveryTransitionPolicyBinding,
         ValidateRecoveryTransitionPolicyBinding, Restored!Authorizes, Authorizes,
         Restored!PolicyActiveAt, PolicyActiveAt,
         Restored!ValidateTerminalPersonaRevocationPolicyBinding,
         ValidateTerminalPersonaRevocationPolicyBinding
  <2>3. \A n : Restored(at)!LinksAt(r, ts, n, st) <=> LinksAt(r, ts, n, st)
    BY <1>2, Zenon DEF Restored!LinksAt, LinksAt, Restored!Digest, Digest
  <2> QED
    BY <2>1, <2>2, <2>3
<1>5. Restored(at)!VerifyRoutineChain(r, ts) <=> VerifyRoutineChain(r, ts)
  BY <1>4, Zenon DEF Restored!VerifyRoutineChain, VerifyRoutineChain
<1>6. Restored(at)!VerifyRecoveryPolicySequence(r, ps) <=> VerifyRecoveryPolicySequence(r, ps)
  BY Zenon DEF Restored!VerifyRecoveryPolicySequence, VerifyRecoveryPolicySequence,
       Restored!ValidateRecoveryPolicyStatement, ValidateRecoveryPolicyStatement,
       Restored!ValidateRecoveryCheckpoint, ValidateRecoveryCheckpoint,
       Restored!ValidatePolicyRootBinding, ValidatePolicyRootBinding,
       Restored!ValidatePolicySuccessor, ValidatePolicySuccessor, Restored!Digest, Digest
<1>7. ASSUME NEW p
      PROVE  Restored(at)!PolicyCheckpointMatches(ts, p) <=> PolicyCheckpointMatches(ts, p)
  BY Zenon DEF Restored!PolicyCheckpointMatches, PolicyCheckpointMatches, Restored!Digest, Digest
<1>8. Restored(at)!TerminallyRevoked(ts) <=> TerminallyRevoked(ts)
  BY <1>1, Zenon DEF Restored!TerminallyRevoked, TerminallyRevoked
<1>9. Restored(at)!VerifyRecoveryAwareChain(r, ts, ps) <=> VerifyRecoveryAwareChain(r, ts, ps)
  BY <1>1, <1>3, <1>4, <1>6, <1>7, <1>8, Zenon
  DEF Restored!VerifyRecoveryAwareChain, VerifyRecoveryAwareChain,
      Restored!MAX_TERMINAL_PERSONA_REVOCATION_SEQUENCE, MAX_TERMINAL_PERSONA_REVOCATION_SEQUENCE
<1>10. Restored(at)!VerifyChain(r, ts, ps) <=> VerifyChain(r, ts, ps)
  BY <1>5, <1>9, Zenon DEF Restored!VerifyChain, VerifyChain
<1> QED
  BY <1>2, <1>3, <1>10, Zenon

\* A verifier of the restored store sees the same statements.
LEMMA RestoredStatements ==
    ASSUME AInv, root # NoRow, NEW at \in Times
    PROVE  /\ Restored(at)!TransitionStatements = TransitionStatements
           /\ Restored(at)!PolicyStatements = PolicyStatements
           /\ Restored(at)!LiveTransitions = LiveTransitions
<1> DEFINE rows == CopiedTransitions(journal, at)
           copies == CopiedPolicies(policies, at)
           last == IF terminal = NoRow THEN NoRow ELSE TransitionCopy(terminal, at)
<1>1. /\ Len(rows) = Len(journal)
      /\ \A i \in 1 .. Len(journal) : rows[i].statement = journal[i].statement
      /\ Len(copies) = Len(policies)
      /\ \A v \in 1 .. Len(policies) : copies[v].statement = policies[v].statement
      /\ terminal # NoRow => /\ TransitionCopy(terminal, at) # NoRow
                             /\ TransitionCopy(terminal, at).statement = terminal.statement
  BY RestoredRows, ZenonT(60)
<1>2. Restored(at)!TransitionStatements = [i \in 1 .. Len(rows) |-> rows[i].statement]
  BY Zenon DEF Restored!TransitionStatements
<1>3. Restored(at)!PolicyStatements = [v \in 1 .. Len(copies) |-> copies[v].statement]
  BY Zenon DEF Restored!PolicyStatements
<1>4. Restored(at)!LiveTransitions =
         IF last = NoRow THEN Restored(at)!TransitionStatements
         ELSE Append(Restored(at)!TransitionStatements, last.statement)
  BY Zenon DEF Restored!LiveTransitions, Restored!NoRow, NoRow
<1>5. IF terminal = NoRow THEN last = NoRow
      ELSE last # NoRow /\ last.statement = terminal.statement
  BY <1>1, Zenon
<1> HIDE DEF rows, copies, last
<1>6. /\ Restored(at)!TransitionStatements = TransitionStatements
      /\ Restored(at)!PolicyStatements = PolicyStatements
  BY <1>1, <1>2, <1>3, Zenon DEF TransitionStatements, PolicyStatements
<1> QED
  BY <1>4, <1>5, <1>6, Zenon DEF LiveTransitions

\* The restored store passes every check of verified_live_continuity_snapshot.
LEMMA RestoredVerifies ==
    ASSUME AInv, root # NoRow, NEW at \in Times, SignedIssuanceAtOrBefore(LiveArchive, at)
    PROVE  Restored(at)!VerifiedSnapshot
<1> DEFINE rows == CopiedTransitions(journal, at)
           copies == CopiedPolicies(policies, at)
           first == PolicyCopy(root, at)
           ended == TransitionCopy(terminal, at)
           last == IF terminal = NoRow THEN NoRow ELSE ended
           tip == PrefixHead(LiveArchive)
           latest == CopiedPolicyHead(policies, at)
           ts == TransitionStatements
<1>1. /\ Len(rows) = Len(journal) /\ Len(copies) = Len(policies)
      /\ \A i \in 1 .. Len(journal) : rows[i].statement = journal[i].statement
      /\ copies = << >> <=> policies = << >>
      /\ first # NoRow /\ first.statement = root.statement
      /\ terminal # NoRow => ended # NoRow /\ ended.statement = terminal.statement
  BY RestoredRows, Zenon
<1>2. /\ tip # NoRow /\ tip.revision = Len(journal) /\ tip.sequence = Len(journal)
      /\ tip.key = head.key
      /\ tip.key = TipKey(root.statement, ts, Len(journal))
      /\ tip.last = LastDigest(ts, Len(journal))
      /\ tip.issuedAt = LastIssuedAt(root.statement, ts, Len(journal))
      /\ policies = << >> => latest = NoRow
      /\ policies # << >> => /\ latest # NoRow /\ latest.revision = Len(policies)
                             /\ latest.digest = LatestPolicy /\ latest.recordedAt = at
  BY RestoredHeads, Zenon
<1>3. /\ \A i \in 1 .. Len(rows) :
            /\ ~ IsTerminal(rows[i].statement)
            /\ rows[i].committedAt >= rows[i].statement.issuedAt
            /\ ~ (i > Len(LiveTransitions))
            /\ rows[i].committedAt >=
                  IF i = 1 THEN first.recordedAt ELSE rows[i - 1].committedAt
            /\ \A v \in 1 .. Len(copies) : rows[i].committedAt >= copies[v].recordedAt
      /\ terminal # NoRow =>
            /\ IsTerminal(ended.statement)
            /\ ended.committedAt >= ended.statement.issuedAt
            /\ ended.committedAt >= IF rows = << >> THEN first.recordedAt
                                    ELSE rows[Len(rows)].committedAt
            /\ \A v \in 1 .. Len(copies) : ended.committedAt >= copies[v].recordedAt
      /\ \A v \in 1 .. Len(copies) :
            LET sequence == copies[v].statement.checkpoint.sequence IN
            /\ copies[v].recordedAt >= copies[v].statement.issuedAt
            /\ copies[v].recordedAt >=
                  IF v = 1 THEN first.recordedAt ELSE copies[v - 1].recordedAt
            /\ sequence > 0 => /\ sequence <= Len(rows)
                               /\ copies[v].recordedAt >= rows[sequence].committedAt
      /\ policies # << >> => /\ copies[Len(copies)].statement = LatestPolicy
                             /\ copies[Len(copies)].recordedAt = at
  BY RestoredTimes, Zenon
<1>4. /\ Restored(at)!TransitionStatements = ts
      /\ Restored(at)!PolicyStatements = PolicyStatements
      /\ Restored(at)!LiveTransitions = LiveTransitions
  BY RestoredStatements, Zenon
<1>5. VerifiedSnapshot
  BY Zenon DEF AInv, IInv, StoreAlwaysVerifies
<1> HIDE DEF rows, copies, first, ended, tip, latest, ts
<1>6. IF terminal = NoRow THEN last = NoRow ELSE last # NoRow /\ last = ended
  BY <1>1, Zenon
<1> HIDE DEF last
<1>7. Restored(at)!VerifyChain(first.statement, LiveTransitions, PolicyStatements)
  <2>1. VerifyChain(root.statement, LiveTransitions, PolicyStatements)
    BY <1>5, Zenon DEF VerifiedSnapshot
  <2> QED
    BY <1>1, <2>1, SameRules, Zenon
<1>8. Restored(at)!ValidateStoredTransitionRows
  <2>1. Restored(at)!ArchivePrefix = Len(LiveTransitions)
    BY DEF Restored!ArchivePrefix, Restored!NoRow
  <2> QED
    BY <1>3, <1>6, <2>1, Zenon DEF Restored!ValidateStoredTransitionRows, Restored!IsTerminal,
         IsTerminal, Restored!NoRow, NoRow, rows, last, ended
<1>9. Restored(at)!ValidateStoredRecoveryPolicies
  BY <1>1, <1>2, <1>3, Zenon DEF Restored!ValidateStoredRecoveryPolicies, Restored!NoRow,
       NoRow, Restored!Digest, Restored!LatestPolicy, copies, latest
<1>10. Restored(at)!ValidateLiveObservationOrder
  <2>1. ASSUME NEW st PROVE Restored(at)!RecordedPolicyOf(st) \subseteq 1 .. Len(copies)
    BY Zenon DEF Restored!RecordedPolicyOf, copies
  <2>2. /\ \A i \in 1 .. Len(rows) :
              \A v \in Restored(at)!RecordedPolicyOf(rows[i].statement) :
                 rows[i].committedAt >= copies[v].recordedAt
        /\ last # NoRow =>
              /\ last.committedAt >= IF rows = << >> THEN first.recordedAt
                                     ELSE rows[Len(rows)].committedAt
              /\ \A v \in Restored(at)!RecordedPolicyOf(last.statement) :
                    last.committedAt >= copies[v].recordedAt
    BY <1>3, <1>6, <2>1, Zenon
  <2> QED
    BY <1>3, <2>2, Zenon DEF Restored!ValidateLiveObservationOrder, Restored!NoRow, NoRow,
         rows, copies, first, last, ended
<1>11. Restored(at)!ValidateLiveChainHead
  <2>1. /\ Restored(at)!TipKey(root.statement, ts, Len(journal))
              = TipKey(root.statement, ts, Len(journal))
        /\ Restored(at)!LastDigest(ts, Len(journal)) = LastDigest(ts, Len(journal))
        /\ Restored(at)!LastIssuedAt(root.statement, ts, Len(journal))
              = LastIssuedAt(root.statement, ts, Len(journal))
    BY SameRules, Zenon
  <2>2. /\ tip.revision = Len(rows) /\ tip.sequence = Len(rows)
        /\ tip.key = Restored(at)!TipKey(first.statement, ts, Len(rows))
        /\ tip.last = Restored(at)!LastDigest(ts, Len(rows))
        /\ tip.issuedAt = Restored(at)!LastIssuedAt(first.statement, ts, Len(rows))
    BY <1>1, <1>2, <2>1, Zenon
  <2> QED
    BY <1>4, <2>2, Zenon DEF Restored!ValidateLiveChainHead, rows, first, tip
<1>12. Restored(at)!ValidateLiveChainKeys
  <2>1. /\ OnlineKeys(root.statement, ts) \subseteq KnownKeys
        /\ \A i \in 1 .. Len(journal) :
              LET st == journal[i].statement IN
              st.kind = "Recovery" /\ st.reason = "Compromise"
                  => keys[st.previousKey] = "compromised"
        /\ IF terminal = NoRow THEN ActiveKeys = {head.key}
           ELSE /\ ActiveKeys = {}
                /\ keys[head.key] = IF terminal.statement.reason = "Compromise"
                                    THEN "compromised" ELSE "retired"
    BY <1>5, Zenon DEF VerifiedSnapshot, ValidateLiveChainKeys, ts
  <2>2. /\ Restored(at)!KnownKeys = KnownKeys
        /\ Restored(at)!ActiveKeys = ActiveKeys
    BY Zenon DEF Restored!KnownKeys, KnownKeys, Restored!ActiveKeys, ActiveKeys
  <2>3. Restored(at)!OnlineKeys(first.statement, ts) \subseteq KnownKeys
    <3>1. Restored(at)!OnlineKeys(root.statement, ts) = OnlineKeys(root.statement, ts)
      BY SameRules, Zenon
    <3> QED
      BY <1>1, <2>1, <3>1, Zenon
  <2>4. ASSUME NEW i \in 1 .. Len(rows), rows[i].statement.kind = "Recovery",
               rows[i].statement.reason = "Compromise"
        PROVE  keys[rows[i].statement.previousKey] = "compromised"
    BY <1>1, <2>1, <2>4, Zenon
  <2>5. IF last = NoRow THEN ActiveKeys = {tip.key}
        ELSE /\ ActiveKeys = {}
             /\ keys[tip.key] = IF last.statement.reason = "Compromise"
                                THEN "compromised" ELSE "retired"
    BY <1>1, <1>2, <1>6, <2>1, Zenon
  <2> QED
    BY <1>4, <2>2, <2>3, <2>4, <2>5, Zenon
    DEF Restored!ValidateLiveChainKeys, Restored!NoRow, NoRow, rows, first, last, tip, ended
<1> QED
  BY <1>1, <1>2, <1>4, <1>7, <1>8, <1>9, <1>10, <1>11, <1>12, Zenon
  DEF Restored!VerifiedSnapshot, Restored!NoRow, NoRow, first, tip

\* Every live persona within the limits can be exported and restored.
THEOREM BackupsAreGood == ArchiveSpec => []BackupCanBeRestored
<1>1. AInv => BackupCanBeRestored
  BY ExportVerifies, RestoredVerifies, Zenon DEF BackupCanBeRestored
<1> QED
  BY <1>1, ArchiveInvariance, PTL
=============================================================================
