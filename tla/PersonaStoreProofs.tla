------------------------- MODULE PersonaStoreProofs -------------------------
(***************************************************************************)
(* What is proved of the persona store for every number of keys, sessions  *)
(* and proofs, and every limit.                                            *)
(***************************************************************************)
EXTENDS PersonaStoreInvariant

-----------------------------------------------------------------------------
(* Invariants *)

\* The strengthened invariant holds in every reachable state of the store.
THEOREM Invariance == Spec => []IInv
<1>1. Init => IInv
  BY InitInvariant, Zenon
<1>2. IInv /\ [Next]_vars => IInv'
  BY NextInvariant, Zenon
<1> QED
  BY <1>1, <1>2, PTL DEF Spec

\* Every table keeps its shape, for any number of keys, sessions and proofs.
THEOREM TypeCorrect == Spec => []TypeOK
<1>1. IInv => TypeOK
  BY Zenon DEF IInv
<1> QED
  BY <1>1, Invariance, PTL

\* No operation of any session leaves a rooted persona in a state that the
\* verification at the start of the next operation would refuse.
THEOREM StoreVerifies == Spec => []StoreAlwaysVerifies
<1>1. IInv => StoreAlwaysVerifies
  BY Zenon DEF IInv
<1> QED
  BY <1>1, Invariance, PTL

\* A rooted persona has one active key, that of its head, until it is revoked.
THEOREM AuthorityIsUnique == Spec => []UniqueAuthority
<1>1. IInv => UniqueAuthority
  BY Zenon DEF IInv, StoreAlwaysVerifies, VerifiedSnapshot, ValidateLiveChainKeys, UniqueAuthority
<1> QED
  BY <1>1, Invariance, PTL

-----------------------------------------------------------------------------
(* What steps never do *)

\* Once a persona is terminally revoked nothing changes any of its rows, not
\* even a commit whose checks ran before the revocation.
THEOREM RevocationIsFinal == Spec => TerminalIsFinal
<1>1. IInv /\ [Next]_vars => [terminal # NoRow => UNCHANGED storeVars]_vars
  BY WritersCheck, Zenon
<1> QED
  BY <1>1, Invariance, PTL DEF Spec, TerminalIsFinal

\* A key that was retired or marked compromised is never active again, whatever
\* proofs name it as a successor and whichever session commits them.
THEOREM KeysNeverReturn == Spec => NoKeyReturns
<1>1. IInv /\ [Next]_vars =>
        [\A k \in Keys :
            /\ keys[k] \in {"retired", "compromised"}
                  => keys'[k] \in {"retired", "compromised"}
            /\ keys[k] = "compromised" => keys'[k] = "compromised"]_vars
  BY StepMovesKeys, Zenon DEF KeyMoves
<1> QED
  BY <1>1, Invariance, PTL DEF Spec, NoKeyReturns

\* Whatever the order of the sessions and of their clock readings, a recorded
\* root, journal row, policy or revocation is never rewritten, and the audit
\* time never runs backward.
THEOREM RowsOnlyGrow == Spec => HistoryOnlyGrows
<1>1. IInv /\ [Next]_vars =>
        [/\ root # NoRow => root' = root
         /\ IsPrefixOf(journal, journal')
         /\ IsPrefixOf(policies, policies')
         /\ terminal # NoRow => terminal' = terminal
         /\ audit <= audit']_vars
  BY StepHistory, Zenon DEF RowsStay
<1> QED
  BY <1>1, Invariance, PTL DEF Spec, HistoryOnlyGrows

-----------------------------------------------------------------------------
(* Authorizations and answers *)

\* No step takes the key of an open authorization away: the tables are not
\* written while the lock is held, and only the holder's own end releases it.
LEMMA AuthorizationStep ==
    ASSUME IInv, AuthorizedKeyStaysActive, [Next]_vars
    PROVE  AuthorizedKeyStaysActive'
<1>0. DOMAIN sess = Sessions /\ lock \in Sessions \cup {None} /\ Idle.phase # "authorized"
  BY Zenon DEF IInv, TypeOK, Idle
<1>1. CASE lock' = None
  BY <1>1, Zenon DEF AuthorizedKeyStaysActive
<1>2. CASE lock' = lock /\ UNCHANGED <<keys, terminal>> /\ lock # None /\ sess'[lock] = sess[lock]
  BY <1>2, Zenon DEF AuthorizedKeyStaysActive
<1>3. ASSUME NEW s \in Sessions, SessionStep(s) PROVE AuthorizedKeyStaysActive'
  <2>1. CASE \E k \in Keys : WithActiveKeyAuthorization(s, k)
    <3>1. PICK k \in Keys :
             /\ RequireNonterminal /\ keys[k] = "active" /\ lock' = s
             /\ sess' = [sess EXCEPT ![s] = [phase |-> "authorized", key |-> k]]
             /\ UNCHANGED storeVars
      BY <2>1, Zenon DEF WithActiveKeyAuthorization
    <3>2. sess'[s] = [phase |-> "authorized", key |-> k]
      BY <1>0, <3>1, Zenon
    <3>3. sess'[s].phase = "authorized" /\ sess'[s].key = k
      BY <3>2
    <3> QED
      BY <3>1, <3>3, Zenon DEF AuthorizedKeyStaysActive, RequireNonterminal, storeVars
  <2>2. CASE SessionEnds(s)
    <3>1. /\ sess' = [sess EXCEPT ![s] = Idle] /\ lock' \in {lock, None}
          /\ lock = s => lock' = None
          /\ UNCHANGED <<keys, terminal>>
      BY <2>2, Zenon DEF SessionEnds, storeVars
    <3> QED
      BY <1>0, <1>1, <1>2, <3>1, Zenon
  <2>3. CASE \E p \in proofs : \/ BeginRoutine(s, p) \/ ReplayRoutine(s, p)
                               \/ ReplayRecovery(s, p) \/ ReplayTerminal(s, p)
                               \/ \E t \in Times : VerifyRecovery(s, p, t) \/ VerifyTerminal(s, p, t)
    <3>1. /\ sess[s] = Idle \/ lock = None
          /\ lock' = lock /\ UNCHANGED <<keys, terminal>>
          /\ \E record : sess' = [sess EXCEPT ![s] = record]
      BY <2>3, ZenonT(60) DEF BeginRoutine, ReplayRoutine, ReplayRecovery, ReplayTerminal, VerifyRecovery,
           VerifyTerminal, AnswerCommitted, Remember, CanWrite, storeVars
    <3>2. lock # None => lock # s
      BY <1>0, <3>1, Zenon DEF AuthorizedKeyStaysActive
    <3> QED
      BY <1>0, <1>1, <1>2, <3>1, <3>2, Zenon
  <2>4. CASE \E now \in Times : \/ CommitRoutineTransition(s, now)
                                \/ CommitRecoveryTransition(s, now)
                                \/ CommitTerminalPersonaRevocation(s, now)
    BY <1>1, <2>4, Zenon DEF CommitRoutineTransition, CommitRecoveryTransition,
         CommitTerminalPersonaRevocation, AdoptTransition, CanWrite
  <2> QED
    BY <1>3, <2>1, <2>2, <2>3, <2>4, Zenon DEF SessionStep
<1>4. CASE KeyStep \/ RecordRecoveryPolicyChain
  <2>1. CASE RecordRecoveryPolicyChain
    BY <1>1, <2>1, Zenon DEF RecordRecoveryPolicyChain, CanWrite
  <2>2. ASSUME NEW k \in Keys, NEW now \in Times PROVE
          /\ EnrollKey(k, now) => lock = None /\ lock' = lock
          /\ \A reason : RotateKey(k, reason, now) => lock = None /\ lock' = lock
          /\ MarkKeyCompromised(k, now) => lock = None /\ lock' = lock
    <3>1. EnrollKey(k, now) => lock = None /\ lock' = lock
      BY Zenon DEF EnrollKey, CanWrite
    <3>2. \A reason : RotateKey(k, reason, now) => lock = None /\ lock' = lock
      BY Zenon DEF RotateKey, CanWrite
    <3>3. MarkKeyCompromised(k, now) => lock = None /\ lock' = lock
      BY Zenon DEF MarkKeyCompromised, CanWrite
    <3> QED
      BY <3>1, <3>2, <3>3, Zenon
  <2>3. ASSUME NEW k \in Keys, NEW now \in Times PROVE
          /\ BindSigningReference(k, now) => lock = None /\ lock' = lock
          /\ UnbindSigningReference(k, now) => lock = None /\ lock' = lock
          /\ \A issuedAt : RecordContinuityRoot(k, issuedAt, now) => lock = None /\ lock' = lock
    <3>1. BindSigningReference(k, now) => lock = None /\ lock' = lock
      BY Zenon DEF BindSigningReference, CanWrite
    <3>2. UnbindSigningReference(k, now) => lock = None /\ lock' = lock
      BY Zenon DEF UnbindSigningReference, CanWrite
    <3>3. \A issuedAt : RecordContinuityRoot(k, issuedAt, now) => lock = None /\ lock' = lock
      BY Zenon DEF RecordContinuityRoot, CanWrite
    <3> QED
      BY <3>1, <3>2, <3>3, Zenon
  <2>4. CASE KeyStep
    <3>1. lock = None /\ lock' = lock
      BY <2>2, <2>3, <2>4, Zenon DEF KeyStep
    <3> QED
      BY <1>1, <3>1, Zenon
  <2> QED
    BY <1>4, <2>1, <2>4, Zenon
<1>5. CASE SignStep
  <2>1. UNCHANGED <<keys, terminal, lock, sess>>
    BY <1>5, SignStepTypes, Zenon DEF storeVars
  <2> QED
    BY <1>1, <1>2, <2>1, Zenon
<1>6. CASE UNCHANGED vars
  BY <1>1, <1>2, <1>6, Zenon DEF vars
<1> QED
  BY <1>3, <1>4, <1>5, <1>6, Zenon DEF Next

\* While with_active_key_authorization runs its caller's closure, the key it
\* looked up stays active and the persona is not revoked, whatever the other
\* connections attempt.
THEOREM AuthorizationHolds == Spec => []AuthorizedKeyStaysActive
<1>1. Init => AuthorizedKeyStaysActive
  BY Zenon DEF Init, AuthorizedKeyStaysActive
<1>2. IInv /\ AuthorizedKeyStaysActive /\ [Next]_vars => AuthorizedKeyStaysActive'
  BY AuthorizationStep, Zenon
<1> QED
  BY <1>1, <1>2, Invariance, PTL DEF Spec

\* A row that answers for a submitted proof.
AnswersFor(row, p) ==
    /\ row.statement = p.statement
    /\ p.statement.kind = "Routine" => row.wrapper = p.wrapper

IsAnswered(p) ==
    \/ \E i \in 1 .. Len(journal) : AnswersFor(journal[i], p)
    \/ terminal # NoRow /\ AnswersFor(terminal, p)

\* An answer that stands keeps standing when rows only grow.
LEMMA AnswersKeep ==
    ASSUME IInv, IInv', RowsStay, NEW p, IsAnswered(p)
    PROVE  IsAnswered(p)'
<1>1. CASE terminal # NoRow /\ AnswersFor(terminal, p)
  BY <1>1, Zenon DEF RowsStay, IsAnswered, AnswersFor
<1>2. CASE \E i \in 1 .. Len(journal) : AnswersFor(journal[i], p)
  <2>1. PICK i \in 1 .. Len(journal) : AnswersFor(journal[i], p)
    BY <1>2, Zenon
  <2>2. Len(journal) <= Len(journal') /\ journal'[i] = journal[i]
    BY Zenon DEF RowsStay, IsPrefixOf
  <2>3. i \in 1 .. Len(journal')
    <3>1. Len(journal) \in Nat /\ Len(journal') \in Nat
      BY DEF IInv, TypeOK, IsSequence
    <3> QED
      BY <2>2, <3>1
  <2> QED
    BY <2>1, <2>2, <2>3, Zenon DEF IsAnswered, AnswersFor
<1> QED
  BY <1>1, <1>2, Zenon DEF IsAnswered

\* A step tells a session only of a proof whose row is there.
LEMMA NewAnswers ==
    ASSUME IInv, [Next]_vars, NEW p \in told'
    PROVE  p \in told \/ IsAnswered(p)'
<1>0. TypeOK /\ Len(journal) \in Nat
  BY DEF IInv, TypeOK, IsSequence
<1>1. CASE UNCHANGED told
  BY <1>1, Zenon
<1>2. ASSUME NEW s \in Sessions, NEW q \in proofs, ReplayRoutine(s, q) \/ ReplayRecovery(s, q)
      PROVE  p \in told \/ IsAnswered(p)'
  <2>1. /\ q.statement.sequence <= Len(journal)
        /\ journal[q.statement.sequence].statement = q.statement
        /\ q.statement.kind = "Routine" => journal[q.statement.sequence].wrapper = q.wrapper
        /\ told' = told \cup {q} /\ UNCHANGED <<journal, terminal>>
    BY <1>2, Zenon DEF ReplayRoutine, ReplayRecovery, RoutineRowAt, SameProof, AnswerCommitted, storeVars
  <2>2. q.statement.sequence \in Nat \ {0}
    BY <1>0, Zenon DEF TypeOK, IsStatement
  <2>3. q.statement.sequence \in 1 .. Len(journal)
    BY <1>0, <2>1, <2>2
  <2>4. IsAnswered(q)'
    BY <2>1, <2>3, Zenon DEF IsAnswered, AnswersFor
  <2> QED
    BY <2>1, <2>4, Zenon
<1>3. ASSUME NEW s \in Sessions, NEW q \in proofs, ReplayTerminal(s, q)
      PROVE  p \in told \/ IsAnswered(p)'
  <2>1. /\ terminal # NoRow /\ terminal.statement = q.statement
        /\ q.statement.kind # "Routine"
        /\ told' = told \cup {q} /\ UNCHANGED <<journal, terminal>>
    BY <1>3, Zenon DEF ReplayTerminal, VerifiedSnapshot, ValidateStoredTransitionRows, IsTerminal,
         AnswerCommitted, storeVars
  <2> QED
    BY <2>1, Zenon DEF IsAnswered, AnswersFor
<1>4. ASSUME NEW s \in Sessions, NEW q, NEW now, AdoptTransition(s, q, now)
      PROVE  p \in told \/ IsAnswered(p)'
  <2> DEFINE row == [statement |-> q.statement, wrapper |-> q.wrapper, committedAt |-> now]
  <2>1. journal' = Append(journal, row) /\ told' = told \cup {q}
    BY <1>4, Zenon DEF AdoptTransition
  <2>2. AnswersFor(row, q)
    BY Zenon DEF AnswersFor
  <2>3. Len(journal') = Len(journal) + 1 /\ journal'[Len(journal) + 1] = row
    <3> HIDE DEF row
    <3> QED BY <1>0, <2>1, SequenceAppend, Zenon DEF TypeOK
  <2>4. Len(journal) + 1 \in 1 .. Len(journal')
    BY <1>0, <2>3
  <2> HIDE DEF row
  <2>5. IsAnswered(q)'
    BY <2>2, <2>3, <2>4, Zenon DEF IsAnswered, AnswersFor
  <2> QED
    BY <2>1, <2>5, Zenon
<1>5. ASSUME NEW s \in Sessions, NEW now, CommitTerminalPersonaRevocation(s, now)
      PROVE  p \in told \/ IsAnswered(p)'
  <2>1. /\ told' = told \cup {sess[s].proof}
        /\ terminal' = [statement |-> sess[s].proof.statement, wrapper |-> sess[s].proof.wrapper,
                        committedAt |-> now]
    BY <1>5, Zenon DEF CommitTerminalPersonaRevocation
  <2>2. /\ terminal' # NoRow
        /\ terminal'.statement = sess[s].proof.statement /\ terminal'.wrapper = sess[s].proof.wrapper
    BY <2>1 DEF NoRow
  <2> QED
    BY <2>1, <2>2, Zenon DEF IsAnswered, AnswersFor
<1>6. ASSUME NEW s \in Sessions, SessionStep(s) PROVE p \in told \/ IsAnswered(p)'
  <2>1. CASE \/ \E k \in Keys : WithActiveKeyAuthorization(s, k)
             \/ \E q \in proofs : \/ BeginRoutine(s, q)
                                  \/ \E t \in Times : VerifyRecovery(s, q, t) \/ VerifyTerminal(s, q, t)
             \/ SessionEnds(s)
    BY <1>1, <2>1, Zenon DEF WithActiveKeyAuthorization, BeginRoutine, VerifyRecovery, VerifyTerminal,
         SessionEnds
  <2>2. CASE \E now \in Times : CommitRoutineTransition(s, now) \/ CommitRecoveryTransition(s, now)
    BY <1>4, <2>2, Zenon DEF CommitRoutineTransition, CommitRecoveryTransition
  <2> QED
    BY <1>2, <1>3, <1>5, <1>6, <2>1, <2>2, Zenon DEF SessionStep
<1>7. CASE KeyStep \/ RecordRecoveryPolicyChain
  <2>1. CASE KeyStep
    <3>1. told' = told
      BY <2>1, ZenonT(60) DEF KeyStep, EnrollKey, RotateKey, MarkKeyCompromised, BindSigningReference,
           UnbindSigningReference, RecordContinuityRoot
    <3> QED
      BY <1>1, <3>1, Zenon
  <2>2. CASE RecordRecoveryPolicyChain
    <3>1. told' = told
      BY <2>2, Zenon DEF RecordRecoveryPolicyChain
    <3> QED
      BY <1>1, <3>1, Zenon
  <2> QED
    BY <1>7, <2>1, <2>2, Zenon
<1>8. CASE SignStep
  BY <1>1, <1>8, SignStepTypes, Zenon
<1>9. CASE UNCHANGED vars
  BY <1>1, <1>9, Zenon DEF vars
<1> QED
  BY <1>6, <1>7, <1>8, <1>9, Zenon DEF Next

AllAreAnswered == \A p \in told : IsAnswered(p)

\* AnswersStand, row by row.
LEMMA AnswersByRow == AnswersStand <=> AllAreAnswered
<1> DEFINE rows == {journal[i] : i \in 1 .. Len(journal)}
                     \cup (IF terminal = NoRow THEN {} ELSE {terminal})
<1>1. \A row : row \in rows <=> \/ \E i \in 1 .. Len(journal) : row = journal[i]
                                \/ terminal # NoRow /\ row = terminal
  <2>1. CASE terminal = NoRow
    BY <2>1, Zenon
  <2>2. CASE terminal # NoRow
    BY <2>2, Zenon
  <2> QED
    BY <2>1, <2>2, Zenon
<1>2. AnswersStand <=> \A p \in told : \E row \in rows : AnswersFor(row, p)
  BY Zenon DEF AnswersStand, AnswersFor
<1> HIDE DEF rows
<1>3. ASSUME NEW p, IsAnswered(p) PROVE \E row \in rows : AnswersFor(row, p)
  BY <1>1, <1>3, Zenon DEF IsAnswered
<1>4. ASSUME NEW p, NEW row \in rows, AnswersFor(row, p) PROVE IsAnswered(p)
  <2>1. CASE \E i \in 1 .. Len(journal) : row = journal[i]
    BY <1>4, <2>1, Zenon DEF IsAnswered
  <2>2. CASE terminal # NoRow /\ row = terminal
    BY <1>4, <2>2, Zenon DEF IsAnswered
  <2> QED
    BY <1>1, <2>1, <2>2, Zenon
<1> QED
  BY <1>2, <1>3, <1>4, Zenon DEF AllAreAnswered

\* What a session was told is committed is in the journal, or is the terminal
\* row, for good; a routine answer vouches for the submitted signatures too.
THEOREM AnswersAreKept == Spec => []AnswersStand
<1>1. Init => AllAreAnswered
  BY Zenon DEF Init, AllAreAnswered
<1>2. IInv /\ AllAreAnswered /\ [Next]_vars => AllAreAnswered'
  <2> SUFFICES ASSUME IInv, AllAreAnswered, [Next]_vars, NEW p \in told' PROVE IsAnswered(p)'
    BY Zenon DEF AllAreAnswered
  <2>1. IInv' /\ RowsStay
    BY NextInvariant, StepHistory, Zenon
  <2>2. p \in told \/ IsAnswered(p)'
    BY NewAnswers, Zenon
  <2> QED
    BY <2>1, <2>2, AnswersKeep, Zenon DEF AllAreAnswered
<1> QED
  BY <1>1, <1>2, Invariance, AnswersByRow, PTL DEF Spec

-----------------------------------------------------------------------------
(* Adoption inside the window *)

\* The policy at version v was the latest, active and recorded when row was
\* committed, and its ceremony was not over.
InWindowOf(row, v) ==
    /\ Digest(policies[v].statement) = row.statement.policy
    /\ PolicyActiveAt(policies[v].statement, row.committedAt)
    /\ CeremonyActiveAt(row.statement.expiresAt, row.committedAt)
    /\ row.statement.issuedAt <= row.committedAt
    /\ policies[v].recordedAt <= row.committedAt
    /\ v < Len(policies) => /\ ~ IsTerminal(row.statement)
                            /\ row.committedAt <= policies[v + 1].recordedAt

InWindow(row) == \E v \in 1 .. Len(policies) : InWindowOf(row, v)

AllInWindow ==
    /\ \A i \in 1 .. Len(journal) : journal[i].statement.kind = "Recovery" => InWindow(journal[i])
    /\ terminal # NoRow => InWindow(terminal)

\* The store's own operations neither import an archive nor seal a receipt.
NoArchive == archive = NoRow /\ receipt = NoRow

\* AdoptedInsideItsWindow, row by row; nothing is imported here.
LEMMA WindowByRow == NoArchive /\ AllInWindow => AdoptedInsideItsWindow
<1> SUFFICES ASSUME NoArchive, AllInWindow,
                    NEW row \in {journal[i] : i \in {j \in 1 .. Len(journal) :
                                                      /\ journal[j].statement.kind = "Recovery"
                                                      /\ j > ArchivePrefix}}
                                \cup (IF terminal = NoRow THEN {} ELSE {terminal})
             PROVE  \E v \in RecordedPolicyOf(row.statement) :
                       /\ PolicyActiveAt(policies[v].statement, row.committedAt)
                       /\ CeremonyActiveAt(row.statement.expiresAt, row.committedAt)
                       /\ row.statement.issuedAt <= row.committedAt
                       /\ policies[v].recordedAt <= row.committedAt
                       /\ v < Len(policies) =>
                             /\ ~ IsTerminal(row.statement)
                             /\ row.committedAt <= policies[v + 1].recordedAt
  BY Zenon DEF AdoptedInsideItsWindow
<1>1. InWindow(row)
  <2>1. CASE \E i \in 1 .. Len(journal) : journal[i].statement.kind = "Recovery" /\ row = journal[i]
    BY <2>1, Zenon DEF AllInWindow
  <2>2. CASE terminal # NoRow /\ row = terminal
    BY <2>2, Zenon DEF AllInWindow
  <2>3. CASE terminal = NoRow
    BY <2>1, <2>3, Zenon
  <2>4. CASE terminal # NoRow
    BY <2>1, <2>2, <2>4, Zenon
  <2> QED
    BY <2>3, <2>4, Zenon
<1> QED
  BY <1>1, Zenon DEF InWindow, InWindowOf, RecordedPolicyOf

\* The numbers of a row: its audit time, its clock readings.
LEMMA WindowTimes ==
    ASSUME IInv
    PROVE  /\ audit \in Nat /\ Times \subseteq Nat
           /\ Len(journal) \in Nat /\ Len(policies) \in Nat
           /\ \A i \in 1 .. Len(journal) : /\ journal[i].committedAt \in Nat
                                           /\ journal[i].committedAt <= audit
           /\ \A v \in 1 .. Len(policies) : /\ policies[v].recordedAt \in Nat
                                            /\ policies[v].recordedAt <= audit
<1>1. TypeOK /\ AuditCoversRows
  BY Zenon DEF IInv
<1>2. Times \subseteq Nat
  BY StoreAssumption DEF Times
<1>3. Len(journal) \in Nat /\ Len(policies) \in Nat
  BY <1>1 DEF TypeOK, IsSequence
<1> QED
  BY <1>1, <1>2, <1>3, Zenon DEF TypeOK, AuditCoversRows

\* A statement that passes a commit's checks against the latest policy is in its
\* window once its row is recorded.
LEMMA CommittedInWindow ==
    ASSUME IInv, NEW st, NEW verified, NEW now \in Times, VerifiedSnapshot, policies # << >>,
           IntentUsesLatestPolicy(st), WindowHolds(st, verified, now),
           RequireMonotonicAuditTime(now),
           NEW row, row.statement = st, row.committedAt = now
    PROVE  InWindow(row)
<1> DEFINE n == Len(policies)
<1>1. n \in 1 .. Len(policies)
  BY PolicyStatementsAre DEF IInv, TypeOK, IsSequence
<1>2. Digest(policies[n].statement) = st.policy
  BY Zenon DEF VerifiedSnapshot, ValidateStoredRecoveryPolicies, IntentUsesLatestPolicy, LatestPolicy
<1>3. /\ PolicyActiveAt(policies[n].statement, now) /\ CeremonyActiveAt(st.expiresAt, now)
      /\ st.issuedAt <= now
  BY Zenon DEF WindowHolds, LatestPolicy
<1>4. policies[n].recordedAt <= now
  <2>1. policies[n].recordedAt \in Nat /\ audit \in Nat /\ now \in Nat
        /\ policies[n].recordedAt <= audit
    BY <1>1, WindowTimes, Zenon
  <2> QED
    BY <2>1 DEF RequireMonotonicAuditTime
<1>5. ~ (n < Len(policies))
  BY <1>1
<1>6. InWindowOf(row, n)
  BY <1>2, <1>3, <1>4, <1>5, Zenon DEF InWindowOf
<1> QED
  BY <1>1, <1>6, Zenon DEF InWindow

\* While the policies stay, so do the windows of the rows.
LEMMA WindowsStay ==
    ASSUME UNCHANGED policies, NEW row, InWindow(row)
    PROVE  InWindow(row)'
BY Zenon DEF InWindow, InWindowOf

\* A suffix of one or two policies has a first one.
LEMMA FirstOfOneOrTwo == \A n \in 1 .. 2 : 1 \in 1 .. n
OBVIOUS

\* New policies come after every row that names an earlier one.
LEMMA PoliciesKeepWindows ==
    ASSUME IInv, AllInWindow, RecordRecoveryPolicyChain
    PROVE  AllInWindow'
<1>1. PICK suffix \in PolicySuffixes, now \in Times :
         /\ RequireMonotonicAuditTime(now)
         /\ policies' = policies \o PolicyRows(suffix, now)
         /\ UNCHANGED <<journal, terminal>>
  BY Zenon DEF RecordRecoveryPolicyChain
<1>2. terminal = NoRow
  BY Zenon DEF RecordRecoveryPolicyChain, RequireNonterminal
<1>3. IsSequence(suffix) /\ Len(suffix) \in 1 .. 2
  BY SuffixShape, Zenon
<1>4. PoliciesGrow(suffix, now)
  <2>1. IsSequence(policies) /\ IsConcat(policies', policies, PolicyRows(suffix, now))
    BY <1>1, Zenon DEF IInv, TypeOK, IsConcat
  <2> QED
    BY <1>3, <2>1, PoliciesAppended, Zenon
<1>5. ASSUME NEW i \in 1 .. Len(journal), journal[i].statement.kind = "Recovery"
      PROVE  InWindow(journal[i])'
  <2> DEFINE row == journal[i]
             n == Len(policies)
  <2>1. PICK v \in 1 .. n : InWindowOf(row, v)
    BY <1>5, Zenon DEF AllInWindow, InWindow
  <2>2. /\ n \in Nat /\ Len(policies') = n + Len(suffix)
        /\ \A w \in 1 .. n : policies'[w] = policies[w]
        /\ policies'[n + 1].recordedAt = now
    <3>1. 1 \in 1 .. Len(suffix)
      BY <1>3, FirstOfOneOrTwo, Zenon
    <3> QED
      BY <1>4, <3>1, Zenon DEF PoliciesGrow
  <2>3. v \in 1 .. Len(policies') /\ policies'[v] = policies[v]
    BY <1>3, <2>1, <2>2
  <2>4. row.committedAt <= policies'[v + 1].recordedAt
    <3>1. CASE v < n
      <4>1. v + 1 \in 1 .. n
        BY <2>2, <3>1
      <4> QED
        BY <2>1, <2>2, <3>1, <4>1, Zenon DEF InWindowOf
    <3>2. CASE ~ (v < n)
      <4>1. v = n
        BY <2>2, <3>2
      <4>2. row.committedAt \in Nat /\ audit \in Nat /\ now \in Nat /\ row.committedAt <= audit
        BY WindowTimes, Zenon
      <4>3. row.committedAt <= now
        BY <1>1, <4>2 DEF RequireMonotonicAuditTime
      <4> QED
        BY <2>2, <4>1, <4>3, Zenon
    <3> QED
      BY <3>1, <3>2, Zenon
  <2>5. ~ IsTerminal(row.statement)
    BY <1>5, Zenon DEF IsTerminal
  <2>6. row' = row
    BY <1>1, Zenon
  <2> HIDE DEF row
  <2>7. InWindowOf(row, v)'
    BY <2>1, <2>3, <2>4, <2>5, <2>6, Zenon DEF InWindowOf
  <2> QED
    BY <2>3, <2>7, Zenon DEF InWindow, row
<1> QED
  BY <1>1, <1>2, <1>5, Zenon DEF AllInWindow

\* A transition that is adopted keeps its window and those of the rows before it.
LEMMA AdoptKeepsWindows ==
    ASSUME IInv, AllInWindow, NEW s, NEW p, NEW now, AdoptTransition(s, p, now),
           p.statement.kind = "Recovery" =>
              \A row : row.statement = p.statement /\ row.committedAt = now => InWindow(row)
    PROVE  AllInWindow'
<1> DEFINE new == [statement |-> p.statement, wrapper |-> p.wrapper, committedAt |-> now]
<1>1. journal' = Append(journal, new) /\ UNCHANGED <<policies, terminal>>
  BY Zenon DEF AdoptTransition
<1>2. new.statement = p.statement /\ new.committedAt = now
  OBVIOUS
<1> HIDE DEF new
<1>3. /\ Len(journal) \in Nat /\ Len(journal') = Len(journal) + 1
      /\ \A i \in 1 .. Len(journal) : journal'[i] = journal[i]
      /\ journal'[Len(journal) + 1] = new
  <2>1. IsSequence(journal)
    BY Zenon DEF IInv, TypeOK
  <2> QED
    BY <1>1, <2>1, SequenceAppend, ZenonT(60)
<1>4. \A i \in 1 .. Len(journal') : i \in 1 .. Len(journal) \/ i = Len(journal) + 1
  BY <1>3
<1>5. ASSUME NEW i \in 1 .. Len(journal'), journal'[i].statement.kind = "Recovery"
      PROVE  InWindow(journal'[i])
  BY <1>2, <1>3, <1>4, <1>5, Zenon DEF AllInWindow
<1>6. \A row : InWindow(row) => InWindow(row)'
  BY <1>1, WindowsStay, Zenon
<1>7. \A i \in 1 .. Len(journal') : journal'[i].statement.kind = "Recovery" => InWindow(journal[i])'
  BY <1>1, <1>5, Zenon DEF InWindow, InWindowOf
<1>8. terminal' # NoRow => InWindow(terminal)'
  BY <1>1, Zenon DEF AllInWindow, InWindow, InWindowOf
<1> QED
  BY <1>7, <1>8, Zenon DEF AllInWindow

\* Every step keeps every row inside its window.
LEMMA StepKeepsWindows ==
    ASSUME IInv, AllInWindow, [Next]_vars
    PROVE  AllInWindow'
<1>1. CASE UNCHANGED <<journal, policies, terminal>>
  BY <1>1, Zenon DEF AllInWindow, InWindow, InWindowOf
<1>2. ASSUME NEW s \in Sessions, SessionStep(s) PROVE AllInWindow'
  <2>1. CASE QuietStep(s)
    BY <1>1, <2>1, QuietStepTypes, Zenon DEF storeVars
  <2>2. ASSUME NEW now \in Times, CommitRoutineTransition(s, now) PROVE AllInWindow'
    <3>1. AdoptTransition(s, sess[s].proof, now) /\ Carries(s, "Routine")
      BY <2>2, Zenon DEF CommitRoutineTransition
    <3>2. sess[s].proof.statement.kind # "Recovery"
      BY <3>1, CarriedProof, Zenon DEF IInv
    <3> QED
      BY <3>1, <3>2, AdoptKeepsWindows, Zenon
  <2>3. ASSUME NEW now \in Times, CommitRecoveryTransition(s, now) PROVE AllInWindow'
    <3>1. /\ AdoptTransition(s, sess[s].proof, now) /\ VerifiedSnapshot /\ policies # << >>
          /\ IntentUsesLatestPolicy(sess[s].proof.statement)
          /\ WindowHolds(sess[s].proof.statement, sess[s].at, now)
          /\ RequireMonotonicAuditTime(now)
      BY <2>3, Zenon DEF CommitRecoveryTransition
    <3>2. \A row : row.statement = sess[s].proof.statement /\ row.committedAt = now => InWindow(row)
      BY <3>1, CommittedInWindow, Zenon
    <3> QED
      BY <3>1, <3>2, AdoptKeepsWindows, Zenon
  <2>4. ASSUME NEW now \in Times, CommitTerminalPersonaRevocation(s, now) PROVE AllInWindow'
    <3>1. /\ VerifiedSnapshot /\ policies # << >>
          /\ IntentUsesLatestPolicy(sess[s].proof.statement)
          /\ WindowHolds(sess[s].proof.statement, sess[s].at, now)
          /\ RequireMonotonicAuditTime(now)
          /\ terminal' = [statement |-> sess[s].proof.statement, wrapper |-> sess[s].proof.wrapper,
                          committedAt |-> now]
          /\ UNCHANGED <<journal, policies>>
      BY <2>4, Zenon DEF CommitTerminalPersonaRevocation
    <3>2. terminal'.statement = sess[s].proof.statement /\ terminal'.committedAt = now
      BY <3>1
    <3>3. InWindow(terminal')
      BY <3>1, <3>2, CommittedInWindow, Zenon
    <3>4. InWindow(terminal)'
      BY <3>1, <3>3, Zenon DEF InWindow, InWindowOf
    <3>5. \A i \in 1 .. Len(journal') :
             journal'[i].statement.kind = "Recovery" => InWindow(journal[i])'
      BY <3>1, Zenon DEF AllInWindow, InWindow, InWindowOf
    <3> QED
      BY <3>4, <3>5, Zenon DEF AllInWindow
  <2> QED
    BY <1>2, <2>1, <2>2, <2>3, <2>4, Zenon DEF SessionStep, QuietStep
<1>3. CASE KeyStep
  BY <1>1, <1>3, ZenonT(60) DEF KeyStep, EnrollKey, RotateKey, MarkKeyCompromised, BindSigningReference,
       UnbindSigningReference, RecordContinuityRoot
<1>4. CASE RecordRecoveryPolicyChain
  BY <1>4, PoliciesKeepWindows, Zenon
<1>5. CASE SignStep
  BY <1>1, <1>5, SignStepTypes, Zenon DEF storeVars
<1>6. CASE UNCHANGED vars
  BY <1>1, <1>6, Zenon DEF vars
<1> QED
  BY <1>2, <1>3, <1>4, <1>5, <1>6, Zenon DEF Next

\* Every recovery and every terminal revocation was committed under the policy
\* that was the latest at its commit, while that policy was active and before
\* its ceremony expired, although all three were also checked earlier, outside
\* the transaction.
THEOREM AdoptionIsTimely == Spec => []AdoptedInsideItsWindow
<1>1. Init => AllInWindow
  <2> SUFFICES ASSUME Init PROVE AllInWindow
    OBVIOUS
  <2>1. Len(journal) = 0
    BY EmptyLength, Zenon DEF Init
  <2>2. 1 .. Len(journal) = {}
    BY <2>1
  <2> QED
    BY <2>2, Zenon DEF Init, AllInWindow
<1>2. IInv /\ AllInWindow /\ [Next]_vars => AllInWindow'
  BY StepKeepsWindows, Zenon
<1>3. Init => NoArchive
  BY Zenon DEF Init, NoArchive
<1>4. NoArchive /\ [Next]_vars => NoArchive'
  BY ArchiveUntouched, Zenon DEF NoArchive
<1>5. NoArchive /\ AllInWindow => AdoptedInsideItsWindow
  BY WindowByRow, Zenon
<1> QED
  BY <1>1, <1>2, <1>3, <1>4, <1>5, Invariance, PTL DEF Spec

-----------------------------------------------------------------------------
(* The store implements PersonaAuthority *)

\* The keys PersonaAuthority calls spent, as the refinement maps them.
Spent == {k \in Keys : keys[k] \in {"retired", "compromised"}}

\* A step after which the same key holds the authority and the same keys are
\* spent is no step of PersonaAuthority.
LEMMA AuthorityStutters ==
    ASSUME Spent' = Spent, Holder' = Holder, UNCHANGED terminal
    PROVE  UNCHANGED Authority!authorityVars
BY Zenon DEF Spent, Authority!authorityVars

\* The operations on keys before there is a root: key by key nothing comes back.
LEMMA AuthorityPrepares ==
    ASSUME IInv, [Next]_vars, root = NoRow, UNCHANGED <<root, terminal>>
    PROVE  Authority!Prepare
<1>1. terminal = NoRow /\ Holder = None /\ Holder' = None
  BY Zenon DEF IInv, UnrootedIsEmpty, Holder
<1>2. Spent \subseteq Spent' /\ Spent' \subseteq Keys
  BY StepMovesKeys, Zenon DEF Spent, KeyMoves
<1> QED
  BY <1>1, <1>2, Zenon DEF Authority!Prepare, Spent

\* Recording the root establishes the one active key.
LEMMA AuthorityEstablished ==
    ASSUME IInv, NEW k \in Keys, NEW issuedAt, NEW now, RecordContinuityRoot(k, issuedAt, now)
    PROVE  Authority!Next
<1>1. /\ root = NoRow /\ terminal = NoRow /\ ActiveKeys = {k} /\ UNCHANGED <<keys, terminal>>
      /\ root' = [statement |-> [key |-> k, issuedAt |-> issuedAt], recordedAt |-> now]
      /\ head' = [revision |-> 0, sequence |-> 0, key |-> k, last |-> None, issuedAt |-> issuedAt]
  BY Zenon DEF RecordContinuityRoot, RequireNonterminal
<1>2. root' # NoRow /\ head'.key = k
  BY <1>1 DEF NoRow
<1>3. Holder = None /\ Holder' = k
  BY <1>1, <1>2, Zenon DEF Holder
<1>4. k \notin Spent /\ Spent' = Spent
  BY <1>1, Zenon DEF Spent, ActiveKeys
<1>5. Authority!Establish(k)
  BY <1>1, <1>3, <1>4, Zenon DEF Authority!Establish, Spent
<1> QED
  BY <1>5, Zenon DEF Authority!Next

\* Adopting a transition hands the authority of the head's key to a fresh one.
LEMMA AuthorityHandedOver ==
    ASSUME IInv, NEW s, NEW p, NEW now, AdoptTransition(s, p, now), root # NoRow, terminal = NoRow,
           IsStatement(p.statement), ~ IsTerminal(p.statement), p.statement.previousKey = head.key,
           keys[p.statement.previousKey] = "active", keys[p.statement.nextKey] = "unknown"
    PROVE  Authority!Next
<1> DEFINE st == p.statement
<1>1. /\ st.previousKey \in Keys /\ st.nextKey \in Keys /\ keys \in [Keys -> Statuses]
      /\ ReplacedStatus(st.reason) \in {"retired", "compromised"} /\ st.previousKey # None
  BY StoreAssumption, Zenon DEF IInv, TypeOK, IsStatement, ReplacedStatus
<1>2. /\ keys' = [keys EXCEPT ![st.previousKey] = ReplacedStatus(st.reason),
                              ![st.nextKey] = "active"]
      /\ head' = [revision |-> head.revision + 1, sequence |-> st.sequence,
                  key |-> st.nextKey, last |-> Digest(st), issuedAt |-> st.issuedAt]
      /\ UNCHANGED <<root, terminal>>
  BY Zenon DEF AdoptTransition
<1>3. head'.key = st.nextKey
  BY <1>2
<1>4. Holder = st.previousKey /\ Holder' = st.nextKey
  BY <1>2, <1>3, Zenon DEF Holder
<1>5. /\ keys'[st.previousKey] = ReplacedStatus(st.reason) /\ keys'[st.nextKey] = "active"
      /\ \A k \in Keys : k # st.previousKey /\ k # st.nextKey => keys'[k] = keys[k]
  BY <1>1, <1>2, Zenon
<1> HIDE DEF st
<1>6. st.nextKey \notin Spent \cup {st.previousKey}
  BY Zenon DEF Spent, st
<1>7. Spent' = Spent \cup {st.previousKey}
  <2>1. ASSUME NEW k \in Keys
        PROVE  keys'[k] \in {"retired", "compromised"} <=>
                  keys[k] \in {"retired", "compromised"} \/ k = st.previousKey
    <3>1. CASE k = st.previousKey
      BY <1>1, <1>5, <3>1, Zenon
    <3>2. CASE k = st.nextKey
      BY <1>5, <1>6, <3>2, Zenon DEF Spent
    <3>3. CASE k # st.previousKey /\ k # st.nextKey
      BY <1>5, <3>3, Zenon
    <3> QED
      BY <3>1, <3>2, <3>3, Zenon
  <2> QED
    BY <1>1, <2>1, Zenon DEF Spent
<1>8. Authority!HandOver(st.nextKey)
  BY <1>1, <1>2, <1>4, <1>6, <1>7, Zenon DEF Authority!HandOver, Spent
<1> QED
  BY <1>1, <1>8, Zenon DEF Authority!Next

\* The terminal revocation ends it.
LEMMA AuthorityEnds ==
    ASSUME IInv, NEW s \in Sessions, NEW now, CommitTerminalPersonaRevocation(s, now)
    PROVE  Authority!Next
<1> DEFINE st == sess[s].proof.statement
<1>1. /\ terminal = NoRow /\ root # NoRow /\ head # NoRow
      /\ st.previousKey = head.key /\ ActiveKeys = {head.key}
      /\ keys' = [keys EXCEPT ![st.previousKey] = ReplacedStatus(st.reason)]
      /\ terminal' = [statement |-> st, wrapper |-> sess[s].proof.wrapper, committedAt |-> now]
  BY Zenon DEF CommitTerminalPersonaRevocation, IntentAtHead, VerifiedSnapshot, ValidateLiveChainKeys
<1>2. terminal' # NoRow
  BY <1>1 DEF NoRow
<1>3. /\ head.key \in Keys /\ head.key # None /\ keys[head.key] = "active"
      /\ keys \in [Keys -> Statuses]
      /\ ReplacedStatus(st.reason) \in {"retired", "compromised"}
  BY <1>1, StoreAssumption, Zenon DEF ActiveKeys, IInv, TypeOK, ReplacedStatus
<1>4. Holder = head.key /\ Holder' = None
  BY <1>1, <1>2, Zenon DEF Holder
<1>5. Spent' = Spent \cup {head.key}
  <2>1. \A k \in Keys : keys'[k] = IF k = head.key THEN ReplacedStatus(st.reason) ELSE keys[k]
    BY <1>1, <1>3, Zenon
  <2> HIDE DEF st
  <2> QED
    BY <1>3, <2>1, Zenon DEF Spent
<1>6. Authority!End
  BY <1>1, <1>2, <1>3, <1>4, <1>5, Zenon DEF Authority!End, Spent
<1> QED
  BY <1>6, Zenon DEF Authority!Next

\* Every step of the store is a step of PersonaAuthority or none at all.
LEMMA StepImplements ==
    ASSUME IInv, [Next]_vars
    PROVE  [Authority!Next]_(Authority!authorityVars)
<1>1. CASE UNCHANGED <<keys, root, head, terminal>>
  BY <1>1, AuthorityStutters, Zenon DEF Spent, Holder
<1>2. CASE KeyStep
  <2> PICK k \in Keys, now \in Times :
         \/ EnrollKey(k, now)
         \/ \E reason \in {"Routine", "Recovery", "Compromise"} : RotateKey(k, reason, now)
         \/ MarkKeyCompromised(k, now)
         \/ BindSigningReference(k, now)
         \/ UnbindSigningReference(k, now)
         \/ \E issuedAt \in IssueTimes : RecordContinuityRoot(k, issuedAt, now)
    BY <1>2, Zenon DEF KeyStep
  <2>1. CASE root = NoRow /\ UNCHANGED <<root, terminal>>
    BY <2>1, AuthorityPrepares, Zenon DEF Authority!Next
  <2>2. CASE \/ EnrollKey(k, now)
             \/ \E reason \in {"Routine", "Recovery", "Compromise"} : RotateKey(k, reason, now)
    BY <2>1, <2>2, Zenon DEF EnrollKey, RotateKey, ContinuityUnmanaged
  <2>3. CASE BindSigningReference(k, now) \/ UnbindSigningReference(k, now)
    BY <1>1, <2>3, Zenon DEF BindSigningReference, UnbindSigningReference
  <2>4. CASE \E issuedAt \in IssueTimes : RecordContinuityRoot(k, issuedAt, now)
    BY <2>4, AuthorityEstablished, Zenon
  <2>5. CASE MarkKeyCompromised(k, now) /\ root # NoRow
    <3>1. /\ keys[k] \in {"active", "retired"} /\ terminal = NoRow /\ VerifiedSnapshot
          /\ ~ (keys[k] = "active" /\ head.key = k)
          /\ keys' = [keys EXCEPT ![k] = "compromised"]
          /\ UNCHANGED <<root, head, terminal>>
      BY <2>5, Zenon DEF MarkKeyCompromised, RequireNonterminal, ValidAuthorizationState,
                    RequiresJournal
    <3>2. ActiveKeys = {head.key}
      BY <3>1, Zenon DEF VerifiedSnapshot, ValidateLiveChainKeys
    <3>3. keys[k] = "retired" /\ keys \in [Keys -> Statuses]
      BY <3>1, <3>2, Zenon DEF ActiveKeys, IInv, TypeOK
    <3>4. Spent' = Spent
      BY <3>1, <3>3, Zenon DEF Spent
    <3> QED
      BY <3>1, <3>4, AuthorityStutters, Zenon DEF Holder
  <2> QED
    BY <2>1, <2>2, <2>3, <2>4, <2>5, Zenon DEF MarkKeyCompromised
<1>3. ASSUME NEW s \in Sessions, SessionStep(s) PROVE [Authority!Next]_(Authority!authorityVars)
  <2>1. CASE QuietStep(s)
    BY <1>1, <2>1, QuietStepTypes, Zenon DEF storeVars
  <2>2. ASSUME NEW now \in Times, NEW kind \in {"Routine", "Recovery"}, Carries(s, kind),
               CommitRoutineTransition(s, now) \/ CommitRecoveryTransition(s, now)
        PROVE  [Authority!Next]_(Authority!authorityVars)
    <3> DEFINE st == sess[s].proof.statement
    <3>1. /\ VerifiedSnapshot /\ root # NoRow /\ st.previousKey = head.key
          /\ keys[st.previousKey] = "active" /\ keys[st.nextKey] = "unknown"
          /\ AdoptTransition(s, sess[s].proof, now)
      BY <2>2, Zenon DEF CommitRoutineTransition, CommitRecoveryTransition, IntentAtHead,
                    RequireUnknownKey, VerifiedSnapshot
    <3>2. IsStatement(st) /\ ~ IsTerminal(st)
      BY <2>2, CarriedProof, Zenon DEF IInv, IsTerminal
    <3>3. terminal = NoRow
      BY <3>1, <3>2, ActiveMeansLive, Zenon DEF IsStatement
    <3> QED
      BY <3>1, <3>2, <3>3, AuthorityHandedOver, Zenon
  <2>3. CASE \E now \in Times : CommitTerminalPersonaRevocation(s, now)
    BY <2>3, AuthorityEnds, Zenon
  <2>4. CASE \E now \in Times : CommitRoutineTransition(s, now) \/ CommitRecoveryTransition(s, now)
    BY <2>2, <2>4, Zenon DEF CommitRoutineTransition, CommitRecoveryTransition
  <2> QED
    BY <1>3, <2>1, <2>3, <2>4, Zenon DEF SessionStep, QuietStep
<1>4. CASE RecordRecoveryPolicyChain
  BY <1>1, <1>4, Zenon DEF RecordRecoveryPolicyChain
<1>5. CASE SignStep
  BY <1>1, <1>5, SignStepTypes, Zenon DEF storeVars
<1>6. CASE UNCHANGED vars
  BY <1>1, <1>6, Zenon DEF vars
<1> QED
  BY <1>2, <1>3, <1>4, <1>5, <1>6, Zenon DEF Next

\* The store implements PersonaAuthority: whatever its tables go through, the
\* authority to sign for a rooted persona only passes, in one step, to a key
\* that never held it, or ends for good.
THEOREM StoreImplementsAuthority == Spec => ImplementsAuthority
<1>1. Init => Authority!Init
  BY Zenon DEF Init, Holder, Authority!Init
<1>2. IInv /\ [Next]_vars => [Authority!Next]_(Authority!authorityVars)
  BY StepImplements, Zenon
<1> QED
  BY <1>1, <1>2, Invariance, PTL DEF Spec, ImplementsAuthority, Authority!Spec

-----------------------------------------------------------------------------
(* A persona can always be ended *)

\* What the verified snapshot says of the journal a terminal revocation extends.
LEMMA LiveChain ==
    ASSUME IInv, root # NoRow, terminal = NoRow, policies # << >>
    PROVE  /\ VerifyRecoveryAwareChain(root.statement, TransitionStatements, PolicyStatements)
           /\ LiveTransitions = TransitionStatements
           /\ Len(journal) \in Nat /\ Len(TransitionStatements) = Len(journal)
           /\ Len(policies) \in Nat \ {0} /\ Len(PolicyStatements) = Len(policies)
           /\ PolicyStatements[Len(policies)] = LatestPolicy
           /\ \A i \in 1 .. Len(journal) : TransitionStatements[i] = journal[i].statement
           /\ ~ TerminallyRevoked(TransitionStatements)
           /\ Len(journal) <= MAX_CONTINUITY_TRANSITIONS
           /\ Len(policies) <= MAX_RECOVERY_POLICY_VERSIONS
<1>1. /\ VerifiedSnapshot /\ IsSequence(journal) /\ IsSequence(policies)
  BY Zenon DEF IInv, StoreAlwaysVerifies, TypeOK
<1>2. LiveTransitions = TransitionStatements
  BY Zenon DEF LiveTransitions
<1>3. /\ Len(TransitionStatements) = Len(journal)
      /\ \A i \in 1 .. Len(journal) : TransitionStatements[i] = journal[i].statement
  BY <1>1, StatementsAre, Zenon DEF TransitionStatements
<1>4. Len(journal) \in Nat
  BY <1>1 DEF IsSequence
<1>5. /\ Len(policies) \in Nat /\ Len(PolicyStatements) = Len(policies)
      /\ PolicyStatements # << >>
      /\ \A v \in 1 .. Len(policies) : PolicyStatements[v] = policies[v].statement
  BY <1>1, PolicyStatementsAre, Zenon
<1>6. VerifyRecoveryAwareChain(root.statement, TransitionStatements, PolicyStatements)
  BY <1>1, <1>2, <1>5, Zenon DEF VerifiedSnapshot, VerifyChain
<1>7. Len(PolicyStatements) \in 1 .. MAX_RECOVERY_POLICY_VERSIONS
  BY <1>6, Zenon DEF VerifyRecoveryAwareChain, VerifyRecoveryPolicySequence
<1>8. Len(policies) \in Nat \ {0} /\ Len(policies) <= MAX_RECOVERY_POLICY_VERSIONS
      /\ Len(policies) \in 1 .. Len(policies)
  BY <1>5, <1>7, LimitsAssumption
<1>9. PolicyStatements[Len(policies)] = LatestPolicy
  BY <1>5, <1>8, Zenon DEF LatestPolicy
<1>10. ~ TerminallyRevoked(TransitionStatements)
  BY <1>1, <1>3, Zenon DEF TerminallyRevoked, VerifiedSnapshot, ValidateStoredTransitionRows
<1>11. Len(journal) <= MAX_CONTINUITY_TRANSITIONS
  BY <1>3, <1>6, <1>10, Zenon DEF VerifyRecoveryAwareChain
<1> QED
  BY <1>2, <1>3, <1>4, <1>5, <1>6, <1>8, <1>9, <1>10, <1>11, Zenon

\* The head's key is one the chain put online, so no policy names it as one of
\* its own authorities.
LEMMA HeadKeyIsOnline ==
    ASSUME IInv, root # NoRow, terminal = NoRow, policies # << >>
    PROVE  head.key \notin LatestPolicy.authorities
<1> DEFINE n == Len(journal)
           ts == TransitionStatements
<1>1. /\ head.key = TipKey(root.statement, ts, n)
      /\ VerifyRecoveryAwareChain(root.statement, ts, PolicyStatements)
      /\ n \in Nat /\ Len(ts) = n /\ ~ TerminallyRevoked(ts)
      /\ Len(policies) \in Nat \ {0} /\ Len(PolicyStatements) = Len(policies)
      /\ PolicyStatements[Len(policies)] = LatestPolicy
  BY LiveChain, Zenon DEF IInv, StoreAlwaysVerifies, VerifiedSnapshot, ValidateLiveChainHead
<1>2. n = 0 \/ n \in 1 .. Len(ts)
  BY <1>1
<1> HIDE DEF n, ts
<1>3. head.key \in OnlineKeys(root.statement, ts)
  BY <1>1, <1>2, Zenon DEF OnlineKeys, TipKey, TerminallyRevoked
<1>4. Len(policies) \in 1 .. Len(PolicyStatements)
  BY <1>1
<1>5. LatestPolicy.authorities \cap OnlineKeys(root.statement, ts) = {}
  BY <1>1, <1>4, Zenon DEF VerifyRecoveryAwareChain
<1> QED
  BY <1>3, <1>5, Zenon

\* The latest policy is bound to the root and checkpoints an entry of the journal.
LEMMA LatestPolicyFits ==
    ASSUME IInv, root # NoRow, terminal = NoRow, policies # << >>
    PROVE  /\ LatestPolicy.root = Digest(root.statement)
           /\ LatestPolicy.checkpoint.sequence \in 0 .. Len(journal)
<1>1. /\ VerifyRecoveryAwareChain(root.statement, TransitionStatements, PolicyStatements)
      /\ Len(journal) \in Nat /\ Len(TransitionStatements) = Len(journal)
      /\ Len(policies) \in Nat \ {0} /\ Len(PolicyStatements) = Len(policies)
      /\ PolicyStatements[Len(policies)] = LatestPolicy
  BY LiveChain, Zenon
<1>2. Len(policies) \in 1 .. Len(PolicyStatements)
  BY <1>1
<1>3. /\ ValidateRecoveryPolicyStatement(LatestPolicy)
      /\ ValidatePolicyRootBinding(root.statement, LatestPolicy)
      /\ PolicyCheckpointMatches(TransitionStatements, LatestPolicy)
  BY <1>1, <1>2, Zenon DEF VerifyRecoveryAwareChain, VerifyRecoveryPolicySequence
<1>4. LatestPolicy.checkpoint.sequence \in 0 .. MAX_CONTINUITY_TRANSITIONS
  BY <1>3, Zenon DEF ValidateRecoveryPolicyStatement, ValidateRecoveryCheckpoint
<1>5. \/ LatestPolicy.checkpoint.sequence = 0
      \/ LatestPolicy.checkpoint.sequence <= Len(journal)
  BY <1>1, <1>3, Zenon DEF PolicyCheckpointMatches
<1>6. LatestPolicy.root = Digest(root.statement)
  BY <1>3, Zenon DEF ValidatePolicyRootBinding
<1> QED
  BY <1>1, <1>4, <1>5, <1>6, LimitsAssumption

\* In a store that verifies, a terminal revocation on the head that the latest
\* policy authorizes passes every check of its commit.
LEMMA EndingPasses == IInv => CanAlwaysEnd
<1> SUFFICES ASSUME IInv, root # NoRow, terminal = NoRow, policies # << >>,
                    Authorizes(LatestPolicy, "TerminalRevocation"), NEW t \in Times,
                    t >= head.issuedAt, PolicyActiveAt(LatestPolicy, t)
             PROVE  LET st == StatementOn(HeadTip, "TerminalRevocation", None, t, None,
                                          Digest(LatestPolicy), "Cessation")
                    IN /\ BoundsWithReservation(1, 0)
                       /\ IntentAtHead(st) /\ IntentUsesLatestPolicy(st)
                       /\ TerminalExtension(root.statement, LiveTransitions,
                                            PolicyStatements, st)
                       /\ ActiveKeys \ {st.previousKey} = {}
  BY Zenon DEF CanAlwaysEnd
<1> DEFINE n == Len(journal)
           ts == TransitionStatements
           st == StatementOn(HeadTip, "TerminalRevocation", None, t, None,
                             Digest(LatestPolicy), "Cessation")
<1>1. /\ LiveTransitions = ts /\ n \in Nat /\ Len(ts) = n
      /\ n <= MAX_CONTINUITY_TRANSITIONS /\ ~ TerminallyRevoked(ts)
      /\ Len(policies) <= MAX_RECOVERY_POLICY_VERSIONS /\ Len(policies) \in Nat
      /\ Len(PolicyStatements) = Len(policies)
      /\ PolicyStatements[Len(policies)] = LatestPolicy
      /\ \A i \in 1 .. n : ts[i] = journal[i].statement
  BY LiveChain
<1>2. /\ head.sequence = n /\ head.key = TipKey(root.statement, ts, n)
      /\ head.last = LastDigest(ts, n)
      /\ head.issuedAt = LastIssuedAt(root.statement, ts, n)
      /\ ActiveKeys = {head.key}
      /\ policyHead # NoRow /\ policyHead.digest = Digest(LatestPolicy)
  BY Zenon DEF IInv, StoreAlwaysVerifies, VerifiedSnapshot, ValidateLiveChainHead,
               ValidateLiveChainKeys, ValidateStoredRecoveryPolicies
<1>3. /\ st.kind = "TerminalRevocation" /\ st.root = Digest(root.statement)
      /\ st.sequence = head.sequence + 1 /\ st.previous = head.last
      /\ st.previousKey = head.key /\ st.issuedAt = t
      /\ st.policy = Digest(LatestPolicy)
  BY DEF StatementOn, HeadTip
<1>4. (n = 0) <=> (head.last = None)
  <2>1. CASE n = 0
    BY <1>2, <2>1, Zenon DEF LastDigest
  <2>2. CASE n # 0
    <3>1. n \in 1 .. n
      BY <1>1, <2>2
    <3>2. ts[n] # None
      BY <1>1, <3>1, Zenon DEF IInv, TypeOK, IsStatement
    <3> QED
      BY <1>2, <2>2, <3>2, Zenon DEF LastDigest, Digest
  <2> QED
    BY <2>1, <2>2
<1> HIDE DEF n, ts, st
<1>5. BoundsWithReservation(1, 0)
  BY <1>1, LimitsAssumption DEF BoundsWithReservation, MAX_TERMINAL_PERSONA_REVOCATION_SEQUENCE
<1>6. IntentAtHead(st) /\ IntentUsesLatestPolicy(st)
  BY <1>2, <1>3, Zenon DEF IntentAtHead, IntentUsesLatestPolicy
<1>7. ValidateStatement(st)
  <2>1. /\ st.sequence >= 1 /\ ((st.sequence = 1) <=> (n = 0))
        /\ st.sequence <= MAX_TERMINAL_PERSONA_REVOCATION_SEQUENCE
    BY <1>1, <1>2, <1>3, LimitsAssumption DEF MAX_TERMINAL_PERSONA_REVOCATION_SEQUENCE
  <2>2. (st.sequence = 1) <=> (st.previous = None)
    BY <1>3, <1>4, <2>1, Zenon
  <2> QED
    BY <1>3, <2>1, <2>2 DEF ValidateStatement
<1>8. LinksAt(root.statement, ts, Len(ts), st)
  BY <1>1, <1>2, <1>3, Zenon DEF LinksAt
<1>9. st.sequence > LatestPolicy.checkpoint.sequence
  BY <1>1, <1>2, <1>3, LatestPolicyFits DEF n
<1>10. ValidateTerminalPersonaRevocationPolicyBinding(LatestPolicy, st)
  BY <1>3, LatestPolicyFits, HeadKeyIsOnline, Zenon
     DEF ValidateTerminalPersonaRevocationPolicyBinding
<1>11. TerminalExtension(root.statement, LiveTransitions, PolicyStatements, st)
  BY <1>1, <1>3, <1>7, <1>8, <1>9, <1>10, Zenon DEF TerminalExtension
<1>12. ActiveKeys \ {st.previousKey} = {}
  BY <1>2, <1>3, Zenon
<1> QED
  BY <1>5, <1>6, <1>11, <1>12, Zenon DEF st

\* At every time the latest policy allows it, a live persona can be ended: a
\* journal at its limit, a full key table or a lost head key never stands in
\* the way of the terminal revocation, whatever the limits are.
THEOREM EndingStaysPossible == Spec => []CanAlwaysEnd
BY Invariance, EndingPasses, PTL
=============================================================================
