----------------------------- MODULE PersonaStore -----------------------------
(***************************************************************************)
(* The persona store (crate a-quo-store): one persona's keys, signing      *)
(* references, continuity root, transition journal, recovery policies and  *)
(* terminal revocation, in one SQLite database that several processes (the *)
(* consent daemon, command-line tools) write.                              *)
(*                                                                         *)
(* A transaction is one action: SQLite serialises writers, and a crash     *)
(* inside a transaction leaves no trace of it.  What is not atomic is the  *)
(* code around the transactions: a commit first verifies its proof outside *)
(* the write transaction and a session remembers what it saw there, while  *)
(* the clock moves and other sessions commit.  A session that fails any    *)
(* check, crashes or is abandoned returns to idle (SessionEnds).           *)
(*                                                                         *)
(* There is no clock variable.  Every reading of the system clock is an    *)
(* arbitrary element of Times, so the clock may stand still or jump in     *)
(* either direction between readings; the code's own comparisons decide    *)
(* which readings it accepts.                                              *)
(***************************************************************************)
EXTENDS Continuity, FiniteSets

CONSTANTS
    Keys,          \* key fingerprints
    Sessions,      \* connections to the database
    MaxTime,       \* bound on clock readings
    IssueTimes,    \* times statements may carry as issued_at
    PolicyTerms,   \* what recovery policies may say: records
                   \* [issuedAt, expiresAt, schema, capabilities, authorities]
    CeremonyEnds,  \* expires_at of recovery ceremonies; may contain None
    Wrappers,      \* distinct encodings of signatures over one statement
    MaxProofs,     \* bound on the number of signed transition proofs
    MAX_STORED_PERSONA_KEYS   \* 4097 in lib.rs

Times == 0 .. MaxTime

ASSUME StoreAssumption ==
    /\ MaxTime \in Nat
    /\ IssueTimes \subseteq Times
    /\ \A t \in PolicyTerms : t.issuedAt \in Nat /\ t.expiresAt \in Nat
    /\ MaxProofs \in Nat
    /\ MAX_STORED_PERSONA_KEYS \in Nat
    /\ None \notin Keys /\ None \notin Times /\ None \notin Sessions

VARIABLES
    keys,        \* key_records: the status of each key, "unknown" if no row
    refs,        \* signing_references: keys with a local signing locator
    root,        \* persona_continuity_roots: NoRow or the recorded root
    journal,     \* persona_continuity_transitions: the sequence of rows
    head,        \* persona_continuity_heads: NoRow or the accepted head
    policies,    \* persona_recovery_policies: the sequence of rows
    policyHead,  \* persona_recovery_policy_heads: NoRow or the latest policy
    terminal,    \* persona_terminal_revocations: NoRow or the one row
    archive,     \* persona_continuity_archives: NoRow or the imported backup
    receipt,     \* continuity materialization receipt: NoRow or sealed
    audit,       \* the latest timestamp any row of the persona carries
    proofs,      \* transition proofs signed so far, anywhere
    lock,        \* None or the session inside a long write transaction
    sess,        \* what each session is doing
    told         \* proofs some session submitted and was told are committed

storeVars == <<keys, refs, root, journal, head, policies, policyHead, terminal,
               archive, receipt, audit>>
vars == <<keys, refs, root, journal, head, policies, policyHead, terminal,
          archive, receipt, audit, proofs, lock, sess, told>>

\* A table that holds at most one row per persona holds this when it has none.
NoRow == << >>

Statuses == {"unknown", "active", "retired", "compromised"}
Idle == [phase |-> "idle"]

ActiveKeys == {k \in Keys : keys[k] = "active"}
KnownKeys == {k \in Keys : keys[k] # "unknown"}

-----------------------------------------------------------------------------
(* The live continuity snapshot and its validation *)

PolicyStatements == [v \in 1 .. Len(policies) |-> policies[v].statement]
LatestPolicy == policies[Len(policies)].statement
TransitionStatements == [i \in 1 .. Len(journal) |-> journal[i].statement]

\* The transitions of a snapshot: the journal with the terminal overlay last.
LiveTransitions ==
    IF terminal = NoRow THEN TransitionStatements
    ELSE Append(TransitionStatements, terminal.statement)

CeremonyActiveAt(expiresAt, t) == expiresAt # None => t < expiresAt

\* Rows up to this sequence were copied from an authenticated archive.
ArchivePrefix == IF receipt = NoRow THEN 0 ELSE receipt.sourceSequence

ValidateStoredTransitionRows ==
    /\ \A i \in 1 .. Len(journal) :
          LET row == journal[i] IN
          /\ ~ IsTerminal(row.statement)
          /\ row.statement.kind = "Recovery" =>
                /\ row.committedAt >= row.statement.issuedAt
                /\ i > ArchivePrefix =>
                      CeremonyActiveAt(row.statement.expiresAt, row.committedAt)
    /\ terminal # NoRow =>
          /\ IsTerminal(terminal.statement)
          /\ terminal.committedAt >= terminal.statement.issuedAt

ValidateStoredRecoveryPolicies ==
    /\ (policyHead = NoRow) <=> (policies = << >>)
    /\ policies # << >> =>
          /\ \A v \in 1 .. Len(policies) :
                policies[v].recordedAt >= policies[v].statement.issuedAt
          /\ policyHead.revision = Len(policies)
          /\ policyHead.digest = Digest(LatestPolicy)
          /\ policyHead.recordedAt = policies[Len(policies)].recordedAt

RecordedPolicyOf(st) ==
    {v \in 1 .. Len(policies) : Digest(policies[v].statement) = st.policy}

ValidateLiveObservationOrder ==
    /\ \A v \in 1 .. Len(policies) :
          LET sequence == policies[v].statement.checkpoint.sequence IN
          /\ policies[v].recordedAt >=
                IF v = 1 THEN root.recordedAt ELSE policies[v - 1].recordedAt
          /\ sequence > 0 => /\ sequence <= Len(journal)
                             /\ policies[v].recordedAt >= journal[sequence].committedAt
    /\ \A i \in 1 .. Len(journal) :
          /\ journal[i].committedAt >=
                IF i = 1 THEN root.recordedAt ELSE journal[i - 1].committedAt
          /\ journal[i].statement.kind = "Recovery" =>
                \A v \in RecordedPolicyOf(journal[i].statement) :
                    journal[i].committedAt >= policies[v].recordedAt
    /\ terminal # NoRow =>
          /\ terminal.committedAt >=
                IF journal = << >> THEN root.recordedAt
                                   ELSE journal[Len(journal)].committedAt
          /\ \A v \in RecordedPolicyOf(terminal.statement) :
                terminal.committedAt >= policies[v].recordedAt

ValidateLiveChainHead ==
    LET n == Len(journal) IN
    /\ head.revision = n
    /\ head.sequence = n
    /\ head.key = TipKey(root.statement, TransitionStatements, n)
    /\ head.last = LastDigest(TransitionStatements, n)
    /\ head.issuedAt = LastIssuedAt(root.statement, TransitionStatements, n)

ValidateLiveChainKeys ==
    /\ OnlineKeys(root.statement, TransitionStatements) \subseteq KnownKeys
    /\ \A i \in 1 .. Len(journal) :
          LET st == journal[i].statement IN
          st.kind = "Recovery" /\ st.reason = "Compromise"
              => keys[st.previousKey] = "compromised"
    /\ IF terminal = NoRow THEN ActiveKeys = {head.key}
       ELSE /\ ActiveKeys = {}
            /\ keys[head.key] = IF terminal.statement.reason = "Compromise"
                                THEN "compromised" ELSE "retired"
            /\ head.key \notin refs

\* verified_live_continuity_snapshot: everything a snapshot must pass before
\* any operation may rely on it.
VerifiedSnapshot ==
    /\ root # NoRow
    /\ head # NoRow
    /\ VerifyChain(root.statement, LiveTransitions, PolicyStatements)
    /\ ValidateStoredTransitionRows
    /\ ValidateStoredRecoveryPolicies
    /\ ValidateLiveObservationOrder
    /\ ValidateLiveChainHead
    /\ ValidateLiveChainKeys

\* require_stored_live_continuity_bounds_with_reservation
BoundsWithReservation(reservedTransitions, reservedPolicies) ==
    /\ Len(LiveTransitions) + reservedTransitions
          <= MAX_TERMINAL_PERSONA_REVOCATION_SEQUENCE
    /\ Len(policies) + reservedPolicies <= MAX_RECOVERY_POLICY_VERSIONS

-----------------------------------------------------------------------------
(* Guards shared by the operations.  Each definition named Slip... is a     *)
(* deliberately wrong variant of the one that follows it; none is used.    *)

\* Nothing else may write while a session holds an IMMEDIATE transaction open.
SlipDeferredTransaction == TRUE
CanWrite == lock = None

SlipTerminalNotChecked == TRUE
RequireNonterminal == terminal = NoRow

SlipOnlyArchivesAreManaged == archive = NoRow
SlipOnlyRootsAreManaged == root = NoRow
ContinuityUnmanaged == root = NoRow /\ archive = NoRow

SlipEvidenceIsUsable == TRUE
\* An archive without a live root is evidence only, and a hydrated one is final.
RequireNoEvidenceArchive ==
    archive # NoRow => root # NoRow /\ receipt.method # "TerminalHydration"

SlipClockTrusted(now) == TRUE
RequireMonotonicAuditTime(now) == now >= audit

SlipInactiveKeyIsUnknown(k) == keys[k] # "active"
RequireUnknownKey(k) == keys[k] = "unknown"

RoomForKey == Cardinality(KnownKeys) < MAX_STORED_PERSONA_KEYS

\* validate_persona_authorization_state: a rooted persona verifies in full.
ValidAuthorizationState == root # NoRow => VerifiedSnapshot

\* The active head key may only be given up by a journal entry.
SlipHeadKeyIsOrdinary(k) == FALSE
RequiresJournal(k) == root # NoRow /\ keys[k] = "active" /\ head.key = k

ReplacedStatus(reason) == IF reason = "Compromise" THEN "compromised" ELSE "retired"

-----------------------------------------------------------------------------
(* Keys and signing references *)

EnrollKey(k, now) ==
    /\ CanWrite
    /\ ContinuityUnmanaged
    /\ RequireMonotonicAuditTime(now)
    /\ RequireUnknownKey(k)
    /\ RoomForKey
    /\ keys' = [keys EXCEPT ![k] = "active"]
    /\ audit' = now
    /\ UNCHANGED <<refs, root, journal, head, policies, policyHead, terminal,
                   archive, receipt, proofs, lock, sess, told>>

\* Outside continuity a rotation retires (or, for reason compromise, marks
\* compromised) every active key at once.  Signing references stay.
RotateKey(k, reason, now) ==
    /\ CanWrite
    /\ ContinuityUnmanaged
    /\ RequireMonotonicAuditTime(now)
    /\ RequireUnknownKey(k)
    /\ RoomForKey
    /\ ActiveKeys # {}
    /\ keys' = [j \in Keys |->
                   IF j = k THEN "active"
                   ELSE IF keys[j] = "active" THEN ReplacedStatus(reason) ELSE keys[j]]
    /\ audit' = now
    /\ UNCHANGED <<refs, root, journal, head, policies, policyHead, terminal,
                   archive, receipt, proofs, lock, sess, told>>

MarkKeyCompromised(k, now) ==
    /\ CanWrite
    /\ keys[k] \in {"active", "retired"}
    /\ RequireNonterminal
    /\ archive # NoRow /\ root = NoRow => keys[k] # "active"
    /\ ValidAuthorizationState
    /\ RequireMonotonicAuditTime(now)
    /\ ~ RequiresJournal(k)
    /\ keys' = [keys EXCEPT ![k] = "compromised"]
    /\ audit' = now
    /\ UNCHANGED <<refs, root, journal, head, policies, policyHead, terminal,
                   archive, receipt, proofs, lock, sess, told>>

BindSigningReference(k, now) ==
    /\ CanWrite
    /\ RequireNoEvidenceArchive
    /\ RequireNonterminal
    /\ keys[k] = "active"
    /\ RequireMonotonicAuditTime(now)
    /\ refs' = refs \cup {k}
    /\ audit' = now
    /\ UNCHANGED <<keys, root, journal, head, policies, policyHead, terminal,
                   archive, receipt, proofs, lock, sess, told>>

UnbindSigningReference(k, now) ==
    /\ CanWrite
    /\ RequireNonterminal
    /\ RequireMonotonicAuditTime(now)
    /\ k \in refs
    /\ refs' = refs \ {k}
    /\ audit' = now
    /\ UNCHANGED <<keys, root, journal, head, policies, policyHead, terminal,
                   archive, receipt, proofs, lock, sess, told>>

\* with_active_key_authorization holds its IMMEDIATE transaction while the
\* caller's closure signs; only then does the session end and the lock go.
WithActiveKeyAuthorization(s, k) ==
    /\ CanWrite
    /\ sess[s] = Idle
    /\ RequireNoEvidenceArchive
    /\ RequireNonterminal
    /\ ValidAuthorizationState
    /\ keys[k] = "active"
    /\ lock' = s
    /\ sess' = [sess EXCEPT ![s] = [phase |-> "authorized", key |-> k]]
    /\ UNCHANGED <<storeVars, proofs, told>>

-----------------------------------------------------------------------------
(* The continuity root and the recovery policies *)

RecordContinuityRoot(k, issuedAt, now) ==
    /\ CanWrite
    /\ RequireNoEvidenceArchive
    /\ RequireNonterminal
    /\ root = NoRow
    /\ RequireMonotonicAuditTime(now)
    /\ ActiveKeys = {k}
    /\ root' = [statement |-> [key |-> k, issuedAt |-> issuedAt], recordedAt |-> now]
    /\ head' = [revision |-> 0, sequence |-> 0, key |-> k, last |-> None,
                issuedAt |-> issuedAt]
    /\ audit' = now
    /\ UNCHANGED <<keys, refs, journal, policies, policyHead, terminal,
                   archive, receipt, proofs, lock, sess, told>>

\* A policy statement that says t and follows before (None for version 1).
PolicyStatement(t, before, sequence) ==
    [root |-> Digest(root.statement),
     version |-> IF before = None THEN 1 ELSE before.version + 1,
     previous |-> IF before = None THEN None ELSE Digest(before),
     checkpoint |-> [sequence |-> sequence,
                     digest |-> LastDigest(TransitionStatements, sequence)],
     issuedAt |-> t.issuedAt, expiresAt |-> t.expiresAt, schema |-> t.schema,
     capabilities |-> t.capabilities, authorities |-> t.authorities]

\* The new policies a caller may supply behind the recorded ones: one, or two
\* of which the first may already be expired or checkpoint an older transition.
PolicySuffixes ==
    LET before == IF policies = << >> THEN None ELSE LatestPolicy
        Following(p) == {PolicyStatement(t, p, i) :
                            t \in PolicyTerms, i \in 0 .. Len(journal)}
    IN {<<p>> : p \in Following(before)}
       \cup UNION {{<<p, q>> : q \in Following(p)} : p \in Following(before)}

PolicyRows(suffix, now) ==
    [i \in 1 .. Len(suffix) |-> [statement |-> suffix[i], recordedAt |-> now]]

\* The clock is read three times: when the snapshot is checked, for the rows'
\* recorded_at (now), and just before the commit.
RecordRecoveryPolicyChain ==
    /\ CanWrite
    /\ RequireNoEvidenceArchive
    /\ RequireNonterminal
    /\ VerifiedSnapshot
    /\ \E suffix \in PolicySuffixes, now \in Times :
        LET latest == suffix[Len(suffix)] IN
        /\ BoundsWithReservation(0, Len(suffix))
        /\ latest.checkpoint = [sequence |-> head.sequence, digest |-> head.last]
        /\ PolicyActiveAt(latest, now)
        /\ RequireMonotonicAuditTime(now)
        /\ VerifyRecoveryAwareChain(root.statement, TransitionStatements,
                                    PolicyStatements \o suffix)
        /\ \E checked, committed \in Times :
              /\ checked <= now /\ now <= committed
              /\ PolicyActiveAt(latest, committed)
        /\ policies' = policies \o PolicyRows(suffix, now)
        /\ policyHead' = [revision |-> Len(policies) + Len(suffix),
                          digest |-> Digest(latest), recordedAt |-> now]
        /\ audit' = now
        /\ UNCHANGED <<keys, refs, root, journal, head, terminal,
                       archive, receipt, proofs, lock, sess, told>>

-----------------------------------------------------------------------------
(* Signing.  Statements are signed outside the store: by the daemon with   *)
(* the head key and its successor, by recovery authorities, or in a copy   *)
(* of the store that has grown a branch of its own.  All that a proof must *)
(* be is a valid statement that follows the live head or another proof.    *)

HeadTip == [sequence |-> head.sequence, digest |-> head.last, key |-> head.key]
Tips == {HeadTip} \cup
        {[sequence |-> p.statement.sequence, digest |-> Digest(p.statement),
          key |-> p.statement.nextKey] :
            p \in {q \in proofs : ~ IsTerminal(q.statement)}}

StatementOn(tip, kind, nextKey, issuedAt, expiresAt, policy, reason) ==
    [kind |-> kind, root |-> Digest(root.statement), sequence |-> tip.sequence + 1,
     previous |-> tip.digest, previousKey |-> tip.key, nextKey |-> nextKey,
     issuedAt |-> issuedAt, expiresAt |-> expiresAt, policy |-> policy,
     reason |-> reason]

Sign(statement, wrapper) ==
    /\ root # NoRow
    /\ Cardinality(proofs) < MaxProofs
    /\ statement # None          \* what is signed is a statement
    /\ ValidateStatement(statement)
    /\ proofs' = proofs \cup {[statement |-> statement, wrapper |-> wrapper]}
    /\ UNCHANGED <<storeVars, lock, sess, told>>

SignRoutine(tip, k, t, wrapper) ==
    Sign(StatementOn(tip, "Routine", k, t, None, None, "Routine"), wrapper)

SignRecovery(tip, k, t, expiresAt, reason, wrapper) ==
    /\ policies # << >>
    /\ Sign(StatementOn(tip, "Recovery", k, t, expiresAt, Digest(LatestPolicy),
                        reason), wrapper)

SignTerminal(tip, t, reason, wrapper) ==
    /\ policies # << >>
    /\ Sign(StatementOn(tip, "TerminalRevocation", None, t, None,
                        Digest(LatestPolicy), reason), wrapper)

-----------------------------------------------------------------------------
(* Adopting a transition.  First the checks outside the write transaction, *)
(* then, possibly much later, the transaction itself.                      *)

Remember(s, p, t) == [sess EXCEPT ![s] = [phase |-> p.statement.kind, proof |-> p, at |-> t]]
Carries(s, kind) == sess[s] # Idle /\ sess[s].phase = kind

RoutineRowAt(sequence) ==
    sequence <= Len(journal) /\ journal[sequence].statement.kind = "Routine"

\* require_intent_at_head, and the same comparison in
\* require_recovery_intent_at_head and require_terminal_intent_at_head.
IntentAtHead(st) ==
    /\ st.root = Digest(root.statement)
    /\ st.sequence = head.sequence + 1
    /\ st.previous = head.last
    /\ st.previousKey = head.key
    /\ st.issuedAt >= head.issuedAt

IntentUsesLatestPolicy(st) ==
    policyHead # NoRow /\ st.policy = policyHead.digest

\* The clock readings of a threshold commit: verified before the transaction,
\* then live for its checks, recorded for the row's committed_at, and committed
\* just before COMMIT.  None may run backward, and policy and ceremony must be
\* active at each of them.
SlipWindowCheckedOnce(st, verified, recorded) ==
    /\ verified <= recorded /\ st.issuedAt <= recorded
    /\ CeremonyActiveAt(st.expiresAt, recorded)
WindowHolds(st, verified, recorded) ==
    /\ st.issuedAt <= recorded
    /\ PolicyActiveAt(LatestPolicy, recorded)
    /\ CeremonyActiveAt(st.expiresAt, recorded)
    /\ \E live, committed \in Times :
          /\ verified <= live /\ live <= recorded /\ recorded <= committed
          /\ CeremonyActiveAt(st.expiresAt, live)
          /\ CeremonyActiveAt(st.expiresAt, committed)
          /\ PolicyActiveAt(LatestPolicy, committed)

\* The effects that routine and recovery adoption share: the old key takes
\* its final status, the new one becomes active and bound, the row is
\* appended and the head moves, all in one transaction.
AdoptTransition(s, p, committedAt) ==
    LET st == p.statement IN
    /\ keys' = [keys EXCEPT ![st.previousKey] = ReplacedStatus(st.reason),
                            ![st.nextKey] = "active"]
    /\ refs' = refs \cup {st.nextKey}
    /\ journal' = Append(journal, [statement |-> st, wrapper |-> p.wrapper,
                                   committedAt |-> committedAt])
    /\ head' = [revision |-> head.revision + 1, sequence |-> st.sequence,
                key |-> st.nextKey, last |-> Digest(st), issuedAt |-> st.issuedAt]
    /\ audit' = committedAt
    /\ sess' = [sess EXCEPT ![s] = Idle]
    /\ told' = told \cup {p}
    /\ UNCHANGED <<root, policies, policyHead, terminal, archive, receipt, proofs, lock>>

\* A session is answered from what is already committed.
AnswerCommitted(s, p) ==
    /\ sess' = [sess EXCEPT ![s] = Idle]
    /\ told' = told \cup {p}
    /\ UNCHANGED <<storeVars, proofs, lock>>

(* Routine transitions *)

BeginRoutine(s, p) ==
    /\ sess[s] = Idle
    /\ p.statement.kind = "Routine"
    /\ RequireNoEvidenceArchive
    /\ RequireNonterminal
    /\ ~ RoutineRowAt(p.statement.sequence)
    /\ sess' = Remember(s, p, None)
    /\ UNCHANGED <<storeVars, proofs, lock, told>>

CommitRoutineTransition(s, now) ==
    LET p == sess[s].proof
        st == p.statement
    IN
    /\ Carries(s, "Routine")
    /\ CanWrite
    /\ ~ RoutineRowAt(st.sequence)
    /\ RequireUnknownKey(st.nextKey)
    /\ VerifiedSnapshot
    /\ BoundsWithReservation(1, 0)
    /\ head.sequence < MAX_CONTINUITY_TRANSITIONS
    /\ IntentAtHead(st)
    /\ RequireMonotonicAuditTime(now)
    /\ ChainExtension(root.statement, LiveTransitions, PolicyStatements, st)
    /\ keys[st.previousKey] = "active"
    /\ RoomForKey
    /\ AdoptTransition(s, p, now)

SlipSameStatementIsEnough(row, p) == row.statement = p.statement
SameProof(row, p) == row.statement = p.statement /\ row.wrapper = p.wrapper

\* The exact proof is already the journal's last row: from the lookup before
\* the write transaction or from the one inside it.  Other signatures over the
\* same statement are a conflict.
ReplayRoutine(s, p) ==
    LET st == p.statement IN
    /\ \/ sess[s] = Idle /\ RequireNoEvidenceArchive /\ RequireNonterminal
       \/ Carries(s, "Routine") /\ sess[s].proof = p /\ CanWrite
    /\ RoutineRowAt(st.sequence)
    /\ SameProof(journal[st.sequence], p)
    /\ VerifiedSnapshot
    /\ terminal = NoRow
    /\ head.sequence = st.sequence
    /\ AnswerCommitted(s, p)

(* Recovery transitions *)

\* The verification transaction, at clock reading t.
VerifyRecovery(s, p, t) ==
    LET st == p.statement IN
    /\ sess[s] = Idle
    /\ st.kind = "Recovery"
    /\ RequireNoEvidenceArchive
    /\ RequireNonterminal
    /\ VerifiedSnapshot
    /\ policies # << >>
    /\ ValidateRecoveryTransitionPolicyBinding(LatestPolicy, st)
    /\ st.sequence > Len(journal)
    /\ CeremonyActiveAt(st.expiresAt, t)
    /\ IntentUsesLatestPolicy(st)
    /\ IntentAtHead(st)
    /\ PolicyActiveAt(LatestPolicy, t)
    /\ st.issuedAt <= t
    /\ sess' = Remember(s, p, t)
    /\ UNCHANGED <<storeVars, proofs, lock, told>>

CommitRecoveryTransition(s, recorded) ==
    LET p == sess[s].proof
        st == p.statement
    IN
    /\ Carries(s, "Recovery")
    /\ CanWrite
    /\ st.sequence > Len(journal)
    /\ RequireUnknownKey(st.nextKey)
    /\ VerifiedSnapshot
    /\ BoundsWithReservation(1, 0)
    /\ policies # << >>
    /\ IntentAtHead(st)
    /\ IntentUsesLatestPolicy(st)
    /\ RecoveryExtension(root.statement, LiveTransitions, PolicyStatements, st)
    /\ WindowHolds(st, sess[s].at, recorded)
    /\ RequireMonotonicAuditTime(recorded)
    /\ keys[st.previousKey] = "active"
    /\ RoomForKey
    /\ AdoptTransition(s, p, recorded)

\* A recovery retry is recognised by its statement alone.
ReplayRecovery(s, p) ==
    LET st == p.statement IN
    /\ \/ sess[s] = Idle /\ RequireNoEvidenceArchive /\ RequireNonterminal
       \/ Carries(s, "Recovery") /\ sess[s].proof = p /\ CanWrite
    /\ st.kind = "Recovery"
    /\ st.sequence <= Len(journal)
    /\ journal[st.sequence].statement = st
    /\ CeremonyActiveAt(st.expiresAt, journal[st.sequence].committedAt)
    /\ VerifiedSnapshot
    /\ terminal = NoRow
    /\ head.sequence = st.sequence
    /\ AnswerCommitted(s, p)

(* Terminal revocation *)

VerifyTerminal(s, p, t) ==
    LET st == p.statement IN
    /\ sess[s] = Idle
    /\ IsTerminal(st)
    /\ RequireNoEvidenceArchive
    /\ VerifiedSnapshot
    /\ policies # << >>
    /\ ValidateTerminalPersonaRevocationPolicyBinding(LatestPolicy, st)
    /\ terminal = NoRow
    /\ IntentUsesLatestPolicy(st)
    /\ IntentAtHead(st)
    /\ PolicyActiveAt(LatestPolicy, t)
    /\ st.issuedAt <= t
    /\ sess' = Remember(s, p, t)
    /\ UNCHANGED <<storeVars, proofs, lock, told>>

\* The head row stays where it is; the overlay row ends the chain.
CommitTerminalPersonaRevocation(s, recorded) ==
    LET p == sess[s].proof
        st == p.statement
    IN
    /\ Carries(s, "TerminalRevocation")
    /\ CanWrite
    /\ terminal = NoRow
    /\ VerifiedSnapshot
    /\ BoundsWithReservation(1, 0)
    /\ policies # << >>
    /\ IntentAtHead(st)
    /\ IntentUsesLatestPolicy(st)
    /\ TerminalExtension(root.statement, LiveTransitions, PolicyStatements, st)
    /\ WindowHolds(st, sess[s].at, recorded)
    /\ RequireMonotonicAuditTime(recorded)
    /\ ActiveKeys \ {st.previousKey} = {}
    /\ keys' = [keys EXCEPT ![st.previousKey] = ReplacedStatus(st.reason)]
    /\ refs' = refs \ {st.previousKey}
    /\ terminal' = [statement |-> st, wrapper |-> p.wrapper, committedAt |-> recorded]
    /\ audit' = recorded
    /\ sess' = [sess EXCEPT ![s] = Idle]
    /\ told' = told \cup {p}
    /\ UNCHANGED <<root, journal, head, policies, policyHead, archive, receipt,
                   proofs, lock>>

ReplayTerminal(s, p) ==
    LET st == p.statement IN
    /\ \/ sess[s] = Idle /\ RequireNoEvidenceArchive
       \/ Carries(s, "TerminalRevocation") /\ sess[s].proof = p /\ CanWrite
    /\ terminal # NoRow
    /\ terminal.statement = st
    /\ VerifiedSnapshot
    /\ AnswerCommitted(s, p)

\* A check fails, the process dies, or an authorization's closure returns: the
\* session is over and its transaction, if any, is rolled back or released.
SessionEnds(s) ==
    /\ sess[s] # Idle
    /\ sess' = [sess EXCEPT ![s] = Idle]
    /\ lock' = IF lock = s THEN None ELSE lock
    /\ UNCHANGED <<storeVars, proofs, told>>

-----------------------------------------------------------------------------
Init ==
    /\ keys = [k \in Keys |-> "unknown"]
    /\ refs = {}
    /\ root = NoRow /\ journal = << >> /\ head = NoRow
    /\ policies = << >> /\ policyHead = NoRow /\ terminal = NoRow
    /\ archive = NoRow /\ receipt = NoRow
    /\ audit = 0
    /\ proofs = {} /\ told = {}
    /\ lock = None
    /\ sess = [s \in Sessions |-> Idle]

KeyStep ==
    \E k \in Keys, now \in Times :
        \/ EnrollKey(k, now)
        \/ \E reason \in {"Routine", "Recovery", "Compromise"} : RotateKey(k, reason, now)
        \/ MarkKeyCompromised(k, now)
        \/ BindSigningReference(k, now)
        \/ UnbindSigningReference(k, now)
        \/ \E issuedAt \in IssueTimes : RecordContinuityRoot(k, issuedAt, now)

SignStep ==
    /\ root # NoRow
    /\ \E tip \in Tips, t \in IssueTimes, w \in Wrappers :
          \/ \E k \in Keys : SignRoutine(tip, k, t, w)
          \/ \E k \in Keys, e \in CeremonyEnds, r \in {"Recovery", "Compromise"} :
                SignRecovery(tip, k, t, e, r, w)
          \/ \E r \in {"Cessation", "Compromise"} : SignTerminal(tip, t, r, w)

SessionStep(s) ==
    \/ \E k \in Keys : WithActiveKeyAuthorization(s, k)
    \/ \E p \in proofs :
          \/ BeginRoutine(s, p)
          \/ ReplayRoutine(s, p)
          \/ ReplayRecovery(s, p)
          \/ ReplayTerminal(s, p)
          \/ \E t \in Times : VerifyRecovery(s, p, t) \/ VerifyTerminal(s, p, t)
    \/ \E now \in Times : CommitRoutineTransition(s, now)
    \/ \E recorded \in Times : \/ CommitRecoveryTransition(s, recorded)
                               \/ CommitTerminalPersonaRevocation(s, recorded)
    \/ SessionEnds(s)

Next == KeyStep \/ RecordRecoveryPolicyChain \/ SignStep \/ \E s \in Sessions : SessionStep(s)

Spec == Init /\ [][Next]_vars

-----------------------------------------------------------------------------
(* Types *)

IsSequence(s) == s \in Seq({s[i] : i \in DOMAIN s})

\* The columns of the policy table, which are also those of the root's, and of
\* the transition journal.
PolicyFields == {"statement", "recordedAt"}
TransitionFields == {"statement", "wrapper", "committedAt"}

IsStatement(st) ==
    /\ st # None
    /\ st.kind \in {"Routine", "Recovery", "TerminalRevocation"}
    /\ st.sequence \in Nat \ {0}
    /\ st.previousKey \in Keys
    /\ st.nextKey \in IF IsTerminal(st) THEN {None} ELSE Keys
    /\ st.issuedAt \in Times
    /\ st.reason \in {"Routine", "Recovery", "Compromise", "Cessation"}

IsSession(record) ==
    \/ record = Idle
    \/ record.phase = "authorized" /\ record.key \in Keys
    \/ /\ record.phase \in {"DirectActivation", "RecoveryActivation", "TerminalHydration"}
       /\ record.at \in Times
    \/ /\ record.phase = record.proof.statement.kind
       /\ record.proof \in proofs
       /\ record.at \in Times \cup {None}

\* Every table holds rows of its own shape, statuses are those of KeyStatus, and
\* a session carries only proofs that were signed.
TypeOK ==
    /\ keys \in [Keys -> Statuses]
    /\ refs \subseteq Keys
    /\ root # NoRow => /\ root.statement.key \in Keys
                      /\ root.statement.issuedAt \in Times
                      /\ root.recordedAt \in Times
    /\ IsSequence(journal)
    /\ \A i \in 1 .. Len(journal) : /\ IsStatement(journal[i].statement)
                                    /\ journal[i].committedAt \in Times
    /\ head # NoRow => /\ head.revision \in Nat /\ head.sequence \in Nat
                      /\ head.key \in Keys /\ head.issuedAt \in Times
    /\ IsSequence(policies)
    /\ \A v \in 1 .. Len(policies) : policies[v].recordedAt \in Times
    /\ terminal # NoRow => /\ IsStatement(terminal.statement)
                          /\ terminal.committedAt \in Times
    /\ audit \in Times
    /\ \A p \in proofs : IsStatement(p.statement)
    /\ lock \in Sessions \cup {None}
    /\ DOMAIN sess = Sessions
    /\ \A s \in Sessions : IsSession(sess[s])

-----------------------------------------------------------------------------
(* Safety *)

\* Every operation on a rooted persona starts by verifying the whole live
\* snapshot and refuses to go on when that fails.  No sequence of operations,
\* of any number of sessions, may therefore leave a snapshot behind that does
\* not verify: it would lock the user out of the persona for good.
StoreAlwaysVerifies == root # NoRow => VerifiedSnapshot

\* A rooted persona has exactly one active key, the one its accepted head
\* names, until its terminal revocation leaves it with none.
UniqueAuthority ==
    root # NoRow => ActiveKeys = IF terminal = NoRow THEN {head.key} ELSE {}

\* What a session was told is committed stays in the journal, whatever other
\* sessions do and whichever of several proofs for one sequence came first.  For
\* a routine transition that means the submitted signatures too.
AnswersStand ==
    \A p \in told :
        \E row \in {journal[i] : i \in 1 .. Len(journal)}
                    \cup (IF terminal = NoRow THEN {} ELSE {terminal}) :
            /\ row.statement = p.statement
            /\ p.statement.kind = "Routine" => row.wrapper = p.wrapper

\* A threshold-authorized statement is adopted only while its policy is active
\* and the latest recorded one, and before its ceremony expires: although each
\* of these was checked earlier, outside the transaction, against another clock
\* reading and possibly another latest policy.
AdoptedInsideItsWindow ==
    \A row \in {journal[i] : i \in {j \in 1 .. Len(journal) :
                                      /\ journal[j].statement.kind = "Recovery"
                                      /\ j > ArchivePrefix}}
               \cup (IF terminal = NoRow THEN {} ELSE {terminal}) :
        \E v \in RecordedPolicyOf(row.statement) :
            /\ PolicyActiveAt(policies[v].statement, row.committedAt)
            /\ CeremonyActiveAt(row.statement.expiresAt, row.committedAt)
            /\ row.statement.issuedAt <= row.committedAt
            /\ policies[v].recordedAt <= row.committedAt
            /\ v < Len(policies) =>
                  /\ ~ IsTerminal(row.statement)
                  /\ row.committedAt <= policies[v + 1].recordedAt

\* While with_active_key_authorization runs its closure, the key it looked up
\* stays active and the persona stays operational.
AuthorizedKeyStaysActive ==
    lock # None => /\ sess[lock].phase = "authorized"
                   /\ keys[sess[lock].key] = "active"
                   /\ terminal = NoRow

\* A persona can be ended at any time its latest policy allows it: one entry is
\* reserved beyond the transition limit, no free key is needed, and the only
\* active key is the one at the head.  So a full journal or a full key table,
\* which stop every other step, leave this one.
CanAlwaysEnd ==
    /\ root # NoRow /\ terminal = NoRow /\ policies # << >>
    /\ Authorizes(LatestPolicy, "TerminalRevocation")
    => \A t \in Times :
          t >= head.issuedAt /\ PolicyActiveAt(LatestPolicy, t) =>
             LET st == StatementOn(HeadTip, "TerminalRevocation", None, t, None,
                                   Digest(LatestPolicy), "Cessation")
             IN /\ BoundsWithReservation(1, 0)
                /\ IntentAtHead(st) /\ IntentUsesLatestPolicy(st)
                /\ TerminalExtension(root.statement, LiveTransitions, PolicyStatements, st)
                /\ ActiveKeys \ {st.previousKey} = {}

-----------------------------------------------------------------------------
(* Action properties *)

IsPrefixOf(s, t) == Len(s) <= Len(t) /\ \A i \in 1 .. Len(s) : s[i] = t[i]

\* A retired or compromised key is never active again, and a compromised one is
\* never anything else again.
NoKeyReturns ==
    [][\A k \in Keys :
          /\ keys[k] \in {"retired", "compromised"}
                => keys'[k] \in {"retired", "compromised"}
          /\ keys[k] = "compromised" => keys'[k] = "compromised"]_vars

\* Recorded roots, journal rows, policies and a terminal revocation are never
\* rewritten or removed, and time in the audit trail never runs backward.
HistoryOnlyGrows ==
    [][/\ root # NoRow => root' = root
       /\ IsPrefixOf(journal, journal')
       /\ IsPrefixOf(policies, policies')
       /\ terminal # NoRow => terminal' = terminal
       /\ audit <= audit']_vars

\* After a terminal revocation no operation changes the persona's rows at all,
\* not even one that a session had verified before the revocation.
TerminalIsFinal == [][terminal # NoRow => UNCHANGED storeVars]_vars

-----------------------------------------------------------------------------
(* The store implements PersonaAuthority *)

Holder == IF root = NoRow \/ terminal # NoRow THEN None ELSE head.key

Authority == INSTANCE PersonaAuthority WITH
    holder <- Holder,
    spent <- {k \in Keys : keys[k] \in {"retired", "compromised"}},
    ended <- terminal # NoRow

\* Seen from outside, all that the store's transactions ever do to signing
\* authority is hand it over to a fresh key or end it: although a commit
\* updates the key table, the references, the journal and the head separately.
ImplementsAuthority == Authority!Spec
=============================================================================
