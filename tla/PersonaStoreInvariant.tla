----------------------- MODULE PersonaStoreInvariant ------------------------
(***************************************************************************)
(* The inductive invariant of the persona store, facts about sequences and *)
(* tables, and that every step of the store keeps the invariant.           *)
(***************************************************************************)
EXTENDS PersonaStore, ContinuityProofs

-----------------------------------------------------------------------------
(* The inductive invariant *)

\* Before the root is recorded the continuity tables are empty.
UnrootedIsEmpty ==
    root = NoRow => /\ journal = << >> /\ head = NoRow
                   /\ policies = << >> /\ policyHead = NoRow
                   /\ terminal = NoRow /\ receipt = NoRow

\* The audit time is at least every time a row carries, so a new row that
\* passes require_monotonic_audit_time is no older than any row before it.
AuditCoversRows ==
    /\ root # NoRow => root.recordedAt <= audit
    /\ \A i \in 1 .. Len(journal) : journal[i].committedAt <= audit
    /\ \A v \in 1 .. Len(policies) : policies[v].recordedAt <= audit

\* Versions count the policies, so no two of them are the same statement and a
\* transition that names one names no other.
VersionsCount == \A v \in 1 .. Len(policies) : policies[v].statement.version = v

IInv ==
    /\ TypeOK
    /\ StoreAlwaysVerifies
    /\ UnrootedIsEmpty
    /\ AuditCoversRows
    /\ VersionsCount

-----------------------------------------------------------------------------
(* Sequences *)

\* An element of Seq(S) is a sequence in the sense of IsSequence.
LEMMA SequenceOf ==
    ASSUME NEW S, NEW s \in Seq(S)
    PROVE  IsSequence(s) /\ Len(s) \in Nat /\ DOMAIN s = 1 .. Len(s)
<1>1. Len(s) \in Nat /\ DOMAIN s = 1 .. Len(s) /\ s = [i \in 1 .. Len(s) |-> s[i]]
  OBVIOUS
<1>2. s \in [1 .. Len(s) -> {s[i] : i \in DOMAIN s}]
  BY <1>1, Zenon
<1>3. s \in Seq({s[i] : i \in DOMAIN s})
  BY <1>1, <1>2, SMTT(30)
<1> QED
  BY <1>1, <1>3, Zenon DEF IsSequence

\* What appending one element does, by position.
LEMMA SequenceAppend ==
    ASSUME NEW s, IsSequence(s), NEW x
    PROVE  /\ IsSequence(Append(s, x))
           /\ Len(s) \in Nat
           /\ Len(Append(s, x)) = Len(s) + 1
           /\ \A i \in 1 .. Len(s) : Append(s, x)[i] = s[i]
           /\ Append(s, x)[Len(s) + 1] = x
<1> DEFINE S == {s[i] : i \in DOMAIN s} \cup {x}
<1>1. s \in Seq(S)
  <2>1. s \in Seq({s[i] : i \in DOMAIN s})
    BY Zenon DEF IsSequence
  <2> QED
    BY <2>1
<1>2. Append(s, x) \in Seq(S)
  BY <1>1
<1>3. IsSequence(Append(s, x))
  BY <1>2, SequenceOf, Zenon
<1> QED
  BY <1>1, <1>3, AppendFacts

IsConcat(c, s, t) == c = s \o t

\* What concatenation does, by position.
LEMMA SequenceConcat ==
    ASSUME NEW s, IsSequence(s), NEW t, IsSequence(t), NEW c, IsConcat(c, s, t)
    PROVE  /\ IsSequence(c)
           /\ Len(s) \in Nat /\ Len(t) \in Nat
           /\ Len(c) = Len(s) + Len(t)
           /\ \A i \in 1 .. Len(s) : c[i] = s[i]
           /\ \A i \in 1 .. Len(t) : c[Len(s) + i] = t[i]
<1> DEFINE S == {s[i] : i \in DOMAIN s} \cup {t[i] : i \in DOMAIN t}
<1>1. s \in Seq(S) /\ t \in Seq(S)
  <2>1. s \in Seq({s[i] : i \in DOMAIN s}) /\ t \in Seq({t[i] : i \in DOMAIN t})
    BY Zenon DEF IsSequence
  <2> QED
    BY <2>1
<1>2. s \o t \in Seq(S)
  BY <1>1
<1>3. IsSequence(s \o t)
  BY <1>2, SequenceOf, Zenon
<1>4. c = s \o t
  BY Zenon DEF IsConcat
<1>5. /\ Len(s \o t) = Len(s) + Len(t)
      /\ \A i \in 1 .. Len(s) : (s \o t)[i] = s[i]
      /\ \A i \in 1 .. Len(t) : (s \o t)[Len(s) + i] = t[i]
      /\ Len(s) \in Nat /\ Len(t) \in Nat
  BY <1>1
<1> QED
  BY <1>3, <1>4, <1>5, Zenon

\* A sequence built by a function expression is a sequence.
LEMMA SequenceDefined ==
    ASSUME NEW n \in Nat, NEW f, DOMAIN f = 1 .. n, f = [i \in 1 .. n |-> f[i]]
    PROVE  IsSequence(f) /\ Len(f) = n
<1> DEFINE S == {f[i] : i \in DOMAIN f}
<1>1. f \in [1 .. n -> S]
  BY Zenon
<1>2. f \in Seq(S)
  <2> HIDE DEF S
  <2> QED
    BY <1>1, SMTT(30)
<1> QED
  BY <1>2, SequenceOf

-----------------------------------------------------------------------------
(* The initial state, and steps that leave tables alone *)

\* The empty store satisfies the invariant.
LEMMA InitInvariant == Init => IInv
<1> SUFFICES ASSUME Init PROVE IInv
  OBVIOUS
<1>1. IsSequence(journal) /\ IsSequence(policies) /\ Len(journal) = 0 /\ Len(policies) = 0
  <2>1. << >> \in Seq({}) /\ Len(<< >>) = 0
    OBVIOUS
  <2>2. IsSequence(<< >>)
    BY <2>1, SequenceOf, Zenon
  <2> QED
    BY <2>1, <2>2, Zenon DEF Init
<1>2. TypeOK
  BY <1>1, StoreAssumption DEF Init, TypeOK, Statuses, Times, IsSession
<1> QED
  BY <1>1, <1>2 DEF Init, IInv, StoreAlwaysVerifies, UnrootedIsEmpty, AuditCoversRows,
                       VersionsCount

continuityTables == <<root, journal, head, policies, policyHead, terminal, receipt>>

\* All of the snapshot's verification but the last part looks only at the
\* continuity tables.
LEMMA TablesUnchanged ==
    ASSUME UNCHANGED continuityTables
    PROVE  /\ VerifyChain(root.statement, LiveTransitions, PolicyStatements)' <=>
              VerifyChain(root.statement, LiveTransitions, PolicyStatements)
           /\ ValidateStoredTransitionRows' <=> ValidateStoredTransitionRows
           /\ ValidateStoredRecoveryPolicies' <=> ValidateStoredRecoveryPolicies
           /\ ValidateLiveObservationOrder' <=> ValidateLiveObservationOrder
           /\ ValidateLiveChainHead' <=> ValidateLiveChainHead
<1>1. LiveTransitions' = LiveTransitions /\ PolicyStatements' = PolicyStatements
      /\ TransitionStatements' = TransitionStatements /\ LatestPolicy' = LatestPolicy
      /\ ArchivePrefix' = ArchivePrefix
  BY Zenon DEF continuityTables, LiveTransitions, PolicyStatements, TransitionStatements,
         LatestPolicy, ArchivePrefix
<1>2. VerifyChain(root.statement, LiveTransitions, PolicyStatements)' <=>
      VerifyChain(root.statement, LiveTransitions, PolicyStatements)
  BY <1>1, Zenon DEF continuityTables
<1>3. ValidateStoredTransitionRows' <=> ValidateStoredTransitionRows
  BY <1>1, Zenon DEF continuityTables, ValidateStoredTransitionRows
<1>4. ValidateStoredRecoveryPolicies' <=> ValidateStoredRecoveryPolicies
  BY <1>1, Zenon DEF continuityTables, ValidateStoredRecoveryPolicies
<1>5. ValidateLiveObservationOrder' <=> ValidateLiveObservationOrder
  BY <1>1, Zenon DEF continuityTables, ValidateLiveObservationOrder, RecordedPolicyOf
<1>6. ValidateLiveChainHead' <=> ValidateLiveChainHead
  BY <1>1, Zenon DEF continuityTables, ValidateLiveChainHead
<1> QED
  BY <1>2, <1>3, <1>4, <1>5, <1>6, Zenon

\* A step that touches no table keeps the whole invariant but its type part.
LEMMA StoreUnchanged ==
    ASSUME IInv, UNCHANGED storeVars
    PROVE  StoreAlwaysVerifies' /\ UnrootedIsEmpty' /\ AuditCoversRows'
           /\ VersionsCount'
<1>1. UNCHANGED continuityTables /\ UNCHANGED <<keys, refs, archive, audit>>
  BY Zenon DEF storeVars, continuityTables
<1>2. ValidateLiveChainKeys' <=> ValidateLiveChainKeys
  <2>1. TransitionStatements' = TransitionStatements
        /\ ActiveKeys' = ActiveKeys /\ KnownKeys' = KnownKeys
    BY <1>1, Zenon DEF continuityTables, TransitionStatements, ActiveKeys, KnownKeys
  <2> QED
    BY <1>1, <2>1, Zenon DEF continuityTables, ValidateLiveChainKeys
<1>3. StoreAlwaysVerifies'
  BY <1>1, <1>2, TablesUnchanged, Zenon
     DEF IInv, StoreAlwaysVerifies, VerifiedSnapshot, continuityTables
<1> QED
  BY <1>1, <1>3, Zenon DEF IInv, UnrootedIsEmpty, AuditCoversRows, VersionsCount,
                    continuityTables

-----------------------------------------------------------------------------
(* Types *)

\* What a session carries stays a session's state while proofs are only added.
LEMMA SessionsKeepType ==
    ASSUME NEW record, IsSession(record), proofs \subseteq proofs'
    PROVE  IsSession(record)'
BY Zenon DEF IsSession

\* What a session remembers of a signed proof is a session's state.
LEMMA RememberedSession ==
    ASSUME NEW p \in proofs, NEW t \in Times \cup {None}
    PROVE  IsSession([phase |-> p.statement.kind, proof |-> p, at |-> t])
BY Zenon DEF IsSession

\* Operations on keys, references and the root keep every table well formed.
LEMMA KeyStepTypes ==
    ASSUME IInv, KeyStep
    PROVE  TypeOK'
<1> PICK k \in Keys, now \in Times :
       \/ EnrollKey(k, now)
       \/ \E reason \in {"Routine", "Recovery", "Compromise"} : RotateKey(k, reason, now)
       \/ MarkKeyCompromised(k, now)
       \/ BindSigningReference(k, now)
       \/ UnbindSigningReference(k, now)
       \/ \E issuedAt \in IssueTimes : RecordContinuityRoot(k, issuedAt, now)
  BY Zenon DEF KeyStep
<1>1. \A reason : ReplacedStatus(reason) \in Statuses
  BY Zenon DEF ReplacedStatus, Statuses
<1>2. UNCHANGED <<journal, policies, terminal, proofs, lock, sess>>
  BY Zenon DEF EnrollKey, RotateKey, MarkKeyCompromised, BindSigningReference,
         UnbindSigningReference, RecordContinuityRoot
<1>3. keys' \in [Keys -> Statuses] /\ refs' \subseteq Keys /\ audit' \in Times
  <2>1. TypeOK
    BY Zenon DEF IInv
  <2>2. CASE \E reason \in {"Routine", "Recovery", "Compromise"} : RotateKey(k, reason, now)
    <3>1. PICK reason : RotateKey(k, reason, now)
      BY <2>2, Zenon
    <3>2. /\ keys' = [j \in Keys |->
                        IF j = k THEN "active"
                        ELSE IF keys[j] = "active" THEN ReplacedStatus(reason) ELSE keys[j]]
          /\ refs' = refs /\ audit' = now
      BY <3>1, Zenon DEF RotateKey
    <3>3. keys \in [Keys -> Statuses] /\ refs \subseteq Keys /\ "active" \in Statuses
      BY <2>1, Zenon DEF TypeOK, Statuses
    <3> QED
      BY <1>1, <3>2, <3>3, Zenon
  <2>3. CASE EnrollKey(k, now) \/ MarkKeyCompromised(k, now)
    BY <2>1, <2>3, Zenon DEF EnrollKey, MarkKeyCompromised, TypeOK, Statuses
  <2>4. CASE BindSigningReference(k, now) \/ UnbindSigningReference(k, now)
    BY <2>1, <2>4, Zenon DEF BindSigningReference, UnbindSigningReference, TypeOK
  <2>5. CASE \E issuedAt \in IssueTimes : RecordContinuityRoot(k, issuedAt, now)
    BY <2>1, <2>5, Zenon DEF RecordContinuityRoot, TypeOK
  <2> QED
    BY <2>2, <2>3, <2>4, <2>5, Zenon
<1>4. /\ root' # NoRow => /\ root'.statement.key \in Keys
                         /\ root'.statement.issuedAt \in Times
                         /\ root'.recordedAt \in Times
      /\ head' # NoRow => /\ head'.revision \in Nat /\ head'.sequence \in Nat
                         /\ head'.key \in Keys /\ head'.issuedAt \in Times
  <2>1. CASE UNCHANGED <<root, head>>
    BY <2>1, Zenon DEF IInv, TypeOK
  <2>2. CASE \E issuedAt \in IssueTimes : RecordContinuityRoot(k, issuedAt, now)
    BY <2>2, StoreAssumption DEF RecordContinuityRoot
  <2> QED
    BY <2>1, <2>2, Zenon DEF EnrollKey, RotateKey, MarkKeyCompromised, BindSigningReference,
                      UnbindSigningReference
<1>5. \A s \in Sessions : IsSession(sess[s])'
  BY <1>2, SessionsKeepType, Zenon DEF IInv, TypeOK, IsSession
<1> QED
  BY <1>2, <1>3, <1>4, <1>5, Zenon DEF IInv, TypeOK, IsStatement, IsTerminal

\* Signing a proof keeps every table well formed and writes nothing to the store.
LEMMA SignStepTypes ==
    ASSUME IInv, SignStep
    PROVE  TypeOK' /\ UNCHANGED storeVars /\ UNCHANGED <<lock, sess, told>>
<1> PICK tip \in Tips, t \in IssueTimes, w \in Wrappers :
       \/ \E k \in Keys : SignRoutine(tip, k, t, w)
       \/ \E k \in Keys, e \in CeremonyEnds, r \in {"Recovery", "Compromise"} :
             SignRecovery(tip, k, t, e, r, w)
       \/ \E r \in {"Cessation", "Compromise"} : SignTerminal(tip, t, r, w)
  BY Zenon DEF SignStep
<1>1. root # NoRow /\ head # NoRow
  BY Zenon DEF SignStep, IInv, StoreAlwaysVerifies, VerifiedSnapshot
<1>2. tip.sequence \in Nat /\ tip.key \in Keys
  BY <1>1 DEF Tips, HeadTip, IInv, TypeOK, IsStatement
<1>3. t \in Times
  BY StoreAssumption, Zenon
<1>4. \E st : IsStatement(st) /\ Sign(st, w)
  <2>1. ASSUME NEW k \in Keys, SignRoutine(tip, k, t, w)
        PROVE  \E st : IsStatement(st) /\ Sign(st, w)
    <3> DEFINE st == StatementOn(tip, "Routine", k, t, None, None, "Routine")
    <3>1. Sign(st, w)
      BY <2>1, Zenon DEF SignRoutine
    <3>2. IsStatement(st)
      BY <1>2, <1>3, <3>1 DEF Sign, StatementOn, IsStatement, IsTerminal
    <3> QED
      BY <3>1, <3>2, Zenon
  <2>2. ASSUME NEW k \in Keys, NEW e, NEW r \in {"Recovery", "Compromise"},
               SignRecovery(tip, k, t, e, r, w)
        PROVE  \E st : IsStatement(st) /\ Sign(st, w)
    <3> DEFINE st == StatementOn(tip, "Recovery", k, t, e, Digest(LatestPolicy), r)
    <3>1. Sign(st, w)
      BY <2>2, Zenon DEF SignRecovery
    <3>2. IsStatement(st)
      BY <1>2, <1>3, <3>1 DEF Sign, StatementOn, IsStatement, IsTerminal
    <3> QED
      BY <3>1, <3>2, Zenon
  <2>3. ASSUME NEW r \in {"Cessation", "Compromise"}, SignTerminal(tip, t, r, w)
        PROVE  \E st : IsStatement(st) /\ Sign(st, w)
    <3> DEFINE st == StatementOn(tip, "TerminalRevocation", None, t, None,
                                 Digest(LatestPolicy), r)
    <3>1. Sign(st, w)
      BY <2>3, Zenon DEF SignTerminal
    <3>2. IsStatement(st)
      BY <1>2, <1>3, <3>1 DEF Sign, StatementOn, IsStatement, IsTerminal
    <3> QED
      BY <3>1, <3>2, Zenon
  <2> QED
    BY <2>1, <2>2, <2>3, Zenon
<1>5. /\ UNCHANGED <<storeVars, lock, sess, told>>
      /\ proofs \subseteq proofs'
      /\ \A p \in proofs' : IsStatement(p.statement)
  BY <1>4 DEF Sign, IInv, TypeOK
<1>6. \A s \in Sessions : IsSession(sess[s])'
  BY <1>5, SessionsKeepType, Zenon DEF IInv, TypeOK, IsSession
<1> QED
  BY <1>5, <1>6, ZenonT(60) DEF IInv, TypeOK, storeVars, IsStatement, IsTerminal

\* The steps of a session that write no table.
QuietStep(s) ==
    \/ \E k \in Keys : WithActiveKeyAuthorization(s, k)
    \/ \E p \in proofs :
          \/ BeginRoutine(s, p)
          \/ ReplayRoutine(s, p)
          \/ ReplayRecovery(s, p)
          \/ ReplayTerminal(s, p)
          \/ \E t \in Times : VerifyRecovery(s, p, t) \/ VerifyTerminal(s, p, t)
    \/ SessionEnds(s)

\* Steps that only read the store and remember something write nothing to it.
LEMMA QuietStepTypes ==
    ASSUME IInv, NEW s \in Sessions, QuietStep(s)
    PROVE  TypeOK' /\ UNCHANGED storeVars
<1>1. UNCHANGED <<storeVars, proofs>>
  BY ZenonT(60) DEF QuietStep, WithActiveKeyAuthorization, BeginRoutine, ReplayRoutine, ReplayRecovery,
         ReplayTerminal, VerifyRecovery, VerifyTerminal, AnswerCommitted, SessionEnds
<1>2. lock' \in Sessions \cup {None}
  <2>1. lock' \in {lock, s, None}
    BY ZenonT(60) DEF QuietStep, WithActiveKeyAuthorization, BeginRoutine, ReplayRoutine, ReplayRecovery,
           ReplayTerminal, VerifyRecovery, VerifyTerminal, AnswerCommitted, SessionEnds
  <2>2. lock \in Sessions \cup {None}
    BY Zenon DEF IInv, TypeOK
  <2> QED
    BY <2>1, <2>2, Zenon
<1>3. \E record : sess' = [sess EXCEPT ![s] = record] /\ IsSession(record)
  <2>1. CASE \E k \in Keys : WithActiveKeyAuthorization(s, k)
    BY <2>1, ZenonT(60) DEF WithActiveKeyAuthorization, IsSession
  <2>2. CASE \E p \in proofs : BeginRoutine(s, p)
    <3>1. PICK p \in proofs : sess' = Remember(s, p, None)
      BY <2>2, Zenon DEF BeginRoutine
    <3>2. None \in Times \cup {None}
      OBVIOUS
    <3> QED
      BY <3>1, <3>2, RememberedSession, Zenon DEF Remember
  <2>3. CASE \/ \E p \in proofs : \/ ReplayRoutine(s, p) \/ ReplayRecovery(s, p)
                                  \/ ReplayTerminal(s, p)
             \/ SessionEnds(s)
    BY <2>3, Zenon DEF ReplayRoutine, ReplayRecovery, ReplayTerminal, AnswerCommitted, SessionEnds,
                IsSession
  <2>4. CASE \E p \in proofs, t \in Times : VerifyRecovery(s, p, t) \/ VerifyTerminal(s, p, t)
    <3>1. PICK p \in proofs, t \in Times : sess' = Remember(s, p, t)
      BY <2>4, Zenon DEF VerifyRecovery, VerifyTerminal
    <3>2. t \in Times \cup {None}
      OBVIOUS
    <3> QED
      BY <3>1, <3>2, RememberedSession, Zenon DEF Remember
  <2> QED
    BY <2>1, <2>2, <2>3, <2>4, Zenon DEF QuietStep
<1>4. DOMAIN sess' = Sessions /\ \A r \in Sessions : IsSession(sess'[r])
  BY <1>3, Zenon DEF IInv, TypeOK
<1>5. \A r \in Sessions : IsSession(sess[r])'
  BY <1>1, <1>4, Zenon DEF IsSession
<1> QED
  BY <1>1, <1>2, <1>4, <1>5, ZenonT(60) DEF IInv, TypeOK, storeVars, IsStatement, IsTerminal

\* AdoptTransition keeps every table well formed.
LEMMA AdoptTypes ==
    ASSUME IInv, NEW s \in Sessions, NEW p \in proofs, NEW now \in Times,
           head # NoRow, ~ IsTerminal(p.statement), AdoptTransition(s, p, now)
    PROVE  TypeOK'
<1> DEFINE st == p.statement
           row == [statement |-> st, wrapper |-> p.wrapper, committedAt |-> now]
<1>0. TypeOK /\ IsStatement(st)
  BY Zenon DEF IInv, TypeOK
<1>1. st.nextKey \in Keys /\ st.previousKey \in Keys /\ st.sequence \in Nat
      /\ st.issuedAt \in Times
  BY <1>0, Zenon DEF IsStatement
<1>2. /\ journal' = Append(journal, row)
      /\ UNCHANGED <<root, policies, terminal, proofs, lock>>
      /\ audit' = now
      /\ sess' = [sess EXCEPT ![s] = Idle]
  BY Zenon DEF AdoptTransition
<1>3. keys' \in [Keys -> Statuses] /\ refs' \subseteq Keys
  <2>1. ReplacedStatus(st.reason) \in Statuses /\ "active" \in Statuses
    BY Zenon DEF ReplacedStatus, Statuses
  <2> QED
    BY <1>0, <1>1, <2>1, Zenon DEF AdoptTransition, TypeOK
<1>4. /\ IsSequence(journal')
      /\ \A i \in 1 .. Len(journal') : /\ IsStatement(journal'[i].statement)
                                       /\ journal'[i].committedAt \in Times
  <2>1. IsSequence(journal)
    BY <1>0, Zenon DEF TypeOK
  <2>2. /\ IsSequence(journal') /\ Len(journal) \in Nat
        /\ Len(journal') = Len(journal) + 1
        /\ \A i \in 1 .. Len(journal) : journal'[i] = journal[i]
        /\ journal'[Len(journal) + 1] = row
    BY <1>2, <2>1, SequenceAppend, ZenonT(60)
  <2> QED
    BY <1>0, <2>2 DEF TypeOK
<1>5. /\ head'.revision \in Nat /\ head'.sequence \in Nat
      /\ head'.key \in Keys /\ head'.issuedAt \in Times
  BY <1>0, <1>1 DEF AdoptTransition, TypeOK
<1>6. DOMAIN sess' = Sessions /\ \A r \in Sessions : IsSession(sess'[r])
  BY <1>0, <1>2, ZenonT(60) DEF TypeOK, IsSession
<1>7. \A r \in Sessions : IsSession(sess[r])'
  BY <1>2, <1>6, ZenonT(60) DEF IsSession
<1>8. \A i \in 1 .. Len(journal') : IsStatement(journal[i].statement)'
  BY <1>4, Zenon DEF IsStatement, IsTerminal
<1> QED
  BY <1>0, <1>2, <1>3, <1>4, <1>5, <1>6, <1>7, <1>8, ZenonT(60) DEF TypeOK, IsStatement, IsTerminal

-----------------------------------------------------------------------------
(* The tables as sequences of statements *)

\* The statements of a journal with one more row.
LEMMA StatementsAppend ==
    ASSUME IsSequence(journal), NEW row, journal' = Append(journal, row)
    PROVE  /\ IsSequence(TransitionStatements)
           /\ Len(TransitionStatements) = Len(journal)
           /\ TransitionStatements' = Append(TransitionStatements, row.statement)
<1> DEFINE ts == TransitionStatements
<1>1. /\ Len(journal) \in Nat
      /\ Len(journal') = Len(journal) + 1
      /\ \A i \in 1 .. Len(journal) : journal'[i] = journal[i]
      /\ journal'[Len(journal) + 1] = row
  BY SequenceAppend
<1>2. /\ DOMAIN ts = 1 .. Len(journal)
      /\ ts = [i \in 1 .. Len(journal) |-> ts[i]]
      /\ \A i \in 1 .. Len(journal) : ts[i] = journal[i].statement
  BY Zenon DEF TransitionStatements
<1>3. IsSequence(ts) /\ Len(ts) = Len(journal)
  <2> HIDE DEF ts
  <2> QED BY <1>1, <1>2, SequenceDefined, Zenon
<1>4. ts' = [i \in 1 .. Len(journal) + 1 |-> journal'[i].statement]
  BY <1>1, Zenon DEF TransitionStatements
<1>5. Append(ts, row.statement) =
         [i \in 1 .. Len(journal) + 1 |-> IF i = Len(journal) + 1 THEN row.statement ELSE ts[i]]
  <2>1. ts \in Seq({ts[i] : i \in DOMAIN ts})
    BY <1>3, Zenon DEF IsSequence
  <2> HIDE DEF ts
  <2> QED BY <1>1, <1>3, <2>1
<1>6. \A i \in 1 .. Len(journal) + 1 :
         journal'[i].statement = IF i = Len(journal) + 1 THEN row.statement ELSE ts[i]
  BY <1>1, <1>2
<1> QED
  <2> HIDE DEF ts
  <2> QED BY <1>3, <1>4, <1>5, <1>6, Zenon DEF ts

\* The transition statements are a sequence as long as the journal.
LEMMA StatementsAre ==
    ASSUME IsSequence(journal)
    PROVE  /\ IsSequence(TransitionStatements)
           /\ Len(TransitionStatements) = Len(journal)
<1> DEFINE ts == TransitionStatements
<1>1. Len(journal) \in Nat
  BY DEF IsSequence
<1>2. DOMAIN ts = 1 .. Len(journal) /\ ts = [i \in 1 .. Len(journal) |-> ts[i]]
  BY Zenon DEF TransitionStatements
<1> HIDE DEF ts
<1>3. IsSequence(ts) /\ Len(ts) = Len(journal)
  BY <1>1, <1>2, SequenceDefined, Zenon
<1> QED
  BY <1>3, Zenon DEF ts

\* The policy statements are a sequence as long as the policy table.
LEMMA PolicyStatementsAre ==
    ASSUME IsSequence(policies)
    PROVE  /\ IsSequence(PolicyStatements)
           /\ Len(PolicyStatements) = Len(policies)
           /\ Len(policies) \in Nat
           /\ policies = << >> <=> PolicyStatements = << >>
           /\ \A v \in 1 .. Len(policies) : PolicyStatements[v] = policies[v].statement
<1> DEFINE ps == PolicyStatements
<1>1. Len(policies) \in Nat /\ (policies = << >> <=> Len(policies) = 0)
  <2>1. policies \in Seq({policies[i] : i \in DOMAIN policies})
    BY Zenon DEF IsSequence
  <2> QED BY <2>1
<1>2. /\ DOMAIN ps = 1 .. Len(policies)
      /\ ps = [v \in 1 .. Len(policies) |-> ps[v]]
      /\ \A v \in 1 .. Len(policies) : ps[v] = policies[v].statement
  BY Zenon DEF PolicyStatements
<1>3. IsSequence(ps) /\ Len(ps) = Len(policies)
  <2> HIDE DEF ps
  <2> QED BY <1>1, <1>2, SequenceDefined, Zenon
<1>4. ps = << >> <=> Len(ps) = 0
  <2>1. ps \in Seq({ps[i] : i \in DOMAIN ps})
    BY <1>3, Zenon DEF IsSequence
  <2> HIDE DEF ps
  <2> QED BY <2>1
<1> QED
  BY <1>1, <1>2, <1>3, <1>4, Zenon

\* The times of the rows are numbers.
RowTimes ==
    /\ audit \in Nat /\ root.recordedAt \in Nat
    /\ \A i \in 1 .. Len(journal) : journal[i].committedAt \in Nat
    /\ \A v \in 1 .. Len(policies) : policies[v].recordedAt \in Nat

\* Once there is a root, every row's time is a natural number.
LEMMA RowTimesAre ==
    ASSUME TypeOK, root # NoRow
    PROVE  RowTimes
BY StoreAssumption, SMTT(30) DEF TypeOK, RowTimes, Times

-----------------------------------------------------------------------------
(* Adopting a routine or recovery transition *)

\* While a key is active the persona is not terminally revoked.
LEMMA ActiveMeansLive ==
    ASSUME VerifiedSnapshot, NEW k \in Keys, keys[k] = "active"
    PROVE  terminal = NoRow /\ LiveTransitions = TransitionStatements /\ k = head.key
<1>1. k \in ActiveKeys
  BY Zenon DEF ActiveKeys
<1> QED
  BY <1>1, Zenon DEF VerifiedSnapshot, ValidateLiveChainKeys, LiveTransitions

\* What adopting st at time now does to the journal, seen row by row.
JournalGrows(st, now) ==
    /\ Len(journal) \in Nat
    /\ Len(journal') = Len(journal) + 1
    /\ \A i \in 1 .. Len(journal) : journal'[i] = journal[i]
    /\ journal'[Len(journal) + 1].statement = st
    /\ journal'[Len(journal) + 1].committedAt = now

\* The same for the statements of its rows.
StatementsGrow(st) ==
    /\ Len(TransitionStatements) = Len(journal)
    /\ IsSequence(TransitionStatements)
    /\ TransitionStatements' = Append(TransitionStatements, st)

\* What a transaction that adopts st at time now has checked.
AdoptionChecked(st, now) ==
    /\ root # NoRow
    /\ IsStatement(st)
    /\ ~ IsTerminal(st)
    /\ IntentAtHead(st)
    /\ ChainExtension(root.statement, LiveTransitions, PolicyStatements, st)
    /\ keys[st.previousKey] = "active"
    /\ keys[st.nextKey] = "unknown"
    /\ now \in Times
    /\ now >= audit
    /\ st.kind = "Recovery" => /\ now >= st.issuedAt
                               /\ CeremonyActiveAt(st.expiresAt, now)

\* AdoptTransition appends one row to the journal, so the verified chain grows
\* by exactly the adopted statement.
LEMMA AdoptJournal ==
    ASSUME IInv, NEW s, NEW p, NEW now, AdoptTransition(s, p, now)
    PROVE  JournalGrows(p.statement, now) /\ StatementsGrow(p.statement)
<1> DEFINE row == [statement |-> p.statement, wrapper |-> p.wrapper, committedAt |-> now]
<1>1. IsSequence(journal)
  BY Zenon DEF IInv, TypeOK
<1>2. journal' = Append(journal, row)
  BY Zenon DEF AdoptTransition
<1>3. row.statement = p.statement /\ row.committedAt = now
  OBVIOUS
<1> HIDE DEF row
<1>4. JournalGrows(p.statement, now)
  BY <1>1, <1>2, <1>3, SequenceAppend DEF JournalGrows
<1>5. StatementsGrow(p.statement)
  BY <1>1, <1>2, <1>3, StatementsAppend, Zenon DEF StatementsGrow
<1> QED
  BY <1>4, <1>5, Zenon

\* A policy's checkpoint is a number of transitions.
LEMMA CheckpointsAreNumbers ==
    ASSUME VerifiedSnapshot, IsSequence(policies), NEW v \in 1 .. Len(policies)
    PROVE  policies[v].statement.checkpoint.sequence \in Nat
<1>1. /\ PolicyStatements # << >>
      /\ PolicyStatements[v] = policies[v].statement
      /\ Len(PolicyStatements) = Len(policies)
  <2>1. /\ Len(policies) \in Nat /\ Len(PolicyStatements) = Len(policies)
        /\ PolicyStatements[v] = policies[v].statement
    BY PolicyStatementsAre, Zenon
  <2>2. Len(PolicyStatements) # 0
    BY <2>1
  <2> QED
    BY <2>1, <2>2
<1>2. VerifyRecoveryPolicySequence(root.statement, PolicyStatements)
  BY <1>1, Zenon DEF VerifiedSnapshot, VerifyChain, VerifyRecoveryAwareChain
<1>3. ValidateRecoveryCheckpoint(policies[v].statement.checkpoint)
  BY <1>1, <1>2, Zenon DEF VerifyRecoveryPolicySequence, ValidateRecoveryPolicyStatement
<1> QED
  BY <1>3, LimitsAssumption DEF ValidateRecoveryCheckpoint

\* The chain with the adopted statement verifies from nothing.
LEMMA AdoptChain ==
    ASSUME NEW st, StatementsGrow(st), IsSequence(PolicyStatements),
           UNCHANGED <<root, policies, terminal>>, terminal = NoRow,
           VerifyChain(root.statement, TransitionStatements, PolicyStatements),
           ChainExtension(root.statement, TransitionStatements, PolicyStatements, st)
    PROVE  VerifyChain(root.statement, LiveTransitions, PolicyStatements)'
<1>1. PICK S : TransitionStatements \in Seq(S) /\ st \in S
  <2> DEFINE T == {TransitionStatements[i] : i \in DOMAIN TransitionStatements}
  <2>1. TransitionStatements \in Seq(T)
    BY Zenon DEF StatementsGrow, IsSequence
  <2> HIDE DEF T
  <2>2. TransitionStatements \in Seq(T \cup {st})
    BY <2>1
  <2> QED BY <2>2, Zenon
<1>2. PICK P : PolicyStatements \in Seq(P)
  BY Zenon DEF IsSequence
<1>3. VerifyChain(root.statement, Append(TransitionStatements, st), PolicyStatements)
  BY <1>1, <1>2, ExtensionIsFullVerification, Zenon
<1>4. LiveTransitions' = Append(TransitionStatements, st) /\ PolicyStatements' = PolicyStatements
  BY Zenon DEF StatementsGrow, LiveTransitions, PolicyStatements
<1> QED
  BY <1>3, <1>4, Zenon

\* The new row passes the checks a snapshot makes of stored rows: a recovery was
\* committed after it was issued and before its ceremony ended.
LEMMA AdoptRows ==
    ASSUME NEW st, NEW now, JournalGrows(st, now), ~ IsTerminal(st),
           UNCHANGED <<terminal, receipt>>, terminal = NoRow,
           ValidateStoredTransitionRows,
           st.kind = "Recovery" => now >= st.issuedAt /\ CeremonyActiveAt(st.expiresAt, now)
    PROVE  ValidateStoredTransitionRows'
<1>1. \A i \in 1 .. Len(journal') :
         \/ i \in 1 .. Len(journal) /\ journal'[i] = journal[i]
         \/ journal'[i].statement = st /\ journal'[i].committedAt = now
  BY DEF JournalGrows
<1>2. ArchivePrefix' = ArchivePrefix
  BY Zenon DEF ArchivePrefix
<1> QED
  BY <1>1, <1>2, Zenon DEF ValidateStoredTransitionRows

\* The new row is stamped with the new audit time, which covers it and, since it
\* did not go back, every older row.
LEMMA AdoptAudit ==
    ASSUME NEW st, NEW now \in Nat, JournalGrows(st, now), RowTimes, root # NoRow,
           AuditCoversRows, now >= audit, audit' = now, UNCHANGED <<root, policies>>
    PROVE  AuditCoversRows'
<1>1. \A i \in 1 .. Len(journal') :
         \/ i \in 1 .. Len(journal) /\ journal'[i] = journal[i]
         \/ journal'[i].committedAt = now
  BY DEF JournalGrows
<1>2. \A i \in 1 .. Len(journal) : journal[i].committedAt <= now
  BY DEF AuditCoversRows, RowTimes
<1>3. \A i \in 1 .. Len(journal') : journal'[i].committedAt <= now
  BY <1>1, <1>2
<1>4. root.recordedAt <= now /\ \A v \in 1 .. Len(policies) : policies[v].recordedAt <= now
  BY DEF AuditCoversRows, RowTimes
<1> QED
  BY <1>3, <1>4, Zenon DEF AuditCoversRows

\* Rows stay ordered by the time the store observed them: the new row is no older
\* than the policies it may rest on.
LEMMA AdoptObservations ==
    ASSUME NEW st, NEW now \in Nat, JournalGrows(st, now), RowTimes, root # NoRow,
           AuditCoversRows, now >= audit, UNCHANGED <<root, policies, terminal>>,
           terminal = NoRow, ValidateLiveObservationOrder,
           \A v \in 1 .. Len(policies) : policies[v].statement.checkpoint.sequence \in Nat
    PROVE  ValidateLiveObservationOrder'
<1> DEFINE n == Len(journal)
           c(v) == policies[v].statement.checkpoint.sequence
<1>1. /\ root.recordedAt <= now
      /\ \A i \in 1 .. n : journal[i].committedAt <= now
      /\ \A v \in 1 .. Len(policies) : policies[v].recordedAt <= now
  BY DEF AuditCoversRows, RowTimes
<1>2. \A v \in 1 .. Len(policies) :
         /\ policies[v].recordedAt >=
               IF v = 1 THEN root.recordedAt ELSE policies[v - 1].recordedAt
         /\ c(v) > 0 => c(v) <= n /\ policies[v].recordedAt >= journal[c(v)].committedAt
  BY Zenon DEF ValidateLiveObservationOrder
<1>3. \A v \in 1 .. Len(policies) :
         c(v) > 0 => c(v) <= Len(journal') /\ policies[v].recordedAt >= journal'[c(v)].committedAt
  <2> TAKE v \in 1 .. Len(policies)
  <2> HAVE c(v) > 0
  <2>1. c(v) \in Nat
    OBVIOUS
  <2> HIDE DEF c
  <2>2. c(v) \in 1 .. n /\ policies[v].recordedAt >= journal[c(v)].committedAt
    BY <1>2, <2>1
  <2> QED
    BY <2>1, <2>2 DEF JournalGrows
<1>4. \A e : RecordedPolicyOf(e)' = RecordedPolicyOf(e)
  BY Zenon DEF RecordedPolicyOf
<1>5. \A e : RecordedPolicyOf(e) \subseteq 1 .. Len(policies)
  BY Zenon DEF RecordedPolicyOf
<1>6. ASSUME NEW i \in 1 .. Len(journal')
      PROVE  /\ journal'[i].committedAt >=
                   IF i = 1 THEN root.recordedAt ELSE journal'[i - 1].committedAt
             /\ journal'[i].statement.kind = "Recovery" =>
                   \A v \in RecordedPolicyOf(journal'[i].statement) :
                       journal'[i].committedAt >= policies[v].recordedAt
  <2>1. CASE i \in 1 .. n
    <3>1. journal'[i] = journal[i] /\ (i # 1 => journal'[i - 1] = journal[i - 1])
      BY <2>1 DEF JournalGrows
    <3> QED
      BY <2>1, <3>1, Zenon DEF ValidateLiveObservationOrder
  <2>2. CASE i = n + 1
    <3>1. journal'[i].committedAt = now
      BY <2>2, Zenon DEF JournalGrows
    <3>2. i # 1 => i - 1 \in 1 .. n /\ journal'[i - 1] = journal[i - 1]
      BY <2>2 DEF JournalGrows
    <3>3. now >= IF i = 1 THEN root.recordedAt ELSE journal'[i - 1].committedAt
      BY <1>1, <3>2, Zenon DEF RowTimes
    <3>4. \A v \in RecordedPolicyOf(journal'[i].statement) : now >= policies[v].recordedAt
      BY <1>1, <1>5, Zenon DEF RowTimes
    <3> QED
      BY <3>1, <3>3, <3>4, Zenon
  <2> QED
    BY <2>1, <2>2 DEF JournalGrows
<1> HIDE DEF n, c
<1>7. \A v \in 1 .. Len(policies') :
         LET sequence == policies'[v].statement.checkpoint.sequence IN
         /\ policies'[v].recordedAt >=
               IF v = 1 THEN root'.recordedAt ELSE policies'[v - 1].recordedAt
         /\ sequence > 0 => /\ sequence <= Len(journal')
                            /\ policies'[v].recordedAt >= journal'[sequence].committedAt
  BY <1>2, <1>3, Zenon DEF c
<1>8. \A i \in 1 .. Len(journal') :
         /\ journal'[i].committedAt >=
               IF i = 1 THEN root'.recordedAt ELSE journal'[i - 1].committedAt
         /\ journal'[i].statement.kind = "Recovery" =>
               \A v \in RecordedPolicyOf(journal[i].statement)' :
                   journal'[i].committedAt >= policies'[v].recordedAt
  BY <1>4, <1>6, Zenon DEF RecordedPolicyOf
<1> QED
  BY <1>7, <1>8, Zenon DEF ValidateLiveObservationOrder

\* The stored head is again what the extended journal implies.
LEMMA AdoptHead ==
    ASSUME NEW st, NEW now, JournalGrows(st, now), StatementsGrow(st), ~ IsTerminal(st),
           ValidateLiveChainHead, st.sequence = head.sequence + 1,
           head' = [revision |-> head.revision + 1, sequence |-> st.sequence,
                    key |-> st.nextKey, last |-> Digest(st), issuedAt |-> st.issuedAt]
    PROVE  ValidateLiveChainHead'
<1>1. /\ head'.revision = head.revision + 1 /\ head'.sequence = st.sequence
      /\ head'.key = st.nextKey /\ head'.last = Digest(st) /\ head'.issuedAt = st.issuedAt
  OBVIOUS
<1>2. head.revision = Len(journal) /\ head.sequence = Len(journal)
  BY Zenon DEF ValidateLiveChainHead
<1>3. Len(journal) \in Nat /\ Len(journal') = Len(journal) + 1 /\ Len(journal') # 0
  BY DEF JournalGrows
<1>4. TransitionStatements'[Len(journal')] = st
  BY <1>3, SequenceAppend DEF StatementsGrow
<1> QED
  BY <1>1, <1>2, <1>3, <1>4, Zenon DEF ValidateLiveChainHead, TipKey, LastDigest, LastIssuedAt

\* The key table after an adoption: only the two keys named change.
KeysHandOver(st) ==
    /\ st.previousKey \in Keys /\ st.nextKey \in Keys /\ st.previousKey # st.nextKey
    /\ keys'[st.nextKey] = "active"
    /\ keys'[st.previousKey] = ReplacedStatus(st.reason)
    /\ \A k \in Keys \ {st.nextKey, st.previousKey} : keys'[k] = keys[k]

\* The successor is the only active key, the predecessor is retired or
\* compromised, and every key of the chain has a record.
LEMMA AdoptKeys ==
    ASSUME NEW st, NEW now, JournalGrows(st, now), StatementsGrow(st), KeysHandOver(st),
           ~ IsTerminal(st), ValidateLiveChainKeys, terminal = NoRow,
           UNCHANGED <<root, terminal>>,
           st.previousKey = head.key, keys[st.nextKey] = "unknown",
           keys[st.previousKey] = "active", head'.key = st.nextKey,
           \A i \in 1 .. Len(journal) : journal[i].statement.previousKey \in Keys
    PROVE  ValidateLiveChainKeys'
<1>1. ReplacedStatus(st.reason) \in {"retired", "compromised"}
  BY Zenon DEF ReplacedStatus
<1>2. KnownKeys \subseteq KnownKeys' /\ st.nextKey \in KnownKeys'
  BY <1>1, Zenon DEF KnownKeys, KeysHandOver
<1>3. ActiveKeys' = {st.nextKey}
  <2>1. ActiveKeys = {st.previousKey}
    BY Zenon DEF ValidateLiveChainKeys
  <2>2. \A k \in Keys : keys[k] = "active" => k = st.previousKey
    BY <2>1, Zenon DEF ActiveKeys
  <2> QED
    BY <1>1, <2>2, Zenon DEF ActiveKeys, KeysHandOver
<1>4. OnlineKeys(root.statement, TransitionStatements') =
         OnlineKeys(root.statement, TransitionStatements) \cup {st.nextKey}
  <2>1. PICK S : TransitionStatements \in Seq(S) /\ st \in S
    <3> DEFINE T == {TransitionStatements[i] : i \in DOMAIN TransitionStatements}
    <3>1. TransitionStatements \in Seq(T)
      BY Zenon DEF StatementsGrow, IsSequence
    <3> HIDE DEF T
    <3>2. TransitionStatements \in Seq(T \cup {st})
      BY <3>1
    <3> QED BY <3>2, Zenon
  <2>2. OnlineKeys(root.statement, Append(TransitionStatements, st)) =
           OnlineKeys(root.statement, TransitionStatements)
             \cup (IF IsTerminal(st) THEN {} ELSE {st.nextKey})
    BY <2>1, OnlineKeysAppend
  <2> QED
    BY <2>2 DEF StatementsGrow
<1>5. OnlineKeys(root.statement, TransitionStatements) \subseteq KnownKeys
  BY Zenon DEF ValidateLiveChainKeys
<1>6. ASSUME NEW i \in 1 .. Len(journal'), journal'[i].statement.kind = "Recovery",
             journal'[i].statement.reason = "Compromise"
      PROVE  keys'[journal'[i].statement.previousKey] = "compromised"
  <2>1. CASE i \in 1 .. Len(journal)
    <3>1. journal'[i] = journal[i]
      BY <2>1, Zenon DEF JournalGrows
    <3>2. keys[journal[i].statement.previousKey] = "compromised"
      BY <1>6, <2>1, <3>1, Zenon DEF ValidateLiveChainKeys
    <3> QED
      BY <2>1, <3>1, <3>2, Zenon DEF KeysHandOver
  <2>2. CASE i = Len(journal) + 1
    <3>1. journal'[i].statement = st
      BY <2>2, Zenon DEF JournalGrows
    <3> QED
      BY <1>6, <3>1, Zenon DEF KeysHandOver, ReplacedStatus
  <2> QED
    BY <2>1, <2>2 DEF JournalGrows
<1> QED
  BY <1>2, <1>3, <1>4, <1>5, <1>6, Zenon DEF ValidateLiveChainKeys

\* Whatever was checked before the transaction: if its own checks hold, adopting
\* the transition leaves a snapshot that verifies.
LEMMA AdoptVerifies ==
    ASSUME IInv, NEW s, NEW p, NEW now, AdoptionChecked(p.statement, now),
           AdoptTransition(s, p, now)
    PROVE  VerifiedSnapshot' /\ AuditCoversRows'
<1> DEFINE st == p.statement
<1>1. TypeOK /\ VerifiedSnapshot /\ root # NoRow /\ AuditCoversRows
  BY Zenon DEF IInv, StoreAlwaysVerifies, AdoptionChecked
<1>2. /\ st.previousKey \in Keys /\ st.nextKey \in Keys /\ ~ IsTerminal(st)
      /\ keys[st.previousKey] = "active" /\ keys[st.nextKey] = "unknown"
      /\ st.previousKey # st.nextKey
  BY Zenon DEF AdoptionChecked, IsStatement
<1>3. /\ terminal = NoRow /\ LiveTransitions = TransitionStatements
      /\ st.previousKey = head.key
  BY <1>1, <1>2, ActiveMeansLive, Zenon
<1>4. UNCHANGED <<root, policies, policyHead, terminal, receipt>> /\ audit' = now
  BY Zenon DEF AdoptTransition
<1>5. JournalGrows(st, now) /\ StatementsGrow(st)
  BY AdoptJournal, Zenon
<1>6. /\ head' = [revision |-> head.revision + 1, sequence |-> st.sequence,
                  key |-> st.nextKey, last |-> Digest(st), issuedAt |-> st.issuedAt]
      /\ head' # NoRow /\ head'.key = st.nextKey
  <2>1. head' = [revision |-> head.revision + 1, sequence |-> st.sequence,
                 key |-> st.nextKey, last |-> Digest(st), issuedAt |-> st.issuedAt]
    BY Zenon DEF AdoptTransition
  <2> HIDE DEF st
  <2> QED
    BY <2>1 DEF NoRow
<1>7. KeysHandOver(st)
  <2>1. keys \in [Keys -> Statuses]
    BY <1>1, Zenon DEF TypeOK
  <2>2. keys' = [keys EXCEPT ![st.previousKey] = ReplacedStatus(st.reason),
                             ![st.nextKey] = "active"]
    BY Zenon DEF AdoptTransition
  <2> HIDE DEF st
  <2> QED
    BY <1>2, <2>1, <2>2, Zenon DEF KeysHandOver
<1>8. RowTimes /\ now \in Nat /\ now >= audit
  BY <1>1, RowTimesAre, StoreAssumption DEF AdoptionChecked, Times
<1>9. IsSequence(PolicyStatements) /\ IsSequence(policies)
  BY <1>1, PolicyStatementsAre, Zenon DEF TypeOK
<1>10. /\ VerifyChain(root.statement, TransitionStatements, PolicyStatements)
       /\ ChainExtension(root.statement, TransitionStatements, PolicyStatements, st)
  BY <1>1, <1>3, Zenon DEF VerifiedSnapshot, AdoptionChecked
<1>11. st.sequence = head.sequence + 1
  BY Zenon DEF AdoptionChecked, IntentAtHead
<1>12. st.kind = "Recovery" => now >= st.issuedAt /\ CeremonyActiveAt(st.expiresAt, now)
  BY Zenon DEF AdoptionChecked
<1>13. \A i \in 1 .. Len(journal) : journal[i].statement.previousKey \in Keys
  BY <1>1, Zenon DEF TypeOK, IsStatement
<1>14. \A v \in 1 .. Len(policies) : policies[v].statement.checkpoint.sequence \in Nat
  BY <1>1, <1>9, CheckpointsAreNumbers, Zenon
<1> HIDE DEF st
<1>15. VerifyChain(root.statement, LiveTransitions, PolicyStatements)'
  BY <1>3, <1>4, <1>5, <1>9, <1>10, AdoptChain, Zenon
<1>16. ValidateStoredTransitionRows'
  BY <1>1, <1>2, <1>3, <1>4, <1>5, <1>12, AdoptRows, Zenon DEF VerifiedSnapshot
<1>17. ValidateStoredRecoveryPolicies'
  BY <1>1, <1>4, Zenon DEF VerifiedSnapshot, ValidateStoredRecoveryPolicies, LatestPolicy
<1>18. ValidateLiveObservationOrder'
  BY <1>1, <1>3, <1>4, <1>5, <1>8, <1>14, AdoptObservations, Zenon DEF VerifiedSnapshot
<1>19. ValidateLiveChainHead'
  BY <1>1, <1>2, <1>5, <1>6, <1>11, AdoptHead, Zenon DEF VerifiedSnapshot
<1>20. ValidateLiveChainKeys'
  BY <1>1, <1>2, <1>3, <1>4, <1>5, <1>6, <1>7, <1>13, AdoptKeys, Zenon DEF VerifiedSnapshot
<1>21. AuditCoversRows'
  BY <1>1, <1>4, <1>5, <1>8, AdoptAudit, Zenon
<1> QED
  BY <1>1, <1>4, <1>6, <1>15, <1>16, <1>17, <1>18, <1>19, <1>20, <1>21, Zenon DEF VerifiedSnapshot

\* What a session carries into its transaction is a signed proof of that kind.
LEMMA CarriedProof ==
    ASSUME TypeOK, NEW s \in Sessions,
           NEW kind \in {"Routine", "Recovery", "TerminalRevocation"}, Carries(s, kind)
    PROVE  /\ sess[s].proof \in proofs
           /\ sess[s].proof.statement.kind = kind
           /\ IsStatement(sess[s].proof.statement)
<1>1. IsSession(sess[s]) /\ sess[s] # Idle /\ sess[s].phase = kind /\ kind # "authorized"
  BY Zenon DEF TypeOK, Carries
<1>2. sess[s].proof \in proofs /\ sess[s].phase = sess[s].proof.statement.kind
  BY <1>1, Zenon DEF IsSession
<1> QED
  BY <1>1, <1>2, Zenon DEF TypeOK

\* Adopting a checked transition keeps the whole invariant.
LEMMA AdoptInvariant ==
    ASSUME IInv, NEW s \in Sessions, NEW p \in proofs, NEW now \in Times,
           AdoptionChecked(p.statement, now), AdoptTransition(s, p, now)
    PROVE  IInv'
<1>1. VerifiedSnapshot' /\ AuditCoversRows'
  BY AdoptVerifies, Zenon
<1>2. head # NoRow /\ ~ IsTerminal(p.statement) /\ root # NoRow
  BY Zenon DEF IInv, StoreAlwaysVerifies, VerifiedSnapshot, AdoptionChecked
<1>3. TypeOK'
  BY <1>2, AdoptTypes, Zenon
<1>4. UNCHANGED <<root, policies, archive, receipt>>
  BY Zenon DEF AdoptTransition
<1> QED
  BY <1>1, <1>2, <1>3, <1>4, Zenon
     DEF IInv, StoreAlwaysVerifies, UnrootedIsEmpty, VersionsCount

\* Committing a routine transition preserves the invariant.
LEMMA CommitRoutineInvariant ==
    ASSUME IInv, NEW s \in Sessions, NEW now \in Times, CommitRoutineTransition(s, now)
    PROVE  IInv'
<1> DEFINE p == sess[s].proof
<1>1. p \in proofs /\ p.statement.kind = "Routine" /\ IsStatement(p.statement)
  BY CarriedProof, Zenon DEF IInv, CommitRoutineTransition
<1>2. AdoptTransition(s, p, now)
  BY Zenon DEF CommitRoutineTransition
<1>3. AdoptionChecked(p.statement, now)
  BY <1>1, Zenon DEF CommitRoutineTransition, AdoptionChecked, IsTerminal, VerifiedSnapshot,
              RequireUnknownKey, RequireMonotonicAuditTime
<1> HIDE DEF p
<1> QED
  BY <1>1, <1>2, <1>3, AdoptInvariant, Zenon

\* Committing a recovery transition preserves the invariant.
LEMMA CommitRecoveryInvariant ==
    ASSUME IInv, NEW s \in Sessions, NEW now \in Times, CommitRecoveryTransition(s, now)
    PROVE  IInv'
<1> DEFINE p == sess[s].proof
<1>1. p \in proofs /\ p.statement.kind = "Recovery" /\ IsStatement(p.statement)
  BY CarriedProof, Zenon DEF IInv, CommitRecoveryTransition
<1>2. AdoptTransition(s, p, now)
  BY Zenon DEF CommitRecoveryTransition
<1>3. ChainExtension(root.statement, LiveTransitions, PolicyStatements, p.statement)
  <2>1. PolicyStatements # << >>
    BY PolicyStatementsAre, Zenon DEF IInv, TypeOK, CommitRecoveryTransition
  <2> QED
    BY <2>1, Zenon DEF CommitRecoveryTransition, ChainExtension
<1>4. now >= p.statement.issuedAt /\ CeremonyActiveAt(p.statement.expiresAt, now)
  BY Zenon DEF CommitRecoveryTransition, WindowHolds
<1>5. AdoptionChecked(p.statement, now)
  BY <1>1, <1>3, <1>4, Zenon
     DEF CommitRecoveryTransition, AdoptionChecked, IsTerminal, VerifiedSnapshot,
         RequireUnknownKey, RequireMonotonicAuditTime
<1> HIDE DEF p
<1> QED
  BY <1>1, <1>2, <1>5, AdoptInvariant, Zenon

-----------------------------------------------------------------------------
(* Terminal revocation *)

\* Committing a terminal revocation keeps every table well formed.
LEMMA CommitTerminalTypes ==
    ASSUME IInv, NEW s \in Sessions, NEW now \in Times,
           CommitTerminalPersonaRevocation(s, now)
    PROVE  TypeOK'
<1> DEFINE st == sess[s].proof.statement
<1>1. IsStatement(st)
  BY CarriedProof, Zenon DEF IInv, CommitTerminalPersonaRevocation
<1>2. TypeOK
  BY Zenon DEF IInv
<1>3. /\ UNCHANGED <<root, journal, head, policies, proofs, lock>>
      /\ audit' = now
      /\ sess' = [sess EXCEPT ![s] = Idle]
      /\ terminal'.statement = st /\ terminal'.committedAt = now
      /\ refs' \subseteq refs
  BY Zenon DEF CommitTerminalPersonaRevocation
<1>4. keys' \in [Keys -> Statuses]
  <2>1. ReplacedStatus(st.reason) \in Statuses
    BY Zenon DEF ReplacedStatus, Statuses
  <2>2. keys' = [keys EXCEPT ![st.previousKey] = ReplacedStatus(st.reason)]
    BY Zenon DEF CommitTerminalPersonaRevocation
  <2> QED
    BY <1>2, <2>1, <2>2, Zenon DEF TypeOK
<1>5. DOMAIN sess' = Sessions /\ \A r \in Sessions : IsSession(sess'[r])
  BY <1>2, <1>3 DEF TypeOK, IsSession
<1>6. \A r \in Sessions : IsSession(sess[r])'
  BY <1>3, <1>5, ZenonT(60) DEF IsSession
<1>7. IsStatement(terminal.statement)'
  BY <1>1, <1>3, Zenon DEF IsStatement, IsTerminal
<1> HIDE DEF st
<1> QED
  BY <1>2, <1>3, <1>4, <1>5, <1>6, <1>7, ZenonT(60) DEF TypeOK, IsStatement, IsTerminal

\* The store that records a terminal revocation verifies from its root, with no
\* active key left.
LEMMA CommitTerminalVerifies ==
    ASSUME IInv, NEW s \in Sessions, NEW now \in Times,
           CommitTerminalPersonaRevocation(s, now)
    PROVE  VerifiedSnapshot' /\ AuditCoversRows'
<1> DEFINE st == sess[s].proof.statement
<1>1. /\ IsStatement(st) /\ st.kind = "TerminalRevocation"
      /\ TypeOK /\ VerifiedSnapshot /\ AuditCoversRows
  BY CarriedProof, Zenon DEF IInv, CommitTerminalPersonaRevocation
<1>2. /\ UNCHANGED <<root, journal, head, policies, policyHead, receipt>>
      /\ audit' = now /\ terminal = NoRow
      /\ refs' = refs \ {st.previousKey}
      /\ keys' = [keys EXCEPT ![st.previousKey] = ReplacedStatus(st.reason)]
      /\ now >= audit /\ now >= st.issuedAt
      /\ st.previousKey = head.key
  BY Zenon DEF CommitTerminalPersonaRevocation, RequireMonotonicAuditTime, WindowHolds, IntentAtHead
<1>3. terminal' # NoRow /\ terminal'.statement = st /\ terminal'.committedAt = now
  <2> DEFINE row == [statement |-> st, wrapper |-> sess[s].proof.wrapper, committedAt |-> now]
  <2>1. terminal' = row
    BY Zenon DEF CommitTerminalPersonaRevocation
  <2>2. row # NoRow
    BY DEF NoRow
  <2> QED
    BY <2>1, <2>2, Zenon
<1>4. /\ TransitionStatements' = TransitionStatements
      /\ PolicyStatements' = PolicyStatements
      /\ LatestPolicy' = LatestPolicy /\ ArchivePrefix' = ArchivePrefix
      /\ LiveTransitions = TransitionStatements
      /\ LiveTransitions' = Append(TransitionStatements, st)
  BY <1>2, <1>3, Zenon DEF TransitionStatements, PolicyStatements, LatestPolicy, ArchivePrefix,
                    LiveTransitions
<1>5. root # NoRow /\ head # NoRow
  BY <1>1, Zenon DEF VerifiedSnapshot
<1>6. ChainExtension(root.statement, TransitionStatements, PolicyStatements, st)
  <2>1. PolicyStatements # << >>
    BY <1>1, PolicyStatementsAre, Zenon DEF TypeOK, CommitTerminalPersonaRevocation
  <2>2. TerminalExtension(root.statement, TransitionStatements, PolicyStatements, st)
    BY <1>4, Zenon DEF CommitTerminalPersonaRevocation
  <2> QED
    BY <2>1, <2>2, Zenon DEF ChainExtension
<1>7. \A i \in 1 .. Len(journal) : journal[i].statement.previousKey \in Keys
  BY <1>1, Zenon DEF TypeOK, IsStatement
<1>8. st.previousKey \in Keys
  BY <1>1, Zenon DEF IsStatement
<1>9. RowTimes /\ now \in Nat
  BY <1>1, <1>5, RowTimesAre, StoreAssumption DEF Times
<1> HIDE DEF st
<1>10. VerifyChain(root.statement, LiveTransitions, PolicyStatements)'
  <2>1. IsSequence(TransitionStatements) /\ IsSequence(PolicyStatements)
    BY <1>1, PolicyStatementsAre, StatementsAre, Zenon DEF TypeOK
  <2>2. PICK S : TransitionStatements \in Seq(S) /\ st \in S
    <3> DEFINE T == {TransitionStatements[i] : i \in DOMAIN TransitionStatements}
    <3>1. TransitionStatements \in Seq(T)
      BY <2>1, Zenon DEF IsSequence
    <3> HIDE DEF T
    <3>2. TransitionStatements \in Seq(T \cup {st})
      BY <3>1
    <3> QED BY <3>2, Zenon
  <2>3. PICK P : PolicyStatements \in Seq(P)
    BY <2>1, Zenon DEF IsSequence
  <2>4. VerifyChain(root.statement, TransitionStatements, PolicyStatements)
    BY <1>1, <1>4, Zenon DEF VerifiedSnapshot
  <2>5. VerifyChain(root.statement, Append(TransitionStatements, st), PolicyStatements)
    BY <1>6, <2>2, <2>3, <2>4, ExtensionIsFullVerification, Zenon
  <2> QED
    BY <1>2, <1>4, <2>5, Zenon
<1>11. ValidateStoredTransitionRows'
  BY <1>1, <1>2, <1>3, <1>4, Zenon DEF VerifiedSnapshot, ValidateStoredTransitionRows, IsTerminal
<1>12. ValidateStoredRecoveryPolicies'
  BY <1>1, <1>2, <1>4, Zenon DEF VerifiedSnapshot, ValidateStoredRecoveryPolicies
<1>13. AuditCoversRows'
  BY <1>1, <1>2, <1>5, <1>9 DEF AuditCoversRows, RowTimes
<1>14. ValidateLiveObservationOrder'
  <2>1. ValidateLiveObservationOrder
    BY <1>1, Zenon DEF VerifiedSnapshot
  <2>2. now >= IF journal = << >> THEN root.recordedAt ELSE journal[Len(journal)].committedAt
    <3>1. IsSequence(journal)
      BY <1>1, Zenon DEF TypeOK
    <3>2. journal # << >> => Len(journal) \in 1 .. Len(journal)
      BY <3>1 DEF IsSequence
    <3> QED
      BY <1>2, <1>5, <1>9, <1>13, <3>2, Zenon DEF AuditCoversRows, RowTimes
  <2>3. \A v \in RecordedPolicyOf(st) : now >= policies[v].recordedAt
    BY <1>2, <1>9, <1>13, Zenon DEF AuditCoversRows, RowTimes, RecordedPolicyOf
  <2> QED
    BY <1>2, <1>3, <2>1, <2>2, <2>3, Zenon DEF ValidateLiveObservationOrder, RecordedPolicyOf
<1>15. ValidateLiveChainHead'
  BY <1>1, <1>2, <1>4, Zenon DEF VerifiedSnapshot, ValidateLiveChainHead
<1>16. ValidateLiveChainKeys'
  <2>1. ValidateLiveChainKeys /\ keys \in [Keys -> Statuses]
    BY <1>1, Zenon DEF VerifiedSnapshot, TypeOK
  <2>2. /\ keys'[st.previousKey] = ReplacedStatus(st.reason)
        /\ \A k \in Keys \ {st.previousKey} : keys'[k] = keys[k]
    BY <1>2, <1>8, <2>1, Zenon
  <2>3. ReplacedStatus(st.reason) = IF st.reason = "Compromise" THEN "compromised" ELSE "retired"
    BY Zenon DEF ReplacedStatus
  <2>4. ActiveKeys = {st.previousKey}
    BY <1>2, <2>1, Zenon DEF ValidateLiveChainKeys
  <2>5. ActiveKeys' = {}
    BY <2>2, <2>3, <2>4, ZenonT(60) DEF ActiveKeys
  <2>6. KnownKeys \subseteq KnownKeys'
    BY <2>2, <2>3, Zenon DEF KnownKeys
  <2>7. \A i \in 1 .. Len(journal) :
           LET e == journal[i].statement IN
           e.kind = "Recovery" /\ e.reason = "Compromise" => keys'[e.previousKey] = "compromised"
    BY <1>7, <2>1, <2>2, <2>4, Zenon DEF ValidateLiveChainKeys, ActiveKeys
  <2>8. OnlineKeys(root.statement, TransitionStatements) \subseteq KnownKeys
    BY <2>1, Zenon DEF ValidateLiveChainKeys
  <2> QED
    BY <1>2, <1>3, <1>4, <2>2, <2>3, <2>5, <2>6, <2>7, <2>8, ZenonT(60) DEF ValidateLiveChainKeys
<1> QED
  BY <1>2, <1>5, <1>10, <1>11, <1>12, <1>13, <1>14, <1>15, <1>16, Zenon DEF VerifiedSnapshot

\* Committing a terminal revocation preserves the invariant.
LEMMA CommitTerminalInvariant ==
    ASSUME IInv, NEW s \in Sessions, NEW now \in Times,
           CommitTerminalPersonaRevocation(s, now)
    PROVE  IInv'
<1>1. VerifiedSnapshot' /\ AuditCoversRows' /\ TypeOK'
  BY CommitTerminalVerifies, CommitTerminalTypes, Zenon
<1>2. UNCHANGED <<policies, archive, receipt>>
  BY Zenon DEF CommitTerminalPersonaRevocation
<1> QED
  BY <1>1, <1>2, Zenon DEF IInv, StoreAlwaysVerifies, UnrootedIsEmpty, VersionsCount,
     VerifiedSnapshot

-----------------------------------------------------------------------------
(* Keys, signing references and the root *)

\* A compromised mark on a key of a rooted persona leaves the head key alone.
LEMMA MarkKeyCompromisedKeys ==
    ASSUME TypeOK, VerifiedSnapshot, root # NoRow,
           NEW k \in Keys, NEW now, MarkKeyCompromised(k, now)
    PROVE  ValidateLiveChainKeys'
<1>1. /\ terminal = NoRow /\ ActiveKeys = {head.key} /\ ValidateLiveChainKeys
      /\ UNCHANGED <<root, journal, head, terminal>>
      /\ keys' = [keys EXCEPT ![k] = "compromised"]
  BY Zenon DEF MarkKeyCompromised, RequireNonterminal, VerifiedSnapshot, ValidateLiveChainKeys
<1>2. k # head.key /\ keys[k] # "unknown"
  <2>1. keys[k] = "active" => k \in ActiveKeys
    BY Zenon DEF ActiveKeys
  <2>2. k = head.key => keys[k] = "active"
    BY <1>1, Zenon DEF ActiveKeys
  <2> QED
    BY <1>1, <2>1, <2>2, Zenon DEF MarkKeyCompromised, RequiresJournal
<1>3. keys'[k] = "compromised" /\ \A j \in Keys \ {k} : keys'[j] = keys[j]
  BY <1>1, Zenon DEF TypeOK
<1>4. ActiveKeys' = {head.key} /\ KnownKeys' = KnownKeys
  <2>1. ActiveKeys' = ActiveKeys
    BY <1>1, <1>2, <1>3, Zenon DEF ActiveKeys
  <2>2. KnownKeys' = KnownKeys
    BY <1>2, <1>3, Zenon DEF KnownKeys
  <2> QED
    BY <1>1, <2>1, <2>2, Zenon
<1>5. \A i \in 1 .. Len(journal) :
         keys[journal[i].statement.previousKey] = "compromised"
             => keys'[journal[i].statement.previousKey] = "compromised"
  <2>1. \A i \in 1 .. Len(journal) : journal[i].statement.previousKey \in Keys
    BY Zenon DEF TypeOK, IsStatement
  <2> QED
    BY <1>3, <2>1, Zenon
<1>6. TransitionStatements' = TransitionStatements
  BY <1>1, Zenon DEF TransitionStatements
<1> QED
  BY <1>1, <1>4, <1>5, <1>6, Zenon DEF ValidateLiveChainKeys

\* Binding or unbinding a signing reference changes only the references.
LEMMA ReferenceKeys ==
    ASSUME VerifiedSnapshot, NEW k, NEW now,
           BindSigningReference(k, now) \/ UnbindSigningReference(k, now)
    PROVE  ValidateLiveChainKeys'
<1>1. UNCHANGED <<keys, root, journal, head, terminal>> /\ terminal = NoRow
  BY Zenon DEF BindSigningReference, UnbindSigningReference, RequireNonterminal
<1>2. UNCHANGED <<TransitionStatements, ActiveKeys, KnownKeys>>
  BY <1>1, Zenon DEF TransitionStatements, ActiveKeys, KnownKeys
<1> QED
  BY <1>1, <1>2, Zenon DEF VerifiedSnapshot, ValidateLiveChainKeys

\* A fresh root is a chain of no transitions.
LEMMA RecordRootVerifies ==
    ASSUME IInv, NEW k \in Keys, NEW issuedAt, NEW now,
           RecordContinuityRoot(k, issuedAt, now)
    PROVE  VerifiedSnapshot'
<1>1. /\ journal = << >> /\ policies = << >> /\ policyHead = NoRow
      /\ terminal = NoRow /\ receipt = NoRow
      /\ UNCHANGED <<journal, policies, policyHead, terminal, receipt, keys>>
      /\ ActiveKeys = {k}
  BY Zenon DEF RecordContinuityRoot, IInv, UnrootedIsEmpty
<1>2. /\ root' # NoRow /\ root'.statement.key = k /\ root'.statement.issuedAt = issuedAt
      /\ head' # NoRow /\ head'.revision = 0 /\ head'.sequence = 0 /\ head'.key = k
      /\ head'.last = None /\ head'.issuedAt = issuedAt
  BY DEF RecordContinuityRoot, NoRow
<1>3. Len(journal') = 0 /\ Len(policies') = 0
  BY <1>1, Zenon
<1>4. Len(TransitionStatements') = 0 /\ TransitionStatements' = << >>
      /\ PolicyStatements' = << >> /\ LiveTransitions' = TransitionStatements'
  <2>1. TransitionStatements' = << >> /\ PolicyStatements' = << >>
    BY <1>3 DEF TransitionStatements, PolicyStatements
  <2> QED
    BY <1>1, <2>1, Zenon DEF LiveTransitions
<1>5. VerifyChain(root.statement, LiveTransitions, PolicyStatements)'
  BY <1>4, LimitsAssumption DEF VerifyChain, VerifyRoutineChain
<1>6. /\ ValidateStoredTransitionRows' /\ ValidateStoredRecoveryPolicies'
      /\ ValidateLiveObservationOrder'
  BY <1>1, <1>3
     DEF ValidateStoredTransitionRows, ValidateStoredRecoveryPolicies, ValidateLiveObservationOrder
<1>7. ValidateLiveChainHead'
  BY <1>2, <1>3, Zenon DEF ValidateLiveChainHead, TipKey, LastDigest, LastIssuedAt
<1>8. ValidateLiveChainKeys'
  <2>1. ActiveKeys' = {k}
    BY <1>1, Zenon DEF ActiveKeys
  <2>2. k \in KnownKeys'
    BY <1>1, Zenon DEF ActiveKeys, KnownKeys
  <2>3. OnlineKeys(root.statement, TransitionStatements)' = {k}
    BY <1>2, <1>4 DEF OnlineKeys
  <2> QED
    BY <1>1, <1>2, <1>3, <2>1, <2>2, <2>3 DEF ValidateLiveChainKeys
<1> QED
  BY <1>2, <1>5, <1>6, <1>7, <1>8, Zenon DEF VerifiedSnapshot

\* Operations on keys, references and the root preserve the invariant.
LEMMA KeyStepInvariant ==
    ASSUME IInv, KeyStep
    PROVE  IInv'
<1> PICK k \in Keys, now \in Times :
       \/ EnrollKey(k, now)
       \/ \E reason \in {"Routine", "Recovery", "Compromise"} : RotateKey(k, reason, now)
       \/ MarkKeyCompromised(k, now)
       \/ BindSigningReference(k, now)
       \/ UnbindSigningReference(k, now)
       \/ \E issuedAt \in IssueTimes : RecordContinuityRoot(k, issuedAt, now)
  BY Zenon DEF KeyStep
<1>1. TypeOK'
  BY KeyStepTypes, Zenon
<1>2. /\ UNCHANGED <<journal, policies, policyHead, terminal, archive, receipt>>
      /\ audit' = now /\ now >= audit
  BY Zenon DEF EnrollKey, RotateKey, MarkKeyCompromised, BindSigningReference,
         UnbindSigningReference, RecordContinuityRoot, RequireMonotonicAuditTime
<1>3. \/ UNCHANGED <<root, head>>
      \/ root = NoRow /\ root'.recordedAt = now /\ VerifiedSnapshot'
  <2>1. CASE \E issuedAt \in IssueTimes : RecordContinuityRoot(k, issuedAt, now)
    <3>1. PICK issuedAt : RecordContinuityRoot(k, issuedAt, now)
      BY <2>1, Zenon
    <3>2. VerifiedSnapshot'
      BY <3>1, RecordRootVerifies, Zenon
    <3> QED
      BY <3>1, <3>2, Zenon DEF RecordContinuityRoot
  <2> QED
    BY <2>1, Zenon DEF EnrollKey, RotateKey, MarkKeyCompromised, BindSigningReference,
                UnbindSigningReference
<1>4. VersionsCount'
  BY <1>2, Zenon DEF IInv, VersionsCount
<1>5. AuditCoversRows'
  <2>1. audit \in Nat /\ now \in Nat
    BY StoreAssumption DEF IInv, TypeOK, Times
  <2>2. /\ \A i \in 1 .. Len(journal) : journal[i].committedAt \in Nat
        /\ \A v \in 1 .. Len(policies) : policies[v].recordedAt \in Nat
        /\ root # NoRow => root.recordedAt \in Nat
    BY StoreAssumption DEF IInv, TypeOK, Times
  <2> QED
    BY <1>2, <1>3, <2>1, <2>2 DEF IInv, AuditCoversRows
<1>6. StoreAlwaysVerifies' /\ UnrootedIsEmpty'
  <2>1. CASE root' = NoRow
    BY <1>2, <1>3, <2>1, Zenon DEF IInv, StoreAlwaysVerifies, UnrootedIsEmpty, VerifiedSnapshot
  <2>2. CASE root' # NoRow /\ ~ UNCHANGED <<root, head>>
    BY <1>3, <2>2, Zenon DEF StoreAlwaysVerifies, UnrootedIsEmpty
  <2>3. CASE root' # NoRow /\ UNCHANGED <<root, head>>
    <3>1. root # NoRow /\ VerifiedSnapshot /\ UNCHANGED continuityTables
      BY <1>2, <2>3, Zenon DEF IInv, StoreAlwaysVerifies, continuityTables
    <3>2. \/ MarkKeyCompromised(k, now)
          \/ BindSigningReference(k, now) \/ UnbindSigningReference(k, now)
      BY <3>1, Zenon DEF EnrollKey, RotateKey, RecordContinuityRoot, ContinuityUnmanaged
    <3>3. ValidateLiveChainKeys'
      BY <3>1, <3>2, MarkKeyCompromisedKeys, ReferenceKeys, Zenon DEF IInv
    <3>4. VerifiedSnapshot'
      BY <3>1, <3>3, TablesUnchanged, Zenon DEF VerifiedSnapshot, continuityTables
    <3> QED
      BY <2>3, <3>4, Zenon DEF StoreAlwaysVerifies, UnrootedIsEmpty
  <2> QED
    BY <2>1, <2>2, <2>3, Zenon
<1> QED
  BY <1>1, <1>4, <1>5, <1>6, Zenon DEF IInv

-----------------------------------------------------------------------------
(* Recording recovery policies *)

JoinedPolicies(suffix) == PolicyStatements \o suffix

\* What the transaction that records suffix at time now has checked.
PoliciesChecked(suffix, now) ==
    /\ IsSequence(suffix)
    /\ Len(suffix) \in 1 .. 2
    /\ \A i \in 1 .. Len(suffix) : suffix[i].issuedAt \in Nat
    /\ suffix[Len(suffix)].issuedAt <= now
    /\ now \in Nat
    /\ now >= audit
    /\ VerifyRecoveryAwareChain(root.statement, TransitionStatements, JoinedPolicies(suffix))

\* What it does to the policy table, seen row by row.
PoliciesGrow(suffix, now) ==
    /\ IsSequence(policies) /\ IsSequence(policies')
    /\ Len(policies) \in Nat
    /\ Len(policies') = Len(policies) + Len(suffix)
    /\ \A v \in 1 .. Len(policies) : policies'[v] = policies[v]
    /\ \A i \in 1 .. Len(suffix) : /\ policies'[Len(policies) + i].statement = suffix[i]
                                   /\ policies'[Len(policies) + i].recordedAt = now
    /\ PolicyStatements' = JoinedPolicies(suffix)

\* The policies a caller supplies: one or two, with the times of their terms.
LEMMA SuffixShape ==
    ASSUME NEW suffix \in PolicySuffixes
    PROVE  /\ IsSequence(suffix)
           /\ Len(suffix) \in 1 .. 2
           /\ \A i \in 1 .. Len(suffix) : suffix[i].issuedAt \in Nat
<1>1. \A t \in PolicyTerms : \A before, sequence :
         PolicyStatement(t, before, sequence).issuedAt \in Nat
  BY StoreAssumption, Zenon DEF PolicyStatement
<1>2. \E p, q : /\ p.issuedAt \in Nat /\ q.issuedAt \in Nat
                /\ suffix = <<p>> \/ suffix = <<p, q>>
  BY <1>1 DEF PolicySuffixes
<1>3. PICK p, q : /\ p.issuedAt \in Nat /\ q.issuedAt \in Nat
                  /\ suffix = <<p>> \/ suffix = <<p, q>>
  BY <1>2, Zenon
<1>4. suffix \in Seq({p, q})
  <2>1. <<p>> \in Seq({p, q}) /\ <<p, q>> \in Seq({p, q})
    OBVIOUS
  <2> QED
    BY <1>3, <2>1, Zenon
<1>5. IsSequence(suffix)
  BY <1>4, SequenceOf, Zenon
<1>6. Len(suffix) \in 1 .. 2 /\ \A i \in 1 .. Len(suffix) : suffix[i].issuedAt \in Nat
  <2>0. p.issuedAt \in Nat /\ q.issuedAt \in Nat
    BY <1>3, Zenon
  <2>1. CASE suffix = <<p>>
    <3>1. Len(suffix) = 1 /\ suffix[1] = p
      BY <2>1, Zenon
    <3> QED
      BY <2>0, <3>1
  <2>2. CASE suffix = <<p, q>>
    <3>1. Len(suffix) = 2 /\ suffix[1] = p /\ suffix[2] = q
      BY <2>2, Zenon
    <3> QED
      BY <2>0, <3>1
  <2> QED
    BY <1>3, <2>1, <2>2, Zenon
<1> QED
  BY <1>5, <1>6, Zenon

\* The rows behind the recorded ones are the supplied policies in their order.
LEMMA PoliciesAppended ==
    ASSUME IsSequence(policies), NEW suffix, IsSequence(suffix), NEW now,
           IsConcat(policies', policies, PolicyRows(suffix, now))
    PROVE  PoliciesGrow(suffix, now)
<1> DEFINE rows == PolicyRows(suffix, now)
           n == Len(policies)
           m == Len(suffix)
           ps == PolicyStatements
           all == JoinedPolicies(suffix)
<1>1. m \in Nat
  BY DEF IsSequence
<1>2. /\ DOMAIN rows = 1 .. m /\ rows = [i \in 1 .. m |-> rows[i]]
      /\ \A i \in 1 .. m : rows[i].statement = suffix[i] /\ rows[i].recordedAt = now
  BY Zenon DEF PolicyRows
<1>3. IsSequence(rows) /\ Len(rows) = m
  <2> HIDE DEF rows, m
  <2> QED
    BY <1>1, <1>2, SequenceDefined, Zenon
<1>4. /\ IsSequence(policies') /\ n \in Nat /\ Len(policies') = n + m
      /\ \A v \in 1 .. n : policies'[v] = policies[v]
      /\ \A i \in 1 .. m : policies'[n + i] = rows[i]
  <2>1. /\ IsSequence(policies') /\ n \in Nat /\ Len(policies') = n + Len(rows)
        /\ \A v \in 1 .. n : policies'[v] = policies[v]
        /\ \A i \in 1 .. Len(rows) : policies'[n + i] = rows[i]
    BY <1>3, SequenceConcat
  <2> HIDE DEF rows, n, m
  <2> QED
    BY <1>3, <2>1, Zenon
<1>5. /\ IsSequence(ps) /\ Len(ps) = n
      /\ \A v \in 1 .. n : ps[v] = policies[v].statement
  BY PolicyStatementsAre, Zenon
<1>6. IsConcat(all, ps, suffix)
  BY Zenon DEF IsConcat, JoinedPolicies
<1>7. ps' = [v \in 1 .. n + m |-> policies'[v].statement]
  BY <1>4, Zenon DEF PolicyStatements
<1> HIDE DEF ps, all, rows
<1>8. /\ IsSequence(all) /\ Len(all) = n + m
      /\ \A v \in 1 .. n : all[v] = ps[v]
      /\ \A i \in 1 .. m : all[n + i] = suffix[i]
  <2>1. /\ IsSequence(all) /\ Len(all) = Len(ps) + m
        /\ \A v \in 1 .. Len(ps) : all[v] = ps[v]
        /\ \A i \in 1 .. m : all[Len(ps) + i] = suffix[i]
    BY <1>5, <1>6, SequenceConcat
  <2> HIDE DEF n, m
  <2> QED
    BY <1>5, <2>1, Zenon
<1> HIDE DEF n, m
<1>9. all = [v \in 1 .. n + m |-> all[v]]
  BY <1>8 DEF IsSequence
<1>10. \A v \in 1 .. n + m : policies'[v].statement = all[v]
  <2> TAKE v \in 1 .. n + m
  <2>1. CASE v \in 1 .. n
    BY <1>4, <1>5, <1>8, <2>1, Zenon
  <2>2. CASE v \notin 1 .. n
    <3>1. PICK i \in 1 .. m : v = n + i
      BY <1>1, <1>4, <2>2
    <3> QED
      BY <1>2, <1>4, <1>8, <3>1, ZenonT(60)
  <2> QED
    BY <2>1, <2>2, Zenon
<1>11. ps' = all
  BY <1>7, <1>9, <1>10, Zenon
<1> QED
  BY <1>2, <1>4, <1>11, Zenon DEF PoliciesGrow, ps, all, n, m

\* Each new row: its version, its time and its checkpoint.
LEMMA NewPolicies ==
    ASSUME IInv, root # NoRow, NEW suffix, NEW now,
           PoliciesChecked(suffix, now), PoliciesGrow(suffix, now)
    PROVE  \A v \in 1 .. Len(policies') :
              \/ v \in 1 .. Len(policies) /\ policies'[v] = policies[v]
              \/ /\ v > Len(policies)
                 /\ policies'[v].recordedAt = now
                 /\ policies'[v].statement.issuedAt <= now
                 /\ policies'[v].statement.version = v
                 /\ policies'[v].statement.checkpoint.sequence \in Nat
                 /\ policies'[v].statement.checkpoint.sequence # 0 =>
                       policies'[v].statement.checkpoint.sequence <= Len(journal)
<1> DEFINE n == Len(policies)
           m == Len(suffix)
           all == JoinedPolicies(suffix)
<1>1. /\ n \in Nat /\ m \in 1 .. 2 /\ Len(policies') = n + m /\ Len(all) = n + m
      /\ \A v \in 1 .. n : all[v] = policies[v].statement
      /\ \A i \in 1 .. m : all[n + i] = suffix[i]
  <2>1. /\ IsSequence(PolicyStatements) /\ Len(PolicyStatements) = n
        /\ \A v \in 1 .. n : PolicyStatements[v] = policies[v].statement
    BY PolicyStatementsAre, Zenon DEF IInv, TypeOK
  <2>2. /\ IsSequence(suffix) /\ m \in 1 .. 2 /\ n \in Nat /\ Len(policies') = n + m
    BY Zenon DEF PoliciesChecked, PoliciesGrow
  <2>3. /\ Len(all) = Len(PolicyStatements) + m
        /\ \A v \in 1 .. Len(PolicyStatements) : all[v] = PolicyStatements[v]
        /\ \A i \in 1 .. m : all[Len(PolicyStatements) + i] = suffix[i]
    <3>1. IsConcat(all, PolicyStatements, suffix)
      BY Zenon DEF IsConcat, JoinedPolicies
    <3> HIDE DEF all
    <3> QED
      BY <2>1, <2>2, <3>1, SequenceConcat
  <2> HIDE DEF n, m, all
  <2> QED
    BY <2>1, <2>2, <2>3, Zenon
<1>2. Len(TransitionStatements) = Len(journal)
  BY StatementsAre, Zenon DEF IInv, TypeOK
<1>3. /\ all[1].version = 1
      /\ \A v \in 2 .. n + m : /\ all[v].version = all[v - 1].version + 1
                              /\ all[v - 1].issuedAt <= all[v].issuedAt
      /\ \A v \in 1 .. n + m :
            /\ all[v].checkpoint.sequence \in Nat
            /\ all[v].checkpoint.sequence # 0 => all[v].checkpoint.sequence <= Len(journal)
  <2>1. VerifyRecoveryAwareChain(root.statement, TransitionStatements, all)
    BY Zenon DEF PoliciesChecked
  <2> HIDE DEF all, n, m
  <2>2. VerifyRecoveryPolicySequence(root.statement, all)
        /\ \A v \in 1 .. n + m : PolicyCheckpointMatches(TransitionStatements, all[v])
    BY <1>1, <2>1, Zenon DEF VerifyRecoveryAwareChain
  <2>3. /\ all[1].version = 1
        /\ \A v \in 2 .. n + m : ValidatePolicySuccessor(all[v - 1], all[v])
        /\ \A v \in 1 .. n + m : ValidateRecoveryCheckpoint(all[v].checkpoint)
    BY <1>1, <2>2, Zenon DEF VerifyRecoveryPolicySequence, ValidateRecoveryPolicyStatement
  <2>4. \A v \in 2 .. n + m : /\ all[v].version = all[v - 1].version + 1
                             /\ all[v].issuedAt >= all[v - 1].issuedAt
    BY <2>3, Zenon DEF ValidatePolicySuccessor
  <2>5. \A v \in 1 .. n + m : all[v].checkpoint.sequence \in Nat
    BY <2>3, LimitsAssumption DEF ValidateRecoveryCheckpoint
  <2> QED
    BY <1>2, <2>2, <2>3, <2>4, <2>5, Zenon DEF PolicyCheckpointMatches
<1>4. all[n + 1].version = n + 1 /\ (m = 2 => all[n + 2].version = n + 2)
  <2> HIDE DEF all, m
  <2>1. all[n + 1].version = n + 1
    <3>1. CASE n = 0
      BY <1>3, <3>1
    <3>2. CASE n # 0
      <4>1. all[n].version = n
        BY <1>1, <3>2 DEF IInv, VersionsCount
      <4>2. n + 1 \in 2 .. n + m /\ (n + 1) - 1 = n
        BY <1>1, <3>2
      <4> HIDE DEF n
      <4> QED
        BY <1>3, <4>1, <4>2, Zenon
    <3> QED
      BY <3>1, <3>2, Zenon
  <2>2. ASSUME m = 2 PROVE all[n + 2].version = n + 2
    <3>1. n + 2 \in 2 .. n + m /\ (n + 2) - 1 = n + 1
      BY <1>1, <2>2
    <3> HIDE DEF n
    <3> QED
      BY <1>1, <1>3, <2>1, <3>1
  <2> QED
    BY <2>1, <2>2, Zenon
<1>5. \A i \in 1 .. m : suffix[i].issuedAt <= now
  <2>1. /\ suffix[m].issuedAt <= now /\ now \in Nat
        /\ \A i \in 1 .. m : suffix[i].issuedAt \in Nat
    BY Zenon DEF PoliciesChecked
  <2>2. m = 2 => suffix[1].issuedAt <= suffix[2].issuedAt
    <3> SUFFICES ASSUME m = 2 PROVE suffix[1].issuedAt <= suffix[2].issuedAt
      OBVIOUS
    <3> HIDE DEF all, n, m
    <3>1. n + 2 \in 2 .. n + m /\ (n + 2) - 1 = n + 1
      BY <1>1
    <3>2. all[n + 1].issuedAt <= all[n + 2].issuedAt
      BY <1>3, <3>1, Zenon
    <3> QED
      BY <1>1, <3>2
  <2> HIDE DEF m
  <2> QED
    BY <1>1, <2>1, <2>2, SMTT(30)
<1>6. /\ \A v \in 1 .. n : policies'[v] = policies[v]
      /\ \A i \in 1 .. m : /\ policies'[n + i].statement = suffix[i]
                           /\ policies'[n + i].recordedAt = now
  BY Zenon DEF PoliciesGrow
<1> HIDE DEF all, n, m
<1>7. SUFFICES ASSUME NEW v \in 1 .. n + m, v \notin 1 .. n
      PROVE  /\ v > n
             /\ policies'[v].recordedAt = now
             /\ policies'[v].statement.issuedAt <= now
             /\ policies'[v].statement.version = v
             /\ policies'[v].statement.checkpoint.sequence \in Nat
             /\ policies'[v].statement.checkpoint.sequence # 0 =>
                   policies'[v].statement.checkpoint.sequence <= Len(journal)
  BY <1>1, <1>6, Zenon DEF n
<1>8. PICK i \in 1 .. m : v = n + i
  BY <1>1, <1>7
<1>9. policies'[v].statement = suffix[i] /\ policies'[v].recordedAt = now /\ all[v] = suffix[i]
  BY <1>1, <1>6, <1>8, Zenon
<1>10. suffix[i].version = v
  BY <1>1, <1>4, <1>8, <1>9
<1> QED
  BY <1>1, <1>3, <1>5, <1>8, <1>9, <1>10

\* A recovery in the journal was authorized by a policy of the table.
LEMMA RowsNamePolicies ==
    ASSUME TypeOK, VerifiedSnapshot, terminal = NoRow,
           NEW i \in 1 .. Len(journal), journal[i].statement.kind = "Recovery"
    PROVE  \E w \in 1 .. Len(policies) :
              Digest(policies[w].statement) = journal[i].statement.policy
<1>1. /\ Len(TransitionStatements) = Len(journal)
      /\ TransitionStatements[i] = journal[i].statement
      /\ LiveTransitions = TransitionStatements
  BY StatementsAre, Zenon DEF TypeOK, TransitionStatements, LiveTransitions
<1>2. /\ Len(PolicyStatements) = Len(policies)
      /\ \A v \in 1 .. Len(policies) : PolicyStatements[v] = policies[v].statement
  BY PolicyStatementsAre, Zenon DEF TypeOK
<1>3. VerifyChain(root.statement, TransitionStatements, PolicyStatements)
  BY <1>1, Zenon DEF VerifiedSnapshot
<1>4. VerifyRecoveryAwareChain(root.statement, TransitionStatements, PolicyStatements)
  BY <1>1, <1>3, Zenon DEF VerifyChain, VerifyRoutineChain
<1>5. AuthorizedByPolicies(root.statement, PolicyStatements, journal[i].statement)
  BY <1>1, <1>4, Zenon DEF VerifyRecoveryAwareChain
<1>6. \E v \in 1 .. Len(PolicyStatements) :
         Digest(PolicyStatements[v]) = journal[i].statement.policy
  BY <1>5, Zenon DEF AuthorizedByPolicies, RecoveryPolicyForTransition
<1> QED
  BY <1>2, <1>6, Zenon

\* The position before any but the first is a position.
LEMMA Predecessor ==
    \A m \in Nat : \A v \in 1 .. m : v # 1 => v - 1 \in 1 .. m
OBVIOUS

\* A sequence that grew by one or two entries is not empty.
LEMMA GrownLength ==
    \A n \in Nat : \A m \in 1 .. 2 : n + m \in Nat /\ n + m # 0
OBVIOUS

\* A time no later than the audit time is no later than any time the audit check
\* lets pass.
LEMMA NoLater ==
    \A a \in Nat : \A b \in Nat : \A c \in Nat : a <= b /\ c >= b => a <= c /\ c >= a
OBVIOUS

\* Every time is no later than itself.
LEMMA NotLaterThanItself == \A a \in Nat : a <= a
OBVIOUS

\* The empty sequence has length zero.
LEMMA EmptyLength == Len(<< >>) = 0
OBVIOUS

\* A positive number up to j is a position of a sequence of length j.
LEMMA PositiveIsPosition ==
    \A j \in Nat : \A c \in Nat : c > 0 => c # 0 /\ (c <= j => c \in 1 .. j)
OBVIOUS

\* A position is no greater than the length.
LEMMA PositionBound == \A j \in Nat : \A c \in 1 .. j : c <= j
OBVIOUS

\* The store that records a checked policy suffix verifies from its root, under
\* the longer policy chain.
LEMMA RecordPoliciesVerifies ==
    ASSUME IInv, root # NoRow, head # NoRow, terminal = NoRow,
           NEW suffix, NEW now, PoliciesChecked(suffix, now), PoliciesGrow(suffix, now),
           UNCHANGED <<keys, refs, root, journal, head, terminal, receipt>>,
           policyHead' = [revision |-> Len(policies) + Len(suffix),
                          digest |-> Digest(suffix[Len(suffix)]), recordedAt |-> now],
           audit' = now
    PROVE  VerifiedSnapshot' /\ AuditCoversRows' /\ VersionsCount'
<1> DEFINE n == Len(policies)
           new(v) == policies'[v].statement
<1>1. /\ n \in Nat /\ Len(suffix) \in 1 .. 2 /\ Len(policies') = n + Len(suffix)
      /\ policies'[n + Len(suffix)].statement = suffix[Len(suffix)]
      /\ policies'[n + Len(suffix)].recordedAt = now
      /\ IsSequence(policies')
  <2>1. /\ n \in Nat /\ Len(suffix) \in 1 .. 2 /\ Len(policies') = n + Len(suffix)
        /\ IsSequence(policies')
    BY Zenon DEF PoliciesChecked, PoliciesGrow
  <2>2. \A m \in 1 .. 2 : m \in 1 .. m
    OBVIOUS
  <2>3. Len(suffix) \in 1 .. Len(suffix)
    BY <2>1, <2>2, Zenon
  <2> QED
    BY <2>1, <2>3, Zenon DEF PoliciesGrow
<1>2. \A v \in 1 .. Len(policies') :
         \/ v \in 1 .. n /\ policies'[v] = policies[v]
         \/ /\ v > n /\ policies'[v].recordedAt = now
            /\ new(v).issuedAt <= now /\ new(v).version = v
            /\ new(v).checkpoint.sequence \in Nat
            /\ new(v).checkpoint.sequence # 0 => new(v).checkpoint.sequence <= Len(journal)
  BY NewPolicies, Zenon
<1>3. VerifiedSnapshot /\ VersionsCount /\ AuditCoversRows /\ TypeOK /\ RowTimes
  BY RowTimesAre, Zenon DEF IInv, StoreAlwaysVerifies
<1>4. now \in Nat /\ audit \in Nat /\ now >= audit
  BY <1>3, Zenon DEF PoliciesChecked, RowTimes
<1>5. policies' # << >>
  <2>1. Len(policies') # 0
    BY <1>1, GrownLength, Zenon
  <2> QED
    BY <2>1, EmptyLength, Zenon
<1> HIDE DEF n, new
<1>6. VersionsCount'
  BY <1>2, <1>3, Zenon DEF VersionsCount, n, new
<1>7. AuditCoversRows'
  <2>1. root.recordedAt <= now
    BY <1>3, <1>4, NoLater, Zenon DEF AuditCoversRows, RowTimes
  <2>2. \A i \in 1 .. Len(journal) : journal[i].committedAt <= now
    BY <1>3, <1>4, NoLater, Zenon DEF AuditCoversRows, RowTimes
  <2>3. \A v \in 1 .. n : policies[v].recordedAt <= now
    BY <1>3, <1>4, NoLater, Zenon DEF AuditCoversRows, RowTimes, n
  <2>4. \A v \in 1 .. Len(policies') : policies'[v].recordedAt <= now
    BY <1>2, <1>4, <2>3, NotLaterThanItself, Zenon
  <2> QED
    BY <2>1, <2>2, <2>4, Zenon DEF AuditCoversRows
<1>8. /\ TransitionStatements' = TransitionStatements
      /\ LiveTransitions' = TransitionStatements
      /\ ArchivePrefix' = ArchivePrefix
  BY Zenon DEF TransitionStatements, LiveTransitions, ArchivePrefix
<1>9. VerifyChain(root.statement, LiveTransitions, PolicyStatements)'
  <2>1. PolicyStatements' # << >>
    <3>1. IsConcat(JoinedPolicies(suffix), PolicyStatements, suffix)
      BY Zenon DEF IsConcat, JoinedPolicies
    <3>2. IsSequence(PolicyStatements) /\ IsSequence(suffix)
      BY <1>3, PolicyStatementsAre, Zenon DEF TypeOK, PoliciesChecked
    <3>3. /\ Len(JoinedPolicies(suffix)) = Len(PolicyStatements) + Len(suffix)
          /\ Len(PolicyStatements) \in Nat
      BY <3>1, <3>2, SequenceConcat, Zenon
    <3>4. Len(JoinedPolicies(suffix)) # 0
      BY <1>1, <3>3, GrownLength, Zenon
    <3>5. PolicyStatements' = JoinedPolicies(suffix)
      BY Zenon DEF PoliciesGrow
    <3> QED
      BY <3>4, <3>5, EmptyLength, Zenon
  <2>2. VerifyRecoveryAwareChain(root.statement, TransitionStatements, PolicyStatements')
    BY Zenon DEF PoliciesChecked, PoliciesGrow
  <2> QED
    BY <1>8, <2>1, <2>2, Zenon DEF VerifyChain
<1>10. ValidateStoredTransitionRows'
  BY <1>3, <1>8, Zenon DEF VerifiedSnapshot, ValidateStoredTransitionRows
<1>11. ValidateStoredRecoveryPolicies'
  <2>1. policyHead' # NoRow
    BY DEF NoRow
  <2>2. \A v \in 1 .. Len(policies') : policies'[v].recordedAt >= new(v).issuedAt
    <3>1. policies # << >> => \A v \in 1 .. n : policies[v].recordedAt >= policies[v].statement.issuedAt
      BY <1>3, Zenon DEF VerifiedSnapshot, ValidateStoredRecoveryPolicies, n
    <3>2. \A v \in 1 .. n : policies # << >>
      BY DEF n
    <3> QED
      BY <1>2, <3>1, <3>2, Zenon DEF new
  <2>3. /\ policyHead'.revision = Len(policies')
        /\ policyHead'.digest = Digest(LatestPolicy')
        /\ policyHead'.recordedAt = policies'[Len(policies')].recordedAt
    BY <1>1, Zenon DEF LatestPolicy, n
  <2> QED
    BY <1>5, <2>1, <2>2, <2>3, Zenon DEF ValidateStoredRecoveryPolicies, new
<1>12. ValidateLiveObservationOrder'
  <2>1. ValidateLiveObservationOrder
    BY <1>3, Zenon DEF VerifiedSnapshot
  <2>0. n \in Nat /\ Len(policies') \in Nat
    BY <1>1, GrownLength, Zenon
  <2>2. ASSUME NEW v \in 1 .. Len(policies')
        PROVE  policies'[v].recordedAt >=
                  IF v = 1 THEN root.recordedAt ELSE policies'[v - 1].recordedAt
    <3>1. CASE v \in 1 .. n
      <4>1. policies'[v] = policies[v] /\ (v # 1 => policies'[v - 1] = policies[v - 1])
        BY <2>0, <3>1, Predecessor, Zenon DEF PoliciesGrow, n
      <4> QED
        BY <2>1, <3>1, <4>1, Zenon DEF ValidateLiveObservationOrder, n
    <3>2. CASE v \notin 1 .. n
      <4>1. policies'[v].recordedAt = now
        BY <1>2, <3>2, Zenon
      <4>2. v # 1 => v - 1 \in 1 .. Len(policies')
        BY <2>0, Predecessor, Zenon
      <4> QED
        BY <1>3, <1>4, <1>7, <4>1, <4>2, Zenon DEF AuditCoversRows, RowTimes
    <3> QED
      BY <3>1, <3>2, Zenon
  <2>3. ASSUME NEW v \in 1 .. Len(policies'), new(v).checkpoint.sequence > 0
        PROVE  /\ new(v).checkpoint.sequence <= Len(journal)
               /\ policies'[v].recordedAt >= journal[new(v).checkpoint.sequence].committedAt
    <3>1. CASE v \in 1 .. n
      <4>1. policies'[v] = policies[v]
        BY <3>1, Zenon DEF PoliciesGrow, n
      <4> QED
        BY <2>1, <2>3, <3>1, <4>1, Zenon DEF ValidateLiveObservationOrder, n, new
    <3>2. CASE v \notin 1 .. n
      <4>1. Len(journal) \in Nat
        <5>1. IsSequence(journal)
          BY <1>3, Zenon DEF TypeOK
        <5> QED
          BY <5>1 DEF IsSequence
      <4>2. /\ policies'[v].recordedAt = now /\ new(v).checkpoint.sequence \in 1 .. Len(journal)
        BY <1>2, <2>3, <3>2, <4>1, PositiveIsPosition, Zenon
      <4>3. now >= journal[new(v).checkpoint.sequence].committedAt
        BY <1>3, <1>4, <4>2, NoLater, Zenon DEF AuditCoversRows, RowTimes
      <4> QED
        BY <4>1, <4>2, <4>3, PositionBound, Zenon
    <3> QED
      BY <3>1, <3>2, Zenon
  <2>4. ASSUME NEW i \in 1 .. Len(journal), journal[i].statement.kind = "Recovery",
               NEW v \in 1 .. Len(policies'), Digest(new(v)) = journal[i].statement.policy
        PROVE  journal[i].committedAt >= policies'[v].recordedAt
    <3>1. PICK w \in 1 .. n : Digest(policies[w].statement) = journal[i].statement.policy
      BY <1>3, <2>4, RowsNamePolicies, Zenon DEF n
    <3>2. policies[w].statement = new(v)
      BY <2>4, <3>1, Zenon DEF Digest
    <3>3. v = w
      BY <1>2, <1>3, <3>1, <3>2, ZenonT(60) DEF VersionsCount, n, new
    <3>4. policies'[v] = policies[v]
      BY <3>1, <3>3, Zenon DEF PoliciesGrow, n
    <3> QED
      BY <2>1, <2>4, <3>1, <3>3, <3>4, Zenon DEF ValidateLiveObservationOrder, RecordedPolicyOf, n
  <2> QED
    BY <2>1, <2>2, <2>3, <2>4, Zenon DEF ValidateLiveObservationOrder, RecordedPolicyOf, new
<1>13. ValidateLiveChainHead'
  BY <1>3, <1>8, Zenon DEF VerifiedSnapshot, ValidateLiveChainHead
<1>14. ValidateLiveChainKeys'
  BY <1>3, <1>8, Zenon DEF VerifiedSnapshot, ValidateLiveChainKeys, ActiveKeys, KnownKeys
<1> QED
  BY <1>6, <1>7, <1>9, <1>10, <1>11, <1>12, <1>13, <1>14, Zenon DEF VerifiedSnapshot

\* Recording a policy chain preserves the invariant.
LEMMA RecordPoliciesInvariant ==
    ASSUME IInv, RecordRecoveryPolicyChain
    PROVE  IInv'
<1>1. PICK suffix \in PolicySuffixes, now \in Times :
         /\ PolicyActiveAt(suffix[Len(suffix)], now)
         /\ RequireMonotonicAuditTime(now)
         /\ VerifyRecoveryAwareChain(root.statement, TransitionStatements,
                                     PolicyStatements \o suffix)
         /\ policies' = policies \o PolicyRows(suffix, now)
         /\ policyHead' = [revision |-> Len(policies) + Len(suffix),
                           digest |-> Digest(suffix[Len(suffix)]), recordedAt |-> now]
         /\ audit' = now
         /\ UNCHANGED <<keys, refs, root, journal, head, terminal,
                        archive, receipt, proofs, lock, sess, told>>
  BY Zenon DEF RecordRecoveryPolicyChain
<1>2. root # NoRow /\ head # NoRow /\ terminal = NoRow
  BY Zenon DEF RecordRecoveryPolicyChain, VerifiedSnapshot, RequireNonterminal
<1>3. /\ IsSequence(suffix) /\ Len(suffix) \in 1 .. 2
      /\ \A i \in 1 .. Len(suffix) : suffix[i].issuedAt \in Nat
  BY SuffixShape, Zenon
<1>4. now \in Nat /\ now >= audit /\ suffix[Len(suffix)].issuedAt <= now
  <2>1. now >= audit /\ suffix[Len(suffix)].issuedAt <= now
    BY <1>1, Zenon DEF RequireMonotonicAuditTime, PolicyActiveAt
  <2> QED
    BY <2>1, StoreAssumption DEF Times
<1>5. PoliciesChecked(suffix, now)
  BY <1>1, <1>3, <1>4, Zenon DEF PoliciesChecked, JoinedPolicies
<1>6. IsConcat(policies', policies, PolicyRows(suffix, now))
  BY <1>1, Zenon DEF IsConcat
<1>7. TypeOK
  BY Zenon DEF IInv
<1>8. PoliciesGrow(suffix, now)
  <2>1. IsSequence(policies)
    BY <1>7, Zenon DEF TypeOK
  <2> QED
    BY <1>3, <1>6, <2>1, PoliciesAppended, Zenon
<1>9. /\ UNCHANGED <<keys, refs, root, journal, head, terminal, archive, receipt, proofs,
                     lock, sess>>
      /\ audit' = now
      /\ policyHead' = [revision |-> Len(policies) + Len(suffix),
                        digest |-> Digest(suffix[Len(suffix)]), recordedAt |-> now]
  BY <1>1, Zenon
<1>10. VerifiedSnapshot' /\ AuditCoversRows' /\ VersionsCount'
  BY <1>2, <1>5, <1>8, <1>9, RecordPoliciesVerifies, Zenon
<1>11. TypeOK'
  <2>1. IsSequence(policies') /\ \A v \in 1 .. Len(policies') : policies'[v].recordedAt \in Times
    <3>1. \A v \in 1 .. Len(policies') :
             \/ v \in 1 .. Len(policies) /\ policies'[v] = policies[v]
             \/ policies'[v].recordedAt = now
      BY <1>2, <1>5, <1>8, NewPolicies, Zenon
    <3> QED
      BY <1>7, <1>8, <3>1, Zenon DEF TypeOK, PoliciesGrow
  <2>2. \A s \in Sessions : IsSession(sess[s])'
    BY <1>7, <1>9, Zenon DEF TypeOK, IsSession
  <2> QED
    BY <1>7, <1>9, <2>1, <2>2, ZenonT(60) DEF TypeOK, IsStatement, IsTerminal
<1> QED
  BY <1>2, <1>9, <1>10, <1>11, ZenonT(60) DEF IInv, StoreAlwaysVerifies, UnrootedIsEmpty

-----------------------------------------------------------------------------
(* The invariant is inductive, and what one step may do to the tables *)

\* Every step of the store preserves the invariant.
LEMMA NextInvariant == IInv /\ [Next]_vars => IInv'
<1> SUFFICES ASSUME IInv, [Next]_vars PROVE IInv'
  OBVIOUS
<1>1. CASE KeyStep
  BY <1>1, KeyStepInvariant, Zenon
<1>2. CASE RecordRecoveryPolicyChain
  BY <1>2, RecordPoliciesInvariant, Zenon
<1>3. CASE SignStep
  BY <1>3, SignStepTypes, StoreUnchanged, Zenon DEF IInv
<1>4. ASSUME NEW s \in Sessions, SessionStep(s) PROVE IInv'
  <2>1. CASE QuietStep(s)
    BY <2>1, QuietStepTypes, StoreUnchanged, Zenon DEF IInv
  <2>2. CASE \E now \in Times : CommitRoutineTransition(s, now)
    BY <2>2, CommitRoutineInvariant, Zenon
  <2>3. CASE \E now \in Times : CommitRecoveryTransition(s, now)
    BY <2>3, CommitRecoveryInvariant, Zenon
  <2>4. CASE \E now \in Times : CommitTerminalPersonaRevocation(s, now)
    BY <2>4, CommitTerminalInvariant, Zenon
  <2> QED
    BY <1>4, <2>1, <2>2, <2>3, <2>4, Zenon DEF SessionStep, QuietStep
<1>5. CASE UNCHANGED vars
  <2>1. UNCHANGED storeVars /\ UNCHANGED <<proofs, lock, sess>>
    BY <1>5, Zenon DEF vars, storeVars
  <2>2. TypeOK'
    <3>1. \A s \in Sessions : IsSession(sess[s])'
      BY <2>1 DEF IInv, TypeOK, IsSession
    <3> QED
      BY <2>1, <3>1, ZenonT(60) DEF IInv, TypeOK, storeVars, IsStatement, IsTerminal
  <2> QED
    BY <2>1, <2>2, StoreUnchanged, Zenon DEF IInv
<1> QED
  BY <1>1, <1>2, <1>3, <1>4, <1>5, Zenon DEF Next

\* The tables change only in a transaction, and none commits on a revoked persona.
LEMMA WritersCheck ==
    ASSUME IInv, [Next]_vars, ~ UNCHANGED storeVars
    PROVE  lock = None /\ terminal = NoRow
<1>1. CASE KeyStep
  <2> PICK k \in Keys, now \in Times :
         \/ EnrollKey(k, now)
         \/ \E reason \in {"Routine", "Recovery", "Compromise"} : RotateKey(k, reason, now)
         \/ MarkKeyCompromised(k, now)
         \/ BindSigningReference(k, now)
         \/ UnbindSigningReference(k, now)
         \/ \E issuedAt \in IssueTimes : RecordContinuityRoot(k, issuedAt, now)
    BY <1>1, Zenon DEF KeyStep
  <2>1. CanWrite /\ (RequireNonterminal \/ ContinuityUnmanaged)
    BY Zenon DEF EnrollKey, RotateKey, MarkKeyCompromised, BindSigningReference,
         UnbindSigningReference, RecordContinuityRoot
  <2> QED
    BY <2>1, Zenon DEF CanWrite, RequireNonterminal, ContinuityUnmanaged, IInv, UnrootedIsEmpty
<1>2. CASE RecordRecoveryPolicyChain
  BY <1>2, Zenon DEF RecordRecoveryPolicyChain, CanWrite, RequireNonterminal
<1>3. CASE SignStep
  BY <1>3, SignStepTypes, Zenon
<1>4. ASSUME NEW s \in Sessions, SessionStep(s) PROVE lock = None /\ terminal = NoRow
  <2>1. CASE QuietStep(s)
    BY <2>1, QuietStepTypes, Zenon
  <2>2. ASSUME NEW now \in Times, CommitRoutineTransition(s, now)
        PROVE  lock = None /\ terminal = NoRow
    <3>1. /\ VerifiedSnapshot /\ lock = None /\ Carries(s, "Routine")
          /\ keys[sess[s].proof.statement.previousKey] = "active"
      BY <2>2, Zenon DEF CommitRoutineTransition, CanWrite
    <3>2. sess[s].proof.statement.previousKey \in Keys
      BY <3>1, CarriedProof, Zenon DEF IInv, IsStatement
    <3> QED
      BY <3>1, <3>2, ActiveMeansLive, Zenon
  <2>3. ASSUME NEW now \in Times, CommitRecoveryTransition(s, now)
        PROVE  lock = None /\ terminal = NoRow
    <3>1. /\ VerifiedSnapshot /\ lock = None /\ Carries(s, "Recovery")
          /\ keys[sess[s].proof.statement.previousKey] = "active"
      BY <2>3, Zenon DEF CommitRecoveryTransition, CanWrite
    <3>2. sess[s].proof.statement.previousKey \in Keys
      BY <3>1, CarriedProof, Zenon DEF IInv, IsStatement
    <3> QED
      BY <3>1, <3>2, ActiveMeansLive, Zenon
  <2>4. CASE \E now \in Times : CommitTerminalPersonaRevocation(s, now)
    BY <2>4, Zenon DEF CommitTerminalPersonaRevocation, CanWrite
  <2> QED
    BY <1>4, <2>1, <2>2, <2>3, <2>4, Zenon DEF SessionStep, QuietStep
<1>5. CASE UNCHANGED vars
  BY <1>5, Zenon DEF vars, storeVars
<1> QED
  BY <1>1, <1>2, <1>3, <1>4, <1>5, Zenon DEF Next

\* The ways a key's status may change.
KeyMoves(k) ==
    \/ keys'[k] = keys[k]
    \/ keys[k] = "unknown" /\ keys'[k] = "active"
    \/ keys[k] = "active" /\ keys'[k] \in {"retired", "compromised"}
    \/ keys[k] = "retired" /\ keys'[k] = "compromised"

\* AdoptTransition moves the statuses of two keys, each in a legal direction.
LEMMA AdoptMovesKeys ==
    ASSUME IInv, NEW s \in Sessions, NEW p, NEW now, IsStatement(p.statement),
           ~ IsTerminal(p.statement), AdoptTransition(s, p, now),
           keys[p.statement.previousKey] = "active", keys[p.statement.nextKey] = "unknown"
    PROVE  \A k \in Keys : KeyMoves(k)
<1>1. /\ p.statement.previousKey \in Keys /\ p.statement.nextKey \in Keys
      /\ keys \in [Keys -> Statuses]
      /\ ReplacedStatus(p.statement.reason) \in {"retired", "compromised"}
  BY Zenon DEF IInv, TypeOK, IsStatement, ReplacedStatus
<1>2. keys' = [keys EXCEPT ![p.statement.previousKey] = ReplacedStatus(p.statement.reason),
                           ![p.statement.nextKey] = "active"]
  BY Zenon DEF AdoptTransition
<1> QED
  BY <1>1, <1>2, Zenon DEF KeyMoves

\* Every step moves every key's status in a legal direction or not at all.
LEMMA StepMovesKeys ==
    ASSUME IInv, [Next]_vars
    PROVE  \A k \in Keys : KeyMoves(k)
<1>1. keys \in [Keys -> Statuses] /\ \A r : ReplacedStatus(r) \in {"retired", "compromised"}
  BY Zenon DEF IInv, TypeOK, ReplacedStatus
<1>2. CASE KeyStep
  <2> PICK j \in Keys, now \in Times :
         \/ EnrollKey(j, now)
         \/ \E reason \in {"Routine", "Recovery", "Compromise"} : RotateKey(j, reason, now)
         \/ MarkKeyCompromised(j, now)
         \/ BindSigningReference(j, now)
         \/ UnbindSigningReference(j, now)
         \/ \E issuedAt \in IssueTimes : RecordContinuityRoot(j, issuedAt, now)
    BY <1>2, Zenon DEF KeyStep
  <2>1. CASE EnrollKey(j, now)
    BY <1>1, <2>1, Zenon DEF EnrollKey, RequireUnknownKey, KeyMoves
  <2>2. CASE \E reason \in {"Routine", "Recovery", "Compromise"} : RotateKey(j, reason, now)
    BY <1>1, <2>2, Zenon DEF RotateKey, RequireUnknownKey, KeyMoves
  <2>3. CASE MarkKeyCompromised(j, now)
    BY <1>1, <2>3, Zenon DEF MarkKeyCompromised, KeyMoves
  <2>4. CASE UNCHANGED keys
    BY <2>4, Zenon DEF KeyMoves
  <2> QED
    BY <2>1, <2>2, <2>3, <2>4, Zenon
       DEF BindSigningReference, UnbindSigningReference, RecordContinuityRoot
<1>3. CASE UNCHANGED keys
  BY <1>3, Zenon DEF KeyMoves
<1>4. ASSUME NEW s \in Sessions, SessionStep(s) PROVE \A k \in Keys : KeyMoves(k)
  <2>1. CASE QuietStep(s)
    BY <1>3, <2>1, QuietStepTypes, Zenon DEF storeVars
  <2>2. ASSUME NEW now \in Times, CommitRoutineTransition(s, now)
        PROVE  \A k \in Keys : KeyMoves(k)
    <3>1. Carries(s, "Routine")
      BY <2>2, Zenon DEF CommitRoutineTransition
    <3>2. IsStatement(sess[s].proof.statement) /\ ~ IsTerminal(sess[s].proof.statement)
      BY <3>1, CarriedProof, Zenon DEF IInv, IsTerminal
    <3> QED
      BY <2>2, <3>2, AdoptMovesKeys, Zenon DEF CommitRoutineTransition, RequireUnknownKey
  <2>3. ASSUME NEW now \in Times, CommitRecoveryTransition(s, now)
        PROVE  \A k \in Keys : KeyMoves(k)
    <3>1. Carries(s, "Recovery")
      BY <2>3, Zenon DEF CommitRecoveryTransition
    <3>2. IsStatement(sess[s].proof.statement) /\ ~ IsTerminal(sess[s].proof.statement)
      BY <3>1, CarriedProof, Zenon DEF IInv, IsTerminal
    <3> QED
      BY <2>3, <3>2, AdoptMovesKeys, Zenon DEF CommitRecoveryTransition, RequireUnknownKey
  <2>4. ASSUME NEW now \in Times, CommitTerminalPersonaRevocation(s, now)
        PROVE  \A k \in Keys : KeyMoves(k)
    <3> DEFINE st == sess[s].proof.statement
    <3>1. /\ keys' = [keys EXCEPT ![st.previousKey] = ReplacedStatus(st.reason)]
          /\ st.previousKey = head.key /\ ActiveKeys = {head.key}
      BY <2>4, Zenon DEF CommitTerminalPersonaRevocation, IntentAtHead, VerifiedSnapshot,
                  ValidateLiveChainKeys
    <3>2. keys[st.previousKey] = "active"
      BY <3>1, Zenon DEF ActiveKeys
    <3> HIDE DEF st
    <3> QED
      BY <1>1, <3>1, <3>2, Zenon DEF KeyMoves
  <2> QED
    BY <1>4, <2>1, <2>2, <2>3, <2>4, Zenon DEF SessionStep, QuietStep
<1>5. CASE RecordRecoveryPolicyChain
  BY <1>3, <1>5, Zenon DEF RecordRecoveryPolicyChain
<1>6. CASE SignStep
  BY <1>3, <1>6, SignStepTypes, Zenon DEF storeVars
<1>7. CASE UNCHANGED vars
  BY <1>3, <1>7, Zenon DEF vars
<1> QED
  BY <1>2, <1>4, <1>5, <1>6, <1>7, Zenon DEF Next

\* A sequence is a prefix of itself: a table a step leaves alone has only grown.
LEMMA PrefixOfItself ==
    ASSUME NEW s, IsSequence(s)
    PROVE  IsPrefixOf(s, s)
BY SequenceAppend DEF IsPrefixOf

\* A commit that appends one row to the journal keeps the rows before it.
LEMMA PrefixOfAppended ==
    ASSUME NEW s, IsSequence(s), NEW x, NEW c, c = Append(s, x)
    PROVE  IsPrefixOf(s, c)
<1>1. /\ Len(s) \in Nat /\ Len(c) = Len(s) + 1
      /\ \A i \in 1 .. Len(s) : c[i] = s[i]
  BY SequenceAppend, ZenonT(60)
<1> QED
  BY <1>1 DEF IsPrefixOf

\* A policy chain that is extended by several rows keeps the rows before them.
LEMMA PrefixOfJoined ==
    ASSUME NEW s, IsSequence(s), NEW t, IsSequence(t), NEW c, IsConcat(c, s, t)
    PROVE  IsPrefixOf(s, c)
<1>1. /\ Len(s) \in Nat /\ Len(t) \in Nat /\ Len(c) = Len(s) + Len(t)
      /\ \A i \in 1 .. Len(s) : c[i] = s[i]
  BY SequenceConcat
<1> QED
  BY <1>1 DEF IsPrefixOf

\* What a step may do to the rows: the formula HistoryOnlyGrows wraps.
RowsStay ==
    /\ root # NoRow => root' = root
    /\ IsPrefixOf(journal, journal')
    /\ IsPrefixOf(policies, policies')
    /\ terminal # NoRow => terminal' = terminal
    /\ audit <= audit'

\* A step that leaves the tables alone and does not turn the audit time back.
LEMMA QuietHistory ==
    ASSUME IInv, UNCHANGED <<journal, policies, terminal>>, audit <= audit',
           root # NoRow => root' = root
    PROVE  RowsStay
<1>1. IsPrefixOf(journal, journal) /\ IsPrefixOf(policies, policies)
  BY PrefixOfItself, Zenon DEF IInv, TypeOK
<1> QED
  BY <1>1, Zenon DEF RowsStay

\* Adopting a transition appends one row.
LEMMA AdoptHistory ==
    ASSUME IInv, NEW s, NEW p, NEW now, AdoptTransition(s, p, now), audit <= now
    PROVE  RowsStay
<1>1. IsPrefixOf(journal, journal') /\ IsPrefixOf(policies, policies')
  BY PrefixOfItself, PrefixOfAppended, Zenon DEF IInv, TypeOK, AdoptTransition
<1> QED
  BY <1>1, Zenon DEF RowsStay, AdoptTransition

\* The times of the audit trail are numbers, so a time that passes
\* require_monotonic_audit_time is no earlier than it.
LEMMA AuditPasses ==
    ASSUME TypeOK
    PROVE  /\ audit <= audit
           /\ \A now \in Times : RequireMonotonicAuditTime(now) => audit <= now
<1>1. audit \in Nat /\ Times \subseteq Nat
  BY StoreAssumption DEF TypeOK, Times
<1> QED
  BY <1>1 DEF RequireMonotonicAuditTime

\* Recording policies puts rows behind the ones that are there.
LEMMA PoliciesHistory ==
    ASSUME IInv, RecordRecoveryPolicyChain
    PROVE  RowsStay
<1>1. PICK suffix \in PolicySuffixes, now \in Times :
         /\ RequireMonotonicAuditTime(now)
         /\ policies' = policies \o PolicyRows(suffix, now)
         /\ audit' = now
         /\ UNCHANGED <<root, journal, terminal>>
  BY Zenon DEF RecordRecoveryPolicyChain
<1> DEFINE rows == PolicyRows(suffix, now)
<1>2. IsSequence(suffix) /\ Len(suffix) \in Nat
  BY SuffixShape
<1>3. DOMAIN rows = 1 .. Len(suffix) /\ rows = [i \in 1 .. Len(suffix) |-> rows[i]]
  BY Zenon DEF PolicyRows
<1>4. IsSequence(rows)
  <2> HIDE DEF rows
  <2> QED BY <1>2, <1>3, SequenceDefined, Zenon
<1>5. IsConcat(policies', policies, rows)
  BY <1>1, Zenon DEF IsConcat
<1>6. IsPrefixOf(policies, policies')
  <2> HIDE DEF rows
  <2> QED BY <1>4, <1>5, PrefixOfJoined, Zenon DEF IInv, TypeOK
<1>7. IsPrefixOf(journal, journal')
  BY <1>1, PrefixOfItself, Zenon DEF IInv, TypeOK
<1>8. audit <= audit'
  BY <1>1, AuditPasses, Zenon DEF IInv
<1> QED
  BY <1>1, <1>6, <1>7, <1>8, Zenon DEF RowsStay

\* Every step keeps what is recorded.
LEMMA StepHistory ==
    ASSUME IInv, [Next]_vars
    PROVE  RowsStay
<1>0. TypeOK /\ audit <= audit
  BY AuditPasses, Zenon DEF IInv
<1>1. CASE KeyStep
  <2> PICK k \in Keys, now \in Times :
         \/ EnrollKey(k, now)
         \/ \E reason \in {"Routine", "Recovery", "Compromise"} : RotateKey(k, reason, now)
         \/ MarkKeyCompromised(k, now)
         \/ BindSigningReference(k, now)
         \/ UnbindSigningReference(k, now)
         \/ \E issuedAt \in IssueTimes : RecordContinuityRoot(k, issuedAt, now)
    BY <1>1, Zenon DEF KeyStep
  <2>1. /\ UNCHANGED <<journal, policies, terminal>> /\ audit' = now
        /\ RequireMonotonicAuditTime(now)
        /\ root # NoRow => root' = root
    BY Zenon DEF EnrollKey, RotateKey, MarkKeyCompromised, BindSigningReference,
         UnbindSigningReference, RecordContinuityRoot
  <2>2. audit <= audit'
    BY <1>0, <2>1, AuditPasses, Zenon
  <2> QED
    BY <2>1, <2>2, QuietHistory, Zenon
<1>2. CASE RecordRecoveryPolicyChain
  BY <1>2, PoliciesHistory, Zenon
<1>3. CASE UNCHANGED storeVars
  BY <1>0, <1>3, QuietHistory, Zenon DEF storeVars
<1>4. ASSUME NEW s \in Sessions, SessionStep(s) PROVE RowsStay
  <2>1. CASE QuietStep(s)
    BY <1>3, <2>1, QuietStepTypes, Zenon
  <2>2. ASSUME NEW now \in Times,
               CommitRoutineTransition(s, now) \/ CommitRecoveryTransition(s, now)
        PROVE  RowsStay
    <3>1. AdoptTransition(s, sess[s].proof, now) /\ RequireMonotonicAuditTime(now)
      BY <2>2, Zenon DEF CommitRoutineTransition, CommitRecoveryTransition
    <3> QED
      BY <1>0, <3>1, AdoptHistory, AuditPasses, Zenon
  <2>3. ASSUME NEW now \in Times, CommitTerminalPersonaRevocation(s, now)
        PROVE  RowsStay
    <3>1. /\ terminal = NoRow /\ RequireMonotonicAuditTime(now) /\ audit' = now
          /\ UNCHANGED <<root, journal, policies>>
      BY <2>3, Zenon DEF CommitTerminalPersonaRevocation
    <3>2. IsPrefixOf(journal, journal') /\ IsPrefixOf(policies, policies')
      BY <1>0, <3>1, PrefixOfItself, Zenon DEF TypeOK
    <3>3. audit <= audit'
      BY <1>0, <3>1, AuditPasses, Zenon
    <3> QED
      BY <3>1, <3>2, <3>3, Zenon DEF RowsStay
  <2> QED
    BY <1>4, <2>1, <2>2, <2>3, Zenon DEF SessionStep, QuietStep
<1>5. CASE SignStep
  BY <1>3, <1>5, SignStepTypes, Zenon
<1>6. CASE UNCHANGED vars
  BY <1>3, <1>6, Zenon DEF vars, storeVars
<1> QED
  BY <1>1, <1>2, <1>4, <1>5, <1>6, Zenon DEF Next

\* No step of the store touches the archive or the receipt.
LEMMA ArchiveUntouched ==
    ASSUME [Next]_vars
    PROVE  UNCHANGED <<archive, receipt>>
<1>1. CASE KeyStep
  BY <1>1, Zenon DEF KeyStep, EnrollKey, RotateKey, MarkKeyCompromised, BindSigningReference,
              UnbindSigningReference, RecordContinuityRoot
<1>2. CASE RecordRecoveryPolicyChain
  BY <1>2, Zenon DEF RecordRecoveryPolicyChain
<1>3. CASE SignStep
  <2>1. \E st, w : Sign(st, w)
    BY <1>3, Zenon DEF SignStep, SignRoutine, SignRecovery, SignTerminal
  <2>2. UNCHANGED storeVars
    BY <2>1, Zenon DEF Sign
  <2> QED
    BY <2>2, Zenon DEF storeVars
<1>4. ASSUME NEW s \in Sessions, SessionStep(s) PROVE UNCHANGED <<archive, receipt>>
  <2>1. CASE QuietStep(s)
    BY <2>1, ZenonT(60) DEF QuietStep, WithActiveKeyAuthorization, BeginRoutine, ReplayRoutine,
                ReplayRecovery, ReplayTerminal, VerifyRecovery, VerifyTerminal, AnswerCommitted,
                SessionEnds, storeVars
  <2>2. CASE \E now \in Times : CommitRoutineTransition(s, now) \/ CommitRecoveryTransition(s, now)
    BY <2>2, Zenon DEF CommitRoutineTransition, CommitRecoveryTransition, AdoptTransition
  <2>3. CASE \E now \in Times : CommitTerminalPersonaRevocation(s, now)
    BY <2>3, Zenon DEF CommitTerminalPersonaRevocation
  <2> QED
    BY <1>4, <2>1, <2>2, <2>3, Zenon DEF SessionStep, QuietStep
<1> QED
  BY <1>1, <1>2, <1>3, <1>4, Zenon DEF Next, vars

\* A row that a step adds is whole and carries the new audit time.
NewRowsAreDated ==
    /\ root' = root \/ DOMAIN root' = PolicyFields
    /\ \A i \in 1 .. Len(journal') :
          \/ i \in 1 .. Len(journal) /\ journal'[i] = journal[i]
          \/ i > Len(journal) /\ journal'[i].committedAt = audit'
             /\ DOMAIN journal'[i] = TransitionFields
    /\ \A v \in 1 .. Len(policies') :
          \/ v \in 1 .. Len(policies) /\ policies'[v] = policies[v]
          \/ v > Len(policies) /\ policies'[v].recordedAt = audit'
             /\ DOMAIN policies'[v] = PolicyFields
    /\ terminal' = terminal \/ DOMAIN terminal' = TransitionFields

\* A step that adds no row to the journal or to the policies.
LEMMA NoNewRows ==
    ASSUME UNCHANGED <<journal, policies>>,
           root' = root \/ DOMAIN root' = PolicyFields,
           terminal' = terminal \/ DOMAIN terminal' = TransitionFields
    PROVE  NewRowsAreDated
BY Zenon DEF NewRowsAreDated

\* Adopting a transition adds one row to the journal.
LEMMA AdoptDatesRows ==
    ASSUME IInv, NEW s, NEW p, NEW now, AdoptTransition(s, p, now)
    PROVE  NewRowsAreDated
<1> DEFINE row == [statement |-> p.statement, wrapper |-> p.wrapper, committedAt |-> now]
<1>1. journal' = Append(journal, row) /\ audit' = now /\ UNCHANGED <<root, policies, terminal>>
  BY Zenon DEF AdoptTransition
<1>2. row.committedAt = now /\ DOMAIN row = TransitionFields
  BY DEF TransitionFields
<1>3. IsSequence(journal)
  BY Zenon DEF IInv, TypeOK
<1> HIDE DEF row
<1>4. /\ Len(journal) \in Nat /\ Len(journal') = Len(journal) + 1
      /\ \A i \in 1 .. Len(journal) : journal'[i] = journal[i]
      /\ journal'[Len(journal) + 1] = row
  BY <1>1, <1>3, SequenceAppend, ZenonT(60)
<1>5. ASSUME NEW i \in 1 .. Len(journal')
      PROVE  \/ i \in 1 .. Len(journal) /\ journal'[i] = journal[i]
             \/ i > Len(journal) /\ journal'[i] = row
  <2>1. i \in 1 .. Len(journal) \/ (i > Len(journal) /\ i = Len(journal) + 1)
    BY <1>4
  <2> QED
    BY <1>4, <2>1, Zenon
<1> QED
  BY <1>1, <1>2, <1>5, Zenon DEF NewRowsAreDated

\* Recording policies adds rows to the policy table.
LEMMA PoliciesDateRows ==
    ASSUME IInv, RecordRecoveryPolicyChain
    PROVE  NewRowsAreDated
<1>1. PICK suffix \in PolicySuffixes, now \in Times :
         /\ policies' = policies \o PolicyRows(suffix, now)
         /\ audit' = now
         /\ UNCHANGED <<root, journal, terminal>>
  BY Zenon DEF RecordRecoveryPolicyChain
<1> DEFINE rows == PolicyRows(suffix, now)
<1>2. Len(suffix) \in Nat
  BY SuffixShape
<1>3. /\ DOMAIN rows = 1 .. Len(suffix) /\ rows = [i \in 1 .. Len(suffix) |-> rows[i]]
      /\ \A i \in 1 .. Len(suffix) : rows[i] = [statement |-> suffix[i], recordedAt |-> now]
  BY Zenon DEF PolicyRows
<1>4. \A i \in 1 .. Len(suffix) : rows[i].recordedAt = now /\ DOMAIN rows[i] = PolicyFields
  <2> HIDE DEF rows
  <2> QED BY <1>3 DEF PolicyFields
<1> HIDE DEF rows
<1>5. IsSequence(rows) /\ Len(rows) = Len(suffix)
  BY <1>2, <1>3, SequenceDefined, Zenon
<1>6. IsConcat(policies', policies, rows) /\ IsSequence(policies)
  BY <1>1, Zenon DEF IsConcat, IInv, TypeOK, rows
<1>7. /\ Len(policies) \in Nat /\ Len(policies') = Len(policies) + Len(suffix)
      /\ \A v \in 1 .. Len(policies) : policies'[v] = policies[v]
      /\ \A i \in 1 .. Len(suffix) : policies'[Len(policies) + i] = rows[i]
  <2>1. /\ Len(policies) \in Nat /\ Len(policies') = Len(policies) + Len(rows)
        /\ \A v \in 1 .. Len(policies) : policies'[v] = policies[v]
        /\ \A i \in 1 .. Len(rows) : policies'[Len(policies) + i] = rows[i]
    BY <1>5, <1>6, SequenceConcat
  <2> QED
    BY <1>5, <2>1, Zenon
<1>8. ASSUME NEW v \in 1 .. Len(policies')
      PROVE  \/ v \in 1 .. Len(policies) /\ policies'[v] = policies[v]
             \/ v > Len(policies) /\ \E i \in 1 .. Len(suffix) : policies'[v] = rows[i]
  <2>1. \/ v \in 1 .. Len(policies)
        \/ v > Len(policies) /\ v - Len(policies) \in 1 .. Len(suffix)
           /\ v = Len(policies) + (v - Len(policies))
    BY <1>2, <1>7
  <2> QED
    BY <1>7, <2>1, Zenon
<1> QED
  BY <1>1, <1>4, <1>8, ZenonT(60) DEF NewRowsAreDated

\* Every step of the store.
LEMMA StepDatesRows ==
    ASSUME IInv, [Next]_vars
    PROVE  NewRowsAreDated
<1>1. CASE KeyStep
  <2> PICK k \in Keys, now \in Times :
         \/ EnrollKey(k, now)
         \/ \E reason \in {"Routine", "Recovery", "Compromise"} : RotateKey(k, reason, now)
         \/ MarkKeyCompromised(k, now)
         \/ BindSigningReference(k, now)
         \/ UnbindSigningReference(k, now)
         \/ \E issuedAt \in IssueTimes : RecordContinuityRoot(k, issuedAt, now)
    BY <1>1, Zenon DEF KeyStep
  <2>1. /\ UNCHANGED <<journal, policies, terminal>>
        /\ \/ root' = root
           \/ \E issuedAt : root' = [statement |-> [key |-> k, issuedAt |-> issuedAt],
                                     recordedAt |-> now]
    BY Zenon DEF EnrollKey, RotateKey, MarkKeyCompromised, BindSigningReference,
         UnbindSigningReference, RecordContinuityRoot
  <2>2. root' = root \/ DOMAIN root' = PolicyFields
    BY <2>1 DEF PolicyFields
  <2> QED
    BY <2>1, <2>2, NoNewRows, Zenon
<1>2. CASE RecordRecoveryPolicyChain
  BY <1>2, PoliciesDateRows, Zenon
<1>3. CASE UNCHANGED storeVars
  BY <1>3, NoNewRows, Zenon DEF storeVars
<1>4. ASSUME NEW s \in Sessions, SessionStep(s) PROVE NewRowsAreDated
  <2>1. CASE QuietStep(s)
    BY <1>3, <2>1, QuietStepTypes, Zenon
  <2>2. CASE \E now \in Times : CommitRoutineTransition(s, now) \/ CommitRecoveryTransition(s, now)
    BY <2>2, AdoptDatesRows, Zenon DEF CommitRoutineTransition, CommitRecoveryTransition
  <2>3. CASE \E now \in Times : CommitTerminalPersonaRevocation(s, now)
    <3>1. /\ UNCHANGED <<root, journal, policies>>
          /\ \E st, w, now : terminal' = [statement |-> st, wrapper |-> w, committedAt |-> now]
      BY <2>3, Zenon DEF CommitTerminalPersonaRevocation
    <3>2. DOMAIN terminal' = TransitionFields
      BY <3>1 DEF TransitionFields
    <3> QED
      BY <3>1, <3>2, NoNewRows, Zenon
  <2> QED
    BY <1>4, <2>1, <2>2, <2>3, Zenon DEF SessionStep, QuietStep
<1>5. CASE SignStep
  BY <1>3, <1>5, SignStepTypes, Zenon
<1>6. CASE UNCHANGED vars
  BY <1>3, <1>6, Zenon DEF vars, storeVars
<1> QED
  BY <1>1, <1>2, <1>4, <1>5, <1>6, Zenon DEF Next

\* A step binds a reference only to a key that is active after it and was active
\* or unknown before.
LEMMA StepRefs ==
    ASSUME IInv, [Next]_vars
    PROVE  \A k \in refs' : \/ k \in refs
                            \/ /\ k \in Keys /\ keys'[k] = "active"
                               /\ keys[k] \in {"active", "unknown"}
<1>1. CASE KeyStep
  <2> PICK k \in Keys, now \in Times :
         \/ EnrollKey(k, now)
         \/ \E reason \in {"Routine", "Recovery", "Compromise"} : RotateKey(k, reason, now)
         \/ MarkKeyCompromised(k, now)
         \/ BindSigningReference(k, now)
         \/ UnbindSigningReference(k, now)
         \/ \E issuedAt \in IssueTimes : RecordContinuityRoot(k, issuedAt, now)
    BY <1>1, Zenon DEF KeyStep
  <2>1. CASE BindSigningReference(k, now)
    BY <2>1, Zenon DEF BindSigningReference
  <2>2. CASE UnbindSigningReference(k, now)
    BY <2>2, Zenon DEF UnbindSigningReference
  <2>3. CASE UNCHANGED refs
    BY <2>3, Zenon
  <2> QED
    BY <2>1, <2>2, <2>3, Zenon DEF EnrollKey, RotateKey, MarkKeyCompromised, RecordContinuityRoot
<1>2. CASE UNCHANGED refs
  BY <1>2, Zenon
<1>3. ASSUME NEW s \in Sessions, SessionStep(s)
      PROVE  \A k \in refs' : \/ k \in refs
                              \/ /\ k \in Keys /\ keys'[k] = "active"
                                 /\ keys[k] \in {"active", "unknown"}
  <2>1. CASE QuietStep(s)
    BY <1>2, <2>1, QuietStepTypes, Zenon DEF storeVars
  <2>2. ASSUME NEW now \in Times, CommitRoutineTransition(s, now) \/ CommitRecoveryTransition(s, now)
        PROVE  \A k \in refs' : \/ k \in refs
                                \/ /\ k \in Keys /\ keys'[k] = "active" /\ keys[k] = "unknown"
    <3> DEFINE st == sess[s].proof.statement
    <3>1. AdoptTransition(s, sess[s].proof, now) /\ keys[st.nextKey] = "unknown"
      BY <2>2, Zenon DEF CommitRoutineTransition, CommitRecoveryTransition, RequireUnknownKey
    <3>2. st.nextKey \in Keys
      <4>1. PICK kind \in {"Routine", "Recovery"} : Carries(s, kind)
        BY <2>2, Zenon DEF CommitRoutineTransition, CommitRecoveryTransition
      <4>2. IsStatement(st) /\ st.kind = kind
        BY <4>1, CarriedProof, Zenon DEF IInv
      <4> QED
        BY <4>2, Zenon DEF IsStatement, IsTerminal
    <3>3. /\ refs' = refs \cup {st.nextKey}
          /\ keys' = [keys EXCEPT ![st.previousKey] = ReplacedStatus(st.reason),
                                  ![st.nextKey] = "active"]
      BY <3>1, Zenon DEF AdoptTransition
    <3>4. keys \in [Keys -> Statuses]
      BY Zenon DEF IInv, TypeOK
    <3> HIDE DEF st
    <3>5. keys'[st.nextKey] = "active"
      BY <3>2, <3>3, <3>4, Zenon
    <3> QED
      BY <3>1, <3>2, <3>3, <3>5, Zenon DEF st
  <2>3. CASE \E now \in Times : CommitTerminalPersonaRevocation(s, now)
    BY <2>3, Zenon DEF CommitTerminalPersonaRevocation
  <2> QED
    BY <1>3, <2>1, <2>2, <2>3, Zenon DEF SessionStep, QuietStep
<1>4. CASE RecordRecoveryPolicyChain
  BY <1>2, <1>4, Zenon DEF RecordRecoveryPolicyChain
<1>5. CASE SignStep
  BY <1>2, <1>5, SignStepTypes, Zenon DEF storeVars
<1>6. CASE UNCHANGED vars
  BY <1>2, <1>6, Zenon DEF vars
<1> QED
  BY <1>1, <1>3, <1>4, <1>5, <1>6, Zenon DEF Next

\* The sessions of the store's own operations do not turn into materializations.
LEMMA StepSessions ==
    ASSUME IInv, [Next]_vars, NEW r \in Sessions
    PROVE  sess'[r] = sess[r] \/ sess'[r].phase # "RecoveryActivation"
<1>0. DOMAIN sess = Sessions /\ Idle.phase # "RecoveryActivation"
  BY DEF IInv, TypeOK, Idle
<1>1. CASE sess' = sess
  BY <1>1, Zenon
<1>2. ASSUME NEW s \in Sessions, NEW record, record.phase # "RecoveryActivation",
             sess' = [sess EXCEPT ![s] = record]
      PROVE  sess'[r] = sess[r] \/ sess'[r].phase # "RecoveryActivation"
  BY <1>0, <1>2, Zenon
<1>3. ASSUME NEW s \in Sessions, SessionStep(s)
      PROVE  \E record : /\ record.phase # "RecoveryActivation"
                         /\ sess' = [sess EXCEPT ![s] = record]
  <2>1. CASE \E k \in Keys : WithActiveKeyAuthorization(s, k)
    <3>1. PICK k \in Keys : sess' = [sess EXCEPT ![s] = [phase |-> "authorized", key |-> k]]
      BY <2>1, Zenon DEF WithActiveKeyAuthorization
    <3>2. [phase |-> "authorized", key |-> k].phase # "RecoveryActivation"
      OBVIOUS
    <3> QED
      BY <3>1, <3>2, Zenon
  <2>2. CASE \E p \in proofs : \/ BeginRoutine(s, p)
                               \/ \E t \in Times : VerifyRecovery(s, p, t) \/ VerifyTerminal(s, p, t)
    <3>1. PICK p \in proofs, t \in Times \cup {None} : sess' = Remember(s, p, t)
      BY <2>2, Zenon DEF BeginRoutine, VerifyRecovery, VerifyTerminal
    <3>2. p.statement.kind # "RecoveryActivation"
      BY Zenon DEF IInv, TypeOK, IsStatement
    <3>3. [phase |-> p.statement.kind, proof |-> p, at |-> t].phase = p.statement.kind
      OBVIOUS
    <3> QED
      BY <3>1, <3>2, <3>3, Zenon DEF Remember
  <2>3. CASE sess' = [sess EXCEPT ![s] = Idle]
    BY <1>0, <2>3, Zenon
  <2> QED
    BY <1>3, <2>1, <2>2, <2>3, Zenon DEF SessionStep, ReplayRoutine, ReplayRecovery, ReplayTerminal,
         AnswerCommitted, SessionEnds, CommitRoutineTransition, CommitRecoveryTransition,
         CommitTerminalPersonaRevocation, AdoptTransition
<1>4. CASE KeyStep
  BY <1>1, <1>4, ZenonT(60) DEF KeyStep, EnrollKey, RotateKey, MarkKeyCompromised, BindSigningReference,
              UnbindSigningReference, RecordContinuityRoot
<1>5. CASE RecordRecoveryPolicyChain
  BY <1>1, <1>5, Zenon DEF RecordRecoveryPolicyChain
<1>6. CASE SignStep
  BY <1>1, <1>6, SignStepTypes, Zenon
<1>7. CASE UNCHANGED vars
  BY <1>1, <1>7, Zenon DEF vars
<1> QED
  BY <1>2, <1>3, <1>4, <1>5, <1>6, <1>7, Zenon DEF Next
=============================================================================
