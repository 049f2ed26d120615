--------------------------- MODULE ContinuityProofs ---------------------------
(***************************************************************************)
(* Facts about the continuity rules, for chains of every length and for    *)
(* every value of the limits.                                              *)
(***************************************************************************)
EXTENDS Continuity, WellFoundedInduction, TLAPS

\* What Append does to the entries a verifier has already seen.
LEMMA AppendFacts ==
    ASSUME NEW S, NEW ts \in Seq(S), NEW st \in S
    PROVE  /\ Len(ts) \in Nat
           /\ Append(ts, st) \in Seq(S)
           /\ Len(Append(ts, st)) = Len(ts) + 1
           /\ \A i \in 1 .. Len(ts) : Append(ts, st)[i] = ts[i]
           /\ Append(ts, st)[Len(ts) + 1] = st
OBVIOUS

\* An entry links to the entries before it, whatever is appended behind them.
LEMMA LinksAtAppend ==
    ASSUME NEW S, NEW ts \in Seq(S), NEW st \in S, NEW root, NEW e,
           NEW n \in 0 .. Len(ts)
    PROVE  LinksAt(root, Append(ts, st), n, e) <=> LinksAt(root, ts, n, e)
<1>1. n = 0 \/ Append(ts, st)[n] = ts[n]
  BY AppendFacts
<1>2. TipKey(root, Append(ts, st), n) = TipKey(root, ts, n)
  BY <1>1 DEF TipKey
<1>3. LastDigest(Append(ts, st), n) = LastDigest(ts, n)
  BY <1>1 DEF LastDigest
<1>4. LastIssuedAt(root, Append(ts, st), n) = LastIssuedAt(root, ts, n)
  BY <1>1 DEF LastIssuedAt
<1> QED
  BY <1>2, <1>3, <1>4 DEF LinksAt

\* A property of every entry of the extended chain is a property of every old
\* entry and of the new one.
LEMMA LinksOfAppend ==
    ASSUME NEW S, NEW ts \in Seq(S), NEW st \in S, NEW root
    PROVE  (\A i \in 1 .. Len(Append(ts, st)) :
               LinksAt(root, Append(ts, st), i - 1, Append(ts, st)[i]))
           <=> /\ \A i \in 1 .. Len(ts) : LinksAt(root, ts, i - 1, ts[i])
               /\ LinksAt(root, ts, Len(ts), st)
<1> DEFINE us == Append(ts, st)
<1>1. /\ Len(ts) \in Nat
      /\ Len(us) = Len(ts) + 1
      /\ \A i \in 1 .. Len(ts) : us[i] = ts[i]
      /\ us[Len(ts) + 1] = st
  BY AppendFacts
<1>2. \A n \in 0 .. Len(ts) : \A e : LinksAt(root, us, n, e) <=> LinksAt(root, ts, n, e)
  BY LinksAtAppend
<1>3. \A i \in 1 .. Len(ts) :
         LinksAt(root, us, i - 1, us[i]) <=> LinksAt(root, ts, i - 1, ts[i])
  <2> TAKE i \in 1 .. Len(ts)
  <2>1. i - 1 \in 0 .. Len(ts) /\ us[i] = ts[i]
    BY <1>1
  <2> QED
    BY <2>1, <1>2
<1>4. LinksAt(root, us, Len(ts), us[Len(ts) + 1]) <=> LinksAt(root, ts, Len(ts), st)
  BY <1>1, <1>2
<1>5. \A i : i \in 1 .. Len(us) <=> i \in 1 .. Len(ts) \/ i = Len(ts) + 1
  BY <1>1
<1>6. (Len(ts) + 1) - 1 = Len(ts)
  BY <1>1
<1> HIDE DEF us
<1> QED
  BY <1>3, <1>4, <1>5, <1>6 DEF us

\* The incremental check of a routine proof against a verified routine chain
\* (validate_verified_persona_continuity_chain_extension) accepts exactly what
\* verifying the whole extended chain would accept.
THEOREM RoutineExtensionIsFullVerification ==
    ASSUME NEW S, NEW ts \in Seq(S), NEW st \in S, NEW root,
           VerifyRoutineChain(root, ts)
    PROVE  RoutineExtension(root, ts, st) <=> VerifyRoutineChain(root, Append(ts, st))
<1> DEFINE us == Append(ts, st)
           Entry(e) == e.kind = "Routine" /\ ValidateStatement(e)
<1>1. /\ Len(ts) \in Nat
      /\ Len(us) = Len(ts) + 1
      /\ \A i \in 1 .. Len(ts) : us[i] = ts[i]
      /\ us[Len(ts) + 1] = st
  BY AppendFacts
<1>2. /\ \A i \in 1 .. Len(ts) : Entry(ts[i])
      /\ \A i \in 1 .. Len(ts) : LinksAt(root, ts, i - 1, ts[i])
  BY DEF VerifyRoutineChain
<1>3. (\A i \in 1 .. Len(us) : Entry(us[i])) <=> Entry(st)
  <2> HIDE DEF Entry
  <2> QED BY <1>1, <1>2
<1>4. (\A i \in 1 .. Len(us) : LinksAt(root, us, i - 1, us[i]))
         <=> LinksAt(root, ts, Len(ts), st)
  BY <1>2, LinksOfAppend
<1>5. (Len(us) <= MAX_CONTINUITY_TRANSITIONS) <=> (Len(ts) < MAX_CONTINUITY_TRANSITIONS)
  BY <1>1, LimitsAssumption
<1> HIDE DEF us
<1> QED
  BY <1>3, <1>4, <1>5 DEF VerifyRoutineChain, RoutineExtension, us

\* The keys a chain has put online, before and after an extension.
LEMMA OnlineKeysAppend ==
    ASSUME NEW S, NEW ts \in Seq(S), NEW st \in S, NEW root
    PROVE  OnlineKeys(root, Append(ts, st)) =
              OnlineKeys(root, ts) \cup (IF IsTerminal(st) THEN {} ELSE {st.nextKey})
<1> DEFINE us == Append(ts, st)
<1>1. /\ Len(ts) \in Nat
      /\ Len(us) = Len(ts) + 1
      /\ \A i \in 1 .. Len(ts) : us[i] = ts[i]
      /\ us[Len(ts) + 1] = st
  BY AppendFacts
<1>2. \A i : i \in 1 .. Len(us) <=> i \in 1 .. Len(ts) \/ i = Len(ts) + 1
  BY <1>1
<1>3. ASSUME NEW k
      PROVE  k \in OnlineKeys(root, us) <=>
                \/ k = root.key
                \/ \E i \in 1 .. Len(us) : ~ IsTerminal(us[i]) /\ k = us[i].nextKey
  BY DEF OnlineKeys
<1>4. ASSUME NEW k
      PROVE  k \in OnlineKeys(root, ts) <=>
                \/ k = root.key
                \/ \E i \in 1 .. Len(ts) : ~ IsTerminal(ts[i]) /\ k = ts[i].nextKey
  BY DEF OnlineKeys
<1>5. ASSUME NEW k
      PROVE  (\E i \in 1 .. Len(us) : ~ IsTerminal(us[i]) /\ k = us[i].nextKey)
             <=> \/ \E i \in 1 .. Len(ts) : ~ IsTerminal(ts[i]) /\ k = ts[i].nextKey
                 \/ ~ IsTerminal(st) /\ k = st.nextKey
  <2> HIDE DEF us
  <2> QED BY <1>1, <1>2
<1> HIDE DEF us
<1>6. \A k : k \in OnlineKeys(root, us) <=>
               k \in OnlineKeys(root, ts) \cup (IF IsTerminal(st) THEN {} ELSE {st.nextKey})
  BY <1>3, <1>4, <1>5, Zenon
<1> QED
  BY <1>6 DEF us

\* A statement that passes its own validator has one of the three kinds.
LEMMA ValidatedKinds ==
    ASSUME NEW st, ValidateStatement(st)
    PROVE  st.kind \in {"Routine", "Recovery", "TerminalRevocation"}
BY DEF ValidateStatement

\* A chain can be continued exactly when it holds no terminal revocation yet.
LEMMA TerminalAppend ==
    ASSUME NEW S, NEW ts \in Seq(S), NEW st \in S
    PROVE  /\ (\A i \in 1 .. Len(Append(ts, st)) :
                  IsTerminal(Append(ts, st)[i]) => i = Len(Append(ts, st)))
              <=> ~ TerminallyRevoked(ts)
           /\ TerminallyRevoked(Append(ts, st))
              <=> TerminallyRevoked(ts) \/ IsTerminal(st)
<1> DEFINE us == Append(ts, st)
<1>1. /\ Len(ts) \in Nat
      /\ Len(us) = Len(ts) + 1
      /\ \A i \in 1 .. Len(ts) : us[i] = ts[i]
      /\ us[Len(ts) + 1] = st
  BY AppendFacts
<1>2. \A i : i \in 1 .. Len(us) <=> i \in 1 .. Len(ts) \/ i = Len(ts) + 1
  BY <1>1
<1>3. \A i \in 1 .. Len(ts) : i # Len(us)
  BY <1>1
<1> HIDE DEF us
<1> QED
  BY <1>1, <1>2, <1>3 DEF TerminallyRevoked, us

\* The checkpoints signed into the policies stay matched as the chain grows.
LEMMA CheckpointsAppend ==
    ASSUME NEW S, NEW ts \in Seq(S), NEW st \in S, NEW policy,
           ValidateRecoveryCheckpoint(policy.checkpoint),
           PolicyCheckpointMatches(ts, policy)
    PROVE  PolicyCheckpointMatches(Append(ts, st), policy)
<1> DEFINE c == policy.checkpoint.sequence
<1>1. c \in Nat
  BY LimitsAssumption DEF ValidateRecoveryCheckpoint
<1>2. c # 0 => c \in 1 .. Len(ts)
  BY <1>1, AppendFacts DEF PolicyCheckpointMatches
<1>3. c # 0 => c <= Len(Append(ts, st)) /\ Append(ts, st)[c] = ts[c]
  BY <1>1, <1>2, AppendFacts
<1> QED
  BY <1>3, Zenon DEF PolicyCheckpointMatches

\* The incremental checks of a routine, recovery or terminal proof against a
\* verified recovery-aware chain (the three ..._extension functions of
\* recovery.rs) together accept exactly what verifying the whole extended chain
\* would accept: no statement slips in through the cheap path, none that
\* belongs to the history is turned away by it.
THEOREM RecoveryAwareExtensionIsFullVerification ==
    ASSUME NEW S, NEW ts \in Seq(S), NEW st \in S, NEW root,
           NEW P, NEW policies \in Seq(P),
           VerifyRecoveryAwareChain(root, ts, policies)
    PROVE  (\/ RoutineExtensionWithRecovery(root, ts, policies, st)
            \/ RecoveryExtension(root, ts, policies, st)
            \/ TerminalExtension(root, ts, policies, st))
           <=> VerifyRecoveryAwareChain(root, Append(ts, st), policies)
<1> DEFINE us == Append(ts, st)
           Entry(e) == ValidateStatement(e) /\ AuthorizedByPolicies(root, policies, e)
           Room == IF IsTerminal(st) THEN Len(ts) <= MAX_CONTINUITY_TRANSITIONS
                                     ELSE Len(ts) < MAX_CONTINUITY_TRANSITIONS
           Offline == \A v \in 1 .. Len(policies) :
                         IsTerminal(st) \/ st.nextKey \notin policies[v].authorities
           OnlineApart(ss) == \A v \in 1 .. Len(policies) :
                         policies[v].authorities \cap OnlineKeys(root, ss) = {}
<1>1. /\ Len(ts) \in Nat
      /\ Len(us) = Len(ts) + 1
      /\ \A i \in 1 .. Len(ts) : us[i] = ts[i]
      /\ us[Len(ts) + 1] = st
  BY AppendFacts
<1>2. /\ VerifyRecoveryPolicySequence(root, policies)
      /\ \A i \in 1 .. Len(ts) : Entry(ts[i])
      /\ \A i \in 1 .. Len(ts) : LinksAt(root, ts, i - 1, ts[i])
      /\ \A v \in 1 .. Len(policies) : PolicyCheckpointMatches(ts, policies[v])
      /\ OnlineApart(ts)
  BY DEF VerifyRecoveryAwareChain
<1>3. (\A i \in 1 .. Len(us) : IsTerminal(us[i]) => i = Len(us)) <=> ~ TerminallyRevoked(ts)
  BY TerminalAppend
<1>4. ASSUME ~ TerminallyRevoked(ts)
      PROVE  (Len(us) <= IF TerminallyRevoked(us)
                         THEN MAX_TERMINAL_PERSONA_REVOCATION_SEQUENCE
                         ELSE MAX_CONTINUITY_TRANSITIONS) <=> Room
  <2>1. TerminallyRevoked(us) <=> IsTerminal(st)
    BY <1>4, TerminalAppend
  <2> HIDE DEF us
  <2> QED
    BY <2>1, <1>1, LimitsAssumption DEF MAX_TERMINAL_PERSONA_REVOCATION_SEQUENCE
<1>5. (\A i \in 1 .. Len(us) : Entry(us[i])) <=> Entry(st)
  <2> HIDE DEF Entry, us
  <2>1. \A i : i \in 1 .. Len(us) <=> i \in 1 .. Len(ts) \/ i = Len(ts) + 1
    BY <1>1
  <2>2. \A i \in 1 .. Len(ts) : Entry(us[i])
    BY <1>1, <1>2, Zenon
  <2>3. Entry(us[Len(ts) + 1]) <=> Entry(st)
    BY <1>1, Zenon
  <2> QED
    BY <2>1, <2>2, <2>3, Zenon
<1>6. (\A i \in 1 .. Len(us) : LinksAt(root, us, i - 1, us[i]))
         <=> LinksAt(root, ts, Len(ts), st)
  BY <1>2, LinksOfAppend, Zenon
<1>7. \A v \in 1 .. Len(policies) : PolicyCheckpointMatches(us, policies[v])
  BY <1>2, CheckpointsAppend
     DEF VerifyRecoveryPolicySequence, ValidateRecoveryPolicyStatement
<1>8. OnlineApart(us) <=> Offline
  <2>1. OnlineKeys(root, us) =
           OnlineKeys(root, ts) \cup (IF IsTerminal(st) THEN {} ELSE {st.nextKey})
    BY OnlineKeysAppend
  <2> HIDE DEF us
  <2> QED BY <2>1, <1>2
<1>9. VerifyRecoveryAwareChain(root, us, policies) <=>
         /\ ~ TerminallyRevoked(ts) /\ Room
         /\ Entry(st) /\ LinksAt(root, ts, Len(ts), st)
         /\ Offline
  <2> HIDE DEF us, Room, Offline
  <2> QED
    BY <1>2, <1>3, <1>4, <1>5, <1>6, <1>7, <1>8 DEF VerifyRecoveryAwareChain
<1>10. CASE st.kind = "Routine"
  BY <1>9, <1>10 DEF RoutineExtensionWithRecovery, RecoveryExtension, TerminalExtension,
     RecoveryAwareTransitionAtHead, AuthorizedByPolicies, IsTerminal
<1>11. CASE st.kind = "Recovery"
  BY <1>9, <1>11 DEF RoutineExtensionWithRecovery, RecoveryExtension, TerminalExtension,
     RecoveryAwareTransitionAtHead, AuthorizedByPolicies, IsTerminal
<1>12. CASE st.kind = "TerminalRevocation"
  BY <1>9, <1>12 DEF RoutineExtensionWithRecovery, RecoveryExtension, TerminalExtension,
     RecoveryAwareTransitionAtHead, AuthorizedByPolicies, IsTerminal
<1>13. CASE st.kind \notin {"Routine", "Recovery", "TerminalRevocation"}
  BY <1>9, <1>13, ValidatedKinds
     DEF RoutineExtensionWithRecovery, RecoveryExtension, TerminalExtension
<1> QED
  BY <1>10, <1>11, <1>12, <1>13

\* Both kinds of chain together: the store's one-step rule and the verifier of
\* whole chains agree.
THEOREM ExtensionIsFullVerification ==
    ASSUME NEW S, NEW ts \in Seq(S), NEW st \in S, NEW root,
           NEW P, NEW policies \in Seq(P),
           VerifyChain(root, ts, policies)
    PROVE  ChainExtension(root, ts, policies, st)
              <=> VerifyChain(root, Append(ts, st), policies)
<1>1. CASE policies = << >>
  BY <1>1, RoutineExtensionIsFullVerification DEF VerifyChain, ChainExtension
<1>2. CASE policies # << >>
  BY <1>2, RecoveryAwareExtensionIsFullVerification DEF VerifyChain, ChainExtension
<1> QED
  BY <1>1, <1>2

\* A recovery that may be appended now names the latest policy: a verified chain
\* has reached every checkpoint its policies carry, so a superseded policy is
\* always past its successor's checkpoint.  The store's separate comparison with
\* the latest policy digest is a second line of defence, not the only one.
THEOREM RecoveryNamesLatestPolicy ==
    ASSUME NEW S, NEW ts \in Seq(S), NEW st, NEW root,
           NEW P, NEW policies \in Seq(P),
           VerifyRecoveryAwareChain(root, ts, policies),
           RecoveryExtension(root, ts, policies, st)
    PROVE  st.policy = Digest(policies[Len(policies)])
<1>1. Len(ts) \in Nat /\ Len(policies) \in Nat
  OBVIOUS
<1>2. PICK v \in 1 .. Len(policies) : RecoveryPolicyForTransition(policies, st, v)
  BY DEF RecoveryExtension
<1>3. st.sequence = Len(ts) + 1
  BY DEF RecoveryExtension, RecoveryAwareTransitionAtHead, LinksAt
<1>4. \A w \in 1 .. Len(policies) :
         /\ policies[w].checkpoint.sequence \in Nat
         /\ policies[w].checkpoint.sequence <= Len(ts)
  BY <1>1, LimitsAssumption
     DEF VerifyRecoveryAwareChain, PolicyCheckpointMatches, VerifyRecoveryPolicySequence,
         ValidateRecoveryPolicyStatement, ValidateRecoveryCheckpoint
<1>5. ~ (v < Len(policies))
  <2> SUFFICES ASSUME v < Len(policies) PROVE FALSE
    OBVIOUS
  <2>1. v + 1 \in 1 .. Len(policies)
    BY <1>1
  <2>2. st.sequence <= policies[v + 1].checkpoint.sequence
    BY <1>2 DEF RecoveryPolicyForTransition
  <2> QED
    BY <1>1, <1>3, <1>4, <2>1, <2>2
<1>6. v = Len(policies)
  BY <1>1, <1>5
<1> QED
  BY <1>2, <1>6 DEF RecoveryPolicyForTransition

-----------------------------------------------------------------------------
(* What the links of a chain say about all that comes before an entry.  The *)
(* induction is over the set of positions for which a statement holds.     *)

\* A set of naturals that holds zero and the successor of every element holds
\* them all: otherwise a least natural outside it has a predecessor inside.
LEMMA SetInduction ==
    ASSUME NEW S \in SUBSET Nat, 0 \in S, \A n \in S : n + 1 \in S
    PROVE  S = Nat
<1> DEFINE T == Nat \ S
<1> SUFFICES ASSUME T # {} PROVE FALSE
  OBVIOUS
<1>1. PICK x \in T : \A y \in T : ~ (<<y, x>> \in OpToRel(<, Nat))
  <2>1. T \subseteq Nat
    OBVIOUS
  <2> HIDE DEF T
  <2> QED
    BY <2>1, NatLessThanWellFounded, WFMin, Zenon
<1>2. x \in Nat /\ x # 0 /\ x - 1 \in Nat /\ x - 1 < x
  OBVIOUS
<1>3. x - 1 \in T
  BY <1>2
<1>4. <<x - 1, x>> \in OpToRel(<, Nat)
  BY <1>2 DEF OpToRel
<1> QED
  BY <1>1, <1>3, <1>4, Zenon

\* Versions count the policies of a verified chain, so no two of its policies
\* are the same statement.
LEMMA VersionsAreCounted ==
    ASSUME NEW root, NEW policies, VerifyRecoveryPolicySequence(root, policies)
    PROVE  \A v \in 1 .. Len(policies) : policies[v].version = v
<1> DEFINE S == {n \in Nat : n + 1 \in 1 .. Len(policies) => policies[n + 1].version = n + 1}
<1>1. Len(policies) \in Nat
  BY LimitsAssumption DEF VerifyRecoveryPolicySequence
<1>2. 0 \in S
  BY DEF VerifyRecoveryPolicySequence
<1>3. ASSUME NEW n \in S PROVE n + 1 \in S
  <2> SUFFICES ASSUME n + 2 \in 1 .. Len(policies) PROVE policies[n + 2].version = n + 2
    BY <1>1
  <2>1. n + 1 \in 1 .. Len(policies) /\ n + 2 \in 2 .. Len(policies) /\ (n + 2) - 1 = n + 1
    BY <1>1
  <2>2. policies[n + 1].version = n + 1
    BY <2>1
  <2>3. policies[n + 2].version = policies[n + 1].version + 1
    BY <2>1 DEF VerifyRecoveryPolicySequence, ValidatePolicySuccessor
  <2> QED
    BY <2>2, <2>3
<1>4. S = Nat
  <2>1. S \in SUBSET Nat
    OBVIOUS
  <2> HIDE DEF S
  <2> QED
    BY <1>2, <1>3, <2>1, SetInduction, Zenon
<1>5. ASSUME NEW v \in 1 .. Len(policies) PROVE policies[v].version = v
  <2>1. v - 1 \in Nat /\ (v - 1) + 1 = v
    BY <1>1
  <2>2. v - 1 \in S
    BY <1>4, <2>1
  <2> QED
    BY <2>1, <2>2
<1> QED
  BY <1>5

\* In a verified chain of either kind every entry links to the one before it.
LEMMA VerifiedChainLinks ==
    ASSUME NEW root, NEW ts, NEW policies, VerifyChain(root, ts, policies)
    PROVE  \A i \in 1 .. Len(ts) : LinksAt(root, ts, i - 1, ts[i])
BY Zenon DEF VerifyChain, VerifyRoutineChain, VerifyRecoveryAwareChain

\* The digest of one entry pins the whole history before it: two chains that
\* verify, from whatever roots and under whatever policies, and agree at one
\* position have the same root and agree at every earlier position.  That is why
\* a backup or a local fact may be compared by the digest of its head alone.
THEOREM SameEntrySameHistory ==
    ASSUME NEW rootT, NEW ts, NEW policiesT, VerifyChain(rootT, ts, policiesT),
           NEW rootU, NEW us, NEW policiesU, VerifyChain(rootU, us, policiesU),
           Len(ts) \in Nat, Len(us) \in Nat,
           NEW n \in Nat, n \in 1 .. Len(ts), n \in 1 .. Len(us), ts[n] = us[n]
    PROVE  rootT = rootU /\ \A i \in 1 .. n : ts[i] = us[i]
<1> DEFINE S == {d \in Nat : d < n => ts[n - d] = us[n - d]}
<1>1. /\ \A i \in 1 .. Len(ts) : LinksAt(rootT, ts, i - 1, ts[i])
      /\ \A i \in 1 .. Len(us) : LinksAt(rootU, us, i - 1, us[i])
  BY VerifiedChainLinks, Zenon
<1>2. rootT = rootU
  BY <1>1, Zenon DEF LinksAt, Digest
<1>3. 0 \in S
  OBVIOUS
<1>4. ASSUME NEW d \in S PROVE d + 1 \in S
  <2> SUFFICES ASSUME d + 1 < n PROVE ts[n - (d + 1)] = us[n - (d + 1)]
    BY <1>4
  <2> DEFINE i == n - d
  <2>1. /\ d \in Nat /\ i \in 1 .. Len(ts) /\ i \in 1 .. Len(us) /\ i - 1 # 0
        /\ n - (d + 1) = i - 1 /\ ts[i] = us[i]
    BY <1>4
  <2> HIDE DEF i
  <2>2. LinksAt(rootT, ts, i - 1, ts[i]) /\ LinksAt(rootU, us, i - 1, us[i])
    BY <1>1, <2>1, Zenon
  <2>3. ts[i].previous = ts[i - 1] /\ us[i].previous = us[i - 1]
    BY <2>1, <2>2, Zenon DEF LinksAt, LastDigest, Digest
  <2> QED
    BY <2>1, <2>3, Zenon
<1>5. S = Nat
  <2>1. S \in SUBSET Nat
    OBVIOUS
  <2> HIDE DEF S
  <2> QED
    BY <1>3, <1>4, <2>1, SetInduction, Zenon
<1>6. ASSUME NEW i \in 1 .. n PROVE ts[i] = us[i]
  <2>1. n - i \in Nat /\ n - i < n /\ n - (n - i) = i
    OBVIOUS
  <2>2. n - i \in S
    BY <1>5, <2>1
  <2> QED
    BY <2>1, <2>2
<1> QED
  BY <1>2, <1>6
=============================================================================
