---------------------------- MODULE RecoveryProofs ----------------------------
(***************************************************************************)
(* Recovery policies, recovery transitions and terminal revocations as     *)
(* signed proofs, and the verification of whole histories of proofs        *)
(* against digests pinned beforehand (recovery.rs, continuity.rs).         *)
(*                                                                         *)
(* Statements have the fields Continuity.tla names and                     *)
(*   policy      threshold                                                 *)
(*   transition  ceremony: the ceremony id of a schema-v2 recovery         *)
(*                                                                         *)
(* A routine, recovery or terminal proof is told apart by its schema, as   *)
(* the untagged enum PersonaContinuityTransitionProof does by its fields.  *)
(***************************************************************************)
EXTENDS SignedProofs

CONSTANTS
    MAX_RECOVERY_POLICY_VALIDITY_SECONDS,
    MAX_RECOVERY_CEREMONY_VALIDITY_SECONDS

-----------------------------------------------------------------------------
(* The shapes of what travels *)

IsCheckpoint(c) == Fields(c, {"sequence", "digest"})

RecoveryPolicyCapability == {"KeyRecovery", "TerminalRevocation"}

IsRecoveryPolicyStatement(policy) ==
    /\ Fields(policy, {"root", "version", "previous", "checkpoint", "issuedAt",
                       "expiresAt", "schema", "capabilities", "authorities", "threshold"})
    /\ IsCheckpoint(policy.checkpoint)
    /\ policy.capabilities \subseteq RecoveryPolicyCapability

\* RecoveryPolicyAuthorization, Enrollment or Update
IsAuthorization(proof) ==
    /\ proof.kind \in {"Enrollment", "Update"}
    /\ proof.kind = "Enrollment" => proof.previous = << >>
    /\ \A i \in DOMAIN proof.previous : IsRecoverySignature(proof.previous[i])
    /\ \A i \in DOMAIN proof.current : IsRecoverySignature(proof.current[i])

IsRecoveryPolicyProof(proof) ==
    /\ Fields(proof, {"schema", "payload", "kind", "previous", "current"})
    /\ IsRecoveryPolicyStatement(proof.payload.statement)
    /\ IsAuthorization(proof)

IsRecoveryTransitionStatement(st) ==
    /\ IsPersonaTransitionStatement(st)
    /\ st.reason \in {"Recovery", "Compromise"}

IsRecoveryTransitionProof(proof) ==
    /\ Fields(proof, {"schema", "payload", "signatures", "nextSignature"})
    /\ IsRecoveryTransitionStatement(proof.payload.statement)
    /\ \A i \in DOMAIN proof.signatures : IsRecoverySignature(proof.signatures[i])
    /\ IsRecoverySignature(proof.nextSignature)

IsTerminalPersonaRevocationStatement(st) ==
    /\ IsPersonaTransitionStatement(st)
    /\ st.reason \in {"Compromise", "Cessation"}
    /\ st.nextKey = None

IsTerminalPersonaRevocationProof(proof) ==
    /\ Fields(proof, {"schema", "payload", "signatures"})
    /\ IsTerminalPersonaRevocationStatement(proof.payload.statement)
    /\ \A i \in DOMAIN proof.signatures : IsRecoverySignature(proof.signatures[i])

-----------------------------------------------------------------------------
(* Policy statements and proofs *)

\* The authority keys, the threshold and the validity of a policy statement
ValidateAuthorities(policy) ==
    /\ Cardinality(policy.authorities)
          \in MIN_RECOVERY_AUTHORITIES .. MAX_RECOVERY_AUTHORITIES
    /\ policy.threshold
          \in MIN_RECOVERY_AUTHORITIES .. Cardinality(policy.authorities)
    /\ policy.expiresAt - policy.issuedAt <= MAX_RECOVERY_POLICY_VALIDITY_SECONDS

CanonicalRecoveryPolicyStatement(policy) ==
    /\ ValidateRecoveryPolicyStatement(policy)
    /\ ValidateAuthorities(policy)

\* authority_fingerprints: the listed key texts, with comments removed, must
\* name that many different keys.
AuthorityFingerprints(texts) ==
    {PublicKeyFingerprint(texts[i]) : i \in DOMAIN texts}

MayStateInitialPolicy(root, policy) ==
    /\ CanonicalRecoveryPolicyStatement(policy)
    /\ ValidatePolicyRootBinding(root, policy)
    /\ root.key \notin policy.authorities

NewInitialRecoveryPolicyStatement(root, texts, threshold, capabilities, checkpoint, issuedAt, expiresAt) ==
    [root |-> Digest(root), version |-> 1, previous |-> None,
     checkpoint |-> checkpoint, issuedAt |-> issuedAt, expiresAt |-> expiresAt,
     schema |-> IF capabilities = {} THEN 1 ELSE 2,
     capabilities |-> capabilities,
     authorities |-> AuthorityFingerprints(texts), threshold |-> threshold]

MayStatePolicyUpdate(before, policy) ==
    /\ CanonicalRecoveryPolicyStatement(policy)
    /\ ValidatePolicySuccessor(before, policy)

NewRecoveryPolicyUpdateStatement(before, texts, threshold, capabilities, checkpoint, issuedAt, expiresAt) ==
    [root |-> before.root, version |-> before.version + 1,
     previous |-> Digest(before),
     checkpoint |-> checkpoint, issuedAt |-> issuedAt, expiresAt |-> expiresAt,
     schema |-> IF capabilities = {} THEN 1 ELSE 2,
     capabilities |-> capabilities,
     authorities |-> AuthorityFingerprints(texts), threshold |-> threshold]

MayCreateInitialRecoveryPolicyProof(policy, signers) ==
    /\ policy.version = 1 /\ policy.previous = None
    /\ CanonicalRecoveryPolicyStatement(policy)
    /\ MaySignWithAuthorities(CanonicalPayload(policy), signers, policy.authorities,
          Cardinality(policy.authorities), TRUE, Namespaces.Enrollment)

CreateInitialRecoveryPolicyProof(policy, signers) ==
    [schema   |-> "recovery-policy",
     payload  |-> CanonicalPayload(policy),
     kind     |-> "Enrollment",
     previous |-> << >>,
     current  |-> SignWithAuthorities(CanonicalPayload(policy), signers,
                                      Namespaces.Enrollment)]

MayCreateRecoveryPolicyUpdateProof(policy, before, previousSigners, currentSigners) ==
    /\ MayStatePolicyUpdate(before, policy)
    /\ MaySignWithAuthorities(CanonicalPayload(policy), previousSigners,
          before.authorities, before.threshold, FALSE, Namespaces.UpdatePrevious)
    /\ MaySignWithAuthorities(CanonicalPayload(policy), currentSigners,
          policy.authorities, Cardinality(policy.authorities), TRUE,
          Namespaces.UpdateCurrent)

CreateRecoveryPolicyUpdateProof(policy, previousSigners, currentSigners) ==
    [schema   |-> "recovery-policy",
     payload  |-> CanonicalPayload(policy),
     kind     |-> "Update",
     previous |-> SignWithAuthorities(CanonicalPayload(policy), previousSigners,
                                      Namespaces.UpdatePrevious),
     current  |-> SignWithAuthorities(CanonicalPayload(policy), currentSigners,
                                      Namespaces.UpdateCurrent)]

\* What can be said of a policy proof alone.  The previous policy is not at
\* hand, so the signatures of its authorities are checked for shape only.
PreflightRecoveryPolicyProof(proof) ==
    LET policy == proof.payload.statement IN
    /\ proof.schema = "recovery-policy"
    /\ DecodeCanonicalPayload(proof.payload)
    /\ CanonicalRecoveryPolicyStatement(policy)
    /\ \/ /\ proof.kind = "Enrollment"
          /\ policy.version = 1 /\ policy.previous = None
          /\ PreflightAuthoritySignatures(proof.current, policy.authorities,
                Cardinality(policy.authorities), TRUE, Namespaces.Enrollment)
       \/ /\ proof.kind = "Update"
          /\ policy.version > 1 /\ policy.previous # None
          /\ PreflightUnboundSignatureSet(proof.previous, Namespaces.UpdatePrevious)
          /\ PreflightAuthoritySignatures(proof.current, policy.authorities,
                policy.threshold, FALSE, Namespaces.UpdateCurrent)

\* The threshold of the new policy instead of the previous one's
SlipOwnThreshold(before, proof) ==
    LET policy == proof.payload.statement IN
    /\ proof.kind = "Update"
    /\ ValidatePolicySuccessor(before, policy)
    /\ VerifyAuthoritySignatures(proof.payload, proof.previous, before.authorities,
          policy.threshold, FALSE, Namespaces.UpdatePrevious)
    /\ VerifyAuthoritySignatures(proof.payload, proof.current, policy.authorities,
          policy.threshold, FALSE, Namespaces.UpdateCurrent)
VerifyUpdateAuthorization(before, proof) ==
    LET policy == proof.payload.statement IN
    /\ proof.kind = "Update"
    /\ ValidatePolicySuccessor(before, policy)
    /\ VerifyAuthoritySignatures(proof.payload, proof.previous, before.authorities,
          before.threshold, FALSE, Namespaces.UpdatePrevious)
    /\ VerifyAuthoritySignatures(proof.payload, proof.current, policy.authorities,
          policy.threshold, FALSE, Namespaces.UpdateCurrent)

VerifyEnrollmentAuthorization(proof) ==
    LET policy == proof.payload.statement IN
    /\ proof.kind = "Enrollment"
    /\ policy.version = 1 /\ policy.previous = None
    /\ VerifyAuthoritySignatures(proof.payload, proof.current, policy.authorities,
          Cardinality(policy.authorities), TRUE, Namespaces.Enrollment)

\* verify_recovery_policy_proof; before is None for the first policy
VerifyRecoveryPolicyProof(root, before, proof) ==
    /\ PreflightRecoveryPolicyProof(proof)
    /\ ValidatePolicyRootBinding(root, proof.payload.statement)
    /\ IF before = None THEN VerifyEnrollmentAuthorization(proof)
                        ELSE VerifyUpdateAuthorization(before, proof)

Statements(proofs) == [i \in DOMAIN proofs |-> proofs[i].payload.statement]

VerifyRecoveryPolicyProofSequence(root, proofs) ==
    /\ Len(proofs) \in 1 .. MAX_RECOVERY_POLICY_VERSIONS
    /\ \A v \in DOMAIN proofs :
          VerifyRecoveryPolicyProof(root,
             IF v = 1 THEN None ELSE proofs[v - 1].payload.statement, proofs[v])

\* verified_recovery_policy_sequence, with the two pinned digests
VerifiedRecoveryPolicySequence(rootProof, proofs, expectedRoot, expectedPolicy) ==
    /\ VerifyPersonaRootProof(rootProof)
    /\ Digest(rootProof.payload.statement) = expectedRoot
    /\ VerifyRecoveryPolicyProofSequence(rootProof.payload.statement, proofs)
    /\ Digest(proofs[Len(proofs)].payload.statement) = expectedPolicy

PolicyTimeStatus(policy, now) ==
    CASE now < policy.issuedAt   -> "NotYetValid"
      [] now >= policy.expiresAt -> "Expired"
      [] OTHER                   -> "Active"

RecoveryPolicyChainReport(policies, checkedAt) ==
    LET latest == policies[Len(policies)] IN
    [initial    |-> Digest(policies[1]),
     latest     |-> Digest(latest),
     version    |-> latest.version,
     threshold  |-> latest.threshold,
     authorityCount |-> Cardinality(latest.authorities),
     checkpoint |-> latest.checkpoint,
     checkedAt  |-> checkedAt,
     timeStatus |-> PolicyTimeStatus(latest, checkedAt)]

-----------------------------------------------------------------------------
(* Recovery transition proofs *)

\* validate_recovery_transition_statement: a ceremony id and a deadline come
\* together, and the deadline is near.
ValidateRecoveryTransitionStatement(st) ==
    /\ ValidateStatement(st)
    /\ (st.ceremony = None) <=> (st.expiresAt = None)
    /\ st.expiresAt # None =>
          st.expiresAt - st.issuedAt \in 1 .. MAX_RECOVERY_CEREMONY_VALIDITY_SECONDS

ValidateRecoveryTransitionBinding(root, policy, st) ==
    /\ ValidateRecoveryTransitionStatement(st)
    /\ ValidatePolicyRootBinding(root, policy)
    /\ ValidateRecoveryTransitionPolicyBinding(policy, st)
    /\ st.root = Digest(root)
    /\ st.issuedAt >= root.issuedAt

NewRecoveryTransitionStatement(root, sequence, previous, previousKey, nextText, policy, issuedAt, expiresAt, ceremony) ==
    [kind |-> "Recovery", root |-> Digest(root), sequence |-> sequence,
     previous |-> previous, previousKey |-> previousKey,
     nextKey |-> PublicKeyFingerprint(nextText), issuedAt |-> issuedAt,
     expiresAt |-> expiresAt, policy |-> Digest(policy), reason |-> "Compromise",
     ceremony |-> ceremony]

MayStateRecoveryTransition(root, policy, st) ==
    /\ st.sequence = 1 => st.previousKey = root.key
    /\ ValidateRecoveryTransitionBinding(root, policy, st)

PreflightRecoveryTransitionProof(proof) ==
    LET st == proof.payload.statement IN
    /\ proof.schema = "recovery-transition"
    /\ DecodeCanonicalPayload(proof.payload)
    /\ st.kind = "Recovery"
    /\ ValidateRecoveryTransitionStatement(st)
    /\ PreflightUnboundSignatureSet(proof.signatures, Namespaces.Authority)
    /\ ValidateRecoverySignature(proof.nextSignature, Namespaces.Next)
    /\ PublicKeyFingerprint(proof.nextSignature.publicKey) = st.nextKey

\* verify_recovery_transition_proof_with_receipt; the receipt keeps the policy
VerifyRecoveryTransitionProof(root, policy, proof) ==
    /\ PreflightRecoveryTransitionProof(proof)
    /\ ValidateRecoveryTransitionBinding(root, policy, proof.payload.statement)
    /\ VerifyAuthoritySignatures(proof.payload, proof.signatures, policy.authorities,
          policy.threshold, FALSE, Namespaces.Authority)
    /\ SshsigVerify(proof.payload, proof.nextSignature.value,
          NormalizePublicKey(proof.nextSignature.publicKey), Namespaces.Next)

MayCreateRecoveryTransitionProof(st, policy, signers, nextSigner) ==
    /\ ValidateRecoveryTransitionPolicyBinding(policy, st)
    /\ ValidateRecoveryTransitionStatement(st)
    /\ MaySignWithAuthorities(CanonicalPayload(st), signers, policy.authorities,
          policy.threshold, FALSE, Namespaces.Authority)
    /\ PublicKeyFingerprint(nextSigner.publicKey) = st.nextKey
    /\ SignOneSucceeds(CanonicalPayload(st), nextSigner, Namespaces.Next)

CreateRecoveryTransitionProof(st, signers, nextSigner) ==
    [schema        |-> "recovery-transition",
     payload       |-> CanonicalPayload(st),
     signatures    |-> SignWithAuthorities(CanonicalPayload(st), signers,
                                           Namespaces.Authority),
     nextSignature |-> SignOne(CanonicalPayload(st), nextSigner, Namespaces.Next, 0)]

-----------------------------------------------------------------------------
(* Terminal revocation proofs *)

NewTerminalPersonaRevocationStatement(root, sequence, previous, previousKey, policy, issuedAt) ==
    [kind |-> "TerminalRevocation", root |-> Digest(root), sequence |-> sequence,
     previous |-> previous, previousKey |-> previousKey, nextKey |-> None,
     issuedAt |-> issuedAt, expiresAt |-> None, policy |-> Digest(policy),
     reason |-> "Cessation", ceremony |-> None]

ValidateTerminalPersonaRevocationBinding(root, policy, st) ==
    /\ ValidateStatement(st)
    /\ ValidatePolicyRootBinding(root, policy)
    /\ ValidateTerminalPersonaRevocationPolicyBinding(policy, st)
    /\ st.root = Digest(root)
    /\ st.issuedAt >= root.issuedAt

MayStateTerminalPersonaRevocation(root, policy, st) ==
    /\ st.sequence = 1 => st.previousKey = root.key
    /\ ValidateTerminalPersonaRevocationBinding(root, policy, st)

PreflightTerminalPersonaRevocationProof(proof) ==
    /\ proof.schema = "terminal-revocation"
    /\ DecodeCanonicalPayload(proof.payload)
    /\ proof.payload.statement.kind = "TerminalRevocation"
    /\ ValidateStatement(proof.payload.statement)
    /\ PreflightUnboundSignatureSet(proof.signatures, Namespaces.Terminal)

VerifyTerminalPersonaRevocationProof(root, policy, proof) ==
    /\ PreflightTerminalPersonaRevocationProof(proof)
    /\ ValidateTerminalPersonaRevocationBinding(root, policy, proof.payload.statement)
    /\ VerifyAuthoritySignatures(proof.payload, proof.signatures, policy.authorities,
          policy.threshold, FALSE, Namespaces.Terminal)

MayCreateTerminalPersonaRevocationProof(st, policy, signers) ==
    /\ ValidateTerminalPersonaRevocationPolicyBinding(policy, st)
    /\ ValidateStatement(st)
    /\ MaySignWithAuthorities(CanonicalPayload(st), signers, policy.authorities,
          policy.threshold, FALSE, Namespaces.Terminal)

CreateTerminalPersonaRevocationProof(st, signers) ==
    [schema     |-> "terminal-revocation",
     payload    |-> CanonicalPayload(st),
     signatures |-> SignWithAuthorities(CanonicalPayload(st), signers,
                                        Namespaces.Terminal)]

-----------------------------------------------------------------------------
(* Histories of proofs *)

\* parse_persona_continuity_transition_proof_bytes
PreflightTransitionProof(proof) ==
    \/ PreflightPersonaTransitionProof(proof)
    \/ PreflightRecoveryTransitionProof(proof)
    \/ PreflightTerminalPersonaRevocationProof(proof)

\* The signatures of one entry, under the policies of the history.  A recovery
\* is verified under the policy it names, a terminal revocation under the last.
VerifyTransitionProofUnder(root, policies, proof) ==
    LET st == proof.payload.statement IN
    \/ VerifyPersonaTransitionProof(proof)
    \/ /\ PreflightRecoveryTransitionProof(proof)
       /\ \E v \in DOMAIN policies :
             /\ RecoveryPolicyForTransition(policies, st, v)
             /\ VerifyRecoveryTransitionProof(root, policies[v], proof)
    \/ VerifyTerminalPersonaRevocationProof(root, policies[Len(policies)], proof)

\* verify_persona_continuity_chain_with_recovery
VerifyHistory(rootProof, transitionProofs, policyProofs, expectedRoot, expectedPolicy) ==
    LET root == rootProof.payload.statement
        policies == Statements(policyProofs)
    IN
    /\ VerifiedRecoveryPolicySequence(rootProof, policyProofs, expectedRoot, expectedPolicy)
    /\ \A i \in DOMAIN transitionProofs :
          VerifyTransitionProofUnder(root, policies, transitionProofs[i])
    /\ VerifyRecoveryAwareChain(root, Statements(transitionProofs), policies)

\* The report of a verified history.  A persona that has ended has a last key
\* and no current one.
RecoveryAwareContinuityChainReport(root, ts, policies, checkedAt) ==
    [policy     |-> RecoveryPolicyChainReport(policies, checkedAt),
     tipKey     |-> TipKey(root, ts, Len(ts)),
     currentKey |-> IF TerminallyRevoked(ts) THEN None ELSE TipKey(root, ts, Len(ts)),
     terminallyRevoked |-> TerminallyRevoked(ts),
     count      |-> Len(ts),
     recoveries |-> Cardinality({i \in DOMAIN ts : ts[i].kind = "Recovery"}),
     last       |-> LastDigest(ts, Len(ts))]

\* match_continuity_head_checkpoint and its recovery-aware form, which also
\* admits the one place a terminal revocation may take past the last transition
MatchContinuityHeadCheckpoint(ts, expected) ==
    /\ expected.sequence <= MAX_TERMINAL_PERSONA_REVOCATION_SEQUENCE
    /\ (expected.sequence = 0) <=> (expected.digest = None)
    /\ Len(ts) = expected.sequence
    /\ LastDigest(ts, Len(ts)) = expected.digest

VerifyHistoryAtCheckpoint(rootProof, transitionProofs, policyProofs, expectedRoot, expectedPolicy, expectedHead) ==
    /\ VerifyHistory(rootProof, transitionProofs, policyProofs,
                     expectedRoot, expectedPolicy)
    /\ MatchContinuityHeadCheckpoint(Statements(transitionProofs), expectedHead)
=============================================================================
