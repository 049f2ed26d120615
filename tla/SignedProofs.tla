----------------------------- MODULE SignedProofs -----------------------------
(***************************************************************************)
(* The signed side of crate a-quo-core: how a continuity statement becomes *)
(* a proof that travels as JSON, and when such a proof verifies.           *)
(* Continuity.tla takes the statements of verified proofs; this module     *)
(* says which proofs those are.                                            *)
(*                                                                         *)
(*   payload    [statement, canonical]: the bytes of a statement; the      *)
(*              bytes that RFC 8785 gives it are the canonical ones        *)
(*   signature  the SSHSIG armor [signer, namespace, over, draw]; some key *)
(*              types never give the same armor twice, hence draw          *)
(*   RecoverySignature    [namespace, value, publicKey]                    *)
(*   ContinuitySignature  the same with a role                             *)
(*   public key text      [key, comment]                                   *)
(*                                                                         *)
(* Keys are numbers, so that a list of keys can be sorted.                 *)
(***************************************************************************)
EXTENDS Continuity, FiniteSets, SequencesExt

CONSTANTS
    MIN_RECOVERY_AUTHORITIES,      \* 2 in recovery.rs
    MAX_RECOVERY_AUTHORITIES       \* 32 in recovery.rs

Namespaces ==
    [Root          |-> "a-quo-persona-root-v1",
     Transition    |-> "a-quo-persona-transition-v1",
     Enrollment    |-> "a-quo-recovery-policy-enrollment-v1",
     UpdatePrevious |-> "a-quo-recovery-policy-update-previous-v1",
     UpdateCurrent |-> "a-quo-recovery-policy-update-current-v1",
     Authority     |-> "a-quo-persona-recovery-authority-v1",
     Next          |-> "a-quo-persona-recovery-next-v1",
     Terminal      |-> "a-quo-persona-terminal-revocation-authority-v1",
     Ceremony      |-> "a-quo-persona-recovery-ceremony-request-v1"]

-----------------------------------------------------------------------------
(* The shapes of what travels *)

Fields(r, names) == DOMAIN r = names

ValidateJcsTime(t) == t \in Nat

ContinuitySignatureRole == {"Root", "Previous", "Next"}

IsContinuitySignature(sig) ==
    /\ Fields(sig, {"role", "namespace", "value", "publicKey"})
    /\ sig.role \in ContinuitySignatureRole

IsRecoverySignature(sig) == Fields(sig, {"namespace", "value", "publicKey"})

ValidatePersonaRootStatement(st) ==
    /\ Fields(st, {"key", "issuedAt"})
    /\ ValidateJcsTime(st.issuedAt)

IsPersonaRootProof(proof) ==
    /\ Fields(proof, {"schema", "payload", "signature"})
    /\ proof.schema = "persona-root"
    /\ ValidatePersonaRootStatement(proof.payload.statement)
    /\ IsContinuitySignature(proof.signature)

IsPersonaTransitionStatement(st) ==
    /\ Fields(st, {"kind", "root", "sequence", "previous", "previousKey", "nextKey",
                   "issuedAt", "expiresAt", "policy", "reason", "ceremony"})
    /\ ValidateJcsTime(st.issuedAt)

IsPersonaTransitionProof(proof) ==
    /\ Fields(proof, {"schema", "payload", "signatures"})
    /\ IsPersonaTransitionStatement(proof.payload.statement)
    /\ \A i \in DOMAIN proof.signatures : IsContinuitySignature(proof.signatures[i])

-----------------------------------------------------------------------------
(* Keys, payloads and single signatures *)

\* A public key text may carry a comment; what is compared never does.
NormalizePublicKey(text) == [key |-> text.key, comment |-> FALSE]

PublicKeyFingerprint(text) == NormalizePublicKey(text).key

\* ssh-keygen -Y sign with the private key behind a path
SshsigSign(payload, privateKey, namespace, draw) ==
    [signer |-> privateKey, namespace |-> namespace, over |-> payload, draw |-> draw]

SshsigVerify(payload, value, text, namespace) ==
    /\ value.signer = text.key
    /\ value.over = payload
    /\ value.namespace = namespace

CanonicalPayload(statement) == [statement |-> statement, canonical |-> TRUE]

\* decode_canonical_payload, the parser and the comparison with the canonical
\* bytes of what was parsed
DecodeCanonicalPayload(payload) == payload.canonical

\* A signer is a private key path and the public key text that goes with it;
\* nothing but the check after signing ties the two together.
SignOne(payload, signer, namespace, draw) ==
    [namespace |-> namespace,
     value     |-> SshsigSign(payload, signer.privateKey, namespace, draw),
     publicKey |-> NormalizePublicKey(signer.publicKey)]

SignOneSucceeds(payload, signer, namespace) ==
    SshsigVerify(payload, SshsigSign(payload, signer.privateKey, namespace, 0),
                 NormalizePublicKey(signer.publicKey), namespace)

ValidateRecoverySignature(sig, namespace) == sig.namespace = namespace

-----------------------------------------------------------------------------
(* Sets of authority signatures *)

SignatureKeys(sigs) == {PublicKeyFingerprint(sigs[i].publicKey) : i \in DOMAIN sigs}

PreflightUnboundSignatureSet(sigs, namespace) ==
    /\ Len(sigs) \in MIN_RECOVERY_AUTHORITIES .. MAX_RECOVERY_AUTHORITIES
    /\ \A i \in DOMAIN sigs : ValidateRecoverySignature(sigs[i], namespace)
    /\ Cardinality(SignatureKeys(sigs)) = Len(sigs)

PreflightAuthoritySignatures(sigs, allowed, minimum, requireAll, namespace) ==
    /\ Len(sigs) \in minimum .. Cardinality(allowed)
    /\ PreflightUnboundSignatureSet(sigs, namespace)
    /\ SignatureKeys(sigs) \subseteq allowed
    /\ requireAll => SignatureKeys(sigs) = allowed

VerifyAuthoritySignatures(payload, sigs, allowed, minimum, requireAll, namespace) ==
    /\ PreflightAuthoritySignatures(sigs, allowed, minimum, requireAll, namespace)
    /\ \A i \in DOMAIN sigs :
          SshsigVerify(payload, sigs[i].value,
                       NormalizePublicKey(sigs[i].publicKey), namespace)

SignerKeys(signers) == {PublicKeyFingerprint(signers[i].publicKey) : i \in DOMAIN signers}

\* sign_with_authorities returns its signatures sorted by fingerprint
MaySignWithAuthorities(payload, signers, allowed, minimum, requireAll, namespace) ==
    /\ Len(signers) \in minimum .. Cardinality(allowed)
    /\ SignerKeys(signers) \subseteq allowed
    /\ Cardinality(SignerKeys(signers)) = Len(signers)
    /\ \A i \in DOMAIN signers : SignOneSucceeds(payload, signers[i], namespace)
    /\ requireAll => SignerKeys(signers) = allowed

SignWithAuthorities(payload, signers, namespace) ==
    SortSeq([i \in DOMAIN signers |-> SignOne(payload, signers[i], namespace, 0)],
            LAMBDA a, b : a.publicKey.key < b.publicKey.key)

-----------------------------------------------------------------------------
(* Persona root and routine transition proofs *)

ValidateSignature(sig, role, namespace) ==
    /\ sig.role = role
    /\ sig.namespace = namespace

NewSignature(role, value, text) ==
    [role |-> role,
     namespace |-> IF role = "Root" THEN Namespaces.Root ELSE Namespaces.Transition,
     value |-> value, publicKey |-> text]

PreflightPersonaRootProof(proof) ==
    /\ proof.schema = "persona-root"
    /\ DecodeCanonicalPayload(proof.payload)
    /\ ValidatePersonaRootStatement(proof.payload.statement)
    /\ ValidateSignature(proof.signature, "Root", Namespaces.Root)
    /\ PublicKeyFingerprint(proof.signature.publicKey) = proof.payload.statement.key

VerifyPersonaRootProof(proof) ==
    /\ PreflightPersonaRootProof(proof)
    /\ SshsigVerify(proof.payload, proof.signature.value,
                    NormalizePublicKey(proof.signature.publicKey), Namespaces.Root)

MayCreatePersonaRootProof(st, signer) ==
    /\ PublicKeyFingerprint(signer.publicKey) = st.key
    /\ SignOneSucceeds(CanonicalPayload(st), signer, Namespaces.Root)

CreatePersonaRootProof(st, signer) ==
    LET payload == CanonicalPayload(st) IN
    [schema    |-> "persona-root",
     payload   |-> payload,
     signature |-> NewSignature("Root",
                      SshsigSign(payload, signer.privateKey, Namespaces.Root, 0),
                      NormalizePublicKey(signer.publicKey))]

\* the one signature of the proof in a role
InRole(proof, role) ==
    proof.signatures[CHOOSE i \in DOMAIN proof.signatures : proof.signatures[i].role = role]

PreflightPersonaTransitionProof(proof) ==
    /\ proof.schema = "persona-transition"
    /\ Len(proof.signatures) = 2
    /\ DecodeCanonicalPayload(proof.payload)
    /\ proof.payload.statement.kind = "Routine"
    /\ ValidateStatement(proof.payload.statement)
    /\ {proof.signatures[i].role : i \in 1 .. 2} = {"Previous", "Next"}
    /\ \A role \in {"Previous", "Next"} :
          ValidateSignature(InRole(proof, role), role, Namespaces.Transition)
    /\ PublicKeyFingerprint(InRole(proof, "Previous").publicKey)
          = proof.payload.statement.previousKey
    /\ PublicKeyFingerprint(InRole(proof, "Next").publicKey)
          = proof.payload.statement.nextKey

VerifyPersonaTransitionProof(proof) ==
    /\ PreflightPersonaTransitionProof(proof)
    /\ \A role \in {"Previous", "Next"} :
          LET sig == InRole(proof, role) IN
          SshsigVerify(proof.payload, sig.value,
                       NormalizePublicKey(sig.publicKey), Namespaces.Transition)

MayCreateRoutineTransitionProof(st, previous, next) ==
    /\ ValidateStatement(st)
    /\ PublicKeyFingerprint(previous.publicKey) = st.previousKey
    /\ PublicKeyFingerprint(next.publicKey) = st.nextKey
    /\ SignOneSucceeds(CanonicalPayload(st), previous, Namespaces.Transition)
    /\ SignOneSucceeds(CanonicalPayload(st), next, Namespaces.Transition)

CreateRoutineTransitionProof(st, previous, next) ==
    LET payload == CanonicalPayload(st)
        Signed(role, signer) ==
           NewSignature(role,
              SshsigSign(payload, signer.privateKey, Namespaces.Transition, 0),
              NormalizePublicKey(signer.publicKey))
    IN  [schema     |-> "persona-transition",
         payload    |-> payload,
         signatures |-> <<Signed("Previous", previous), Signed("Next", next)>>]
=============================================================================
