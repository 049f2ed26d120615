--------------------------- MODULE ArtifactProofs ---------------------------
(***************************************************************************)
(* Proofs about a file: describing it, signing the description, writing    *)
(* the proof beside it, and verifying it later (lib.rs of a-quo-core).     *)
(* Two signers work on the same file, a verifier looks at what is there,   *)
(* and another program writes the file all the while; a signer may die at  *)
(* any point.                                                              *)
(*                                                                         *)
(* The file is two buffers long.  A descriptor is the bytes it was         *)
(* computed from.                                                          *)
(***************************************************************************)
EXTENDS SignedProofs

CONSTANTS
    Signers,     \* signers: key -> the public key text it goes by
    Bytes,       \* what a buffer may hold
    MaxWrites    \* bound on the writes of the other program

SSHSIG_NAMESPACE == "a-quo-artifact-v1"

VARIABLES
    artifact,    \* the file: a pair of buffers
    proofFile,   \* the proof beside it: [state, proof], or None
    pc,          \* per process: how far it is
    read,        \* per process: the buffers it has read
    made,        \* per signer: the proof it made, or None
    loaded,      \* the proof the verifier loaded, or None
    report,      \* what the verifier said, or None
    writes

vars == <<artifact, proofFile, pc, read, made, loaded, report, writes>>

Verifier == 0
Processes == DOMAIN Signers \cup {Verifier}

-----------------------------------------------------------------------------
(* Statements and proofs *)

ArtifactStatement(descriptor, text) ==
    [artifact |-> descriptor, key |-> PublicKeyFingerprint(text)]

\* create_sshsig_payload_proof verifies what it signed
MayCreateSshsigProof(descriptor, signer) ==
    SignOneSucceeds(CanonicalPayload(ArtifactStatement(descriptor, signer.publicKey)),
                    signer, SSHSIG_NAMESPACE)

CreateSshsigProofForDescriptor(descriptor, signer) ==
    LET payload == CanonicalPayload(ArtifactStatement(descriptor, signer.publicKey)) IN
    [payload   |-> payload,
     namespace |-> SSHSIG_NAMESPACE,
     value     |-> SshsigSign(payload, signer.privateKey, SSHSIG_NAMESPACE, 0),
     publicKey |-> NormalizePublicKey(signer.publicKey)]

ValidateEnvelope(proof) == proof.namespace = SSHSIG_NAMESPACE

VerifySshsigProofForDescriptor(descriptor, proof) ==
    /\ ValidateEnvelope(proof)
    /\ descriptor = proof.payload.statement.artifact
    /\ PublicKeyFingerprint(proof.publicKey) = proof.payload.statement.key
    /\ SshsigVerify(proof.payload, proof.value, NormalizePublicKey(proof.publicKey),
                    SSHSIG_NAMESPACE)

-----------------------------------------------------------------------------
(* Steps *)

Init ==
    /\ artifact \in Bytes \X Bytes
    /\ proofFile = None
    /\ pc = [p \in Processes |-> IF p = Verifier THEN "load" ELSE "describe"]
    /\ read = [p \in Processes |-> << >>]
    /\ made = [p \in DOMAIN Signers |-> None]
    /\ loaded = None /\ report = None /\ writes = 0

Goto(p, label) == pc' = [pc EXCEPT ![p] = label]

\* describe_reader and describe_open_artifact: a buffer at a time, up to the end
Describe(p) ==
    /\ pc[p] = "describe"
    /\ read' = [read EXCEPT ![p] = Append(@, artifact[Len(@) + 1])]
    /\ Goto(p, IF Len(read'[p]) < 2 THEN "describe"
               ELSE IF p = Verifier THEN "verify" ELSE "sign")
    /\ UNCHANGED <<artifact, proofFile, made, loaded, report, writes>>

\* create_sshsig_proof
Sign(p) ==
    LET signer == [privateKey |-> p, publicKey |-> Signers[p]] IN
    /\ pc[p] = "sign"
    /\ IF MayCreateSshsigProof(read[p], signer)
       THEN /\ made' = [made EXCEPT ![p] = CreateSshsigProofForDescriptor(read[p], signer)]
            /\ Goto(p, "create")
       ELSE UNCHANGED made /\ Goto(p, "failed")
    /\ UNCHANGED <<artifact, proofFile, read, loaded, report, writes>>

CreateProofFile(p) ==
    /\ pc[p] = "create"
    /\ IF proofFile = None
       THEN proofFile' = [state |-> "empty", proof |-> made[p]] /\ Goto(p, "write")
       ELSE UNCHANGED proofFile /\ Goto(p, "exists")
    /\ UNCHANGED <<artifact, read, made, loaded, report, writes>>

WriteProofFile(p) ==
    /\ pc[p] = "write"
    /\ proofFile' = [state |-> "whole", proof |-> made[p]]
    /\ Goto(p, "done")
    /\ UNCHANGED <<artifact, read, made, loaded, report, writes>>

Die(p) ==
    /\ pc[p] \in {"describe", "sign", "create", "write"} /\ p # Verifier
    /\ Goto(p, "dead")
    /\ UNCHANGED <<artifact, proofFile, read, made, loaded, report, writes>>

\* load_proof: what is not the whole JSON does not parse
LoadProof ==
    /\ pc[Verifier] = "load"
    /\ proofFile # None
    /\ IF proofFile.state = "whole"
       THEN loaded' = proofFile.proof /\ Goto(Verifier, "describe")
       ELSE UNCHANGED loaded /\ Goto(Verifier, "failed")
    /\ UNCHANGED <<artifact, proofFile, read, made, report, writes>>

Verify ==
    /\ pc[Verifier] = "verify"
    /\ report' = IF VerifySshsigProofForDescriptor(read[Verifier], loaded)
                 THEN loaded.payload.statement ELSE [failed |-> TRUE]
    /\ Goto(Verifier, "done")
    /\ UNCHANGED <<artifact, proofFile, read, made, loaded, writes>>

WriteArtifact(n, byte) ==
    /\ writes < MaxWrites
    /\ artifact' = [artifact EXCEPT ![n] = byte]
    /\ writes' = writes + 1
    /\ UNCHANGED <<proofFile, pc, read, made, loaded, report>>

Next ==
    \/ \E p \in Processes : Describe(p)
    \/ \E p \in DOMAIN Signers :
          Sign(p) \/ CreateProofFile(p) \/ WriteProofFile(p) \/ Die(p)
    \/ LoadProof \/ Verify
    \/ \E n \in 1 .. 2, byte \in Bytes : WriteArtifact(n, byte)

Spec == Init /\ [][Next]_vars

-----------------------------------------------------------------------------
(* Properties *)

\* Verification reports a signer only if that key, whose holder runs under a
\* key text that is its own, described exactly the bytes the verifier has read
\* now: a file that changed in between is not covered by an old proof.
VerifiedBytesWereSigned ==
    (report # None /\ "key" \in DOMAIN report) =>
        \E p \in DOMAIN Signers :
            /\ p = report.key
            /\ read[p] = read[Verifier]

\* A signer whose private key is not the one its public key names writes
\* nothing (the check after signing in create_sshsig_payload_proof).
MismatchedSignerWritesNothing ==
    proofFile # None => proofFile.proof.value.signer = proofFile.proof.payload.statement.key
=============================================================================
